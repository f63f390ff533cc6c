---------------------------- MODULE ExamPageProofs ----------------------------
(***************************************************************************)
(* Proofs about the student's side of an exam, for any number of requests, *)
(* questions, versions, faults, sockets and retries: AnswerOutbox (the way *)
(* of an answer to the server), ExamSocket (one connection at a time) and  *)
(* SessionEntry (the start of an attempt).                                 *)
(***************************************************************************)
EXTENDS AnswerOutbox, ExamSocket, SessionEntry, FiniteSetTheorems, SequenceTheorems, TLAPS

-------------------------------------------------------------------------------
(* AnswerOutbox: the patches.                                              *)

LEMMA PatchFacts ==
    /\ NoPatch \in Patches
    /\ \A k \in Keys, v \in 1..MaxTyped :
          /\ One(k, v) \in Patches \ {NoPatch} /\ One(k, v)[k] = v
          /\ \A j \in Keys \ {k} : One(k, v)[j] = 0
    /\ \A patch, base \in Patches :
          /\ Over(patch, base) \in Patches
          /\ \A k \in Keys : Over(patch, base)[k] = IF patch[k] # 0 THEN patch[k] ELSE base[k]
    /\ \A patch \in Patches :
          /\ patch # NoPatch <=> KeysOf(patch) # {}
          /\ KeysOf(patch) \subseteq Keys /\ IsFiniteSet(KeysOf(patch))
          /\ \A k \in Keys : patch[k] \in 0..MaxTyped /\ (k \in KeysOf(patch) <=> patch[k] # 0)
<1>1. NoPatch \in Patches
  BY OutboxAssumption DEF NoPatch, Patches
<1>2. ASSUME NEW k \in Keys, NEW v \in 1..MaxTyped
      PROVE  /\ One(k, v) \in Patches \ {NoPatch} /\ One(k, v)[k] = v
             /\ \A j \in Keys \ {k} : One(k, v)[j] = 0
  <2>1. One(k, v)[k] = v /\ NoPatch[k] = 0 /\ One(k, v) \in Patches
    BY OutboxAssumption DEF One, NoPatch, Patches
  <2>2. v # 0
    BY OutboxAssumption
  <2>3. QED
    BY <2>1, <2>2 DEF One, NoPatch
<1>3. ASSUME NEW patch \in Patches, NEW base \in Patches
      PROVE  /\ Over(patch, base) \in Patches
             /\ \A k \in Keys :
                   Over(patch, base)[k] = IF patch[k] # 0 THEN patch[k] ELSE base[k]
  BY DEF Over, Patches
<1>4. ASSUME NEW patch \in Patches
      PROVE  /\ patch # NoPatch <=> KeysOf(patch) # {}
             /\ KeysOf(patch) \subseteq Keys /\ IsFiniteSet(KeysOf(patch))
             /\ \A k \in Keys :
                   patch[k] \in 0..MaxTyped /\ (k \in KeysOf(patch) <=> patch[k] # 0)
  <2>1. KeysOf(patch) \subseteq Keys
    BY DEF KeysOf
  <2>2. IsFiniteSet(KeysOf(patch))
    BY <2>1, OutboxAssumption, FS_Subset
  <2>3. KeysOf(patch) = {} => patch = NoPatch
    BY DEF KeysOf, NoPatch, Patches
  <2>4. KeysOf(NoPatch) = {}
    BY DEF KeysOf, NoPatch
  <2>5. QED
    BY <2>1, <2>2, <2>3, <2>4 DEF KeysOf, Patches
<1>5. QED
  BY <1>1, <1>2, <1>3, <1>4

LEMMA SentIs ==
    ASSUME NEW patch \in Patches \ {NoPatch}, NEW batch \in BOOLEAN
    PROVE  /\ Sent(patch, batch) \in WireMessages /\ Sent(patch, batch).answer = patch
           /\ Sent(patch, batch).live /\ Sent(patch, batch).waiting
           /\ Sent(patch, batch).server = "sent"
BY DEF Sent, WireMessages, ServerOutcomes

-------------------------------------------------------------------------------
(* What the functions of the hook do to the messages.                      *)

LEMMA WireIndex ==
    ASSUME NEW o \in Outboxes
    PROVE  /\ o.wire \in Seq(WireMessages) /\ Len(o.wire) \in Nat
           /\ DOMAIN o.wire = 1..Len(o.wire)
           /\ \A i \in DOMAIN o.wire : o.wire[i] \in WireMessages /\ i \in Nat
           /\ o.pending \in Patches /\ o.latest \in Patches
<1>1. o.wire \in Seq(WireMessages) /\ o.pending \in Patches /\ o.latest \in Patches
  BY DEF Outboxes
<1>2. /\ Len(o.wire) \in Nat /\ DOMAIN o.wire = 1..Len(o.wire)
      /\ \A i \in DOMAIN o.wire : o.wire[i] \in WireMessages
  BY <1>1
<1>3. QED
  BY <1>1, <1>2

\* The messages of w stay where they are, and those after them satisfy P.
Extends(w2, w) ==
    /\ DOMAIN w \subseteq DOMAIN w2
    /\ \A i \in DOMAIN w : w2[i] = w[i]
    /\ \A i \in DOMAIN w, j \in DOMAIN w2 \ DOMAIN w : i < j

LEMMA EmitSaveIs ==
    ASSUME NEW o \in Outboxes, NEW patch \in Patches \ {NoPatch}, NEW batch \in BOOLEAN
    PROVE  LET o2 == EmitSave(o, patch, batch) IN
           /\ o2 \in Outboxes /\ o2.pending = o.pending /\ o2.latest = Over(patch, o.latest)
           /\ Extends(o2.wire, o.wire)
           /\ DOMAIN o2.wire \ DOMAIN o.wire # {}
           /\ \A j \in DOMAIN o2.wire \ DOMAIN o.wire : o2.wire[j] = Sent(patch, batch)
<1> DEFINE m == Sent(patch, batch)
           o2 == EmitSave(o, patch, batch)
<1>1. o.wire \in Seq(WireMessages) /\ m \in WireMessages /\ Over(patch, o.latest) \in Patches
  BY WireIndex, SentIs, PatchFacts
<1>2. o2 = [o EXCEPT !.latest = Over(patch, o.latest), !.wire = Append(o.wire, m)]
  BY DEF EmitSave
<1>3. /\ o2.pending = o.pending /\ o2.latest = Over(patch, o.latest)
      /\ o2.wire = Append(o.wire, m)
  BY <1>2 DEF Outboxes
<1> HIDE DEF m
<1>4. Append(o.wire, m) \in Seq(WireMessages)
  BY <1>1
<1>5. o2 \in Outboxes
  BY <1>1, <1>2, <1>4 DEF Outboxes
<1>6. /\ Len(o.wire) \in Nat /\ DOMAIN o.wire = 1..Len(o.wire)
      /\ DOMAIN o2.wire = 1..(Len(o.wire) + 1)
      /\ \A i \in 1..Len(o.wire) : o2.wire[i] = o.wire[i]
      /\ o2.wire[Len(o.wire) + 1] = m
  BY <1>1, <1>3
<1>7. Len(o.wire) + 1 \in DOMAIN o2.wire \ DOMAIN o.wire
  BY <1>6
<1>8. \A j \in DOMAIN o2.wire \ DOMAIN o.wire : j = Len(o.wire) + 1
  BY <1>6
<1>9. Extends(o2.wire, o.wire)
  BY <1>6 DEF Extends
<1>10. QED
  BY <1>3, <1>5, <1>6, <1>7, <1>8, <1>9 DEF m

LEMMA KeySequence ==
    ASSUME NEW S, IsFiniteSet(S)
    PROVE  LET keys == Wires!SetToSeq(S) IN
           /\ keys \in Seq(S) /\ \A k \in S : \E n \in DOMAIN keys : keys[n] = k
<1> DEFINE n == Cardinality(S)
           keys == Wires!SetToSeq(S)
<1>1. n \in Nat /\ ExistsBijection(1..n, S)
  BY FS_CardinalityType
<1>2. \E f \in [1..n -> S] : IsInjective(f)
  BY <1>1 DEF ExistsBijection, Bijection, Injection, IsInjective
<1>3. keys \in [1..n -> S] /\ IsInjective(keys)
  <2>1. Wires!Cardinality(S) = n
    BY DEF Cardinality, Wires!Cardinality
  <2>2. \A f : IsInjective(f) <=> Wires!IsInjective(f)
    BY DEF IsInjective, Wires!IsInjective
  <2>3. keys = CHOOSE f \in [1..n -> S] : Wires!IsInjective(f)
    BY <2>1 DEF Wires!SetToSeq
  <2>4. QED
    BY <1>2, <2>2, <2>3
<1>4. keys \in Injection(1..n, S)
  BY <1>3 DEF Injection, IsInjective
<1>5. Cardinality(1..n) = n
  BY <1>1, FS_Interval
<1>6. keys \in Surjection(1..n, S)
  BY <1>4, <1>5, FS_Injection
<1>7. QED
  BY <1>1, <1>3, <1>6 DEF Surjection

LEMMA EmitKeysIs ==
    ASSUME NEW o \in Outboxes, NEW patch \in Patches
    PROVE  LET o2 == EmitKeys(o, patch) IN
           /\ o2 \in Outboxes /\ o2.pending = o.pending /\ o2.latest = Over(patch, o.latest)
           /\ Extends(o2.wire, o.wire)
           /\ \A j \in DOMAIN o2.wire \ DOMAIN o.wire :
                 \E k \in KeysOf(patch) : o2.wire[j] = Sent(One(k, patch[k]), FALSE)
           /\ \A k \in KeysOf(patch) : \E j \in DOMAIN o2.wire \ DOMAIN o.wire :
                 o2.wire[j] = Sent(One(k, patch[k]), FALSE)
<1> DEFINE keys == Wires!SetToSeq(KeysOf(patch))
           m(n) == Sent(One(keys[n], patch[keys[n]]), FALSE)
           tail == [n \in DOMAIN keys |-> m(n)]
           o2 == EmitKeys(o, patch)
<1>1. /\ keys \in Seq(KeysOf(patch))
      /\ \A k \in KeysOf(patch) : \E n \in DOMAIN keys : keys[n] = k
  BY PatchFacts, KeySequence
<1>2. o2 = [o EXCEPT !.latest = Over(patch, o.latest), !.wire = o.wire \o tail]
  BY DEF EmitKeys
<1> HIDE DEF keys
<1>3. /\ Len(keys) \in Nat /\ DOMAIN keys = 1..Len(keys)
      /\ \A n \in DOMAIN keys : keys[n] \in KeysOf(patch)
  BY <1>1
<1>4. ASSUME NEW n \in DOMAIN keys PROVE m(n) \in WireMessages
  <2>1. keys[n] \in Keys /\ patch[keys[n]] \in 0..MaxTyped /\ patch[keys[n]] # 0
    BY <1>3, PatchFacts
  <2>2. patch[keys[n]] \in 1..MaxTyped
    BY <2>1, OutboxAssumption
  <2>3. QED
    BY <2>1, <2>2, PatchFacts, SentIs
<1>5. /\ tail \in Seq(WireMessages) /\ Len(tail) = Len(keys)
      /\ \A n \in 1..Len(keys) : tail[n] = m(n)
  <2> HIDE DEF m
  <2>1. tail \in [1..Len(keys) -> WireMessages]
    BY <1>3, <1>4
  <2>2. QED
    BY <1>3, <2>1
<1>6. /\ o.wire \in Seq(WireMessages) /\ Len(o.wire) \in Nat
      /\ DOMAIN o.wire = 1..Len(o.wire) /\ o.latest \in Patches
  BY WireIndex
<1> HIDE DEF tail, m
<1>7. /\ o.wire \o tail \in Seq(WireMessages)
      /\ Len(o.wire \o tail) = Len(o.wire) + Len(keys)
      /\ \A i \in 1..(Len(o.wire) + Len(keys)) : (o.wire \o tail)[i] =
            IF i <= Len(o.wire) THEN o.wire[i] ELSE tail[i - Len(o.wire)]
  <2>1. /\ o.wire \o tail \in Seq(WireMessages)
        /\ Len(o.wire \o tail) = Len(o.wire) + Len(tail)
        /\ \A i \in 1..(Len(o.wire) + Len(tail)) : (o.wire \o tail)[i] =
              IF i <= Len(o.wire) THEN o.wire[i] ELSE tail[i - Len(o.wire)]
    BY <1>5, <1>6, ConcatProperties
  <2>2. QED
    BY <1>5, <2>1
<1>8. /\ o2.pending = o.pending /\ o2.latest = Over(patch, o.latest)
      /\ o2.wire = o.wire \o tail
  BY <1>2 DEF Outboxes
<1>9. o2 \in Outboxes
  <2>1. Over(patch, o.latest) \in Patches
    BY <1>6, PatchFacts
  <2>2. QED
    BY <1>2, <1>7, <2>1 DEF Outboxes
<1> HIDE DEF o2
<1>10. /\ DOMAIN o2.wire = 1..(Len(o.wire) + Len(keys))
       /\ \A i \in 1..Len(o.wire) : o2.wire[i] = o.wire[i]
       /\ \A n \in 1..Len(keys) : o2.wire[Len(o.wire) + n] = m(n)
  <2>1. DOMAIN o2.wire = 1..(Len(o.wire) + Len(keys))
    BY <1>3, <1>6, <1>7, <1>8
  <2>2. ASSUME NEW i \in 1..Len(o.wire) PROVE o2.wire[i] = o.wire[i]
    <3>1. i \in 1..(Len(o.wire) + Len(keys)) /\ i <= Len(o.wire)
      BY <1>3, <1>6
    <3>2. QED
      BY <1>7, <1>8, <3>1
  <2>3. ASSUME NEW n \in 1..Len(keys) PROVE o2.wire[Len(o.wire) + n] = m(n)
    <3>1. /\ Len(o.wire) + n \in 1..(Len(o.wire) + Len(keys))
          /\ ~(Len(o.wire) + n <= Len(o.wire)) /\ Len(o.wire) + n - Len(o.wire) = n
      BY <1>3, <1>6
    <3>2. QED
      BY <1>5, <1>7, <1>8, <3>1
  <2>4. QED
    BY <2>1, <2>2, <2>3
<1>11. \A j \in DOMAIN o2.wire \ DOMAIN o.wire :
          \E n \in 1..Len(keys) : j = Len(o.wire) + n
  <2> TAKE j \in DOMAIN o2.wire \ DOMAIN o.wire
  <2>1. j - Len(o.wire) \in 1..Len(keys) /\ j = Len(o.wire) + (j - Len(o.wire))
    BY <1>3, <1>6, <1>10
  <2>2. QED
    BY <2>1
<1>12. \A n \in 1..Len(keys) : Len(o.wire) + n \in DOMAIN o2.wire \ DOMAIN o.wire
  BY <1>3, <1>6, <1>10
<1>13. Extends(o2.wire, o.wire)
  <2>1. DOMAIN o.wire \subseteq DOMAIN o2.wire
    BY <1>3, <1>6, <1>10
  <2>2. ASSUME NEW i \in DOMAIN o.wire, NEW j \in DOMAIN o2.wire \ DOMAIN o.wire PROVE i < j
    BY <1>3, <1>6, <1>10, <2>2
  <2>3. QED
    BY <1>6, <1>10, <2>1, <2>2 DEF Extends
<1>14. \A j \in DOMAIN o2.wire \ DOMAIN o.wire :
          \E k \in KeysOf(patch) : o2.wire[j] = Sent(One(k, patch[k]), FALSE)
  <2> TAKE j \in DOMAIN o2.wire \ DOMAIN o.wire
  <2>1. PICK n \in 1..Len(keys) : j = Len(o.wire) + n
    BY <1>11
  <2>2. o2.wire[j] = m(n) /\ keys[n] \in KeysOf(patch)
    BY <1>3, <1>10, <2>1
  <2>3. QED
    BY <2>2 DEF m
<1>15. \A k \in KeysOf(patch) : \E j \in DOMAIN o2.wire \ DOMAIN o.wire :
          o2.wire[j] = Sent(One(k, patch[k]), FALSE)
  <2> TAKE k \in KeysOf(patch)
  <2>1. PICK n \in DOMAIN keys : keys[n] = k
    BY <1>1
  <2>2. /\ n \in 1..Len(keys) /\ o2.wire[Len(o.wire) + n] = m(n)
        /\ Len(o.wire) + n \in DOMAIN o2.wire \ DOMAIN o.wire
    BY <1>3, <1>10, <1>12
  <2>3. m(n) = Sent(One(k, patch[k]), FALSE)
    BY <2>1 DEF m
  <2>4. QED
    BY <2>2, <2>3
<1>16. QED
  BY <1>8, <1>9, <1>13, <1>14, <1>15 DEF o2

\* Message i is w2's (if it is there) at the places f maps to it; the others are as in w.
Thins(w2, w, i, f) ==
    /\ f \in [DOMAIN w2 -> DOMAIN w]
    /\ \A m, n \in DOMAIN w2 : m < n => f[m] < f[n]
    /\ \A n \in DOMAIN w2 :
          /\ w2[n].answer = w[f[n]].answer /\ w2[n].live = w[f[n]].live
          /\ w2[n].waiting => w[f[n]].waiting
          /\ f[n] # i => w2[n] = w[f[n]]
    /\ \A j \in DOMAIN w \ {i} : \E n \in DOMAIN w2 : f[n] = j

LEMMA Removed ==
    ASSUME NEW w \in Seq(WireMessages), NEW i \in DOMAIN w
    PROVE  LET w2 == Wires!RemoveAt(w, i) IN
           /\ w2 \in Seq(WireMessages)
           /\ \E f : Thins(w2, w, i, f) /\ \A n \in DOMAIN w2 : f[n] # i
<1> DEFINE n == Len(w)
           head == SubSeq(w, 1, i - 1)
           tail == SubSeq(w, i + 1, n)
           w2 == Wires!RemoveAt(w, i)
           f == [k \in DOMAIN w2 |-> IF k < i THEN k ELSE k + 1]
<1>1. n \in Nat /\ DOMAIN w = 1..n /\ i \in 1..n
  OBVIOUS
<1>2. /\ head \in Seq(WireMessages) /\ Len(head) = i - 1
      /\ \A k \in 1..(i - 1) : head[k] = w[k]
  BY <1>1
<1>3. /\ tail \in Seq(WireMessages) /\ Len(tail) = n - i
      /\ \A k \in 1..(n - i) : tail[k] = w[i + k]
  BY <1>1
<1>4. w2 = head \o tail
  BY DEF Wires!RemoveAt
<1> HIDE DEF head, tail, w2
<1>5. /\ w2 \in Seq(WireMessages) /\ Len(w2) = Len(head) + Len(tail)
      /\ \A k \in 1..(Len(head) + Len(tail)) :
            w2[k] = IF k <= Len(head) THEN head[k] ELSE tail[k - Len(head)]
  BY <1>2, <1>3, <1>4, ConcatProperties
<1>6. Len(head) + Len(tail) = n - 1 /\ DOMAIN w2 = 1..(n - 1)
  BY <1>1, <1>2, <1>3, <1>5
<1>7. ASSUME NEW k \in DOMAIN w2
      PROVE  f[k] \in (1..n) \ {i} /\ w2[k] = w[f[k]]
  <2>1. CASE k < i
    <3>1. k \in 1..(i - 1) /\ k <= Len(head) /\ k \in 1..n /\ k # i
      BY <1>1, <1>2, <1>6, <2>1
    <3>2. QED
      BY <1>2, <1>5, <1>6, <2>1, <3>1
  <2>2. CASE ~(k < i)
    <3>1. /\ k - Len(head) \in 1..(n - i) /\ ~(k <= Len(head))
          /\ i + (k - Len(head)) = k + 1 /\ k + 1 \in 1..n /\ k + 1 # i
      BY <1>1, <1>2, <1>6, <2>2
    <3>2. QED
      BY <1>3, <1>5, <1>6, <2>2, <3>1
  <2>3. QED
    BY <2>1, <2>2
<1>8. \A k, l \in DOMAIN w2 : k < l => f[k] < f[l]
  BY <1>1, <1>6
<1>9. ASSUME NEW j \in DOMAIN w \ {i} PROVE \E k \in DOMAIN w2 : f[k] = j
  <2>1. CASE j < i
    <3>1. j \in DOMAIN w2 /\ f[j] = j
      BY <1>1, <1>6, <2>1
    <3>2. QED
      BY <3>1
  <2>2. CASE ~(j < i)
    <3>1. j - 1 \in DOMAIN w2 /\ f[j - 1] = j
      BY <1>1, <1>6, <2>2
    <3>2. QED
      BY <3>1
  <2>3. QED
    BY <2>1, <2>2
<1>10. f \in [DOMAIN w2 -> DOMAIN w]
  BY <1>1, <1>7
<1> HIDE DEF f
<1>11. Thins(w2, w, i, f)
  BY <1>1, <1>7, <1>8, <1>9, <1>10 DEF Thins
<1>12. QED
  BY <1>5, <1>7, <1>11 DEF w2

LEMMA Changed1 ==
    ASSUME NEW w \in Seq(WireMessages), NEW i \in DOMAIN w, NEW m \in WireMessages,
           m.answer = w[i].answer, m.live = w[i].live, m.waiting => w[i].waiting
    PROVE  LET w2 == [w EXCEPT ![i] = m] IN
           /\ w2 \in Seq(WireMessages) /\ DOMAIN w2 = DOMAIN w /\ w2[i] = m
           /\ Thins(w2, w, i, [n \in DOMAIN w |-> n])
<1>1. DOMAIN w = 1..Len(w) /\ Len(w) \in Nat
  OBVIOUS
<1>2. QED
  BY <1>1 DEF Thins

LEMMA AnsweredIs ==
    ASSUME NEW o \in Outboxes, NEW i \in DOMAIN o.wire
    PROVE  LET o2 == Answered(o, i) IN
           /\ o2 \in Outboxes /\ o2.pending = o.pending /\ o2.latest = o.latest
           /\ \E f : /\ Thins(o2.wire, o.wire, i, f)
                     /\ \A n \in DOMAIN o2.wire :
                           /\ f[n] = i => o2.wire[n].server = "sent"
                           /\ o2.wire[n].server = o.wire[f[n]].server
<1> DEFINE o2 == Answered(o, i)
<1>1. /\ o.wire \in Seq(WireMessages) /\ o.wire[i] \in WireMessages
  BY WireIndex
<1>2. CASE o.wire[i].server = "sent"
  <2> DEFINE m == [o.wire[i] EXCEPT !.waiting = FALSE]
             w2 == [o.wire EXCEPT ![i] = m]
  <2>1. o2 = [o EXCEPT !.wire = w2]
    BY <1>2 DEF Answered
  <2>2. /\ m \in WireMessages /\ m.answer = o.wire[i].answer /\ m.live = o.wire[i].live
        /\ m.waiting = FALSE /\ m.server = "sent"
    BY <1>1, <1>2 DEF WireMessages
  <2> HIDE DEF m
  <2>3. /\ w2 \in Seq(WireMessages) /\ DOMAIN w2 = DOMAIN o.wire /\ w2[i] = m
        /\ Thins(w2, o.wire, i, [n \in DOMAIN o.wire |-> n])
    BY <1>1, <2>2, Changed1
  <2> HIDE DEF w2
  <2>4. o2.wire = w2 /\ o2.pending = o.pending /\ o2.latest = o.latest /\ o2 \in Outboxes
    BY <2>1, <2>3 DEF Outboxes
  <2>5. /\ \A n \in DOMAIN o.wire : [k \in DOMAIN o.wire |-> k][n] = n
        /\ w2[i].server = o.wire[i].server
        /\ \A n \in DOMAIN o.wire \ {i} : w2[n] = o.wire[n]
    BY <1>1, <1>2, <2>2, <2>3 DEF w2
  <2>6. QED
    BY <1>2, <2>3, <2>4, <2>5
<1>3. CASE o.wire[i].server # "sent"
  <2> DEFINE w2 == Wires!RemoveAt(o.wire, i)
  <2>1. o2 = [o EXCEPT !.wire = w2]
    BY <1>3 DEF Answered
  <2>2. w2 \in Seq(WireMessages)
        /\ \E f : Thins(w2, o.wire, i, f) /\ \A n \in DOMAIN w2 : f[n] # i
    BY <1>1, Removed
  <2> HIDE DEF w2
  <2>3. o2.wire = w2 /\ o2.pending = o.pending /\ o2.latest = o.latest /\ o2 \in Outboxes
    BY <2>1, <2>2 DEF Outboxes
  <2>4. QED
    BY <2>2, <2>3 DEF Thins
<1>4. QED
  BY <1>2, <1>3

LEMMA AtServerIs ==
    ASSUME NEW o \in Outboxes, NEW i \in DOMAIN o.wire, NEW outcome \in ServerOutcomes
    PROVE  LET o2 == AtServer(o, i, outcome) IN
           /\ o2 \in Outboxes /\ o2.pending = o.pending /\ o2.latest = o.latest
           /\ \E f : /\ Thins(o2.wire, o.wire, i, f)
                     /\ \A n \in DOMAIN o2.wire : f[n] = i =>
                           o2.wire[n].server = outcome /\ o2.wire[n].waiting
                     /\ o.wire[i].waiting => \E n \in DOMAIN o2.wire : f[n] = i
<1> DEFINE o2 == AtServer(o, i, outcome)
<1>1. /\ o.wire \in Seq(WireMessages) /\ o.wire[i] \in WireMessages
  BY WireIndex
<1>2. CASE o.wire[i].waiting
  <2> DEFINE m == [o.wire[i] EXCEPT !.server = outcome]
             w2 == [o.wire EXCEPT ![i] = m]
  <2>1. o2 = [o EXCEPT !.wire = w2]
    BY <1>2 DEF AtServer
  <2>2. /\ m \in WireMessages /\ m.answer = o.wire[i].answer /\ m.live = o.wire[i].live
        /\ m.waiting = o.wire[i].waiting /\ m.server = outcome
    BY <1>1 DEF WireMessages
  <2> HIDE DEF m
  <2>3. /\ w2 \in Seq(WireMessages) /\ DOMAIN w2 = DOMAIN o.wire /\ w2[i] = m
        /\ Thins(w2, o.wire, i, [n \in DOMAIN o.wire |-> n])
    BY <1>1, <2>2, Changed1
  <2> HIDE DEF w2
  <2>4. o2.wire = w2 /\ o2.pending = o.pending /\ o2.latest = o.latest /\ o2 \in Outboxes
    BY <2>1, <2>3 DEF Outboxes
  <2>5. /\ \A n \in DOMAIN o.wire : [k \in DOMAIN o.wire |-> k][n] = n
        /\ w2[i].server = outcome /\ w2[i].waiting
    BY <1>2, <2>2, <2>3
  <2>6. QED
    BY <2>3, <2>4, <2>5
<1>3. CASE ~o.wire[i].waiting
  <2> DEFINE w2 == Wires!RemoveAt(o.wire, i)
  <2>1. o2 = [o EXCEPT !.wire = w2]
    BY <1>3 DEF AtServer
  <2>2. w2 \in Seq(WireMessages)
        /\ \E f : Thins(w2, o.wire, i, f) /\ \A n \in DOMAIN w2 : f[n] # i
    BY <1>1, Removed
  <2> HIDE DEF w2
  <2>3. o2.wire = w2 /\ o2.pending = o.pending /\ o2.latest = o.latest /\ o2 \in Outboxes
    BY <2>1, <2>2 DEF Outboxes
  <2>4. QED
    BY <1>3, <2>2, <2>3
<1>4. QED
  BY <1>2, <1>3

\* A step of the hook that sends what it has queued, or is given, over a connection.
Emission(o, o2, up) ==
    /\ o2 \in Outboxes /\ Extends(o2.wire, o.wire)
    /\ \A j \in DOMAIN o2.wire \ DOMAIN o.wire :
          /\ up /\ o2.wire[j].live /\ o2.wire[j].waiting /\ o2.wire[j].server = "sent"
          /\ \A k \in Keys : o2.wire[j].answer[k] \in {0, o2.latest[k]}

\* Version v of key k is in the queue afterwards, or on its way and the last one sent.
Carries(o, o2, k, v) ==
    \/ o2.pending[k] = v /\ o2.latest[k] = o.latest[k]
    \/ /\ o2.pending[k] = 0 /\ o2.latest[k] = v
       /\ \E j \in DOMAIN o2.wire \ DOMAIN o.wire : o2.wire[j].answer[k] = v
Untouched(o, o2, k) == o2.pending[k] = o.pending[k] /\ o2.latest[k] = o.latest[k]

LEMMA NothingSent ==
    ASSUME NEW o \in Outboxes, NEW o2 \in Outboxes, o2.wire = o.wire, NEW up
    PROVE  Emission(o, o2, up)
<1>1. DOMAIN o2.wire \ DOMAIN o.wire = {}
  OBVIOUS
<1>2. QED
  BY <1>1 DEF Emission, Extends

LEMMA QueueAnswerIs ==
    ASSUME NEW o \in Outboxes, NEW j \in Keys, NEW v \in 1..MaxTyped, connected \in BOOLEAN
    PROVE  LET o2 == QueueAnswer(o, j, v) IN
           /\ Emission(o, o2, connected) /\ Carries(o, o2, j, v)
           /\ \A k \in Keys \ {j} : Untouched(o, o2, k)
<1> DEFINE o2 == QueueAnswer(o, j, v)
<1>1. /\ o.pending \in Patches /\ o.latest \in Patches /\ v # 0 /\ v \in 0..MaxTyped
      /\ 0 \in 0..MaxTyped
  BY WireIndex, OutboxAssumption
<1>2. CASE connected
  <2> DEFINE o1 == [o EXCEPT !.pending[j] = 0]
  <2>1. /\ o1 \in Outboxes /\ o1.wire = o.wire /\ o1.latest = o.latest
        /\ o1.pending[j] = 0 /\ \A k \in Keys \ {j} : o1.pending[k] = o.pending[k]
    BY <1>1 DEF Outboxes, Patches
  <2>2. o2 = EmitSave(o1, One(j, v), FALSE)
    BY <1>2 DEF QueueAnswer
  <2> HIDE DEF o1, o2
  <2>3. /\ One(j, v) \in Patches \ {NoPatch} /\ One(j, v)[j] = v
        /\ \A k \in Keys \ {j} : One(j, v)[k] = 0
    BY PatchFacts
  <2>4. /\ o2 \in Outboxes /\ o2.pending = o1.pending /\ o2.latest = Over(One(j, v), o.latest)
        /\ Extends(o2.wire, o.wire)
        /\ DOMAIN o2.wire \ DOMAIN o.wire # {}
        /\ \A n \in DOMAIN o2.wire \ DOMAIN o.wire : o2.wire[n] = Sent(One(j, v), FALSE)
    <3>1. /\ o2 \in Outboxes /\ o2.pending = o1.pending
          /\ o2.latest = Over(One(j, v), o1.latest)
          /\ Extends(o2.wire, o1.wire)
          /\ DOMAIN o2.wire \ DOMAIN o1.wire # {}
          /\ \A n \in DOMAIN o2.wire \ DOMAIN o1.wire : o2.wire[n] = Sent(One(j, v), FALSE)
      BY <2>1, <2>2, <2>3, EmitSaveIs, Zenon
    <3>2. QED
      BY <2>1, <3>1
  <2>5. o2.latest[j] = v /\ \A k \in Keys \ {j} : o2.latest[k] = o.latest[k]
    BY <1>1, <2>3, <2>4, PatchFacts
  <2>6. /\ Sent(One(j, v), FALSE).answer = One(j, v)
        /\ Sent(One(j, v), FALSE).live /\ Sent(One(j, v), FALSE).waiting
        /\ Sent(One(j, v), FALSE).server = "sent"
    BY <2>3, SentIs
  <2>7. Emission(o, o2, connected)
    <3>1. ASSUME NEW n \in DOMAIN o2.wire \ DOMAIN o.wire
          PROVE  /\ o2.wire[n].live /\ o2.wire[n].waiting /\ o2.wire[n].server = "sent"
                 /\ \A k \in Keys : o2.wire[n].answer[k] \in {0, o2.latest[k]}
      <4>1. o2.wire[n] = Sent(One(j, v), FALSE)
        BY <2>4
      <4>2. /\ o2.wire[n].live /\ o2.wire[n].waiting /\ o2.wire[n].server = "sent"
            /\ o2.wire[n].answer = One(j, v)
        BY <2>6, <4>1, Zenon
      <4>3. QED
        BY <2>3, <2>5, <4>2
    <3>2. QED
      BY <1>2, <2>4, <3>1 DEF Emission
  <2>8. Carries(o, o2, j, v)
    <3>1. PICK n \in DOMAIN o2.wire \ DOMAIN o.wire : o2.wire[n] = Sent(One(j, v), FALSE)
      BY <2>4
    <3>2. o2.wire[n].answer[j] = v /\ o2.pending[j] = 0
      BY <2>1, <2>3, <2>4, <2>6, <3>1
    <3>3. QED
      BY <2>5, <3>2 DEF Carries
  <2>9. QED
    BY <2>1, <2>4, <2>5, <2>7, <2>8 DEF Untouched, o2
<1>3. CASE ~connected
  <2>1. o2 = [o EXCEPT !.pending[j] = v]
    BY <1>3 DEF QueueAnswer
  <2>2. /\ o2 \in Outboxes /\ o2.wire = o.wire /\ o2.latest = o.latest
        /\ o2.pending[j] = v /\ \A k \in Keys \ {j} : o2.pending[k] = o.pending[k]
    BY <1>1, <2>1 DEF Outboxes, Patches
  <2>3. QED
    BY <2>2, NothingSent DEF Carries, Untouched
<1>4. QED
  BY <1>2, <1>3

LEMMA FlushPendingIs ==
    ASSUME NEW o \in Outboxes
    PROVE  LET o2 == FlushPending(o) IN
           /\ Emission(o, o2, TRUE)
           /\ \A k \in Keys : IF o.pending[k] = 0 THEN Untouched(o, o2, k)
                             ELSE Carries(o, o2, k, o.pending[k])
<1> DEFINE o2 == FlushPending(o)
<1>1. o.pending \in Patches /\ o.latest \in Patches /\ NoPatch \in Patches
  BY WireIndex, PatchFacts
<1>2. CASE o.pending = NoPatch
  <2>1. o2 = o /\ \A k \in Keys : o.pending[k] = 0
    <3>1. \A k \in Keys : NoPatch[k] = 0
      BY DEF NoPatch
    <3>2. QED
      BY <1>2, <3>1 DEF FlushPending
  <2>2. Emission(o, o2, TRUE)
    BY <2>1, NothingSent
  <2>3. QED
    BY <2>1, <2>2 DEF Untouched
<1>3. CASE o.pending # NoPatch
  <2> DEFINE o1 == [o EXCEPT !.pending = NoPatch]
  <2>1. o1 \in Outboxes /\ o1.wire = o.wire /\ o1.latest = o.latest /\ o1.pending = NoPatch
    BY <1>1 DEF Outboxes
  <2>2. o2 = EmitSave(o1, o.pending, TRUE)
    BY <1>3 DEF FlushPending
  <2> HIDE DEF o1, o2
  <2>3. /\ o2 \in Outboxes /\ o2.pending = NoPatch /\ o2.latest = Over(o.pending, o.latest)
        /\ Extends(o2.wire, o.wire)
        /\ DOMAIN o2.wire \ DOMAIN o.wire # {}
        /\ \A n \in DOMAIN o2.wire \ DOMAIN o.wire : o2.wire[n] = Sent(o.pending, TRUE)
    <3>1. /\ o2 \in Outboxes /\ o2.pending = o1.pending
          /\ o2.latest = Over(o.pending, o1.latest)
          /\ Extends(o2.wire, o1.wire)
          /\ DOMAIN o2.wire \ DOMAIN o1.wire # {}
          /\ \A n \in DOMAIN o2.wire \ DOMAIN o1.wire : o2.wire[n] = Sent(o.pending, TRUE)
      BY <1>1, <1>3, <2>1, <2>2, EmitSaveIs, Zenon
    <3>2. QED
      BY <2>1, <3>1
  <2>4. \A k \in Keys : o2.pending[k] = 0
                      /\ o2.latest[k] = IF o.pending[k] # 0 THEN o.pending[k] ELSE o.latest[k]
    BY <1>1, <2>3, PatchFacts DEF NoPatch
  <2>5. /\ Sent(o.pending, TRUE).answer = o.pending
        /\ Sent(o.pending, TRUE).live /\ Sent(o.pending, TRUE).waiting
        /\ Sent(o.pending, TRUE).server = "sent"
    BY <1>1, <1>3, SentIs
  <2>6. Emission(o, o2, TRUE)
    BY <2>3, <2>4, <2>5 DEF Emission
  <2>7. \A k \in Keys : o.pending[k] # 0 => Carries(o, o2, k, o.pending[k])
    BY <2>3, <2>4, <2>5 DEF Carries
  <2>8. \A k \in Keys : o.pending[k] = 0 => Untouched(o, o2, k)
    BY <2>4 DEF Untouched
  <2>9. QED
    BY <2>6, <2>7, <2>8 DEF o2
<1>4. QED
  BY <1>2, <1>3

-------------------------------------------------------------------------------
(* AnswerOutbox: the order of the versions, and where the last one is.     *)

\* The versions v of key k that the server has, that were sent, wait to be sent again and
\* were typed (t) follow each other, and a later message has a later one.
VersionsOrdered(o, k, v, t) ==
    /\ v <= o.latest[k] /\ o.latest[k] <= t
    /\ o.pending[k] # 0 => o.latest[k] <= o.pending[k] /\ o.pending[k] <= t
    /\ \A i \in DOMAIN o.wire : o.wire[i].answer[k] <= o.latest[k]
    /\ \A i, j \in DOMAIN o.wire : i < j /\ o.wire[j].answer[k] # 0
          => o.wire[i].answer[k] <= o.wire[j].answer[k]

\* What the server has is no newer than what a connection that is up will bring.
NotAhead(o, k, v) ==
    \A j \in DOMAIN o.wire :
        o.wire[j].live /\ o.wire[j].server = "sent" /\ o.wire[j].answer[k] # 0
        => v <= o.wire[j].answer[k]

\* Messages of a dropped connection were sent before those of the next one.
DroppedFirst(o) ==
    \A i, j \in DOMAIN o.wire : ~o.wire[i].live /\ o.wire[j].live => i < j

StillThere(o, k, t) ==
    \/ o.pending[k] = t
    \/ \E i \in DOMAIN o.wire : o.wire[i].waiting /\ o.wire[i].answer[k] = t

OrderInv ==
    /\ DroppedFirst(outbox)
    /\ \A k \in Keys : typed[k] <= versions /\ held[k] \in {0, typed[k]}
    /\ \A k \in Keys \ overtaken :
          /\ VersionsOrdered(outbox, k, saved[k], typed[k])
          /\ inOrder => NotAhead(outbox, k, saved[k])

HandInv ==
    /\ \A i \in Messages : Message(i).server = "saved" =>
          VersionsOf(Message(i).answer) \subseteq received
    /\ \A k \in Keys \ overtaken :
          Settled(k) \/ held[k] = typed[k] \/ StillThere(outbox, k, typed[k])

LEMMA AnswerIs ==
    ASSUME NEW o \in Outboxes
    PROVE  /\ \A i \in DOMAIN o.wire, k \in Keys : o.wire[i].answer[k] \in Nat
           /\ \A k \in Keys : o.latest[k] \in Nat /\ o.pending[k] \in Nat
           /\ \A i, j \in DOMAIN o.wire : i \in Nat /\ j \in Nat
           /\ \A i \in DOMAIN o.wire : o.wire[i].live \in BOOLEAN
<1>1. \A patch \in Patches : \A k \in Keys : patch[k] \in Nat
  BY OutboxAssumption DEF Patches
<1>2. \A i \in DOMAIN o.wire : o.wire[i].answer \in Patches /\ o.wire[i].live \in BOOLEAN
                             /\ i \in Nat
  BY WireIndex DEF WireMessages
<1>3. QED
  BY <1>1, <1>2, WireIndex

\* Whatever is sent is at least as new as what was sent before.
LEMMA EmissionOrdered ==
    ASSUME NEW o \in Outboxes, NEW o2, NEW up, Emission(o, o2, up), NEW k \in Keys,
           NEW v \in Nat, NEW t \in Nat, VersionsOrdered(o, k, v, t),
           o.latest[k] <= o2.latest[k], o2.latest[k] <= t,
           o2.pending[k] # 0 => o2.latest[k] <= o2.pending[k] /\ o2.pending[k] <= t
    PROVE  VersionsOrdered(o2, k, v, t) /\ (NotAhead(o, k, v) => NotAhead(o2, k, v))
<1> DEFINE New == DOMAIN o2.wire \ DOMAIN o.wire
<1>1. /\ o2 \in Outboxes /\ DOMAIN o.wire \subseteq DOMAIN o2.wire
      /\ \A i \in DOMAIN o.wire : o2.wire[i] = o.wire[i]
      /\ \A i \in DOMAIN o.wire, j \in New : i < j
      /\ \A j \in New : o2.wire[j].answer[k] \in {0, o2.latest[k]}
  BY DEF Emission, Extends
<1>2. /\ \A i \in DOMAIN o2.wire : o2.wire[i].answer[k] \in Nat /\ i \in Nat
      /\ o.latest[k] \in Nat /\ o2.latest[k] \in Nat
  BY <1>1, AnswerIs
<1>3. \A i \in DOMAIN o2.wire : o2.wire[i].answer[k] <= o2.latest[k]
  <2> TAKE i \in DOMAIN o2.wire
  <2>1. CASE i \in DOMAIN o.wire
    BY <1>1, <1>2, <2>1 DEF VersionsOrdered
  <2>2. CASE i \in New
    BY <1>1, <1>2, <2>2
  <2>3. QED
    BY <2>1, <2>2
<1>4. ASSUME NEW i \in DOMAIN o2.wire, NEW j \in DOMAIN o2.wire, i < j,
             o2.wire[j].answer[k] # 0
      PROVE  o2.wire[i].answer[k] <= o2.wire[j].answer[k]
  <2>1. CASE j \in New
    BY <1>1, <1>3, <1>4, <2>1
  <2>2. CASE j \notin New
    <3>1. i \in DOMAIN o.wire
      BY <1>1, <1>2, <1>4, <2>2
    <3>2. QED
      BY <1>1, <1>4, <2>2, <3>1 DEF VersionsOrdered
  <2>3. QED
    BY <2>1, <2>2
<1>5. ASSUME NotAhead(o, k, v), NEW j \in DOMAIN o2.wire,
             o2.wire[j].live, o2.wire[j].server = "sent", o2.wire[j].answer[k] # 0
      PROVE  v <= o2.wire[j].answer[k]
  <2>1. CASE j \in New
    BY <1>1, <1>2, <1>5, <2>1 DEF VersionsOrdered
  <2>2. CASE j \in DOMAIN o.wire
    BY <1>1, <1>5, <2>2 DEF NotAhead
  <2>3. QED
    BY <2>1, <2>2
<1>6. v <= o2.latest[k]
  BY <1>2 DEF VersionsOrdered
<1>7. QED
  BY <1>3, <1>4, <1>5, <1>6 DEF VersionsOrdered, NotAhead

LEMMA EmissionKeeps ==
    ASSUME NEW o \in Outboxes, NEW o2, NEW up, Emission(o, o2, up), DroppedFirst(o)
    PROVE  /\ DroppedFirst(o2)
           /\ \A k \in Keys : \A t : Carries(o, o2, k, t) => StillThere(o2, k, t)
           /\ \A k \in Keys : \A t :
                 Untouched(o, o2, k) /\ StillThere(o, k, t) => StillThere(o2, k, t)
           /\ \A k \in Keys, t \in Nat \ {0} :
                 Carries(o, o2, k, o.pending[k]) /\ StillThere(o, k, t)
                 => StillThere(o2, k, t)
<1> DEFINE New == DOMAIN o2.wire \ DOMAIN o.wire
<1>1. /\ DOMAIN o.wire \subseteq DOMAIN o2.wire
      /\ \A i \in DOMAIN o.wire : o2.wire[i] = o.wire[i]
      /\ \A i \in DOMAIN o.wire, j \in New : i < j
      /\ \A j \in New : o2.wire[j].live /\ o2.wire[j].waiting
  BY DEF Emission, Extends
<1>2. ASSUME NEW i \in DOMAIN o2.wire, NEW j \in DOMAIN o2.wire,
             ~o2.wire[i].live, o2.wire[j].live
      PROVE  i < j
  BY <1>1, <1>2 DEF DroppedFirst
<1>3. \A k \in Keys : \A t : Carries(o, o2, k, t) => StillThere(o2, k, t)
  BY <1>1 DEF Carries, StillThere
<1>4. ASSUME NEW k, NEW t, NEW i \in DOMAIN o.wire, o.wire[i].waiting,
             o.wire[i].answer[k] = t
      PROVE  StillThere(o2, k, t)
  <2>1. i \in DOMAIN o2.wire /\ o2.wire[i] = o.wire[i]
    BY <1>1
  <2>2. QED
    BY <1>4, <2>1 DEF StillThere
<1>5. QED
  BY <1>2, <1>3, <1>4 DEF DroppedFirst, StillThere, Untouched

\* A message that is dealt with leaves the others as they are.
LEMMA ThinsKeeps ==
    ASSUME NEW o \in Outboxes, NEW o2 \in Outboxes, NEW i \in DOMAIN o.wire, NEW f,
           Thins(o2.wire, o.wire, i, f),
           o2.pending = o.pending, o2.latest = o.latest,
           \A n \in DOMAIN o2.wire : f[n] = i /\ o2.wire[n].server = "sent"
                                   => o.wire[i].server = "sent"
    PROVE  /\ DroppedFirst(o) => DroppedFirst(o2)
           /\ \A k \in Keys, v \in Nat, t \in Nat :
                 VersionsOrdered(o, k, v, t) => VersionsOrdered(o2, k, v, t)
           /\ \A k \in Keys, v \in Nat : NotAhead(o, k, v) => NotAhead(o2, k, v)
           /\ \A k \in Keys : \A t : StillThere(o, k, t) =>
                 \/ o.wire[i].waiting /\ o.wire[i].answer[k] = t
                 \/ StillThere(o2, k, t)
<1>1. /\ \A n \in DOMAIN o2.wire :
            /\ f[n] \in DOMAIN o.wire /\ o2.wire[n].answer = o.wire[f[n]].answer
            /\ o2.wire[n].live = o.wire[f[n]].live
            /\ f[n] # i => o2.wire[n] = o.wire[f[n]]
      /\ \A m, n \in DOMAIN o2.wire : m < n => f[m] < f[n]
      /\ \A j \in DOMAIN o.wire \ {i} : \E n \in DOMAIN o2.wire : f[n] = j
  BY DEF Thins
<1>2. /\ \A n \in DOMAIN o2.wire : n \in Nat
      /\ \A n \in DOMAIN o.wire : n \in Nat
  BY AnswerIs
<1>3. ASSUME DroppedFirst(o), NEW m \in DOMAIN o2.wire, NEW n \in DOMAIN o2.wire,
             ~o2.wire[m].live, o2.wire[n].live
      PROVE  m < n
  <2>1. f[m] < f[n]
    BY <1>1, <1>3 DEF DroppedFirst
  <2>2. m # n /\ ~(n < m)
    BY <1>1, <1>2, <2>1
  <2>3. QED
    BY <1>2, <2>2
<1>4. ASSUME NEW k \in Keys, NEW v \in Nat, NEW t \in Nat, VersionsOrdered(o, k, v, t)
      PROVE  VersionsOrdered(o2, k, v, t)
  BY <1>1, <1>4 DEF VersionsOrdered
<1>5. ASSUME NEW k \in Keys, NEW v \in Nat, NotAhead(o, k, v) PROVE NotAhead(o2, k, v)
  BY <1>1, <1>5 DEF NotAhead
<1>6. ASSUME NEW k \in Keys, NEW t, StillThere(o, k, t),
             ~(o.wire[i].waiting /\ o.wire[i].answer[k] = t)
      PROVE  StillThere(o2, k, t)
  <2>1. CASE o.pending[k] = t
    BY <2>1 DEF StillThere
  <2>2. CASE o.pending[k] # t
    <3>1. PICK j \in DOMAIN o.wire \ {i} : o.wire[j].waiting /\ o.wire[j].answer[k] = t
      BY <1>6, <2>2 DEF StillThere
    <3>2. PICK n \in DOMAIN o2.wire : f[n] = j
      BY <1>1
    <3>3. o2.wire[n] = o.wire[j]
      BY <1>1, <3>2
    <3>4. QED
      BY <3>1, <3>3 DEF StillThere
  <2>3. QED
    BY <2>1, <2>2
<1>7. QED
  BY <1>3, <1>4, <1>5, <1>6 DEF DroppedFirst

LEMMA CarriesOrdered ==
    ASSUME NEW o \in Outboxes, NEW o2, NEW up, Emission(o, o2, up), NEW k \in Keys,
           NEW v \in Nat, NEW t \in Nat, VersionsOrdered(o, k, v, t),
           \/ Untouched(o, o2, k)
           \/ \E w \in Nat : Carries(o, o2, k, w) /\ o.latest[k] <= w /\ w <= t
    PROVE  VersionsOrdered(o2, k, v, t) /\ (NotAhead(o, k, v) => NotAhead(o2, k, v))
<1>1. o.latest[k] \in Nat /\ o.pending[k] \in Nat
  BY AnswerIs
<1>2. /\ o.latest[k] <= o2.latest[k] /\ o2.latest[k] <= t
      /\ o2.pending[k] # 0 => o2.latest[k] <= o2.pending[k] /\ o2.pending[k] <= t
  <2>1. CASE Untouched(o, o2, k)
    BY <1>1, <2>1 DEF Untouched, VersionsOrdered
  <2>2. ASSUME NEW w \in Nat, Carries(o, o2, k, w), o.latest[k] <= w, w <= t
        PROVE  /\ o.latest[k] <= o2.latest[k] /\ o2.latest[k] <= t
               /\ o2.pending[k] # 0 => o2.latest[k] <= o2.pending[k] /\ o2.pending[k] <= t
    BY <1>1, <2>2 DEF Carries, VersionsOrdered
  <2>3. QED
    BY <2>1, <2>2
<1>3. QED
  BY <1>2, EmissionOrdered

LEMMA OutboxFacts ==
    ASSUME OutboxTypeOK
    PROVE  /\ outbox \in Outboxes /\ connected \in BOOLEAN /\ Messages = DOMAIN outbox.wire
           /\ \A k \in Keys : typed[k] \in Nat /\ held[k] \in Nat /\ saved[k] \in Nat
           /\ \A k \in Keys : held[k] \in 0..MaxTyped
           /\ typed \in Patches /\ held \in Patches /\ saved \in Patches
           /\ \A i \in DOMAIN outbox.wire :
                 /\ outbox.wire[i] \in WireMessages /\ outbox.wire[i].answer \in Patches
                 /\ outbox.wire[i].live => connected
           /\ MaxTyped \in Nat
<1>1. /\ outbox \in Outboxes /\ connected \in BOOLEAN /\ Messages = DOMAIN outbox.wire
      /\ typed \in Patches /\ held \in Patches /\ saved \in Patches
      /\ \A i \in DOMAIN outbox.wire : outbox.wire[i].live => connected
  BY DEF OutboxTypeOK, Messages, Message
<1>2. \A i \in DOMAIN outbox.wire :
          outbox.wire[i] \in WireMessages /\ outbox.wire[i].answer \in Patches
  BY <1>1, WireIndex DEF WireMessages
<1>3. MaxTyped \in Nat /\ \A patch \in Patches : \A k \in Keys :
          patch[k] \in Nat /\ patch[k] \in 0..MaxTyped
  BY OutboxAssumption DEF Patches
<1>4. QED
  BY <1>1, <1>2, <1>3

LEMMA FlushHeldIs ==
    ASSUME OutboxTypeOK
    PROVE  LET o2 == FlushHeld(outbox) IN
           /\ Emission(outbox, o2, connected)
           /\ \A k \in Keys : IF held[k] = 0 THEN Untouched(outbox, o2, k)
                             ELSE Carries(outbox, o2, k, held[k])
           /\ \A j, k \in Keys : held[j] # 0 /\ held[k] # 0 => j = k
<1> DEFINE o2 == FlushHeld(outbox)
           h == CHOOSE k \in KeysOf(held) : TRUE
<1>1. /\ outbox \in Outboxes /\ connected \in BOOLEAN /\ held \in Patches
      /\ \A k \in Keys : held[k] \in 0..MaxTyped /\ (k \in KeysOf(held) <=> held[k] # 0)
      /\ KeysOf(held) \subseteq Keys /\ IsFiniteSet(KeysOf(held))
      /\ Cardinality(KeysOf(held)) <= 1 /\ MaxTyped \in Nat
  BY OutboxFacts, PatchFacts DEF OutboxTypeOK
<1>2. CASE held = NoPatch
  <2>1. o2 = outbox /\ \A k \in Keys : held[k] = 0
    <3>1. \A k \in Keys : NoPatch[k] = 0
      BY DEF NoPatch
    <3>2. QED
      BY <1>2, <3>1 DEF FlushHeld
  <2>2. Emission(outbox, o2, connected)
    BY <1>1, <2>1, NothingSent
  <2>3. QED
    BY <2>1, <2>2 DEF Untouched
<1>3. CASE held # NoPatch
  <2>1. KeysOf(held) # {}
    BY <1>1, <1>3, PatchFacts
  <2>2. \E k : KeysOf(held) = {k}
    <3>1. Cardinality(KeysOf(held)) \in Nat /\ Cardinality(KeysOf(held)) # 0
      BY <1>1, <2>1, FS_CardinalityType, FS_EmptySet
    <3>2. Cardinality(KeysOf(held)) = 1
      BY <1>1, <3>1
    <3>3. QED
      BY <1>1, <3>2, FS_Singleton
  <2>3. h \in KeysOf(held) /\ \A k \in KeysOf(held) : k = h
    BY <2>2
  <2>4. o2 = QueueAnswer(outbox, h, held[h])
    BY <1>3 DEF FlushHeld
  <2> HIDE DEF h, o2
  <2>5. h \in Keys /\ held[h] \in 1..MaxTyped
    BY <1>1, <2>3
  <2>6. /\ Emission(outbox, o2, connected) /\ Carries(outbox, o2, h, held[h])
        /\ \A k \in Keys \ {h} : Untouched(outbox, o2, k)
    BY <1>1, <2>4, <2>5, QueueAnswerIs
  <2>7. \A k \in Keys : held[k] # 0 <=> k = h
    BY <1>1, <2>3, <2>5
  <2>8. QED
    BY <2>6, <2>7 DEF o2
<1>4. QED
  BY <1>2, <1>3

LEMMA EmissionType ==
    ASSUME NEW o \in Outboxes, NEW o2, NEW up, Emission(o, o2, up), NEW c, up => c,
           \A i \in DOMAIN o.wire : o.wire[i].live => c
    PROVE  o2 \in Outboxes /\ \A i \in DOMAIN o2.wire : o2.wire[i].live => c
<1>1. /\ o2 \in Outboxes /\ \A i \in DOMAIN o.wire : o2.wire[i] = o.wire[i]
      /\ \A j \in DOMAIN o2.wire \ DOMAIN o.wire : up
  BY DEF Emission, Extends
<1>2. QED
  BY <1>1

\* The page or the hook sends something: what is asked of each key.
LEMMA EmissionStep ==
    ASSUME OutboxTypeOK, OrderInv, HandInv, NEW up \in BOOLEAN, up => connected',
           Emission(outbox, outbox', up),
           connected => connected', typed' \in Patches, held' \in Patches,
           versions' \in 0..MaxTyped,
           UNCHANGED <<inOrder, saved, historyVars>>,
           \A k \in Keys :
              /\ typed[k] <= typed'[k] /\ typed'[k] <= versions' /\ held'[k] \in {0, typed'[k]}
              /\ \/ Untouched(outbox, outbox', k)
                 \/ k \notin overtaken => \E w \in Nat :
                       /\ Carries(outbox, outbox', k, w)
                       /\ outbox.latest[k] <= w /\ w <= typed'[k]
              /\ k \notin overtaken => \/ typed'[k] = 0 \/ held'[k] = typed'[k]
                                       \/ StillThere(outbox', k, typed'[k])
                                       \/ /\ typed'[k] = typed[k] /\ held[k] = 0
                                          /\ \/ Untouched(outbox, outbox', k)
                                             \/ StillThere(outbox, k, typed[k]) =>
                                                  StillThere(outbox', k, typed[k])
    PROVE  /\ OrderInv' /\ HandInv' /\ outbox' \in Outboxes
           /\ \A i \in Messages' : Message(i)'.live => connected'
<1>1. /\ outbox \in Outboxes /\ connected \in BOOLEAN /\ Messages = DOMAIN outbox.wire
      /\ Messages' = DOMAIN outbox'.wire
      /\ \A k \in Keys : typed[k] \in Nat /\ saved[k] \in Nat /\ typed'[k] \in Nat
      /\ \A i \in DOMAIN outbox.wire : outbox.wire[i].live => connected'
  BY OutboxFacts, PatchFacts, OutboxAssumption DEF Messages
<1>2. outbox' \in Outboxes /\ \A i \in DOMAIN outbox'.wire : outbox'.wire[i].live => connected'
  BY <1>1, EmissionType
<1>3. DroppedFirst(outbox')
  BY <1>1, EmissionKeeps DEF OrderInv
<1>4. ASSUME NEW k \in Keys \ overtaken
      PROVE  /\ VersionsOrdered(outbox', k, saved[k], typed'[k])
             /\ inOrder => NotAhead(outbox', k, saved[k])
  <2>1. outbox.latest[k] \in Nat /\ outbox.pending[k] \in Nat
    BY <1>1, AnswerIs
  <2>2. VersionsOrdered(outbox, k, saved[k], typed'[k])
    BY <1>1, <2>1 DEF OrderInv, VersionsOrdered
  <2>3. \/ Untouched(outbox, outbox', k)
        \/ \E w \in Nat : Carries(outbox, outbox', k, w)
                          /\ outbox.latest[k] <= w /\ w <= typed'[k]
    OBVIOUS
  <2>4. /\ VersionsOrdered(outbox', k, saved[k], typed'[k])
        /\ NotAhead(outbox, k, saved[k]) => NotAhead(outbox', k, saved[k])
    BY <1>1, <2>2, <2>3, CarriesOrdered
  <2>5. QED
    BY <2>4 DEF OrderInv
<1>5. OrderInv'
  BY <1>3, <1>4 DEF OrderInv, historyVars
<1>6. ASSUME NEW i \in DOMAIN outbox'.wire, outbox'.wire[i].server = "saved"
      PROVE  VersionsOf(outbox'.wire[i].answer) \subseteq received
  <2>1. i \in DOMAIN outbox.wire /\ outbox'.wire[i] = outbox.wire[i]
    BY <1>6 DEF Emission, Extends
  <2>2. QED
    BY <1>1, <1>6, <2>1 DEF HandInv, Message
<1>7. ASSUME NEW k \in Keys \ overtaken
      PROVE  Settled(k)' \/ held'[k] = typed'[k] \/ StillThere(outbox', k, typed'[k])
  <2>1. CASE typed'[k] = 0
    BY <2>1 DEF Settled
  <2>2. CASE typed'[k] = typed[k] /\ held[k] = 0 /\ typed'[k] # 0
    <3>1. Settled(k) \/ StillThere(outbox, k, typed[k])
      BY <2>2 DEF HandInv
    <3>2. Settled(k) => Settled(k)'
      BY <2>2 DEF Settled, historyVars
    <3>3. Untouched(outbox, outbox', k) /\ StillThere(outbox, k, typed[k])
             => StillThere(outbox', k, typed[k])
      BY <1>1, EmissionKeeps DEF OrderInv
    <3>4. QED
      BY <2>2, <3>1, <3>2, <3>3
  <2>3. QED
    BY <2>1, <2>2
<1>8. HandInv'
  BY <1>1, <1>6, <1>7 DEF HandInv, historyVars, Message
<1>9. QED
  BY <1>1, <1>2, <1>5, <1>8 DEF Message

LEMMA HeldSize ==
    /\ Cardinality(KeysOf(NoPatch)) <= 1 /\ \A k \in Keys : NoPatch[k] = 0
    /\ \A k \in Keys, v \in 1..MaxTyped : Cardinality(KeysOf(One(k, v))) <= 1
<1>1. KeysOf(NoPatch) = {} /\ \A k \in Keys : NoPatch[k] = 0
  BY DEF KeysOf, NoPatch
<1>2. ASSUME NEW k \in Keys, NEW v \in 1..MaxTyped
      PROVE  Cardinality(KeysOf(One(k, v))) <= 1
  <2>1. KeysOf(One(k, v)) = {k}
    <3>1. v # 0 /\ One(k, v)[k] = v /\ \A j \in Keys \ {k} : One(k, v)[j] = 0
      BY PatchFacts, OutboxAssumption
    <3>2. QED
      BY <3>1 DEF KeysOf
  <2>2. QED
    BY <2>1, FS_Singleton
<1>3. QED
  BY <1>1, <1>2, FS_EmptySet

\* A newer version of a key replaces the typed one.
LEMMA TypedStep ==
    ASSUME OutboxTypeOK, OrderInv, NEW k \in Keys, versions < MaxTyped,
           versions' = versions + 1, typed' = [typed EXCEPT ![k] = versions']
    PROVE  /\ versions' \in 1..MaxTyped /\ typed' \in Patches /\ typed'[k] = versions'
           /\ \A j \in Keys : typed[j] <= typed'[j] /\ typed'[j] <= versions'
           /\ \A j \in Keys \ {k} : typed'[j] = typed[j]
<1>1. versions \in 0..MaxTyped /\ MaxTyped \in Nat /\ typed \in Patches
  BY OutboxFacts DEF OutboxTypeOK
<1>2. versions' \in 1..MaxTyped /\ versions' \in 0..MaxTyped /\ versions <= versions'
  BY <1>1
<1>3. \A j \in Keys : typed[j] \in Nat /\ typed[j] <= versions
  BY OutboxFacts DEF OrderInv
<1>4. typed' \in Patches /\ typed'[k] = versions' /\ \A j \in Keys \ {k} : typed'[j] = typed[j]
  BY <1>1, <1>2 DEF Patches
<1>5. QED
  BY <1>1, <1>2, <1>3, <1>4

LEMMA ChangeStep ==
    ASSUME OutboxTypeOK, OrderInv, HandInv, NEW k \in Keys, ChangeAnswer(k)
    PROVE  OutboxTypeOK' /\ OrderInv' /\ HandInv'
<1>1. /\ outbox \in Outboxes /\ connected \in BOOLEAN /\ connected' = connected
      /\ \A j \in Keys : held[j] \in Nat /\ (held[j] # 0 => held[j] = typed[j])
      /\ held' = One(k, versions')
  BY OutboxFacts DEF OrderInv, ChangeAnswer
<1>2. /\ versions' \in 1..MaxTyped /\ typed' \in Patches /\ typed'[k] = versions'
      /\ \A j \in Keys : typed[j] <= typed'[j] /\ typed'[j] <= versions'
      /\ \A j \in Keys \ {k} : typed'[j] = typed[j]
  BY TypedStep DEF ChangeAnswer
<1>3. /\ held' \in Patches /\ held'[k] = versions' /\ \A j \in Keys \ {k} : held'[j] = 0
      /\ Cardinality(KeysOf(held')) <= 1
  BY <1>1, <1>2, PatchFacts, HeldSize
<1>4. /\ Emission(outbox, outbox', connected)
      /\ \A j \in Keys : \/ Untouched(outbox, outbox', j) /\ (j = k \/ held[j] = 0)
                         \/ Carries(outbox, outbox', j, held[j]) /\ held[j] # 0
  <2>1. CASE KeysOf(held) \subseteq {k}
    <3>1. outbox' = outbox
      BY <2>1 DEF ChangeAnswer
    <3>2. \A j \in Keys : j = k \/ held[j] = 0
      BY <2>1 DEF KeysOf
    <3>3. QED
      BY <1>1, <3>1, <3>2, NothingSent DEF Untouched
  <2>2. CASE ~(KeysOf(held) \subseteq {k})
    <3>1. outbox' = FlushHeld(outbox)
      BY <2>2 DEF ChangeAnswer
    <3>2. QED
      BY <3>1, FlushHeldIs
  <2>3. QED
    BY <2>1, <2>2
<1>5. ASSUME NEW j \in Keys
      PROVE  /\ typed[j] <= typed'[j] /\ typed'[j] <= versions' /\ held'[j] \in {0, typed'[j]}
             /\ \/ Untouched(outbox, outbox', j)
                \/ j \notin overtaken => \E w \in Nat :
                      /\ Carries(outbox, outbox', j, w)
                      /\ outbox.latest[j] <= w /\ w <= typed'[j]
             /\ j \notin overtaken => \/ typed'[j] = 0 \/ held'[j] = typed'[j]
                                      \/ StillThere(outbox', j, typed'[j])
                                      \/ /\ typed'[j] = typed[j] /\ held[j] = 0
                                         /\ \/ Untouched(outbox, outbox', j)
                                            \/ StillThere(outbox, j, typed[j]) =>
                                                 StillThere(outbox', j, typed[j])
  <2>1. held'[j] \in {0, typed'[j]}
    BY <1>2, <1>3
  <2>2. CASE Untouched(outbox, outbox', j) /\ (j = k \/ held[j] = 0)
    BY <1>2, <1>3, <2>1, <2>2
  <2>3. CASE Carries(outbox, outbox', j, held[j]) /\ held[j] # 0
    <3>1. held[j] \in Nat /\ held[j] = typed[j] /\ held[j] <= typed'[j]
      BY <1>1, <1>2, <2>3
    <3>2. j \notin overtaken => outbox.latest[j] <= held[j]
      BY <3>1 DEF OrderInv, VersionsOrdered
    <3>3. StillThere(outbox', j, held[j])
      BY <1>1, <1>4, <2>3, EmissionKeeps DEF OrderInv
    <3>4. CASE j = k
      BY <1>2, <1>3, <2>1, <2>3, <3>1, <3>2, <3>4
    <3>5. CASE j # k
      BY <1>2, <2>1, <2>3, <3>1, <3>2, <3>3, <3>5
    <3>6. QED
      BY <3>4, <3>5
  <2>4. QED
    BY <1>4, <2>2, <2>3
<1>6. UNCHANGED <<inOrder, saved, historyVars>> /\ versions' \in 0..MaxTyped
  BY <1>2, OutboxAssumption DEF ChangeAnswer
<1>7. /\ OrderInv' /\ HandInv' /\ outbox' \in Outboxes
      /\ \A i \in Messages' : Message(i)'.live => connected'
  BY <1>1, <1>2, <1>3, <1>4, <1>5, <1>6, EmissionStep
<1>8. OutboxTypeOK'
  BY <1>2, <1>3, <1>6, <1>7 DEF OutboxTypeOK, ChangeAnswer, historyVars
<1>9. QED
  BY <1>7, <1>8

LEMMA DebounceStep ==
    ASSUME OutboxTypeOK, OrderInv, HandInv, DebouncedSave
    PROVE  OutboxTypeOK' /\ OrderInv' /\ HandInv'
<1>1. /\ outbox \in Outboxes /\ connected \in BOOLEAN /\ connected' = connected
      /\ \A j \in Keys : held[j] \in Nat /\ (held[j] # 0 => held[j] = typed[j])
      /\ held' = NoPatch /\ typed' = typed /\ versions' = versions
      /\ typed \in Patches /\ versions \in 0..MaxTyped
  BY OutboxFacts DEF OrderInv, DebouncedSave, OutboxTypeOK
<1>2. /\ held' \in Patches /\ \A j \in Keys : held'[j] = 0
      /\ Cardinality(KeysOf(held')) <= 1
  BY <1>1, PatchFacts, HeldSize
<1>3. /\ Emission(outbox, outbox', connected)
      /\ \A j \in Keys : \/ Untouched(outbox, outbox', j) /\ held[j] = 0
                         \/ Carries(outbox, outbox', j, held[j]) /\ held[j] # 0
  BY FlushHeldIs DEF DebouncedSave
<1>4. ASSUME NEW j \in Keys
      PROVE  /\ typed[j] <= typed'[j] /\ typed'[j] <= versions' /\ held'[j] \in {0, typed'[j]}
             /\ \/ Untouched(outbox, outbox', j)
                \/ j \notin overtaken => \E w \in Nat :
                      /\ Carries(outbox, outbox', j, w)
                      /\ outbox.latest[j] <= w /\ w <= typed'[j]
             /\ j \notin overtaken => \/ typed'[j] = 0 \/ held'[j] = typed'[j]
                                      \/ StillThere(outbox', j, typed'[j])
                                      \/ /\ typed'[j] = typed[j] /\ held[j] = 0
                                         /\ \/ Untouched(outbox, outbox', j)
                                            \/ StillThere(outbox, j, typed[j]) =>
                                                 StillThere(outbox', j, typed[j])
  <2>1. typed[j] \in Nat /\ typed[j] <= typed'[j] /\ typed'[j] <= versions'
    BY <1>1, OutboxFacts DEF OrderInv
  <2>2. CASE Untouched(outbox, outbox', j) /\ held[j] = 0
    BY <1>1, <1>2, <2>1, <2>2
  <2>3. CASE Carries(outbox, outbox', j, held[j]) /\ held[j] # 0
    <3>1. held[j] \in Nat /\ held[j] = typed'[j]
      BY <1>1, <2>3
    <3>2. j \notin overtaken => outbox.latest[j] <= held[j]
      BY <1>1, <3>1 DEF OrderInv, VersionsOrdered
    <3>3. StillThere(outbox', j, held[j])
      BY <1>1, <1>3, <2>3, EmissionKeeps DEF OrderInv
    <3>4. QED
      BY <1>2, <2>1, <2>3, <3>1, <3>2, <3>3
  <2>4. QED
    BY <1>3, <2>2, <2>3
<1>5. UNCHANGED <<inOrder, saved, historyVars>>
  BY DEF DebouncedSave
<1>6. /\ OrderInv' /\ HandInv' /\ outbox' \in Outboxes
      /\ \A i \in Messages' : Message(i)'.live => connected'
  BY <1>1, <1>2, <1>3, <1>4, <1>5, EmissionStep
<1>7. OutboxTypeOK'
  BY <1>1, <1>2, <1>6 DEF OutboxTypeOK, DebouncedSave, historyVars
<1>8. QED
  BY <1>6, <1>7

\* The queue goes out: on a connect, or when the retry timer fires.
LEMMA FlushStep ==
    ASSUME OutboxTypeOK, OrderInv, HandInv, outbox' = FlushPending(outbox), connected' = TRUE,
           UNCHANGED <<inOrder, pageVars, saved, historyVars>>
    PROVE  /\ OrderInv' /\ HandInv' /\ outbox' \in Outboxes
           /\ \A i \in Messages' : Message(i)'.live => connected'
<1>1. /\ outbox \in Outboxes /\ typed' = typed /\ held' = held /\ versions' = versions
      /\ typed' \in Patches /\ held' \in Patches /\ versions' \in 0..MaxTyped
      /\ \A j \in Keys : /\ outbox.pending[j] \in Nat /\ typed[j] \in Nat
                         /\ typed[j] <= versions /\ held[j] \in {0, typed[j]}
  BY OutboxFacts, AnswerIs DEF OrderInv, OutboxTypeOK, pageVars
<1>2. /\ Emission(outbox, outbox', TRUE)
      /\ \A j \in Keys : \/ Untouched(outbox, outbox', j)
                         \/ /\ Carries(outbox, outbox', j, outbox.pending[j])
                            /\ outbox.pending[j] # 0
  BY <1>1, FlushPendingIs
<1>3. ASSUME NEW j \in Keys
      PROVE  /\ typed[j] <= typed'[j] /\ typed'[j] <= versions' /\ held'[j] \in {0, typed'[j]}
             /\ \/ Untouched(outbox, outbox', j)
                \/ j \notin overtaken => \E w \in Nat :
                      /\ Carries(outbox, outbox', j, w)
                      /\ outbox.latest[j] <= w /\ w <= typed'[j]
             /\ j \notin overtaken => \/ typed'[j] = 0 \/ held'[j] = typed'[j]
                                      \/ StillThere(outbox', j, typed'[j])
                                      \/ /\ typed'[j] = typed[j] /\ held[j] = 0
                                         /\ \/ Untouched(outbox, outbox', j)
                                            \/ StillThere(outbox, j, typed[j]) =>
                                                 StillThere(outbox', j, typed[j])
  <2>1. /\ typed[j] <= typed'[j] /\ typed'[j] <= versions' /\ held'[j] \in {0, typed'[j]}
        /\ typed'[j] = typed[j] /\ held'[j] = held[j]
    BY <1>1
  <2>2. CASE Untouched(outbox, outbox', j)
    BY <1>1, <2>1, <2>2
  <2>3. CASE Carries(outbox, outbox', j, outbox.pending[j]) /\ outbox.pending[j] # 0
    <3>1. j \notin overtaken => /\ outbox.latest[j] <= outbox.pending[j]
                                /\ outbox.pending[j] <= typed'[j]
      BY <2>1, <2>3 DEF OrderInv, VersionsOrdered
    <3>2. typed[j] # 0 /\ StillThere(outbox, j, typed[j]) => StillThere(outbox', j, typed[j])
      BY <1>1, <1>2, <2>3, EmissionKeeps DEF OrderInv
    <3>3. QED
      BY <1>1, <2>1, <2>3, <3>1, <3>2
  <2>4. QED
    BY <1>2, <2>2, <2>3
<1>4. UNCHANGED <<inOrder, saved, historyVars>>
  OBVIOUS
<1>5. QED
  BY <1>1, <1>2, <1>3, <1>4, EmissionStep

\* Nothing the invariants speak of changes.
LEMMA QuietStep ==
    ASSUME OrderInv, HandInv, UNCHANGED <<inOrder, pageVars, outbox, saved, historyVars>>
    PROVE  OrderInv' /\ HandInv'
BY DEF OrderInv, HandInv, Settled, Messages, Message, pageVars, historyVars

LEMMA ConnectStep ==
    ASSUME OutboxTypeOK, OrderInv, HandInv, Connect
    PROVE  OutboxTypeOK' /\ OrderInv' /\ HandInv'
<1>1. /\ OrderInv' /\ HandInv' /\ outbox' \in Outboxes
      /\ \A i \in Messages' : Message(i)'.live => connected'
  BY FlushStep DEF Connect
<1>2. OutboxTypeOK'
  BY <1>1 DEF OutboxTypeOK, Connect, pageVars, historyVars
<1>3. QED
  BY <1>1, <1>2

LEMMA RetryStep ==
    ASSUME OutboxTypeOK, OrderInv, HandInv, RetrySave
    PROVE  OutboxTypeOK' /\ OrderInv' /\ HandInv'
<1>1. connected \in BOOLEAN
  BY OutboxFacts
<1>2. CASE connected
  <2>1. outbox' = FlushPending(outbox) /\ connected' = TRUE
    BY <1>1, <1>2 DEF RetrySave
  <2>2. /\ OrderInv' /\ HandInv' /\ outbox' \in Outboxes
        /\ \A i \in Messages' : Message(i)'.live => connected'
    BY <2>1, FlushStep DEF RetrySave
  <2>3. OutboxTypeOK'
    BY <2>2 DEF OutboxTypeOK, RetrySave, pageVars, historyVars
  <2>4. QED
    BY <2>2, <2>3
<1>3. CASE ~connected
  <2>1. outbox' = outbox
    BY <1>3 DEF RetrySave
  <2>2. OrderInv' /\ HandInv'
    BY <2>1, QuietStep DEF RetrySave
  <2>3. OutboxTypeOK'
    BY <2>1 DEF OutboxTypeOK, Messages, Message, RetrySave, pageVars, historyVars
  <2>4. QED
    BY <2>2, <2>3
<1>4. QED
  BY <1>2, <1>3

LEMMA DisconnectStep ==
    ASSUME OutboxTypeOK, OrderInv, HandInv, Disconnect
    PROVE  OutboxTypeOK' /\ OrderInv' /\ HandInv'
<1> DEFINE w == outbox.wire
           w2 == [i \in DOMAIN w |-> [w[i] EXCEPT !.live = FALSE]]
<1>1. /\ outbox \in Outboxes /\ w \in Seq(WireMessages) /\ Len(w) \in Nat
      /\ DOMAIN w = 1..Len(w) /\ \A i \in DOMAIN w : w[i] \in WireMessages
  BY OutboxFacts, WireIndex
<1>2. ASSUME NEW i \in DOMAIN w
      PROVE  /\ w2[i] \in WireMessages /\ w2[i].answer = w[i].answer /\ w2[i].live = FALSE
             /\ w2[i].waiting = w[i].waiting /\ w2[i].server = w[i].server
  BY <1>1 DEF WireMessages
<1>3. DOMAIN w2 = DOMAIN w /\ w2 \in Seq(WireMessages)
  <2> HIDE DEF w
  <2>1. w2 \in [1..Len(w) -> WireMessages]
    BY <1>1, <1>2
  <2>2. QED
    BY <1>1, <2>1
<1>4. outbox' = [outbox EXCEPT !.wire = w2]
  BY DEF Disconnect
<1> HIDE DEF w2
<1>5. /\ outbox' \in Outboxes /\ outbox'.wire = w2 /\ outbox'.pending = outbox.pending
      /\ outbox'.latest = outbox.latest
  BY <1>1, <1>3, <1>4 DEF Outboxes
<1>6. OrderInv'
  <2>1. DroppedFirst(outbox')
    BY <1>2, <1>3, <1>5 DEF DroppedFirst
  <2>2. \A k \in Keys : typed'[k] <= versions' /\ held'[k] \in {0, typed'[k]}
    BY DEF OrderInv, Disconnect, pageVars
  <2>3. ASSUME NEW k \in Keys \ overtaken
        PROVE  VersionsOrdered(outbox', k, saved[k], typed[k])
    <3>1. VersionsOrdered(outbox, k, saved[k], typed[k])
      BY DEF OrderInv
    <3>2. QED
      BY <1>2, <1>3, <1>5, <3>1 DEF VersionsOrdered
  <2>4. \A k \in Keys : NotAhead(outbox', k, saved[k])
    BY <1>2, <1>3, <1>5 DEF NotAhead
  <2>5. QED
    BY <2>1, <2>2, <2>3, <2>4 DEF OrderInv, Disconnect, pageVars, historyVars
<1>7. HandInv'
  <2>1. \A i \in DOMAIN w2 : w2[i].server = "saved" =>
            VersionsOf(w2[i].answer) \subseteq received
    BY <1>2, <1>3 DEF HandInv, Messages, Message
  <2>2. \A k \in Keys : StillThere(outbox, k, typed[k]) => StillThere(outbox', k, typed[k])
    BY <1>2, <1>3, <1>5 DEF StillThere
  <2>3. \A k \in Keys \ overtaken :
            Settled(k) \/ held[k] = typed[k] \/ StillThere(outbox', k, typed[k])
    BY <2>2 DEF HandInv
  <2>4. \A k : Settled(k)' <=> Settled(k)
    BY DEF Settled, Disconnect, pageVars, historyVars
  <2>5. QED
    BY <1>5, <2>1, <2>3, <2>4 DEF HandInv, Messages, Message, Disconnect, pageVars, historyVars
<1>8. OutboxTypeOK'
  <2>1. \A i \in Messages' : ~Message(i)'.live
    BY <1>2, <1>3, <1>5 DEF Messages, Message
  <2>2. faults' \in 0..MaxFaults
    BY OutboxAssumption DEF Disconnect, OutboxTypeOK
  <2>3. QED
    BY <1>5, <2>1, <2>2 DEF OutboxTypeOK, Disconnect, pageVars, historyVars
<1>9. QED
  BY <1>6, <1>7, <1>8

\* The held answer goes first, then the one submitted.
LEMMA SubmitStep ==
    ASSUME OutboxTypeOK, OrderInv, HandInv, NEW k \in Keys, SubmitAnswer(k)
    PROVE  OutboxTypeOK' /\ OrderInv' /\ HandInv'
<1> DEFINE o1 == FlushHeld(outbox)
<1>1. /\ outbox \in Outboxes /\ connected \in BOOLEAN /\ Messages = DOMAIN outbox.wire
      /\ \A j \in Keys : /\ held[j] \in Nat /\ typed[j] \in Nat /\ saved[j] \in Nat
                         /\ held[j] # 0 => held[j] = typed[j]
      /\ DroppedFirst(outbox)
      /\ \A i \in DOMAIN outbox.wire : outbox.wire[i].live => connected
  BY OutboxFacts DEF OrderInv
<1>2. /\ versions' \in 1..MaxTyped /\ typed' \in Patches /\ typed'[k] = versions'
      /\ \A j \in Keys : typed[j] <= typed'[j] /\ typed'[j] <= versions'
      /\ \A j \in Keys \ {k} : typed'[j] = typed[j]
  BY TypedStep DEF SubmitAnswer
<1>3. /\ held' = NoPatch /\ held' \in Patches /\ \A j \in Keys : held'[j] = 0
      /\ Cardinality(KeysOf(held')) <= 1
  BY PatchFacts, HeldSize DEF SubmitAnswer
<1>4. /\ Emission(outbox, o1, connected)
      /\ \A j \in Keys : IF held[j] = 0 THEN Untouched(outbox, o1, j)
                        ELSE Carries(outbox, o1, j, held[j])
  BY FlushHeldIs
<1>5. outbox' = QueueAnswer(o1, k, versions')
  BY DEF SubmitAnswer
<1> HIDE DEF o1
<1>6. o1 \in Outboxes
  BY <1>4 DEF Emission
<1>7. /\ Emission(o1, outbox', connected) /\ Carries(o1, outbox', k, versions')
      /\ \A j \in Keys \ {k} : Untouched(o1, outbox', j)
  BY <1>1, <1>2, <1>5, <1>6, QueueAnswerIs
<1>8. /\ DroppedFirst(o1) /\ DroppedFirst(outbox')
      /\ \A j \in Keys : \A t : Carries(outbox, o1, j, t) => StillThere(o1, j, t)
      /\ \A j \in Keys : \A t : Carries(o1, outbox', j, t) => StillThere(outbox', j, t)
      /\ \A j \in Keys : \A t : Untouched(outbox, o1, j) /\ StillThere(outbox, j, t)
                               => StillThere(o1, j, t)
      /\ \A j \in Keys : \A t : Untouched(o1, outbox', j) /\ StillThere(o1, j, t)
                               => StillThere(outbox', j, t)
  <2>1. /\ DroppedFirst(o1)
        /\ \A j \in Keys : \A t : Carries(outbox, o1, j, t) => StillThere(o1, j, t)
        /\ \A j \in Keys : \A t : Untouched(outbox, o1, j) /\ StillThere(outbox, j, t)
                                 => StillThere(o1, j, t)
    BY <1>1, <1>4, EmissionKeeps
  <2>2. /\ DroppedFirst(outbox')
        /\ \A j \in Keys : \A t : Carries(o1, outbox', j, t) => StillThere(outbox', j, t)
        /\ \A j \in Keys : \A t : Untouched(o1, outbox', j) /\ StillThere(o1, j, t)
                                 => StillThere(outbox', j, t)
    BY <1>6, <1>7, <2>1, EmissionKeeps
  <2>3. QED
    BY <2>1, <2>2
<1>9. ASSUME NEW j \in Keys \ overtaken
      PROVE  /\ VersionsOrdered(outbox', j, saved[j], typed'[j])
             /\ inOrder => NotAhead(outbox', j, saved[j])
  <2>1. /\ typed[j] \in Nat /\ typed'[j] \in Nat /\ typed[j] <= typed'[j] /\ saved[j] \in Nat
        /\ outbox.latest[j] \in Nat /\ outbox.pending[j] \in Nat /\ held[j] \in Nat
        /\ o1.latest[j] \in Nat /\ versions' \in Nat
    BY <1>1, <1>2, <1>6, AnswerIs, OutboxAssumption DEF Patches
  <2>2. VersionsOrdered(outbox, j, saved[j], typed[j])
    BY DEF OrderInv
  <2>3. VersionsOrdered(outbox, j, saved[j], typed'[j])
    BY <2>1, <2>2 DEF VersionsOrdered
  <2>4. \/ Untouched(outbox, o1, j)
        \/ \E w \in Nat : Carries(outbox, o1, j, w)
                          /\ outbox.latest[j] <= w /\ w <= typed'[j]
    <3>1. CASE held[j] = 0
      BY <1>4, <3>1
    <3>2. CASE held[j] # 0
      <4>1. held[j] = typed[j] /\ Carries(outbox, o1, j, held[j])
        BY <1>1, <1>4, <3>2
      <4>2. outbox.latest[j] <= held[j] /\ held[j] <= typed'[j]
        BY <2>1, <2>2, <4>1 DEF VersionsOrdered
      <4>3. QED
        BY <2>1, <4>1, <4>2
    <3>3. QED
      BY <3>1, <3>2
  <2>5. /\ VersionsOrdered(o1, j, saved[j], typed'[j])
        /\ NotAhead(outbox, j, saved[j]) => NotAhead(o1, j, saved[j])
    BY <1>1, <1>4, <2>1, <2>3, <2>4, CarriesOrdered
  <2>6. \/ Untouched(o1, outbox', j)
        \/ \E w \in Nat : Carries(o1, outbox', j, w)
                          /\ o1.latest[j] <= w /\ w <= typed'[j]
    <3>1. CASE j # k
      BY <1>7, <3>1
    <3>2. CASE j = k
      <4>1. o1.latest[j] <= versions' /\ versions' <= typed'[j]
        BY <1>2, <2>1, <2>5, <3>2 DEF VersionsOrdered
      <4>2. QED
        BY <1>7, <2>1, <3>2, <4>1
    <3>3. QED
      BY <3>1, <3>2
  <2>7. /\ VersionsOrdered(outbox', j, saved[j], typed'[j])
        /\ NotAhead(o1, j, saved[j]) => NotAhead(outbox', j, saved[j])
    BY <1>6, <1>7, <2>1, <2>5, <2>6, CarriesOrdered
  <2>8. QED
    BY <2>5, <2>7 DEF OrderInv
<1>10. OrderInv'
  BY <1>2, <1>3, <1>8, <1>9 DEF OrderInv, SubmitAnswer, historyVars
<1>11. ASSUME NEW j \in Keys \ overtaken
       PROVE  Settled(j)' \/ StillThere(outbox', j, typed'[j])
  <2>1. CASE j = k
    <3>1. StillThere(outbox', k, versions')
      BY <1>7, <1>8, Zenon
    <3>2. QED
      BY <1>2, <2>1, <3>1
  <2>2. CASE j # k
    <3>1. typed'[j] = typed[j] /\ Untouched(o1, outbox', j)
      BY <1>2, <1>7, <2>2
    <3>2. CASE held[j] # 0
      <4>1. held[j] = typed[j] /\ Carries(outbox, o1, j, held[j])
        BY <1>1, <1>4, <3>2
      <4>2. StillThere(o1, j, held[j])
        BY <1>8, <4>1, Zenon
      <4>3. StillThere(outbox', j, held[j])
        BY <1>8, <3>1, <4>2, Zenon
      <4>4. QED
        BY <3>1, <4>1, <4>3
    <3>3. CASE held[j] = 0
      <4>1. Settled(j) \/ typed[j] = 0 \/ StillThere(outbox, j, typed[j])
        BY <3>3 DEF HandInv
      <4>2. (Settled(j) \/ typed[j] = 0) => Settled(j)'
        BY <3>1 DEF Settled, SubmitAnswer, historyVars
      <4>3. QED
        BY <1>4, <1>8, <3>1, <3>3, <4>1, <4>2
    <3>4. QED
      BY <3>2, <3>3
  <2>3. QED
    BY <2>1, <2>2
<1>12. ASSUME NEW i \in DOMAIN outbox'.wire, outbox'.wire[i].server = "saved"
       PROVE  VersionsOf(outbox'.wire[i].answer) \subseteq received
  <2>1. i \in DOMAIN o1.wire /\ outbox'.wire[i] = o1.wire[i]
    BY <1>7, <1>12 DEF Emission, Extends
  <2>2. i \in DOMAIN outbox.wire /\ outbox'.wire[i] = outbox.wire[i]
    BY <1>4, <1>12, <2>1 DEF Emission, Extends
  <2>3. QED
    BY <1>1, <1>12, <2>2 DEF HandInv, Message
<1>13. HandInv'
  BY <1>11, <1>12 DEF HandInv, Messages, Message, SubmitAnswer, historyVars
<1>14. outbox' \in Outboxes /\ \A i \in DOMAIN outbox'.wire : outbox'.wire[i].live => connected
  <2>1. \A i \in DOMAIN o1.wire : o1.wire[i].live => connected
    BY <1>1, <1>4, EmissionType
  <2>2. QED
    BY <1>6, <1>7, <2>1, EmissionType
<1>15. versions' \in 0..MaxTyped
  BY <1>2, OutboxAssumption
<1>16. OutboxTypeOK'
  BY <1>2, <1>3, <1>14, <1>15 DEF OutboxTypeOK, Messages, Message, SubmitAnswer, historyVars
<1>17. QED
  BY <1>10, <1>13, <1>16

-------------------------------------------------------------------------------
(* AnswerOutbox: a message is dealt with.                                  *)

\* What is left of the invariants when message i is dealt with: the answer it had is
\* for the action to account for.
LEMMA DealtWith ==
    ASSUME OutboxTypeOK, OrderInv, HandInv, NEW i \in DOMAIN outbox.wire, NEW f,
           NEW o2 \in Outboxes, Thins(o2.wire, outbox.wire, i, f),
           o2.pending = outbox.pending, o2.latest = outbox.latest,
           \A n \in DOMAIN o2.wire : f[n] = i /\ o2.wire[n].server = "sent"
                                   => outbox.wire[i].server = "sent"
    PROVE  /\ DroppedFirst(o2)
           /\ \A k \in Keys \ overtaken :
                 /\ VersionsOrdered(o2, k, saved[k], typed[k])
                 /\ inOrder => NotAhead(o2, k, saved[k])
                 /\ \/ Settled(k) \/ held[k] = typed[k] \/ StillThere(o2, k, typed[k])
                    \/ outbox.wire[i].waiting /\ outbox.wire[i].answer[k] = typed[k]
           /\ \A n \in DOMAIN o2.wire :
                 /\ o2.wire[n].live => connected
                 /\ f[n] # i /\ o2.wire[n].server = "saved" =>
                       VersionsOf(o2.wire[n].answer) \subseteq received
<1>1. /\ outbox \in Outboxes /\ Messages = DOMAIN outbox.wire
      /\ \A k \in Keys : saved[k] \in Nat /\ typed[k] \in Nat
      /\ \A n \in DOMAIN outbox.wire : outbox.wire[n].live => connected
  BY OutboxFacts
<1>2. /\ DroppedFirst(outbox) => DroppedFirst(o2)
      /\ \A k \in Keys, v \in Nat, t \in Nat :
            VersionsOrdered(outbox, k, v, t) => VersionsOrdered(o2, k, v, t)
      /\ \A k \in Keys, v \in Nat : NotAhead(outbox, k, v) => NotAhead(o2, k, v)
      /\ \A k \in Keys : \A t : StillThere(outbox, k, t) =>
            \/ outbox.wire[i].waiting /\ outbox.wire[i].answer[k] = t
            \/ StillThere(o2, k, t)
  BY <1>1, ThinsKeeps
<1>3. ASSUME NEW k \in Keys \ overtaken
      PROVE  /\ VersionsOrdered(o2, k, saved[k], typed[k])
             /\ inOrder => NotAhead(o2, k, saved[k])
             /\ \/ Settled(k) \/ held[k] = typed[k] \/ StillThere(o2, k, typed[k])
                \/ outbox.wire[i].waiting /\ outbox.wire[i].answer[k] = typed[k]
  BY <1>1, <1>2 DEF OrderInv, HandInv
<1>4. ASSUME NEW n \in DOMAIN o2.wire
      PROVE  /\ o2.wire[n].live => connected
             /\ f[n] # i /\ o2.wire[n].server = "saved" =>
                   VersionsOf(o2.wire[n].answer) \subseteq received
  <2>1. /\ f[n] \in DOMAIN outbox.wire /\ o2.wire[n].live = outbox.wire[f[n]].live
        /\ f[n] # i => o2.wire[n] = outbox.wire[f[n]]
    BY DEF Thins
  <2>2. QED
    BY <1>1, <2>1 DEF HandInv, Message
<1>5. QED
  BY <1>2, <1>3, <1>4 DEF OrderInv

\* The client is done with it.
LEMMA AnsweredStep ==
    ASSUME OutboxTypeOK, OrderInv, HandInv, NEW i \in DOMAIN outbox.wire
    PROVE  LET o2 == Answered(outbox, i) IN
           /\ o2 \in Outboxes /\ o2.pending = outbox.pending /\ o2.latest = outbox.latest
           /\ DroppedFirst(o2)
           /\ \A k \in Keys \ overtaken :
                 /\ VersionsOrdered(o2, k, saved[k], typed[k])
                 /\ inOrder => NotAhead(o2, k, saved[k])
                 /\ \/ Settled(k) \/ held[k] = typed[k] \/ StillThere(o2, k, typed[k])
                    \/ outbox.wire[i].waiting /\ outbox.wire[i].answer[k] = typed[k]
           /\ \A n \in DOMAIN o2.wire :
                 /\ o2.wire[n].live => connected
                 /\ o2.wire[n].server = "saved" =>
                       VersionsOf(o2.wire[n].answer) \subseteq received
<1> DEFINE o2 == Answered(outbox, i)
<1>1. outbox \in Outboxes
  BY OutboxFacts
<1>2. /\ o2 \in Outboxes /\ o2.pending = outbox.pending /\ o2.latest = outbox.latest
      /\ \E f : /\ Thins(o2.wire, outbox.wire, i, f)
                /\ \A n \in DOMAIN o2.wire :
                      /\ f[n] = i => o2.wire[n].server = "sent"
                      /\ o2.wire[n].server = outbox.wire[f[n]].server
  BY <1>1, AnsweredIs
<1> HIDE DEF o2
<1>3. PICK f : /\ Thins(o2.wire, outbox.wire, i, f)
               /\ \A n \in DOMAIN o2.wire :
                     /\ f[n] = i => o2.wire[n].server = "sent"
                     /\ o2.wire[n].server = outbox.wire[f[n]].server
  BY <1>2
<1>4. \A n \in DOMAIN o2.wire : f[n] = i /\ o2.wire[n].server = "sent"
                              => outbox.wire[i].server = "sent"
  BY <1>3
<1>5. /\ DroppedFirst(o2)
      /\ \A k \in Keys \ overtaken :
            /\ VersionsOrdered(o2, k, saved[k], typed[k])
            /\ inOrder => NotAhead(o2, k, saved[k])
            /\ \/ Settled(k) \/ held[k] = typed[k] \/ StillThere(o2, k, typed[k])
               \/ outbox.wire[i].waiting /\ outbox.wire[i].answer[k] = typed[k]
      /\ \A n \in DOMAIN o2.wire :
            /\ o2.wire[n].live => connected
            /\ f[n] # i /\ o2.wire[n].server = "saved" =>
                  VersionsOf(o2.wire[n].answer) \subseteq received
  BY <1>2, <1>3, <1>4, DealtWith
<1>6. \A n \in DOMAIN o2.wire : o2.wire[n].server = "saved" => f[n] # i
  BY <1>3
<1>7. QED
  BY <1>2, <1>5, <1>6 DEF o2

LEMMA VersionIn ==
    ASSUME NEW patch, NEW k \in Keys, patch[k] # 0
    PROVE  patch[k] \in VersionsOf(patch)
BY DEF VersionsOf, KeysOf

LEMMA SavedStep ==
    ASSUME OutboxTypeOK, OrderInv, HandInv, NEW i \in Messages, Saved(i)
    PROVE  OutboxTypeOK' /\ OrderInv' /\ HandInv'
<1> DEFINE o2 == Answered(outbox, i)
<1>1. i \in DOMAIN outbox.wire /\ outbox' = o2 /\ outbox.wire[i].server = "saved"
  BY DEF Messages, Message, Saved, Answer
<1>2. /\ o2 \in Outboxes /\ o2.pending = outbox.pending /\ o2.latest = outbox.latest
      /\ DroppedFirst(o2)
      /\ \A k \in Keys \ overtaken :
            /\ VersionsOrdered(o2, k, saved[k], typed[k])
            /\ inOrder => NotAhead(o2, k, saved[k])
            /\ \/ Settled(k) \/ held[k] = typed[k] \/ StillThere(o2, k, typed[k])
               \/ outbox.wire[i].waiting /\ outbox.wire[i].answer[k] = typed[k]
      /\ \A n \in DOMAIN o2.wire :
            /\ o2.wire[n].live => connected
            /\ o2.wire[n].server = "saved" =>
                  VersionsOf(o2.wire[n].answer) \subseteq received
  BY <1>1, AnsweredStep
<1> HIDE DEF o2
<1>3. VersionsOf(outbox.wire[i].answer) \subseteq received
  BY <1>1 DEF HandInv, Messages, Message
<1>4. \A k \in Keys : outbox.wire[i].answer[k] = typed[k] => Settled(k)
  BY <1>3, VersionIn DEF Settled
<1>5. OrderInv'
  BY <1>1, <1>2 DEF OrderInv, Saved, pageVars, historyVars
<1>6. HandInv'
  BY <1>1, <1>2, <1>4 DEF HandInv, Settled, Messages, Message, Saved, pageVars, historyVars
<1>7. OutboxTypeOK'
  BY <1>1, <1>2 DEF OutboxTypeOK, Messages, Message, Saved, pageVars, historyVars
<1>8. QED
  BY <1>5, <1>6, <1>7

LEMMA GiveUpStep ==
    ASSUME OutboxTypeOK, OrderInv, HandInv, NEW i \in Messages, GiveUpAnswer(i)
    PROVE  OutboxTypeOK' /\ OrderInv' /\ HandInv'
<1> DEFINE o2 == Answered(outbox, i)
           answer == outbox.wire[i].answer
<1>1. /\ i \in DOMAIN outbox.wire /\ outbox' = o2
      /\ refused' = refused \cup VersionsOf(answer) /\ answer \in Patches
  BY OutboxFacts DEF Message, GiveUpAnswer
<1>2. /\ o2 \in Outboxes /\ o2.pending = outbox.pending /\ o2.latest = outbox.latest
      /\ DroppedFirst(o2)
      /\ \A k \in Keys \ overtaken :
            /\ VersionsOrdered(o2, k, saved[k], typed[k])
            /\ inOrder => NotAhead(o2, k, saved[k])
            /\ \/ Settled(k) \/ held[k] = typed[k] \/ StillThere(o2, k, typed[k])
               \/ outbox.wire[i].waiting /\ outbox.wire[i].answer[k] = typed[k]
      /\ \A n \in DOMAIN o2.wire :
            /\ o2.wire[n].live => connected
            /\ o2.wire[n].server = "saved" =>
                  VersionsOf(o2.wire[n].answer) \subseteq received
  BY <1>1, AnsweredStep
<1> HIDE DEF o2, answer
<1>3. \A k \in Keys : answer[k] = typed[k] => typed[k] \in {0} \cup refused'
  BY <1>1, VersionIn
<1>4. \A k \in Keys : Settled(k) \/ typed[k] \in {0} \cup refused' => Settled(k)'
  BY <1>1 DEF Settled, GiveUpAnswer, pageVars
<1>5. OrderInv'
  BY <1>1, <1>2 DEF OrderInv, GiveUpAnswer, pageVars
<1>6. \A k \in Keys \ overtaken :
          Settled(k)' \/ held[k] = typed[k] \/ StillThere(o2, k, typed[k])
  BY <1>2, <1>3, <1>4 DEF answer
<1>7. HandInv'
  BY <1>1, <1>2, <1>6 DEF HandInv, Messages, Message, GiveUpAnswer, pageVars
<1>8. VersionsOf(answer) \subseteq 1..MaxTyped
  <2>1. \A k \in Keys : answer[k] \in 0..MaxTyped
    BY <1>1 DEF Patches
  <2>2. QED
    BY <2>1, OutboxAssumption DEF VersionsOf, KeysOf
<1>9. OutboxTypeOK'
  BY <1>1, <1>2, <1>8 DEF OutboxTypeOK, Messages, Message, GiveUpAnswer, pageVars
<1>10. QED
  BY <1>5, <1>7, <1>9

LEMMA NoAckStep ==
    ASSUME OutboxTypeOK, OrderInv, HandInv, NEW i \in Messages, NoAck(i)
    PROVE  OutboxTypeOK' /\ OrderInv' /\ HandInv'
<1> DEFINE o1 == Answered(outbox, i)
           answer == outbox.wire[i].answer
           p == [k \in Keys |->
                    IF o1.pending[k] = 0 /\ answer[k] # 0 /\ o1.latest[k] = answer[k]
                    THEN answer[k] ELSE o1.pending[k]]
<1>1. /\ i \in DOMAIN outbox.wire /\ outbox \in Outboxes /\ answer \in Patches
      /\ \A k \in Keys : typed[k] \in Nat
  BY OutboxFacts
<1>2. /\ o1 \in Outboxes /\ o1.pending = outbox.pending /\ o1.latest = outbox.latest
      /\ DroppedFirst(o1)
      /\ \A k \in Keys \ overtaken :
            /\ VersionsOrdered(o1, k, saved[k], typed[k])
            /\ inOrder => NotAhead(o1, k, saved[k])
            /\ \/ Settled(k) \/ held[k] = typed[k] \/ StillThere(o1, k, typed[k])
               \/ outbox.wire[i].waiting /\ outbox.wire[i].answer[k] = typed[k]
      /\ \A n \in DOMAIN o1.wire :
            /\ o1.wire[n].live => connected
            /\ o1.wire[n].server = "saved" =>
                  VersionsOf(o1.wire[n].answer) \subseteq received
  BY <1>1, AnsweredStep
<1>3. outbox' = [o1 EXCEPT !.pending = p]
  BY DEF NoAck, Requeue, Message
<1> HIDE DEF o1, answer
<1>4. p \in Patches
  BY <1>1, <1>2 DEF Outboxes, Patches
<1>5. \A k \in Keys : p[k] = IF o1.pending[k] = 0 /\ answer[k] # 0 /\ o1.latest[k] = answer[k]
                            THEN answer[k] ELSE o1.pending[k]
  OBVIOUS
<1> HIDE DEF p
<1>6. /\ outbox' \in Outboxes /\ outbox'.wire = o1.wire /\ outbox'.latest = o1.latest
      /\ outbox'.pending = p
  BY <1>2, <1>3, <1>4 DEF Outboxes
<1>7. \A k \in Keys : /\ o1.latest[k] \in Nat /\ o1.pending[k] \in Nat
                      /\ answer[k] \in Nat
  BY <1>1, <1>2, AnswerIs DEF answer
<1>8. ASSUME NEW k \in Keys \ overtaken
      PROVE  /\ VersionsOrdered(outbox', k, saved[k], typed[k])
             /\ inOrder => NotAhead(outbox', k, saved[k])
             /\ Settled(k) \/ held[k] = typed[k] \/ StillThere(outbox', k, typed[k])
  <2>1. /\ VersionsOrdered(o1, k, saved[k], typed[k])
        /\ VersionsOrdered(outbox, k, saved[k], typed[k])
    BY <1>2 DEF OrderInv
  <2>2. p[k] = o1.pending[k] \/ p[k] = o1.latest[k]
    BY <1>5
  <2>3. VersionsOrdered(outbox', k, saved[k], typed[k])
    BY <1>1, <1>6, <1>7, <2>1, <2>2 DEF VersionsOrdered
  <2>4. inOrder => NotAhead(outbox', k, saved[k])
    BY <1>2, <1>6 DEF NotAhead
  <2>5. CASE typed[k] = 0
    BY <2>3, <2>4, <2>5 DEF Settled
  <2>6. CASE typed[k] # 0 /\ answer[k] = typed[k]
    <3>1. typed[k] <= o1.latest[k] /\ o1.latest[k] <= typed[k]
      BY <1>1, <1>2, <2>1, <2>6 DEF VersionsOrdered, answer
    <3>2. o1.latest[k] = typed[k]
      BY <1>1, <1>7, <3>1
    <3>3. p[k] = typed[k]
      BY <1>1, <1>5, <1>7, <2>1, <2>6, <3>2 DEF VersionsOrdered
    <3>4. QED
      BY <1>6, <2>3, <2>4, <3>3 DEF StillThere
  <2>7. CASE typed[k] # 0 /\ StillThere(o1, k, typed[k])
    <3>1. StillThere(outbox', k, typed[k])
      BY <1>5, <1>6, <2>7 DEF StillThere
    <3>2. QED
      BY <2>3, <2>4, <3>1
  <2>8. QED
    BY <1>2, <2>3, <2>4, <2>5, <2>6, <2>7 DEF answer
<1>9. OrderInv'
  BY <1>2, <1>6, <1>8 DEF OrderInv, DroppedFirst, NoAck, pageVars, historyVars
<1>10. HandInv'
  BY <1>2, <1>6, <1>8 DEF HandInv, Settled, Messages, Message, NoAck, pageVars, historyVars
<1>11. faults' \in 0..MaxFaults
  BY OutboxAssumption DEF OutboxTypeOK, NoAck
<1>12. OutboxTypeOK'
  BY <1>2, <1>6, <1>11 DEF OutboxTypeOK, Messages, Message, NoAck, pageVars, historyVars
<1>13. QED
  BY <1>9, <1>10, <1>12

\* Of the keys that are not overtaken, the batch had the last version sent.
LEMMA SplitStep ==
    ASSUME OutboxTypeOK, OrderInv, HandInv, NEW i \in Messages, SplitBatch(i)
    PROVE  OutboxTypeOK' /\ OrderInv' /\ HandInv'
<1> DEFINE o1 == Answered(outbox, i)
           answer == outbox.wire[i].answer
           m(k) == Sent(One(k, answer[k]), FALSE)
<1>1. /\ i \in DOMAIN outbox.wire /\ outbox \in Outboxes /\ answer \in Patches
      /\ connected /\ outbox.wire[i].waiting
      /\ \A k \in Keys : typed[k] \in Nat /\ saved[k] \in Nat
  BY OutboxFacts DEF SplitBatch, Answer, Message
<1>2. /\ o1 \in Outboxes /\ o1.pending = outbox.pending /\ o1.latest = outbox.latest
      /\ DroppedFirst(o1)
      /\ \A k \in Keys \ overtaken :
            /\ VersionsOrdered(o1, k, saved[k], typed[k])
            /\ inOrder => NotAhead(o1, k, saved[k])
            /\ \/ Settled(k) \/ held[k] = typed[k] \/ StillThere(o1, k, typed[k])
               \/ outbox.wire[i].waiting /\ outbox.wire[i].answer[k] = typed[k]
      /\ \A n \in DOMAIN o1.wire :
            /\ o1.wire[n].live => connected
            /\ o1.wire[n].server = "saved" =>
                  VersionsOf(o1.wire[n].answer) \subseteq received
  BY <1>1, AnsweredStep
<1>3. /\ outbox' = EmitKeys(o1, answer)
      /\ overtaken' = overtaken \cup {k \in KeysOf(answer) : outbox.latest[k] # answer[k]}
  BY DEF SplitBatch, Message
<1> HIDE DEF o1, answer
<1>4. /\ outbox' \in Outboxes /\ outbox'.pending = o1.pending
      /\ outbox'.latest = Over(answer, o1.latest) /\ Extends(outbox'.wire, o1.wire)
      /\ \A j \in DOMAIN outbox'.wire \ DOMAIN o1.wire :
            \E k \in KeysOf(answer) : outbox'.wire[j] = m(k)
      /\ \A k \in KeysOf(answer) : \E j \in DOMAIN outbox'.wire \ DOMAIN o1.wire :
            outbox'.wire[j] = m(k)
  <2> DEFINE o2 == EmitKeys(o1, answer)
  <2>1. o1 \in Outboxes /\ answer \in Patches
    BY <1>1, <1>2
  <2>2. /\ o2 \in Outboxes /\ o2.pending = o1.pending
        /\ o2.latest = Over(answer, o1.latest) /\ Extends(o2.wire, o1.wire)
        /\ \A j \in DOMAIN o2.wire \ DOMAIN o1.wire :
              \E k \in KeysOf(answer) : o2.wire[j] = m(k)
        /\ \A k \in KeysOf(answer) : \E j \in DOMAIN o2.wire \ DOMAIN o1.wire :
              o2.wire[j] = m(k)
    BY <2>1, EmitKeysIs, Zenon
  <2> HIDE DEF o2, m
  <2>3. outbox' = o2
    BY <1>3 DEF o2
  <2>4. QED
    BY <2>2, <2>3, Zenon
<1>5. /\ \A k \in Keys : outbox'.latest[k] = IF answer[k] # 0 THEN answer[k] ELSE o1.latest[k]
      /\ KeysOf(answer) \subseteq Keys
      /\ \A k \in Keys : answer[k] \in 0..MaxTyped /\ (k \in KeysOf(answer) <=> answer[k] # 0)
      /\ o1.latest \in Patches
  BY <1>1, <1>2, <1>4, WireIndex, PatchFacts
<1>6. ASSUME NEW k \in KeysOf(answer)
      PROVE  /\ m(k).live /\ m(k).waiting /\ m(k).server = "sent"
             /\ m(k).answer[k] = answer[k]
             /\ \A j \in Keys : m(k).answer[j] \in {0, outbox'.latest[j]}
  <2>1. k \in Keys /\ answer[k] \in 1..MaxTyped /\ outbox'.latest[k] = answer[k]
    BY <1>5, OutboxAssumption
  <2>2. /\ One(k, answer[k]) \in Patches \ {NoPatch} /\ One(k, answer[k])[k] = answer[k]
        /\ \A j \in Keys \ {k} : One(k, answer[k])[j] = 0
    BY <2>1, PatchFacts
  <2>3. /\ m(k).answer = One(k, answer[k])
        /\ m(k).live /\ m(k).waiting
        /\ m(k).server = "sent"
    BY <2>2, SentIs
  <2>4. QED
    BY <2>1, <2>2, <2>3
<1> HIDE DEF m
<1>7. Emission(o1, outbox', TRUE)
  <2>1. ASSUME NEW j \in DOMAIN outbox'.wire \ DOMAIN o1.wire
        PROVE  /\ outbox'.wire[j].live /\ outbox'.wire[j].waiting
               /\ outbox'.wire[j].server = "sent"
               /\ \A k \in Keys : outbox'.wire[j].answer[k] \in {0, outbox'.latest[k]}
    BY <1>4, <1>6
  <2>2. QED
    BY <1>4, <2>1 DEF Emission
<1>8. ASSUME NEW k \in Keys \ overtaken'
      PROVE  k \notin overtaken /\ Untouched(o1, outbox', k)
  BY <1>2, <1>3, <1>4, <1>5 DEF Untouched
<1>9. /\ DroppedFirst(outbox')
      /\ \A k \in Keys : \A t : Untouched(o1, outbox', k) /\ StillThere(o1, k, t)
                               => StillThere(outbox', k, t)
  BY <1>2, <1>7, EmissionKeeps
<1>10. ASSUME NEW k \in Keys \ overtaken'
       PROVE  /\ VersionsOrdered(outbox', k, saved[k], typed[k])
              /\ inOrder => NotAhead(outbox', k, saved[k])
              /\ Settled(k) \/ held[k] = typed[k] \/ StillThere(outbox', k, typed[k])
  <2>1. /\ k \notin overtaken /\ Untouched(o1, outbox', k)
        /\ VersionsOrdered(o1, k, saved[k], typed[k])
        /\ inOrder => NotAhead(o1, k, saved[k])
    BY <1>2, <1>8
  <2>2. /\ VersionsOrdered(outbox', k, saved[k], typed[k])
        /\ NotAhead(o1, k, saved[k]) => NotAhead(outbox', k, saved[k])
    BY <1>1, <1>2, <1>7, <2>1, CarriesOrdered
  <2>3. CASE typed[k] = 0
    BY <2>1, <2>2, <2>3 DEF Settled
  <2>4. CASE typed[k] # 0 /\ answer[k] = typed[k]
    <3>1. k \in KeysOf(answer)
      BY <1>5, <2>4
    <3>2. \E j \in DOMAIN outbox'.wire :
              outbox'.wire[j].waiting /\ outbox'.wire[j].answer[k] = typed[k]
      BY <1>4, <1>6, <2>4, <3>1
    <3>3. QED
      BY <2>1, <2>2, <3>2 DEF StillThere
  <2>5. QED
    BY <1>2, <1>9, <2>1, <2>2, <2>3, <2>4 DEF answer
<1>11. OrderInv'
  BY <1>9, <1>10 DEF OrderInv, SplitBatch, pageVars
<1>12. HandInv'
  <2>1. ASSUME NEW n \in DOMAIN outbox'.wire, outbox'.wire[n].server = "saved"
        PROVE  VersionsOf(outbox'.wire[n].answer) \subseteq received
    <3>1. n \in DOMAIN o1.wire /\ outbox'.wire[n] = o1.wire[n]
      BY <1>7, <2>1 DEF Emission, Extends
    <3>2. QED
      BY <1>2, <2>1, <3>1
  <2>2. QED
    BY <1>10, <2>1 DEF HandInv, Settled, Messages, Message, SplitBatch, pageVars
<1>13. \A n \in DOMAIN outbox'.wire : outbox'.wire[n].live => connected
  BY <1>1
<1>14. overtaken' \subseteq Keys
  BY <1>3, <1>5 DEF OutboxTypeOK
<1>15. OutboxTypeOK'
  BY <1>4, <1>13, <1>14 DEF OutboxTypeOK, Messages, Message, SplitBatch, pageVars
<1>16. QED
  BY <1>11, <1>12, <1>15

-------------------------------------------------------------------------------
(* AnswerOutbox: the server handles a message.                             *)

LEMMA HandledStep ==
    ASSUME OutboxTypeOK, OrderInv, HandInv, NEW i \in DOMAIN outbox.wire,
           NEW outcome \in ServerOutcomes \ {"sent"}
    PROVE  LET o2 == AtServer(outbox, i, outcome)
               answer == outbox.wire[i].answer IN
           /\ o2 \in Outboxes /\ o2.pending = outbox.pending /\ o2.latest = outbox.latest
           /\ DroppedFirst(o2)
           /\ \A k \in Keys \ overtaken :
                 /\ VersionsOrdered(o2, k, saved[k], typed[k])
                 /\ inOrder => NotAhead(o2, k, saved[k])
                 /\ Settled(k) \/ held[k] = typed[k] \/ StillThere(o2, k, typed[k])
           /\ \A n \in DOMAIN o2.wire :
                 /\ o2.wire[n].live => connected
                 /\ o2.wire[n].server = "saved" =>
                       \/ VersionsOf(o2.wire[n].answer) \subseteq received
                       \/ outcome = "saved" /\ o2.wire[n].answer = answer
           /\ \A n \in DOMAIN o2.wire : o2.wire[n].server = "sent" =>
                 \E j \in DOMAIN outbox.wire \ {i} : o2.wire[n] = outbox.wire[j]
<1> DEFINE o2 == AtServer(outbox, i, outcome)
           answer == outbox.wire[i].answer
<1>1. outbox \in Outboxes
  BY OutboxFacts
<1>2. /\ o2 \in Outboxes /\ o2.pending = outbox.pending /\ o2.latest = outbox.latest
      /\ \E f : /\ Thins(o2.wire, outbox.wire, i, f)
                /\ \A n \in DOMAIN o2.wire : f[n] = i =>
                      o2.wire[n].server = outcome /\ o2.wire[n].waiting
                /\ outbox.wire[i].waiting => \E n \in DOMAIN o2.wire : f[n] = i
  BY <1>1, AtServerIs
<1> HIDE DEF o2
<1>3. PICK f : /\ Thins(o2.wire, outbox.wire, i, f)
               /\ \A n \in DOMAIN o2.wire : f[n] = i =>
                     o2.wire[n].server = outcome /\ o2.wire[n].waiting
               /\ outbox.wire[i].waiting => \E n \in DOMAIN o2.wire : f[n] = i
  BY <1>2
<1>4. \A n \in DOMAIN o2.wire : f[n] = i /\ o2.wire[n].server = "sent"
                              => outbox.wire[i].server = "sent"
  BY <1>3
<1>5. /\ DroppedFirst(o2)
      /\ \A k \in Keys \ overtaken :
            /\ VersionsOrdered(o2, k, saved[k], typed[k])
            /\ inOrder => NotAhead(o2, k, saved[k])
            /\ \/ Settled(k) \/ held[k] = typed[k] \/ StillThere(o2, k, typed[k])
               \/ outbox.wire[i].waiting /\ outbox.wire[i].answer[k] = typed[k]
      /\ \A n \in DOMAIN o2.wire :
            /\ o2.wire[n].live => connected
            /\ f[n] # i /\ o2.wire[n].server = "saved" =>
                  VersionsOf(o2.wire[n].answer) \subseteq received
  BY <1>2, <1>3, <1>4, DealtWith
<1>6. \A n \in DOMAIN o2.wire :
          /\ f[n] \in DOMAIN outbox.wire /\ o2.wire[n].answer = outbox.wire[f[n]].answer
          /\ f[n] # i => o2.wire[n] = outbox.wire[f[n]]
  BY <1>3 DEF Thins
<1>7. \A k : outbox.wire[i].waiting => StillThere(o2, k, answer[k])
  <2> TAKE k
  <2>1. ASSUME NEW n \in DOMAIN o2.wire, f[n] = i PROVE StillThere(o2, k, answer[k])
    <3>1. o2.wire[n].waiting /\ o2.wire[n].answer = answer
      BY <1>3, <1>6, <2>1
    <3>2. QED
      BY <3>1 DEF StillThere
  <2>2. QED
    BY <1>3, <2>1
<1>8. \A n \in DOMAIN o2.wire : o2.wire[n].server = "saved" =>
          \/ VersionsOf(o2.wire[n].answer) \subseteq received
          \/ outcome = "saved" /\ o2.wire[n].answer = answer
  BY <1>3, <1>5, <1>6
<1>9. \A n \in DOMAIN o2.wire : o2.wire[n].server = "sent" =>
          \E j \in DOMAIN outbox.wire \ {i} : o2.wire[n] = outbox.wire[j]
  BY <1>3, <1>6
<1>10. QED
  BY <1>2, <1>5, <1>7, <1>8, <1>9 DEF o2

\* The messages that are still to be handled: what the server gets now is no older than
\* what it has, and no newer than what they bring.
LEMMA StagedInOrder ==
    ASSUME OutboxTypeOK, OrderInv, NEW i \in Messages, InTurnAtServer(i),
           NEW k \in Keys \ overtaken, outbox.wire[i].answer[k] # 0, inOrder
    PROVE  /\ outbox.wire[i].live => saved[k] <= outbox.wire[i].answer[k]
           /\ \A j \in DOMAIN outbox.wire \ {i} :
                 /\ outbox.wire[j].live /\ outbox.wire[j].server = "sent"
                 /\ outbox.wire[j].answer[k] # 0
                 => outbox.wire[i].answer[k] <= outbox.wire[j].answer[k]
<1>1. /\ i \in DOMAIN outbox.wire /\ outbox.wire[i].server = "sent"
      /\ outbox.wire[i].live =>
            \A j \in 1..(i - 1) : ~(outbox.wire[j].live /\ outbox.wire[j].server = "sent")
      /\ outbox \in Outboxes
  BY OutboxFacts DEF InTurnAtServer, Message, Messages
<1>2. /\ DroppedFirst(outbox) /\ NotAhead(outbox, k, saved[k])
      /\ VersionsOrdered(outbox, k, saved[k], typed[k])
  BY DEF OrderInv
<1>3. DOMAIN outbox.wire = 1..Len(outbox.wire) /\ Len(outbox.wire) \in Nat
  BY <1>1, WireIndex
<1>4. ASSUME NEW j \in DOMAIN outbox.wire \ {i}, outbox.wire[j].live,
             outbox.wire[j].server = "sent"
      PROVE  i < j
  <2>1. CASE ~outbox.wire[i].live
    BY <1>1, <1>2, <1>4, <2>1 DEF DroppedFirst
  <2>2. CASE outbox.wire[i].live
    <3>1. j \notin 1..(i - 1)
      BY <1>1, <1>4, <2>2
    <3>2. QED
      BY <1>1, <1>3, <3>1
  <2>3. QED
    BY <2>1, <2>2
<1>5. outbox.wire[i].live => saved[k] <= outbox.wire[i].answer[k]
  BY <1>1, <1>2 DEF NotAhead
<1>6. QED
  BY <1>1, <1>2, <1>4, <1>5 DEF VersionsOrdered

LEMMA StageStep ==
    ASSUME OutboxTypeOK, OrderInv, HandInv, NEW i \in Messages, StageAnswer(i)
    PROVE  OutboxTypeOK' /\ OrderInv' /\ HandInv'
<1> DEFINE answer == outbox.wire[i].answer
<1>1. /\ i \in DOMAIN outbox.wire /\ outbox \in Outboxes /\ answer \in Patches
      /\ saved \in Patches /\ typed \in Patches
      /\ \A k \in Keys : typed[k] \in Nat /\ saved[k] \in Nat /\ answer[k] \in Nat
      /\ \A k \in Keys : outbox.latest[k] \in Nat
  BY OutboxFacts, AnswerIs
<1>2. /\ saved' = Over(answer, saved) /\ received' = received \cup VersionsOf(answer)
      /\ outbox' = AtServer(outbox, i, "saved") /\ InTurnAtServer(i)
  BY DEF StageAnswer, Message
<1>3. /\ outbox' \in Outboxes /\ outbox'.pending = outbox.pending
      /\ outbox'.latest = outbox.latest /\ DroppedFirst(outbox')
      /\ \A k \in Keys \ overtaken :
            /\ VersionsOrdered(outbox', k, saved[k], typed[k])
            /\ inOrder => NotAhead(outbox', k, saved[k])
            /\ Settled(k) \/ held[k] = typed[k] \/ StillThere(outbox', k, typed[k])
      /\ \A n \in DOMAIN outbox'.wire :
            /\ outbox'.wire[n].live => connected
            /\ outbox'.wire[n].server = "saved" =>
                  \/ VersionsOf(outbox'.wire[n].answer) \subseteq received
                  \/ outbox'.wire[n].answer = answer
      /\ \A n \in DOMAIN outbox'.wire : outbox'.wire[n].server = "sent" =>
            \E j \in DOMAIN outbox.wire \ {i} : outbox'.wire[n] = outbox.wire[j]
  <2>1. "saved" \in ServerOutcomes \ {"sent"}
    BY DEF ServerOutcomes
  <2>2. QED
    BY <1>1, <1>2, <2>1, HandledStep
<1> HIDE DEF answer
<1>4. /\ saved' \in Patches
      /\ \A k \in Keys : saved'[k] = IF answer[k] # 0 THEN answer[k] ELSE saved[k]
  BY <1>1, <1>2, PatchFacts
<1>5. ASSUME NEW k \in Keys \ overtaken
      PROVE  VersionsOrdered(outbox', k, saved'[k], typed[k])
  <2>1. answer[k] <= outbox.latest[k] /\ saved[k] <= outbox.latest[k]
    BY <1>1 DEF OrderInv, VersionsOrdered, answer
  <2>2. QED
    BY <1>3, <1>4, <2>1 DEF VersionsOrdered
<1>6. ASSUME NEW k \in Keys \ overtaken, inOrder PROVE NotAhead(outbox', k, saved'[k])
  <2>1. CASE answer[k] = 0
    BY <1>3, <1>4, <1>6, <2>1
  <2>2. CASE answer[k] # 0
    <3>1. \A j \in DOMAIN outbox.wire \ {i} :
              /\ outbox.wire[j].live /\ outbox.wire[j].server = "sent"
              /\ outbox.wire[j].answer[k] # 0
              => answer[k] <= outbox.wire[j].answer[k]
      BY <1>2, <1>6, <2>2, StagedInOrder DEF answer
    <3>2. QED
      BY <1>3, <1>4, <2>2, <3>1 DEF NotAhead
  <2>3. QED
    BY <2>1, <2>2
<1>7. OrderInv'
  BY <1>3, <1>5, <1>6 DEF OrderInv, StageAnswer, pageVars
<1>8. HandInv'
  BY <1>2, <1>3 DEF HandInv, Settled, Messages, Message, StageAnswer, pageVars
<1>9. VersionsOf(answer) \subseteq 1..MaxTyped
  <2>1. \A k \in Keys : answer[k] \in 0..MaxTyped
    BY <1>1 DEF Patches
  <2>2. QED
    BY <2>1, OutboxAssumption DEF VersionsOf, KeysOf
<1>10. OutboxTypeOK'
  BY <1>2, <1>3, <1>4, <1>9 DEF OutboxTypeOK, Messages, Message, StageAnswer, pageVars
<1>11. QED
  BY <1>7, <1>8, <1>10

LEMMA RefusedStep ==
    ASSUME OutboxTypeOK, OrderInv, HandInv, NEW i \in Messages,
           NEW outcome \in ServerOutcomes \ {"sent", "saved"},
           outbox' = AtServer(outbox, i, outcome), faults' \in 0..MaxFaults,
           UNCHANGED <<inOrder, pageVars, retryTimer, connected, saved, historyVars>>
    PROVE  OutboxTypeOK' /\ OrderInv' /\ HandInv'
<1>1. i \in DOMAIN outbox.wire
  BY DEF Messages
<1>2. /\ outbox' \in Outboxes /\ outbox'.pending = outbox.pending
      /\ outbox'.latest = outbox.latest /\ DroppedFirst(outbox')
      /\ \A k \in Keys \ overtaken :
            /\ VersionsOrdered(outbox', k, saved[k], typed[k])
            /\ inOrder => NotAhead(outbox', k, saved[k])
            /\ Settled(k) \/ held[k] = typed[k] \/ StillThere(outbox', k, typed[k])
      /\ \A n \in DOMAIN outbox'.wire :
            /\ outbox'.wire[n].live => connected
            /\ outbox'.wire[n].server = "saved" =>
                  VersionsOf(outbox'.wire[n].answer) \subseteq received
  BY <1>1, HandledStep
<1>3. OrderInv'
  BY <1>2 DEF OrderInv, pageVars, historyVars
<1>4. HandInv'
  BY <1>2 DEF HandInv, Settled, Messages, Message, pageVars, historyVars
<1>5. OutboxTypeOK'
  BY <1>2 DEF OutboxTypeOK, Messages, Message, pageVars, historyVars
<1>6. QED
  BY <1>3, <1>4, <1>5

-------------------------------------------------------------------------------
(* AnswerOutbox: the theorems.                                             *)

LEMMA OutboxInitial == OutboxInit => OutboxTypeOK /\ OrderInv /\ HandInv
<1> SUFFICES ASSUME OutboxInit PROVE OutboxTypeOK /\ OrderInv /\ HandInv
  OBVIOUS
<1>1. /\ NoPatch \in Patches /\ \A k \in Keys : NoPatch[k] = 0
      /\ Cardinality(KeysOf(NoPatch)) <= 1
  BY PatchFacts, HeldSize
<1>2. /\ outbox = [pending |-> NoPatch, latest |-> NoPatch, wire |-> <<>>]
      /\ typed = NoPatch /\ held = NoPatch /\ saved = NoPatch /\ versions = 0
      /\ outbox.wire = <<>> /\ outbox.pending = NoPatch /\ outbox.latest = NoPatch
  BY DEF OutboxInit
<1>3. outbox \in Outboxes /\ DOMAIN outbox.wire = {} /\ Messages = {}
  BY <1>1, <1>2 DEF Outboxes, Messages
<1>4. OutboxTypeOK
  <2>1. /\ 0 \in 0..MaxTyped /\ 0 \in 0..MaxFaults
        /\ {received, refused} \subseteq SUBSET (1..MaxTyped) /\ overtaken \subseteq Keys
    BY OutboxAssumption DEF OutboxInit
  <2>2. /\ inOrder \in BOOLEAN /\ {retryTimer, connected} \subseteq BOOLEAN
        /\ versions = 0 /\ faults = 0
    BY OutboxAssumption DEF OutboxInit
  <2>3. \A i \in Messages : Message(i).live => connected
    BY <1>3
  <2>4. Cardinality(KeysOf(held)) <= 1
    BY <1>1, <1>2
  <2>5. {typed, held, saved} \subseteq Patches
    BY <1>1, <1>2
  <2>6. QED
    BY <1>3, <2>1, <2>2, <2>3, <2>4, <2>5 DEF OutboxTypeOK
<1>5. OrderInv
  <2>1. \A k \in Keys : /\ typed[k] = 0 /\ saved[k] = 0 /\ held[k] = 0
                        /\ outbox.latest[k] = 0 /\ outbox.pending[k] = 0
    BY <1>1, <1>2
  <2>2. QED
    BY <1>2, <1>3, <2>1 DEF OrderInv, DroppedFirst, VersionsOrdered, NotAhead
<1>6. HandInv
  BY <1>1, <1>2, <1>3 DEF HandInv, Settled
<1>7. QED
  BY <1>4, <1>5, <1>6

LEMMA OutboxStep ==
    OutboxTypeOK /\ OrderInv /\ HandInv /\ [OutboxNext]_outboxVars
    => (OutboxTypeOK /\ OrderInv /\ HandInv)'
<1> SUFFICES ASSUME OutboxTypeOK, OrderInv, HandInv, [OutboxNext]_outboxVars
             PROVE  OutboxTypeOK' /\ OrderInv' /\ HandInv'
  OBVIOUS
<1>1. ASSUME NEW k \in Keys, ChangeAnswer(k) PROVE OutboxTypeOK' /\ OrderInv' /\ HandInv'
  BY <1>1, ChangeStep
<1>2. ASSUME NEW k \in Keys, SubmitAnswer(k) PROVE OutboxTypeOK' /\ OrderInv' /\ HandInv'
  BY <1>2, SubmitStep
<1>3. CASE DebouncedSave
  BY <1>3, DebounceStep
<1>4. CASE Connect
  BY <1>4, ConnectStep
<1>5. CASE Disconnect
  BY <1>5, DisconnectStep
<1>6. CASE RetrySave
  BY <1>6, RetryStep
<1>7. ASSUME NEW i \in Messages, ClientHears(i)
      PROVE  OutboxTypeOK' /\ OrderInv' /\ HandInv'
  <2>1. CASE Saved(i)
    BY <2>1, SavedStep
  <2>2. CASE NoAck(i)
    BY <2>2, NoAckStep
  <2>3. CASE SplitBatch(i)
    BY <2>3, SplitStep
  <2>4. CASE GiveUpAnswer(i)
    BY <2>4, GiveUpStep
  <2>5. QED
    BY <1>7, <2>1, <2>2, <2>3, <2>4 DEF ClientHears
<1>8. ASSUME NEW i \in Messages, ServerHandles(i)
      PROVE  OutboxTypeOK' /\ OrderInv' /\ HandInv'
  <2>1. CASE StageAnswer(i)
    BY <2>1, StageStep
  <2>2. CASE RefuseAnswer(i)
    <3>1. \A outcome \in {"refused", "failed", "tooBig"} :
              outcome \in ServerOutcomes \ {"sent", "saved"}
      BY DEF ServerOutcomes
    <3>2. PICK outcome \in {"refused", "failed", "tooBig"} :
              outbox' = AtServer(outbox, i, outcome)
      BY <2>2 DEF RefuseAnswer
    <3>3. faults' \in 0..MaxFaults
      BY <2>2, OutboxAssumption DEF RefuseAnswer, OutboxTypeOK
    <3>4. UNCHANGED <<inOrder, pageVars, retryTimer, connected, saved, historyVars>>
      BY <2>2 DEF RefuseAnswer
    <3>5. QED
      BY <3>1, <3>2, <3>3, <3>4, RefusedStep
  <2>3. CASE LoseMessage(i)
    <3>1. "lost" \in ServerOutcomes \ {"sent", "saved"}
      BY DEF ServerOutcomes
    <3>2. faults' \in 0..MaxFaults
      BY <2>3 DEF LoseMessage, OutboxTypeOK
    <3>3. /\ outbox' = AtServer(outbox, i, "lost")
          /\ UNCHANGED <<inOrder, pageVars, retryTimer, connected, saved, historyVars>>
      BY <2>3 DEF LoseMessage
    <3>4. QED
      BY <3>1, <3>2, <3>3, RefusedStep
  <2>4. QED
    BY <1>8, <2>1, <2>2, <2>3 DEF ServerHandles
<1>9. CASE UNCHANGED outboxVars
  <2>1. OrderInv' /\ HandInv'
    BY <1>9, QuietStep DEF outboxVars, pageVars, historyVars
  <2>2. OutboxTypeOK'
    BY <1>9 DEF OutboxTypeOK, Messages, Message, outboxVars, pageVars, historyVars
  <2>3. QED
    BY <2>1, <2>2
<1>10. QED
  BY <1>1, <1>2, <1>3, <1>4, <1>5, <1>6, <1>7, <1>8, <1>9 DEF OutboxNext

LEMMA OutboxInvariant == OutboxSpec => [](OutboxTypeOK /\ OrderInv /\ HandInv)
BY OutboxInitial, OutboxStep, PTL DEF OutboxSpec

\* The variables of the exam page and of the socket hook keep their types
\* (page.tsx, useExamSocket.ts): one answer is held at most, and a message whose
\* connection is up goes over the present one.
THEOREM OutboxTypeCorrect == OutboxSpec => []OutboxTypeOK
BY OutboxInvariant, PTL

\* No answer falls between the debounce, the queue, the acks and the reconnects
\* (useExamSocket.ts 54-56): until the server has had the last version of an answer, or
\* refused it, the page, the queue or a message still carries it.
THEOREM AnswersAreOnTheirWay == OutboxSpec => []OnItsWayUnlessSplit
<1>1. OutboxTypeOK /\ OrderInv /\ HandInv => OnItsWayUnlessSplit
  <2> SUFFICES ASSUME OutboxTypeOK, HandInv, NEW k \in Keys \ overtaken
               PROVE  Settled(k) \/ InHand(k)
    BY DEF OnItsWayUnlessSplit
  <2>1. Messages = DOMAIN outbox.wire
    BY DEF Messages
  <2>2. QED
    BY <2>1 DEF HandInv, StillThere, InHand, Message
<1>2. QED
  BY <1>1, OutboxInvariant, PTL

\* Where a connection's messages are handled in turn, the server goes back to an older
\* version only by a message of a dropped connection, or by a batch split too late
\* (useExamSocket.ts 200).
THEOREM NewerAnswersStay == OutboxSpec => NoRollback
<1>1. OutboxTypeOK /\ OrderInv /\ [OutboxNext]_outboxVars
      => [\A k \in Keys \ overtaken : saved'[k] < saved[k] =>
            \/ ~inOrder
            \/ \E i \in Messages :
                   ~Message(i).live /\ Message(i).answer[k] = saved'[k]]_outboxVars
  <2> SUFFICES ASSUME OutboxTypeOK, OrderInv, OutboxNext, NEW k \in Keys \ overtaken,
                      saved'[k] < saved[k], inOrder
               PROVE  \E i \in Messages : ~Message(i).live /\ Message(i).answer[k] = saved'[k]
    OBVIOUS
  <2>1. saved \in Patches /\ saved[k] \in Nat /\ saved' # saved
    BY OutboxFacts
  <2>2. PICK i \in Messages : StageAnswer(i)
    BY <2>1 DEF OutboxNext, ChangeAnswer, SubmitAnswer, DebouncedSave, Connect, Disconnect,
                RetrySave, ClientHears, Saved, NoAck, SplitBatch, GiveUpAnswer,
                ServerHandles, RefuseAnswer, LoseMessage
  <2>3. /\ InTurnAtServer(i) /\ saved' = Over(outbox.wire[i].answer, saved)
        /\ outbox.wire[i].answer \in Patches
    BY <2>2, OutboxFacts DEF StageAnswer, Message
  <2>4. saved'[k] = IF outbox.wire[i].answer[k] # 0 THEN outbox.wire[i].answer[k]
                    ELSE saved[k]
    BY <2>1, <2>3, PatchFacts
  <2>5. outbox.wire[i].answer[k] # 0 /\ saved'[k] = outbox.wire[i].answer[k]
    BY <2>1, <2>4
  <2>6. outbox.wire[i].live => saved[k] <= outbox.wire[i].answer[k]
    BY <2>3, <2>5, StagedInOrder
  <2>7. outbox.wire[i].answer[k] \in Nat
    BY OutboxFacts, AnswerIs DEF Messages
  <2>8. QED
    BY <2>1, <2>5, <2>6, <2>7 DEF Message
<1>2. QED
  BY <1>1, OutboxInvariant, PTL DEF OutboxSpec, NoRollback

-------------------------------------------------------------------------------
(* ExamSocket: types and the invariant.                                    *)

USE SocketAssumption

Counts ==
    /\ remounts \in 0..MaxRemounts
    /\ reconnectAttempts \in 0..(MaxReconnectAttempts + 1)
    /\ authRetries \in 0..(MaxAuthRetries + 1)

LEMMA SocketTypeInit == SocketInit => SocketTypeOK
<1>1. SocketInit => Counts
  BY DEF SocketInit, Counts
<1>2. QED
  BY <1>1 DEF SocketInit, SocketTypeOK, Counts

LEMMA SocketInvInit == SocketInit => SocketInv
BY DEF SocketInit, SocketInv, Live, Connecting

LEMMA SocketTypeStep ==
    SocketTypeOK /\ SocketInv /\ [SocketNext]_socketVars => SocketTypeOK'
<1> SUFFICES ASSUME SocketTypeOK, SocketInv, [SocketNext]_socketVars PROVE SocketTypeOK'
  OBVIOUS
<1> USE DEF SocketTypeOK, SocketInv, Live, Connecting
<1>1. CASE TokenArrives
  BY <1>1 DEF TokenArrives, TornDown
<1>2. CASE SupersededTokenArrives
  BY <1>2 DEF SupersededTokenArrives
<1>3. CASE ReconnectTimerFires
  BY <1>3 DEF ReconnectTimerFires, StartInit, Supersede
<1>4. CASE HeartbeatsMissed
  BY <1>4 DEF HeartbeatsMissed
<1>5. CASE RetryConnection
  <2>1. Counts'
    BY <1>5 DEF Counts, RetryConnection, StartInit, Supersede
  <2>2. QED
    BY <1>5, <2>1 DEF Counts, RetryConnection, StartInit, Supersede
<1>6. CASE RunEffect
  <2>1. Counts'
    <3>1. remounts' = remounts + 1 /\ remounts < MaxRemounts /\ authRetries' = authRetries
      BY <1>6 DEF RunEffect
    <3>2. reconnectAttempts' = reconnectAttempts \/ reconnectAttempts' = 0
      BY <1>6 DEF RunEffect
    <3>3. QED
      BY <3>1, <3>2 DEF Counts
  <2>2. QED
    BY <1>6, <2>1 DEF Counts, RunEffect, StartInit, Supersede, CleanUp, TornDown
<1>7. CASE Unmount
  BY <1>7 DEF Unmount, CleanUp, TornDown, Supersede
<1>8. CASE DisconnectSocket
  BY <1>8 DEF DisconnectSocket, TornDown
<1>9. ASSUME NEW i \in SocketIds, SocketConnects(i) PROVE SocketTypeOK'
  <2>1. Counts'
    BY <1>9 DEF Counts, SocketConnects, MoveSocket
  <2>2. QED
    BY <1>9, <2>1 DEF Counts, SocketConnects, MoveSocket
<1>10. ASSUME NEW i \in SocketIds, ConnectError(i) PROVE SocketTypeOK'
  <2>1. Counts'
    BY <1>10 DEF Counts, ConnectError, MoveSocket, ScheduleReconnect
  <2>2. QED
    BY <1>10, <2>1 DEF Counts, ConnectError, MoveSocket, ScheduleReconnect
<1>11. ASSUME NEW i \in SocketIds, AuthFailed(i) PROVE SocketTypeOK'
  <2>1. Counts'
    BY <1>11 DEF Counts, AuthFailed, MoveSocket, StartInit, Supersede
  <2>2. QED
    BY <1>11, <2>1 DEF Counts, AuthFailed, MoveSocket, StartInit, Supersede
<1>12. ASSUME NEW i \in SocketIds, Disconnected(i) PROVE SocketTypeOK'
  <2>1. Counts'
    BY <1>12 DEF Counts, Disconnected, MoveSocket, ScheduleReconnect
  <2>2. QED
    BY <1>12, <2>1 DEF Counts, Disconnected, MoveSocket, ScheduleReconnect
<1>13. ASSUME NEW i \in SocketIds, Kicked(i) PROVE SocketTypeOK'
  BY <1>13 DEF Kicked
<1>14. CASE UNCHANGED socketVars
  BY <1>14 DEF socketVars
<1>15. QED
  BY <1>1, <1>2, <1>3, <1>4, <1>5, <1>6, <1>7, <1>8, <1>9, <1>10, <1>11, <1>12, <1>13,
     <1>14 DEF SocketNext, SocketEvent, SocketResolves

LEMMA SocketInvStep ==
    SocketTypeOK /\ SocketInv /\ [SocketNext]_socketVars => SocketInv'
<1> SUFFICES ASSUME SocketTypeOK, SocketInv, [SocketNext]_socketVars PROVE SocketInv'
  OBVIOUS
<1> USE DEF SocketTypeOK, SocketInv, Live, Connecting
<1>1. CASE TokenArrives
  BY <1>1 DEF TokenArrives, TornDown
<1>2. CASE SupersededTokenArrives
  BY <1>2 DEF SupersededTokenArrives
<1>3. CASE ReconnectTimerFires
  BY <1>3 DEF ReconnectTimerFires, StartInit, Supersede
<1>4. CASE HeartbeatsMissed
  BY <1>4 DEF HeartbeatsMissed
<1>5. CASE RetryConnection
  BY <1>5 DEF RetryConnection, StartInit, Supersede
<1>6. CASE RunEffect
  <2>1. Live' = {} /\ Connecting' = {} /\ mounted'
    BY <1>6 DEF RunEffect, CleanUp, TornDown
  <2>2. UNCHANGED <<isKicked, authRetries>>
    BY <1>6 DEF RunEffect
  <2>3. "current" \notin Supersede(fetching)
    BY DEF Supersede
  <2>4. ~reconnectTimer'
    BY <1>6 DEF RunEffect, StartInit
  <2>5. \/ connectionStatus' = "idle" /\ "current" \notin fetching'
        \/ /\ connectionStatus' = "connecting" /\ reconnectAttempts' = 0
           /\ "current" \in fetching' \/ leaving'
    BY <1>6, <2>3 DEF RunEffect, StartInit
  <2>6. QED
    BY <2>1, <2>2, <2>4, <2>5
<1>7. CASE Unmount
  BY <1>7 DEF Unmount, CleanUp, TornDown, Supersede
<1>8. CASE DisconnectSocket
  BY <1>8 DEF DisconnectSocket, TornDown
<1>9. ASSUME NEW i \in SocketIds, SocketConnects(i) PROVE SocketInv'
  BY <1>9 DEF SocketConnects, MoveSocket
<1>10. ASSUME NEW i \in SocketIds, ConnectError(i) PROVE SocketInv'
  BY <1>10 DEF ConnectError, MoveSocket, ScheduleReconnect
<1>11. ASSUME NEW i \in SocketIds, AuthFailed(i) PROVE SocketInv'
  BY <1>11 DEF AuthFailed, MoveSocket, StartInit, Supersede
<1>12. ASSUME NEW i \in SocketIds, Disconnected(i) PROVE SocketInv'
  BY <1>12 DEF Disconnected, MoveSocket, ScheduleReconnect
<1>13. ASSUME NEW i \in SocketIds, Kicked(i) PROVE SocketInv'
  BY <1>13 DEF Kicked
<1>14. CASE UNCHANGED socketVars
  BY <1>14 DEF socketVars
<1>15. QED
  BY <1>1, <1>2, <1>3, <1>4, <1>5, <1>6, <1>7, <1>8, <1>9, <1>10, <1>11, <1>12, <1>13,
     <1>14 DEF SocketNext, SocketEvent, SocketResolves

-------------------------------------------------------------------------------
(* What follows from it.                                                   *)

LEMMA SocketInvHolds == SocketSpec => [](SocketTypeOK /\ SocketInv)
<1>1. QED
  BY SocketTypeInit, SocketTypeStep, SocketInvInit, SocketInvStep, PTL DEF SocketSpec

\* Every variable of ExamSocket keeps its type: the retries are counted up to their limits.
THEOREM SocketTypeCorrect == SocketSpec => []SocketTypeOK
<1>1. QED
  BY SocketInvHolds, PTL

\* At most one way to a connection, and one as long as the page waits for it.
LEMMA OneWay == SocketTypeOK /\ SocketInv => OneWayForward
<1> SUFFICES ASSUME SocketTypeOK, SocketInv PROVE OneWayForward
  OBVIOUS
<1> DEFINE timer == IF reconnectTimer THEN {"timer"} ELSE {}
           fetch == fetching \ {"superseded"}
           live == {sockets[i] : i \in Live}
           ways == timer \cup fetch \cup live
<1>1. fetch = IF "current" \in fetching THEN {"current"} ELSE {}
  BY DEF SocketTypeOK
<1>2. live = IF Live = {} THEN {} ELSE {sockets[socketRef]}
  BY DEF SocketInv
<1>3. ways = {} \/ \E x : ways = {x}
  <2>1. CASE reconnectTimer
    BY <1>1, <1>2, <2>1 DEF SocketInv
  <2>2. CASE ~reconnectTimer /\ "current" \in fetching
    BY <1>1, <1>2, <2>2 DEF SocketInv
  <2>3. CASE ~reconnectTimer /\ "current" \notin fetching
    BY <1>1, <1>2, <2>3
  <2>4. QED
    BY <2>1, <2>2, <2>3
<1>4. Cardinality(ways) <= 1
  <2> HIDE DEF ways
  <2>1. CASE ways = {}
    BY <2>1, FS_EmptySet
  <2>2. ASSUME NEW x, ways = {x} PROVE Cardinality(ways) <= 1
    <3>1. Cardinality({x}) = 1
      BY FS_Singleton
    <3>2. QED
      BY <2>2, <3>1
  <2>3. QED
    BY <1>3, <2>1, <2>2
<1>5. reconnectTimer \/ "current" \in fetching \/ Live # {} => ways # {}
  BY <1>1, <1>2
<1>6. QED
  BY <1>4, <1>5 DEF OneWayForward, SocketInv

\* Sockets are never orphaned, and a page that waits for a connection has one way to it
\* (useExamSocket.ts 60-77, 242-305), for any number of remounts and retries.
THEOREM OneConnectionAtATime == SocketSpec => []OneConnection
<1>1. SocketTypeOK /\ SocketInv => OneConnection
  BY OneWay DEF OneConnection, OneSocket, SocketInv
<1>2. QED
  BY <1>1, SocketInvHolds, PTL

\* Who was kicked, or has submitted, is never connected again.
THEOREM KickedStayOut == SocketSpec => KickedStaysOut
<1>1. SocketTypeOK /\ SocketInv /\ [SocketNext]_socketVars =>
        (isKicked => \A i \in SocketIds : sockets[i] # "up" => sockets'[i] # "up")
  <2> SUFFICES ASSUME SocketTypeOK, SocketInv, [SocketNext]_socketVars, isKicked,
                      NEW j \in SocketIds, sockets[j] # "up"
               PROVE  sockets'[j] # "up"
    OBVIOUS
  <2>1. ASSUME NEW i \in SocketIds PROVE ~SocketResolves(i)
    BY <2>1 DEF SocketResolves, SocketConnects, ConnectError, AuthFailed, MoveSocket,
                SocketInv, Connecting
  <2>2. ASSUME NEW i \in SocketIds, Disconnected(i) \/ Kicked(i) PROVE sockets'[j] # "up"
    BY <2>2 DEF Disconnected, Kicked, MoveSocket, SocketTypeOK
  <2>3. CASE TokenArrives \/ SupersededTokenArrives \/ ReconnectTimerFires \/ HeartbeatsMissed
             \/ UNCHANGED socketVars
    BY <2>3 DEF TokenArrives, SupersededTokenArrives, ReconnectTimerFires, HeartbeatsMissed,
                socketVars
  <2>4. CASE RetryConnection \/ RunEffect \/ Unmount \/ DisconnectSocket
    BY <2>4 DEF RetryConnection, RunEffect, Unmount, DisconnectSocket, CleanUp, TornDown
  <2>5. QED
    BY <2>1, <2>2, <2>3, <2>4 DEF SocketNext, SocketEvent
<1>2. QED
  BY <1>1, SocketInvHolds, PTL DEF SocketSpec, KickedStaysOut

-------------------------------------------------------------------------------
(* SessionEntry: what the steps do to the rows.                             *)

\* A session ends or is reopened in its row, and in no other.
LEMMA SetStatusRow ==
    ASSUME EntryTypeOK, NEW i \in SessionRows, NEW passed \in BOOLEAN,
           NEW s \in {"IN_PROGRESS", "COMPLETED", "TERMINATED"},
           SetStatus(i, s, passed)
    PROVE  /\ sessions' \in Seq(SessionRow)
           /\ Len(sessions') = Len(sessions) /\ SessionRows' = SessionRows
           /\ sessions'[i].status = s
           /\ \A j \in SessionRows : sessions'[j].attempt = sessions[j].attempt
           /\ \A j \in SessionRows : j # i => sessions'[j] = sessions[j]
<1>1. /\ sessions \in Seq(SessionRow) /\ sessions[i] \in SessionRow
      /\ i \in 1..Len(sessions)
  BY DEF EntryTypeOK, SessionRows
<1>2. [sessions[i] EXCEPT !.status = s, !.passed = passed] \in SessionRow
  BY <1>1 DEF SessionRow
<1>3. sessions' = [sessions EXCEPT ![i] = [sessions[i] EXCEPT !.status = s,
                                                              !.passed = passed]]
  BY <1>1 DEF SetStatus
<1>4. /\ sessions' \in Seq(SessionRow) /\ Len(sessions') = Len(sessions)
      /\ DOMAIN sessions' = DOMAIN sessions
  BY <1>1, <1>2, <1>3
<1>5. /\ sessions'[i] = [sessions[i] EXCEPT !.status = s, !.passed = passed]
      /\ \A j \in SessionRows : j # i => sessions'[j] = sessions[j]
  BY <1>1, <1>3 DEF SessionRows
<1>6. sessions'[i].status = s /\ sessions'[i].attempt = sessions[i].attempt
  BY <1>1, <1>5 DEF SessionRow
<1>7. QED
  BY <1>4, <1>5, <1>6 DEF SessionRows

\* An inserted session is live, comes last, and leaves the others alone.
LEMMA InsertRow ==
    ASSUME EntryTypeOK, NEW r \in EntryRequests, InsertSession(r)
    PROVE  /\ sessions' \in Seq(SessionRow)
           /\ Len(sessions') = Len(sessions) + 1
           /\ SessionRows' = 1..(Len(sessions) + 1) /\ SessionRows = 1..Len(sessions)
           /\ \A j \in SessionRows : sessions'[j] = sessions[j]
           /\ sessions'[Len(sessions) + 1].attempt = NextAttempt(last[r])
<1> DEFINE new == [status |-> "IN_PROGRESS", attempt |-> NextAttempt(last[r]),
                   passed |-> FALSE]
<1>1. NextAttempt(last[r]) \in Nat
  BY DEF NextAttempt, EntryTypeOK, SessionRow, NoSession, Pending
<1>2. new \in SessionRow /\ new.attempt = NextAttempt(last[r])
  BY <1>1 DEF SessionRow
<1>3. sessions' = Append(sessions, new)
  BY DEF InsertSession
<1> HIDE DEF new
<1>4. QED
  BY <1>2, <1>3 DEF EntryTypeOK, SessionRows

-------------------------------------------------------------------------------
(* Type correctness.                                                       *)

\* The latest attempt, if any, is a row.
LEMMA LatestType ==
    ASSUME EntryTypeOK, NEW latest \in Latest
    PROVE  latest \in SessionRow \cup {NoSession}
  BY DEF EntryTypeOK, Latest, SessionRows

\* Going on keeps the type of the program counters.
LEMMA EntryGoesOn ==
    ASSUME EntryTypeOK, NEW r \in EntryRequests, NEW label \in Labels, EntryGoto(r, label)
    PROVE  entering' \in [EntryRequests -> Labels]
  BY DEF EntryTypeOK, EntryGoto

\* Ending a request keeps the types of its locals.
LEMMA EntryFinish ==
    ASSUME EntryTypeOK, NEW r \in EntryRequests, Finish(r) \/ Return(r)
    PROVE  /\ entering' \in [EntryRequests -> Labels]
           /\ lockTakers' \subseteq EntryRequests
           /\ last' \in [EntryRequests -> SessionRow \cup {NoSession, Pending}]
           /\ usedAttempts' \in [EntryRequests -> Nat]
<1>1. CASE Return(r)
  BY <1>1 DEF EntryTypeOK, Return, Labels, NoSession
<1>2. CASE EntryGoto(r, "release") /\ UNCHANGED <<lockTakers, last, usedAttempts>>
  BY <1>2, EntryGoesOn DEF EntryTypeOK, Labels
<1>3. QED
  BY <1>1, <1>2 DEF Finish

\* The steps of a request keep the types.
LEMMA EntryTypeRequest ==
    ASSUME EntryTypeOK, NEW r \in EntryRequests,
           Enter(r) \/ EntryStep(r) \/ EntryFails(r) \/ CrashEntry(r)
    PROVE  EntryTypeOK'
<1> USE DEF EntryTypeOK
<1>l. /\ "idle" \in Labels /\ "checkActive" \in Labels /\ "check" \in Labels
      /\ "lock" \in Labels /\ "read" \in Labels /\ "create" \in Labels
      /\ "insert" \in Labels /\ "release" \in Labels
  BY DEF Labels
<1>1. CASE Enter(r)
  BY <1>1, <1>l, EntryGoesOn DEF Enter
<1>2. CASE CheckActive(r)
  <2>1. last' \in [EntryRequests -> SessionRow \cup {NoSession, Pending}]
    <3>1. last' = last \/ last' = [last EXCEPT ![r] = Pending]
      BY <1>2 DEF CheckActive
    <3>2. QED
      BY <3>1
  <2>2. usedAttempts' \in [EntryRequests -> Nat]
    <3>1. \/ usedAttempts' = usedAttempts
          \/ usedAttempts' = [usedAttempts EXCEPT ![r] = MaxEntries + 1]
      BY <1>2 DEF CheckActive, Unread
    <3>2. MaxEntries + 1 \in Nat
      BY EntryBoundsAssumption
    <3>3. QED
      BY <3>1, <3>2
  <2>3. entering' \in [EntryRequests -> Labels]
    BY <1>2, <1>l, EntryGoesOn DEF CheckActive
  <2>4. QED
    BY <1>2, <2>1, <2>2, <2>3 DEF CheckActive
<1>3. CASE CheckLatest(r)
  BY <1>3, LatestType DEF CheckLatest
<1>4. CASE CountAttempts(r)
  <2>1. Cardinality(Ended) \in Nat
    <3>1. Ended \subseteq 1..Len(sessions) /\ Len(sessions) \in Nat
      BY DEF Ended, SessionRows
    <3>2. IsFiniteSet(1..Len(sessions))
      BY <3>1, FS_Interval
    <3>3. IsFiniteSet(Ended)
      BY <3>1, <3>2, FS_Subset
    <3>4. QED
      BY <3>3, FS_CardinalityType
  <2>2. QED
    BY <1>4, <2>1 DEF CountAttempts
<1>5. CASE Admit(r)
  BY <1>5, <1>l, EntryGoesOn, EntryFinish DEF Admit
<1>6. CASE AcquireStartLock(r) \/ GiveUpLock(r)
  BY <1>6, <1>l, EntryGoesOn DEF AcquireStartLock, GiveUpLock
<1>7. CASE ReadLatest(r)
  <2>1. PICK latest \in Latest :
           IF StartsAttempt(latest)
           THEN /\ last' = [last EXCEPT ![r] = latest]
                /\ EntryGoto(r, "create")
                /\ UNCHANGED <<lockTakers, usedAttempts>>
           ELSE Finish(r)
    BY <1>7 DEF ReadLatest
  <2>2. CASE Finish(r)
    BY <1>7, <2>2, EntryFinish DEF ReadLatest
  <2>3. CASE last' = [last EXCEPT ![r] = latest] /\ EntryGoto(r, "create")
             /\ UNCHANGED <<lockTakers, usedAttempts>>
    BY <1>7, <1>l, <2>3, LatestType, EntryGoesOn DEF ReadLatest
  <2>4. QED
    BY <2>1, <2>2, <2>3
<1>8. CASE FindActive(r)
  BY <1>8, <1>l, EntryGoesOn, EntryFinish DEF FindActive
<1>9. CASE InsertSession(r)
  BY <1>9, InsertRow, EntryFinish DEF InsertSession
<1>10. CASE ReleaseStartLock(r)
  BY <1>10, EntryFinish DEF ReleaseStartLock
<1>11. CASE EntryFails(r)
  BY <1>11, EntryFinish DEF EntryFails
<1>12. CASE CrashEntry(r)
  BY <1>12, EntryFinish DEF CrashEntry
<1>13. QED
  BY <1>1, <1>2, <1>3, <1>4, <1>5, <1>6, <1>7, <1>8, <1>9, <1>10, <1>11, <1>12
     DEF EntryStep

\* Every variable keeps its type.
THEOREM EntryTypeCorrect == EntrySpec => []EntryTypeOK
<1>1. EntryInit => EntryTypeOK
  BY EntryBoundsAssumption DEF EntryInit, EntryTypeOK, Labels
<1>2. ASSUME EntryTypeOK, [EntryNext]_entryVars
      PROVE  EntryTypeOK'
  <2> USE DEF EntryTypeOK
  <2>1. CASE UNCHANGED entryVars
    BY <1>2, <2>1 DEF entryVars, requestVars
  <2>2. ASSUME NEW r \in EntryRequests,
               Enter(r) \/ EntryStep(r) \/ EntryFails(r) \/ CrashEntry(r)
        PROVE  EntryTypeOK'
    BY <1>2, <2>2, EntryTypeRequest
  <2>3. CASE ExpireStartLock
    BY <1>2, <2>3 DEF ExpireStartLock, requestVars
  <2>4. ASSUME NEW i \in SessionRows, EndSession(i)
        PROVE  EntryTypeOK'
    BY <1>2, <2>4, SetStatusRow DEF EndSession, requestVars
  <2>5. CASE FindTerminated
    BY <1>2, <2>5 DEF FindTerminated, Terminated, SessionRows, requestVars
  <2>6. CASE ReopenTerminated
    BY <1>2, <2>6, SetStatusRow DEF ReopenTerminated, Terminated, requestVars
  <2>7. QED
    BY <1>2, <2>1, <2>2, <2>3, <2>4, <2>5, <2>6 DEF EntryNext
<1>3. QED
  BY <1>1, <1>2, PTL DEF EntrySpec

-------------------------------------------------------------------------------
(* One live session, whatever becomes of the Redis lock.                   *)

\* Without reopenings no terminated session is about to become live again.
NoReopening == target = 0 /\ reopens = 0

\* A request creates a session only while none is live.
LEMMA InsertRequest ==
    ASSUME EntryTypeOK, InsertInv, NEW r \in EntryRequests,
           Enter(r) \/ EntryStep(r) \/ EntryFails(r) \/ CrashEntry(r)
    PROVE  InsertInv'
<1> USE DEF EntryTypeOK
<1>f. \A q \in EntryRequests \ {r} :
         /\ \A label \in Labels : EntryGoto(r, label) => entering'[q] = entering[q]
         /\ Return(r) \/ Finish(r) => entering'[q] = entering[q]
  BY DEF EntryGoto, Return, Finish, Labels
<1>g. /\ \A label \in Labels : EntryGoto(r, label) => entering'[r] = label
      /\ Return(r) \/ Finish(r) => entering'[r] \in {"idle", "release"}
  BY DEF EntryGoto, Return, Finish, Labels
<1>l. /\ "idle" \in Labels /\ "checkActive" \in Labels /\ "check" \in Labels
      /\ "lock" \in Labels /\ "read" \in Labels /\ "create" \in Labels
      /\ "insert" \in Labels /\ "release" \in Labels
  BY DEF Labels
<1>s. ASSUME UNCHANGED sessions
      PROVE  LiveSessions' = LiveSessions /\ (OneLiveSession => OneLiveSession')
  BY <1>s DEF LiveSessions, SessionRows, OneLiveSession
<1>n. NoOne \notin EntryRequests
  BY RequestsAssumption
<1>1. CASE /\ UNCHANGED <<sessions, advisory>>
           /\ \A q \in EntryRequests : entering'[q] = "insert" => entering[q] = "insert"
  BY <1>1, <1>s DEF InsertInv
<1>2. CASE Enter(r) \/ CheckActive(r) \/ AcquireStartLock(r) \/ GiveUpLock(r)
  <2>1. \E label \in Labels \ {"insert"} : EntryGoto(r, label) \/ UNCHANGED entering
    BY <1>2, <1>l DEF Enter, CheckActive, AcquireStartLock, GiveUpLock
  <2>2. UNCHANGED <<sessions, advisory>>
    BY <1>2 DEF Enter, CheckActive, AcquireStartLock, GiveUpLock
  <2>3. QED
    BY <1>1, <1>f, <1>g, <2>1, <2>2
<1>3. CASE CheckLatest(r) \/ CountAttempts(r)
  BY <1>1, <1>3 DEF CheckLatest, CountAttempts
<1>4. CASE Admit(r)
  <2>1. EntryGoto(r, "lock") \/ Return(r)
    BY <1>4 DEF Admit
  <2>2. QED
    BY <1>1, <1>4, <1>f, <1>g, <1>l, <2>1 DEF Admit
<1>5. CASE ReadLatest(r)
  <2>1. EntryGoto(r, "create") \/ Finish(r)
    BY <1>5 DEF ReadLatest
  <2>2. QED
    BY <1>1, <1>5, <1>f, <1>g, <1>l, <2>1 DEF ReadLatest
<1>6. CASE FindActive(r)
  <2>1. CASE NoneActive
    <3>1. /\ advisory = NoOne /\ advisory' = r /\ LiveSessions = {}
          /\ EntryGoto(r, "insert") /\ UNCHANGED sessions
      BY <1>6, <2>1 DEF FindActive, NoneActive
    <3>2. \A q \in EntryRequests : entering'[q] = "insert" => q = r
      BY <1>f, <1>l, <1>n, <3>1 DEF InsertInv
    <3>3. QED
      BY <1>s, <3>1, <3>2 DEF InsertInv
  <2>2. CASE ~NoneActive
    <3>1. Finish(r) /\ UNCHANGED <<sessions, advisory>>
      BY <1>6, <2>2 DEF FindActive
    <3>2. QED
      BY <1>1, <1>f, <1>g, <3>1
  <2>3. QED
    BY <2>1, <2>2
<1>7. CASE InsertSession(r)
  <2>1. entering[r] = "insert" /\ advisory = r /\ LiveSessions = {} /\ advisory' = NoOne /\ Finish(r)
    BY <1>7, <1>n DEF InsertSession, InsertInv
  <2>2. \A q \in EntryRequests : entering'[q] # "insert"
    BY <1>f, <1>g, <2>1 DEF InsertInv
  <2>3. \A j \in LiveSessions' : j = Len(sessions) + 1
    BY <1>7, <2>1, InsertRow DEF LiveSessions
  <2>4. OneLiveSession'
    BY <2>3 DEF OneLiveSession
  <2>5. QED
    BY <2>1, <2>2, <2>4 DEF InsertInv
<1>8. CASE ReleaseStartLock(r)
  BY <1>1, <1>8, <1>f, <1>g DEF ReleaseStartLock
<1>9. CASE EntryFails(r) \/ CrashEntry(r)
  <2>1. /\ UNCHANGED sessions
        /\ Finish(r) \/ Return(r)
        /\ advisory' = IF advisory = r THEN NoOne ELSE advisory
    BY <1>9 DEF EntryFails, CrashEntry
  <2>2. \A q \in EntryRequests : entering'[q] = "insert" => q # r /\ entering[q] = "insert"
    BY <1>f, <1>g, <2>1
  <2>3. \A q \in EntryRequests : entering'[q] = "insert" => advisory' = q
    BY <2>1, <2>2 DEF InsertInv
  <2>4. (advisory # NoOne => LiveSessions = {}) /\ OneLiveSession
    BY DEF InsertInv
  <2>5. LiveSessions' = LiveSessions /\ OneLiveSession'
    BY <1>s, <2>1, <2>4
  <2>6. (advisory # NoOne => LiveSessions = {})'
    BY <2>1, <2>4, <2>5
  <2>7. QED
    BY <2>3, <2>5, <2>6 DEF InsertInv
<1>10. QED
  BY <1>2, <1>3, <1>4, <1>5, <1>6, <1>7, <1>8, <1>9 DEF EntryStep

\* Two live sessions of a student never coexist, although the Redis lock may expire,
\* be given up or be deleted by another request, as long as no teacher reopens a
\* terminated session (exam.service 747-792).
THEOREM NeverTwoLive ==
    ASSUME MaxReopens = 0
    PROVE  EntrySpec => []OneLiveSession
<1>1. EntryInit => InsertInv /\ NoReopening
  BY DEF EntryInit, InsertInv, NoReopening, OneLiveSession, LiveSessions, SessionRows
<1>2. ASSUME EntryTypeOK, InsertInv, NoReopening, [EntryNext]_entryVars
      PROVE  (InsertInv /\ NoReopening)'
  <2>1. CASE UNCHANGED entryVars
    BY <1>2, <2>1
       DEF InsertInv, NoReopening, OneLiveSession, LiveSessions, SessionRows, entryVars, requestVars
  <2>2. ASSUME NEW r \in EntryRequests,
               Enter(r) \/ EntryStep(r) \/ EntryFails(r) \/ CrashEntry(r)
        PROVE  (InsertInv /\ NoReopening)'
    <3>1. InsertInv'
      BY <1>2, <2>2, InsertRequest
    <3>2. UNCHANGED <<target, reopens>>
      BY <2>2 DEF Enter, EntryStep, EntryFails, CrashEntry, CheckActive, CheckLatest,
                  CountAttempts, Admit, AcquireStartLock, GiveUpLock, ReadLatest,
                  FindActive, InsertSession, ReleaseStartLock
    <3>3. QED
      BY <1>2, <3>1, <3>2 DEF NoReopening
  <2>3. CASE ExpireStartLock
    BY <1>2, <2>3 DEF ExpireStartLock, requestVars, InsertInv, NoReopening,
                      OneLiveSession, LiveSessions, SessionRows
  <2>4. ASSUME NEW i \in SessionRows, EndSession(i)
        PROVE  (InsertInv /\ NoReopening)'
    <3>1. PICK s \in {"COMPLETED", "TERMINATED"}, passed \in BOOLEAN :
             SetStatus(i, s, passed)
      BY <2>4 DEF EndSession
    <3>2. /\ SessionRows' = SessionRows /\ sessions'[i].status = s
          /\ \A j \in SessionRows : j # i => sessions'[j] = sessions[j]
      BY <1>2, <3>1, SetStatusRow
    <3>3. LiveSessions' \subseteq LiveSessions
      BY <3>2 DEF LiveSessions
    <3>4. QED
      BY <1>2, <2>4, <3>3
         DEF EndSession, requestVars, InsertInv, NoReopening, OneLiveSession
  <2>5. ~FindTerminated /\ ~ReopenTerminated
    BY <1>2 DEF FindTerminated, ReopenTerminated, NoReopening
  <2>6. QED
    BY <1>2, <2>1, <2>2, <2>3, <2>4, <2>5 DEF EntryNext
<1>3. InsertInv => OneLiveSession
  BY DEF InsertInv
<1>4. QED
  BY <1>1, <1>2, <1>3, EntryTypeCorrect, PTL DEF EntrySpec

-------------------------------------------------------------------------------
(* Numbered attempts, and one attempt at a standalone exam.                *)

\* Numbered attempts: the latest one tells how many there are.
LEMMA LatestNumbered ==
    ASSUME EntryTypeOK, AttemptsNumbered, NEW latest \in Latest
    PROVE  /\ latest.attempt = Len(sessions)
           /\ latest.status = "NONE" => sessions = <<>>
<1>1. CASE sessions = <<>>
  BY <1>1 DEF Latest, NoSession
<1>2. CASE sessions # <<>>
  <2>1. PICK i \in SessionRows : First(i) /\ latest = sessions[i]
    BY <1>2 DEF Latest
  <2>2. SessionRows = 1..Len(sessions) /\ Len(sessions) \in Nat \ {0}
    BY <1>2 DEF EntryTypeOK, SessionRows
  <2>3. sessions[i].attempt = i /\ sessions[Len(sessions)].attempt = Len(sessions)
    BY <2>1, <2>2 DEF AttemptsNumbered
  <2>4. i = Len(sessions)
    BY <2>1, <2>2, <2>3 DEF First
  <2>5. sessions[i] \in SessionRow
    BY <2>1, <2>2 DEF EntryTypeOK
  <2>6. sessions[i].status # "NONE"
    BY <2>5 DEF SessionRow
  <2>7. QED
    BY <2>1, <2>3, <2>4, <2>6
<1>3. QED
  BY <1>1, <1>2

\* A step of a request that leaves the rows and the lock alone, and reads no attempt.
LEMMA StartKept ==
    ASSUME EntryTypeOK, StartInv, NEW r \in EntryRequests,
           UNCHANGED <<sessions, startLock, linked>>,
           \/ \E label \in Labels : /\ EntryGoto(r, label) /\ lockTakers' = lockTakers
                                    /\ label = "insert" => entering[r] = "create" /\ last' = last
                                    /\ label # "create"
                                    /\ label \in {"read", "insert", "release"}
                                          => Starting(r)
                                    /\ ~Starting(r) \/ label \in {"insert", "release"}
                                    /\ \A q \in EntryRequests \ {r} : last'[q] = last[q]
           \/ Return(r)
    PROVE  StartInv'
<1> USE DEF EntryTypeOK
<1>1. CASE Return(r)
  <2>1. /\ entering'[r] = "idle"
        /\ \A q \in EntryRequests \ {r} : entering'[q] = entering[q] /\ last'[q] = last[q]
    BY <1>1 DEF Return
  <2>2. lockTakers' = lockTakers \ {r}
    BY <1>1 DEF Return
  <2>3. QED
    BY <2>1, <2>2 DEF StartInv, Starting, AttemptsNumbered, StandaloneOnce, SessionRows
<1>2. CASE ~Return(r)
  <2>1. PICK label \in Labels :
           /\ EntryGoto(r, label) /\ lockTakers' = lockTakers
           /\ label = "insert" => entering[r] = "create" /\ last' = last
           /\ label # "create"
           /\ label \in {"read", "insert", "release"} => Starting(r)
           /\ ~Starting(r) \/ label \in {"insert", "release"}
           /\ \A q \in EntryRequests \ {r} : last'[q] = last[q]
    BY <1>2
  <2>2. entering'[r] = label /\ \A q \in EntryRequests \ {r} : entering'[q] = entering[q]
    BY <2>1 DEF EntryGoto
  <2>3. \A q \in EntryRequests : Starting(q)' => Starting(q)
    BY <2>1, <2>2 DEF Starting
  <2>4. \A q \in lockTakers : Starting(q)'
    BY <2>1, <2>2 DEF Starting, StartInv
  <2>5. \A q \in EntryRequests : entering'[q] \in {"create", "insert"} =>
           entering[q] \in {"create", "insert"} /\ last'[q] = last[q]
    BY <2>1, <2>2
  <2>6. QED
    BY <2>1, <2>3, <2>4, <2>5 DEF StartInv, AttemptsNumbered, StandaloneOnce, SessionRows
<1>3. QED
  BY <1>1, <1>2

\* While nobody starts without the lock, a request keeps the attempts numbered.
LEMMA StartRequest ==
    ASSUME EntryTypeOK, StartInv, ~StartMayBeSlow, MaxEntryCrashes = 0, NEW r \in EntryRequests,
           Enter(r) \/ EntryStep(r) \/ EntryFails(r) \/ CrashEntry(r)
    PROVE  StartInv'
<1> USE DEF EntryTypeOK
<1>l. /\ "idle" \in Labels /\ "checkActive" \in Labels /\ "check" \in Labels
      /\ "lock" \in Labels /\ "read" \in Labels /\ "create" \in Labels
      /\ "insert" \in Labels /\ "release" \in Labels
  BY DEF Labels
<1>k. linked' = linked
  BY DEF Enter, EntryStep, EntryFails, CrashEntry, CheckActive, CheckLatest,
         CountAttempts, Admit, AcquireStartLock, GiveUpLock, ReadLatest, FindActive,
         InsertSession, ReleaseStartLock
<1>n. startLock # Nobody /\ r # NoOne
  BY RequestsAssumption DEF StartInv
<1>f. ASSUME Finish(r), UNCHANGED <<sessions, startLock, linked>> PROVE StartInv'
  BY <1>f, <1>l, StartKept DEF Finish, StartInv, Starting
<1>1. CASE Enter(r)
  BY <1>1, <1>l, StartKept DEF Enter, Starting
<1>2. CASE CheckActive(r)
  <2>1. \A q \in EntryRequests \ {r} : last'[q] = last[q]
    BY <1>2 DEF CheckActive
  <2>2. QED
    BY <1>2, <1>l, <2>1, StartKept DEF CheckActive, Starting
<1>3. CASE CheckLatest(r) \/ CountAttempts(r)
  <2>1. /\ entering[r] = "check" /\ UNCHANGED <<sessions, startLock, entering, lockTakers>>
        /\ \A q \in EntryRequests \ {r} : last'[q] = last[q]
    BY <1>3 DEF CheckLatest, CountAttempts
  <2>2. QED
    BY <1>k, <2>1 DEF StartInv, Starting, AttemptsNumbered, StandaloneOnce, SessionRows
<1>4. CASE Admit(r)
  BY <1>4, <1>l, StartKept DEF Admit, Starting
<1>5. CASE AcquireStartLock(r)
  <2>1. startLock = NoOne /\ startLock' = r /\ lockTakers' = lockTakers \cup {r}
        /\ EntryGoto(r, "read") /\ UNCHANGED <<sessions, last>>
    BY <1>5 DEF AcquireStartLock
  <2>2. \A q \in EntryRequests : ~Starting(q)
    BY <2>1, RequestsAssumption DEF StartInv
  <2>3. entering'[r] = "read" /\ \A q \in EntryRequests \ {r} : entering'[q] = entering[q]
    BY <2>1 DEF EntryGoto
  <2>4. QED
    BY <1>k, <1>n, <2>1, <2>2, <2>3, RequestsAssumption
       DEF StartInv, Starting, AttemptsNumbered, StandaloneOnce, SessionRows
<1>6. ~GiveUpLock(r) /\ ~CrashEntry(r)
  BY <1>n DEF GiveUpLock, CrashEntry
<1>7. CASE ReadLatest(r)
  <2>1. PICK latest \in Latest :
           IF StartsAttempt(latest)
           THEN /\ last' = [last EXCEPT ![r] = latest]
                /\ EntryGoto(r, "create")
                /\ UNCHANGED <<lockTakers, usedAttempts>>
           ELSE Finish(r)
    BY <1>7 DEF ReadLatest
  <2>2. CASE ~StartsAttempt(latest)
    BY <1>7, <1>f, <2>1, <2>2 DEF ReadLatest
  <2>3. CASE StartsAttempt(latest)
    <3>1. latest.attempt = Len(sessions) /\ (linked \/ sessions = <<>>)
      BY <2>3, LatestNumbered DEF StartInv, StartsAttempt
    <3>2. /\ last'[r] = latest /\ entering'[r] = "create" /\ entering[r] = "read"
          /\ lockTakers' = lockTakers /\ UNCHANGED <<sessions, startLock, linked>>
          /\ \A q \in EntryRequests \ {r} : entering'[q] = entering[q] /\ last'[q] = last[q]
      BY <1>7, <2>1, <2>3 DEF ReadLatest, EntryGoto
    <3>3. QED
      BY <3>1, <3>2 DEF StartInv, Starting, AttemptsNumbered, StandaloneOnce, SessionRows
  <2>4. QED
    BY <2>2, <2>3
<1>8. CASE FindActive(r)
  <2>1. /\ entering[r] = "create" /\ UNCHANGED <<sessions, startLock, linked>>
        /\ Finish(r) \/ (EntryGoto(r, "insert") /\ UNCHANGED <<lockTakers, last>>)
    BY <1>8 DEF FindActive
  <2>2. QED
    BY <1>l, <1>f, <2>1, StartKept DEF Starting
<1>9. CASE InsertSession(r)
  <2>1. /\ entering[r] = "insert" /\ startLock = r /\ startLock' = r
        /\ Finish(r)
    BY <1>9 DEF InsertSession, StartInv, Starting
  <2>2. last[r].attempt = Len(sessions) /\ (linked \/ sessions = <<>>)
    BY <2>1 DEF StartInv
  <2>3. NextAttempt(last[r]) = Len(sessions) + 1
    BY <2>2 DEF NextAttempt
  <2>4. AttemptsNumbered'
    <3>1. /\ SessionRows' = 1..(Len(sessions) + 1) /\ SessionRows = 1..Len(sessions)
          /\ \A j \in SessionRows : sessions'[j] = sessions[j]
          /\ sessions'[Len(sessions) + 1].attempt = Len(sessions) + 1
      BY <1>9, <2>3, InsertRow
    <3>2. \A j \in SessionRows : sessions'[j].attempt = j
      BY <3>1 DEF AttemptsNumbered, StartInv
    <3>3. \A j \in SessionRows' : j \in SessionRows \/ j = Len(sessions) + 1
      BY <3>1
    <3>4. QED
      BY <3>1, <3>2, <3>3 DEF AttemptsNumbered
  <2>5. StandaloneOnce'
    BY <1>9, <1>k, <2>2, InsertRow DEF StandaloneOnce
  <2>6. \A q \in EntryRequests \ {r} : ~Starting(q) /\ entering'[q] = entering[q]
    BY <2>1 DEF StartInv, Finish, Return, EntryGoto
  <2>7. \/ entering'[r] = "idle" /\ lockTakers' = lockTakers \ {r}
        \/ entering'[r] = "release" /\ lockTakers' = lockTakers
    BY <2>1 DEF Finish, Return, EntryGoto
  <2>8. QED
    BY <1>k, <2>1, <1>n, <2>4, <2>5, <2>6, <2>7 DEF StartInv, Starting
<1>10. CASE ReleaseStartLock(r)
  <2>1. /\ entering[r] = "release" /\ startLock = r /\ startLock' = NoOne
        /\ Return(r) /\ UNCHANGED sessions
    BY <1>10 DEF ReleaseStartLock, StartInv, Starting
  <2>2. /\ entering'[r] = "idle" /\ lockTakers' = lockTakers \ {r}
        /\ \A q \in EntryRequests \ {r} : ~Starting(q) /\ entering'[q] = entering[q]
    BY <2>1 DEF StartInv, Return
  <2>3. QED
    BY <1>k, <2>1, <2>2, RequestsAssumption
       DEF StartInv, Starting, AttemptsNumbered, StandaloneOnce, SessionRows
<1>11. CASE EntryFails(r)
  BY <1>11, <1>f DEF EntryFails
<1>12. QED
  BY <1>1, <1>2, <1>3, <1>4, <1>5, <1>6, <1>7, <1>8, <1>9, <1>10, <1>11
     DEF EntryStep

\* Attempts are numbered in the order of their creation and a standalone exam is taken
\* once, provided the Redis lock neither expires, is lost with its holder nor is
\* given up (exam.service 794-860, 1017-1101).
THEOREM StartsAreNumbered ==
    ASSUME ~LockMayExpire, ~StartMayBeSlow, MaxEntryCrashes = 0
    PROVE  EntrySpec => []StartsNumbered
<1>1. EntryInit => StartInv
  BY RequestsAssumption
     DEF EntryInit, StartInv, Starting, AttemptsNumbered, StandaloneOnce, SessionRows
<1>2. ASSUME EntryTypeOK, StartInv, [EntryNext]_entryVars
      PROVE  StartInv'
  <2>1. CASE UNCHANGED entryVars
    BY <1>2, <2>1 DEF StartInv, Starting, AttemptsNumbered, StandaloneOnce, SessionRows,
                      entryVars, requestVars
  <2>2. ASSUME NEW r \in EntryRequests,
               Enter(r) \/ EntryStep(r) \/ EntryFails(r) \/ CrashEntry(r)
        PROVE  StartInv'
    BY <1>2, <2>2, StartRequest
  <2>3. ~ExpireStartLock
    BY <1>2 DEF ExpireStartLock, StartInv
  <2>4. ASSUME NEW i \in SessionRows, NEW s \in {"IN_PROGRESS", "COMPLETED", "TERMINATED"},
               NEW passed \in BOOLEAN, SetStatus(i, s, passed),
               UNCHANGED <<startLock, requestVars, linked>>
        PROVE  StartInv'
    <3>1. /\ Len(sessions') = Len(sessions) /\ SessionRows' = SessionRows
          /\ \A j \in SessionRows : sessions'[j].attempt = sessions[j].attempt
          /\ sessions # <<>>
      BY <1>2, <2>4, SetStatusRow DEF EntryTypeOK, SessionRows
    <3>2. AttemptsNumbered' /\ StandaloneOnce'
      BY <1>2, <2>4, <3>1 DEF StartInv, AttemptsNumbered, StandaloneOnce
    <3>3. QED
      BY <1>2, <2>4, <3>1, <3>2 DEF StartInv, Starting, requestVars
  <2>5. ASSUME NEW i \in SessionRows, EndSession(i)
        PROVE  StartInv'
    BY <2>4, <2>5 DEF EndSession
  <2>6. CASE FindTerminated
    BY <1>2, <2>6 DEF FindTerminated, StartInv, Starting, AttemptsNumbered,
                      StandaloneOnce, SessionRows, requestVars
  <2>7. CASE ReopenTerminated
    <3>1. CASE target \in Terminated /\ LiveSessions = {}
      BY <2>4, <2>7, <3>1 DEF ReopenTerminated, Terminated
    <3>2. CASE ~(target \in Terminated /\ LiveSessions = {})
      BY <1>2, <2>7, <3>2 DEF ReopenTerminated, StartInv, Starting, AttemptsNumbered,
                              StandaloneOnce, SessionRows, requestVars
    <3>3. QED
      BY <3>1, <3>2
  <2>8. QED
    BY <1>2, <2>1, <2>2, <2>3, <2>5, <2>6, <2>7 DEF EntryNext
<1>3. StartInv => StartsNumbered
  BY DEF StartInv, StartsNumbered
<1>4. QED
  BY <1>1, <1>2, <1>3, EntryTypeCorrect, PTL DEF EntrySpec

===============================================================================
