-------------------------- MODULE ChangeSetsProofs --------------------------
(***************************************************************************)
(* Proofs about the changesets of an exam, for any number of requests,     *)
(* edits and failures and sections of any length: the exam never holds a   *)
(* section or an item twice, and the builder's edits are not overwritten   *)
(* by a request that had loaded them.                                      *)
(***************************************************************************)
EXTENDS ChangeSets, SequenceTheorems, TLAPS

-------------------------------------------------------------------------------
(* Sequences.                                                              *)

\* A sequence is another one with an element at a place.
Inserted(t, S, s, k, x) ==
    /\ t \in Seq(S) /\ Len(t) = Len(s) + 1
    /\ \A i \in 1..Len(t) : t[i] = IF i < k THEN s[i] ELSE IF i = k THEN x ELSE s[i - 1]

LEMMA InsertedAt ==
    ASSUME NEW S, NEW s \in Seq(S), NEW x \in S, NEW k \in 1..(Len(s) + 1)
    PROVE  Inserted(Edits!InsertAt(s, k, x), S, s, k, x)
<1> DEFINE a == SubSeq(s, 1, k - 1)
           b == SubSeq(s, k, Len(s))
           m == a \o <<x>>
<1>1. /\ a \in Seq(S) /\ Len(a) = k - 1 /\ \A i \in 1..(k - 1) : a[i] = s[i]
  BY SubSeqProperties
<1>2. /\ b \in Seq(S) /\ Len(b) = Len(s) - k + 1
      /\ \A i \in 1..(Len(s) - k + 1) : b[i] = s[k + i - 1]
  BY SubSeqProperties
<1>3. /\ m \in Seq(S) /\ Len(m) = k
      /\ \A i \in 1..k : m[i] = IF i < k THEN s[i] ELSE x
  BY <1>1, ConcatProperties
<1> HIDE DEF a, b, m
<1>4. /\ m \o b \in Seq(S) /\ Len(m \o b) = Len(s) + 1
      /\ \A i \in 1..(Len(s) + 1) : (m \o b)[i] = IF i <= k THEN m[i] ELSE b[i - k]
  <2>1. Len(s) \in Nat /\ k + (Len(s) - k + 1) = Len(s) + 1
    BY LenProperties
  <2>2. Len(m) + Len(b) = Len(s) + 1
    BY <2>1, <1>2, <1>3
  <2>3. /\ m \o b \in Seq(S) /\ Len(m \o b) = Len(m) + Len(b)
        /\ \A i \in 1..(Len(m) + Len(b)) :
              (m \o b)[i] = IF i <= Len(m) THEN m[i] ELSE b[i - Len(m)]
    BY <1>2, <1>3, ConcatProperties
  <2>4. Len(m) = k
    BY <1>3
  <2>5. QED
    BY <2>2, <2>3, <2>4
<1>5. Edits!InsertAt(s, k, x) = m \o b
  BY DEF Edits!InsertAt, a, b, m
<1>6. \A i \in 1..(Len(s) + 1) :
          (m \o b)[i] = IF i < k THEN s[i] ELSE IF i = k THEN x ELSE s[i - 1]
  <2> SUFFICES ASSUME NEW i \in 1..(Len(s) + 1)
               PROVE  (m \o b)[i] = IF i < k THEN s[i] ELSE IF i = k THEN x ELSE s[i - 1]
    OBVIOUS
  <2>1. CASE i <= k
    BY <2>1, <1>3, <1>4
  <2>2. CASE i > k
    <3>1. i - k \in 1..(Len(s) - k + 1)
      BY <2>2
    <3>2. b[i - k] = s[k + (i - k) - 1]
      BY <3>1, <1>2
    <3>3. k + (i - k) - 1 = i - 1
      BY <2>2
    <3>4. ~(i <= k) /\ ~(i < k) /\ i # k
      BY <2>2
    <3>5. (m \o b)[i] = b[i - k]
      BY <3>4, <1>4
    <3>6. QED
      BY <3>2, <3>3, <3>4, <3>5
  <2>3. i <= k \/ i > k
    BY LenProperties
  <2>4. QED
    BY <2>1, <2>2, <2>3
<1>7. QED
  BY <1>4, <1>5, <1>6 DEF Inserted

LEMMA InsertFacts ==
    ASSUME NEW S, NEW s \in Seq(S), NEW x \in S, NEW k \in 1..(Len(s) + 1)
    PROVE  LET t == Edits!InsertAt(s, k, x) IN
           /\ t \in Seq(S) /\ Len(t) = Len(s) + 1
           /\ \A i \in 1..Len(t) : t[i] = IF i < k THEN s[i] ELSE IF i = k THEN x ELSE s[i - 1]
<1>1. Inserted(Edits!InsertAt(s, k, x), S, s, k, x)
  BY InsertedAt
<1>2. QED
  BY <1>1 DEF Inserted

LEMMA RemoveFacts ==
    ASSUME NEW S, NEW s \in Seq(S), NEW k \in 1..Len(s)
    PROVE  LET t == Edits!RemoveAt(s, k) IN
           /\ t \in Seq(S) /\ Len(t) = Len(s) - 1
           /\ \A i \in 1..Len(t) : t[i] = IF i < k THEN s[i] ELSE s[i + 1]
<1> DEFINE a == SubSeq(s, 1, k - 1)
           b == SubSeq(s, k + 1, Len(s))
<1>1. /\ a \in Seq(S) /\ Len(a) = k - 1 /\ \A i \in 1..(k - 1) : a[i] = s[i]
  BY SubSeqProperties
<1>2. /\ b \in Seq(S) /\ Len(b) = Len(s) - k
      /\ \A i \in 1..(Len(s) - k) : b[i] = s[k + i]
  BY SubSeqProperties
<1> HIDE DEF a, b
<1>4. /\ a \o b \in Seq(S) /\ Len(a \o b) = Len(s) - 1
      /\ \A i \in 1..(Len(s) - 1) : (a \o b)[i] = IF i <= k - 1 THEN a[i] ELSE b[i - (k - 1)]
  BY <1>1, <1>2, ConcatProperties
<1>5. Edits!RemoveAt(s, k) = a \o b
  BY DEF Edits!RemoveAt, a, b
<1>6. \A i \in 1..(Len(s) - 1) : (a \o b)[i] = IF i < k THEN s[i] ELSE s[i + 1]
  <2> SUFFICES ASSUME NEW i \in 1..(Len(s) - 1)
               PROVE  (a \o b)[i] = IF i < k THEN s[i] ELSE s[i + 1]
    OBVIOUS
  <2>1. CASE i < k
    BY <2>1, <1>1, <1>4
  <2>2. CASE i >= k
    <3>1. i - (k - 1) \in 1..(Len(s) - k)
      BY <2>2
    <3>2. b[i - (k - 1)] = s[k + (i - (k - 1))]
      BY <3>1, <1>2
    <3>3. k + (i - (k - 1)) = i + 1
      BY <2>2
    <3>4. ~(i <= k - 1) /\ ~(i < k)
      BY <2>2
    <3>5. (a \o b)[i] = b[i - (k - 1)]
      BY <3>4, <1>4
    <3>6. QED
      BY <3>2, <3>3, <3>4, <3>5
  <2>3. i < k \/ i >= k
    BY LenProperties
  <2>4. QED
    BY <2>1, <2>2, <2>3
<1>7. QED
  BY <1>4, <1>5, <1>6

-------------------------------------------------------------------------------
(* What a content holds, and where.                                        *)

SectionIds == 1..3

LEMMA ContentFacts ==
    ASSUME NEW c \in Contents
    PROVE  /\ c.details \in Versions /\ c.sections \in Seq(ExamSections)
           /\ c = [details |-> c.details, sections |-> c.sections]
           /\ Len(c.sections) \in Nat /\ DOMAIN c.sections = 1..Len(c.sections)
           /\ \A p \in DOMAIN c.sections :
                 LET s == c.sections[p] IN
                 /\ s \in ExamSections /\ s.id \in SectionIds /\ s.title \in Versions
                 /\ s = [id |-> s.id, title |-> s.title, items |-> s.items]
                 /\ s.items \in Seq(ExamItems) /\ Len(s.items) \in Nat
                 /\ DOMAIN s.items = 1..Len(s.items)
                 /\ \A q \in DOMAIN s.items :
                       /\ s.items[q] \in ExamItems
                       /\ s.items[q].id \in OldItems \cup NewItems
                       /\ s.items[q].version \in Versions
                       /\ s.items[q] = [id |-> s.items[q].id, version |-> s.items[q].version]
<1>1. /\ c.details \in Versions /\ c.sections \in Seq(ExamSections)
      /\ c = [details |-> c.details, sections |-> c.sections]
  BY DEF Contents
<1>2. Len(c.sections) \in Nat /\ DOMAIN c.sections = 1..Len(c.sections)
  BY <1>1
<1>3. \A p \in DOMAIN c.sections : c.sections[p] \in ExamSections
  BY <1>1
<1>4. ASSUME NEW s \in ExamSections
      PROVE  /\ s.id \in SectionIds /\ s.title \in Versions
             /\ s = [id |-> s.id, title |-> s.title, items |-> s.items]
             /\ s.items \in Seq(ExamItems) /\ Len(s.items) \in Nat
             /\ DOMAIN s.items = 1..Len(s.items)
             /\ \A q \in DOMAIN s.items : s.items[q] \in ExamItems
  BY DEF ExamSections, SectionIds
<1>5. ASSUME NEW i \in ExamItems
      PROVE  /\ i.id \in OldItems \cup NewItems /\ i.version \in Versions
             /\ i = [id |-> i.id, version |-> i.version]
  BY DEF ExamItems
<1>6. QED
  BY <1>1, <1>2, <1>3, <1>4, <1>5

LEMMA HoldsItem ==
    ASSUME NEW c, NEW x
    PROVE  x \in Holdings(c).items <=>
           \E p \in DOMAIN c.sections : \E q \in DOMAIN c.sections[p].items :
               x = <<c.sections[p].id, c.sections[p].items[q]>>
BY DEF Holdings

LEMMA HoldsTitle ==
    ASSUME NEW c, NEW x
    PROVE  x \in Holdings(c).titles <=>
           \E p \in DOMAIN c.sections : x = <<c.sections[p].id, c.sections[p].title>>
BY DEF Holdings

LEMMA HoldsDetails ==
    ASSUME NEW c
    PROVE  Holdings(c).details = c.details
BY DEF Holdings

LEMMA InPlaces ==
    ASSUME NEW c, NEW i, NEW x
    PROVE  x \in Places(c, i) <=>
           \E p \in DOMAIN c.sections : \E q \in DOMAIN c.sections[p].items :
               x = <<p, q>> /\ c.sections[p].items[q].id = i
BY DEF Places

\* Where a section is.
LEMMA SectionPlace ==
    ASSUME NEW c \in Contents, Distinct(c), NEW s, HasSection(c, s)
    PROVE  LET p == SectionAt(c, s) IN
           /\ p \in DOMAIN c.sections /\ c.sections[p].id = s
           /\ \A q \in DOMAIN c.sections : c.sections[q].id = s => q = p
BY DEF HasSection, SectionAt, Distinct

\* Where an item is.
LEMMA ItemPlace ==
    ASSUME NEW c \in Contents, Distinct(c), NEW i, Places(c, i) # {}
    PROVE  LET x == FindItem(c, i) IN
           /\ x[1] \in DOMAIN c.sections /\ x[2] \in DOMAIN c.sections[x[1]].items
           /\ ItemAt(c, x) = c.sections[x[1]].items[x[2]] /\ ItemAt(c, x).id = i
           /\ \A p \in DOMAIN c.sections : \A q \in DOMAIN c.sections[p].items :
                 c.sections[p].items[q].id = i => p = x[1] /\ q = x[2]
<1>1. PICK p \in DOMAIN c.sections : \E q \in DOMAIN c.sections[p].items :
            c.sections[p].items[q].id = i
  BY InPlaces
<1>2. PICK q \in DOMAIN c.sections[p].items : c.sections[p].items[q].id = i
  BY <1>1
<1>3. \A p2 \in DOMAIN c.sections : \A q2 \in DOMAIN c.sections[p2].items :
          c.sections[p2].items[q2].id = i => p2 = p /\ q2 = q
  BY <1>2 DEF Distinct
<1>4. \A x : x \in Places(c, i) <=> x = <<p, q>>
  <2>1. \A x : x \in Places(c, i) => x = <<p, q>>
    BY <1>3, InPlaces
  <2>2. <<p, q>> \in Places(c, i)
    BY <1>2, InPlaces
  <2>3. QED
    BY <2>1, <2>2
<1>5. p \in Nat /\ q \in Nat
  <2>1. /\ DOMAIN c.sections = 1..Len(c.sections)
        /\ DOMAIN c.sections[p].items = 1..Len(c.sections[p].items)
    BY ContentFacts
  <2>2. QED
    BY <1>2, <2>1
<1>6. FindItem(c, i) = <<p, q>>
  BY <1>4, <1>5 DEF FindItem
<1>7. QED
  BY <1>2, <1>3, <1>6 DEF ItemAt

\* An item is held once, and so is a section.
LEMMA HeldOnce ==
    ASSUME NEW c \in Contents, Distinct(c)
    PROVE  /\ \A x, y \in Holdings(c).items : x[2].id = y[2].id => x = y
           /\ \A x, y \in Holdings(c).titles : x[1] = y[1] => x = y
<1>1. ASSUME NEW x \in Holdings(c).items, NEW y \in Holdings(c).items, x[2].id = y[2].id
      PROVE  x = y
  <2>1. PICK p \in DOMAIN c.sections : \E k \in DOMAIN c.sections[p].items :
            x = <<c.sections[p].id, c.sections[p].items[k]>>
    BY HoldsItem
  <2>2. PICK k \in DOMAIN c.sections[p].items :
            x = <<c.sections[p].id, c.sections[p].items[k]>>
    BY <2>1
  <2>3. PICK q \in DOMAIN c.sections : \E l \in DOMAIN c.sections[q].items :
            y = <<c.sections[q].id, c.sections[q].items[l]>>
    BY HoldsItem
  <2>4. PICK l \in DOMAIN c.sections[q].items :
            y = <<c.sections[q].id, c.sections[q].items[l]>>
    BY <2>3
  <2>5. c.sections[p].items[k].id = c.sections[q].items[l].id
    BY <1>1, <2>2, <2>4
  <2>6. p = q /\ k = l
    BY <2>5 DEF Distinct
  <2>7. QED
    BY <2>2, <2>4, <2>6
<1>2. ASSUME NEW x \in Holdings(c).titles, NEW y \in Holdings(c).titles, x[1] = y[1]
      PROVE  x = y
  <2>1. PICK p \in DOMAIN c.sections : x = <<c.sections[p].id, c.sections[p].title>>
    BY HoldsTitle
  <2>2. PICK q \in DOMAIN c.sections : y = <<c.sections[q].id, c.sections[q].title>>
    BY HoldsTitle
  <2>3. p = q
    BY <1>2, <2>1, <2>2 DEF Distinct
  <2>4. QED
    BY <2>1, <2>2, <2>3
<1>3. QED
  BY <1>1, <1>2

\* Other items in one section.
LEMMA WithItemsStep ==
    ASSUME NEW c \in Contents, Distinct(c), NEW p \in DOMAIN c.sections,
           NEW items \in Seq(ExamItems),
           \A k, l \in DOMAIN items : items[k].id = items[l].id => k = l,
           \A k \in DOMAIN items : \A q \in DOMAIN c.sections :
              \A l \in DOMAIN c.sections[q].items :
                 c.sections[q].items[l].id = items[k].id => q = p
    PROVE  LET d == WithItems(c, p, items) IN
           /\ d \in Contents /\ Distinct(d)
           /\ Holdings(d).details = Holdings(c).details
           /\ Holdings(d).titles = Holdings(c).titles
           /\ \A x : x \in Holdings(d).items <=>
                 \/ x \in Holdings(c).items /\ x[1] # c.sections[p].id
                 \/ \E k \in DOMAIN items : x = <<c.sections[p].id, items[k]>>
<1> DEFINE d == WithItems(c, p, items)
<1>0. /\ c.details \in Versions /\ c.sections \in Seq(ExamSections)
      /\ c = [details |-> c.details, sections |-> c.sections]
      /\ \A q \in DOMAIN c.sections : c.sections[q] \in ExamSections
  BY ContentFacts
<1>1. /\ d.details = c.details /\ DOMAIN d.sections = DOMAIN c.sections
      /\ \A q \in DOMAIN c.sections :
            /\ d.sections[q].id = c.sections[q].id /\ d.sections[q].title = c.sections[q].title
            /\ d.sections[q].items = IF q = p THEN items ELSE c.sections[q].items
  BY <1>0 DEF WithItems, ExamSections
<1>2. d \in Contents
  <2>1. [c.sections[p] EXCEPT !.items = items] \in ExamSections
    BY <1>0 DEF ExamSections
  <2>2. [c.sections EXCEPT ![p] = [c.sections[p] EXCEPT !.items = items]] \in Seq(ExamSections)
    BY <1>0, <2>1, ExceptSeq
  <2>3. d = [c EXCEPT !.sections =
                [c.sections EXCEPT ![p] = [c.sections[p] EXCEPT !.items = items]]]
    BY Zenon DEF WithItems
  <2>4. QED
    BY <2>2, <2>3 DEF Contents
<1>3. Holdings(d).details = Holdings(c).details
  BY <1>1, HoldsDetails
<1> HIDE DEF d
<1>4. Holdings(d).titles = Holdings(c).titles
  <2>1. \A x : x \in Holdings(d).titles <=> x \in Holdings(c).titles
    BY <1>1, HoldsTitle
  <2>2. QED
    BY <2>1 DEF Holdings
<1>5. Distinct(d)
  <2>1. ASSUME NEW q1 \in DOMAIN d.sections, NEW q2 \in DOMAIN d.sections,
               d.sections[q1].id = d.sections[q2].id
        PROVE  q1 = q2
    BY <1>1, <2>1 DEF Distinct
  <2>2. ASSUME NEW q1 \in DOMAIN d.sections, NEW q2 \in DOMAIN d.sections,
               NEW k \in DOMAIN d.sections[q1].items, NEW l \in DOMAIN d.sections[q2].items,
               d.sections[q1].items[k].id = d.sections[q2].items[l].id
        PROVE  q1 = q2 /\ k = l
    <3>1. CASE q1 = p /\ q2 = p
      BY <1>1, <2>2, <3>1
    <3>2. CASE q1 = p /\ q2 # p
      BY <1>1, <2>2, <3>2
    <3>3. CASE q1 # p /\ q2 = p
      BY <1>1, <2>2, <3>3
    <3>4. CASE q1 # p /\ q2 # p
      <4>1. /\ d.sections[q1].items = c.sections[q1].items
            /\ d.sections[q2].items = c.sections[q2].items
        BY <1>1, <3>4
      <4>2. QED
        BY <1>1, <2>2, <4>1 DEF Distinct
    <3>5. QED
      BY <3>1, <3>2, <3>3, <3>4
  <2>3. QED
    BY <2>1, <2>2 DEF Distinct
<1>6. ASSUME NEW x
      PROVE  x \in Holdings(d).items <=>
                 \/ x \in Holdings(c).items /\ x[1] # c.sections[p].id
                 \/ \E k \in DOMAIN items : x = <<c.sections[p].id, items[k]>>
  <2>1. ASSUME x \in Holdings(d).items
        PROVE  \/ x \in Holdings(c).items /\ x[1] # c.sections[p].id
               \/ \E k \in DOMAIN items : x = <<c.sections[p].id, items[k]>>
    <3>1. PICK q \in DOMAIN d.sections : \E k \in DOMAIN d.sections[q].items :
              x = <<d.sections[q].id, d.sections[q].items[k]>>
      BY <2>1, HoldsItem
    <3>2. CASE q = p
      BY <1>1, <3>1, <3>2
    <3>3. CASE q # p
      <4>1. c.sections[q].id # c.sections[p].id
        BY <1>1, <3>3 DEF Distinct
      <4>2. x \in Holdings(c).items
        BY <1>1, <3>1, <3>3, HoldsItem
      <4>3. x[1] = c.sections[q].id
        BY <1>1, <3>1
      <4>4. QED
        BY <4>1, <4>2, <4>3
    <3>4. QED
      BY <3>2, <3>3
  <2>2. ASSUME x \in Holdings(c).items, x[1] # c.sections[p].id
        PROVE  x \in Holdings(d).items
    <3>1. PICK q \in DOMAIN c.sections : \E k \in DOMAIN c.sections[q].items :
              x = <<c.sections[q].id, c.sections[q].items[k]>>
      BY <2>2, HoldsItem
    <3>2. q # p
      BY <2>2, <3>1
    <3>3. QED
      BY <1>1, <3>1, <3>2, HoldsItem
  <2>3. ASSUME NEW k \in DOMAIN items, x = <<c.sections[p].id, items[k]>>
        PROVE  x \in Holdings(d).items
    <3>1. p \in DOMAIN d.sections /\ d.sections[p].items = items
      BY <1>1
    <3>2. QED
      BY <1>1, <2>3, <3>1, HoldsItem
  <2>4. QED
    BY <2>1, <2>2, <2>3
<1>7. QED
  BY <1>2, <1>3, <1>4, <1>5, <1>6 DEF d

\* An item takes the place of one with the same id.
LEMMA ReplaceStep ==
    ASSUME NEW c \in Contents, Distinct(c), NEW p \in DOMAIN c.sections,
           NEW q \in DOMAIN c.sections[p].items, NEW new \in ExamItems,
           new.id = c.sections[p].items[q].id
    PROVE  LET d == WithItems(c, p, [c.sections[p].items EXCEPT ![q] = new]) IN
           /\ d \in Contents /\ Distinct(d)
           /\ Holdings(d).details = Holdings(c).details
           /\ Holdings(d).titles = Holdings(c).titles
           /\ \A x : x \in Holdings(d).items <=>
                 \/ x \in Holdings(c).items /\ x # <<c.sections[p].id, c.sections[p].items[q]>>
                 \/ x = <<c.sections[p].id, new>>
<1> DEFINE old == c.sections[p].items
           items == [old EXCEPT ![q] = new]
           d == WithItems(c, p, items)
<1>1. /\ old \in Seq(ExamItems) /\ DOMAIN old = 1..Len(old)
  BY ContentFacts
<1>2. /\ items \in Seq(ExamItems) /\ DOMAIN items = DOMAIN old
      /\ \A k \in DOMAIN old : items[k] = IF k = q THEN new ELSE old[k]
  BY <1>1, ExceptSeq
<1>3. \A k \in DOMAIN old : items[k].id = old[k].id
  BY <1>2
<1>4. \A k, l \in DOMAIN items : items[k].id = items[l].id => k = l
  BY <1>2, <1>3 DEF Distinct
<1>5. \A k \in DOMAIN items : \A q2 \in DOMAIN c.sections :
          \A l \in DOMAIN c.sections[q2].items :
             c.sections[q2].items[l].id = items[k].id => q2 = p
  BY <1>2, <1>3 DEF Distinct
<1> HIDE DEF items
<1>6. /\ d \in Contents /\ Distinct(d)
      /\ Holdings(d).details = Holdings(c).details
      /\ Holdings(d).titles = Holdings(c).titles
      /\ \A x : x \in Holdings(d).items <=>
            \/ x \in Holdings(c).items /\ x[1] # c.sections[p].id
            \/ \E k \in DOMAIN items : x = <<c.sections[p].id, items[k]>>
  BY <1>2, <1>4, <1>5, WithItemsStep
<1> HIDE DEF d
<1>7. ASSUME NEW x
      PROVE  x \in Holdings(d).items <=>
                 \/ x \in Holdings(c).items /\ x # <<c.sections[p].id, old[q]>>
                 \/ x = <<c.sections[p].id, new>>
  <2>1. ASSUME x \in Holdings(d).items
        PROVE  \/ x \in Holdings(c).items /\ x # <<c.sections[p].id, old[q]>>
               \/ x = <<c.sections[p].id, new>>
    <3>1. CASE x \in Holdings(c).items /\ x[1] # c.sections[p].id
      BY <3>1
    <3>2. ASSUME NEW k \in DOMAIN items, x = <<c.sections[p].id, items[k]>>
          PROVE  \/ x \in Holdings(c).items /\ x # <<c.sections[p].id, old[q]>>
                 \/ x = <<c.sections[p].id, new>>
      <4>1. CASE k = q
        BY <1>2, <3>2, <4>1
      <4>2. CASE k # q
        <5>1. items[k] = old[k] /\ k \in DOMAIN old
          BY <1>2, <4>2
        <5>2. old[k].id # old[q].id
          BY <5>1, <4>2 DEF Distinct
        <5>3. x \in Holdings(c).items
          BY <5>1, <3>2, HoldsItem
        <5>4. QED
          BY <5>1, <5>2, <5>3, <3>2
      <4>3. QED
        BY <4>1, <4>2
    <3>3. QED
      BY <2>1, <3>1, <3>2, <1>6
  <2>2. ASSUME x \in Holdings(c).items, x # <<c.sections[p].id, old[q]>>
        PROVE  x \in Holdings(d).items
    <3>1. PICK q2 \in DOMAIN c.sections : \E k \in DOMAIN c.sections[q2].items :
              x = <<c.sections[q2].id, c.sections[q2].items[k]>>
      BY <2>2, HoldsItem
    <3>2. PICK k \in DOMAIN c.sections[q2].items :
              x = <<c.sections[q2].id, c.sections[q2].items[k]>>
      BY <3>1
    <3>3. CASE q2 = p
      <4>1. k # q /\ k \in DOMAIN items
        BY <2>2, <3>2, <3>3, <1>2
      <4>2. items[k] = old[k]
        BY <4>1, <1>2
      <4>3. QED
        BY <4>1, <4>2, <3>2, <3>3, <1>6
    <3>4. CASE q2 # p
      <4>1. c.sections[q2].id # c.sections[p].id
        BY <3>4 DEF Distinct
      <4>2. QED
        BY <4>1, <3>2, <2>2, <1>6
    <3>5. QED
      BY <3>3, <3>4
  <2>3. ASSUME x = <<c.sections[p].id, new>>
        PROVE  x \in Holdings(d).items
    <3>1. q \in DOMAIN items /\ items[q] = new
      BY <1>2
    <3>2. QED
      BY <2>3, <3>1, <1>6
  <2>4. QED
    BY <2>1, <2>2, <2>3
<1>8. QED
  BY <1>6, <1>7 DEF d, items

\* An item is taken out.
LEMMA DropStep ==
    ASSUME NEW c \in Contents, Distinct(c), NEW p \in DOMAIN c.sections,
           NEW q \in DOMAIN c.sections[p].items
    PROVE  LET d == WithItems(c, p, Edits!RemoveAt(c.sections[p].items, q)) IN
           /\ d \in Contents /\ Distinct(d)
           /\ Holdings(d).details = Holdings(c).details
           /\ Holdings(d).titles = Holdings(c).titles
           /\ \A x : x \in Holdings(d).items <=>
                 x \in Holdings(c).items /\ x # <<c.sections[p].id, c.sections[p].items[q]>>
<1> DEFINE old == c.sections[p].items
           items == Edits!RemoveAt(old, q)
           d == WithItems(c, p, items)
           from(k) == IF k < q THEN k ELSE k + 1
<1>1. /\ old \in Seq(ExamItems) /\ DOMAIN old = 1..Len(old) /\ Len(old) \in Nat
  BY ContentFacts
<1>2. /\ items \in Seq(ExamItems) /\ Len(items) = Len(old) - 1
      /\ \A k \in 1..Len(items) : items[k] = IF k < q THEN old[k] ELSE old[k + 1]
  BY <1>1, RemoveFacts
<1> HIDE DEF items
<1>3. DOMAIN items = 1..(Len(old) - 1)
  BY <1>2
<1>4. \A k \in DOMAIN items : from(k) \in DOMAIN old /\ items[k] = old[from(k)] /\ from(k) # q
  BY <1>1, <1>2, <1>3
<1>5. \A k, l \in DOMAIN items : from(k) = from(l) => k = l
  BY <1>1, <1>3
<1>6. \A l \in DOMAIN old : l # q => \E k \in DOMAIN items : from(k) = l
  <2>1. ASSUME NEW l \in DOMAIN old, l # q
        PROVE  \E k \in DOMAIN items : from(k) = l
    <3>1. CASE l < q
      <4>1. l \in DOMAIN items /\ from(l) = l
        BY <3>1, <1>1, <1>3
      <4>2. QED
        BY <4>1
    <3>2. CASE l > q
      <4>1. l - 1 \in DOMAIN items /\ from(l - 1) = l
        BY <3>2, <1>1, <1>3
      <4>2. QED
        BY <4>1
    <3>3. QED
      BY <2>1, <3>1, <3>2, <1>1
  <2>2. QED
    BY <2>1
<1> HIDE DEF from
<1>7. \A k, l \in DOMAIN items : items[k].id = items[l].id => k = l
  <2>1. \A k, l \in DOMAIN old : old[k].id = old[l].id => k = l
    BY DEF Distinct
  <2>2. QED
    BY <2>1, <1>4, <1>5
<1>8. \A k \in DOMAIN items : \A q2 \in DOMAIN c.sections :
          \A l \in DOMAIN c.sections[q2].items :
             c.sections[q2].items[l].id = items[k].id => q2 = p
  BY <1>4 DEF Distinct
<1>9. /\ d \in Contents /\ Distinct(d)
      /\ Holdings(d).details = Holdings(c).details
      /\ Holdings(d).titles = Holdings(c).titles
      /\ \A x : x \in Holdings(d).items <=>
            \/ x \in Holdings(c).items /\ x[1] # c.sections[p].id
            \/ \E k \in DOMAIN items : x = <<c.sections[p].id, items[k]>>
  BY <1>2, <1>7, <1>8, WithItemsStep
<1> HIDE DEF d
<1>10. ASSUME NEW x
       PROVE  x \in Holdings(d).items <=>
                 x \in Holdings(c).items /\ x # <<c.sections[p].id, old[q]>>
  <2>1. ASSUME x \in Holdings(d).items
        PROVE  x \in Holdings(c).items /\ x # <<c.sections[p].id, old[q]>>
    <3>1. CASE x \in Holdings(c).items /\ x[1] # c.sections[p].id
      BY <3>1
    <3>2. ASSUME NEW k \in DOMAIN items, x = <<c.sections[p].id, items[k]>>
          PROVE  x \in Holdings(c).items /\ x # <<c.sections[p].id, old[q]>>
      <4>1. from(k) \in DOMAIN old /\ items[k] = old[from(k)] /\ from(k) # q
        BY <1>4
      <4>2. old[from(k)].id # old[q].id
        BY <4>1 DEF Distinct
      <4>3. QED
        BY <4>1, <4>2, <3>2, HoldsItem
    <3>3. QED
      BY <2>1, <3>1, <3>2, <1>9
  <2>2. ASSUME x \in Holdings(c).items, x # <<c.sections[p].id, old[q]>>
        PROVE  x \in Holdings(d).items
    <3>1. PICK q2 \in DOMAIN c.sections : \E k \in DOMAIN c.sections[q2].items :
              x = <<c.sections[q2].id, c.sections[q2].items[k]>>
      BY <2>2, HoldsItem
    <3>2. PICK l \in DOMAIN c.sections[q2].items :
              x = <<c.sections[q2].id, c.sections[q2].items[l]>>
      BY <3>1
    <3>3. CASE q2 = p
      <4>1. l # q /\ l \in DOMAIN old
        BY <2>2, <3>2, <3>3
      <4>2. PICK k \in DOMAIN items : from(k) = l
        BY <4>1, <1>6
      <4>3. items[k] = old[l]
        BY <4>2, <1>4
      <4>4. QED
        BY <4>3, <3>2, <3>3, <1>9
    <3>4. CASE q2 # p
      <4>1. c.sections[q2].id # c.sections[p].id
        BY <3>4 DEF Distinct
      <4>2. QED
        BY <4>1, <3>2, <2>2, <1>9
    <3>5. QED
      BY <3>3, <3>4
  <2>3. QED
    BY <2>1, <2>2
<1>11. QED
  BY <1>9, <1>10 DEF d, items

LEMMA ClampFacts ==
    ASSUME NEW index \in Nat, NEW n \in Nat
    PROVE  Clamp(index, n) + 1 \in 1..(n + 1)
BY DEF Clamp

\* An item is put in.
LEMMA PutStep ==
    ASSUME NEW c \in Contents, Distinct(c), NEW p \in DOMAIN c.sections, NEW index \in Nat,
           NEW item \in ExamItems, Places(c, item.id) = {}
    PROVE  LET d == WithItems(c, p, Splice(c.sections[p].items, index, item)) IN
           /\ d \in Contents /\ Distinct(d)
           /\ Holdings(d).details = Holdings(c).details
           /\ Holdings(d).titles = Holdings(c).titles
           /\ \A x : x \in Holdings(d).items <=>
                 x \in Holdings(c).items \/ x = <<c.sections[p].id, item>>
<1> DEFINE old == c.sections[p].items
           at == Clamp(index, Len(old)) + 1
           items == Splice(old, index, item)
           d == WithItems(c, p, items)
           from(k) == IF k < at THEN k ELSE k - 1
<1>1. /\ old \in Seq(ExamItems) /\ DOMAIN old = 1..Len(old) /\ Len(old) \in Nat
  BY ContentFacts
<1>2. at \in 1..(Len(old) + 1)
  BY <1>1, ClampFacts
<1> HIDE DEF at
<1>3. items = Edits!InsertAt(old, at, item)
  BY DEF Splice, at
<1> HIDE DEF items
<1>4. /\ items \in Seq(ExamItems) /\ Len(items) = Len(old) + 1
      /\ \A k \in 1..Len(items) :
            items[k] = IF k < at THEN old[k] ELSE IF k = at THEN item ELSE old[k - 1]
  <2> DEFINE t == Edits!InsertAt(old, at, item)
  <2> HIDE DEF old, d
  <2>1. Inserted(t, ExamItems, old, at, item)
    BY <1>1, <1>2, InsertedAt
  <2> HIDE DEF t
  <2>2. items = t
    BY <1>3 DEF t
  <2>3. QED
    BY <2>1, <2>2 DEF Inserted
<1>5. DOMAIN items = 1..(Len(old) + 1) /\ at \in DOMAIN items /\ items[at] = item
  BY <1>1, <1>2, <1>4
<1>6. \A k \in DOMAIN items : k # at => from(k) \in DOMAIN old /\ items[k] = old[from(k)]
  BY <1>1, <1>2, <1>4, <1>5
<1>7. \A k, l \in DOMAIN items : k # at /\ l # at /\ from(k) = from(l) => k = l
  BY <1>1, <1>2, <1>5
<1>8. \A l \in DOMAIN old : \E k \in DOMAIN items : k # at /\ from(k) = l
  <2>1. ASSUME NEW l \in DOMAIN old
        PROVE  \E k \in DOMAIN items : k # at /\ from(k) = l
    <3>1. CASE l < at
      <4>1. l \in DOMAIN items /\ l # at /\ from(l) = l
        BY <3>1, <1>1, <1>2, <1>5
      <4>2. QED
        BY <4>1
    <3>2. CASE l >= at
      <4>1. l + 1 \in DOMAIN items /\ l + 1 # at /\ from(l + 1) = l
        BY <3>2, <1>1, <1>2, <1>5
      <4>2. QED
        BY <4>1
    <3>3. QED
      BY <3>1, <3>2, <1>1, <1>2
  <2>2. QED
    BY <2>1
<1> HIDE DEF from
<1>9. \A q2 \in DOMAIN c.sections : \A l \in DOMAIN c.sections[q2].items :
          c.sections[q2].items[l].id # item.id
  BY InPlaces
<1>10. \A k, l \in DOMAIN items : items[k].id = items[l].id => k = l
  <2>1. \A k, l \in DOMAIN old : old[k].id = old[l].id => k = l
    BY DEF Distinct
  <2>2. QED
    BY <2>1, <1>5, <1>6, <1>7, <1>9
<1>11. \A k \in DOMAIN items : \A q2 \in DOMAIN c.sections :
          \A l \in DOMAIN c.sections[q2].items :
             c.sections[q2].items[l].id = items[k].id => q2 = p
  BY <1>5, <1>6, <1>9 DEF Distinct
<1>12. /\ d \in Contents /\ Distinct(d)
       /\ Holdings(d).details = Holdings(c).details
       /\ Holdings(d).titles = Holdings(c).titles
       /\ \A x : x \in Holdings(d).items <=>
            \/ x \in Holdings(c).items /\ x[1] # c.sections[p].id
            \/ \E k \in DOMAIN items : x = <<c.sections[p].id, items[k]>>
  BY <1>4, <1>10, <1>11, WithItemsStep
<1> HIDE DEF d
<1>13. ASSUME NEW x
       PROVE  x \in Holdings(d).items <=>
                 x \in Holdings(c).items \/ x = <<c.sections[p].id, item>>
  <2>1. ASSUME NEW k \in DOMAIN items, x = <<c.sections[p].id, items[k]>>
        PROVE  x \in Holdings(c).items \/ x = <<c.sections[p].id, item>>
    <3>1. CASE k = at
      BY <2>1, <3>1, <1>5
    <3>2. CASE k # at
      BY <2>1, <3>2, <1>6, HoldsItem
    <3>3. QED
      BY <3>1, <3>2
  <2>2. ASSUME x \in Holdings(c).items
        PROVE  x \in Holdings(d).items
    <3>1. PICK q2 \in DOMAIN c.sections : \E k \in DOMAIN c.sections[q2].items :
              x = <<c.sections[q2].id, c.sections[q2].items[k]>>
      BY <2>2, HoldsItem
    <3>2. PICK l \in DOMAIN c.sections[q2].items :
              x = <<c.sections[q2].id, c.sections[q2].items[l]>>
      BY <3>1
    <3>3. CASE q2 = p
      <4>1. PICK k \in DOMAIN items : k # at /\ from(k) = l
        BY <3>3, <1>8
      <4>2. items[k] = old[l]
        BY <4>1, <1>6
      <4>3. QED
        BY <4>2, <3>2, <3>3, <1>12
    <3>4. CASE q2 # p
      <4>1. c.sections[q2].id # c.sections[p].id
        BY <3>4 DEF Distinct
      <4>2. QED
        BY <4>1, <3>2, <2>2, <1>12
    <3>5. QED
      BY <3>3, <3>4
  <2>3. ASSUME x = <<c.sections[p].id, item>>
        PROVE  x \in Holdings(d).items
    BY <2>3, <1>5, <1>12
  <2>4. QED
    BY <2>1, <2>2, <2>3, <1>12
<1>14. QED
  BY <1>12, <1>13 DEF d, items

\* A section is put in, with items that are not there.
LEMMA PutSectionStep ==
    ASSUME NEW c \in Contents, Distinct(c), NEW index \in Nat, NEW s \in ExamSections,
           ~HasSection(c, s.id),
           \A k, l \in DOMAIN s.items : s.items[k].id = s.items[l].id => k = l,
           \A k \in DOMAIN s.items : Places(c, s.items[k].id) = {}
    PROVE  LET d == [c EXCEPT !.sections = Splice(c.sections, index, s)] IN
           /\ d \in Contents /\ Distinct(d)
           /\ Holdings(d).details = Holdings(c).details
           /\ \A x : x \in Holdings(d).titles <=>
                 x \in Holdings(c).titles \/ x = <<s.id, s.title>>
           /\ \A x : x \in Holdings(d).items <=>
                 x \in Holdings(c).items \/ \E k \in DOMAIN s.items : x = <<s.id, s.items[k]>>
<1> DEFINE old == c.sections
           at == Clamp(index, Len(old)) + 1
           sections == Splice(old, index, s)
           d == [c EXCEPT !.sections = sections]
           from(k) == IF k < at THEN k ELSE k - 1
<1>1. /\ old \in Seq(ExamSections) /\ DOMAIN old = 1..Len(old) /\ Len(old) \in Nat
  BY ContentFacts
<1>2. at \in 1..(Len(old) + 1)
  BY <1>1, ClampFacts
<1> HIDE DEF at
<1>3. sections = Edits!InsertAt(old, at, s)
  BY DEF Splice, at
<1> HIDE DEF sections
<1>4. /\ sections \in Seq(ExamSections) /\ Len(sections) = Len(old) + 1
      /\ \A k \in 1..Len(sections) :
            sections[k] = IF k < at THEN old[k] ELSE IF k = at THEN s ELSE old[k - 1]
  <2> DEFINE t == Edits!InsertAt(old, at, s)
  <2>1. /\ t \in Seq(ExamSections) /\ Len(t) = Len(old) + 1
        /\ \A k \in 1..Len(t) :
              t[k] = IF k < at THEN old[k] ELSE IF k = at THEN s ELSE old[k - 1]
    BY <1>1, <1>2, InsertFacts
  <2> HIDE DEF t
  <2>2. sections = t
    BY <1>3 DEF t
  <2>3. QED
    BY <2>1, <2>2
<1>5. DOMAIN sections = 1..(Len(old) + 1) /\ at \in DOMAIN sections /\ sections[at] = s
  BY <1>1, <1>2, <1>4
<1>6. \A k \in DOMAIN sections : k # at => from(k) \in DOMAIN old /\ sections[k] = old[from(k)]
  BY <1>1, <1>2, <1>4, <1>5
<1>7. \A k, l \in DOMAIN sections : k # at /\ l # at /\ from(k) = from(l) => k = l
  BY <1>1, <1>2, <1>5
<1>8. \A l \in DOMAIN old : \E k \in DOMAIN sections : k # at /\ from(k) = l
  <2>1. ASSUME NEW l \in DOMAIN old
        PROVE  \E k \in DOMAIN sections : k # at /\ from(k) = l
    <3>1. CASE l < at
      <4>1. l \in DOMAIN sections /\ l # at /\ from(l) = l
        BY <3>1, <1>1, <1>2, <1>5
      <4>2. QED
        BY <4>1
    <3>2. CASE l >= at
      <4>1. l + 1 \in DOMAIN sections /\ l + 1 # at /\ from(l + 1) = l
        BY <3>2, <1>1, <1>2, <1>5
      <4>2. QED
        BY <4>1
    <3>3. QED
      BY <3>1, <3>2, <1>1, <1>2
  <2>2. QED
    BY <2>1
<1> HIDE DEF from
<1>9. \A l \in DOMAIN old : old[l].id # s.id
  BY DEF HasSection
<1>10. \A l \in DOMAIN old : \A m \in DOMAIN old[l].items :
          \A k \in DOMAIN s.items : old[l].items[m].id # s.items[k].id
  BY InPlaces
<1>11. d \in Contents /\ d.details = c.details /\ d.sections = sections
  BY <1>4 DEF Contents
<1> HIDE DEF d
<1>12. Distinct(d)
  <2>1. ASSUME NEW p \in DOMAIN sections, NEW q \in DOMAIN sections,
               sections[p].id = sections[q].id
        PROVE  p = q
    <3>1. CASE p = at \/ q = at
      BY <2>1, <3>1, <1>5, <1>6, <1>9
    <3>2. CASE p # at /\ q # at
      <4>1. from(p) = from(q)
        BY <2>1, <3>2, <1>6 DEF Distinct
      <4>2. QED
        BY <3>2, <4>1, <1>7
    <3>3. QED
      BY <3>1, <3>2
  <2>2. ASSUME NEW p \in DOMAIN sections, NEW q \in DOMAIN sections,
               NEW k \in DOMAIN sections[p].items, NEW l \in DOMAIN sections[q].items,
               sections[p].items[k].id = sections[q].items[l].id
        PROVE  p = q /\ k = l
    <3>1. CASE p = at /\ q = at
      BY <2>2, <3>1, <1>5
    <3>2. CASE p = at /\ q # at
      BY <2>2, <3>2, <1>5, <1>6, <1>10
    <3>3. CASE p # at /\ q = at
      BY <2>2, <3>3, <1>5, <1>6, <1>10
    <3>4. CASE p # at /\ q # at
      <4>1. from(p) = from(q) /\ k = l
        <5>1. /\ from(p) \in DOMAIN old /\ sections[p] = old[from(p)]
              /\ from(q) \in DOMAIN old /\ sections[q] = old[from(q)]
          BY <3>4, <1>6
        <5>2. QED
          BY <2>2, <5>1 DEF Distinct
      <4>2. QED
        BY <3>4, <4>1, <1>7
    <3>5. QED
      BY <3>1, <3>2, <3>3, <3>4
  <2>3. QED
    BY <2>1, <2>2, <1>11 DEF Distinct
<1>13. Holdings(d).details = Holdings(c).details
  BY <1>11, HoldsDetails
<1>14. ASSUME NEW x
       PROVE  x \in Holdings(d).titles <=> x \in Holdings(c).titles \/ x = <<s.id, s.title>>
  <2>1. x \in Holdings(d).titles <=>
            \E p \in DOMAIN sections : x = <<sections[p].id, sections[p].title>>
    BY <1>11, HoldsTitle
  <2>2. x \in Holdings(c).titles <=> \E p \in DOMAIN old : x = <<old[p].id, old[p].title>>
    BY HoldsTitle
  <2>3. QED
    BY <2>1, <2>2, <1>5, <1>6, <1>8
<1>15. ASSUME NEW x
       PROVE  x \in Holdings(d).items <=>
                 x \in Holdings(c).items \/ \E k \in DOMAIN s.items : x = <<s.id, s.items[k]>>
  <2>1. x \in Holdings(d).items <=>
            \E p \in DOMAIN sections : \E k \in DOMAIN sections[p].items :
                x = <<sections[p].id, sections[p].items[k]>>
    BY <1>11, HoldsItem
  <2>2. x \in Holdings(c).items <=>
            \E p \in DOMAIN old : \E k \in DOMAIN old[p].items :
                x = <<old[p].id, old[p].items[k]>>
    BY HoldsItem
  <2>3. QED
    BY <2>1, <2>2, <1>5, <1>6, <1>8
<1>16. QED
  BY <1>11, <1>12, <1>13, <1>14, <1>15 DEF d, sections

\* A section is taken out, with its items.
LEMMA DropSectionStep ==
    ASSUME NEW c \in Contents, Distinct(c), NEW at \in DOMAIN c.sections
    PROVE  LET d == [c EXCEPT !.sections = Edits!RemoveAt(c.sections, at)] IN
           /\ d \in Contents /\ Distinct(d)
           /\ Holdings(d).details = Holdings(c).details
           /\ \A x : x \in Holdings(d).titles <=>
                 x \in Holdings(c).titles /\ x[1] # c.sections[at].id
           /\ \A x : x \in Holdings(d).items <=>
                 x \in Holdings(c).items /\ x[1] # c.sections[at].id
<1> DEFINE old == c.sections
           sections == Edits!RemoveAt(old, at)
           d == [c EXCEPT !.sections = sections]
           from(k) == IF k < at THEN k ELSE k + 1
<1>1. /\ old \in Seq(ExamSections) /\ DOMAIN old = 1..Len(old) /\ Len(old) \in Nat
  BY ContentFacts
<1>2. /\ sections \in Seq(ExamSections) /\ Len(sections) = Len(old) - 1
      /\ \A k \in 1..Len(sections) : sections[k] = IF k < at THEN old[k] ELSE old[k + 1]
  BY <1>1, RemoveFacts
<1> HIDE DEF sections
<1>3. DOMAIN sections = 1..(Len(old) - 1)
  BY <1>2
<1>4. \A k \in DOMAIN sections :
          from(k) \in DOMAIN old /\ sections[k] = old[from(k)] /\ from(k) # at
  BY <1>1, <1>2, <1>3
<1>5. \A k, l \in DOMAIN sections : from(k) = from(l) => k = l
  BY <1>1, <1>3
<1>6. \A l \in DOMAIN old : l # at => \E k \in DOMAIN sections : from(k) = l
  <2>1. ASSUME NEW l \in DOMAIN old, l # at
        PROVE  \E k \in DOMAIN sections : from(k) = l
    <3>1. CASE l < at
      <4>1. l \in DOMAIN sections /\ from(l) = l
        BY <3>1, <1>1, <1>3
      <4>2. QED
        BY <4>1
    <3>2. CASE l > at
      <4>1. l - 1 \in DOMAIN sections /\ from(l - 1) = l
        BY <3>2, <1>1, <1>3
      <4>2. QED
        BY <4>1
    <3>3. QED
      BY <2>1, <3>1, <3>2, <1>1
  <2>2. QED
    BY <2>1
<1> HIDE DEF from
<1>7. \A l \in DOMAIN old : l # at <=> old[l].id # old[at].id
  BY DEF Distinct
<1>8. d \in Contents /\ d.details = c.details /\ d.sections = sections
  BY <1>2 DEF Contents
<1> HIDE DEF d
<1>9. Distinct(d)
  <2>1. ASSUME NEW p \in DOMAIN sections, NEW q \in DOMAIN sections,
               sections[p].id = sections[q].id
        PROVE  p = q
    <3>1. from(p) = from(q)
      BY <2>1, <1>4 DEF Distinct
    <3>2. QED
      BY <3>1, <1>5
  <2>2. ASSUME NEW p \in DOMAIN sections, NEW q \in DOMAIN sections,
               NEW k \in DOMAIN sections[p].items, NEW l \in DOMAIN sections[q].items,
               sections[p].items[k].id = sections[q].items[l].id
        PROVE  p = q /\ k = l
    <3>1. from(p) = from(q) /\ k = l
      <4>1. /\ from(p) \in DOMAIN old /\ sections[p] = old[from(p)]
            /\ from(q) \in DOMAIN old /\ sections[q] = old[from(q)]
        BY <1>4
      <4>2. QED
        BY <2>2, <4>1 DEF Distinct
    <3>2. QED
      BY <3>1, <1>5
  <2>3. QED
    BY <2>1, <2>2, <1>8 DEF Distinct
<1>10. Holdings(d).details = Holdings(c).details
  BY <1>8, HoldsDetails
<1>11. ASSUME NEW x
       PROVE  x \in Holdings(d).titles <=> x \in Holdings(c).titles /\ x[1] # old[at].id
  <2>1. x \in Holdings(d).titles <=>
            \E p \in DOMAIN sections : x = <<sections[p].id, sections[p].title>>
    BY <1>8, HoldsTitle
  <2>2. x \in Holdings(c).titles <=> \E p \in DOMAIN old : x = <<old[p].id, old[p].title>>
    BY HoldsTitle
  <2>3. QED
    BY <2>1, <2>2, <1>4, <1>6, <1>7
<1>12. ASSUME NEW x
       PROVE  x \in Holdings(d).items <=> x \in Holdings(c).items /\ x[1] # old[at].id
  <2>1. x \in Holdings(d).items <=>
            \E p \in DOMAIN sections : \E k \in DOMAIN sections[p].items :
                x = <<sections[p].id, sections[p].items[k]>>
    BY <1>8, HoldsItem
  <2>2. x \in Holdings(c).items <=>
            \E p \in DOMAIN old : \E k \in DOMAIN old[p].items :
                x = <<old[p].id, old[p].items[k]>>
    BY HoldsItem
  <2>3. QED
    BY <2>1, <2>2, <1>4, <1>6, <1>7
<1>13. QED
  BY <1>8, <1>9, <1>10, <1>11, <1>12 DEF d, sections

\* A section is renamed.
LEMMA RenameStep ==
    ASSUME NEW c \in Contents, Distinct(c), NEW p \in DOMAIN c.sections, NEW title \in Versions
    PROVE  LET d == [c EXCEPT !.sections[p].title = title] IN
           /\ d \in Contents /\ Distinct(d)
           /\ Holdings(d).details = Holdings(c).details
           /\ \A x : x \in Holdings(d).titles <=>
                 \/ x \in Holdings(c).titles /\ x[1] # c.sections[p].id
                 \/ x = <<c.sections[p].id, title>>
           /\ Holdings(d).items = Holdings(c).items
<1> DEFINE old == c.sections
           sections == [old EXCEPT ![p] = [old[p] EXCEPT !.title = title]]
           d == [c EXCEPT !.sections = sections]
<1>0. [c EXCEPT !.sections[p].title = title] = d
  BY Zenon
<1>1. /\ old \in Seq(ExamSections) /\ old[p] \in ExamSections
      /\ \A q \in DOMAIN old : old[q] \in ExamSections
  BY ContentFacts
<1>2. /\ sections \in Seq(ExamSections) /\ DOMAIN sections = DOMAIN old
      /\ \A q \in DOMAIN old : /\ sections[q].id = old[q].id
                               /\ sections[q].title = IF q = p THEN title ELSE old[q].title
                               /\ sections[q].items = old[q].items
  <2>1. [old[p] EXCEPT !.title = title] \in ExamSections
    BY <1>1 DEF ExamSections
  <2>2. sections \in Seq(ExamSections) /\ DOMAIN sections = DOMAIN old
    BY <1>1, <2>1, ExceptSeq
  <2>3. QED
    BY <1>1, <2>2 DEF ExamSections
<1> HIDE DEF sections
<1>3. d \in Contents /\ d.details = c.details /\ d.sections = sections
  BY <1>2 DEF Contents
<1> HIDE DEF d
<1>4. Distinct(d)
  BY <1>2, <1>3 DEF Distinct
<1>5. Holdings(d).details = Holdings(c).details
  BY <1>3, HoldsDetails
<1>6. \A q \in DOMAIN old : q # p <=> old[q].id # old[p].id
  BY DEF Distinct
<1>7. ASSUME NEW x
      PROVE  x \in Holdings(d).titles <=>
                 (x \in Holdings(c).titles /\ x[1] # old[p].id) \/ x = <<old[p].id, title>>
  <2>1. x \in Holdings(d).titles <=>
            \E q \in DOMAIN sections : x = <<sections[q].id, sections[q].title>>
    BY <1>3, HoldsTitle
  <2>2. x \in Holdings(c).titles <=> \E q \in DOMAIN old : x = <<old[q].id, old[q].title>>
    BY HoldsTitle
  <2>3. QED
    BY <2>1, <2>2, <1>2, <1>6
<1>8. Holdings(d).items = Holdings(c).items
  <2>1. \A x : x \in Holdings(d).items <=> x \in Holdings(c).items
    BY <1>2, <1>3, HoldsItem
  <2>2. QED
    BY <2>1 DEF Holdings
<1>9. QED
  BY <1>0, <1>3, <1>4, <1>5, <1>7, <1>8

\* The details are changed.
LEMMA DetailsStep ==
    ASSUME NEW c \in Contents, Distinct(c), NEW details \in Versions
    PROVE  LET d == [c EXCEPT !.details = details] IN
           /\ d \in Contents /\ Distinct(d)
           /\ d.details = details /\ d.sections = c.sections
           /\ Holdings(d).details = details
           /\ Holdings(d).titles = Holdings(c).titles
           /\ Holdings(d).items = Holdings(c).items
<1> DEFINE d == [c EXCEPT !.details = details]
<1>1. d \in Contents /\ d.details = details /\ d.sections = c.sections
  BY DEF Contents
<1> HIDE DEF d
<1>2. Distinct(d)
  BY <1>1 DEF Distinct
<1>3. /\ Holdings(d).details = details
      /\ Holdings(d).titles = Holdings(c).titles
      /\ Holdings(d).items = Holdings(c).items
  BY <1>1 DEF Holdings
<1>4. QED
  BY <1>1, <1>2, <1>3 DEF d

LEMMA HasSectionHeld ==
    ASSUME NEW c, NEW s
    PROVE  HasSection(c, s) <=> \E x \in Holdings(c).titles : x[1] = s
<1>1. ASSUME NEW p \in DOMAIN c.sections, c.sections[p].id = s
      PROVE  \E x \in Holdings(c).titles : x[1] = s
  <2>1. <<c.sections[p].id, c.sections[p].title>> \in Holdings(c).titles
    BY HoldsTitle
  <2>2. QED
    BY <1>1, <2>1
<1>2. ASSUME NEW x \in Holdings(c).titles, x[1] = s
      PROVE  \E p \in DOMAIN c.sections : c.sections[p].id = s
  <2>1. PICK p \in DOMAIN c.sections : x = <<c.sections[p].id, c.sections[p].title>>
    BY HoldsTitle
  <2>2. QED
    BY <1>2, <2>1
<1>3. QED
  BY <1>1, <1>2 DEF HasSection

LEMMA ItemHeld ==
    ASSUME NEW c, NEW i
    PROVE  Places(c, i) # {} <=> \E x \in Holdings(c).items : x[2].id = i
<1>1. Places(c, i) # {} <=> \E p \in DOMAIN c.sections : \E q \in DOMAIN c.sections[p].items :
                               c.sections[p].items[q].id = i
  <2>1. ASSUME NEW p \in DOMAIN c.sections, NEW q \in DOMAIN c.sections[p].items,
               c.sections[p].items[q].id = i
        PROVE  Places(c, i) # {}
    <3>1. <<p, q>> \in Places(c, i)
      BY <2>1, InPlaces
    <3>2. QED
      BY <3>1
  <2>2. ASSUME NEW x \in Places(c, i)
        PROVE  \E p \in DOMAIN c.sections : \E q \in DOMAIN c.sections[p].items :
                   c.sections[p].items[q].id = i
    BY InPlaces
  <2>3. QED
    BY <2>1, <2>2
<1>2. (\E x \in Holdings(c).items : x[2].id = i)
        <=> \E p \in DOMAIN c.sections : \E q \in DOMAIN c.sections[p].items :
               c.sections[p].items[q].id = i
  <2>1. ASSUME NEW p \in DOMAIN c.sections, NEW q \in DOMAIN c.sections[p].items,
               c.sections[p].items[q].id = i
        PROVE  \E x \in Holdings(c).items : x[2].id = i
    <3>1. <<c.sections[p].id, c.sections[p].items[q]>> \in Holdings(c).items
      BY HoldsItem
    <3>2. QED
      BY <2>1, <3>1
  <2>2. ASSUME NEW x \in Holdings(c).items, x[2].id = i
        PROVE  \E p \in DOMAIN c.sections : \E q \in DOMAIN c.sections[p].items :
                   c.sections[p].items[q].id = i
    BY <2>2, HoldsItem
  <2>3. QED
    BY <2>1, <2>2
<1>3. QED
  BY <1>1, <1>2

LEMMA HeldTypes ==
    ASSUME NEW c \in Contents
    PROVE  /\ Holdings(c).details \in Versions
           /\ Holdings(c).titles \subseteq SectionIds \X Versions
           /\ Holdings(c).items \subseteq SectionIds \X ExamItems
<1>1. Holdings(c).details \in Versions
  BY ContentFacts, HoldsDetails
<1>2. \A x : x \in Holdings(c).titles => x \in SectionIds \X Versions
  <2>1. ASSUME NEW x, x \in Holdings(c).titles
        PROVE  x \in SectionIds \X Versions
    <3>1. PICK p \in DOMAIN c.sections : x = <<c.sections[p].id, c.sections[p].title>>
      BY <2>1, HoldsTitle
    <3>2. c.sections[p].id \in SectionIds /\ c.sections[p].title \in Versions
      BY ContentFacts
    <3>3. QED
      BY <3>1, <3>2
  <2>2. QED
    BY <2>1
<1>3. \A x : x \in Holdings(c).items => x \in SectionIds \X ExamItems
  <2>1. ASSUME NEW x, x \in Holdings(c).items
        PROVE  x \in SectionIds \X ExamItems
    <3>1. PICK p \in DOMAIN c.sections : \E q \in DOMAIN c.sections[p].items :
              x = <<c.sections[p].id, c.sections[p].items[q]>>
      BY <2>1, HoldsItem
    <3>2. PICK q \in DOMAIN c.sections[p].items :
              x = <<c.sections[p].id, c.sections[p].items[q]>>
      BY <3>1
    <3>3. c.sections[p].id \in SectionIds /\ c.sections[p].items[q] \in ExamItems
      BY ContentFacts
    <3>4. QED
      BY <3>2, <3>3
  <2>2. QED
    BY <2>1
<1>4. QED
  BY <1>1, <1>2, <1>3

-------------------------------------------------------------------------------
(* What each kind of change does to what a content holds.                  *)

IsEdit(ch) ==
    ch.kind = "edit_item" /\ ch.item \in ExamItems /\ ch.after \in ExamItems
    /\ ch.after.id = ch.item.id
IsAdd(ch) ==
    ch.kind = "add_item" /\ ch.item \in ExamItems /\ ch.section \in SectionIds
    /\ ch.index \in Nat
IsRemove(ch) == ch.kind = "remove_item" /\ ch.item \in ExamItems
IsMove(ch) ==
    ch.kind = "move_item" /\ ch.item \in ExamItems /\ ch.to.section \in SectionIds
    /\ ch.to.index \in Nat
IsAddSection(ch) ==
    /\ ch.kind = "add_section" /\ ch.section \in ExamSections /\ ch.index \in Nat
    /\ \A k, l \in DOMAIN ch.section.items :
          ch.section.items[k].id = ch.section.items[l].id => k = l
IsRemoveSection(ch) == ch.kind = "remove_section" /\ ch.section \in ExamSections
IsRename(ch) ==
    ch.kind = "rename_section" /\ ch.section \in SectionIds /\ ch.before \in Versions
    /\ ch.after \in Versions
IsDetails(ch) ==
    ch.kind = "update_details" /\ ch.before \in Versions /\ ch.after \in Versions

\* A change, or the inverse of one.
IsChange(ch) ==
    \/ IsEdit(ch) \/ IsAdd(ch) \/ IsRemove(ch) \/ IsMove(ch)
    \/ IsAddSection(ch) \/ IsRemoveSection(ch) \/ IsRename(ch) \/ IsDetails(ch)

\* Where the item of a change is, when it has not changed.
LEMMA UnchangedPlace ==
    ASSUME NEW c \in Contents, Distinct(c), NEW item, Unchanged(c, item)
    PROVE  LET x == FindItem(c, item.id) IN
           /\ x[1] \in DOMAIN c.sections /\ x[2] \in DOMAIN c.sections[x[1]].items
           /\ c.sections[x[1]].items[x[2]] = item
           /\ c.sections[x[1]].id \in SectionIds
           /\ <<c.sections[x[1]].id, item>> \in Holdings(c).items
<1> DEFINE x == FindItem(c, item.id)
<1>1. /\ x[1] \in DOMAIN c.sections /\ x[2] \in DOMAIN c.sections[x[1]].items
      /\ ItemAt(c, x) = c.sections[x[1]].items[x[2]]
  BY ItemPlace DEF Unchanged
<1>2. c.sections[x[1]].items[x[2]] = item
  BY <1>1 DEF Unchanged
<1> HIDE DEF x
<1>3. <<c.sections[x[1]].id, item>> \in Holdings(c).items
  BY <1>1, <1>2, HoldsItem
<1>4. c.sections[x[1]].id \in SectionIds
  BY <1>1, ContentFacts
<1>5. QED
  BY <1>1, <1>2, <1>3, <1>4 DEF x

LEMMA EditApplies ==
    ASSUME NEW c \in Contents, Distinct(c), NEW ch, IsEdit(ch), CanApply(c, ch)
    PROVE  LET d == ApplyChange(c, ch) IN
           /\ d \in Contents /\ Distinct(d)
           /\ Holdings(d).details = Holdings(c).details
           /\ Holdings(d).titles = Holdings(c).titles
           /\ \E s \in SectionIds :
                 /\ <<s, ch.item>> \in Holdings(c).items
                 /\ \A x : x \in Holdings(d).items <=>
                       (x \in Holdings(c).items /\ x # <<s, ch.item>>) \/ x = <<s, ch.after>>
<1> DEFINE y == FindItem(c, ch.item.id)
           d == ApplyChange(c, ch)
           items == c.sections[y[1]].items
<1>1. Unchanged(c, ch.item)
  BY DEF CanApply, IsEdit
<1>2. /\ y[1] \in DOMAIN c.sections /\ y[2] \in DOMAIN items
      /\ items[y[2]] = ch.item
      /\ c.sections[y[1]].id \in SectionIds
      /\ <<c.sections[y[1]].id, ch.item>> \in Holdings(c).items
  BY <1>1, UnchangedPlace
<1>3. d = WithItems(c, y[1], [items EXCEPT ![y[2]] = ch.after])
  BY DEF ApplyChange, IsEdit
<1> HIDE DEF y, d
<1>4. ch.after \in ExamItems /\ ch.after.id = items[y[2]].id
  BY <1>2 DEF IsEdit
<1>5. /\ d \in Contents /\ Distinct(d)
      /\ Holdings(d).details = Holdings(c).details
      /\ Holdings(d).titles = Holdings(c).titles
      /\ \A x : x \in Holdings(d).items <=>
            \/ x \in Holdings(c).items /\ x # <<c.sections[y[1]].id, items[y[2]]>>
            \/ x = <<c.sections[y[1]].id, ch.after>>
  BY <1>2, <1>3, <1>4, ReplaceStep
<1>6. QED
  BY <1>2, <1>5 DEF d

LEMMA RemoveApplies ==
    ASSUME NEW c \in Contents, Distinct(c), NEW ch, IsRemove(ch), CanApply(c, ch)
    PROVE  LET d == ApplyChange(c, ch) IN
           /\ d \in Contents /\ Distinct(d)
           /\ Holdings(d).details = Holdings(c).details
           /\ Holdings(d).titles = Holdings(c).titles
           /\ \E s \in SectionIds :
                 /\ <<s, ch.item>> \in Holdings(c).items
                 /\ \A x : x \in Holdings(d).items <=>
                       x \in Holdings(c).items /\ x # <<s, ch.item>>
<1> DEFINE y == FindItem(c, ch.item.id)
           d == ApplyChange(c, ch)
           items == c.sections[y[1]].items
<1>1. Unchanged(c, ch.item)
  BY DEF CanApply, IsRemove
<1>2. /\ y[1] \in DOMAIN c.sections /\ y[2] \in DOMAIN items
      /\ items[y[2]] = ch.item
      /\ c.sections[y[1]].id \in SectionIds
      /\ <<c.sections[y[1]].id, ch.item>> \in Holdings(c).items
  BY <1>1, UnchangedPlace
<1>3. d = WithItems(c, y[1], Edits!RemoveAt(items, y[2]))
  BY DEF ApplyChange, IsRemove, Without
<1> HIDE DEF y, d
<1>4. /\ d \in Contents /\ Distinct(d)
      /\ Holdings(d).details = Holdings(c).details
      /\ Holdings(d).titles = Holdings(c).titles
      /\ \A x : x \in Holdings(d).items <=>
            x \in Holdings(c).items /\ x # <<c.sections[y[1]].id, items[y[2]]>>
  BY <1>2, <1>3, DropStep
<1>5. QED
  BY <1>2, <1>4 DEF d

\* The item that is found with an id is taken out.
LEMMA WithoutStep ==
    ASSUME NEW c \in Contents, Distinct(c), NEW i, Places(c, i) # {}
    PROVE  LET d == Without(c, i)
               y == FindItem(c, i)
               it == ItemAt(c, y)
           IN
           /\ d \in Contents /\ Distinct(d) /\ it \in ExamItems /\ it.id = i
           /\ Holdings(d).details = Holdings(c).details
           /\ Holdings(d).titles = Holdings(c).titles
           /\ c.sections[y[1]].id \in SectionIds
           /\ <<c.sections[y[1]].id, it>> \in Holdings(c).items
           /\ \A x : x \in Holdings(d).items <=>
                 x \in Holdings(c).items /\ x # <<c.sections[y[1]].id, it>>
           /\ Places(d, i) = {}
<1> DEFINE y == FindItem(c, i)
           d == Without(c, i)
           items == c.sections[y[1]].items
<1>1. /\ y[1] \in DOMAIN c.sections /\ y[2] \in DOMAIN items
      /\ ItemAt(c, y) = items[y[2]] /\ ItemAt(c, y).id = i
  BY ItemPlace
<1>2. d = WithItems(c, y[1], Edits!RemoveAt(items, y[2]))
  BY DEF Without
<1> HIDE DEF y, d
<1>3. /\ d \in Contents /\ Distinct(d)
      /\ Holdings(d).details = Holdings(c).details
      /\ Holdings(d).titles = Holdings(c).titles
      /\ \A x : x \in Holdings(d).items <=>
            x \in Holdings(c).items /\ x # <<c.sections[y[1]].id, items[y[2]]>>
  BY <1>1, <1>2, DropStep
<1>4. <<c.sections[y[1]].id, items[y[2]]>> \in Holdings(c).items
  BY <1>1, HoldsItem
<1>5. c.sections[y[1]].id \in SectionIds /\ items[y[2]] \in ExamItems
  BY <1>1, ContentFacts
<1>6. Places(d, i) = {}
  <2>1. ASSUME NEW x \in Holdings(d).items, x[2].id = i
        PROVE  FALSE
    <3>1. x \in Holdings(c).items /\ x # <<c.sections[y[1]].id, items[y[2]]>>
      BY <1>3
    <3>2. x = <<c.sections[y[1]].id, items[y[2]]>>
      BY <1>1, <1>4, <2>1, <3>1, HeldOnce
    <3>3. QED
      BY <3>1, <3>2
  <2>2. QED
    BY <2>1, ItemHeld
<1>7. QED
  BY <1>1, <1>3, <1>4, <1>5, <1>6 DEF y, d

\* An item that is not there is put into a section that is.
LEMMA WithStep ==
    ASSUME NEW c \in Contents, Distinct(c), NEW s, HasSection(c, s), NEW index \in Nat,
           NEW item \in ExamItems, Places(c, item.id) = {}
    PROVE  LET d == With(c, s, index, item) IN
           /\ d \in Contents /\ Distinct(d)
           /\ Holdings(d).details = Holdings(c).details
           /\ Holdings(d).titles = Holdings(c).titles
           /\ \A x : x \in Holdings(d).items <=> x \in Holdings(c).items \/ x = <<s, item>>
<1> DEFINE p == SectionAt(c, s)
           d == With(c, s, index, item)
<1>1. p \in DOMAIN c.sections /\ c.sections[p].id = s
  BY SectionPlace
<1>2. d = WithItems(c, p, Splice(c.sections[p].items, index, item))
  BY DEF With
<1> HIDE DEF p, d
<1>3. QED
  BY <1>1, <1>2, PutStep DEF d

LEMMA AddApplies ==
    ASSUME NEW c \in Contents, Distinct(c), NEW ch, IsAdd(ch), CanApply(c, ch)
    PROVE  LET d == ApplyChange(c, ch) IN
           /\ d \in Contents /\ Distinct(d)
           /\ Holdings(d).details = Holdings(c).details
           /\ Holdings(d).titles = Holdings(c).titles
           /\ HasSection(c, ch.section) /\ Places(c, ch.item.id) = {}
           /\ \A x : x \in Holdings(d).items <=>
                 x \in Holdings(c).items \/ x = <<ch.section, ch.item>>
<1>1. HasSection(c, ch.section) /\ Places(c, ch.item.id) = {}
  BY DEF CanApply, CanAdd, IsAdd
<1>2. ApplyChange(c, ch) = With(c, ch.section, ch.index, ch.item)
  BY DEF ApplyChange, IsAdd
<1>3. ch.index \in Nat /\ ch.item \in ExamItems
  BY DEF IsAdd
<1>4. QED
  BY <1>1, <1>2, <1>3, WithStep

LEMMA MoveApplies ==
    ASSUME NEW c \in Contents, Distinct(c), NEW ch, IsMove(ch), CanApply(c, ch)
    PROVE  LET d == ApplyChange(c, ch) IN
           /\ d \in Contents /\ Distinct(d)
           /\ Holdings(d).details = Holdings(c).details
           /\ Holdings(d).titles = Holdings(c).titles
           /\ HasSection(c, ch.to.section)
           /\ \E s \in SectionIds : \E it \in ExamItems :
                 /\ it.id = ch.item.id /\ <<s, it>> \in Holdings(c).items
                 /\ \A x : x \in Holdings(d).items <=>
                       (x \in Holdings(c).items /\ x # <<s, it>>) \/ x = <<ch.to.section, it>>
<1> DEFINE i == ch.item.id
           e == Without(c, i)
           it == ItemAt(c, FindItem(c, i))
           s == c.sections[FindItem(c, i)[1]].id
           d == ApplyChange(c, ch)
<1>1. HasSection(c, ch.to.section) /\ Places(c, i) # {}
  BY DEF CanApply, IsMove
<1>2. d = With(e, ch.to.section, ch.to.index, it)
  BY DEF ApplyChange, IsMove
<1>3. /\ e \in Contents /\ Distinct(e) /\ it \in ExamItems /\ it.id = i
      /\ Holdings(e).details = Holdings(c).details
      /\ Holdings(e).titles = Holdings(c).titles
      /\ s \in SectionIds /\ <<s, it>> \in Holdings(c).items
      /\ \A x : x \in Holdings(e).items <=> x \in Holdings(c).items /\ x # <<s, it>>
      /\ Places(e, i) = {}
  BY <1>1, WithoutStep
<1> HIDE DEF e, it, s, d
<1>4. HasSection(e, ch.to.section)
  BY <1>1, <1>3, HasSectionHeld
<1>5. ch.to.index \in Nat
  BY DEF IsMove
<1>6. /\ d \in Contents /\ Distinct(d)
      /\ Holdings(d).details = Holdings(e).details
      /\ Holdings(d).titles = Holdings(e).titles
      /\ \A x : x \in Holdings(d).items <=>
            x \in Holdings(e).items \/ x = <<ch.to.section, it>>
  BY <1>2, <1>3, <1>4, <1>5, WithStep
<1>7. QED
  BY <1>1, <1>3, <1>6 DEF d

\* None of the items of a section is there.
Free(c, s) == \A k \in DOMAIN s.items : Places(c, s.items[k].id) = {}

LEMMA AddSectionApplies ==
    ASSUME NEW c \in Contents, Distinct(c), NEW ch, IsAddSection(ch), CanApply(c, ch),
           Free(c, ch.section)
    PROVE  LET d == ApplyChange(c, ch) IN
           /\ d \in Contents /\ Distinct(d)
           /\ Holdings(d).details = Holdings(c).details
           /\ ~HasSection(c, ch.section.id)
           /\ \A x : x \in Holdings(d).titles <=>
                 x \in Holdings(c).titles \/ x = <<ch.section.id, ch.section.title>>
           /\ \A x : x \in Holdings(d).items <=>
                 \/ x \in Holdings(c).items
                 \/ \E k \in DOMAIN ch.section.items :
                       x = <<ch.section.id, ch.section.items[k]>>
<1> DEFINE s == ch.section
           d == ApplyChange(c, ch)
<1>1. ~HasSection(c, s.id)
  BY DEF CanApply, IsAddSection
<1>2. d = [c EXCEPT !.sections = Splice(c.sections, ch.index, s)]
  BY DEF ApplyChange, IsAddSection
<1>3. /\ ch.index \in Nat /\ s \in ExamSections
      /\ \A k, l \in DOMAIN s.items : s.items[k].id = s.items[l].id => k = l
  BY DEF IsAddSection
<1>4. \A k \in DOMAIN s.items : Places(c, s.items[k].id) = {}
  BY DEF Free
<1> HIDE DEF s, d
<1>5. /\ d \in Contents /\ Distinct(d)
      /\ Holdings(d).details = Holdings(c).details
      /\ \A x : x \in Holdings(d).titles <=>
            x \in Holdings(c).titles \/ x = <<s.id, s.title>>
      /\ \A x : x \in Holdings(d).items <=>
            x \in Holdings(c).items \/ \E k \in DOMAIN s.items : x = <<s.id, s.items[k]>>
  BY <1>1, <1>2, <1>3, <1>4, PutSectionStep
<1>6. QED
  BY <1>1, <1>5 DEF s, d

LEMMA RemoveSectionApplies ==
    ASSUME NEW c \in Contents, Distinct(c), NEW ch, IsRemoveSection(ch), CanApply(c, ch)
    PROVE  LET d == ApplyChange(c, ch) IN
           /\ d \in Contents /\ Distinct(d)
           /\ Holdings(d).details = Holdings(c).details
           /\ HasSection(c, ch.section.id)
           /\ \A x : x \in Holdings(d).titles <=>
                 x \in Holdings(c).titles /\ x[1] # ch.section.id
           /\ \A x : x \in Holdings(d).items <=>
                 x \in Holdings(c).items /\ x[1] # ch.section.id
           /\ \A x : x \in Holdings(c).items /\ x[1] = ch.section.id <=>
                 \E k \in DOMAIN ch.section.items : x = <<ch.section.id, ch.section.items[k]>>
<1> DEFINE s == ch.section.id
           p == SectionAt(c, s)
           d == ApplyChange(c, ch)
<1>1. HasSection(c, s) /\ c.sections[p].items = ch.section.items
  BY DEF CanApply, IsRemoveSection
<1>2. d = [c EXCEPT !.sections = Edits!RemoveAt(c.sections, p)]
  BY DEF ApplyChange, IsRemoveSection
<1>3. /\ p \in DOMAIN c.sections /\ c.sections[p].id = s
      /\ \A q \in DOMAIN c.sections : c.sections[q].id = s => q = p
  BY <1>1, SectionPlace
<1> HIDE DEF p, d
<1>4. /\ d \in Contents /\ Distinct(d)
      /\ Holdings(d).details = Holdings(c).details
      /\ \A x : x \in Holdings(d).titles <=> x \in Holdings(c).titles /\ x[1] # s
      /\ \A x : x \in Holdings(d).items <=> x \in Holdings(c).items /\ x[1] # s
  BY <1>2, <1>3, DropSectionStep
<1>5. \A x : x \in Holdings(c).items /\ x[1] = s <=>
          \E k \in DOMAIN ch.section.items : x = <<s, ch.section.items[k]>>
  <2>1. ASSUME NEW x, x \in Holdings(c).items, x[1] = s
        PROVE  \E k \in DOMAIN ch.section.items : x = <<s, ch.section.items[k]>>
    <3>1. PICK q \in DOMAIN c.sections : \E k \in DOMAIN c.sections[q].items :
              x = <<c.sections[q].id, c.sections[q].items[k]>>
      BY <2>1, HoldsItem
    <3>2. q = p
      BY <1>3, <2>1, <3>1
    <3>3. QED
      BY <1>1, <1>3, <3>1, <3>2
  <2>2. ASSUME NEW x, NEW k \in DOMAIN ch.section.items, x = <<s, ch.section.items[k]>>
        PROVE  x \in Holdings(c).items /\ x[1] = s
    BY <1>1, <1>3, <2>2, HoldsItem
  <2>3. QED
    BY <2>1, <2>2
<1>6. QED
  BY <1>1, <1>4, <1>5 DEF d

LEMMA RenameApplies ==
    ASSUME NEW c \in Contents, Distinct(c), NEW ch, IsRename(ch), CanApply(c, ch)
    PROVE  LET d == ApplyChange(c, ch) IN
           /\ d \in Contents /\ Distinct(d)
           /\ Holdings(d).details = Holdings(c).details
           /\ <<ch.section, ch.before>> \in Holdings(c).titles
           /\ \A x : x \in Holdings(d).titles <=>
                 \/ x \in Holdings(c).titles /\ x[1] # ch.section
                 \/ x = <<ch.section, ch.after>>
           /\ Holdings(d).items = Holdings(c).items
<1> DEFINE p == SectionAt(c, ch.section)
           d == ApplyChange(c, ch)
<1>1. HasSection(c, ch.section) /\ c.sections[p].title = ch.before
  BY DEF CanApply, IsRename
<1>2. d = [c EXCEPT !.sections[p].title = ch.after]
  BY DEF ApplyChange, IsRename
<1>3. p \in DOMAIN c.sections /\ c.sections[p].id = ch.section
  BY <1>1, SectionPlace
<1> HIDE DEF p, d
<1>4. ch.after \in Versions
  BY DEF IsRename
<1>5. <<ch.section, ch.before>> \in Holdings(c).titles
  BY <1>1, <1>3, HoldsTitle
<1>6. QED
  BY <1>2, <1>3, <1>4, <1>5, RenameStep DEF d

LEMMA DetailsApplies ==
    ASSUME NEW c \in Contents, Distinct(c), NEW ch, IsDetails(ch), CanApply(c, ch)
    PROVE  LET d == ApplyChange(c, ch) IN
           /\ d \in Contents /\ Distinct(d)
           /\ Holdings(c).details = ch.before /\ Holdings(d).details = ch.after
           /\ Holdings(d).titles = Holdings(c).titles
           /\ Holdings(d).items = Holdings(c).items
<1>1. c.details = ch.before /\ ch.after \in Versions
  BY DEF CanApply, IsDetails
<1>2. ApplyChange(c, ch) = [c EXCEPT !.details = ch.after]
  BY DEF ApplyChange, IsDetails
<1>3. QED
  BY <1>1, <1>2, DetailsStep, HoldsDetails

-------------------------------------------------------------------------------
(* The changes of a proposal.                                              *)

ToComplete == ItemChanges \cup SectionChanges \cup Additions

EditForm(ch, n, i) ==
    ch = [id |-> n, kind |-> "edit_item", item |-> Old(i),
          after |-> [id |-> i, version |-> "ai"]]
RemoveForm(ch, n, i) ==
    ch = [id |-> n, kind |-> "remove_item", item |-> Old(i),
          section |-> OriginalSite(i).section, index |-> OriginalSite(i).index]
MoveForm(ch, n, i, to) ==
    ch = [id |-> n, kind |-> "move_item", item |-> Old(i), to |-> to,
          from |-> OriginalSite(i)]
AddForm(ch, n, to) ==
    ch = [id |-> n, kind |-> "add_item", item |-> NewItem(n), section |-> to.section,
          index |-> to.index]
AddSectionForm(ch, n, index) ==
    ch = [id |-> n, kind |-> "add_section", index |-> index,
          section |-> [id |-> NewSection, title |-> "ai", items |-> <<NewItem(n)>>]]
RemoveSectionForm(ch, n, s) ==
    ch = [id |-> n, kind |-> "remove_section", section |-> Original.sections[s],
          index |-> s - 1]
RenameForm(ch, n, s) ==
    ch = [id |-> n, kind |-> "rename_section", section |-> s, before |-> "original",
          after |-> "ai"]
DetailsForm(ch, n) ==
    ch = [id |-> n, kind |-> "update_details", before |-> "original", after |-> "ai"]

Form(ch, n) ==
    \/ \E i \in OldItems : EditForm(ch, n, i)
    \/ \E i \in OldItems : RemoveForm(ch, n, i)
    \/ \E i \in OldItems : \E to \in Sites : MoveForm(ch, n, i, to)
    \/ \E to \in Sites : AddForm(ch, n, to)
    \/ \E index \in Positions : AddSectionForm(ch, n, index)
    \/ \E s \in {1, 2} : RemoveSectionForm(ch, n, s)
    \/ \E s \in {1, 2} : RenameForm(ch, n, s)
    \/ DetailsForm(ch, n)

LEMMA CompletedForm ==
    ASSUME NEW x \in ToComplete, NEW n
    PROVE  Form(Completed(x, n), n)
<1>1. CASE x \in [kind : {"edit_item"}, item : {Old(i) : i \in OldItems}]
  <2>1. PICK i \in OldItems : x.item = Old(i) /\ x.kind = "edit_item"
    BY <1>1
  <2>2. EditForm(Completed(x, n), n, i)
    BY <2>1 DEF Completed, EditForm, Old
  <2>3. QED
    BY <2>2 DEF Form
<1>2. CASE x \in [kind : {"remove_item"}, item : {Old(i) : i \in OldItems}]
  <2>1. PICK i \in OldItems : x.item = Old(i) /\ x.kind = "remove_item"
    BY <1>2
  <2>2. RemoveForm(Completed(x, n), n, i)
    BY <2>1 DEF Completed, RemoveForm, Old
  <2>3. QED
    BY <2>2 DEF Form
<1>3. CASE x \in [kind : {"move_item"}, item : {Old(i) : i \in OldItems}, to : Sites]
  <2>1. PICK i \in OldItems : x.item = Old(i) /\ x.kind = "move_item" /\ x.to \in Sites
    BY <1>3
  <2>2. MoveForm(Completed(x, n), n, i, x.to)
    BY <2>1 DEF Completed, MoveForm, Old
  <2>3. QED
    BY <2>1, <2>2 DEF Form
<1>4. CASE x \in [kind : {"rename_section"}, section : {1, 2}, before : {"original"},
                  after : {"ai"}]
  <2>1. /\ DOMAIN x = {"kind", "section", "before", "after"} /\ x.kind = "rename_section"
        /\ x.section \in {1, 2} /\ x.before = "original" /\ x.after = "ai"
    BY <1>4
  <2>2. RenameForm(Completed(x, n), n, x.section)
    BY <2>1 DEF Completed, RenameForm
  <2>3. QED
    BY <2>1, <2>2 DEF Form
<1>5. CASE x \in {[kind |-> "remove_section", section |-> Original.sections[s],
                   index |-> s - 1] : s \in {1, 2}}
  <2>1. PICK s \in {1, 2} : x = [kind |-> "remove_section", section |-> Original.sections[s],
                                 index |-> s - 1]
    BY <1>5
  <2>2. RemoveSectionForm(Completed(x, n), n, s)
    BY <2>1 DEF Completed, RemoveSectionForm
  <2>3. QED
    BY <2>2 DEF Form
<1>6. CASE x \in {[kind |-> "add_item", section |-> y.section, index |-> y.index] :
                      y \in Sites}
  <2>1. PICK y \in Sites : x = [kind |-> "add_item", section |-> y.section, index |-> y.index]
    BY <1>6
  <2>2. AddForm(Completed(x, n), n, y)
    BY <2>1 DEF Completed, AddForm
  <2>3. QED
    BY <2>2 DEF Form
<1>7. CASE x \in [kind : {"add_section"}, index : Positions]
  <2>1. x.kind = "add_section" /\ x.index \in Positions
    BY <1>7
  <2>2. AddSectionForm(Completed(x, n), n, x.index)
    BY <2>1 DEF Completed, AddSectionForm
  <2>3. QED
    BY <2>1, <2>2 DEF Form
<1>8. CASE x \in [kind : {"update_details"}, before : {"original"}, after : {"ai"}]
  <2>1. /\ DOMAIN x = {"kind", "before", "after"} /\ x.kind = "update_details"
        /\ x.before = "original" /\ x.after = "ai"
    BY <1>8
  <2>2. DetailsForm(Completed(x, n), n)
    BY <2>1 DEF Completed, DetailsForm
  <2>3. QED
    BY <2>2 DEF Form
<1>9. QED
  BY <1>1, <1>2, <1>3, <1>4, <1>5, <1>6, <1>7, <1>8
     DEF ToComplete, ItemChanges, SectionChanges, Additions

LEMMA ProposalForms ==
    ASSUME proposal \in Proposals
    PROVE  /\ Len(proposal) \in {1, 2} /\ DOMAIN proposal = 1..Len(proposal)
           /\ \A n \in DOMAIN proposal : n \in {1, 2} /\ Form(proposal[n], n)
<1>1. CASE proposal \in {<<Completed(ch, 1)>> : ch \in ToComplete}
  <2>1. PICK ch \in ToComplete : proposal = <<Completed(ch, 1)>>
    BY <1>1
  <2>2. QED
    BY <2>1, CompletedForm
<1>2. ASSUME NEW x \in ToComplete \X ToComplete,
             proposal = <<Completed(x[1], 1), Completed(x[2], 2)>>
      PROVE  /\ Len(proposal) \in {1, 2} /\ DOMAIN proposal = 1..Len(proposal)
             /\ \A n \in DOMAIN proposal : n \in {1, 2} /\ Form(proposal[n], n)
  <2>1. /\ x[1] \in ToComplete /\ x[2] \in ToComplete
    OBVIOUS
  <2>2. Form(Completed(x[1], 1), 1) /\ Form(Completed(x[2], 2), 2)
    BY <2>1, CompletedForm
  <2>3. QED
    BY <1>2, <2>2
<1>3. \/ proposal \in {<<Completed(ch, 1)>> : ch \in ToComplete}
      \/ \E x \in ToComplete \X ToComplete :
            proposal = <<Completed(x[1], 1), Completed(x[2], 2)>>
  BY DEF Proposals, ToComplete
<1>4. QED
  BY <1>1, <1>2, <1>3

LEMMA CompletedTouched ==
    ASSUME NEW x \in ToComplete, NEW n
    PROVE  Touched(Completed(x, n)) = Touched(x)
<1>1. CASE x \in [kind : {"edit_item"}, item : {Old(i) : i \in OldItems}]
  <2>1. x.kind = "edit_item"
    BY <1>1
  <2>2. Completed(x, n).kind = x.kind /\ Completed(x, n).item = x.item
    BY <2>1 DEF Completed
  <2>3. QED
    BY <2>1, <2>2 DEF Touched
<1>2. CASE x \in [kind : {"remove_item"}, item : {Old(i) : i \in OldItems}]
  <2>1. x.kind = "remove_item"
    BY <1>2
  <2>2. Completed(x, n).kind = x.kind /\ Completed(x, n).item = x.item
    BY <2>1 DEF Completed
  <2>3. QED
    BY <2>1, <2>2 DEF Touched
<1>3. CASE x \in [kind : {"move_item"}, item : {Old(i) : i \in OldItems}, to : Sites]
  <2>1. x.kind = "move_item"
    BY <1>3
  <2>2. Completed(x, n).kind = x.kind /\ Completed(x, n).item = x.item
    BY <2>1 DEF Completed
  <2>3. QED
    BY <2>1, <2>2 DEF Touched
<1>4. CASE x.kind \in {"rename_section", "remove_section", "add_item"}
  <2>1. Completed(x, n).kind = x.kind
    <3>1. CASE x \in SectionChanges
      BY <1>4, <3>1 DEF Completed, SectionChanges
    <3>2. CASE x.kind = "add_item"
      BY <3>2 DEF Completed
    <3>3. CASE x \in ItemChanges
      BY <1>4, <3>3 DEF ItemChanges
    <3>4. CASE x \in Additions
      BY <1>4, <3>2, <3>4 DEF Additions
    <3>5. QED
      BY <3>1, <3>3, <3>4 DEF ToComplete
  <2>2. QED
    BY <1>4, <2>1 DEF Touched
<1>5. CASE x.kind = "add_section"
  <2>1. Completed(x, n).kind = x.kind
    BY <1>5 DEF Completed
  <2>2. QED
    BY <1>5, <2>1 DEF Touched
<1>6. CASE x \in [kind : {"update_details"}, before : {"original"}, after : {"ai"}]
  <2>1. x.kind = "update_details" /\ DOMAIN x = {"kind", "before", "after"}
    BY <1>6
  <2>2. Completed(x, n).kind = x.kind
    BY <2>1 DEF Completed
  <2>3. QED
    BY <2>1, <2>2 DEF Touched
<1>7. QED
  BY <1>1, <1>2, <1>3, <1>4, <1>5, <1>6 DEF ToComplete, ItemChanges, SectionChanges, Additions

\* The changes of a proposal touch different things.
LEMMA ProposalApart ==
    ASSUME proposal \in Proposals, NEW n \in DOMAIN proposal, NEW m \in DOMAIN proposal, n # m
    PROVE  Touched(proposal[n]) \cap Touched(proposal[m]) = {}
<1>1. n \in {1, 2} /\ m \in {1, 2} /\ Len(proposal) = 2
  BY ProposalForms
<1>2. \A ch : proposal # <<Completed(ch, 1)>>
  BY <1>1
<1>3. \E x \in ToComplete \X ToComplete :
          /\ Touched(x[1]) \cap Touched(x[2]) = {}
          /\ proposal = <<Completed(x[1], 1), Completed(x[2], 2)>>
  BY <1>2 DEF Proposals, ToComplete
<1>4. PICK x \in ToComplete \X ToComplete :
          /\ Touched(x[1]) \cap Touched(x[2]) = {}
          /\ proposal = <<Completed(x[1], 1), Completed(x[2], 2)>>
  BY <1>3
<1>5. x[1] \in ToComplete /\ x[2] \in ToComplete
  OBVIOUS
<1>6. proposal[1] = Completed(x[1], 1) /\ proposal[2] = Completed(x[2], 2)
  BY <1>4
<1>7. Touched(proposal[1]) = Touched(x[1]) /\ Touched(proposal[2]) = Touched(x[2])
  BY <1>5, <1>6, CompletedTouched
<1>8. QED
  BY <1>1, <1>4, <1>7

LEMMA Items ==
    /\ FirstSize \in Nat /\ SecondSize \in Nat /\ MaxPosition \in Nat
    /\ OldItems \subseteq Nat /\ NewItems \subseteq Nat /\ OldItems \cap NewItems = {}
    /\ \A i \in OldItems :
          /\ Old(i) \in ExamItems /\ Old(i).id = i /\ Old(i).version = "original"
          /\ [id |-> i, version |-> "ai"] \in ExamItems
          /\ OriginalSite(i).section \in {1, 2} /\ OriginalSite(i).index \in Nat
          /\ OriginalSite(i).section = 1 <=> i <= FirstSize
    /\ \A n \in {1, 2} :
          /\ NewItem(n) \in ExamItems /\ NewItem(n).id = FirstSize + SecondSize + n
          /\ NewItem(n).version = "ai" /\ NewItem(n).id \in NewItems
    /\ \A x \in Sites : x.section \in {1, 2} /\ x.index \in Nat
<1>1. FirstSize \in Nat /\ SecondSize \in Nat /\ MaxPosition \in Nat
  BY EditBoundsAssumption
<1>2. /\ OldItems \subseteq Nat /\ NewItems \subseteq Nat /\ OldItems \cap NewItems = {}
  BY <1>1 DEF OldItems, NewItems
<1>3. \A i \in OldItems :
          /\ Old(i) \in ExamItems /\ Old(i).id = i /\ Old(i).version = "original"
          /\ [id |-> i, version |-> "ai"] \in ExamItems
  BY DEF Old, ExamItems, Versions
<1>4. \A i \in OldItems :
          /\ OriginalSite(i).section \in {1, 2} /\ OriginalSite(i).index \in Nat
          /\ OriginalSite(i).section = 1 <=> i <= FirstSize
  BY <1>1 DEF OldItems, OriginalSite
<1>5. \A n \in {1, 2} :
          /\ NewItem(n) \in ExamItems /\ NewItem(n).id = FirstSize + SecondSize + n
          /\ NewItem(n).version = "ai" /\ NewItem(n).id \in NewItems
  BY DEF NewItem, NewItems, ExamItems, Versions
<1>6. \A x \in Sites : x.section \in {1, 2} /\ x.index \in Nat
  BY <1>1 DEF Sites, Positions
<1>7. QED
  BY <1>1, <1>2, <1>3, <1>4, <1>5, <1>6

LEMMA OriginalFacts ==
    /\ Original \in Contents /\ Distinct(Original) /\ DOMAIN Original.sections = {1, 2}
    /\ Original.details = "original"
    /\ \A s \in {1, 2} :
          LET o == Original.sections[s] IN
          /\ o \in ExamSections /\ o.id = s /\ o.title = "original"
          /\ \A k \in DOMAIN o.items : \E i \in OldItems :
                o.items[k] = Old(i) /\ OriginalSite(i).section = s
          /\ \A i \in OldItems : OriginalSite(i).section = s =>
                \E k \in DOMAIN o.items : o.items[k] = Old(i)
          /\ \A k, l \in DOMAIN o.items : o.items[k].id = o.items[l].id => k = l
<1> DEFINE first == [id |-> 1, title |-> "original", items |-> [i \in 1..FirstSize |-> Old(i)]]
           second == [id |-> 2, title |-> "original",
                      items |-> [i \in 1..SecondSize |-> Old(FirstSize + i)]]
<1>1. Original = [details |-> "original", sections |-> <<first, second>>]
  BY DEF Original
<1>2. FirstSize \in Nat /\ SecondSize \in Nat /\ OldItems = 1..(FirstSize + SecondSize)
  BY Items DEF OldItems
<1>a. \A i \in OldItems : Old(i) \in ExamItems /\ Old(i).id = i
  BY Items
<1>b. \A i \in OldItems : OriginalSite(i).section = IF i <= FirstSize THEN 1 ELSE 2
  BY DEF OriginalSite
<1>3. /\ \A i \in 1..FirstSize : i \in OldItems
      /\ \A i \in 1..SecondSize : FirstSize + i \in OldItems
  BY <1>2 DEF OldItems
<1>4. first \in ExamSections
  <2>0. \A i \in 1..FirstSize : Old(i) \in ExamItems
    BY <1>3, <1>a
  <2>1. [i \in 1..FirstSize |-> Old(i)] \in Seq(ExamItems)
    BY <1>2, <2>0, IsASeq
  <2>2. QED
    BY <2>1 DEF ExamSections, Versions
<1>5. second \in ExamSections
  <2>1. \A i \in 1..SecondSize : Old(FirstSize + i) \in ExamItems
    BY <1>3, Items
  <2>2. [i \in 1..SecondSize |-> Old(FirstSize + i)] \in Seq(ExamItems)
    BY <1>2, <2>1, IsASeq
  <2>3. QED
    BY <2>2 DEF ExamSections, Versions
<1>6. \A k \in DOMAIN first.items :
          k \in OldItems /\ first.items[k] = Old(k) /\ OriginalSite(k).section = 1
  BY <1>2, <1>3, <1>b
<1>7. \A k \in DOMAIN second.items :
          /\ FirstSize + k \in OldItems /\ second.items[k] = Old(FirstSize + k)
          /\ OriginalSite(FirstSize + k).section = 2
  <2>1. ASSUME NEW k \in 1..SecondSize
        PROVE  FirstSize + k \in OldItems /\ OriginalSite(FirstSize + k).section = 2
    <3>1. FirstSize + k \in OldItems /\ ~(FirstSize + k <= FirstSize)
      BY <1>2, <1>3
    <3>2. QED
      BY <3>1, <1>b
  <2>2. QED
    BY <2>1
<1>8. \A i \in OldItems : OriginalSite(i).section = 1 =>
          i \in DOMAIN first.items /\ first.items[i] = Old(i)
  BY <1>2, <1>b
<1>9. ASSUME NEW i \in OldItems, OriginalSite(i).section = 2
      PROVE  \E k \in DOMAIN second.items : second.items[k] = Old(i)
  <2>1. i > FirstSize /\ i <= FirstSize + SecondSize /\ i \in Nat
    BY <1>2, <1>9, <1>b
  <2>2. i - FirstSize \in 1..SecondSize /\ FirstSize + (i - FirstSize) = i
    BY <1>2, <2>1
  <2>3. second.items[i - FirstSize] = Old(i)
    BY <2>2
  <2>4. i - FirstSize \in DOMAIN second.items
    BY <2>2
  <2>5. QED
    BY <2>3, <2>4
<1>10. \A k, l \in DOMAIN first.items : first.items[k].id = first.items[l].id => k = l
  BY <1>6, <1>a
<1>11. \A k, l \in DOMAIN second.items : second.items[k].id = second.items[l].id => k = l
  <2>1. ASSUME NEW k \in 1..SecondSize, NEW l \in 1..SecondSize,
               second.items[k].id = second.items[l].id
        PROVE  k = l
    <3>1. FirstSize + k = FirstSize + l
      BY <2>1, <1>7, <1>a
    <3>2. QED
      BY <3>1, <1>2
  <2>2. QED
    BY <2>1
<1>12. \A k \in DOMAIN first.items : \A l \in DOMAIN second.items :
          first.items[k].id # second.items[l].id
  <2>1. ASSUME NEW k \in DOMAIN first.items, NEW l \in DOMAIN second.items
        PROVE  first.items[k].id # second.items[l].id
    <3>1. first.items[k].id = k /\ k <= FirstSize
      BY <1>2, <1>6, <1>a
    <3>2. second.items[l].id = FirstSize + l /\ l > 0
      BY <1>2, <1>7, <1>a
    <3>3. QED
      BY <3>1, <3>2, <1>2
  <2>2. QED
    BY <2>1
<1>13. /\ first.id = 1 /\ first.title = "original" /\ second.id = 2
       /\ second.title = "original"
  OBVIOUS
<1> HIDE DEF first, second
<1>14. /\ DOMAIN Original.sections = {1, 2} /\ Original.details = "original"
       /\ Original.sections[1] = first /\ Original.sections[2] = second
  BY <1>1
<1>15. Original \in Contents
  <2>1. <<first, second>> \in Seq(ExamSections)
    BY <1>4, <1>5
  <2>2. QED
    BY <1>1, <2>1 DEF Contents, Versions
<1>16. Distinct(Original)
  BY <1>10, <1>11, <1>12, <1>13, <1>14 DEF Distinct
<1>17. QED
  BY <1>4, <1>5, <1>6, <1>7, <1>8, <1>9, <1>10, <1>11, <1>13, <1>14, <1>15, <1>16

\* A change of the proposal and its inverse: what they have in common.
LEMMA Inverses ==
    ASSUME NEW n \in {1, 2}, NEW a, Form(a, n)
    PROVE  LET b == InvertChange(a) IN
           /\ a.id = n /\ b.id = n
           /\ \A i \in OldItems : EditForm(a, n, i) =>
                 IsEdit(a) /\ IsEdit(b) /\ b.item = a.after /\ b.after = a.item
           /\ \A i \in OldItems : RemoveForm(a, n, i) =>
                 /\ IsRemove(a) /\ IsAdd(b) /\ a.item = Old(i) /\ b.item = Old(i)
                 /\ b.section = OriginalSite(i).section
           /\ \A i \in OldItems : \A to \in Sites : MoveForm(a, n, i, to) =>
                 /\ IsMove(a) /\ IsMove(b) /\ a.item = Old(i) /\ b.item = Old(i)
                 /\ a.to = to /\ b.to = OriginalSite(i)
           /\ \A to \in Sites : AddForm(a, n, to) =>
                 /\ IsAdd(a) /\ IsRemove(b) /\ a.item = NewItem(n) /\ b.item = NewItem(n)
                 /\ a.section = to.section
           /\ \A index \in Positions : AddSectionForm(a, n, index) =>
                 IsAddSection(a) /\ IsRemoveSection(b) /\ b.section = a.section
           /\ \A s \in {1, 2} : RemoveSectionForm(a, n, s) =>
                 /\ IsRemoveSection(a) /\ IsAddSection(b)
                 /\ a.section = Original.sections[s] /\ b.section = a.section
           /\ \A s \in {1, 2} : RenameForm(a, n, s) =>
                 /\ IsRename(a) /\ IsRename(b) /\ a.section = s /\ b.section = s
                 /\ b.before = a.after /\ b.after = a.before
           /\ DetailsForm(a, n) =>
                 IsDetails(a) /\ IsDetails(b) /\ b.before = a.after /\ b.after = a.before
<1> DEFINE b == InvertChange(a)
<1>1. ASSUME NEW i \in OldItems, EditForm(a, n, i)
      PROVE  /\ a.id = n /\ b.id = n
             /\ IsEdit(a) /\ IsEdit(b) /\ b.item = a.after /\ b.after = a.item
  <2>1. b = [id |-> n, kind |-> "edit_item", item |-> [id |-> i, version |-> "ai"],
             after |-> Old(i)]
    BY <1>1 DEF EditForm, InvertChange
  <2>2. /\ Old(i) \in ExamItems /\ [id |-> i, version |-> "ai"] \in ExamItems
        /\ Old(i).id = i
    BY Items
  <2>3. QED
    BY <1>1, <2>1, <2>2 DEF EditForm, IsEdit
<1>2. ASSUME NEW i \in OldItems, RemoveForm(a, n, i)
      PROVE  /\ a.id = n /\ b.id = n
             /\ IsRemove(a) /\ IsAdd(b) /\ a.item = Old(i) /\ b.item = Old(i)
             /\ b.section = OriginalSite(i).section
  <2>1. b = [id |-> n, kind |-> "add_item", item |-> Old(i),
             section |-> OriginalSite(i).section, index |-> OriginalSite(i).index]
    BY <1>2 DEF RemoveForm, InvertChange, InvertedKind
  <2>2. /\ Old(i) \in ExamItems /\ OriginalSite(i).section \in SectionIds
        /\ OriginalSite(i).index \in Nat
    <3>1. /\ Old(i) \in ExamItems /\ OriginalSite(i).section \in {1, 2}
          /\ OriginalSite(i).index \in Nat
      BY Items
    <3>2. QED
      BY <3>1 DEF SectionIds
  <2>3. QED
    BY <1>2, <2>1, <2>2 DEF RemoveForm, IsRemove, IsAdd
<1>3. ASSUME NEW i \in OldItems, NEW to \in Sites, MoveForm(a, n, i, to)
      PROVE  /\ a.id = n /\ b.id = n
             /\ IsMove(a) /\ IsMove(b) /\ a.item = Old(i) /\ b.item = Old(i)
             /\ a.to = to /\ b.to = OriginalSite(i)
  <2>1. b = [id |-> n, kind |-> "move_item", item |-> Old(i), to |-> OriginalSite(i),
             from |-> to]
    BY <1>3 DEF MoveForm, InvertChange
  <2>2. /\ Old(i) \in ExamItems /\ OriginalSite(i).section \in SectionIds
        /\ OriginalSite(i).index \in Nat /\ to.section \in SectionIds /\ to.index \in Nat
    <3>1. /\ Old(i) \in ExamItems /\ OriginalSite(i).section \in {1, 2}
          /\ OriginalSite(i).index \in Nat
      BY Items
    <3>2. to.section \in {1, 2} /\ to.index \in Nat
      BY Items
    <3>3. QED
      BY <3>1, <3>2 DEF SectionIds
  <2>3. QED
    BY <1>3, <2>1, <2>2 DEF MoveForm, IsMove
<1>4. ASSUME NEW to \in Sites, AddForm(a, n, to)
      PROVE  /\ a.id = n /\ b.id = n
             /\ IsAdd(a) /\ IsRemove(b) /\ a.item = NewItem(n) /\ b.item = NewItem(n)
             /\ a.section = to.section
  <2>1. b = [id |-> n, kind |-> "remove_item", item |-> NewItem(n), section |-> to.section,
             index |-> to.index]
    BY <1>4 DEF AddForm, InvertChange, InvertedKind
  <2>2. NewItem(n) \in ExamItems /\ to.section \in SectionIds /\ to.index \in Nat
    BY Items DEF SectionIds
  <2>3. QED
    BY <1>4, <2>1, <2>2 DEF AddForm, IsRemove, IsAdd
<1>5. ASSUME NEW index \in Positions, AddSectionForm(a, n, index)
      PROVE  /\ a.id = n /\ b.id = n
             /\ IsAddSection(a) /\ IsRemoveSection(b) /\ b.section = a.section
  <2> DEFINE s == [id |-> NewSection, title |-> "ai", items |-> <<NewItem(n)>>]
  <2>1. b = [id |-> n, kind |-> "remove_section", index |-> index, section |-> s]
    BY <1>5 DEF AddSectionForm, InvertChange, InvertedKind
  <2>2. s \in ExamSections
    <3>1. <<NewItem(n)>> \in Seq(ExamItems)
      BY Items
    <3>2. QED
      BY <3>1 DEF ExamSections, NewSection, Versions
  <2>3. \A k, l \in DOMAIN s.items : s.items[k].id = s.items[l].id => k = l
    OBVIOUS
  <2>4. index \in Nat
    BY Items DEF Positions
  <2>5. a = [id |-> n, kind |-> "add_section", index |-> index, section |-> s]
    BY <1>5 DEF AddSectionForm
  <2> HIDE DEF s, b
  <2>6. QED
    BY <2>1, <2>2, <2>3, <2>4, <2>5 DEF IsAddSection, IsRemoveSection
<1>6. ASSUME NEW s \in {1, 2}, RemoveSectionForm(a, n, s)
      PROVE  /\ a.id = n /\ b.id = n
             /\ IsRemoveSection(a) /\ IsAddSection(b)
             /\ a.section = Original.sections[s] /\ b.section = a.section
  <2> DEFINE o == Original.sections[s]
  <2>1. b = [id |-> n, kind |-> "add_section", section |-> o, index |-> s - 1]
    BY <1>6 DEF RemoveSectionForm, InvertChange, InvertedKind
  <2>2. /\ o \in ExamSections
        /\ \A k, l \in DOMAIN o.items : o.items[k].id = o.items[l].id => k = l
    BY OriginalFacts
  <2>3. a = [id |-> n, kind |-> "remove_section", section |-> o, index |-> s - 1]
    BY <1>6 DEF RemoveSectionForm
  <2>4. s - 1 \in Nat
    OBVIOUS
  <2> HIDE DEF o, b
  <2>5. QED
    BY <2>1, <2>2, <2>3, <2>4 DEF IsAddSection, IsRemoveSection, o
<1>7. ASSUME NEW s \in {1, 2}, RenameForm(a, n, s)
      PROVE  /\ a.id = n /\ b.id = n
             /\ IsRename(a) /\ IsRename(b) /\ a.section = s /\ b.section = s
             /\ b.before = a.after /\ b.after = a.before
  <2>1. b = [id |-> n, kind |-> "rename_section", section |-> s, before |-> "ai",
             after |-> "original"]
    BY <1>7 DEF RenameForm, InvertChange
  <2>2. s \in SectionIds /\ {"ai", "original"} \subseteq Versions
    BY DEF SectionIds, Versions
  <2>3. QED
    BY <1>7, <2>1, <2>2 DEF RenameForm, IsRename
<1>8. ASSUME DetailsForm(a, n)
      PROVE  /\ a.id = n /\ b.id = n
             /\ IsDetails(a) /\ IsDetails(b) /\ b.before = a.after /\ b.after = a.before
  BY <1>8 DEF DetailsForm, InvertChange, IsDetails, Versions
<1>9. a.id = n /\ b.id = n
  BY <1>1, <1>2, <1>3, <1>4, <1>5, <1>6, <1>7, <1>8 DEF Form
<1> HIDE DEF b
<1>10. QED
  BY <1>1, <1>2, <1>3, <1>4, <1>5, <1>6, <1>7, <1>8, <1>9 DEF b

-------------------------------------------------------------------------------
(* No section and no item twice.                                           *)

\* The sections that changes of the proposal add or remove, with their items.
Carried ==
    {proposal[n].section : n \in {m \in DOMAIN proposal :
                                     proposal[m].kind \in {"add_section", "remove_section"}}}

\* The items of a section that is not there are nowhere else: it may be added with them.
Whole(c) ==
    \A s \in Carried : ~HasSection(c, s.id) => Free(c, s)

Good(c) == c \in Contents /\ Distinct(c) /\ Whole(c)

LEMMA CarriedFacts ==
    ASSUME proposal \in Proposals, NEW s \in Carried
    PROVE  /\ s \in ExamSections
           /\ \/ s.id \in {1, 2} /\ s = Original.sections[s.id]
              \/ /\ s.id = NewSection
                 /\ \E n \in DOMAIN proposal :
                       proposal[n].kind = "add_section" /\ s.items = <<NewItem(n)>>
<1>1. PICK n \in DOMAIN proposal :
          s = proposal[n].section /\ proposal[n].kind \in {"add_section", "remove_section"}
  BY DEF Carried
<1>2. n \in {1, 2} /\ Form(proposal[n], n)
  BY ProposalForms
<1>3. \/ \E index \in Positions : AddSectionForm(proposal[n], n, index)
      \/ \E o \in {1, 2} : RemoveSectionForm(proposal[n], n, o)
  BY <1>1, <1>2 DEF Form, EditForm, RemoveForm, MoveForm, AddForm, RenameForm, DetailsForm
<1>4. ASSUME NEW index \in Positions, AddSectionForm(proposal[n], n, index)
      PROVE  /\ s \in ExamSections /\ s.id = NewSection
             /\ proposal[n].kind = "add_section" /\ s.items = <<NewItem(n)>>
  <2>1. s = [id |-> NewSection, title |-> "ai", items |-> <<NewItem(n)>>]
    BY <1>1, <1>4 DEF AddSectionForm
  <2>2. <<NewItem(n)>> \in Seq(ExamItems)
    BY <1>2, Items
  <2>3. proposal[n].kind = "add_section"
    BY <1>4 DEF AddSectionForm
  <2>4. QED
    BY <2>1, <2>2, <2>3 DEF ExamSections, NewSection, Versions
<1>5. ASSUME NEW o \in {1, 2}, RemoveSectionForm(proposal[n], n, o)
      PROVE  s \in ExamSections /\ s.id \in {1, 2} /\ s = Original.sections[s.id]
  <2>1. s = Original.sections[o]
    BY <1>1, <1>5 DEF RemoveSectionForm
  <2>2. QED
    BY <2>1, OriginalFacts
<1>6. QED
  BY <1>3, <1>4, <1>5

\* A section is carried in one form.
LEMMA CarriedOnce ==
    ASSUME proposal \in Proposals, NEW s \in Carried, NEW t \in Carried, s.id = t.id
    PROVE  s = t
<1>1. CASE s.id \in {1, 2}
  BY <1>1, CarriedFacts DEF NewSection
<1>2. CASE s.id \notin {1, 2}
  <2>1. PICK n \in DOMAIN proposal :
            s = proposal[n].section /\ proposal[n].kind \in {"add_section", "remove_section"}
    BY DEF Carried
  <2>2. PICK m \in DOMAIN proposal :
            t = proposal[m].section /\ proposal[m].kind \in {"add_section", "remove_section"}
    BY DEF Carried
  <2>3. ASSUME NEW k \in DOMAIN proposal, proposal[k].section.id \notin {1, 2},
               proposal[k].kind \in {"add_section", "remove_section"}
        PROVE  proposal[k].kind = "add_section"
    <3>1. k \in {1, 2} /\ Form(proposal[k], k)
      BY ProposalForms
    <3>2. ~(\E o \in {1, 2} : RemoveSectionForm(proposal[k], k, o))
      BY <2>3, OriginalFacts DEF RemoveSectionForm
    <3>3. \E index \in Positions : AddSectionForm(proposal[k], k, index)
      BY <2>3, <3>1, <3>2
         DEF Form, EditForm, RemoveForm, MoveForm, AddForm, RenameForm, DetailsForm
    <3>4. QED
      BY <3>3 DEF AddSectionForm
  <2>4. proposal[n].kind = "add_section" /\ proposal[m].kind = "add_section"
    BY <1>2, <2>1, <2>2, <2>3
  <2>5. <<"add_section", 1>> \in Touched(proposal[n]) \cap Touched(proposal[m])
    BY <2>4 DEF Touched
  <2>6. n = m
    BY <2>5, ProposalApart
  <2>7. QED
    BY <2>1, <2>2, <2>6
<1>3. QED
  BY <1>1, <1>2

\* An item belongs to one of the carried sections at most.
LEMMA CarriedApart ==
    ASSUME proposal \in Proposals, NEW s \in Carried, NEW t \in Carried,
           NEW k \in DOMAIN s.items, NEW l \in DOMAIN t.items,
           s.items[k].id = t.items[l].id
    PROVE  s.id = t.id
<1>1. ASSUME NEW u \in Carried, NEW j \in DOMAIN u.items, u.id \in {1, 2}
      PROVE  \E i \in OldItems : u.items[j].id = i /\ OriginalSite(i).section = u.id
  <2>1. u = Original.sections[u.id]
    BY <1>1, CarriedFacts DEF NewSection
  <2>2. \E i \in OldItems : u.items[j] = Old(i) /\ OriginalSite(i).section = u.id
    BY <1>1, <2>1, OriginalFacts
  <2>3. QED
    BY <2>2, Items
<1>2. ASSUME NEW u \in Carried, NEW j \in DOMAIN u.items, u.id \notin {1, 2}
      PROVE  u.id = NewSection /\ u.items[j].id \in NewItems
  <2>1. u.id = NewSection /\ \E n \in DOMAIN proposal : u.items = <<NewItem(n)>>
    BY <1>2, CarriedFacts
  <2>2. PICK n \in DOMAIN proposal : u.items = <<NewItem(n)>>
    BY <2>1
  <2>3. n \in {1, 2} /\ u.items[j] = NewItem(n)
    BY <2>2, ProposalForms
  <2>4. QED
    BY <2>1, <2>3, Items
<1>3. OldItems \cap NewItems = {}
  BY Items
<1>4. CASE s.id \in {1, 2} /\ t.id \in {1, 2}
  BY <1>1, <1>4
<1>5. CASE s.id \notin {1, 2} /\ t.id \notin {1, 2}
  BY <1>2, <1>5
<1>6. CASE s.id \in {1, 2} /\ t.id \notin {1, 2}
  BY <1>1, <1>2, <1>3, <1>6
<1>7. CASE s.id \notin {1, 2} /\ t.id \in {1, 2}
  BY <1>1, <1>2, <1>3, <1>7
<1>8. QED
  BY <1>4, <1>5, <1>6, <1>7

\* A step that leaves the sections alone, and adds no item of a section that is not there.
LEMMA WholeStays ==
    ASSUME NEW c, NEW d, Whole(c), \A s : HasSection(c, s) => HasSection(d, s),
           \A x \in Holdings(d).items :
              \/ \E y \in Holdings(c).items : y[2].id = x[2].id
              \/ \A s \in Carried : \A k \in DOMAIN s.items :
                    s.items[k].id = x[2].id => HasSection(d, s.id)
    PROVE  Whole(d)
<1> SUFFICES ASSUME NEW s \in Carried, ~HasSection(d, s.id), NEW k \in DOMAIN s.items,
                    Places(d, s.items[k].id) # {}
             PROVE  FALSE
  BY DEF Whole, Free
<1>1. PICK x \in Holdings(d).items : x[2].id = s.items[k].id
  BY ItemHeld
<1>2. Places(c, s.items[k].id) = {}
  BY DEF Whole, Free
<1>3. ~(\E y \in Holdings(c).items : y[2].id = x[2].id)
  BY <1>1, <1>2, ItemHeld
<1>4. QED
  BY <1>1, <1>3

LEMMA GoodEdit ==
    ASSUME NEW c, Good(c), NEW ch, IsEdit(ch), CanApply(c, ch)
    PROVE  Good(ApplyChange(c, ch))
<1> DEFINE d == ApplyChange(c, ch)
<1>1. /\ d \in Contents /\ Distinct(d)
      /\ Holdings(d).titles = Holdings(c).titles
      /\ \E s \in SectionIds :
            /\ <<s, ch.item>> \in Holdings(c).items
            /\ \A x : x \in Holdings(d).items <=>
                  (x \in Holdings(c).items /\ x # <<s, ch.item>>) \/ x = <<s, ch.after>>
  BY EditApplies DEF Good
<1> HIDE DEF d
<1>2. \A s : HasSection(c, s) => HasSection(d, s)
  BY <1>1, HasSectionHeld
<1>3. \A x \in Holdings(d).items : \E y \in Holdings(c).items : y[2].id = x[2].id
  BY <1>1 DEF IsEdit
<1>4. Whole(d)
  BY <1>2, <1>3, WholeStays DEF Good
<1>5. QED
  BY <1>1, <1>4 DEF Good, d

LEMMA GoodRemove ==
    ASSUME NEW c, Good(c), NEW ch, IsRemove(ch), CanApply(c, ch)
    PROVE  Good(ApplyChange(c, ch))
<1> DEFINE d == ApplyChange(c, ch)
<1>1. /\ d \in Contents /\ Distinct(d)
      /\ Holdings(d).titles = Holdings(c).titles
      /\ \A x : x \in Holdings(d).items => x \in Holdings(c).items
  BY RemoveApplies DEF Good
<1> HIDE DEF d
<1>2. \A s : HasSection(c, s) => HasSection(d, s)
  BY <1>1, HasSectionHeld
<1>3. \A x \in Holdings(d).items : \E y \in Holdings(c).items : y[2].id = x[2].id
  BY <1>1
<1>4. Whole(d)
  BY <1>2, <1>3, WholeStays DEF Good
<1>5. QED
  BY <1>1, <1>4 DEF Good, d

LEMMA GoodMove ==
    ASSUME NEW c, Good(c), NEW ch, IsMove(ch), CanApply(c, ch)
    PROVE  Good(ApplyChange(c, ch))
<1> DEFINE d == ApplyChange(c, ch)
<1>1. /\ d \in Contents /\ Distinct(d)
      /\ Holdings(d).titles = Holdings(c).titles
      /\ \E s \in SectionIds : \E it \in ExamItems :
            /\ it.id = ch.item.id /\ <<s, it>> \in Holdings(c).items
            /\ \A x : x \in Holdings(d).items <=>
                  (x \in Holdings(c).items /\ x # <<s, it>>) \/ x = <<ch.to.section, it>>
  BY MoveApplies DEF Good
<1> HIDE DEF d
<1>2. \A s : HasSection(c, s) => HasSection(d, s)
  BY <1>1, HasSectionHeld
<1>3. \A x \in Holdings(d).items : \E y \in Holdings(c).items : y[2].id = x[2].id
  BY <1>1
<1>4. Whole(d)
  BY <1>2, <1>3, WholeStays DEF Good
<1>5. QED
  BY <1>1, <1>4 DEF Good, d

LEMMA GoodAdd ==
    ASSUME NEW c, Good(c), NEW ch, IsAdd(ch), CanApply(c, ch),
           \A s \in Carried : \A k \in DOMAIN s.items :
              s.items[k].id = ch.item.id => s.id = ch.section
    PROVE  Good(ApplyChange(c, ch))
<1> DEFINE d == ApplyChange(c, ch)
<1>1. /\ d \in Contents /\ Distinct(d)
      /\ Holdings(d).titles = Holdings(c).titles
      /\ HasSection(c, ch.section)
      /\ \A x : x \in Holdings(d).items <=>
            x \in Holdings(c).items \/ x = <<ch.section, ch.item>>
  BY AddApplies DEF Good
<1> HIDE DEF d
<1>2. \A s : HasSection(c, s) => HasSection(d, s)
  BY <1>1, HasSectionHeld
<1>3. \A x \in Holdings(d).items :
         \/ \E y \in Holdings(c).items : y[2].id = x[2].id
         \/ \A s \in Carried : \A k \in DOMAIN s.items :
               s.items[k].id = x[2].id => HasSection(d, s.id)
  <2>1. ASSUME NEW x, x = <<ch.section, ch.item>>, NEW s \in Carried, NEW k \in DOMAIN s.items,
               s.items[k].id = x[2].id
        PROVE  HasSection(d, s.id)
    BY <1>1, <1>2, <2>1
  <2>2. QED
    BY <1>1, <2>1
<1>4. Whole(d)
  BY <1>2, <1>3, WholeStays DEF Good
<1>5. QED
  BY <1>1, <1>4 DEF Good, d

LEMMA GoodRename ==
    ASSUME NEW c, Good(c), NEW ch, IsRename(ch), CanApply(c, ch)
    PROVE  Good(ApplyChange(c, ch))
<1> DEFINE d == ApplyChange(c, ch)
<1>1. /\ d \in Contents /\ Distinct(d)
      /\ \A x : x \in Holdings(d).titles <=>
            \/ x \in Holdings(c).titles /\ x[1] # ch.section
            \/ x = <<ch.section, ch.after>>
      /\ Holdings(d).items = Holdings(c).items
  BY RenameApplies DEF Good
<1> HIDE DEF d
<1>2. \A s : HasSection(c, s) => HasSection(d, s)
  <2>1. ASSUME NEW s, HasSection(c, s)
        PROVE  \E x \in Holdings(d).titles : x[1] = s
    <3>1. PICK y \in Holdings(c).titles : y[1] = s
      BY <2>1, HasSectionHeld
    <3>2. CASE s = ch.section
      <4>1. <<ch.section, ch.after>> \in Holdings(d).titles
        BY <1>1
      <4>2. QED
        BY <3>2, <4>1
    <3>3. CASE s # ch.section
      BY <1>1, <3>1, <3>3
    <3>4. QED
      BY <3>2, <3>3
  <2>2. QED
    BY <2>1, HasSectionHeld
<1>3. \A x \in Holdings(d).items : \E y \in Holdings(c).items : y[2].id = x[2].id
  BY <1>1
<1>4. Whole(d)
  BY <1>2, <1>3, WholeStays DEF Good
<1>5. QED
  BY <1>1, <1>4 DEF Good, d

LEMMA GoodDetails ==
    ASSUME NEW c, Good(c), NEW details \in Versions
    PROVE  Good([c EXCEPT !.details = details])
<1> DEFINE d == [c EXCEPT !.details = details]
<1>1. /\ d \in Contents /\ Distinct(d)
      /\ Holdings(d).titles = Holdings(c).titles
      /\ Holdings(d).items = Holdings(c).items
  BY DetailsStep DEF Good
<1> HIDE DEF d
<1>2. \A s : HasSection(c, s) => HasSection(d, s)
  BY <1>1, HasSectionHeld
<1>3. \A x \in Holdings(d).items : \E y \in Holdings(c).items : y[2].id = x[2].id
  BY <1>1
<1>4. Whole(d)
  BY <1>2, <1>3, WholeStays DEF Good
<1>5. QED
  BY <1>1, <1>4 DEF Good, d

LEMMA GoodAddSection ==
    ASSUME proposal \in Proposals, NEW c, Good(c), NEW ch, IsAddSection(ch), CanApply(c, ch),
           ch.section \in Carried
    PROVE  /\ Good(ApplyChange(c, ch))
           /\ \A k \in DOMAIN ch.section.items : Places(c, ch.section.items[k].id) = {}
<1> DEFINE d == ApplyChange(c, ch)
           t == ch.section
<1>0. \A k \in DOMAIN t.items : Places(c, t.items[k].id) = {}
  BY DEF CanApply, IsAddSection, Good, Whole, Free
<1>1. /\ d \in Contents /\ Distinct(d)
      /\ \A x : x \in Holdings(d).titles <=>
            x \in Holdings(c).titles \/ x = <<t.id, t.title>>
      /\ \A x : x \in Holdings(d).items <=>
            \/ x \in Holdings(c).items
            \/ \E k \in DOMAIN t.items : x = <<t.id, t.items[k]>>
  <2>1. c \in Contents /\ Distinct(c)
    BY DEF Good
  <2>2. Free(c, ch.section)
    BY <1>0 DEF Free
  <2>3. QED
    BY <2>1, <2>2, AddSectionApplies
<1> HIDE DEF d, t
<1>2. \A s : HasSection(c, s) => HasSection(d, s)
  BY <1>1, HasSectionHeld
<1>3. HasSection(d, t.id)
  <2>1. <<t.id, t.title>> \in Holdings(d).titles
    BY <1>1
  <2>2. QED
    BY <2>1, HasSectionHeld
<1>4. \A x \in Holdings(d).items :
         \/ \E y \in Holdings(c).items : y[2].id = x[2].id
         \/ \A s \in Carried : \A k \in DOMAIN s.items :
               s.items[k].id = x[2].id => HasSection(d, s.id)
  <2>1. ASSUME NEW x, NEW j \in DOMAIN t.items, x = <<t.id, t.items[j]>>,
               NEW s \in Carried, NEW k \in DOMAIN s.items, s.items[k].id = x[2].id
        PROVE  HasSection(d, s.id)
    <3>1. t \in Carried /\ s.items[k].id = t.items[j].id
      BY <2>1 DEF t
    <3>2. s.id = t.id
      BY <3>1, CarriedApart
    <3>3. QED
      BY <1>3, <3>2
  <2>2. QED
    BY <1>1, <2>1
<1>5. Whole(d)
  BY <1>2, <1>4, WholeStays DEF Good
<1>6. QED
  BY <1>0, <1>1, <1>5 DEF Good, d, t

LEMMA GoodRemoveSection ==
    ASSUME proposal \in Proposals, NEW c, Good(c), NEW ch, IsRemoveSection(ch),
           CanApply(c, ch), ch.section \in Carried
    PROVE  Good(ApplyChange(c, ch))
<1> DEFINE d == ApplyChange(c, ch)
           t == ch.section
<1>1. /\ d \in Contents /\ Distinct(d)
      /\ \A x : x \in Holdings(d).titles <=> x \in Holdings(c).titles /\ x[1] # t.id
      /\ \A x : x \in Holdings(d).items <=> x \in Holdings(c).items /\ x[1] # t.id
      /\ \A x : x \in Holdings(c).items /\ x[1] = t.id <=>
            \E k \in DOMAIN t.items : x = <<t.id, t.items[k]>>
  BY RemoveSectionApplies DEF Good
<1> HIDE DEF d
<1>2. Whole(d)
  <2> SUFFICES ASSUME NEW s \in Carried, ~HasSection(d, s.id), NEW k \in DOMAIN s.items,
                      Places(d, s.items[k].id) # {}
               PROVE  FALSE
    BY DEF Whole, Free
  <2>1. PICK x \in Holdings(d).items : x[2].id = s.items[k].id
    BY ItemHeld
  <2>2. x \in Holdings(c).items /\ x[1] # t.id
    BY <1>1
  <2>3. CASE HasSection(c, s.id)
    <3>1. s.id = t.id
      BY <1>1, <2>3, HasSectionHeld
    <3>2. s = t
      BY <3>1, CarriedOnce
    <3>3. <<t.id, t.items[k]>> \in Holdings(c).items
      BY <1>1, <3>2
    <3>4. x = <<t.id, t.items[k]>>
      BY <2>1, <2>2, <3>2, <3>3, HeldOnce DEF Good
    <3>5. QED
      BY <2>2, <3>4
  <2>4. CASE ~HasSection(c, s.id)
    <3>1. Places(c, s.items[k].id) = {}
      BY <2>4 DEF Good, Whole, Free
    <3>2. QED
      BY <2>1, <2>2, <3>1, ItemHeld
  <2>5. QED
    BY <2>3, <2>4
<1>3. QED
  BY <1>1, <1>2 DEF Good, d

\* A change or an inverse keeps a content as it has to be.
LEMMA GoodStep ==
    ASSUME proposal \in Proposals, NEW n \in DOMAIN proposal,
           NEW ch \in {proposal[n], InvertChange(proposal[n])},
           NEW c, Good(c), CanApply(c, ch)
    PROVE  Good(ApplyChange(c, ch))
<1> DEFINE a == proposal[n]
           b == InvertChange(a)
<1>0. n \in {1, 2} /\ Form(a, n)
  BY ProposalForms
<1>1. ASSUME NEW i \in OldItems, EditForm(a, n, i)
      PROVE  Good(ApplyChange(c, ch))
  <2>1. IsEdit(ch)
    BY <1>0, <1>1, Inverses
  <2>2. QED
    BY <2>1, GoodEdit
<1>2. ASSUME NEW i \in OldItems, RemoveForm(a, n, i)
      PROVE  Good(ApplyChange(c, ch))
  <2>1. /\ IsRemove(a) /\ IsAdd(b) /\ b.item = Old(i)
        /\ b.section = OriginalSite(i).section
    BY <1>0, <1>2, Inverses
  <2>2. CASE ch = a
    BY <2>1, <2>2, GoodRemove
  <2>3. CASE ch = b
    <3>1. ASSUME NEW s \in Carried, NEW k \in DOMAIN s.items, s.items[k].id = ch.item.id
          PROVE  s.id = ch.section
      <4>1. s.items[k].id = i
        BY <2>1, <2>3, <3>1, Items
      <4>2. s.id \in {1, 2} /\ s = Original.sections[s.id]
        <5>1. ASSUME NEW m \in DOMAIN proposal, s.items = <<NewItem(m)>>
              PROVE  FALSE
          <6>1. m \in {1, 2} /\ s.items[k] = NewItem(m)
            BY <5>1, ProposalForms
          <6>2. QED
            BY <4>1, <6>1, Items
        <5>2. QED
          BY <5>1, CarriedFacts
      <4>3. PICK j \in OldItems : s.items[k] = Old(j) /\ OriginalSite(j).section = s.id
        BY <4>2, OriginalFacts
      <4>4. j = i
        BY <4>1, <4>3, Items
      <4>5. QED
        BY <2>1, <2>3, <4>3, <4>4
    <3>2. QED
      BY <2>1, <2>3, <3>1, GoodAdd
  <2>4. QED
    BY <2>2, <2>3
<1>3. ASSUME NEW i \in OldItems, NEW to \in Sites, MoveForm(a, n, i, to)
      PROVE  Good(ApplyChange(c, ch))
  <2>1. IsMove(ch)
    BY <1>0, <1>3, Inverses
  <2>2. QED
    BY <2>1, GoodMove
<1>4. ASSUME NEW to \in Sites, AddForm(a, n, to)
      PROVE  Good(ApplyChange(c, ch))
  <2>1. IsAdd(a) /\ IsRemove(b) /\ a.item = NewItem(n) /\ a.kind = "add_item"
    <3>1. IsAdd(a) /\ IsRemove(b) /\ a.item = NewItem(n)
      BY <1>0, <1>4, Inverses
    <3>2. QED
      BY <3>1 DEF IsAdd
  <2>2. CASE ch = b
    BY <2>1, <2>2, GoodRemove
  <2>3. CASE ch = a
    <3>1. ASSUME NEW s \in Carried, NEW k \in DOMAIN s.items, s.items[k].id = ch.item.id
          PROVE  FALSE
      <4>1. s.items[k].id = FirstSize + SecondSize + n
        BY <1>0, <2>1, <2>3, <3>1, Items
      <4>2. CASE s.id \in {1, 2} /\ s = Original.sections[s.id]
        <5>1. PICK j \in OldItems : s.items[k] = Old(j)
          BY <4>2, OriginalFacts
        <5>2. s.items[k].id = j
          BY <5>1, Items
        <5>3. QED
          BY <1>0, <4>1, <5>2, Items DEF OldItems
      <4>3. ASSUME NEW m \in DOMAIN proposal, proposal[m].kind = "add_section",
                   s.items = <<NewItem(m)>>
            PROVE  FALSE
        <5>1. m \in {1, 2} /\ s.items[k] = NewItem(m)
          BY <4>3, ProposalForms
        <5>2. FirstSize + SecondSize + m = FirstSize + SecondSize + n
          BY <4>1, <5>1, Items
        <5>3. m = n
          BY <1>0, <5>1, <5>2, Items
        <5>4. QED
          BY <2>1, <4>3, <5>3
      <4>4. QED
        BY <4>2, <4>3, CarriedFacts
    <3>2. QED
      BY <2>1, <2>3, <3>1, GoodAdd
  <2>4. QED
    BY <2>2, <2>3
<1>5. ASSUME NEW index \in Positions, AddSectionForm(a, n, index)
      PROVE  Good(ApplyChange(c, ch))
  <2>1. IsAddSection(a) /\ IsRemoveSection(b) /\ b.section = a.section
    BY <1>0, <1>5, Inverses
  <2>2. a.section \in Carried
    BY <2>1 DEF Carried, IsAddSection
  <2>3. QED
    BY <2>1, <2>2, GoodAddSection, GoodRemoveSection
<1>6. ASSUME NEW s \in {1, 2}, RemoveSectionForm(a, n, s)
      PROVE  Good(ApplyChange(c, ch))
  <2>1. IsRemoveSection(a) /\ IsAddSection(b) /\ b.section = a.section
    BY <1>0, <1>6, Inverses
  <2>2. a.section \in Carried
    BY <2>1 DEF Carried, IsRemoveSection
  <2>3. QED
    BY <2>1, <2>2, GoodAddSection, GoodRemoveSection
<1>7. ASSUME NEW s \in {1, 2}, RenameForm(a, n, s)
      PROVE  Good(ApplyChange(c, ch))
  <2>1. IsRename(ch)
    BY <1>0, <1>7, Inverses
  <2>2. QED
    BY <2>1, GoodRename
<1>8. ASSUME DetailsForm(a, n)
      PROVE  Good(ApplyChange(c, ch))
  <2>1. IsDetails(ch)
    BY <1>0, <1>8, Inverses
  <2>2. ApplyChange(c, ch) = [c EXCEPT !.details = ch.after] /\ ch.after \in Versions
    BY <2>1 DEF ApplyChange, IsDetails
  <2>3. QED
    BY <2>2, GoodDetails
<1>9. QED
  BY <1>0, <1>1, <1>2, <1>3, <1>4, <1>5, <1>6, <1>7, <1>8 DEF Form

LEMMA AttemptGood ==
    ASSUME proposal \in Proposals, NEW n \in DOMAIN proposal,
           NEW ch \in {proposal[n], InvertChange(proposal[n])},
           NEW done, Good(done.content), done.applied \subseteq DOMAIN proposal, NEW chosen
    PROVE  LET e == Attempt(done, chosen, ch) IN
           Good(e.content) /\ e.applied \subseteq DOMAIN proposal
<1>1. ch.id = n
  <2>1. n \in {1, 2} /\ Form(proposal[n], n)
    BY ProposalForms
  <2>2. QED
    BY <2>1, Inverses
<1>2. CASE ch.id \in chosen /\ CanApply(done.content, ch)
  <2>1. Good(ApplyChange(done.content, ch))
    BY <1>2, GoodStep
  <2>2. QED
    BY <1>1, <1>2, <2>1 DEF Attempt
<1>3. CASE ~(ch.id \in chosen /\ CanApply(done.content, ch))
  BY <1>3 DEF Attempt
<1>4. QED
  BY <1>2, <1>3

LEMMA ChangesGood ==
    ASSUME proposal \in Proposals, NEW c, Good(c), NEW chosen
    PROVE  /\ Good(ApplyChanges(c, chosen).content)
           /\ ApplyChanges(c, chosen).applied \subseteq DOMAIN proposal
           /\ Good(UndoChanges(c, chosen).content)
           /\ UndoChanges(c, chosen).applied \subseteq DOMAIN proposal
<1> DEFINE none == [content |-> c, applied |-> {}]
           first == Attempt(none, chosen, proposal[1])
           last == Attempt(none, chosen, InvertChange(proposal[2]))
<1>1. /\ 1 \in DOMAIN proposal /\ Len(proposal) \in {1, 2}
      /\ Len(proposal) # 1 => 2 \in DOMAIN proposal
  BY ProposalForms
<1>2. Good(none.content) /\ none.applied \subseteq DOMAIN proposal
  OBVIOUS
<1> HIDE DEF none
<1>3. Good(first.content) /\ first.applied \subseteq DOMAIN proposal
  BY <1>1, <1>2, AttemptGood
<1>4. Len(proposal) # 1 => Good(last.content) /\ last.applied \subseteq DOMAIN proposal
  BY <1>1, <1>2, AttemptGood
<1> HIDE DEF first, last
<1>5. /\ Good(ApplyChanges(c, chosen).content)
      /\ ApplyChanges(c, chosen).applied \subseteq DOMAIN proposal
  <2>1. CASE Len(proposal) = 1
    BY <1>3, <2>1 DEF ApplyChanges, first, none
  <2>2. CASE Len(proposal) # 1
    <3>1. ApplyChanges(c, chosen) = Attempt(first, chosen, proposal[2])
      BY <2>2 DEF ApplyChanges, first, none
    <3>2. QED
      BY <1>1, <1>3, <2>2, <3>1, AttemptGood
  <2>3. QED
    BY <2>1, <2>2
<1>6. /\ Good(UndoChanges(c, chosen).content)
      /\ UndoChanges(c, chosen).applied \subseteq DOMAIN proposal
  <2>1. CASE Len(proposal) = 1
    <3>1. UndoChanges(c, chosen) = Attempt(none, chosen, InvertChange(proposal[1]))
      BY <2>1 DEF UndoChanges, none
    <3>2. QED
      BY <1>1, <1>2, <3>1, AttemptGood
  <2>2. CASE Len(proposal) # 1
    <3>1. UndoChanges(c, chosen) = Attempt(last, chosen, InvertChange(proposal[1]))
      BY <2>2 DEF UndoChanges, last, none
    <3>2. QED
      BY <1>1, <1>4, <2>2, <3>1, AttemptGood
  <2>3. QED
    BY <2>1, <2>2
<1>7. QED
  BY <1>5, <1>6

\* What the invariants rest on: the types, and that no section and no item is twice in the
\* exam or in a copy of it.
EditInv ==
    ChangesTypeOK /\ Good(content) /\ \A r \in EditRequests : Good(copy[r])

LEMMA ResultGood ==
    ASSUME EditInv, NEW r \in EditRequests
    PROVE  Good(Result(r).content) /\ Result(r).applied \subseteq DOMAIN proposal
           /\ Good(Written(r))
<1>1. proposal \in Proposals /\ Good(copy[r]) /\ Good(content)
  BY DEF EditInv, ChangesTypeOK
<1>2. Good(Result(r).content) /\ Result(r).applied \subseteq DOMAIN proposal
  BY <1>1, ChangesGood DEF Result
<1>3. Good(Written(r))
  <2> DEFINE c == Result(r).content
             v == IF c.details = copy[r].details THEN content.details ELSE c.details
  <2>1. v \in Versions
    BY <1>1, <1>2 DEF Good, Contents
  <2>2. Written(r) = [c EXCEPT !.details = v]
    BY DEF Written
  <2> HIDE DEF c, v
  <2>3. QED
    BY <1>2, <2>1, <2>2, GoodDetails DEF c
<1>4. QED
  BY <1>2, <1>3

\* What the builder does to an item or a section.
LEMMA BuilderItem ==
    ASSUME NEW c \in Contents, Distinct(c), NEW p \in DOMAIN c.sections,
           NEW q \in DOMAIN c.sections[p].items
    PROVE  LET d == [c EXCEPT !.sections[p].items[q].version = "builder"]
               old == c.sections[p].items[q]
               new == [id |-> old.id, version |-> "builder"]
           IN
           /\ d \in Contents /\ Distinct(d)
           /\ Holdings(d).details = Holdings(c).details
           /\ Holdings(d).titles = Holdings(c).titles
           /\ <<c.sections[p].id, old>> \in Holdings(c).items
           /\ \A x : x \in Holdings(d).items <=>
                 \/ x \in Holdings(c).items /\ x # <<c.sections[p].id, old>>
                 \/ x = <<c.sections[p].id, new>>
<1> DEFINE old == c.sections[p].items[q]
           new == [id |-> old.id, version |-> "builder"]
           d == [c EXCEPT !.sections[p].items[q].version = "builder"]
<1>1. old \in ExamItems
  BY ContentFacts
<1>2. new \in ExamItems /\ new.id = old.id /\ [old EXCEPT !.version = "builder"] = new
  BY <1>1 DEF ExamItems, Versions
<1>3. d = WithItems(c, p, [c.sections[p].items EXCEPT
                              ![q] = [old EXCEPT !.version = "builder"]])
  BY Zenon DEF WithItems
<1>4. d = WithItems(c, p, [c.sections[p].items EXCEPT ![q] = new])
  BY <1>2, <1>3
<1>5. <<c.sections[p].id, old>> \in Holdings(c).items
  BY HoldsItem
<1> HIDE DEF d, new
<1>6. /\ d \in Contents /\ Distinct(d)
      /\ Holdings(d).details = Holdings(c).details
      /\ Holdings(d).titles = Holdings(c).titles
      /\ \A x : x \in Holdings(d).items <=>
            \/ x \in Holdings(c).items /\ x # <<c.sections[p].id, c.sections[p].items[q]>>
            \/ x = <<c.sections[p].id, new>>
  BY <1>2, <1>4, ReplaceStep
<1>7. QED
  BY <1>5, <1>6 DEF d, new

LEMMA BuilderEditStep ==
    ASSUME NEW c, Good(c), NEW p \in DOMAIN c.sections, NEW q \in DOMAIN c.sections[p].items
    PROVE  Good([c EXCEPT !.sections[p].items[q].version = "builder"])
<1> DEFINE d == [c EXCEPT !.sections[p].items[q].version = "builder"]
           old == c.sections[p].items[q]
           new == [id |-> old.id, version |-> "builder"]
           s == c.sections[p].id
<1>1. c \in Contents /\ Distinct(c)
  BY DEF Good
<1>2. /\ d \in Contents /\ Distinct(d)
      /\ Holdings(d).titles = Holdings(c).titles
      /\ <<s, old>> \in Holdings(c).items
      /\ \A x : x \in Holdings(d).items <=>
            (x \in Holdings(c).items /\ x # <<s, old>>) \/ x = <<s, new>>
  BY <1>1, BuilderItem
<1>3. new.id = old.id
  OBVIOUS
<1> HIDE DEF d, new, old, s
<1>4. \A t : HasSection(c, t) => HasSection(d, t)
  BY <1>2, HasSectionHeld
<1>5. \A x \in Holdings(d).items : \E y \in Holdings(c).items : y[2].id = x[2].id
  BY <1>2, <1>3
<1>6. Whole(d)
  BY <1>4, <1>5, WholeStays DEF Good
<1>7. QED
  BY <1>2, <1>6 DEF Good, d

LEMMA GoodWithout ==
    ASSUME NEW c, Good(c), NEW i, Places(c, i) # {}
    PROVE  Good(Without(c, i))
<1> DEFINE d == Without(c, i)
<1>1. c \in Contents /\ Distinct(c)
  BY DEF Good
<1>2. /\ d \in Contents /\ Distinct(d)
      /\ Holdings(d).titles = Holdings(c).titles
      /\ \A x : x \in Holdings(d).items => x \in Holdings(c).items
  BY <1>1, WithoutStep
<1> HIDE DEF d
<1>3. \A s : HasSection(c, s) => HasSection(d, s)
  BY <1>2, HasSectionHeld
<1>4. \A x \in Holdings(d).items : \E y \in Holdings(c).items : y[2].id = x[2].id
  BY <1>2
<1>5. Whole(d)
  BY <1>3, <1>4, WholeStays DEF Good
<1>6. QED
  BY <1>2, <1>5 DEF Good, d

LEMMA GoodTitle ==
    ASSUME NEW c, Good(c), NEW p \in DOMAIN c.sections, NEW title \in Versions
    PROVE  Good([c EXCEPT !.sections[p].title = title])
<1> DEFINE d == [c EXCEPT !.sections[p].title = title]
           t == c.sections[p].id
<1>1. c \in Contents /\ Distinct(c)
  BY DEF Good
<1>2. /\ d \in Contents /\ Distinct(d)
      /\ \A x : x \in Holdings(d).titles <=>
            (x \in Holdings(c).titles /\ x[1] # t) \/ x = <<t, title>>
      /\ Holdings(d).items = Holdings(c).items
  BY <1>1, RenameStep
<1> HIDE DEF d, t
<1>3. ASSUME NEW s, HasSection(c, s)
      PROVE  HasSection(d, s)
  <2>1. PICK y \in Holdings(c).titles : y[1] = s
    BY <1>3, HasSectionHeld
  <2>2. <<t, title>> \in Holdings(d).titles
    BY <1>2
  <2>3. \E x \in Holdings(d).titles : x[1] = s
    BY <1>2, <2>1, <2>2
  <2>4. QED
    BY <2>3, HasSectionHeld
<1>4. \A x \in Holdings(d).items : \E y \in Holdings(c).items : y[2].id = x[2].id
  BY <1>2
<1>5. Whole(d)
  BY <1>3, <1>4, WholeStays DEF Good
<1>6. QED
  BY <1>2, <1>5 DEF Good, d

LEMMA GoodOriginal ==
    ASSUME proposal \in Proposals
    PROVE  Good(Original)
<1>1. Original \in Contents /\ Distinct(Original) /\ DOMAIN Original.sections = {1, 2}
  BY OriginalFacts
<1>2. \A s \in {1, 2} : HasSection(Original, s)
  BY <1>1, OriginalFacts DEF HasSection
<1>3. Whole(Original)
  <2> SUFFICES ASSUME NEW s \in Carried, ~HasSection(Original, s.id),
                      NEW k \in DOMAIN s.items, Places(Original, s.items[k].id) # {}
               PROVE  FALSE
    BY DEF Whole, Free
  <2>1. PICK n \in DOMAIN proposal : s.items = <<NewItem(n)>>
    BY <1>2, CarriedFacts
  <2>2. n \in {1, 2} /\ s.items[k] = NewItem(n)
    BY <2>1, ProposalForms
  <2>3. s.items[k].id \in NewItems
    BY <2>2, Items
  <2>4. PICK p \in {1, 2} : \E q \in DOMAIN Original.sections[p].items :
            Original.sections[p].items[q].id = s.items[k].id
    BY <1>1, InPlaces
  <2>5. PICK q \in DOMAIN Original.sections[p].items :
            Original.sections[p].items[q].id = s.items[k].id
    BY <2>4
  <2>6. PICK i \in OldItems : Original.sections[p].items[q] = Old(i)
    BY <2>5, OriginalFacts
  <2>7. s.items[k].id = i
    BY <2>5, <2>6, Items
  <2>8. QED
    BY <2>3, <2>7, Items
<1>4. QED
  BY <1>1, <1>3 DEF Good

LEMMA EditInvInit == EditInit => EditInv
<1> SUFFICES ASSUME EditInit
             PROVE  EditInv
  OBVIOUS
<1>1. proposal \in Proposals
  BY DEF EditInit
<1>2. Good(Original)
  BY <1>1, GoodOriginal
<1>3. Original \in Contents
  BY <1>2 DEF Good
<1>4. Unmarked \in Marks
  BY DEF Unmarked, Marks
<1>5. content \in Contents /\ copy \in [EditRequests -> Contents]
  BY <1>3 DEF EditInit
<1>6. changeset \in Marks /\ readMark \in [EditRequests -> Marks]
  BY <1>4 DEF EditInit
<1>7. editStep \in [EditRequests -> {"idle", "load", "save", "mark"}]
  BY DEF EditInit
<1>8. undoing \subseteq InFlight
  BY DEF EditInit
<1>9. selected \in [EditRequests -> SUBSET DOMAIN proposal]
  BY DEF EditInit
<1>10. {edits, builds, editFails} \subseteq Nat /\ overlapped \in BOOLEAN
  <2>1. edits = 0 /\ builds = 0 /\ editFails = 0 /\ overlapped = FALSE
    BY DEF EditInit
  <2>2. {edits, builds, editFails} \subseteq Nat
    BY <2>1
  <2>3. QED
    BY <2>1, <2>2
<1>11. ChangesTypeOK
  BY <1>1, <1>5, <1>6, <1>7, <1>8, <1>9, <1>10 DEF ChangesTypeOK
<1>12. QED
  BY <1>2, <1>11 DEF EditInit, EditInv

LEMMA AnsweredKeeps ==
    ASSUME EditInv, NEW r \in EditRequests, Answered(r), UNCHANGED proposal
    PROVE  /\ editStep' \in [EditRequests -> {"idle", "load", "save", "mark"}]
           /\ undoing' \subseteq InFlight'
           /\ selected' \in [EditRequests -> SUBSET DOMAIN proposal']
           /\ readMark' \in [EditRequests -> Marks']
           /\ copy' \in [EditRequests -> Contents]
           /\ \A x \in EditRequests : copy'[x] = IF x = r THEN Original ELSE copy[x]
<1>1. Original \in Contents
  BY OriginalFacts
<1>2. Unmarked \in Marks
  BY DEF Unmarked, Marks
<1>3. QED
  BY <1>1, <1>2 DEF EditInv, ChangesTypeOK, Answered, EditGoto, InFlight, Marks

LEMMA EditInvNext == EditInv /\ [EditNext]_editVars => EditInv'
<1> SUFFICES ASSUME EditInv, [EditNext]_editVars
             PROVE  EditInv'
  OBVIOUS
<1> USE DEF boundsOnEdits
<1>1. ChangesTypeOK /\ proposal \in Proposals
  BY DEF EditInv, ChangesTypeOK
<1>2. UNCHANGED proposal
  BY DEF EditNext, BeginApply, BeginUndo, BeginEdit, LoadTarget, Save, UpdateChangeset,
         EditFails, BuilderEdits, BuilderRemoves, BuilderRenames, BuilderWrites, editVars
<1>3. \A c : Good(c) => (Good(c))'
  BY <1>2 DEF Good, Whole, Carried, Free
<1>4. ASSUME NEW r \in EditRequests, NEW changes \in SUBSET DOMAIN proposal,
             BeginEdit(r, changes), undoing' \in {undoing, undoing \cup {r}}
      PROVE  EditInv'
  <2>1. ChangesTypeOK'
    <3>1. undoing' \subseteq InFlight'
      BY <1>1, <1>4 DEF ChangesTypeOK, BeginEdit, EditGoto, InFlight
    <3>2. QED
      BY <1>1, <1>4, <3>1 DEF ChangesTypeOK, BeginEdit, EditGoto, Marks
  <2>2. UNCHANGED <<content, copy>>
    BY <1>4 DEF BeginEdit
  <2>3. QED
    BY <2>1, <2>2, <1>3 DEF EditInv
<1>5. ASSUME NEW r \in EditRequests, BeginApply(r)
      PROVE  EditInv'
  <2>1. PICK changes \in SUBSET (DOMAIN proposal) : BeginEdit(r, changes)
    BY <1>5 DEF BeginApply
  <2>2. QED
    BY <1>4, <1>5, <2>1 DEF BeginApply
<1>6. ASSUME NEW r \in EditRequests, BeginUndo(r)
      PROVE  EditInv'
  <2>1. changeset.applied \in SUBSET DOMAIN proposal
    BY <1>1 DEF ChangesTypeOK, Marks
  <2>2. QED
    BY <1>4, <1>6, <2>1 DEF BeginUndo
<1>7. ASSUME NEW r \in EditRequests, LoadTarget(r)
      PROVE  EditInv'
  <2>1. ChangesTypeOK'
    BY <1>1, <1>7 DEF ChangesTypeOK, LoadTarget, EditGoto, InFlight, Marks
  <2>2. content' = content
    BY <1>7 DEF LoadTarget
  <2>3. \A x \in EditRequests : copy'[x] = IF x = r THEN content ELSE copy[x]
    BY <1>1, <1>7 DEF LoadTarget, ChangesTypeOK
  <2>4. QED
    BY <2>1, <2>2, <2>3, <1>3 DEF EditInv
<1>8. Good(Original)
  BY <1>1, GoodOriginal
<1>9. ASSUME NEW r \in EditRequests, Answered(r), Good(content'), changeset' \in Marks,
             {edits', builds', editFails'} \subseteq Nat, overlapped' \in BOOLEAN
      PROVE  EditInv'
  <2>1. /\ editStep' \in [EditRequests -> {"idle", "load", "save", "mark"}]
        /\ undoing' \subseteq InFlight'
        /\ selected' \in [EditRequests -> SUBSET DOMAIN proposal']
        /\ readMark' \in [EditRequests -> Marks']
        /\ copy' \in [EditRequests -> Contents]
        /\ \A x \in EditRequests : copy'[x] = IF x = r THEN Original ELSE copy[x]
    BY <1>2, <1>9, AnsweredKeeps
  <2>2. content' \in Contents
    BY <1>9 DEF Good
  <2>3. changeset' \in Marks'
    BY <1>2, <1>9 DEF Marks
  <2>4. ChangesTypeOK'
    BY <1>1, <1>2, <1>9, <2>1, <2>2, <2>3 DEF ChangesTypeOK
  <2>5. \A x \in EditRequests : Good(copy'[x])
    BY <1>8, <2>1 DEF EditInv
  <2>6. QED
    BY <1>3, <1>9, <2>4, <2>5 DEF EditInv
<1>10. ASSUME NEW r \in EditRequests, Save(r)
       PROVE  EditInv'
  <2>1. CASE Result(r).applied = {}
    <3>1. Answered(r) /\ UNCHANGED <<content, changeset, edits, builds, editFails, overlapped>>
      BY <1>10, <2>1 DEF Save
    <3>2. QED
      BY <1>1, <1>9, <3>1 DEF EditInv, ChangesTypeOK
  <2>2. CASE Result(r).applied # {}
    <3>1. /\ content' = Written(r) /\ EditGoto(r, "mark")
          /\ UNCHANGED <<undoing, selected, readMark, copy, changeset, edits, builds,
                         editFails, overlapped>>
      BY <1>10, <2>2 DEF Save
    <3>2. Good(Written(r))
      BY ResultGood
    <3>3. content' \in Contents
      BY <3>1, <3>2 DEF Good
    <3>4. undoing' \subseteq InFlight'
      BY <1>1, <3>1 DEF ChangesTypeOK, EditGoto, InFlight
    <3>5. ChangesTypeOK'
      BY <1>1, <1>2, <3>1, <3>3, <3>4 DEF ChangesTypeOK, EditGoto, Marks
    <3>6. Good(content')
      BY <3>1, <3>2
    <3>7. \A x \in EditRequests : Good(copy'[x])
      BY <3>1 DEF EditInv
    <3>8. QED
      BY <1>3, <3>5, <3>6, <3>7 DEF EditInv
  <2>3. QED
    BY <2>1, <2>2
<1>11. ASSUME NEW r \in EditRequests, UpdateChangeset(r)
       PROVE  EditInv'
  <2>1. changeset' \in Marks
    <3>1. Result(r).applied \subseteq DOMAIN proposal
      BY ResultGood
    <3>2. readMark[r] \in Marks
      BY <1>1 DEF ChangesTypeOK
    <3>3. QED
      BY <1>11, <3>1, <3>2 DEF UpdateChangeset, Marked, Marks
  <2>2. Answered(r) /\ UNCHANGED <<content, edits, builds, editFails, overlapped>>
    BY <1>11 DEF UpdateChangeset
  <2>3. QED
    BY <1>1, <1>9, <2>1, <2>2 DEF EditInv, ChangesTypeOK
<1>12. ASSUME NEW r \in EditRequests, EditFails(r)
       PROVE  EditInv'
  <2>1. /\ Answered(r) /\ UNCHANGED <<content, changeset, edits, builds, overlapped>>
        /\ editFails' = editFails + 1
    BY <1>12 DEF EditFails
  <2>2. QED
    BY <1>1, <1>9, <2>1 DEF EditInv, ChangesTypeOK
<1>13. ASSUME NEW c, BuilderWrites(c), Good(c)
       PROVE  EditInv'
  <2>1. /\ builds' = builds + 1 /\ content' = c
        /\ UNCHANGED <<proposal, changeset, editStep, undoing, selected, readMark, copy, edits,
                       editFails, overlapped>>
    BY <1>13 DEF BuilderWrites
  <2>2. c \in Contents
    BY <1>13 DEF Good
  <2>3. ChangesTypeOK'
    BY <1>1, <2>1, <2>2 DEF ChangesTypeOK, InFlight, Marks
  <2>4. QED
    BY <1>3, <1>13, <2>1, <2>3 DEF EditInv
<1>14. content \in Contents /\ Distinct(content) /\ Whole(content)
  BY DEF EditInv, Good
<1>15. ASSUME BuilderEdits
       PROVE  EditInv'
  <2>1. PICK p \in DOMAIN content.sections : \E q \in DOMAIN content.sections[p].items :
            BuilderWrites([content EXCEPT !.sections[p].items[q].version = "builder"])
    BY <1>15 DEF BuilderEdits
  <2>2. PICK q \in DOMAIN content.sections[p].items :
            BuilderWrites([content EXCEPT !.sections[p].items[q].version = "builder"])
    BY <2>1
  <2>3. Good([content EXCEPT !.sections[p].items[q].version = "builder"])
    BY <1>14, BuilderEditStep DEF EditInv
  <2>4. QED
    BY <1>13, <2>2, <2>3
<1>16. ASSUME BuilderRemoves
       PROVE  EditInv'
  <2>1. PICK p \in DOMAIN content.sections : \E q \in DOMAIN content.sections[p].items :
            BuilderWrites(Without(content, content.sections[p].items[q].id))
    BY <1>16 DEF BuilderRemoves
  <2>2. PICK q \in DOMAIN content.sections[p].items :
            BuilderWrites(Without(content, content.sections[p].items[q].id))
    BY <2>1
  <2>3. Places(content, content.sections[p].items[q].id) # {}
    <3>1. <<p, q>> \in Places(content, content.sections[p].items[q].id)
      BY InPlaces
    <3>2. QED
      BY <3>1
  <2>4. Good(Without(content, content.sections[p].items[q].id))
    BY <2>3, GoodWithout DEF EditInv
  <2>5. QED
    BY <1>13, <2>2, <2>4
<1>17. ASSUME BuilderRenames
       PROVE  EditInv'
  <2>1. PICK p \in DOMAIN content.sections :
            BuilderWrites([content EXCEPT !.sections[p].title = "builder"])
    BY <1>17 DEF BuilderRenames
  <2>2. Good([content EXCEPT !.sections[p].title = "builder"])
    BY GoodTitle DEF EditInv, Versions
  <2>3. QED
    BY <1>13, <2>1, <2>2
<1>18. CASE UNCHANGED editVars
  <2>1. ChangesTypeOK'
    BY <1>1, <1>18 DEF ChangesTypeOK, editVars, InFlight, Marks
  <2>2. UNCHANGED <<content, copy>>
    BY <1>18 DEF editVars
  <2>3. QED
    BY <1>3, <2>1, <2>2 DEF EditInv
<1>19. QED
  BY <1>5, <1>6, <1>7, <1>10, <1>11, <1>12, <1>15, <1>16, <1>17, <1>18 DEF EditNext

LEMMA EditInvHolds == EditSpec => []EditInv
<1>1. QED
  BY EditInvInit, EditInvNext, PTL DEF EditSpec

\* The variables have their types: a request is about changes of the proposal, and what the
\* requests write is an exam of the builder's form (ContentEditService.save).
THEOREM ChangesTyped == EditSpec => []ChangesTypeOK
<1>1. EditInv => ChangesTypeOK
  BY DEF EditInv
<1>2. QED
  BY <1>1, EditInvHolds, PTL

\* No section and no item is twice in the exam, whatever is applied, undone and applied again,
\* by requests that overlap, and however the builder is used meanwhile (applyChange).
THEOREM NothingTwice == EditSpec => []NoneTwice
<1>1. EditInv => NoneTwice
  BY DEF EditInv, Good, NoneTwice
<1>2. QED
  BY <1>1, EditInvHolds, PTL

-------------------------------------------------------------------------------
(* What the builder has made of an item.                                   *)

\* A change or an inverse is of the original's items and the AI's, never of the builder's.
NotBuilt(ch) ==
    /\ IsEdit(ch) \/ IsRemove(ch) => ch.item.version # "builder"
    /\ IsRemoveSection(ch) =>
          \A k \in DOMAIN ch.section.items : ch.section.items[k].version # "builder"

LEMMA EditedHeld ==
    ASSUME NEW c, NEW i
    PROVE  i \in EditedItems(c) <=>
               \E x \in Holdings(c).items : x[2].id = i /\ x[2].version = "builder"
<1>1. i \in EditedItems(c) <=>
          \E p \in DOMAIN c.sections : \E q \in DOMAIN c.sections[p].items :
              /\ c.sections[p].items[q].id = i
              /\ c.sections[p].items[q].version = "builder"
  BY DEF EditedItems, Edits!ToSet
<1>2. ASSUME NEW p \in DOMAIN c.sections, NEW q \in DOMAIN c.sections[p].items,
             c.sections[p].items[q].id = i, c.sections[p].items[q].version = "builder"
      PROVE  \E x \in Holdings(c).items : x[2].id = i /\ x[2].version = "builder"
  <2>1. <<c.sections[p].id, c.sections[p].items[q]>> \in Holdings(c).items
    BY HoldsItem
  <2>2. QED
    BY <1>2, <2>1
<1>3. ASSUME NEW x \in Holdings(c).items, x[2].id = i, x[2].version = "builder"
      PROVE  \E p \in DOMAIN c.sections : \E q \in DOMAIN c.sections[p].items :
                 /\ c.sections[p].items[q].id = i
                 /\ c.sections[p].items[q].version = "builder"
  BY <1>3, HoldsItem
<1>4. QED
  BY <1>1, <1>2, <1>3

LEMMA ChangesNotBuilt ==
    ASSUME proposal \in Proposals, NEW n \in DOMAIN proposal,
           NEW ch \in {proposal[n], InvertChange(proposal[n])}
    PROVE  IsChange(ch) /\ NotBuilt(ch) /\ (IsAddSection(ch) => ch.section \in Carried)
<1> DEFINE a == proposal[n]
           b == InvertChange(a)
<1>0. n \in {1, 2} /\ Form(a, n)
  BY ProposalForms
<1>1. ASSUME NEW i \in OldItems, EditForm(a, n, i)
      PROVE  IsChange(ch) /\ NotBuilt(ch) /\ ~IsAddSection(ch)
  <2>1. IsEdit(a) /\ IsEdit(b) /\ b.item = a.after
    BY <1>0, <1>1, Inverses
  <2>2. a.item.version = "original" /\ a.after.version = "ai"
    BY <1>1 DEF EditForm, Old
  <2>3. ch.item.version # "builder" /\ IsEdit(ch)
    BY <2>1, <2>2
  <2>4. QED
    BY <2>3 DEF IsChange, NotBuilt, IsEdit, IsRemoveSection, IsAddSection
<1>2. ASSUME NEW i \in OldItems, RemoveForm(a, n, i)
      PROVE  IsChange(ch) /\ NotBuilt(ch) /\ ~IsAddSection(ch)
  <2>1. IsRemove(a) /\ IsAdd(b) /\ a.item = Old(i)
    BY <1>0, <1>2, Inverses
  <2>2. a.item.version # "builder"
    BY <2>1, Items
  <2>3. QED
    BY <2>1, <2>2 DEF IsChange, NotBuilt, IsEdit, IsRemove, IsAdd, IsRemoveSection,
                      IsAddSection
<1>3. ASSUME NEW i \in OldItems, NEW to \in Sites, MoveForm(a, n, i, to)
      PROVE  IsChange(ch) /\ NotBuilt(ch) /\ ~IsAddSection(ch)
  <2>1. IsMove(ch)
    BY <1>0, <1>3, Inverses
  <2>2. QED
    BY <2>1 DEF IsChange, NotBuilt, IsEdit, IsRemove, IsMove, IsRemoveSection, IsAddSection
<1>4. ASSUME NEW to \in Sites, AddForm(a, n, to)
      PROVE  IsChange(ch) /\ NotBuilt(ch) /\ ~IsAddSection(ch)
  <2>1. IsAdd(a) /\ IsRemove(b) /\ b.item = NewItem(n)
    BY <1>0, <1>4, Inverses
  <2>2. b.item.version # "builder"
    BY <1>0, <2>1, Items
  <2>3. QED
    BY <2>1, <2>2 DEF IsChange, NotBuilt, IsEdit, IsRemove, IsAdd, IsRemoveSection,
                      IsAddSection
<1>5. ASSUME a.kind \in {"add_section", "remove_section"},
             \A k \in DOMAIN a.section.items : a.section.items[k].version # "builder",
             b.section = a.section,
             \/ IsAddSection(a) /\ IsRemoveSection(b)
             \/ IsRemoveSection(a) /\ IsAddSection(b)
      PROVE  IsChange(ch) /\ NotBuilt(ch) /\ (IsAddSection(ch) => ch.section \in Carried)
  <2>1. a.section \in Carried
    BY <1>5 DEF Carried
  <2>2. ch.section = a.section /\ (IsAddSection(ch) \/ IsRemoveSection(ch))
    BY <1>5
  <2>3. QED
    BY <1>5, <2>1, <2>2 DEF IsChange, NotBuilt, IsEdit, IsRemove, IsRemoveSection,
                            IsAddSection
<1>6. ASSUME NEW index \in Positions, AddSectionForm(a, n, index)
      PROVE  IsChange(ch) /\ NotBuilt(ch) /\ (IsAddSection(ch) => ch.section \in Carried)
  <2>1. IsAddSection(a) /\ IsRemoveSection(b) /\ b.section = a.section
    BY <1>0, <1>6, Inverses
  <2>2. a.kind = "add_section" /\ a.section.items = <<NewItem(n)>>
    BY <1>6 DEF AddSectionForm
  <2>3. NewItem(n).version # "builder"
    BY <1>0, Items
  <2>4. \A k \in DOMAIN a.section.items : a.section.items[k].version # "builder"
    BY <2>2, <2>3
  <2>5. QED
    BY <1>5, <2>1, <2>2, <2>4
<1>7. ASSUME NEW s \in {1, 2}, RemoveSectionForm(a, n, s)
      PROVE  IsChange(ch) /\ NotBuilt(ch) /\ (IsAddSection(ch) => ch.section \in Carried)
  <2>1. /\ IsRemoveSection(a) /\ IsAddSection(b) /\ a.section = Original.sections[s]
        /\ b.section = a.section
    BY <1>0, <1>7, Inverses
  <2>2. a.kind = "remove_section"
    BY <1>7 DEF RemoveSectionForm
  <2>3. \A k \in DOMAIN a.section.items : \E i \in OldItems : a.section.items[k] = Old(i)
    BY <2>1, OriginalFacts
  <2>4. \A k \in DOMAIN a.section.items : a.section.items[k].version # "builder"
    BY <2>3, Items
  <2>5. QED
    BY <1>5, <2>1, <2>2, <2>4
<1>8. ASSUME NEW s \in {1, 2}, RenameForm(a, n, s)
      PROVE  IsChange(ch) /\ NotBuilt(ch) /\ ~IsAddSection(ch)
  <2>1. IsRename(ch)
    BY <1>0, <1>8, Inverses
  <2>2. QED
    BY <2>1 DEF IsChange, NotBuilt, IsEdit, IsRemove, IsRename, IsRemoveSection, IsAddSection
<1>9. ASSUME DetailsForm(a, n)
      PROVE  IsChange(ch) /\ NotBuilt(ch) /\ ~IsAddSection(ch)
  <2>1. IsDetails(ch)
    BY <1>0, <1>9, Inverses
  <2>2. QED
    BY <2>1 DEF IsChange, NotBuilt, IsEdit, IsRemove, IsDetails, IsRemoveSection,
                IsAddSection
<1>10. QED
  BY <1>0, <1>1, <1>2, <1>3, <1>4, <1>6, <1>7, <1>8, <1>9 DEF Form

\* A change that applies leaves every item of the builder's where it is, or moves it.
LEMMA EditedKept ==
    ASSUME NEW c, Good(c), NEW ch, IsChange(ch), NotBuilt(ch),
           IsAddSection(ch) => ch.section \in Carried, CanApply(c, ch)
    PROVE  EditedItems(c) \subseteq EditedItems(ApplyChange(c, ch))
<1> DEFINE d == ApplyChange(c, ch)
<1> SUFFICES ASSUME NEW x \in Holdings(c).items, x[2].version = "builder"
             PROVE  \E z \in Holdings(d).items : z[2] = x[2]
  <2>1. ASSUME NEW i \in EditedItems(c)
        PROVE  i \in EditedItems(d)
    <3>1. PICK x \in Holdings(c).items : x[2].id = i /\ x[2].version = "builder"
      BY EditedHeld
    <3>2. PICK y \in Holdings(d).items : y[2] = x[2]
      BY <3>1
    <3>3. \E z \in Holdings(d).items : z[2].id = i /\ z[2].version = "builder"
      BY <3>1, <3>2
    <3> HIDE DEF d
    <3>4. QED
      BY <3>3, EditedHeld
  <2>2. QED
    BY <2>1
<1>1. c \in Contents /\ Distinct(c) /\ Whole(c)
  BY DEF Good
<1>2. CASE IsEdit(ch)
  <2>1. PICK s \in SectionIds :
            /\ <<s, ch.item>> \in Holdings(c).items
            /\ \A y : y \in Holdings(d).items <=>
                  (y \in Holdings(c).items /\ y # <<s, ch.item>>) \/ y = <<s, ch.after>>
    BY <1>1, <1>2, EditApplies
  <2>2. x # <<s, ch.item>>
    BY <1>2 DEF NotBuilt
  <2>3. QED
    BY <2>1, <2>2
<1>3. CASE IsRemove(ch)
  <2>1. PICK s \in SectionIds :
            /\ <<s, ch.item>> \in Holdings(c).items
            /\ \A y : y \in Holdings(d).items <=>
                  y \in Holdings(c).items /\ y # <<s, ch.item>>
    BY <1>1, <1>3, RemoveApplies
  <2>2. x # <<s, ch.item>>
    BY <1>3 DEF NotBuilt
  <2>3. QED
    BY <2>1, <2>2
<1>4. CASE IsAdd(ch)
  <2>1. \A y : y \in Holdings(d).items <=>
            y \in Holdings(c).items \/ y = <<ch.section, ch.item>>
    BY <1>1, <1>4, AddApplies
  <2>2. QED
    BY <2>1
<1>5. CASE IsMove(ch)
  <2>a. PICK s \in SectionIds : \E it \in ExamItems :
            /\ it.id = ch.item.id /\ <<s, it>> \in Holdings(c).items
            /\ \A y : y \in Holdings(d).items <=>
                  (y \in Holdings(c).items /\ y # <<s, it>>) \/ y = <<ch.to.section, it>>
    BY <1>1, <1>5, MoveApplies
  <2>1. PICK it \in ExamItems :
            /\ it.id = ch.item.id /\ <<s, it>> \in Holdings(c).items
            /\ \A y : y \in Holdings(d).items <=>
                  (y \in Holdings(c).items /\ y # <<s, it>>) \/ y = <<ch.to.section, it>>
    BY <2>a
  <2>2. CASE x = <<s, it>>
    <3>1. <<ch.to.section, it>> \in Holdings(d).items
      BY <2>1
    <3>2. x[2] = it
      BY <2>2
    <3>3. QED
      BY <3>1, <3>2
  <2>3. CASE x # <<s, it>>
    BY <2>1, <2>3
  <2>4. QED
    BY <2>2, <2>3
<1>6. CASE IsAddSection(ch)
  <2>1. ~HasSection(c, ch.section.id)
    BY <1>6 DEF CanApply, IsAddSection
  <2>2. Free(c, ch.section)
    BY <1>1, <1>6, <2>1 DEF Whole
  <2>3. \A y : y \in Holdings(c).items => y \in Holdings(d).items
    BY <1>1, <1>6, <2>2, AddSectionApplies
  <2>4. QED
    BY <2>3
<1>7. CASE IsRemoveSection(ch)
  <2>1. /\ \A y : y \in Holdings(d).items <=>
              y \in Holdings(c).items /\ y[1] # ch.section.id
        /\ \A y : y \in Holdings(c).items /\ y[1] = ch.section.id <=>
              \E k \in DOMAIN ch.section.items : y = <<ch.section.id, ch.section.items[k]>>
    BY <1>1, <1>7, RemoveSectionApplies
  <2>2. ASSUME x[1] = ch.section.id
        PROVE  FALSE
    <3>1. PICK k \in DOMAIN ch.section.items : x = <<ch.section.id, ch.section.items[k]>>
      BY <2>1, <2>2
    <3>2. x[2] = ch.section.items[k]
      BY <3>1
    <3>3. QED
      BY <1>7, <3>2 DEF NotBuilt
  <2>3. QED
    BY <2>1, <2>2
<1>8. CASE IsRename(ch)
  <2>1. Holdings(d).items = Holdings(c).items
    BY <1>1, <1>8, RenameApplies
  <2>2. QED
    BY <2>1
<1>9. CASE IsDetails(ch)
  <2>1. Holdings(d).items = Holdings(c).items
    BY <1>1, <1>9, DetailsApplies
  <2>2. QED
    BY <2>1
<1>10. QED
  BY <1>2, <1>3, <1>4, <1>5, <1>6, <1>7, <1>8, <1>9 DEF IsChange

LEMMA AttemptKeepsEdited ==
    ASSUME proposal \in Proposals, NEW n \in DOMAIN proposal,
           NEW ch \in {proposal[n], InvertChange(proposal[n])},
           NEW done, Good(done.content), NEW chosen
    PROVE  /\ EditedItems(done.content)
                  \subseteq EditedItems(Attempt(done, chosen, ch).content)
           /\ Good(Attempt(done, chosen, ch).content)
<1>1. CASE ch.id \in chosen /\ CanApply(done.content, ch)
  <2>1. EditedItems(done.content) \subseteq EditedItems(ApplyChange(done.content, ch))
    BY <1>1, ChangesNotBuilt, EditedKept
  <2>2. Good(ApplyChange(done.content, ch))
    BY <1>1, GoodStep
  <2>3. Attempt(done, chosen, ch).content = ApplyChange(done.content, ch)
    BY <1>1 DEF Attempt
  <2>4. QED
    BY <2>1, <2>2, <2>3
<1>2. CASE ~(ch.id \in chosen /\ CanApply(done.content, ch))
  BY <1>2 DEF Attempt
<1>3. QED
  BY <1>1, <1>2

LEMMA ResultKeepsEdited ==
    ASSUME EditInv, NEW r \in EditRequests
    PROVE  EditedItems(copy[r]) \subseteq EditedItems(Result(r).content)
<1> DEFINE c == copy[r]
           chosen == selected[r]
           none == [content |-> c, applied |-> {}]
           first == Attempt(none, chosen, proposal[1])
           last == Attempt(none, chosen, InvertChange(proposal[2]))
<1>1. proposal \in Proposals /\ Good(c)
  BY DEF EditInv, ChangesTypeOK
<1>2. /\ 1 \in DOMAIN proposal /\ Len(proposal) \in {1, 2}
      /\ Len(proposal) # 1 => 2 \in DOMAIN proposal
  BY <1>1, ProposalForms
<1>3. Good(none.content) /\ none.content = c
  BY <1>1
<1> HIDE DEF none
<1>4. EditedItems(c) \subseteq EditedItems(first.content) /\ Good(first.content)
  BY <1>1, <1>2, <1>3, AttemptKeepsEdited
<1>5. Len(proposal) # 1 =>
          EditedItems(c) \subseteq EditedItems(last.content) /\ Good(last.content)
  BY <1>1, <1>2, <1>3, AttemptKeepsEdited
<1> HIDE DEF first, last
<1>6. EditedItems(c) \subseteq EditedItems(ApplyChanges(c, chosen).content)
  <2>1. CASE Len(proposal) = 1
    BY <1>4, <2>1 DEF ApplyChanges, first, none
  <2>2. CASE Len(proposal) # 1
    <3>1. ApplyChanges(c, chosen) = Attempt(first, chosen, proposal[2])
      BY <2>2 DEF ApplyChanges, first, none
    <3>2. EditedItems(first.content) \subseteq EditedItems(ApplyChanges(c, chosen).content)
      BY <1>1, <1>2, <1>4, <2>2, <3>1, AttemptKeepsEdited
    <3>3. QED
      BY <1>4, <3>2
  <2>3. QED
    BY <2>1, <2>2
<1>7. EditedItems(c) \subseteq EditedItems(UndoChanges(c, chosen).content)
  <2>1. CASE Len(proposal) = 1
    <3>1. UndoChanges(c, chosen) = Attempt(none, chosen, InvertChange(proposal[1]))
      BY <2>1 DEF UndoChanges, none
    <3>2. QED
      BY <1>1, <1>2, <1>3, <3>1, AttemptKeepsEdited
  <2>2. CASE Len(proposal) # 1
    <3>1. UndoChanges(c, chosen) = Attempt(last, chosen, InvertChange(proposal[1]))
      BY <2>2 DEF UndoChanges, last, none
    <3>2. EditedItems(last.content) \subseteq EditedItems(UndoChanges(c, chosen).content)
      BY <1>1, <1>2, <1>5, <2>2, <3>1, AttemptKeepsEdited
    <3>3. QED
      BY <1>5, <2>2, <3>2
  <2>3. QED
    BY <2>1, <2>2
<1>8. QED
  BY <1>6, <1>7 DEF Result

\* What a step does to the items the builder has edited, unless it is the builder's.
EditedStep ==
    builds' = builds =>
        \A i \in EditedItems(content) \ EditedItems(content') :
            \E r \in EditRequests : editStep[r] = "save" /\ i \notin EditedItems(copy[r])

LEMMA EditedStepHolds == EditInv /\ [EditNext]_editVars => EditedStep
<1> SUFFICES ASSUME EditInv, [EditNext]_editVars
             PROVE  EditedStep
  OBVIOUS
<1> USE DEF boundsOnEdits
<1>1. CASE content' = content
  BY <1>1 DEF EditedStep
<1>2. ASSUME NEW c, BuilderWrites(c)
      PROVE  EditedStep
  <2>1. builds' = builds + 1 /\ builds \in Nat
    BY <1>2 DEF BuilderWrites, EditInv, ChangesTypeOK
  <2>2. QED
    BY <2>1 DEF EditedStep
<1>3. ASSUME NEW r \in EditRequests, Save(r), content' # content
      PROVE  EditedStep
  <2>1. editStep[r] = "save" /\ content' = Written(r)
    BY <1>3 DEF Save
  <2>2. content'.sections = Result(r).content.sections
    <3>1. Good(Result(r).content)
      BY ResultGood
    <3>2. Result(r).content \in Contents
      BY <3>1 DEF Good
    <3>3. QED
      BY <2>1, <3>2 DEF Written, Contents
  <2>3. EditedItems(content') = EditedItems(Result(r).content)
    BY <2>2 DEF EditedItems
  <2>4. EditedItems(copy[r]) \subseteq EditedItems(content')
    BY <2>3, ResultKeepsEdited
  <2>5. QED
    BY <2>1, <2>4 DEF EditedStep
<1>4. \/ \E r \in EditRequests : Save(r)
      \/ \E c : BuilderWrites(c)
      \/ content' = content
  <2>1. CASE BuilderEdits
    BY <2>1 DEF BuilderEdits
  <2>2. CASE BuilderRemoves
    BY <2>2 DEF BuilderRemoves
  <2>3. CASE BuilderRenames
    BY <2>3 DEF BuilderRenames
  <2>4. QED
    BY <2>1, <2>2, <2>3 DEF EditNext, BeginApply, BeginUndo, BeginEdit, LoadTarget,
                            UpdateChangeset, EditFails, editVars
<1>5. QED
  BY <1>1, <1>2, <1>3, <1>4

\* What the builder has made of an item stays until a request saves a copy it loaded before:
\* applyChange skips an item that is not as it was proposed, and so does a removed section
\* with such an item; a move takes the item as it is.
THEOREM BuilderEditsKept == EditSpec => BuilderEditsStay
<1>1. EditInv /\ [EditNext]_editVars => EditedStep
  BY EditedStepHolds
<1>2. EditSpec => [][EditedStep]_editVars
  BY <1>1, EditInvHolds, PTL DEF EditSpec
<1>3. [][EditedStep]_editVars => BuilderEditsStay
  BY DEF EditedStep, BuilderEditsStay
<1>4. QED
  BY <1>2, <1>3, PTL

=============================================================================
