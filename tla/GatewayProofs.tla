---------------------------- MODULE GatewayProofs ----------------------------
(***************************************************************************)
(* Proofs about the proctoring gateways: who stays when a student's        *)
(* devices connect, what becomes of the violations when the Go gateway     *)
(* stops, when a session ends for its tab switches, and how absences are   *)
(* recorded; for any number of sockets, handlers and workers.              *)
(***************************************************************************)
EXTENDS Takeover, ViolationQueue, Violations, Presence, FiniteSetTheorems, TLAPS

USE TakeoverAssumption

-------------------------------------------------------------------------------
(* Takeover: type correctness.                                             *)

LEMMA TakeoverTypeInit == TakeoverInit => TakeoverTypeOK
BY DEF TakeoverInit, TakeoverTypeOK

LEMMA TakeoverTypeStep ==
    TakeoverTypeOK /\ [TakeoverNext]_takeoverVars => TakeoverTypeOK'
<1> SUFFICES ASSUME TakeoverTypeOK, [TakeoverNext]_takeoverVars PROVE TakeoverTypeOK'
  OBVIOUS
<1> USE DEF TakeoverTypeOK
<1>1. ASSUME NEW s \in Sockets, Connect(s) PROVE TakeoverTypeOK'
  BY <1>1 DEF Connect
<1>2. ASSUME NEW s \in Sockets, Disconnect(s) PROVE TakeoverTypeOK'
  BY <1>2 DEF Disconnect, Up
<1>3. ASSUME NEW s \in Sockets, NEW p \in Sockets, AnswerLookup(s, p) PROVE TakeoverTypeOK'
  BY <1>3 DEF AnswerLookup
<1>4. ASSUME NEW s \in Sockets, KickPeers(s) PROVE TakeoverTypeOK'
  BY <1>4 DEF KickPeers, Kick, Up
<1>5. ASSUME NEW s \in Sockets, LateKick(s) PROVE TakeoverTypeOK'
  BY <1>5 DEF LateKick, Kick, Up
<1>6. ASSUME NEW s \in Sockets, JoinRoom(s) PROVE TakeoverTypeOK'
  BY <1>6 DEF JoinRoom, Up
<1>7. ASSUME NEW s \in Sockets, LookupFails(s) PROVE TakeoverTypeOK'
  BY <1>7 DEF LookupFails
<1>8. ASSUME NEW s \in Sockets, LookupTimesOut(s) PROVE TakeoverTypeOK'
  BY <1>8 DEF LookupTimesOut
<1>9. CASE UNCHANGED takeoverVars
  BY <1>9 DEF takeoverVars
<1>10. QED
  BY <1>1, <1>2, <1>3, <1>4, <1>5, <1>6, <1>7, <1>8, <1>9 DEF TakeoverNext, JoinStep

\* Every variable of Takeover keeps its type.
THEOREM TakeoverTypeCorrect == TakeoverSpec => []TakeoverTypeOK
<1>1. QED
  BY TakeoverTypeInit, TakeoverTypeStep, PTL DEF TakeoverSpec

-------------------------------------------------------------------------------
(* Who is kicked, and by whom.                                             *)

LEMMA TakeoverInvInit == TakeoverInit => TakeoverInv
BY DEF TakeoverInit, TakeoverInv, Up

\* Both ways of kicking.
LEMMA KickKeeps ==
    ASSUME TakeoverTypeOK, TakeoverInv, NEW s \in Sockets, Kick(s),
           UNCHANGED <<asked, found, before, unreliable>>,
           late' \subseteq late,
           join' \in {join, [join EXCEPT ![s] = "join"]},
           join' # join => join[s] = "lookup",
           s \notin unreliable => join[s] = "lookup"
    PROVE  TakeoverInv'
<1> DEFINE peers == found[s] \cap Up
<1>1. /\ socket' = [p \in Sockets |-> IF p \in peers THEN "closed" ELSE socket[p]]
      /\ kicker' = [p \in Sockets |-> IF p \in peers THEN s ELSE kicker[p]]
      /\ room' = room \ peers
      /\ asked[s] = Sockets \ {s}
  BY DEF Kick
<1>2. peers \subseteq Up /\ \A p \in peers : join[p] = "done" /\ p # s
  BY DEF TakeoverInv, TakeoverTypeOK
<1>3. room' \subseteq Up'
  BY <1>1, <1>2 DEF TakeoverInv, TakeoverTypeOK, Up
<1>4. \A p \in Sockets : join[p] = "done" => join'[p] = "done"
  BY DEF TakeoverTypeOK
<1>5. late' \subseteq unreliable'
  BY DEF TakeoverInv
<1>6. s \notin unreliable => before[s] \cap room' = {}
  BY <1>1 DEF TakeoverInv, TakeoverTypeOK, Up
<1>7. SUFFICES ASSUME NEW t \in Sockets
      PROVE /\ \A p \in room' \cup before'[t] \cup found'[t] : join'[p] = "done"
            /\ found'[t] \subseteq asked'[t] /\ t \notin asked'[t] /\ t \notin before'[t]
            /\ join'[t] = "none" <=> socket'[t] = "new"
            /\ t \in late' => join'[t] \in {"join", "done"}
            /\ join'[t] = "none" => asked'[t] = {} /\ before'[t] = {}
            /\ kicker'[t] # Unkicked => join'[t] = "done" /\ socket'[t] = "closed"
            /\ t \notin unreliable' =>
                /\ join'[t] = "lookup" =>
                      before'[t] \cap asked'[t] \cap room' \subseteq found'[t]
                /\ join'[t] \in {"join", "done"} => before'[t] \cap room' = {}
  BY <1>3, <1>5, <1>7 DEF TakeoverInv
<1>8. \A p \in room' \cup before'[t] \cup found'[t] : join'[p] = "done"
  BY <1>1, <1>4 DEF TakeoverInv, TakeoverTypeOK
<1>9. /\ found'[t] \subseteq asked'[t] /\ t \notin asked'[t] /\ t \notin before'[t]
      /\ t \in late' => join'[t] \in {"join", "done"}
      /\ join'[t] = "none" => asked'[t] = {} /\ before'[t] = {}
  BY DEF TakeoverInv, TakeoverTypeOK
<1>10. kicker'[t] # Unkicked => join'[t] = "done" /\ socket'[t] = "closed"
  BY <1>1, <1>2, <1>4 DEF TakeoverInv, TakeoverTypeOK
<1>11. join'[t] = "none" <=> socket'[t] = "new"
  BY <1>1, <1>2 DEF TakeoverInv, TakeoverTypeOK, Up
<1>12. ASSUME t \notin unreliable
       PROVE /\ join'[t] = "lookup" => before'[t] \cap asked'[t] \cap room' \subseteq found'[t]
             /\ join'[t] \in {"join", "done"} => before'[t] \cap room' = {}
  <2>1. CASE t = s
    BY <1>12, <1>1, <1>6, <2>1 DEF TakeoverInv, TakeoverTypeOK
  <2>2. CASE t # s
    <3>1. join'[t] = join[t]
      BY <2>2 DEF TakeoverTypeOK
    <3>2. join[t] = "none" => t \notin peers
      BY <1>2
    <3>3. QED
      BY <1>12, <1>1, <3>1, <3>2 DEF TakeoverInv, TakeoverTypeOK
  <2>3. QED
    BY <2>1, <2>2
<1>13. QED
  BY <1>8, <1>9, <1>10, <1>11, <1>12

LEMMA TakeoverInvStep ==
    TakeoverTypeOK /\ TakeoverInv /\ [TakeoverNext]_takeoverVars => TakeoverInv'
<1> SUFFICES ASSUME TakeoverTypeOK, TakeoverInv, [TakeoverNext]_takeoverVars
             PROVE  TakeoverInv'
  OBVIOUS
<1>1. ASSUME NEW s \in Sockets, Connect(s) PROVE TakeoverInv'
  <2>1. room \subseteq Up' /\ join[s] = "none" /\ s \notin room
    BY <1>1 DEF Connect, TakeoverTypeOK, TakeoverInv, Up
  <2>2. \A p \in Sockets : join[p] = "done" => p # s
    BY <2>1
  <2>3. QED
    BY <1>1, <2>1, <2>2 DEF Connect, TakeoverTypeOK, TakeoverInv
<1>2. ASSUME NEW s \in Sockets, Disconnect(s) PROVE TakeoverInv'
  BY <1>2 DEF Disconnect, TakeoverTypeOK, TakeoverInv, Up
<1>3. ASSUME NEW s \in Sockets, NEW p \in Sockets, AnswerLookup(s, p) PROVE TakeoverInv'
  <2>1. /\ asked' = [asked EXCEPT ![s] = asked[s] \cup {p}]
        /\ found' = [found EXCEPT ![s] = found[s] \cup ({p} \cap room)]
        /\ UNCHANGED <<socket, join, late, room, kicker, before, unreliable>>
        /\ join[s] # "none"
    BY <1>3 DEF AnswerLookup, TakeoverInv
  <2>2. p # s
    BY <1>3 DEF AnswerLookup
  <2>3. \A t \in Sockets : t # s => asked'[t] = asked[t] /\ found'[t] = found[t]
    BY <2>1 DEF TakeoverTypeOK
  <2>4. asked'[s] = asked[s] \cup {p} /\ found'[s] = found[s] \cup ({p} \cap room)
    BY <2>1 DEF TakeoverTypeOK
  <2>5. Up' = Up
    BY <2>1 DEF Up
  <2>6. SUFFICES ASSUME NEW t \in Sockets
        PROVE /\ \A q \in room \cup before[t] \cup found'[t] : join[q] = "done"
              /\ found'[t] \subseteq asked'[t] /\ t \notin asked'[t]
              /\ join[t] = "none" => asked'[t] = {}
              /\ t \notin unreliable /\ join[t] = "lookup" =>
                    before[t] \cap asked'[t] \cap room \subseteq found'[t]
    BY <2>1, <2>5 DEF TakeoverInv
  <2>7. QED
    BY <2>1, <2>2, <2>3, <2>4 DEF TakeoverInv
<1>4. ASSUME NEW s \in Sockets, KickPeers(s) PROVE TakeoverInv'
  BY <1>4, KickKeeps DEF KickPeers
<1>5. ASSUME NEW s \in Sockets, LateKick(s) PROVE TakeoverInv'
  BY <1>5, KickKeeps DEF LateKick, TakeoverInv
<1>6. ASSUME NEW s \in Sockets, JoinRoom(s) PROVE TakeoverInv'
  BY <1>6 DEF JoinRoom, TakeoverTypeOK, TakeoverInv, Up
<1>7. ASSUME NEW s \in Sockets, LookupFails(s) PROVE TakeoverInv'
  BY <1>7 DEF LookupFails, TakeoverTypeOK, TakeoverInv, Up
<1>8. ASSUME NEW s \in Sockets, LookupTimesOut(s) PROVE TakeoverInv'
  BY <1>8 DEF LookupTimesOut, TakeoverTypeOK, TakeoverInv, Up
<1>9. CASE UNCHANGED takeoverVars
  BY <1>9 DEF takeoverVars, TakeoverInv, Up
<1>10. QED
  BY <1>1, <1>2, <1>3, <1>4, <1>5, <1>6, <1>7, <1>8, <1>9 DEF TakeoverNext, JoinStep

LEMMA LastJoinerInit == TakeoverInit => LastJoinerStays
BY DEF TakeoverInit, LastJoinerStays

\* A kick of the last to join is by one that was not kicked and has yet to join.
LEMMA LastJoinerStep ==
    TakeoverTypeOK /\ TakeoverInv /\ LastJoinerStays /\ [TakeoverNext]_takeoverVars
        => LastJoinerStays'
<1> SUFFICES ASSUME TakeoverTypeOK, TakeoverInv, LastJoinerStays,
                    [TakeoverNext]_takeoverVars
             PROVE  LastJoinerStays'
  OBVIOUS
<1> USE DEF TakeoverTypeOK, LastJoinerStays
<1>1. ASSUME NEW s \in Sockets, Connect(s) PROVE LastJoinerStays'
  BY <1>1 DEF Connect, TakeoverInv
<1>2. ASSUME NEW s \in Sockets, Disconnect(s) PROVE LastJoinerStays'
  BY <1>2 DEF Disconnect
<1>3. ASSUME NEW s \in Sockets, NEW p \in Sockets, AnswerLookup(s, p)
      PROVE  LastJoinerStays'
  BY <1>3 DEF AnswerLookup
<1>4. ASSUME NEW s \in Sockets, Kick(s), s \in late \/ join[s] = "lookup",
             UNCHANGED <<lastJoined, unreliable>>,
             join' \in {join, [join EXCEPT ![s] = "join"]},
             s \notin unreliable => join' = [join EXCEPT ![s] = "join"]
      PROVE  LastJoinerStays'
  <2> DEFINE peers == found[s] \cap Up
  <2>1. /\ socket' = [p \in Sockets |-> IF p \in peers THEN "closed" ELSE socket[p]]
        /\ kicker' = [p \in Sockets |-> IF p \in peers THEN s ELSE kicker[p]]
    BY <1>4 DEF Kick
  <2>2. \A p \in peers : socket[p] = "up" /\ join[p] = "done" /\ p # s
    BY DEF TakeoverInv, Up
  <2>3. s \notin unreliable => join[s] = "lookup" /\ kicker[s] = Unkicked
    BY <1>4 DEF TakeoverInv
  <2>4. SUFFICES ASSUME lastJoined \in Sockets, kicker'[lastJoined] \in Sockets \ unreliable
        PROVE  LET winner == kicker'[lastJoined]
               IN  /\ kicker'[winner] = Unkicked
                   /\ join'[winner] = "join" \/ socket'[winner] = "closed"
    BY <1>4, <2>4
  <2>5. CASE lastJoined \in peers
    BY <1>4, <2>1, <2>2, <2>3, <2>4, <2>5
  <2>6. CASE lastJoined \notin peers
    <3> DEFINE winner == kicker[lastJoined]
    <3>1. /\ winner = kicker'[lastJoined] /\ winner \in Sockets \ unreliable
          /\ kicker[winner] = Unkicked
          /\ join[winner] = "join" \/ socket[winner] = "closed"
      BY <2>1, <2>4, <2>6
    <3>2. winner \notin peers
      BY <2>2, <3>1
    <3>3. kicker'[winner] = Unkicked
      BY <2>1, <3>1, <3>2
    <3>4. join'[winner] = "join" \/ socket'[winner] = "closed"
      BY <1>4, <2>1, <3>1, <3>2
    <3>5. QED
      BY <3>1, <3>3, <3>4
  <2>7. QED
    BY <2>5, <2>6
<1>5. ASSUME NEW s \in Sockets, KickPeers(s) PROVE LastJoinerStays'
  BY <1>4, <1>5 DEF KickPeers
<1>6. ASSUME NEW s \in Sockets, LateKick(s) PROVE LastJoinerStays'
  BY <1>4, <1>6 DEF LateKick, TakeoverInv
<1>7. ASSUME NEW s \in Sockets, JoinRoom(s) PROVE LastJoinerStays'
  <2>1. CASE s \in Up
    BY <1>7, <2>1 DEF JoinRoom, TakeoverInv, Up
  <2>2. CASE s \notin Up
    <3>1. socket[s] = "closed"
      BY <1>7, <2>2 DEF JoinRoom, TakeoverInv, Up
    <3>2. QED
      BY <1>7, <2>2, <3>1 DEF JoinRoom
  <2>3. QED
    BY <2>1, <2>2
<1>8. ASSUME NEW s \in Sockets, LookupFails(s) \/ LookupTimesOut(s) PROVE LastJoinerStays'
  BY <1>8 DEF LookupFails, LookupTimesOut
<1>9. CASE UNCHANGED takeoverVars
  BY <1>9 DEF takeoverVars
<1>10. QED
  BY <1>1, <1>2, <1>3, <1>5, <1>6, <1>7, <1>8, <1>9 DEF TakeoverNext, JoinStep

\* Of the devices a student connects, a newer one puts out those it found, and sockets
\* that join together do not kick each other out (monitoring.gateway.ts 484-518).
THEOREM OneDeviceStays == TakeoverSpec => []OneDevice
<1>1. TakeoverInv => TakeoverKicks
  BY DEF TakeoverInv, TakeoverKicks
<1>2. QED
  BY TakeoverTypeInit, TakeoverTypeStep, TakeoverInvInit, TakeoverInvStep, LastJoinerInit,
     LastJoinerStep, <1>1, PTL DEF TakeoverSpec, OneDevice

(* Proofs about ViolationQueue, for any number of handlers and workers and *)
(* any capacity of the channel.                                            *)
(***************************************************************************)

-------------------------------------------------------------------------------
(* Type correctness.                                                       *)

LEMMA QueueTypeInit == QueueInit => QueueTypeOK
<1> SUFFICES ASSUME QueueInit PROVE QueueTypeOK
  OBVIOUS
<1>1. queued \in 0..QueueCapacity
  BY QueueAssumption DEF QueueInit
<1>2. handler \in [QueueHandlers -> {"idle", "admitted", "running", "returning"}]
  BY DEF QueueInit
<1>3. inserter \in [Workers -> {"select", "inserting", "drain", "insertingLast", "done"}]
  BY DEF QueueInit
<1>4. {stopped, stop, abandoned} \subseteq BOOLEAN
  BY Zenon DEF QueueInit
<1>5. {events, dropped, stored, failed} \subseteq Nat
  BY DEF QueueInit
<1>6. QED
  BY <1>1, <1>2, <1>3, <1>4, <1>5 DEF QueueInit, QueueTypeOK

LEMMA QueueTypeStep == QueueTypeOK /\ [QueueNext]_queueVars => QueueTypeOK'
<1> SUFFICES ASSUME QueueTypeOK, [QueueNext]_queueVars PROVE QueueTypeOK'
  OBVIOUS
<1> USE QueueAssumption DEF QueueTypeOK
<1>1. ASSUME NEW h \in QueueHandlers, AdmitEvent(h) PROVE QueueTypeOK'
  BY <1>1 DEF AdmitEvent, MoveHandler
<1>2. ASSUME NEW h \in QueueHandlers, StartHandler(h) PROVE QueueTypeOK'
  BY <1>2 DEF StartHandler, MoveHandler
<1>3. ASSUME NEW h \in QueueHandlers, EnqueueViolation(h) PROVE QueueTypeOK'
  BY <1>3 DEF EnqueueViolation, MoveHandler
<1>4. ASSUME NEW h \in QueueHandlers, ReturnHandler(h) PROVE QueueTypeOK'
  BY <1>4 DEF ReturnHandler, MoveHandler
<1>5. ASSUME NEW w \in Workers, TakeViolation(w) PROVE QueueTypeOK'
  BY <1>5 DEF TakeViolation, MoveInserter
<1>6. ASSUME NEW w \in Workers, SeeStop(w) PROVE QueueTypeOK'
  BY <1>6 DEF SeeStop, MoveInserter
<1>7. ASSUME NEW w \in Workers, WorkerDone(w) PROVE QueueTypeOK'
  BY <1>7 DEF WorkerDone, MoveInserter
<1>8. ASSUME NEW w \in Workers, InsertViolation(w) PROVE QueueTypeOK'
  BY <1>8 DEF InsertViolation, MoveInserter
<1>9. CASE LockStopped
  BY <1>9 DEF LockStopped
<1>10. CASE CloseStep
  BY <1>10 DEF CloseStep, UnlockStopped, CloseStop, WaitWorkers
<1>11. CASE UNCHANGED queueVars
  BY <1>11 DEF queueVars
<1>12. QED
  BY <1>1, <1>2, <1>3, <1>4, <1>5, <1>6, <1>7, <1>8, <1>9, <1>10, <1>11
     DEF QueueNext, HandlerStep, InserterStep

\* The channel never holds more than its capacity, and every variable keeps its type.
THEOREM QueueTypeCorrect == QueueSpec => []QueueTypeOK
<1>1. QED
  BY QueueTypeInit, QueueTypeStep, PTL DEF QueueSpec

-------------------------------------------------------------------------------
(* The shutdown.                                                           *)

LEMMA ShutdownInit == QueueInit => ShutdownInv
BY DEF QueueInit, ShutdownInv, At, InFlight

LEMMA ShutdownStep ==
    QueueTypeOK /\ ShutdownInv /\ [QueueNext]_queueVars => ShutdownInv'
<1> SUFFICES ASSUME QueueTypeOK, ShutdownInv, [QueueNext]_queueVars PROVE ShutdownInv'
  OBVIOUS
<1> USE DEF QueueTypeOK, ShutdownInv, At, InFlight, InsertersAt, MoveHandler, MoveInserter
<1>1. ASSUME NEW h \in QueueHandlers, AdmitEvent(h) PROVE ShutdownInv'
  BY <1>1 DEF AdmitEvent, NoWriter
<1>2. ASSUME NEW h \in QueueHandlers, StartHandler(h) PROVE ShutdownInv'
  BY <1>2 DEF StartHandler
<1>3. ASSUME NEW h \in QueueHandlers, EnqueueViolation(h) PROVE ShutdownInv'
  BY <1>3 DEF EnqueueViolation
<1>4. ASSUME NEW h \in QueueHandlers, ReturnHandler(h) PROVE ShutdownInv'
  BY <1>4 DEF ReturnHandler
<1>5. ASSUME NEW w \in Workers, TakeViolation(w) PROVE ShutdownInv'
  BY <1>5 DEF TakeViolation
<1>6. ASSUME NEW w \in Workers, SeeStop(w) PROVE ShutdownInv'
  BY <1>6 DEF SeeStop
<1>7. ASSUME NEW w \in Workers, WorkerDone(w) PROVE ShutdownInv'
  BY <1>7 DEF WorkerDone
<1>8. ASSUME NEW w \in Workers, InsertViolation(w) PROVE ShutdownInv'
  BY <1>8 DEF InsertViolation
<1>9. CASE LockStopped
  BY <1>9 DEF LockStopped
<1>10. CASE CloseStep
  BY <1>10 DEF CloseStep, UnlockStopped, CloseStop, WaitWorkers
<1>11. CASE UNCHANGED queueVars
  BY <1>11 DEF queueVars
<1>12. QED
  BY <1>1, <1>2, <1>3, <1>4, <1>5, <1>6, <1>7, <1>8, <1>9, <1>10, <1>11
     DEF QueueNext, HandlerStep, InserterStep

\* Workers are stopped only after the handlers that were admitted, and end only on a
\* channel that nobody fills any more.
THEOREM ShutdownIsOrdered == QueueSpec => []ShutdownInv
<1>1. QED
  BY QueueTypeInit, QueueTypeStep, ShutdownInit, ShutdownStep, PTL DEF QueueSpec

LEMMA ShutdownDrains == QueueTypeOK /\ ShutdownInv => CloseDrains
<1> SUFFICES ASSUME QueueTypeOK, ShutdownInv, closing = "closed", ~abandoned
             PROVE  queued = 0 /\ Inserting = {} /\ InFlight = {} /\ At("admitted") = {}
  BY DEF CloseDrains
<1>1. \A w \in Workers : inserter[w] = "done"
  BY DEF ShutdownInv, InsertersAt
<1>2. Inserting = {}
  BY <1>1 DEF Inserting, InsertersAt
<1>3. queued = 0
  BY <1>1, QueueAssumption DEF ShutdownInv
<1>4. QED
  BY <1>2, <1>3 DEF ShutdownInv

\* When Close returns every violation is written, unless its drain timeout fired.
THEOREM CloseDrainsTheQueue == QueueSpec => []CloseDrains
<1>1. QED
  BY QueueTypeCorrect, ShutdownIsOrdered, ShutdownDrains, PTL

-------------------------------------------------------------------------------
(* The queue implements the safety part of ViolationLog.                   *)

InHands == Cardinality(Inserting)

LEMMA InHandsIsNat == InHands \in Nat
<1>1. Inserting \subseteq Workers
  BY DEF Inserting, InsertersAt
<1>2. QED
  BY <1>1, QueueAssumption, FS_Subset, FS_CardinalityType DEF InHands

\* A worker that takes a violation has one in its hands that nobody had.
LEMMA TakingCounts ==
    ASSUME QueueTypeOK, NEW w \in Workers, TakeViolation(w)
    PROVE  InHands' = InHands + 1
<1>1. w \notin Inserting /\ Inserting' = Inserting \cup {w}
  BY DEF TakeViolation, MoveInserter, Inserting, InsertersAt, QueueTypeOK
<1>2. IsFiniteSet(Inserting)
  BY QueueAssumption, FS_Subset DEF Inserting, InsertersAt
<1>3. QED
  BY <1>1, <1>2, FS_AddElement DEF InHands

LEMMA InsertingCounts ==
    ASSUME QueueTypeOK, NEW w \in Workers, InsertViolation(w)
    PROVE  InHands' = InHands - 1 /\ InHands > 0
<1>1. w \in Inserting /\ Inserting' = Inserting \ {w}
  BY DEF InsertViolation, MoveInserter, Inserting, InsertersAt, QueueTypeOK
<1>2. IsFiniteSet(Inserting)
  BY QueueAssumption, FS_Subset DEF Inserting, InsertersAt
<1>3. InHands' = InHands - 1
  BY <1>1, <1>2, FS_RemoveElement DEF InHands
<1>4. InHands # 0
  BY <1>1, <1>2, FS_EmptySet DEF InHands
<1>5. QED
  BY <1>3, <1>4, InHandsIsNat

\* The other steps of a worker move no violation.
LEMMA SameHands ==
    ASSUME QueueTypeOK, NEW w \in Workers, SeeStop(w) \/ WorkerDone(w)
    PROVE  InHands' = InHands
<1>1. Inserting' = Inserting
  BY DEF SeeStop, WorkerDone, MoveInserter, Inserting, InsertersAt, QueueTypeOK
<1>2. QED
  BY <1>1 DEF InHands

LEMMA UnmovedHands == UNCHANGED inserter => InHands' = InHands
BY DEF InHands, Inserting, InsertersAt

LEMMA LogInit == QueueInit => Log!Init
<1> SUFFICES ASSUME QueueInit PROVE Log!Init
  OBVIOUS
<1>1. Inserting = {}
  BY DEF QueueInit, Inserting, InsertersAt
<1>2. Cardinality(Inserting) = 0
  BY <1>1, FS_EmptySet
<1>3. QED
  BY <1>2 DEF QueueInit, Log!Init

LEMMA LogStep ==
    QueueTypeOK /\ ShutdownInv /\ [QueueNext]_queueVars => [Log!Next]_Log!logVars
<1> SUFFICES ASSUME QueueTypeOK, ShutdownInv, [QueueNext]_queueVars
             PROVE  Log!Next \/ UNCHANGED Log!logVars
  OBVIOUS
<1> DEFINE held == Cardinality(Inserting)
<1>a. held \in Nat /\ queued \in Nat
  BY InHandsIsNat, QueueAssumption DEF InHands, QueueTypeOK
<1>b. held' = InHands' /\ held = InHands
  BY DEF InHands
<1> HIDE DEF held
<1> USE DEF Log!Next, Log!Accept, Log!Resolve, Log!GiveUp, Log!Close, Log!logVars
<1>1. ASSUME NEW h \in QueueHandlers, AdmitEvent(h) \/ StartHandler(h) \/ ReturnHandler(h)
      PROVE  UNCHANGED Log!logVars
  <2>1. held' = held
    BY <1>1, <1>b, UnmovedHands DEF AdmitEvent, StartHandler, ReturnHandler
  <2>2. QED
    BY <1>1, <2>1 DEF AdmitEvent, StartHandler, ReturnHandler, held
<1>2. ASSUME NEW h \in QueueHandlers, EnqueueViolation(h)
      PROVE  Log!Accept \/ UNCHANGED Log!logVars
  <2>1. held' = held
    BY <1>2, <1>b, UnmovedHands DEF EnqueueViolation
  <2>2. closing = "closed" => abandoned
    BY <1>2 DEF EnqueueViolation, ShutdownInv, InFlight, At
  <2>3. CASE queued < QueueCapacity
    BY <1>2, <1>a, <2>1, <2>2, <2>3 DEF EnqueueViolation, held
  <2>4. CASE ~(queued < QueueCapacity)
    BY <1>2, <2>1, <2>4 DEF EnqueueViolation, held
  <2>5. QED
    BY <2>3, <2>4
<1>3. ASSUME NEW w \in Workers, TakeViolation(w) PROVE UNCHANGED Log!logVars
  <2>1. held' = held + 1 /\ queued' = queued - 1
    BY <1>3, <1>b, TakingCounts DEF TakeViolation
  <2>2. queued' + held' = queued + held
    BY <1>a, <2>1
  <2>3. QED
    BY <1>3, <2>2 DEF TakeViolation, held
<1>4. ASSUME NEW w \in Workers, SeeStop(w) \/ WorkerDone(w) PROVE UNCHANGED Log!logVars
  <2>1. held' = held
    BY <1>4, <1>b, SameHands
  <2>2. QED
    BY <1>4, <2>1 DEF SeeStop, WorkerDone, held
<1>5. ASSUME NEW w \in Workers, InsertViolation(w) PROVE Log!Resolve
  <2>1. held' = held - 1 /\ held > 0 /\ queued' = queued
    BY <1>5, <1>b, InsertingCounts DEF InsertViolation
  <2>2. queued' + held' = (queued + held) - 1 /\ queued + held > 0
    BY <1>a, <2>1
  <2>3. UNCHANGED <<abandoned, closing = "closed">>
    BY <1>5 DEF InsertViolation
  <2>4. \/ stored' = stored + 1 /\ UNCHANGED failed
        \/ failed' = failed + 1 /\ UNCHANGED stored
    BY <1>5 DEF InsertViolation
  <2>5. (queued + Cardinality(Inserting))' = (queued + Cardinality(Inserting)) - 1
    BY <2>2 DEF held
  <2>6. queued + Cardinality(Inserting) > 0
    BY <2>2 DEF held
  <2>7. QED
    BY <2>3, <2>4, <2>5, <2>6
<1>6. CASE LockStopped \/ UnlockStopped
  <2>1. held' = held
    BY <1>6, <1>b, UnmovedHands DEF LockStopped, UnlockStopped
  <2>2. QED
    BY <1>6, <2>1 DEF LockStopped, UnlockStopped, held
<1>7. CASE CloseStop
  <2>1. held' = held
    BY <1>7, <1>b, UnmovedHands DEF CloseStop
  <2>2. CASE abandoned' = abandoned
    BY <1>7, <2>1, <2>2 DEF CloseStop, held
  <2>3. CASE abandoned' = TRUE
    BY <1>7, <2>1, <2>3 DEF CloseStop, held
  <2>4. QED
    BY <1>7, <2>2, <2>3 DEF CloseStop
<1>8. CASE WaitWorkers
  <2>1. held' = held
    BY <1>8, <1>b, UnmovedHands DEF WaitWorkers
  <2>2. \A w \in Workers : inserter[w] = "done"
    BY <1>8 DEF WaitWorkers, InsertersAt
  <2>3. Inserting = {}
    BY <2>2 DEF Inserting, InsertersAt
  <2>4. held = 0
    BY <2>3, FS_EmptySet DEF held
  <2>5. queued = 0 \/ abandoned
    BY <2>2, QueueAssumption DEF ShutdownInv
  <2>6. queued + held = 0 \/ abandoned
    BY <2>4, <2>5
  <2>7. QED
    BY <1>8, <2>1, <2>6 DEF WaitWorkers, held
<1>9. CASE UNCHANGED queueVars
  <2>1. held' = held
    BY <1>9, <1>b, UnmovedHands DEF queueVars
  <2>2. QED
    BY <1>9, <2>1 DEF queueVars, held
<1>10. QED
  BY <1>1, <1>2, <1>3, <1>4, <1>5, <1>6, <1>7, <1>8, <1>9
     DEF QueueNext, HandlerStep, InserterStep, CloseStep

\* The queue implements the log: what is accepted is written or lost once, nothing is
\* accepted after the gateway closed, and it closes on an empty queue, unless it gave up.
THEOREM QueueImplementsLog == QueueSpec => LogSafety
<1>1. QueueSpec => Log!Init /\ [][Log!Next]_Log!logVars
  BY QueueTypeInit, QueueTypeStep, ShutdownInit, ShutdownStep, LogInit, LogStep, PTL
     DEF QueueSpec
<1>2. QED
  BY <1>1 DEF LogSafety, Log!Safety

-------------------------------------------------------------------------------
(* Violations: how many switches can be counted.                           *)

Labels == {"idle", "load", "cache", "counts", "count", "store", "increment", "terminate",
           "dropCache", "cacheTerminated", "kick"}

Unadmitted == {"load", "cache"}
Uncounted == {"load", "cache", "counts", "count", "store", "increment"}
Earned == {"cacheTerminated", "kick"}

\* Handlers at one of some steps.
EventsAt(L) == {h \in Events : event[h] \in L}

Arriving == Cardinality(EventsAt(Unadmitted))
Ahead == Cardinality(EventsAt(Uncounted))
Kicking == Cardinality(EventsAt(Earned))

FewHandlers ==
    /\ IsFiniteSet(EventsAt(Unadmitted))
    /\ IsFiniteSet(EventsAt(Uncounted))
    /\ IsFiniteSet(EventsAt(Earned))

\* The counts there may be while some handlers have not counted their switch yet: a
\* switch is at most one row, and is counted once beyond it.
Room == 2 * switchEvents - Ahead
Within(counts, most) == \A d \in Directions : counts[d] # NoCounter => counts[d] <= most

\* What a handler has read, and where it may then be.
Holding(label, c, most) ==
    /\ label = "cache" => c \in [status : Statuses]
    /\ label \in {"count", "store"} => c \in Counts /\ Within(c, most)
    /\ label = "store" => \A d \in Directions : c[d] # NoCounter

BoundInv ==
    /\ FewHandlers
    /\ switchEvents <= MaxSwitches
    /\ Ahead <= switchEvents
    /\ \A d \in Directions : violationRows[d] + inserts[d] + Arriving <= switchEvents
    /\ Within(counter, Room)
    /\ \A h \in Events : Holding(event[h], counted[h], Room)

In(label, L) == IF label \in L THEN 1 ELSE 0

LEMMA OneMoves ==
    ASSUME event \in [Events -> Labels], NEW h \in Events, NEW label \in Labels,
           event' = [event EXCEPT ![h] = label], NEW L, IsFiniteSet(EventsAt(L))
    PROVE  /\ IsFiniteSet(EventsAt(L)')
           /\ Cardinality(EventsAt(L)) \in Nat
           /\ Cardinality(EventsAt(L)')
                 = Cardinality(EventsAt(L)) + In(label, L) - In(event[h], L)
           /\ Cardinality(EventsAt(L)) >= In(event[h], L)
<1>1. Cardinality(EventsAt(L)) \in Nat
  BY FS_CardinalityType
<1>2. CASE label \in L
  <2>1. EventsAt(L)' = EventsAt(L) \cup {h}
    BY <1>2 DEF EventsAt
  <2>2. h \in EventsAt(L) <=> event[h] \in L
    BY DEF EventsAt
  <2>3. h \in EventsAt(L) => Cardinality(EventsAt(L)) >= 1
    <3>1. EventsAt(L) = {} <=> Cardinality(EventsAt(L)) = 0
      BY FS_EmptySet
    <3>2. QED
      BY <3>1, <1>1
  <2>4. QED
    BY <1>1, <1>2, <2>1, <2>2, <2>3, FS_AddElement DEF In
<1>3. CASE label \notin L
  <2>1. EventsAt(L)' = EventsAt(L) \ {h}
    BY <1>3 DEF EventsAt
  <2>2. h \in EventsAt(L) <=> event[h] \in L
    BY DEF EventsAt
  <2>3. h \in EventsAt(L) => Cardinality(EventsAt(L)) >= 1
    <3>1. EventsAt(L) = {} <=> Cardinality(EventsAt(L)) = 0
      BY FS_EmptySet
    <3>2. QED
      BY <3>1, <1>1
  <2>4. QED
    BY <1>1, <1>3, <2>1, <2>2, <2>3, FS_RemoveElement DEF In
<1>4. QED
  BY <1>2, <1>3

\* What a handler's step does to the three counts.
LEMMA HandlerMoves ==
    ASSUME event \in [Events -> Labels], FewHandlers, NEW h \in Events, NEW label \in Labels,
           event' = [event EXCEPT ![h] = label]
    PROVE  /\ FewHandlers'
           /\ {Arriving, Ahead, Kicking} \subseteq Nat
           /\ Arriving' = Arriving + In(label, Unadmitted)
                                   - In(event[h], Unadmitted)
           /\ Arriving >= In(event[h], Unadmitted)
           /\ Ahead' = Ahead
                 + In(label, Uncounted)
                 - In(event[h], Uncounted)
           /\ Ahead >= In(event[h], Uncounted)
           /\ Kicking' = Kicking + In(label, Earned)
                                 - In(event[h], Earned)
<1>1. /\ FewHandlers'
      /\ {Arriving, Ahead, Kicking} \subseteq Nat
  BY OneMoves DEF FewHandlers, Arriving, Ahead, Kicking
<1>2. /\ Arriving' = Arriving + In(label, Unadmitted)
                              - In(event[h], Unadmitted)
      /\ Arriving >= In(event[h], Unadmitted)
  BY OneMoves DEF FewHandlers, Arriving
<1>3. /\ Ahead' = Ahead
                 + In(label, Uncounted)
                 - In(event[h], Uncounted)
      /\ Ahead >= In(event[h], Uncounted)
  BY OneMoves DEF FewHandlers, Ahead
<1>4. Kicking' = Kicking + In(label, Earned)
                         - In(event[h], Earned)
  BY OneMoves DEF FewHandlers, Kicking
<1>5. QED
  BY <1>1, <1>2, <1>3, <1>4

LEMMA HandlersStay ==
    ASSUME FewHandlers, event' = event
    PROVE  /\ FewHandlers'
           /\ UNCHANGED <<Arriving, Ahead, Kicking>>
           /\ {Arriving, Ahead, Kicking} \subseteq Nat
BY FS_CardinalityType DEF FewHandlers, EventsAt, Arriving, Ahead, Kicking

\* The room for counts does not shrink.
LEMMA RoomStays ==
    ASSUME NEW most \in Int, NEW more \in Int, most <= more
    PROVE  /\ \A c \in Counts : Within(c, most) => Within(c, more)
           /\ \A label, c : Holding(label, c, most) => Holding(label, c, more)
<1>1. \A c \in Counts : \A d \in Directions : c[d] \in Int
  BY ViolationsAssumption DEF Counts, NoCounter
<1>2. \A c \in Counts : Within(c, most) => Within(c, more)
  BY <1>1 DEF Within
<1>3. QED
  BY <1>2 DEF Holding

\* A handler's step: what the others hold is still within bounds.
LEMMA OthersHold ==
    ASSUME ViolationTypeOK, BoundInv, NEW h \in Events, NEW label \in Labels, NEW c,
           event' = [event EXCEPT ![h] = label], counted' = [counted EXCEPT ![h] = c],
           switchEvents' \in Nat, Room <= Room',
           Holding(label, c, Room')
    PROVE  \A g \in Events : Holding(event'[g], counted'[g], Room')
<1>1. Room \in Int /\ Room' \in Int
  <2>1. event \in [Events -> Labels] /\ FewHandlers /\ switchEvents \in Nat
    BY DEF ViolationTypeOK, Labels, BoundInv
  <2>2. Ahead \in Nat /\ Ahead' \in Int
    <3>1. /\ {Arriving, Ahead, Kicking} \subseteq Nat
          /\ Ahead' = Ahead + In(label, Uncounted) - In(event[h], Uncounted)
      BY <2>1, HandlerMoves
    <3>2. \A l : In(l, Uncounted) \in {0, 1}
      BY DEF In
    <3>3. QED
      BY <3>1, <3>2
  <2>3. QED
    BY <2>1, <2>2 DEF Room
<1>2. \A g \in Events : Holding(event[g], counted[g], Room')
  BY <1>1, RoomStays DEF BoundInv
<1>3. event \in [Events -> Labels] /\ DOMAIN counted = Events
  BY DEF ViolationTypeOK, Labels
<1>4. QED
  BY <1>2, <1>3

LEMMA FitsCounts ==
    ASSUME NEW c \in [Directions -> Nat], NEW most \in Int, most <= 2 * MaxSwitches,
           Within(c, most)
    PROVE  c \in Counts
BY ViolationsAssumption DEF Within, Counts, Directions, NoCounter

LEMMA ViolationTypeInit == ViolationInit => ViolationTypeOK /\ BoundInv
<1> SUFFICES ASSUME ViolationInit PROVE ViolationTypeOK /\ BoundInv
  OBVIOUS
<1>1. {rebuildsBoth, reopened, tainted, lost} \subseteq BOOLEAN
  BY ViolationsAssumption, Zenon DEF ViolationInit
<1>2. Nothing \in Counts /\ counter \in Counts
  BY ViolationsAssumption DEF ViolationInit, Nothing, Counts, Directions, NoCounter
<1>3. ViolationTypeOK
  BY <1>1, <1>2 DEF ViolationInit, ViolationTypeOK, Statuses, Directions
<1>4. \A L : "idle" \notin L => EventsAt(L) = {}
  BY DEF ViolationInit, EventsAt
<1>5. FewHandlers /\ Ahead = 0 /\ Arriving = 0
  BY <1>4, FS_EmptySet DEF FewHandlers, Ahead, Arriving, Unadmitted, Uncounted, Earned
<1>6. QED
  BY <1>3, <1>5, ViolationsAssumption
     DEF ViolationInit, BoundInv, Within, Holding, Nothing, Directions, Room

LEMMA ArrivalStep ==
    ASSUME ViolationTypeOK, BoundInv, NEW h \in Events, LogViolation(h)
    PROVE  ViolationTypeOK' /\ BoundInv'
<1>1. PICK d \in Directions :
          \/ /\ statusCache = None
             /\ event' = [event EXCEPT ![h] = "load"]
             /\ direction' = [direction EXCEPT ![h] = d]
             /\ UNCHANGED inserts
          \/ UNCHANGED <<event, direction, inserts>>
          \/ /\ event' = [event EXCEPT ![h] = "counts"]
             /\ direction' = [direction EXCEPT ![h] = d]
             /\ inserts' = [inserts EXCEPT ![d] = @ + 1]
  BY DEF LogViolation
<1>2. /\ event[h] = "idle" /\ switchEvents < MaxSwitches
      /\ switchEvents' = switchEvents + 1
      /\ UNCHANGED <<status, statusCache, violationRows, counter, counted, teacher,
                     rebuildsBoth, teacherActs, expiries, switches, reopened, stale, tainted,
                     lost, terminations, kicks>>
  BY DEF LogViolation, violationHistory
<1>3. event \in [Events -> Labels] /\ FewHandlers
  BY DEF ViolationTypeOK, Labels, BoundInv
<1>4. /\ FewHandlers' /\ {Arriving, Ahead} \subseteq Nat
      /\ \/ event'[h] = "idle" /\ Arriving' = Arriving /\ Ahead' = Ahead /\ inserts' = inserts
         \/ /\ event'[h] = "load" /\ Arriving' = Arriving + 1 /\ Ahead' = Ahead + 1
            /\ inserts' = inserts
         \/ /\ event'[h] = "counts" /\ Arriving' = Arriving /\ Ahead' = Ahead + 1
            /\ inserts' = [inserts EXCEPT ![d] = @ + 1]
      /\ \A g \in Events \ {h} : event'[g] = event[g]
      /\ event' \in [Events -> Labels]
  <2>1. CASE event' = event
    BY <1>1, <1>2, <1>3, <2>1, HandlersStay
  <2>2. CASE event' # event
    BY <1>1, <1>2, <1>3, <2>2, HandlerMoves DEF In, Labels, Unadmitted, Uncounted
  <2>3. QED
    BY <2>1, <2>2
<1>5. {Room, Room'} \subseteq Int /\ Room <= Room'
  BY <1>2, <1>4 DEF ViolationTypeOK, Room
<1>6. \A g \in Events : Holding(event'[g], counted'[g], Room')
  <2>1. \A g \in Events : Holding(event[g], counted[g], Room')
    BY <1>5, RoomStays DEF BoundInv
  <2>2. QED
    BY <1>2, <1>4, <2>1 DEF Holding
<1>7. \A e \in Directions : violationRows'[e] + inserts'[e] + Arriving' <= switchEvents'
  BY <1>2, <1>4 DEF BoundInv, ViolationTypeOK, Counts, Directions
<1>8. BoundInv'
  <2>1. Within(counter', Room')
    BY <1>2, <1>5, RoomStays DEF BoundInv, ViolationTypeOK
  <2>2. switchEvents' <= MaxSwitches /\ Ahead' <= switchEvents'
    BY <1>2, <1>4, ViolationsAssumption DEF BoundInv, ViolationTypeOK
  <2>3. QED
    BY <1>4, <1>6, <1>7, <2>1, <2>2 DEF BoundInv
<1>9. inserts' \in Counts
  <2>1. inserts' \in [Directions -> Nat]
    BY <1>4, ViolationsAssumption DEF ViolationTypeOK, Counts, NoCounter
  <2>2. \A e \in Directions : inserts'[e] <= 2 * MaxSwitches
    BY <1>2, <1>4, <1>7, <2>1, ViolationsAssumption DEF ViolationTypeOK, Counts, NoCounter
  <2>3. QED
    BY <2>1, <2>2, FitsCounts, ViolationsAssumption DEF Within
<1>10. direction' \in [Events -> Directions]
  BY <1>1 DEF ViolationTypeOK
<1>11. QED
  BY <1>2, <1>4, <1>8, <1>9, <1>10 DEF ViolationTypeOK, Labels

\* A handler goes on, and leaves the counts within bounds.
LEMMA HandlerBound ==
    ASSUME ViolationTypeOK, BoundInv, NEW h \in Events, NEW label \in Labels, NEW c,
           event' = [event EXCEPT ![h] = label], counted' = [counted EXCEPT ![h] = c],
           event[h] = "load" => label \in {"cache", "idle"},
           event[h] # "load" => label \notin Unadmitted,
           label \in Uncounted => event[h] \in Uncounted,
           UNCHANGED <<switchEvents, violationRows>>,
           \/ inserts' = inserts
           \/ /\ event[h] \in Unadmitted /\ label \notin Unadmitted
              /\ \E d \in Directions : inserts' = [inserts EXCEPT ![d] = @ + 1],
           Holding(label, c, Room'),
           counter' = counter \/ Within(counter', Room')
    PROVE  /\ BoundInv'
           /\ inserts' \in Counts
           /\ Room' = Room + In(event[h], Uncounted) - In(label, Uncounted)
           /\ Room \in Int /\ Room' \in Int /\ Room' <= 2 * MaxSwitches
<1>1. event \in [Events -> Labels] /\ FewHandlers /\ switchEvents \in Nat
  BY DEF ViolationTypeOK, Labels, BoundInv
<1>2. /\ FewHandlers' /\ {Arriving, Ahead, Kicking} \subseteq Nat
      /\ Arriving' = Arriving + In(label, Unadmitted) - In(event[h], Unadmitted)
      /\ Arriving >= In(event[h], Unadmitted)
      /\ Ahead' = Ahead + In(label, Uncounted) - In(event[h], Uncounted)
      /\ Ahead >= In(event[h], Uncounted)
  BY <1>1, HandlerMoves
<1>3. /\ In(label, Uncounted) \in {0, 1} /\ In(event[h], Uncounted) \in {0, 1}
      /\ In(label, Uncounted) <= In(event[h], Uncounted)
  BY DEF In
<1>4. /\ Ahead' \in Nat /\ Ahead' <= Ahead
      /\ Room \in Int /\ Room' \in Int /\ Room <= Room'
      /\ Room' = Room + In(event[h], Uncounted) - In(label, Uncounted)
  BY <1>1, <1>2, <1>3 DEF Room
<1>5. \A g \in Events : Holding(event'[g], counted'[g], Room')
  BY <1>1, <1>4, OthersHold
<1>6. Within(counter', Room')
  BY <1>4, RoomStays DEF BoundInv, ViolationTypeOK
<1>7. /\ switchEvents' <= MaxSwitches /\ Ahead' <= switchEvents'
      /\ Room' <= 2 * MaxSwitches
  <2>1. /\ switchEvents <= MaxSwitches /\ Ahead <= switchEvents /\ MaxSwitches \in Nat
        /\ switchEvents' = switchEvents
    BY ViolationsAssumption DEF BoundInv
  <2>2. Room' = 2 * switchEvents' - Ahead'
    BY DEF Room
  <2>3. QED
    BY <1>1, <1>2, <1>4, <2>1, <2>2
<1>8. {inserts, violationRows} \subseteq [Directions -> Nat]
  BY ViolationsAssumption DEF ViolationTypeOK, Counts, NoCounter
<1>9. \A e \in Directions : violationRows[e] + inserts[e] + Arriving <= switchEvents
  BY DEF BoundInv
<1>10. /\ inserts' \in [Directions -> Nat]
       /\ \A e \in Directions : violationRows'[e] + inserts'[e] + Arriving' <= switchEvents'
  <2>1. CASE inserts' = inserts
    <3>1. Arriving' <= Arriving /\ Arriving' \in Nat
      BY <1>2 DEF In, Unadmitted
    <3>2. QED
      BY <1>1, <1>2, <1>8, <1>9, <2>1, <3>1
  <2>2. CASE inserts' # inserts
    <3>1. Arriving' = Arriving - 1 /\ Arriving' \in Nat
      BY <1>2, <2>2 DEF In
    <3>2. PICK d \in Directions : inserts' = [inserts EXCEPT ![d] = @ + 1]
      BY <2>2
    <3>3. QED
      BY <1>1, <1>2, <1>8, <1>9, <3>1, <3>2
  <2>3. QED
    BY <2>1, <2>2
<1>11. Arriving' \in Nat
  BY <1>2 DEF In, Unadmitted
<1>12. inserts' \in Counts
  <2>1. MaxSwitches \in Nat /\ 2 * MaxSwitches \in Int
    BY ViolationsAssumption
  <2>2. ASSUME NEW e \in Directions PROVE inserts'[e] <= 2 * MaxSwitches
    <3>1. violationRows'[e] + inserts'[e] + Arriving' <= switchEvents'
      BY <1>10
    <3>2. violationRows'[e] \in Nat /\ inserts'[e] \in Nat
      BY <1>8, <1>10
    <3>3. QED
      BY <1>1, <1>7, <1>11, <2>1, <3>1, <3>2
  <2>3. QED
    BY <1>10, <2>1, <2>2, FitsCounts DEF Within
<1>13. QED
  BY <1>2, <1>4, <1>5, <1>6, <1>7, <1>10, <1>12 DEF BoundInv

\* Nothing is held where nothing was read.
LEMMA NothingHeld ==
    \A label, c, most : label \notin {"cache", "count", "store"} => Holding(label, c, most)
BY DEF Holding

LEMMA NothingIsCounts == Nothing \in Counts
BY ViolationsAssumption DEF Nothing, Counts, Directions, NoCounter

\* The steps that read or count nothing.
LEMMA PlainStep ==
    ASSUME ViolationTypeOK, BoundInv, NEW h \in Events,
           NEW label \in {"idle", "dropCache", "cacheTerminated", "kick"},
           event[h] = "load" => label = "idle",
           event' = [event EXCEPT ![h] = label], counted' = [counted EXCEPT ![h] = Nothing],
           UNCHANGED <<switchEvents, violationRows, inserts, counter>>
    PROVE  /\ BoundInv'
           /\ event' \in [Events -> Labels]
           /\ counted' \in [Events -> Counts \cup [status : Statuses]]
           /\ {violationRows', inserts', counter'} \subseteq Counts
<1>1. BoundInv'
  <2>1. Holding(label, Nothing, Room')
    BY NothingHeld
  <2>2. QED
    BY <2>1, HandlerBound DEF Labels, Unadmitted, Uncounted
<1>2. QED
  BY <1>1, NothingIsCounts DEF ViolationTypeOK, Labels

LEMMA LoadBound ==
    ASSUME ViolationTypeOK, BoundInv, NEW h \in Events, LoadStatus(h)
    PROVE  ViolationTypeOK' /\ BoundInv'
<1> DEFINE c == [status |-> status]
<1>1. /\ event[h] = "load" /\ event' = [event EXCEPT ![h] = "cache"]
      /\ counted' = [counted EXCEPT ![h] = c]
      /\ UNCHANGED <<status, statusCache, violationRows, inserts, counter, direction, teacher,
                     boundVars, violationHistory>>
  BY DEF LoadStatus
<1>2. c \in [status : Statuses] /\ Holding("cache", c, Room')
  BY DEF Holding, ViolationTypeOK
<1>3. BoundInv'
  BY <1>1, <1>2, HandlerBound DEF Labels, Unadmitted, Uncounted, boundVars
<1>4. counted' \in [Events -> Counts \cup [status : Statuses]]
  BY <1>1, <1>2 DEF ViolationTypeOK
<1>5. QED
  BY <1>1, <1>3, <1>4 DEF ViolationTypeOK, boundVars, violationHistory

LEMMA CacheBound ==
    ASSUME ViolationTypeOK, BoundInv, NEW h \in Events, CacheStatus(h)
    PROVE  ViolationTypeOK' /\ BoundInv'
<1>1. /\ event[h] = "cache" /\ statusCache' = counted[h].status
      /\ UNCHANGED <<status, violationRows, counter, teacher, boundVars, switches, reopened,
                     lost, terminations, kicks>>
  BY DEF CacheStatus
<1>2. tainted' \in BOOLEAN
  BY Zenon DEF CacheStatus, Taints
<1>3. PICK label \in {"idle", "counts"} :
          /\ event' = [event EXCEPT ![h] = label]
          /\ counted' = [counted EXCEPT ![h] = Nothing]
          /\ stale' \subseteq stale
          /\ direction' = direction \/ direction' = [direction EXCEPT ![h] = "in"]
          /\ \/ inserts' = inserts
             \/ /\ label = "counts"
                /\ inserts' = [inserts EXCEPT ![direction[h]] = @ + 1]
  BY DEF CacheStatus, AnswerViolation, Accept, ToStep
<1>4. direction[h] \in Directions
  BY DEF ViolationTypeOK
<1>5. BoundInv' /\ inserts' \in Counts
  <2>1. Holding(label, Nothing, Room')
    BY <1>3, NothingHeld
  <2>2. UNCHANGED <<switchEvents, violationRows, counter>>
    BY <1>1 DEF boundVars
  <2>3. \/ inserts' = inserts
        \/ /\ event[h] \in Unadmitted /\ label \notin Unadmitted
           /\ \E d \in Directions : inserts' = [inserts EXCEPT ![d] = @ + 1]
    BY <1>1, <1>3, <1>4 DEF Unadmitted
  <2>4. /\ event[h] # "load" /\ label \in Labels /\ label \notin Unadmitted
        /\ event[h] \in Uncounted
    BY <1>1 DEF Labels, Unadmitted, Uncounted
  <2>5. QED
    BY <1>3, <2>1, <2>2, <2>3, <2>4, HandlerBound
<1>6. statusCache' \in Statuses
  <2>1. counted[h] \in [status : Statuses]
    BY <1>1 DEF BoundInv, Holding
  <2>2. QED
    BY <1>1, <2>1
<1>7. /\ counted' \in [Events -> Counts \cup [status : Statuses]]
      /\ event' \in [Events -> Labels]
      /\ direction' \in [Events -> Directions]
      /\ stale' \subseteq Events
  BY <1>3, NothingIsCounts DEF ViolationTypeOK, Directions, Labels
<1>8. {rebuildsBoth', reopened', tainted', lost'} \subseteq BOOLEAN
  BY <1>1, <1>2 DEF ViolationTypeOK, boundVars
<1>9. QED
  BY <1>1, <1>5, <1>6, <1>7, <1>8 DEF ViolationTypeOK, boundVars, Labels

LEMMA ReadBound ==
    ASSUME ViolationTypeOK, BoundInv, NEW h \in Events, ReadCounts(h)
    PROVE  ViolationTypeOK' /\ BoundInv'
<1>1. /\ event[h] = "counts"
      /\ UNCHANGED <<status, statusCache, violationRows, inserts, counter, teacher, boundVars,
                     switches, reopened, tainted, lost, terminations, kicks, direction, stale>>
      /\ \/ /\ event' = [event EXCEPT ![h] = "count"]
            /\ counted' = [counted EXCEPT ![h] = counter]
         \/ /\ event' = [event EXCEPT ![h] = "increment"]
            /\ counted' = [counted EXCEPT ![h] = Nothing]
  BY DEF ReadCounts, ToStep
<1>2. UNCHANGED <<switchEvents, violationRows, inserts, counter>>
  BY <1>1 DEF boundVars
<1>3. CASE event'[h] = "count"
  <2>1. /\ event' = [event EXCEPT ![h] = "count"]
        /\ counted' = [counted EXCEPT ![h] = counter]
    BY <1>1, <1>3 DEF ViolationTypeOK
  <2>2. counter \in Counts /\ Within(counter, Room)
    BY DEF ViolationTypeOK, BoundInv
  <2>3. Room' = Room
    <3>1. event \in [Events -> Labels] /\ FewHandlers
      BY DEF ViolationTypeOK, Labels, BoundInv
    <3>2. /\ {Arriving, Ahead, Kicking} \subseteq Nat
          /\ Ahead' = Ahead + In("count", Uncounted) - In(event[h], Uncounted)
      BY <2>1, <3>1, HandlerMoves DEF Labels
    <3>3. QED
      BY <1>1, <1>2, <3>2 DEF Room, In, Uncounted
  <2>4. Holding("count", counter, Room')
    BY <2>2, <2>3 DEF Holding
  <2>5. BoundInv'
    BY <1>1, <1>2, <2>1, <2>4, HandlerBound DEF Labels, Unadmitted, Uncounted
  <2>6. QED
    BY <1>1, <2>1, <2>2, <2>5 DEF ViolationTypeOK, boundVars
<1>4. CASE event'[h] # "count"
  <2>1. /\ event' = [event EXCEPT ![h] = "increment"]
        /\ counted' = [counted EXCEPT ![h] = Nothing]
    BY <1>1, <1>4 DEF ViolationTypeOK
  <2>2. Holding("increment", Nothing, Room')
    BY NothingHeld
  <2>3. BoundInv'
    BY <1>1, <1>2, <2>1, <2>2, HandlerBound DEF Labels, Unadmitted, Uncounted
  <2>4. QED
    BY <1>1, <2>1, <2>3, NothingIsCounts DEF ViolationTypeOK, boundVars
<1>5. QED
  BY <1>3, <1>4

LEMMA CountBound ==
    ASSUME ViolationTypeOK, BoundInv, NEW h \in Events, CountRows(h)
    PROVE  ViolationTypeOK' /\ BoundInv'
<1> DEFINE c == [d \in Directions |-> IF rebuildsBoth \/ counted[h][d] = NoCounter
                                       THEN violationRows[d] ELSE counted[h][d]]
<1>1. /\ event[h] = "count" /\ event' = [event EXCEPT ![h] = "store"]
      /\ counted' = [counted EXCEPT ![h] = c]
      /\ UNCHANGED <<status, statusCache, violationRows, inserts, counter, direction, teacher,
                     boundVars, violationHistory>>
  BY DEF CountRows
<1>2. UNCHANGED <<switchEvents, violationRows, inserts, counter>>
  BY <1>1 DEF boundVars
<1>3. counted[h] \in Counts /\ Within(counted[h], Room)
  BY <1>1 DEF BoundInv, Holding
<1>4. /\ Room' = Room /\ Room \in Int /\ Room <= 2 * MaxSwitches
      /\ Arriving \in Nat /\ Ahead <= switchEvents /\ Ahead \in Nat
  <2>1. event \in [Events -> Labels] /\ FewHandlers /\ switchEvents \in Nat
    BY DEF ViolationTypeOK, Labels, BoundInv
  <2>2. /\ {Arriving, Ahead, Kicking} \subseteq Nat
        /\ Ahead' = Ahead + In("store", Uncounted) - In(event[h], Uncounted)
    BY <1>1, <2>1, HandlerMoves DEF Labels
  <2>3. Ahead' = Ahead
    BY <1>1, <2>2 DEF In, Uncounted
  <2>4. MaxSwitches \in Nat /\ switchEvents <= MaxSwitches /\ Ahead <= switchEvents
    BY ViolationsAssumption DEF BoundInv
  <2>5. QED
    BY <1>2, <2>1, <2>2, <2>3, <2>4 DEF Room
<1>5. ASSUME NEW d \in Directions
      PROVE  /\ violationRows[d] \in 0 .. NoCounter
             /\ violationRows[d] <= Room
             /\ violationRows[d] # NoCounter
  <2>1. violationRows[d] \in Nat /\ inserts[d] \in Nat /\ switchEvents \in Nat
    BY ViolationsAssumption DEF ViolationTypeOK, Counts, NoCounter
  <2>2. violationRows[d] + inserts[d] + Arriving <= switchEvents
    BY DEF BoundInv
  <2>3. violationRows[d] <= Room
    BY <1>4, <2>1, <2>2 DEF Room
  <2>4. MaxSwitches \in Nat
    BY ViolationsAssumption
  <2>5. QED
    BY <1>4, <2>1, <2>3, <2>4 DEF NoCounter
<1>6. c \in Counts /\ Within(c, Room)
  BY <1>3, <1>5 DEF Within, Counts
<1>7. \A d \in Directions : c[d] # NoCounter
  BY <1>5
<1>8. Holding("store", c, Room')
  BY <1>4, <1>6, <1>7 DEF Holding
<1>9. BoundInv'
  BY <1>1, <1>2, <1>8, HandlerBound DEF Labels, Unadmitted, Uncounted
<1>10. counted' \in [Events -> Counts \cup [status : Statuses]]
  BY <1>1, <1>6 DEF ViolationTypeOK
<1>11. QED
  BY <1>1, <1>2, <1>9, <1>10 DEF ViolationTypeOK, boundVars, violationHistory

LEMMA StoreBound ==
    ASSUME ViolationTypeOK, BoundInv, NEW h \in Events, StoreCounts(h)
    PROVE  ViolationTypeOK' /\ BoundInv'
<1>1. /\ event[h] = "store" /\ event' = [event EXCEPT ![h] = "increment"]
      /\ counted' = [counted EXCEPT ![h] = Nothing]
      /\ counter' = counted[h]
      /\ UNCHANGED <<status, statusCache, violationRows, inserts, teacher, direction, stale,
                     switches, reopened, terminations, kicks>>
      /\ UNCHANGED <<rebuildsBoth, switchEvents, teacherActs, expiries>>
  BY DEF StoreCounts, ToStep, boundVars
<1>2. tainted' \in BOOLEAN /\ lost' \in BOOLEAN
  BY Zenon DEF StoreCounts, Taints
<1>3. counted[h] \in Counts /\ Within(counted[h], Room)
  BY <1>1 DEF BoundInv, Holding
<1>4. Room' = Room /\ Room \in Int
  <2>1. event \in [Events -> Labels] /\ FewHandlers /\ switchEvents \in Nat
    BY DEF ViolationTypeOK, Labels, BoundInv
  <2>2. /\ {Arriving, Ahead, Kicking} \subseteq Nat
        /\ Ahead' = Ahead + In("increment", Uncounted) - In(event[h], Uncounted)
    BY <1>1, <2>1, HandlerMoves DEF Labels
  <2>3. QED
    BY <1>1, <2>1, <2>2 DEF Room, In, Uncounted
<1>5. BoundInv'
  <2>1. Holding("increment", Nothing, Room')
    BY NothingHeld
  <2>2. Within(counter', Room')
    BY <1>1, <1>3, <1>4
  <2>3. QED
    BY <1>1, <2>1, <2>2, HandlerBound DEF Labels, Unadmitted, Uncounted
<1>6. {rebuildsBoth', reopened', tainted', lost'} \subseteq BOOLEAN
  BY <1>1, <1>2 DEF ViolationTypeOK
<1>7. QED
  BY <1>1, <1>3, <1>5, <1>6, NothingIsCounts DEF ViolationTypeOK

\* A switch is counted: the counter is never taken for a missing one.
LEMMA IncrementFits ==
    ASSUME ViolationTypeOK, BoundInv, NEW h \in Events, event[h] = "increment"
    PROVE  /\ Counted(h) \in 0 .. 2 * MaxSwitches
           /\ Counted(h) <= Room + 1
           /\ Counted(h) # NoCounter
           /\ direction[h] \in Directions
<1>1. event \in [Events -> Labels] /\ FewHandlers /\ switchEvents \in Nat
  BY DEF ViolationTypeOK, Labels, BoundInv
<1>2. h \in EventsAt(Uncounted)
  BY DEF EventsAt, Uncounted
<1>3. Ahead \in Nat /\ Ahead >= 1
  <2>1. IsFiniteSet(EventsAt(Uncounted)) /\ EventsAt(Uncounted) # {}
    BY <1>1, <1>2 DEF FewHandlers
  <2>2. QED
    BY <2>1, FS_CardinalityType, FS_EmptySet DEF Ahead
<1>4. /\ MaxSwitches \in Nat /\ switchEvents <= MaxSwitches /\ Ahead <= switchEvents
  BY ViolationsAssumption DEF BoundInv
<1>5. direction[h] \in Directions
  BY DEF ViolationTypeOK
<1>6. /\ counter[direction[h]] \in 0 .. NoCounter
      /\ counter[direction[h]] # NoCounter => counter[direction[h]] <= Room
  BY <1>5 DEF ViolationTypeOK, BoundInv, Counts, Within
<1>7. Room \in Nat /\ Room >= 1 /\ Room <= 2 * MaxSwitches - 1
  BY <1>1, <1>3, <1>4 DEF Room
<1>8. CASE counter[direction[h]] = NoCounter
  BY <1>4, <1>5, <1>7, <1>8 DEF Counted, NoCounter
<1>9. CASE counter[direction[h]] # NoCounter
  <2>1. counter[direction[h]] \in Nat
    BY <1>4, <1>6 DEF NoCounter
  <2>2. QED
    BY <1>4, <1>5, <1>6, <1>7, <1>9, <2>1 DEF Counted, NoCounter
<1>10. QED
  BY <1>8, <1>9

LEMMA IncrementBound ==
    ASSUME ViolationTypeOK, BoundInv, NEW h \in Events, IncrementCounter(h)
    PROVE  ViolationTypeOK' /\ BoundInv'
<1>1. /\ event[h] = "increment"
      /\ counter' = [counter EXCEPT ![direction[h]] = Counted(h)]
      /\ switches' = IF direction[h] = "in" THEN switches + 1 ELSE switches
      /\ UNCHANGED <<status, statusCache, violationRows, inserts, teacher, reopened, lost,
                     terminations, kicks>>
      /\ UNCHANGED <<rebuildsBoth, switchEvents, teacherActs, expiries>>
  BY DEF IncrementCounter, boundVars
<1>2. tainted' \in BOOLEAN
  BY Zenon DEF IncrementCounter, Taints
<1>3. PICK label \in {"terminate", "idle"} :
          /\ event' = [event EXCEPT ![h] = label]
          /\ counted' = [counted EXCEPT ![h] = Nothing]
          /\ stale' \subseteq stale
          /\ direction' = direction \/ direction' = [direction EXCEPT ![h] = "in"]
  BY DEF IncrementCounter, AnswerViolation, ToStep
<1>4. /\ Counted(h) \in 0 .. 2 * MaxSwitches /\ Counted(h) <= Room + 1
      /\ direction[h] \in Directions /\ MaxSwitches \in Nat
  BY <1>1, IncrementFits, ViolationsAssumption
<1>5. Room' = Room + 1 /\ Room \in Int
  <2>1. event \in [Events -> Labels] /\ FewHandlers /\ switchEvents \in Nat
    BY DEF ViolationTypeOK, Labels, BoundInv
  <2>2. /\ {Arriving, Ahead, Kicking} \subseteq Nat
        /\ Ahead' = Ahead + In(label, Uncounted) - In(event[h], Uncounted)
    BY <1>3, <2>1, HandlerMoves DEF Labels
  <2>3. In(label, Uncounted) = 0 /\ In(event[h], Uncounted) = 1
    BY <1>1 DEF In, Uncounted
  <2>4. QED
    BY <1>1, <2>1, <2>2, <2>3 DEF Room
<1>6. counter \in Counts /\ Within(counter, Room)
  BY DEF ViolationTypeOK, BoundInv
<1>7. counter' \in Counts
  <2>1. Counted(h) \in 0 .. NoCounter
    BY <1>4 DEF NoCounter
  <2>2. QED
    BY <1>1, <1>4, <1>6, <2>1 DEF Counts
<1>8. Within(counter', Room')
  <2>1. \A d \in Directions : counter[d] \in Int
    BY <1>4, <1>6 DEF Counts, NoCounter
  <2>2. QED
    BY <1>1, <1>4, <1>5, <1>6, <2>1 DEF Within, Counts
<1>9. BoundInv'
  <2>1. Holding(label, Nothing, Room')
    BY NothingHeld
  <2>2. /\ label \in Labels /\ event[h] # "load"
        /\ label \notin Unadmitted /\ label \notin Uncounted
    BY <1>1 DEF Labels, Unadmitted, Uncounted
  <2>3. UNCHANGED <<switchEvents, violationRows>> /\ inserts' = inserts
    BY <1>1
  <2>4. QED
    BY <1>3, <1>8, <2>1, <2>2, <2>3, HandlerBound
<1>10. {rebuildsBoth', reopened', tainted', lost'} \subseteq BOOLEAN
  BY <1>1, <1>2 DEF ViolationTypeOK
<1>11. QED
  BY <1>1, <1>3, <1>7, <1>9, <1>10, NothingIsCounts DEF ViolationTypeOK, Directions

\* The last steps of a handler, and failures.
LEMMA EndBound ==
    ASSUME ViolationTypeOK, BoundInv, NEW h \in Events,
           \/ Terminate(h) \/ DropCache(h) \/ CacheTerminated(h) \/ ForceTerminate(h)
           \/ EventFails(h)
    PROVE  ViolationTypeOK' /\ BoundInv'
<1>1. {tainted', lost'} \subseteq BOOLEAN
  <2>1. CASE CacheTerminated(h)
    <3>1. tainted' \in BOOLEAN
      BY <2>1, Zenon DEF CacheTerminated, Taints
    <3>2. lost' = lost
      BY <2>1 DEF CacheTerminated
    <3>3. QED
      BY <3>1, <3>2 DEF ViolationTypeOK
  <2>2. CASE EventFails(h)
    BY <2>2 DEF EventFails, ViolationTypeOK
  <2>3. CASE Terminate(h) \/ DropCache(h) \/ ForceTerminate(h)
    BY <2>3 DEF Terminate, DropCache, ForceTerminate, ViolationTypeOK
  <2>4. QED
    BY <2>1, <2>2, <2>3
<1>2. PICK label \in {"idle", "dropCache", "cacheTerminated", "kick"} :
          /\ event[h] = "load" => label = "idle"
          /\ event' = [event EXCEPT ![h] = label]
          /\ counted' = [counted EXCEPT ![h] = Nothing]
          /\ stale' \subseteq stale
          /\ direction' = direction \/ direction' = [direction EXCEPT ![h] = "in"]
  BY DEF Terminate, DropCache, CacheTerminated, ForceTerminate, EventFails, AnswerViolation,
         ToStep
<1>3. /\ UNCHANGED <<switchEvents, violationRows, inserts, counter, teacher, rebuildsBoth,
                     teacherActs, switches, reopened>>
      /\ status' \in {status, "TERMINATED"}
      /\ statusCache' \in {statusCache, "TERMINATED", None}
      /\ {expiries', terminations', kicks'} \subseteq Nat
  BY DEF Terminate, DropCache, CacheTerminated, ForceTerminate, EventFails, boundVars,
         ViolationTypeOK
<1>4. /\ BoundInv'
      /\ event' \in [Events -> Labels]
      /\ counted' \in [Events -> Counts \cup [status : Statuses]]
  BY <1>2, <1>3, PlainStep
<1>5. QED
  BY <1>1, <1>2, <1>3, <1>4 DEF ViolationTypeOK, Statuses, Directions, Labels

\* Meanwhile no handler moves.
LEMMA MeanwhileBound ==
    ASSUME ViolationTypeOK, BoundInv,
           \/ \E d \in Directions : InsertRow(d) \/ ExpireCounter(d)
           \/ ExpireStatus \/ Submit \/ TeacherTerminates \/ TeacherClears
           \/ Reopen \/ ResetCounters
    PROVE  ViolationTypeOK' /\ BoundInv'
<1>1. /\ UNCHANGED <<event, direction, counted, rebuildsBoth, switchEvents>>
      /\ status' \in {status, "COMPLETED", "TERMINATED", "IN_PROGRESS"}
      /\ statusCache' \in {statusCache, None}
      /\ teacher' \in {teacher, "idle", "clear", "reset"}
      /\ {teacherActs', expiries', switches', terminations', kicks'} \subseteq Nat
      /\ stale' \subseteq Events
  BY DEF InsertRow, ExpireCounter, ExpireStatus, Submit, TeacherTerminates, TeacherClears,
         Reopen, ResetCounters, TeacherActs, handlerVars, boundVars, violationHistory,
         ViolationTypeOK
<1>2. {rebuildsBoth', reopened', tainted', lost'} \subseteq BOOLEAN
  BY DEF InsertRow, ExpireCounter, ExpireStatus, Submit, TeacherTerminates, TeacherClears,
         Reopen, ResetCounters, TeacherActs, handlerVars, boundVars, violationHistory,
         ViolationTypeOK
<1>3. /\ FewHandlers' /\ Arriving' = Arriving /\ Ahead' = Ahead
      /\ Arriving \in Nat /\ Ahead \in Nat
  BY <1>1, HandlersStay DEF BoundInv
<1>4. /\ violationRows' \in Counts /\ inserts' \in Counts
      /\ \A d \in Directions : violationRows'[d] + inserts'[d] + Arriving' <= switchEvents'
  <2>0. MaxSwitches \in Nat /\ switchEvents \in Nat /\ switchEvents <= MaxSwitches
    BY ViolationsAssumption DEF ViolationTypeOK, BoundInv
  <2>1. {violationRows, inserts} \subseteq [Directions -> Nat]
    BY <2>0 DEF ViolationTypeOK, Counts, NoCounter
  <2>2. \A d \in Directions : violationRows[d] + inserts[d] + Arriving <= switchEvents
    BY DEF BoundInv
  <2>3. CASE \E d \in Directions : InsertRow(d)
    <3>1. PICK d \in Directions :
              /\ inserts[d] > 0
              /\ inserts' = [inserts EXCEPT ![d] = @ - 1]
              /\ violationRows' = [violationRows EXCEPT ![d] = @ + 1]
      BY <2>3 DEF InsertRow
    <3>2. {violationRows', inserts'} \subseteq [Directions -> Nat]
      BY <2>1, <3>1
    <3>3. \A e \in Directions : violationRows'[e] + inserts'[e] + Arriving' <= switchEvents'
      BY <1>1, <1>3, <2>0, <2>1, <2>2, <3>1
    <3>4. \A e \in Directions : violationRows'[e] <= 2 * MaxSwitches
                                /\ inserts'[e] <= 2 * MaxSwitches
      BY <1>1, <1>3, <2>0, <3>2, <3>3
    <3>5. QED
      BY <2>0, <3>2, <3>3, <3>4, FitsCounts DEF Within
  <2>4. CASE UNCHANGED <<violationRows, inserts>>
    BY <1>1, <1>3, <2>2, <2>4 DEF ViolationTypeOK
  <2>5. UNCHANGED <<violationRows, inserts>> \/ \E d \in Directions : InsertRow(d)
    BY DEF ExpireCounter, ExpireStatus, Submit, TeacherTerminates, TeacherClears,
           Reopen, ResetCounters, TeacherActs
  <2>6. QED
    BY <2>3, <2>4, <2>5
<1>5. counter' \in Counts /\ Within(counter', Room')
  <2>1. counter \in Counts /\ Within(counter, Room) /\ Room' = Room /\ Room \in Nat
    BY <1>1, <1>3 DEF ViolationTypeOK, BoundInv, Room
  <2>2. \/ counter' = counter \/ counter' = Nothing
        \/ \E d \in Directions : counter' = [counter EXCEPT ![d] = NoCounter]
    BY DEF InsertRow, ExpireCounter, ExpireStatus, Submit, TeacherTerminates, TeacherClears,
           Reopen, ResetCounters, TeacherActs
  <2>3. NoCounter \in 0 .. NoCounter
    BY ViolationsAssumption DEF NoCounter
  <2>4. CASE counter' = Nothing
    BY <2>1, <2>4, NothingIsCounts DEF Within, Nothing
  <2>5. QED
    BY <2>1, <2>2, <2>3, <2>4 DEF Within, Counts
<1>6. BoundInv'
  BY <1>1, <1>3, <1>4, <1>5 DEF BoundInv, Room
<1>7. QED
  BY <1>1, <1>2, <1>4, <1>5, <1>6 DEF ViolationTypeOK, Statuses

LEMMA ViolationTypeStep ==
    ViolationTypeOK /\ BoundInv /\ [ViolationNext]_violationVars
        => ViolationTypeOK' /\ BoundInv'
<1> SUFFICES ASSUME ViolationTypeOK, BoundInv, [ViolationNext]_violationVars
             PROVE  ViolationTypeOK' /\ BoundInv'
  OBVIOUS
<1>1. CASE UNCHANGED violationVars
  BY <1>1 DEF violationVars, handlerVars, boundVars, violationHistory, ViolationTypeOK,
              BoundInv, FewHandlers, Ahead, Arriving, EventsAt, Room
<1>2. ASSUME NEW h \in Events, LogViolation(h) \/ HandleEvent(h) \/ EventFails(h)
      PROVE  ViolationTypeOK' /\ BoundInv'
  BY <1>2, ArrivalStep, LoadBound, CacheBound, ReadBound, CountBound, StoreBound,
     IncrementBound, EndBound DEF HandleEvent
<1>3. QED
  BY <1>1, <1>2, MeanwhileBound DEF ViolationNext

\* Every variable of Violations keeps its type: no counter exceeds what the rows and the
\* switches can count, however often the gateways rebuild it.
THEOREM ViolationTypeCorrect == ViolationSpec => []ViolationTypeOK
<1>1. QED
  BY ViolationTypeInit, ViolationTypeStep, PTL DEF ViolationSpec

-------------------------------------------------------------------------------
(* Violations: what a session is ended for.                                *)

\* Students that are about to be kicked have had their session ended.
KicksInv == kicks + Kicking <= terminations

LEMMA KicksStep ==
    ViolationTypeOK /\ BoundInv /\ KicksInv /\ [ViolationNext]_violationVars => KicksInv'
<1> SUFFICES ASSUME ViolationTypeOK, BoundInv, KicksInv, [ViolationNext]_violationVars
             PROVE  KicksInv'
  OBVIOUS
<1>1. event \in [Events -> Labels] /\ FewHandlers /\ {kicks, terminations} \subseteq Nat
  BY DEF ViolationTypeOK, Labels, BoundInv
<1>2. CASE UNCHANGED <<event, kicks, terminations>>
  BY <1>1, <1>2, HandlersStay DEF KicksInv
<1>3. ASSUME NEW h \in Events, LogViolation(h) \/ HandleEvent(h) \/ EventFails(h),
             ~UNCHANGED <<event, kicks, terminations>>
      PROVE  KicksInv'
  <2>1. PICK label \in Labels :
            /\ event' = [event EXCEPT ![h] = label]
            /\ \/ label \notin Earned /\ UNCHANGED <<kicks, terminations>>
               \/ /\ event[h] \notin Earned
                  /\ terminations' = terminations + 1 /\ kicks' = kicks
               \/ event[h] \in Earned /\ UNCHANGED <<kicks, terminations>>
               \/ /\ event[h] \in Earned /\ label \notin Earned
                  /\ kicks' = kicks + 1 /\ terminations' = terminations
    BY <1>3 DEF LogViolation, HandleEvent, EventFails, LoadStatus, CacheStatus, ReadCounts,
                CountRows, StoreCounts, IncrementCounter, Terminate, DropCache,
                CacheTerminated, ForceTerminate, Accept, AnswerViolation, ToStep,
                violationHistory, Labels, Earned
  <2>2. /\ {Arriving, Ahead, Kicking} \subseteq Nat
        /\ Kicking' = Kicking + In(label, Earned) - In(event[h], Earned)
    BY <1>1, <2>1, HandlerMoves
  <2>3. QED
    BY <1>1, <2>1, <2>2 DEF KicksInv, In
<1>4. CASE \/ \E d \in Directions : InsertRow(d) \/ ExpireCounter(d)
           \/ ExpireStatus \/ Submit \/ TeacherTerminates \/ TeacherClears
           \/ Reopen \/ ResetCounters
  <2>1. UNCHANGED <<event, kicks, terminations>>
    BY <1>4 DEF InsertRow, ExpireCounter, ExpireStatus, Submit, TeacherTerminates,
                TeacherClears, Reopen, ResetCounters, TeacherActs, handlerVars,
                violationHistory
  <2>2. QED
    BY <1>2, <2>1
<1>5. CASE UNCHANGED violationVars
  BY <1>2, <1>5 DEF violationVars, handlerVars, violationHistory
<1>6. QED
  BY <1>2, <1>3, <1>4, <1>5 DEF ViolationNext

\* Unless a switch was uncounted, the counter covers the switches that were made, and a
\* session that has reached the limit is being ended by one of its handlers.
LimitInv ==
    ~lost =>
        /\ counter["in"] = NoCounter => switches = 0
        /\ switches <= counter["in"]
        /\ /\ status = "IN_PROGRESS" /\ teacher # "reset"
           /\ SwitchLimit > 0 /\ switches >= SwitchLimit
           => \E h \in Events : event[h] = "terminate"

LEMMA LimitKept ==
    ASSUME ViolationTypeOK, BoundInv, LimitInv, NEW h \in Events,
           counter' = counter, switches' = switches, lost' = lost, teacher' = teacher,
           status' = status,
           event[h] = "terminate" => event' = event,
           \A g \in Events \ {h} : event'[g] = event[g]
    PROVE  LimitInv'
BY DEF LimitInv

LEMMA LimitStep ==
    ViolationTypeOK /\ BoundInv /\ LimitInv /\ [ViolationNext]_violationVars => LimitInv'
<1> SUFFICES ASSUME ViolationTypeOK, BoundInv, LimitInv, [ViolationNext]_violationVars
             PROVE  LimitInv'
  OBVIOUS
<1>0. /\ event \in [Events -> Labels] /\ counter \in [Directions -> Nat]
      /\ switches \in Nat /\ {NoCounter, SwitchLimit} \subseteq Nat /\ "in" \in Directions
  BY ViolationsAssumption DEF ViolationTypeOK, Labels, Counts, NoCounter, Directions
<1>1. ASSUME NEW h \in Events, LogViolation(h) PROVE LimitInv'
  BY <1>0, <1>1 DEF LogViolation, violationHistory, LimitInv
<1>2. ASSUME NEW h \in Events, LoadStatus(h) PROVE LimitInv'
  BY <1>0, <1>2 DEF LoadStatus, violationHistory, LimitInv
<1>3. ASSUME NEW h \in Events, CacheStatus(h) PROVE LimitInv'
  BY <1>0, <1>3 DEF CacheStatus, Accept, AnswerViolation, ToStep, LimitInv
<1>4. ASSUME NEW h \in Events, ReadCounts(h) PROVE LimitInv'
  BY <1>0, <1>4 DEF ReadCounts, ToStep, LimitInv
<1>5. ASSUME NEW h \in Events, CountRows(h) PROVE LimitInv'
  BY <1>0, <1>5 DEF CountRows, violationHistory, LimitInv
<1>6. ASSUME NEW h \in Events, StoreCounts(h) PROVE LimitInv'
  <2>1. /\ counted[h]["in"] # NoCounter /\ counted[h]["in"] \in Nat
    BY <1>0, <1>6 DEF StoreCounts, BoundInv, Holding, Counts
  <2>2. /\ counter' = counted[h] /\ event' = [event EXCEPT ![h] = "increment"]
        /\ event[h] = "store"
        /\ UNCHANGED <<status, teacher, switches>>
        /\ ~lost' => ~lost /\ ~(counter["in"] # NoCounter /\ counted[h]["in"] < counter["in"])
    BY <1>6 DEF StoreCounts, ToStep
  <2>3. QED
    BY <1>0, <2>1, <2>2 DEF LimitInv
<1>7. ASSUME NEW h \in Events, IncrementCounter(h) PROVE LimitInv'
  <2>1. /\ Counted(h) # NoCounter /\ Counted(h) \in Nat /\ direction[h] \in Directions
    BY <1>7, IncrementFits, ViolationsAssumption DEF IncrementCounter
  <2>2. /\ event[h] = "increment"
        /\ counter' = [counter EXCEPT ![direction[h]] = Counted(h)]
        /\ switches' = IF direction[h] = "in" THEN switches + 1 ELSE switches
        /\ event' = [event EXCEPT ![h] = IF ExceedsLimit(h) THEN "terminate" ELSE "idle"]
        /\ UNCHANGED <<status, teacher, lost>>
    BY <1>7 DEF IncrementCounter, AnswerViolation, ToStep
  <2>3. CASE direction[h] = "in"
    <3>1. ~lost => switches' <= Counted(h)
      BY <1>0, <2>2, <2>3 DEF Counted, LimitInv
    <3>2. ~lost /\ SwitchLimit > 0 /\ switches' >= SwitchLimit => event'[h] = "terminate"
      BY <1>0, <2>1, <2>2, <2>3, <3>1 DEF ExceedsLimit
    <3>3. QED
      BY <1>0, <2>1, <2>2, <2>3, <3>1, <3>2 DEF LimitInv
  <2>4. CASE direction[h] # "in"
    BY <1>0, <2>1, <2>2, <2>4 DEF LimitInv
  <2>5. QED
    BY <2>3, <2>4
<1>8. ASSUME NEW h \in Events, Terminate(h) PROVE LimitInv'
  BY <1>0, <1>8 DEF Terminate, ToStep, LimitInv
<1>9. ASSUME NEW h \in Events, DropCache(h) \/ CacheTerminated(h) \/ ForceTerminate(h)
      PROVE  LimitInv'
  BY <1>0, <1>9 DEF DropCache, CacheTerminated, ForceTerminate, ToStep, AnswerViolation,
                    LimitInv
<1>10. ASSUME NEW h \in Events, EventFails(h) PROVE LimitInv'
  BY <1>10 DEF EventFails, LimitInv
<1>11. ASSUME NEW d \in Directions, InsertRow(d) \/ ExpireCounter(d) PROVE LimitInv'
  BY <1>11 DEF InsertRow, ExpireCounter, handlerVars, violationHistory, LimitInv
<1>12. CASE ExpireStatus \/ Submit \/ TeacherTerminates \/ TeacherClears \/ Reopen
  BY <1>12 DEF ExpireStatus, Submit, TeacherTerminates, TeacherClears, Reopen, TeacherActs,
               handlerVars, violationHistory, LimitInv
<1>13. CASE ResetCounters
  BY <1>0, <1>13 DEF ResetCounters, TeacherActs, Nothing, NoCounter, LimitInv
<1>14. CASE UNCHANGED violationVars
  BY <1>14 DEF violationVars, handlerVars, violationHistory, LimitInv
<1>15. QED
  BY <1>1, <1>2, <1>3, <1>4, <1>5, <1>6, <1>7, <1>8, <1>9, <1>10, <1>11, <1>12, <1>13,
     <1>14 DEF ViolationNext, HandleEvent

\* A session is ended, and its student kicked, for switches that were made: whoever is
\* kicked had the session ended, and a session whose switches have reached the limit is
\* live no longer once its events are handled, unless a counter was lost.
THEOREM SwitchesEndTheSession == ViolationSpec => []SwitchLimitKept
<1>1. ViolationInit => KicksInv /\ LimitInv
  <2>1. ASSUME ViolationInit PROVE KicksInv
    <3>1. EventsAt(Earned) = {}
      BY <2>1 DEF ViolationInit, EventsAt, Earned
    <3>2. Kicking = 0
      BY <3>1, FS_EmptySet DEF Kicking
    <3>3. kicks = 0 /\ terminations = 0
      BY <2>1 DEF ViolationInit
    <3>4. QED
      BY <3>2, <3>3 DEF KicksInv
  <2>2. ASSUME ViolationInit PROVE LimitInv
    <3>1. counter["in"] = NoCounter /\ switches = 0
      BY <2>2 DEF ViolationInit, Directions
    <3>2. {NoCounter, SwitchLimit} \subseteq Nat
      BY ViolationsAssumption DEF NoCounter
    <3>3. QED
      BY <3>1, <3>2 DEF LimitInv
  <2>3. QED
    BY <2>1, <2>2
<1>2. ViolationTypeOK /\ BoundInv /\ KicksInv /\ LimitInv => SwitchLimitKept
  <2>1. ASSUME ViolationTypeOK, BoundInv, KicksInv PROVE KicksAreEarned
    <3>1. Kicking \in Nat
      BY <2>1, FS_CardinalityType DEF BoundInv, FewHandlers, Kicking
    <3>2. QED
      BY <2>1, <3>1 DEF KicksInv, KicksAreEarned, ViolationTypeOK
  <2>2. ASSUME ViolationTypeOK, LimitInv PROVE LimitEnforced
    BY <2>2, ViolationsAssumption DEF LimitInv, LimitEnforced, ViolationTypeOK
  <2>3. QED
    BY <2>1, <2>2 DEF SwitchLimitKept
<1>3. QED
  BY <1>1, <1>2, ViolationTypeInit, ViolationTypeStep, KicksStep, LimitStep, PTL
     DEF ViolationSpec

\* Since the last reset, unless a handler from before it has written a counter or one
\* has expired, the counters are there and count no more than the switches made.
FreshInv ==
    reopened /\ ~tainted =>
        /\ \A d \in Directions : counter[d] # NoCounter
        /\ counter["in"] <= switches
        /\ \A h \in Events \ stale :
              /\ event[h] \notin {"count", "store"}
              /\ event[h] = "terminate" => SwitchLimit <= switches

LEMMA FreshStep ==
    ViolationTypeOK /\ BoundInv /\ FreshInv /\ [ViolationNext]_violationVars => FreshInv'
<1> SUFFICES ASSUME ViolationTypeOK, BoundInv, FreshInv, [ViolationNext]_violationVars
             PROVE  FreshInv'
  OBVIOUS
<1>0. /\ event \in [Events -> Labels] /\ counter \in [Directions -> Nat]
      /\ switches \in Nat /\ {NoCounter, SwitchLimit} \subseteq Nat /\ "in" \in Directions
      /\ stale \subseteq Events
  BY ViolationsAssumption DEF ViolationTypeOK, Labels, Counts, NoCounter, Directions
<1>1. ASSUME NEW h \in Events, LogViolation(h) PROVE FreshInv'
  BY <1>0, <1>1 DEF LogViolation, violationHistory, FreshInv
<1>2. ASSUME NEW h \in Events, LoadStatus(h) PROVE FreshInv'
  BY <1>0, <1>2 DEF LoadStatus, violationHistory, FreshInv
<1>3. ASSUME NEW h \in Events, CacheStatus(h) PROVE FreshInv'
  <2>1. /\ event'[h] \in {"idle", "counts"} /\ \A g \in Events \ {h} : event'[g] = event[g]
        /\ UNCHANGED <<counter, switches, reopened>>
        /\ stale' \in {stale, stale \ {h}}
        /\ ~tainted' => ~tainted
    BY <1>0, <1>3 DEF CacheStatus, Accept, AnswerViolation, ToStep, Taints
  <2>2. QED
    BY <1>0, <2>1 DEF FreshInv
<1>4. ASSUME NEW h \in Events, ReadCounts(h) PROVE FreshInv'
  BY <1>0, <1>4 DEF ReadCounts, ToStep, FreshInv
<1>5. ASSUME NEW h \in Events, CountRows(h) PROVE FreshInv'
  BY <1>0, <1>5 DEF CountRows, violationHistory, FreshInv
<1>6. ASSUME NEW h \in Events, StoreCounts(h) PROVE FreshInv'
  BY <1>0, <1>6 DEF StoreCounts, ToStep, Taints, FreshInv
<1>7. ASSUME NEW h \in Events, IncrementCounter(h) PROVE FreshInv'
  <2>1. /\ Counted(h) # NoCounter /\ Counted(h) \in Nat /\ direction[h] \in Directions
    BY <1>7, IncrementFits, ViolationsAssumption DEF IncrementCounter
  <2>2. /\ event[h] = "increment"
        /\ counter' = [counter EXCEPT ![direction[h]] = Counted(h)]
        /\ switches' = IF direction[h] = "in" THEN switches + 1 ELSE switches
        /\ event' = [event EXCEPT ![h] = IF ExceedsLimit(h) THEN "terminate" ELSE "idle"]
        /\ ~ExceedsLimit(h) => stale' = stale \ {h}
        /\ ExceedsLimit(h) => stale' = stale
        /\ UNCHANGED reopened
        /\ ~tainted' => ~tainted /\ h \notin stale
    BY <1>7 DEF IncrementCounter, AnswerViolation, ToStep, Taints
  <2>3. SUFFICES ASSUME reopened', ~tainted' PROVE FreshInv'
    BY DEF FreshInv
  <2>4. /\ \A d \in Directions : counter[d] # NoCounter
        /\ counter["in"] <= switches
        /\ \A g \in Events \ stale :
              /\ event[g] \notin {"count", "store"}
              /\ event[g] = "terminate" => SwitchLimit <= switches
    BY <2>2, <2>3 DEF FreshInv
  <2>5. /\ \A d \in Directions : counter'[d] # NoCounter
        /\ counter'["in"] <= switches'
    BY <1>0, <2>1, <2>2, <2>4 DEF Counted
  <2>6. event'[h] = "terminate" => SwitchLimit <= switches'
    <3>1. ExceedsLimit(h) => direction[h] = "in" /\ Counted(h) >= SwitchLimit
      BY DEF ExceedsLimit
    <3>2. direction[h] = "in" => Counted(h) = counter["in"] + 1
      BY <1>0, <2>4 DEF Counted
    <3>3. QED
      BY <1>0, <2>1, <2>2, <2>4, <3>1, <3>2
  <2>7. \A g \in Events \ stale' :
              /\ event'[g] \notin {"count", "store"}
              /\ event'[g] = "terminate" => SwitchLimit <= switches'
    BY <1>0, <2>2, <2>4, <2>6
  <2>8. QED
    BY <2>5, <2>7 DEF FreshInv
<1>8. ASSUME NEW h \in Events, Terminate(h) PROVE FreshInv'
  BY <1>0, <1>8 DEF Terminate, ToStep, FreshInv
<1>9. ASSUME NEW h \in Events, DropCache(h) \/ CacheTerminated(h) \/ ForceTerminate(h)
      PROVE  FreshInv'
  BY <1>0, <1>9 DEF DropCache, CacheTerminated, ForceTerminate, ToStep, AnswerViolation,
                    Taints, FreshInv
<1>10. ASSUME NEW h \in Events, EventFails(h) PROVE FreshInv'
  BY <1>0, <1>10 DEF EventFails, AnswerViolation, FreshInv
<1>11. ASSUME NEW d \in Directions, InsertRow(d) \/ ExpireCounter(d) PROVE FreshInv'
  BY <1>11 DEF InsertRow, ExpireCounter, handlerVars, violationHistory, FreshInv
<1>12. CASE ExpireStatus \/ Submit \/ TeacherTerminates \/ TeacherClears \/ Reopen
  BY <1>12 DEF ExpireStatus, Submit, TeacherTerminates, TeacherClears, Reopen, TeacherActs,
               handlerVars, violationHistory, FreshInv
<1>13. CASE ResetCounters
  <2>1. NoCounter # 0
    BY ViolationsAssumption DEF NoCounter
  <2>2. QED
    BY <1>0, <1>13, <2>1 DEF ResetCounters, TeacherActs, handlerVars, Nothing, FreshInv
<1>14. CASE UNCHANGED violationVars
  BY <1>14 DEF violationVars, handlerVars, violationHistory, FreshInv
<1>15. QED
  BY <1>1, <1>2, <1>3, <1>4, <1>5, <1>6, <1>7, <1>8, <1>9, <1>10, <1>11, <1>12, <1>13,
     <1>14 DEF ViolationNext, HandleEvent

LEMMA FreshInvariant == ViolationSpec => [](ViolationTypeOK /\ BoundInv /\ FreshInv)
<1>1. ViolationInit => FreshInv
  BY DEF ViolationInit, FreshInv
<1>2. QED
  BY <1>1, ViolationTypeInit, ViolationTypeStep, FreshStep, PTL DEF ViolationSpec

\* A submitted session stays submitted, and a reopened one is not ended before as many
\* switches as a new one is allowed, whatever the gateways are still doing.
THEOREM SessionsEndWhenDue == ViolationSpec => EndsOnlyWhenDue
<1>1. ViolationTypeOK /\ [ViolationNext]_violationVars
          => [status = "COMPLETED" => status' = "COMPLETED"]_violationVars
  BY DEF ViolationNext, HandleEvent, LogViolation, LoadStatus, CacheStatus, ReadCounts,
         CountRows, StoreCounts, IncrementCounter, Terminate, DropCache, CacheTerminated,
         ForceTerminate, EventFails, InsertRow, ExpireCounter, ExpireStatus, Submit,
         TeacherTerminates, TeacherClears, Reopen, ResetCounters, violationVars
<1>2. FreshInv /\ [ViolationNext]_violationVars
          => [\A h \in Events :
                 /\ event[h] = "terminate" /\ event'[h] = "cacheTerminated"
                 /\ reopened /\ teacher = "idle" /\ ~tainted /\ h \notin stale
                 => switches >= SwitchLimit]_violationVars
  BY DEF FreshInv
<1>3. QED
  BY <1>1, <1>2, FreshInvariant, PTL
     DEF ViolationSpec, EndsOnlyWhenDue, CompletedStays, FreshStart

\* Unless a handler from before the last reset has written it, the status that is cached
\* for a live session is not that of before it was reopened.
AcceptInv ==
    reopened /\ ~tainted /\ status = "IN_PROGRESS" /\ teacher # "reset" =>
        /\ statusCache # "TERMINATED"
        /\ \A h \in Events \ stale :
              /\ event[h] # "cacheTerminated"
              /\ event[h] = "cache" => counted[h].status # "TERMINATED"

LEMMA AcceptStep ==
    ViolationTypeOK /\ AcceptInv /\ [ViolationNext]_violationVars => AcceptInv'
<1> SUFFICES ASSUME ViolationTypeOK, AcceptInv, [ViolationNext]_violationVars,
                    reopened', ~tainted', status' = "IN_PROGRESS", teacher' # "reset"
             PROVE  AcceptInv'
  BY DEF AcceptInv
<1>0. /\ event \in [Events -> Labels] /\ DOMAIN counted = Events
      /\ stale \subseteq Events
  BY DEF ViolationTypeOK, Labels
<1>1. ASSUME NEW h \in Events, LogViolation(h) PROVE AcceptInv'
  BY <1>0, <1>1 DEF LogViolation, violationHistory, AcceptInv
<1>2. ASSUME NEW h \in Events, LoadStatus(h) PROVE AcceptInv'
  BY <1>0, <1>2 DEF LoadStatus, violationHistory, AcceptInv
<1>3. ASSUME NEW h \in Events, CacheStatus(h) PROVE AcceptInv'
  BY <1>0, <1>3 DEF CacheStatus, Accept, AnswerViolation, ToStep, Taints, AcceptInv
<1>4. ASSUME NEW h \in Events, ReadCounts(h) PROVE AcceptInv'
  BY <1>0, <1>4 DEF ReadCounts, ToStep, AcceptInv
<1>5. ASSUME NEW h \in Events, CountRows(h) PROVE AcceptInv'
  BY <1>0, <1>5 DEF CountRows, violationHistory, AcceptInv
<1>6. ASSUME NEW h \in Events, StoreCounts(h) PROVE AcceptInv'
  BY <1>0, <1>6 DEF StoreCounts, ToStep, Taints, AcceptInv
<1>7. ASSUME NEW h \in Events, IncrementCounter(h) PROVE AcceptInv'
  BY <1>0, <1>7 DEF IncrementCounter, AnswerViolation, ToStep, Taints, AcceptInv
<1>8. ASSUME NEW h \in Events, Terminate(h) PROVE AcceptInv'
  BY <1>0, <1>8 DEF Terminate, ToStep, AcceptInv
<1>9. ASSUME NEW h \in Events, DropCache(h) \/ CacheTerminated(h) \/ ForceTerminate(h)
      PROVE  AcceptInv'
  BY <1>0, <1>9 DEF DropCache, CacheTerminated, ForceTerminate, ToStep, AnswerViolation,
                    Taints, None, AcceptInv
<1>10. ASSUME NEW h \in Events, EventFails(h) PROVE AcceptInv'
  BY <1>0, <1>10 DEF EventFails, AnswerViolation, AcceptInv
<1>11. ASSUME NEW d \in Directions, InsertRow(d) \/ ExpireCounter(d) PROVE AcceptInv'
  BY <1>11 DEF InsertRow, ExpireCounter, handlerVars, violationHistory, AcceptInv
<1>12. CASE ExpireStatus \/ Submit \/ TeacherTerminates \/ TeacherClears \/ Reopen
  BY <1>12 DEF ExpireStatus, Submit, TeacherTerminates, TeacherClears, Reopen, TeacherActs,
               handlerVars, violationHistory, None, AcceptInv
<1>13. CASE ResetCounters
  BY <1>0, <1>13 DEF ResetCounters, TeacherActs, handlerVars, None, AcceptInv
<1>14. CASE UNCHANGED violationVars
  BY <1>14 DEF violationVars, handlerVars, violationHistory, AcceptInv
<1>15. QED
  BY <1>1, <1>2, <1>3, <1>4, <1>5, <1>6, <1>7, <1>8, <1>9, <1>10, <1>11, <1>12, <1>13,
     <1>14 DEF ViolationNext, HandleEvent

\* The events of a session that a teacher has reopened are accepted.
THEOREM ReopenedSessionAccepts == ViolationSpec => []ReopenedIsAccepted
<1>1. ViolationInit => AcceptInv
  BY DEF ViolationInit, AcceptInv
<1>2. AcceptInv => ReopenedIsAccepted
  BY DEF AcceptInv, ReopenedIsAccepted
<1>3. QED
  BY <1>1, <1>2, ViolationTypeInit, ViolationTypeStep, AcceptStep, PTL DEF ViolationSpec

-------------------------------------------------------------------------------
(* Presence: what joins, heartbeats and saved answers do to the last time  *)
(* the student was seen.                                                   *)

LEMMA PresenceTypeInit == PresenceInit => PresenceTypeOK
<1> SUFFICES ASSUME PresenceInit PROVE PresenceTypeOK
  OBVIOUS
<1>1. {serial, oldRedis, offline, erased} \subseteq BOOLEAN
  <2>1. serial \in BOOLEAN /\ oldRedis \in BOOLEAN
    BY PresenceAssumption, Zenon DEF PresenceInit
  <2>2. offline \in BOOLEAN /\ erased \in BOOLEAN
    BY Zenon DEF PresenceInit
  <2>3. QED
    BY <2>1, <2>2, Zenon
<1>2. QED
  BY <1>1 DEF PresenceInit, PresenceTypeOK, Touching

LEMMA PresenceTypeStep ==
    PresenceTypeOK /\ [PresenceNext]_presenceVars => PresenceTypeOK'
<1> SUFFICES ASSUME PresenceTypeOK, [PresenceNext]_presenceVars PROVE PresenceTypeOK'
  OBVIOUS
<1> USE DEF PresenceTypeOK, Touching
<1>1. ASSUME NEW t \in Tabs, ConnectTab(t) PROVE PresenceTypeOK'
  BY <1>1 DEF ConnectTab
<1>2. ASSUME NEW t \in Tabs, DisconnectTab(t) PROVE PresenceTypeOK'
  BY <1>2 DEF DisconnectTab
<1>3. ASSUME NEW t \in Tabs, TakeOver(t) PROVE PresenceTypeOK'
  BY <1>3 DEF TakeOver
<1>4. ASSUME NEW t \in Tabs, JoinFails(t) PROVE PresenceTypeOK'
  BY <1>4 DEF JoinFails
<1>5. ASSUME NEW t \in Tabs, JoinTouches(t) PROVE PresenceTypeOK'
  BY <1>5 DEF JoinTouches, TouchPresence, Seen
<1>6. ASSUME NEW t \in Tabs, Heartbeat(t) PROVE PresenceTypeOK'
  BY <1>6 DEF Heartbeat
<1>7. ASSUME NEW t \in Tabs, HeartbeatTouches(t) PROVE PresenceTypeOK'
  BY <1>7 DEF HeartbeatTouches, TouchPresence, Seen
<1>8. ASSUME NEW t \in Tabs, SaveAnswer(t) PROVE PresenceTypeOK'
  BY <1>8 DEF SaveAnswer
<1>9. ASSUME NEW t \in Tabs, SaveRecords(t) PROVE PresenceTypeOK'
  <2>1. erased' \in BOOLEAN
    BY <1>9, Zenon DEF SaveRecords
  <2>2. /\ serial' = serial /\ oldRedis' = oldRedis /\ offline' = offline
        /\ online' = online /\ joining' = joining /\ beating' = beating
        /\ saving' \subseteq saving /\ lastSeen' = "fresh"
        /\ UNCHANGED <<connects, joinFailures, absences, gaps>>
    BY <1>9 DEF SaveRecords
  <2>3. {serial', oldRedis', offline', erased'} \subseteq BOOLEAN
    BY <2>1, <2>2
  <2>4. QED
    BY <2>2, <2>3
<1>10. CASE GoStale
  <2>1. offline' \in BOOLEAN
    BY <1>10, Zenon DEF GoStale
  <2>2. /\ serial' = serial /\ oldRedis' = oldRedis /\ erased' = erased
        /\ lastSeen' = "stale" /\ absences' = absences + 1
        /\ UNCHANGED <<online, saving, joining, beating, connects, joinFailures, gaps>>
    BY <1>10 DEF GoStale
  <2>3. QED
    BY <2>1, <2>2
<1>11. CASE UNCHANGED presenceVars
  BY <1>11 DEF presenceVars
<1>12. QED
  BY <1>1, <1>2, <1>3, <1>4, <1>5, <1>6, <1>7, <1>8, <1>9, <1>10, <1>11 DEF PresenceNext

\* Every variable of Presence keeps its type.
THEOREM PresenceTypeCorrect == PresenceSpec => []PresenceTypeOK
<1>1. QED
  BY PresenceTypeInit, PresenceTypeStep, PTL DEF PresenceSpec

\* With SET ... GET, each gap that was recorded is one absence, and one that has not
\* been seen yet is still owed its violation.
OnceInv ==
    ~oldRedis =>
        /\ \A t \in Tabs : {joining[t], beating[t]} \cap {"set", "setGap"} = {}
        /\ gaps <= absences
        /\ lastSeen = "stale" => gaps < absences

LEMMA OnceStep ==
    PresenceTypeOK /\ OnceInv /\ [PresenceNext]_presenceVars => OnceInv'
<1> SUFFICES ASSUME PresenceTypeOK, OnceInv, [PresenceNext]_presenceVars PROVE OnceInv'
  OBVIOUS
<1> USE DEF PresenceTypeOK, OnceInv
<1>1. ASSUME NEW t \in Tabs, ConnectTab(t) PROVE OnceInv'
  BY <1>1 DEF ConnectTab
<1>2. ASSUME NEW t \in Tabs, DisconnectTab(t) PROVE OnceInv'
  BY <1>2 DEF DisconnectTab
<1>3. ASSUME NEW t \in Tabs, TakeOver(t) PROVE OnceInv'
  BY <1>3 DEF TakeOver
<1>4. ASSUME NEW t \in Tabs, JoinFails(t) PROVE OnceInv'
  BY <1>4 DEF JoinFails
<1>5. ASSUME NEW t \in Tabs, JoinTouches(t) PROVE OnceInv'
  <2>1. CASE oldRedis
    BY <1>5, <2>1 DEF JoinTouches
  <2>2. CASE ~oldRedis
    <3>1. /\ UNCHANGED <<oldRedis, absences, beating>>
          /\ joining' = [joining EXCEPT ![t] = "no"]
          /\ lastSeen' = "fresh"
          /\ gaps' = IF lastSeen = "stale" THEN gaps + 1 ELSE gaps
      BY <1>5, <2>2 DEF JoinTouches, TouchPresence, Seen
    <3>2. QED
      BY <2>2, <3>1
  <2>3. QED
    BY <2>1, <2>2
<1>6. ASSUME NEW t \in Tabs, Heartbeat(t) PROVE OnceInv'
  BY <1>6 DEF Heartbeat
<1>7. ASSUME NEW t \in Tabs, HeartbeatTouches(t) PROVE OnceInv'
  <2>1. CASE oldRedis
    BY <1>7, <2>1 DEF HeartbeatTouches
  <2>2. CASE ~oldRedis
    <3>1. /\ UNCHANGED <<oldRedis, absences, joining>>
          /\ beating' = [beating EXCEPT ![t] = "no"]
          /\ lastSeen' = "fresh"
          /\ gaps' = IF lastSeen = "stale" THEN gaps + 1 ELSE gaps
      BY <1>7, <2>2 DEF HeartbeatTouches, TouchPresence, Seen
    <3>2. QED
      BY <2>2, <3>1
  <2>3. QED
    BY <2>1, <2>2
<1>8. ASSUME NEW t \in Tabs, SaveAnswer(t) PROVE OnceInv'
  BY <1>8 DEF SaveAnswer
<1>9. ASSUME NEW t \in Tabs, SaveRecords(t) PROVE OnceInv'
  BY <1>9 DEF SaveRecords
<1>10. CASE GoStale
  BY <1>10 DEF GoStale
<1>11. CASE UNCHANGED presenceVars
  BY <1>11 DEF presenceVars
<1>12. QED
  BY <1>1, <1>2, <1>3, <1>4, <1>5, <1>6, <1>7, <1>8, <1>9, <1>10, <1>11 DEF PresenceNext

\* While a tab's events run in turn and no join has failed, a tab that is back after an
\* absence saves nothing before its join has seen the gap.
BackInv ==
    serial /\ joinFailures = 0 =>
        /\ ~erased
        /\ lastSeen = "stale" /\ offline =>
              \A t \in online \cup saving : joining[t] # "no"

LEMMA BackStep ==
    PresenceTypeOK /\ BackInv /\ [PresenceNext]_presenceVars => BackInv'
<1> SUFFICES ASSUME PresenceTypeOK, BackInv, [PresenceNext]_presenceVars,
                    serial', joinFailures' = 0
             PROVE  /\ ~erased'
                    /\ lastSeen' = "stale" /\ offline' =>
                          \A t \in online' \cup saving' : joining'[t] # "no"
  BY DEF BackInv
<1> USE DEF PresenceTypeOK
<1>0. /\ serial /\ joinFailures = 0 /\ ~erased
      /\ lastSeen = "stale" /\ offline => \A t \in online \cup saving : joining[t] # "no"
  <2>1. serial' = serial /\ joinFailures' \in {joinFailures, joinFailures + 1}
    BY DEF PresenceNext, presenceVars, ConnectTab, DisconnectTab, TakeOver, JoinFails,
           JoinTouches, Heartbeat, HeartbeatTouches, SaveAnswer, SaveRecords, GoStale
  <2>2. QED
    BY <2>1 DEF BackInv
<1> DEFINE Kept == /\ ~erased'
                   /\ lastSeen' = "stale" /\ offline' =>
                         \A u \in online' \cup saving' : joining'[u] # "no"
<1>1. ASSUME NEW t \in Tabs, ConnectTab(t) PROVE Kept
  BY <1>0, <1>1 DEF ConnectTab
<1>2. ASSUME NEW t \in Tabs, DisconnectTab(t) PROVE Kept
  BY <1>0, <1>2 DEF DisconnectTab
<1>3. ASSUME NEW t \in Tabs, TakeOver(t) PROVE Kept
  BY <1>0, <1>3 DEF TakeOver
<1>4. ASSUME NEW t \in Tabs, JoinFails(t) PROVE Kept
  BY <1>0, <1>4 DEF JoinFails
<1>5. ASSUME NEW t \in Tabs, JoinTouches(t) PROVE Kept
  <2>1. /\ UNCHANGED <<online, saving, offline, erased>>
        /\ lastSeen' = "fresh" \/ (lastSeen' = lastSeen /\ joining'[t] # "no")
        /\ \A u \in Tabs \ {t} : joining'[u] = joining[u]
    BY <1>5 DEF JoinTouches, TouchPresence, Seen
  <2>2. QED
    BY <1>0, <2>1
<1>6. ASSUME NEW t \in Tabs, Heartbeat(t) PROVE Kept
  BY <1>0, <1>6 DEF Heartbeat
<1>7. ASSUME NEW t \in Tabs, HeartbeatTouches(t) PROVE Kept
  <2>1. /\ UNCHANGED <<online, saving, offline, erased, joining>>
        /\ lastSeen' \in {"fresh", lastSeen}
    BY <1>7 DEF HeartbeatTouches, TouchPresence, Seen
  <2>2. QED
    BY <1>0, <2>1
<1>8. ASSUME NEW t \in Tabs, SaveAnswer(t) PROVE Kept
  BY <1>0, <1>8 DEF SaveAnswer, InTurn
<1>9. ASSUME NEW t \in Tabs, SaveRecords(t) PROVE Kept
  <2>1. ~(lastSeen = "stale" /\ offline)
    BY <1>0, <1>9 DEF SaveRecords
  <2>2. QED
    BY <1>0, <1>9, <2>1 DEF SaveRecords
<1>10. CASE GoStale
  <2>1. online = {} \/ ~offline'
    BY <1>10 DEF GoStale
  <2>2. QED
    BY <1>0, <1>10, <2>1 DEF GoStale
<1>11. CASE UNCHANGED presenceVars
  BY <1>0, <1>11 DEF presenceVars
<1>12. QED
  BY <1>1, <1>2, <1>3, <1>4, <1>5, <1>6, <1>7, <1>8, <1>9, <1>10, <1>11 DEF PresenceNext

\* An absence of more than 75 s is recorded at most once, however many tabs and events
\* find it, and one spent offline is not overwritten by what is saved on coming back.
THEOREM AbsencesAreRecorded == PresenceSpec => []GapsRecorded
<1>1. PresenceInit => OnceInv /\ BackInv
  BY DEF PresenceInit, OnceInv, BackInv
<1>2. PresenceTypeOK /\ OnceInv /\ BackInv => GapsRecorded
  BY DEF PresenceTypeOK, OnceInv, BackInv, GapsRecorded, GapRecordedOnce,
         OfflineGapsKeptInTurn, OfflineGapsKept
<1>3. QED
  BY <1>1, <1>2, PresenceTypeCorrect, OnceStep, BackStep, PTL DEF PresenceSpec

===============================================================================
