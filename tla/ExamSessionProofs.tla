--------------------------- MODULE ExamSessionProofs ---------------------------
(***************************************************************************)
(* Proofs about ExamSession, for every set of fields, flushers, requests   *)
(* and job runners and every bound.                                        *)
(***************************************************************************)
EXTENDS ExamSession, TLAPS

-------------------------------------------------------------------------------
(* What the operators on answers return.                                   *)

\* The empty answers are answers.
LEMMA BlankType == Blank \in Answers
  BY DEF Blank, Answers

\* Merging answers gives answers.
LEMMA MergeType ==
    ASSUME NEW base \in Answers, NEW over \in Answers
    PROVE  Merge(base, over) \in Answers
  BY DEF Merge, Answers

\* Filtering answers gives answers.
LEMMA AcceptedType ==
    ASSUME NEW staged \in Answers, NEW answers
    PROVE  Accepted(staged, answers) \in Answers
  BY DEF Accepted, Answers

\* What a worker writes is answers.
LEMMA StagedType ==
    ASSUME TypeOK, NEW w \in Workers
    PROVE  Staged(w) \in Answers /\ Final(w) \in Answers
<1>1. buf[w] \in Answers /\ stored[w] \in Answers
  BY DEF TypeOK
<1>2. Staged(w) \in Answers
  BY <1>1, AcceptedType DEF Staged
<1>3. QED
  BY <1>1, <1>2, MergeType DEF Final

-------------------------------------------------------------------------------
(* Type correctness.                                                       *)

\* Returning from an activity keeps the types of its locals.
LEMMA ReturnType ==
    ASSUME TypeOK, NEW w \in Workers, NEW label \in Labels, Return(w, label)
    PROVE  /\ pc' \in [Workers -> Labels]
           /\ buf' \in [Workers -> Answers]
           /\ stored' \in [Workers -> Answers]
           /\ seen' \in [Workers -> Statuses \cup {"none"}]
           /\ acked' \in [Workers -> Answers]
  BY BlankType DEF TypeOK, Return

\* Going to a label keeps the type of the program counters.
LEMMA GotoType ==
    ASSUME TypeOK, NEW w \in Workers, NEW label \in Labels, Goto(w, label)
    PROVE  pc' \in [Workers -> Labels]
  BY DEF TypeOK, Goto

\* The variables start with their types.
LEMMA TypeInit == Init => TypeOK
<1> SUFFICES ASSUME Init PROVE TypeOK
  OBVIOUS
<1>1. /\ score \in {"none", "graded", "teacher"} \X Answers
      /\ row \in Answers /\ stash \in Answers /\ coding \in Answers
      /\ issued \in Answers /\ sealed \in Answers /\ cutoff \in Answers
  BY BlankType DEF Init, NoScore
<1>2. /\ pc \in [Workers -> Labels]
      /\ buf \in [Workers -> Answers] /\ stored \in [Workers -> Answers]
      /\ acked \in [Workers -> Answers]
      /\ seen \in [Workers -> Statuses \cup {"none"}]
  BY BlankType DEF Init, Labels
<1>3. QED
  BY <1>1, <1>2 DEF Init, TypeOK, Statuses

\* The environment's steps keep the types.
LEMMA TypeEnvironment ==
    ASSUME TypeOK,
           \/ \E P \in Patches : StageAnswers(P)
           \/ \E q \in Questions : ResaveAnswer(q)
           \/ \E c \in CodingFields : RecordCodingResult(c)
           \/ \E c \in CodingFields, v \in 1..MaxSaves : PersistCodingResult(c, v)
           \/ ExpireLock \/ DeadlinePasses \/ Sweep
           \/ TerminateForViolation \/ TeacherTerminates \/ TeacherReopens
           \/ EvictMeta \/ Regrade \/ CrashRequest
    PROVE  TypeOK'
<1> USE BlankType DEF TypeOK, rowVars, queueVars, localVars, boundVars, historyVars
<1>1. ASSUME NEW P \in Patches, StageAnswers(P)
      PROVE  TypeOK'
  <2>1. issued' \in Answers
    BY <1>1 DEF StageAnswers, Answers
  <2>2. stash' \in Answers /\ sealed' \in Answers
    BY <1>1, <2>1 DEF StageAnswers, Answers
  <2>3. QED
    BY <1>1, <2>1, <2>2 DEF StageAnswers
<1>2. ASSUME NEW c \in CodingFields, RecordCodingResult(c)
      PROVE  TypeOK'
  <2>1. c \in Fields
    BY DEF Fields
  <2>2. issued' \in Answers /\ issued'[c] \in Nat
    BY <1>2, <2>1 DEF RecordCodingResult, Answers
  <2>3. coding' \in Answers
    BY <1>2, <2>1, <2>2 DEF RecordCodingResult, Answers
  <2>4. QED
    BY <1>2, <2>2, <2>3 DEF RecordCodingResult
<1>3. ASSUME NEW c \in CodingFields, NEW v \in 1..MaxSaves, PersistCodingResult(c, v)
      PROVE  TypeOK'
  <2>1. c \in Fields /\ v \in Nat
    BY <1>3 DEF Fields, PersistCodingResult
  <2>2. row' \in Answers
    BY <1>3, <2>1 DEF PersistCodingResult, Answers
  <2>3. QED
    BY <1>3, <2>2 DEF PersistCodingResult
<1>4. CASE ExpireLock
  BY <1>4 DEF ExpireLock
<1>5. CASE DeadlinePasses
  BY <1>5 DEF DeadlinePasses
<1>6. CASE Sweep
  BY <1>6 DEF Sweep
<1>7. CASE TerminateForViolation
  BY <1>7 DEF TerminateForViolation, Statuses
<1>8. CASE TeacherTerminates
  BY <1>8 DEF TeacherTerminates, Statuses
<1>9. CASE TeacherReopens
  BY <1>9 DEF TeacherReopens, Statuses
<1>10. CASE EvictMeta
  BY <1>10 DEF EvictMeta
<1>11. CASE Regrade
  BY <1>11 DEF Regrade, TeacherScore
<1>12. CASE CrashRequest
  <2>1. crashes' \in Nat
    BY <1>12 DEF CrashRequest
  <2>2. evicting' \in BOOLEAN
    BY <1>12 DEF CrashRequest
  <2>3. codingWrites' \subseteq CodingFields \X Nat
    BY <1>12 DEF CrashRequest
  <2>4. UNCHANGED <<rowVars, stash, coding, due, lock, tries, meta, queueVars,
                    localVars, past, fails, reopens, historyVars>>
    BY <1>12 DEF CrashRequest
  <2>5. QED
    BY <2>1, <2>2, <2>3, <2>4
<1>13. ASSUME NEW q \in Questions, ResaveAnswer(q)
       PROVE  TypeOK'
  <2>1. stash' \in Answers
    BY <1>13 DEF ResaveAnswer, Answers, Fields, ClientFields
  <2>2. QED
    BY <1>13, <2>1 DEF ResaveAnswer
<1>14. QED
  BY <1>13, <1>1, <1>2, <1>3, <1>4, <1>5, <1>6, <1>7, <1>8, <1>9, <1>10, <1>11, <1>12

\* The steps of a flush keep the types.
LEMMA TypeFlush ==
    ASSUME TypeOK, NEW w \in Flushers, FlushStep(w)
    PROVE  TypeOK'
<1> USE DEF TypeOK, rowVars, queueVars, localVars, boundVars, historyVars
<1>w. w \in Workers
  BY DEF Workers
<1>1. CASE PopDue(w) \/ AcquireLock(w) \/ LockBusy(w)
  <2>1. PICK label \in Labels : Goto(w, label)
    BY <1>1 DEF PopDue, AcquireLock, LockBusy, Labels
  <2>2. pc' \in [Workers -> Labels]
    BY <1>w, <2>1, GotoType
  <2>3. CASE PopDue(w)
    BY <2>2, <2>3 DEF PopDue
  <2>4. CASE AcquireLock(w)
    BY <2>2, <2>4 DEF AcquireLock
  <2>5. CASE LockBusy(w)
    BY <2>2, <2>5 DEF LockBusy
  <2>6. QED
    BY <1>1, <2>3, <2>4, <2>5
<1>2. CASE ReadStash(w) \/ ReadMeta(w) \/ FillMeta(w) \/ ReadRow(w)
  BY <1>2, <1>w DEF ReadStash, ReadMeta, FillMeta, ReadRow, Goto, Labels
<1>3. CASE PersistStaged(w)
  <2>1. row' \in Answers
    BY <1>3, <1>w, StagedType, MergeType DEF PersistStaged
  <2>2. score' \in {"none", "graded", "teacher"} \X Answers
    BY <1>3, <1>w, StagedType, BlankType DEF PersistStaged, NoScore, Graded
  <2>3. QED
    BY <1>3, <1>w, <2>1, <2>2 DEF PersistStaged, Goto, Labels
<1>4. CASE ClearFlushed(w)
  <2>1. stash' \in Answers
    BY <1>4 DEF ClearFlushed, Answers
  <2>2. discarded' \subseteq ClientFields
    BY <1>4 DEF ClearFlushed, Cleared
  <2>3. QED
    BY <1>4, <1>w, <2>1, <2>2 DEF ClearFlushed, Goto, Labels
<1>5. CASE EnqueueAnalytics(w)
  <2>1. Staged(w) \in Answers
    BY <1>w, StagedType
  <2>2. \A q \in Questions : Staged(w)[q] \in Nat
    BY <2>1 DEF Answers, Fields, ClientFields
  <2>3. NewAttempts(w) \subseteq Questions \X Nat
    BY <2>2 DEF NewAttempts
  <2>4. QED
    BY <1>5, <1>w, <2>3 DEF EnqueueAnalytics, Goto, Labels
<1>6. CASE ReleaseLock(w)
  BY <1>6, <1>w, ReturnType DEF ReleaseLock, Labels
<1>7. QED
  BY <1>1, <1>2, <1>3, <1>4, <1>5, <1>6 DEF FlushStep

\* Reading what is to be submitted keeps the types.
LEMMA CollectType ==
    ASSUME TypeOK, NEW w \in Workers, NEW finals \in Answers, Collect(w, finals)
    PROVE  TypeOK'
<1> DEFINE read == [f \in Fields |-> IF f \in CodingFields THEN coding[f]
                                     ELSE Merge(stash, finals)[f]]
           saved == [f \in Fields |-> IF f \in discarded THEN 0 ELSE issued[f]]
<1>1. Merge(stash, finals) \in Answers
  BY MergeType DEF TypeOK
<1>2. read \in Answers /\ saved \in Answers
  BY <1>1 DEF TypeOK, Answers
<1>3. buf' = [buf EXCEPT ![w] = read] /\ acked' = [acked EXCEPT ![w] = saved]
  BY DEF Collect
<1> HIDE DEF read, saved
<1>4. buf' \in [Workers -> Answers] /\ acked' \in [Workers -> Answers]
  BY <1>2, <1>3 DEF TypeOK
<1>5. pc' \in [Workers -> Labels]
  BY GotoType DEF Collect, Labels
<1>6. QED
  BY <1>4, <1>5 DEF Collect, TypeOK, rowVars, queueVars, boundVars

\* The steps of a completion keep the types.
LEMMA TypeSubmit ==
    ASSUME TypeOK, NEW w \in Workers, SubmitStep(w)
    PROVE  TypeOK'
<1> USE DEF TypeOK, rowVars, queueVars, localVars, boundVars, historyVars
<1>r. /\ "idle" \in Labels /\ "release" \in Labels /\ "complete" \in Labels
      /\ "readForSubmit" \in Labels /\ "clearStash" \in Labels
      /\ "followUp" \in Labels
  BY DEF Labels
<1>e. ASSUME EndSubmit(w)
      PROVE  /\ pc' \in [Workers -> Labels]
             /\ buf' \in [Workers -> Answers]
             /\ stored' \in [Workers -> Answers]
             /\ seen' \in [Workers -> Statuses \cup {"none"}]
             /\ acked' \in [Workers -> Answers]
             /\ autoJob' \in {"none", "queued", "active"}
  <2>1. PICK label \in Labels : Return(w, label)
    BY <1>e, <1>r DEF EndSubmit
  <2>2. QED
    BY <1>e, <2>1, ReturnType DEF EndSubmit
<1>1. CASE CollectForAutoSubmit(w)
  BY <1>1, BlankType, CollectType DEF CollectForAutoSubmit
<1>2. CASE ReadForSubmit(w)
  <2>1. CASE status = "IN_PROGRESS"
    BY <1>2, <2>1, <1>r, GotoType DEF ReadForSubmit
  <2>2. CASE status # "IN_PROGRESS"
    BY <1>2, <2>2, <1>e DEF ReadForSubmit
  <2>3. QED
    BY <2>1, <2>2
<1>3. CASE CompleteSession(w)
  <2>1. CASE RowAcceptsCompletion
    <3>1. Final(w) \in Answers
      BY StagedType
    <3>2. score' \in {"none", "graded", "teacher"} \X Answers
      BY <1>3, <2>1, <3>1 DEF CompleteSession, Graded
    <3>3. QED
      BY <1>3, <2>1, <3>1, <3>2, <1>r, GotoType DEF CompleteSession, Statuses
  <2>2. CASE ~RowAcceptsCompletion
    BY <1>3, <2>2, <1>e DEF CompleteSession
  <2>3. QED
    BY <2>1, <2>2
<1>4. CASE ClearStash(w)
  BY <1>4, <1>r, BlankType, GotoType DEF ClearStash
<1>5. CASE FollowUp(w)
  BY <1>5, <1>e DEF FollowUp
<1>6. QED
  BY <1>1, <1>2, <1>3, <1>4, <1>5 DEF SubmitStep

\* Exceptions and crashes keep the types.
LEMMA TypeFaults ==
    ASSUME TypeOK,
           \/ \E w \in Flushers : FlushFails(w)
           \/ \E w \in Submitters \cup JobRunners : SubmitFails(w)
           \/ \E w \in Workers : Crash(w)
    PROVE  TypeOK'
<1> USE DEF TypeOK, rowVars, queueVars
<1>r. "idle" \in Labels
  BY DEF Labels
<1>1. ASSUME NEW w \in Flushers, FlushFails(w)
      PROVE  TypeOK'
  <2>1. Return(w, "idle") /\ w \in Workers
    BY <1>1 DEF FlushFails, Workers
  <2>2. tries' \in Nat /\ fails' \in Nat
    <3>1. (tries' = tries + 1 \/ tries' = tries) /\ fails' = fails + 1
      BY <1>1, Zenon DEF FlushFails
    <3>2. QED
      BY <3>1
  <2>3. due' \in BOOLEAN
    <3>1. due' = TRUE \/ due' = due
      BY <1>1, Zenon DEF FlushFails
    <3>2. QED
      BY <3>1
  <2>4. lock' \in Flushers \cup {NoOne, Nobody}
    BY <1>1 DEF FlushFails
  <2>5. QED
    BY <1>1, <2>1, <2>2, <2>3, <2>4, <1>r, ReturnType DEF FlushFails
<1>2. ASSUME NEW w \in Submitters \cup JobRunners, SubmitFails(w)
      PROVE  TypeOK'
  <2>1. Return(w, "idle") /\ w \in Workers
    BY <1>2 DEF SubmitFails, Workers
  <2>2. autoJob' \in {"none", "queued", "active"} /\ fails' \in Nat
    BY <1>2 DEF SubmitFails, JobAfterFailure
  <2>3. QED
    BY <1>2, <2>1, <2>2, <1>r, ReturnType DEF SubmitFails
<1>3. ASSUME NEW w \in Workers, Crash(w)
      PROVE  TypeOK'
  <2>1. Return(w, "idle")
    BY <1>3 DEF Crash
  <2>2. autoJob' \in {"none", "queued", "active"} /\ crashes' \in Nat
    BY <1>3 DEF Crash, JobAfterFailure
  <2>3. QED
    BY <1>3, <2>1, <2>2, <1>r, ReturnType DEF Crash
<1>4. QED
  BY <1>1, <1>2, <1>3

\* Every step keeps the types.
LEMMA TypeStep ==
    ASSUME TypeOK, [Next]_vars
    PROVE  TypeOK'
<1>1. CASE UNCHANGED vars
  BY <1>1 DEF TypeOK, vars, rowVars, queueVars, localVars, boundVars,
                    historyVars
<1>2. ASSUME NEW w \in Submitters, StartSubmit(w)
      PROVE  TypeOK'
  <2>1. PICK sync \in BOOLEAN :
           Collect(w, [f \in Fields |->
                         IF sync /\ f \in Questions THEN issued[f] ELSE 0])
    BY <1>2 DEF StartSubmit
  <2>2. [f \in Fields |-> IF sync /\ f \in Questions THEN issued[f] ELSE 0]
           \in Answers
    BY DEF TypeOK, Answers
  <2>3. QED
    BY <2>1, <2>2, CollectType DEF Workers
<1>3. ASSUME NEW w \in JobRunners, TakeJob(w)
      PROVE  TypeOK'
  <2>1. pc' \in [Workers -> Labels]
    BY <1>3, GotoType DEF TakeJob, Workers, Labels
  <2>2. QED
    BY <1>3, <2>1 DEF TakeJob, TypeOK, rowVars, boundVars, historyVars
<1>4. CASE Next
  BY <1>2, <1>3, <1>4, TypeEnvironment, TypeFlush, TypeSubmit, TypeFaults
     DEF Next, Workers
<1>5. QED
  BY <1>1, <1>4

\* Every variable keeps its type.
THEOREM TypeCorrect == Spec => []TypeOK
<1>1. TypeOK /\ [Next]_vars => TypeOK'
  BY TypeStep
<1>2. QED
  BY TypeInit, <1>1, PTL DEF Spec

-------------------------------------------------------------------------------
(* Steps that move no program counter.                                     *)

\* Students' saves, code runs, timers and teachers.
Environment ==
    \/ \E P \in Patches : StageAnswers(P)
    \/ \E q \in Questions : ResaveAnswer(q)
    \/ \E c \in CodingFields : RecordCodingResult(c)
    \/ \E c \in CodingFields, v \in 1..MaxSaves : PersistCodingResult(c, v)
    \/ DeadlinePasses \/ Sweep
    \/ TerminateForViolation \/ TeacherTerminates \/ TeacherReopens
    \/ EvictMeta \/ Regrade \/ CrashRequest

\* The environment moves no activity and no lock.
LEMMA EnvironmentMovesNobody ==
    ASSUME Environment
    PROVE  UNCHANGED <<pc, lock, buf, effects>>
  BY DEF Environment, StageAnswers, ResaveAnswer, RecordCodingResult, PersistCodingResult,
         DeadlinePasses, Sweep, TerminateForViolation, TeacherTerminates,
         TeacherReopens, EvictMeta, Regrade, CrashRequest, localVars, queueVars

-------------------------------------------------------------------------------
(* Mutual exclusion of flushes.                                            *)

\* The steps of a flush keep its lock to itself.
LEMMA HolderFlush ==
    ASSUME TypeOK, HolderInv, NEW w \in Flushers, FlushStep(w), ~LockMayExpire
    PROVE  HolderInv'
<1> USE WorkersAssumption DEF TypeOK, HolderInv, InFlush
<1>w. w \in Workers
  BY DEF Workers
<1>1. CASE PopDue(w)
  BY <1>1, <1>w DEF PopDue, Goto, Workers
<1>2. CASE AcquireLock(w)
  BY <1>2, <1>w DEF AcquireLock, LockFree, Goto, Workers
<1>3. CASE LockBusy(w)
  BY <1>3, <1>w DEF LockBusy, Goto, Workers
<1>4. CASE ReadStash(w) \/ ReadMeta(w) \/ FillMeta(w) \/ ReadRow(w)
  BY <1>4, <1>w DEF ReadStash, ReadMeta, FillMeta, ReadRow, Goto, Workers
<1>5. CASE PersistStaged(w) \/ ClearFlushed(w) \/ EnqueueAnalytics(w)
  BY <1>5, <1>w DEF PersistStaged, ClearFlushed, EnqueueAnalytics, Goto, Workers
<1>6. CASE ReleaseLock(w)
  BY <1>6, <1>w DEF ReleaseLock, Return, Workers
<1>7. QED
  BY <1>1, <1>2, <1>3, <1>4, <1>5, <1>6 DEF FlushStep

\* A completion, on its own or inside a flush, moves no lock.
LEMMA HolderSubmit ==
    ASSUME TypeOK, HolderInv, NEW w \in Workers,
           SubmitStep(w) \/ (w \in Submitters /\ StartSubmit(w))
                         \/ (w \in JobRunners /\ TakeJob(w)),
           ~LockMayExpire
    PROVE  HolderInv'
<1>1. lock' = lock
  BY DEF SubmitStep, StartSubmit, TakeJob, CollectForAutoSubmit, Collect,
         ReadForSubmit, CompleteSession, ClearStash, FollowUp
<1>2. /\ \A v \in Flushers : v # w => pc'[v] = pc[v]
      /\ w \in Flushers => InFlush(w)
  BY WorkersAssumption
     DEF TypeOK, SubmitStep, StartSubmit, TakeJob, CollectForAutoSubmit, Collect,
         ReadForSubmit, CompleteSession, ClearStash, FollowUp, EndSubmit, Goto,
         Return, Workers, InFlush
<1>3. QED
  BY <1>1, <1>2 DEF HolderInv, InFlush

\* Failing or crashing, an activity no longer flushes and gives up its lock.
LEMMA HolderFaults ==
    ASSUME TypeOK, HolderInv, ~LockMayExpire,
           \/ \E w \in Flushers : FlushFails(w)
           \/ \E w \in Submitters \cup JobRunners : SubmitFails(w)
           \/ \E w \in Workers : Crash(w)
    PROVE  HolderInv'
<1> USE WorkersAssumption DEF TypeOK, HolderInv, InFlush, Return, Workers
<1>1. ASSUME NEW w \in Flushers, FlushFails(w)
      PROVE  HolderInv'
  <2>1. Return(w, "idle") /\ (lock # w => lock' = lock)
    BY <1>1, Zenon DEF FlushFails
  <2>2. QED
    BY <2>1
<1>2. ASSUME NEW w \in Submitters \cup JobRunners, SubmitFails(w)
      PROVE  HolderInv'
  BY <1>2 DEF SubmitFails
<1>3. ASSUME NEW w \in Workers, Crash(w)
      PROVE  HolderInv'
  BY <1>3 DEF Crash
<1>4. QED
  BY <1>1, <1>2, <1>3

\* Whoever is flushing keeps the lock in every step.
LEMMA HolderStep ==
    ASSUME TypeOK, HolderInv, [Next]_vars
    PROVE  HolderInv'
<1>1. CASE LockMayExpire
  BY <1>1 DEF HolderInv
<1>2. CASE ~LockMayExpire
  <2>1. CASE UNCHANGED vars \/ Environment
    BY <2>1, EnvironmentMovesNobody DEF HolderInv, InFlush, vars, localVars
  <2>2. CASE ExpireLock
    <3>1. lock = Nobody /\ pc' = pc
      BY <1>2, <2>2 DEF ExpireLock, localVars
    <3>2. QED
      BY <3>1, WorkersAssumption DEF HolderInv, InFlush, Workers
  <2>3. CASE Next
    BY <1>2, <2>1, <2>2, <2>3, HolderFlush, HolderSubmit, HolderFaults
       DEF Next, Environment, Workers
  <2>4. QED
    BY <2>1, <2>3
<1>3. QED
  BY <1>1, <1>2

\* Two backend instances never flush the same session at once, provided no flush
\* outlives the TTL of its lock: this is what makes the staged answers, their
\* grade and their analytics one writer's business.
THEOREM FlushesAreExclusive ==
    ASSUME ~LockMayExpire
    PROVE  Spec => []FlushesExclusive
<1>1. Init => HolderInv
  BY DEF Init, HolderInv, InFlush, Workers
<1>2. TypeOK /\ HolderInv /\ [Next]_vars => HolderInv'
  BY HolderStep
<1>3. HolderInv => FlushesExclusive
  BY DEF HolderInv, FlushesExclusive
<1>4. QED
  BY <1>1, <1>2, <1>3, TypeCorrect, PTL DEF Spec

-------------------------------------------------------------------------------
(* A completed session is final; the lifecycle is refined.                 *)

\* A step leaves the row alone, or is one of the five writers of the row.
LEMMA RowWriters ==
    ASSUME [Next]_vars
    PROVE  \/ UNCHANGED rowVars
           \/ \E c \in CodingFields, v \in 1..MaxSaves : PersistCodingResult(c, v)
           \/ \E w \in Flushers : PersistStaged(w)
           \/ \E w \in Workers : CompleteSession(w)
           \/ TerminateForViolation \/ TeacherTerminates \/ TeacherReopens
           \/ Regrade
<1>1. CASE UNCHANGED vars
  BY <1>1 DEF vars
<1>2. ASSUME NEW w \in Flushers, FlushStep(w)
      PROVE  UNCHANGED rowVars \/ PersistStaged(w)
  BY <1>2 DEF FlushStep, PopDue, AcquireLock, LockBusy, ReadStash, ReadMeta, FillMeta,
              ReadRow, ClearFlushed, EnqueueAnalytics, ReleaseLock
<1>3. ASSUME NEW w \in Workers, SubmitStep(w)
      PROVE  UNCHANGED rowVars \/ CompleteSession(w)
  BY <1>3 DEF SubmitStep, CollectForAutoSubmit, Collect, ReadForSubmit, ClearStash,
              FollowUp
<1>4. ASSUME NEW w \in Workers,
             FlushFails(w) \/ SubmitFails(w) \/ Crash(w) \/ StartSubmit(w) \/ TakeJob(w)
      PROVE  UNCHANGED rowVars
  BY <1>4 DEF FlushFails, SubmitFails, Crash, StartSubmit, TakeJob, Collect
<1>5. ASSUME \/ \E P \in Patches : StageAnswers(P)
             \/ \E q \in Questions : ResaveAnswer(q)
             \/ \E c \in CodingFields : RecordCodingResult(c)
             \/ ExpireLock \/ DeadlinePasses \/ Sweep \/ EvictMeta \/ CrashRequest
      PROVE  UNCHANGED rowVars
  BY <1>5 DEF StageAnswers, ResaveAnswer, RecordCodingResult, ExpireLock, DeadlinePasses, Sweep,
              EvictMeta, CrashRequest
<1>6. CASE Next
  BY <1>2, <1>3, <1>4, <1>5, <1>6 DEF Next, Workers
<1>7. QED
  BY <1>1, <1>6

\* Once COMPLETED, a session's status and answers never change again and its score
\* only by a teacher's regrading, however flushes, coding results, jobs, submits,
\* violations and teacher requests still in flight end.
THEOREM CompletedStaysFinal == Spec => CompletedIsFinal
<1>1. ASSUME [Next]_vars, status = "COMPLETED"
      PROVE  UNCHANGED <<status, row>> /\ score' \in {score, TeacherScore}
  <2>1. CASE UNCHANGED rowVars
    BY <2>1 DEF rowVars
  <2>2. ASSUME NEW c \in CodingFields, NEW v \in 1..MaxSaves, PersistCodingResult(c, v)
        PROVE  UNCHANGED rowVars
    BY <1>1, <2>2 DEF PersistCodingResult, rowVars
  <2>3. ASSUME NEW w \in Flushers, PersistStaged(w)
        PROVE  UNCHANGED rowVars
    BY <1>1, <2>3 DEF PersistStaged, RowAcceptsFlush, rowVars
  <2>4. ASSUME NEW w \in Workers, CompleteSession(w)
        PROVE  UNCHANGED rowVars
    BY <1>1, <2>4 DEF CompleteSession, RowAcceptsCompletion, rowVars
  <2>5. CASE Regrade
    BY <2>5 DEF Regrade
  <2>6. ~TerminateForViolation /\ ~TeacherTerminates /\ ~TeacherReopens
    BY <1>1 DEF TerminateForViolation, TeacherTerminates, TeacherReopens
  <2>7. QED
    BY <1>1, <2>1, <2>2, <2>3, <2>4, <2>5, <2>6, RowWriters DEF rowVars
<1>2. QED
  BY <1>1, PTL DEF Spec, CompletedIsFinal

\* Apart from completions and their follow-up, no step starts a follow-up, makes an
\* activity owe one, or takes a session out of COMPLETED.
LEMMA OtherStepsOweNothing ==
    ASSUME TypeOK, [Next]_vars,
           \A w \in Workers : ~(CompleteSession(w) \/ ClearStash(w) \/ FollowUp(w))
    PROVE  /\ effects' = effects
           /\ \A w \in Workers : Finishing(w)' => Finishing(w)
           /\ status = "COMPLETED" => status' = "COMPLETED"
<1> USE DEF Finishing, TypeOK
<1>s. status = "COMPLETED" => status' = "COMPLETED"
  BY RowWriters
     DEF rowVars, PersistCodingResult, PersistStaged, TerminateForViolation,
         TeacherTerminates, TeacherReopens, Regrade
<1>1. CASE UNCHANGED vars
  BY <1>1, <1>s DEF vars, queueVars, localVars
<1>2. CASE Environment \/ ExpireLock
  BY <1>2, <1>s, EnvironmentMovesNobody DEF ExpireLock, queueVars, localVars
<1>3. ASSUME NEW w \in Flushers, FlushStep(w)
      PROVE  /\ effects' = effects
             /\ \A v \in Workers : Finishing(v)' => Finishing(v)
  BY <1>3 DEF FlushStep, PopDue, AcquireLock, LockBusy, ReadStash, ReadMeta, FillMeta,
              ReadRow, PersistStaged, ClearFlushed, EnqueueAnalytics, ReleaseLock,
              Goto, Return, queueVars, Workers
<1>4. ASSUME NEW w \in Workers, SubmitStep(w)
      PROVE  /\ effects' = effects
             /\ \A v \in Workers : Finishing(v)' => Finishing(v)
  BY <1>4 DEF SubmitStep, CollectForAutoSubmit, Collect, ReadForSubmit, EndSubmit,
              Goto, Return, queueVars
<1>5. ASSUME NEW w \in Workers, FlushFails(w) \/ SubmitFails(w) \/ Crash(w)
      PROVE  /\ effects' = effects
             /\ \A v \in Workers : Finishing(v)' => Finishing(v)
  <2>1. effects' = effects /\ Return(w, "idle")
    BY <1>5 DEF FlushFails, SubmitFails, Crash, queueVars
  <2>2. QED
    BY <2>1 DEF Return
<1>6. ASSUME NEW w \in Workers, StartSubmit(w) \/ TakeJob(w)
      PROVE  /\ effects' = effects
             /\ \A v \in Workers : Finishing(v)' => Finishing(v)
  BY <1>6 DEF StartSubmit, TakeJob, Collect, Goto, queueVars
<1>7. CASE Next
  BY <1>2, <1>3, <1>4, <1>5, <1>6, <1>7, <1>s DEF Next, Environment, Workers
<1>8. QED
  BY <1>1, <1>7

\* At most one activity completes the session, and it follows it up at most once.
LEMMA FollowUpStep ==
    ASSUME TypeOK, FollowUpInv, [Next]_vars
    PROVE  FollowUpInv'
<1> USE DEF FollowUpInv
<1>1. ASSUME NEW w \in Workers, CompleteSession(w)
      PROVE  FollowUpInv'
  <2>1. CASE RowAcceptsCompletion
    <3>1. effects = 0 /\ \A v \in Workers : ~Finishing(v)
      BY <2>1 DEF RowAcceptsCompletion
    <3>2. /\ status' = "COMPLETED" /\ effects' = effects
          /\ \A v \in Workers : Finishing(v)' => v = w
      BY <1>1, <2>1, <3>1 DEF CompleteSession, Goto, Finishing, TypeOK
    <3>3. QED
      BY <3>1, <3>2
  <2>2. CASE ~RowAcceptsCompletion
    <3>1. /\ status' = status /\ effects' = effects
          /\ \A v \in Workers : Finishing(v)' => Finishing(v)
      BY <1>1, <2>2 DEF CompleteSession, EndSubmit, Return, Finishing, TypeOK, rowVars
    <3>2. QED
      BY <3>1
  <2>3. QED
    BY <2>1, <2>2
<1>2. ASSUME NEW w \in Workers, ClearStash(w)
      PROVE  FollowUpInv'
  <2>1. /\ status' = status /\ effects' = effects /\ Finishing(w)
        /\ \A v \in Workers : Finishing(v)' => Finishing(v)
    BY <1>2 DEF ClearStash, Goto, Finishing, TypeOK, rowVars, queueVars
  <2>2. QED
    BY <2>1
<1>3. ASSUME NEW w \in Workers, FollowUp(w)
      PROVE  FollowUpInv'
  <2>1. Finishing(w) /\ status = "COMPLETED" /\ effects = 0
    BY <1>3 DEF FollowUp, Finishing
  <2>2. /\ status' = "COMPLETED" /\ effects' = 1
        /\ \A v \in Workers : ~Finishing(v)'
    BY <1>3, <2>1 DEF FollowUp, EndSubmit, Return, Finishing, TypeOK, rowVars
  <2>3. QED
    BY <2>2
<1>4. CASE \A w \in Workers : ~(CompleteSession(w) \/ ClearStash(w) \/ FollowUp(w))
  BY <1>4, OtherStepsOweNothing
<1>5. QED
  BY <1>1, <1>2, <1>3, <1>4

\* The session implements SessionLifecycle: no interleaving of submits, jobs, late
\* flushes, violations and teacher requests completes it twice, follows it up twice,
\* or revives it except by a teacher's reopening of a terminated one.
THEOREM ImplementsLifecycle == Spec => KeepsLifecycle
<1>1. Init => Lifecycle!Init /\ FollowUpInv
  BY DEF Init, Lifecycle!Init, FollowUpInv, Finishing
<1>2. TypeOK /\ FollowUpInv /\ [Next]_vars => FollowUpInv'
  BY FollowUpStep
<1>3. ASSUME TypeOK, FollowUpInv, [Next]_vars
      PROVE  [Lifecycle!Next]_(Lifecycle!lifecycleVars)
  <2> USE DEF Lifecycle!Next, Lifecycle!lifecycleVars, Lifecycle!Complete,
              Lifecycle!Terminate, Lifecycle!Reopen, Lifecycle!FollowUp
  <2>1. ASSUME NEW w \in Workers, CompleteSession(w)
        PROVE  [Lifecycle!Next]_(Lifecycle!lifecycleVars)
    BY <2>1 DEF CompleteSession, RowAcceptsCompletion, rowVars
  <2>2. ASSUME NEW w \in Workers, ClearStash(w)
        PROVE  [Lifecycle!Next]_(Lifecycle!lifecycleVars)
    BY <2>2 DEF ClearStash, rowVars, queueVars
  <2>3. ASSUME NEW w \in Workers, FollowUp(w)
        PROVE  [Lifecycle!Next]_(Lifecycle!lifecycleVars)
    <3>1. status = "COMPLETED" /\ effects = 0
      BY <1>3, <2>3 DEF FollowUp, FollowUpInv, Finishing
    <3>2. status' = status /\ effects' = 1
      BY <2>3, <3>1 DEF FollowUp, rowVars
    <3>3. QED
      BY <3>1, <3>2
  <2>4. CASE \A w \in Workers : ~(CompleteSession(w) \/ ClearStash(w) \/ FollowUp(w))
    <3>1. effects' = effects
      BY <1>3, <2>4, OtherStepsOweNothing
    <3>2. \/ status' = status \/ TerminateForViolation \/ TeacherTerminates
          \/ TeacherReopens
      BY <1>3, <2>4, RowWriters
         DEF rowVars, PersistCodingResult, PersistStaged, Regrade
    <3>3. QED
      BY <3>1, <3>2 DEF TerminateForViolation, TeacherTerminates, TeacherReopens
  <2>5. QED
    BY <2>1, <2>2, <2>3, <2>4
<1>4. QED
  BY <1>1, <1>2, <1>3, TypeCorrect, PTL DEF Spec, KeepsLifecycle, Lifecycle!Spec

-------------------------------------------------------------------------------
(* No saved answer is lost while the session is open.                      *)

\* A closed section stays closed when the row is merged with more answers.
LEMMA MergeKeepsLocked ==
    ASSUME NEW base \in Answers, NEW over \in Answers, NEW q \in Questions,
           Locked(q, base)
    PROVE  Locked(q, Merge(base, over))
  BY DEF Locked, Merge, Fields, ClientFields, Answers

\* Saves: what is staged is the last save.
LEMMA StashStage ==
    ASSUME TypeOK, StashInv, NEW P \in Patches, StageAnswers(P)
    PROVE  StashInv'
<1> USE DEF StashInv, Kept
<1>1. P \subseteq ClientFields
  BY DEF Patches, ClientFields
<1>2. /\ \A f \in ClientFields \cap P : issued'[f] > 0 /\ stash'[f] = issued'[f]
      /\ \A f \in ClientFields \ P : issued'[f] = issued[f] /\ stash'[f] = stash[f]
  BY FieldsAssumption DEF StageAnswers, TypeOK, Answers, Fields, ClientFields
<1>3. /\ UNCHANGED <<row, status, pc, buf>>
      /\ discarded' = discarded \ P
  BY DEF StageAnswers, rowVars, localVars
<1>4. QED
  BY <1>1, <1>2, <1>3

\* Re-saves: what is staged is the last save once more.
LEMMA StashResave ==
    ASSUME TypeOK, StashInv, NEW q \in Questions, ResaveAnswer(q)
    PROVE  StashInv'
<1> USE DEF StashInv, Kept
<1>1. /\ stash'[q] = issued[q] /\ issued[q] # 0
      /\ \A f \in ClientFields : f # q => stash'[f] = stash[f]
  BY DEF ResaveAnswer, TypeOK, Answers, Fields, ClientFields
<1>2. /\ UNCHANGED <<row, status, pc, buf, issued>>
      /\ discarded' = discarded \ {q}
  BY DEF ResaveAnswer, rowVars, localVars
<1>3. QED
  BY <1>1, <1>2

\* Steps that leave the staged, saved, discarded and persisted answers and COMPLETED
\* alone, and put no flush between its read and its write.
LEMMA StashFrame ==
    ASSUME TypeOK, StashInv, UNCHANGED <<stash, discarded>>,
           \A f \in ClientFields : row'[f] = row[f] /\ issued'[f] = issued[f],
           status = "COMPLETED" => status' = "COMPLETED",
           \A w \in Flushers :
              pc'[w] \in {"readMeta", "fillMeta", "readRow", "persist"} =>
                 /\ pc[w] \in {"readMeta", "fillMeta", "readRow", "persist"}
                 /\ buf'[w] = buf[w]
    PROVE  StashInv'
<1>1. \A q \in Questions : Locked(q, row) => Locked(q, row')
  BY DEF Locked, ClientFields
<1>2. \A f \in ClientFields : Kept(f) => Kept(f)'
  BY <1>1 DEF Kept
<1>3. QED
  BY <1>2 DEF StashInv

\* A flush reads, writes and clears only last saves: what it read is still staged
\* when it writes, and what it clears it has written or counts as discarded.
LEMMA StashFlush ==
    ASSUME TypeOK, HolderInv, StashInv, NEW w \in Flushers, FlushStep(w)
    PROVE  StashInv'
<1>w. w \in Workers
  BY DEF Workers
<1>1. CASE \/ PopDue(w) \/ AcquireLock(w) \/ LockBusy(w) \/ ReadMeta(w) \/ FillMeta(w)
           \/ ReadRow(w) \/ EnqueueAnalytics(w) \/ ReleaseLock(w)
  <2>1. UNCHANGED <<stash, discarded, issued, row, status>>
    BY <1>1 DEF PopDue, AcquireLock, LockBusy, ReadMeta, FillMeta, ReadRow,
                EnqueueAnalytics, ReleaseLock, rowVars, historyVars
  <2>2. \A v \in Flushers :
           pc'[v] \in {"readMeta", "fillMeta", "readRow", "persist"} =>
              /\ pc[v] \in {"readMeta", "fillMeta", "readRow", "persist"}
              /\ buf'[v] = buf[v]
    BY <1>1, <1>w DEF PopDue, AcquireLock, LockBusy, ReadMeta, FillMeta, ReadRow,
                EnqueueAnalytics, ReleaseLock, Goto, Return, TypeOK, Workers
  <2>3. QED
    BY <2>1, <2>2, StashFrame
<1>2. CASE ReadStash(w)
  <2>1. UNCHANGED <<stash, discarded, issued, row, status>>
    BY <1>2 DEF ReadStash, rowVars, historyVars
  <2>2. /\ buf'[w] = stash
        /\ \A v \in Flushers : v # w => buf'[v] = buf[v] /\ pc'[v] = pc[v]
    BY <1>2, <1>w DEF ReadStash, Goto, TypeOK, Workers
  <2>3. \A f \in ClientFields : Kept(f) => Kept(f)'
    BY <2>1 DEF Kept
  <2>4. QED
    BY <2>1, <2>2, <2>3 DEF StashInv
<1>3. CASE PersistStaged(w)
  <2>1. UNCHANGED <<stash, discarded, issued, status, buf>>
    BY <1>3 DEF PersistStaged, historyVars
  <2>2. pc[w] = "persist" /\ pc' = [pc EXCEPT ![w] = "clear"]
    BY <1>3 DEF PersistStaged, Goto
  <2>3. row' = row \/ row' = Merge(row, Staged(w))
    BY <1>3 DEF PersistStaged
  <2>4. ASSUME NEW f \in ClientFields, Kept(f), ~LockMayExpire,
               status # "COMPLETED"
        PROVE  Kept(f)'
    <3>1. CASE row' = row
      BY <2>1, <2>4, <3>1 DEF Kept
    <3>2. CASE row' = Merge(row, Staged(w))
      <4>1. CASE f \in Questions /\ Locked(f, row)
        <5>1. Staged(w) \in Answers /\ row \in Answers
          BY <1>w, StagedType DEF TypeOK
        <5>2. Locked(f, row')
          BY <3>2, <4>1, <5>1, MergeKeepsLocked
        <5>3. QED
          BY <4>1, <5>2 DEF Kept
      <4>2. CASE issued[f] = row[f]
        <5>1. row'[f] = IF Staged(w)[f] # 0 THEN Staged(w)[f] ELSE row[f]
          BY <3>2 DEF Merge, Fields
        <5>2. Staged(w)[f] # 0 => buf[w][f] # 0
          BY DEF Staged, Accepted, Fields
        <5>3. Staged(w)[f] # 0 => stash[f] = issued[f]
          BY <2>2, <2>4, <5>2 DEF StashInv
        <5>4. QED
          BY <2>1, <4>2, <5>1, <5>3 DEF Kept
      <4>3. QED
        BY <2>1, <2>4, <4>1, <4>2 DEF Kept
    <3>3. QED
      BY <2>3, <3>1, <3>2
  <2>5. QED
    BY <1>w, <2>1, <2>2, <2>4 DEF StashInv, TypeOK, Workers
<1>4. CASE ClearFlushed(w)
  <2>1. UNCHANGED <<issued, row, status, buf>>
    BY <1>4 DEF ClearFlushed, rowVars
  <2>2. /\ pc[w] = "clear" /\ pc'[w] \in {"analytics", "release"}
        /\ \A v \in Flushers : v # w => pc'[v] = pc[v]
    BY <1>4, <1>w DEF ClearFlushed, Goto, TypeOK, Workers
  <2>3. \A f \in ClientFields : stash'[f] = IF f \in Cleared(w) THEN 0 ELSE stash[f]
    BY <1>4 DEF ClearFlushed, Fields
  <2>4. discarded' = discarded \cup {f \in Cleared(w) : row[f] # Staged(w)[f]}
    BY <1>4 DEF ClearFlushed
  <2>5. \A f \in Cleared(w) : stash[f] = Staged(w)[f] /\ stash[f] # 0
    BY DEF Cleared
  <2>6. ASSUME NEW f \in ClientFields, Kept(f)
        PROVE  Kept(f)'
    <3>1. CASE f \notin Cleared(w)
      BY <2>1, <2>3, <2>4, <2>6, <3>1 DEF Kept
    <3>2. CASE f \in Cleared(w)
      <4>1. stash[f] = issued[f] /\ stash[f] = Staged(w)[f]
        BY <2>5, <3>2 DEF StashInv
      <4>2. QED
        BY <2>1, <2>4, <3>2, <4>1 DEF Kept
    <3>3. QED
      BY <3>1, <3>2
  <2>7. ~LockMayExpire => \A v \in Flushers :
           pc'[v] \notin {"readMeta", "fillMeta", "readRow", "persist"}
    BY <2>2 DEF HolderInv, InFlush
  <2>8. \A f \in ClientFields : stash'[f] \in {0, issued'[f]}
    BY <2>1, <2>3 DEF StashInv
  <2>9. QED
    BY <2>1, <2>6, <2>7, <2>8 DEF StashInv
<1>5. QED
  BY <1>1, <1>2, <1>3, <1>4 DEF FlushStep

\* A completion drops what is staged only once the session is COMPLETED.
LEMMA StashSubmit ==
    ASSUME TypeOK, FollowUpInv, StashInv, NEW w \in Workers,
           SubmitStep(w) \/ StartSubmit(w) \/ TakeJob(w)
    PROVE  StashInv'
<1>1. CASE ClearStash(w)
  <2>1. status = "COMPLETED" /\ status' = status
    BY <1>1 DEF ClearStash, FollowUpInv, Finishing, rowVars
  <2>2. \A f \in ClientFields : stash'[f] = 0
    BY <1>1 DEF ClearStash, Blank, Fields
  <2>3. QED
    BY <2>1, <2>2 DEF StashInv
<1>2. CASE CompleteSession(w) /\ RowAcceptsCompletion
  BY <1>2 DEF CompleteSession, StashInv
<1>3. CASE \/ CollectForAutoSubmit(w) \/ ReadForSubmit(w) \/ FollowUp(w)
           \/ CompleteSession(w) /\ ~RowAcceptsCompletion
           \/ StartSubmit(w) \/ TakeJob(w)
  <2>1. UNCHANGED <<stash, discarded, issued, row, status>>
    BY <1>3 DEF CollectForAutoSubmit, Collect, ReadForSubmit, CompleteSession, FollowUp,
                StartSubmit, TakeJob, rowVars, historyVars
  <2>2. \A v \in Flushers :
           pc'[v] \in {"readMeta", "fillMeta", "readRow", "persist"} =>
              /\ pc[v] \in {"readMeta", "fillMeta", "readRow", "persist"}
              /\ buf'[v] = buf[v]
    BY <1>3 DEF CollectForAutoSubmit, Collect, ReadForSubmit, CompleteSession, FollowUp,
                StartSubmit, TakeJob, EndSubmit, Goto, Return, TypeOK, Workers
  <2>3. QED
    BY <2>1, <2>2, StashFrame
<1>4. QED
  BY <1>1, <1>2, <1>3 DEF SubmitStep

\* Failures, crashes and every other step leave the staged answers as they are.
LEMMA StashOthers ==
    ASSUME TypeOK, StashInv,
           \/ /\ Environment
              /\ ~(\E P \in Patches : StageAnswers(P))
              /\ ~(\E q \in Questions : ResaveAnswer(q))
           \/ ExpireLock
           \/ \E w \in Workers : FlushFails(w) \/ SubmitFails(w) \/ Crash(w)
    PROVE  StashInv'
<1>1. CASE /\ Environment
           /\ ~(\E P \in Patches : StageAnswers(P))
           /\ ~(\E q \in Questions : ResaveAnswer(q))
  <2>1. UNCHANGED <<stash, discarded, pc, buf>>
    BY <1>1 DEF Environment, RecordCodingResult, PersistCodingResult,
         DeadlinePasses, Sweep, TerminateForViolation, TeacherTerminates,
         TeacherReopens, EvictMeta, Regrade, CrashRequest, localVars, historyVars
  <2>2. status = "COMPLETED" => status' = "COMPLETED"
    BY <1>1 DEF Environment, RecordCodingResult, PersistCodingResult,
         DeadlinePasses, Sweep, TerminateForViolation, TeacherTerminates,
         TeacherReopens, EvictMeta, Regrade, CrashRequest, rowVars
  <2>3. \A f \in ClientFields : row'[f] = row[f] /\ issued'[f] = issued[f]
    <3> USE FieldsAssumption DEF TypeOK, Answers, Fields
    <3>1. ASSUME NEW c \in CodingFields, RecordCodingResult(c)
          PROVE  \A f \in ClientFields : row'[f] = row[f] /\ issued'[f] = issued[f]
      BY <3>1 DEF RecordCodingResult, rowVars
    <3>2. ASSUME NEW c \in CodingFields, NEW v \in 1..MaxSaves, PersistCodingResult(c, v)
          PROVE  \A f \in ClientFields : row'[f] = row[f] /\ issued'[f] = issued[f]
      BY <3>2 DEF PersistCodingResult, historyVars
    <3>3. CASE \/ DeadlinePasses \/ Sweep \/ TerminateForViolation \/ TeacherTerminates
               \/ TeacherReopens \/ EvictMeta \/ Regrade \/ CrashRequest
      BY <3>3 DEF DeadlinePasses, Sweep, TerminateForViolation, TeacherTerminates,
           TeacherReopens, EvictMeta, Regrade, CrashRequest, rowVars, historyVars
    <3>4. QED
      BY <1>1, <3>1, <3>2, <3>3 DEF Environment
  <2>4. QED
    BY <2>1, <2>2, <2>3, StashFrame
<1>2. CASE ExpireLock
  BY <1>2, StashFrame DEF ExpireLock, rowVars, localVars, historyVars
<1>3. ASSUME NEW w \in Workers, FlushFails(w) \/ SubmitFails(w) \/ Crash(w)
      PROVE  StashInv'
  <2>1. UNCHANGED <<stash, discarded, issued, row, status>> /\ Return(w, "idle")
    BY <1>3 DEF FlushFails, SubmitFails, Crash, rowVars
  <2>2. \A v \in Flushers :
           pc'[v] \in {"readMeta", "fillMeta", "readRow", "persist"} =>
              /\ pc[v] \in {"readMeta", "fillMeta", "readRow", "persist"}
              /\ buf'[v] = buf[v]
    BY <2>1 DEF Return, TypeOK, Workers
  <2>3. QED
    BY <2>1, <2>2, StashFrame
<1>4. QED
  BY <1>1, <1>2, <1>3

\* Every step keeps the staged answers in order.
LEMMA StashStep ==
    ASSUME TypeOK, HolderInv, FollowUpInv, StashInv, [Next]_vars
    PROVE  StashInv'
<1>1. CASE UNCHANGED vars
  <2>1. UNCHANGED <<stash, discarded, issued, row, status, pc, buf>>
    BY <1>1 DEF vars, rowVars, localVars, historyVars
  <2>2. QED
    BY <2>1, StashFrame
<1>2. CASE Next
  BY <1>2, StashStage, StashResave, StashFlush, StashSubmit, StashOthers DEF Next, Environment, Workers
<1>3. QED
  BY <1>1, <1>2

\* The last save of every field of a live session is staged or persisted, whatever
\* flushes, retries, failures and crashes do, provided no flush outlives the TTL of
\* its lock.
THEOREM SavedAnswersAreKept ==
    ASSUME ~LockMayExpire
    PROVE  Spec => []NoAnswerLost
<1>1. Init => SessionInv
  BY DEF Init, SessionInv, HolderInv, InFlush, FollowUpInv, Finishing, StashInv, Kept,
         Blank, Fields, Workers
<1>2. TypeOK /\ SessionInv /\ [Next]_vars => SessionInv'
  BY HolderStep, FollowUpStep, StashStep DEF SessionInv
<1>3. SessionInv => NoAnswerLost
  BY DEF SessionInv, StashInv, NoAnswerLost
<1>4. QED
  BY <1>1, <1>2, <1>3, TypeCorrect, PTL DEF Spec

-------------------------------------------------------------------------------
(* Score and answers of a completed session.                               *)

\* However a session comes to be completed, and whatever is still in flight then, its
\* score was computed from exactly the answers it holds or set by a teacher.
THEOREM ScoresMatch == Spec => []ScoreMatchesAnswers
<1>1. Init => ScoreMatchesAnswers
  BY DEF Init, ScoreMatchesAnswers
<1>2. ASSUME ScoreMatchesAnswers, [Next]_vars
      PROVE  ScoreMatchesAnswers'
  <2> USE DEF ScoreMatchesAnswers
  <2>1. CASE UNCHANGED rowVars
    BY <1>2, <2>1 DEF rowVars, Graded
  <2>2. ASSUME NEW c \in CodingFields, NEW v \in 1..MaxSaves, PersistCodingResult(c, v)
        PROVE  ScoreMatchesAnswers'
    BY <1>2, <2>2 DEF PersistCodingResult, Graded
  <2>3. ASSUME NEW w \in Flushers, PersistStaged(w)
        PROVE  ScoreMatchesAnswers'
    <3>1. CASE RowAcceptsFlush
      BY <2>3, <3>1 DEF PersistStaged, RowAcceptsFlush
    <3>2. CASE ~RowAcceptsFlush
      BY <1>2, <2>3, <3>2 DEF PersistStaged, Graded
    <3>3. QED
      BY <3>1, <3>2
  <2>4. ASSUME NEW w \in Workers, CompleteSession(w)
        PROVE  ScoreMatchesAnswers'
    <3>1. CASE RowAcceptsCompletion
      BY <2>4, <3>1 DEF CompleteSession, Graded
    <3>2. CASE ~RowAcceptsCompletion
      BY <1>2, <2>4, <3>2 DEF CompleteSession, rowVars, Graded
    <3>3. QED
      BY <3>1, <3>2
  <2>5. CASE TerminateForViolation \/ TeacherTerminates \/ TeacherReopens
    BY <2>5 DEF TerminateForViolation, TeacherTerminates, TeacherReopens
  <2>6. CASE Regrade
    BY <2>6 DEF Regrade
  <2>7. QED
    BY <1>2, <2>1, <2>2, <2>3, <2>4, <2>5, <2>6, RowWriters
<1>3. QED
  BY <1>1, <1>2, PTL DEF Spec

-------------------------------------------------------------------------------
(* Who writes what, and what becomes of one activity's locals.             *)

\* A step leaves saves, discards, attempts and reopenings alone, or is their writer.
LEMMA HistoryWriters ==
    ASSUME [Next]_vars
    PROVE  /\ \/ UNCHANGED <<issued, sealed, coding>>
              \/ \E P \in Patches : StageAnswers(P)
              \/ \E c \in CodingFields : RecordCodingResult(c)
           /\ discarded' \subseteq discarded \/ \E w \in Flushers : ClearFlushed(w)
           /\ analytics' = analytics \/ \E w \in Flushers : EnqueueAnalytics(w)
           /\ reopens' = reopens \/ TeacherReopens
<1> USE DEF queueVars, boundVars, historyVars
<1>1. CASE UNCHANGED vars
  BY <1>1 DEF vars
<1>2. ASSUME NEW w \in Flushers, FlushStep(w)
      PROVE  /\ UNCHANGED <<issued, sealed, coding, reopens>>
             /\ discarded' = discarded \/ ClearFlushed(w)
             /\ analytics' = analytics \/ EnqueueAnalytics(w)
  BY <1>2 DEF FlushStep, PopDue, AcquireLock, LockBusy, ReadStash, ReadMeta, FillMeta,
              ReadRow, PersistStaged, ClearFlushed, EnqueueAnalytics, ReleaseLock
<1>3. ASSUME NEW w \in Workers,
             \/ SubmitStep(w) \/ StartSubmit(w) \/ TakeJob(w)
             \/ FlushFails(w) \/ SubmitFails(w) \/ Crash(w)
      PROVE  UNCHANGED <<issued, sealed, coding, reopens, discarded, analytics>>
  BY <1>3 DEF SubmitStep, CollectForAutoSubmit, Collect, ReadForSubmit, CompleteSession,
              ClearStash, FollowUp, StartSubmit, TakeJob, FlushFails, SubmitFails, Crash
<1>4. CASE Environment \/ ExpireLock
  BY <1>4 DEF Environment, ExpireLock, StageAnswers, ResaveAnswer, RecordCodingResult,
              PersistCodingResult, DeadlinePasses, Sweep, TerminateForViolation,
              TeacherTerminates, TeacherReopens, EvictMeta, Regrade, CrashRequest
<1>5. CASE Next
  <2>1. \/ Environment \/ ExpireLock
        \/ \E w \in Flushers : FlushStep(w)
        \/ \E w \in Workers : \/ SubmitStep(w) \/ StartSubmit(w) \/ TakeJob(w)
                              \/ FlushFails(w) \/ SubmitFails(w) \/ Crash(w)
    BY <1>5 DEF Next, Environment, Workers
  <2>2. QED
    BY <2>1, <1>2, <1>3, <1>4
<1>6. QED
  BY <1>1, <1>5

\* No session leaves COMPLETED, and a session that was never reopened was never
\* terminated before.
LEMMA StatusStep ==
    ASSUME TypeOK, [Next]_vars
    PROVE  /\ status' # "COMPLETED" => status # "COMPLETED"
           /\ reopens' = 0 => reopens = 0
           /\ status' = "IN_PROGRESS" /\ reopens' = 0 => status = "IN_PROGRESS"
<1> USE DEF TypeOK, rowVars
<1>1. reopens' = reopens \/ TeacherReopens
  BY HistoryWriters
<1>2. CASE TeacherReopens
  BY <1>2 DEF TeacherReopens
<1>3. CASE reopens' = reopens /\ ~TeacherReopens
  <2>1. status' = status \/ TerminateForViolation \/ TeacherTerminates
        \/ \E w \in Workers : CompleteSession(w)
    BY <1>3, RowWriters DEF PersistCodingResult, PersistStaged, Regrade
  <2>2. QED
    BY <1>3, <2>1 DEF TerminateForViolation, TeacherTerminates, CompleteSession,
                      RowAcceptsCompletion
<1>4. QED
  BY <1>1, <1>2, <1>3

\* The clients' answers in the row are written by flushes and completions only.
LEMMA RowStep ==
    ASSUME TypeOK, [Next]_vars
    PROVE  \/ \A f \in ClientFields : row'[f] = row[f]
           \/ \E w \in Flushers : /\ pc[w] = "persist" /\ status = "IN_PROGRESS"
                                  /\ PersistStaged(w)
                                  /\ row' = Merge(row, Staged(w))
           \/ \E w \in Workers : /\ pc[w] = "complete" /\ status = "IN_PROGRESS"
                                 /\ status' = "COMPLETED"
                                 /\ row' = Final(w)
<1>1. CASE UNCHANGED rowVars
  BY <1>1 DEF rowVars
<1>2. ASSUME NEW c \in CodingFields, NEW v \in 1..MaxSaves, PersistCodingResult(c, v)
      PROVE  \A f \in ClientFields : row'[f] = row[f]
  BY <1>2, FieldsAssumption DEF PersistCodingResult, TypeOK, Answers, Fields
<1>3. ASSUME NEW w \in Flushers, PersistStaged(w)
      PROVE  row' = row \/ /\ pc[w] = "persist" /\ status = "IN_PROGRESS"
                           /\ row' = Merge(row, Staged(w))
  BY <1>3 DEF PersistStaged, RowAcceptsFlush
<1>4. ASSUME NEW w \in Workers, CompleteSession(w)
      PROVE  row' = row \/ /\ pc[w] = "complete" /\ status = "IN_PROGRESS"
                           /\ status' = "COMPLETED" /\ row' = Final(w)
  BY <1>4 DEF CompleteSession, RowAcceptsCompletion, rowVars
<1>5. CASE TerminateForViolation \/ TeacherTerminates \/ TeacherReopens \/ Regrade
  BY <1>5 DEF TerminateForViolation, TeacherTerminates, TeacherReopens, Regrade
<1>6. QED
  BY <1>1, <1>2, <1>3, <1>4, <1>5, RowWriters

\* Where an activity works on what it has read.
Busy(w) == Writing(w) \/ pc[w] \in {"clear", "analytics", "readForSubmit", "complete"}

\* A step leaves an activity as it is, takes it where it works on nothing, or reads,
\* writes or moves on with what was read.
LEMMA LocalSteps ==
    ASSUME TypeOK, [Next]_vars, NEW w \in Workers
    PROVE  \/ /\ pc'[w] = pc[w] /\ buf'[w] = buf[w]
              /\ stored'[w] = stored[w] /\ acked'[w] = acked[w]
           \/ ~Busy(w)' /\ buf'[w] \in {buf[w], Blank} /\ stored'[w] \in {stored[w], Blank}
           \/ /\ w \in Flushers
              /\ \/ ReadStash(w) \/ ReadMeta(w) \/ FillMeta(w) \/ ReadRow(w)
                 \/ PersistStaged(w) \/ ClearFlushed(w)
           \/ \E finals \in Answers : /\ \A f \in Fields : finals[f] \in {0, issued[f]}
                                      /\ w \in Flushers => pc[w] = "collect"
                                      /\ Collect(w, finals)
           \/ ReadForSubmit(w)
<1> DEFINE Stays(v) == /\ pc'[v] = pc[v] /\ buf'[v] = buf[v]
                       /\ stored'[v] = stored[v] /\ acked'[v] = acked[v]
       Drops == /\ ~Busy(w)'
                /\ buf'[w] \in {buf[w], Blank} /\ stored'[w] \in {stored[w], Blank}
<1> USE DEF TypeOK, Busy, Writing, Goto, Return, localVars, historyVars
<1>1. CASE UNCHANGED vars
  BY <1>1 DEF vars
<1>2. CASE Environment \/ ExpireLock
  BY <1>2 DEF Environment, ExpireLock, StageAnswers, ResaveAnswer, RecordCodingResult,
              PersistCodingResult, DeadlinePasses, Sweep, TerminateForViolation,
              TeacherTerminates, TeacherReopens, EvictMeta, Regrade, CrashRequest
<1>3. ASSUME NEW v \in Flushers, FlushStep(v), v # w
      PROVE  Stays(w)
  BY <1>3 DEF FlushStep, PopDue, AcquireLock, LockBusy, ReadStash, ReadMeta, FillMeta,
              ReadRow, PersistStaged, ClearFlushed, EnqueueAnalytics, ReleaseLock
<1>4. ASSUME w \in Flushers, FlushStep(w)
      PROVE  \/ Drops
             \/ ReadStash(w) \/ ReadMeta(w) \/ FillMeta(w) \/ ReadRow(w)
             \/ PersistStaged(w) \/ ClearFlushed(w)
  BY <1>4 DEF FlushStep, PopDue, AcquireLock, LockBusy, EnqueueAnalytics, ReleaseLock
<1>5. ASSUME NEW v \in Workers, v # w,
             \/ SubmitStep(v) \/ StartSubmit(v) \/ TakeJob(v)
             \/ FlushFails(v) \/ SubmitFails(v) \/ Crash(v)
      PROVE  Stays(w)
  BY <1>5 DEF SubmitStep, CollectForAutoSubmit, Collect, ReadForSubmit, CompleteSession,
              ClearStash, FollowUp, StartSubmit, TakeJob, FlushFails, SubmitFails, Crash,
              EndSubmit
<1>6. ASSUME CompleteSession(w) \/ ClearStash(w) \/ FollowUp(w) \/ TakeJob(w)
             \/ FlushFails(w) \/ SubmitFails(w) \/ Crash(w)
      PROVE  Drops
  BY <1>6 DEF CompleteSession, ClearStash, FollowUp, TakeJob, FlushFails, SubmitFails,
              Crash, EndSubmit
<1>7. ASSUME CollectForAutoSubmit(w)
      PROVE  \E finals \in Answers : /\ \A f \in Fields : finals[f] \in {0, issued[f]}
                                     /\ w \in Flushers => pc[w] = "collect"
                                     /\ Collect(w, finals)
  BY <1>7, BlankType DEF CollectForAutoSubmit, Blank
<1>8. ASSUME w \in Submitters, StartSubmit(w)
      PROVE  \E finals \in Answers : /\ \A f \in Fields : finals[f] \in {0, issued[f]}
                                     /\ w \in Flushers => pc[w] = "collect"
                                     /\ Collect(w, finals)
  <2>1. PICK sync \in BOOLEAN :
           Collect(w, [f \in Fields |->
                         IF sync /\ f \in Questions THEN issued[f] ELSE 0])
    BY <1>8 DEF StartSubmit
  <2>2. [f \in Fields |-> IF sync /\ f \in Questions THEN issued[f] ELSE 0] \in Answers
    BY DEF Answers
  <2>3. QED
    BY <1>8, <2>1, <2>2, WorkersAssumption
<1>9. CASE Next
  <2>1. \/ Environment \/ ExpireLock
        \/ \E v \in Flushers : FlushStep(v)
        \/ \E v \in Workers : \/ SubmitStep(v) \/ (v \in Submitters /\ StartSubmit(v)) \/ TakeJob(v)
                              \/ FlushFails(v) \/ SubmitFails(v) \/ Crash(v)
    BY <1>9 DEF Next, Environment, Workers
  <2>2. CASE \E v \in Flushers : FlushStep(v)
    BY <2>2, <1>3, <1>4
  <2>3. CASE \E v \in Workers : \/ SubmitStep(v) \/ (v \in Submitters /\ StartSubmit(v)) \/ TakeJob(v)
                                \/ FlushFails(v) \/ SubmitFails(v) \/ Crash(v)
    <3>1. PICK v \in Workers : \/ SubmitStep(v) \/ (v \in Submitters /\ StartSubmit(v)) \/ TakeJob(v)
                               \/ FlushFails(v) \/ SubmitFails(v) \/ Crash(v)
      BY <2>3
    <3>2. CASE v # w
      BY <3>1, <3>2, <1>5
    <3>3. CASE v = w
      BY <3>1, <3>3, <1>6, <1>7, <1>8 DEF SubmitStep
    <3>4. QED
      BY <3>2, <3>3
  <2>4. QED
    BY <2>1, <2>2, <2>3, <1>2
<1>10. QED
  BY <1>1, <1>9

-------------------------------------------------------------------------------
(* The row of a live session only advances.                                *)

\* An accepted answer is the one that was read; into a closed section of a graded
\* exam nothing is accepted, and everything else is.
LEMMA StagedIs ==
    ASSUME TypeOK, NEW w \in Workers, NEW f \in Fields
    PROVE  /\ Staged(w)[f] \in {0, buf[w][f]}
           /\ ExamKind # "ungraded" /\ f \in Questions /\ Locked(f, stored[w]) =>
                 Staged(w)[f] = 0
           /\ f \notin Questions \/ ~Locked(f, stored[w]) => Staged(w)[f] = buf[w][f]
           /\ Final(w)[f] = IF Staged(w)[f] # 0 THEN Staged(w)[f] ELSE stored[w][f]
           /\ buf[w][f] \in Nat /\ stored[w][f] \in Nat
BY DEF Staged, Accepted, Final, Merge, TypeOK, Answers

\* Saves are numbered upwards, and a section's batch is fixed when it is submitted.
LEMMA IssuedStep ==
    ASSUME TypeOK, SavesInv, [Next]_vars
    PROVE  /\ \A s \in Sections : issued'[s] <= 1
           /\ \A c \in CodingFields : coding'[c] = issued'[c]
           /\ \A f \in ClientFields : issued[f] <= issued'[f] /\ sealed'[f] <= issued'[f]
           /\ \A q \in Questions : SectionOf[q] \in Sections /\ issued[SectionOf[q]] # 0 =>
                 sealed'[q] = sealed[q]
<1> USE FieldsAssumption DEF SavesInv, TypeOK, Answers, Fields, ClientFields
<1>1. CASE UNCHANGED <<issued, sealed, coding>>
  BY <1>1
<1>2. ASSUME NEW P \in Patches, StageAnswers(P)
      PROVE  /\ \A s \in Sections : issued'[s] <= 1
             /\ \A c \in CodingFields : coding'[c] = issued'[c]
             /\ \A f \in ClientFields : issued[f] <= issued'[f] /\ sealed'[f] <= issued'[f]
             /\ \A q \in Questions :
                   SectionOf[q] \in Sections /\ issued[SectionOf[q]] # 0 =>
                      sealed'[q] = sealed[q]
  <2>1. P \subseteq ClientFields
    BY DEF Patches
  <2>2. \A f \in Fields : issued'[f] = IF f \notin P THEN issued[f]
                                       ELSE IF f \in Sections THEN 1 ELSE issued[f] + 1
    BY <1>2 DEF StageAnswers
  <2>3. \A f \in Fields :
           sealed'[f] = IF /\ f \in Questions
                           /\ SectionOf[f] \in P
                           /\ issued[SectionOf[f]] = 0
                        THEN issued'[f] ELSE sealed[f]
    BY <1>2 DEF StageAnswers
  <2>4. coding' = coding
    BY <1>2 DEF StageAnswers
  <2>5. \A f \in ClientFields : issued[f] <= issued'[f]
    BY <2>2
  <2>6. \A f \in ClientFields : sealed'[f] <= issued'[f]
    <3>1. TAKE f \in ClientFields
    <3>2. issued[f] \in Nat /\ sealed[f] \in Nat /\ issued[f] <= issued'[f] 
          /\ sealed[f] <= issued[f] /\ issued'[f] \in Nat
      BY <2>2, <2>5
    <3>3. sealed'[f] = issued'[f] \/ sealed'[f] = sealed[f]
      BY <2>3
    <3>4. QED
      BY <3>2, <3>3
  <2>7. QED
    BY <2>1, <2>2, <2>3, <2>4, <2>5, <2>6
<1>3. ASSUME NEW c \in CodingFields, RecordCodingResult(c)
      PROVE  /\ \A s \in Sections : issued'[s] <= 1
             /\ \A d \in CodingFields : coding'[d] = issued'[d]
             /\ \A f \in ClientFields : issued[f] <= issued'[f] /\ sealed'[f] <= issued'[f]
             /\ \A q \in Questions :
                   SectionOf[q] \in Sections /\ issued[SectionOf[q]] # 0 =>
                      sealed'[q] = sealed[q]
  <2>1. /\ issued' = [issued EXCEPT ![c] = @ + 1] /\ sealed' = sealed
        /\ coding' = [coding EXCEPT ![c] = issued'[c]]
    BY <1>3 DEF RecordCodingResult
  <2>2. \A f \in ClientFields : f # c
    OBVIOUS
  <2>3. QED
    BY <2>1, <2>2
<1>4. QED
  BY <1>1, <1>2, <1>3, HistoryWriters

\* What an activity holds of a field it has held before, or it reads it now.
LEMMA ReadSteps ==
    ASSUME TypeOK, [Next]_vars, NEW w \in Workers, NEW f \in ClientFields
    PROVE  /\ buf'[w][f] \in {0, buf[w][f], stash[f], issued[f]}
           /\ stored'[w][f] \in {0, stored[w][f], row[f]}
<1> USE FieldsAssumption DEF TypeOK, Answers
<1>f. f \in Fields /\ f \notin CodingFields /\ Blank[f] = 0
  BY DEF Fields, Blank
<1>1. CASE ReadStash(w) \/ ReadMeta(w) \/ FillMeta(w) \/ ReadRow(w)
           \/ PersistStaged(w) \/ ClearFlushed(w)
  BY <1>1 DEF ReadStash, ReadMeta, FillMeta, ReadRow, PersistStaged, ClearFlushed
<1>2. ASSUME NEW finals \in Answers, Collect(w, finals),
             \A g \in Fields : finals[g] \in {0, issued[g]}
      PROVE  /\ buf'[w][f] \in {0, stash[f], issued[f]}
             /\ stored'[w][f] = stored[w][f]
  BY <1>2, <1>f DEF Collect, Merge
<1>3. CASE ReadForSubmit(w)
  BY <1>3, <1>f DEF ReadForSubmit, EndSubmit, Return
<1>4. QED
  BY <1>f, <1>1, <1>2, <1>3, LocalSteps

\* Every step keeps what was read and written among what was saved.
LEMMA SavesStep ==
    ASSUME TypeOK, StashInv, SavesInv, [Next]_vars
    PROVE  SavesInv'
<1> USE DEF TypeOK, Answers
<1>f. \A f \in ClientFields : f \in Fields
  BY DEF Fields
<1>i. \A f \in ClientFields : /\ issued[f] \in Nat /\ issued[f] <= issued'[f]
                              /\ issued'[f] \in Nat
  <2>1. TypeOK'
    BY TypeStep
  <2>2. QED
    BY <1>f, <2>1, IssuedStep
<1>1. ASSUME NEW w \in Workers, NEW f \in ClientFields
      PROVE  /\ Staged(w)[f] \in Nat /\ Final(w)[f] \in Nat
             /\ Staged(w)[f] <= issued[f] /\ Final(w)[f] <= issued[f]
  BY <1>1, <1>f, StagedIs DEF SavesInv
<1>2. ASSUME NEW f \in ClientFields
      PROVE  row'[f] <= issued'[f]
  <2>1. row'[f] <= issued[f] /\ row'[f] \in Nat
    <3>1. CASE row'[f] = row[f]
      BY <1>f, <3>1 DEF SavesInv
    <3>2. ASSUME NEW w \in Flushers, row' = Merge(row, Staged(w))
          PROVE  row'[f] <= issued[f] /\ row'[f] \in Nat
      <4>1. row'[f] = IF Staged(w)[f] # 0 THEN Staged(w)[f] ELSE row[f]
        BY <1>f, <3>2 DEF Merge
      <4>2. QED
        BY <1>f, <1>1, <4>1 DEF SavesInv, Workers
    <3>3. ASSUME NEW w \in Workers, row' = Final(w)
          PROVE  row'[f] <= issued[f] /\ row'[f] \in Nat
      BY <1>1, <3>3
    <3>4. QED
      BY <3>1, <3>2, <3>3, RowStep
  <2>2. QED
    BY <1>i, <2>1
<1>3. ASSUME NEW w \in Workers, NEW f \in ClientFields
      PROVE  buf'[w][f] <= issued'[f] /\ stored'[w][f] <= issued'[f]
  <2>1. /\ buf[w][f] \in Nat /\ stored[w][f] \in Nat /\ row[f] \in Nat /\ stash[f] \in Nat
        /\ buf[w][f] <= issued[f] /\ stored[w][f] <= issued[f]
        /\ row[f] <= issued[f] /\ stash[f] <= issued[f]
    <3>1. stash[f] = 0 \/ stash[f] = issued[f]
      BY DEF StashInv
    <3>2. issued[f] \in Nat
      BY <1>i
    <3>3. stash[f] <= issued[f] /\ stash[f] \in Nat
      BY <3>1, <3>2
    <3>4. buf[w] \in [Fields -> Nat] /\ stored[w] \in [Fields -> Nat]
      OBVIOUS
    <3>5. QED
      BY <1>f, <3>3, <3>4 DEF SavesInv
  <2>2. buf'[w][f] \in {0, buf[w][f], stash[f], issued[f]}
    BY <1>f, ReadSteps
  <2>3. stored'[w][f] \in {0, stored[w][f], row[f]}
    BY <1>f, ReadSteps
  <2>4. QED
    BY <1>i, <2>1, <2>2, <2>3
<1>4. QED
  BY <1>2, <1>3, IssuedStep DEF SavesInv

\* A flush that works on what it read holds the lock.
LEMMA BusyInFlush ==
    ASSUME TypeOK, [Next]_vars, NEW w \in Flushers, Busy(w)'
    PROVE  InFlush(w)
<1>1. w \in Workers
  BY DEF Workers
<1>2. CASE pc'[w] = pc[w]
  BY <1>2 DEF Busy, Writing, InFlush
<1>3. CASE \/ ReadStash(w) \/ ReadMeta(w) \/ FillMeta(w) \/ ReadRow(w)
           \/ PersistStaged(w) \/ ClearFlushed(w) \/ ReadForSubmit(w) \/ pc[w] = "collect"
  BY <1>3 DEF InFlush, ReadStash, ReadMeta, FillMeta, ReadRow, PersistStaged,
              ClearFlushed, ReadForSubmit
<1>4. QED
  BY <1>1, <1>2, <1>3, LocalSteps

\* While a flush holds the lock of a session, nobody else writes its clients' answers
\* unless it completes the session.
LEMMA OneWriter ==
    ASSUME TypeOK, HolderInv, [Next]_vars, ~LockMayExpire, status' # "COMPLETED",
           NEW w \in Flushers, InFlush(w), NEW f \in ClientFields
    PROVE  \/ row'[f] = row[f]
           \/ /\ pc[w] = "persist" /\ status = "IN_PROGRESS"
              /\ PersistStaged(w)
              /\ row' = Merge(row, Staged(w))
<1>1. ASSUME NEW v \in Flushers, pc[v] = "persist"
      PROVE  v = w
  BY <1>1 DEF HolderInv, InFlush
<1>2. QED
  BY <1>1, RowStep

\* While a session stays live no answer in its row is replaced by an older one, and
\* in a graded exam none of a closed section is replaced at all.
LEMMA RowAdvances ==
    ASSUME TypeOK, WriterInv, [Next]_vars, ~LockMayExpire, status' # "COMPLETED",
           NEW f \in ClientFields
    PROVE  /\ row[f] <= row'[f]
           /\ row[f] \in Nat /\ row'[f] \in Nat
           /\ ExamKind # "ungraded" /\ f \in Questions /\ Locked(f, row) => row'[f] = row[f]
<1>f. f \in Fields
  BY DEF Fields
<1>r. row[f] \in Nat
  BY <1>f DEF TypeOK, Answers
<1>1. CASE row'[f] = row[f]
  BY <1>1, <1>r
<1>2. ASSUME NEW w \in Flushers, pc[w] = "persist", status = "IN_PROGRESS",
             row' = Merge(row, Staged(w))
      PROVE  /\ row[f] <= row'[f] /\ row'[f] \in Nat
             /\ ExamKind # "ungraded" /\ f \in Questions /\ Locked(f, row) =>
                   row'[f] = row[f]
  <2>1. w \in Workers
    BY DEF Workers
  <2>2. row'[f] = IF Staged(w)[f] # 0 THEN Staged(w)[f] ELSE row[f]
    BY <1>2, <1>f DEF Merge
  <2>3. buf[w][f] # 0 => row[f] <= buf[w][f]
    BY <1>2 DEF WriterInv, Writing
  <2>4. \A g \in ClientFields : stored[w][g] = row[g]
    BY <1>2 DEF WriterInv
  <2>5. f \in Questions /\ Locked(f, row) => Locked(f, stored[w])
    BY <2>4 DEF Locked, ClientFields
  <2>6. /\ Staged(w)[f] \in {0, buf[w][f]} /\ buf[w][f] \in Nat
        /\ ExamKind # "ungraded" /\ f \in Questions /\ Locked(f, stored[w]) =>
              Staged(w)[f] = 0
    BY <1>f, <2>1, StagedIs
  <2>7. QED
    BY <1>r, <2>2, <2>3, <2>5, <2>6
<1>3. QED
  BY <1>1, <1>2, <1>r, RowStep

\* Every step keeps what a flush is about to write no older than the row.
LEMMA WriterStep ==
    ASSUME TypeOK, HolderInv, StashInv, SavesInv, WriterInv, [Next]_vars
    PROVE  WriterInv'
<1> SUFFICES ASSUME ~LockMayExpire, status' # "COMPLETED",
                    NEW w \in Flushers, NEW f \in ClientFields
             PROVE  /\ Writing(w)' /\ buf'[w][f] # 0 => row'[f] <= buf'[w][f]
                    /\ pc'[w] = "persist" => stored'[w][f] = row'[f]
  BY DEF WriterInv
<1>s. status # "COMPLETED"
  BY StatusStep
<1>w. w \in Workers /\ f \in Fields
  BY DEF Workers, Fields
<1>1. CASE ~Writing(w)'
  BY <1>1 DEF Writing
<1>2. CASE Writing(w)'
  <2>1. row'[f] = row[f]
    <3>1. InFlush(w)
      BY <1>2, BusyInFlush DEF Busy
    <3>2. PersistStaged(w) => pc'[w] = "clear"
      BY <1>w DEF PersistStaged, Goto, TypeOK
    <3>3. QED
      BY <1>2, <3>1, <3>2, OneWriter DEF Writing
  <2>2. \/ UNCHANGED <<pc[w], buf[w], stored[w]>>
        \/ ReadStash(w) \/ ReadMeta(w) \/ FillMeta(w) \/ ReadRow(w)
    <3>1. /\ ~(PersistStaged(w) \/ ClearFlushed(w))
          /\ ~ReadForSubmit(w)
          /\ \A finals \in Answers : ~Collect(w, finals)
      BY <1>2, <1>w DEF PersistStaged, ClearFlushed, ReadForSubmit, EndSubmit, Return,
                       Collect, Goto, TypeOK, Writing
    <3>2. QED
      BY <1>2, <1>w, <3>1, LocalSteps DEF Busy
  <2>3. CASE UNCHANGED <<pc[w], buf[w], stored[w]>>
    BY <1>s, <2>1, <2>3 DEF WriterInv, Writing
  <2>4. CASE ReadStash(w)
    <3>1. buf'[w] = stash /\ pc'[w] # "persist"
      BY <1>w, <2>4 DEF ReadStash, Goto, TypeOK
    <3>2. stash[f] \in {0, issued[f]} /\ row[f] <= issued[f]
      BY DEF StashInv, SavesInv
    <3>3. QED
      BY <2>1, <3>1, <3>2
  <2>5. CASE ReadMeta(w) \/ FillMeta(w)
    <3>1. Writing(w) /\ buf'[w] = buf[w] /\ pc'[w] # "persist"
      BY <1>w, <2>5 DEF ReadMeta, FillMeta, Goto, TypeOK, Writing
    <3>2. QED
      BY <1>s, <2>1, <3>1 DEF WriterInv
  <2>6. CASE ReadRow(w)
    <3>1. Writing(w) /\ buf'[w] = buf[w] /\ stored'[w] = row
      BY <1>w, <2>6 DEF ReadRow, Goto, TypeOK, Writing
    <3>2. QED
      BY <1>s, <2>1, <3>1 DEF WriterInv
  <2>7. QED
    BY <2>2, <2>3, <2>4, <2>5, <2>6
<1>3. QED
  BY <1>1, <1>2

\* What RowOnlyAdvances says of one step.
LEMMA RowOnlyAdvancesStep ==
    ASSUME TypeOK, WriterInv, [Next]_vars, ~LockMayExpire, ExamKind # "ungraded",
           status' = "IN_PROGRESS"
    PROVE  \A f \in ClientFields :
              /\ row'[f] >= row[f]
              /\ f \in Questions /\ Locked(f, row) => row'[f] = row[f]
<1>1. TAKE f \in ClientFields
<1>2. status' # "COMPLETED"
  OBVIOUS
<1>3. /\ row[f] <= row'[f]
      /\ row[f] \in Nat /\ row'[f] \in Nat
      /\ f \in Questions /\ Locked(f, row) => row'[f] = row[f]
  BY <1>2, RowAdvances
<1>4. QED
  BY <1>3

\* A section that is closed in the row stays closed while the session is live.
LEMMA LockedStays ==
    ASSUME TypeOK, WriterInv, [Next]_vars, ~LockMayExpire, status' # "COMPLETED",
           NEW q \in Questions, Locked(q, row)
    PROVE  Locked(q, row')
<1>1. SectionOf[q] \in ClientFields
  BY DEF Locked, ClientFields
<1>2. QED
  BY <1>1, RowAdvances DEF Locked

\* Reading the row of a live session, a completion has every answer saved before it
\* began, in what it collected or in the row.
LEMMA CollectStep ==
    ASSUME TypeOK, StashInv, SavesInv, WriterInv, CollectInv, [Next]_vars
    PROVE  CollectInv'
<1> SUFFICES ASSUME ~LockMayExpire, status' # "COMPLETED", NEW w \in Workers
             PROVE  /\ \A c \in CodingFields :
                          pc'[w] \in {"readForSubmit", "complete"} =>
                             acked'[w][c] <= buf'[w][c]
                    /\ \A f \in ClientFields :
                          /\ pc'[w] = "readForSubmit" =>
                                \/ acked'[w][f] <= Merge(row', buf'[w])[f]
                                \/ f \in Questions /\ Locked(f, row')
                          /\ pc'[w] = "complete" =>
                                \/ acked'[w][f] <= Final(w)'[f]
                                \/ f \in Questions /\ Locked(f, stored'[w])
  BY DEF CollectInv
<1>s. status # "COMPLETED"
  BY StatusStep
<1>c. ClientFields \subseteq Fields /\ CodingFields \subseteq Fields
  BY DEF Fields
<1>n. /\ \A f \in Fields : /\ buf[w][f] \in Nat /\ acked[w][f] \in Nat
                           /\ row[f] \in Nat /\ stash[f] \in Nat /\ issued[f] \in Nat
  BY DEF TypeOK, Answers
<1>m. \A base, over : \A f \in Fields :
         Merge(base, over)[f] = IF over[f] # 0 THEN over[f] ELSE base[f]
  BY DEF Merge
<1>a. ASSUME NEW f \in ClientFields, buf'[w] = buf[w], acked'[w] = acked[w],
             \/ acked[w][f] <= Merge(row, buf[w])[f]
             \/ f \in Questions /\ Locked(f, row)
      PROVE  \/ acked'[w][f] <= Merge(row', buf'[w])[f]
             \/ f \in Questions /\ Locked(f, row')
  <2>1. CASE f \in Questions /\ Locked(f, row)
    BY <2>1, LockedStays
  <2>2. CASE acked[w][f] <= Merge(row, buf[w])[f]
    <3>1. row[f] <= row'[f] /\ row'[f] \in Nat
      BY RowAdvances
    <3>2. QED
      BY <1>a, <1>c, <1>n, <1>m, <2>2, <3>1
  <2>3. QED
    BY <1>a, <2>1, <2>2
<1>1. CASE pc'[w] = pc[w] /\ buf'[w] = buf[w] /\ stored'[w] = stored[w] /\ acked'[w] = acked[w]
  <2>1. Final(w)' = Final(w)
    BY <1>1 DEF Final, Staged
  <2>2. QED
    BY <1>s, <1>1, <1>a, <2>1 DEF CollectInv
<1>2. CASE pc'[w] \notin {"readForSubmit", "complete"}
  BY <1>2
<1>3. ASSUME NEW finals \in Answers, Collect(w, finals),
             \A f \in Fields : finals[f] \in {0, issued[f]}
      PROVE  /\ \A c \in CodingFields : acked'[w][c] <= buf'[w][c]
             /\ \A f \in ClientFields :
                   \/ acked'[w][f] <= Merge(row', buf'[w])[f]
                   \/ f \in Questions /\ Locked(f, row')
             /\ pc'[w] = "readForSubmit"
  <2>1. /\ \A f \in Fields : buf'[w][f] = IF f \in CodingFields THEN coding[f]
                                          ELSE Merge(stash, finals)[f]
        /\ \A f \in Fields : acked'[w][f] = IF f \in discarded THEN 0 ELSE issued[f]
        /\ pc'[w] = "readForSubmit"
        /\ row' = row
    BY <1>3 DEF Collect, Goto, TypeOK, rowVars
  <2>2. ASSUME NEW c \in CodingFields
        PROVE  acked'[w][c] <= buf'[w][c]
    <3>1. buf'[w][c] = issued[c] /\ issued[c] \in Nat
      BY <1>c, <1>n, <2>1 DEF SavesInv
    <3>2. acked'[w][c] = 0 \/ acked'[w][c] = issued[c]
      BY <1>c, <2>1
    <3>3. QED
      BY <3>1, <3>2
  <2>3. ASSUME NEW f \in ClientFields
        PROVE  \/ acked'[w][f] <= Merge(row', buf'[w])[f]
               \/ f \in Questions /\ Locked(f, row')
    <3>1. f \in Fields /\ f \notin CodingFields
      BY <1>c, FieldsAssumption
    <3>2. buf'[w][f] = IF finals[f] # 0 THEN finals[f] ELSE stash[f]
      BY <1>m, <2>1, <3>1
    <3>3. Kept(f)
      BY <1>s DEF StashInv
    <3>4. stash[f] = 0 \/ stash[f] = issued[f]
      BY DEF StashInv
    <3>5. finals[f] = 0 \/ finals[f] = issued[f]
      BY <1>3, <3>1
    <3>6. Merge(row', buf'[w])[f] = IF buf'[w][f] # 0 THEN buf'[w][f] ELSE row[f]
      BY <1>m, <2>1, <3>1
    <3>7. acked'[w][f] = IF f \in discarded THEN 0 ELSE issued[f]
      BY <2>1, <3>1
    <3>8. issued[f] \in Nat /\ row[f] \in Nat
      BY <1>n, <3>1
    <3>9. CASE f \in discarded
      BY <3>2, <3>4, <3>5, <3>6, <3>7, <3>8, <3>9
    <3>10. CASE issued[f] = stash[f] \/ issued[f] = row[f]
      BY <3>2, <3>4, <3>5, <3>6, <3>7, <3>8, <3>10
    <3>11. CASE f \in Questions /\ Locked(f, row)
      BY <2>1, <3>11
    <3>12. QED
      BY <3>3, <3>9, <3>10, <3>11 DEF Kept
  <2>4. QED
    BY <2>1, <2>2, <2>3
<1>4. CASE ReadForSubmit(w) /\ status = "IN_PROGRESS"
  <2>1. /\ pc[w] = "readForSubmit" /\ pc'[w] = "complete"
        /\ buf'[w] = buf[w] /\ acked'[w] = acked[w] /\ stored'[w] = row
    BY <1>4 DEF ReadForSubmit, Goto, TypeOK
  <2>2. \A c \in CodingFields : acked'[w][c] <= buf'[w][c]
    BY <1>s, <2>1 DEF CollectInv
  <2>3. ASSUME NEW f \in ClientFields
        PROVE  \/ acked'[w][f] <= Final(w)'[f]
               \/ f \in Questions /\ Locked(f, stored'[w])
    <3>1. \/ acked[w][f] <= Merge(row, buf[w])[f]
          \/ f \in Questions /\ Locked(f, row)
      BY <1>s, <2>1 DEF CollectInv
    <3>2. CASE f \in Questions /\ Locked(f, row)
      BY <2>1, <3>2
    <3>3. CASE /\ acked[w][f] <= Merge(row, buf[w])[f]
               /\ f \notin Questions \/ ~Locked(f, row)
      <4>1. Final(w)' = Merge(row, Accepted(buf[w], row))
        BY <2>1 DEF Final, Staged
      <4>2. Accepted(buf[w], row)[f] = buf[w][f]
        BY <1>c, <3>3 DEF Accepted
      <4>3. Final(w)'[f] = Merge(row, buf[w])[f]
        BY <1>c, <1>m, <4>1, <4>2
      <4>4. QED
        BY <2>1, <3>3, <4>3
    <3>4. QED
      BY <3>1, <3>2, <3>3
  <2>4. QED
    BY <2>1, <2>2, <2>3
<1>5. CASE \/ ReadForSubmit(w) /\ status # "IN_PROGRESS"
           \/ ReadStash(w) \/ ReadMeta(w) \/ FillMeta(w) \/ ReadRow(w)
           \/ PersistStaged(w) \/ ClearFlushed(w)
  <2>1. pc'[w] \notin {"readForSubmit", "complete"}
    BY <1>5 DEF ReadForSubmit, EndSubmit, Return, ReadStash, ReadMeta, FillMeta, ReadRow,
                PersistStaged, ClearFlushed, Goto, TypeOK
  <2>2. QED
    BY <2>1
<1>6. CASE \E finals \in Answers : /\ \A f \in Fields : finals[f] \in {0, issued[f]}
                                   /\ Collect(w, finals)
  <2>1. PICK finals \in Answers : /\ \A f \in Fields : finals[f] \in {0, issued[f]}
                                  /\ Collect(w, finals)
    BY <1>6
  <2>2. QED
    BY <2>1, <1>3
<1>7. QED
  BY <1>1, <1>2, <1>4, <1>5, <1>6, LocalSteps DEF Busy

\* In a session that was never terminated every step discards nothing, and the
\* attempts a flush is to enqueue are newer than those enqueued before.
LEMMA AttemptsStep ==
    ASSUME TypeOK, HolderInv, SavesInv, WriterInv, AttemptsInv, [Next]_vars
    PROVE  AttemptsInv'
<1> SUFFICES ASSUME ~LockMayExpire, status' = "IN_PROGRESS", reopens' = 0
             PROVE  AttemptsInv'
  BY DEF AttemptsInv
<1>s. status = "IN_PROGRESS" /\ reopens = 0 /\ status' # "COMPLETED"
  BY StatusStep
<1>c. \A q \in Questions : q \in ClientFields /\ q \in Fields
  BY DEF Fields, ClientFields
<1>g. ClientFields \subseteq Fields /\ Flushers \subseteq Workers
  BY DEF Fields, Workers
<1>o. /\ discarded = {}
      /\ \A a \in analytics : a[2] <= row[a[1]]
      /\ \A w \in Flushers : pc[w] \in {"clear", "analytics"} =>
            /\ \A f \in ClientFields : Staged(w)[f] \in {0, row[f]}
            /\ \A a \in analytics, n \in NewAttempts(w) : a[1] = n[1] => a[2] < n[2]
  BY <1>s DEF AttemptsInv
<1>t. \A a \in analytics : a[1] \in Questions /\ a[2] \in Nat
  BY DEF TypeOK
<1>1. discarded' = {}
  <2>1. CASE discarded' \subseteq discarded
    BY <1>o, <2>1
  <2>2. ASSUME NEW w \in Flushers, ClearFlushed(w)
        PROVE  discarded' = {}
    <3>1. /\ pc[w] = "clear"
          /\ discarded' = discarded \cup {f \in Cleared(w) : row[f] # Staged(w)[f]}
      BY <2>2 DEF ClearFlushed
    <3>2. \A f \in Cleared(w) : f \in ClientFields /\ Staged(w)[f] # 0
      BY DEF Cleared
    <3>3. QED
      BY <1>o, <3>1, <3>2
  <2>3. QED
    BY <2>1, <2>2, HistoryWriters
<1>2. ASSUME NEW w \in Flushers, pc'[w] \in {"clear", "analytics"}
      PROVE  /\ \A f \in ClientFields : Staged(w)'[f] \in {0, row'[f]}
             /\ \A a \in analytics, n \in NewAttempts(w)' : a[1] = n[1] => a[2] < n[2]
             /\ analytics' = analytics
  <2>1. /\ w \in Workers /\ InFlush(w)
    BY <1>2, <1>g, BusyInFlush DEF Busy
  <2>2. analytics' = analytics
    <3>1. ASSUME NEW v \in Flushers, EnqueueAnalytics(v)
          PROVE  FALSE
      <4>1. InFlush(v) /\ pc'[v] = "release"
        BY <1>g, <3>1 DEF EnqueueAnalytics, InFlush, Goto, TypeOK
      <4>2. v = w
        BY <2>1, <4>1 DEF HolderInv
      <4>3. QED
        BY <1>2, <4>1, <4>2
    <3>2. QED
      BY <3>1, HistoryWriters
  <2>3. \/ pc'[w] = pc[w] /\ buf'[w] = buf[w] /\ stored'[w] = stored[w]
        \/ PersistStaged(w) \/ ClearFlushed(w)
    <3>1. /\ ~(ReadStash(w) \/ ReadMeta(w) \/ FillMeta(w) \/ ReadRow(w))
          /\ ~ReadForSubmit(w)
          /\ \A finals \in Answers : ~Collect(w, finals)
      BY <1>2, <2>1 DEF ReadStash, ReadMeta, FillMeta, ReadRow, ReadForSubmit, EndSubmit,
                        Return, Collect, Goto, TypeOK
    <3>2. QED
      BY <1>2, <2>1, <3>1, LocalSteps DEF Busy
  <2>4. Staged(w)' = Staged(w) /\ NewAttempts(w)' = NewAttempts(w)
    <3>1. buf'[w] = buf[w] /\ stored'[w] = stored[w]
      BY <2>3 DEF PersistStaged, ClearFlushed
    <3>2. Staged(w)' = Staged(w)
      BY <3>1 DEF Staged
    <3>3. QED
      BY <3>1, <3>2 DEF NewAttempts
  <2>5. CASE PersistStaged(w)
    <3>1. pc[w] = "persist" /\ row' = Merge(row, Staged(w))
      BY <1>s, <2>5 DEF PersistStaged, RowAcceptsFlush
    <3>2. \A f \in ClientFields :
             row'[f] = IF Staged(w)[f] # 0 THEN Staged(w)[f] ELSE row[f]
      BY <1>g, <3>1 DEF Merge
    <3>3. ASSUME NEW a \in analytics, NEW n \in NewAttempts(w), a[1] = n[1]
          PROVE  a[2] < n[2]
      <4>1. PICK q \in Questions : /\ n = <<q, Staged(w)[q]>>
                                   /\ Staged(w)[q] # 0 /\ Staged(w)[q] # stored[w][q]
        BY DEF NewAttempts
      <4>2. stored[w][q] = row[q] /\ (buf[w][q] # 0 => row[q] <= buf[w][q])
        BY <1>c, <1>s, <3>1 DEF WriterInv, Writing
      <4>3. Staged(w)[q] = buf[w][q] /\ buf[w][q] \in Nat
        BY <1>c, <2>1, <4>1, StagedIs
      <4>4. row[q] < Staged(w)[q] /\ row[q] \in Nat
        <5>1. row[q] \in Nat
          BY <1>c DEF TypeOK, Answers
        <5>2. row[q] <= Staged(w)[q] /\ row[q] # Staged(w)[q]
          BY <4>1, <4>2, <4>3
        <5>3. QED
          BY <4>3, <5>1, <5>2
      <4>5. a[1] = q /\ n[2] = Staged(w)[q]
        BY <3>3, <4>1
      <4>6. a[2] <= row[q] /\ a[2] \in Nat
        BY <1>o, <1>t, <4>5
      <4>7. QED
        BY <4>3, <4>4, <4>5, <4>6
    <3>4. QED
      BY <2>2, <2>4, <3>2, <3>3
  <2>6. CASE \/ pc'[w] = pc[w] /\ buf'[w] = buf[w] /\ stored'[w] = stored[w]
             \/ ClearFlushed(w)
    <3>1. pc[w] \in {"clear", "analytics"}
      BY <1>2, <2>6 DEF ClearFlushed
    <3>2. \A f \in ClientFields : row'[f] = row[f]
      BY <1>s, <2>1, <3>1, OneWriter
    <3>3. QED
      BY <1>o, <2>2, <2>4, <3>1, <3>2
  <2>7. QED
    BY <2>3, <2>5, <2>6
<1>3. ASSUME NEW a \in analytics'
      PROVE  a[2] <= row'[a[1]]
  <2>1. CASE a \in analytics
    <3>1. a[1] \in ClientFields /\ a[2] \in Nat /\ a[2] <= row[a[1]]
      BY <1>c, <1>o, <1>t, <2>1
    <3>2. /\ row[a[1]] <= row'[a[1]]
          /\ row[a[1]] \in Nat /\ row'[a[1]] \in Nat
      BY <1>s, <3>1, RowAdvances
    <3>3. QED
      BY <3>1, <3>2
  <2>2. ASSUME NEW w \in Flushers, EnqueueAnalytics(w), a \in NewAttempts(w)
        PROVE  a[2] <= row'[a[1]]
    <3>1. pc[w] = "analytics" /\ row' = row
      BY <2>2 DEF EnqueueAnalytics, rowVars
    <3>2. PICK q \in Questions : a = <<q, Staged(w)[q]>> /\ Staged(w)[q] # 0
      BY <2>2 DEF NewAttempts
    <3>3. Staged(w)[q] = row[q]
      BY <1>c, <1>o, <3>1, <3>2
    <3>4. row[q] \in Nat
      BY <1>c DEF TypeOK, Answers
    <3>5. QED
      BY <3>1, <3>2, <3>3, <3>4
  <2>3. a \in analytics \/ \E w \in Flushers : EnqueueAnalytics(w) /\ a \in NewAttempts(w)
    BY <1>3, HistoryWriters DEF EnqueueAnalytics
  <2>4. QED
    BY <2>1, <2>2, <2>3
<1>4. QED
  BY <1>1, <1>2, <1>3 DEF AttemptsInv

\* The batch of a section that was read whole stays so while the row advances.
LEMMA BatchReadStays ==
    ASSUME TypeOK, SavesInv, WriterInv, [Next]_vars, ~LockMayExpire,
           status' # "COMPLETED",
           NEW w \in Workers, NEW q \in Questions, buf'[w] = buf[w], Locked(q, buf[w]),
           Locked(q, row) \/ sealed[q] <= Merge(row, buf[w])[q]
    PROVE  Locked(q, row') \/ sealed'[q] <= Merge(row', buf'[w])[q]
<1>1. q \in ClientFields /\ q \in Fields /\ SectionOf[q] \in Sections
      /\ SectionOf[q] \in ClientFields /\ SectionOf[q] \in Fields
  BY DEF Locked, ClientFields, Fields
<1>2. sealed'[q] = sealed[q]
  <2>1. buf[w][SectionOf[q]] # 0 /\ buf[w][SectionOf[q]] <= issued[SectionOf[q]]
    BY <1>1 DEF Locked, SavesInv
  <2>2. buf[w][SectionOf[q]] \in Nat /\ issued[SectionOf[q]] \in Nat
    BY <1>1 DEF TypeOK, Answers
  <2>3. issued[SectionOf[q]] # 0
    BY <2>1, <2>2
  <2>4. QED
    BY <1>1, <2>3, IssuedStep
<1>3. CASE Locked(q, row)
  BY <1>3, LockedStays
<1>4. CASE sealed[q] <= Merge(row, buf[w])[q]
  <2>1. /\ row[q] <= row'[q] /\ row[q] \in Nat /\ row'[q] \in Nat
    BY <1>1, RowAdvances
  <2>2. sealed[q] \in Nat /\ buf[w][q] \in Nat
    BY <1>1 DEF TypeOK, Answers
  <2>3. /\ Merge(row, buf[w])[q] = IF buf[w][q] # 0 THEN buf[w][q] ELSE row[q]
        /\ Merge(row', buf'[w])[q] = IF buf[w][q] # 0 THEN buf[w][q] ELSE row'[q]
    BY <1>1 DEF Merge
  <2>4. QED
    BY <1>2, <1>4, <2>1, <2>2, <2>3
<1>5. QED
  BY <1>3, <1>4

\* What is staged of a section's batch when it is read, the row has the rest of it.
LEMMA BatchStaged ==
    ASSUME TypeOK, StashInv, SavesInv, discarded = {}, ~LockMayExpire,
           status # "COMPLETED", NEW q \in Questions, NEW v,
           v = stash[q] \/ v = issued[q]
    PROVE  \/ Locked(q, row)
           \/ sealed[q] <= IF v # 0 THEN v ELSE row[q]
<1>1. q \in ClientFields /\ q \in Fields
  BY DEF ClientFields, Fields
<1>2. issued[q] \in Nat /\ sealed[q] \in Nat /\ row[q] \in Nat /\ stash[q] \in Nat
  BY <1>1 DEF TypeOK, Answers
<1>3. sealed[q] <= issued[q]
  BY <1>1 DEF SavesInv
<1>4. stash[q] = 0 \/ stash[q] = issued[q]
  BY <1>1 DEF StashInv
<1>5. issued[q] = stash[q] \/ issued[q] = row[q] \/ Locked(q, row)
  BY <1>1 DEF StashInv, Kept
<1>6. QED
  BY <1>2, <1>3, <1>4, <1>5

\* What a flush or a completion of a live session writes closes no section before its
\* batch is in.
LEMMA BatchLocals ==
    ASSUME TypeOK, StashInv, SavesInv, WriterInv, AttemptsInv, BatchInv, [Next]_vars,
           ~LockMayExpire, ExamKind # "ungraded", reopens' = 0, status' = "IN_PROGRESS",
           NEW w \in Workers, NEW q \in Questions
    PROVE  /\ (Writing(w)' \/ pc'[w] = "readForSubmit") /\ Locked(q, buf'[w]) =>
                 Locked(q, row') \/ sealed'[q] <= Merge(row', buf'[w])[q]
           /\ pc'[w] = "complete" /\ Locked(q, Final(w)') =>
                 sealed'[q] <= Final(w)'[q]
<1> DEFINE Read == (Writing(w)' \/ pc'[w] = "readForSubmit") /\ Locked(q, buf'[w]) =>
                      Locked(q, row') \/ sealed'[q] <= Merge(row', buf'[w])[q]
           Written == pc'[w] = "complete" /\ Locked(q, Final(w)') =>
                         sealed'[q] <= Final(w)'[q]
<1>s. status = "IN_PROGRESS" /\ reopens = 0 /\ status' # "COMPLETED" /\ status # "COMPLETED"
  BY StatusStep
<1>q. q \in ClientFields /\ q \in Fields /\ q \notin CodingFields
  BY FieldsAssumption DEF ClientFields, Fields
<1>b. /\ Locked(q, row) => sealed[q] <= row[q]
      /\ (Writing(w) \/ pc[w] = "readForSubmit") /\ Locked(q, buf[w]) =>
            Locked(q, row) \/ sealed[q] <= Merge(row, buf[w])[q]
      /\ pc[w] = "complete" /\ Locked(q, Final(w)) => sealed[q] <= Final(w)[q]
  BY <1>s DEF BatchInv
<1>d. discarded = {}
  BY <1>s DEF AttemptsInv
<1>m. \A base, over : Merge(base, over)[q] = IF over[q] # 0 THEN over[q] ELSE base[q]
  BY <1>q DEF Merge
<1>r. ASSUME Writing(w) \/ pc[w] = "readForSubmit", buf'[w] = buf[w]
      PROVE  Read
  BY <1>r, <1>s, <1>b, BatchReadStays
<1>1. CASE pc'[w] = pc[w] /\ buf'[w] = buf[w] /\ stored'[w] = stored[w]
  <2>1. Read
    BY <1>1, <1>r DEF Writing
  <2>2. Written
    <3> SUFFICES ASSUME pc[w] = "complete", Locked(q, Final(w)')
                 PROVE  sealed'[q] <= Final(w)'[q]
      BY <1>1
    <3>1. Final(w)' = Final(w)
      BY <1>1 DEF Final, Staged
    <3>2. sealed'[q] = sealed[q]
      <4>1. SectionOf[q] \in Sections /\ Final(w)[SectionOf[q]] # 0
        BY <3>1 DEF Locked
      <4>2. SectionOf[q] \in ClientFields /\ SectionOf[q] \in Fields
        BY <4>1 DEF ClientFields, Fields
      <4>3. \/ buf[w][SectionOf[q]] # 0 \/ stored[w][SectionOf[q]] # 0
        BY <4>1, <4>2, StagedIs
      <4>4. /\ buf[w][SectionOf[q]] \in Nat /\ stored[w][SectionOf[q]] \in Nat
            /\ issued[SectionOf[q]] \in Nat
            /\ buf[w][SectionOf[q]] <= issued[SectionOf[q]]
            /\ stored[w][SectionOf[q]] <= issued[SectionOf[q]]
        BY <4>2 DEF SavesInv, TypeOK, Answers
      <4>5. QED
        BY <4>1, <4>3, <4>4, IssuedStep
    <3>3. QED
      BY <1>b, <3>1, <3>2
  <2>3. QED
    BY <2>1, <2>2
<1>2. CASE ~Busy(w)'
  BY <1>2 DEF Busy
<1>3. CASE ReadStash(w)
  <2>1. buf'[w] = stash /\ pc'[w] # "complete" /\ sealed' = sealed /\ row' = row
    BY <1>3 DEF ReadStash, Goto, TypeOK, rowVars, historyVars
  <2>2. Locked(q, row) \/ sealed[q] <= IF stash[q] # 0 THEN stash[q] ELSE row[q]
    BY <1>d, <1>s, BatchStaged
  <2>3. QED
    BY <1>m, <2>1, <2>2
<1>4. CASE ReadMeta(w) \/ FillMeta(w) \/ ReadRow(w)
  <2>1. Writing(w) /\ buf'[w] = buf[w] /\ pc'[w] # "complete"
    BY <1>4 DEF ReadMeta, FillMeta, ReadRow, Goto, TypeOK, Writing
  <2>2. QED
    BY <1>r, <2>1
<1>5. CASE PersistStaged(w) \/ ClearFlushed(w)
  <2>1. ~Writing(w)' /\ pc'[w] \notin {"complete", "readForSubmit"}
    BY <1>5 DEF PersistStaged, ClearFlushed, Goto, TypeOK, Writing
  <2>2. QED
    BY <2>1
<1>6. ASSUME NEW finals \in Answers, \A f \in Fields : finals[f] \in {0, issued[f]},
             Collect(w, finals)
      PROVE  Read /\ Written
  <2>1. /\ buf'[w][q] = Merge(stash, finals)[q]
        /\ pc'[w] = "readForSubmit" /\ sealed' = sealed /\ row' = row
    BY <1>6, <1>q DEF Collect, Goto, TypeOK, rowVars
  <2>2. buf'[w][q] = stash[q] \/ buf'[w][q] = issued[q]
    BY <1>6, <1>m, <1>q, <2>1
  <2>3. \/ Locked(q, row)
        \/ sealed[q] <= IF buf'[w][q] # 0 THEN buf'[w][q] ELSE row[q]
    BY <1>d, <1>s, <2>2, BatchStaged
  <2>4. QED
    BY <1>m, <2>1, <2>3
<1>7. CASE ReadForSubmit(w)
  <2>1. /\ pc[w] = "readForSubmit" /\ pc'[w] = "complete"
        /\ buf'[w] = buf[w] /\ stored'[w] = row /\ sealed' = sealed
    BY <1>7, <1>s DEF ReadForSubmit, Goto, TypeOK
  <2>2. Final(w)' = Merge(row, Accepted(buf[w], row))
    BY <2>1 DEF Final, Staged
  <2>3. CASE Locked(q, row)
    <3>1. Accepted(buf[w], row)[q] = 0
      BY <1>q, <2>3 DEF Accepted
    <3>2. Final(w)'[q] = row[q]
      BY <1>m, <2>2, <3>1
    <3>3. QED
      BY <1>b, <2>1, <2>3, <3>2 DEF Writing
  <2>4. CASE ~Locked(q, row) /\ Locked(q, Final(w)')
    <3>1. Accepted(buf[w], row)[q] = buf[w][q]
      BY <1>q, <2>4 DEF Accepted
    <3>2. Final(w)'[q] = Merge(row, buf[w])[q]
      BY <1>m, <2>2, <3>1
    <3>3. Locked(q, buf[w])
      <4>1. SectionOf[q] \in Sections /\ SectionOf[q] \in Fields
            /\ SectionOf[q] \notin Questions
        BY <2>4, FieldsAssumption DEF Locked, Fields, ClientFields
      <4>2. Accepted(buf[w], row)[SectionOf[q]] = buf[w][SectionOf[q]]
        BY <4>1 DEF Accepted
      <4>3. Final(w)'[SectionOf[q]] = IF buf[w][SectionOf[q]] # 0
                                      THEN buf[w][SectionOf[q]] ELSE row[SectionOf[q]]
        BY <2>2, <4>1, <4>2 DEF Merge
      <4>4. QED
        BY <2>4, <4>1, <4>3 DEF Locked
    <3>4. sealed[q] <= Merge(row, buf[w])[q]
      BY <1>b, <2>1, <2>4, <3>3
    <3>5. QED
      BY <2>1, <3>2, <3>4 DEF Writing
  <2>5. CASE ~Locked(q, Final(w)')
    BY <2>1, <2>5 DEF Writing
  <2>6. QED
    BY <2>3, <2>4, <2>5
<1>8. QED
  BY <1>1, <1>2, <1>3, <1>4, <1>5, <1>6, <1>7, LocalSteps

\* A section is closed in the row only with its whole batch.
LEMMA BatchRow ==
    ASSUME TypeOK, StashInv, SavesInv, WriterInv, AttemptsInv, BatchInv, [Next]_vars,
           ~LockMayExpire, ExamKind # "ungraded", reopens' = 0,
           NEW q \in Questions, Locked(q, row')
    PROVE  sealed'[q] <= row'[q]
<1>s. reopens = 0
  BY StatusStep
<1>q. /\ q \in ClientFields /\ q \in Fields
      /\ SectionOf[q] \in Sections /\ SectionOf[q] \in ClientFields /\ SectionOf[q] \in Fields
  BY DEF ClientFields, Fields, Locked
<1>b. Locked(q, row) => sealed[q] <= row[q]
  BY <1>s DEF BatchInv
<1>n. \A w \in Workers : /\ buf[w][SectionOf[q]] \in Nat /\ stored[w][SectionOf[q]] \in Nat
                         /\ buf[w][SectionOf[q]] <= issued[SectionOf[q]]
                         /\ stored[w][SectionOf[q]] <= issued[SectionOf[q]]
  BY <1>q DEF SavesInv, TypeOK, Answers
<1>r. /\ row[SectionOf[q]] \in Nat /\ issued[SectionOf[q]] \in Nat
      /\ row[SectionOf[q]] <= issued[SectionOf[q]]
  BY <1>q DEF SavesInv, TypeOK, Answers
<1>e. issued[SectionOf[q]] # 0 => sealed'[q] = sealed[q]
  BY <1>q, IssuedStep
<1>1. CASE \A f \in ClientFields : row'[f] = row[f]
  <2>1. Locked(q, row)
    BY <1>1, <1>q DEF Locked
  <2>2. sealed'[q] = sealed[q]
    BY <1>e, <1>r, <2>1 DEF Locked
  <2>3. QED
    BY <1>1, <1>b, <1>q, <2>1, <2>2
<1>2. ASSUME NEW w \in Flushers, pc[w] = "persist", status = "IN_PROGRESS",
             row' = Merge(row, Staged(w))
      PROVE  sealed'[q] <= row'[q]
  <2>w. w \in Workers
    BY DEF Workers
  <2>1. \A f \in ClientFields : stored[w][f] = row[f]
    BY <1>2 DEF WriterInv
  <2>2. \A f \in ClientFields :
           row'[f] = IF Staged(w)[f] # 0 THEN Staged(w)[f] ELSE row[f]
    BY <1>2 DEF Merge, Fields
  <2>3. CASE Locked(q, row)
    <3>1. Locked(q, stored[w])
      BY <1>q, <2>1, <2>3 DEF Locked
    <3>2. Staged(w)[q] = 0
      BY <1>q, <2>w, <3>1, StagedIs
    <3>3. sealed'[q] = sealed[q]
      BY <1>e, <1>r, <2>3 DEF Locked
    <3>4. QED
      BY <1>b, <1>q, <2>2, <2>3, <3>2, <3>3
  <2>4. CASE ~Locked(q, row)
    <3>1. ~Locked(q, stored[w])
      BY <1>q, <2>1, <2>4 DEF Locked
    <3>2. Staged(w)[q] = buf[w][q]
      BY <1>q, <2>w, <3>1, StagedIs
    <3>3. Locked(q, buf[w])
      <4>1. SectionOf[q] \notin Questions
        BY <1>q, FieldsAssumption
      <4>2. Staged(w)[SectionOf[q]] = buf[w][SectionOf[q]]
        BY <1>q, <2>w, <4>1, StagedIs
      <4>3. row[SectionOf[q]] = 0
        BY <1>q, <2>4 DEF Locked
      <4>4. row'[SectionOf[q]] # 0
        BY DEF Locked
      <4>5. QED
        BY <1>q, <2>2, <4>2, <4>3, <4>4 DEF Locked
    <3>4. sealed[q] <= Merge(row, buf[w])[q]
      BY <1>2, <1>s, <2>w, <2>4, <3>3 DEF BatchInv, Writing
    <3>5. sealed'[q] = sealed[q]
      BY <1>e, <1>n, <1>r, <2>w, <3>3 DEF Locked
    <3>6. Merge(row, buf[w])[q] = row'[q]
      BY <1>q, <2>2, <3>2 DEF Merge
    <3>7. QED
      BY <3>4, <3>5, <3>6
  <2>5. QED
    BY <2>3, <2>4
<1>3. ASSUME NEW w \in Workers, pc[w] = "complete", status = "IN_PROGRESS",
             row' = Final(w)
      PROVE  sealed'[q] <= row'[q]
  <2>1. sealed[q] <= Final(w)[q]
    BY <1>3, <1>s DEF BatchInv
  <2>2. issued[SectionOf[q]] # 0
    <3>1. Final(w)[SectionOf[q]] # 0
      BY <1>3 DEF Locked
    <3>2. buf[w][SectionOf[q]] # 0 \/ stored[w][SectionOf[q]] # 0
      BY <1>q, <3>1, StagedIs
    <3>3. QED
      BY <1>n, <1>r, <3>2
  <2>3. QED
    BY <1>3, <1>e, <2>1, <2>2
<1>4. QED
  BY <1>1, <1>2, <1>3, RowStep

\* Every step keeps the batches whole.
LEMMA BatchStep ==
    ASSUME TypeOK, StashInv, SavesInv, WriterInv, AttemptsInv, BatchInv, [Next]_vars
    PROVE  BatchInv'
BY BatchRow, BatchLocals DEF BatchInv

\* Whoever turns to clearing the stash in the step that completes the session has
\* written its own answers to the row.
LEMMA CompletesItself ==
    ASSUME TypeOK, [Next]_vars, NEW w \in Workers, pc[w] = "complete",
           status = "IN_PROGRESS", status' = "COMPLETED", pc'[w] = "clearStash"
    PROVE  row' = Final(w)
<1>1. \E v \in Workers : CompleteSession(v)
  BY RowWriters DEF rowVars, PersistCodingResult, PersistStaged, TerminateForViolation,
                    TeacherTerminates, TeacherReopens, Regrade
<1>2. PICK v \in Workers : CompleteSession(v)
  BY <1>1
<1>3. v = w
  BY <1>2 DEF CompleteSession, RowAcceptsCompletion, Goto, TypeOK
<1>4. QED
  BY <1>2, <1>3 DEF CompleteSession, RowAcceptsCompletion

-------------------------------------------------------------------------------
(* The inductive invariant of the answers, and what follows from it.       *)

\* The answers' invariant holds at first, and every step keeps it.
THEOREM AnswersInvariant == Spec => [](TypeOK /\ SessionInv /\ AnswersInv)
<1>1. Init => TypeOK /\ SessionInv /\ AnswersInv
  <2> SUFFICES ASSUME Init PROVE SessionInv /\ AnswersInv
    BY TypeInit
  <2>1. SessionInv
    BY DEF Init, SessionInv, HolderInv, InFlush, FollowUpInv, Finishing, StashInv, Kept,
           Blank, Fields, Workers
  <2>2. SavesInv
    BY DEF Init, SavesInv, Blank, Fields, ClientFields
  <2>3. WriterInv /\ CollectInv /\ AttemptsInv
    BY DEF Init, WriterInv, Writing, CollectInv, AttemptsInv, Workers
  <2>4. BatchInv
    BY DEF Init, BatchInv, Writing, Locked, Blank, Fields, ClientFields
  <2>5. QED
    BY <2>1, <2>2, <2>3, <2>4 DEF AnswersInv
<1>2. TypeOK /\ SessionInv /\ AnswersInv /\ [Next]_vars
         => (TypeOK /\ SessionInv /\ AnswersInv)'
  BY TypeStep, HolderStep, FollowUpStep, StashStep, SavesStep, WriterStep, CollectStep,
     AttemptsStep, BatchStep DEF SessionInv, AnswersInv
<1>3. QED
  BY <1>1, <1>2, PTL DEF Spec

\* A closed section of a graded exam holds at least what had been saved when it was
\* submitted, whichever flushes and completions, overtaken by newer saves and markers,
\* wrote the row, provided no flush outlives the TTL of its lock.
THEOREM BatchesLand ==
    ASSUME ~LockMayExpire, ExamKind # "ungraded"
    PROVE  Spec => []SectionBatchLands
<1>1. TypeOK /\ AnswersInv => SectionBatchLands
  <2> SUFFICES ASSUME TypeOK, AnswersInv, reopens = 0, NEW q \in Questions, Locked(q, row)
               PROVE  row[q] >= sealed[q]
    BY DEF SectionBatchLands
  <2>1. sealed[q] <= row[q]
    BY DEF AnswersInv, BatchInv
  <2>2. sealed[q] \in Nat /\ row[q] \in Nat
    BY DEF TypeOK, Answers, Fields, ClientFields
  <2>3. QED
    BY <2>1, <2>2
<1>2. QED
  BY <1>1, AnswersInvariant, PTL

\* While a session stays live its answers never go back to an older save and those of
\* a closed section never change, although a flush writes what it read some steps ago.
\* Without grading data the code filters nothing, and the second half fails.
THEOREM AnswersOnlyAdvance ==
    ASSUME ~LockMayExpire, ExamKind # "ungraded"
    PROVE  Spec => RowOnlyAdvances
<1>1. TypeOK /\ AnswersInv /\ [Next]_vars =>
         (status' = "IN_PROGRESS" =>
            \A f \in ClientFields :
                /\ row'[f] >= row[f]
                /\ f \in Questions /\ Locked(f, row) => row'[f] = row[f])
  BY RowOnlyAdvancesStep DEF AnswersInv
<1>2. QED
  BY <1>1, AnswersInvariant, PTL DEF Spec, RowOnlyAdvances

\* No answer of a live session that was never terminated is enqueued twice for the
\* question-attempt analytics, which award XP, however often a client saves it again
\* and a failed flush is retried.
THEOREM AttemptsAreNew ==
    ASSUME ~LockMayExpire
    PROVE  Spec => []NoDuplicateAttempt
<1>1. TypeOK /\ AnswersInv => NoDuplicateAttempt
  <2> SUFFICES ASSUME TypeOK, AnswersInv, status = "IN_PROGRESS", reopens = 0,
                      NEW w \in Flushers, pc[w] = "analytics",
                      NEW a \in NewAttempts(w) \cap analytics
               PROVE  FALSE
    BY DEF NoDuplicateAttempt
  <2>1. a[2] < a[2]
    BY DEF AnswersInv, AttemptsInv
  <2>2. a[2] \in Nat
    BY DEF TypeOK
  <2>3. QED
    BY <2>1, <2>2
<1>2. QED
  BY <1>1, AnswersInvariant, PTL

\* A completion has every answer that was saved before it began collecting, although
\* flushes move answers from the stash to the row while it collects.
THEOREM CompletionsKeepAnswers ==
    ASSUME ~LockMayExpire
    PROVE  Spec => CompletionKeepsEarlierAnswers
<1>1. ASSUME TypeOK, AnswersInv, [Next]_vars, NEW w \in Workers, pc[w] = "complete",
             status = "IN_PROGRESS", status' = "COMPLETED", pc'[w] = "clearStash",
             NEW f \in Fields
      PROVE  \/ row'[f] >= acked[w][f]
             \/ f \in Questions /\ Locked(f, stored[w])
  <2>1. row' = Final(w)
    BY <1>1, CompletesItself
  <2>2. \/ acked[w][f] <= Final(w)[f]
        \/ f \in Questions /\ Locked(f, stored[w])
    <3>1. CASE f \in ClientFields
      BY <1>1, <3>1 DEF AnswersInv, CollectInv
    <3>2. CASE f \in CodingFields
      <4>1. acked[w][f] <= buf[w][f] /\ acked[w][f] \in Nat /\ buf[w][f] \in Nat
        BY <1>1, <3>2 DEF AnswersInv, CollectInv, TypeOK, Answers
      <4>2. f \notin Questions
        BY <3>2, FieldsAssumption DEF ClientFields
      <4>3. Staged(w)[f] = buf[w][f] /\ stored[w][f] \in Nat
            /\ Final(w)[f] = IF Staged(w)[f] # 0 THEN Staged(w)[f] ELSE stored[w][f]
        BY <1>1, <4>2, StagedIs
      <4>4. QED
        BY <4>1, <4>3
    <3>3. QED
      BY <3>1, <3>2 DEF Fields
  <2>3. Final(w)[f] \in Nat /\ acked[w][f] \in Nat
    BY <1>1, StagedType DEF TypeOK, Answers
  <2>4. QED
    BY <2>1, <2>2, <2>3
<1>2. TypeOK /\ AnswersInv /\ [Next]_vars =>
         (\A w \in Workers :
            pc[w] = "complete" /\ status = "IN_PROGRESS" /\ status' = "COMPLETED"
            /\ pc'[w] = "clearStash" =>
                \A f \in Fields :
                    \/ row'[f] >= acked[w][f]
                    \/ f \in Questions /\ Locked(f, stored[w]))
  BY <1>1
<1>3. QED
  BY <1>2, AnswersInvariant, PTL DEF Spec, CompletionKeepsEarlierAnswers

===============================================================================
