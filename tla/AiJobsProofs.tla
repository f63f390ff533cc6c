----------------------------- MODULE AiJobsProofs -----------------------------
(***************************************************************************)
(* Proofs about AiJobs, for any number of jobs, any limit and any number   *)
(* of failures, crashes and cancel requests.                               *)
(***************************************************************************)
EXTENDS AiJobs, FiniteSetTheorems, TLAPS

-------------------------------------------------------------------------------
(* The inductive invariants.                                               *)

\* A worker runs its job only from the queue, in the status it has read unless the
\* job was cancelled since, and on the credits the create request has reserved.
JobInv ==
    \A j \in Jobs :
        /\ pc[j] \in {"idle", "expire", "count", "reserve", "insert"} =>
              row[j] = "none" /\ queue[j] = "none"
        /\ pc[j] = "enqueue" => queue[j] = "none"
        /\ pc[j] \in {"insert", "enqueue"} => j \in reserved \cup flag
        /\ worker[j] # "idle" => queue[j] = "active"
        /\ worker[j] = "start" => row[j] \in {"queued", "cancelled"}
        /\ worker[j] = "start" => row[j] = "queued" \/ j \in flag
        /\ worker[j] = "run" => row[j] = "running" /\ j \in reserved \cup flag
        /\ worker[j] = "release" => row[j] # "queued"
        /\ row[j] = "queued" /\ queue[j] \in {"waiting", "active", "stalled"} =>
              j \in reserved \cup flag
        /\ canceller[j] \in {"find", "remove", "update"} => j \in flag

\* Requests that were let past the limit and have inserted no row yet.
Admitted == {j \in Jobs : pc[j] \in {"reserve", "insert"}}

\* Requests that took their hold before j did and have it still.
Before(j) == {k \in Holding : turn[k] < turn[j]}

\* Requests an admitted one has counted on: they may all still insert a row.
Claimed ==
    {j \in Jobs : \/ j \in Admitted
                  \/ /\ pc[j] \in {"expire", "count"}
                     /\ \E a \in Admitted : turn[j] < turn[a]}

\* The counter is never behind the requests that hold it.
HoldInv ==
    /\ Cardinality(Holding) <= hold
    /\ \A j \in Holding : turn[j] <= turns
    /\ \A j, k \in Holding : turn[j] = turn[k] => j = k
    /\ \A j \in Holding : Cardinality(Before(j)) < seen[j]

\* The running jobs and those that may still be inserted fit the plan.
RoomInv == Cardinality(Running) + Cardinality(Claimed) <= JobLimit

-------------------------------------------------------------------------------
(* Type correctness.                                                       *)

\* The labels a create request goes to.
LEMMA GotoType ==
    ASSUME JobsTypeOK, NEW j \in Jobs, NEW label \in CreateLabels, Goto(j, label)
    PROVE  pc' \in [Jobs -> CreateLabels]
  BY DEF JobsTypeOK, Goto

\* The steps of create requests keep the types.
LEMMA CreateTypes ==
    ASSUME JobsTypeOK, NEW j \in Jobs,
           TakeHold(j) \/ CreateStep(j) \/ CreateFails(j) \/ CrashCreate(j)
    PROVE  JobsTypeOK'
<1> USE DEF JobsTypeOK, jobVars
<1>l. {"expire", "count", "reserve", "insert", "enqueue", "release", "done"}
         \subseteq CreateLabels
  BY DEF CreateLabels
<1>1. CASE TakeHold(j)
  <2>1. hold' \in Int /\ seen' \in [Jobs -> Int] /\ turns' \in Nat /\ turn' \in [Jobs -> Nat]
    BY <1>1 DEF TakeHold
  <2>2. pc' \in [Jobs -> CreateLabels]
    BY <1>1, <1>l, GotoType DEF TakeHold
  <2>3. QED
    BY <1>1, <2>1, <2>2 DEF TakeHold
<1>2. CASE SetHoldTtl(j)
  <2>1. pc' \in [Jobs -> CreateLabels]
    BY <1>2, <1>l, GotoType DEF SetHoldTtl
  <2>2. holdTtl' \in BOOLEAN
    BY <1>2 DEF SetHoldTtl
  <2>3. QED
    BY <1>2, <2>1, <2>2 DEF SetHoldTtl
<1>3. CASE CountActive(j)
  BY <1>3, <1>l, GotoType DEF CountActive
<1>4. CASE Reserve(j)
  BY <1>4, <1>l, GotoType DEF Reserve
<1>5. CASE InsertJob(j)
  BY <1>5, <1>l, GotoType DEF InsertJob, RowStatuses
<1>6. CASE Enqueue(j)
  BY <1>6, <1>l, GotoType DEF Enqueue
<1>7. CASE ReleaseSlot(j)
  BY <1>7, <1>l, GotoType DEF ReleaseSlot
<1>8. CASE CreateFails(j)
  <2>1. pc' \in [Jobs -> CreateLabels] /\ reserved' \subseteq Jobs
    BY <1>8, <1>l, GotoType DEF CreateFails, ReservedAfterFailure
  <2>2. QED
    BY <1>8, <2>1 DEF CreateFails
<1>9. CASE CrashCreate(j)
  BY <1>9, <1>l, GotoType DEF CrashCreate
<1>10. QED
  BY <1>1, <1>2, <1>3, <1>4, <1>5, <1>6, <1>7, <1>8, <1>9 DEF CreateStep

\* The steps of workers and of cancel requests keep the types.
LEMMA WorkerTypes ==
    ASSUME JobsTypeOK, NEW j \in Jobs,
           \/ WorkerStep(j) \/ WorkerFails(j) \/ CrashWorker(j) \/ AgeJob(j)
           \/ RequestCancel(j) \/ CancelStep(j)
    PROVE  JobsTypeOK'
<1> USE DEF JobsTypeOK, createVars
<1>1. CASE TakeJob(j)
  BY <1>1 DEF TakeJob
<1>2. CASE ReadJob(j)
  BY <1>2 DEF ReadJob
<1>3. CASE StartJob(j)
  BY <1>3 DEF StartJob, RowStatuses
<1>4. CASE EndJob(j)
  BY <1>4 DEF EndJob, Outcomes, RowStatuses
<1>5. CASE ReleaseCredits(j)
  BY <1>5 DEF ReleaseCredits
<1>6. CASE Redeliver(j)
  BY <1>6 DEF Redeliver
<1>7. CASE WorkerFails(j)
  BY <1>7 DEF WorkerFails
<1>8. CASE CrashWorker(j)
  BY <1>8 DEF CrashWorker
<1>9. CASE AgeJob(j)
  BY <1>9 DEF AgeJob
<1>10. CASE RequestCancel(j)
  BY <1>10 DEF RequestCancel, CancelGoto
<1>11. CASE SetFlag(j)
  BY <1>11 DEF SetFlag, CancelGoto, Flagged
<1>12. CASE FindQueued(j)
  BY <1>12 DEF FindQueued, CancelGoto
<1>13. CASE RemoveQueued(j)
  BY <1>13 DEF RemoveQueued, CancelGoto
<1>14. CASE UpdateCancelled(j)
  BY <1>14 DEF UpdateCancelled, CancelGoto, RowStatuses
<1>15. QED
  BY <1>1, <1>2, <1>3, <1>4, <1>5, <1>6, <1>7, <1>8, <1>9, <1>10, <1>11, <1>12,
     <1>13, <1>14 DEF WorkerStep, CancelStep

\* Every variable keeps its type.
THEOREM JobsTypeCorrect == Spec => []JobsTypeOK
<1>1. ASSUME Init
      PROVE  JobsTypeOK
  <2>1. hold = 0 /\ fails = 0 /\ crashes = 0 /\ cancels = 0 /\ turns = 0
    BY <1>1 DEF Init
  <2>2. holdTtl \in BOOLEAN
    BY <1>1, Zenon DEF Init
  <2>3. /\ aged \subseteq Jobs /\ redelivered \subseteq Jobs
        /\ flag \subseteq Jobs /\ reserved \subseteq Jobs
    BY <1>1 DEF Init
  <2>4. /\ row \in [Jobs -> RowStatuses]
        /\ queue \in [Jobs -> {"none", "waiting", "active", "stalled", "ended"}]
        /\ pc \in [Jobs -> CreateLabels]
        /\ worker \in [Jobs -> {"idle", "read", "start", "run", "release"}]
        /\ canceller \in [Jobs -> {"idle", "flag", "flagQueued", "find", "remove",
                                   "update"}]
    BY <1>1 DEF Init, RowStatuses, CreateLabels
  <2>5. seen \in [Jobs -> Int] /\ turn \in [Jobs -> Nat]
    BY <1>1 DEF Init
  <2>6. QED
    BY <2>1, <2>2, <2>3, <2>4, <2>5 DEF JobsTypeOK
<1>2. ASSUME JobsTypeOK, [Next]_jobsVars
      PROVE  JobsTypeOK'
  <2>1. CASE UNCHANGED jobsVars
    BY <1>2, <2>1 DEF JobsTypeOK, jobsVars, createVars, jobVars
  <2>2. CASE ExpireHold
    <3>1. holdTtl' \in BOOLEAN
      BY <2>2, Zenon DEF ExpireHold
    <3>2. hold' = 0 /\ UNCHANGED <<pc, seen, turn, turns, jobVars, fails, crashes, cancels>>
      BY <2>2 DEF ExpireHold
    <3>3. QED
      BY <1>2, <3>1, <3>2 DEF JobsTypeOK, jobVars
  <2>3. QED
    BY <1>2, <2>1, <2>2, CreateTypes, WorkerTypes DEF Next
<1>3. QED
  BY <1>1, <1>2, PTL DEF Spec

-------------------------------------------------------------------------------
(* The jobs one by one.                                                    *)

\* Steps that leave alone what JobInv is about, or only free a job of it.
LEMMA JobInvFrame ==
    ASSUME JobsTypeOK, JobInv, NEW j \in Jobs,
           UNCHANGED <<row, queue, flag, reserved, worker, canceller>>,
           pc' = [pc EXCEPT ![j] = pc'[j]],
           \/ pc'[j] \in {"release", "done"}
           \/ pc[j] \in {"idle", "expire", "count"} /\ pc'[j] \in {"expire", "count", "reserve"}
    PROVE  JobInv'
  BY DEF JobsTypeOK, JobInv

\* The steps of create requests.
LEMMA JobInvCreate ==
    ASSUME JobsTypeOK, JobInv, NEW j \in Jobs,
           TakeHold(j) \/ CreateStep(j) \/ CreateFails(j) \/ CrashCreate(j)
    PROVE  JobInv'
<1> USE DEF jobVars
<1>1. CASE TakeHold(j) \/ SetHoldTtl(j) \/ CountActive(j)
  <2>1. PICK label \in {"expire", "count", "reserve", "release"} :
           pc' = [pc EXCEPT ![j] = label] /\ pc[j] \in {"idle", "expire", "count"}
    BY <1>1 DEF TakeHold, SetHoldTtl, CountActive, Goto
  <2>2. UNCHANGED <<row, queue, flag, reserved, worker, canceller>>
    BY <1>1 DEF TakeHold, SetHoldTtl, CountActive
  <2>3. QED
    BY <2>1, <2>2, JobInvFrame DEF JobsTypeOK
<1>2. CASE Reserve(j)
  BY <1>2 DEF Reserve, Goto, JobsTypeOK, JobInv
<1>3. CASE InsertJob(j)
  BY <1>3 DEF InsertJob, Goto, JobsTypeOK, JobInv
<1>4. CASE Enqueue(j)
  BY <1>4 DEF Enqueue, Goto, JobsTypeOK, JobInv
<1>5. CASE ReleaseSlot(j) \/ CrashCreate(j)
  <2>1. pc' = [pc EXCEPT ![j] = "done"]
    BY <1>5 DEF ReleaseSlot, CrashCreate, Goto
  <2>2. UNCHANGED <<row, queue, flag, reserved, worker, canceller>>
    BY <1>5 DEF ReleaseSlot, CrashCreate
  <2>3. QED
    BY <2>1, <2>2, JobInvFrame DEF JobsTypeOK
<1>6. CASE CreateFails(j)
  BY <1>6 DEF CreateFails, ReservedAfterFailure, Goto, JobsTypeOK, JobInv
<1>7. QED
  BY <1>1, <1>2, <1>3, <1>4, <1>5, <1>6 DEF CreateStep

\* The steps of workers and of cancel requests.
LEMMA JobInvWorker ==
    ASSUME JobsTypeOK, JobInv, NEW j \in Jobs,
           \/ WorkerStep(j) \/ WorkerFails(j) \/ CrashWorker(j) \/ AgeJob(j)
           \/ RequestCancel(j) \/ CancelStep(j)
    PROVE  JobInv'
<1> USE DEF JobsTypeOK, JobInv, createVars
<1>1. CASE TakeJob(j)
  BY <1>1 DEF TakeJob
<1>2. CASE ReadJob(j)
  BY <1>2 DEF ReadJob, Startable
<1>3. CASE StartJob(j)
  BY <1>3 DEF StartJob
<1>4. CASE EndJob(j)
  BY <1>4 DEF EndJob, Outcomes
<1>5. CASE ReleaseCredits(j)
  BY <1>5 DEF ReleaseCredits
<1>6. CASE Redeliver(j)
  BY <1>6 DEF Redeliver
<1>7. CASE WorkerFails(j)
  BY <1>7 DEF WorkerFails
<1>8. CASE CrashWorker(j)
  BY <1>8 DEF CrashWorker
<1>9. CASE AgeJob(j)
  BY <1>9 DEF AgeJob
<1>10. CASE RequestCancel(j)
  BY <1>10 DEF RequestCancel, CancelGoto
<1>11. CASE SetFlag(j)
  BY <1>11 DEF SetFlag, CancelGoto, Flagged
<1>12. CASE FindQueued(j)
  BY <1>12 DEF FindQueued, CancelGoto
<1>13. CASE RemoveQueued(j)
  BY <1>13 DEF RemoveQueued, CancelGoto
<1>14. CASE UpdateCancelled(j)
  BY <1>14 DEF UpdateCancelled, Cancellable, CancelGoto
<1>15. QED
  BY <1>1, <1>2, <1>3, <1>4, <1>5, <1>6, <1>7, <1>8, <1>9, <1>10, <1>11, <1>12,
     <1>13, <1>14 DEF WorkerStep, CancelStep

\* JobInv is an invariant.
LEMMA JobInvariant == Spec => []JobInv
<1>1. Init => JobInv
  BY DEF Init, JobInv
<1>2. ASSUME JobsTypeOK, JobInv, [Next]_jobsVars
      PROVE  JobInv'
  <2>1. CASE UNCHANGED jobsVars
    BY <1>2, <2>1 DEF JobInv, jobsVars, createVars, jobVars
  <2>2. CASE ExpireHold
    BY <1>2, <2>2 DEF JobInv, ExpireHold, jobVars
  <2>3. QED
    BY <1>2, <2>1, <2>2, JobInvCreate, JobInvWorker DEF Next
<1>3. QED
  BY <1>1, <1>2, JobsTypeCorrect, PTL DEF Spec

\* A job is not run again, whatever BullMQ delivers a second time.
THEOREM JobsRunOnce == Spec => []RunsOnce
<1>1. JobInv => RunsOnce
  BY DEF JobInv, RunsOnce
<1>2. QED
  BY <1>1, JobInvariant, PTL

\* A job that is not being cancelled runs on reserved credits.
THEOREM JobsRunOnCredits == Spec => []RunsOnCredits
<1>1. JobInv => RunsOnCredits
  BY DEF JobInv, RunsOnCredits
<1>2. QED
  BY <1>1, JobInvariant, PTL

\* The two together: no job is generated a second time or for free.
THEOREM JobsRunPaidOnce == Spec => []RunsPaidOnce
<1>1. RunsOnce /\ RunsOnCredits => RunsPaidOnce
  BY DEF RunsPaidOnce
<1>2. QED
  BY <1>1, JobsRunOnce, JobsRunOnCredits, PTL

\* What a job ended with stays.
THEOREM OutcomesStay == Spec => OutcomeStays
<1> DEFINE Stays == \A j \in Jobs : row[j] \in {"completed", "failed"} => row'[j] = row[j]
<1>1. ASSUME JobsTypeOK, JobInv, [Next]_jobsVars
      PROVE  Stays
  <2>1. CASE UNCHANGED jobsVars
    BY <2>1 DEF jobsVars, jobVars
  <2>2. CASE ExpireHold
    BY <2>2 DEF ExpireHold, jobVars
  <2>3. ASSUME NEW j \in Jobs, row' = row
        PROVE  Stays
    BY <2>3
  <2>4. ASSUME NEW j \in Jobs,
               InsertJob(j) \/ StartJob(j) \/ EndJob(j) \/ UpdateCancelled(j)
        PROVE  Stays
    BY <1>1, <2>4 DEF JobsTypeOK, JobInv, InsertJob, StartJob, EndJob, UpdateCancelled,
                      Cancellable
  <2>5. ASSUME NEW j \in Jobs,
               TakeHold(j) \/ CreateStep(j) \/ CreateFails(j) \/ CrashCreate(j)
        PROVE  row' = row \/ InsertJob(j)
    BY <2>5 DEF TakeHold, CreateStep, SetHoldTtl, CountActive, Reserve, Enqueue,
                ReleaseSlot, CreateFails, CrashCreate, jobVars
  <2>6. ASSUME NEW j \in Jobs,
               \/ WorkerStep(j) \/ WorkerFails(j) \/ CrashWorker(j) \/ AgeJob(j)
               \/ RequestCancel(j) \/ CancelStep(j)
        PROVE  row' = row \/ StartJob(j) \/ EndJob(j) \/ UpdateCancelled(j)
    BY <2>6 DEF WorkerStep, TakeJob, ReadJob, ReleaseCredits, Redeliver, WorkerFails,
                CrashWorker, AgeJob, RequestCancel, CancelStep, SetFlag, FindQueued,
                RemoveQueued
  <2>7. QED
    BY <1>1, <2>1, <2>2, <2>3, <2>4, <2>5, <2>6 DEF Next
<1>2. QED
  BY <1>1, JobsTypeCorrect, JobInvariant, PTL DEF Spec, OutcomeStays

-------------------------------------------------------------------------------
(* The plan's limit, if no hold expires while a request counts on it.      *)

\* Every set of jobs is finite.
LEMMA JobSets ==
    ASSUME NEW S \in SUBSET Jobs, NEW T \in SUBSET S
    PROVE  /\ IsFiniteSet(S) /\ IsFiniteSet(T)
           /\ Cardinality(S) \in Nat /\ Cardinality(T) \in Nat
           /\ Cardinality(T) <= Cardinality(S)
<1>1. IsFiniteSet(S)
  BY JobsAssumption, FS_Subset
<1>2. IsFiniteSet(T) /\ Cardinality(T) <= Cardinality(S)
  BY <1>1, FS_Subset
<1>3. QED
  BY <1>1, <1>2, FS_CardinalityType

\* A set with one more job has at most one element more.
LEMMA OneMoreJob ==
    ASSUME NEW S \in SUBSET Jobs, NEW j \in Jobs, NEW T \in SUBSET (S \cup {j})
    PROVE  Cardinality(T) <= Cardinality(S) + 1
<1>1. Cardinality(T) <= Cardinality(S \cup {j})
  BY JobSets
<1>2. IsFiniteSet(S) /\ Cardinality(S) \in Nat /\ Cardinality(S \cup {j}) \in Nat
      /\ Cardinality(T) \in Nat
  BY JobSets
<1>3. Cardinality(S \cup {j}) = IF j \in S THEN Cardinality(S) ELSE Cardinality(S) + 1
  BY <1>2, FS_AddElement
<1>4. QED
  BY <1>1, <1>2, <1>3

\* A set with one job less has one element less.
LEMMA OneJobLess ==
    ASSUME NEW S \in SUBSET Jobs, NEW j \in S, NEW T \in SUBSET (S \ {j})
    PROVE  Cardinality(T) <= Cardinality(S) - 1
<1>1. Cardinality(T) <= Cardinality(S \ {j})
  BY JobSets
<1>2. IsFiniteSet(S) /\ Cardinality(S) \in Nat /\ Cardinality(S \ {j}) \in Nat
      /\ Cardinality(T) \in Nat
  BY JobSets
<1>3. Cardinality(S \ {j}) = Cardinality(S) - 1
  BY <1>2, FS_RemoveElement
<1>4. QED
  BY <1>1, <1>2, <1>3

\* Requests keep their holds until they give one back.
LEMMA HoldInvFrame ==
    ASSUME JobsTypeOK, HoldInv, NEW j \in Jobs, j \in Holding,
           UNCHANGED <<seen, turn, turns>>, pc' = [pc EXCEPT ![j] = pc'[j]],
           pc'[j] # "idle",
           hold' = hold \/ (hold' = hold - 1 /\ pc'[j] = "done")
    PROVE  HoldInv'
<1>1. Holding' \subseteq Holding
  BY DEF Holding, JobsTypeOK
<1>2. Cardinality(Holding') \in Nat /\ Cardinality(Holding) \in Nat
      /\ Cardinality(Holding') <= Cardinality(Holding)
  BY <1>1, JobSets DEF Holding
<1>3. Cardinality(Holding') <= hold'
  <2>1. CASE hold' = hold
    BY <1>2, <2>1 DEF HoldInv, JobsTypeOK
  <2>2. CASE hold' = hold - 1 /\ pc'[j] = "done"
    <3>1. j \in Holding /\ Holding' \subseteq Holding \ {j} /\ Holding \subseteq Jobs
      BY <1>1, <2>2 DEF Holding
    <3>2. Cardinality(Holding') <= Cardinality(Holding) - 1
      BY <3>1, OneJobLess
    <3>3. QED
      BY <1>2, <2>2, <3>2 DEF HoldInv, JobsTypeOK
  <2>3. QED
    BY <2>1, <2>2
<1>4. ASSUME NEW k \in Holding'
      PROVE  Cardinality(Before(k)') < seen'[k]
  <2>1. Before(k)' \subseteq Before(k) /\ Before(k) \subseteq Jobs
    BY <1>1 DEF Before, Holding
  <2>2. /\ Cardinality(Before(k)') <= Cardinality(Before(k))
        /\ Cardinality(Before(k)') \in Nat /\ Cardinality(Before(k)) \in Nat
    BY <2>1, JobSets
  <2>3. Cardinality(Before(k)) < seen[k] /\ seen[k] \in Int /\ seen'[k] = seen[k]
    BY <1>1, <1>4 DEF HoldInv, JobsTypeOK, Holding
  <2>4. QED
    BY <2>2, <2>3
<1>5. QED
  BY <1>1, <1>3, <1>4 DEF HoldInv

\* A request takes its hold after all who have one, and counts itself.
LEMMA HoldInvTake ==
    ASSUME JobsTypeOK, HoldInv, NEW j \in Jobs, TakeHold(j)
    PROVE  HoldInv'
<1>1. /\ Holding' = Holding \cup {j} /\ j \notin Holding
      /\ Holding \subseteq Jobs /\ Holding' \subseteq Jobs
  BY DEF TakeHold, Goto, Holding, JobsTypeOK
<1>2. /\ hold' = hold + 1 /\ turns' = turns + 1
      /\ seen' = [seen EXCEPT ![j] = hold + 1] /\ turn' = [turn EXCEPT ![j] = turns + 1]
      /\ hold \in Int /\ turns \in Nat /\ turn \in [Jobs -> Nat] /\ seen \in [Jobs -> Int]
  BY DEF TakeHold, JobsTypeOK
<1>3. /\ Cardinality(Holding) <= hold /\ Cardinality(Holding) \in Nat
      /\ Cardinality(Holding') \in Nat /\ Cardinality(Holding') <= Cardinality(Holding) + 1
  BY <1>1, JobSets, OneMoreJob DEF HoldInv
<1>4. /\ \A k \in Holding : turn'[k] = turn[k] /\ seen'[k] = seen[k] /\ turn'[k] < turn'[j]
      /\ turn'[j] = turns' /\ seen'[j] = hold + 1
  BY <1>1, <1>2 DEF HoldInv
<1>5. /\ \A k \in Holding' : turn'[k] <= turns'
      /\ \A k, i \in Holding' : turn'[k] = turn'[i] => k = i
  <2>1. \A k \in Holding : turn[k] <= turns /\ turn[k] \in Nat
    BY <1>1, <1>2 DEF HoldInv
  <2>2. \A k, i \in Holding : turn[k] = turn[i] => k = i
    BY DEF HoldInv
  <2>3. QED
    BY <1>1, <1>2, <1>4, <2>1, <2>2
<1>6. ASSUME NEW k \in Holding'
      PROVE  Cardinality(Before(k)') < seen'[k]
  <2>1. CASE k = j
    <3>1. Before(k)' \subseteq Holding
      BY <1>1, <1>2, <2>1 DEF Before
    <3>2. Cardinality(Before(k)') <= Cardinality(Holding) /\ Cardinality(Before(k)') \in Nat
      BY <1>1, <3>1, JobSets
    <3>3. QED
      BY <1>2, <1>3, <1>4, <2>1, <3>2
  <2>2. CASE k \in Holding
    <3>1. Before(k)' = Before(k)
      BY <1>1, <1>2, <1>4, <2>2 DEF Before
    <3>2. QED
      BY <1>4, <2>2, <3>1 DEF HoldInv
  <2>3. QED
    BY <1>1, <2>1, <2>2
<1>7. QED
  BY <1>2, <1>3, <1>5, <1>6 DEF HoldInv

\* HoldInv is preserved: the counter only expires when nobody holds it.
LEMMA HoldInvStep ==
    ASSUME ~HoldMayExpire, JobsTypeOK, HoldInv, [Next]_jobsVars
    PROVE  HoldInv'
<1>1. CASE UNCHANGED createVars
  BY <1>1 DEF HoldInv, Before, Holding, createVars
<1>2. CASE ExpireHold
  <2>1. Holding = {} /\ hold' = 0 /\ pc' = pc
    BY <1>2 DEF ExpireHold
  <2>2. Holding' = {} /\ Cardinality({}) = 0
    BY <2>1, FS_EmptySet DEF Holding
  <2>3. QED
    BY <2>1, <2>2 DEF HoldInv
<1>3. ASSUME NEW j \in Jobs, CreateStep(j) \/ CreateFails(j) \/ CrashCreate(j)
      PROVE  HoldInv'
  <2>1. PICK label \in {"count", "reserve", "insert", "enqueue", "release", "done"} :
           Goto(j, label)
    BY <1>3 DEF CreateStep, SetHoldTtl, CountActive, Reserve, InsertJob, Enqueue, ReleaseSlot,
                CreateFails, CrashCreate
  <2>2. j \in Holding /\ UNCHANGED <<seen, turn, turns>>
    BY <1>3 DEF CreateStep, SetHoldTtl, CountActive, Reserve, InsertJob, Enqueue, ReleaseSlot,
                CreateFails, CrashCreate, Holding
  <2>3. /\ pc'[j] = label /\ pc' = [pc EXCEPT ![j] = pc'[j]]
        /\ pc'[j] # "idle"
    BY <2>1 DEF JobsTypeOK, Goto
  <2>4. CASE ReleaseSlot(j)
    <3>1. pc'[j] = "done" /\ (hold' = hold \/ hold' = hold - 1)
      BY <2>4 DEF ReleaseSlot, Goto, JobsTypeOK
    <3>2. QED
      BY <2>2, <2>3, <3>1, HoldInvFrame
  <2>5. CASE ~ReleaseSlot(j)
    <3>1. hold' = hold
      BY <1>3, <2>5 DEF CreateStep, SetHoldTtl, CountActive, Reserve, InsertJob, Enqueue,
                        CreateFails, CrashCreate
    <3>2. QED
      BY <2>2, <2>3, <3>1, HoldInvFrame
  <2>6. QED
    BY <2>4, <2>5
<1>4. ASSUME NEW j \in Jobs,
             \/ WorkerStep(j) \/ WorkerFails(j) \/ CrashWorker(j) \/ AgeJob(j)
             \/ RequestCancel(j) \/ CancelStep(j)
      PROVE  UNCHANGED createVars
  BY <1>4 DEF WorkerStep, TakeJob, ReadJob, StartJob, EndJob, ReleaseCredits, Redeliver,
              WorkerFails, CrashWorker, AgeJob, RequestCancel, CancelStep, SetFlag,
              FindQueued, RemoveQueued, UpdateCancelled
<1>5. QED
  BY <1>1, <1>2, <1>3, <1>4, HoldInvTake DEF Next, jobsVars, createVars

\* No request counts on more room, and no more jobs run.
LEMMA RoomInvFrame ==
    ASSUME RoomInv,
           Running' \subseteq Running, Claimed' \subseteq Claimed
    PROVE  RoomInv'
<1>1. /\ Cardinality(Running') <= Cardinality(Running)
      /\ Cardinality(Running') \in Nat /\ Cardinality(Running) \in Nat
  BY JobSets DEF Running, Active
<1>2. /\ Cardinality(Claimed') <= Cardinality(Claimed)
      /\ Cardinality(Claimed') \in Nat /\ Cardinality(Claimed) \in Nat
  BY JobSets DEF Claimed
<1>3. QED
  BY <1>1, <1>2, JobBoundsAssumption DEF RoomInv, JobBoundsAssumption

\* A request is let past the limit only if the jobs counted, and all requests that
\* may still insert one, fit together with it.
LEMMA RoomInvCount ==
    ASSUME JobsTypeOK, HoldInv, RoomInv, NEW j \in Jobs, CountActive(j)
    PROVE  RoomInv'
<1>1. Running' = Running /\ Running \subseteq Active /\ Active \subseteq Jobs
  BY DEF CountActive, Running, Active, jobVars
<1>2. /\ turn' = turn /\ \A k \in Jobs : k # j => pc'[k] = pc[k]
      /\ pc[j] = "count" /\ pc'[j] = IF Fits(j) THEN "reserve" ELSE "release"
      /\ turn \in [Jobs -> Nat]
  BY DEF CountActive, Goto, JobsTypeOK
<1>3. CASE ~Fits(j) \/ j \in Claimed
  <2>1. ASSUME NEW k \in Claimed'
        PROVE  k \in Claimed
    <3>1. CASE ~Fits(j)
      BY <1>2, <2>1, <3>1 DEF Claimed, Admitted
    <3>2. CASE j \in Claimed
      <4>1. PICK a \in Admitted : turn[j] < turn[a]
        BY <1>2, <3>2 DEF Claimed, Admitted
      <4>2. CASE k = j
        BY <3>2, <4>2
      <4>3. CASE k # j /\ k \in Admitted'
        BY <1>2, <4>3 DEF Admitted, Claimed
      <4>4. CASE k # j /\ k \notin Admitted'
        <5>1. k \in Jobs /\ pc[k] \in {"expire", "count"}
          BY <1>2, <2>1, <4>4 DEF Claimed, Admitted
        <5>2. PICK b \in Admitted' : turn[k] < turn[b]
          BY <1>2, <2>1, <4>4 DEF Claimed
        <5>3. b = j \/ b \in Admitted
          BY <1>2, <5>2 DEF Admitted
        <5>4. b \in Jobs /\ a \in Jobs
          BY <4>1, <5>2 DEF Admitted
        <5>5. \E c \in Admitted : turn[k] < turn[c]
          BY <1>2, <4>1, <5>1, <5>2, <5>3, <5>4
        <5>6. QED
          BY <5>1, <5>5 DEF Claimed
      <4>5. QED
        BY <4>2, <4>3, <4>4
    <3>3. QED
      BY <1>3, <3>1, <3>2
  <2>2. QED
    BY <1>1, <2>1, RoomInvFrame
<1>4. CASE Fits(j) /\ j \notin Claimed
  <2>1. ASSUME NEW k \in Claimed', k # j
        PROVE  k \in Before(j)
    <3>1. \A a \in Admitted : ~(turn[j] < turn[a])
      BY <1>2, <1>4 DEF Claimed
    <3>2. \A a \in Admitted : a \in Jobs /\ a \in Holding /\ a # j
      BY <1>2 DEF Admitted, Holding
    <3>3. j \in Holding /\ \A a, b \in Holding : turn[a] = turn[b] => a = b
      BY <1>2 DEF Holding, HoldInv
    <3>4. \A a \in Admitted : turn[a] < turn[j]
      BY <1>2, <3>1, <3>2, <3>3
    <3>5. \A b \in Admitted' : b = j \/ b \in Admitted
      BY <1>2 DEF Admitted
    <3>6. CASE k \in Admitted'
      BY <2>1, <3>2, <3>4, <3>5, <3>6 DEF Before
    <3>7. CASE k \notin Admitted'
      <4>1. k \in Jobs /\ pc[k] \in {"expire", "count"} /\ \E b \in Admitted' : turn[k] < turn[b]
        BY <1>2, <2>1, <3>7 DEF Claimed
      <4>2. k \in Holding
        BY <4>1 DEF Holding
      <4>3. turn[k] < turn[j]
        BY <1>2, <3>2, <3>4, <3>5, <4>1
      <4>4. QED
        BY <4>2, <4>3 DEF Before
    <3>8. QED
      BY <3>6, <3>7
  <2>2. Cardinality(Claimed') <= Cardinality(Before(j)) + 1
    <3>1. Before(j) \subseteq Jobs /\ Claimed' \subseteq Before(j) \cup {j}
      BY <2>1 DEF Before, Holding
    <3>2. QED
      BY <3>1, OneMoreJob
  <2>3. Cardinality(Before(j)) < seen[j] /\ seen[j] \in Int
    BY <1>2 DEF HoldInv, Holding, JobsTypeOK
  <2>4. Cardinality(Active) + (seen[j] - 1) < JobLimit
    BY <1>4 DEF Fits
  <2>5. /\ Cardinality(Running) <= Cardinality(Active)
        /\ Cardinality(Running) \in Nat /\ Cardinality(Active) \in Nat
    BY <1>1, JobSets
  <2>6. Cardinality(Before(j)) \in Nat /\ Cardinality(Claimed') \in Nat
    <3>1. Before(j) \subseteq Jobs /\ Claimed' \subseteq Jobs
      BY DEF Before, Holding, Claimed
    <3>2. QED
      BY <3>1, JobSets
  <2>7. Cardinality(Running) + Cardinality(Claimed') <= JobLimit
    BY <2>2, <2>3, <2>4, <2>5, <2>6, JobBoundsAssumption DEF JobBoundsAssumption
  <2>8. QED
    BY <1>1, <2>7 DEF RoomInv
<1>5. QED
  BY <1>3, <1>4

\* An inserted job takes the room its request has claimed.
LEMMA RoomInvInsert ==
    ASSUME JobsTypeOK, RoomInv, NEW j \in Jobs, InsertJob(j)
    PROVE  RoomInv'
<1>1. Running \subseteq Jobs /\ Running' \subseteq Running \cup {j}
  BY DEF InsertJob, Running, Active, JobsTypeOK
<1>2. j \in Claimed /\ Claimed \subseteq Jobs /\ Claimed' \subseteq Claimed \ {j}
  BY DEF InsertJob, Goto, Claimed, Admitted, JobsTypeOK
<1>3. Cardinality(Running') <= Cardinality(Running) + 1
  BY <1>1, OneMoreJob
<1>4. Cardinality(Claimed') <= Cardinality(Claimed) - 1
  BY <1>2, OneJobLess
<1>5. /\ Cardinality(Running) \in Nat /\ Cardinality(Claimed) \in Nat
      /\ Cardinality(Running') \in Nat /\ Cardinality(Claimed') \in Nat
  <2>1. Running' \subseteq Jobs /\ Claimed' \subseteq Jobs
    BY <1>1, <1>2
  <2>2. QED
    BY <1>1, <1>2, <2>1, JobSets
<1>6. QED
  BY <1>3, <1>4, <1>5, JobBoundsAssumption DEF RoomInv, JobBoundsAssumption

\* RoomInv is preserved.
LEMMA RoomInvStep ==
    ASSUME JobsTypeOK, JobInv, HoldInv, RoomInv, [Next]_jobsVars
    PROVE  RoomInv'
<1>1. CASE UNCHANGED <<row, aged, flag, pc, turn>>
  BY <1>1 DEF RoomInv, Running, Active, Claimed, Admitted
<1>2. ASSUME NEW j \in Jobs, TakeHold(j)
      PROVE  RoomInv'
  <2>1. /\ pc[j] = "idle" /\ pc' = [pc EXCEPT ![j] = pc'[j]] /\ pc'[j] \in {"expire", "count"}
        /\ turn' = [turn EXCEPT ![j] = turns + 1] /\ UNCHANGED <<row, aged, flag>>
    BY <1>2 DEF TakeHold, Goto, JobsTypeOK, jobVars
  <2>2. Admitted' = Admitted /\ j \notin Admitted
    BY <2>1 DEF Admitted, JobsTypeOK
  <2>3. \A a \in Admitted : a \in Holding /\ turn'[a] = turn[a] /\ turn[a] <= turns
    BY <2>1, <2>2 DEF Admitted, Holding, HoldInv, JobsTypeOK
  <2>4. \A a \in Admitted : ~(turn'[j] < turn'[a])
    BY <2>1, <2>2, <2>3 DEF Admitted, JobsTypeOK
  <2>5. ASSUME NEW k \in Claimed'
        PROVE  k \in Claimed
    BY <2>1, <2>2, <2>3, <2>4, <2>5 DEF Claimed, Admitted, JobsTypeOK
  <2>6. QED
    BY <2>1, <2>5, RoomInvFrame DEF Running, Active
<1>3. ASSUME NEW j \in Jobs,
             \/ SetHoldTtl(j) \/ Reserve(j) \/ Enqueue(j) \/ ReleaseSlot(j)
             \/ CreateFails(j) \/ CrashCreate(j)
      PROVE  RoomInv'
  <2>1. PICK label \in CreateLabels : Goto(j, label)
    BY <1>3 DEF SetHoldTtl, Reserve, Enqueue, ReleaseSlot, CreateFails, CrashCreate,
                CreateLabels
  <2>2. UNCHANGED <<row, aged, flag, turn>>
    BY <1>3 DEF SetHoldTtl, Reserve, Enqueue, ReleaseSlot, CreateFails, CrashCreate, jobVars
  <2>3. \/ pc[j] = "expire" /\ label = "count"
        \/ pc[j] = "reserve" /\ label = "insert"
        \/ label \in {"release", "done"}
    BY <1>3, <2>1 DEF SetHoldTtl, Reserve, Enqueue, ReleaseSlot, CreateFails, CrashCreate,
                      Goto, JobsTypeOK
  <2>4. /\ pc'[j] = label /\ \A k \in Jobs : k # j => pc'[k] = pc[k]
    BY <2>1 DEF Goto, JobsTypeOK
  <2>5. Admitted' \subseteq Admitted
    BY <2>3, <2>4 DEF Admitted
  <2>6. Claimed' \subseteq Claimed
    BY <2>2, <2>3, <2>4, <2>5 DEF Claimed, Admitted
  <2>7. QED
    BY <2>2, <2>6, RoomInvFrame DEF Running, Active
<1>4. ASSUME NEW j \in Jobs,
             \/ StartJob(j) \/ EndJob(j) \/ AgeJob(j) \/ SetFlag(j) \/ UpdateCancelled(j)
      PROVE  RoomInv'
  <2>1. UNCHANGED <<pc, turn>>
    BY <1>4 DEF StartJob, EndJob, AgeJob, SetFlag, UpdateCancelled, createVars
  <2>2. Claimed' = Claimed
    BY <2>1 DEF Claimed, Admitted
  <2>3. CASE StartJob(j)
    <3>1. j \in flag \/ row[j] = "queued"
      BY <2>3 DEF JobInv, StartJob
    <3>2. row' = [row EXCEPT ![j] = "running"] /\ UNCHANGED <<aged, flag>>
      BY <2>3 DEF StartJob
    <3>3. Running' \subseteq Running
      BY <3>1, <3>2 DEF Running, Active, JobsTypeOK
    <3>4. QED
      BY <2>2, <3>3, RoomInvFrame
  <2>4. CASE EndJob(j)
    <3>1. PICK outcome \in {"completed", "cancelled", "failed"} :
             row' = [row EXCEPT ![j] = outcome] /\ UNCHANGED <<aged, flag>>
      BY <2>4 DEF EndJob, Outcomes
    <3>2. Running' \subseteq Running
      BY <3>1 DEF Running, Active, JobsTypeOK
    <3>3. QED
      BY <2>2, <3>2, RoomInvFrame
  <2>5. CASE AgeJob(j)
    <3>1. aged' = aged \cup {j} /\ UNCHANGED <<row, flag>>
      BY <2>5 DEF AgeJob
    <3>2. QED
      BY <2>2, <3>1, RoomInvFrame DEF Running, Active
  <2>6. CASE SetFlag(j)
    <3>1. flag' = flag \cup {j} /\ UNCHANGED <<row, aged>>
      BY <2>6 DEF SetFlag, Flagged
    <3>2. QED
      BY <2>2, <3>1, RoomInvFrame DEF Running, Active
  <2>7. CASE UpdateCancelled(j)
    <3>1. row' = row \/ row' = [row EXCEPT ![j] = "cancelled"]
      BY <2>7 DEF UpdateCancelled, JobsTypeOK
    <3>2. UNCHANGED <<aged, flag>>
      BY <2>7 DEF UpdateCancelled
    <3>3. Running' \subseteq Running
      BY <3>1, <3>2 DEF Running, Active, JobsTypeOK
    <3>4. QED
      BY <2>2, <3>3, RoomInvFrame
  <2>8. QED
    BY <1>4, <2>3, <2>4, <2>5, <2>6, <2>7
<1>5. ASSUME NEW j \in Jobs,
             \/ TakeJob(j) \/ ReadJob(j) \/ ReleaseCredits(j) \/ Redeliver(j)
             \/ WorkerFails(j) \/ CrashWorker(j) \/ RequestCancel(j)
             \/ FindQueued(j) \/ RemoveQueued(j)
      PROVE  UNCHANGED <<row, aged, flag, pc, turn>>
  BY <1>5 DEF TakeJob, ReadJob, ReleaseCredits, Redeliver, WorkerFails, CrashWorker,
              RequestCancel, FindQueued, RemoveQueued, createVars
<1>6. CASE ExpireHold \/ UNCHANGED jobsVars
  BY <1>1, <1>6 DEF ExpireHold, jobsVars, createVars, jobVars
<1>7. QED
  BY <1>1, <1>2, <1>3, <1>4, <1>5, <1>6, RoomInvCount, RoomInvInsert
     DEF Next, CreateStep, WorkerStep, CancelStep

\* A plan never has more recent jobs queued or running than it allows, cancelled ones
\* aside, if no create request outlives the TTL of the counter.
THEOREM SlotsAreRespected ==
    ASSUME ~HoldMayExpire
    PROVE  Spec => []SlotsRespected
<1>1. Init => HoldInv /\ RoomInv
  <2>1. ASSUME Init
        PROVE  /\ Holding = {} /\ Running = {} /\ Claimed = {} /\ hold = 0
    BY <2>1 DEF Init, Holding, Running, Active, Claimed, Admitted
  <2>2. QED
    BY <2>1, FS_EmptySet, JobBoundsAssumption
       DEF HoldInv, RoomInv, JobBoundsAssumption
<1>2. ASSUME JobsTypeOK, JobInv, HoldInv /\ RoomInv, [Next]_jobsVars
      PROVE  (HoldInv /\ RoomInv)'
  BY <1>2, HoldInvStep, RoomInvStep
<1>3. RoomInv => SlotsRespected
  <2>1. /\ Cardinality(Running) \in Nat /\ Cardinality(Claimed) \in Nat
    <3>1. Running \subseteq Jobs /\ Claimed \subseteq Jobs
      BY DEF Running, Active, Claimed
    <3>2. QED
      BY <3>1, JobSets
  <2>2. QED
    BY <2>1, JobBoundsAssumption DEF RoomInv, SlotsRespected, JobBoundsAssumption
<1>4. QED
  BY <1>1, <1>2, <1>3, JobsTypeCorrect, JobInvariant, PTL DEF Spec

===============================================================================
