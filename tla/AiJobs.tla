-------------------------------- MODULE AiJobs --------------------------------
(***************************************************************************)
(* The AI generation jobs of one plan: create requests compete for the     *)
(* plan's concurrent jobs through a counter in Redis and a count of the    *)
(* rows, reserve credits and enqueue; BullMQ workers run the jobs, also    *)
(* after one of them crashed; and users cancel them.                       *)
(***************************************************************************)
EXTENDS Integers, FiniteSets

CONSTANTS
    Jobs,           \* the jobs, each named after the request that creates it
    JobLimit,       \* the plan's aiConcurrentJobs
    HoldMayExpire,  \* may a create outlive the 60 s TTL of ai:job_hold?
    MaxFails,       \* bound on exceptions thrown by Redis or Postgres
    MaxCrashes,     \* bound on crashes of a request or worker
    MaxCancels      \* bound on cancel requests

ASSUME JobsAssumption == IsFiniteSet(Jobs)

ASSUME JobBoundsAssumption ==
    /\ HoldMayExpire \in BOOLEAN
    /\ {JobLimit, MaxFails, MaxCrashes, MaxCancels} \subseteq Nat

VARIABLES
    hold,       \* ai:job_hold:<scope>
    holdTtl,    \* has that key a TTL?
    row,        \* status of the AiJob rows
    aged,       \* jobs created more than 30 minutes ago
    queue,      \* the ai-generation queue: none, waiting, active, stalled, ended
    redelivered,\* jobs BullMQ has found stalled once
    flag,       \* jobs with a cancel key
    reserved,   \* jobs whose credits are reserved
    pc,         \* the create requests
    seen,       \* what their INCR returned
    worker,     \* the workers
    canceller,  \* the cancel requests
    fails, crashes, cancels,
    turn, turns \* history: the order in which the holds were taken

createVars == <<hold, holdTtl, pc, seen, turn, turns>>
jobVars == <<row, aged, queue, redelivered, flag, reserved, worker, canceller>>
jobsVars == <<createVars, jobVars, fails, crashes, cancels>>

\* The rows acquireJobSlot counts.
Active == {j \in Jobs : row[j] \in {"queued", "running"} /\ j \notin aged}

Init ==
    /\ hold = 0 /\ holdTtl = FALSE
    /\ row = [j \in Jobs |-> "none"]
    /\ aged = {} /\ flag = {} /\ reserved = {} /\ redelivered = {}
    /\ queue = [j \in Jobs |-> "none"]
    /\ pc = [j \in Jobs |-> "idle"]
    /\ seen = [j \in Jobs |-> 0]
    /\ worker = [j \in Jobs |-> "idle"]
    /\ canceller = [j \in Jobs |-> "idle"]
    /\ fails = 0 /\ crashes = 0 /\ cancels = 0
    /\ turn = [j \in Jobs |-> 0] /\ turns = 0

-------------------------------------------------------------------------------
(* acquireJobSlot and create.                                              *)

Goto(j, label) == pc' = [pc EXCEPT ![j] = label]

\* INCR; whoever gets 1 sets the TTL.
TakeHold(j) ==
    /\ pc[j] = "idle"
    /\ hold' = hold + 1
    /\ seen' = [seen EXCEPT ![j] = hold + 1]
    /\ turns' = turns + 1
    /\ turn' = [turn EXCEPT ![j] = turns + 1]
    /\ Goto(j, IF hold + 1 = 1 THEN "expire" ELSE "count")
    /\ UNCHANGED <<holdTtl, jobVars, fails, crashes, cancels>>

SetHoldTtl(j) ==
    /\ pc[j] = "expire"
    /\ holdTtl' = (holdTtl \/ hold # 0)
    /\ Goto(j, "count")
    /\ UNCHANGED <<hold, seen, turn, turns, jobVars, fails, crashes, cancels>>

FitsAlone(j) == Cardinality(Active) < JobLimit
Fits(j) == Cardinality(Active) + (seen[j] - 1) < JobLimit

\* A refused request gives its hold back at once.
CountActive(j) ==
    /\ pc[j] = "count"
    /\ Goto(j, IF Fits(j) THEN "reserve" ELSE "release")
    /\ UNCHANGED <<hold, holdTtl, seen, turn, turns, jobVars, fails, crashes, cancels>>

\* The credits may not suffice.
Reserve(j) ==
    /\ pc[j] = "reserve"
    /\ \/ reserved' = reserved \cup {j} /\ Goto(j, "insert")
       \/ Goto(j, "release") /\ UNCHANGED reserved
    /\ UNCHANGED <<hold, holdTtl, seen, turn, turns, row, aged, queue, redelivered,
                   flag, worker, canceller, fails, crashes, cancels>>

InsertJob(j) ==
    /\ pc[j] = "insert"
    /\ row' = [row EXCEPT ![j] = "queued"]
    /\ Goto(j, "enqueue")
    /\ UNCHANGED <<hold, holdTtl, seen, turn, turns, aged, queue, redelivered, flag,
                   reserved, worker, canceller, fails, crashes, cancels>>

Enqueue(j) ==
    /\ pc[j] = "enqueue"
    /\ queue' = [queue EXCEPT ![j] = "waiting"]
    /\ Goto(j, "release")
    /\ UNCHANGED <<hold, holdTtl, seen, turn, turns, row, aged, redelivered, flag,
                   reserved, worker, canceller, fails, crashes, cancels>>

\* The slot's finally block; a DECR that fails is ignored.
ReleaseSlot(j) ==
    /\ pc[j] = "release"
    /\ \/ hold' = hold - 1 /\ UNCHANGED fails
       \/ fails < MaxFails /\ fails' = fails + 1 /\ UNCHANGED hold
    /\ Goto(j, "done")
    /\ UNCHANGED <<holdTtl, seen, turn, turns, jobVars, crashes, cancels>>

ReservedAfterFailureKept(j) == reserved
ReservedAfterFailure(j) == reserved \ {j}

\* Before the slot is taken an exception keeps the hold; after it the finally block
\* gives it back, and the reservation is released. A row already inserted stays.
CreateFails(j) ==
    /\ pc[j] \in {"expire", "count", "insert", "enqueue"}
    /\ fails < MaxFails
    /\ fails' = fails + 1
    /\ IF pc[j] \in {"expire", "count"}
       THEN Goto(j, "done") /\ UNCHANGED reserved
       ELSE Goto(j, "release") /\ reserved' = ReservedAfterFailure(j)
    /\ UNCHANGED <<hold, holdTtl, seen, turn, turns, row, aged, queue, redelivered,
                   flag, worker, canceller, crashes, cancels>>

CrashCreate(j) ==
    /\ pc[j] \notin {"idle", "done"}
    /\ crashes < MaxCrashes
    /\ crashes' = crashes + 1
    /\ Goto(j, "done")
    /\ UNCHANGED <<hold, holdTtl, seen, turn, turns, jobVars, fails, cancels>>

\* Requests whose hold is counted in ai:job_hold.
Holding == {j \in Jobs : pc[j] \notin {"idle", "done"}}

ExpireHold ==
    /\ holdTtl
    /\ HoldMayExpire \/ Holding = {}
    /\ hold' = 0 /\ holdTtl' = FALSE
    /\ UNCHANGED <<pc, seen, turn, turns, jobVars, fails, crashes, cancels>>

-------------------------------------------------------------------------------
(* The worker of a job.                                                    *)

TakeJob(j) ==
    /\ queue[j] = "waiting"
    /\ queue' = [queue EXCEPT ![j] = "active"]
    /\ worker' = [worker EXCEPT ![j] = "read"]
    /\ UNCHANGED <<createVars, row, aged, redelivered, flag, reserved, canceller,
                   fails, crashes, cancels>>

StartableAlways(j) == TRUE
Startable(j) == row[j] = "queued"

ReadJob(j) ==
    /\ worker[j] = "read"
    /\ worker' = [worker EXCEPT ![j] = IF Startable(j) THEN "start" ELSE "release"]
    /\ UNCHANGED <<createVars, row, aged, queue, redelivered, flag, reserved,
                   canceller, fails, crashes, cancels>>

\* The update is unconditional: a job cancelled since it was read runs again.
StartJob(j) ==
    /\ worker[j] = "start"
    /\ row' = [row EXCEPT ![j] = "running"]
    /\ worker' = [worker EXCEPT ![j] = "run"]
    /\ UNCHANGED <<createVars, aged, queue, redelivered, flag, reserved, canceller,
                   fails, crashes, cancels>>

Outcomes(j) == {"completed", IF j \in flag THEN "cancelled" ELSE "failed"}

\* The generation succeeds, or fails or is aborted.
EndJob(j) ==
    /\ worker[j] = "run"
    /\ \E outcome \in Outcomes(j) : row' = [row EXCEPT ![j] = outcome]
    /\ worker' = [worker EXCEPT ![j] = "release"]
    /\ UNCHANGED <<createVars, aged, queue, redelivered, flag, reserved, canceller,
                   fails, crashes, cancels>>

\* The update of the row fails: at the end the finally block still runs, but before
\* the try block the job just fails, and its credits stay reserved.
WorkerFails(j) ==
    /\ worker[j] \in {"read", "start", "run"}
    /\ fails < MaxFails
    /\ fails' = fails + 1
    /\ IF worker[j] = "run"
       THEN worker' = [worker EXCEPT ![j] = "release"] /\ UNCHANGED queue
       ELSE /\ worker' = [worker EXCEPT ![j] = "idle"]
            /\ queue' = [queue EXCEPT ![j] = "ended"]
    /\ UNCHANGED <<createVars, row, aged, redelivered, flag, reserved, canceller,
                   crashes, cancels>>

ReleaseCredits(j) ==
    /\ worker[j] = "release"
    /\ reserved' = reserved \ {j}
    /\ worker' = [worker EXCEPT ![j] = "idle"]
    /\ queue' = [queue EXCEPT ![j] = "ended"]
    /\ UNCHANGED <<createVars, row, aged, redelivered, flag, canceller, fails,
                   crashes, cancels>>

CrashWorker(j) ==
    /\ worker[j] # "idle"
    /\ crashes < MaxCrashes
    /\ crashes' = crashes + 1
    /\ worker' = [worker EXCEPT ![j] = "idle"]
    /\ queue' = [queue EXCEPT ![j] = "stalled"]
    /\ UNCHANGED <<createVars, row, aged, redelivered, flag, reserved, canceller,
                   fails, cancels>>

\* BullMQ redelivers a stalled job once (maxStalledCount).
Redeliver(j) ==
    /\ queue[j] = "stalled"
    /\ queue' = [queue EXCEPT ![j] = IF j \in redelivered THEN "ended" ELSE "waiting"]
    /\ redelivered' = redelivered \cup {j}
    /\ UNCHANGED <<createVars, row, aged, flag, reserved, worker, canceller, fails,
                   crashes, cancels>>

\* A row nobody works on leaves the 30-minute window of the count; a job at work
\* is taken to end within it.
AgeJob(j) ==
    /\ j \in Active
    /\ pc[j] = "done" /\ worker[j] = "idle" /\ canceller[j] = "idle"
    /\ queue[j] \in {"none", "ended"}
    /\ aged' = aged \cup {j}
    /\ UNCHANGED <<createVars, row, queue, redelivered, flag, reserved, worker,
                   canceller, fails, crashes, cancels>>

-------------------------------------------------------------------------------
(* cancel.                                                                 *)

CancelGoto(j, label) == canceller' = [canceller EXCEPT ![j] = label]

\* Reads the status and sets the cancel key: a job seen queued is also dequeued.
RequestCancel(j) ==
    /\ canceller[j] = "idle"
    /\ cancels < MaxCancels
    /\ row[j] \in {"queued", "running"}
    /\ cancels' = cancels + 1
    /\ CancelGoto(j, IF row[j] = "queued" THEN "flagQueued" ELSE "flag")
    /\ UNCHANGED <<createVars, row, aged, queue, redelivered, flag, reserved, worker,
                   fails, crashes>>

Flagged(j) == flag \cup {j}

SetFlag(j) ==
    /\ canceller[j] \in {"flag", "flagQueued"}
    /\ flag' = Flagged(j)
    /\ CancelGoto(j, IF canceller[j] = "flagQueued" THEN "find" ELSE "idle")
    /\ UNCHANGED <<createVars, row, aged, queue, redelivered, reserved, worker, fails,
                   crashes, cancels>>

FindQueued(j) ==
    /\ canceller[j] = "find"
    /\ IF queue[j] # "none"
       THEN reserved' = reserved \ {j} /\ CancelGoto(j, "remove")
       ELSE CancelGoto(j, "update") /\ UNCHANGED reserved
    /\ UNCHANGED <<createVars, row, aged, queue, redelivered, flag, worker, fails,
                   crashes, cancels>>

\* A worker's lock, which may outlive it, keeps an active job in the queue.
RemoveQueued(j) ==
    /\ canceller[j] = "remove"
    /\ \/ queue[j] # "active" /\ queue' = [queue EXCEPT ![j] = "none"]
       \/ queue[j] \in {"active", "stalled"} /\ UNCHANGED queue
    /\ CancelGoto(j, "update")
    /\ UNCHANGED <<createVars, row, aged, redelivered, flag, reserved, worker, fails,
                   crashes, cancels>>

Cancellable(j) == row[j] = "queued"

UpdateCancelled(j) ==
    /\ canceller[j] = "update"
    /\ row' = [row EXCEPT ![j] = IF Cancellable(j) THEN "cancelled" ELSE row[j]]
    /\ CancelGoto(j, "idle")
    /\ UNCHANGED <<createVars, aged, queue, redelivered, flag, reserved, worker, fails,
                   crashes, cancels>>

-------------------------------------------------------------------------------
CreateStep(j) ==
    \/ SetHoldTtl(j)
    \/ CountActive(j)
    \/ Reserve(j)
    \/ InsertJob(j)
    \/ Enqueue(j)
    \/ ReleaseSlot(j)

WorkerStep(j) ==
    \/ TakeJob(j)
    \/ ReadJob(j)
    \/ StartJob(j)
    \/ EndJob(j)
    \/ ReleaseCredits(j)
    \/ Redeliver(j)

CancelStep(j) ==
    \/ SetFlag(j)
    \/ FindQueued(j)
    \/ RemoveQueued(j)
    \/ UpdateCancelled(j)

Next ==
    \/ \E j \in Jobs :
          \/ TakeHold(j) \/ CreateStep(j) \/ CreateFails(j) \/ CrashCreate(j)
          \/ WorkerStep(j) \/ WorkerFails(j) \/ CrashWorker(j) \/ AgeJob(j)
          \/ RequestCancel(j) \/ CancelStep(j)
    \/ ExpireHold

Spec == Init /\ [][Next]_jobsVars

\* Requests and workers run on, BullMQ redelivers, and the hold expires.
JobsFairness ==
    /\ \A j \in Jobs : /\ WF_jobsVars(CreateStep(j))
                       /\ WF_jobsVars(WorkerStep(j))
                       /\ WF_jobsVars(CancelStep(j))
    /\ WF_jobsVars(ExpireHold)

FairSpec == Spec /\ JobsFairness

-------------------------------------------------------------------------------
(* Properties.                                                             *)

RowStatuses == {"none", "queued", "running", "completed", "failed", "cancelled"}
CreateLabels ==
    {"idle", "expire", "count", "reserve", "insert", "enqueue", "release", "done"}

\* The types of the variables.
JobsTypeOK ==
    /\ hold \in Int /\ holdTtl \in BOOLEAN
    /\ row \in [Jobs -> RowStatuses]
    /\ aged \subseteq Jobs /\ redelivered \subseteq Jobs
    /\ flag \subseteq Jobs /\ reserved \subseteq Jobs
    /\ queue \in [Jobs -> {"none", "waiting", "active", "stalled", "ended"}]
    /\ pc \in [Jobs -> CreateLabels]
    /\ seen \in [Jobs -> Int]
    /\ worker \in [Jobs -> {"idle", "read", "start", "run", "release"}]
    /\ canceller \in [Jobs -> {"idle", "flag", "flagQueued", "find", "remove", "update"}]
    /\ fails \in Nat /\ crashes \in Nat /\ cancels \in Nat
    /\ turn \in [Jobs -> Nat] /\ turns \in Nat

\* A plan never has more recent jobs queued or running than it allows, although the
\* counter and the rows are read at different times, requests fail in between and
\* leave their hold behind. Cancelled jobs are not counted: a worker may revive one.
Running == Active \ flag
SlotsRespected == Cardinality(Running) <= JobLimit

\* A job runs on reserved credits, unless it is being cancelled.
RunsOnCredits == \A j \in Jobs : worker[j] = "run" => j \in reserved \cup flag

\* A job is not run again, although BullMQ redelivers it after a crash (the status
\* is what tells: a stall is no attempt).
RunsOnce == \A j \in Jobs : worker[j] = "start" => row[j] \in {"queued", "cancelled"}

\* Nothing is generated twice or for free.
RunsPaidOnce == RunsOnCredits /\ RunsOnce

\* What a job ended with stays, although cancel requests come late.
OutcomeStays ==
    [][\A j \in Jobs : row[j] \in {"completed", "failed"} => row'[j] = row[j]]_jobsVars

\* Reserved credits are released without waiting for the reservation's TTL, although
\* requests and workers fail, unless a process crashes or the job failed before its
\* worker's try block.
CreditsReleased ==
    \A j \in Jobs :
        []<>(j \notin reserved \/ crashes > 0 \/ (queue[j] = "ended" /\ worker[j] = "idle"))

\* A queued job ends or, cancelled, never runs, if nothing fails.
JobEnds ==
    \A j \in Jobs : []<>(row[j] \notin {"queued", "running"} \/ crashes > 0 \/ fails > 0)

\* A job comes to one end, and gives its credits back.
JobSettles == JobEnds /\ OutcomeStays /\ CreditsReleased

===============================================================================
