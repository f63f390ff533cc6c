--------------------------- MODULE StudentProgress ---------------------------
(***************************************************************************)
(* What a student's work in one course earns.  Submitting a unit inserts a *)
(* row and enqueues jobs, a flush of an exam session enqueues an attempt   *)
(* for each answer that changed; the workers of the student-analytics      *)
(* queue, several at a time, keep the course progress, issue the           *)
(* certificate, record the attempts and award XP.  A job is tried once,    *)
(* but BullMQ delivers the job of a crashed worker again.                  *)
(***************************************************************************)
EXTENDS Naturals, Sequences, FiniteSets
Queues == INSTANCE SequencesExt

CONSTANTS
    Units,          \* the units of the course
    Questions,      \* questions of an exam session
    VirtualUnits,   \* questions submitted like a unit that are no unit
    Course,
    Threshold,      \* completionThreshold, in percent
    Concurrency,    \* jobs a worker runs at a time
    MaxEnqueued,    \* bound on the jobs enqueued
    MaxJobFaults    \* bound on failing calls and crashes

Items == Units \cup Questions \cup VirtualUnits

\* From 200 units on, Math.round takes a course with one unit missing for complete.
ASSUME StudentAssumption ==
    /\ IsFiniteSet(Items) /\ Course \notin Items
    /\ Questions \cap (Units \cup VirtualUnits) = {} /\ Units \cap VirtualUnits = {}
    /\ Cardinality(Units) \in 1..199
    /\ Threshold \in 0..100
    /\ {Concurrency, MaxEnqueued, MaxJobFaults} \subseteq Nat

VARIABLES
    submitted,      \* the UnitSubmission rows, as <<unit, completed>>
    flushed,        \* the last answer flushed to a question, "none" before
    requests,       \* per item the request that submits it: step, answer and attempt row
    tasks,          \* the jobs queued and running
    attempts,       \* the QuestionAttempt rows, in the order of createdAt
    xp,             \* awards per item
    completedUnits, \* of the CourseProgress row
    certificates,   \* rows of the course
    enqueued, jobFaults,
    raced,          \* history: items two jobs were about at a time
    struckItems,           \* history: items and courses a fault struck
    setBack         \* history: an update wrote fewer units than the row had

submitVars == <<submitted, flushed, requests, enqueued>>
rewardVars == <<attempts, xp, raced>>
courseVars == <<completedUnits, certificates, setBack>>
faultVars == <<jobFaults, struckItems>>
studentVars == <<submitVars, tasks, rewardVars, courseVars, faultVars>>

Right == {"right", "right too"}
Idle == [step |-> "idle", answer |-> "none", own |-> 0]

StudentInit ==
    /\ submitted = {}
    /\ flushed = [q \in Questions |-> "none"]
    /\ requests = [i \in Items \ Questions |-> Idle]
    /\ enqueued = 0
    /\ tasks = <<>>
    /\ attempts = <<>> /\ xp = [i \in Items |-> 0] /\ raced = {}
    /\ completedUnits = {} /\ certificates = 0 /\ setBack = FALSE
    /\ jobFaults = 0 /\ struckItems = {}

-------------------------------------------------------------------------------
(* The requests.                                                           *)

ProgressTask ==
    [step |-> "queued", item |-> Course, answer |-> "none", own |-> 0, found |-> {},
     rewarded |-> FALSE]
AttemptTask(i, answer, own) ==
    [ProgressTask EXCEPT !.item = i, !.answer = answer, !.own = own]

AttemptRow(i, answer) == [item |-> i, answer |-> answer]
RowsOf(i) == {n \in DOMAIN attempts : attempts[n].item = i}
RightRows(i) == {n \in RowsOf(i) : attempts[n].answer \in Right}
Awaited(i) == \E t \in DOMAIN tasks : tasks[t].item = i

Submits(jobs) == enqueued + jobs <= MaxEnqueued /\ enqueued' = enqueued + jobs

\* submitUnit, a unit of the course: its row is inserted before the jobs are enqueued.
SubmitUnit(u, answer) ==
    /\ Submits(2)
    /\ requests[u] = Idle
    /\ submitted' = submitted \cup {<<u, answer \in Right>>}
    /\ requests' = [requests EXCEPT ![u] =
                      [step |-> "progress", answer |-> answer, own |-> 0]]
    /\ UNCHANGED <<flushed, tasks, rewardVars, courseVars, faultVars>>

\* submitUnit, anything else: the request inserts the attempt itself.
SubmitVirtual(v, answer) ==
    /\ Submits(1)
    /\ requests[v] = Idle
    /\ attempts' = Append(attempts, AttemptRow(v, answer))
    /\ requests' = [requests EXCEPT ![v] =
                      [step |-> "attempt", answer |-> answer, own |-> Len(attempts')]]
    /\ raced' = IF Awaited(v) THEN raced \cup {v} ELSE raced
    /\ UNCHANGED <<submitted, flushed, tasks, xp, courseVars, faultVars>>

EnqueueProgress(u) ==
    /\ requests[u].step = "progress"
    /\ tasks' = Append(tasks, ProgressTask)
    /\ requests' = [requests EXCEPT ![u].step = "attempt"]
    /\ UNCHANGED <<submitted, flushed, enqueued, rewardVars, courseVars, faultVars>>

EnqueueAttempt(i) ==
    /\ requests[i].step = "attempt"
    /\ tasks' = Append(tasks, AttemptTask(i, requests[i].answer, requests[i].own))
    /\ requests' = [requests EXCEPT ![i] = Idle]
    /\ UNCHANGED <<submitted, flushed, enqueued, rewardVars, courseVars, faultVars>>

\* The flush of a session: an attempt at a question whose answer changed.
FlushAnswer(q, answer) ==
    /\ Submits(1)
    /\ answer # flushed[q]
    /\ flushed' = [flushed EXCEPT ![q] = answer]
    /\ tasks' = Append(tasks, AttemptTask(q, answer, 0))
    /\ UNCHANGED <<submitted, requests, rewardVars, courseVars, faultVars>>

-------------------------------------------------------------------------------
(* The workers.                                                            *)

StepTo(t, step) == tasks' = [tasks EXCEPT ![t].step = step]
InWork(t) == tasks[t].step # "queued"

\* BullMQ hands out the jobs in order.
MayTake(t) ==
    /\ tasks[t].step = "queued"
    /\ \A other \in 1..(t - 1) : InWork(other)
    /\ Cardinality({other \in DOMAIN tasks : InWork(other)}) < Concurrency

Beside(t) == {tasks[other].item : other \in {o \in DOMAIN tasks : InWork(o)}}

\* Only an exact repeat is skipped: same session, question and content.
Repeats(t) ==
    /\ tasks[t].item \in Questions
    /\ \E n \in RowsOf(tasks[t].item) :
          /\ \A m \in RowsOf(tasks[t].item) : m <= n
          /\ attempts[n].answer = tasks[t].answer

\* handleSaveQuestionAttempt: the safety net.
TakeAttempt(t) ==
    /\ tasks[t].item # Course /\ MayTake(t)
    /\ StepTo(t, IF Repeats(t) THEN "done" ELSE "fresh")
    /\ raced' = raced \cup ({tasks[t].item} \cap Beside(t))
    /\ UNCHANGED <<submitVars, attempts, xp, courseVars, faultVars>>

\* Mutant: a reward of another answer does not count.
RewardedForAnswer(t) ==
    \E n \in RightRows(tasks[t].item) \ {tasks[t].own} :
        attempts[n].answer = tasks[t].answer

\* Another correct attempt at the item.
AlreadyRewarded(t) == RightRows(tasks[t].item) \ {tasks[t].own} # {}

FindRewarded(t) ==
    /\ tasks[t].step = "fresh"
    /\ tasks' = [tasks EXCEPT ![t].rewarded = AlreadyRewarded(t), ![t].step = "judged"]
    /\ UNCHANGED <<submitVars, rewardVars, courseVars, faultVars>>

\* The row is there already if the request inserted it.
CreateAttempt(t) ==
    /\ tasks[t].step = "judged"
    /\ attempts' = IF tasks[t].own # 0 THEN attempts
                   ELSE Append(attempts, AttemptRow(tasks[t].item, tasks[t].answer))
    /\ StepTo(t, IF tasks[t].answer \in Right /\ ~tasks[t].rewarded THEN "award" ELSE "done")
    /\ UNCHANGED <<submitVars, xp, raced, courseVars, faultVars>>

AwardXp(t) ==
    /\ tasks[t].step = "award"
    /\ xp' = [xp EXCEPT ![tasks[t].item] = @ + 1]
    /\ StepTo(t, "done")
    /\ UNCHANGED <<submitVars, attempts, raced, courseVars, faultVars>>

Completed == {u \in Units : <<u, TRUE>> \in submitted}

\* handleUpdateCourseProgress.
ReadSubmissions(t) ==
    /\ tasks[t].item = Course /\ MayTake(t)
    /\ tasks' = [tasks EXCEPT ![t].found = Completed, ![t].step = "read"]
    /\ UNCHANGED <<submitVars, rewardVars, courseVars, faultVars>>

\* Math.round.
Percent(n) == (200 * n + Cardinality(Units)) \div (2 * Cardinality(Units))

\* Mutant: an off-by-one.
MoreThanEnough(n) == Percent(n) > Threshold
Enough(n) == Percent(n) >= Threshold

UpsertProgress(t) ==
    /\ tasks[t].step = "read"
    /\ completedUnits' = tasks[t].found
    /\ setBack' = (setBack \/ ~(completedUnits \subseteq tasks[t].found))
    /\ StepTo(t, IF Enough(Cardinality(tasks[t].found)) THEN "certify" ELSE "done")
    /\ UNCHANGED <<submitVars, rewardVars, certificates, faultVars>>

\* generateCertificate: is there one?
FindCertificate(t) ==
    /\ tasks[t].step = "certify"
    /\ StepTo(t, IF certificates > 0 THEN "done" ELSE "check")
    /\ UNCHANGED <<submitVars, rewardVars, courseVars, faultVars>>

\* The progress is read again; "threshold not met" is only logged.
CheckThreshold(t) ==
    /\ tasks[t].step = "check"
    /\ StepTo(t, IF Enough(Cardinality(completedUnits)) THEN "create" ELSE "done")
    /\ UNCHANGED <<submitVars, rewardVars, courseVars, faultVars>>

\* @@unique([userId, type, resourceId]): who comes second returns the row of the first.
OneCertificate == 1

CreateCertificate(t) ==
    /\ tasks[t].step = "create"
    /\ certificates' = OneCertificate
    /\ StepTo(t, "done")
    /\ UNCHANGED <<submitVars, rewardVars, completedUnits, setBack, faultVars>>

EndTask(t) ==
    /\ tasks[t].step = "done"
    /\ tasks' = Queues!RemoveAt(tasks, t)
    /\ UNCHANGED <<submitVars, rewardVars, courseVars, faultVars>>

-------------------------------------------------------------------------------
(* Faults.                                                                 *)

JobFault(items) ==
    /\ jobFaults < MaxJobFaults
    /\ jobFaults' = jobFaults + 1
    /\ struckItems' = struckItems \cup items

\* A call throws: the job has failed, and is not tried again.
TaskFails(t) ==
    /\ InWork(t) /\ tasks[t].step # "done"
    /\ JobFault({tasks[t].item})
    /\ tasks' = Queues!RemoveAt(tasks, t)
    /\ UNCHANGED <<submitVars, rewardVars, courseVars>>

\* The worker stops; the job is found stalled and delivered again, from its start.
TaskStalls(t) ==
    /\ InWork(t)
    /\ JobFault({tasks[t].item})
    /\ StepTo(t, "queued")
    /\ UNCHANGED <<submitVars, rewardVars, courseVars>>

\* The request stops after its row was inserted: the jobs left are not enqueued.
SubmissionFails(i) ==
    /\ requests[i] # Idle
    /\ JobFault({i, Course})
    /\ requests' = [requests EXCEPT ![i] = Idle]
    /\ UNCHANGED <<submitted, flushed, enqueued, tasks, rewardVars, courseVars>>

-------------------------------------------------------------------------------
RequestStep(i) == EnqueueAttempt(i) \/ (i \in Units /\ EnqueueProgress(i))

TaskStep(t) ==
    \/ TakeAttempt(t) \/ FindRewarded(t) \/ CreateAttempt(t) \/ AwardXp(t)
    \/ ReadSubmissions(t) \/ UpsertProgress(t)
    \/ FindCertificate(t) \/ CheckThreshold(t) \/ CreateCertificate(t) \/ EndTask(t)

StudentNext ==
    \/ \E answer \in {"right", "wrong"} :
          \/ \E u \in Units : SubmitUnit(u, answer)
          \/ \E v \in VirtualUnits : SubmitVirtual(v, answer)
    \/ \E q \in Questions, answer \in Right \cup {"wrong"} : FlushAnswer(q, answer)
    \/ \E i \in DOMAIN requests : RequestStep(i) \/ SubmissionFails(i)
    \/ \E t \in DOMAIN tasks : TaskStep(t) \/ TaskFails(t) \/ TaskStalls(t)

StudentSpec == StudentInit /\ [][StudentNext]_studentVars

\* Requests go on and the workers take what is queued.
StudentFairness ==
    /\ \A i \in Items \ Questions : WF_studentVars(RequestStep(i))
    /\ WF_studentVars(\E t \in DOMAIN tasks : TaskStep(t))

StudentFairSpec == StudentSpec /\ StudentFairness

-------------------------------------------------------------------------------
(* Properties.                                                             *)

Answers == Right \cup {"none", "wrong"}
TaskSteps == {"queued", "fresh", "judged", "award", "read", "certify", "check", "create", "done"}
StudentTasks == [step : TaskSteps, item : Items \cup {Course}, answer : Answers, own : Nat,
                 found : SUBSET Units, rewarded : BOOLEAN]
RightKind(task) ==
    task.step \notin IF task.item = Course THEN {"fresh", "judged", "award"}
                     ELSE {"read", "certify", "check", "create"}
AttemptRows == [item : Items, answer : Answers]
Submissions == [step : {"idle", "progress", "attempt"}, answer : Answers, own : Nat]

\* The types of the variables.
StudentTypeOK ==
    /\ submitted \subseteq Units \X BOOLEAN
    /\ flushed \in [Questions -> Answers]
    /\ requests \in [Items \ Questions -> Submissions]
    /\ tasks \in Seq(StudentTasks) /\ \A t \in DOMAIN tasks : RightKind(tasks[t])
    /\ attempts \in Seq(AttemptRows)
    /\ xp \in [Items -> Nat]
    /\ completedUnits \subseteq Units /\ certificates \in Nat /\ setBack \in BOOLEAN
    /\ enqueued \in 0..MaxEnqueued /\ jobFaults \in 0..MaxJobFaults
    /\ raced \subseteq Items /\ struckItems \subseteq Items \cup {Course}

\* "XP is awarded once per question per session" (student.processor.ts 262): however
\* often its answer flips, and whatever job is delivered again or fails, an item is not
\* rewarded twice, unless two of its jobs run at a time; and outside a session, where
\* nothing tells a repeated job, also unless a fault struck it.
RewardedOnce ==
    \A i \in Items \ raced : i \in Questions \/ i \notin struckItems => xp[i] <= 1

\* With nothing queued, whoever answered an item correctly has its XP, and nobody else.
AtRest(i) ==
    /\ ~Awaited(i)
    /\ i \in DOMAIN requests => requests[i] = Idle
RewardsMatchAttempts ==
    \A i \in Items \ (raced \cup struckItems) :
        AtRest(i) => xp[i] = IF RightRows(i) # {} THEN 1 ELSE 0

Finished == {row[1] : row \in {r \in submitted : r[2]}}

\* However many updates of the progress run at a time, a course is certified at most
\* once, and only to a student who has completed enough of it: the threshold up to the half
\* percent Math.round adds, and every unit where the threshold is 100.
CertifiedOnceEarned ==
    /\ certificates <= 1
    /\ certificates = 1 =>
          /\ 200 * Cardinality(Finished) + Cardinality(Units)
                >= 2 * Threshold * Cardinality(Units)
          /\ Threshold = 100 => Finished = Units

\* XP and the certificate are what the answers have earned.
RewardsAreEarned == RewardedOnce /\ RewardsMatchAttempts /\ CertifiedOnceEarned

\* The progress comes to show what was submitted, and a finished course to be certified,
\* unless a fault struck or an older update overwrote a newer one.
CourseSettles ==
    []<>(\/ setBack \/ Course \in struckItems
         \/ completedUnits = Finished /\ (Finished = Units => certificates = 1))
===============================================================================
