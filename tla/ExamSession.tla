------------------------------ MODULE ExamSession ------------------------------
(***************************************************************************)
(* The answers of one exam session, from the student's save to the graded  *)
(* row: saves are staged in a Redis hash, a background flush moves them to *)
(* Postgres, and a manual submit, the deadline sweeper's job or a late     *)
(* flush completes the session; a proctoring violation or a teacher        *)
(* terminates it and a teacher may reopen it.                              *)
(*                                                                         *)
(* Every action is what one request or worker does between two awaits.     *)
(* The content of an answer is abstracted to the number of the save that   *)
(* produced it (0: absent), a score to the answers it was computed from.   *)
(***************************************************************************)
EXTENDS Naturals, FiniteSets

CONSTANTS
    Questions,      \* question ids the exam has
    Sections,       \* section ids, also naming their _section_<id>_submitted marker
    CodingFields,   \* _internal_coding:<question> fields
    SectionOf,      \* the section of each question
    NoSection,      \* the section of a question outside any section
    Flushers,       \* flush activities, one per backend instance
    Submitters,     \* HTTP submit requests
    JobRunners,     \* BullMQ workers of the submission queue
    NoOne,          \* no holder of the flush lock
    Nobody,         \* a holder of the flush lock that has crashed
    ExamKind,       \* "course": linked to a course, "live": graded at each flush,
                    \* "ungraded": no grading data
    HasDeadline,    \* has the exam a duration?
    LockMayExpire,  \* may a flush outlive the 30 s TTL of its lock?
    ClientResaves,  \* do clients save unchanged answers again?
    MaxSaves,       \* bound on saves per field
    MaxAttempts,    \* FLUSH_MAX_ATTEMPTS
    MaxFails,       \* bound on exceptions thrown by Redis or Postgres
    MaxCrashes,     \* bound on crashes of an activity
    MaxReopens      \* bound on teacher reopenings

Workers == Flushers \cup Submitters \cup JobRunners
ClientFields == Questions \cup Sections
Fields == ClientFields \cup CodingFields

ASSUME FieldsAssumption ==
    /\ Questions \cap Sections = {}
    /\ ClientFields \cap CodingFields = {}
    /\ NoSection \notin Sections
    /\ SectionOf \in [Questions -> Sections \cup {NoSection}]

ASSUME WorkersAssumption ==
    /\ Flushers \cap Submitters = {}
    /\ Flushers \cap JobRunners = {}
    /\ Submitters \cap JobRunners = {}
    /\ NoOne \notin Workers /\ Nobody \notin Workers /\ NoOne # Nobody

ASSUME BoundsAssumption ==
    /\ ExamKind \in {"course", "live", "ungraded"}
    /\ {HasDeadline, LockMayExpire, ClientResaves} \subseteq BOOLEAN
    /\ {MaxSaves, MaxAttempts, MaxFails, MaxCrashes, MaxReopens} \subseteq Nat
    /\ MaxSaves > 0 /\ MaxAttempts > 0

VARIABLES
    \* Postgres: the ExamSession row
    status,       \* IN_PROGRESS, COMPLETED or TERMINATED
    row,          \* the persisted answers
    score,        \* what the persisted score was computed from
    \* Redis
    stash,        \* session:answers:h:<id>, staged answers
    coding,       \* exam:coding-result:<id>
    due,          \* is the session in submission:flush:due?
    lock,         \* holder of flush:lock:<id>
    tries,        \* submission:flush:attempts:<id>
    meta,         \* status cached in session:meta:<id>, "none" if absent
    autoJob,      \* the auto-submit-<id> job: none, queued or active
    analytics,    \* save-question-attempt jobs enqueued: <<question, save>>
    effects,      \* times runCompletionSideEffects was started
    \* each activity's program counter and locals
    pc,
    buf,          \* staged answers read (with the coding results in a submit)
    stored,       \* answers read from the row
    seen,         \* status read from the meta cache or, filling it, from the row
    codingWrites, \* coding results hset whose row update is still to run
    evicting,     \* a teacher request between its UPDATE and its DEL of the caches
    \* environment
    past,         \* is the deadline, grace included, over?
    fails, crashes, reopens,
    \* history, read by no action
    issued,       \* saves made of each field so far
    acked,        \* issued, when a completing activity read the stash
    sealed,       \* issued, when the section was first submitted
    cutoff,       \* issued, when the deadline passed
    discarded     \* fields cleared from the stash and never persisted

rowVars == <<status, row, score>>
queueVars == <<autoJob, analytics, effects>>
localVars == <<pc, buf, stored, seen>>
boundVars == <<fails, crashes, reopens>>
historyVars == <<issued, acked, sealed, cutoff, discarded>>
vars == <<rowVars, stash, coding, due, lock, tries, meta, queueVars, localVars,
          codingWrites, evicting, past, boundVars, historyVars>>

Statuses == {"IN_PROGRESS", "COMPLETED", "TERMINATED"}
Blank == [f \in Fields |-> 0]
NoScore == <<"none", Blank>>
TeacherScore == <<"teacher", Blank>>
Graded(answers) == <<"graded", answers>>

\* Object spread { ...base, ...over } and the jsonb operator base || over.
Merge(base, over) == [f \in Fields |-> IF over[f] # 0 THEN over[f] ELSE base[f]]

\* A section is closed once its marker is among the stored answers.
Locked(q, answers) == SectionOf[q] \in Sections /\ answers[SectionOf[q]] # 0

AcceptedIntoClosed(staged, answers) == staged
AcceptedUnlessClosing(staged, answers) ==
    [f \in Fields |->
        IF f \in Questions /\ Locked(f, Merge(answers, staged)) THEN 0 ELSE staged[f]]

\* filterAnswersForExam: nothing enters a closed section.
Accepted(staged, answers) ==
    IF ExamKind = "ungraded" THEN staged
    ELSE [f \in Fields |->
            IF f \in Questions /\ Locked(f, answers) THEN 0 ELSE staged[f]]

\* What the flush or the submit of w writes, given what it has read.
Staged(w) == Accepted(buf[w], stored[w])
FinalFromRow(w) == stored[w]
Final(w) == Merge(stored[w], Staged(w))

ResavedAttempts(w) ==
    {<<q, Staged(w)[q]>> : q \in {p \in Questions : Staged(w)[p] # 0}}

\* Question answers of w's flush that differ from what was stored before it.
NewAttempts(w) ==
    {<<q, Staged(w)[q]>> : q \in {p \in Questions :
        Staged(w)[p] # 0 /\ Staged(w)[p] # stored[w][p]}}

Init ==
    /\ status = "IN_PROGRESS"
    /\ row = Blank
    /\ score = NoScore
    /\ stash = Blank
    /\ coding = Blank
    /\ due = FALSE
    /\ lock = NoOne
    /\ tries = 0
    /\ meta = "none"
    /\ autoJob = "none"
    /\ analytics = {}
    /\ effects = 0
    /\ pc = [w \in Workers |-> "idle"]
    /\ buf = [w \in Workers |-> Blank]
    /\ stored = [w \in Workers |-> Blank]
    /\ seen = [w \in Workers |-> "none"]
    /\ codingWrites = {}
    /\ evicting = FALSE
    /\ past = FALSE
    /\ fails = 0 /\ crashes = 0 /\ reopens = 0
    /\ issued = Blank
    /\ acked = [w \in Workers |-> Blank]
    /\ sealed = Blank
    /\ cutoff = Blank
    /\ discarded = {}

-------------------------------------------------------------------------------
(* Local control: moving on, and returning (the locals go out of scope).   *)

Goto(w, label) == pc' = [pc EXCEPT ![w] = label]

Return(w, label) ==
    /\ pc' = [pc EXCEPT ![w] = label]
    /\ buf' = [buf EXCEPT ![w] = Blank]
    /\ stored' = [stored EXCEPT ![w] = Blank]
    /\ seen' = [seen EXCEPT ![w] = "none"]
    /\ acked' = [acked EXCEPT ![w] = Blank]

-------------------------------------------------------------------------------
(* Saves: the HTTP and socket handlers stage a patch in one MULTI.         *)

\* One answer, or a section's answers together with its submitted marker.
Patches ==
    {{q} : q \in Questions} \cup
    UNION {{{s} \cup Q : Q \in SUBSET {q \in Questions : SectionOf[q] = s}} :
           s \in Sections}

StageAnswers(P) ==
    /\ \A f \in P \cap Questions : issued[f] < MaxSaves
    /\ issued' = [f \in Fields |->
                    IF f \notin P THEN issued[f]
                    ELSE IF f \in Sections THEN 1 ELSE issued[f] + 1]
    /\ stash' = [f \in Fields |-> IF f \in P THEN issued'[f] ELSE stash[f]]
    /\ due' = TRUE
    /\ sealed' = [f \in Fields |->
                    IF /\ f \in Questions
                       /\ SectionOf[f] \in P
                       /\ issued[SectionOf[f]] = 0
                    THEN issued'[f] ELSE sealed[f]]
    /\ discarded' = discarded \ P
    /\ UNCHANGED <<rowVars, coding, lock, tries, meta, queueVars, localVars,
                   codingWrites, evicting, past, boundVars, acked, cutoff>>

\* The client saves an unchanged answer once more.
ResaveAnswer(q) ==
    /\ ClientResaves
    /\ issued[q] > 0
    /\ stash' = [stash EXCEPT ![q] = issued[q]]
    /\ due' = TRUE
    /\ discarded' = discarded \ {q}
    /\ UNCHANGED <<rowVars, coding, lock, tries, meta, queueVars, localVars,
                   codingWrites, evicting, past, boundVars, issued, acked, sealed,
                   cutoff>>

-------------------------------------------------------------------------------
(* Coding results: recordExamCodingResult writes Redis, then the row.      *)

RecordCodingResult(c) ==
    /\ issued[c] < MaxSaves
    /\ issued' = [issued EXCEPT ![c] = @ + 1]
    /\ coding' = [coding EXCEPT ![c] = issued'[c]]
    /\ codingWrites' = codingWrites \cup {<<c, issued'[c]>>}
    /\ UNCHANGED <<rowVars, stash, due, lock, tries, meta, queueVars, localVars,
                   evicting, past, boundVars, acked, sealed, cutoff, discarded>>

PersistCodingResultUnguarded(c, v) ==
    /\ <<c, v>> \in codingWrites
    /\ codingWrites' = codingWrites \ {<<c, v>>}
    /\ row' = [row EXCEPT ![c] = v]
    /\ UNCHANGED <<status, score, stash, coding, due, lock, tries, meta, queueVars,
                   localVars, evicting, past, boundVars, historyVars>>

PersistCodingResult(c, v) ==
    /\ <<c, v>> \in codingWrites
    /\ codingWrites' = codingWrites \ {<<c, v>>}
    /\ row' = IF status = "IN_PROGRESS" THEN [row EXCEPT ![c] = v] ELSE row
    /\ UNCHANGED <<status, score, stash, coding, due, lock, tries, meta, queueVars,
                   localVars, evicting, past, boundVars, historyVars>>

-------------------------------------------------------------------------------
(* Flush of the staged answers.                                            *)

\* The 250 ms tick claims the session out of the due set.
PopDue(w) ==
    /\ pc[w] = "idle"
    /\ due
    /\ due' = FALSE
    /\ Goto(w, "acquire")
    /\ UNCHANGED <<rowVars, stash, coding, lock, tries, meta, queueVars, buf, stored,
                   seen, codingWrites, evicting, past, boundVars, historyVars>>

LockIgnored == TRUE
LockFree == lock = NoOne

AcquireLock(w) ==
    /\ pc[w] = "acquire"
    /\ LockFree
    /\ lock' = w
    /\ Goto(w, "readStash")
    /\ UNCHANGED <<rowVars, stash, coding, due, tries, meta, queueVars, buf, stored,
                   seen, codingWrites, evicting, past, boundVars, historyVars>>

\* Somebody else is flushing: reschedule and return normally.
LockBusy(w) ==
    /\ pc[w] = "acquire"
    /\ ~LockFree
    /\ due' = TRUE
    /\ tries' = 0
    /\ Goto(w, "idle")
    /\ UNCHANGED <<rowVars, stash, coding, lock, meta, queueVars, buf, stored,
                   seen, codingWrites, evicting, past, boundVars, historyVars>>

ReadStash(w) ==
    /\ pc[w] = "readStash"
    /\ buf' = [buf EXCEPT ![w] = stash]
    /\ Goto(w, IF stash = Blank THEN "release" ELSE "readMeta")
    /\ UNCHANGED <<rowVars, stash, coding, due, lock, tries, meta, queueVars, stored,
                   seen, codingWrites, evicting, past, boundVars, historyVars>>

\* getSessionMeta: the cache, or on a miss the row and then the cache.
ReadMeta(w) ==
    /\ pc[w] = "readMeta"
    /\ seen' = [seen EXCEPT ![w] = IF meta = "none" THEN status ELSE meta]
    /\ Goto(w, IF meta = "none" THEN "fillMeta" ELSE "readRow")
    /\ UNCHANGED <<rowVars, stash, coding, due, lock, tries, meta, queueVars, buf,
                   stored, codingWrites, evicting, past, boundVars, historyVars>>

FillMeta(w) ==
    /\ pc[w] = "fillMeta"
    /\ meta' = seen[w]
    /\ Goto(w, "readRow")
    /\ UNCHANGED <<rowVars, stash, coding, due, lock, tries, queueVars, buf, stored,
                   seen, codingWrites, evicting, past, boundVars, historyVars>>

\* Writes for a finished session are ignored; past the deadline the flush
\* turns into an auto-submit, still holding the lock.
ReadRow(w) ==
    /\ pc[w] = "readRow"
    /\ stored' = [stored EXCEPT ![w] = row]
    /\ Goto(w, IF seen[w] \in {"TERMINATED", "COMPLETED"} THEN "release"
               ELSE IF past THEN "collect" ELSE "persist")
    /\ UNCHANGED <<rowVars, stash, coding, due, lock, tries, meta, queueVars, buf,
                   seen, codingWrites, evicting, past, boundVars, historyVars>>

PersistAlways == TRUE
RowAcceptsFlush == status = "IN_PROGRESS"

\* One guarded UPDATE. A live-graded exam is graded on the merged view of
\* what was read, not on the row the UPDATE merges into.
PersistStaged(w) ==
    /\ pc[w] = "persist"
    /\ IF RowAcceptsFlush
       THEN /\ row' = Merge(row, Staged(w))
            /\ score' = CASE ExamKind = "course" -> NoScore
                          [] ExamKind = "live" -> Graded(Final(w))
                          [] OTHER -> score
       ELSE UNCHANGED <<row, score>>
    /\ Goto(w, "clear")
    /\ UNCHANGED <<status, stash, coding, due, lock, tries, meta, queueVars, buf,
                   stored, seen, codingWrites, evicting, past, boundVars, historyVars>>

ClearedByName(w) == {f \in ClientFields : Staged(w)[f] # 0}

\* CLEAR_IF_UNCHANGED: drop the accepted fields that still hold what was read.
Cleared(w) == {f \in ClientFields : Staged(w)[f] # 0 /\ stash[f] = Staged(w)[f]}

ClearFlushed(w) ==
    /\ pc[w] = "clear"
    /\ stash' = [f \in Fields |-> IF f \in Cleared(w) THEN 0 ELSE stash[f]]
    /\ discarded' = discarded \cup {f \in Cleared(w) : row[f] # Staged(w)[f]}
    /\ Goto(w, IF ExamKind = "live" THEN "analytics" ELSE "release")
    /\ UNCHANGED <<rowVars, coding, due, lock, tries, meta, queueVars, buf, stored,
                   seen, codingWrites, evicting, past, boundVars, issued, acked,
                   sealed, cutoff>>

EnqueueAnalytics(w) ==
    /\ pc[w] = "analytics"
    /\ analytics' = analytics \cup NewAttempts(w)
    /\ Goto(w, "release")
    /\ UNCHANGED <<rowVars, stash, coding, due, lock, tries, meta, autoJob, effects,
                   buf, stored, seen, codingWrites, evicting, past, boundVars,
                   historyVars>>

\* Compare-and-delete of the lock token, then DEL of the attempts counter.
ReleaseLock(w) ==
    /\ pc[w] = "release"
    /\ lock' = IF lock = w THEN NoOne ELSE lock
    /\ tries' = 0
    /\ Return(w, "idle")
    /\ UNCHANGED <<rowVars, stash, coding, due, meta, queueVars, codingWrites,
                   evicting, past, boundVars, issued, sealed, cutoff, discarded>>

\* The PX expiry of the lock: of a crashed holder, or of a flush that outlives it.
ExpireLock ==
    /\ lock # NoOne
    /\ lock = Nobody \/ LockMayExpire
    /\ lock' = NoOne
    /\ UNCHANGED <<rowVars, stash, coding, due, tries, meta, queueVars, localVars,
                   codingWrites, evicting, past, boundVars, historyVars>>

-------------------------------------------------------------------------------
(* Completion: submitExamNow, and handleAutoSubmit run by the sweeper's    *)
(* job or by a flush that found the deadline over.                         *)

\* collectFinalAnswers: the stash, then the client's own answers over it,
\* then the coding results. The row is read next, in a later step.
Collect(w, finals) ==
    /\ buf' = [buf EXCEPT ![w] =
                  [f \in Fields |-> IF f \in CodingFields THEN coding[f]
                                    ELSE Merge(stash, finals)[f]]]
    /\ acked' = [acked EXCEPT ![w] =
                    [f \in Fields |-> IF f \in discarded THEN 0 ELSE issued[f]]]
    /\ Goto(w, "readForSubmit")
    /\ UNCHANGED <<rowVars, stash, coding, due, lock, tries, meta, queueVars, stored,
                   seen, codingWrites, evicting, past, boundVars, issued, sealed,
                   cutoff, discarded>>

\* A submit request carries no answers, or every answer of the client.
StartSubmit(w) ==
    /\ pc[w] = "idle"
    /\ \E sync \in BOOLEAN :
          Collect(w, [f \in Fields |->
                        IF sync /\ f \in Questions THEN issued[f] ELSE 0])

CollectForAutoSubmit(w) ==
    /\ pc[w] = "collect"
    /\ Collect(w, Blank)

\* The submit returns: to the flush it interrupted, or out of the activity.
EndSubmit(w) ==
    /\ Return(w, IF w \in Flushers THEN "release" ELSE "idle")
    /\ autoJob' = IF w \in JobRunners THEN "none" ELSE autoJob

ReadForSubmit(w) ==
    /\ pc[w] = "readForSubmit"
    /\ IF status = "IN_PROGRESS"
       THEN /\ stored' = [stored EXCEPT ![w] = row]
            /\ Goto(w, "complete")
            /\ UNCHANGED <<autoJob, buf, seen, acked>>
       ELSE EndSubmit(w)
    /\ UNCHANGED <<rowVars, stash, coding, due, lock, tries, meta, analytics, effects,
                   codingWrites, evicting, past, boundVars, issued, sealed, cutoff,
                   discarded>>

CompletesAlways == TRUE
RowAcceptsCompletion == status = "IN_PROGRESS"

\* The conditional write, of the whole answers object; losing the race ends.
CompleteSession(w) ==
    /\ pc[w] = "complete"
    /\ IF RowAcceptsCompletion
       THEN /\ status' = "COMPLETED"
            /\ row' = Final(w)
            /\ score' = Graded(Final(w))
            /\ Goto(w, "clearStash")
            /\ UNCHANGED <<autoJob, buf, stored, seen, acked>>
       ELSE /\ EndSubmit(w)
            /\ UNCHANGED rowVars
    /\ UNCHANGED <<stash, coding, due, lock, tries, meta, analytics, effects,
                   codingWrites, evicting, past, boundVars, issued, sealed, cutoff,
                   discarded>>

ClearStashAndReturn(w) ==
    /\ pc[w] = "clearStash"
    /\ stash' = Blank
    /\ EndSubmit(w)
    /\ UNCHANGED <<rowVars, coding, due, lock, tries, meta, analytics, effects,
                   codingWrites, evicting, past, boundVars, issued, sealed, cutoff,
                   discarded>>

ClearStash(w) ==
    /\ pc[w] = "clearStash"
    /\ stash' = Blank
    /\ Goto(w, "followUp")
    /\ UNCHANGED <<rowVars, coding, due, lock, tries, meta, queueVars, buf, stored,
                   seen, codingWrites, evicting, past, boundVars, historyVars>>

\* runCompletionSideEffects: streak, webhooks, certificate. Never throws.
FollowUp(w) ==
    /\ pc[w] = "followUp"
    /\ effects' = effects + 1
    /\ EndSubmit(w)
    /\ UNCHANGED <<rowVars, stash, coding, due, lock, tries, meta, analytics,
                   codingWrites, evicting, past, boundVars, issued, sealed, cutoff,
                   discarded>>

-------------------------------------------------------------------------------
(* The deadline, and the sweeper's job (one jobId per session).            *)

DeadlinePasses ==
    /\ HasDeadline
    /\ ~past
    /\ past' = TRUE
    /\ cutoff' = issued
    /\ UNCHANGED <<rowVars, stash, coding, due, lock, tries, meta, queueVars, localVars,
                   codingWrites, evicting, boundVars, issued, acked, sealed, discarded>>

Sweep ==
    /\ past
    /\ status = "IN_PROGRESS"
    /\ autoJob = "none"
    /\ autoJob' = "queued"
    /\ UNCHANGED <<rowVars, stash, coding, due, lock, tries, meta, analytics, effects,
                   localVars, codingWrites, evicting, past, boundVars, historyVars>>

TakeJob(w) ==
    /\ pc[w] = "idle"
    /\ autoJob = "queued"
    /\ autoJob' = "active"
    /\ Goto(w, "collect")
    /\ UNCHANGED <<rowVars, stash, coding, due, lock, tries, meta, analytics, effects,
                   buf, stored, seen, codingWrites, evicting, past, boundVars,
                   historyVars>>

-------------------------------------------------------------------------------
(* Termination, reopening and regrading.                                   *)

\* The gateway's guarded UPDATE; it leaves session:meta as it is.
TerminateForViolation ==
    /\ status = "IN_PROGRESS"
    /\ status' = "TERMINATED"
    /\ UNCHANGED <<row, score, stash, coding, due, lock, tries, meta, queueVars,
                   localVars, codingWrites, evicting, past, boundVars, historyVars>>

TeacherTerminates ==
    /\ ~evicting
    /\ status = "IN_PROGRESS"
    /\ status' = "TERMINATED"
    /\ evicting' = TRUE
    /\ UNCHANGED <<row, score, stash, coding, due, lock, tries, meta, queueVars,
                   localVars, codingWrites, past, boundVars, historyVars>>

TeacherReopens ==
    /\ ~evicting
    /\ reopens < MaxReopens
    /\ status = "TERMINATED"
    /\ status' = "IN_PROGRESS"
    /\ reopens' = reopens + 1
    /\ evicting' = TRUE
    /\ UNCHANGED <<row, score, stash, coding, due, lock, tries, meta, queueVars,
                   localVars, codingWrites, past, fails, crashes, historyVars>>

\* The second half of either request: DEL of the cached status and meta.
EvictMeta ==
    /\ evicting
    /\ evicting' = FALSE
    /\ meta' = "none"
    /\ UNCHANGED <<rowVars, stash, coding, due, lock, tries, queueVars, localVars,
                   codingWrites, past, boundVars, historyVars>>

\* updateSubmissionScore, whatever the status.
Regrade ==
    /\ score' = TeacherScore
    /\ UNCHANGED <<status, row, stash, coding, due, lock, tries, meta, queueVars,
                   localVars, codingWrites, evicting, past, boundVars, historyVars>>

-------------------------------------------------------------------------------
(* Exceptions and crashes.                                                 *)

CanThrow(w) == pc[w] \notin {"idle", "release", "followUp"}

GivesUpAtOnce(n) == FALSE
Reschedules(n) == n < MaxAttempts

\* flushWithRetry: release the lock (the release may fail too, and its
\* error is swallowed), then count the attempt and reschedule, or give up.
FlushFails(w) ==
    /\ CanThrow(w)
    /\ fails < MaxFails
    /\ fails' = fails + 1
    /\ lock' \in IF lock = w THEN {NoOne, Nobody} ELSE {lock}
    /\ \/ /\ tries' = tries + 1
          /\ due' = IF Reschedules(tries') THEN TRUE ELSE due
       \/ /\ due' = TRUE            \* the bookkeeping failed: zadd in 30 s
          /\ UNCHANGED tries
    /\ Return(w, "idle")
    /\ UNCHANGED <<rowVars, stash, coding, meta, queueVars, codingWrites, evicting,
                   past, crashes, reopens, issued, sealed, cutoff, discarded>>

FailedJobKept == {"queued", "failed"}

\* attempts: 3, removeOnFail: the job is retried or its id is free again.
JobAfterFailure == {"queued", "none"}

\* The request fails, or the job does: it is retried or, attempts spent, removed.
SubmitFails(w) ==
    /\ CanThrow(w)
    /\ fails < MaxFails
    /\ fails' = fails + 1
    /\ autoJob' \in IF w \in JobRunners THEN JobAfterFailure ELSE {autoJob}
    /\ Return(w, "idle")
    /\ UNCHANGED <<rowVars, stash, coding, due, lock, tries, meta, analytics, effects,
                   codingWrites, evicting, past, crashes, reopens, issued, sealed,
                   cutoff, discarded>>

\* The lock outlives its holder; BullMQ re-queues a stalled job once.
Crash(w) ==
    /\ pc[w] # "idle"
    /\ crashes < MaxCrashes
    /\ crashes' = crashes + 1
    /\ lock' = IF lock = w THEN Nobody ELSE lock
    /\ autoJob' \in IF w \in JobRunners THEN JobAfterFailure ELSE {autoJob}
    /\ Return(w, "idle")
    /\ UNCHANGED <<rowVars, stash, coding, due, tries, meta, analytics, effects,
                   codingWrites, evicting, past, fails, reopens, issued, sealed,
                   cutoff, discarded>>

\* A crash between the two halves of a teacher request or a coding result.
CrashRequest ==
    /\ evicting \/ codingWrites # {}
    /\ crashes < MaxCrashes
    /\ crashes' = crashes + 1
    /\ evicting' = FALSE
    /\ codingWrites' = {}
    /\ UNCHANGED <<rowVars, stash, coding, due, lock, tries, meta, queueVars, localVars,
                   past, fails, reopens, historyVars>>

-------------------------------------------------------------------------------
SubmitStep(w) ==
    \/ CollectForAutoSubmit(w)
    \/ ReadForSubmit(w)
    \/ CompleteSession(w)
    \/ ClearStash(w)
    \/ FollowUp(w)

FlushStep(w) ==
    \/ PopDue(w)
    \/ AcquireLock(w)
    \/ LockBusy(w)
    \/ ReadStash(w)
    \/ ReadMeta(w)
    \/ FillMeta(w)
    \/ ReadRow(w)
    \/ PersistStaged(w)
    \/ ClearFlushed(w)
    \/ EnqueueAnalytics(w)
    \/ ReleaseLock(w)

Next ==
    \/ \E P \in Patches : StageAnswers(P)
    \/ \E q \in Questions : ResaveAnswer(q)
    \/ \E c \in CodingFields : RecordCodingResult(c)
    \/ \E c \in CodingFields, v \in 1..MaxSaves : PersistCodingResult(c, v)
    \/ \E w \in Flushers : FlushStep(w) \/ SubmitStep(w) \/ FlushFails(w)
    \/ \E w \in Submitters : StartSubmit(w) \/ SubmitStep(w) \/ SubmitFails(w)
    \/ \E w \in JobRunners : TakeJob(w) \/ SubmitStep(w) \/ SubmitFails(w)
    \/ \E w \in Workers : Crash(w)
    \/ ExpireLock
    \/ DeadlinePasses
    \/ Sweep
    \/ TerminateForViolation
    \/ TeacherTerminates
    \/ TeacherReopens
    \/ EvictMeta
    \/ Regrade
    \/ CrashRequest

Spec == Init /\ [][Next]_vars

\* Timers tick, workers and requests run on, a dead lock expires, and BullMQ
\* delivers; nobody is obliged to save, submit, terminate, reopen or crash.
Fairness ==
    /\ \A w \in Flushers : WF_vars(FlushStep(w) \/ SubmitStep(w))
    /\ \A w \in Submitters : WF_vars(SubmitStep(w))
    /\ \A w \in JobRunners : WF_vars(TakeJob(w) \/ SubmitStep(w))
    /\ WF_vars(Sweep)
    /\ WF_vars(lock = Nobody /\ ExpireLock)

FairSpec == Spec /\ Fairness

-------------------------------------------------------------------------------
(* Properties.                                                             *)

Labels == {"idle", "acquire", "readStash", "readMeta", "fillMeta", "readRow",
           "persist", "clear", "analytics", "release", "collect",
           "readForSubmit", "complete", "clearStash", "followUp"}
Answers == [Fields -> Nat]

\* The types of the variables.
TypeOK ==
    /\ status \in Statuses
    /\ row \in Answers
    /\ score \in {"none", "graded", "teacher"} \X Answers
    /\ stash \in Answers
    /\ coding \in Answers
    /\ due \in BOOLEAN
    /\ lock \in Flushers \cup {NoOne, Nobody}
    /\ tries \in Nat
    /\ meta \in Statuses \cup {"none"}
    /\ autoJob \in {"none", "queued", "active"}
    /\ analytics \subseteq Questions \X Nat
    /\ effects \in Nat
    /\ pc \in [Workers -> Labels]
    /\ buf \in [Workers -> Answers]
    /\ stored \in [Workers -> Answers]
    /\ seen \in [Workers -> Statuses \cup {"none"}]
    /\ codingWrites \subseteq CodingFields \X Nat
    /\ evicting \in BOOLEAN
    /\ past \in BOOLEAN
    /\ fails \in Nat /\ crashes \in Nat /\ reopens \in Nat
    /\ issued \in Answers
    /\ acked \in [Workers -> Answers]
    /\ sealed \in Answers
    /\ cutoff \in Answers
    /\ discarded \subseteq ClientFields

\* Between taking flush:lock and releasing it.
InFlush(w) == pc[w] \notin {"idle", "acquire"}

\* Two instances never flush the same session at once (processor 262-263).
FlushesExclusive ==
    \A v, w \in Flushers : InFlush(v) /\ InFlush(w) => v = w

\* Where the last save of a field is.
Kept(f) ==
    \/ issued[f] \in {stash[f], row[f]}
    \/ f \in discarded
    \/ f \in Questions /\ Locked(f, row)

\* The last save of a field of a live session is staged or persisted, whatever
\* fails or crashes, unless its section was already closed or a flush cleared it
\* after an UPDATE that matched no row (the session was terminated meanwhile).
NoAnswerLost ==
    status = "IN_PROGRESS" =>
        \A f \in ClientFields : Kept(f)

\* A closed section holds at least what had been saved when it was submitted.
SectionBatchLands ==
    reopens = 0 =>
        \A q \in Questions : Locked(q, row) => row[q] >= sealed[q]

\* While a session stays live its persisted answers never go back to an older
\* save, and those of a closed section never change.
RowOnlyAdvances ==
    [][status' = "IN_PROGRESS" =>
        \A f \in ClientFields :
            /\ row'[f] >= row[f]
            /\ f \in Questions /\ Locked(f, row) => row'[f] = row[f]]_vars

\* A completed session never changes again, except that a teacher regrades it:
\* no late flush, coding result, job, violation or duplicate submit touches it.
CompletedIsFinal ==
    [][status = "COMPLETED" =>
        /\ UNCHANGED <<status, row>>
        /\ score' \in {score, TeacherScore}]_vars

\* The score of a completed session was computed from exactly its answers.
ScoreMatchesAnswers ==
    status = "COMPLETED" => score \in {Graded(row), TeacherScore}

\* A completion contains every answer that was saved before it began, although
\* flushes may move answers from the stash to the row while it collects them.
CompletionKeepsEarlierAnswers ==
    [][\A w \in Workers :
        pc[w] = "complete" /\ status = "IN_PROGRESS" /\ status' = "COMPLETED"
        /\ pc'[w] = "clearStash" =>
            \A f \in Fields :
                \/ row'[f] >= acked[w][f]
                \/ f \in Questions /\ Locked(f, stored[w])]_vars

\* No answer of a live session is enqueued twice for question-attempt analytics
\* (which awards XP), although clients re-save unchanged answers.
NoDuplicateAttempt ==
    status = "IN_PROGRESS" /\ reopens = 0 =>
        \A w \in Flushers : pc[w] = "analytics" => NewAttempts(w) \cap analytics = {}

\* The session keeps the promises of SessionLifecycle.
Lifecycle == INSTANCE SessionLifecycle WITH status <- status, effects <- effects
KeepsLifecycle == Lifecycle!Spec

\* A session past its deadline does not stay live, whatever fails or crashes.
DeadlineCloses == past /\ status = "IN_PROGRESS" ~> status # "IN_PROGRESS"

\* A staged answer reaches the row (or is dropped as belonging to a closed
\* section) without waiting for the deadline, as long as the attempts are not
\* exhausted and no claimed flush is lost to a crash or finds the session
\* terminated that a teacher is about to reopen.
StagedIsFlushed ==
    \A f \in ClientFields :
        stash[f] # 0 ~> \/ stash[f] = 0
                        \/ status # "IN_PROGRESS" \/ crashes + reopens > 0
                        \/ f \in Questions /\ Locked(f, row)

\* Every completion is followed up, unless an exception or a crash intervenes.
CompletionFollowedUp ==
    status = "COMPLETED" ~> effects = 1 \/ fails + crashes > 0

-------------------------------------------------------------------------------
(* What the comments of the code promise and the code does not do.         *)

\* A late flush closes the session "instead of persisting the late answers"
\* (submission.processor 319-321).
LateAnswersNotPersisted ==
    past => \A f \in ClientFields : row[f] <= cutoff[f]

\* A completion merges "everything a session has" (submission.service 162):
\* it drops nothing that is already persisted.
CompletionKeepsRow ==
    [][status = "IN_PROGRESS" /\ status' = "COMPLETED" =>
        \A f \in ClientFields : row'[f] >= row[f]]_vars

-------------------------------------------------------------------------------
(* The inductive invariant of the proofs.                                  *)

\* Whoever is flushing holds the lock.
HolderInv == ~LockMayExpire => \A w \in Flushers : InFlush(w) => lock = w

\* At most one activity has completed the session and has yet to follow it up.
Finishing(w) == pc[w] \in {"clearStash", "followUp"}

FollowUpInv ==
    /\ effects \in {0, 1}
    /\ effects = 1 => status = "COMPLETED"
    /\ \A w \in Workers : Finishing(w) => status = "COMPLETED" /\ effects = 0
    /\ \A v, w \in Workers : Finishing(v) /\ Finishing(w) => v = w

\* Only the last save of a field is ever staged, a flush under way has its
\* fields still staged, and no answer of an open session is lost.
StashInv ==
    /\ \A f \in ClientFields : stash[f] \in {0, issued[f]}
    /\ ~LockMayExpire /\ status # "COMPLETED" =>
        /\ \A w \in Flushers :
              pc[w] \in {"readMeta", "fillMeta", "readRow", "persist"} =>
                 \A f \in ClientFields : buf[w][f] # 0 => stash[f] # 0
        /\ \A f \in ClientFields : Kept(f)

\* Nobody has read or written a save that was not made; a section is saved once.
SavesInv ==
    /\ \A s \in Sections : issued[s] <= 1
    /\ \A c \in CodingFields : coding[c] = issued[c]
    /\ \A f \in ClientFields :
          /\ row[f] <= issued[f] /\ sealed[f] <= issued[f]
          /\ \A w \in Workers : buf[w][f] <= issued[f] /\ stored[w][f] <= issued[f]

\* Between a flush's read of the stash and its UPDATE.
Writing(w) == pc[w] \in {"readMeta", "fillMeta", "readRow", "persist"}

\* What a flush is about to write is no older than the row, which nobody else
\* has written since the flush read it.
WriterInv ==
    ~LockMayExpire /\ status # "COMPLETED" =>
        \A w \in Flushers, f \in ClientFields :
            /\ Writing(w) /\ buf[w][f] # 0 => row[f] <= buf[w][f]
            /\ pc[w] = "persist" => stored[w][f] = row[f]

\* What a completion has read, or will once it reads the row, has every answer
\* saved before it began.
CollectInv ==
    ~LockMayExpire /\ status # "COMPLETED" =>
        \A w \in Workers :
            /\ \A c \in CodingFields :
                  pc[w] \in {"readForSubmit", "complete"} => acked[w][c] <= buf[w][c]
            /\ \A f \in ClientFields :
                  /\ pc[w] = "readForSubmit" =>
                        \/ acked[w][f] <= Merge(row, buf[w])[f]
                        \/ f \in Questions /\ Locked(f, row)
                  /\ pc[w] = "complete" =>
                        \/ acked[w][f] <= Final(w)[f]
                        \/ f \in Questions /\ Locked(f, stored[w])

\* In a session that was never terminated nothing is discarded, what a flush
\* wrote is in the row, and the attempts enqueued are older than those to come.
AttemptsInv ==
    ~LockMayExpire /\ status = "IN_PROGRESS" /\ reopens = 0 =>
        /\ discarded = {}
        /\ \A a \in analytics : a[2] <= row[a[1]]
        /\ \A w \in Flushers : pc[w] \in {"clear", "analytics"} =>
              /\ \A f \in ClientFields : Staged(w)[f] \in {0, row[f]}
              /\ \A a \in analytics, n \in NewAttempts(w) : a[1] = n[1] => a[2] < n[2]

\* A batch is read, and written, whole.
BatchInv ==
    ~LockMayExpire /\ ExamKind # "ungraded" /\ reopens = 0 =>
        /\ \A q \in Questions : Locked(q, row) => sealed[q] <= row[q]
        /\ status = "IN_PROGRESS" =>
            \A w \in Workers, q \in Questions :
                /\ (Writing(w) \/ pc[w] = "readForSubmit") /\ Locked(q, buf[w]) =>
                      Locked(q, row) \/ sealed[q] <= Merge(row, buf[w])[q]
                /\ pc[w] = "complete" /\ Locked(q, Final(w)) =>
                      sealed[q] <= Final(w)[q]

\* The inductive invariant, checked by TLC before it was proved.
SessionInv == HolderInv /\ FollowUpInv /\ StashInv
AnswersInv == SavesInv /\ WriterInv /\ CollectInv /\ AttemptsInv /\ BatchInv

===============================================================================
