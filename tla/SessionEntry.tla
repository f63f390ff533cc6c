----------------------------- MODULE SessionEntry -----------------------------
(***************************************************************************)
(* How the exam sessions of one student in one exam come to be: concurrent *)
(* enter requests (double clicks, tabs, retries, several instances) check  *)
(* the attempts used, take a Redis lock, read the latest attempt and       *)
(* resume it or create the next one under a Postgres advisory lock, while  *)
(* sessions are completed and terminated and a teacher reopens one.        *)
(***************************************************************************)
EXTENDS Naturals, Sequences, FiniteSets

CONSTANTS
    EntryRequests,  \* enter requests that can be in flight at once
    NoOne,          \* no holder of a lock
    Nobody,         \* a holder of the Redis lock that has crashed
    LinkedExams,    \* may the exam be linked to a course (several attempts) or not?
    MaxAttempts,    \* the exam's maxAttempts
    LockMayExpire,  \* may a start outlive the 8 s TTL of its lock?
    StartMayBeSlow,  \* may a start outlast the 25 tries (about 0.9 s) of another?
    MaxEntries,     \* bound on the requests made
    MaxReopens,     \* bound on teacher reopenings
    MaxEntryCrashes  \* bound on crashes of a request

ASSUME RequestsAssumption ==
    NoOne \notin EntryRequests /\ Nobody \notin EntryRequests /\ NoOne # Nobody

ASSUME EntryBoundsAssumption ==
    /\ {LockMayExpire, StartMayBeSlow} \subseteq BOOLEAN
    /\ LinkedExams \subseteq BOOLEAN
    /\ {MaxAttempts, MaxEntries, MaxReopens, MaxEntryCrashes} \subseteq Nat
    /\ MaxAttempts > 0

VARIABLES
    sessions,   \* the ExamSession rows, in the order of their creation
    startLock,  \* holder of examstart:lock:<user>:<exam>
    advisory,   \* holder of the advisory lock of createSessionOnce
    entering,
    lockTakers,  \* the requests that took the Redis lock
    last,       \* the latest attempt read by the checks, then by the start
    usedAttempts,  \* the attempts counted by the checks
    linked,     \* is the exam linked to a course? It never changes.
    target,     \* the terminated session a teacher is about to reopen, or 0
    entries, reopens, entryCrashes

requestVars == <<entering, lockTakers, last, usedAttempts>>
entryVars == <<sessions, startLock, advisory, requestVars, target, entries,
               reopens, entryCrashes, linked>>

Unread == MaxEntries + 1        \* the count has not returned yet
NoSession == [status |-> "NONE", attempt |-> 0, passed |-> FALSE]
Pending == [status |-> "PENDING", attempt |-> 0, passed |-> FALSE]

SessionRows == DOMAIN sessions
LiveSessions == {i \in SessionRows : sessions[i].status = "IN_PROGRESS"}
Ended == {i \in SessionRows : sessions[i].status \in {"COMPLETED", "TERMINATED"}}

\* ORDER BY attemptNumber DESC, createdAt DESC, of which the first row is read.
First(i) == \A j \in SessionRows : \/ sessions[j].attempt < sessions[i].attempt
                                   \/ sessions[j].attempt = sessions[i].attempt /\ j <= i

\* The only latest row, or none.
Latest ==
    IF sessions = <<>>
    THEN {NoSession}
    ELSE {sessions[i] : i \in {k \in SessionRows : First(k)}}

FirstAttempt(latest) == 1
NextAttempt(latest) == IF linked THEN latest.attempt + 1 ELSE 1

EntryInit ==
    /\ sessions = <<>>
    /\ startLock = NoOne
    /\ advisory = NoOne
    /\ entering = [r \in EntryRequests |-> "idle"]
    /\ lockTakers = {}
    /\ last = [r \in EntryRequests |-> NoSession]
    /\ usedAttempts = [r \in EntryRequests |-> 0]
    /\ linked \in LinkedExams
    /\ target = 0
    /\ entries = 0 /\ reopens = 0 /\ entryCrashes = 0

EntryGoto(r, label) == entering' = [entering EXCEPT ![r] = label]

Return(r) ==
    /\ entering' = [entering EXCEPT ![r] = "idle"]
    /\ last' = [last EXCEPT ![r] = NoSession]
    /\ usedAttempts' = [usedAttempts EXCEPT ![r] = 0]
    /\ lockTakers' = lockTakers \ {r}

\* The finally block of startSession deletes the lock of those who took it.
Finish(r) ==
    IF r \in lockTakers
    THEN EntryGoto(r, "release") /\ UNCHANGED <<lockTakers, last, usedAttempts>>
    ELSE Return(r)

-------------------------------------------------------------------------------
(* The checks of a course-linked exam.                                     *)

Enter(r) ==
    /\ entering[r] = "idle"
    /\ entries < MaxEntries
    /\ entries' = entries + 1
    /\ EntryGoto(r, IF linked THEN "checkActive" ELSE "lock")
    /\ UNCHANGED <<sessions, startLock, advisory, lockTakers, last, usedAttempts, target,
                   reopens, entryCrashes, linked>>

\* An active attempt is resumable, however many were used.
CheckActive(r) ==
    /\ entering[r] = "checkActive"
    /\ IF LiveSessions # {}
       THEN EntryGoto(r, "lock") /\ UNCHANGED <<last, usedAttempts>>
       ELSE /\ EntryGoto(r, "check")
            /\ last' = [last EXCEPT ![r] = Pending]
            /\ usedAttempts' = [usedAttempts EXCEPT ![r] = Unread]
    /\ UNCHANGED <<sessions, startLock, advisory, lockTakers, target, entries,
                   reopens, entryCrashes, linked>>

\* Two queries sent together, answered in either order.
CheckLatest(r) ==
    /\ entering[r] = "check"
    /\ last[r] = Pending
    /\ \E latest \in Latest : last' = [last EXCEPT ![r] = latest]
    /\ UNCHANGED <<sessions, startLock, advisory, entering, lockTakers, usedAttempts, target,
                   entries, reopens, entryCrashes, linked>>

CountAttempts(r) ==
    /\ entering[r] = "check"
    /\ usedAttempts[r] = Unread
    /\ usedAttempts' = [usedAttempts EXCEPT ![r] = Cardinality(Ended)]
    /\ UNCHANGED <<sessions, startLock, advisory, entering, lockTakers, last, target, entries,
                   reopens, entryCrashes, linked>>

Admitted(r) ==
    \/ last[r].status = "IN_PROGRESS"
    \/ ~last[r].passed /\ usedAttempts[r] < MaxAttempts

\* ALREADY_PASSED, NO_ATTEMPTS_LEFT, or the cooldown since the last attempt.
Admit(r) ==
    /\ entering[r] = "check"
    /\ last[r] # Pending /\ usedAttempts[r] # Unread
    /\ \/ Admitted(r) /\ EntryGoto(r, "lock") /\ UNCHANGED <<lockTakers, last, usedAttempts>>
       \/ ~Admitted(r) /\ Return(r)
       \/ last[r].status \in {"COMPLETED", "TERMINATED"} /\ Return(r)
    /\ UNCHANGED <<sessions, startLock, advisory, target, entries,
                   reopens, entryCrashes, linked>>

-------------------------------------------------------------------------------
(* startSession.                                                           *)

AcquireStartLock(r) ==
    /\ entering[r] = "lock"
    /\ startLock = NoOne
    /\ startLock' = r
    /\ lockTakers' = lockTakers \cup {r}
    /\ EntryGoto(r, "read")
    /\ UNCHANGED <<sessions, advisory, last, usedAttempts, target, entries,
                   reopens, entryCrashes, linked>>

\* After 25 tries: proceed without the lock.
GiveUpLock(r) ==
    /\ entering[r] = "lock"
    /\ startLock # NoOne
    /\ startLock = Nobody \/ StartMayBeSlow
    /\ EntryGoto(r, "read")
    /\ UNCHANGED <<sessions, startLock, advisory, lockTakers, last, usedAttempts, target,
                   entries, reopens, entryCrashes, linked>>

\* A linked exam starts the next attempt after any ended one, a standalone exam
\* only its first; otherwise the latest is resumed, returned or refused.
StartsAttempt(latest) ==
    IF linked THEN latest.status # "IN_PROGRESS" ELSE latest.status = "NONE"

ReadLatest(r) ==
    /\ entering[r] = "read"
    /\ \E latest \in Latest :
          IF StartsAttempt(latest)
          THEN /\ last' = [last EXCEPT ![r] = latest]
               /\ EntryGoto(r, "create")
               /\ UNCHANGED <<lockTakers, usedAttempts>>
          ELSE Finish(r)
    /\ UNCHANGED <<sessions, startLock, advisory, target, entries,
                   reopens, entryCrashes, linked>>

CreatesAnyway == TRUE
NoneActive == LiveSessions = {}

FindActiveHolding(r) ==
    /\ entering[r] = "create"
    /\ advisory = NoOne
    /\ advisory' = r
    /\ IF NoneActive THEN EntryGoto(r, "insert") /\ UNCHANGED <<lockTakers, last, usedAttempts>>
       ELSE Finish(r)
    /\ UNCHANGED <<sessions, startLock, target, entries, reopens, entryCrashes, linked>>

\* createSessionOnce, holding the advisory lock: return an active session ...
FindActive(r) ==
    /\ entering[r] = "create"
    /\ advisory = NoOne
    /\ IF NoneActive
       THEN /\ advisory' = r
            /\ EntryGoto(r, "insert")
            /\ UNCHANGED <<lockTakers, last, usedAttempts>>
       ELSE Finish(r) /\ UNCHANGED advisory
    /\ UNCHANGED <<sessions, startLock, target, entries, reopens, entryCrashes, linked>>

\* ... or insert one, and commit.
InsertSession(r) ==
    /\ entering[r] = "insert"
    /\ sessions' = Append(sessions, [status |-> "IN_PROGRESS",
                                     attempt |-> NextAttempt(last[r]),
                                     passed |-> FALSE])
    /\ advisory' = NoOne
    /\ Finish(r)
    /\ UNCHANGED <<startLock, target, entries, reopens, entryCrashes, linked>>

\* An unconditional DEL, whoever holds the lock by now.
ReleaseStartLock(r) ==
    /\ entering[r] = "release"
    /\ startLock' = NoOne
    /\ Return(r)
    /\ UNCHANGED <<sessions, advisory, target, entries, reopens, entryCrashes, linked>>

ExpireStartLock ==
    /\ startLock # NoOne
    /\ startLock = Nobody \/ LockMayExpire
    /\ startLock' = NoOne
    /\ UNCHANGED <<sessions, advisory, requestVars, target, entries,
                   reopens, entryCrashes, linked>>

\* A query fails or the transaction times out: the finally block still runs.
EntryFails(r) ==
    /\ entering[r] \notin {"idle", "release"}
    /\ advisory' = IF advisory = r THEN NoOne ELSE advisory
    /\ Finish(r)
    /\ UNCHANGED <<sessions, startLock, target, entries, reopens, entryCrashes, linked>>

\* A crash, or a DEL that fails: the lock outlives its holder.
CrashEntry(r) ==
    /\ entering[r] # "idle"
    /\ entryCrashes < MaxEntryCrashes
    /\ entryCrashes' = entryCrashes + 1
    /\ startLock' = IF startLock = r THEN Nobody ELSE startLock
    /\ advisory' = IF advisory = r THEN NoOne ELSE advisory
    /\ Return(r)
    /\ UNCHANGED <<sessions, target, entries, reopens, linked>>

-------------------------------------------------------------------------------
(* What happens to the sessions meanwhile.                                 *)

SetStatus(i, status, passed) ==
    sessions' = [sessions EXCEPT ![i].status = status, ![i].passed = passed]

EndSession(i) ==
    /\ i \in LiveSessions
    /\ \/ \E passed \in BOOLEAN : SetStatus(i, "COMPLETED", passed)
       \/ SetStatus(i, "TERMINATED", FALSE)
    /\ UNCHANGED <<startLock, advisory, requestVars, target, entries,
                   reopens, entryCrashes, linked>>

Terminated == {i \in SessionRows : sessions[i].status = "TERMINATED"}

\* unterminateExamSession reads the latest terminated session ...
FindTerminated ==
    /\ target = 0
    /\ reopens < MaxReopens
    /\ \E i \in Terminated :
          (\A j \in Terminated : j <= i) /\ target' = i
    /\ reopens' = reopens + 1
    /\ UNCHANGED <<sessions, startLock, advisory, requestVars, entries, entryCrashes, linked>>

\* ... and reopens it in one UPDATE, unless some session is live.
ReopenTerminated ==
    /\ target # 0
    /\ IF target \in Terminated /\ LiveSessions = {}
       THEN SetStatus(target, "IN_PROGRESS", FALSE)
       ELSE UNCHANGED sessions
    /\ target' = 0
    /\ UNCHANGED <<startLock, advisory, requestVars, entries, reopens, entryCrashes, linked>>

-------------------------------------------------------------------------------
EntryStep(r) ==
    \/ CheckActive(r)
    \/ CheckLatest(r)
    \/ CountAttempts(r)
    \/ Admit(r)
    \/ AcquireStartLock(r)
    \/ GiveUpLock(r)
    \/ ReadLatest(r)
    \/ FindActive(r)
    \/ InsertSession(r)
    \/ ReleaseStartLock(r)

EntryNext ==
    \/ \E r \in EntryRequests : Enter(r) \/ EntryStep(r) \/ EntryFails(r) \/ CrashEntry(r)
    \/ ExpireStartLock
    \/ \E i \in SessionRows : EndSession(i)
    \/ FindTerminated
    \/ ReopenTerminated

EntrySpec == EntryInit /\ [][EntryNext]_entryVars

\* A request runs on, and a dead holder's lock expires.
EntryFairSpec ==
    /\ EntrySpec
    /\ \A r \in EntryRequests : WF_entryVars(EntryStep(r))
    /\ WF_entryVars(startLock = Nobody /\ ExpireStartLock)

-------------------------------------------------------------------------------
(* Properties.                                                             *)

Labels == {"idle", "checkActive", "check", "lock", "read", "create", "insert", "release"}
SessionRow == [status : {"IN_PROGRESS", "COMPLETED", "TERMINATED"}, attempt : Nat,
               passed : BOOLEAN]

\* The types of the variables.
EntryTypeOK ==
    /\ sessions \in Seq(SessionRow)
    /\ startLock \in EntryRequests \cup {NoOne, Nobody}
    /\ advisory \in EntryRequests \cup {NoOne}
    /\ entering \in [EntryRequests -> Labels]
    /\ lockTakers \subseteq EntryRequests
    /\ last \in [EntryRequests -> SessionRow \cup {NoSession, Pending}]
    /\ usedAttempts \in [EntryRequests -> Nat]
    /\ linked \in BOOLEAN
    /\ target \in Nat
    /\ entries \in Nat /\ reopens \in Nat /\ entryCrashes \in Nat

\* A student never has two live sessions of an exam: their answers and sockets are
\* never forked, even when the Redis lock expires, is given up or is deleted by
\* somebody else (exam.service 747-754).
OneLiveSession == \A i, j \in LiveSessions : i = j

\* The attempts of a student are numbered in the order of their creation.
AttemptsNumbered == \A i \in SessionRows : sessions[i].attempt = i

\* A standalone exam is taken once (exam.service 1017-1023).
StandaloneOnce == linked \/ Len(sessions) <= 1

\* The attempts of an exam are those the student may have.
StartsNumbered == AttemptsNumbered /\ StandaloneOnce

\* An enter request is answered: nobody waits forever for either lock.
EntryReturns == \A r \in EntryRequests : []<>(entering[r] = "idle")

\* Whoever inserts holds the advisory lock, and nobody is live meanwhile.
InsertInv ==
    /\ \A r \in EntryRequests : entering[r] = "insert" => advisory = r
    /\ advisory # NoOne => LiveSessions = {}
    /\ OneLiveSession

\* Whoever starts holds the Redis lock, knows how many attempts there are, and
\* takes a standalone exam for the first time.
Starting(r) == entering[r] \in {"read", "create", "insert", "release"}

StartInv ==
    /\ startLock # Nobody
    /\ \A r \in EntryRequests : Starting(r) => startLock = r
    /\ \A r \in lockTakers : Starting(r)
    /\ \A r \in EntryRequests : entering[r] \in {"create", "insert"} =>
          last[r].attempt = Len(sessions) /\ (linked \/ sessions = <<>>)
    /\ AttemptsNumbered
    /\ StandaloneOnce

===============================================================================
