------------------------------ MODULE Violations ------------------------------
(***************************************************************************)
(* Tab switches of one exam session, at the NestJS or the Go gateway: each *)
(* log_violation event checks the session's status through a 60 s cache,   *)
(* has a Violation row inserted in the background, counts the switch in a  *)
(* Redis counter rebuilt from the rows when it is missing, and ends the    *)
(* session when the exam's limit is reached, while the student submits and *)
(* a teacher terminates and reopens the session.                           *)
(***************************************************************************)
EXTENDS Naturals

CONSTANTS
    Events,         \* log_violation handlers that can run at once
    SwitchLimit,    \* the exam's tabSwitchLimit, 0 for none
    RebuildsBoth,   \* which gateways: TRUE (Go) rebuilds a counter that is present
                    \* along with the missing one, FALSE (NestJS) writes it back
    MaxSwitches,    \* bound on the events
    MaxTeacherActs,  \* bound on terminations and reopenings by the teacher
    MaxExpiries     \* bound on counters expiring, and on failing handlers

ASSUME ViolationsAssumption ==
    /\ {SwitchLimit, MaxSwitches, MaxTeacherActs, MaxExpiries} \subseteq Nat
    /\ RebuildsBoth \subseteq BOOLEAN

VARIABLES
    status,         \* the ExamSession row
    statusCache,    \* session:status, or None
    violationRows,  \* Violation rows of each direction
    inserts,        \* inserts on their way
    counter,        \* violation:count:in and :out, or Missing
    event,          \* where each handler is
    direction,      \* the type of its event
    counted,        \* the status, then the counts, it has read
    teacher,        \* what the teacher's request is about to do
    rebuildsBoth,   \* the gateway the student is connected to; it never changes
    switchEvents, teacherActs, expiries,
    \* What the properties talk about:
    switches,       \* TAB_SWITCH_INs counted since the counters were last reset
    reopened,       \* has the teacher reopened the session?
    stale,          \* handlers that already ran when it was
    tainted,        \* did one of them write a counter or the cache, or a counter expire?
    lost,           \* was a switch uncounted by a rebuild, an expiry or a failure?
    terminations,   \* sessions ended by the limit
    kicks           \* students kicked for it

handlerVars == <<event, direction, counted>>
violationHistory == <<switches, reopened, stale, tainted, lost, terminations, kicks>>
boundVars == <<rebuildsBoth, switchEvents, teacherActs, expiries>>
violationVars == <<status, statusCache, violationRows, inserts, counter, teacher,
                   handlerVars, boundVars, violationHistory>>

None == "NONE"
NoCounter == 2 * MaxSwitches + 1    \* more than the rows and the switches can count
Directions == {"in", "out"}
Nothing == [d \in Directions |-> 0]
Inactive(s) == s \in {"COMPLETED", "TERMINATED"}

ViolationInit ==
    /\ status = "IN_PROGRESS"
    /\ statusCache = None
    /\ violationRows = Nothing /\ inserts = Nothing
    /\ counter = [d \in Directions |-> NoCounter]
    /\ event = [h \in Events |-> "idle"]
    /\ direction = [h \in Events |-> "in"]
    /\ counted = [h \in Events |-> Nothing]
    /\ teacher = "idle"
    /\ rebuildsBoth \in RebuildsBoth
    /\ switchEvents = 0 /\ teacherActs = 0 /\ expiries = 0
    /\ switches = 0 /\ reopened = FALSE /\ stale = {}
    /\ tainted = FALSE /\ lost = FALSE
    /\ terminations = 0 /\ kicks = 0

\* What was read is forgotten once it is used.
ToStep(h, label) ==
    /\ event' = [event EXCEPT ![h] = label]
    /\ counted' = [counted EXCEPT ![h] = Nothing]
    /\ UNCHANGED <<direction, stale>>

AnswerViolation(h) ==
    /\ event' = [event EXCEPT ![h] = "idle"]
    /\ direction' = [direction EXCEPT ![h] = "in"]
    /\ counted' = [counted EXCEPT ![h] = Nothing]
    /\ stale' = stale \ {h}

Taints(h) == tainted' = (tainted \/ h \in stale)

-------------------------------------------------------------------------------
(* handleLogViolation: the status.                                         *)

\* The row is inserted in the background (Go: by the violation queue).
Accept(h) ==
    /\ inserts' = [inserts EXCEPT ![direction[h]] = @ + 1]
    /\ ToStep(h, "counts")

\* An event arrives; the cached status is read first.
LogViolation(h) ==
    /\ event[h] = "idle"
    /\ switchEvents < MaxSwitches
    /\ switchEvents' = switchEvents + 1
    /\ \E d \in Directions :
          \/ /\ statusCache = None
             /\ event' = [event EXCEPT ![h] = "load"]
             /\ direction' = [direction EXCEPT ![h] = d]
             /\ UNCHANGED inserts
          \/ /\ Inactive(statusCache)
             /\ UNCHANGED <<event, direction, inserts>>
          \/ /\ statusCache = "IN_PROGRESS"
             /\ event' = [event EXCEPT ![h] = "counts"]
             /\ direction' = [direction EXCEPT ![h] = d]
             /\ inserts' = [inserts EXCEPT ![d] = @ + 1]
    /\ UNCHANGED <<status, statusCache, violationRows, counter, counted, teacher, rebuildsBoth,
                   teacherActs, expiries, violationHistory>>

LoadStatus(h) ==
    /\ event[h] = "load"
    /\ counted' = [counted EXCEPT ![h] = [status |-> status]]
    /\ event' = [event EXCEPT ![h] = "cache"]
    /\ UNCHANGED <<status, statusCache, violationRows, inserts, counter, direction, teacher,
                   boundVars, violationHistory>>

CacheStatus(h) ==
    /\ event[h] = "cache"
    /\ statusCache' = counted[h].status
    /\ IF Inactive(counted[h].status)
       THEN AnswerViolation(h) /\ UNCHANGED inserts
       ELSE Accept(h)
    /\ Taints(h)
    /\ UNCHANGED <<status, violationRows, counter, teacher, boundVars, switches, reopened,
                   lost, terminations, kicks>>

InsertRowTwice(d) ==
    /\ inserts[d] > 0
    /\ violationRows' = [violationRows EXCEPT ![d] = @ + 1]
    /\ UNCHANGED <<status, statusCache, inserts, counter, teacher, handlerVars, boundVars,
                   violationHistory>>

\* Sooner or later, or never: it fails, or the Go gateway's queue was full.
InsertRow(d) ==
    /\ inserts[d] > 0
    /\ inserts' = [inserts EXCEPT ![d] = @ - 1]
    /\ violationRows' = [violationRows EXCEPT ![d] = @ + 1]
    /\ UNCHANGED <<status, statusCache, counter, teacher, handlerVars, boundVars,
                   violationHistory>>

-------------------------------------------------------------------------------
(* getViolationCounts and incrementViolationCounter.                       *)

ReadCounts(h) ==
    /\ event[h] = "counts"
    /\ IF \E d \in Directions : counter[d] = NoCounter
       THEN /\ counted' = [counted EXCEPT ![h] = counter]
            /\ event' = [event EXCEPT ![h] = "count"]
            /\ UNCHANGED <<direction, stale>>
       ELSE ToStep(h, "increment")
    /\ UNCHANGED <<status, statusCache, violationRows, inserts, counter, teacher, boundVars,
                   switches, reopened, tainted, lost, terminations, kicks>>

CountRows(h) ==
    /\ event[h] = "count"
    /\ counted' = [counted EXCEPT ![h] = [d \in Directions |->
                          IF rebuildsBoth \/ counted[h][d] = NoCounter
                           THEN violationRows[d]
                           ELSE counted[h][d]]]
    /\ event' = [event EXCEPT ![h] = "store"]
    /\ UNCHANGED <<status, statusCache, violationRows, inserts, counter, direction, teacher,
                   boundVars, violationHistory>>

\* Both counters are set, whatever happened to them since they were read.
StoreCounts(h) ==
    /\ event[h] = "store"
    /\ counter' = counted[h]
    /\ ToStep(h, "increment")
    /\ Taints(h)
    /\ lost' = (lost \/ (counter["in"] # NoCounter /\ counted[h]["in"] < counter["in"]))
    /\ UNCHANGED <<status, statusCache, violationRows, inserts, teacher, boundVars, switches,
                   reopened, terminations, kicks>>

Counted(h) == IF counter[direction[h]] = NoCounter THEN 1 ELSE counter[direction[h]] + 1

ExceedsLimitLate(h) ==
    direction[h] = "in" /\ SwitchLimit > 0 /\ Counted(h) > SwitchLimit

ExceedsLimit(h) ==
    direction[h] = "in" /\ SwitchLimit > 0 /\ Counted(h) >= SwitchLimit

IncrementCounter(h) ==
    /\ event[h] = "increment"
    /\ counter' = [counter EXCEPT ![direction[h]] = Counted(h)]
    /\ switches' = IF direction[h] = "in" THEN switches + 1 ELSE switches
    /\ IF ExceedsLimit(h) THEN ToStep(h, "terminate") ELSE AnswerViolation(h)
    /\ Taints(h)
    /\ UNCHANGED <<status, statusCache, violationRows, inserts, teacher, boundVars, reopened,
                   lost, terminations, kicks>>

-------------------------------------------------------------------------------
(* The limit is reached.                                                   *)

\* One UPDATE, guarded on IN_PROGRESS.
Terminate(h) ==
    /\ event[h] = "terminate"
    /\ IF status = "IN_PROGRESS"
       THEN /\ status' = "TERMINATED"
            /\ terminations' = terminations + 1
            /\ ToStep(h, "cacheTerminated")
       ELSE ToStep(h, "dropCache") /\ UNCHANGED <<status, terminations>>
    /\ UNCHANGED <<statusCache, violationRows, inserts, counter, teacher, boundVars, switches,
                   reopened, tainted, lost, kicks>>

DropCache(h) ==
    /\ event[h] = "dropCache"
    /\ statusCache' = None
    /\ AnswerViolation(h)
    /\ UNCHANGED <<status, violationRows, inserts, counter, teacher, boundVars, switches,
                   reopened, tainted, lost, terminations, kicks>>

CacheTerminated(h) ==
    /\ event[h] = "cacheTerminated"
    /\ statusCache' = "TERMINATED"
    /\ ToStep(h, "kick")
    /\ Taints(h)
    /\ UNCHANGED <<status, violationRows, inserts, counter, teacher, boundVars, switches,
                   reopened, lost, terminations, kicks>>

\* The student is told and disconnected.
ForceTerminate(h) ==
    /\ event[h] = "kick"
    /\ kicks' = kicks + 1
    /\ AnswerViolation(h)
    /\ UNCHANGED <<status, statusCache, violationRows, inserts, counter, teacher, boundVars,
                   switches, reopened, tainted, lost, terminations>>

HandleEvent(h) ==
    \/ LoadStatus(h) \/ CacheStatus(h)
    \/ ReadCounts(h) \/ CountRows(h) \/ StoreCounts(h) \/ IncrementCounter(h)
    \/ Terminate(h) \/ DropCache(h) \/ CacheTerminated(h) \/ ForceTerminate(h)

\* Redis or Postgres fails: the event is answered with an error.
EventFails(h) ==
    /\ event[h] # "idle"
    /\ expiries < MaxExpiries
    /\ expiries' = expiries + 1
    /\ lost' = TRUE
    /\ AnswerViolation(h)
    /\ UNCHANGED <<status, statusCache, violationRows, inserts, counter, teacher, rebuildsBoth,
                   switchEvents, teacherActs, switches, reopened, tainted,
                   terminations, kicks>>

-------------------------------------------------------------------------------
(* Meanwhile.                                                              *)

ExpireStatus ==
    /\ statusCache # None
    /\ statusCache' = None
    /\ UNCHANGED <<status, violationRows, inserts, counter, teacher, handlerVars, boundVars,
                   violationHistory>>

ExpireCounter(d) ==
    /\ counter[d] # NoCounter
    /\ expiries < MaxExpiries
    /\ expiries' = expiries + 1
    /\ counter' = [counter EXCEPT ![d] = NoCounter]
    /\ tainted' = TRUE
    /\ lost' = TRUE
    /\ UNCHANGED <<status, statusCache, violationRows, inserts, teacher, handlerVars,
                   rebuildsBoth, switchEvents, teacherActs, switches, reopened, stale,
                   terminations, kicks>>

\* The session is completed; the cached status is left to expire.
Submit ==
    /\ status = "IN_PROGRESS"
    /\ status' = "COMPLETED"
    /\ UNCHANGED <<statusCache, violationRows, inserts, counter, teacher, handlerVars, boundVars,
                   violationHistory>>

TeacherActs(from, to) ==
    /\ teacher = from
    /\ teacher' = to
    /\ UNCHANGED <<violationRows, inserts, handlerVars, rebuildsBoth, switchEvents, expiries,
                   lost, terminations, kicks>>

\* terminateExamSession: the live sessions are ended, then their cached status dropped.
TeacherTerminates ==
    /\ TeacherActs("idle", "clear")
    /\ status = "IN_PROGRESS"
    /\ teacherActs < MaxTeacherActs
    /\ teacherActs' = teacherActs + 1
    /\ status' = "TERMINATED"
    /\ UNCHANGED <<statusCache, counter, switches, reopened, stale, tainted>>

TeacherClears ==
    /\ TeacherActs("clear", "idle")
    /\ statusCache' = None
    /\ UNCHANGED <<status, counter, teacherActs, switches, reopened, stale, tainted>>

\* unterminateExamSession: the session is reopened in one UPDATE ...
Reopen ==
    /\ TeacherActs("idle", "reset")
    /\ status = "TERMINATED"
    /\ teacherActs < MaxTeacherActs
    /\ teacherActs' = teacherActs + 1
    /\ status' = "IN_PROGRESS"
    /\ UNCHANGED <<statusCache, counter, switches, reopened, stale, tainted>>

DeleteCounters ==
    /\ TeacherActs("reset", "idle")
    /\ statusCache' = None
    /\ counter' = [d \in Directions |-> NoCounter]
    /\ switches' = 0
    /\ reopened' = TRUE
    /\ stale' = {h \in Events : event[h] # "idle"}
    /\ tainted' = FALSE
    /\ UNCHANGED <<status, teacherActs>>

KeepStatusCache ==
    /\ TeacherActs("reset", "idle")
    /\ counter' = Nothing
    /\ switches' = 0
    /\ reopened' = TRUE
    /\ stale' = {h \in Events : event[h] # "idle"}
    /\ tainted' = FALSE
    /\ UNCHANGED <<status, statusCache, teacherActs>>

\* ... and one MULTI drops the cached status and sets both counters to 0.
ResetCounters ==
    /\ TeacherActs("reset", "idle")
    /\ statusCache' = None
    /\ counter' = Nothing
    /\ switches' = 0
    /\ reopened' = TRUE
    /\ stale' = {h \in Events : event[h] # "idle"}
    /\ tainted' = FALSE
    /\ UNCHANGED <<status, teacherActs>>

-------------------------------------------------------------------------------
ViolationNext ==
    \/ \E h \in Events : LogViolation(h) \/ HandleEvent(h) \/ EventFails(h)
    \/ \E d \in Directions : InsertRow(d) \/ ExpireCounter(d)
    \/ ExpireStatus
    \/ Submit
    \/ TeacherTerminates \/ TeacherClears
    \/ Reopen \/ ResetCounters

ViolationSpec == ViolationInit /\ [][ViolationNext]_violationVars

-------------------------------------------------------------------------------
(* Properties.                                                             *)

Statuses == {"IN_PROGRESS", "COMPLETED", "TERMINATED"}
Counts == [Directions -> 0 .. NoCounter]

\* The types of the variables.
ViolationTypeOK ==
    /\ status \in Statuses
    /\ statusCache \in Statuses \cup {None}
    /\ {violationRows, inserts, counter} \subseteq Counts
    /\ event \in [Events -> {"idle", "load", "cache", "counts", "count",
                             "store", "increment", "terminate", "dropCache",
                             "cacheTerminated", "kick"}]
    /\ direction \in [Events -> Directions]
    /\ counted \in [Events -> Counts \cup [status : Statuses]]
    /\ teacher \in {"idle", "clear", "reset"}
    /\ stale \subseteq Events
    /\ {rebuildsBoth, reopened, tainted, lost} \subseteq BOOLEAN
    /\ {switchEvents, teacherActs, expiries, switches, terminations, kicks} \subseteq Nat

\* A submitted session is never overwritten by a switch counted late, although the
\* cached status still says it is live (monitoring.gateway 811-817).
CompletedStays == [][status = "COMPLETED" => status' = "COMPLETED"]_violationVars

\* Nobody is kicked for a termination that did not happen (monitoring.gateway 829-833).
KicksAreEarned == kicks <= terminations

\* Once the switches reach the limit the session does not stay live: however events
\* interleave, one of their handlers saw the limit and ended it. It may be missed when
\* a rebuild overwrites a counter, a counter expires or a handler fails.
LimitEnforced ==
    /\ status = "IN_PROGRESS" /\ teacher = "idle" /\ ~lost /\ SwitchLimit > 0
    /\ \A h \in Events : event[h] = "idle"
    => switches < SwitchLimit

\* Sessions end, and students are kicked, for the switches they have made.
SwitchLimitKept == KicksAreEarned /\ LimitEnforced

\* A reopened student is not ended again before making as many switches as a new one
\* (teacher-exams.service 984-987), unless a handler from before the reset interferes.
FreshStart ==
    [][\A h \in Events :
          /\ event[h] = "terminate" /\ event'[h] = "cacheTerminated"
          /\ reopened /\ teacher = "idle" /\ ~tainted /\ h \notin stale
          => switches >= SwitchLimit]_violationVars

\* No handler ends a session that is submitted, or reopened since.
EndsOnlyWhenDue == CompletedStays /\ FreshStart

\* The gateway accepts the events of a reopened session: its cached status is not the
\* old one, unless a handler from before the reset wrote it.
ReopenedIsAccepted ==
    reopened /\ status = "IN_PROGRESS" /\ teacher = "idle" /\ ~tainted =>
        statusCache # "TERMINATED"

===============================================================================
