----------------------------- MODULE CodeRotation -----------------------------
(***************************************************************************)
(* The rotation of exams' test codes.  Each backend instance ticks; who    *)
(* gets the lock rotates the codes that are due, by a catalog of exams     *)
(* cached in Redis, guarded by the code the catalog names, while teachers  *)
(* edit the exams.  Of a code the model keeps whether it is still the      *)
(* exam's: a catalog entry is fresh until the exam's code changes, and a   *)
(* new code is unlike every older one.                                     *)
(***************************************************************************)
EXTENDS Naturals, FiniteSets

CONSTANTS
    Exams,
    Rotators,           \* backend instances
    Interval,           \* rotationInterval of every exam, in units of time
    CatalogTtl,         \* 300 s in the same unit
    LockMayLapse,       \* may a tick outlive the 20 s of its lock?
    MaxExamEdits,       \* bound on teachers' edits
    MaxRotationFaults   \* bound on exceptions, crashes and code collisions

ASSUME RotationAssumption ==
    /\ Interval \in Nat \ {0} /\ CatalogTtl \in Nat \ {0}
    /\ LockMayLapse \in BOOLEAN
    /\ MaxExamEdits \in Nat /\ MaxRotationFaults \in Nat

VARIABLES
    exam,       \* per exam: is it rotating, and the time since codeRotatedAt
    catalog,    \* the cached list: its age and entries
    rotationLock,   \* the instance that set the key, if there is one
    rotator,    \* the instances: step, snapshot of the list, exams left in the loop
    ticked,     \* instances that got the lock in this unit of time: their period is 30 s
    examEdits, rotationFaults,
    afterStop   \* history: rotations since the teacher made the code static

rotationVars == <<exam, catalog, rotationLock, rotator, ticked, examEdits, rotationFaults, afterStop>>

Unlisted == [listed |-> FALSE, age |-> 0, fresh |-> FALSE]
EmptyList == [e \in Exams |-> Unlisted]
NoCatalog == [cached |-> FALSE, age |-> 0, list |-> EmptyList]
Cached(list) == [cached |-> TRUE, age |-> 0, list |-> list]
Resting == [step |-> "idle", list |-> EmptyList, left |-> {}, changed |-> FALSE]

RotationInit ==
    /\ exam \in [Exams -> [rotating : BOOLEAN, age : {0}]]
    /\ catalog = NoCatalog
    /\ rotationLock = {}
    /\ rotator = [r \in Rotators |-> Resting]
    /\ ticked = {}
    /\ examEdits = 0 /\ rotationFaults = 0
    /\ afterStop = [e \in Exams |-> 0]

-------------------------------------------------------------------------------
(* Time.  A tick is over within a unit of it; ages are counted up to the   *)
(* interval.                                                               *)

Older(age) == IF age < Interval THEN age + 1 ELSE age
OlderList(list) ==
    [e \in Exams |-> IF list[e].listed THEN [list[e] EXCEPT !.age = Older(@)] ELSE Unlisted]
Ticking == {r \in Rotators : rotator[r].step # "idle"}

Expires(age) == age >= CatalogTtl

TimePasses ==
    /\ Ticking = {}
    /\ ticked' = {}
    /\ exam' = [e \in Exams |-> [exam[e] EXCEPT !.age = Older(@)]]
    /\ catalog' = IF ~catalog.cached \/ Expires(catalog.age + 1) THEN NoCatalog
                  ELSE [catalog EXCEPT !.age = @ + 1, !.list = OlderList(@)]
    /\ UNCHANGED <<rotationLock, rotator, examEdits, rotationFaults, afterStop>>

\* The key of a tick that is over, or of one that takes too long.
LockLapses ==
    /\ rotationLock # {}
    /\ LockMayLapse \/ rotationLock \cap Ticking = {}
    /\ rotationLock' = {}
    /\ UNCHANGED <<exam, catalog, rotator, ticked, examEdits, rotationFaults, afterStop>>

-------------------------------------------------------------------------------
(* rotateDueExamCodes.                                                     *)

AcquireRotationLock(r) ==
    /\ rotator[r].step = "idle" /\ r \notin ticked
    /\ rotationLock = {}
    /\ rotationLock' = {r}
    /\ ticked' = ticked \cup {r}
    /\ rotator' = [rotator EXCEPT ![r].step = "get"]
    /\ UNCHANGED <<exam, catalog, examEdits, rotationFaults, afterStop>>

ListedIn(list) == {e \in Exams : list[e].listed}

\* getRotatingExamCatalog: what is cached, however old.
GetCatalog(r) ==
    /\ rotator[r].step = "get"
    /\ rotator' = [rotator EXCEPT ![r] =
                     IF catalog.cached
                     THEN [@ EXCEPT !.step = "rotate", !.list = catalog.list,
                                    !.left = ListedIn(catalog.list)]
                     ELSE [@ EXCEPT !.step = "load"]]
    /\ UNCHANGED <<exam, catalog, rotationLock, ticked, examEdits, rotationFaults, afterStop>>

LoadExams(r) ==
    /\ rotator[r].step = "load"
    /\ rotator' = [rotator EXCEPT ![r].step = "fill",
                     ![r].list = [e \in Exams |->
                        IF exam[e].rotating
                        THEN [listed |-> TRUE, age |-> exam[e].age, fresh |-> TRUE]
                        ELSE Unlisted]]
    /\ UNCHANGED <<exam, catalog, rotationLock, ticked, examEdits, rotationFaults, afterStop>>

FillCatalog(r) ==
    /\ rotator[r].step = "fill"
    /\ catalog' = Cached(rotator[r].list)
    /\ rotator' = [rotator EXCEPT ![r].step = "rotate", ![r].left = ListedIn(rotator[r].list)]
    /\ UNCHANGED <<exam, rotationLock, ticked, examEdits, rotationFaults, afterStop>>

\* The entries of e that name the code it has no longer.
Outdated(list, e) == [list EXCEPT ![e].fresh = FALSE]

\* Mutant: the update is not guarded by the code.
MatchesAnyway(entry) == TRUE
Matches(entry) == entry.fresh

\* What the others keep of e once its code is a new one.
OutdatedElsewhere(e) ==
    /\ catalog' = [catalog EXCEPT !.list = Outdated(@, e)]
    /\ exam' = [exam EXCEPT ![e].age = 0]
    /\ afterStop' = [afterStop EXCEPT ![e] = IF exam[e].rotating THEN 0 ELSE @ + 1]

Rotated == [listed |-> TRUE, age |-> 0, fresh |-> TRUE]

\* rotateOneExamCode of an exam that is due: updateMany where the code is the listed one.
RotateExam(r, e) ==
    /\ rotator[r].step = "rotate" /\ e \in rotator[r].left
    /\ rotator[r].list[e].age >= Interval
    /\ Matches(rotator[r].list[e])
    /\ OutdatedElsewhere(e)
    /\ rotator' = [other \in Rotators |->
         IF other # r THEN [rotator[other] EXCEPT !.list = Outdated(@, e)]
         ELSE [rotator[r] EXCEPT !.list[e] = Rotated, !.left = @ \ {e}, !.changed = TRUE]]
    /\ UNCHANGED <<rotationLock, ticked, examEdits, rotationFaults>>

KeepEntry(r, e) ==
    /\ rotator[r].step = "rotate" /\ e \in rotator[r].left
    /\ rotator[r].list[e].age < Interval
    /\ rotator' = [rotator EXCEPT ![r].left = @ \ {e}]
    /\ UNCHANGED <<exam, catalog, rotationLock, ticked, examEdits, rotationFaults, afterStop>>

\* No row matched, or five new codes were in use: the exam leaves the list.
DropEntry(r, e) ==
    /\ rotator[r].step = "rotate" /\ e \in rotator[r].left
    /\ rotator[r].list[e].age >= Interval
    /\ IF Matches(rotator[r].list[e])
       THEN rotationFaults < MaxRotationFaults /\ rotationFaults' = rotationFaults + 1
       ELSE UNCHANGED rotationFaults
    /\ rotator' = [rotator EXCEPT ![r].list[e] = Unlisted, ![r].left = @ \ {e},
                                  ![r].changed = TRUE]
    /\ UNCHANGED <<exam, catalog, rotationLock, ticked, examEdits, afterStop>>

\* Mutant: every tick caches its list anew.
ChangedOrNot(r) == TRUE
Changed(r) == rotator[r].changed

\* A list that changed is cached anew, for the whole TTL.
StoreCatalog(r) ==
    /\ rotator[r].step = "rotate" /\ rotator[r].left = {}
    /\ catalog' = IF Changed(r) THEN Cached(rotator[r].list) ELSE catalog
    /\ rotator' = [rotator EXCEPT ![r].step = "unlock"]
    /\ UNCHANGED <<exam, rotationLock, ticked, examEdits, rotationFaults, afterStop>>

\* The finally block deletes the key, whoever set it; a DEL that fails is ignored.
ReleaseRotationLock(r) ==
    /\ rotator[r].step = "unlock"
    /\ \/ rotationLock' = {} /\ UNCHANGED rotationFaults
       \/ /\ rotationFaults < MaxRotationFaults /\ rotationFaults' = rotationFaults + 1
          /\ UNCHANGED rotationLock
    /\ rotator' = [rotator EXCEPT ![r] = Resting]
    /\ UNCHANGED <<exam, catalog, ticked, examEdits, afterStop>>

\* A call throws: what was rotated is not in the catalog.
TickFails(r) ==
    /\ rotator[r].step \notin {"idle", "unlock"}
    /\ rotationFaults < MaxRotationFaults /\ rotationFaults' = rotationFaults + 1
    /\ rotator' = [rotator EXCEPT ![r].step = "unlock"]
    /\ UNCHANGED <<exam, catalog, rotationLock, ticked, examEdits, afterStop>>

CrashRotator(r) ==
    /\ rotator[r].step # "idle"
    /\ rotationFaults < MaxRotationFaults /\ rotationFaults' = rotationFaults + 1
    /\ rotator' = [rotator EXCEPT ![r] = Resting]
    /\ UNCHANGED <<exam, catalog, rotationLock, ticked, examEdits, afterStop>>

\* updateExam: the code, the type or both; codeRotatedAt and the catalog stay.
EditExam(e) ==
    /\ examEdits < MaxExamEdits /\ examEdits' = examEdits + 1
    /\ \E rotating \in BOOLEAN, newCode \in BOOLEAN :
          /\ exam' = [exam EXCEPT ![e].rotating = rotating]
          /\ IF newCode
             THEN /\ catalog' = [catalog EXCEPT !.list = Outdated(@, e)]
                  /\ rotator' = [r \in Rotators |->
                                    [rotator[r] EXCEPT !.list = Outdated(@, e)]]
             ELSE UNCHANGED <<catalog, rotator>>
    /\ afterStop' = [afterStop EXCEPT ![e] = 0]
    /\ UNCHANGED <<rotationLock, ticked, rotationFaults>>

-------------------------------------------------------------------------------
RotatorStep(r) ==
    \/ AcquireRotationLock(r) \/ GetCatalog(r) \/ LoadExams(r) \/ FillCatalog(r)
    \/ \E e \in Exams : RotateExam(r, e) \/ KeepEntry(r, e) \/ DropEntry(r, e)
    \/ StoreCatalog(r) \/ ReleaseRotationLock(r)

RotationNext ==
    \/ TimePasses \/ LockLapses
    \/ \E r \in Rotators : RotatorStep(r) \/ TickFails(r) \/ CrashRotator(r)
    \/ \E e \in Exams : EditExam(e)

RotationSpec == RotationInit /\ [][RotationNext]_rotationVars

\* The timers of the instances fire, a tick goes on, and time passes.
RotationFairness ==
    /\ WF_rotationVars(TimePasses)
    /\ WF_rotationVars(LockLapses)
    /\ \A r \in Rotators : WF_rotationVars(RotatorStep(r))

RotationFairSpec == RotationSpec /\ RotationFairness

-------------------------------------------------------------------------------
(* Properties.                                                             *)

Entries == [listed : BOOLEAN, age : 0..Interval, fresh : BOOLEAN]
Lists == [Exams -> Entries]
RotatorStates ==
    [step : {"idle", "get", "load", "fill", "rotate", "unlock"},
     list : Lists, left : SUBSET Exams, changed : BOOLEAN]

\* The types of the variables.
RotationTypeOK ==
    /\ exam \in [Exams -> [rotating : BOOLEAN, age : 0..Interval]]
    /\ catalog \in [cached : BOOLEAN, age : 0..(CatalogTtl - 1), list : Lists]
    /\ rotator \in [Rotators -> RotatorStates]
    /\ rotationLock = {} \/ \E r \in Rotators : rotationLock = {r}
    /\ ticked \subseteq Rotators

\* What a catalog or an instance holds of an exam is its age as long as it is of its
\* code; an instance that rests holds nothing of it.
FreshEntries(list) == \A e \in Exams : list[e].fresh => list[e].age = exam[e].age
FreshInv ==
    /\ FreshEntries(catalog.list)
    /\ \A r \in Rotators : FreshEntries(rotator[r].list)
    /\ \A r \in Rotators : rotator[r].step = "idle" => \A e \in Exams : ~rotator[r].list[e].fresh

\* "Due time is based on when the code last actually rotated" (137): however many
\* instances tick on however old lists, no code is rotated before its interval is over.
NeverTooSoon ==
    [][\A e \in Exams : exam'[e].age < exam[e].age => exam[e].age >= Interval]_rotationVars

\* An exam the teacher made static is rotated once at most, by a list read before.
StaticSoon == \A e \in Exams : afterStop[e] <= 1

\* A rotating exam is rotated again and again: it comes back to the list "until the
\* cache naturally expires" (143) at the latest.
KeepsRotating == \A e \in Exams : []<>(exam[e].rotating => exam[e].age = 0)
===============================================================================
