---------------------------- MODULE ViolationQueue ----------------------------
(***************************************************************************)
(* The Go gateway's violation queue and its shutdown: event handlers admit *)
(* themselves under the read half of mu, put violations in a bounded       *)
(* channel without ever waiting, workers insert them, and Close stops the  *)
(* admission, waits (bounded) for the handlers, then for the workers to    *)
(* drain the channel.                                                      *)
(***************************************************************************)
EXTENDS Naturals, FiniteSets

CONSTANTS
    QueueHandlers,  \* handlers that can run at once (one per socket)
    Workers,        \* violationWorkers
    QueueCapacity,  \* capacity of the channel (4096)
    MaxQueueEvents  \* bound on the events that arrive

ASSUME QueueAssumption ==
    /\ IsFiniteSet(QueueHandlers) /\ IsFiniteSet(Workers) /\ Workers # {}
    /\ QueueCapacity \in Nat /\ MaxQueueEvents \in Nat

VARIABLES
    queued,     \* length of the channel
    handler,    \* where each handler is
    inserter,   \* where each worker is
    closing,    \* where Close is
    stopped,    \* the gateway's flag, guarded by mu
    stop,       \* the stop channel is closed
    abandoned,  \* Close went on after its drain timeout
    events,     \* events that arrived
    dropped,    \* violations refused by a full channel
    stored,     \* violations inserted
    failed      \* violations whose insert failed

queueVars == <<queued, handler, inserter, closing, stopped, stop, abandoned,
               events, dropped, stored, failed>>

At(label) == {h \in QueueHandlers : handler[h] = label}
InsertersAt(label) == {w \in Workers : inserter[w] = label}
\* handlers counted by the wait group
InFlight == At("running") \cup At("returning")

QueueInit ==
    /\ queued = 0
    /\ handler = [h \in QueueHandlers |-> "idle"]
    /\ inserter = [w \in Workers |-> "select"]
    /\ closing = "open"
    /\ stopped = FALSE /\ stop = FALSE /\ abandoned = FALSE
    /\ events = 0 /\ dropped = 0 /\ stored = 0 /\ failed = 0

MoveHandler(h, label) == handler' = [handler EXCEPT ![h] = label]
MoveInserter(w, label) == inserter' = [inserter EXCEPT ![w] = label]

-------------------------------------------------------------------------------
(* An event: RLock, check stopped, Add(1), RUnlock, handle, Done.          *)

NoWriter == closing # "locked"

AdmitEvent(h) ==
    /\ handler[h] = "idle"
    /\ NoWriter
    /\ events < MaxQueueEvents
    /\ events' = events + 1
    /\ IF stopped THEN UNCHANGED handler        \* replied with an error
       ELSE MoveHandler(h, "admitted")
    /\ UNCHANGED <<queued, inserter, closing, stopped, stop, abandoned, dropped,
                   stored, failed>>

\* handlers.Add(1), then RUnlock.
StartHandler(h) ==
    /\ handler[h] = "admitted"
    /\ MoveHandler(h, "running")
    /\ UNCHANGED <<queued, inserter, closing, stopped, stop, abandoned, events,
                   dropped, stored, failed>>

\* A select with a default: the violation is queued or dropped at once.
EnqueueViolation(h) ==
    /\ handler[h] = "running"
    /\ IF queued < QueueCapacity
       THEN queued' = queued + 1 /\ UNCHANGED dropped
       ELSE dropped' = dropped + 1 /\ UNCHANGED queued
    /\ MoveHandler(h, "returning")
    /\ UNCHANGED <<inserter, closing, stopped, stop, abandoned, events, stored, failed>>

\* handlers.Done, of a handler that had or had not a violation to log.
ReturnHandler(h) ==
    /\ h \in InFlight
    /\ MoveHandler(h, "idle")
    /\ UNCHANGED <<queued, inserter, closing, stopped, stop, abandoned, events,
                   dropped, stored, failed>>

HandlerStep(h) == StartHandler(h) \/ EnqueueViolation(h) \/ ReturnHandler(h)

-------------------------------------------------------------------------------
(* violationWorker and insertViolation.                                    *)

\* Either loop takes the next violation.
TakeViolation(w) ==
    /\ queued > 0
    /\ \/ inserter[w] = "select" /\ MoveInserter(w, "inserting")
       \/ inserter[w] = "drain" /\ MoveInserter(w, "insertingLast")
    /\ queued' = queued - 1
    /\ UNCHANGED <<handler, closing, stopped, stop, abandoned, events, dropped,
                   stored, failed>>

SeeStop(w) ==
    /\ inserter[w] = "select"
    /\ stop
    /\ MoveInserter(w, "drain")
    /\ UNCHANGED <<queued, handler, closing, stopped, stop, abandoned, events,
                   dropped, stored, failed>>

\* Mutant: a worker leaves what is queued when it sees stop.
WorkerStops(w) ==
    /\ inserter[w] = "drain"
    /\ MoveInserter(w, "done")
    /\ UNCHANGED <<queued, handler, closing, stopped, stop, abandoned, events, dropped,
                   stored, failed>>

WorkerDone(w) ==
    /\ inserter[w] = "drain"
    /\ queued = 0
    /\ MoveInserter(w, "done")
    /\ UNCHANGED <<queued, handler, closing, stopped, stop, abandoned, events,
                   dropped, stored, failed>>

\* Mutant: a failed insert is put back.
InsertOrRequeue(w) ==
    /\ \/ inserter[w] = "inserting" /\ MoveInserter(w, "select")
       \/ inserter[w] = "insertingLast" /\ MoveInserter(w, "drain")
    /\ \/ stored' = stored + 1 /\ UNCHANGED queued
       \/ queued' = queued + 1 /\ UNCHANGED stored
    /\ UNCHANGED <<handler, closing, stopped, stop, abandoned, events, dropped, failed>>

\* A failed or timed out insert is logged, not retried.
InsertViolation(w) ==
    /\ \/ inserter[w] = "inserting" /\ MoveInserter(w, "select")
       \/ inserter[w] = "insertingLast" /\ MoveInserter(w, "drain")
    /\ \/ stored' = stored + 1 /\ UNCHANGED failed
       \/ failed' = failed + 1 /\ UNCHANGED stored
    /\ UNCHANGED <<queued, handler, closing, stopped, stop, abandoned, events, dropped>>

InserterStep(w) == TakeViolation(w) \/ SeeStop(w) \/ WorkerDone(w) \/ InsertViolation(w)

-------------------------------------------------------------------------------
(* Close.                                                                  *)

LockStopped ==
    /\ closing = "open"
    /\ At("admitted") = {}
    /\ closing' = "locked"
    /\ stopped' = TRUE
    /\ UNCHANGED <<queued, handler, inserter, stop, abandoned, events, dropped,
                   stored, failed>>

UnlockStopped ==
    /\ closing = "locked"
    /\ closing' = "waiting"
    /\ UNCHANGED <<queued, handler, inserter, stopped, stop, abandoned, events,
                   dropped, stored, failed>>

\* Mutant: the handlers are not waited for.
CloseStopAtOnce ==
    /\ closing = "waiting"
    /\ stop' = TRUE
    /\ closing' = "draining"
    /\ UNCHANGED <<queued, handler, inserter, stopped, abandoned, events, dropped, stored,
                   failed>>

\* The handlers are done, or the drain timeout fires; then stop is closed.
CloseStop ==
    /\ closing = "waiting"
    /\ \/ InFlight = {} /\ UNCHANGED abandoned
       \/ InFlight # {} /\ abandoned' = TRUE
    /\ stop' = TRUE
    /\ closing' = "draining"
    /\ UNCHANGED <<queued, handler, inserter, stopped, events, dropped, stored, failed>>

WaitWorkers ==
    /\ closing = "draining"
    /\ InsertersAt("done") = Workers
    /\ closing' = "closed"
    /\ UNCHANGED <<queued, handler, inserter, stopped, stop, abandoned, events,
                   dropped, stored, failed>>

CloseStep == UnlockStopped \/ CloseStop \/ WaitWorkers

-------------------------------------------------------------------------------
QueueNext ==
    \/ \E h \in QueueHandlers : AdmitEvent(h) \/ HandlerStep(h)
    \/ \E w \in Workers : InserterStep(w)
    \/ LockStopped
    \/ CloseStep

QueueSpec == QueueInit /\ [][QueueNext]_queueVars

\* Goroutines are scheduled. No handler need arrive, and Close need not be called.
QueueFairness ==
    /\ \A h \in QueueHandlers : WF_queueVars(HandlerStep(h))
    /\ \A w \in Workers : WF_queueVars(InserterStep(w))
    /\ WF_queueVars(CloseStep)

QueueFairSpec == QueueSpec /\ QueueFairness

-------------------------------------------------------------------------------
(* Properties.                                                             *)

\* The types of the variables.
QueueTypeOK ==
    /\ queued \in 0..QueueCapacity
    /\ handler \in [QueueHandlers -> {"idle", "admitted", "running", "returning"}]
    /\ inserter \in [Workers -> {"select", "inserting", "drain", "insertingLast", "done"}]
    /\ closing \in {"open", "locked", "waiting", "draining", "closed"}
    /\ {stopped, stop, abandoned} \subseteq BOOLEAN
    /\ {events, dropped, stored, failed} \subseteq Nat

Inserting == InsertersAt("inserting") \cup InsertersAt("insertingLast")

\* "Close ... returns once every queued violation is written" (gateway.go 109-110):
\* when it has returned, no violation is in the channel or in the hands of a worker,
\* and no handler that could add one runs, unless the drain timeout fired.
CloseDrains ==
    closing = "closed" /\ ~abandoned =>
        queued = 0 /\ Inserting = {} /\ InFlight = {} /\ At("admitted") = {}

\* A shutdown ends, whatever handlers and inserts do (main.go 100-107).
CloseReturns == []<>(closing \in {"open", "closed"})

\* Before Close stops the workers, whoever is admitted is waited for; a worker is
\* done only when nothing can be queued any more.
ShutdownInv ==
    /\ stopped <=> closing # "open"
    /\ stop <=> closing \in {"draining", "closed"}
    /\ closing # "open" => At("admitted") = {}
    /\ stop /\ ~abandoned => InFlight = {}
    /\ abandoned => stop
    /\ \A w \in Workers : inserter[w] \in {"drain", "insertingLast", "done"} => stop
    /\ (\E w \in Workers : inserter[w] = "done") /\ ~abandoned => queued = 0
    /\ closing = "closed" => InsertersAt("done") = Workers

\* The queue keeps the promise of the log.
Log == INSTANCE ViolationLog WITH
    pending <- queued + Cardinality(Inserting),
    written <- stored,
    lost <- failed,
    abandoned <- abandoned,
    closed <- closing = "closed"

LogSafety == Log!Safety
LogSpec == Log!Spec
===============================================================================
