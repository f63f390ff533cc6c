------------------------------ MODULE AiCredits ------------------------------
(***************************************************************************)
(* The AI credits of one scope (an organization, or a teacher without one): *)
(* requests reserve credits against the plan's monthly limit, charge model *)
(* calls and release the reservation.  The usage rows in Postgres are the  *)
(* ledger; a counter per month in Redis caches their sum and is rebuilt    *)
(* from them when it is missing.  A model call costs one credit; the calls *)
(* of one request are charged one after the other.                         *)
(***************************************************************************)
EXTENDS Integers, FiniteSets

CONSTANTS
    Requests,        \* requests that use credits: chats, jobs, question operations
    CreditLimit,     \* the plan's aiCreditsPerMonth
    Estimate,        \* credits a request reserves
    EvictionMayRace, \* may Redis lose a counter under a request's steps on it?
    MaxCalls,        \* bound on the model calls of a request
    MaxMonths,       \* bound on the months
    MaxFails,        \* bound on exceptions thrown by Redis or Postgres
    MaxCrashes,      \* bound on crashes of the process of a request
    MaxEvictions     \* bound on counters lost by Redis

ASSUME CreditsAssumption == IsFiniteSet(Requests)

ASSUME CreditBoundsAssumption ==
    /\ EvictionMayRace \in BOOLEAN
    /\ Estimate \in Nat \ {0} /\ MaxMonths \in Nat \ {0}
    /\ {CreditLimit, MaxCalls, MaxFails, MaxCrashes, MaxEvictions} \subseteq Nat

VARIABLES
    now,        \* the month
    used,       \* ai:credits:used:<scope>:<month>
    live,       \* requests with a reservation in ai:credits:res:<scope>:<month>
    rows,       \* the AiUsage rows: request, number of the call, month of createdAt
    pc, period, \* the requests, and the month of their reservations
    seen,       \* the sum ensureCounter has read
    calls,      \* how many calls they have made
    charging,   \* requests that have inserted a row and not counted it yet
    fails, crashes, evictions,
    uncounted,  \* history: rows that a failure has kept from the counter
    unreserved  \* history: rows inserted or counted without a reservation for them

creditVars == <<now, used, live, rows, pc, period, seen, calls, charging, fails,
                crashes, evictions, uncounted, unreserved>>

Months == 1..MaxMonths
Missing == -1

Init ==
    /\ now = 1
    /\ used = [m \in Months |-> Missing]
    /\ live = {} /\ rows = {} /\ charging = {}
    /\ pc = [r \in Requests |-> "idle"]
    /\ period = [r \in Requests |-> 0]
    /\ seen = [r \in Requests |-> 0]
    /\ calls = [r \in Requests |-> 0]
    /\ fails = 0 /\ crashes = 0 /\ evictions = 0
    /\ uncounted = {} /\ unreserved = {}

Goto(r, label) == pc' = [pc EXCEPT ![r] = label]

\* The row a request is charging.
Charged(r) == {x \in rows : x.request = r /\ x.call = calls[r] /\ r \in charging}

-------------------------------------------------------------------------------
(* ensureCounter, for a reservation or for a charge.                       *)

Begin(r) ==
    /\ pc[r] = "idle"
    /\ period' = [period EXCEPT ![r] = now]
    /\ Goto(r, "get")
    /\ UNCHANGED <<now, used, live, rows, seen, calls, charging, fails, crashes,
                   evictions, uncounted, unreserved>>

\* Where a request goes on with a counter.
Counter(r) == IF r \in charging THEN "count" ELSE "reserve"

GetCounter(r) ==
    /\ pc[r] = "get"
    /\ Goto(r, IF used[period[r]] = Missing THEN "aggregate" ELSE Counter(r))
    /\ UNCHANGED <<now, used, live, rows, period, seen, calls, charging, fails,
                   crashes, evictions, uncounted, unreserved>>

\* The ledger's rows of a month are those created in it.
Ledger(m) == {x \in rows : x.month = m}

LedgerSum(m) == Cardinality(Ledger(m))

Aggregate(r) ==
    /\ pc[r] = "aggregate"
    /\ seen' = [seen EXCEPT ![r] = LedgerSum(period[r])]
    /\ Goto(r, "set")
    /\ UNCHANGED <<now, used, live, rows, period, calls, charging, fails, crashes,
                   evictions, uncounted, unreserved>>

Overwrite(r) == seen[r]
SetIfMissing(r) == IF used[period[r]] = Missing THEN seen[r] ELSE used[period[r]]

SetCounter(r) ==
    /\ pc[r] = "set"
    /\ used' = [used EXCEPT ![period[r]] = SetIfMissing(r)]
    /\ Goto(r, Counter(r))
    /\ UNCHANGED <<now, live, rows, period, seen, calls, charging, fails, crashes,
                   evictions, uncounted, unreserved>>

-------------------------------------------------------------------------------
(* reserve, charge and release.                                            *)

\* What a script or INCRBY takes a missing counter for.
Value(m) == IF used[m] = Missing THEN 0 ELSE used[m]

UsedFits(m) == Value(m) + Estimate <= CreditLimit
Fits(m) ==
    Value(m) + Estimate * Cardinality({r \in live : period[r] = m}) + Estimate
        <= CreditLimit

\* RESERVE_SCRIPT.
Reserve(r) ==
    /\ pc[r] = "reserve"
    /\ IF Fits(period[r])
       THEN live' = live \cup {r} /\ Goto(r, "call")
       ELSE Goto(r, "done") /\ UNCHANGED live
    /\ UNCHANGED <<now, used, rows, period, seen, calls, charging, fails, crashes,
                   evictions, uncounted, unreserved>>

\* A model call has ended: its row is inserted.  More calls may cost more than was
\* reserved.
RecordUsage(r) ==
    LET row == [request |-> r, call |-> calls[r] + 1, month |-> now]
    IN  /\ pc[r] = "call"
        /\ calls[r] < MaxCalls
        /\ rows' = rows \cup {row}
        /\ calls' = [calls EXCEPT ![r] = calls[r] + 1]
        /\ charging' = charging \cup {r}
        /\ unreserved' = IF r \in live /\ calls[r] < Estimate
                         THEN unreserved ELSE unreserved \cup {row}
        /\ Goto(r, "get")
        /\ UNCHANGED <<now, used, live, period, seen, fails, crashes, evictions,
                       uncounted>>

\* INCRBY.
CountUsage(r) ==
    /\ pc[r] = "count"
    /\ used' = [used EXCEPT ![period[r]] = Value(period[r]) + 1]
    /\ charging' = charging \ {r}
    /\ Goto(r, "call")
    /\ UNCHANGED <<now, live, rows, period, seen, calls, fails, crashes, evictions,
                   uncounted, unreserved>>

\* A ZREM that fails is ignored.
Release(r) ==
    /\ pc[r] = "call"
    /\ \/ live' = live \ {r} /\ UNCHANGED fails
       \/ fails < MaxFails /\ fails' = fails + 1 /\ UNCHANGED live
    /\ Goto(r, "done")
    /\ UNCHANGED <<now, used, rows, period, seen, calls, charging, crashes, evictions,
                   uncounted, unreserved>>

\* A reservation is gone while its request works on: a cancel request or a failed
\* response has released it, or it is older than its TTL.  After a crash the TTL is
\* what frees it.
DropReservation(r) ==
    /\ r \in live
    /\ live' = live \ {r}
    /\ unreserved' = unreserved \cup Charged(r)
    /\ UNCHANGED <<now, used, rows, pc, period, seen, calls, charging, fails, crashes,
                   evictions, uncounted>>

\* An exception while a usage is recorded is logged only; one while a reservation is
\* made ends the request.
StepFails(r) ==
    /\ pc[r] \in {"get", "aggregate", "set", "count", "reserve"}
    /\ fails < MaxFails
    /\ fails' = fails + 1
    /\ uncounted' = uncounted \cup Charged(r)
    /\ charging' = charging \ {r}
    /\ Goto(r, IF r \in charging THEN "call" ELSE "done")
    /\ UNCHANGED <<now, used, live, rows, period, seen, calls, crashes, evictions,
                   unreserved>>

Crash(r) ==
    /\ pc[r] \notin {"idle", "done"}
    /\ crashes < MaxCrashes
    /\ crashes' = crashes + 1
    /\ uncounted' = uncounted \cup Charged(r)
    /\ charging' = charging \ {r}
    /\ Goto(r, "done")
    /\ UNCHANGED <<now, used, live, rows, period, seen, calls, fails, evictions,
                   unreserved>>

NextMonth ==
    /\ now < MaxMonths
    /\ now' = now + 1
    /\ UNCHANGED <<used, live, rows, pc, period, seen, calls, charging, fails, crashes,
                   evictions, uncounted, unreserved>>

\* Requests between their GET of a month's counter and what they do with it.
Busy(m) ==
    {r \in Requests : /\ period[r] = m
                      /\ pc[r] \in {"get", "aggregate", "set", "count", "reserve"}}

EvictCounter(m) ==
    /\ used[m] # Missing
    /\ evictions < MaxEvictions
    /\ EvictionMayRace \/ Busy(m) = {}
    /\ used' = [used EXCEPT ![m] = Missing]
    /\ evictions' = evictions + 1
    /\ UNCHANGED <<now, live, rows, pc, period, seen, calls, charging, fails, crashes,
                   uncounted, unreserved>>

Next ==
    \/ \E r \in Requests :
          \/ Begin(r) \/ GetCounter(r) \/ Aggregate(r) \/ SetCounter(r) \/ Reserve(r)
          \/ RecordUsage(r) \/ CountUsage(r) \/ Release(r) \/ DropReservation(r)
          \/ StepFails(r) \/ Crash(r)
    \/ NextMonth
    \/ \E m \in Months : EvictCounter(m)

Spec == Init /\ [][Next]_creditVars

-------------------------------------------------------------------------------
(* Properties.                                                             *)

RequestLabels ==
    {"idle", "get", "aggregate", "set", "reserve", "call", "count", "done"}
Row == [request : Requests, call : Nat, month : Months]

\* The types of the variables.
CreditsTypeOK ==
    /\ now \in Months
    /\ used \in [Months -> Nat \cup {Missing}]
    /\ live \subseteq Requests /\ charging \subseteq Requests
    /\ rows \subseteq Row /\ IsFiniteSet(rows)
    /\ uncounted \subseteq rows /\ unreserved \subseteq rows
    /\ pc \in [Requests -> RequestLabels]
    /\ period \in [Requests -> Months \cup {0}]
    /\ \A r \in Requests : pc[r] # "idle" => period[r] \in Months
    /\ seen \in [Requests -> Nat] /\ calls \in [Requests -> Nat]
    /\ fails \in Nat /\ crashes \in Nat /\ evictions \in Nat

\* The rows charged to a month: those of the requests that reserved in it.
Rows(m) == {x \in rows : period[x.request] = m}

\* Requests never spend more than a month's limit on their reservations, although
\* they reserve and charge concurrently, the counter is rebuilt when Redis has lost
\* it, and the month may end between a reservation and its charges.  What was spent
\* beyond a reservation, or never counted because of a failure, comes on top.
CreditLimitKept ==
    \A m \in Months :
        Cardinality(Rows(m) \ (uncounted \cup unreserved)) <= CreditLimit

\* The counter of the month is never behind what has been counted, although requests
\* rebuild it while others charge.
CounterNeverLags ==
    used[now] # Missing =>
        Cardinality(Rows(now) \ (uncounted \cup UNION {Charged(r) : r \in Requests}))
            <= used[now]

\* While Redis keeps it, the counter counts no usage twice: requests that find the
\* month's counter missing rebuild it at the same time.
CountedOnce ==
    evictions = 0 /\ now = 1 => used[now] <= Cardinality(Rows(now))

\* The counter follows the usage: it neither lags nor runs ahead.
CounterFollowsUsage == CounterNeverLags /\ CountedOnce

\* The comment of ensureCounter: the counter is a cache over the ledger, rebuilt on
\* a miss.
CounterIsLedger ==
    used[now] # Missing /\ charging = {} /\ uncounted = {} =>
        used[now] = LedgerSum(now)

===============================================================================
