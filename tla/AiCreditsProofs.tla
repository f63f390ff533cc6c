--------------------------- MODULE AiCreditsProofs ---------------------------
(***************************************************************************)
(* Proofs about AiCredits, for any number of requests, calls and months.   *)
(***************************************************************************)
EXTENDS AiCredits, FiniteSetTheorems, TLAPS

-------------------------------------------------------------------------------
(* The inductive invariants.                                               *)

\* Rows belong to a request, a call it has made and a month since its reservation;
\* requests have reserved, record a usage, or neither.
RowInv ==
    /\ \A x \in rows :
          /\ x.call \in 1..calls[x.request] /\ pc[x.request] # "idle"
          /\ period[x.request] <= x.month /\ x.month <= now
    /\ \A x, y \in rows : x.request = y.request /\ x.call = y.call => x = y
    /\ \A r \in Requests :
          /\ pc[r] # "idle" => period[r] <= now
          /\ r \in charging => pc[r] \in {"get", "aggregate", "set", "count"}
          /\ pc[r] = "count" => r \in charging
          /\ r \in live => pc[r] # "idle"

\* Requests that are about to reserve in a month.
Reserving(m) ==
    {r \in Requests : /\ period[r] = m /\ r \notin charging
                      /\ pc[r] \in {"get", "aggregate", "set", "reserve"}}

\* Months whose counter somebody may still rely on.
Relevant(m) == m = now \/ Reserving(m) # {}

\* Rows that are inserted and not counted yet.
Pending == {x \in rows : x.request \in charging /\ x.call = calls[x.request]}

\* Rows that the counter of a month must count.
Counted(m) == Rows(m) \ (uncounted \cup Pending)

\* Such a counter never lags; while it is missing, what will rebuild it is complete.
LagInv ==
    \A m \in Months : Relevant(m) =>
        /\ used[m] # Missing => Cardinality(Counted(m)) <= used[m]
        /\ used[m] = Missing =>
              /\ \A x \in Counted(m) : x.month = m
              /\ \A r \in Requests : period[r] = m =>
                    /\ pc[r] \notin {"reserve", "count"}
                    /\ pc[r] = "set" => Cardinality(Counted(m)) <= seen[r]

\* The rows charged to a month on reservations.
Paid(m) == Rows(m) \ (uncounted \cup unreserved)

\* The calls paid and those a reservation may still pay, as pairs of a request and the
\* number of a call.
Claims(m) ==
    {<<x.request, x.call>> : x \in Paid(m)}
        \cup ({r \in live : period[r] = m} \X (1..Estimate))

\* They fit the limit, and a usage that is being recorded is among the latter.
ClaimInv ==
    /\ \A m \in Months : Cardinality(Claims(m)) <= CreditLimit
    /\ \A x \in Pending \ unreserved : x.request \in live /\ x.call <= Estimate

-------------------------------------------------------------------------------
(* Type correctness.                                                       *)

\* Sums of rows are numbers.
LEMMA LedgerSumType ==
    ASSUME CreditsTypeOK, NEW m \in Months
    PROVE  LedgerSum(m) \in Nat
  BY FS_Subset, FS_CardinalityType DEF CreditsTypeOK, LedgerSum, Ledger

\* A new row is a row, and there are finitely many of them.
LEMMA RecordUsageType ==
    ASSUME CreditsTypeOK, NEW r \in Requests, RecordUsage(r)
    PROVE  /\ rows' \subseteq Row /\ IsFiniteSet(rows')
           /\ unreserved' \subseteq rows' /\ rows \subseteq rows'
<1> DEFINE row == [request |-> r, call |-> calls[r] + 1, month |-> now]
<1>1. row \in Row
  BY DEF CreditsTypeOK, Row
<1>2. rows' = rows \cup {row} /\ (unreserved' = unreserved \/ unreserved' = unreserved \cup {row})
  BY DEF RecordUsage
<1>3. IsFiniteSet(rows')
  BY <1>2, FS_AddElement DEF CreditsTypeOK
<1>4. QED
  BY <1>1, <1>2, <1>3 DEF CreditsTypeOK

\* The steps of a request keep the types.
LEMMA RequestTypes ==
    ASSUME CreditsTypeOK, NEW r \in Requests,
           \/ Begin(r) \/ GetCounter(r) \/ Aggregate(r) \/ SetCounter(r) \/ Reserve(r)
           \/ RecordUsage(r) \/ CountUsage(r) \/ Release(r) \/ DropReservation(r)
           \/ StepFails(r) \/ Crash(r)
    PROVE  CreditsTypeOK'
<1> USE DEF CreditsTypeOK
<1>g. ASSUME NEW label \in RequestLabels, Goto(r, label)
      PROVE  pc' \in [Requests -> RequestLabels] /\ pc'[r] = label
             /\ \A q \in Requests : q # r => pc'[q] = pc[q]
  BY <1>g DEF Goto
<1>l. {"get", "aggregate", "set", "reserve", "call", "count", "done"} \subseteq RequestLabels
  BY DEF RequestLabels
<1>1. CASE Begin(r)
  <2>1. pc' \in [Requests -> RequestLabels] /\ \A q \in Requests : q # r => pc'[q] = pc[q]
    BY <1>1, <1>g, <1>l DEF Begin
  <2>2. period' \in [Requests -> Months \cup {0}] /\ period'[r] \in Months
        /\ \A q \in Requests : q # r => period'[q] = period[q]
    BY <1>1 DEF Begin
  <2>3. QED
    BY <1>1, <2>1, <2>2 DEF Begin
<1>2. CASE GetCounter(r)
  BY <1>2, <1>g, <1>l DEF GetCounter, Counter
<1>3. CASE Aggregate(r)
  <2>1. period[r] \in Months /\ LedgerSum(period[r]) \in Nat
    BY <1>3, LedgerSumType DEF Aggregate
  <2>2. seen' \in [Requests -> Nat]
    BY <1>3, <2>1 DEF Aggregate
  <2>3. QED
    BY <1>3, <1>g, <1>l, <2>2 DEF Aggregate
<1>4. CASE SetCounter(r)
  <2>1. used' \in [Months -> Nat \cup {Missing}]
    BY <1>4 DEF SetCounter, SetIfMissing
  <2>2. pc' \in [Requests -> RequestLabels] /\ \A q \in Requests : q # r => pc'[q] = pc[q]
    BY <1>4, <1>g, <1>l DEF SetCounter, Counter
  <2>3. QED
    BY <1>4, <2>1, <2>2 DEF SetCounter
<1>5. CASE Reserve(r)
  BY <1>5, <1>g, <1>l DEF Reserve
<1>6. CASE RecordUsage(r)
  <2>1. calls' \in [Requests -> Nat] /\ charging' \subseteq Requests
    BY <1>6 DEF RecordUsage
  <2>2. pc' \in [Requests -> RequestLabels] /\ \A q \in Requests : q # r => pc'[q] = pc[q]
    BY <1>6, <1>g, <1>l DEF RecordUsage
  <2>3. QED
    BY <1>6, <2>1, <2>2, RecordUsageType DEF RecordUsage
<1>7. CASE CountUsage(r)
  <2>1. period[r] \in Months /\ Value(period[r]) + 1 \in Nat
    BY <1>7 DEF CountUsage, Value
  <2>2. used' \in [Months -> Nat \cup {Missing}]
    BY <1>7, <2>1 DEF CountUsage
  <2>3. QED
    BY <1>7, <1>g, <1>l, <2>2 DEF CountUsage
<1>8. CASE Release(r)
  BY <1>8, <1>g, <1>l DEF Release
<1>9. CASE DropReservation(r)
  BY <1>9 DEF DropReservation, Charged
<1>10. CASE StepFails(r)
  BY <1>10, <1>g, <1>l DEF StepFails, Charged
<1>11. CASE Crash(r)
  BY <1>11, <1>g, <1>l DEF Crash, Charged
<1>12. QED
  BY <1>1, <1>2, <1>3, <1>4, <1>5, <1>6, <1>7, <1>8, <1>9, <1>10, <1>11

\* Every variable keeps its type.
THEOREM CreditsTypeCorrect == Spec => []CreditsTypeOK
<1>1. Init => CreditsTypeOK
  BY FS_EmptySet, CreditBoundsAssumption
     DEF Init, CreditsTypeOK, CreditBoundsAssumption, Months, RequestLabels
<1>2. ASSUME CreditsTypeOK, [Next]_creditVars
      PROVE  CreditsTypeOK'
  <2>1. CASE UNCHANGED creditVars
    BY <1>2, <2>1 DEF CreditsTypeOK, creditVars
  <2>2. CASE NextMonth
    BY <1>2, <2>2, CreditBoundsAssumption
       DEF CreditsTypeOK, NextMonth, Months, CreditBoundsAssumption
  <2>3. ASSUME NEW m \in Months, EvictCounter(m)
        PROVE  CreditsTypeOK'
    BY <1>2, <2>3 DEF CreditsTypeOK, EvictCounter
  <2>4. QED
    BY <1>2, <2>1, <2>2, <2>3, RequestTypes DEF Next
<1>3. QED
  BY <1>1, <1>2, PTL DEF Spec

-------------------------------------------------------------------------------
(* The rows and their requests.                                            *)

\* The steps of a request preserve RowInv.
LEMMA RowInvRequest ==
    ASSUME CreditsTypeOK, RowInv, NEW r \in Requests,
           \/ Begin(r) \/ GetCounter(r) \/ Aggregate(r) \/ SetCounter(r) \/ Reserve(r)
           \/ RecordUsage(r) \/ CountUsage(r) \/ Release(r) \/ DropReservation(r)
           \/ StepFails(r) \/ Crash(r)
    PROVE  RowInv'
<1>t. /\ now \in Months /\ \A m \in Months : m \in Nat
      /\ \A x \in rows : x \in Row /\ x.request \in Requests /\ x.call \in Nat /\ x.month \in Months
      /\ pc \in [Requests -> RequestLabels] /\ period \in [Requests -> Months \cup {0}]
      /\ calls \in [Requests -> Nat]
      /\ live \subseteq Requests /\ charging \subseteq Requests
  BY DEF CreditsTypeOK, Months, Row
<1>1. CASE Begin(r)
  BY <1>1, <1>t DEF Begin, Goto, RowInv
<1>2. CASE GetCounter(r) \/ Aggregate(r) \/ SetCounter(r)
  <2>1. PICK label \in {"aggregate", "set", "count", "reserve"} :
           Goto(r, label) /\ (label = "count" => r \in charging)
                          /\ (label = "reserve" => r \notin charging)
    BY <1>2 DEF GetCounter, Aggregate, SetCounter, Counter
  <2>2. UNCHANGED <<rows, calls, period, now, charging, live>> /\ pc[r] # "idle"
    BY <1>2 DEF GetCounter, Aggregate, SetCounter
  <2>3. QED
    BY <1>t, <2>1, <2>2 DEF Goto, RowInv
<1>3. CASE Reserve(r)
  BY <1>3, <1>t DEF Reserve, Goto, RowInv
<1>4. CASE RecordUsage(r)
  <2> DEFINE row == [request |-> r, call |-> calls[r] + 1, month |-> now]
  <2>1. /\ rows' = rows \cup {row} /\ calls' = [calls EXCEPT ![r] = calls[r] + 1]
        /\ charging' = charging \cup {r} /\ pc' = [pc EXCEPT ![r] = "get"]
        /\ pc[r] = "call" /\ UNCHANGED <<now, period, live>>
    BY <1>4 DEF RecordUsage, Goto
  <2>2. row.request = r /\ row.call = calls[r] + 1 /\ row.month = now
    OBVIOUS
  <2> HIDE DEF row
  <2>3. /\ \A x \in rows : x.request = r => x.call < calls'[r]
        /\ row.call = calls'[r] /\ \A q \in Requests : q # r => calls'[q] = calls[q]
        /\ calls'[r] \in Nat /\ calls'[r] >= 1 /\ calls'[r] = calls[r] + 1
    BY <1>t, <2>1, <2>2 DEF RowInv
  <2>4. \A x, y \in rows' : x.request = y.request /\ x.call = y.call => x = y
    BY <1>t, <2>1, <2>2, <2>3 DEF RowInv
  <2>5. \A x \in rows' : x.call \in 1..calls'[x.request]
    <3>1. ASSUME NEW x \in rows PROVE x.call \in 1..calls'[x.request]
      BY <1>t, <2>3, <3>1 DEF RowInv
    <3>2. QED
      BY <2>1, <2>2, <2>3, <3>1
  <2>6. \A x \in rows' : /\ pc'[x.request] # "idle"
                         /\ period'[x.request] <= x.month /\ x.month <= now'
    BY <1>t, <2>1, <2>2 DEF RowInv
  <2>7. \A q \in Requests :
           /\ pc'[q] # "idle" => period'[q] <= now'
           /\ q \in charging' => pc'[q] \in {"get", "aggregate", "set", "count"}
           /\ pc'[q] = "count" => q \in charging'
           /\ q \in live' => pc'[q] # "idle"
    BY <1>t, <2>1 DEF RowInv
  <2>8. QED
    BY <2>4, <2>5, <2>6, <2>7 DEF RowInv
<1>5. CASE CountUsage(r)
  BY <1>5, <1>t DEF CountUsage, Goto, RowInv
<1>6. CASE Release(r)
  BY <1>6, <1>t DEF Release, Goto, RowInv
<1>7. CASE DropReservation(r)
  BY <1>7, <1>t DEF DropReservation, RowInv
<1>8. CASE StepFails(r)
  BY <1>8, <1>t DEF StepFails, Goto, RowInv
<1>9. CASE Crash(r)
  BY <1>9, <1>t DEF Crash, Goto, RowInv
<1>10. QED
  BY <1>1, <1>2, <1>3, <1>4, <1>5, <1>6, <1>7, <1>8, <1>9

\* RowInv is an invariant.
LEMMA RowInvariant == Spec => []RowInv
<1>1. Init => RowInv
  BY DEF Init, RowInv
<1>2. ASSUME CreditsTypeOK, RowInv, [Next]_creditVars
      PROVE  RowInv'
  <2>1. CASE UNCHANGED creditVars
    BY <1>2, <2>1 DEF RowInv, creditVars
  <2>2. CASE NextMonth
    BY <1>2, <2>2 DEF CreditsTypeOK, RowInv, NextMonth, Months, Row
  <2>3. ASSUME NEW m \in Months, EvictCounter(m)
        PROVE  RowInv'
    BY <1>2, <2>3 DEF RowInv, EvictCounter
  <2>4. QED
    BY <1>2, <2>1, <2>2, <2>3, RowInvRequest DEF Next
<1>3. QED
  BY <1>1, <1>2, CreditsTypeCorrect, PTL DEF Spec

-------------------------------------------------------------------------------
(* The counter.                                                            *)

\* Every set of rows is finite.
LEMMA RowSets ==
    ASSUME CreditsTypeOK, NEW S \in SUBSET rows, NEW T \in SUBSET S
    PROVE  /\ IsFiniteSet(S) /\ IsFiniteSet(T)
           /\ Cardinality(S) \in Nat /\ Cardinality(T) \in Nat
           /\ Cardinality(T) <= Cardinality(S)
<1>1. IsFiniteSet(S)
  BY FS_Subset DEF CreditsTypeOK
<1>2. IsFiniteSet(T) /\ Cardinality(T) <= Cardinality(S)
  BY <1>1, FS_Subset
<1>3. QED
  BY <1>1, <1>2, FS_CardinalityType

\* Steps after which no counter has to count more rows, and nobody is nearer to using
\* one, preserve LagInv.
LEMMA LagInvFrame ==
    ASSUME CreditsTypeOK, LagInv, UNCHANGED <<now, used, seen, period>>,
           \A m \in Months : Counted(m)' \subseteq Counted(m),
           \A m \in Months : Reserving(m)' \subseteq Reserving(m),
           \A q \in Requests : pc'[q] \in {"reserve", "count", "set"} => pc'[q] = pc[q]
    PROVE  LagInv'
<1>1. SUFFICES ASSUME NEW m \in Months, Relevant(m)'
               PROVE  /\ used'[m] # Missing => Cardinality(Counted(m)') <= used'[m]
                      /\ used'[m] = Missing =>
                            /\ \A x \in Counted(m)' : x.month = m
                            /\ \A r \in Requests : period'[r] = m =>
                                  /\ pc'[r] \notin {"reserve", "count"}
                                  /\ pc'[r] = "set" => Cardinality(Counted(m)') <= seen'[r]
  BY DEF LagInv, Missing
<1>2. Relevant(m)
  BY <1>1 DEF Relevant
<1>3. /\ Counted(m) \subseteq rows /\ Counted(m)' \subseteq Counted(m)
      /\ used[m] \in Nat \cup {Missing} /\ \A r \in Requests : seen[r] \in Nat
  BY DEF Counted, Rows, CreditsTypeOK
<1>4. /\ Cardinality(Counted(m)') <= Cardinality(Counted(m))
      /\ Cardinality(Counted(m)') \in Nat /\ Cardinality(Counted(m)) \in Nat
  BY <1>3, RowSets
<1>5. CASE used[m] # Missing
  <2>1. Cardinality(Counted(m)) <= used[m]
    BY <1>2, <1>5 DEF LagInv
  <2>2. QED
    BY <1>3, <1>4, <1>5, <2>1
<1>6. CASE used[m] = Missing
  <2>1. /\ \A x \in Counted(m) : x.month = m
        /\ \A r \in Requests : period[r] = m =>
              /\ pc[r] \notin {"reserve", "count"}
              /\ pc[r] = "set" => Cardinality(Counted(m)) <= seen[r]
    BY <1>2, <1>6 DEF LagInv
  <2>2. \A r \in Requests : period'[r] = m => pc'[r] \notin {"reserve", "count"}
    BY <2>1
  <2>3. ASSUME NEW r \in Requests, period'[r] = m, pc'[r] = "set"
        PROVE  Cardinality(Counted(m)') <= seen'[r]
    <3>1. Cardinality(Counted(m)) <= seen[r] /\ seen[r] \in Nat /\ seen'[r] = seen[r]
      BY <1>3, <2>1, <2>3
    <3>2. QED
      BY <1>4, <3>1
  <2>4. QED
    BY <1>3, <1>6, <2>1, <2>2, <2>3
<1>7. QED
  BY <1>5, <1>6

\* A recorded usage is pending first.
LEMMA CountedRecord ==
    ASSUME CreditsTypeOK, RowInv, NEW r \in Requests, RecordUsage(r), NEW m \in Months
    PROVE  Counted(m)' \subseteq Counted(m)
<1> DEFINE row == [request |-> r, call |-> calls[r] + 1, month |-> now]
<1>1. /\ rows' = rows \cup {row} /\ calls' = [calls EXCEPT ![r] = calls[r] + 1]
      /\ charging' = charging \cup {r} /\ r \notin charging
      /\ UNCHANGED <<period, uncounted>>
  BY DEF RecordUsage, RowInv
<1>2. row.request = r /\ row.call = calls[r] + 1
  OBVIOUS
<1> HIDE DEF row
<1>3. row \in Pending'
  BY <1>1, <1>2 DEF Pending, CreditsTypeOK
<1>4. Pending \subseteq Pending'
  BY <1>1 DEF Pending, CreditsTypeOK, Row
<1>5. QED
  BY <1>1, <1>3, <1>4 DEF Counted, Rows

\* Steps that leave LagInv alone.
LEMMA LagInvOther ==
    ASSUME CreditsTypeOK, RowInv, LagInv, NEW r \in Requests,
           \/ Reserve(r) \/ RecordUsage(r) \/ Release(r) \/ DropReservation(r)
           \/ StepFails(r) \/ Crash(r)
    PROVE  LagInv'
<1>1. UNCHANGED <<now, used, seen, period>>
  BY DEF Reserve, RecordUsage, Release, DropReservation, StepFails, Crash
<1>2. CASE RecordUsage(r)
  <2>1. pc' = [pc EXCEPT ![r] = "get"] /\ charging' = charging \cup {r}
    BY <1>2 DEF RecordUsage, Goto
  <2>2. \A m \in Months : Reserving(m)' \subseteq Reserving(m)
    BY <1>1, <2>1 DEF Reserving, CreditsTypeOK
  <2>3. \A q \in Requests : pc'[q] \in {"reserve", "count", "set"} => pc'[q] = pc[q]
    BY <2>1 DEF CreditsTypeOK
  <2>4. QED
    BY <1>1, <1>2, <2>2, <2>3, CountedRecord, LagInvFrame
<1>3. CASE Reserve(r) \/ Release(r) \/ DropReservation(r)
  <2>1. UNCHANGED <<rows, calls, charging, uncounted>>
    BY <1>3 DEF Reserve, Release, DropReservation
  <2>2. pc' = pc \/ Goto(r, "call") \/ Goto(r, "done")
    BY <1>3 DEF Reserve, Release, DropReservation
  <2>3. \A m \in Months : Reserving(m)' \subseteq Reserving(m)
    BY <1>1, <2>1, <2>2 DEF Reserving, Goto, CreditsTypeOK
  <2>4. \A q \in Requests : pc'[q] \in {"reserve", "count", "set"} => pc'[q] = pc[q]
    BY <2>2 DEF Goto, CreditsTypeOK
  <2>5. \A m \in Months : Counted(m)' \subseteq Counted(m)
    BY <1>1, <2>1 DEF Counted, Rows, Pending
  <2>6. QED
    BY <1>1, <2>3, <2>4, <2>5, LagInvFrame
<1>4. CASE StepFails(r) \/ Crash(r)
  <2>1. /\ uncounted' = uncounted \cup Charged(r) /\ charging' = charging \ {r}
        /\ UNCHANGED <<rows, calls>>
    BY <1>4 DEF StepFails, Crash
  <2>2. Goto(r, "call") \/ Goto(r, "done")
    BY <1>4 DEF StepFails, Crash
  <2>3. \A m \in Months : Reserving(m)' \subseteq Reserving(m)
    BY <1>1, <2>1, <2>2 DEF Reserving, Goto, CreditsTypeOK
  <2>4. \A q \in Requests : pc'[q] \in {"reserve", "count", "set"} => pc'[q] = pc[q]
    BY <2>2 DEF Goto, CreditsTypeOK
  <2>5. \A m \in Months : Counted(m)' \subseteq Counted(m)
    BY <1>1, <2>1 DEF Counted, Rows, Pending, Charged
  <2>6. QED
    BY <1>1, <2>3, <2>4, <2>5, LagInvFrame
<1>5. QED
  BY <1>2, <1>3, <1>4

\* What LagInv says of a month.
Lags(m) ==
    /\ used[m] # Missing => Cardinality(Counted(m)) <= used[m]
    /\ used[m] = Missing =>
          /\ \A x \in Counted(m) : x.month = m
          /\ \A r \in Requests : period[r] = m =>
                /\ pc[r] \notin {"reserve", "count"}
                /\ pc[r] = "set" => Cardinality(Counted(m)) <= seen[r]

\* A request begins in the month, with no rows.
LEMMA LagInvBegin ==
    ASSUME CreditsTypeOK, RowInv, LagInv, NEW r \in Requests, Begin(r)
    PROVE  LagInv'
<1>1. /\ pc[r] = "idle" /\ pc' = [pc EXCEPT ![r] = "get"]
      /\ period' = [period EXCEPT ![r] = now]
      /\ UNCHANGED <<now, used, rows, seen, calls, charging, uncounted>>
  BY DEF Begin, Goto
<1>2. \A x \in rows : x.request \in Requests /\ x.request # r
  BY <1>1 DEF RowInv, CreditsTypeOK, Row
<1>3. \A m \in Months : Counted(m)' = Counted(m)
  BY <1>1, <1>2 DEF Counted, Rows, Pending, CreditsTypeOK
<1>4. SUFFICES ASSUME NEW m \in Months, Relevant(m)'
               PROVE  Lags(m)'
  BY DEF LagInv, Lags, Missing
<1>5. Relevant(m)
  <2>1. CASE m = now
    BY <2>1 DEF Relevant
  <2>2. CASE m # now
    <3>1. PICK q \in Reserving(m)' : TRUE
      BY <1>1, <1>4, <2>2 DEF Relevant
    <3>2. q # r /\ q \in Reserving(m)
      BY <1>1, <2>2, <3>1 DEF Reserving, CreditsTypeOK
    <3>3. QED
      BY <3>2 DEF Relevant
  <2>3. QED
    BY <2>1, <2>2
<1>6. Lags(m)
  BY <1>5 DEF LagInv, Lags
<1>7. \A q \in Requests : pc'[q] \in {"reserve", "count", "set"} =>
         q # r /\ pc'[q] = pc[q] /\ period'[q] = period[q]
  BY <1>1 DEF CreditsTypeOK
<1>8. QED
  BY <1>1, <1>3, <1>6, <1>7 DEF Lags, Missing

\* A request goes on with a counter only if there is one.
LEMMA LagInvGet ==
    ASSUME CreditsTypeOK, RowInv, LagInv, NEW r \in Requests, GetCounter(r)
    PROVE  LagInv'
<1>1. UNCHANGED <<now, used, rows, period, seen, calls, charging, uncounted>>
  BY DEF GetCounter
<1>2. \A m \in Months : Counted(m)' = Counted(m)
  BY <1>1 DEF Counted, Rows, Pending
<1>3. /\ pc[r] = "get" /\ \A q \in Requests : q # r => pc'[q] = pc[q]
      /\ pc'[r] \in {"aggregate", "count", "reserve"}
      /\ pc'[r] = "reserve" => r \notin charging
      /\ used[period[r]] = Missing => pc'[r] = "aggregate"
      /\ pc'[r] = "count" => r \in charging
  BY DEF GetCounter, Goto, Counter, CreditsTypeOK
<1>4. SUFFICES ASSUME NEW m \in Months, Relevant(m)'
               PROVE  Lags(m)'
  BY DEF LagInv, Lags, Missing
<1>5. Relevant(m)
  BY <1>1, <1>3, <1>4 DEF Relevant, Reserving
<1>6. Lags(m)
  BY <1>5 DEF LagInv, Lags
<1>7. CASE used[m] # Missing
  BY <1>1, <1>2, <1>6, <1>7 DEF Lags, Missing
<1>8. CASE used[m] = Missing
  <2>1. \A q \in Requests : period[q] = m =>
           pc'[q] \notin {"reserve", "count"} /\ (pc'[q] = "set" => q # r /\ pc[q] = "set")
    BY <1>3, <1>6, <1>8 DEF Lags
  <2>2. QED
    BY <1>1, <1>2, <1>6, <1>8, <2>1 DEF Lags, Missing
<1>9. QED
  BY <1>7, <1>8

\* While a counter is missing, the ledger of its month has all it must count.
LEMMA LagInvAggregate ==
    ASSUME CreditsTypeOK, RowInv, LagInv, NEW r \in Requests, Aggregate(r)
    PROVE  LagInv'
<1>1. /\ UNCHANGED <<now, used, rows, period, calls, charging, uncounted>>
      /\ seen' = [seen EXCEPT ![r] = LedgerSum(period[r])]
      /\ pc[r] = "aggregate" /\ pc' = [pc EXCEPT ![r] = "set"]
  BY DEF Aggregate, Goto
<1>2. \A m \in Months : Counted(m)' = Counted(m)
  BY <1>1 DEF Counted, Rows, Pending
<1>3. SUFFICES ASSUME NEW m \in Months, Relevant(m)'
               PROVE  Lags(m)'
  BY DEF LagInv, Lags, Missing
<1>4. Relevant(m)
  BY <1>1, <1>3 DEF Relevant, Reserving, CreditsTypeOK
<1>5. Lags(m)
  BY <1>4 DEF LagInv, Lags
<1>6. CASE used[m] # Missing
  BY <1>1, <1>2, <1>5, <1>6 DEF Lags, Missing
<1>7. CASE used[m] = Missing
  <2>1. ASSUME NEW q \in Requests, period[q] = m, pc'[q] = "set"
        PROVE  Cardinality(Counted(m)) <= seen'[q]
    <3>1. CASE q = r
      <4>1. seen'[q] = Cardinality(Ledger(m))
        BY <1>1, <2>1, <3>1 DEF LedgerSum, CreditsTypeOK
      <4>2. Counted(m) \subseteq Ledger(m) /\ Ledger(m) \subseteq rows
        BY <1>5, <1>7 DEF Lags, Ledger, Counted, Rows
      <4>3. QED
        BY <4>1, <4>2, RowSets
    <3>2. CASE q # r
      BY <1>1, <1>5, <1>7, <2>1, <3>2 DEF Lags, CreditsTypeOK
    <3>3. QED
      BY <3>1, <3>2
  <2>2. \A q \in Requests : period[q] = m => pc'[q] \notin {"reserve", "count"}
    BY <1>1, <1>5, <1>7 DEF Lags, CreditsTypeOK
  <2>3. QED
    BY <1>1, <1>2, <1>5, <1>7, <2>1, <2>2 DEF Lags, Missing
<1>8. QED
  BY <1>6, <1>7

\* A missing counter is set to at least what it must count; a present one is kept.
LEMMA LagInvSet ==
    ASSUME CreditsTypeOK, RowInv, LagInv, NEW r \in Requests, SetCounter(r)
    PROVE  LagInv'
<1>1. /\ UNCHANGED <<now, rows, period, seen, calls, charging, uncounted>>
      /\ used' = [used EXCEPT ![period[r]] = SetIfMissing(r)]
      /\ pc[r] = "set" /\ \A q \in Requests : q # r => pc'[q] = pc[q]
      /\ pc'[r] \in {"count", "reserve"} /\ (pc'[r] = "reserve" => r \notin charging)
      /\ period[r] \in Months
  BY DEF SetCounter, Goto, Counter, CreditsTypeOK
<1>2. \A m \in Months : Counted(m)' = Counted(m)
  BY <1>1 DEF Counted, Rows, Pending
<1>3. SUFFICES ASSUME NEW m \in Months, Relevant(m)'
               PROVE  Lags(m)'
  BY DEF LagInv, Lags, Missing
<1>4. Relevant(m)
  BY <1>1, <1>3 DEF Relevant, Reserving
<1>5. Lags(m)
  BY <1>4 DEF LagInv, Lags
<1>6. CASE m = period[r]
  <2>1. used'[m] = (IF used[m] = Missing THEN seen[r] ELSE used[m]) /\ seen[r] \in Nat
    BY <1>1, <1>6 DEF SetIfMissing, CreditsTypeOK
  <2>2. used'[m] # Missing
    BY <2>1 DEF Missing
  <2>3. Cardinality(Counted(m)) <= used'[m]
    BY <1>1, <1>5, <1>6, <2>1 DEF Lags
  <2>4. QED
    BY <1>2, <2>2, <2>3 DEF Lags, Missing
<1>7. CASE m # period[r]
  <2>1. used'[m] = used[m]
    BY <1>1, <1>7 DEF CreditsTypeOK
  <2>2. QED
    BY <1>1, <1>2, <1>5, <1>7, <2>1 DEF Lags, Missing
<1>8. QED
  BY <1>6, <1>7

\* A usage is counted once, in a counter that is there.
LEMMA LagInvCount ==
    ASSUME CreditsTypeOK, RowInv, LagInv, NEW r \in Requests, CountUsage(r)
    PROVE  LagInv'
<1>1. /\ UNCHANGED <<now, rows, period, seen, calls, uncounted>>
      /\ charging' = charging \ {r} /\ r \in charging
      /\ used' = [used EXCEPT ![period[r]] = Value(period[r]) + 1]
      /\ pc[r] = "count" /\ pc' = [pc EXCEPT ![r] = "call"]
      /\ period[r] \in Months
  BY DEF CountUsage, Goto, CreditsTypeOK, RowInv
<1>2. SUFFICES ASSUME NEW m \in Months, Relevant(m)'
               PROVE  Lags(m)'
  BY DEF LagInv, Lags, Missing
<1>3. Relevant(m)
  BY <1>1, <1>2 DEF Relevant, Reserving, CreditsTypeOK
<1>4. Lags(m)
  BY <1>3 DEF LagInv, Lags
<1>5. \A q \in Requests : pc'[q] \in {"reserve", "count", "set"} => q # r /\ pc'[q] = pc[q]
  BY <1>1 DEF CreditsTypeOK
<1>6. CASE m # period[r]
  <2>1. used'[m] = used[m]
    BY <1>1, <1>6 DEF CreditsTypeOK
  <2>2. Counted(m)' \subseteq Counted(m)
    BY <1>1, <1>6 DEF Counted, Rows, Pending
  <2>3. /\ Counted(m) \subseteq rows
    BY DEF Counted, Rows
  <2>4. /\ Cardinality(Counted(m)') <= Cardinality(Counted(m))
        /\ Cardinality(Counted(m)') \in Nat /\ Cardinality(Counted(m)) \in Nat
    BY <2>2, <2>3, RowSets
  <2>5. CASE used[m] # Missing
    BY <1>4, <2>1, <2>4, <2>5 DEF Lags, Missing, CreditsTypeOK
  <2>6. CASE used[m] = Missing
    <3>1. ASSUME NEW q \in Requests, period'[q] = m, pc'[q] = "set"
          PROVE  Cardinality(Counted(m)') <= seen'[q]
      <4>1. Cardinality(Counted(m)) <= seen[q] /\ seen[q] \in Nat
        BY <1>1, <1>4, <1>5, <2>6, <3>1 DEF Lags, CreditsTypeOK
      <4>2. QED
        BY <1>1, <2>4, <4>1
    <3>2. QED
      BY <1>1, <1>4, <1>5, <2>1, <2>2, <2>6, <3>1 DEF Lags, Missing
  <2>7. QED
    BY <2>5, <2>6
<1>7. CASE m = period[r]
  <2>1. used[m] # Missing /\ used[m] \in Nat /\ used'[m] = used[m] + 1
    BY <1>1, <1>4, <1>7 DEF Lags, Value, CreditsTypeOK
  <2>2. Cardinality(Counted(m)) <= used[m]
    BY <1>4, <2>1 DEF Lags
  <2>3. Counted(m)' \subseteq Counted(m) \cup Charged(r)
    BY <1>1 DEF Counted, Rows, Pending, Charged
  <2>4. Charged(r) = {} \/ \E x \in rows : Charged(r) = {x}
    BY DEF Charged, RowInv
  <2>5. /\ IsFiniteSet(Counted(m)) /\ Cardinality(Counted(m)) \in Nat
        /\ Counted(m) \subseteq rows
    <3>1. Counted(m) \subseteq rows
      BY DEF Counted, Rows
    <3>2. QED
      BY <3>1, RowSets
  <2>6. Cardinality(Counted(m)') <= Cardinality(Counted(m)) + 1
        /\ Cardinality(Counted(m)') \in Nat
    <3>1. CASE Charged(r) = {}
      <4>1. Counted(m)' \subseteq Counted(m)
        BY <2>3, <3>1
      <4>2. QED
        BY <2>5, <4>1, RowSets
    <3>2. ASSUME NEW x \in rows, Charged(r) = {x}
          PROVE  /\ Cardinality(Counted(m)') <= Cardinality(Counted(m)) + 1
                 /\ Cardinality(Counted(m)') \in Nat
      <4>1. Counted(m)' \subseteq Counted(m) \cup {x} /\ Counted(m) \cup {x} \subseteq rows
        BY <2>3, <2>5, <3>2
      <4>2. /\ Cardinality(Counted(m)') <= Cardinality(Counted(m) \cup {x})
            /\ Cardinality(Counted(m)') \in Nat /\ Cardinality(Counted(m) \cup {x}) \in Nat
        BY <4>1, RowSets
      <4>3. Cardinality(Counted(m) \cup {x}) =
               IF x \in Counted(m) THEN Cardinality(Counted(m)) ELSE Cardinality(Counted(m)) + 1
        BY <2>5, FS_AddElement
      <4>4. QED
        BY <2>5, <4>2, <4>3
    <3>3. QED
      BY <2>4, <3>1, <3>2
  <2>7. used'[m] # Missing /\ Cardinality(Counted(m)') <= used'[m]
    BY <2>1, <2>2, <2>5, <2>6 DEF Missing
  <2>8. QED
    BY <2>7 DEF Lags, Missing
<1>8. QED
  BY <1>6, <1>7

\* Nobody has reserved in a new month, and only old counters become irrelevant.
LEMMA LagInvMonth ==
    ASSUME CreditsTypeOK, RowInv, LagInv, NextMonth
    PROVE  LagInv'
<1>1. /\ now' = now + 1 /\ now' \in Months /\ now \in Nat
      /\ UNCHANGED <<used, rows, pc, period, seen, calls, charging, uncounted>>
  BY CreditBoundsAssumption DEF NextMonth, Months, CreditsTypeOK, CreditBoundsAssumption
<1>2. \A m \in Months : Counted(m)' = Counted(m) /\ Reserving(m)' = Reserving(m)
  BY <1>1 DEF Counted, Rows, Pending, Reserving
<1>3. SUFFICES ASSUME NEW m \in Months, Relevant(m)'
               PROVE  Lags(m)'
  BY DEF LagInv, Lags, Missing
<1>4. CASE Relevant(m)
  BY <1>1, <1>2, <1>4 DEF LagInv, Lags, Missing
<1>5. CASE ~Relevant(m)
  <2>1. m = now + 1
    BY <1>1, <1>2, <1>3, <1>5 DEF Relevant
  <2>2. Counted(m) = {}
    BY <1>1, <2>1 DEF Counted, Rows, RowInv, CreditsTypeOK, Row, Months
  <2>3. \A q \in Requests : period[q] = m => pc[q] = "idle"
    BY <1>1, <2>1 DEF RowInv, CreditsTypeOK, Months
  <2>4. Cardinality(Counted(m)) = 0
    BY <2>2, FS_EmptySet
  <2>5. used[m] # Missing => 0 <= used[m]
    BY DEF CreditsTypeOK
  <2>6. QED
    BY <1>1, <1>2, <2>2, <2>3, <2>4, <2>5 DEF Lags, Missing
<1>6. QED
  BY <1>4, <1>5

\* A counter is lost while nobody relies on it.
LEMMA LagInvEvict ==
    ASSUME CreditsTypeOK, RowInv, LagInv, ~EvictionMayRace, NEW k \in Months, EvictCounter(k)
    PROVE  LagInv'
<1>1. /\ Busy(k) = {} /\ used' = [used EXCEPT ![k] = Missing]
      /\ UNCHANGED <<now, rows, pc, period, seen, calls, charging, uncounted>>
  BY DEF EvictCounter
<1>2. \A m \in Months : Counted(m)' = Counted(m) /\ Reserving(m)' = Reserving(m)
  BY <1>1 DEF Counted, Rows, Pending, Reserving
<1>3. SUFFICES ASSUME NEW m \in Months, Relevant(m)'
               PROVE  Lags(m)'
  BY DEF LagInv, Lags, Missing
<1>4. Relevant(m)
  BY <1>1, <1>2, <1>3 DEF Relevant
<1>5. CASE m # k
  BY <1>1, <1>2, <1>4, <1>5 DEF LagInv, Lags, Missing, CreditsTypeOK
<1>6. CASE m = k
  <2>1. m = now
    BY <1>1, <1>4, <1>6 DEF Relevant, Reserving, Busy
  <2>2. \A x \in Counted(m) : x.month = m
    BY <2>1 DEF Counted, Rows, RowInv, CreditsTypeOK, Row, Months
  <2>3. \A q \in Requests : period[q] = m => pc[q] \notin {"reserve", "count", "set"}
    BY <1>1, <1>6 DEF Busy
  <2>4. used'[m] = Missing
    BY <1>1, <1>6 DEF CreditsTypeOK
  <2>5. QED
    BY <1>1, <1>2, <2>2, <2>3, <2>4 DEF Lags, Missing
<1>7. QED
  BY <1>5, <1>6

\* LagInv is an invariant if Redis loses a counter only between the steps that rely
\* on it.
LEMMA LagInvariant ==
    ASSUME ~EvictionMayRace
    PROVE  Spec => []LagInv
<1>1. Init => LagInv
  BY DEF Init, LagInv, Counted, Rows, Missing
<1>2. ASSUME CreditsTypeOK, RowInv, LagInv, [Next]_creditVars
      PROVE  LagInv'
  <2>1. CASE UNCHANGED creditVars
    <3>1. UNCHANGED <<now, used, rows, pc, period, seen, calls, charging, uncounted>>
      BY <2>1 DEF creditVars
    <3>2. \A m : Counted(m)' = Counted(m) /\ Reserving(m)' = Reserving(m)
      BY <3>1 DEF Counted, Rows, Pending, Reserving
    <3>3. QED
      BY <1>2, <3>1, <3>2 DEF LagInv, Relevant, Missing
  <2>2. QED
    BY <1>2, <2>1, LagInvBegin, LagInvGet, LagInvAggregate, LagInvSet, LagInvCount,
       LagInvOther, LagInvMonth, LagInvEvict DEF Next
<1>3. QED
  BY <1>1, <1>2, CreditsTypeCorrect, RowInvariant, PTL DEF Spec

\* The counter of the month never lags behind what has been counted.
THEOREM CounterKeepsUp ==
    ASSUME ~EvictionMayRace
    PROVE  Spec => []CounterNeverLags
<1>1. ASSUME CreditsTypeOK, LagInv
      PROVE  CounterNeverLags
  <2>1. Pending = UNION {Charged(r) : r \in Requests}
    BY <1>1 DEF Pending, Charged, CreditsTypeOK, Row
  <2>2. now \in Months /\ Relevant(now)
    BY <1>1 DEF CreditsTypeOK, Relevant
  <2>3. QED
    BY <1>1, <2>1, <2>2 DEF LagInv, CounterNeverLags, Counted
<1>2. QED
  BY <1>1, CreditsTypeCorrect, LagInvariant, PTL

-------------------------------------------------------------------------------
(* The limit.                                                              *)

\* The calls of the rows in a set.
Pairs(S) == {<<x.request, x.call>> : x \in S}

\* Requests with a reservation in a month.
LiveIn(m) == {r \in live : period[r] = m}

\* As many pairs as rows.
LEMMA PairsOfRows ==
    ASSUME CreditsTypeOK, RowInv, NEW S \in SUBSET rows
    PROVE  /\ IsFiniteSet(S) /\ IsFiniteSet(Pairs(S))
           /\ Cardinality(Pairs(S)) = Cardinality(S)
<1> DEFINE f == [x \in S |-> <<x.request, x.call>>]
<1>1. IsFiniteSet(S)
  BY RowSets
<1>2. f \in Surjection(S, Pairs(S))
  BY DEF Surjection, Pairs
<1>3. f \in Injection(S, Pairs(S))
  <2>1. \A x, y \in S : f[x] = f[y] => x = y
    BY DEF RowInv
  <2>2. f \in [S -> Pairs(S)]
    BY DEF Pairs
  <2>3. QED
    BY <2>1, <2>2 DEF Injection, IsInjective
<1>4. f \in Bijection(S, Pairs(S))
  BY <1>2, <1>3 DEF Bijection
<1>5. ExistsBijection(S, Pairs(S))
  BY <1>4 DEF ExistsBijection
<1>6. QED
  BY <1>1, <1>5, FS_Bijection

\* Claims are finitely many.
LEMMA ClaimsFinite ==
    ASSUME CreditsTypeOK, RowInv, NEW m \in Months, NEW L \in SUBSET Requests
    PROVE  /\ IsFiniteSet(L \X (1..Estimate)) /\ IsFiniteSet(L)
           /\ Cardinality(L \X (1..Estimate)) = Cardinality(L) * Estimate
           /\ Cardinality(L) \in Nat
           /\ IsFiniteSet(Claims(m)) /\ Cardinality(Claims(m)) \in Nat
<1>1. IsFiniteSet(1..Estimate) /\ Cardinality(1..Estimate) = Estimate
  <2>1. Estimate \in Int /\ 1 \in Int /\ Estimate >= 1
    BY CreditBoundsAssumption DEF CreditBoundsAssumption
  <2>2. /\ IsFiniteSet(1..Estimate)
        /\ Cardinality(1..Estimate) = IF 1 > Estimate THEN 0 ELSE Estimate - 1 + 1
    BY <2>1, FS_Interval
  <2>3. QED
    BY <2>1, <2>2
<1>2. IsFiniteSet(L) /\ IsFiniteSet(LiveIn(m))
  BY CreditsAssumption, FS_Subset DEF CreditsAssumption, LiveIn, CreditsTypeOK
<1>3. /\ IsFiniteSet(L \X (1..Estimate)) /\ IsFiniteSet(LiveIn(m) \X (1..Estimate))
      /\ Cardinality(L \X (1..Estimate)) = Cardinality(L) * Estimate
  BY <1>1, <1>2, FS_Product
<1>4. IsFiniteSet(Pairs(Paid(m)))
  BY PairsOfRows DEF Paid, Rows
<1>5. Claims(m) = Pairs(Paid(m)) \cup (LiveIn(m) \X (1..Estimate))
  BY DEF Claims, Pairs, LiveIn
<1>6. IsFiniteSet(Claims(m))
  <2>1. IsFiniteSet(Pairs(Paid(m)) \cup (LiveIn(m) \X (1..Estimate)))
    BY <1>3, <1>4, FS_Union
  <2>2. QED
    BY <1>5, <2>1
<1>7. QED
  BY <1>2, <1>3, <1>6, FS_CardinalityType

\* The claims of a month only grow with a reservation.
LEMMA ClaimsShrink ==
    ASSUME CreditsTypeOK, RowInv, NEW r \in Requests,
           \/ Begin(r) \/ GetCounter(r) \/ Aggregate(r) \/ SetCounter(r)
           \/ RecordUsage(r) \/ CountUsage(r) \/ Release(r) \/ DropReservation(r)
           \/ StepFails(r) \/ Crash(r),
           NEW m \in Months
    PROVE  Claims(m)' \subseteq Claims(m)
<1>1. CASE Begin(r)
  <2>1. /\ pc[r] = "idle" /\ period' = [period EXCEPT ![r] = now]
        /\ UNCHANGED <<rows, live, uncounted, unreserved>>
    BY <1>1 DEF Begin
  <2>2. r \notin live /\ \A x \in rows : x.request \in Requests /\ x.request # r
    BY <2>1 DEF RowInv, CreditsTypeOK, Row
  <2>3. \A q \in Requests : q # r => period'[q] = period[q]
    BY <2>1 DEF CreditsTypeOK
  <2>4. Paid(m)' = Paid(m)
    BY <2>1, <2>2, <2>3 DEF Paid, Rows
  <2>5. {q \in live' : period'[q] = m} = {q \in live : period[q] = m}
    BY <2>1, <2>2, <2>3 DEF CreditsTypeOK
  <2>6. QED
    BY <2>4, <2>5 DEF Claims
<1>2. CASE RecordUsage(r)
  <2> DEFINE row == [request |-> r, call |-> calls[r] + 1, month |-> now]
  <2>1. /\ rows' = rows \cup {row} /\ UNCHANGED <<live, period, uncounted>>
        /\ unreserved \subseteq unreserved'
        /\ row \notin unreserved' => r \in live /\ calls[r] < Estimate
    BY <1>2 DEF RecordUsage
  <2>2. row.request = r /\ row.call = calls[r] + 1 /\ calls[r] \in Nat /\ Estimate \in Nat
    BY CreditBoundsAssumption DEF CreditsTypeOK, CreditBoundsAssumption
  <2> HIDE DEF row
  <2>3. ASSUME NEW x \in Paid(m)'
        PROVE  <<x.request, x.call>> \in Claims(m)
    <3>1. CASE x \in rows
      BY <2>1, <2>3, <3>1 DEF Paid, Rows, Claims
    <3>2. CASE x = row
      <4>1. r \in live /\ period[r] = m /\ x.call \in 1..Estimate
        BY <2>1, <2>2, <2>3, <3>2 DEF Paid, Rows
      <4>2. QED
        BY <2>2, <3>2, <4>1 DEF Claims
    <3>3. QED
      BY <2>1, <2>3, <3>1, <3>2 DEF Paid, Rows
  <2>4. {q \in live' : period'[q] = m} = {q \in live : period[q] = m}
    BY <2>1
  <2>5. QED
    BY <2>3, <2>4 DEF Claims
<1>3. CASE ~Begin(r) /\ ~RecordUsage(r)
  <2>1. /\ live' \subseteq live /\ UNCHANGED <<rows, period>>
        /\ uncounted \subseteq uncounted' /\ unreserved \subseteq unreserved'
    BY <1>3 DEF GetCounter, Aggregate, SetCounter, CountUsage, Release, DropReservation,
                StepFails, Crash
  <2>2. Paid(m)' \subseteq Paid(m)
    BY <2>1 DEF Paid, Rows
  <2>3. {q \in live' : period'[q] = m} \subseteq {q \in live : period[q] = m}
    BY <2>1
  <2>4. QED
    BY <2>2, <2>3 DEF Claims
<1>4. QED
  BY <1>1, <1>2, <1>3

\* A usage being recorded is paid by a reservation or marked as not reserved.
LEMMA PendingClaims ==
    ASSUME CreditsTypeOK, RowInv, ClaimInv, NEW r \in Requests,
           \/ Begin(r) \/ GetCounter(r) \/ Aggregate(r) \/ SetCounter(r) \/ Reserve(r)
           \/ RecordUsage(r) \/ CountUsage(r) \/ Release(r) \/ DropReservation(r)
           \/ StepFails(r) \/ Crash(r)
    PROVE  \A x \in Pending' \ unreserved' : x.request \in live' /\ x.call <= Estimate
<1>1. CASE RecordUsage(r)
  <2> DEFINE row == [request |-> r, call |-> calls[r] + 1, month |-> now]
  <2>1. /\ rows' = rows \cup {row} /\ charging' = charging \cup {r} /\ live' = live
        /\ calls' = [calls EXCEPT ![r] = calls[r] + 1] /\ unreserved \subseteq unreserved'
        /\ row \notin unreserved' => r \in live /\ calls[r] < Estimate
    BY <1>1 DEF RecordUsage
  <2>2. /\ row.request = r /\ row.call = calls[r] + 1 /\ calls[r] \in Nat
        /\ Estimate \in Nat
    BY CreditBoundsAssumption DEF CreditsTypeOK, CreditBoundsAssumption
  <2> HIDE DEF row
  <2>3. ASSUME NEW x \in Pending' \ unreserved', x \in rows
        PROVE  x \in Pending \ unreserved
    <3>1. x.request \in Requests /\ x.call \in 1..calls[x.request]
      BY <2>3 DEF RowInv, CreditsTypeOK, Row
    <3>2. x.request # r
      BY <2>1, <2>2, <2>3, <3>1 DEF Pending, CreditsTypeOK
    <3>3. QED
      BY <2>1, <2>3, <3>1, <3>2 DEF Pending, CreditsTypeOK
  <2>4. QED
    BY <2>1, <2>2, <2>3 DEF ClaimInv, Pending
<1>2. CASE Release(r) \/ DropReservation(r)
  <2>1. /\ live \subseteq live' \cup {r} /\ UNCHANGED <<rows, charging, calls>>
        /\ unreserved \subseteq unreserved'
    BY <1>2 DEF Release, DropReservation
  <2>2. r \notin charging \/ Charged(r) \subseteq unreserved'
    BY <1>2 DEF Release, DropReservation, RowInv
  <2>3. QED
    BY <2>1, <2>2 DEF ClaimInv, Pending, Charged
<1>3. CASE ~RecordUsage(r) /\ ~Release(r) /\ ~DropReservation(r)
  <2>1. /\ live \subseteq live' /\ UNCHANGED <<rows, calls, unreserved>>
        /\ charging' \subseteq charging
    BY <1>3 DEF Begin, GetCounter, Aggregate, SetCounter, Reserve, CountUsage, StepFails, Crash
  <2>2. QED
    BY <2>1 DEF ClaimInv, Pending
<1>4. QED
  BY <1>1, <1>2, <1>3

\* A reservation that fits keeps the claims of its month within the limit.
LEMMA ClaimsReserve ==
    ASSUME CreditsTypeOK, RowInv, LagInv, ClaimInv, NEW r \in Requests, Reserve(r),
           NEW m \in Months
    PROVE  Cardinality(Claims(m)') <= CreditLimit
<1> DEFINE L == LiveIn(m) \cup {r}
           Cells == L \X (1..Estimate)
<1>1. /\ pc[r] = "reserve" /\ UNCHANGED <<rows, period, uncounted, unreserved>>
      /\ live' \subseteq live \cup {r}
      /\ live' = live \/ Fits(period[r])
  BY DEF Reserve
<1>2. Paid(m)' = Paid(m)
  BY <1>1 DEF Paid, Rows
<1>3. /\ Cardinality(Claims(m)) <= CreditLimit /\ Cardinality(Claims(m)) \in Nat
      /\ IsFiniteSet(Claims(m)) /\ CreditLimit \in Nat
  BY ClaimsFinite, CreditBoundsAssumption DEF ClaimInv, CreditBoundsAssumption
<1>4. CASE live' = live \/ m # period[r]
  <2>1. Claims(m)' \subseteq Claims(m)
    BY <1>1, <1>2, <1>4 DEF Claims
  <2>2. Cardinality(Claims(m)') <= Cardinality(Claims(m)) /\ Cardinality(Claims(m)') \in Nat
    BY <1>3, <2>1, FS_Subset, FS_CardinalityType
  <2>3. QED
    BY <1>3, <2>2
<1>5. CASE Fits(m) /\ m = period[r]
  <2>1. Relevant(m)
    BY <1>1, <1>5 DEF RowInv, Relevant, Reserving
  <2>2. /\ used[m] \in Nat /\ Value(m) = used[m]
        /\ Cardinality(Counted(m)) <= used[m]
    BY <1>1, <1>5, <2>1 DEF LagInv, Value, CreditsTypeOK
  <2>3. Claims(m)' \subseteq Pairs(Counted(m)) \cup Cells
    <3>1. ASSUME NEW x \in Paid(m)
          PROVE  <<x.request, x.call>> \in Pairs(Counted(m)) \cup Cells
      <4>1. CASE x \in Pending
        <5>1. x.request \in live /\ x.call <= Estimate /\ period[x.request] = m
          BY <3>1, <4>1 DEF ClaimInv, Paid, Rows
        <5>2. x.call \in 1..Estimate
          BY <3>1, <5>1, CreditBoundsAssumption
             DEF Paid, Rows, RowInv, CreditsTypeOK, Row, CreditBoundsAssumption
        <5>3. QED
          BY <5>1, <5>2 DEF LiveIn
      <4>2. CASE x \notin Pending
        BY <3>1, <4>2 DEF Paid, Counted, Pairs
      <4>3. QED
        BY <4>1, <4>2
    <3>2. {q \in live' : period'[q] = m} \subseteq L
      BY <1>1 DEF LiveIn
    <3>3. QED
      BY <1>2, <3>1, <3>2 DEF Claims
  <2>4. /\ IsFiniteSet(Pairs(Counted(m)))
        /\ Cardinality(Pairs(Counted(m))) = Cardinality(Counted(m))
    BY PairsOfRows DEF Counted, Rows
  <2>5. /\ IsFiniteSet(Cells) /\ Cardinality(Cells) = Cardinality(L) * Estimate
        /\ IsFiniteSet(LiveIn(m)) /\ Cardinality(LiveIn(m)) \in Nat /\ Cardinality(L) \in Nat
    <3>1. LiveIn(m) \in SUBSET Requests /\ L \in SUBSET Requests
      BY DEF LiveIn, CreditsTypeOK
    <3>2. QED
      BY <3>1, ClaimsFinite
  <2>6. Cardinality(L) <= Cardinality(LiveIn(m)) + 1
    <3>1. Cardinality(LiveIn(m) \cup {r}) = IF r \in LiveIn(m) THEN Cardinality(LiveIn(m))
                                            ELSE Cardinality(LiveIn(m)) + 1
      BY <2>5, FS_AddElement
    <3>2. QED
      BY <2>5, <3>1
  <2>7. /\ Estimate \in Nat
        /\ Cardinality(Counted(m)) + (Cardinality(LiveIn(m)) * Estimate) + Estimate
              <= CreditLimit
    <3>1. Estimate \in Nat /\ Cardinality(Counted(m)) \in Nat
      BY <2>4, FS_CardinalityType, CreditBoundsAssumption DEF CreditBoundsAssumption
    <3>2. used[m] + Estimate * Cardinality(LiveIn(m)) + Estimate <= CreditLimit
      BY <1>5, <2>2 DEF Fits, LiveIn
    <3>3. Estimate * Cardinality(LiveIn(m)) = Cardinality(LiveIn(m)) * Estimate
          /\ Cardinality(LiveIn(m)) * Estimate \in Nat
      BY <2>5, <3>1
    <3>4. QED
      BY <1>3, <2>2, <3>1, <3>2, <3>3
  <2>8. Cardinality(L) * Estimate <= (Cardinality(LiveIn(m)) * Estimate) + Estimate
    BY <2>5, <2>6, <2>7
  <2> HIDE DEF L, Cells
  <2>9. IsFiniteSet(Pairs(Counted(m)) \cup Cells)
        /\ Cardinality(Pairs(Counted(m)) \cup Cells)
              <= Cardinality(Counted(m)) + Cardinality(Cells)
        /\ Cardinality(Pairs(Counted(m)) \cup Cells) \in Nat
    <3>1. Cardinality(Pairs(Counted(m)) \cap Cells) \in Nat
      BY <2>5, FS_Subset, FS_CardinalityType
    <3>2. Cardinality(Pairs(Counted(m))) \in Nat /\ Cardinality(Cells) \in Nat
      BY <2>4, <2>5, FS_CardinalityType
    <3>3. IsFiniteSet(Pairs(Counted(m)) \cup Cells)
          /\ Cardinality(Pairs(Counted(m)) \cup Cells) =
                Cardinality(Pairs(Counted(m))) + Cardinality(Cells)
                   - Cardinality(Pairs(Counted(m)) \cap Cells)
      BY <2>4, <2>5, FS_Union
    <3>4. Cardinality(Pairs(Counted(m)) \cup Cells) \in Nat
      BY <3>3, FS_CardinalityType
    <3>5. QED
      BY <2>4, <3>1, <3>2, <3>3, <3>4
  <2>10. Cardinality(Claims(m)') <= Cardinality(Pairs(Counted(m)) \cup Cells)
         /\ Cardinality(Claims(m)') \in Nat
    BY <2>3, <2>9, FS_Subset, FS_CardinalityType
  <2>11. Cardinality(Counted(m)) \in Nat /\ Cardinality(L) * Estimate \in Nat
         /\ Cardinality(LiveIn(m)) * Estimate \in Nat
    BY <2>4, <2>5, <2>7, FS_CardinalityType
  <2>12. QED
    BY <1>3, <2>5, <2>7, <2>8, <2>9, <2>10, <2>11
<1>6. QED
  BY <1>1, <1>4, <1>5

\* ClaimInv is an invariant if Redis loses a counter only between the steps that rely
\* on it.
LEMMA ClaimInvariant ==
    ASSUME ~EvictionMayRace
    PROVE  Spec => []ClaimInv
<1>1. Init => ClaimInv
  <2>1. ASSUME Init, NEW m \in Months
        PROVE  Cardinality(Claims(m)) = 0
    <3>1. Claims(m) = {}
      BY <2>1 DEF Init, Claims, Paid, Rows
    <3>2. QED
      BY <3>1, FS_EmptySet
  <2>2. QED
    BY <2>1, CreditBoundsAssumption DEF Init, ClaimInv, Pending, CreditBoundsAssumption
<1>2. ASSUME CreditsTypeOK, RowInv, LagInv, ClaimInv, [Next]_creditVars
      PROVE  ClaimInv'
  <2>1. ASSUME UNCHANGED <<rows, live, period, calls, charging, uncounted, unreserved>>
        PROVE  ClaimInv'
    <3>1. \A m \in Months : Claims(m)' = Claims(m)
      BY <2>1 DEF Claims, Paid, Rows
    <3>2. Pending' \ unreserved' = Pending \ unreserved
      BY <2>1 DEF Pending
    <3>3. QED
      BY <1>2, <2>1, <3>1, <3>2 DEF ClaimInv
  <2>2. CASE UNCHANGED creditVars \/ NextMonth \/ \E m \in Months : EvictCounter(m)
    BY <2>1, <2>2 DEF creditVars, NextMonth, EvictCounter
  <2>3. ASSUME NEW r \in Requests,
               \/ Begin(r) \/ GetCounter(r) \/ Aggregate(r) \/ SetCounter(r)
               \/ Reserve(r) \/ RecordUsage(r) \/ CountUsage(r) \/ Release(r)
               \/ DropReservation(r) \/ StepFails(r) \/ Crash(r)
        PROVE  ClaimInv'
    <3>1. ASSUME NEW m \in Months, ~Reserve(r)
          PROVE  Cardinality(Claims(m)') <= CreditLimit
      <4>1. Claims(m)' \subseteq Claims(m)
        BY <1>2, <2>3, <3>1, ClaimsShrink
      <4>2. IsFiniteSet(Claims(m)) /\ Cardinality(Claims(m)) \in Nat
        BY <1>2, ClaimsFinite
      <4>3. Cardinality(Claims(m)') <= Cardinality(Claims(m)) /\ Cardinality(Claims(m)') \in Nat
        BY <4>1, <4>2, FS_Subset, FS_CardinalityType
      <4>4. Cardinality(Claims(m)) <= CreditLimit /\ CreditLimit \in Nat
        BY <1>2, CreditBoundsAssumption DEF ClaimInv, CreditBoundsAssumption
      <4>5. QED
        BY <4>2, <4>3, <4>4
    <3>2. \A m \in Months : Cardinality(Claims(m)') <= CreditLimit
      BY <1>2, <3>1, ClaimsReserve
    <3>3. \A x \in Pending' \ unreserved' : x.request \in live' /\ x.call <= Estimate
      BY <1>2, <2>3, PendingClaims
    <3>4. QED
      BY <3>2, <3>3 DEF ClaimInv
  <2>4. QED
    BY <1>2, <2>2, <2>3 DEF Next
<1>3. QED
  BY <1>1, <1>2, CreditsTypeCorrect, RowInvariant, LagInvariant, PTL DEF Spec

\* What a month's requests have spent on their reservations never exceeds its limit.
THEOREM LimitIsKept ==
    ASSUME ~EvictionMayRace
    PROVE  Spec => []CreditLimitKept
<1>1. ASSUME CreditsTypeOK, RowInv, ClaimInv
      PROVE  CreditLimitKept
  <2>1. SUFFICES ASSUME NEW m \in Months
                 PROVE  Cardinality(Paid(m)) <= CreditLimit
    BY DEF CreditLimitKept, Paid
  <2>2. /\ Cardinality(Pairs(Paid(m))) = Cardinality(Paid(m))
        /\ IsFiniteSet(Paid(m)) /\ Cardinality(Paid(m)) \in Nat
    BY <1>1, PairsOfRows, FS_CardinalityType DEF Paid, Rows
  <2>3. Pairs(Paid(m)) \subseteq Claims(m)
    BY DEF Pairs, Claims
  <2>4. IsFiniteSet(Claims(m)) /\ Cardinality(Claims(m)) \in Nat
    BY <1>1, ClaimsFinite
  <2>5. Cardinality(Pairs(Paid(m))) <= Cardinality(Claims(m))
    BY <2>3, <2>4, FS_Subset
  <2>6. Cardinality(Claims(m)) <= CreditLimit /\ CreditLimit \in Nat
    BY <1>1, CreditBoundsAssumption DEF ClaimInv, CreditBoundsAssumption
  <2>7. QED
    BY <2>2, <2>4, <2>5, <2>6
<1>2. QED
  BY <1>1, CreditsTypeCorrect, RowInvariant, ClaimInvariant, PTL

-------------------------------------------------------------------------------
(* No usage is counted twice.                                              *)

\* Rows of a month that are no longer being charged.
Settled(m) == Rows(m) \ Pending

\* Before Redis has lost a counter and the first month is over, the counter is missing
\* only while nobody has used a credit, and never exceeds the rows charged.
OnceInv ==
    evictions = 0 /\ now = 1 =>
        /\ \A r \in charging : \E x \in rows : x.request = r /\ x.call = calls[r]
        /\ used[1] = Missing =>
              /\ rows = {}
              /\ \A r \in Requests :
                    /\ pc[r] \in {"idle", "get", "aggregate", "set", "done"}
                    /\ pc[r] = "set" => seen[r] = 0
        /\ used[1] # Missing => used[1] <= Cardinality(Settled(1))

\* In the first month every request that is not idle reserved in it.
LEMMA FirstMonth ==
    ASSUME CreditsTypeOK, RowInv, now = 1
    PROVE  /\ 1 \in Months
           /\ \A r \in Requests : pc[r] # "idle" => period[r] = 1
           /\ \A x \in rows : x.request \in Requests /\ period[x.request] = 1
           /\ Rows(1) = rows
BY DEF CreditsTypeOK, RowInv, Months, Rows, Row

\* Steps that count nothing and lose no row that is settled preserve OnceInv.
LEMMA OnceFrame ==
    ASSUME CreditsTypeOK, CreditsTypeOK', OnceInv, UNCHANGED <<used, seen>>,
           evictions' = evictions, now' = 1 => now = 1,
           evictions = 0 /\ now = 1 =>
              /\ Settled(1) \subseteq Settled(1)'
              /\ used[1] = Missing => rows' = {}
              /\ \A r \in charging' : \E x \in rows' : x.request = r /\ x.call = calls'[r]
              /\ \A r \in Requests :
                    \/ pc'[r] = pc[r]
                    \/ pc'[r] \in {"idle", "get", "aggregate", "done"}
                    \/ used[1] # Missing
    PROVE  OnceInv'
<1> SUFFICES ASSUME evictions = 0, now = 1, evictions' = 0, now' = 1
             PROVE  OnceInv'
  BY DEF OnceInv
<1>1. 1 \in Months
  BY DEF CreditsTypeOK
<1>2. /\ Settled(1)' \subseteq rows' /\ Settled(1) \subseteq rows
  BY DEF Settled, Rows
<1>3. /\ IsFiniteSet(Settled(1)') /\ Cardinality(Settled(1)') \in Nat
  BY <1>2, FS_Subset, FS_CardinalityType DEF CreditsTypeOK
<1>4. Cardinality(Settled(1)) <= Cardinality(Settled(1)') /\ Cardinality(Settled(1)) \in Nat
  BY <1>3, FS_Subset, FS_CardinalityType
<1>5. used[1] # Missing => used[1] \in Nat /\ used[1] <= Cardinality(Settled(1)')
  BY <1>1, <1>3, <1>4 DEF OnceInv, CreditsTypeOK, Missing
<1>6. QED
  BY <1>5 DEF OnceInv, Missing

\* A usage that is counted is settled by it.
LEMMA OnceCount ==
    ASSUME CreditsTypeOK, CreditsTypeOK', RowInv, OnceInv, NEW r \in Requests, CountUsage(r)
    PROVE  OnceInv'
<1> SUFFICES ASSUME evictions = 0, now = 1
             PROVE  OnceInv'
  BY DEF OnceInv, CountUsage
<1>1. /\ UNCHANGED <<now, rows, period, seen, calls, evictions>>
      /\ charging' = charging \ {r} /\ r \in charging
      /\ used' = [used EXCEPT ![period[r]] = Value(period[r]) + 1]
      /\ pc[r] = "count"
  BY DEF CountUsage, RowInv
<1>2. 1 \in Months /\ period[r] = 1
  BY <1>1, FirstMonth
<1>3. used[1] # Missing /\ used[1] \in Nat /\ used[1] <= Cardinality(Settled(1))
  BY <1>1, <1>2 DEF OnceInv, CreditsTypeOK
<1>4. used'[1] = used[1] + 1
  BY <1>1, <1>2, <1>3 DEF Value, CreditsTypeOK
<1>5. PICK x \in rows : x.request = r /\ x.call = calls[r]
  BY <1>1 DEF OnceInv
<1>6. x \in Pending /\ x \notin Pending' /\ x \in Rows(1) /\ Rows(1)' = Rows(1)
  BY <1>1, <1>2, <1>5 DEF Pending, Rows
<1>7. Pending' \subseteq Pending
  BY <1>1 DEF Pending
<1>8. Settled(1) \cup {x} \subseteq Settled(1)' /\ x \notin Settled(1)
  BY <1>6, <1>7 DEF Settled
<1>9. /\ Settled(1) \subseteq rows /\ Settled(1)' \subseteq rows'
  BY DEF Settled, Rows
<1>10. /\ IsFiniteSet(Settled(1)) /\ Cardinality(Settled(1)) \in Nat
       /\ IsFiniteSet(Settled(1)') /\ Cardinality(Settled(1)') \in Nat
  BY <1>9, FS_Subset, FS_CardinalityType DEF CreditsTypeOK
<1>11. Cardinality(Settled(1) \cup {x}) = Cardinality(Settled(1)) + 1
  BY <1>8, <1>10, FS_AddElement
<1>12. Cardinality(Settled(1) \cup {x}) <= Cardinality(Settled(1)')
  BY <1>8, <1>10, FS_Subset
<1>13. used'[1] <= Cardinality(Settled(1)')
  BY <1>3, <1>4, <1>10, <1>11, <1>12
<1>14. used'[1] # Missing
  BY <1>3, <1>4 DEF Missing
<1>15. \A q \in charging' : \E y \in rows' : y.request = q /\ y.call = calls'[q]
  BY <1>1 DEF OnceInv
<1>16. QED
  BY <1>13, <1>14, <1>15 DEF OnceInv, Missing

\* Rebuilding a missing counter counts what there is.
LEMMA OnceRebuild ==
    ASSUME CreditsTypeOK, CreditsTypeOK', RowInv, OnceInv, NEW r \in Requests,
           Aggregate(r) \/ SetCounter(r)
    PROVE  OnceInv'
<1> SUFFICES ASSUME evictions = 0, now = 1
             PROVE  OnceInv'
  BY DEF OnceInv, Aggregate, SetCounter
<1>1. /\ UNCHANGED <<now, rows, period, calls, evictions, charging>>
      /\ \A q \in Requests : q # r => pc'[q] = pc[q] /\ seen'[q] = seen[q]
      /\ 1 \in Months /\ period[r] = 1
  BY FirstMonth DEF Aggregate, SetCounter, Goto, CreditsTypeOK
<1>2. Settled(1)' = Settled(1)
  BY <1>1 DEF Settled, Rows, Pending
<1>3. Settled(1) = {} => Cardinality(Settled(1)) = 0
  BY FS_EmptySet
<1>4. CASE Aggregate(r)
  <2>1. used' = used /\ pc'[r] = "set" /\ seen'[r] = Cardinality(Ledger(1))
    BY <1>1, <1>4 DEF Aggregate, Goto, CreditsTypeOK, LedgerSum
  <2>2. rows = {} => seen'[r] = 0
    BY <2>1, FS_EmptySet DEF Ledger
  <2>3. QED
    BY <1>1, <1>2, <2>1, <2>2 DEF OnceInv, Missing
<1>5. CASE SetCounter(r)
  <2>1. /\ seen' = seen /\ pc[r] = "set"
        /\ used'[1] = IF used[1] = Missing THEN seen[r] ELSE used[1]
    BY <1>1, <1>5 DEF SetCounter, SetIfMissing, CreditsTypeOK
  <2>2. CASE used[1] = Missing
    <3>1. seen[r] = 0 /\ rows = {}
      BY <2>1, <2>2 DEF OnceInv
    <3>2. Settled(1) = {}
      BY <3>1 DEF Settled, Rows
    <3>3. used'[1] = 0 /\ used'[1] <= Cardinality(Settled(1)')
      BY <1>2, <1>3, <2>1, <2>2, <3>1, <3>2
    <3>4. QED
      BY <1>1, <3>3 DEF OnceInv, Missing
  <2>3. CASE used[1] # Missing
    BY <1>1, <1>2, <2>1, <2>3 DEF OnceInv, Missing
  <2>4. QED
    BY <2>2, <2>3
<1>6. QED
  BY <1>4, <1>5

\* A recorded usage is not settled yet, and settles none.
LEMMA OnceRecord ==
    ASSUME CreditsTypeOK, CreditsTypeOK', RowInv, OnceInv, NEW r \in Requests, RecordUsage(r)
    PROVE  OnceInv'
<1> DEFINE new == [request |-> r, call |-> calls[r] + 1, month |-> now]
<1>1. /\ rows' = rows \cup {new} /\ calls' = [calls EXCEPT ![r] = calls[r] + 1]
      /\ charging' = charging \cup {r} /\ pc' = [pc EXCEPT ![r] = "get"]
      /\ pc[r] = "call" /\ UNCHANGED <<now, period, used, seen, evictions>>
  BY DEF RecordUsage, Goto
<1>2. new.request = r /\ new.call = calls[r] + 1
  OBVIOUS
<1> HIDE DEF new
<1>3. \A x \in rows : x.request \in Requests
  BY DEF CreditsTypeOK, Row
<1>4. calls'[r] = calls[r] + 1 /\ \A q \in Requests : q # r => calls'[q] = calls[q]
  BY <1>1 DEF CreditsTypeOK
<1>5. \A x \in rows : x.request = r => x.call # calls'[r]
  BY <1>3, <1>4 DEF RowInv, CreditsTypeOK, Row
<1>6. \A x \in rows : x \in Pending' => x \in Pending
  BY <1>1, <1>3, <1>4, <1>5 DEF Pending
<1>7. Settled(1) \subseteq Settled(1)'
  BY <1>1, <1>6 DEF Settled, Rows
<1>8. evictions = 0 /\ now = 1 => used[1] # Missing
  BY <1>1 DEF OnceInv
<1>9. evictions = 0 /\ now = 1 =>
         \A q \in charging' : \E x \in rows' : x.request = q /\ x.call = calls'[q]
  BY <1>1, <1>2, <1>4 DEF OnceInv, CreditsTypeOK
<1>10. QED
  BY <1>1, <1>7, <1>8, <1>9, OnceFrame

\* The other steps of a request count nothing.
LEMMA OnceOther ==
    ASSUME CreditsTypeOK, CreditsTypeOK', RowInv, OnceInv, NEW r \in Requests,
           \/ Begin(r) \/ GetCounter(r) \/ Reserve(r) \/ Release(r)
           \/ DropReservation(r) \/ StepFails(r) \/ Crash(r)
    PROVE  OnceInv'
<1>1. /\ UNCHANGED <<now, used, seen, evictions, rows, calls>>
      /\ charging' \subseteq charging
  BY DEF Begin, GetCounter, Reserve, Release, DropReservation, StepFails, Crash
<1>2. Pending' \subseteq Pending
  BY <1>1 DEF Pending
<1>3. \A x \in rows : period[x.request] = 1 => period'[x.request] = 1
  BY DEF Begin, GetCounter, Reserve, Release, DropReservation, StepFails, Crash,
         RowInv, CreditsTypeOK, Row
<1>4. Settled(1) \subseteq Settled(1)'
  BY <1>1, <1>2, <1>3 DEF Settled, Rows
<1>5. evictions = 0 /\ now = 1 =>
         \A q \in Requests :
            \/ pc'[q] = pc[q]
            \/ pc'[q] \in {"idle", "get", "aggregate", "done"}
            \/ used[1] # Missing
  <2> SUFFICES ASSUME evictions = 0, now = 1, used[1] = Missing, NEW q \in Requests
               PROVE  pc'[q] = pc[q] \/ pc'[q] \in {"idle", "get", "aggregate", "done"}
    OBVIOUS
  <2>1. /\ pc[r] \in {"idle", "get", "aggregate", "set", "done"}
        /\ charging = {}
    BY DEF OnceInv
  <2>2. pc[r] # "idle" => period[r] = 1
    BY FirstMonth
  <2>3. QED
    BY <2>1, <2>2 DEF Begin, GetCounter, Reserve, Release, DropReservation, StepFails,
                      Crash, Goto, CreditsTypeOK
<1>6. evictions = 0 /\ now = 1 =>
         /\ used[1] = Missing => rows' = {}
         /\ \A q \in charging' : \E x \in rows' : x.request = q /\ x.call = calls'[q]
  BY <1>1 DEF OnceInv
<1>7. QED
  BY <1>1, <1>4, <1>5, <1>6, OnceFrame

\* OnceInv is an invariant.
LEMMA OnceInvariant == Spec => []OnceInv
<1>1. Init => OnceInv
  <2> SUFFICES ASSUME Init PROVE OnceInv
    OBVIOUS
  <2>1. used[1] = Missing
    BY CreditBoundsAssumption DEF Init, Months
  <2>2. QED
    BY <2>1 DEF Init, OnceInv
<1>2. ASSUME CreditsTypeOK, CreditsTypeOK', RowInv, OnceInv, [Next]_creditVars
      PROVE  OnceInv'
  <2>1. CASE UNCHANGED creditVars
    BY <1>2, <2>1 DEF OnceInv, Settled, Rows, Pending, Missing, creditVars
  <2>2. CASE NextMonth
    <3>1. now' # 1
      BY <1>2, <2>2 DEF NextMonth, CreditsTypeOK, Months
    <3>2. QED
      BY <3>1 DEF OnceInv
  <2>3. ASSUME NEW m \in Months, EvictCounter(m)
        PROVE  OnceInv'
    <3>1. evictions' # 0
      BY <1>2, <2>3 DEF EvictCounter, CreditsTypeOK
    <3>2. QED
      BY <3>1 DEF OnceInv
  <2>4. QED
    BY <1>2, <2>1, <2>2, <2>3, OnceCount, OnceRebuild, OnceRecord, OnceOther DEF Next
<1>3. QED
  BY <1>1, <1>2, CreditsTypeCorrect, RowInvariant, PTL DEF Spec

\* The counter follows the usage: although requests rebuild it at the same time while
\* others charge, it never lags behind what has been counted as long as Redis loses it
\* only between the steps that rely on it, and while it is kept it counts no usage twice.
THEOREM CounterIsExact ==
    ASSUME ~EvictionMayRace
    PROVE  Spec => []CounterFollowsUsage
<1>1. ASSUME CreditsTypeOK, RowInv, OnceInv
      PROVE  CountedOnce
  <2> SUFFICES ASSUME evictions = 0, now = 1
               PROVE  used[now] <= Cardinality(Rows(now))
    BY DEF CountedOnce
  <2>1. /\ Rows(1) = rows /\ Settled(1) \subseteq rows /\ 1 \in Months
    BY <1>1, FirstMonth DEF Settled
  <2>2. /\ Cardinality(Settled(1)) <= Cardinality(Rows(1))
        /\ Cardinality(Settled(1)) \in Nat /\ Cardinality(Rows(1)) \in Nat
    BY <1>1, <2>1, RowSets
  <2>3. used[1] = Missing \/ (used[1] \in Nat /\ used[1] <= Cardinality(Settled(1)))
    BY <1>1, <2>1 DEF OnceInv, CreditsTypeOK
  <2>4. QED
    BY <2>2, <2>3 DEF Missing
<1>2. QED
  BY <1>1, CreditsTypeCorrect, RowInvariant, OnceInvariant, CounterKeepsUp, PTL
     DEF CounterFollowsUsage

===============================================================================
