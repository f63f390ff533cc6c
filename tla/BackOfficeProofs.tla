-------------------------- MODULE BackOfficeProofs --------------------------
(***************************************************************************)
(* Proofs about what happens behind the requests of a school: the events   *)
(* of the billing provider become the plan of its organization, the jobs   *)
(* of the student-analytics queue become progress, certificates, attempts  *)
(* and XP, and the instances rotate the codes of exams; for any number of  *)
(* deliveries, workers, items, exams, instances and faults.                *)
(***************************************************************************)
EXTENDS BillingEvents, StudentProgress, CodeRotation, FiniteSetTheorems, SequenceTheorems,
        TLAPS

-------------------------------------------------------------------------------
(* BillingEvents: what the requests are about.                             *)

EventRecords == [kind : Kinds, sub : Subscriptions]
Steps == {"idle", "claim", "retrieve", "read", "write", "promote", "record", "answer",
          "release"}
DeliveryRecords ==
    [step : Steps, kind : Kinds, sub : Subscriptions \cup {NoSubscription},
     event : 0..MaxEvents, current : Subscriptions \cup {NoSubscription}, wasFree : BOOLEAN]

\* A request under way is about an event of a subscription, or a return from a checkout.
AboutEvent(r) == r.step # "idle" =>
    /\ r.sub \in Subscriptions /\ remote[r.sub] # "none"
    /\ r.event # NoEvent =>
          r.event \in SentEvents /\ sent[r.event].kind = r.kind /\ sent[r.event].sub = r.sub
    /\ r.event = NoEvent => r.kind = "completed" /\ r.step # "claim"
    /\ r.step \in {"retrieve", "read"} => r.kind \in {"completed", "updated", "succeeded"}

\* A customer has one subscription at a time, which ends before its deletion is sent.
EventsInv ==
    /\ \A s, t \in Subscriptions : remote[s] = "active" /\ remote[t] = "active" => s = t
    /\ \A e \in SentEvents :
          /\ remote[sent[e].sub] # "none"
          /\ sent[e].kind = "deleted" => remote[sent[e].sub] = "canceled"
    /\ \A d \in Deliveries : AboutEvent(delivery[d])
    /\ organization.plan = "PAID" <=> organization.subscription # NoSubscription

LEMMA EventIndex ==
    ASSUME BillingTypeOK
    PROVE  /\ Len(sent) \in Nat /\ SentEvents = 1..Len(sent)
           /\ \A e \in SentEvents : sent[e] \in EventRecords /\ e # NoEvent
                                    /\ e \in 0..MaxEvents
<1>1. /\ sent \in Seq(EventRecords) /\ Len(sent) <= MaxEvents
      /\ MaxEvents \in Nat
  BY BillingAssumption DEF BillingTypeOK, EventRecords
<1>2. Len(sent) \in Nat /\ SentEvents = 1..Len(sent)
  BY <1>1 DEF SentEvents
<1>3. \A e \in SentEvents : sent[e] \in EventRecords
  BY <1>1, <1>2
<1>4. \A e \in 1..Len(sent) : e # 0 /\ e \in 0..MaxEvents
  BY <1>1, <1>2
<1>5. QED
  BY <1>2, <1>3, <1>4 DEF NoEvent

\* One more event.
LEMMA SendStep ==
    ASSUME BillingTypeOK, NEW x \in EventRecords, sent' = Append(sent, x),
           Len(sent) < MaxEvents
    PROVE  /\ SentEvents' = SentEvents \cup {Len(sent) + 1}
           /\ Len(sent) + 1 \notin SentEvents
           /\ sent'[Len(sent) + 1] = x
           /\ \A e \in SentEvents : sent'[e] = sent[e]
           /\ sent' \in Seq(EventRecords) /\ Len(sent') <= MaxEvents
BY BillingAssumption DEF BillingTypeOK, SentEvents, EventRecords

LEMMA BillingTypeInit == BillingInit => BillingTypeOK /\ EventsInv
<1> SUFFICES ASSUME BillingInit PROVE BillingTypeOK /\ EventsInv
  OBVIOUS
<1>1. PICK s \in Subscriptions \cup {NoSubscription} :
         /\ remote = [t \in Subscriptions |-> IF t = s THEN "active" ELSE "none"]
         /\ organization = [plan |-> IF s = NoSubscription THEN "FREE" ELSE "PAID",
                            subscription |-> s]
         /\ promoted = (s # NoSubscription)
  BY DEF BillingInit
<1>2. /\ sent = <<>> /\ sent \in Seq([kind : Kinds, sub : Subscriptions]) /\ Len(sent) = 0
      /\ SentEvents = {}
  BY DEF BillingInit, SentEvents
<1>3. promoted \in BOOLEAN
  BY <1>1, Zenon
<1>4. /\ answered = {} /\ claims = {} /\ applied = {} /\ excused = {}
      /\ delivery = [d \in Deliveries |-> NotThere]
      /\ syncs = 0 /\ billingFaults = 0
  BY DEF BillingInit
<1>5. NotThere \in DeliveryRecords
  BY BillingAssumption DEF NotThere, DeliveryRecords, Steps, Kinds, NoEvent
<1>6. organization \in [plan : {"FREE", "PAID"},
                         subscription : Subscriptions \cup {NoSubscription}]
  BY <1>1
<1>7. BillingTypeOK
  BY <1>1, <1>2, <1>3, <1>4, <1>5, <1>6, BillingAssumption
     DEF BillingTypeOK, DeliveryRecords, Steps
<1>8. EventsInv
  BY <1>1, <1>2, <1>4, BillingAssumption DEF EventsInv, AboutEvent, NotThere
<1>9. QED
  BY <1>7, <1>8

LEMMA StripeTypes ==
    ASSUME BillingTypeOK, EventsInv, StripeStep
    PROVE  BillingTypeOK' /\ EventsInv'
<1>1. PICK s \in Subscriptions : Subscribe(s) \/ Renew(s) \/ Cancel(s)
  BY DEF StripeStep
<1>2. PICK kind \in Kinds :
        /\ sent' = Append(sent, [kind |-> kind, sub |-> s])
        /\ \/ /\ remote[s] = "none" /\ \A t \in Subscriptions : remote[t] # "active"
              /\ remote' = [remote EXCEPT ![s] = "active"] /\ kind = "completed"
           \/ remote[s] = "active" /\ remote' = remote /\ kind # "deleted"
           \/ /\ remote[s] = "active" /\ kind = "deleted"
              /\ remote' = [remote EXCEPT ![s] = "canceled"]
  BY <1>1 DEF Subscribe, Renew, Cancel, Send, Kinds
<1>3. Len(sent) < MaxEvents
      /\ UNCHANGED <<recordVars, organization, promoted, delivery, syncs,
                       billingFaults, excused>>
  BY DEF StripeStep
<1> DEFINE x == [kind |-> kind, sub |-> s]
<1>4. x \in EventRecords
  BY DEF EventRecords
<1>5. /\ SentEvents' = SentEvents \cup {Len(sent) + 1}
      /\ Len(sent) + 1 \notin SentEvents
      /\ sent'[Len(sent) + 1] = x
      /\ \A e \in SentEvents : sent'[e] = sent[e]
      /\ sent' \in Seq(EventRecords) /\ Len(sent') <= MaxEvents
  BY <1>2, <1>3, <1>4, SendStep
<1>6. /\ remote' \in [Subscriptions -> {"none", "active", "canceled"}]
      /\ \A t \in Subscriptions : /\ remote[t] # "none" => remote'[t] # "none"
                                  /\ remote[t] = "canceled" => remote'[t] = "canceled"
      /\ \A t, u \in Subscriptions : remote'[t] = "active" /\ remote'[u] = "active" => t = u
      /\ remote'[s] # "none" /\ (kind = "deleted" => remote'[s] = "canceled")
  <2>1. remote \in [Subscriptions -> {"none", "active", "canceled"}]
    BY DEF BillingTypeOK
  <2>2. \A t, u \in Subscriptions : remote[t] = "active" /\ remote[u] = "active" => t = u
    BY DEF EventsInv
  <2>3. QED
    BY <1>2, <2>1, <2>2
<1>7. BillingTypeOK'
  BY <1>3, <1>5, <1>6 DEF BillingTypeOK, recordVars, EventRecords
<1>8. \A e \in SentEvents' : /\ remote'[sent'[e].sub] # "none"
                             /\ sent'[e].kind = "deleted" => remote'[sent'[e].sub] = "canceled"
  <2>1. \A e \in SentEvents : sent[e] \in EventRecords
    BY EventIndex
  <2>2. QED
    BY <1>5, <1>6, <2>1 DEF EventsInv, EventRecords
<1>9. EventsInv'
  <2>1. \A d \in Deliveries : AboutEvent(delivery[d])'
    BY <1>3, <1>5, <1>6 DEF EventsInv, AboutEvent
  <2>2. QED
    BY <1>3, <1>6, <1>8, <2>1 DEF EventsInv
<1>10. QED
  BY <1>7, <1>9

\* A step of one request, whose record becomes r.
LEMMA RequestTypes ==
    ASSUME BillingTypeOK, EventsInv, NEW d \in Deliveries, NEW r \in DeliveryRecords,
           delivery' = [delivery EXCEPT ![d] = r], AboutEvent(r),
           UNCHANGED stripeVars,
           {answered', claims', applied'} \subseteq SUBSET SentEvents,
           organization' \in [plan : {"FREE", "PAID"},
                              subscription : Subscriptions \cup {NoSubscription}],
           organization'.plan = "PAID" <=> organization'.subscription # NoSubscription,
           promoted' \in BOOLEAN, syncs' \in 0..MaxSyncs,
           billingFaults' \in 0..MaxBillingFaults,
           excused' \subseteq {"overlap", "late", "foreign", "halfway", "stranded"}
    PROVE  BillingTypeOK' /\ EventsInv'
<1>1. sent' = sent /\ remote' = remote /\ SentEvents' = SentEvents
  BY DEF stripeVars, SentEvents
<1>2. delivery' \in [Deliveries -> DeliveryRecords]
  BY DEF BillingTypeOK, DeliveryRecords, Steps
<1>3. BillingTypeOK'
  BY <1>1, <1>2 DEF BillingTypeOK, DeliveryRecords, Steps
<1>4. \A x \in Deliveries : AboutEvent(delivery'[x])
  BY DEF EventsInv, BillingTypeOK
<1>5. \A x \in Deliveries : AboutEvent(delivery[x])'
  BY <1>1, <1>4 DEF AboutEvent
<1>6. QED
  BY <1>1, <1>3, <1>5 DEF EventsInv

LEMMA RequestRecord ==
    ASSUME BillingTypeOK, NEW d \in Deliveries
    PROVE  /\ delivery[d] \in DeliveryRecords
           /\ NotThere \in DeliveryRecords /\ AboutEvent(NotThere)
           /\ \A step \in Steps : [delivery[d] EXCEPT !.step = step] \in DeliveryRecords
<1>1. delivery[d] \in DeliveryRecords
  BY DEF BillingTypeOK, DeliveryRecords, Steps
<1>2. NotThere \in DeliveryRecords /\ AboutEvent(NotThere)
  BY BillingAssumption DEF NotThere, DeliveryRecords, Steps, Kinds, NoEvent, AboutEvent
<1>3. QED
  BY <1>1, <1>2 DEF DeliveryRecords

\* Whoever goes on with the same event is still about it.
LEMMA StillAbout ==
    ASSUME BillingTypeOK, EventsInv, NEW d \in Deliveries, NEW step \in Steps,
           delivery[d].step # "idle", step # "claim",
           step \in {"retrieve", "read"} =>
               delivery[d].kind \in {"completed", "updated", "succeeded"}
    PROVE  AboutEvent([delivery[d] EXCEPT !.step = step])
<1>1. delivery[d] \in DeliveryRecords /\ AboutEvent(delivery[d])
  BY RequestRecord DEF EventsInv
<1>2. QED
  BY <1>1 DEF AboutEvent, DeliveryRecords

ExcusesOK == excused \subseteq {"overlap", "late", "foreign", "halfway", "stranded"}
OrganizationOK ==
    /\ organization \in [plan : {"FREE", "PAID"},
                         subscription : Subscriptions \cup {NoSubscription}]
    /\ organization.plan = "PAID" <=> organization.subscription # NoSubscription

LEMMA RequestTypeStep ==
    ASSUME BillingTypeOK, EventsInv, NEW d \in Deliveries, DeliveryStep(d)
    PROVE  BillingTypeOK' /\ EventsInv'
<1>0. /\ delivery[d] \in DeliveryRecords
      /\ NotThere \in DeliveryRecords /\ AboutEvent(NotThere)
      /\ \A step \in Steps : [delivery[d] EXCEPT !.step = step] \in DeliveryRecords
  BY RequestRecord
<1>a. /\ OrganizationOK /\ ExcusesOK /\ promoted \in BOOLEAN /\ syncs \in 0..MaxSyncs
      /\ billingFaults \in 0..MaxBillingFaults
      /\ {answered, claims, applied} \subseteq SUBSET SentEvents
  BY DEF BillingTypeOK, EventsInv, OrganizationOK, ExcusesOK
<1>b. AboutEvent(delivery[d])
  BY DEF EventsInv
<1> DEFINE To(step) == [delivery[d] EXCEPT !.step = step]
<1>c. \A step : Proceed(d, step) => delivery' = [delivery EXCEPT ![d] = To(step)]
  BY DEF Proceed
<1> USE DEF At
<1>1. ASSUME NEW e \in SentEvents, Deliver(d, e) PROVE BillingTypeOK' /\ EventsInv'
  <2> DEFINE r == [NotThere EXCEPT !.step = "claim", !.kind = sent[e].kind,
                     !.sub = sent[e].sub, !.event = e, !.current = organization.subscription]
  <2>1. sent[e] \in EventRecords /\ e # NoEvent /\ e \in 0..MaxEvents
    BY EventIndex
  <2>2. r \in DeliveryRecords
    <3>1. /\ sent[e].kind \in Kinds /\ sent[e].sub \in Subscriptions
          /\ organization.subscription \in Subscriptions \cup {NoSubscription}
      BY <1>a, <2>1 DEF EventRecords, OrganizationOK
    <3>2. \A q \in DeliveryRecords, k \in Kinds, s \in Subscriptions, i \in 0..MaxEvents,
             c \in Subscriptions \cup {NoSubscription} :
             [q EXCEPT !.step = "claim", !.kind = k, !.sub = s, !.event = i, !.current = c]
                 \in DeliveryRecords
      BY DEF DeliveryRecords, Steps
    <3>3. QED
      BY <1>0, <2>1, <3>1, <3>2
  <2>3. r.step = "claim" /\ r.kind = sent[e].kind /\ r.sub = sent[e].sub /\ r.event = e
    BY DEF NotThere
  <2>4. AboutEvent(r)
    BY <2>1, <2>3 DEF AboutEvent, EventRecords, EventsInv
  <2>5. /\ delivery' = [delivery EXCEPT ![d] = r]
        /\ UNCHANGED <<stripeVars, recordVars, organization, promoted, syncs, billingFaults,
                       excused>>
    BY <1>1 DEF Deliver
  <2> HIDE DEF r
  <2>6. QED
    BY <1>a, <2>2, <2>4, <2>5, RequestTypes DEF recordVars, OrganizationOK, ExcusesOK
<1>2. ASSUME NEW s \in Subscriptions, ReturnFromCheckout(d, s)
      PROVE  BillingTypeOK' /\ EventsInv'
  <2> DEFINE r == [NotThere EXCEPT !.step = "retrieve", !.sub = s]
  <2>0. /\ delivery' = [delivery EXCEPT ![d] = r]
        /\ syncs < MaxSyncs /\ syncs' = syncs + 1
        /\ remote[s] # "none"
        /\ excused' = excused \cup Overlaps
        /\ UNCHANGED <<stripeVars, recordVars, organization, promoted, billingFaults>>
    BY <1>2 DEF ReturnFromCheckout
  <2>1. syncs' \in 0..MaxSyncs
    BY <1>a, <2>0, BillingAssumption
  <2>2. r \in DeliveryRecords
    <3>1. \A q \in DeliveryRecords :
             [q EXCEPT !.step = "retrieve", !.sub = s] \in DeliveryRecords
      BY DEF DeliveryRecords, Steps
    <3>2. QED
      BY <1>0, <3>1
  <2>3. AboutEvent(r)
    BY <2>0 DEF AboutEvent, NotThere, NoEvent
  <2>4. excused' \subseteq {"overlap", "late", "foreign", "halfway", "stranded"}
    BY <1>a, <2>0 DEF ExcusesOK, Overlaps
  <2> HIDE DEF r
  <2>5. QED
    BY <1>a, <2>0, <2>1, <2>2, <2>3, <2>4, RequestTypes DEF recordVars, OrganizationOK
<1>3. ASSUME Claim(d) PROVE BillingTypeOK' /\ EventsInv'
  <2>1. delivery[d].event \in SentEvents
    BY <1>3, <1>b DEF Claim, AboutEvent
  <2>2. CASE delivery' = [delivery EXCEPT ![d] = NotThere]
            /\ answered' = answered \cup {delivery[d].event} /\ UNCHANGED <<claims, excused>>
    BY <1>0, <1>3, <1>a, <2>1, <2>2, RequestTypes DEF Claim, OrganizationOK, ExcusesOK
  <2>3. CASE /\ claims' = claims \cup {delivery[d].event}
             /\ Proceed(d, IF Retrieves(d) THEN "retrieve" ELSE "write")
             /\ excused' = excused \cup Overlaps
             /\ UNCHANGED answered
    <3> DEFINE step == IF Retrieves(d) THEN "retrieve" ELSE "write"
    <3>1. step \in Steps /\ To(step) \in DeliveryRecords
      BY <1>0 DEF Steps
    <3>2. AboutEvent(To(step))
      BY <1>3, <3>1, StillAbout DEF Retrieves, Claim
    <3>3. excused' \subseteq {"overlap", "late", "foreign", "halfway", "stranded"}
      BY <1>a, <2>3 DEF ExcusesOK, Overlaps
    <3>4. delivery' = [delivery EXCEPT ![d] = To(step)]
      BY <1>c, <2>3
    <3>5. QED
      BY <1>3, <1>a, <2>1, <2>3, <3>1, <3>2, <3>3, <3>4, RequestTypes
         DEF Claim, OrganizationOK
  <2>4. QED
    BY <1>3, <2>2, <2>3 DEF Claim
<1>4. ASSUME RetrieveSubscription(d) PROVE BillingTypeOK' /\ EventsInv'
  <2> DEFINE step == IF delivery[d].kind = "updated" /\ IsStale(d) THEN "record" ELSE "read"
  <2>1. step \in Steps /\ To(step) \in DeliveryRecords
    BY <1>0 DEF Steps
  <2>2. AboutEvent(To(step))
    BY <1>4, <1>b, <2>1, StillAbout DEF RetrieveSubscription, AboutEvent
  <2>3. /\ delivery' = [delivery EXCEPT ![d] = To(step)]
        /\ excused' \subseteq excused \cup {"late"}
        /\ UNCHANGED <<stripeVars, recordVars, organization, promoted, syncs, billingFaults>>
    BY <1>4, <1>c DEF RetrieveSubscription
  <2>4. excused' \subseteq {"overlap", "late", "foreign", "halfway", "stranded"}
    BY <1>a, <2>3 DEF ExcusesOK
  <2> HIDE DEF step
  <2>5. QED
    BY <1>a, <2>1, <2>2, <2>3, <2>4, RequestTypes DEF recordVars, OrganizationOK
<1>5. ASSUME ReadPlan(d) PROVE BillingTypeOK' /\ EventsInv'
  <2> DEFINE r == [delivery[d] EXCEPT !.step = "write", !.wasFree = organization.plan = "FREE"]
  <2>1. r \in DeliveryRecords
    <3>1. (organization.plan = "FREE") \in BOOLEAN
      OBVIOUS
    <3>2. QED
      BY <1>0, <3>1 DEF DeliveryRecords, Steps
  <2>2. /\ r.step = "write" /\ r.kind = delivery[d].kind /\ r.sub = delivery[d].sub
        /\ r.event = delivery[d].event /\ delivery[d].step = "read"
    BY <1>0, <1>5 DEF DeliveryRecords, ReadPlan
  <2>3. AboutEvent(r)
    BY <1>b, <2>2 DEF AboutEvent
  <2>4. /\ delivery' = [delivery EXCEPT ![d] = r]
        /\ UNCHANGED <<stripeVars, recordVars, organization, promoted, syncs, billingFaults,
                       excused>>
    BY <1>5 DEF ReadPlan
  <2> HIDE DEF r
  <2>5. QED
    BY <1>a, <2>1, <2>3, <2>4, RequestTypes DEF recordVars, OrganizationOK, ExcusesOK
<1>6. ASSUME WritePlan(d) PROVE BillingTypeOK' /\ EventsInv'
  <2> DEFINE step == IF delivery[d].wasFree THEN "promote" ELSE "record"
  <2>1. step \in Steps /\ To(step) \in DeliveryRecords
    BY <1>0 DEF Steps
  <2>2. AboutEvent(To(step))
    BY <1>6, <2>1, StillAbout DEF WritePlan
  <2>3. /\ delivery' = [delivery EXCEPT ![d] = To(step)]
        /\ excused' \subseteq excused \cup {"foreign"}
        /\ UNCHANGED <<stripeVars, recordVars, promoted, syncs, billingFaults>>
    BY <1>6, <1>c DEF WritePlan
  <2>4. excused' \subseteq {"overlap", "late", "foreign", "halfway", "stranded"}
    BY <1>a, <2>3 DEF ExcusesOK
  <2>5. OrganizationOK'
    <3>1. delivery[d].sub \in Subscriptions
      BY <1>6, <1>b DEF WritePlan, AboutEvent
    <3>2. \/ organization' = [plan |-> "PAID", subscription |-> delivery[d].sub]
          \/ organization' = [plan |-> "FREE", subscription |-> NoSubscription]
          \/ organization' = organization
      BY <1>0, <1>6, <1>b DEF WritePlan, Retrieves, DeliveryRecords, Kinds
    <3>3. QED
      BY <1>a, <3>1, <3>2, BillingAssumption DEF OrganizationOK
  <2> HIDE DEF step
  <2>6. QED
    BY <1>a, <2>1, <2>2, <2>3, <2>4, <2>5, RequestTypes DEF recordVars, OrganizationOK
<1>7. ASSUME PromoteOwner(d) \/ RecordOutcome(d) PROVE BillingTypeOK' /\ EventsInv'
  <2>1. PICK step \in {"record", "answer"} :
           /\ delivery' = [delivery EXCEPT ![d] = To(step)]
           /\ UNCHANGED <<stripeVars, answered, organization, syncs, billingFaults, excused>>
           /\ promoted' \in {promoted, TRUE}
           /\ \/ claims' \subseteq (claims \cup {delivery[d].event}) \ {NoEvent}
              \/ claims' = claims
           /\ applied' \subseteq (applied \cup {delivery[d].event}) \ {NoEvent}
              \/ applied' = applied
    BY <1>7, <1>c DEF PromoteOwner, RecordOutcome, recordVars
  <2>2. delivery[d].event \in SentEvents \cup {NoEvent} /\ delivery[d].step # "idle"
    BY <1>7, <1>b DEF AboutEvent, PromoteOwner, RecordOutcome
  <2>3. {answered', claims', applied'} \subseteq SUBSET SentEvents
    BY <1>a, <2>1, <2>2
  <2>4. step \in Steps /\ To(step) \in DeliveryRecords /\ AboutEvent(To(step))
    BY <1>0, <2>2, StillAbout DEF Steps
  <2>5. QED
    BY <1>a, <2>1, <2>3, <2>4, RequestTypes DEF OrganizationOK, ExcusesOK
<1>8. ASSUME Answer(d) PROVE BillingTypeOK' /\ EventsInv'
  <2>1. delivery[d].event \in SentEvents \cup {NoEvent}
    BY <1>8, <1>b DEF AboutEvent, Answer
  <2>2. QED
    BY <1>0, <1>8, <1>a, <2>1, RequestTypes DEF Answer, OrganizationOK, ExcusesOK
<1>9. ASSUME DeliveryFails(d) \/ ReleaseClaim(d) \/ CrashDelivery(d)
      PROVE  BillingTypeOK' /\ EventsInv'
  <2>1. /\ \/ delivery' = [delivery EXCEPT ![d] = NotThere]
           \/ delivery' = [delivery EXCEPT ![d] = To("release")]
        /\ delivery[d].step # "idle"
        /\ UNCHANGED <<stripeVars, answered, applied, organization, promoted, syncs>>
        /\ claims' \subseteq claims
        /\ excused' \subseteq excused \cup {"halfway", "stranded"}
        /\ billingFaults' = billingFaults
           \/ (billingFaults < MaxBillingFaults /\ billingFaults' = billingFaults + 1)
    BY <1>9, <1>c DEF DeliveryFails, ReleaseClaim, CrashDelivery, recordVars, Fault, Halfway
  <2>2. billingFaults' \in 0..MaxBillingFaults
    BY <1>a, <2>1, BillingAssumption
  <2>3. To("release") \in DeliveryRecords /\ AboutEvent(To("release"))
    BY <1>0, <2>1, StillAbout DEF Steps
  <2>4. excused' \subseteq {"overlap", "late", "foreign", "halfway", "stranded"}
    BY <1>a, <2>1 DEF ExcusesOK
  <2>5. PICK r \in {NotThere, To("release")} : delivery' = [delivery EXCEPT ![d] = r]
    BY <2>1
  <2>6. {answered', claims', applied'} \subseteq SUBSET SentEvents
    BY <1>a, <2>1
  <2>7. QED
    BY <1>0, <1>a, <2>1, <2>2, <2>3, <2>4, <2>5, <2>6, RequestTypes DEF OrganizationOK
<1>10. QED
  BY <1>1, <1>2, <1>3, <1>4, <1>5, <1>6, <1>7, <1>8, <1>9 DEF DeliveryStep

LEMMA BillingTypeStep ==
    BillingTypeOK /\ EventsInv /\ [BillingNext]_billingVars => BillingTypeOK' /\ EventsInv'
<1> SUFFICES ASSUME BillingTypeOK, EventsInv, [BillingNext]_billingVars
             PROVE  BillingTypeOK' /\ EventsInv'
  OBVIOUS
<1>1. CASE UNCHANGED billingVars
  BY <1>1 DEF billingVars, stripeVars, recordVars, BillingTypeOK, EventsInv, AboutEvent,
              SentEvents
<1>2. QED
  BY <1>1, StripeTypes, RequestTypeStep DEF BillingNext

\* Every variable of BillingEvents keeps its type.
THEOREM BillingTypeCorrect == BillingSpec => []BillingTypeOK
<1>1. QED
  BY BillingTypeInit, BillingTypeStep, PTL DEF BillingSpec

-------------------------------------------------------------------------------
(* BillingEvents: no event is lost, and whoever pays is promoted.          *)

\* The records of the requests after a step of one of them.
Others(d) == \A g \in Deliveries \ {d} : delivery'[g] = delivery[g]
Same(d) ==
    /\ delivery'[d].kind = delivery[d].kind /\ delivery'[d].sub = delivery[d].sub
    /\ delivery'[d].event = delivery[d].event /\ delivery'[d].wasFree = delivery[d].wasFree

LEMMA Proceeds ==
    ASSUME BillingTypeOK, NEW d \in Deliveries, NEW step, Proceed(d, step)
    PROVE  delivery'[d].step = step /\ Same(d) /\ Others(d)
<1>1. delivery \in [Deliveries -> DeliveryRecords]
  BY DEF BillingTypeOK, DeliveryRecords, Steps
<1>2. QED
  BY <1>1 DEF Proceed, Same, Others, DeliveryRecords

LEMMA Leaves ==
    ASSUME BillingTypeOK, NEW d \in Deliveries, delivery' = [delivery EXCEPT ![d] = NotThere]
    PROVE  delivery'[d] = NotThere /\ delivery'[d].step = "idle" /\ Others(d)
BY DEF BillingTypeOK, Others, NotThere

\* A claim is held by the request that deals with its event until the event is applied,
\* and what is answered has been claimed.
HeldInv ==
    /\ \A d \in Deliveries : At(d, "answer") => delivery[d].event \in applied \cup {NoEvent}
    /\ "stranded" \notin excused =>
          /\ answered \ applied \subseteq claims
          /\ \A e \in claims \ applied : \E d \in Handling : delivery[d].event = e

\* Steps that leave the events and their holders as they are.
LEMMA StillHeld ==
    ASSUME HeldInv, NEW d \in Deliveries, Others(d),
           UNCHANGED <<answered, claims, applied>>, excused \subseteq excused',
           delivery'[d].step # "answer",
           d \in Handling /\ delivery[d].event # NoEvent =>
               delivery'[d].step \notin {"idle", "claim"}
               /\ delivery'[d].event = delivery[d].event,
           NoEvent \notin claims
    PROVE  HeldInv'
BY DEF HeldInv, Handling, At, Others

LEMMA HeldStep ==
    BillingTypeOK /\ EventsInv /\ HeldInv /\ [BillingNext]_billingVars => HeldInv'
<1> SUFFICES ASSUME BillingTypeOK, EventsInv, HeldInv, [BillingNext]_billingVars
             PROVE  HeldInv'
  OBVIOUS
<1>0. /\ NoEvent \notin SentEvents /\ NoEvent \notin claims
  <2>1. NoEvent \notin SentEvents
    BY EventIndex
  <2>2. QED
    BY <2>1 DEF BillingTypeOK
<1>1. CASE UNCHANGED billingVars
  BY <1>1 DEF billingVars, recordVars, HeldInv, Handling, At
<1>2. CASE StripeStep
  BY <1>2 DEF StripeStep, recordVars, HeldInv, Handling, At
<1>3. ASSUME NEW d \in Deliveries, NEW e \in SentEvents, Deliver(d, e) PROVE HeldInv'
  <2>1. delivery'[d].step = "claim" /\ Others(d)
    BY <1>3 DEF Deliver, Others, BillingTypeOK, NotThere
  <2>2. d \notin Handling
    BY <1>3 DEF Deliver, Handling, At
  <2>3. UNCHANGED <<answered, claims, applied, excused>>
    BY <1>3 DEF Deliver, recordVars
  <2>4. QED
    BY <1>0, <2>1, <2>2, <2>3, StillHeld
<1>4. ASSUME NEW d \in Deliveries, NEW s \in Subscriptions, ReturnFromCheckout(d, s)
      PROVE  HeldInv'
  <2>1. delivery'[d].step = "retrieve" /\ Others(d)
    BY <1>4 DEF ReturnFromCheckout, Others, BillingTypeOK, NotThere
  <2>2. d \notin Handling
    BY <1>4 DEF ReturnFromCheckout, Handling, At
  <2>3. UNCHANGED <<answered, claims, applied>> /\ excused \subseteq excused'
    BY <1>4 DEF ReturnFromCheckout, recordVars
  <2>4. QED
    BY <1>0, <2>1, <2>2, <2>3, StillHeld
<1>5. ASSUME NEW d \in Deliveries, Claim(d) PROVE HeldInv'
  <2>1. CASE /\ delivery[d].event \in claims
             /\ answered' = answered \cup {delivery[d].event}
             /\ delivery' = [delivery EXCEPT ![d] = NotThere]
             /\ UNCHANGED <<claims, excused>>
    <3>1. delivery'[d].step = "idle" /\ Others(d) /\ applied' = applied
      BY <1>5, <2>1, Leaves DEF Claim
    <3>2. \A g \in Handling : g \in Handling' /\ delivery'[g].event = delivery[g].event
      BY <1>5, <3>1 DEF Claim, At, Handling, Others
    <3>3. \A g \in Deliveries : At(g, "answer")' =>
                              delivery'[g].event \in applied' \cup {NoEvent}
      BY <3>1 DEF HeldInv, At, Others
    <3>4. QED
      BY <2>1, <3>1, <3>2, <3>3 DEF HeldInv
  <2>2. CASE /\ claims' = claims \cup {delivery[d].event}
             /\ Proceed(d, IF Retrieves(d) THEN "retrieve" ELSE "write")
             /\ excused' = excused \cup Overlaps
             /\ UNCHANGED answered
    <3>1. /\ delivery'[d].step \in {"retrieve", "write"} /\ Same(d) /\ Others(d)
      BY <2>2, Proceeds
    <3>2. d \in Handling' /\ Handling \subseteq Handling'
      BY <1>5, <3>1 DEF Handling, Others, Claim, At
    <3>3. \A g \in Handling : delivery'[g].event = delivery[g].event
      BY <3>1 DEF Same, Others, Handling
    <3>4. excused \subseteq excused' /\ applied' = applied
      BY <1>5, <2>2 DEF Claim
    <3>5. \A e \in claims' \ applied' :
              e \in claims \ applied \/ (d \in Handling' /\ delivery'[d].event = e)
      BY <2>2, <3>1, <3>2, <3>4 DEF Same
    <3>6. "stranded" \notin excused' =>
              /\ answered' \ applied' \subseteq claims'
              /\ \A e \in claims' \ applied' : \E g \in Handling' : delivery'[g].event = e
      BY <2>2, <3>2, <3>3, <3>4, <3>5 DEF HeldInv
    <3>7. \A g \in Deliveries : At(g, "answer")' =>
                              delivery'[g].event \in applied' \cup {NoEvent}
      BY <3>1, <3>4 DEF HeldInv, At, Others
    <3>8. QED
      BY <3>6, <3>7 DEF HeldInv
  <2>3. QED
    BY <1>5, <2>1, <2>2 DEF Claim
<1>6. ASSUME NEW d \in Deliveries,
             RetrieveSubscription(d) \/ ReadPlan(d) \/ WritePlan(d) \/ PromoteOwner(d)
      PROVE  HeldInv'
  <2>1. /\ delivery'[d].step \in {"read", "write", "promote", "record"}
        /\ delivery'[d].event = delivery[d].event /\ Others(d)
    <3>1. CASE RetrieveSubscription(d) \/ WritePlan(d) \/ PromoteOwner(d)
      BY <3>1, Proceeds DEF RetrieveSubscription, WritePlan, PromoteOwner, Same
    <3>2. CASE ReadPlan(d)
      <4>1. delivery \in [Deliveries -> DeliveryRecords]
        BY DEF BillingTypeOK, DeliveryRecords, Steps
      <4>2. QED
        BY <3>2, <4>1 DEF ReadPlan, Others, DeliveryRecords
    <3>3. QED
      BY <1>6, <3>1, <3>2
  <2>2. UNCHANGED <<answered, claims, applied>> /\ excused \subseteq excused'
    BY <1>6 DEF RetrieveSubscription, ReadPlan, WritePlan, PromoteOwner, recordVars
  <2>3. QED
    BY <1>0, <2>1, <2>2, StillHeld
<1>7. ASSUME NEW d \in Deliveries, RecordOutcome(d) PROVE HeldInv'
  <2>1. delivery'[d].step = "answer" /\ Same(d) /\ Others(d)
    BY <1>7, Proceeds DEF RecordOutcome
  <2>2. /\ claims' = (claims \cup {delivery[d].event}) \ {NoEvent}
        /\ applied' = (applied \cup {delivery[d].event}) \ {NoEvent}
        /\ UNCHANGED <<answered, excused>> /\ delivery[d].step = "record"
    BY <1>7 DEF RecordOutcome, At
  <2>3. NoEvent \notin applied /\ NoEvent \notin answered
    BY <1>0 DEF BillingTypeOK
  <2>4. claims' \ applied' \subseteq claims \ applied
        /\ answered' \ applied' \subseteq answered \ applied
        /\ applied \subseteq applied' /\ claims \subseteq claims'
    BY <1>0, <2>2, <2>3
  <2>5. \A g \in Handling : g \in Handling' /\ delivery'[g].event = delivery[g].event
    BY <2>1, <2>2 DEF Handling, Same, Others
  <2>6. \A g \in Deliveries : At(g, "answer")' =>
                              delivery'[g].event \in applied' \cup {NoEvent}
    BY <2>1, <2>2, <2>4 DEF HeldInv, At, Others, Same
  <2>7. QED
    BY <2>2, <2>4, <2>5, <2>6 DEF HeldInv
<1>8. ASSUME NEW d \in Deliveries, Answer(d) PROVE HeldInv'
  <2>1. /\ answered' = (answered \cup {delivery[d].event}) \ {NoEvent}
        /\ delivery[d].step = "answer" /\ UNCHANGED <<claims, applied, excused>>
        /\ delivery'[d].step = "idle" /\ Others(d)
    BY <1>8, Leaves DEF Answer, At
  <2>2. delivery[d].event \in applied \cup {NoEvent}
    BY <2>1 DEF HeldInv, At
  <2>3. \A g \in Handling :
           g = d \/ (g \in Handling' /\ delivery'[g].event = delivery[g].event)
    BY <2>1 DEF Handling, Others
  <2>4. \A g \in Deliveries : At(g, "answer")' =>
                              delivery'[g].event \in applied' \cup {NoEvent}
    BY <2>1 DEF HeldInv, At, Others
  <2>5. answered' \ applied' \subseteq answered \ applied
    BY <2>1, <2>2
  <2>6. QED
    BY <1>0, <2>1, <2>2, <2>3, <2>4, <2>5 DEF HeldInv
<1>9. ASSUME NEW d \in Deliveries, DeliveryFails(d) PROVE HeldInv'
  <2>1. /\ UNCHANGED <<answered, claims, applied>> /\ excused \subseteq excused'
        /\ Others(d)
        /\ \/ delivery'[d].step = "release" /\ Same(d)
           \/ delivery'[d].step = "idle" /\ (d \notin Handling \/ delivery[d].event = NoEvent)
    BY <1>9, Leaves, Proceeds DEF DeliveryFails, recordVars
  <2>2. QED
    BY <1>0, <2>1, StillHeld DEF Same
<1>10. ASSUME NEW d \in Deliveries, ReleaseClaim(d) PROVE HeldInv'
  <2>1. /\ \/ claims' = claims \ {delivery[d].event}
           \/ claims' = claims
        /\ excused' = IF delivery[d].event \in (answered \cup claims') \ applied
                      THEN excused \cup {"stranded"} ELSE excused
        /\ UNCHANGED <<answered, applied>>
        /\ delivery'[d].step = "idle" /\ Others(d)
    BY <1>10, Leaves DEF ReleaseClaim
  <2>2. CASE delivery[d].event \in (answered \cup claims') \ applied
    BY <2>1, <2>2 DEF HeldInv, Handling, At, Others
  <2>3. CASE delivery[d].event \notin (answered \cup claims') \ applied
    BY <2>1, <2>3 DEF HeldInv, Handling, At, Others
  <2>4. QED
    BY <2>2, <2>3
<1>11. ASSUME NEW d \in Deliveries, CrashDelivery(d) PROVE HeldInv'
  <2>1. /\ UNCHANGED <<answered, claims, applied>> /\ excused \subseteq excused'
        /\ delivery'[d].step = "idle" /\ Others(d)
        /\ d \in Handling /\ delivery[d].event \notin applied \cup {NoEvent}
               => "stranded" \in excused'
    BY <1>11, Leaves DEF CrashDelivery, recordVars
  <2>2. QED
    BY <1>0, <2>1 DEF HeldInv, Handling, At, Others
<1>12. QED
  BY <1>1, <1>2, <1>3, <1>4, <1>5, <1>6, <1>7, <1>8, <1>9, <1>10, <1>11
     DEF BillingNext, DeliveryStep

\* While a plan is paid, or about to be written by a request that found it paid, and its
\* owner is not promoted yet, some request is about to promote the owner.
PromotedInv ==
    /\ "halfway" \notin excused /\ ~promoted
    /\ \/ organization.plan = "PAID"
       \/ \E d \in Deliveries : At(d, "write") /\ Retrieves(d) /\ ~delivery[d].wasFree
    => \E d \in Deliveries : At(d, "promote")

LEMMA PromotedStep ==
    BillingTypeOK /\ EventsInv /\ PromotedInv /\ [BillingNext]_billingVars => PromotedInv'
<1> SUFFICES ASSUME BillingTypeOK, EventsInv, PromotedInv, [BillingNext]_billingVars,
                    "halfway" \notin excused', ~promoted',
                    \/ organization'.plan = "PAID"
                    \/ \E d \in Deliveries :
                          At(d, "write")' /\ Retrieves(d)' /\ ~delivery'[d].wasFree
             PROVE  \E d \in Deliveries : At(d, "promote")'
  BY DEF PromotedInv
<1>0. ASSUME NEW d \in Deliveries, Others(d), delivery'[d].step \notin {"write", "promote"},
             delivery[d].step # "promote",
             UNCHANGED <<organization, promoted>>, excused \subseteq excused'
      PROVE  \E g \in Deliveries : At(g, "promote")'
  <2>1. PICK g \in Deliveries : At(g, "promote")
    BY <1>0 DEF PromotedInv, At, Retrieves, Others
  <2>2. At(g, "promote")'
    BY <1>0, <2>1 DEF At, Others
  <2>3. QED
    BY <2>2
<1>1. CASE UNCHANGED billingVars
  BY <1>1 DEF billingVars, PromotedInv, At, Retrieves
<1>2. CASE StripeStep
  BY <1>2 DEF StripeStep, PromotedInv, At, Retrieves
<1>3. ASSUME NEW d \in Deliveries,
             \/ \E e \in SentEvents : Deliver(d, e)
             \/ \E s \in Subscriptions : ReturnFromCheckout(d, s)
      PROVE  \E g \in Deliveries : At(g, "promote")'
  <2>1. ASSUME NEW e \in SentEvents, Deliver(d, e)
        PROVE  \E g \in Deliveries : At(g, "promote")'
    <3>1. delivery'[d].step = "claim" /\ Others(d)
      BY <2>1 DEF Deliver, Others, BillingTypeOK, NotThere
    <3>2. UNCHANGED <<organization, promoted, excused>> /\ delivery[d].step = "idle"
      BY <2>1 DEF Deliver, At
    <3>3. QED
      BY <1>0, <3>1, <3>2
  <2>2. ASSUME NEW s \in Subscriptions, ReturnFromCheckout(d, s)
        PROVE  \E g \in Deliveries : At(g, "promote")'
    <3>1. delivery'[d].step = "retrieve" /\ Others(d)
      BY <2>2 DEF ReturnFromCheckout, Others, BillingTypeOK, NotThere
    <3>2. /\ UNCHANGED <<organization, promoted>> /\ excused \subseteq excused'
          /\ delivery[d].step = "idle"
      BY <2>2 DEF ReturnFromCheckout, At
    <3>3. QED
      BY <1>0, <3>1, <3>2
  <2>3. QED
    BY <1>3, <2>1, <2>2
<1>4. ASSUME NEW d \in Deliveries, Claim(d) PROVE \E g \in Deliveries : At(g, "promote")'
  <2>1. /\ UNCHANGED <<organization, promoted>> /\ excused \subseteq excused'
        /\ delivery[d].step = "claim"
    BY <1>4 DEF Claim, At
  <2>2. CASE delivery' = [delivery EXCEPT ![d] = NotThere]
    BY <1>0, <2>1, <2>2, Leaves
  <2>3. CASE Proceed(d, IF Retrieves(d) THEN "retrieve" ELSE "write")
    <3>1. /\ Same(d) /\ Others(d)
          /\ delivery'[d].step = IF Retrieves(d) THEN "retrieve" ELSE "write"
      BY <2>3, Proceeds
    <3>2. ~(At(d, "write")' /\ Retrieves(d)')
      BY <3>1 DEF At, Retrieves, Same
    <3>3. PICK g \in Deliveries : At(g, "promote")
      BY <2>1, <3>1, <3>2 DEF PromotedInv, At, Retrieves, Others
    <3>4. At(g, "promote")'
      BY <2>1, <3>1, <3>3 DEF At, Others
    <3>5. QED
      BY <3>4
  <2>4. QED
    BY <1>4, <2>2, <2>3 DEF Claim
<1>5. ASSUME NEW d \in Deliveries, RetrieveSubscription(d) \/ RecordOutcome(d) \/ Answer(d)
      PROVE  \E g \in Deliveries : At(g, "promote")'
  <2>1. /\ delivery'[d].step \in {"record", "read", "answer", "idle"}
        /\ delivery[d].step \in {"retrieve", "record", "answer"} /\ Others(d)
        /\ UNCHANGED <<organization, promoted>> /\ excused \subseteq excused'
    BY <1>5, Proceeds, Leaves DEF RetrieveSubscription, RecordOutcome, Answer, At
  <2>2. QED
    BY <1>0, <2>1
<1>6. ASSUME NEW d \in Deliveries, ReadPlan(d) PROVE \E g \in Deliveries : At(g, "promote")'
  <2>1. /\ delivery'[d].step = "write" /\ delivery'[d].wasFree = (organization.plan = "FREE")
        /\ Others(d) /\ delivery[d].step = "read"
        /\ UNCHANGED <<organization, promoted, excused>>
    <3>1. delivery \in [Deliveries -> DeliveryRecords]
      BY DEF BillingTypeOK, DeliveryRecords, Steps
    <3>2. QED
      BY <1>6, <3>1 DEF ReadPlan, Others, DeliveryRecords, At
  <2>2. organization.plan \in {"FREE", "PAID"}
    BY DEF BillingTypeOK
  <2>3. PICK g \in Deliveries : At(g, "promote")
    BY <2>1, <2>2 DEF PromotedInv, At, Retrieves, Others
  <2>4. At(g, "promote")'
    BY <2>1, <2>3 DEF At, Others
  <2>5. QED
    BY <2>4
<1>7. ASSUME NEW d \in Deliveries, WritePlan(d) PROVE \E g \in Deliveries : At(g, "promote")'
  <2>1. /\ delivery'[d].step = IF delivery[d].wasFree THEN "promote" ELSE "record"
        /\ Same(d) /\ Others(d) /\ delivery[d].step = "write"
        /\ promoted' = promoted /\ excused \subseteq excused'
    BY <1>7, Proceeds DEF WritePlan, At
  <2>2. \/ Retrieves(d)
        \/ organization'.plan = "FREE" /\ organization'.plan # "PAID"
        \/ organization' = organization
    BY <1>7, RequestRecord DEF WritePlan, Retrieves, DeliveryRecords, Kinds
  <2>3. CASE delivery[d].wasFree
    BY <2>1, <2>3 DEF At
  <2>4. CASE ~delivery[d].wasFree
    <3>1. PICK g \in Deliveries : At(g, "promote")
      BY <2>1, <2>2, <2>4 DEF PromotedInv, At, Retrieves, Others
    <3>2. At(g, "promote")'
      BY <2>1, <3>1 DEF At, Others
    <3>3. QED
      BY <3>2
  <2>5. QED
    BY <2>3, <2>4
<1>8. ASSUME NEW d \in Deliveries, PromoteOwner(d)
      PROVE  \E g \in Deliveries : At(g, "promote")'
  BY <1>8 DEF PromoteOwner
<1>9. ASSUME NEW d \in Deliveries, DeliveryFails(d) \/ ReleaseClaim(d) \/ CrashDelivery(d)
      PROVE  \E g \in Deliveries : At(g, "promote")'
  <2>1. /\ delivery'[d].step \in {"idle", "release"} /\ Others(d)
        /\ UNCHANGED <<organization, promoted>> /\ excused \subseteq excused'
        /\ delivery[d].step = "promote" => "halfway" \in excused'
    BY <1>9, Proceeds, Leaves DEF DeliveryFails, ReleaseClaim, CrashDelivery, Halfway, At
  <2>2. QED
    BY <1>0, <2>1
<1>10. QED
  BY <1>1, <1>2, <1>3, <1>4, <1>5, <1>6, <1>7, <1>8, <1>9 DEF BillingNext, DeliveryStep


-------------------------------------------------------------------------------
(* BillingEvents: the plan settles.                                        *)

\* An event nobody has dealt with yet.
Unapplied(kind, s) == \E e \in SentEvents \ applied : sent[e].kind = kind /\ sent[e].sub = s
\* A request that will make the organization pay for its subscription.
AboutToWrite(d) == delivery[d].step \in {"read", "write"} /\ Retrieves(d)

\* Where the organization differs from Stripe, or is about to, an event that nobody has
\* dealt with says so; and no event is recorded before the organization agrees with it.
Agrees ==
    /\ \A s \in Subscriptions : remote[s] = "active" =>
          organization.subscription = s \/ Unapplied("completed", s)
    /\ organization.subscription # NoSubscription =>
          \/ remote[organization.subscription] = "active"
          \/ Unapplied("deleted", organization.subscription)
WriteIsNews(d) ==
    AboutToWrite(d) /\ remote[delivery[d].sub] # "active" =>
        /\ Unapplied("deleted", delivery[d].sub)
        /\ \A s \in Subscriptions : remote[s] = "active" => Unapplied("completed", s)
RecordIsTrue(d) ==
    delivery[d].step \in {"promote", "record"} =>
        /\ delivery[d].kind = "completed" => organization.subscription = delivery[d].sub
        /\ delivery[d].kind = "deleted" => organization.subscription # delivery[d].sub
Excused == excused \cap {"overlap", "late", "foreign", "stranded"} # {}
PlanInv ==
    ~Excused =>
        /\ \A d1, d2 \in Handling : d1 = d2
        /\ Agrees
        /\ \A d \in Deliveries : WriteIsNews(d) /\ RecordIsTrue(d)

\* A step of one request that writes nothing.
LEMMA PlanKept ==
    ASSUME PlanInv, NEW d \in Deliveries, Others(d),
           UNCHANGED <<stripeVars, applied, organization>>, excused \subseteq excused',
           d \in Handling' => d \in Handling \/ Handling = {} \/ Excused',
           AboutToWrite(d)' => \/ AboutToWrite(d) /\ delivery'[d].sub = delivery[d].sub
                               \/ remote[delivery'[d].sub] = "active"
                               \/ Excused',
           delivery'[d].step \in {"promote", "record"} =>
               \/ delivery'[d].kind \notin {"completed", "deleted"}
               \/ delivery[d].step \in {"promote", "record"} /\ Same(d)
    PROVE  PlanInv'
<1> SUFFICES ASSUME ~Excused' PROVE PlanInv'
  BY DEF PlanInv
<1>1. /\ \A d1, d2 \in Handling : d1 = d2
      /\ Agrees
      /\ \A g \in Deliveries : WriteIsNews(g) /\ RecordIsTrue(g)
  BY DEF PlanInv, Excused
<1>2. \A kind, s : Unapplied(kind, s) <=> Unapplied(kind, s)'
  BY DEF Unapplied, stripeVars, SentEvents
<1>3. Agrees'
  BY <1>1, <1>2 DEF Agrees, stripeVars
<1>4. \A d1, d2 \in Handling' : d1 = d2
  BY <1>1 DEF Handling, Others
<1>5. ASSUME NEW g \in Deliveries PROVE WriteIsNews(g)'
  <2>1. CASE g = d
    BY <1>1, <1>2, <2>1 DEF WriteIsNews, stripeVars
  <2>2. CASE g # d
    <3>1. delivery'[g] = delivery[g]
      BY <2>2 DEF Others
    <3>2. QED
      BY <1>1, <1>2, <3>1 DEF WriteIsNews, AboutToWrite, Retrieves, stripeVars
  <2>3. QED
    BY <2>1, <2>2
<1>6. ASSUME NEW g \in Deliveries PROVE RecordIsTrue(g)'
  BY <1>1 DEF RecordIsTrue, Others, Same
<1>7. QED
  BY <1>3, <1>4, <1>5, <1>6 DEF PlanInv

LEMMA PlanAfterStripe ==
    ASSUME BillingTypeOK, EventsInv, PlanInv, StripeStep
    PROVE  PlanInv'
<1>1. PICK s \in Subscriptions : Subscribe(s) \/ Renew(s) \/ Cancel(s)
  BY DEF StripeStep
<1>2. PICK kind \in Kinds :
        /\ sent' = Append(sent, [kind |-> kind, sub |-> s])
        /\ \/ /\ remote[s] = "none" /\ \A t \in Subscriptions : remote[t] # "active"
              /\ remote' = [remote EXCEPT ![s] = "active"] /\ kind = "completed"
           \/ remote[s] = "active" /\ remote' = remote /\ kind # "deleted"
           \/ /\ remote[s] = "active" /\ kind = "deleted"
              /\ remote' = [remote EXCEPT ![s] = "canceled"]
  BY <1>1 DEF Subscribe, Renew, Cancel, Send, Kinds
<1>3. Len(sent) < MaxEvents
      /\ UNCHANGED <<recordVars, organization, promoted, delivery, syncs,
                       billingFaults, excused>>
  BY DEF StripeStep
<1>4. [kind |-> kind, sub |-> s] \in EventRecords
  BY DEF EventRecords
<1>5. /\ SentEvents' = SentEvents \cup {Len(sent) + 1}
      /\ Len(sent) + 1 \notin SentEvents
      /\ sent'[Len(sent) + 1] = [kind |-> kind, sub |-> s]
      /\ \A e \in SentEvents : sent'[e] = sent[e]
  BY <1>2, <1>3, <1>4, SendStep
<1> SUFFICES ASSUME ~Excused PROVE PlanInv'
  BY <1>3 DEF PlanInv, Excused
<1>6. /\ \A d1, d2 \in Handling : d1 = d2
      /\ Agrees
      /\ \A g \in Deliveries : WriteIsNews(g) /\ RecordIsTrue(g)
  BY DEF PlanInv
<1>7. /\ \A k, t : Unapplied(k, t) => Unapplied(k, t)'
      /\ Unapplied(kind, s)'
  <2>1. applied' = applied /\ Len(sent) + 1 \notin applied
    BY <1>3, <1>5 DEF recordVars, BillingTypeOK
  <2>2. QED
    BY <1>5, <2>1 DEF Unapplied
<1>8. \A t \in Subscriptions :
         /\ remote'[t] = "active" => \/ remote[t] = "active"
                                     \/ t = s /\ kind = "completed"
         /\ remote[t] = "active" /\ remote'[t] # "active" =>
               /\ t = s /\ kind = "deleted"
               /\ \A u \in Subscriptions : remote'[u] # "active"
  <2>1. \A t, u \in Subscriptions : remote[t] = "active" /\ remote[u] = "active" => t = u
    BY DEF EventsInv
  <2>2. remote \in [Subscriptions -> {"none", "active", "canceled"}]
    BY DEF BillingTypeOK
  <2>3. CASE /\ \A t \in Subscriptions : remote[t] # "active"
             /\ remote' = [remote EXCEPT ![s] = "active"] /\ kind = "completed"
    BY <2>2, <2>3
  <2>4. CASE remote' = remote
    BY <2>4
  <2>5. CASE /\ remote[s] = "active" /\ kind = "deleted"
             /\ remote' = [remote EXCEPT ![s] = "canceled"]
    <3>1. \A t \in Subscriptions : remote'[t] = IF t = s THEN "canceled" ELSE remote[t]
      BY <2>2, <2>5
    <3>2. QED
      BY <2>1, <2>5, <3>1
  <2>6. QED
    BY <1>2, <2>3, <2>4, <2>5
<1>9. Agrees'
  <2>1. organization.subscription \in Subscriptions \cup {NoSubscription}
    BY DEF BillingTypeOK
  <2>2. QED
    BY <1>3, <1>6, <1>7, <1>8, <2>1 DEF Agrees
<1>10. ASSUME NEW d \in Deliveries PROVE WriteIsNews(d)'
  <2>1. AboutToWrite(d) => delivery[d].sub \in Subscriptions
    BY DEF EventsInv, AboutEvent, AboutToWrite
  <2>2. QED
    BY <1>3, <1>6, <1>7, <1>8, <2>1 DEF WriteIsNews, AboutToWrite, Retrieves
<1>11. QED
  BY <1>3, <1>6, <1>9, <1>10 DEF PlanInv, RecordIsTrue, Handling

LEMMA PlanAfterWrite ==
    ASSUME BillingTypeOK, EventsInv, PlanInv, NEW d \in Deliveries, WritePlan(d)
    PROVE  PlanInv'
<1> SUFFICES ASSUME ~Excused' PROVE PlanInv'
  BY DEF PlanInv
<1>0. /\ delivery[d].step = "write"
      /\ UNCHANGED <<stripeVars, applied>> /\ excused \subseteq excused'
      /\ delivery[d].kind = "deleted" =>
            organization.subscription \in {NoSubscription, delivery[d].sub}
  BY DEF WritePlan, At, recordVars, Excused
<1>1. /\ \A d1, d2 \in Handling : d1 = d2
      /\ Agrees
      /\ \A g \in Deliveries : WriteIsNews(g) /\ RecordIsTrue(g)
  BY <1>0 DEF PlanInv, Excused
<1>2. \A kind, s : Unapplied(kind, s) <=> Unapplied(kind, s)'
  BY <1>0 DEF Unapplied, stripeVars, SentEvents
<1>3. delivery'[d].step \in {"promote", "record"} /\ Same(d) /\ Others(d)
  BY Proceeds DEF WritePlan
<1>4. d \in Handling /\ Handling' = Handling /\ Handling = {d}
  BY <1>0, <1>1, <1>3 DEF Handling, Others
<1>5. /\ delivery[d].sub \in Subscriptions
      /\ delivery[d].kind = "deleted" => remote[delivery[d].sub] = "canceled"
  <2>1. AboutEvent(delivery[d]) /\ delivery[d].step # "idle"
    BY <1>0 DEF EventsInv
  <2>2. QED
    BY <2>1 DEF EventsInv, AboutEvent
<1>6. /\ \/ /\ Retrieves(d) /\ organization'.subscription = delivery[d].sub
         \/ /\ delivery[d].kind = "deleted" /\ organization'.subscription = NoSubscription
         \/ /\ delivery[d].kind = "failed" /\ organization' = organization
      /\ Retrieves(d) => delivery[d].kind \notin {"deleted", "failed"}
  BY RequestRecord DEF WritePlan, Retrieves, DeliveryRecords, Kinds
<1>7. Agrees'
  <2>1. CASE Retrieves(d) /\ organization'.subscription = delivery[d].sub
    <3>1. \A s \in Subscriptions :
              remote[s] = "active" /\ remote[delivery[d].sub] = "active" => s = delivery[d].sub
      BY <1>5 DEF EventsInv
    <3>2. remote[delivery[d].sub] # "active" =>
              /\ Unapplied("deleted", delivery[d].sub)
              /\ \A s \in Subscriptions : remote[s] = "active" => Unapplied("completed", s)
      BY <1>0, <1>1, <2>1 DEF WriteIsNews, AboutToWrite
    <3>3. QED
      BY <1>0, <1>2, <2>1, <3>1, <3>2 DEF Agrees, stripeVars
  <2>2. CASE delivery[d].kind = "deleted" /\ organization'.subscription = NoSubscription
    BY <1>0, <1>1, <1>2, <1>5, <2>2, BillingAssumption DEF Agrees, stripeVars
  <2>3. CASE delivery[d].kind = "failed" /\ organization' = organization
    BY <1>0, <1>1, <1>2, <2>3 DEF Agrees, stripeVars
  <2>4. QED
    BY <1>6, <2>1, <2>2, <2>3
<1>8. ASSUME NEW g \in Deliveries PROVE WriteIsNews(g)' /\ RecordIsTrue(g)'
  <2>1. CASE g = d
    BY <1>3, <1>5, <1>6, <2>1, BillingAssumption
       DEF WriteIsNews, AboutToWrite, RecordIsTrue, Same, Retrieves
  <2>2. CASE g # d
    <3>1. g \notin Handling'
      BY <1>4, <2>2
    <3>2. QED
      BY <3>1 DEF Handling, WriteIsNews, AboutToWrite, RecordIsTrue
  <2>3. QED
    BY <2>1, <2>2
<1>9. QED
  BY <1>1, <1>4, <1>7, <1>8 DEF PlanInv

LEMMA PlanAfterRecord ==
    ASSUME BillingTypeOK, EventsInv, PlanInv, NEW d \in Deliveries, RecordOutcome(d)
    PROVE  PlanInv'
<1> SUFFICES ASSUME ~Excused' PROVE PlanInv'
  BY DEF PlanInv
<1>0. /\ delivery[d].step = "record"
      /\ applied' = (applied \cup {delivery[d].event}) \ {NoEvent}
      /\ UNCHANGED <<stripeVars, organization, excused>>
  BY DEF RecordOutcome, At
<1>1. /\ \A d1, d2 \in Handling : d1 = d2
      /\ Agrees
      /\ \A g \in Deliveries : WriteIsNews(g) /\ RecordIsTrue(g)
  BY <1>0 DEF PlanInv, Excused
<1>2. delivery'[d].step = "answer" /\ Same(d) /\ Others(d)
  BY Proceeds DEF RecordOutcome
<1>3. d \in Handling /\ Handling' = Handling /\ Handling = {d}
  BY <1>0, <1>1, <1>2 DEF Handling, Others
<1>4. \A kind, s : Unapplied(kind, s) =>
         \/ Unapplied(kind, s)'
         \/ kind = delivery[d].kind /\ s = delivery[d].sub
  <2>1. AboutEvent(delivery[d]) /\ delivery[d].step # "idle"
    BY <1>0 DEF EventsInv
  <2>2. delivery[d].event \in SentEvents =>
            /\ sent[delivery[d].event].kind = delivery[d].kind
            /\ sent[delivery[d].event].sub = delivery[d].sub
    BY <2>1, EventIndex DEF AboutEvent
  <2>3. QED
    BY <1>0, <2>2 DEF Unapplied, stripeVars, SentEvents
<1>5. /\ delivery[d].kind = "completed" => organization.subscription = delivery[d].sub
      /\ delivery[d].kind = "deleted" => organization.subscription # delivery[d].sub
  BY <1>0, <1>1 DEF RecordIsTrue
<1>6. Agrees'
  BY <1>0, <1>1, <1>4, <1>5 DEF Agrees, stripeVars
<1>7. ASSUME NEW g \in Deliveries PROVE WriteIsNews(g)' /\ RecordIsTrue(g)'
  <2>1. CASE g = d
    BY <1>2, <2>1 DEF WriteIsNews, AboutToWrite, RecordIsTrue
  <2>2. CASE g # d
    <3>1. g \notin Handling'
      BY <1>3, <2>2
    <3>2. QED
      BY <3>1 DEF Handling, WriteIsNews, AboutToWrite, RecordIsTrue
  <2>3. QED
    BY <2>1, <2>2
<1>8. QED
  BY <1>1, <1>3, <1>6, <1>7 DEF PlanInv

LEMMA PlanStep ==
    BillingTypeOK /\ EventsInv /\ PlanInv /\ [BillingNext]_billingVars => PlanInv'
<1> SUFFICES ASSUME BillingTypeOK, EventsInv, PlanInv, [BillingNext]_billingVars
             PROVE  PlanInv'
  OBVIOUS
<1>1. CASE UNCHANGED billingVars
  BY <1>1 DEF billingVars, stripeVars, recordVars, PlanInv, Agrees, WriteIsNews, RecordIsTrue,
              AboutToWrite, Retrieves, Unapplied, SentEvents, Handling, Excused
<1>2. ASSUME NEW d \in Deliveries, NEW e \in SentEvents, Deliver(d, e) PROVE PlanInv'
  <2>1. delivery'[d].step = "claim" /\ Others(d)
    BY <1>2 DEF Deliver, Others, BillingTypeOK, NotThere
  <2>2. UNCHANGED <<stripeVars, applied, organization, excused>>
    BY <1>2 DEF Deliver, recordVars
  <2>3. QED
    BY <2>1, <2>2, PlanKept DEF Handling, AboutToWrite
<1>3. ASSUME NEW d \in Deliveries, NEW s \in Subscriptions, ReturnFromCheckout(d, s)
      PROVE  PlanInv'
  <2>1. delivery'[d].step = "retrieve" /\ Others(d)
    BY <1>3 DEF ReturnFromCheckout, Others, BillingTypeOK, NotThere
  <2>2. /\ UNCHANGED <<stripeVars, applied, organization>>
        /\ excused' = excused \cup Overlaps
    BY <1>3 DEF ReturnFromCheckout, recordVars
  <2>3. Handling = {} \/ Excused'
    BY <2>2 DEF Overlaps, Excused
  <2>4. QED
    BY <2>1, <2>2, <2>3, PlanKept DEF AboutToWrite
<1>4. ASSUME NEW d \in Deliveries, Claim(d) PROVE PlanInv'
  <2>1. UNCHANGED <<stripeVars, applied, organization>> /\ excused \subseteq excused'
    BY <1>4 DEF Claim
  <2>2. CASE delivery' = [delivery EXCEPT ![d] = NotThere]
    BY <2>1, <2>2, Leaves, PlanKept DEF Handling, AboutToWrite
  <2>3. CASE /\ Proceed(d, IF Retrieves(d) THEN "retrieve" ELSE "write")
             /\ excused' = excused \cup Overlaps
    <3>1. /\ delivery'[d].step = (IF Retrieves(d) THEN "retrieve" ELSE "write")
          /\ Same(d) /\ Others(d)
      BY <2>3, Proceeds
    <3>2. ~AboutToWrite(d)' /\ delivery'[d].step \notin {"promote", "record"}
      BY <3>1 DEF AboutToWrite, Retrieves, Same
    <3>3. Handling = {} \/ Excused'
      BY <2>3 DEF Overlaps, Excused
    <3>4. QED
      BY <2>1, <3>1, <3>2, <3>3, PlanKept
  <2>4. QED
    BY <1>4, <2>2, <2>3 DEF Claim
<1>5. ASSUME NEW d \in Deliveries, RetrieveSubscription(d) PROVE PlanInv'
  <2> DEFINE step == IF delivery[d].kind = "updated" /\ IsStale(d) THEN "record" ELSE "read"
  <2>1. delivery'[d].step = step /\ Same(d) /\ Others(d)
    BY <1>5, Proceeds DEF RetrieveSubscription
  <2>2. /\ UNCHANGED <<stripeVars, applied, organization>> /\ excused \subseteq excused'
        /\ delivery[d].step = "retrieve"
    BY <1>5 DEF RetrieveSubscription, recordVars, At
  <2>3. delivery[d].sub \in Subscriptions /\ remote[delivery[d].sub] # "none"
    BY <2>2 DEF EventsInv, AboutEvent
  <2>4. remote[delivery[d].sub] = "active" \/ step = "record" \/ Excused'
    BY <1>5, <2>3 DEF RetrieveSubscription, BillingTypeOK, IsStale, Excused
  <2>5. step = "record" => delivery'[d].kind = "updated"
    BY <2>1 DEF Same
  <2>6. d \in Handling
    BY <2>2 DEF Handling
  <2>7. QED
    BY <2>1, <2>2, <2>4, <2>5, <2>6, PlanKept DEF AboutToWrite, Same
<1>6. ASSUME NEW d \in Deliveries, ReadPlan(d) PROVE PlanInv'
  <2>1. /\ delivery'[d].step = "write" /\ delivery[d].step = "read" /\ Others(d)
        /\ delivery'[d].kind = delivery[d].kind /\ delivery'[d].sub = delivery[d].sub
        /\ UNCHANGED <<stripeVars, applied, organization, excused>>
    <3>1. delivery \in [Deliveries -> DeliveryRecords]
      BY DEF BillingTypeOK, DeliveryRecords, Steps
    <3>2. QED
      BY <1>6, <3>1 DEF ReadPlan, Others, DeliveryRecords, At, recordVars
  <2>2. QED
    BY <2>1, PlanKept DEF Handling, AboutToWrite, Retrieves
<1>7. ASSUME NEW d \in Deliveries, PromoteOwner(d) PROVE PlanInv'
  <2>1. /\ delivery'[d].step = "record" /\ delivery[d].step = "promote" /\ Same(d) /\ Others(d)
        /\ UNCHANGED <<stripeVars, applied, organization, excused>>
    BY <1>7, Proceeds DEF PromoteOwner, At, recordVars
  <2>2. QED
    BY <2>1, PlanKept DEF Handling, AboutToWrite
<1>8. ASSUME NEW d \in Deliveries,
             Answer(d) \/ DeliveryFails(d) \/ ReleaseClaim(d) \/ CrashDelivery(d)
      PROVE  PlanInv'
  <2>1. /\ UNCHANGED <<stripeVars, applied, organization>> /\ excused \subseteq excused'
        /\ Others(d)
        /\ \/ delivery'[d].step = "idle"
           \/ delivery'[d].step = "release" /\ d \in Handling
    BY <1>8, Leaves, Proceeds
       DEF Answer, DeliveryFails, ReleaseClaim, CrashDelivery, recordVars
  <2>2. QED
    BY <2>1, PlanKept DEF Handling, AboutToWrite
<1>9. QED
  BY <1>1, <1>2, <1>3, <1>4, <1>5, <1>6, <1>7, <1>8, PlanAfterStripe, PlanAfterWrite,
     PlanAfterRecord DEF BillingNext, DeliveryStep

LEMMA EventsInit == BillingInit => HeldInv /\ PromotedInv /\ PlanInv
<1> SUFFICES ASSUME BillingInit PROVE HeldInv /\ PromotedInv /\ PlanInv
  OBVIOUS
<1>1. PICK s \in Subscriptions \cup {NoSubscription} :
         /\ remote = [t \in Subscriptions |-> IF t = s THEN "active" ELSE "none"]
         /\ organization = [plan |-> IF s = NoSubscription THEN "FREE" ELSE "PAID",
                            subscription |-> s]
         /\ promoted = (s # NoSubscription)
  BY DEF BillingInit
<1>2. /\ answered = {} /\ claims = {} /\ applied = {} /\ Handling = {}
      /\ \A d \in Deliveries : delivery[d].step = "idle"
  BY DEF BillingInit, Handling, NotThere
<1>3. HeldInv
  BY <1>2 DEF HeldInv, At
<1>4. PromotedInv
  BY <1>1, <1>2 DEF PromotedInv, At
<1>5. PlanInv
  BY <1>1, <1>2 DEF PlanInv, Agrees, WriteIsNews, AboutToWrite, RecordIsTrue
<1>6. QED
  BY <1>3, <1>4, <1>5

\* Every event is dealt with, and leaves the organization as Stripe has it, up to what the
\* code leaves open (overlapping requests, payments after a subscription's end, an end after
\* the next one's begin, a request that dies): once all events are answered, the plan is
\* Stripe's and whoever pays is promoted.
THEOREM EventsAreSettled == BillingSpec => []EventsSettle
<1> DEFINE Inv == BillingTypeOK /\ EventsInv /\ HeldInv /\ PromotedInv /\ PlanInv
<1>1. BillingInit => Inv
  BY BillingTypeInit, EventsInit
<1>2. Inv /\ [BillingNext]_billingVars => Inv'
  BY BillingTypeStep, HeldStep, PromotedStep, PlanStep
<1>3. Inv => EventsSettle
  <2> SUFFICES ASSUME Inv PROVE EventsSettle
    OBVIOUS
  <2>1. AnsweredIsApplied
    BY DEF AnsweredIsApplied, HeldInv
  <2>2. PlanSettles
    <3> SUFFICES ASSUME Settled, ~Excused
                 PROVE  organization.plan = "PAID"
                        <=> \E s \in Subscriptions : remote[s] = "active"
      BY DEF PlanSettles, Excused
    <3>1. SentEvents \subseteq applied
      BY DEF Settled, HeldInv, Excused
    <3>2. \A kind, s : ~Unapplied(kind, s)
      BY <3>1 DEF Unapplied
    <3>3. /\ Agrees /\ organization.subscription \in Subscriptions \cup {NoSubscription}
          /\ organization.plan = "PAID" <=> organization.subscription # NoSubscription
      BY DEF PlanInv, BillingTypeOK, EventsInv
    <3>4. QED
      BY <3>2, <3>3, BillingAssumption DEF Agrees
  <2>3. PaidIsPromoted
    BY DEF PaidIsPromoted, PromotedInv, Handling, At
  <2>4. QED
    BY <2>1, <2>2, <2>3 DEF EventsSettle
<1>4. QED
  BY <1>1, <1>2, <1>3, PTL DEF BillingSpec

-------------------------------------------------------------------------------
(* StudentProgress: the queue of jobs.                                     *)

\* Job t alone changes, and stays about the same answer.
JobMoves(t) ==
    /\ DOMAIN tasks' = DOMAIN tasks /\ tasks' \in Seq(StudentTasks)
    /\ \A u \in DOMAIN tasks \ {t} : tasks'[u] = tasks[u]
    /\ tasks'[t].item = tasks[t].item /\ tasks'[t].answer = tasks[t].answer
    /\ tasks'[t].own = tasks[t].own

LEMMA TaskIndex ==
    ASSUME StudentTypeOK
    PROVE  /\ Len(tasks) \in Nat /\ DOMAIN tasks = 1..Len(tasks)
           /\ \A t \in DOMAIN tasks : tasks[t] \in StudentTasks
           /\ Len(attempts) \in Nat /\ DOMAIN attempts = 1..Len(attempts)
           /\ \A n \in DOMAIN attempts : attempts[n] \in AttemptRows
<1>1. tasks \in Seq(StudentTasks) /\ attempts \in Seq(AttemptRows)
  BY DEF StudentTypeOK
<1>2. Len(tasks) \in Nat /\ DOMAIN tasks = 1..Len(tasks)
      /\ Len(attempts) \in Nat /\ DOMAIN attempts = 1..Len(attempts)
  BY <1>1
<1>3. \A t \in DOMAIN tasks : tasks[t] \in StudentTasks
  BY <1>1
<1>4. \A n \in DOMAIN attempts : attempts[n] \in AttemptRows
  BY <1>1
<1>5. QED
  BY <1>2, <1>3, <1>4

LEMMA Moves ==
    ASSUME StudentTypeOK, NEW t \in DOMAIN tasks, NEW step \in TaskSteps, StepTo(t, step)
    PROVE  /\ JobMoves(t) /\ tasks'[t].step = step
           /\ tasks'[t].found = tasks[t].found /\ tasks'[t].rewarded = tasks[t].rewarded
<1>1. tasks \in Seq(StudentTasks)
  BY DEF StudentTypeOK
<1>2. /\ tasks[t] \in StudentTasks /\ Len(tasks) \in Nat /\ DOMAIN tasks = 1..Len(tasks)
      /\ tasks' = [tasks EXCEPT ![t] = [tasks[t] EXCEPT !.step = step]]
  BY <1>1 DEF StepTo
<1>3. [tasks[t] EXCEPT !.step = step] \in StudentTasks
  BY <1>2 DEF StudentTasks
<1>4. tasks' \in Seq(StudentTasks)
  BY <1>1, <1>2, <1>3
<1>5. QED
  BY <1>2, <1>4 DEF JobMoves, StudentTasks

\* One more job at the queue's end.
LEMMA Queued ==
    ASSUME StudentTypeOK, NEW x \in StudentTasks, tasks' = Append(tasks, x)
    PROVE  /\ tasks' \in Seq(StudentTasks)
           /\ DOMAIN tasks' = DOMAIN tasks \cup {Len(tasks) + 1}
           /\ Len(tasks) + 1 \notin DOMAIN tasks
           /\ tasks'[Len(tasks) + 1] = x
           /\ \A t \in DOMAIN tasks : tasks'[t] = tasks[t]
BY DEF StudentTypeOK

\* Where job k of the queue without job t was.
Before(k, t) == IF k < t THEN k ELSE k + 1

LEMMA Dequeued ==
    ASSUME StudentTypeOK, NEW t \in DOMAIN tasks, tasks' = Queues!RemoveAt(tasks, t)
    PROVE  /\ tasks' \in Seq(StudentTasks)
           /\ \A k \in DOMAIN tasks' :
                 /\ Before(k, t) \in DOMAIN tasks \ {t}
                 /\ tasks'[k] = tasks[Before(k, t)]
                 /\ \A l \in DOMAIN tasks' : Before(k, t) = Before(l, t) => k = l
           /\ \A u \in DOMAIN tasks \ {t} : \E k \in DOMAIN tasks' : tasks'[k] = tasks[u]
<1> DEFINE n == Len(tasks)
           head == SubSeq(tasks, 1, t - 1)
           tail == SubSeq(tasks, t + 1, n)
<1>1. tasks \in Seq(StudentTasks) /\ n \in Nat /\ DOMAIN tasks = 1..n /\ t \in 1..n
  BY DEF StudentTypeOK
<1>2. /\ head \in Seq(StudentTasks) /\ Len(head) = t - 1
      /\ \A k \in 1..(t - 1) : head[k] = tasks[k]
  BY <1>1
<1>3. /\ tail \in Seq(StudentTasks) /\ Len(tail) = n - t
      /\ \A k \in 1..(n - t) : tail[k] = tasks[t + k]
  BY <1>1
<1>4. tasks' = head \o tail
  BY DEF Queues!RemoveAt
<1> HIDE DEF head, tail
<1>5. /\ tasks' \in Seq(StudentTasks) /\ Len(tasks') = n - 1 /\ DOMAIN tasks' = 1..(n - 1)
      /\ \A k \in 1..(n - 1) : tasks'[k] = IF k < t THEN head[k] ELSE tail[k - (t - 1)]
  <2>1. /\ tasks' \in Seq(StudentTasks) /\ Len(tasks') = Len(head) + Len(tail)
        /\ \A k \in 1..(Len(head) + Len(tail)) :
              tasks'[k] = IF k <= Len(head) THEN head[k] ELSE tail[k - Len(head)]
    BY <1>2, <1>3, <1>4, ConcatProperties
  <2>2. Len(tasks') = n - 1
    BY <1>1, <1>2, <1>3, <2>1
  <2>4. \A k \in 1..(n - 1) : (k <= Len(head)) = (k < t)
    BY <1>1, <1>2
  <2>5. QED
    BY <1>1, <1>2, <1>3, <2>1, <2>2, <2>4
<1>6. \A k \in 1..(n - 1) : /\ Before(k, t) \in (1..n) \ {t}
                            /\ tasks'[k] = tasks[Before(k, t)]
  <2> TAKE k \in 1..(n - 1)
  <2>1. CASE k < t
    BY <1>1, <1>2, <1>5, <2>1 DEF Before
  <2>2. CASE ~(k < t)
    <3>1. k - (t - 1) \in 1..(n - t) /\ t + (k - (t - 1)) = k + 1
      BY <1>1, <2>2
    <3>2. QED
      BY <1>1, <1>3, <1>5, <2>2, <3>1 DEF Before
  <2>3. QED
    BY <2>1, <2>2
<1>7. \A k, l \in 1..(n - 1) : Before(k, t) = Before(l, t) => k = l
  BY <1>1 DEF Before
<1>8. ASSUME NEW u \in DOMAIN tasks \ {t}
      PROVE  \E k \in DOMAIN tasks' : tasks'[k] = tasks[u]
  <2>1. CASE u < t
    BY <1>1, <1>5, <1>6, <2>1 DEF Before
  <2>2. CASE ~(u < t)
    <3>1. u - 1 \in 1..(n - 1) /\ Before(u - 1, t) = u
      BY <1>1, <2>2 DEF Before
    <3>2. QED
      BY <1>5, <1>6, <3>1
  <2>3. QED
    BY <2>1, <2>2
<1>9. QED
  BY <1>1, <1>5, <1>6, <1>7, <1>8

\* One more attempt: the earlier rows stay where they are.
LEMMA RowAppended ==
    ASSUME StudentTypeOK, NEW i \in Items, NEW answer \in Answers,
           attempts' = Append(attempts, AttemptRow(i, answer))
    PROVE  /\ attempts' \in Seq(AttemptRows)
           /\ Len(attempts') = Len(attempts) + 1
           /\ DOMAIN attempts' = DOMAIN attempts \cup {Len(attempts')}
           /\ Len(attempts') \notin DOMAIN attempts \cup {0}
           /\ attempts'[Len(attempts')] = AttemptRow(i, answer)
           /\ \A n \in DOMAIN attempts : attempts'[n] = attempts[n]
BY DEF StudentTypeOK, AttemptRow, AttemptRows

-------------------------------------------------------------------------------
(* StudentProgress: types.                                                 *)

LEMMA StudentTypeInit == StudentInit => StudentTypeOK
<1> SUFFICES ASSUME StudentInit PROVE StudentTypeOK
  OBVIOUS
<1>1. tasks \in Seq(StudentTasks) /\ attempts \in Seq(AttemptRows)
  BY DEF StudentInit
<1>2. \A t \in DOMAIN tasks : RightKind(tasks[t])
  BY DEF StudentInit
<1>3. Idle \in Submissions /\ "none" \in Answers
  BY DEF Idle, Submissions, Answers
<1>4. /\ flushed \in [Questions -> Answers] /\ requests \in [Items \ Questions -> Submissions]
      /\ xp \in [Items -> Nat]
  BY <1>3 DEF StudentInit
<1>5. enqueued \in 0..MaxEnqueued /\ jobFaults \in 0..MaxJobFaults
  BY StudentAssumption DEF StudentInit
<1>6. QED
  BY <1>1, <1>2, <1>4, <1>5 DEF StudentInit, StudentTypeOK

LEMMA NewTasks ==
    ASSUME NEW i \in Items, NEW answer \in Answers, NEW own \in Nat
    PROVE  ProgressTask \in StudentTasks /\ AttemptTask(i, answer, own) \in StudentTasks
BY DEF ProgressTask, AttemptTask, StudentTasks, TaskSteps, Answers

LEMMA StudentTypeStep ==
    StudentTypeOK /\ [StudentNext]_studentVars => StudentTypeOK'
<1> SUFFICES ASSUME StudentTypeOK, [StudentNext]_studentVars PROVE StudentTypeOK'
  OBVIOUS
<1> USE DEF submitVars, rewardVars, courseVars, faultVars
<1>a. {"right", "wrong", "right too", "none"} = Answers /\ Right \subseteq Answers
  BY DEF Answers, Right
<1>b. \A i \in Items \ Questions :
         requests[i] \in Submissions /\ Idle \in Submissions
         /\ \A step \in {"idle", "progress", "attempt"}, answer \in Answers, own \in Nat :
               /\ [step |-> step, answer |-> answer, own |-> own] \in Submissions
               /\ [requests[i] EXCEPT !.step = step] \in Submissions
  BY DEF StudentTypeOK, Submissions, Idle, Answers
<1>c. \A i \in Items \ Questions, q \in Submissions :
         [requests EXCEPT ![i] = q] \in [Items \ Questions -> Submissions]
  BY DEF StudentTypeOK
<1>d. \A n \in Nat : Submits(n) => enqueued' \in 0..MaxEnqueued
  BY StudentAssumption DEF StudentTypeOK, Submits
<1>e. \A items \in SUBSET (Items \cup {Course}) : JobFault(items) =>
         jobFaults' \in 0..MaxJobFaults /\ struckItems' \subseteq Items \cup {Course}
  BY StudentAssumption DEF StudentTypeOK, JobFault
<1>g. /\ \A t \in DOMAIN tasks : RightKind(tasks[t])
      /\ \A t \in DOMAIN tasks : JobMoves(t) /\ RightKind(tasks'[t]) =>
            \A u \in DOMAIN tasks' : RightKind(tasks'[u])
  BY DEF StudentTypeOK, JobMoves
<1>h. \A x \in StudentTasks : x.step \in {"queued", "done"} => RightKind(x)
  BY DEF RightKind
<1>f. Units \subseteq Items \ Questions /\ VirtualUnits \subseteq Items \ Questions
      /\ Questions \subseteq Items
  BY StudentAssumption DEF Items
<1>1. CASE UNCHANGED studentVars
  BY <1>1 DEF studentVars, StudentTypeOK
<1>2. ASSUME NEW u \in Units, NEW answer \in {"right", "wrong"}, SubmitUnit(u, answer)
      PROVE  StudentTypeOK'
  <2>1. requests' \in [Items \ Questions -> Submissions]
    BY <1>2, <1>a, <1>b, <1>c, <1>f DEF SubmitUnit
  <2>2. enqueued' \in 0..MaxEnqueued
    BY <1>2, <1>d DEF SubmitUnit
  <2>3. submitted' \subseteq Units \X BOOLEAN
    <3>1. <<u, answer \in Right>> \in Units \X BOOLEAN
      <4>1. (answer \in Right) \in BOOLEAN
        OBVIOUS
      <4>2. QED
        BY <4>1
    <3>2. QED
      BY <1>2, <3>1 DEF SubmitUnit, StudentTypeOK
  <2>4. QED
    BY <1>2, <2>1, <2>2, <2>3 DEF SubmitUnit, StudentTypeOK
<1>3. ASSUME NEW v \in VirtualUnits, NEW answer \in {"right", "wrong"},
             SubmitVirtual(v, answer)
      PROVE  StudentTypeOK'
  <2>1. attempts' \in Seq(AttemptRows) /\ Len(attempts') \in Nat
    <3>1. v \in Items /\ answer \in Answers
      BY <1>a, <1>f
    <3>2. attempts' = Append(attempts, AttemptRow(v, answer))
      BY <1>3 DEF SubmitVirtual
    <3>3. Len(attempts) \in Nat
      BY TaskIndex
    <3>4. QED
      BY <3>1, <3>2, <3>3, RowAppended
  <2>2. requests' \in [Items \ Questions -> Submissions]
    BY <1>3, <1>a, <1>b, <1>c, <1>f, <2>1 DEF SubmitVirtual
  <2>3. enqueued' \in 0..MaxEnqueued
    BY <1>3, <1>d DEF SubmitVirtual
  <2>4. raced' \subseteq Items
    BY <1>3, <1>f DEF SubmitVirtual, StudentTypeOK
  <2>5. QED
    BY <1>3, <2>1, <2>2, <2>3, <2>4 DEF SubmitVirtual, StudentTypeOK
<1>4. ASSUME NEW q \in Questions, NEW answer \in Right \cup {"wrong"}, FlushAnswer(q, answer)
      PROVE  StudentTypeOK'
  <2>1. answer \in Answers /\ AttemptTask(q, answer, 0) \in StudentTasks
    BY <1>a, <1>f, NewTasks
  <2>2. tasks' \in Seq(StudentTasks) /\ \A t \in DOMAIN tasks' : RightKind(tasks'[t])
    <3>1. RightKind(AttemptTask(q, answer, 0))
      BY <1>h, <2>1 DEF AttemptTask, ProgressTask
    <3>2. QED
      BY <1>4, <1>g, <2>1, <3>1, Queued DEF FlushAnswer
  <2>3. enqueued' \in 0..MaxEnqueued
    BY <1>4, <1>d DEF FlushAnswer
  <2>4. flushed' \in [Questions -> Answers]
    BY <1>4, <2>1 DEF FlushAnswer, StudentTypeOK
  <2>5. QED
    BY <1>4, <2>2, <2>3, <2>4 DEF FlushAnswer, StudentTypeOK
<1>5. ASSUME NEW i \in DOMAIN requests, RequestStep(i) PROVE StudentTypeOK'
  <2>0. i \in Items \ Questions /\ requests[i] \in Submissions
    BY DEF StudentTypeOK
  <2>1. PICK q \in Submissions, x \in StudentTasks :
           /\ requests' = [requests EXCEPT ![i] = q]
           /\ tasks' = Append(tasks, x) /\ x.step = "queued"
           /\ UNCHANGED <<submitted, flushed, enqueued, rewardVars, courseVars, faultVars>>
    <3>1. CASE EnqueueProgress(i)
      <4>1. ProgressTask \in StudentTasks /\ ProgressTask.step = "queued"
        BY DEF ProgressTask, StudentTasks, TaskSteps, Answers
      <4>2. requests' = [requests EXCEPT ![i] = [requests[i] EXCEPT !.step = "attempt"]]
        BY <3>1 DEF EnqueueProgress
      <4>3. [requests[i] EXCEPT !.step = "attempt"] \in Submissions
        BY <2>0 DEF Submissions
      <4>4. QED
        BY <3>1, <4>1, <4>2, <4>3 DEF EnqueueProgress
    <3>2. CASE EnqueueAttempt(i)
      <4>1. AttemptTask(i, requests[i].answer, requests[i].own) \in StudentTasks
        BY <2>0, NewTasks DEF Submissions
      <4>3. AttemptTask(i, requests[i].answer, requests[i].own).step = "queued"
        BY DEF AttemptTask, ProgressTask
      <4>2. QED
        BY <1>b, <2>0, <3>2, <4>1, <4>3 DEF EnqueueAttempt
    <3>3. QED
      BY <1>5, <3>1, <3>2 DEF RequestStep
  <2>2. /\ tasks' \in Seq(StudentTasks) /\ requests' \in [Items \ Questions -> Submissions]
        /\ \A t \in DOMAIN tasks' : RightKind(tasks'[t])
    BY <1>c, <1>g, <1>h, <2>0, <2>1, Queued
  <2>3. QED
    BY <2>1, <2>2 DEF StudentTypeOK
<1>6. ASSUME NEW i \in DOMAIN requests, SubmissionFails(i) PROVE StudentTypeOK'
  <2>0. i \in Items \ Questions
    BY DEF StudentTypeOK
  <2>1. requests' \in [Items \ Questions -> Submissions]
    BY <1>6, <1>b, <1>c, <2>0 DEF SubmissionFails
  <2>2. jobFaults' \in 0..MaxJobFaults /\ struckItems' \subseteq Items \cup {Course}
    BY <1>6, <1>e, <2>0 DEF SubmissionFails
  <2>3. QED
    BY <1>6, <2>1, <2>2 DEF SubmissionFails, StudentTypeOK
<1>7. ASSUME NEW t \in DOMAIN tasks, TaskStep(t) \/ TaskFails(t) \/ TaskStalls(t)
      PROVE  StudentTypeOK'
  <2>0. tasks[t] \in StudentTasks /\ RightKind(tasks[t])
    BY TaskIndex, <1>g
  <2>a. TaskSteps = {"queued", "fresh", "judged", "award", "read", "certify", "check",
                     "create", "done"}
    BY DEF TaskSteps
  <2>b. tasks[t].item \in Items \cup {Course} /\ tasks[t].answer \in Answers
        /\ tasks[t].found \in SUBSET Units /\ tasks[t].own \in Nat
    BY <2>0 DEF StudentTasks
  <2>c. ASSUME NEW step \in TaskSteps, StepTo(t, step),
               IF tasks[t].item = Course THEN step \notin {"fresh", "judged", "award"}
               ELSE step \notin {"read", "certify", "check", "create"}
        PROVE  tasks' \in Seq(StudentTasks) /\ \A u \in DOMAIN tasks' : RightKind(tasks'[u])
    <3>1. JobMoves(t) /\ tasks'[t].step = step
      BY <2>c, Moves
    <3>2. QED
      BY <2>c, <3>1, <1>g DEF RightKind, JobMoves
  <2>d. ASSUME NEW r \in StudentTasks, tasks' = [tasks EXCEPT ![t] = r], RightKind(r)
        PROVE  tasks' \in Seq(StudentTasks) /\ \A u \in DOMAIN tasks' : RightKind(tasks'[u])
    <3>1. tasks \in Seq(StudentTasks)
      BY DEF StudentTypeOK
    <3>2. QED
      BY <2>d, <3>1, <1>g
  <2>1. CASE TakeAttempt(t)
    <3>1. tasks' \in Seq(StudentTasks) /\ \A u \in DOMAIN tasks' : RightKind(tasks'[u])
      BY <2>1, <2>a, <2>c DEF TakeAttempt
    <3>2. raced' \subseteq Items
      BY <2>b, <2>1 DEF TakeAttempt, StudentTypeOK
    <3>3. QED
      BY <2>1, <3>1, <3>2 DEF TakeAttempt, StudentTypeOK
  <2>2. CASE FindRewarded(t)
    <3> DEFINE r == [tasks[t] EXCEPT !.rewarded = AlreadyRewarded(t), !.step = "judged"]
    <3>1. AlreadyRewarded(t) \in BOOLEAN
      BY DEF AlreadyRewarded
    <3>2. tasks' = [tasks EXCEPT ![t] = r]
      BY <2>2 DEF FindRewarded
    <3>3. r \in StudentTasks
      BY <2>0, <2>a, <3>1 DEF StudentTasks
    <3>4. RightKind(r)
      BY <2>0, <2>2 DEF RightKind, StudentTasks, FindRewarded
    <3> HIDE DEF r
    <3>5. tasks' \in Seq(StudentTasks) /\ \A u \in DOMAIN tasks' : RightKind(tasks'[u])
      BY <2>d, <3>2, <3>3, <3>4
    <3>6. QED
      BY <2>2, <3>5 DEF FindRewarded, StudentTypeOK
  <2>3. CASE CreateAttempt(t)
    <3>0. tasks[t].item # Course
      BY <2>0, <2>3 DEF CreateAttempt, RightKind
    <3>1. tasks' \in Seq(StudentTasks) /\ \A u \in DOMAIN tasks' : RightKind(tasks'[u])
      BY <2>3, <2>a, <2>c, <3>0 DEF CreateAttempt
    <3>2. attempts' \in Seq(AttemptRows)
      <4>1. CASE attempts' = attempts
        BY <4>1 DEF StudentTypeOK
      <4>2. CASE attempts' = Append(attempts, AttemptRow(tasks[t].item, tasks[t].answer))
        BY <2>b, <3>0, <4>2, RowAppended
      <4>3. QED
        BY <2>3, <4>1, <4>2 DEF CreateAttempt
    <3>3. QED
      BY <2>3, <3>1, <3>2 DEF CreateAttempt, StudentTypeOK
  <2>4. CASE AwardXp(t)
    <3>0. tasks[t].item \in Items
      BY <2>0, <2>b, <2>4 DEF AwardXp, RightKind
    <3>1. tasks' \in Seq(StudentTasks) /\ \A u \in DOMAIN tasks' : RightKind(tasks'[u])
      BY <2>4, <2>a, <2>c DEF AwardXp
    <3>2. xp' \in [Items -> Nat]
      BY <2>4, <3>0 DEF AwardXp, StudentTypeOK
    <3>3. QED
      BY <2>4, <3>1, <3>2 DEF AwardXp, StudentTypeOK
  <2>5. CASE ReadSubmissions(t)
    <3> DEFINE r == [tasks[t] EXCEPT !.found = Completed, !.step = "read"]
    <3>1. Completed \in SUBSET Units
      BY DEF Completed
    <3>2. tasks' = [tasks EXCEPT ![t] = r]
      BY <2>5 DEF ReadSubmissions
    <3>3. r \in StudentTasks
      BY <2>0, <2>a, <3>1 DEF StudentTasks
    <3>4. RightKind(r)
      BY <2>0, <2>5 DEF RightKind, StudentTasks, ReadSubmissions
    <3> HIDE DEF r
    <3>5. tasks' \in Seq(StudentTasks) /\ \A u \in DOMAIN tasks' : RightKind(tasks'[u])
      BY <2>d, <3>2, <3>3, <3>4
    <3>6. QED
      BY <2>5, <3>5 DEF ReadSubmissions, StudentTypeOK
  <2>6. CASE UpsertProgress(t)
    <3>0. tasks[t].item = Course
      BY <2>0, <2>6 DEF UpsertProgress, RightKind
    <3>1. tasks' \in Seq(StudentTasks) /\ \A u \in DOMAIN tasks' : RightKind(tasks'[u])
      BY <2>6, <2>a, <2>c, <3>0 DEF UpsertProgress
    <3>2. completedUnits' \subseteq Units /\ setBack' \in BOOLEAN
      BY <2>b, <2>6 DEF UpsertProgress, StudentTypeOK
    <3>3. QED
      BY <2>6, <3>1, <3>2 DEF UpsertProgress, StudentTypeOK
  <2>7. CASE FindCertificate(t) \/ CheckThreshold(t) \/ CreateCertificate(t)
    <3>0. tasks[t].item = Course
      BY <2>0, <2>7 DEF FindCertificate, CheckThreshold, CreateCertificate, RightKind
    <3>1. PICK step \in {"done", "check", "create"} : StepTo(t, step)
      BY <2>7 DEF FindCertificate, CheckThreshold, CreateCertificate
    <3>2. tasks' \in Seq(StudentTasks) /\ \A u \in DOMAIN tasks' : RightKind(tasks'[u])
      BY <2>a, <2>c, <3>0, <3>1
    <3>3. certificates' \in Nat
      BY <2>7 DEF FindCertificate, CheckThreshold, CreateCertificate, OneCertificate,
                  StudentTypeOK
    <3>4. QED
      BY <2>7, <3>2, <3>3 DEF FindCertificate, CheckThreshold, CreateCertificate, StudentTypeOK
  <2>8. CASE EndTask(t)
    <3>1. tasks' \in Seq(StudentTasks) /\ \A u \in DOMAIN tasks' : RightKind(tasks'[u])
      BY <1>g, <2>8, Dequeued DEF EndTask
    <3>2. QED
      BY <2>8, <3>1 DEF EndTask, StudentTypeOK
  <2>9. CASE TaskFails(t) \/ TaskStalls(t)
    <3>1. tasks' \in Seq(StudentTasks) /\ \A u \in DOMAIN tasks' : RightKind(tasks'[u])
      <4>1. CASE TaskFails(t)
        BY <1>g, <4>1, Dequeued DEF TaskFails
      <4>2. CASE TaskStalls(t)
        BY <4>2, <2>a, <2>c DEF TaskStalls
      <4>3. QED
        BY <2>9, <4>1, <4>2
    <3>2. jobFaults' \in 0..MaxJobFaults /\ struckItems' \subseteq Items \cup {Course}
      <4>1. JobFault({tasks[t].item}) /\ {tasks[t].item} \subseteq Items \cup {Course}
        BY <2>b, <2>9 DEF TaskFails, TaskStalls
      <4>2. QED
        BY <1>e, <4>1
    <3>3. QED
      BY <2>9, <3>1, <3>2 DEF TaskFails, TaskStalls, StudentTypeOK
  <2>10. QED
    BY <1>7, <2>1, <2>2, <2>3, <2>4, <2>5, <2>6, <2>7, <2>8, <2>9 DEF TaskStep
<1>8. QED
  BY <1>1, <1>2, <1>3, <1>4, <1>5, <1>6, <1>7 DEF StudentNext

\* Every variable of StudentProgress keeps its type.
THEOREM StudentTypeCorrect == StudentSpec => []StudentTypeOK
BY StudentTypeInit, StudentTypeStep, PTL DEF StudentSpec

-------------------------------------------------------------------------------
(* StudentProgress: whose rows the jobs are about, and which run alone.    *)

\* The attempt row a request inserted for its job.
AboutRow(rows, i, answer, own) ==
    IF i \in VirtualUnits THEN own \in DOMAIN rows /\ rows[own] = AttemptRow(i, answer)
    ELSE own = 0

OwnInv ==
    /\ \A t \in DOMAIN tasks : AboutRow(attempts, tasks[t].item, tasks[t].answer, tasks[t].own)
    /\ \A i \in Items \ Questions :
          IF requests[i].step = "idle" THEN requests[i] = Idle
          ELSE AboutRow(attempts, i, requests[i].answer, requests[i].own)

\* An item no two jobs were about at a time has one job at work at most; one submitted like
\* a unit has one job or request in all.
AloneInv ==
    \A i \in Items \ raced :
        /\ \A t, u \in DOMAIN tasks :
              /\ tasks[t].item = i /\ tasks[u].item = i
              /\ i \in VirtualUnits \/ (InWork(t) /\ InWork(u))
              => t = u
        /\ i \in VirtualUnits /\ requests[i] # Idle => ~Awaited(i)

LEMMA ItemsApart ==
    /\ Units \subseteq Items \ Questions /\ VirtualUnits \subseteq Items \ Questions
    /\ Questions \subseteq Items /\ Units \cap VirtualUnits = {}
    /\ Questions \cap VirtualUnits = {}
    /\ Course \notin Items /\ Course \notin VirtualUnits
BY StudentAssumption DEF Items

\* What a step of job t does to the queue.
LEMMA TaskShape ==
    ASSUME StudentTypeOK, NEW t \in DOMAIN tasks, TaskStep(t) \/ TaskFails(t) \/ TaskStalls(t)
    PROVE  /\ requests' = requests
           /\ raced \subseteq raced' /\ struckItems \subseteq struckItems'
           /\ \/ tasks' = Queues!RemoveAt(tasks, t)
              \/ /\ JobMoves(t)
                 /\ InWork(t)' /\ ~InWork(t) =>
                       \/ tasks[t].item = Course
                       \/ raced' = raced \cup ({tasks[t].item} \cap Beside(t))
           /\ \/ attempts' = attempts
              \/ /\ tasks[t].own = 0 /\ tasks[t].step = "judged" /\ tasks[t].item \in Items
                 /\ attempts' = Append(attempts, AttemptRow(tasks[t].item, tasks[t].answer))
<1>0. /\ tasks[t] \in StudentTasks /\ RightKind(tasks[t])
      /\ tasks[t].item \in Items \cup {Course}
  BY TaskIndex DEF StudentTypeOK, StudentTasks
<1>a. TaskSteps = {"queued", "fresh", "judged", "award", "read", "certify", "check",
                   "create", "done"}
  BY DEF TaskSteps
<1> USE DEF submitVars, rewardVars, courseVars, faultVars
<1>1. CASE TakeAttempt(t)
  BY <1>1, <1>a, Moves DEF TakeAttempt
<1>2. CASE FindRewarded(t)
  <2> DEFINE r == [tasks[t] EXCEPT !.rewarded = AlreadyRewarded(t), !.step = "judged"]
  <2>1. AlreadyRewarded(t) \in BOOLEAN
    BY DEF AlreadyRewarded
  <2>2. /\ r \in StudentTasks /\ r.item = tasks[t].item /\ r.answer = tasks[t].answer
        /\ r.own = tasks[t].own
    BY <1>0, <1>a, <2>1 DEF StudentTasks
  <2>3. tasks' = [tasks EXCEPT ![t] = r] /\ InWork(t)
    BY <1>2 DEF FindRewarded, InWork
  <2>4. tasks \in Seq(StudentTasks)
    BY DEF StudentTypeOK
  <2> HIDE DEF r
  <2>5. JobMoves(t)
    BY <2>2, <2>3, <2>4 DEF JobMoves
  <2>6. QED
    BY <1>2, <2>3, <2>5 DEF FindRewarded
<1>3. CASE CreateAttempt(t)
  <2>1. tasks[t].item \in Items
    BY <1>0, <1>3 DEF CreateAttempt, RightKind
  <2>2. JobMoves(t) /\ InWork(t)
    BY <1>3, <1>a, Moves DEF CreateAttempt, InWork
  <2>3. QED
    BY <1>3, <2>1, <2>2 DEF CreateAttempt
<1>4. CASE AwardXp(t) \/ UpsertProgress(t)
  BY <1>4, <1>a, Moves DEF AwardXp, UpsertProgress, InWork
<1>5. CASE ReadSubmissions(t)
  <2> DEFINE r == [tasks[t] EXCEPT !.found = Completed, !.step = "read"]
  <2>1. Completed \in SUBSET Units
    BY DEF Completed
  <2>2. /\ r \in StudentTasks /\ r.item = tasks[t].item /\ r.answer = tasks[t].answer
        /\ r.own = tasks[t].own
    BY <1>0, <1>a, <2>1 DEF StudentTasks
  <2>3. tasks' = [tasks EXCEPT ![t] = r]
    BY <1>5 DEF ReadSubmissions
  <2>4. tasks \in Seq(StudentTasks)
    BY DEF StudentTypeOK
  <2> HIDE DEF r
  <2>5. JobMoves(t)
    BY <2>2, <2>3, <2>4 DEF JobMoves
  <2>6. QED
    BY <1>5, <2>5 DEF ReadSubmissions
<1>6. CASE FindCertificate(t) \/ CheckThreshold(t) \/ CreateCertificate(t)
  <2>1. PICK step \in TaskSteps : StepTo(t, step)
    BY <1>6, <1>a DEF FindCertificate, CheckThreshold, CreateCertificate
  <2>2. JobMoves(t) /\ InWork(t)
    BY <1>6, <2>1, Moves DEF FindCertificate, CheckThreshold, CreateCertificate, InWork
  <2>3. QED
    BY <1>6, <2>2 DEF FindCertificate, CheckThreshold, CreateCertificate
<1>7. CASE EndTask(t) \/ TaskFails(t)
  BY <1>7 DEF EndTask, TaskFails, JobFault
<1>8. CASE TaskStalls(t)
  BY <1>8, <1>a, Moves DEF TaskStalls, InWork, JobFault
<1>9. QED
  BY <1>1, <1>2, <1>3, <1>4, <1>5, <1>6, <1>7, <1>8 DEF TaskStep

\* The rows there are stay.
LEMMA RowsStay ==
    ASSUME StudentTypeOK, [StudentNext]_studentVars
    PROVE  \A n \in DOMAIN attempts : n \in DOMAIN attempts' /\ attempts'[n] = attempts[n]
<1>1. CASE attempts' = attempts
  BY <1>1
<1>2. CASE \E i \in Items, answer \in Answers :
             attempts' = Append(attempts, AttemptRow(i, answer))
  BY <1>2, RowAppended
<1>3. CASE \E v \in VirtualUnits, answer \in {"right", "wrong"} : SubmitVirtual(v, answer)
  <2>1. {"right", "wrong"} \subseteq Answers
    BY DEF Answers, Right
  <2>2. QED
    BY <1>2, <1>3, <2>1, ItemsApart DEF SubmitVirtual
<1>4. CASE \E t \in DOMAIN tasks : TaskStep(t) \/ TaskFails(t) \/ TaskStalls(t)
  <2>1. \A t \in DOMAIN tasks : tasks[t].answer \in Answers
    BY TaskIndex DEF StudentTasks
  <2>2. QED
    BY <1>1, <1>2, <1>4, <2>1, TaskShape
<1>5. CASE \/ UNCHANGED studentVars
           \/ \E u \in Units, answer \in {"right", "wrong"} : SubmitUnit(u, answer)
           \/ \E q \in Questions, answer \in Right \cup {"wrong"} : FlushAnswer(q, answer)
           \/ \E i \in DOMAIN requests : RequestStep(i) \/ SubmissionFails(i)
  BY <1>1, <1>5 DEF SubmitUnit, FlushAnswer, RequestStep, EnqueueAttempt, EnqueueProgress,
                    SubmissionFails, rewardVars, studentVars
<1>6. QED
  BY <1>3, <1>4, <1>5 DEF StudentNext

\* What a submission or a flush appends to the queue: job x, queued.
LEMMA RequestShape ==
    ASSUME StudentTypeOK, OwnInv, NEW i \in DOMAIN requests, RequestStep(i)
    PROVE  \E x \in StudentTasks :
              /\ x.step = "queued" /\ tasks' = Append(tasks, x)
              /\ UNCHANGED <<attempts, xp, raced, struckItems, submitted, courseVars>>
              /\ \/ /\ i \in Units /\ x.item = Course /\ x.own = 0 /\ x.found = {}
                    /\ requests' = [requests EXCEPT ![i].step = "attempt"]
                 \/ /\ x.item = i /\ x.answer = requests[i].answer /\ x.own = requests[i].own
                    /\ x.found = {}
                    /\ requests[i].step # "idle" /\ requests' = [requests EXCEPT ![i] = Idle]
<1>0. i \in Items \ Questions /\ requests[i] \in Submissions
  BY DEF StudentTypeOK
<1>1. CASE i \in Units /\ EnqueueProgress(i)
  <2>1. /\ ProgressTask \in StudentTasks /\ ProgressTask.step = "queued"
        /\ ProgressTask.item = Course /\ ProgressTask.own = 0 /\ ProgressTask.found = {}
    BY DEF ProgressTask, StudentTasks, TaskSteps, Answers
  <2>2. QED
    BY <1>1, <2>1 DEF EnqueueProgress, rewardVars, faultVars
<1>2. CASE EnqueueAttempt(i)
  <2> DEFINE x == AttemptTask(i, requests[i].answer, requests[i].own)
  <2>1. /\ x \in StudentTasks /\ x.step = "queued" /\ x.item = i
        /\ x.answer = requests[i].answer /\ x.own = requests[i].own /\ x.found = {}
    BY <1>0, NewTasks DEF AttemptTask, ProgressTask, Submissions
  <2>2. QED
    BY <1>2, <2>1 DEF EnqueueAttempt, rewardVars, faultVars
<1>3. QED
  BY <1>1, <1>2 DEF RequestStep

LEMMA FlushShape ==
    ASSUME StudentTypeOK, NEW q \in Questions, NEW answer \in Right \cup {"wrong"},
           FlushAnswer(q, answer)
    PROVE  \E x \in StudentTasks :
              /\ x.step = "queued" /\ tasks' = Append(tasks, x) /\ x.item = q /\ x.own = 0
              /\ x.found = {}
              /\ UNCHANGED <<requests, attempts, xp, raced, struckItems, submitted,
                               courseVars>>
<1> DEFINE x == AttemptTask(q, answer, 0)
<1>1. answer \in Answers
  BY DEF Answers, Right
<1>2. x \in StudentTasks /\ x.step = "queued" /\ x.item = q /\ x.own = 0 /\ x.found = {}
  BY <1>1, NewTasks, ItemsApart DEF AttemptTask, ProgressTask
<1>3. QED
  BY <1>2 DEF FlushAnswer, rewardVars, faultVars

LEMMA OwnStep ==
    StudentTypeOK /\ OwnInv /\ [StudentNext]_studentVars => OwnInv'
<1> SUFFICES ASSUME StudentTypeOK, OwnInv, [StudentNext]_studentVars PROVE OwnInv'
  OBVIOUS
<1>a. \A i, answer, own :
           AboutRow(attempts, i, answer, own) => AboutRow(attempts', i, answer, own)
  BY RowsStay DEF AboutRow
<1>b. requests \in [Items \ Questions -> Submissions]
  BY DEF StudentTypeOK
<1>1. CASE UNCHANGED studentVars
  BY <1>1 DEF studentVars, submitVars, rewardVars, OwnInv, AboutRow
<1>2. ASSUME NEW u \in Units, NEW answer \in {"right", "wrong"}, SubmitUnit(u, answer)
      PROVE  OwnInv'
  <2>1. AboutRow(attempts', u, answer, 0)
    BY ItemsApart DEF AboutRow
  <2>2. QED
    BY <1>2, <1>a, <1>b, <2>1, ItemsApart DEF SubmitUnit, OwnInv
<1>3. ASSUME NEW v \in VirtualUnits, NEW answer \in {"right", "wrong"},
             SubmitVirtual(v, answer)
      PROVE  OwnInv'
  <2>1. AboutRow(attempts', v, answer, Len(attempts'))
    <3>1. v \in Items /\ answer \in Answers
      BY ItemsApart DEF Answers, Right
    <3>2. attempts' = Append(attempts, AttemptRow(v, answer))
      BY <1>3 DEF SubmitVirtual
    <3>3. Len(attempts') \in DOMAIN attempts'
          /\ attempts'[Len(attempts')] = AttemptRow(v, answer)
      BY <3>1, <3>2, RowAppended
    <3>4. QED
      BY <3>3 DEF AboutRow
  <2>2. tasks' = tasks /\ requests' = [requests EXCEPT ![v] =
                      [step |-> "attempt", answer |-> answer, own |-> Len(attempts')]]
    BY <1>3 DEF SubmitVirtual
  <2>3. QED
    BY <1>a, <1>b, <2>1, <2>2, ItemsApart DEF OwnInv
<1>4. ASSUME NEW q \in Questions, NEW answer \in Right \cup {"wrong"}, FlushAnswer(q, answer)
      PROVE  OwnInv'
  <2>1. PICK x \in StudentTasks : x.step = "queued" /\ tasks' = Append(tasks, x) /\ x.item = q
                                  /\ x.own = 0 /\ requests' = requests
    BY <1>4, FlushShape
  <2>2. AboutRow(attempts', x.item, x.answer, x.own)
    BY <2>1, ItemsApart DEF AboutRow
  <2>3. QED
    BY <1>a, <2>1, <2>2, Queued DEF OwnInv
<1>5. ASSUME NEW i \in DOMAIN requests, RequestStep(i) PROVE OwnInv'
  <2>1. PICK x \in StudentTasks :
              /\ x.step = "queued" /\ tasks' = Append(tasks, x)
              /\ \/ /\ i \in Units /\ x.item = Course /\ x.own = 0
                    /\ requests' = [requests EXCEPT ![i].step = "attempt"]
                 \/ /\ x.item = i /\ x.answer = requests[i].answer /\ x.own = requests[i].own
                    /\ requests[i].step # "idle" /\ requests' = [requests EXCEPT ![i] = Idle]
    BY <1>5, RequestShape
  <2>2. AboutRow(attempts', x.item, x.answer, x.own)
    <3>1. CASE x.item = Course /\ x.own = 0
      BY <3>1, ItemsApart DEF AboutRow
    <3>2. CASE x.item = i /\ x.answer = requests[i].answer /\ x.own = requests[i].own
               /\ requests[i].step # "idle"
      BY <1>a, <1>b, <3>2 DEF OwnInv
    <3>3. QED
      BY <2>1, <3>1, <3>2
  <2>3. ASSUME NEW j \in Items \ Questions
        PROVE  IF requests'[j].step = "idle" THEN requests'[j] = Idle
               ELSE AboutRow(attempts', j, requests'[j].answer, requests'[j].own)
    <3>1. CASE i \in Units /\ requests' = [requests EXCEPT ![i].step = "attempt"]
      <4>1. CASE j = i
        <5>1. AboutRow(attempts, i, requests[i].answer, requests[i].own)
          BY <1>b, <3>1, ItemsApart DEF OwnInv, AboutRow, Idle
        <5>2. /\ requests'[i].answer = requests[i].answer /\ requests'[i].own = requests[i].own
              /\ requests'[i].step = "attempt"
          BY <1>b, <3>1 DEF Submissions
        <5>3. QED
          BY <1>a, <4>1, <5>1, <5>2
      <4>2. CASE j # i
        BY <1>a, <1>b, <3>1, <4>2 DEF OwnInv
      <4>3. QED
        BY <4>1, <4>2
    <3>2. CASE requests' = [requests EXCEPT ![i] = Idle]
      <4>1. CASE j = i
        BY <1>b, <3>2, <4>1 DEF Idle
      <4>2. CASE j # i
        BY <1>a, <1>b, <3>2, <4>2 DEF OwnInv
      <4>3. QED
        BY <4>1, <4>2
    <3>3. QED
      BY <2>1, <3>1, <3>2
  <2>4. \A t \in DOMAIN tasks' :
             AboutRow(attempts', tasks'[t].item, tasks'[t].answer, tasks'[t].own)
    BY <1>a, <2>1, <2>2, Queued DEF OwnInv
  <2>5. QED
    BY <2>3, <2>4 DEF OwnInv
<1>6. ASSUME NEW i \in DOMAIN requests, SubmissionFails(i) PROVE OwnInv'
  <2>1. tasks' = tasks /\ requests' = [requests EXCEPT ![i] = Idle] /\ Idle.step = "idle"
    BY <1>6 DEF SubmissionFails, Idle
  <2>2. QED
    BY <1>a, <1>b, <2>1 DEF OwnInv
<1>7. ASSUME NEW t \in DOMAIN tasks, TaskStep(t) \/ TaskFails(t) \/ TaskStalls(t)
      PROVE  OwnInv'
  <2>1. requests' = requests /\ (tasks' = Queues!RemoveAt(tasks, t) \/ JobMoves(t))
    BY <1>7, TaskShape
  <2>2. \A k \in DOMAIN tasks' : \E u \in DOMAIN tasks :
           /\ tasks'[k].item = tasks[u].item /\ tasks'[k].answer = tasks[u].answer
           /\ tasks'[k].own = tasks[u].own
    <3>1. CASE tasks' = Queues!RemoveAt(tasks, t)
      BY <3>1, Dequeued
    <3>2. CASE JobMoves(t)
      BY <3>2 DEF JobMoves
    <3>3. QED
      BY <2>1, <3>1, <3>2
  <2>3. \A k \in DOMAIN tasks' :
             AboutRow(attempts', tasks'[k].item, tasks'[k].answer, tasks'[k].own)
    BY <1>a, <2>2 DEF OwnInv
  <2>4. QED
    BY <1>a, <2>1, <2>3 DEF OwnInv
<1>8. QED
  BY <1>1, <1>2, <1>3, <1>4, <1>5, <1>6, <1>7 DEF StudentNext

LEMMA AloneStep ==
    StudentTypeOK /\ OwnInv /\ AloneInv /\ [StudentNext]_studentVars => AloneInv'
<1> SUFFICES ASSUME StudentTypeOK, OwnInv, AloneInv, [StudentNext]_studentVars
             PROVE  AloneInv'
  OBVIOUS
<1>b. requests \in [Items \ Questions -> Submissions]
  BY DEF StudentTypeOK
<1>1. CASE UNCHANGED studentVars
  BY <1>1 DEF studentVars, submitVars, rewardVars, AloneInv, InWork, Awaited
<1>2. ASSUME NEW u \in Units, NEW answer \in {"right", "wrong"}, SubmitUnit(u, answer)
      PROVE  AloneInv'
  BY <1>2, <1>b, ItemsApart DEF SubmitUnit, rewardVars, AloneInv, InWork, Awaited
<1>3. ASSUME NEW v \in VirtualUnits, NEW answer \in {"right", "wrong"},
             SubmitVirtual(v, answer)
      PROVE  AloneInv'
  BY <1>3, <1>b, ItemsApart DEF SubmitVirtual, AloneInv, InWork, Awaited
<1>4. ASSUME NEW q \in Questions, NEW answer \in Right \cup {"wrong"}, FlushAnswer(q, answer)
      PROVE  AloneInv'
  <2>1. PICK x \in StudentTasks : /\ x.step = "queued" /\ tasks' = Append(tasks, x)
                                  /\ x.item = q /\ requests' = requests /\ raced' = raced
    BY <1>4, FlushShape
  <2>2. QED
    BY <2>1, Queued, ItemsApart DEF AloneInv, InWork, Awaited
<1>5. ASSUME NEW i \in DOMAIN requests, RequestStep(i) PROVE AloneInv'
  <2>1. PICK x \in StudentTasks :
              /\ x.step = "queued" /\ tasks' = Append(tasks, x) /\ raced' = raced
              /\ \/ /\ i \in Units /\ x.item = Course
                    /\ requests' = [requests EXCEPT ![i].step = "attempt"]
                 \/ /\ x.item = i
                    /\ requests[i].step # "idle" /\ requests' = [requests EXCEPT ![i] = Idle]
    BY <1>5, RequestShape
  <2>2. ASSUME NEW j \in Items \ raced
        PROVE  /\ \A t, u \in DOMAIN tasks' :
                     /\ tasks'[t].item = j /\ tasks'[u].item = j
                     /\ j \in VirtualUnits \/ (InWork(t)' /\ InWork(u)')
                     => t = u
               /\ j \in VirtualUnits /\ requests'[j] # Idle => ~Awaited(j)'
    <3>1. CASE i \in Units /\ x.item = Course
               /\ requests' = [requests EXCEPT ![i].step = "attempt"]
      BY <1>b, <2>1, <3>1, Queued, ItemsApart DEF AloneInv, InWork, Awaited
    <3>2. CASE /\ x.item = i
               /\ requests[i].step # "idle" /\ requests' = [requests EXCEPT ![i] = Idle]
      <4>1. CASE j = i
        <5>1. j \in VirtualUnits => ~Awaited(j)
          BY <3>2, <4>1 DEF AloneInv, Idle
        <5>2. QED
          BY <1>b, <2>1, <3>2, <4>1, <5>1, Queued DEF AloneInv, InWork, Awaited
      <4>2. CASE j # i
        BY <1>b, <2>1, <3>2, <4>2, Queued, ItemsApart DEF AloneInv, InWork, Awaited
      <4>3. QED
        BY <4>1, <4>2
    <3>3. QED
      BY <2>1, <3>1, <3>2
  <2>3. QED
    BY <2>1, <2>2 DEF AloneInv
<1>6. ASSUME NEW i \in DOMAIN requests, SubmissionFails(i) PROVE AloneInv'
  BY <1>6, <1>b DEF SubmissionFails, rewardVars, AloneInv, InWork, Awaited
<1>7. ASSUME NEW t \in DOMAIN tasks, TaskStep(t) \/ TaskFails(t) \/ TaskStalls(t)
      PROVE  AloneInv'
  <2>1. requests' = requests /\ raced \subseteq raced'
    BY <1>7, TaskShape
  <2>2. CASE tasks' = Queues!RemoveAt(tasks, t)
    <3>1. \A k \in DOMAIN tasks' :
                 /\ Before(k, t) \in DOMAIN tasks
                 /\ tasks'[k] = tasks[Before(k, t)]
                 /\ \A l \in DOMAIN tasks' : Before(k, t) = Before(l, t) => k = l
      BY <2>2, Dequeued
    <3>2. QED
      BY <2>1, <3>1 DEF AloneInv, InWork, Awaited
  <2>3. CASE /\ JobMoves(t)
             /\ InWork(t)' /\ ~InWork(t) =>
                       \/ tasks[t].item = Course
                       \/ raced' = raced \cup ({tasks[t].item} \cap Beside(t))
    <3>1. \A u \in DOMAIN tasks' : u \in DOMAIN tasks /\ tasks'[u].item = tasks[u].item
      BY <2>3 DEF JobMoves
    <3>2. \A u \in DOMAIN tasks \ {t} : InWork(u)' <=> InWork(u)
      BY <2>3 DEF JobMoves, InWork
    <3>3. \A i \in Items \ raced' : tasks[t].item = i /\ InWork(t)' /\ ~InWork(t) =>
             \A u \in DOMAIN tasks \ {t} : ~(tasks[u].item = i /\ InWork(u))
      BY <2>3, ItemsApart DEF Beside
    <3>4. \A i : Awaited(i)' <=> Awaited(i)
      BY <2>3, <3>1 DEF Awaited, JobMoves
    <3>5. QED
      BY <2>1, <3>1, <3>2, <3>3, <3>4 DEF AloneInv
  <2>4. QED
    BY <1>7, <2>2, <2>3, TaskShape
<1>8. QED
  BY <1>1, <1>2, <1>3, <1>4, <1>5, <1>6, <1>7 DEF StudentNext

-------------------------------------------------------------------------------
(* StudentProgress: rewards.                                               *)

\* The jobs about an item.
WorkOf(i) == {tasks[t] : t \in {u \in DOMAIN tasks : tasks[u].item = i}}
\* Rows whose own job has not come to its reward yet, and the rows of before.
PendingRows(i) ==
    {w.own : w \in {r \in WorkOf(i) : r.step \in {"queued", "fresh", "judged"}}}
    \cup {requests[j].own : j \in {i} \cap (Items \ Questions)}
Earlier(i) == RightRows(i) \ PendingRows(i)

\* A job is rewarded for the first correct row: its judgement is still right when it creates
\* its own, and until it awards the XP nobody else has.
RewardOK(i) ==
    /\ \A w \in WorkOf(i) :
          /\ w.step = "judged" => (w.rewarded <=> RightRows(i) \ {w.own} # {})
          /\ w.step = "award" => xp[i] = 0 /\ RightRows(i) # {}
    /\ xp[i] \in {0, 1}
    /\ xp[i] = 1 => Earlier(i) # {}
    /\ i \notin struckItems /\ xp[i] = 0 /\ Earlier(i) # {} =>
          \E w \in WorkOf(i) : w.step = "award"
RewardInv == \A i \in Items \ raced : i \in VirtualUnits \cap struckItems \/ RewardOK(i)

\* Only an item submitted like a unit has rows of its own before its job.
EarlierIs ==
    \A i \in Items \ raced :
       /\ i \notin VirtualUnits => Earlier(i) = RightRows(i)
       /\ i \in VirtualUnits /\ ~Awaited(i) =>
             WorkOf(i) = {} /\ Earlier(i) = RightRows(i) \ {requests[i].own}
       /\ i \in VirtualUnits => \A t \in DOMAIN tasks : tasks[t].item = i =>
             /\ WorkOf(i) = {tasks[t]} /\ requests[i] = Idle
             /\ Earlier(i) = IF tasks[t].step \in {"queued", "fresh", "judged"}
                             THEN RightRows(i) \ {tasks[t].own} ELSE RightRows(i)

LEMMA NoRowZero == StudentTypeOK => \A i : 0 \notin RightRows(i)
<1> SUFFICES ASSUME StudentTypeOK PROVE \A i : 0 \notin RightRows(i)
  OBVIOUS
<1>1. 0 \notin DOMAIN attempts
  BY TaskIndex
<1>2. QED
  BY <1>1 DEF RightRows, RowsOf

LEMMA EarlierOf == StudentTypeOK /\ OwnInv /\ AloneInv => EarlierIs
<1> SUFFICES ASSUME StudentTypeOK, OwnInv, AloneInv, NEW i \in Items \ raced
             PROVE  /\ i \notin VirtualUnits => Earlier(i) = RightRows(i)
                    /\ i \in VirtualUnits /\ ~Awaited(i) =>
                          WorkOf(i) = {} /\ Earlier(i) = RightRows(i) \ {requests[i].own}
                    /\ i \in VirtualUnits => \A t \in DOMAIN tasks : tasks[t].item = i =>
                          /\ WorkOf(i) = {tasks[t]} /\ requests[i] = Idle
                          /\ Earlier(i) = IF tasks[t].step \in {"queued", "fresh", "judged"}
                                          THEN RightRows(i) \ {tasks[t].own} ELSE RightRows(i)
  BY DEF EarlierIs
<1>0. 0 \notin RightRows(i)
  BY NoRowZero
<1>1. CASE i \notin VirtualUnits
  <2>1. \A w \in WorkOf(i) : w.own = 0
    BY <1>1 DEF WorkOf, OwnInv, AboutRow
  <2>2. i \in Items \ Questions => requests[i].own = 0
    BY <1>1 DEF OwnInv, AboutRow, Idle
  <2>3. PendingRows(i) \subseteq {0}
    BY <2>1, <2>2 DEF PendingRows
  <2>4. QED
    BY <1>0, <1>1, <2>3 DEF Earlier
<1>2. CASE i \in VirtualUnits /\ ~Awaited(i)
  <2>1. WorkOf(i) = {}
    BY <1>2 DEF WorkOf, Awaited
  <2>2. PendingRows(i) = {requests[i].own}
    BY <1>2, <2>1, ItemsApart DEF PendingRows
  <2>3. QED
    BY <1>2, <2>1, <2>2 DEF Earlier, Awaited
<1>3. ASSUME i \in VirtualUnits, NEW t \in DOMAIN tasks, tasks[t].item = i
      PROVE  /\ WorkOf(i) = {tasks[t]} /\ requests[i] = Idle
             /\ Earlier(i) = IF tasks[t].step \in {"queued", "fresh", "judged"}
                             THEN RightRows(i) \ {tasks[t].own} ELSE RightRows(i)
  <2>1. \A u \in DOMAIN tasks : tasks[u].item = i => u = t
    BY <1>3 DEF AloneInv
  <2>2. WorkOf(i) = {tasks[t]}
    BY <1>3, <2>1 DEF WorkOf
  <2>3. requests[i] = Idle
    BY <1>3 DEF AloneInv, Awaited
  <2>4. PendingRows(i) = (IF tasks[t].step \in {"queued", "fresh", "judged"}
                          THEN {tasks[t].own} ELSE {}) \cup {0}
    BY <1>3, <2>2, <2>3, ItemsApart DEF PendingRows, Idle
  <2>5. QED
    BY <1>0, <2>2, <2>3, <2>4 DEF Earlier
<1>4. QED
  BY <1>1, <1>2, <1>3 DEF Awaited

LEMMA EarlierNext == (StudentTypeOK /\ OwnInv /\ AloneInv)' => EarlierIs'
BY EarlierOf, PTL

\* An item nothing happened to.
LEMMA RewardKept ==
    ASSUME NEW i, RewardOK(i), WorkOf(i)' = WorkOf(i), RightRows(i)' = RightRows(i),
           Earlier(i)' = Earlier(i), xp'[i] = xp[i], struckItems \subseteq struckItems'
    PROVE  RewardOK(i)'
BY DEF RewardOK

LEMMA RowsSame ==
    ASSUME attempts' = attempts PROVE \A i : RightRows(i)' = RightRows(i)
BY DEF RightRows, RowsOf

\* One more row.
LEMMA RowsGrow ==
    ASSUME StudentTypeOK, NEW j \in Items, NEW answer \in Answers,
           attempts' = Append(attempts, AttemptRow(j, answer))
    PROVE  /\ \A i : i # j => RightRows(i)' = RightRows(i)
           /\ RightRows(j)' = RightRows(j)
                              \cup (IF answer \in Right THEN {Len(attempts')} ELSE {})
           /\ Len(attempts') \notin RightRows(j)
<1>1. /\ DOMAIN attempts' = DOMAIN attempts \cup {Len(attempts')}
      /\ Len(attempts') \notin DOMAIN attempts
      /\ attempts'[Len(attempts')] = AttemptRow(j, answer)
      /\ \A n \in DOMAIN attempts : attempts'[n] = attempts[n]
  BY RowAppended
<1>2. AttemptRow(j, answer).item = j /\ AttemptRow(j, answer).answer = answer
  BY DEF AttemptRow
<1>3. \A i : /\ \A n : n \in RightRows(i) <=>
                       /\ n \in DOMAIN attempts
                       /\ attempts[n].item = i /\ attempts[n].answer \in Right
             /\ \A n : n \in RightRows(i)' <=>
                       /\ n \in DOMAIN attempts' /\ attempts'[n].item = i
                       /\ attempts'[n].answer \in Right
  BY DEF RightRows, RowsOf
<1>4. ASSUME NEW i, i # j PROVE RightRows(i)' = RightRows(i)
  <2>1. \A n : n \in RightRows(i)' <=> n \in RightRows(i)
    BY <1>1, <1>2, <1>3, <1>4
  <2>2. QED
    BY <2>1 DEF RightRows, RowsOf
<1>5. QED
  BY <1>1, <1>2, <1>3, <1>4

\* The queue of another item's jobs.
LEMMA WorkQueued ==
    ASSUME StudentTypeOK, NEW x \in StudentTasks, tasks' = Append(tasks, x), NEW i
    PROVE  /\ x.item # i => WorkOf(i)' = WorkOf(i)
           /\ x.item = i => WorkOf(i)' = WorkOf(i) \cup {x}
<1>1. /\ DOMAIN tasks' = DOMAIN tasks \cup {Len(tasks) + 1}
      /\ tasks'[Len(tasks) + 1] = x
      /\ \A t \in DOMAIN tasks : tasks'[t] = tasks[t]
  BY Queued
<1>2. QED
  BY <1>1 DEF WorkOf

LEMMA WorkMoves ==
    ASSUME NEW t \in DOMAIN tasks, JobMoves(t), NEW i
    PROVE  /\ i # tasks[t].item => WorkOf(i)' = WorkOf(i)
           /\ i = tasks[t].item =>
                 /\ tasks'[t] \in WorkOf(i)'
                 /\ \A w \in WorkOf(i)' : w = tasks'[t] \/
                       \E u \in DOMAIN tasks \ {t} : tasks[u].item = i /\ w = tasks[u]
BY DEF WorkOf, JobMoves

LEMMA WorkDequeued ==
    ASSUME StudentTypeOK, NEW t \in DOMAIN tasks, tasks' = Queues!RemoveAt(tasks, t), NEW i
    PROVE  /\ i # tasks[t].item => WorkOf(i)' = WorkOf(i)
           /\ WorkOf(i)' \subseteq WorkOf(i)
           /\ \A w \in WorkOf(i) : w # tasks[t] => w \in WorkOf(i)'
<1>1. /\ \A k \in DOMAIN tasks' :
            Before(k, t) \in DOMAIN tasks \ {t} /\ tasks'[k] = tasks[Before(k, t)]
      /\ \A u \in DOMAIN tasks \ {t} : \E k \in DOMAIN tasks' : tasks'[k] = tasks[u]
  BY Dequeued
<1>2. \A w : w \in WorkOf(i) <=> \E u \in DOMAIN tasks : tasks[u].item = i /\ w = tasks[u]
  BY DEF WorkOf
<1>3. \A w : w \in WorkOf(i)' <=> \E u \in DOMAIN tasks' : tasks'[u].item = i /\ w = tasks'[u]
  BY DEF WorkOf
<1>4. \A w : w \in WorkOf(i)' => w \in WorkOf(i)
  BY <1>1, <1>2, <1>3
<1>5. \A w : w \in WorkOf(i) /\ w # tasks[t] => w \in WorkOf(i)'
  BY <1>1, <1>2, <1>3
<1>6. i # tasks[t].item => \A w : w \in WorkOf(i)' <=> w \in WorkOf(i)
  BY <1>2, <1>4, <1>5
<1>7. i # tasks[t].item => WorkOf(i)' = WorkOf(i)
  BY <1>6 DEF WorkOf
<1>8. QED
  BY <1>4, <1>5, <1>7

LEMMA PendingSame ==
    ASSUME NEW i, WorkOf(i)' = WorkOf(i),
           i \in Items \ Questions => requests'[i].own = requests[i].own
    PROVE  PendingRows(i)' = PendingRows(i)
BY DEF PendingRows

\* The item of a job that takes a step.
LEMMA RewardOfJob ==
    ASSUME StudentTypeOK, OwnInv, AloneInv, RewardInv, EarlierIs, EarlierIs', AloneInv',
           NEW t \in DOMAIN tasks, TaskStep(t) \/ TaskFails(t) \/ TaskStalls(t),
           NEW i \in Items \ raced', i = tasks[t].item,
           ~(i \in VirtualUnits \cap struckItems')
    PROVE  RewardOK(i)'
<1>0. /\ requests' = requests /\ raced \subseteq raced' /\ struckItems \subseteq struckItems'
      /\ i \in Items \ raced /\ RewardOK(i)
  <2>1. requests' = requests /\ raced \subseteq raced' /\ struckItems \subseteq struckItems'
    BY TaskShape
  <2>2. QED
    BY <2>1 DEF RewardInv
<1>a. /\ RightKind(tasks[t]) /\ i # Course /\ tasks[t] \in StudentTasks
      /\ tasks[t].answer \in Answers
  BY ItemsApart, TaskIndex DEF StudentTypeOK, StudentTasks
<1>b. TaskSteps = {"queued", "fresh", "judged", "award", "read", "certify", "check",
                   "create", "done"}
  BY DEF TaskSteps
<1>c. /\ i \notin VirtualUnits => Earlier(i) = RightRows(i) /\ Earlier(i)' = RightRows(i)'
      /\ i \in VirtualUnits =>
            /\ WorkOf(i) = {tasks[t]} /\ requests[i] = Idle
            /\ Earlier(i) = IF tasks[t].step \in {"queued", "fresh", "judged"}
                            THEN RightRows(i) \ {tasks[t].own} ELSE RightRows(i)
  BY <1>0 DEF EarlierIs
<1>d. tasks[t] \in WorkOf(i)
  BY DEF WorkOf
<1>e. AboutRow(attempts, i, tasks[t].answer, tasks[t].own) /\ 0 \notin RightRows(i)
  BY NoRowZero DEF OwnInv
<1>f. ASSUME InWork(t), NEW w \in WorkOf(i), w # tasks[t] PROVE w.step = "queued"
  <2>1. PICK u \in DOMAIN tasks : tasks[u].item = i /\ w = tasks[u]
    BY DEF WorkOf
  <2>2. ~InWork(u)
    BY <1>0, <1>f, <2>1 DEF AloneInv
  <2>3. QED
    BY <2>1, <2>2 DEF InWork
\* The jobs after a step that leaves job t in the queue.
<1>g. ASSUME JobMoves(t), InWork(t) \/ InWork(t)'
      PROVE  /\ tasks'[t] \in WorkOf(i)'
             /\ \A w \in WorkOf(i)' : w = tasks'[t] \/ w.step = "queued"
             /\ i \in VirtualUnits =>
                   /\ WorkOf(i)' = {tasks'[t]}
                   /\ Earlier(i)' = IF tasks'[t].step \in {"queued", "fresh", "judged"}
                                    THEN RightRows(i)' \ {tasks[t].own} ELSE RightRows(i)'
  <2>1. /\ t \in DOMAIN tasks' /\ tasks'[t].item = i /\ tasks'[t].own = tasks[t].own
        /\ \A u \in DOMAIN tasks \ {t} : u \in DOMAIN tasks' /\ tasks'[u] = tasks[u]
    BY <1>g DEF JobMoves
  <2>2. \A u \in DOMAIN tasks \ {t} : tasks[u].item = i => tasks[u].step = "queued"
    BY <1>0, <1>g, <2>1 DEF AloneInv, InWork
  <2>3. /\ tasks'[t] \in WorkOf(i)'
        /\ \A w \in WorkOf(i)' : w = tasks'[t] \/ w.step = "queued"
    BY <1>g, <2>2, WorkMoves
  <2>4. QED
    BY <2>1, <2>3 DEF EarlierIs
<1> USE DEF submitVars, rewardVars, courseVars, faultVars
<1>1. CASE TakeAttempt(t)
  <2>1. tasks[t].step = "queued" /\ UNCHANGED <<attempts, xp, struckItems>>
    BY <1>1 DEF TakeAttempt, MayTake
  <2>2. /\ JobMoves(t)
        /\ \/ tasks'[t].step = "fresh"
           \/ tasks'[t].step = "done" /\ i \in Questions
    BY <1>1, <1>b, Moves DEF TakeAttempt, Repeats
  <2>3. RightRows(i)' = RightRows(i) /\ Earlier(i)' = Earlier(i)
    BY <1>c, <1>g, <2>1, <2>2, RowsSame, ItemsApart DEF InWork
  <2>4. \A w \in WorkOf(i) : w.step # "award" /\ w.step # "judged"
    <3>1. ASSUME NEW u \in DOMAIN tasks, tasks[u].item = i PROVE tasks[u].step = "queued"
      <4>1. CASE u = t
        BY <2>1, <4>1
      <4>2. CASE u # t
        BY <2>2, <3>1, <4>2 DEF AloneInv, InWork, JobMoves
      <4>3. QED
        BY <4>1, <4>2
    <3>2. QED
      BY <3>1 DEF WorkOf
  <2>5. \A w \in WorkOf(i)' : w.step # "award" /\ w.step # "judged"
    BY <1>g, <2>2 DEF InWork
  <2>6. QED
    BY <1>0, <2>1, <2>3, <2>4, <2>5 DEF RewardOK
<1>2. CASE FindRewarded(t)
  <2> DEFINE r == [tasks[t] EXCEPT !.rewarded = AlreadyRewarded(t), !.step = "judged"]
  <2>1. AlreadyRewarded(t) \in BOOLEAN
    BY DEF AlreadyRewarded
  <2>2. /\ r \in StudentTasks /\ r.item = tasks[t].item /\ r.answer = tasks[t].answer
        /\ r.own = tasks[t].own /\ r.step = "judged" /\ r.rewarded = AlreadyRewarded(t)
    BY <1>a, <1>b, <2>1 DEF StudentTasks
  <2>3. /\ tasks' = [tasks EXCEPT ![t] = r] /\ InWork(t) /\ tasks[t].step = "fresh"
        /\ UNCHANGED <<attempts, xp, struckItems>>
    BY <1>2 DEF FindRewarded, InWork
  <2>4. tasks \in Seq(StudentTasks)
    BY DEF StudentTypeOK
  <2> HIDE DEF r
  <2>5. JobMoves(t) /\ tasks'[t] = r
    BY <2>2, <2>3, <2>4 DEF JobMoves
  <2>6. RightRows(i)' = RightRows(i) /\ Earlier(i)' = Earlier(i)
    BY <1>c, <1>g, <2>2, <2>3, <2>5, RowsSame
  <2>7. \A w \in WorkOf(i) : w.step # "award"
    BY <1>f, <2>3
  <2>8. r.rewarded <=> RightRows(i) \ {r.own} # {}
    BY <2>2 DEF AlreadyRewarded
  <2>9. \A w \in WorkOf(i)' : w = r \/ w.step = "queued"
    BY <1>g, <2>3, <2>5
  <2>10. QED
    BY <1>0, <2>2, <2>3, <2>6, <2>7, <2>8, <2>9 DEF RewardOK
<1>3. CASE CreateAttempt(t)
  <2> DEFINE step == IF tasks[t].answer \in Right /\ ~tasks[t].rewarded
                     THEN "award" ELSE "done"
  <2>1. /\ tasks[t].step = "judged" /\ InWork(t) /\ UNCHANGED <<xp, struckItems>>
        /\ JobMoves(t) /\ tasks'[t].step = step
    BY <1>3, <1>b, Moves DEF CreateAttempt, InWork
  <2>2. \A w \in WorkOf(i) : w.step # "award"
    BY <1>f, <2>1
  <2>3. /\ \A w \in WorkOf(i)' : w = tasks'[t] \/ w.step = "queued"
        /\ tasks'[t] \in WorkOf(i)'
        /\ i \in VirtualUnits => Earlier(i)' = RightRows(i)'
    BY <1>g, <2>1
  <2>4. tasks[t].rewarded <=> RightRows(i) \ {tasks[t].own} # {}
    BY <1>0, <1>d, <2>1 DEF RewardOK
  <2>5. Earlier(i) = RightRows(i) \ {tasks[t].own} /\ Earlier(i)' = RightRows(i)'
    BY <1>c, <1>e, <2>1, <2>3 DEF AboutRow
  <2>6. /\ tasks[t].answer \in Right => RightRows(i)' # {}
        /\ tasks[t].answer \notin Right => RightRows(i)' = RightRows(i) \ {tasks[t].own}
        /\ RightRows(i) \subseteq RightRows(i)'
    <3>1. CASE i \in VirtualUnits
      <4>1. /\ tasks[t].own \in DOMAIN attempts
            /\ attempts[tasks[t].own] = AttemptRow(i, tasks[t].answer)
        BY <1>e, <3>1 DEF AboutRow
      <4>2. /\ AttemptRow(i, tasks[t].answer).item = i
            /\ AttemptRow(i, tasks[t].answer).answer = tasks[t].answer
        BY DEF AttemptRow
      <4>3. tasks[t].own # 0
        BY <4>1, TaskIndex
      <4>4. RightRows(i)' = RightRows(i)
        BY <1>3, <4>3, RowsSame DEF CreateAttempt
      <4>5. tasks[t].own \in RightRows(i) <=> tasks[t].answer \in Right
        BY <4>1, <4>2 DEF RightRows, RowsOf
      <4>6. QED
        BY <4>4, <4>5
    <3>2. CASE i \notin VirtualUnits
      <4>1. tasks[t].own = 0
        BY <1>e, <3>2 DEF AboutRow
      <4>2. attempts' = Append(attempts, AttemptRow(i, tasks[t].answer))
        BY <1>3, <4>1 DEF CreateAttempt
      <4>3. RightRows(i)' = RightRows(i)
               \cup (IF tasks[t].answer \in Right THEN {Len(attempts')} ELSE {})
        BY <1>a, <4>2, RowsGrow
      <4>4. QED
        BY <1>e, <4>1, <4>3
    <3>3. QED
      BY <3>1, <3>2
  <2>7. CASE tasks[t].answer \in Right /\ ~tasks[t].rewarded
    <3>1. xp[i] = 0 /\ step = "award"
      BY <1>0, <2>4, <2>5, <2>7 DEF RewardOK
    <3>2. QED
      BY <2>1, <2>3, <2>6, <2>7, <3>1 DEF RewardOK
  <2>8. CASE ~(tasks[t].answer \in Right /\ ~tasks[t].rewarded)
    <3>1. step = "done"
      BY <2>8
    <3>2. Earlier(i)' # {} <=> Earlier(i) # {}
      BY <2>4, <2>5, <2>6, <2>8
    <3> HIDE DEF step
    <3>3. QED
      BY <1>0, <2>1, <2>2, <2>3, <3>1, <3>2 DEF RewardOK
  <2>9. QED
    BY <2>7, <2>8
<1>4. CASE AwardXp(t)
  <2>1. /\ tasks[t].step = "award" /\ InWork(t) /\ UNCHANGED <<attempts, struckItems>>
        /\ xp' = [xp EXCEPT ![i] = @ + 1]
        /\ JobMoves(t) /\ tasks'[t].step = "done"
    BY <1>4, <1>b, Moves DEF AwardXp, InWork
  <2>2. xp[i] = 0 /\ RightRows(i) # {}
    BY <1>0, <1>d, <2>1 DEF RewardOK
  <2>3. xp'[i] = 1
    BY <2>1, <2>2 DEF StudentTypeOK
  <2>4. /\ \A w \in WorkOf(i)' : w.step \in {"queued", "done"}
        /\ i \in VirtualUnits => Earlier(i)' = RightRows(i)'
    BY <1>g, <2>1
  <2>5. Earlier(i)' = RightRows(i)' /\ RightRows(i)' = RightRows(i)
    BY <1>c, <2>1, <2>4, RowsSame
  <2>6. QED
    BY <2>2, <2>3, <2>4, <2>5 DEF RewardOK
<1>5. CASE EndTask(t)
  <2>1. /\ tasks[t].step = "done" /\ tasks' = Queues!RemoveAt(tasks, t)
        /\ UNCHANGED <<attempts, xp, struckItems>>
    BY <1>5 DEF EndTask
  <2>2. /\ WorkOf(i)' \subseteq WorkOf(i)
        /\ \A w \in WorkOf(i) : w # tasks[t] => w \in WorkOf(i)'
    BY <2>1, WorkDequeued
  <2>3. RightRows(i)' = RightRows(i)
    BY <2>1, RowsSame
  <2>4. Earlier(i)' = Earlier(i)
    <3>1. CASE i \notin VirtualUnits
      BY <1>c, <2>3, <3>1
    <3>2. CASE i \in VirtualUnits
      <4>1. /\ requests'[i].own = 0 /\ Earlier(i) = RightRows(i)
            /\ WorkOf(i) = {tasks[t]}
        BY <1>0, <1>c, <2>1, <3>2 DEF Idle
      <4>2. ~Awaited(i)'
        <5>1. \A u \in DOMAIN tasks : tasks[u].item = i => u = t
          BY <1>0, <3>2 DEF AloneInv
        <5>2. \A k \in DOMAIN tasks' :
                 Before(k, t) \in DOMAIN tasks \ {t} /\ tasks'[k] = tasks[Before(k, t)]
          BY <2>1, Dequeued
        <5>3. QED
          BY <5>1, <5>2 DEF Awaited
      <4>3. Earlier(i)' = RightRows(i)' \ {requests'[i].own}
        BY <3>2, <4>2 DEF EarlierIs
      <4>4. QED
        BY <1>e, <2>3, <4>1, <4>3
    <3>3. QED
      BY <3>1, <3>2
  <2>5. QED
    BY <1>0, <2>1, <2>2, <2>3, <2>4 DEF RewardOK
<1>6. CASE TaskFails(t)
  <2>1. /\ tasks' = Queues!RemoveAt(tasks, t) /\ UNCHANGED <<attempts, xp>>
        /\ i \in struckItems'
    BY <1>6 DEF TaskFails, JobFault
  <2>2. WorkOf(i)' \subseteq WorkOf(i)
    BY <2>1, WorkDequeued
  <2>3. RightRows(i)' = RightRows(i) /\ Earlier(i)' = Earlier(i)
    BY <1>c, <2>1, RowsSame
  <2>4. QED
    BY <1>0, <2>1, <2>2, <2>3 DEF RewardOK
<1>7. CASE TaskStalls(t)
  <2>1. /\ InWork(t) /\ UNCHANGED <<attempts, xp>> /\ i \in struckItems'
        /\ JobMoves(t) /\ tasks'[t].step = "queued"
    BY <1>7, <1>b, Moves DEF TaskStalls, JobFault
  <2>2. \A w \in WorkOf(i)' : w.step = "queued"
    BY <1>g, <2>1
  <2>3. RightRows(i)' = RightRows(i) /\ Earlier(i)' = Earlier(i)
    BY <1>c, <2>1, RowsSame
  <2>4. QED
    BY <1>0, <2>1, <2>2, <2>3 DEF RewardOK
<1>8. CASE \/ ReadSubmissions(t) \/ UpsertProgress(t) \/ FindCertificate(t)
           \/ CheckThreshold(t) \/ CreateCertificate(t)
  BY <1>8, <1>a DEF ReadSubmissions, UpsertProgress, FindCertificate, CheckThreshold,
                    CreateCertificate, RightKind
<1>9. QED
  BY <1>1, <1>2, <1>3, <1>4, <1>5, <1>6, <1>7, <1>8 DEF TaskStep

LEMMA RewardStep ==
    /\ StudentTypeOK /\ OwnInv /\ AloneInv /\ RewardInv
    /\ (StudentTypeOK /\ OwnInv /\ AloneInv)' /\ [StudentNext]_studentVars
    => RewardInv'
<1> SUFFICES ASSUME StudentTypeOK, OwnInv, AloneInv, RewardInv, StudentTypeOK', OwnInv',
                    AloneInv', [StudentNext]_studentVars
             PROVE  RewardInv'
  OBVIOUS
<1>a. EarlierIs /\ EarlierIs'
  BY EarlierOf, EarlierNext
<1>b. requests \in [Items \ Questions -> Submissions]
  BY DEF StudentTypeOK
<1> SUFFICES ASSUME NEW i \in Items \ raced', ~(i \in VirtualUnits \cap struckItems')
             PROVE  RewardOK(i)'
  BY DEF RewardInv
<1>c. raced \subseteq raced' /\ struckItems \subseteq struckItems' => RewardOK(i)
  BY DEF RewardInv
<1>d. /\ i \notin VirtualUnits /\ raced \subseteq raced' =>
            Earlier(i) = RightRows(i) /\ Earlier(i)' = RightRows(i)'
      /\ WorkOf(i)' = WorkOf(i) /\ RightRows(i)' = RightRows(i)
         /\ (i \in Items \ Questions => requests'[i].own = requests[i].own)
            => Earlier(i)' = Earlier(i)
  BY <1>a, PendingSame DEF EarlierIs, Earlier
<1>e. tasks' = tasks => WorkOf(i)' = WorkOf(i)
  BY DEF WorkOf
<1>1. CASE UNCHANGED studentVars
  <2>1. UNCHANGED <<tasks, attempts, requests, xp, raced, struckItems>>
    BY <1>1 DEF studentVars, submitVars, rewardVars, faultVars
  <2>2. QED
    BY <1>c, <1>d, <1>e, <2>1, RowsSame, RewardKept
<1>2. ASSUME NEW u \in Units, NEW answer \in {"right", "wrong"}, SubmitUnit(u, answer)
      PROVE  RewardOK(i)'
  <2>1. /\ UNCHANGED <<tasks, attempts, xp, raced, struckItems>>
        /\ requests[u].own = 0 /\ requests' = [requests EXCEPT ![u] =
                      [step |-> "progress", answer |-> answer, own |-> 0]]
    BY <1>2 DEF SubmitUnit, rewardVars, faultVars, Idle
  <2>2. i \in Items \ Questions => requests'[i].own = requests[i].own
    BY <1>b, <2>1
  <2>3. QED
    BY <1>c, <1>d, <1>e, <2>1, <2>2, RowsSame, RewardKept
<1>3. ASSUME NEW v \in VirtualUnits, NEW answer \in {"right", "wrong"},
             SubmitVirtual(v, answer)
      PROVE  RewardOK(i)'
  <2>1. /\ UNCHANGED <<tasks, xp, struckItems>> /\ raced \subseteq raced'
        /\ attempts' = Append(attempts, AttemptRow(v, answer))
        /\ requests[v].own = 0
        /\ requests' = [requests EXCEPT ![v] =
                      [step |-> "attempt", answer |-> answer, own |-> Len(attempts')]]
    BY <1>3 DEF SubmitVirtual, faultVars, Idle
  <2>2. v \in Items /\ answer \in Answers
    BY ItemsApart DEF Answers, Right
  <2>3. CASE i = v
    <3>1. ~Awaited(v) /\ ~Awaited(v)'
      BY <1>3, <2>3 DEF SubmitVirtual, Awaited
    <3>2. Earlier(v) = RightRows(v) \ {0} /\ Earlier(v)' = RightRows(v)' \ {Len(attempts')}
      <4>1. requests'[v].own = Len(attempts')
        BY <1>b, <2>1, ItemsApart
      <4>2. QED
        BY <1>a, <2>1, <2>3, <3>1, <4>1 DEF EarlierIs
    <3>3. Earlier(v)' = Earlier(v)
      BY <2>1, <2>2, <3>2, RowsGrow, NoRowZero
    <3>4. WorkOf(v) = {} /\ WorkOf(v)' = {}
      BY <3>1 DEF WorkOf, Awaited
    <3>5. QED
      BY <1>c, <2>1, <2>3, <3>3, <3>4 DEF RewardOK
  <2>4. CASE i # v
    <3>1. RightRows(i)' = RightRows(i)
      BY <2>1, <2>2, <2>4, RowsGrow
    <3>2. i \in Items \ Questions => requests'[i].own = requests[i].own
      BY <1>b, <2>1, <2>4
    <3>3. QED
      BY <1>c, <1>d, <1>e, <2>1, <3>1, <3>2, RewardKept
  <2>5. QED
    BY <2>3, <2>4
<1>4. ASSUME NEW q \in Questions, NEW answer \in Right \cup {"wrong"}, FlushAnswer(q, answer)
      PROVE  RewardOK(i)'
  <2>1. PICK x \in StudentTasks :
              /\ x.step = "queued" /\ tasks' = Append(tasks, x) /\ x.item = q
              /\ UNCHANGED <<requests, attempts, xp, raced, struckItems>>
    BY <1>4, FlushShape
  <2>2. RightRows(i)' = RightRows(i)
    BY <2>1, RowsSame
  <2>3. CASE i = q
    <3>1. WorkOf(i)' = WorkOf(i) \cup {x} /\ i \notin VirtualUnits
      BY <2>1, <2>3, WorkQueued, ItemsApart
    <3>2. QED
      BY <1>c, <1>d, <2>1, <2>2, <3>1 DEF RewardOK
  <2>4. CASE i # q
    <3>1. WorkOf(i)' = WorkOf(i)
      BY <2>1, <2>4, WorkQueued
    <3>2. QED
      BY <1>c, <1>d, <2>1, <2>2, <3>1, RewardKept
  <2>5. QED
    BY <2>3, <2>4
<1>5. ASSUME NEW j \in DOMAIN requests, RequestStep(j) PROVE RewardOK(i)'
  <2>1. PICK x \in StudentTasks :
              /\ x.step = "queued" /\ tasks' = Append(tasks, x)
              /\ UNCHANGED <<attempts, xp, raced, struckItems>>
              /\ \/ /\ j \in Units /\ x.item = Course
                    /\ requests' = [requests EXCEPT ![j].step = "attempt"]
                 \/ /\ x.item = j /\ x.own = requests[j].own
                    /\ requests[j].step # "idle" /\ requests' = [requests EXCEPT ![j] = Idle]
    BY <1>5, RequestShape
  <2>2. RightRows(i)' = RightRows(i) /\ RewardOK(i)
    BY <1>c, <2>1, RowsSame
  <2>3. CASE x.item # i
    <3>1. WorkOf(i)' = WorkOf(i)
      BY <2>1, <2>3, WorkQueued
    <3>2. i \in Items \ Questions => requests'[i].own = requests[i].own
      <4>1. CASE requests' = [requests EXCEPT ![j].step = "attempt"]
        BY <1>b, <4>1 DEF Submissions
      <4>2. CASE requests' = [requests EXCEPT ![j] = Idle] /\ j # i
        BY <1>b, <4>2
      <4>3. QED
        BY <2>1, <2>3, <4>1, <4>2
    <3>3. QED
      BY <1>d, <2>1, <2>2, <3>1, <3>2, RewardKept
  <2>4. CASE x.item = i
    <3>1. /\ j = i /\ x.own = requests[i].own /\ requests[i] # Idle
          /\ WorkOf(i)' = WorkOf(i) \cup {x}
      <4>1. x.item # Course
        BY <2>4, ItemsApart
      <4>2. j = i /\ x.own = requests[i].own /\ requests[i].step # "idle"
        BY <2>1, <2>4, <4>1
      <4>3. WorkOf(i)' = WorkOf(i) \cup {x}
        BY <2>1, <2>4, WorkQueued
      <4>4. QED
        BY <4>2, <4>3 DEF Idle
    <3>2. CASE i \notin VirtualUnits
      BY <1>d, <2>1, <2>2, <3>1, <3>2 DEF RewardOK
    <3>3. CASE i \in VirtualUnits
      <4>1. ~Awaited(i) /\ i \notin raced
        BY <2>1, <3>1, <3>3 DEF AloneInv
      <4>2. WorkOf(i) = {} /\ Earlier(i) = RightRows(i) \ {requests[i].own}
        BY <1>a, <3>3, <4>1 DEF EarlierIs
      <4>3. tasks'[Len(tasks) + 1] = x /\ Len(tasks) + 1 \in DOMAIN tasks'
        BY <2>1, Queued
      <4>4. Earlier(i)' = RightRows(i)' \ {x.own}
        BY <1>a, <2>1, <2>4, <3>3, <4>3 DEF EarlierIs
      <4>5. Earlier(i)' = Earlier(i) /\ WorkOf(i)' = {x}
        BY <2>2, <3>1, <4>2, <4>4
      <4>6. QED
        BY <2>1, <2>2, <4>2, <4>5 DEF RewardOK
    <3>4. QED
      BY <3>2, <3>3
  <2>5. QED
    BY <2>3, <2>4
<1>6. ASSUME NEW j \in DOMAIN requests, SubmissionFails(j) PROVE RewardOK(i)'
  <2>1. /\ UNCHANGED <<tasks, attempts, xp, raced>> /\ struckItems \subseteq struckItems'
        /\ j \in struckItems' /\ requests' = [requests EXCEPT ![j] = Idle]
    BY <1>6 DEF SubmissionFails, JobFault, rewardVars
  <2>2. RightRows(i)' = RightRows(i) /\ WorkOf(i)' = WorkOf(i) /\ RewardOK(i)
    BY <1>c, <1>e, <2>1, RowsSame
  <2>3. Earlier(i)' = Earlier(i)
    <3>1. CASE i \notin VirtualUnits
      BY <1>d, <2>1, <2>2, <3>1
    <3>2. CASE i \in VirtualUnits
      <4>1. i # j
        BY <2>1, <3>2
      <4>2. QED
        BY <1>b, <1>d, <2>1, <2>2, <4>1
    <3>3. QED
      BY <3>1, <3>2
  <2>4. QED
    BY <2>1, <2>2, <2>3, RewardKept
<1>7. ASSUME NEW t \in DOMAIN tasks, TaskStep(t) \/ TaskFails(t) \/ TaskStalls(t)
      PROVE  RewardOK(i)'
  <2>1. /\ requests' = requests /\ raced \subseteq raced' /\ struckItems \subseteq struckItems'
        /\ tasks' = Queues!RemoveAt(tasks, t) \/ JobMoves(t)
        /\ \/ attempts' = attempts
           \/ /\ tasks[t].item \in Items
              /\ attempts' = Append(attempts, AttemptRow(tasks[t].item, tasks[t].answer))
    BY <1>7, TaskShape
  <2>2. CASE i = tasks[t].item
    BY <1>7, <1>a, <2>2, RewardOfJob
  <2>3. CASE i # tasks[t].item
    <3>1. WorkOf(i)' = WorkOf(i)
      BY <2>1, <2>3, WorkMoves, WorkDequeued
    <3>2. RightRows(i)' = RightRows(i)
      <4>1. tasks[t].answer \in Answers
        BY TaskIndex DEF StudentTasks
      <4>2. QED
        BY <2>1, <2>3, <4>1, RowsSame, RowsGrow
    <3>3. xp'[i] = xp[i]
      <4>1. xp' = xp \/ xp' = [xp EXCEPT ![tasks[t].item] = @ + 1]
        BY <1>7 DEF TaskStep, TakeAttempt, FindRewarded, CreateAttempt, AwardXp,
                    ReadSubmissions, UpsertProgress, FindCertificate, CheckThreshold,
                    CreateCertificate, EndTask, TaskFails, TaskStalls, rewardVars
      <4>2. QED
        BY <2>3, <4>1 DEF StudentTypeOK
    <3>4. QED
      BY <1>c, <1>d, <2>1, <3>1, <3>2, <3>3, RewardKept
  <2>4. QED
    BY <2>2, <2>3
<1>8. QED
  BY <1>1, <1>2, <1>3, <1>4, <1>5, <1>6, <1>7 DEF StudentNext

-------------------------------------------------------------------------------
(* StudentProgress: the certificate.                                       *)

\* Math.round and its comparison, without the division.
LEMMA EnoughIs ==
    ASSUME NEW n \in Nat
    PROVE  Enough(n) <=> 200 * n + Cardinality(Units) >= 2 * Threshold * Cardinality(Units)
<1> DEFINE a == 200 * n + Cardinality(Units)
           b == 2 * Cardinality(Units)
           q == a \div b
<1>1. a \in Nat /\ b \in Nat \ {0} /\ Threshold \in Nat /\ Cardinality(Units) \in Nat
  BY StudentAssumption
<1>2. 2 * Threshold * Cardinality(Units) = b * Threshold
  BY <1>1
<1>3. Enough(n) <=> q >= Threshold
  BY DEF Enough, Percent
<1> HIDE DEF a, b
<1>4. q \in Int /\ b * q <= a /\ a < b * q + b
  BY <1>1
<1>5. ASSUME q >= Threshold PROVE a >= b * Threshold
  <2>1. b * q >= b * Threshold
    BY <1>1, <1>4, <1>5
  <2>2. b * Threshold \in Int /\ b * q \in Int
    BY <1>1, <1>4
  <2>3. QED
    BY <1>1, <1>4, <2>1, <2>2
<1>6. ASSUME ~(q >= Threshold) PROVE ~(a >= b * Threshold)
  <2>1. q + 1 <= Threshold
    BY <1>1, <1>4, <1>6
  <2>2. b * (q + 1) <= b * Threshold
    BY <1>1, <1>4, <2>1
  <2>3. b * (q + 1) = b * q + b /\ b * Threshold \in Int /\ b * q \in Int
    BY <1>1, <1>4
  <2>4. QED
    BY <1>1, <1>4, <2>2, <2>3
<1>7. QED
  BY <1>2, <1>3, <1>5, <1>6 DEF a

\* Whoever has enough units has enough when there are more.
LEMMA EnoughStays ==
    ASSUME NEW S, NEW T \in SUBSET Units, S \subseteq T
    PROVE  /\ Cardinality(S) \in Nat /\ Cardinality(T) \in Nat
           /\ Enough(Cardinality(S)) => Enough(Cardinality(T))
<1>1. IsFiniteSet(T)
  BY StudentAssumption, FS_Subset DEF Items
<1>2. /\ Cardinality(S) \in Nat /\ Cardinality(T) \in Nat
      /\ Cardinality(S) <= Cardinality(T)
  BY <1>1, FS_Subset, FS_CardinalityType
<1>3. 200 * Cardinality(S) <= 200 * Cardinality(T)
  BY <1>2
<1>4. Cardinality(Units) \in Nat /\ 2 * Threshold * Cardinality(Units) \in Int
  BY StudentAssumption
<1>5. QED
  BY <1>2, <1>3, <1>4, EnoughIs

\* Progress shows units that are finished, and who is certified has enough of them.
CertInv ==
    /\ completedUnits \subseteq Finished
    /\ \A t \in DOMAIN tasks : tasks[t].found \subseteq Finished
    /\ certificates \in {0, 1}
    /\ certificates = 1 \/ (\E t \in DOMAIN tasks : tasks[t].step = "create")
          => Enough(Cardinality(Finished))

LEMMA FinishedUnits == StudentTypeOK => Finished \subseteq Units /\ Completed = Finished
<1> SUFFICES ASSUME StudentTypeOK PROVE Finished \subseteq Units /\ Completed = Finished
  OBVIOUS
<1>1. ASSUME NEW r \in submitted PROVE r = <<r[1], r[2]>> /\ r[1] \in Units /\ r[2] \in BOOLEAN
  BY DEF StudentTypeOK
<1>2. ASSUME NEW u \in Finished PROVE u \in Units /\ <<u, TRUE>> \in submitted
  <2>1. PICK r \in submitted : r[2] /\ u = r[1]
    BY DEF Finished
  <2>2. r[2] = TRUE
    BY <1>1, <2>1
  <2>3. QED
    BY <1>1, <2>1, <2>2
<1>3. ASSUME NEW u \in Units, <<u, TRUE>> \in submitted PROVE u \in Finished
  <2>1. <<u, TRUE>> \in {r \in submitted : r[2]} /\ <<u, TRUE>>[1] = u
    BY <1>3
  <2>2. QED
    BY <2>1 DEF Finished
<1>4. QED
  BY <1>2, <1>3 DEF Completed

\* A step that leaves the certificate alone.
LEMMA CertKept ==
    ASSUME StudentTypeOK, StudentTypeOK', CertInv, submitted \subseteq submitted',
           UNCHANGED <<completedUnits, certificates>>,
           \A k \in DOMAIN tasks' : /\ tasks'[k].found \subseteq Finished
                                    /\ tasks'[k].step = "create" =>
                                          \E t \in DOMAIN tasks : tasks[t].step = "create"
    PROVE  CertInv'
<1>1. Finished \subseteq Finished'
  BY DEF Finished
<1>2. Finished' \subseteq Units
  BY FinishedUnits DEF StudentTypeOK, Finished
<1>3. Enough(Cardinality(Finished)) => Enough(Cardinality(Finished'))
  BY <1>1, <1>2, EnoughStays
<1>4. QED
  BY <1>1, <1>3 DEF CertInv, Enough, Percent

LEMMA CertStep ==
    /\ StudentTypeOK /\ OwnInv /\ CertInv /\ StudentTypeOK' /\ [StudentNext]_studentVars
    => CertInv'
<1> SUFFICES ASSUME StudentTypeOK, OwnInv, CertInv, StudentTypeOK', [StudentNext]_studentVars
             PROVE  CertInv'
  OBVIOUS
<1> USE DEF submitVars, rewardVars, courseVars, faultVars
<1>a. \A t \in DOMAIN tasks : tasks[t].found \subseteq Finished
  BY DEF CertInv
<1>1. CASE UNCHANGED studentVars
  BY <1>1, <1>a, CertKept DEF studentVars
<1>2. ASSUME NEW answer \in {"right", "wrong"},
             \/ \E u \in Units : SubmitUnit(u, answer)
             \/ \E v \in VirtualUnits : SubmitVirtual(v, answer)
      PROVE  CertInv'
  BY <1>2, <1>a, CertKept DEF SubmitUnit, SubmitVirtual
<1>3. ASSUME NEW x \in StudentTasks, x.step = "queued", x.found = {},
             tasks' = Append(tasks, x),
             UNCHANGED <<submitted, courseVars>>
      PROVE  CertInv'
  BY <1>3, <1>a, Queued, CertKept
<1>4. ASSUME NEW q \in Questions, NEW answer \in Right \cup {"wrong"}, FlushAnswer(q, answer)
      PROVE  CertInv'
  BY <1>3, <1>4, FlushShape
<1>5. ASSUME NEW i \in DOMAIN requests, RequestStep(i) PROVE CertInv'
  BY <1>3, <1>5, RequestShape
<1>6. ASSUME NEW i \in DOMAIN requests, SubmissionFails(i) PROVE CertInv'
  BY <1>6, <1>a, CertKept DEF SubmissionFails
<1>7. ASSUME NEW t \in DOMAIN tasks, TaskStep(t) \/ TaskFails(t) \/ TaskStalls(t)
      PROVE  CertInv'
  <2>0. /\ tasks[t] \in StudentTasks /\ submitted' = submitted /\ Finished' = Finished
        /\ Completed = Finished /\ Finished \subseteq Units
    <3>1. submitted' = submitted
      BY <1>7 DEF TaskStep, TakeAttempt, FindRewarded, CreateAttempt, AwardXp, ReadSubmissions,
                  UpsertProgress, FindCertificate, CheckThreshold, CreateCertificate, EndTask,
                  TaskFails, TaskStalls
    <3>2. QED
      BY <3>1, TaskIndex, FinishedUnits DEF Finished
  <2>b. TaskSteps = {"queued", "fresh", "judged", "award", "read", "certify", "check",
                     "create", "done"}
    BY DEF TaskSteps
  <2>1. ASSUME NEW step \in TaskSteps \ {"create"}, StepTo(t, step),
               UNCHANGED <<completedUnits, certificates>>
        PROVE  CertInv'
    <3>1. JobMoves(t) /\ tasks'[t].step = step /\ tasks'[t].found = tasks[t].found
      BY <2>1, Moves
    <3>2. QED
      BY <1>a, <2>0, <2>1, <3>1, CertKept DEF JobMoves
  <2>2. CASE TakeAttempt(t) \/ CreateAttempt(t) \/ AwardXp(t) \/ FindCertificate(t)
             \/ TaskStalls(t)
    <3>1. PICK step \in TaskSteps \ {"create"} : StepTo(t, step)
      BY <2>2, <2>b DEF TakeAttempt, CreateAttempt, AwardXp, FindCertificate, TaskStalls
    <3>2. UNCHANGED <<completedUnits, certificates>>
      BY <2>2 DEF TakeAttempt, CreateAttempt, AwardXp, FindCertificate, TaskStalls
    <3>3. QED
      BY <2>1, <3>1, <3>2
  <2>3. CASE FindRewarded(t) \/ ReadSubmissions(t)
    <3>1. tasks \in Seq(StudentTasks)
      BY DEF StudentTypeOK
    <3>2. /\ DOMAIN tasks' = DOMAIN tasks /\ \A u \in DOMAIN tasks \ {t} : tasks'[u] = tasks[u]
          /\ tasks'[t].step \in {"judged", "read"}
          /\ tasks'[t].found \in {tasks[t].found, Completed}
      <4>1. CASE FindRewarded(t)
        <5> DEFINE r == [tasks[t] EXCEPT !.rewarded = AlreadyRewarded(t), !.step = "judged"]
        <5>1. tasks' = [tasks EXCEPT ![t] = r]
          BY <4>1 DEF FindRewarded
        <5>2. r.step = "judged" /\ r.found = tasks[t].found
          BY <2>0 DEF StudentTasks
        <5>3. QED
          BY <3>1, <5>1, <5>2
      <4>2. CASE ReadSubmissions(t)
        <5> DEFINE r == [tasks[t] EXCEPT !.found = Completed, !.step = "read"]
        <5>1. tasks' = [tasks EXCEPT ![t] = r]
          BY <4>2 DEF ReadSubmissions
        <5>2. r.step = "read" /\ r.found = Completed
          BY <2>0 DEF StudentTasks
        <5>3. QED
          BY <3>1, <5>1, <5>2
      <4>3. QED
        BY <2>3, <4>1, <4>2
    <3>3. UNCHANGED <<completedUnits, certificates>>
      BY <2>3 DEF FindRewarded, ReadSubmissions
    <3>4. QED
      BY <1>a, <2>0, <3>2, <3>3, CertKept
  <2>4. CASE EndTask(t) \/ TaskFails(t)
    <3>1. tasks' = Queues!RemoveAt(tasks, t) /\ UNCHANGED <<completedUnits, certificates>>
      BY <2>4 DEF EndTask, TaskFails
    <3>2. \A k \in DOMAIN tasks' : \E u \in DOMAIN tasks : tasks'[k] = tasks[u]
      BY <3>1, Dequeued
    <3>3. QED
      BY <1>a, <2>0, <3>1, <3>2, CertKept
  <2>5. CASE UpsertProgress(t)
    <3>1. PICK step \in {"certify", "done"} : StepTo(t, step)
      BY <2>5 DEF UpsertProgress
    <3>2. /\ JobMoves(t) /\ tasks'[t].step = step /\ tasks'[t].found = tasks[t].found
      BY <2>b, <3>1, Moves
    <3>3. completedUnits' = tasks[t].found /\ certificates' = certificates
      BY <2>5 DEF UpsertProgress
    <3>4. \A u \in DOMAIN tasks' : u \in DOMAIN tasks /\ tasks'[u].found = tasks[u].found
             /\ (tasks'[u].step = "create" => tasks[u].step = "create")
      BY <3>2 DEF JobMoves
    <3>5. QED
      BY <1>a, <2>0, <3>3, <3>4 DEF CertInv, Enough, Percent
  <2>6. CASE CheckThreshold(t)
    <3>1. /\ StepTo(t, IF Enough(Cardinality(completedUnits)) THEN "create" ELSE "done")
          /\ UNCHANGED <<completedUnits, certificates>>
      BY <2>6 DEF CheckThreshold
    <3>2. Enough(Cardinality(completedUnits)) => Enough(Cardinality(Finished))
      BY <2>0, EnoughStays DEF CertInv
    <3>3. CASE Enough(Cardinality(Finished))
      <4>1. PICK step \in TaskSteps : StepTo(t, step)
        BY <2>b, <3>1
      <4>2. JobMoves(t) /\ tasks'[t].found = tasks[t].found
        BY <4>1, Moves
      <4>3. \A u \in DOMAIN tasks' : tasks'[u].found \subseteq Finished
        BY <1>a, <4>2 DEF JobMoves
      <4>4. QED
        BY <2>0, <3>1, <3>3, <4>3 DEF CertInv, Enough, Percent
    <3>4. CASE ~Enough(Cardinality(Finished))
      BY <2>1, <2>b, <3>1, <3>2, <3>4
    <3>5. QED
      BY <3>3, <3>4
  <2>7. CASE CreateCertificate(t)
    <3>1. /\ tasks[t].step = "create" /\ StepTo(t, "done")
          /\ completedUnits' = completedUnits /\ certificates' = 1
      BY <2>7 DEF CreateCertificate, OneCertificate
    <3>2. Enough(Cardinality(Finished))
      BY <3>1 DEF CertInv
    <3>3. JobMoves(t) /\ tasks'[t].found = tasks[t].found
      BY <2>b, <3>1, Moves
    <3>4. \A u \in DOMAIN tasks' : tasks'[u].found \subseteq Finished
      BY <1>a, <3>3 DEF JobMoves
    <3>5. QED
      BY <2>0, <3>1, <3>2, <3>4 DEF CertInv, Enough, Percent
  <2>8. QED
    BY <1>7, <2>2, <2>3, <2>4, <2>5, <2>6, <2>7 DEF TaskStep
<1>8. QED
  BY <1>1, <1>2, <1>4, <1>5, <1>6, <1>7 DEF StudentNext

LEMMA RewardInit ==
    StudentInit => OwnInv /\ AloneInv /\ RewardInv /\ CertInv
<1> SUFFICES ASSUME StudentInit PROVE OwnInv /\ AloneInv /\ RewardInv /\ CertInv
  OBVIOUS
<1>1. /\ DOMAIN tasks = {} /\ DOMAIN attempts = {} /\ \A i \in Items : xp[i] = 0
      /\ \A i \in Items \ Questions : requests[i] = Idle
      /\ certificates = 0 /\ completedUnits = {}
  BY DEF StudentInit
<1>2. OwnInv /\ AloneInv
  BY <1>1 DEF OwnInv, AloneInv, Awaited, Idle
<1>3. \A i : WorkOf(i) = {} /\ RightRows(i) = {}
  BY <1>1 DEF WorkOf, RightRows, RowsOf
<1>4. RewardInv
  BY <1>1, <1>3 DEF RewardInv, RewardOK, Earlier
<1>5. CertInv
  BY <1>1 DEF CertInv
<1>6. QED
  BY <1>2, <1>4, <1>5

LEMMA RewardsFollow ==
    StudentTypeOK /\ OwnInv /\ AloneInv /\ RewardInv /\ CertInv => RewardsAreEarned
<1> SUFFICES ASSUME StudentTypeOK, OwnInv, AloneInv, RewardInv, CertInv
             PROVE  RewardsAreEarned
  OBVIOUS
<1>1. RewardedOnce
  BY ItemsApart DEF RewardedOnce, RewardInv, RewardOK
<1>2. RewardsMatchAttempts
  <2> SUFFICES ASSUME NEW i \in Items \ (raced \cup struckItems), AtRest(i)
               PROVE  xp[i] = IF RightRows(i) # {} THEN 1 ELSE 0
    BY DEF RewardsMatchAttempts
  <2>1. RewardOK(i) /\ EarlierIs
    BY EarlierOf DEF RewardInv
  <2>2. ~Awaited(i) /\ (i \in Items \ Questions => requests[i] = Idle)
    BY DEF AtRest, StudentTypeOK
  <2>3. Earlier(i) = RightRows(i)
    <3>1. i \in VirtualUnits => Earlier(i) = RightRows(i) \ {0}
      BY <2>1, <2>2, ItemsApart DEF EarlierIs, Idle
    <3>2. QED
      BY <2>1, <3>1, NoRowZero DEF EarlierIs
  <2>4. WorkOf(i) = {}
    BY <2>2 DEF WorkOf, Awaited
  <2>5. QED
    BY <2>1, <2>3, <2>4 DEF RewardOK
<1>3. CertifiedOnceEarned
  <2>1. certificates <= 1
    BY DEF CertInv
  <2> SUFFICES ASSUME certificates = 1
               PROVE  /\ 200 * Cardinality(Finished) + Cardinality(Units)
                            >= 2 * Threshold * Cardinality(Units)
                      /\ Threshold = 100 => Finished = Units
    BY <2>1 DEF CertifiedOnceEarned
  <2>2. Finished \subseteq Units /\ IsFiniteSet(Units)
    BY FinishedUnits, StudentAssumption, FS_Subset DEF Items
  <2>3. /\ Cardinality(Finished) \in Nat /\ Cardinality(Units) \in Nat
        /\ Cardinality(Units) \in 1..199 /\ Cardinality(Finished) <= Cardinality(Units)
    BY <2>2, FS_Subset, FS_CardinalityType, StudentAssumption
  <2>4. 200 * Cardinality(Finished) + Cardinality(Units) >= 2 * Threshold * Cardinality(Units)
    BY <2>3, EnoughIs DEF CertInv
  <2>5. Threshold = 100 => Finished = Units
    <3> SUFFICES ASSUME Threshold = 100 PROVE Finished = Units
      OBVIOUS
    <3>1. 200 * Cardinality(Finished) + Cardinality(Units) >= 200 * Cardinality(Units)
      BY <2>3, <2>4
    <3>2. Cardinality(Finished) = Cardinality(Units)
      BY <2>3, <3>1
    <3>3. QED
      BY <2>2, <3>2, FS_Subset
  <2>6. QED
    BY <2>4, <2>5
<1>4. QED
  BY <1>1, <1>2, <1>3 DEF RewardsAreEarned

\* However the jobs of an item interleave, fail and come again: XP is awarded once, to those
\* who answered right, and a certificate once, to those who finished enough of the course.
THEOREM RewardsEarned == StudentSpec => []RewardsAreEarned
<1> DEFINE Inv == StudentTypeOK /\ OwnInv /\ AloneInv /\ RewardInv /\ CertInv
<1>1. StudentInit => Inv
  BY StudentTypeInit, RewardInit
<1>2. Inv /\ [StudentNext]_studentVars => Inv'
  <2> SUFFICES ASSUME Inv, [StudentNext]_studentVars PROVE Inv'
    OBVIOUS
  <2>1. StudentTypeOK'
    BY StudentTypeStep
  <2>2. OwnInv' /\ AloneInv'
    BY OwnStep, AloneStep
  <2>3. RewardInv' /\ CertInv'
    BY <2>1, <2>2, RewardStep, CertStep
  <2>4. QED
    BY <2>1, <2>2, <2>3
<1>3. Inv => RewardsAreEarned
  BY RewardsFollow
<1>4. QED
  BY <1>1, <1>2, <1>3, PTL DEF StudentSpec

-------------------------------------------------------------------------------
(* CodeRotation: lists of exams.                                           *)

USE RotationAssumption

LEMMA UnlistedFields == Unlisted.listed = FALSE /\ Unlisted.age = 0 /\ Unlisted.fresh = FALSE
BY DEF Unlisted

LEMMA EmptyIsList == EmptyList \in Lists
BY DEF EmptyList, Lists, Entries, Unlisted

LEMMA OlderAge ==
    ASSUME NEW age \in 0..Interval
    PROVE  Older(age) \in 0..Interval /\ Older(age) >= age
BY DEF Older

LEMMA OlderIsList ==
    ASSUME NEW list \in Lists
    PROVE  /\ OlderList(list) \in Lists
           /\ \A e \in Exams : OlderList(list)[e].fresh =>
                list[e].fresh /\ OlderList(list)[e].age = Older(list[e].age)
<1>1. ASSUME NEW e \in Exams
      PROVE  /\ OlderList(list)[e] \in Entries
             /\ OlderList(list)[e].fresh =>
                  list[e].fresh /\ OlderList(list)[e].age = Older(list[e].age)
  <2>1. list[e] \in Entries
    BY DEF Lists
  <2>2. CASE list[e].listed
    <3>1. OlderList(list)[e] = [list[e] EXCEPT !.age = Older(list[e].age)]
      BY <2>2 DEF OlderList
    <3>2. QED
      BY <2>1, <3>1, OlderAge DEF Entries
  <2>3. CASE ~list[e].listed
    <3>1. OlderList(list)[e] = Unlisted
      BY <2>3 DEF OlderList
    <3>2. QED
      BY <3>1 DEF Entries, Unlisted
  <2>4. QED
    BY <2>2, <2>3
<1>2. OlderList(list) = [e \in Exams |-> OlderList(list)[e]]
  BY DEF OlderList
<1>3. QED
  BY <1>1, <1>2 DEF Lists

LEMMA OutdatedIsList ==
    ASSUME NEW list \in Lists, NEW e \in Exams
    PROVE  /\ Outdated(list, e) \in Lists
           /\ ~Outdated(list, e)[e].fresh
           /\ \A x \in Exams : x # e => Outdated(list, e)[x] = list[x]
<1>1. list[e] \in Entries
  BY DEF Lists
<1>2. [list[e] EXCEPT !.fresh = FALSE] \in Entries
  BY <1>1 DEF Entries
<1>3. Outdated(list, e) = [list EXCEPT ![e] = [list[e] EXCEPT !.fresh = FALSE]]
  BY DEF Outdated
<1>4. ~[list[e] EXCEPT !.fresh = FALSE].fresh
  BY <1>1 DEF Entries
<1>5. QED
  BY <1>2, <1>3, <1>4 DEF Lists

LEMMA LoadedIsList ==
    ASSUME RotationTypeOK
    PROVE  LET list == [e \in Exams |->
                          IF exam[e].rotating
                          THEN [listed |-> TRUE, age |-> exam[e].age, fresh |-> TRUE]
                          ELSE Unlisted]
           IN  list \in Lists /\ FreshEntries(list)
<1> DEFINE list == [e \in Exams |->
                      IF exam[e].rotating
                      THEN [listed |-> TRUE, age |-> exam[e].age, fresh |-> TRUE]
                      ELSE Unlisted]
<1>1. ASSUME NEW e \in Exams
      PROVE  list[e] \in Entries /\ (list[e].fresh => list[e].age = exam[e].age)
  <2>1. exam[e] \in [rotating : BOOLEAN, age : 0..Interval]
    BY DEF RotationTypeOK
  <2>2. CASE exam[e].rotating
    BY <2>1, <2>2 DEF Entries
  <2>3. CASE ~exam[e].rotating
    BY <2>3 DEF Entries, Unlisted
  <2>4. QED
    BY <2>2, <2>3
<1>2. QED
  BY <1>1 DEF Lists, FreshEntries

-------------------------------------------------------------------------------
(* Type correctness.                                                       *)

LEMMA RotationTypeInit == RotationInit => RotationTypeOK
BY EmptyIsList DEF RotationInit, RotationTypeOK, NoCatalog, Resting, RotatorStates

\* What a step of an instance does to itself keeps the type.
LEMMA RotationTypeStep ==
    RotationTypeOK /\ [RotationNext]_rotationVars => RotationTypeOK'
<1> SUFFICES ASSUME RotationTypeOK, [RotationNext]_rotationVars PROVE RotationTypeOK'
  OBVIOUS
<1> USE DEF RotationTypeOK, RotatorStates
<1>1. CASE TimePasses
  <2>1. exam' \in [Exams -> [rotating : BOOLEAN, age : 0..Interval]]
    BY <1>1, OlderAge DEF TimePasses
  <2>2. catalog' \in [cached : BOOLEAN, age : 0..(CatalogTtl - 1), list : Lists]
    <3>1. CASE ~catalog.cached \/ Expires(catalog.age + 1)
      BY <1>1, <3>1, EmptyIsList DEF TimePasses, NoCatalog
    <3>2. CASE ~(~catalog.cached \/ Expires(catalog.age + 1))
      <4>1. catalog.age + 1 \in 0..(CatalogTtl - 1)
        BY <3>2 DEF Expires
      <4>2. catalog' = [catalog EXCEPT !.age = catalog.age + 1,
                                       !.list = OlderList(catalog.list)]
        BY <1>1, <3>2 DEF TimePasses
      <4>3. OlderList(catalog.list) \in Lists
        BY OlderIsList
      <4>4. QED
        BY <4>1, <4>2, <4>3
    <3>3. QED
      BY <3>1, <3>2
  <2>3. QED
    BY <1>1, <2>1, <2>2 DEF TimePasses
<1>2. CASE LockLapses
  BY <1>2 DEF LockLapses
<1>3. ASSUME NEW r \in Rotators, AcquireRotationLock(r) PROVE RotationTypeOK'
  BY <1>3 DEF AcquireRotationLock
<1>4. ASSUME NEW r \in Rotators, GetCatalog(r) PROVE RotationTypeOK'
  <2>1. ListedIn(catalog.list) \in SUBSET Exams
    BY DEF ListedIn
  <2>2. CASE catalog.cached
    <3> DEFINE new == [rotator[r] EXCEPT !.step = "rotate", !.list = catalog.list,
                                         !.left = ListedIn(catalog.list)]
    <3>1. new \in RotatorStates
      BY <2>1
    <3>2. rotator' = [rotator EXCEPT ![r] = new]
      BY <1>4, <2>2 DEF GetCatalog
    <3>3. QED
      BY <1>4, <3>1, <3>2 DEF GetCatalog
  <2>3. CASE ~catalog.cached
    BY <1>4, <2>3 DEF GetCatalog
  <2>4. QED
    BY <2>2, <2>3
<1>5. ASSUME NEW r \in Rotators, LoadExams(r) PROVE RotationTypeOK'
  BY <1>5, LoadedIsList DEF LoadExams
<1>6. ASSUME NEW r \in Rotators, FillCatalog(r) PROVE RotationTypeOK'
  <2>1. ListedIn(rotator[r].list) \in SUBSET Exams
    BY DEF ListedIn
  <2>2. Cached(rotator[r].list) \in [cached : BOOLEAN, age : 0..(CatalogTtl - 1), list : Lists]
    BY DEF Cached
  <2>3. [rotator[r] EXCEPT !.step = "rotate", !.left = ListedIn(rotator[r].list)]
            \in RotatorStates
    BY <2>1
  <2>4. rotator' = [rotator EXCEPT ![r] =
            [rotator[r] EXCEPT !.step = "rotate", !.left = ListedIn(rotator[r].list)]]
    BY <1>6 DEF FillCatalog
  <2>5. QED
    BY <1>6, <2>2, <2>3, <2>4 DEF FillCatalog
<1>7. ASSUME NEW r \in Rotators, NEW e \in Exams, RotateExam(r, e) PROVE RotationTypeOK'
  <2>1. /\ exam' = [exam EXCEPT ![e].age = 0]
        /\ catalog' = [catalog EXCEPT !.list = Outdated(catalog.list, e)]
        /\ UNCHANGED <<rotationLock, ticked>>
    BY <1>7 DEF RotateExam, OutdatedElsewhere
  <2>2. exam' \in [Exams -> [rotating : BOOLEAN, age : 0..Interval]]
    BY <2>1
  <2>3. catalog' \in [cached : BOOLEAN, age : 0..(CatalogTtl - 1), list : Lists]
    BY <2>1, OutdatedIsList
  <2>4. ASSUME NEW other \in Rotators PROVE rotator'[other] \in RotatorStates
    <3>1. CASE other # r
      <4>1. rotator'[other] = [rotator[other] EXCEPT !.list = Outdated(rotator[other].list, e)]
        BY <1>7, <3>1 DEF RotateExam
      <4>2. Outdated(rotator[other].list, e) \in Lists
        BY OutdatedIsList
      <4>3. QED
        BY <4>1, <4>2
    <3>2. CASE other = r
      <4>1. Rotated \in Entries
        BY DEF Entries, Rotated
      <4>2. [rotator[r].list EXCEPT ![e] = Rotated] \in Lists
        BY <4>1 DEF Lists
      <4>3. rotator'[r] = [rotator[r] EXCEPT !.list = [rotator[r].list EXCEPT ![e] = Rotated],
                                             !.left = rotator[r].left \ {e},
                                             !.changed = TRUE]
        BY <1>7 DEF RotateExam
      <4>4. [rotator[r] EXCEPT !.list = [rotator[r].list EXCEPT ![e] = Rotated],
                               !.left = rotator[r].left \ {e},
                               !.changed = TRUE] \in RotatorStates
        BY <4>2
      <4>5. QED
        BY <3>2, <4>3, <4>4
    <3>3. QED
      BY <3>1, <3>2
  <2>5. rotator' = [other \in Rotators |-> rotator'[other]]
    BY <1>7 DEF RotateExam
  <2>6. QED
    BY <2>1, <2>2, <2>3, <2>4, <2>5
<1>8. ASSUME NEW r \in Rotators, NEW e \in Exams, KeepEntry(r, e) PROVE RotationTypeOK'
  BY <1>8 DEF KeepEntry
<1>9. ASSUME NEW r \in Rotators, NEW e \in Exams, DropEntry(r, e) PROVE RotationTypeOK'
  <2>1. [rotator[r].list EXCEPT ![e] = Unlisted] \in Lists
    BY DEF Lists, Entries, Unlisted
  <2>2. rotator' = [rotator EXCEPT ![r].list = [rotator[r].list EXCEPT ![e] = Unlisted],
                                   ![r].left = rotator[r].left \ {e},
                                   ![r].changed = TRUE]
    BY <1>9 DEF DropEntry
  <2>3. QED
    BY <1>9, <2>1, <2>2 DEF DropEntry
<1>10. ASSUME NEW r \in Rotators, StoreCatalog(r) PROVE RotationTypeOK'
  BY <1>10 DEF StoreCatalog, Cached
<1>11. ASSUME NEW r \in Rotators, ReleaseRotationLock(r) PROVE RotationTypeOK'
  BY <1>11, EmptyIsList DEF ReleaseRotationLock, Resting
<1>12. ASSUME NEW r \in Rotators, TickFails(r) \/ CrashRotator(r) PROVE RotationTypeOK'
  <2>1. CASE TickFails(r)
    BY <2>1 DEF TickFails
  <2>2. CASE CrashRotator(r)
    BY <2>2, EmptyIsList DEF CrashRotator, Resting
  <2>3. QED
    BY <1>12, <2>1, <2>2
<1>13. ASSUME NEW e \in Exams, EditExam(e) PROVE RotationTypeOK'
  <2>1. PICK rotating \in BOOLEAN, newCode \in BOOLEAN :
          /\ exam' = [exam EXCEPT ![e].rotating = rotating]
          /\ IF newCode
             THEN /\ catalog' = [catalog EXCEPT !.list = Outdated(catalog.list, e)]
                  /\ rotator' = [r \in Rotators |->
                                    [rotator[r] EXCEPT !.list = Outdated(rotator[r].list, e)]]
             ELSE UNCHANGED <<catalog, rotator>>
    BY <1>13 DEF EditExam
  <2>2. exam' \in [Exams -> [rotating : BOOLEAN, age : 0..Interval]]
    BY <2>1
  <2>3. /\ catalog' \in [cached : BOOLEAN, age : 0..(CatalogTtl - 1), list : Lists]
        /\ rotator' \in [Rotators -> RotatorStates]
    <3>1. CASE newCode
      <4>1. \A list \in Lists : Outdated(list, e) \in Lists
        BY OutdatedIsList
      <4>2. \A r \in Rotators :
              [rotator[r] EXCEPT !.list = Outdated(rotator[r].list, e)] \in RotatorStates
        BY <4>1
      <4>3. catalog' = [catalog EXCEPT !.list = Outdated(catalog.list, e)]
        BY <2>1, <3>1
      <4>4. catalog' \in [cached : BOOLEAN, age : 0..(CatalogTtl - 1), list : Lists]
        BY <4>1, <4>3
      <4>5. rotator' \in [Rotators -> RotatorStates]
        BY <2>1, <3>1, <4>2
      <4>6. QED
        BY <4>4, <4>5
    <3>2. CASE ~newCode
      BY <2>1, <3>2
    <3>3. QED
      BY <3>1, <3>2
  <2>4. QED
    BY <1>13, <2>2, <2>3 DEF EditExam
<1>14. CASE UNCHANGED rotationVars
  BY <1>14 DEF rotationVars
<1>15. QED
  BY <1>1, <1>2, <1>3, <1>4, <1>5, <1>6, <1>7, <1>8, <1>9, <1>10, <1>11, <1>12, <1>13,
     <1>14
     DEF RotationNext, RotatorStep

\* Every variable of CodeRotation keeps its type.
THEOREM RotationTypeCorrect == RotationSpec => []RotationTypeOK
<1>1. QED
  BY RotationTypeInit, RotationTypeStep, PTL DEF RotationSpec


-------------------------------------------------------------------------------
(* The ages of what is of the exam's code.                                 *)

LEMMA FreshInit == RotationInit => FreshInv
<1>1. \A e \in Exams : ~EmptyList[e].fresh
  BY UnlistedFields DEF EmptyList
<1>2. QED
  BY <1>1 DEF RotationInit, FreshInv, FreshEntries, NoCatalog, Resting

\* Outdating a code's entries leaves the others, whatever its exam's age becomes.
LEMMA OutdatedStaysFresh ==
    ASSUME RotationTypeOK, NEW list \in Lists, NEW e \in Exams, FreshEntries(list),
           \A x \in Exams : x # e => exam'[x].age = exam[x].age
    PROVE  \A x \in Exams : Outdated(list, e)[x].fresh =>
                              Outdated(list, e)[x].age = exam'[x].age
<1> SUFFICES ASSUME NEW x \in Exams, Outdated(list, e)[x].fresh
             PROVE  Outdated(list, e)[x].age = exam'[x].age
  OBVIOUS
<1>1. x # e
  BY OutdatedIsList
<1>2. Outdated(list, e)[x] = list[x]
  BY <1>1, OutdatedIsList
<1>3. QED
  BY <1>1, <1>2 DEF FreshEntries

LEMMA FreshStep ==
    RotationTypeOK /\ FreshInv /\ [RotationNext]_rotationVars => FreshInv'
<1> SUFFICES ASSUME RotationTypeOK, FreshInv, [RotationNext]_rotationVars PROVE FreshInv'
  OBVIOUS
<1>1. CASE TimePasses
  <2>1. \A r \in Rotators, e \in Exams : ~rotator'[r].list[e].fresh
    BY <1>1 DEF TimePasses, Ticking, FreshInv
  <2>2. \A e \in Exams : ~EmptyList[e].fresh
    BY UnlistedFields DEF EmptyList
  <2>3. \A e \in Exams : exam'[e].age = Older(exam[e].age)
    BY <1>1 DEF TimePasses, RotationTypeOK
  <2>4. \A e \in Exams : catalog'.list[e].fresh => catalog'.list[e].age = exam'[e].age
    <3>1. CASE ~catalog.cached \/ Expires(catalog.age + 1)
      BY <1>1, <2>2, <3>1 DEF TimePasses, NoCatalog
    <3>2. CASE ~(~catalog.cached \/ Expires(catalog.age + 1))
      <4>1. catalog'.list = OlderList(catalog.list)
        BY <1>1, <3>2 DEF TimePasses, RotationTypeOK
      <4>2. catalog.list \in Lists
        BY DEF RotationTypeOK
      <4>3. QED
        BY <2>3, <4>1, <4>2, OlderIsList DEF FreshInv, FreshEntries
    <3>3. QED
      BY <3>1, <3>2
  <2>5. QED
    BY <2>1, <2>4 DEF FreshInv, FreshEntries
<1>2. CASE LockLapses \/ UNCHANGED rotationVars
  BY <1>2 DEF LockLapses, rotationVars, FreshInv, FreshEntries
<1>3. ASSUME NEW r \in Rotators, NEW new \in RotatorStates,
             rotator' = [rotator EXCEPT ![r] = new], UNCHANGED exam,
             FreshEntries(new.list), new.step = "idle" => \A e \in Exams : ~new.list[e].fresh,
             catalog'.list \in {catalog.list, rotator[r].list}
      PROVE  FreshInv'
  BY <1>3 DEF RotationTypeOK, FreshInv, FreshEntries
<1>4. ASSUME NEW r \in Rotators, AcquireRotationLock(r) PROVE FreshInv'
  <2> DEFINE new == [rotator[r] EXCEPT !.step = "get"]
  <2>1. new \in RotatorStates /\ new.list = rotator[r].list /\ new.step = "get"
    BY DEF RotationTypeOK, RotatorStates
  <2>2. FreshEntries(new.list)
    BY <2>1 DEF FreshInv
  <2>3. QED
    BY <1>3, <1>4, <2>1, <2>2 DEF AcquireRotationLock
<1>5. ASSUME NEW r \in Rotators, GetCatalog(r) PROVE FreshInv'
  <2> DEFINE new == IF catalog.cached
                    THEN [rotator[r] EXCEPT !.step = "rotate", !.list = catalog.list,
                                            !.left = ListedIn(catalog.list)]
                    ELSE [rotator[r] EXCEPT !.step = "load"]
  <2>1. ListedIn(catalog.list) \in SUBSET Exams
    BY DEF ListedIn
  <2>2. /\ new \in RotatorStates /\ new.list \in {catalog.list, rotator[r].list}
        /\ new.step # "idle"
    BY <2>1 DEF RotationTypeOK, RotatorStates
  <2>3. FreshEntries(new.list)
    BY <2>2 DEF FreshInv
  <2>4. rotator' = [rotator EXCEPT ![r] = new]
    BY <1>5 DEF GetCatalog
  <2>5. QED
    BY <1>3, <1>5, <2>2, <2>3, <2>4 DEF GetCatalog
<1>6. ASSUME NEW r \in Rotators, LoadExams(r) PROVE FreshInv'
  <2> DEFINE list == [e \in Exams |->
                        IF exam[e].rotating
                        THEN [listed |-> TRUE, age |-> exam[e].age, fresh |-> TRUE]
                        ELSE Unlisted]
             new == [rotator[r] EXCEPT !.step = "fill", !.list = list]
  <2>1. list \in Lists /\ FreshEntries(list)
    BY LoadedIsList
  <2> HIDE DEF list
  <2>2. new \in RotatorStates /\ new.list = list /\ new.step = "fill"
    BY <2>1 DEF RotationTypeOK, RotatorStates
  <2>3. rotator' = [rotator EXCEPT ![r] = new]
    BY <1>6 DEF LoadExams, list
  <2>4. FreshEntries(new.list)
    BY <2>1, <2>2 DEF FreshEntries
  <2>5. UNCHANGED <<exam, catalog>>
    BY <1>6 DEF LoadExams
  <2> HIDE DEF new
  <2>6. QED
    BY <1>3, <2>2, <2>3, <2>4, <2>5
<1>7. ASSUME NEW r \in Rotators, FillCatalog(r) PROVE FreshInv'
  <2> DEFINE new == [rotator[r] EXCEPT !.step = "rotate", !.left = ListedIn(rotator[r].list)]
  <2>1. new \in RotatorStates /\ new.list = rotator[r].list /\ new.step = "rotate"
    BY DEF RotationTypeOK, RotatorStates, ListedIn
  <2>2. FreshEntries(new.list)
    BY <2>1 DEF FreshInv
  <2>3. rotator' = [rotator EXCEPT ![r] = new] /\ catalog'.list = rotator[r].list
    BY <1>7 DEF FillCatalog, Cached
  <2>4. QED
    BY <1>3, <1>7, <2>1, <2>2, <2>3 DEF FillCatalog
<1>8. ASSUME NEW r \in Rotators, NEW e \in Exams, RotateExam(r, e) PROVE FreshInv'
  <2>1. /\ exam' = [exam EXCEPT ![e].age = 0]
        /\ catalog' = [catalog EXCEPT !.list = Outdated(catalog.list, e)]
    BY <1>8 DEF RotateExam, OutdatedElsewhere
  <2>2. /\ exam'[e].age = 0
        /\ \A x \in Exams : x # e => exam'[x].age = exam[x].age
    BY <2>1 DEF RotationTypeOK
  <2>3. catalog'.list = Outdated(catalog.list, e) /\ catalog.list \in Lists
    BY <2>1 DEF RotationTypeOK
  <2>4. FreshEntries(catalog.list)'
    BY <2>2, <2>3, OutdatedStaysFresh DEF FreshInv, FreshEntries
  <2>5. ASSUME NEW other \in Rotators
        PROVE  /\ FreshEntries(rotator[other].list)'
               /\ rotator'[other].step = "idle" =>
                    \A x \in Exams : ~rotator'[other].list[x].fresh
    <3>1. CASE other # r
      <4>1. rotator'[other] = [rotator[other] EXCEPT !.list = Outdated(rotator[other].list, e)]
        BY <1>8, <3>1 DEF RotateExam
      <4>2. /\ rotator'[other].list = Outdated(rotator[other].list, e)
            /\ rotator'[other].step = rotator[other].step
            /\ rotator[other].list \in Lists
        BY <4>1 DEF RotationTypeOK, RotatorStates
      <4>3. FreshEntries(rotator[other].list)'
        BY <2>2, <4>2, OutdatedStaysFresh DEF FreshInv, FreshEntries
      <4>4. \A x \in Exams :
               ~rotator[other].list[x].fresh => ~Outdated(rotator[other].list, e)[x].fresh
        BY <4>2, OutdatedIsList
      <4>5. QED
        BY <4>2, <4>3, <4>4 DEF FreshInv
    <3>2. CASE other = r
      <4>1. rotator'[r] = [rotator[r] EXCEPT !.list = [rotator[r].list EXCEPT ![e] = Rotated],
                                             !.left = rotator[r].left \ {e},
                                             !.changed = TRUE]
        BY <1>8 DEF RotateExam
      <4>2. /\ rotator'[r].list = [rotator[r].list EXCEPT ![e] = Rotated]
            /\ rotator'[r].step = "rotate"
        BY <1>8, <4>1 DEF RotateExam, RotationTypeOK, RotatorStates
      <4>3. ASSUME NEW x \in Exams, rotator'[r].list[x].fresh
            PROVE  rotator'[r].list[x].age = exam'[x].age
        <5>1. CASE x = e
          BY <2>2, <4>2, <5>1 DEF RotationTypeOK, RotatorStates, Lists, Rotated
        <5>2. CASE x # e
          BY <2>2, <4>2, <4>3, <5>2
             DEF RotationTypeOK, RotatorStates, Lists, FreshInv, FreshEntries
        <5>3. QED
          BY <5>1, <5>2
      <4>4. QED
        BY <3>2, <4>2, <4>3 DEF FreshEntries
    <3>3. QED
      BY <3>1, <3>2
  <2>6. QED
    BY <2>4, <2>5 DEF FreshInv, FreshEntries
<1>9. ASSUME NEW r \in Rotators, NEW e \in Exams, KeepEntry(r, e) PROVE FreshInv'
  <2> DEFINE new == [rotator[r] EXCEPT !.left = rotator[r].left \ {e}]
  <2>1. new \in RotatorStates /\ new.list = rotator[r].list /\ new.step = "rotate"
    BY <1>9 DEF KeepEntry, RotationTypeOK, RotatorStates
  <2>2. FreshEntries(new.list)
    BY <2>1 DEF FreshInv
  <2>3. rotator' = [rotator EXCEPT ![r] = new]
    BY <1>9 DEF KeepEntry
  <2>4. QED
    BY <1>3, <1>9, <2>1, <2>2, <2>3 DEF KeepEntry
<1>10. ASSUME NEW r \in Rotators, NEW e \in Exams, DropEntry(r, e) PROVE FreshInv'
  <2> DEFINE list == [rotator[r].list EXCEPT ![e] = Unlisted]
             new == [rotator[r] EXCEPT !.list = list, !.left = rotator[r].left \ {e},
                                       !.changed = TRUE]
  <2>1. list \in Lists
    BY DEF RotationTypeOK, RotatorStates, Lists, Entries, Unlisted
  <2>2. new \in RotatorStates /\ new.list = list /\ new.step = "rotate"
    BY <1>10, <2>1 DEF DropEntry, RotationTypeOK, RotatorStates
  <2>3. FreshEntries(list)
    BY UnlistedFields DEF FreshInv, FreshEntries, RotationTypeOK, RotatorStates, Lists
  <2>4. rotator' = [rotator EXCEPT ![r] = new]
    BY <1>10 DEF DropEntry
  <2>5. FreshEntries(new.list)
    BY <2>2, <2>3 DEF FreshEntries
  <2>6. UNCHANGED <<exam, catalog>>
    BY <1>10 DEF DropEntry
  <2> HIDE DEF new
  <2>7. QED
    BY <1>3, <2>2, <2>4, <2>5, <2>6
<1>11. ASSUME NEW r \in Rotators, StoreCatalog(r) PROVE FreshInv'
  <2> DEFINE new == [rotator[r] EXCEPT !.step = "unlock"]
  <2>1. new \in RotatorStates /\ new.list = rotator[r].list /\ new.step = "unlock"
    BY DEF RotationTypeOK, RotatorStates
  <2>2. FreshEntries(new.list)
    BY <2>1 DEF FreshInv
  <2>3. catalog'.list \in {catalog.list, rotator[r].list}
    BY <1>11 DEF StoreCatalog, Cached
  <2>4. QED
    BY <1>3, <1>11, <2>1, <2>2, <2>3 DEF StoreCatalog
<1>12. ASSUME NEW r \in Rotators, ReleaseRotationLock(r) \/ CrashRotator(r) PROVE FreshInv'
  <2>1. /\ Resting \in RotatorStates /\ FreshEntries(Resting.list)
        /\ \A e \in Exams : ~Resting.list[e].fresh
    BY EmptyIsList, UnlistedFields DEF Resting, RotatorStates, FreshEntries, EmptyList
  <2>2. QED
    BY <1>3, <1>12, <2>1 DEF ReleaseRotationLock, CrashRotator
<1>13. ASSUME NEW r \in Rotators, TickFails(r) PROVE FreshInv'
  <2> DEFINE new == [rotator[r] EXCEPT !.step = "unlock"]
  <2>1. new \in RotatorStates /\ new.list = rotator[r].list /\ new.step = "unlock"
    BY DEF RotationTypeOK, RotatorStates
  <2>2. FreshEntries(new.list)
    BY <2>1 DEF FreshInv
  <2>3. QED
    BY <1>3, <1>13, <2>1, <2>2 DEF TickFails
<1>14. ASSUME NEW e \in Exams, EditExam(e) PROVE FreshInv'
  <2>1. PICK rotating \in BOOLEAN, newCode \in BOOLEAN :
          /\ exam' = [exam EXCEPT ![e].rotating = rotating]
          /\ IF newCode
             THEN /\ catalog' = [catalog EXCEPT !.list = Outdated(catalog.list, e)]
                  /\ rotator' = [r \in Rotators |->
                                    [rotator[r] EXCEPT !.list = Outdated(rotator[r].list, e)]]
             ELSE UNCHANGED <<catalog, rotator>>
    BY <1>14 DEF EditExam
  <2>2. \A x \in Exams : exam'[x].age = exam[x].age
    BY <2>1 DEF RotationTypeOK
  <2>3. CASE newCode
    <3>1. FreshEntries(catalog.list)'
      <4>1. catalog'.list = Outdated(catalog.list, e) /\ catalog.list \in Lists
        BY <2>1, <2>3 DEF RotationTypeOK
      <4>2. QED
        BY <2>2, <4>1, OutdatedStaysFresh DEF FreshInv, FreshEntries
    <3>2. ASSUME NEW r \in Rotators
          PROVE  /\ FreshEntries(rotator[r].list)'
                 /\ rotator'[r].step = "idle" => \A x \in Exams : ~rotator'[r].list[x].fresh
      <4>1. rotator'[r] = [rotator[r] EXCEPT !.list = Outdated(rotator[r].list, e)]
        BY <2>1, <2>3
      <4>2. /\ rotator'[r].list = Outdated(rotator[r].list, e)
            /\ rotator'[r].step = rotator[r].step
            /\ rotator[r].list \in Lists
        BY <4>1 DEF RotationTypeOK, RotatorStates
      <4>3. FreshEntries(rotator[r].list)'
        BY <2>2, <4>2, OutdatedStaysFresh DEF FreshInv, FreshEntries
      <4>4. \A x \in Exams :
               ~rotator[r].list[x].fresh => ~Outdated(rotator[r].list, e)[x].fresh
        BY <4>2, OutdatedIsList
      <4>5. QED
        BY <4>2, <4>3, <4>4 DEF FreshInv
    <3>3. QED
      BY <3>1, <3>2 DEF FreshInv, FreshEntries
  <2>4. CASE ~newCode
    BY <2>1, <2>2, <2>4 DEF FreshInv, FreshEntries
  <2>5. QED
    BY <2>3, <2>4
<1>15. QED
  BY <1>1, <1>2, <1>4, <1>5, <1>6, <1>7, <1>8, <1>9, <1>10, <1>11, <1>12, <1>13, <1>14
     DEF RotationNext, RotatorStep

\* "Due time is based on when the code last actually rotated" (137): no code is rotated
\* before its interval is over, however many instances tick on however old lists, for
\* any interval, any TTL of the catalog and any exams.
THEOREM NeverRotatedTooSoon == RotationSpec => NeverTooSoon
<1>1. RotationTypeOK /\ FreshInv /\ [RotationNext]_rotationVars =>
        \A e \in Exams : exam'[e].age < exam[e].age => exam[e].age >= Interval
  <2> SUFFICES ASSUME RotationTypeOK, FreshInv, [RotationNext]_rotationVars,
                      NEW x \in Exams, exam'[x].age < exam[x].age
               PROVE  exam[x].age >= Interval
    OBVIOUS
  <2>1. exam[x].age \in 0..Interval
    BY DEF RotationTypeOK
  <2>2. CASE TimePasses
    <3>1. exam'[x].age = Older(exam[x].age)
      BY <2>2 DEF TimePasses, RotationTypeOK
    <3>2. QED
      BY <2>1, <3>1, OlderAge
  <2>3. exam' # exam
    BY <2>1
  <2>4. ASSUME NEW e \in Exams, EditExam(e) PROVE FALSE
    <3>1. exam'[x].age = exam[x].age
      BY <2>4 DEF EditExam, RotationTypeOK
    <3>2. QED
      BY <2>1, <3>1
  <2>5. ASSUME NEW r \in Rotators, NEW e \in Exams, RotateExam(r, e)
        PROVE  exam[x].age >= Interval
    <3>1. exam' = [exam EXCEPT ![e].age = 0]
      BY <2>5 DEF RotateExam, OutdatedElsewhere
    <3>2. x = e
      BY <2>1, <3>1 DEF RotationTypeOK
    <3>3. rotator[r].list[e].fresh /\ rotator[r].list[e].age >= Interval
      BY <2>5 DEF RotateExam, Matches
    <3>4. QED
      BY <3>2, <3>3 DEF FreshInv, FreshEntries
  <2>6. QED
    BY <2>2, <2>3, <2>4, <2>5
       DEF RotationNext, RotatorStep, LockLapses, AcquireRotationLock, GetCatalog, LoadExams,
           FillCatalog, KeepEntry, DropEntry, StoreCatalog, ReleaseRotationLock, TickFails,
           CrashRotator, rotationVars
<1>2. QED
  BY <1>1, RotationTypeInit, RotationTypeStep, FreshInit, FreshStep, PTL
     DEF RotationSpec, NeverTooSoon

-------------------------------------------------------------------------------
(* One exam that is made static.                                           *)

\* Of a static exam that has been rotated once more, what is cached or held is of that
\* rotation: no older than the list, and new where the list is about to be cached.
StoppedInv ==
    /\ \A r \in Rotators :
          rotator[r].step \in {"idle", "get", "load", "fill"} => ~rotator[r].changed
    /\ afterStop \in [Exams -> 0..1]
    /\ \A e \in Exams : afterStop[e] = 1 =>
          /\ ~exam[e].rotating
          /\ catalog.list[e].fresh => exam[e].age <= catalog.age
          /\ \A r \in Rotators : rotator[r].list[e].fresh =>
                /\ exam[e].age < CatalogTtl
                /\ rotator[r].step \in {"rotate", "unlock"}
                /\ rotator[r].changed => exam[e].age = 0

\* What an instance does alone, to its own state and to the list.
LEMMA StoppedFrame ==
    ASSUME RotationTypeOK, StoppedInv, NEW r \in Rotators, NEW new \in RotatorStates,
           rotator' = [rotator EXCEPT ![r] = new], UNCHANGED <<exam, afterStop>>,
           new.step \in {"idle", "get", "load", "fill"} => ~new.changed,
           \A e \in Exams : afterStop[e] = 1 =>
              /\ new.list[e].fresh =>
                    /\ exam[e].age < CatalogTtl
                    /\ new.step \in {"rotate", "unlock"}
                    /\ new.changed => exam[e].age = 0
              /\ catalog'.list[e].fresh => exam[e].age <= catalog'.age
    PROVE  StoppedInv'
<1>1. /\ rotator'[r] = new
      /\ \A other \in Rotators : other # r => rotator'[other] = rotator[other]
  BY DEF RotationTypeOK
<1>2. \A other \in Rotators :
         rotator'[other].step \in {"idle", "get", "load", "fill"} => ~rotator'[other].changed
  BY <1>1 DEF StoppedInv
<1>3. ASSUME NEW e \in Exams, afterStop'[e] = 1
      PROVE  /\ ~exam'[e].rotating
             /\ catalog'.list[e].fresh => exam'[e].age <= catalog'.age
             /\ \A other \in Rotators : rotator'[other].list[e].fresh =>
                   /\ exam'[e].age < CatalogTtl
                   /\ rotator'[other].step \in {"rotate", "unlock"}
                   /\ rotator'[other].changed => exam'[e].age = 0
  BY <1>1, <1>3 DEF StoppedInv
<1>4. QED
  BY <1>2, <1>3 DEF StoppedInv

\* With one exam, and a list that is not cached for longer than its interval.
OneExam == CatalogTtl <= Interval /\ \E e : Exams = {e}

LEMMA StoppedInit == RotationInit => StoppedInv
BY UnlistedFields DEF RotationInit, StoppedInv, Resting, NoCatalog, EmptyList

LEMMA StoppedRotate ==
    ASSUME OneExam, RotationTypeOK, FreshInv, StoppedInv,
           NEW r \in Rotators, NEW e \in Exams, RotateExam(r, e)
    PROVE  StoppedInv'
<1>1. Exams = {e}
  BY DEF OneExam
<1>2. rotator[r].list[e].fresh /\ rotator[r].list[e].age >= Interval
      /\ rotator[r].step = "rotate"
  BY DEF RotateExam, Matches
<1>3. exam[e].age >= Interval
  BY <1>2 DEF FreshInv, FreshEntries
<1>4. exam[e] \in [rotating : BOOLEAN, age : 0..Interval]
  BY DEF RotationTypeOK
<1>5. afterStop[e] = 0
  <2>1. afterStop[e] # 1
    BY <1>2, <1>3, <1>4 DEF StoppedInv, OneExam
  <2>2. QED
    BY <2>1 DEF StoppedInv
<1>6. /\ exam' = [exam EXCEPT ![e].age = 0]
      /\ catalog' = [catalog EXCEPT !.list = Outdated(catalog.list, e)]
      /\ afterStop' = [afterStop EXCEPT ![e] = IF exam[e].rotating THEN 0
                                               ELSE afterStop[e] + 1]
  BY DEF RotateExam, OutdatedElsewhere
<1>7. exam'[e].age = 0 /\ exam'[e].rotating = exam[e].rotating
  BY <1>4, <1>6 DEF RotationTypeOK
<1>8. ~catalog'.list[e].fresh
  <2>1. catalog'.list = Outdated(catalog.list, e) /\ catalog.list \in Lists
    BY <1>6 DEF RotationTypeOK
  <2>2. QED
    BY <2>1, OutdatedIsList
<1>9. ASSUME NEW other \in Rotators, other # r
      PROVE  /\ ~rotator'[other].list[e].fresh
             /\ rotator'[other].step = rotator[other].step
             /\ rotator'[other].changed = rotator[other].changed
  <2>1. rotator'[other] = [rotator[other] EXCEPT !.list = Outdated(rotator[other].list, e)]
    BY <1>9 DEF RotateExam
  <2>2. rotator[other] \in RotatorStates /\ rotator[other].list \in Lists
    BY DEF RotationTypeOK, RotatorStates
  <2>3. QED
    BY <2>1, <2>2, OutdatedIsList DEF RotatorStates
<1>10. rotator'[r].step = "rotate"
  <2>1. rotator'[r] = [rotator[r] EXCEPT !.list = [rotator[r].list EXCEPT ![e] = Rotated],
                                         !.left = rotator[r].left \ {e},
                                         !.changed = TRUE]
    BY DEF RotateExam
  <2>2. QED
    BY <1>2, <2>1 DEF RotationTypeOK, RotatorStates
<1>11. \A other \in Rotators :
          rotator'[other].step \in {"idle", "get", "load", "fill"} => ~rotator'[other].changed
  BY <1>9, <1>10 DEF StoppedInv
<1>12. /\ afterStop' \in [Exams -> 0..1]
       /\ afterStop'[e] = 1 => ~exam[e].rotating
  <2>1. afterStop \in [Exams -> 0..1]
    BY DEF StoppedInv
  <2>2. QED
    BY <1>5, <1>6, <2>1
<1>13. ASSUME afterStop'[e] = 1
       PROVE  /\ ~exam'[e].rotating
              /\ catalog'.list[e].fresh => exam'[e].age <= catalog'.age
              /\ \A other \in Rotators : rotator'[other].list[e].fresh =>
                    /\ exam'[e].age < CatalogTtl
                    /\ rotator'[other].step \in {"rotate", "unlock"}
                    /\ rotator'[other].changed => exam'[e].age = 0
  BY <1>7, <1>8, <1>9, <1>10, <1>12, <1>13
<1>14. QED
  BY <1>1, <1>11, <1>12, <1>13 DEF StoppedInv

LEMMA StoppedEdit ==
    ASSUME OneExam, RotationTypeOK, StoppedInv, NEW e \in Exams, EditExam(e)
    PROVE  StoppedInv'
<1>1. Exams = {e}
  BY DEF OneExam
<1>2. afterStop' \in [Exams -> 0..1] /\ afterStop'[e] = 0
  <2>1. afterStop' = [afterStop EXCEPT ![e] = 0]
    BY DEF EditExam
  <2>2. QED
    BY <2>1 DEF StoppedInv
<1>3. ASSUME NEW r \in Rotators
      PROVE  rotator'[r].step = rotator[r].step /\ rotator'[r].changed = rotator[r].changed
  <2>1. rotator' = rotator \/
        rotator'[r] = [rotator[r] EXCEPT !.list = Outdated(rotator[r].list, e)]
    BY DEF EditExam
  <2>2. rotator[r] \in RotatorStates
    BY DEF RotationTypeOK
  <2>3. QED
    BY <2>1, <2>2 DEF RotatorStates
<1>4. QED
  BY <1>1, <1>2, <1>3 DEF StoppedInv

LEMMA StoppedTime ==
    ASSUME RotationTypeOK, FreshInv, StoppedInv, TimePasses
    PROVE  StoppedInv'
<1>1. /\ UNCHANGED <<rotator, afterStop>>
      /\ exam' = [e \in Exams |-> [exam[e] EXCEPT !.age = Older(exam[e].age)]]
      /\ \A r \in Rotators : rotator[r].step = "idle"
  BY DEF TimePasses, Ticking
<1>2. \A r \in Rotators, e \in Exams : ~rotator'[r].list[e].fresh
  BY <1>1 DEF FreshInv
<1>3. ASSUME NEW e \in Exams
      PROVE  /\ exam'[e].rotating = exam[e].rotating
             /\ exam'[e].age \in Nat /\ exam[e].age \in Nat
             /\ exam'[e].age <= exam[e].age + 1
  <2>1. exam[e] \in [rotating : BOOLEAN, age : 0..Interval]
    BY DEF RotationTypeOK
  <2>2. exam'[e] = [exam[e] EXCEPT !.age = Older(exam[e].age)]
    BY <1>1
  <2>3. Older(exam[e].age) \in Nat /\ Older(exam[e].age) <= exam[e].age + 1
    BY <2>1 DEF Older
  <2>4. QED
    BY <2>1, <2>2, <2>3
<1>4. ASSUME NEW e \in Exams, afterStop[e] = 1, catalog'.list[e].fresh
      PROVE  exam'[e].age <= catalog'.age
  <2>1. CASE ~catalog.cached \/ Expires(catalog.age + 1)
    BY <1>4, <2>1, UnlistedFields DEF TimePasses, NoCatalog, EmptyList
  <2>2. CASE ~(~catalog.cached \/ Expires(catalog.age + 1))
    <3>1. /\ catalog'.list = OlderList(catalog.list) /\ catalog'.age = catalog.age + 1
          /\ catalog.list \in Lists /\ catalog.age \in Nat
      BY <2>2 DEF TimePasses, RotationTypeOK
    <3>2. catalog.list[e].fresh
      BY <1>4, <3>1, OlderIsList
    <3>3. exam[e].age <= catalog.age
      BY <1>4, <3>2 DEF StoppedInv
    <3>4. QED
      BY <1>3, <3>1, <3>3
  <2>3. QED
    BY <2>1, <2>2
<1>5. QED
  BY <1>1, <1>2, <1>3, <1>4 DEF StoppedInv

LEMMA StoppedStep ==
    OneExam /\ RotationTypeOK /\ FreshInv /\ StoppedInv /\ [RotationNext]_rotationVars
        => StoppedInv'
<1> SUFFICES ASSUME OneExam, RotationTypeOK, FreshInv, StoppedInv,
                    [RotationNext]_rotationVars
             PROVE  StoppedInv'
  OBVIOUS
<1>1. CASE LockLapses \/ UNCHANGED rotationVars
  BY <1>1 DEF LockLapses, rotationVars, StoppedInv
<1>2. ASSUME NEW r \in Rotators, AcquireRotationLock(r) PROVE StoppedInv'
  <2> DEFINE new == [rotator[r] EXCEPT !.step = "get"]
  <2>1. /\ new \in RotatorStates /\ new.list = rotator[r].list /\ new.step = "get"
        /\ new.changed = rotator[r].changed /\ rotator[r].step = "idle"
    BY <1>2 DEF AcquireRotationLock, RotationTypeOK, RotatorStates
  <2>2. rotator' = [rotator EXCEPT ![r] = new] /\ UNCHANGED <<exam, catalog, afterStop>>
    BY <1>2 DEF AcquireRotationLock
  <2> HIDE DEF new
  <2>3. ~new.changed /\ \A e \in Exams : ~new.list[e].fresh
    BY <2>1 DEF StoppedInv, FreshInv
  <2>4. \A e \in Exams : afterStop[e] = 1 =>
           (catalog'.list[e].fresh => exam[e].age <= catalog'.age)
    BY <2>2 DEF StoppedInv
  <2>5. QED
    BY <2>1, <2>2, <2>3, <2>4, StoppedFrame
<1>3. ASSUME NEW r \in Rotators, GetCatalog(r) PROVE StoppedInv'
  <2> DEFINE new == IF catalog.cached
                    THEN [rotator[r] EXCEPT !.step = "rotate", !.list = catalog.list,
                                            !.left = ListedIn(catalog.list)]
                    ELSE [rotator[r] EXCEPT !.step = "load"]
  <2>1. ListedIn(catalog.list) \in SUBSET Exams /\ rotator[r].step = "get"
    BY <1>3 DEF ListedIn, GetCatalog
  <2>2. /\ new \in RotatorStates /\ ~new.changed
        /\ \/ new.list = catalog.list /\ new.step = "rotate"
           \/ new.list = rotator[r].list /\ new.step = "load"
    BY <2>1 DEF RotationTypeOK, RotatorStates, StoppedInv
  <2>3. rotator' = [rotator EXCEPT ![r] = new] /\ UNCHANGED <<exam, catalog, afterStop>>
    BY <1>3 DEF GetCatalog
  <2> HIDE DEF new
  <2>4. ASSUME NEW e \in Exams, afterStop[e] = 1
        PROVE  /\ catalog'.list[e].fresh => exam[e].age <= catalog'.age
               /\ new.list[e].fresh => exam[e].age < CatalogTtl /\ new.step = "rotate"
    <3>1. catalog.age \in 0..(CatalogTtl - 1) /\ exam[e].age \in 0..Interval
      BY DEF RotationTypeOK
    <3>2. catalog.list[e].fresh => exam[e].age <= catalog.age
      BY <2>4 DEF StoppedInv
    <3>3. ~rotator[r].list[e].fresh
      BY <2>1, <2>4 DEF StoppedInv
    <3>4. QED
      BY <2>2, <2>3, <3>1, <3>2, <3>3
  <2>5. QED
    BY <2>2, <2>3, <2>4, StoppedFrame
<1>4. ASSUME NEW r \in Rotators, LoadExams(r) PROVE StoppedInv'
  <2> DEFINE list == [e \in Exams |->
                        IF exam[e].rotating
                        THEN [listed |-> TRUE, age |-> exam[e].age, fresh |-> TRUE]
                        ELSE Unlisted]
             new == [rotator[r] EXCEPT !.step = "fill", !.list = list]
  <2>1. list \in Lists /\ \A e \in Exams : ~exam[e].rotating => ~list[e].fresh
    BY LoadedIsList, UnlistedFields
  <2> HIDE DEF list
  <2>2. /\ new \in RotatorStates /\ new.list = list /\ new.step = "fill"
        /\ new.changed = rotator[r].changed /\ rotator[r].step = "load"
    BY <1>4, <2>1 DEF LoadExams, RotationTypeOK, RotatorStates
  <2>3. rotator' = [rotator EXCEPT ![r] = new] /\ UNCHANGED <<exam, catalog, afterStop>>
    BY <1>4 DEF LoadExams, list
  <2> HIDE DEF new
  <2>4. ~new.changed /\ \A e \in Exams : afterStop[e] = 1 =>
           ~new.list[e].fresh /\ (catalog'.list[e].fresh => exam[e].age <= catalog'.age)
    BY <2>1, <2>2, <2>3 DEF StoppedInv
  <2>5. QED
    BY <2>2, <2>3, <2>4, StoppedFrame
<1>5. ASSUME NEW r \in Rotators, FillCatalog(r) PROVE StoppedInv'
  <2> DEFINE new == [rotator[r] EXCEPT !.step = "rotate", !.left = ListedIn(rotator[r].list)]
  <2>1. /\ new \in RotatorStates /\ new.list = rotator[r].list /\ new.step = "rotate"
        /\ rotator[r].step = "fill"
    BY <1>5 DEF FillCatalog, RotationTypeOK, RotatorStates, ListedIn
  <2>2. /\ rotator' = [rotator EXCEPT ![r] = new] /\ UNCHANGED <<exam, afterStop>>
        /\ catalog'.list = rotator[r].list
    BY <1>5 DEF FillCatalog, Cached
  <2> HIDE DEF new
  <2>3. \A e \in Exams : afterStop[e] = 1 => ~rotator[r].list[e].fresh
    BY <2>1 DEF StoppedInv
  <2>4. QED
    BY <2>1, <2>2, <2>3, StoppedFrame
<1>6. ASSUME NEW r \in Rotators, NEW e \in Exams, KeepEntry(r, e) PROVE StoppedInv'
  <2> DEFINE new == [rotator[r] EXCEPT !.left = rotator[r].left \ {e}]
  <2>1. /\ new \in RotatorStates /\ new.list = rotator[r].list /\ new.step = "rotate"
        /\ new.changed = rotator[r].changed
    BY <1>6 DEF KeepEntry, RotationTypeOK, RotatorStates
  <2>2. rotator' = [rotator EXCEPT ![r] = new] /\ UNCHANGED <<exam, catalog, afterStop>>
    BY <1>6 DEF KeepEntry
  <2> HIDE DEF new
  <2>3. \A x \in Exams : afterStop[x] = 1 =>
           /\ new.list[x].fresh => exam[x].age < CatalogTtl /\ (new.changed => exam[x].age = 0)
           /\ catalog'.list[x].fresh => exam[x].age <= catalog'.age
    BY <2>1, <2>2 DEF StoppedInv
  <2>4. QED
    BY <2>1, <2>2, <2>3, StoppedFrame
<1>7. ASSUME NEW r \in Rotators, NEW e \in Exams, DropEntry(r, e) PROVE StoppedInv'
  <2> DEFINE list == [rotator[r].list EXCEPT ![e] = Unlisted]
             new == [rotator[r] EXCEPT !.list = list, !.left = rotator[r].left \ {e},
                                       !.changed = TRUE]
  <2>1. list \in Lists /\ ~list[e].fresh
    BY UnlistedFields DEF RotationTypeOK, RotatorStates, Lists, Entries, Unlisted
  <2>2. new \in RotatorStates /\ new.list = list /\ new.step = "rotate"
    BY <1>7, <2>1 DEF DropEntry, RotationTypeOK, RotatorStates
  <2>3. rotator' = [rotator EXCEPT ![r] = new] /\ UNCHANGED <<exam, catalog, afterStop>>
    BY <1>7 DEF DropEntry
  <2> HIDE DEF new, list
  <2>4. \A x \in Exams : x = e
    BY DEF OneExam
  <2>5. \A x \in Exams : afterStop[x] = 1 =>
           ~new.list[x].fresh /\ (catalog'.list[x].fresh => exam[x].age <= catalog'.age)
    BY <2>1, <2>2, <2>3, <2>4 DEF StoppedInv
  <2>6. QED
    BY <2>2, <2>3, <2>5, StoppedFrame
<1>8. ASSUME NEW r \in Rotators, StoreCatalog(r) PROVE StoppedInv'
  <2> DEFINE new == [rotator[r] EXCEPT !.step = "unlock"]
  <2>1. /\ new \in RotatorStates /\ new.list = rotator[r].list /\ new.step = "unlock"
        /\ new.changed = rotator[r].changed
    BY DEF RotationTypeOK, RotatorStates
  <2>2. /\ rotator' = [rotator EXCEPT ![r] = new] /\ UNCHANGED <<exam, afterStop>>
        /\ catalog' = IF rotator[r].changed THEN Cached(rotator[r].list) ELSE catalog
    BY <1>8 DEF StoreCatalog, Changed
  <2> HIDE DEF new
  <2>3. ASSUME NEW e \in Exams, afterStop[e] = 1
        PROVE  /\ new.list[e].fresh =>
                     exam[e].age < CatalogTtl /\ (new.changed => exam[e].age = 0)
               /\ catalog'.list[e].fresh => exam[e].age <= catalog'.age
    <3>1. CASE rotator[r].changed
      BY <2>1, <2>2, <2>3, <3>1 DEF StoppedInv, Cached
    <3>2. CASE ~rotator[r].changed
      BY <2>1, <2>2, <2>3, <3>2 DEF StoppedInv
    <3>3. QED
      BY <3>1, <3>2
  <2>4. QED
    BY <2>1, <2>2, <2>3, StoppedFrame
<1>9. ASSUME NEW r \in Rotators, ReleaseRotationLock(r) \/ CrashRotator(r) PROVE StoppedInv'
  <2>1. /\ Resting \in RotatorStates /\ ~Resting.changed
        /\ \A e \in Exams : ~Resting.list[e].fresh
    BY EmptyIsList, UnlistedFields DEF Resting, RotatorStates, EmptyList
  <2>2. rotator' = [rotator EXCEPT ![r] = Resting] /\ UNCHANGED <<exam, catalog, afterStop>>
    BY <1>9 DEF ReleaseRotationLock, CrashRotator
  <2>3. \A e \in Exams : afterStop[e] = 1 =>
           (catalog'.list[e].fresh => exam[e].age <= catalog'.age)
    BY <2>2 DEF StoppedInv
  <2>4. QED
    BY <2>1, <2>2, <2>3, StoppedFrame
<1>10. ASSUME NEW r \in Rotators, TickFails(r) PROVE StoppedInv'
  <2> DEFINE new == [rotator[r] EXCEPT !.step = "unlock"]
  <2>1. /\ new \in RotatorStates /\ new.list = rotator[r].list /\ new.step = "unlock"
        /\ new.changed = rotator[r].changed
    BY DEF RotationTypeOK, RotatorStates
  <2>2. rotator' = [rotator EXCEPT ![r] = new] /\ UNCHANGED <<exam, catalog, afterStop>>
    BY <1>10 DEF TickFails
  <2> HIDE DEF new
  <2>3. \A e \in Exams : afterStop[e] = 1 =>
           /\ new.list[e].fresh => exam[e].age < CatalogTtl /\ (new.changed => exam[e].age = 0)
           /\ catalog'.list[e].fresh => exam[e].age <= catalog'.age
    BY <2>1, <2>2 DEF StoppedInv
  <2>4. QED
    BY <2>1, <2>2, <2>3, StoppedFrame
<1>11. QED
  BY <1>1, <1>2, <1>3, <1>4, <1>5, <1>6, <1>7, <1>8, <1>9, <1>10, StoppedTime,
     StoppedRotate, StoppedEdit DEF RotationNext, RotatorStep

\* An exam the teacher made static is rotated once at most, by a list read before
\* (rotateDueExamCodes), when it is the only one and its interval is no shorter than the
\* 300 s a list is cached: with two, every rotation of the other caches its entry anew.
THEOREM StaticRotatesOnce ==
    ASSUME CatalogTtl <= Interval, NEW e, Exams = {e}
    PROVE  RotationSpec => []StaticSoon
<1>1. RotationTypeOK /\ FreshInv /\ StoppedInv /\ [RotationNext]_rotationVars => StoppedInv'
  BY StoppedStep DEF OneExam
<1>2. StoppedInv => StaticSoon
  BY DEF StoppedInv, StaticSoon
<1>3. QED
  BY <1>1, <1>2, RotationTypeInit, RotationTypeStep, FreshInit, FreshStep, StoppedInit, PTL
     DEF RotationSpec

===============================================================================
