---------------------------- MODULE BillingEvents ----------------------------
(***************************************************************************)
(* The plan of one organization as Stripe's webhooks and the return from a *)
(* checkout keep it: events of its subscriptions come at least once, in    *)
(* any order, to several requests at a time.  Each request claims its      *)
(* event, asks Stripe for the subscription, writes the plan, promotes the  *)
(* owner of a first paid plan, records the outcome, and releases the claim *)
(* when any of that fails.  There is one paid plan; its status, price and  *)
(* expiry are left out.                                                    *)
(***************************************************************************)
EXTENDS Naturals, Sequences

CONSTANTS
    Subscriptions,
    NoSubscription,
    Deliveries,         \* requests handled at once
    MaxEvents,          \* bound on the events Stripe sends
    MaxSyncs,           \* bound on returns from a checkout
    MaxBillingFaults    \* bound on exceptions and crashes

ASSUME BillingAssumption ==
    /\ NoSubscription \notin Subscriptions
    /\ MaxEvents \in Nat /\ MaxSyncs \in Nat /\ MaxBillingFaults \in Nat

VARIABLES
    remote,         \* the subscriptions, at Stripe
    sent,           \* Stripe's events
    answered,       \* those answered with success: Stripe does not deliver them again
    claims,         \* rows of SubscriptionEvent
    organization,   \* its plan and its subscription
    promoted,       \* the owner is an admin and has the resources of before
    delivery,       \* where each request is
    syncs, billingFaults,
    \* What the properties talk about:
    applied,        \* events a request has dealt with
    excused         \* what may have left a wrong plan, an owner not promoted, an event lost

stripeVars == <<remote, sent>>
recordVars == <<answered, claims, applied>>
billingVars == <<stripeVars, recordVars, organization, promoted, delivery, syncs,
                 billingFaults, excused>>

Kinds == {"completed", "updated", "deleted", "failed", "succeeded"}
SentEvents == DOMAIN sent
NoEvent == 0    \* a return from a checkout handles none
NotThere == [step |-> "idle", kind |-> "completed", sub |-> NoSubscription, event |-> NoEvent,
             current |-> NoSubscription, wasFree |-> FALSE]

\* An organization that never paid, or one with a running subscription.
BillingInit ==
    /\ \E s \in Subscriptions \cup {NoSubscription} :
         /\ remote = [t \in Subscriptions |-> IF t = s THEN "active" ELSE "none"]
         /\ organization = [plan |-> IF s = NoSubscription THEN "FREE" ELSE "PAID",
                            subscription |-> s]
         /\ promoted = (s # NoSubscription)
    /\ sent = <<>>
    /\ answered = {} /\ claims = {} /\ applied = {} /\ excused = {}
    /\ delivery = [d \in Deliveries |-> NotThere]
    /\ syncs = 0 /\ billingFaults = 0

At(d, step) == delivery[d].step = step
\* Requests past their claim.
Handling == {d \in Deliveries : delivery[d].step \notin {"idle", "claim"}}
Overlaps == IF Handling # {} THEN {"overlap"} ELSE {}

-------------------------------------------------------------------------------
(* Stripe.                                                                 *)

Send(kind, s) == sent' = Append(sent, [kind |-> kind, sub |-> s])

\* A customer has one subscription at a time.
Subscribe(s) ==
    /\ remote[s] = "none" /\ \A t \in Subscriptions : remote[t] # "active"
    /\ remote' = [remote EXCEPT ![s] = "active"]
    /\ Send("completed", s)

Renew(s) ==
    /\ remote[s] = "active"
    /\ \E kind \in {"updated", "failed", "succeeded"} : Send(kind, s)
    /\ UNCHANGED remote

Cancel(s) ==
    /\ remote[s] = "active"
    /\ remote' = [remote EXCEPT ![s] = "canceled"]
    /\ Send("deleted", s)

StripeStep ==
    /\ Len(sent) < MaxEvents
    /\ \E s \in Subscriptions : Subscribe(s) \/ Renew(s) \/ Cancel(s)
    /\ UNCHANGED <<recordVars, organization, promoted, delivery, syncs, billingFaults, excused>>

-------------------------------------------------------------------------------
(* A request.                                                              *)

Proceed(d, step) == delivery' = [delivery EXCEPT ![d].step = step]

\* The organization is read, and with it its subscription.
Deliver(d, e) ==
    /\ At(d, "idle") /\ e \notin answered
    /\ delivery' = [delivery EXCEPT ![d] =
         [NotThere EXCEPT !.step = "claim", !.kind = sent[e].kind, !.sub = sent[e].sub,
                          !.event = e, !.current = organization.subscription]]
    /\ UNCHANGED <<stripeVars, recordVars, organization, promoted, syncs, billingFaults, excused>>

\* syncCheckoutSession: the owner returns from the checkout of a subscription.
ReturnFromCheckout(d, s) ==
    /\ At(d, "idle") /\ syncs < MaxSyncs
    /\ remote[s] # "none"
    /\ syncs' = syncs + 1
    /\ delivery' = [delivery EXCEPT ![d] = [NotThere EXCEPT !.step = "retrieve", !.sub = s]]
    /\ excused' = excused \cup Overlaps
    /\ UNCHANGED <<stripeVars, recordVars, organization, promoted, billingFaults>>

Retrieves(d) == delivery[d].kind \in {"completed", "updated", "succeeded"}

\* The insert of the claim: whose event has one already is answered at once.
Claim(d) ==
    /\ At(d, "claim")
    /\ \/ /\ delivery[d].event \in claims
          /\ answered' = answered \cup {delivery[d].event}
          /\ delivery' = [delivery EXCEPT ![d] = NotThere]
          /\ UNCHANGED <<claims, excused>>
       \/ /\ delivery[d].event \notin claims
          /\ claims' = claims \cup {delivery[d].event}
          /\ Proceed(d, IF Retrieves(d) THEN "retrieve" ELSE "write")
          /\ excused' = excused \cup Overlaps
          /\ UNCHANGED answered
    /\ UNCHANGED <<stripeVars, organization, promoted, syncs, billingFaults, applied>>

\* Mutant: the event's snapshot is trusted.
TrustsSnapshot(d) == delivery[d].current \notin {NoSubscription, delivery[d].sub}
\* An update of a subscription that is over, or of one the organization has not.
IsStale(d) ==
    \/ remote[delivery[d].sub] = "canceled"
    \/ delivery[d].current \notin {NoSubscription, delivery[d].sub}

\* A stale update is only recorded.  Other events are not checked: one of a subscription
\* that is over brings its plan back.
RetrieveSubscription(d) ==
    /\ At(d, "retrieve")
    /\ Proceed(d, IF delivery[d].kind = "updated" /\ IsStale(d) THEN "record" ELSE "read")
    /\ excused' = IF delivery[d].kind # "updated" /\ remote[delivery[d].sub] = "canceled"
                  THEN excused \cup {"late"} ELSE excused
    /\ UNCHANGED <<stripeVars, recordVars, organization, promoted, syncs, billingFaults>>

\* syncPlanFromSubscription: the plan of before ...
ReadPlan(d) ==
    /\ At(d, "read")
    /\ delivery' = [delivery EXCEPT ![d].step = "write",
                                    ![d].wasFree = organization.plan = "FREE"]
    /\ UNCHANGED <<stripeVars, recordVars, organization, promoted, syncs, billingFaults, excused>>

\* ... and the new one, by the price the subscription has, or had: its status is not looked
\* at.  A deletion is applied whatever subscription the organization has by now.
WritePlan(d) ==
    /\ At(d, "write")
    /\ organization' = CASE Retrieves(d) -> [plan |-> "PAID", subscription |-> delivery[d].sub]
                         [] delivery[d].kind = "deleted" ->
                              [plan |-> "FREE", subscription |-> NoSubscription]
                         [] delivery[d].kind = "failed" -> organization
    /\ Proceed(d, IF delivery[d].wasFree THEN "promote" ELSE "record")
    /\ excused' = IF /\ delivery[d].kind = "deleted"
                     /\ organization.subscription \notin {NoSubscription, delivery[d].sub}
                  THEN excused \cup {"foreign"} ELSE excused
    /\ UNCHANGED <<stripeVars, recordVars, promoted, syncs, billingFaults>>

\* The owner's membership, and the transaction that moves the owner's resources.
PromoteOwner(d) ==
    /\ At(d, "promote")
    /\ promoted' = TRUE
    /\ Proceed(d, "record")
    /\ UNCHANGED <<stripeVars, recordVars, organization, syncs, billingFaults, excused>>

\* createSubscriptionEventRecord fills the claim in, or makes it anew.
RecordOutcome(d) ==
    /\ At(d, "record")
    /\ claims' = (claims \cup {delivery[d].event}) \ {NoEvent}
    /\ applied' = (applied \cup {delivery[d].event}) \ {NoEvent}
    /\ Proceed(d, "answer")
    /\ UNCHANGED <<stripeVars, answered, organization, promoted, syncs, billingFaults, excused>>

\* The caches are dropped, mail is sent; 200.
Answer(d) ==
    /\ At(d, "answer")
    /\ answered' = (answered \cup {delivery[d].event}) \ {NoEvent}
    /\ delivery' = [delivery EXCEPT ![d] = NotThere]
    /\ UNCHANGED <<stripeVars, claims, applied, organization, promoted, syncs, billingFaults,
                   excused>>

-------------------------------------------------------------------------------
(* Failures.                                                               *)

Fault == billingFaults < MaxBillingFaults /\ billingFaults' = billingFaults + 1

\* Nobody will promote the owner once the plan is paid: who comes again finds it so.
Halfway(d) == IF At(d, "promote") THEN {"halfway"} ELSE {}

\* Any await throws.
DeliveryFails(d) ==
    /\ delivery[d].step \notin {"idle", "release"}
    /\ Fault
    /\ IF d \in Handling /\ delivery[d].event # NoEvent THEN Proceed(d, "release")
       ELSE delivery' = [delivery EXCEPT ![d] = NotThere]
    /\ excused' = excused \cup Halfway(d)
    /\ UNCHANGED <<stripeVars, recordVars, organization, promoted, syncs>>

\* The claim is deleted, or the delete fails and its error is dropped; 500.
ReleaseClaim(d) ==
    /\ At(d, "release")
    /\ \/ claims' = claims \ {delivery[d].event} /\ UNCHANGED billingFaults
       \/ Fault /\ UNCHANGED claims
    /\ excused' = IF delivery[d].event \in (answered \cup claims') \ applied
                  THEN excused \cup {"stranded"} ELSE excused
    /\ delivery' = [delivery EXCEPT ![d] = NotThere]
    /\ UNCHANGED <<stripeVars, answered, applied, organization, promoted, syncs>>

\* The process dies: a claim stays.
CrashDelivery(d) ==
    /\ ~At(d, "idle")
    /\ Fault
    /\ excused' = excused \cup Halfway(d)
                  \cup (IF d \in Handling /\ delivery[d].event \notin applied \cup {NoEvent}
                        THEN {"stranded"} ELSE {})
    /\ delivery' = [delivery EXCEPT ![d] = NotThere]
    /\ UNCHANGED <<stripeVars, recordVars, organization, promoted, syncs>>

-------------------------------------------------------------------------------
DeliveryStep(d) ==
    \/ \E e \in SentEvents : Deliver(d, e)
    \/ \E s \in Subscriptions : ReturnFromCheckout(d, s)
    \/ Claim(d) \/ RetrieveSubscription(d) \/ ReadPlan(d) \/ WritePlan(d)
    \/ PromoteOwner(d) \/ RecordOutcome(d) \/ Answer(d)
    \/ DeliveryFails(d) \/ ReleaseClaim(d) \/ CrashDelivery(d)

BillingNext == StripeStep \/ \E d \in Deliveries : DeliveryStep(d)

BillingSpec == BillingInit /\ [][BillingNext]_billingVars

-------------------------------------------------------------------------------
(* Properties.                                                             *)

\* The types of the variables.
BillingTypeOK ==
    /\ remote \in [Subscriptions -> {"none", "active", "canceled"}]
    /\ sent \in Seq([kind : Kinds, sub : Subscriptions]) /\ Len(sent) <= MaxEvents
    /\ answered \subseteq SentEvents /\ claims \subseteq SentEvents /\ applied \subseteq SentEvents
    /\ organization \in [plan : {"FREE", "PAID"}, subscription : Subscriptions \cup {NoSubscription}]
    /\ promoted \in BOOLEAN
    /\ delivery \in [Deliveries ->
         [step : {"idle", "claim", "retrieve", "read", "write", "promote", "record", "answer",
                  "release"},
          kind : Kinds, sub : Subscriptions \cup {NoSubscription}, event : 0..MaxEvents,
          current : Subscriptions \cup {NoSubscription}, wasFree : BOOLEAN]]
    /\ syncs \in 0..MaxSyncs /\ billingFaults \in 0..MaxBillingFaults
    /\ excused \subseteq {"overlap", "late", "foreign", "halfway", "stranded"}

\* "Release the claim so Stripe's retry can process the event again" (852): what Stripe
\* holds for delivered was dealt with, or a request still does, unless a request died
\* with its claim or failed after a second delivery was told that the first has it.
AnsweredIsApplied ==
    "stranded" \notin excused =>
        \A e \in answered \ applied : \E d \in Handling : delivery[d].event = e

Settled == answered = SentEvents /\ Handling = {}

\* "A late/retried 'updated' delivered after 'deleted'" (899-901), and every other order:
\* once all events are answered the plan is the one Stripe has, if requests came one at a
\* time, no payment or checkout after its subscription's end and no end after the next
\* subscription's begin.
PlanSettles ==
    Settled /\ excused \cap {"overlap", "late", "foreign", "stranded"} = {} =>
        (organization.plan = "PAID" <=> \E s \in Subscriptions : remote[s] = "active")

\* Whoever has a paid plan has been made its administrator, whichever of the requests
\* came first, unless one stopped between the two.
PaidIsPromoted ==
    Handling = {} /\ "halfway" \notin excused => (organization.plan = "PAID" => promoted)

\* Every event is dealt with, and leaves the organization as Stripe has it.
EventsSettle == BillingTypeOK /\ AnsweredIsApplied /\ PlanSettles /\ PaidIsPromoted

===============================================================================
