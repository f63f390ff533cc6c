----------------------------- MODULE MCSafeParts -----------------------------
(***************************************************************************)
(* Instances for TLC of smaller parts with safety properties only: exam    *)
(* entry while the start lock is kept, the takeover of a student's         *)
(* sockets, the changesets of an exam and the plan of an organization.     *)
(* They share no state, so each is explored alone: part says which, the    *)
(* others keep an initial state.                                           *)
(***************************************************************************)
EXTENDS SessionEntry, Takeover, ChangeSets, BillingEvents, TLC

VARIABLE part   \* it never changes

safeVars == <<part, entryVars, takeoverVars, editVars, billingVars>>

SafeInit ==
    /\ part \in {"entry", "takeover", "changesets", "billing"}
    /\ EntryInit /\ TakeoverInit /\ EditInit /\ BillingInit
    /\ part # "entry" => linked
    /\ part # "takeover" => gateway = "go"
    /\ part # "changesets" => proposal = <<Completed([kind |-> "add_section", index |-> 0], 1)>>
    /\ part # "billing" => organization.plan = "FREE"

SafeNext ==
    /\ UNCHANGED part
    /\ \/ part = "entry" /\ EntryNext /\ UNCHANGED <<takeoverVars, editVars, billingVars>>
       \/ part = "takeover" /\ TakeoverNext /\ UNCHANGED <<entryVars, editVars, billingVars>>
       \/ part = "changesets" /\ EditNext /\ UNCHANGED <<entryVars, takeoverVars, billingVars>>
       \/ part = "billing" /\ BillingNext /\ UNCHANGED <<entryVars, takeoverVars, editVars>>

SafeSpec == SafeInit /\ [][SafeNext]_safeVars

\* The requests of a part are interchangeable; the instance gives all parts the same two,
\* which are two of the sockets as well.
Interchangeable == Permutations(EntryRequests)

===============================================================================
