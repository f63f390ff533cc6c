------------------------------ MODULE MCCounters ------------------------------
(***************************************************************************)
(* Instances for TLC of what is kept in Redis and rebuilt or recorded in   *)
(* Postgres: the AI credits of a scope, the violations of a session and    *)
(* the presence of a student.  They share no state, so each is explored    *)
(* alone: part says which, the others keep an initial state.               *)
(***************************************************************************)
EXTENDS AiCredits, Violations, Presence, TLC

VARIABLE part   \* it never changes

countersVars == <<part, creditVars, violationVars, presenceVars>>

CountersInit ==
    /\ part \in {"credits", "violations", "presence"}
    /\ Init /\ ViolationInit /\ PresenceInit
    /\ part # "violations" => rebuildsBoth
    /\ part # "presence" => serial /\ ~oldRedis

CountersNext ==
    /\ UNCHANGED part
    /\ \/ part = "credits" /\ Next /\ UNCHANGED <<violationVars, presenceVars>>
       \/ part = "violations" /\ ViolationNext /\ UNCHANGED <<creditVars, presenceVars>>
       \/ part = "presence" /\ PresenceNext /\ UNCHANGED <<creditVars, violationVars>>

\* The types of the variables.
CountersTypeOK == CreditsTypeOK /\ ViolationTypeOK /\ PresenceTypeOK

CountersSpec == CountersInit /\ [][CountersNext]_countersVars

\* Requests are interchangeable, and so are events.
Interchangeable == Permutations(Requests) \cup Permutations(Events)

===============================================================================
