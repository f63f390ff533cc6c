--------------------------- MODULE SessionLifecycle ---------------------------
(***************************************************************************)
(* What an exam session promises to students, teachers and the services    *)
(* that follow a submission, whatever the interleaving of requests, queue  *)
(* workers and crashes: it is live until it is completed or terminated, a  *)
(* completed session stays completed and is followed up at most once, and  *)
(* only a teacher brings a terminated one back.                            *)
(***************************************************************************)
EXTENDS Naturals

VARIABLES
    status,   \* ExamSession.status in Postgres
    effects   \* times the completion side effects were started

lifecycleVars == <<status, effects>>

Init ==
    /\ status = "IN_PROGRESS"
    /\ effects = 0

Complete ==
    /\ status = "IN_PROGRESS"
    /\ status' = "COMPLETED"
    /\ UNCHANGED effects

Terminate ==
    /\ status = "IN_PROGRESS"
    /\ status' = "TERMINATED"
    /\ UNCHANGED effects

Reopen ==
    /\ status = "TERMINATED"
    /\ status' = "IN_PROGRESS"
    /\ UNCHANGED effects

\* Streak, webhooks and certificate: at most once, and only when completed.
FollowUp ==
    /\ status = "COMPLETED"
    /\ effects = 0
    /\ effects' = 1
    /\ UNCHANGED status

Next == Complete \/ Terminate \/ Reopen \/ FollowUp

Spec == Init /\ [][Next]_lifecycleVars

===============================================================================
