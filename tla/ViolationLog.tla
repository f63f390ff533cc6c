----------------------------- MODULE ViolationLog -----------------------------
(***************************************************************************)
(* What the gateway promises of the violations it accepts: each is written *)
(* or lost to a failed insert, none is invented or written twice, and once *)
(* the gateway has closed none is left behind, unless its shutdown gave up *)
(* waiting for the handlers.                                               *)
(***************************************************************************)
EXTENDS Naturals

VARIABLES
    pending,    \* violations accepted and not yet written or lost
    written,
    lost,
    abandoned,  \* the shutdown gave up on the handlers
    closed

logVars == <<pending, written, lost, abandoned, closed>>

Init ==
    /\ pending = 0 /\ written = 0 /\ lost = 0
    /\ abandoned = FALSE /\ closed = FALSE

Accept ==
    /\ closed => abandoned
    /\ pending' = pending + 1
    /\ UNCHANGED <<written, lost, abandoned, closed>>

Resolve ==
    /\ pending > 0
    /\ pending' = pending - 1
    /\ \/ written' = written + 1 /\ UNCHANGED lost
       \/ lost' = lost + 1 /\ UNCHANGED written
    /\ UNCHANGED <<abandoned, closed>>

GiveUp ==
    /\ ~closed
    /\ abandoned' = TRUE
    /\ UNCHANGED <<pending, written, lost, closed>>

Close ==
    /\ pending = 0 \/ abandoned
    /\ closed' = TRUE
    /\ UNCHANGED <<pending, written, lost, abandoned>>

Next == Accept \/ Resolve \/ GiveUp \/ Close

Safety == Init /\ [][Next]_logVars

Spec == Safety /\ WF_logVars(~abandoned /\ Resolve)

===============================================================================
