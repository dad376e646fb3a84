---------------------------- MODULE MCPlanSession ----------------------------
(* PlanSession on two days, of which growth and history decide the overdue. *)
EXTENDS PlanSession

\* The own history is steeper than the demo's, and grown demand steeper still;
\* a day somebody fixed is never overdue for the rest.
MCLate(basis) ==
    {b \in Bucket :
        /\ basis.hist # "none"
        /\ b \notin basis.firm
        /\ b = 1 \/ basis.hist = "own" \/ basis.rate > 0}
==============================================================================
