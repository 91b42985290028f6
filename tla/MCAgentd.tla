------------------------------- MODULE MCAgentd -------------------------------
(* Agentd with an update and a check that meet on one target, and an update of another. *)
EXTENDS Agentd

CONSTANTS r1, r2, r3, t1, t2

MCRequests == {r1, r2, r3}
MCTargets == {t1, t2}
MCKind == [r \in MCRequests |-> IF r = r2 THEN "check" ELSE "exec"]
MCTarget == [r \in MCRequests |-> IF r = r3 THEN t2 ELSE t1]
MCOutcomes == {"succeeded"}   \* no property tells the results of an update apart
================================================================================
