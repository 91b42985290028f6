------------------------------ MODULE MCScheduler ------------------------------
(***************************************************************************)
(* Small budgets for TLC: enough publications to replace an image, to      *)
(* withdraw it and to publish another, and one or two of everything else.  *)
(***************************************************************************)
EXTENDS Scheduler

BudgetOf(p, f, m, r) == [k \in Kinds |-> CASE k = "publish" -> p [] k = "fault" -> f
                                           [] k = "manual" -> m [] k = "restart" -> r]
MCBudgets == {BudgetOf(2, 0, 1, 0), BudgetOf(1, 1, 1, 0), BudgetOf(1, 1, 0, 1)}
PublishOnly == {BudgetOf(2, 0, 0, 0)}
ManualOnly == {BudgetOf(0, 0, 1, 0)}
================================================================================
