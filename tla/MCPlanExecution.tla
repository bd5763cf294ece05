--------------------------- MODULE MCPlanExecution ---------------------------
(* Values of the constants of PlanExecution for TLC.                        *)
EXTENDS PlanProperties

CONSTANTS t1, t2, t3

TwoTasks == {t1, t2}
ThreeTasks == {t1, t2, t3}

\* t1 and t2 share a wave; t3, which may be added late, waits for t1.
Peers == [t \in ThreeTasks |-> IF t = t3 THEN {t1} ELSE {}]
NoDeps == [t \in TwoTasks |-> {}]
OnlyT3 == {t3}
NoTask == {}
=============================================================================
