--------------------------- MODULE MCHealthSchedule ---------------------------
(* Instances of HealthSchedule: every acyclic graph over three checks.    *)
EXTENDS HealthSchedule

\* Every accepted graph over the checks, dependencies of later checks on
\* earlier ones and of earlier on later alike.
AllGraphs == {dep \in [Checks -> SUBSET Checks] : AcceptedGraph(Checks, dep)}

OneRetry == [c \in Checks |-> IF c = 1 THEN 1 ELSE 0]
MixedSeverity == [c \in Checks |-> IF c = 2 THEN "WARNING" ELSE "CRITICAL"]
===============================================================================
