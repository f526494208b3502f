--------------------------- MODULE MCDependencyVisit ---------------------------
(* Every dependency graph over three checks and one unknown name.           *)
EXTENDS DependencyVisit

CONSTANTS c1, c2, c3, ghost

MCChecks == {c1, c2, c3}
MCUnknown == {ghost}
MCGraphs == [MCChecks -> SUBSET (MCChecks \cup MCUnknown)]
===============================================================================
