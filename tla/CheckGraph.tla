------------------------------ MODULE CheckGraph ------------------------------
(***************************************************************************)
(* What HealthCtl demands of the dependency graph of its checks before it  *)
(* runs any of them (opsforge/healthctl/healthctl.py).  A graph is a       *)
(* function dep from check names to the set of names each depends on.      *)
(* The depth-first search that decides acyclicity is module                *)
(* DependencyVisit; here is the condition it decides, in the form the      *)
(* scheduler's correctness needs.                                          *)
(***************************************************************************)

\* Some check depends on itself or on a name that no check has.
InvalidDependency(names, dep) ==
  \E c \in names : \E d \in dep[c] : d \notin names \/ d = c

\* Every group of checks has one that depends on no other check of the
\* group.  On a finite set of checks this is the absence of a cycle.
WellFounded(names, dep) ==
  \A group \in SUBSET names :
    group # {} => \E c \in group : dep[c] \cap group = {}

\* The graphs _validate_dependencies lets through.
AcceptedGraph(names, dep) ==
  ~InvalidDependency(names, dep) /\ WellFounded(names, dep)

\* --profile and --group pick a subset of the checks; main() refuses an empty
\* one, and one that leaves out a dependency of a check it keeps.
ClosedSelection(selected, dep) ==
  /\ selected # {}
  /\ \A c \in selected : dep[c] \subseteq selected
===============================================================================
