---------------------------- MODULE DependencyVisit ----------------------------
(***************************************************************************)
(* _validate_dependencies (opsforge/healthctl/healthctl.py): names are     *)
(* checked first, then a recursive depth-first search with two sets,       *)
(* visiting (the checks on the call stack) and visited (finished checks).  *)
(* The call stack is a sequence; todo[c] holds the dependencies that the   *)
(* activation of visit(c) has not called visit on yet.  The order in which *)
(* the loops take names does not matter to the answer, so it is left free. *)
(***************************************************************************)
EXTENDS CheckGraph, Integers, Sequences

CONSTANTS
  Checks,   \* the names of the checks in the configuration file
  Unknown,  \* names that depends_on may mention and no check has
  Graphs    \* the dependency graphs the file may contain

ASSUME GraphsAssumption ==
  /\ Graphs \subseteq [Checks -> SUBSET (Checks \cup Unknown)]
  /\ Checks \cap Unknown = {}

VARIABLES
  dependsOn,  \* check name -> its depends_on, as parsed
  verdict,    \* "names" while names are checked, "visit" during the search,
              \* then "accepted" or "rejected"
  roots,      \* names the outer loop has not visited yet
  stack,      \* the activations of visit, innermost last
  todo,       \* per check, the dependencies its activation still has to visit
  visiting,
  visited

vars == <<dependsOn, verdict, roots, stack, todo, visiting, visited>>

Init ==
  /\ dependsOn \in Graphs
  /\ verdict = "names"
  /\ roots = Checks
  /\ stack = << >>
  /\ todo = [c \in Checks |-> {}]
  /\ visiting = {}
  /\ visited = {}

\* The first loop: unknown and self dependencies.
CheckNames ==
  /\ verdict = "names"
  /\ verdict' = IF InvalidDependency(Checks, dependsOn) THEN "rejected" ELSE "visit"
  /\ UNCHANGED <<dependsOn, roots, stack, todo, visiting, visited>>

Top == stack[Len(stack)]

\* Mutant: a check on the call stack is returned from like a finished one.
VisitLeniently(c, taken) ==
  /\ UNCHANGED <<dependsOn, visited, verdict>>
  /\ IF c \in visiting \cup visited
       THEN todo' = taken /\ UNCHANGED <<stack, visiting>>
       ELSE /\ visiting' = visiting \cup {c}
            /\ stack' = Append(stack, c)
            /\ todo' = [taken EXCEPT ![c] = dependsOn[c]]

\* The body of visit(c) up to its loop: raise, return, or open an activation.
\* taken is todo after the caller's loop has taken c.
Visit(c, taken) ==
  /\ UNCHANGED <<dependsOn, visited>>
  /\ \/ /\ c \in visiting
        /\ verdict' = "rejected"
        /\ todo' = taken
        /\ UNCHANGED <<stack, visiting>>
     \/ /\ c \notin visiting
        /\ c \in visited
        /\ todo' = taken
        /\ UNCHANGED <<verdict, stack, visiting>>
     \/ /\ c \notin visiting \cup visited
        /\ visiting' = visiting \cup {c}
        /\ stack' = Append(stack, c)
        /\ todo' = [taken EXCEPT ![c] = dependsOn[c]]
        /\ UNCHANGED verdict

VisitRoot(c) ==
  /\ verdict = "visit"
  /\ stack = << >>
  /\ c \in roots
  /\ roots' = roots \ {c}
  /\ Visit(c, todo)

\* Mutant: the loop of the activation does not move on.
VisitSameAgain(c) ==
  /\ verdict = "visit"
  /\ stack # << >>
  /\ c \in todo[Top]
  /\ Visit(c, todo)
  /\ UNCHANGED roots

VisitDependency(c) ==
  /\ verdict = "visit"
  /\ stack # << >>
  /\ c \in todo[Top]
  /\ Visit(c, [todo EXCEPT ![Top] = @ \ {c}])
  /\ UNCHANGED roots

\* Mutant: no visiting.remove.
LeaveMarked ==
  /\ verdict = "visit"
  /\ stack # << >>
  /\ todo[Top] = {}
  /\ visited' = visited \cup {Top}
  /\ stack' = SubSeq(stack, 1, Len(stack) - 1)
  /\ UNCHANGED <<dependsOn, verdict, roots, todo, visiting>>

\* The loop of the innermost activation is over.
Leave ==
  /\ verdict = "visit"
  /\ stack # << >>
  /\ todo[Top] = {}
  /\ visiting' = visiting \ {Top}
  /\ visited' = visited \cup {Top}
  /\ stack' = SubSeq(stack, 1, Len(stack) - 1)
  /\ UNCHANGED <<dependsOn, verdict, roots, todo>>

Accept ==
  /\ verdict = "visit"
  /\ stack = << >>
  /\ roots = {}
  /\ verdict' = "accepted"
  /\ UNCHANGED <<dependsOn, roots, stack, todo, visiting, visited>>

Next ==
  \/ CheckNames
  \/ \E c \in Checks : VisitRoot(c)
  \/ \E c \in Checks : VisitDependency(c)
  \/ Leave
  \/ Accept

Spec == Init /\ [][Next]_vars /\ WF_vars(Next)

-------------------------------------------------------------------------------
\* The types, and what visiting is for: it holds the checks on the call stack.
TypeOK ==
  /\ dependsOn \in [Checks -> SUBSET (Checks \cup Unknown)]
  /\ verdict \in {"names", "visit", "accepted", "rejected"}
  /\ roots \in SUBSET Checks
  /\ stack \in Seq(Checks)
  /\ todo \in [Checks -> SUBSET (Checks \cup Unknown)]
  /\ visiting = {stack[i] : i \in DOMAIN stack}
  /\ visited \in SUBSET Checks

\* A configuration the search accepts has no unknown, self or cyclic
\* dependency: nothing the scheduler could wait for forever gets past it.
AcceptIsSound ==
  verdict = "accepted" => AcceptedGraph(Checks, dependsOn)

\* The search rejects no configuration whose dependencies are in order: a
\* diamond, where a finished check is met again, is not mistaken for a cycle.
RejectIsSound ==
  verdict = "rejected" => ~AcceptedGraph(Checks, dependsOn)

\* The recursion of visit ends with an answer whatever the graph: a revisited
\* check is returned from or rejected, never descended into again.
SearchEnds == <>(verdict \in {"accepted", "rejected"})

-------------------------------------------------------------------------------
(* The inductive invariant.                                                *)

\* The stack is a path of the graph and meets no check twice.
StackIsPath ==
  /\ \A i, j \in DOMAIN stack : stack[i] = stack[j] => i = j
  /\ \A i \in DOMAIN stack :
       i + 1 \in DOMAIN stack => stack[i + 1] \in dependsOn[stack[i]]

\* What the loop of the activation at depth i has taken is finished, except
\* for the one dependency it is in.
LoopsHaveFinished ==
  verdict # "rejected" => \A i \in DOMAIN stack :
    /\ todo[stack[i]] \subseteq dependsOn[stack[i]]
    /\ \A d \in dependsOn[stack[i]] \ todo[stack[i]] :
         d \in visited \/ (i + 1 \in DOMAIN stack /\ d = stack[i + 1])

\* The finished part of the graph is closed and has no cycle.
FinishedPart ==
  /\ \A c \in visited : dependsOn[c] \subseteq visited
  /\ WellFounded(visited, dependsOn)
  /\ visited \cap visiting = {}
  /\ Checks \subseteq roots \cup visiting \cup visited

IInv ==
  /\ TypeOK
  /\ verdict \in {"visit", "accepted"} => ~InvalidDependency(Checks, dependsOn)
  /\ StackIsPath
  /\ LoopsHaveFinished
  /\ FinishedPart
  /\ AcceptIsSound
  /\ RejectIsSound
===============================================================================
