------------------------------ MODULE TreeCompare -----------------------------
(***************************************************************************)
(* collect_directory, compare_directories and main of ConfigDiff           *)
(* (opsforge/configdiff/configdiff.py) with --directory: the baseline is   *)
(* walked, then the current tree, entry by entry, while entries appear, go *)
(* and are replaced.                                                       *)
(*                                                                         *)
(* A node is a directory or a file of one content, so that a file that is  *)
(* written is another node; a file or link is read and verified in one     *)
(* step, for its reading fails if it changes meanwhile.  The read budget   *)
(* and the comparison of modes and owners are left out.                    *)
(***************************************************************************)
EXTENDS ExitStatus, Sequences, FiniteSets, SequencesExt

CONSTANTS
  Paths,        \* all relative paths, << >> included
  Trees,        \* what a tree may be: functions from paths to nodes, or 0
  FileNodes,    \* nodes that are files
  DirNodes,     \* nodes that are directories
  Denied,       \* nodes that may not be opened
  Foreign,      \* directories on another filesystem than the root
  TreeOptions,  \* records [files, depth]
  MaxEdits      \* bound: changes of the trees

\* Whatever is above an entry is a directory; names are ordered.
TreeAssumption ==
  /\ IsFiniteSet(Paths) /\ Paths \subseteq Seq(Nat) /\ << >> \in Paths
  /\ \A p \in Paths : \A n \in 0..Len(p) : SubSeq(p, 1, n) \in Paths
  /\ 0 \notin FileNodes \union DirNodes /\ FileNodes \intersect DirNodes = {}
  /\ \A t \in Trees :
       /\ t \in [Paths -> {0} \union FileNodes \union DirNodes]
       /\ \A p, q \in Paths : t[p] # 0 /\ IsPrefix(q, p) /\ q # p => t[q] \in DirNodes

Sides == {"baseline", "current"}

VARIABLES
  trees,       \* side -> node at each path, or 0
  touched,     \* history: the paths that changed
  edits,       \* how often a tree changed
  limits,      \* the options of the run
  pc,          \* where the tool is
  walking,     \* the tree it is in
  frames,      \* the stack of visit: records [path, todo]
  observed,    \* entries seen in this tree
  entries,     \* side -> pairs of a path and its node
  unreadable,  \* side -> paths that could not be examined
  unentered,   \* side -> directories that were not descended into
  found,       \* added, removed and changed paths
  verdict,
  exit

world == <<trees, touched, edits>>
seen == <<entries, unreadable, unentered>>
vars == <<world, limits, pc, walking, frames, observed, seen, found, verdict, exit>>

Nothing == [s \in Sides |-> {}]

Init ==
  /\ trees \in [Sides -> Trees] /\ touched = {} /\ edits = 0
  /\ limits \in TreeOptions
  /\ pc = "root" /\ walking = "baseline"
  /\ frames = << >> /\ observed = 0
  /\ entries = Nothing /\ unreadable = Nothing /\ unentered = Nothing
  /\ found = [added |-> {}, removed |-> {}, changed |-> {}]
  /\ verdict = "none" /\ exit = -1

Below(p) == {q \in Paths : IsPrefix(p, q)}
Children(s, p) == {q \in Paths \ {<< >>} : Front(q) = p /\ trees[s][q] # 0}

\* A file is written or replaced, an entry removed with what is below it, a
\* file created.
TreeChanges ==
  /\ pc \notin {"compare", "report", "done"} /\ edits < MaxEdits
  /\ edits' = edits + 1
  /\ \E s \in Sides, p \in Paths \ {<< >>} :
       \/ /\ trees[s][p] # 0
          /\ trees' = [trees EXCEPT ![s] = [q \in Paths |-> IF q \in Below(p) THEN 0 ELSE @[q]]]
          /\ touched' = touched \union Below(p)
       \/ /\ trees[s][p] \notin DirNodes /\ trees[s][Front(p)] \in DirNodes
          /\ \E n \in FileNodes : n # trees[s][p] /\ trees' = [trees EXCEPT ![s][p] = n]
          /\ touched' = touched \union {p}
  /\ UNCHANGED <<limits, pc, walking, frames, observed, seen, found, verdict, exit>>

-------------------------------------------------------------------------------
Done(code) == pc' = "done" /\ exit' = code
Here(p) == trees[walking][p]

\* The children in the order of their names: there is one such sequence.
Sorted(examined) ==
  {s \in [1..Cardinality(examined) -> examined] :
     \A i, j \in DOMAIN s : i < j => Last(s[i].path) < Last(s[j].path)}

\* visit: every child is counted and examined before the first is looked into;
\* one that cannot be examined is unreadable, and one too many ends the run.
ListInto(p, rest) ==
  LET children == Children(walking, p)
  IN IF observed + Cardinality(children) > limits.files
     THEN Done(ExitFailure) /\ UNCHANGED <<frames, observed, unreadable>>
     ELSE \E lost \in SUBSET children :
          \E todo \in Sorted({[path |-> q, node |-> Here(q)] : q \in children \ lost}) :
            /\ frames' = Append(rest, [path |-> p, todo |-> todo])
            /\ observed' = observed + Cardinality(children)
            /\ unreadable' = [unreadable EXCEPT ![walking] = @ \union lost]
            /\ pc' = "walk" /\ UNCHANGED exit

\* The root is no directory, may not be opened, or cannot be observed.
OpenRoot ==
  /\ pc = "root"
  /\ \/ Here(<< >>) \in DirNodes \ Denied /\ ListInto(<< >>, << >>)
     \/ /\ \/ Here(<< >>) \notin DirNodes \ Denied /\ Done(ExitUsage)
           \/ Done(ExitFailure)
        /\ UNCHANGED <<frames, observed, unreadable>>
  /\ UNCHANGED <<world, limits, walking, entries, unentered, found, verdict>>

Frame == Last(frames)
Child == Head(Frame.todo)
Rest == Append(Front(frames), [Frame EXCEPT !.todo = Tail(@)])
Inspecting == pc = "walk" /\ frames # << >> /\ Frame.todo # << >>

Unread(p) == unreadable' = [unreadable EXCEPT ![walking] = @ \union {p}]
Entered(e) == entries' = [entries EXCEPT ![walking] = @ \union {e}]

\* What is at the path now may not be opened, and is of the kind that was seen.
Refused ==
  /\ Here(Child.path) \in Denied
  /\ Here(Child.path) \in DirNodes <=> Child.node \in DirNodes

\* _unreadable_reason: a child that has gone or is refused is left out; the
\* entry of a directory stays.  One that has become another, or that fails in
\* another way, ends the run.
InspectFails ==
  /\ Inspecting /\ Child.node \notin Foreign
  /\ \/ /\ Here(Child.path) = 0 \/ Refused
        /\ frames' = Rest /\ Unread(Child.path)
        /\ IF Child.node \in DirNodes THEN Entered(Child) ELSE UNCHANGED entries
        /\ UNCHANGED <<pc, exit>>
     \/ Done(ExitFailure) /\ UNCHANGED <<frames, entries, unreadable>>
  /\ UNCHANGED <<world, limits, walking, observed, unentered, found, verdict>>

InspectFile ==
  /\ Inspecting /\ Child.node \in FileNodes \ Denied /\ Here(Child.path) = Child.node
  /\ Entered(Child) /\ frames' = Rest
  /\ UNCHANGED <<world, limits, pc, walking, observed, unreadable, unentered, found, verdict, exit>>

Shallow(p) == Len(p) > limits.depth

\* Directories on another filesystem are not opened; those at the depth limit
\* are, to see whether there is anything in them.
InspectUnentered ==
  /\ Inspecting /\ Child.node \in DirNodes
  /\ \/ Child.node \in Foreign
     \/ Shallow(Child.path) /\ Child.node \notin Denied /\ Here(Child.path) = Child.node
  /\ Entered(Child) /\ frames' = Rest
  /\ unentered' = IF Child.node \in Foreign \/ Children(walking, Child.path) # {}
                  THEN [unentered EXCEPT ![walking] = @ \union {Child.path}] ELSE unentered
  /\ UNCHANGED <<world, limits, pc, walking, observed, unreadable, found, verdict, exit>>

Descend ==
  /\ Inspecting /\ Child.node \in DirNodes \ (Foreign \union Denied)
  /\ ~Shallow(Child.path) /\ Here(Child.path) = Child.node
  /\ Entered(Child)
  /\ ListInto(Child.path, Rest)
  /\ UNCHANGED <<world, limits, walking, unentered, found, verdict>>

Ascend ==
  /\ pc = "walk" /\ frames # << >> /\ Frame.todo = << >>
  /\ frames' = Front(frames)
  /\ UNCHANGED <<world, limits, pc, walking, observed, seen, found, verdict, exit>>

EndWalk ==
  /\ pc = "walk" /\ frames = << >>
  /\ observed' = 0
  /\ IF walking = "baseline" THEN walking' = "current" /\ pc' = "root"
     ELSE pc' = "compare" /\ UNCHANGED walking
  /\ UNCHANGED <<world, limits, frames, seen, found, verdict, exit>>

-------------------------------------------------------------------------------
(* compare_directories and the exit of main.                               *)

Known(s) == {e.path : e \in entries[s]}
NodeOf(s, p) == (CHOOSE e \in entries[s] : e.path = p).node

\* Mutant: only the paths themselves are left out, not what is below them.
UnexaminedAlone(p) == p \in unreadable["baseline"] \union unreadable["current"]

Unexamined(p) == \E q \in unreadable["baseline"] \union unreadable["current"] : IsPrefix(q, p)

\* Directories are equal to each other, whatever is in them.
Differ(m, n) == m # n /\ ~(m \in DirNodes /\ n \in DirNodes)

Drift(f) == f.added \union f.removed \union f.changed # {}

\* Mutant: what was not entered is forgotten.
IncompleteIfUnreadable == \E s \in Sides : unreadable[s] # {}

Incomplete == \E s \in Sides : unreadable[s] \union unentered[s] # {}

Compare ==
  /\ pc = "compare"
  /\ found' = [added |-> {p \in Known("current") \ Known("baseline") : ~Unexamined(p)},
               removed |-> {p \in Known("baseline") \ Known("current") : ~Unexamined(p)},
               changed |-> {p \in Known("baseline") \intersect Known("current") :
                              Differ(NodeOf("baseline", p), NodeOf("current", p))}]
  /\ verdict' = IF Drift(found') THEN "decided" ELSE IF Incomplete THEN "incomplete" ELSE "otherwise"
  /\ pc' = "report"
  /\ UNCHANGED <<world, limits, walking, frames, observed, seen, exit>>

Report ==
  /\ pc = "report"
  /\ \/ Done(CASE verdict = "decided" -> ExitFinding [] verdict = "incomplete" -> ExitFailure [] OTHER -> ExitOK)
     \/ Done(ExitFailure)
  /\ UNCHANGED <<world, limits, walking, frames, observed, seen, found, verdict>>

Interrupt ==
  /\ pc # "done"
  /\ Done(ExitInterrupted)
  /\ UNCHANGED <<world, limits, walking, frames, observed, seen, found, verdict>>

ToolStep ==
  \/ OpenRoot \/ InspectFails \/ InspectFile \/ InspectUnentered \/ Descend \/ Ascend
  \/ EndWalk \/ Compare \/ Report

Next == TreeChanges \/ ToolStep \/ Interrupt

-------------------------------------------------------------------------------
(* The view of VerdictContract, once both trees were walked: a difference  *)
(* is one of what both walks could see.                                    *)

Walked == pc \in {"compare", "report"} \/ verdict # "none"
Looked(s, p) == \A q \in unreadable[s] : ~IsPrefix(q, p)
Decisive ==
  /\ Walked
  /\ \E p \in Known("baseline") \union Known("current") :
       IF p \in Known("baseline") \intersect Known("current")
       THEN Differ(NodeOf("baseline", p), NodeOf("current", p))
       ELSE Looked("baseline", p) /\ Looked("current", p)
Gap == Walked /\ \E s \in Sides : unreadable[s] # {} \/ unentered[s] # {}

-------------------------------------------------------------------------------
(* Properties.                                                             *)

\* The paths that one of the walks did not go below.
Cut(s, p) == \E q \in unentered[s] : IsPrefix(q, p) /\ q # p

\* Drift is real: of the entries that did not change during the run, none is
\* reported as added or removed that was in the other tree, whatever could not
\* be read there, and none as changed that is the same.  Where a walk stopped
\* at another filesystem it says nothing.
DriftIsReal ==
  verdict # "none" =>
    \A p \in Paths \ touched :
      /\ p \in found.added /\ ~Cut("baseline", p) => trees["baseline"][p] = 0
      /\ p \in found.removed /\ ~Cut("current", p) => trees["current"][p] = 0
      /\ p \in found.changed => Differ(trees["baseline"][p], trees["current"][p])

\* UNCHANGED is complete: of the entries that did not change during the run
\* every one has been compared and is the same in both trees.
UnchangedIsComplete ==
  exit = ExitOK =>
    \A p \in Paths : (\A q \in touched : ~IsPrefix(q, p) /\ ~IsPrefix(p, q)) =>
      /\ trees["baseline"][p] = 0 <=> trees["current"][p] = 0
      /\ ~Differ(trees["baseline"][p], trees["current"][p])

\* What a README and a test say: what was not examined is not reported as added
\* or removed, wherever a walk stopped.
DriftIsEstablished ==
  verdict # "none" =>
    \A p \in Paths \ touched :
      /\ p \in found.added => trees["baseline"][p] = 0
      /\ p \in found.removed => trees["current"][p] = 0
===============================================================================
