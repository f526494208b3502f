------------------------------- MODULE DiskScan -------------------------------
(***************************************************************************)
(* scan, _scan_branch, list_directory and main of DiskHound                *)
(* (opsforge/diskhound/diskhound.py): a directory tree is walked entry by  *)
(* entry, under several budgets, while entries of it are moved, replaced   *)
(* and removed.                                                            *)
(*                                                                         *)
(* A path is a sequence of names.  An inode is of one kind and on one      *)
(* device; two paths of one file are hard links.  Every inode allocates    *)
(* one unit, unless its block count is unusable, so that a total is a      *)
(* number of inodes.  Sizes, ages, types and rankings are left out.        *)
(***************************************************************************)
EXTENDS Integers, Sequences, FiniteSets, SequencesExt

CONSTANTS
  Paths,        \* all paths, the target << >> included
  Trees,        \* initial trees: functions from paths to inodes, or 0
  Dirs,         \* the inodes that are directories
  Foreign,      \* the inodes on another device than the target
  Unusable,     \* the inodes with an unusable block count
  Remote,       \* the paths where a remote filesystem is mounted, if another device is
  ScanOptions,  \* records [depth, entries, cross, remote, excludes]
  MaxDirectoryEntries,
  Spare,        \* the inode of a directory that replaces another
  MaxChanges    \* bound: changes of the tree

\* A tree has its directories above what is in them, and each of them once.
DiskScanAssumption ==
  /\ IsFiniteSet(Paths) /\ Paths \subseteq Seq(Nat) /\ << >> \in Paths
  /\ \A p \in Paths \ {<< >>} : Front(p) \in Paths
  /\ \A t \in Trees :
       /\ t \in [Paths -> Nat] /\ t[<< >>] \in Dirs \union {0}
       /\ \A p \in Paths \ {<< >>} : t[p] # 0 => t[Front(p)] \in Dirs
       /\ \A p, q \in Paths : t[p] = t[q] /\ t[p] \in Dirs => p = q
  /\ Dirs \subseteq Nat \ {0} /\ Spare \in Dirs /\ 0 \notin Unusable
  /\ ScanOptions \subseteq
       [depth : Nat, entries : Nat, cross : BOOLEAN, remote : BOOLEAN, excludes : SUBSET Paths]
  /\ \A o \in ScanOptions : o.remote => o.cross    \* or the command is refused
  /\ MaxDirectoryEntries \in Nat

ExitOK == 0
ExitFinding == 1
ExitUsage == 2
ExitFailure == 3
ExitInterrupted == 130

VARIABLES
  tree,        \* inode at each path, or 0
  changes,     \* how often the tree changed
  options,
  pc,          \* where the tool is
  target,      \* the inode of the target, examined first
  mounts,      \* the remote mount points that the mount table named when it was read
  eligible,    \* immediate entries whose branch is still to be scanned
  pending,     \* stack of entries of the current branch
  current,     \* the entry whose directory comes next
  branch,      \* branch_inodes
  global,      \* global_inodes
  unique,      \* allocation of inodes observed for the first time
  visited,     \* visited_entries
  enumerated,  \* enumerated_entries
  limited,     \* entry_limit_reached
  failures,    \* entries or directories with an observation failure
  shallow,     \* depth_limited_directories
  unentered,   \* remote_mounts_not_entered
  capacity,    \* the capacity of the filesystem is known
  present,     \* history: entries that a directory had when it was listed
  listed,      \* history: inodes of the directories that were listed
  exit         \* the exit code, or -1

world == <<tree, changes>>
budgets == <<visited, enumerated, limited>>
found == <<branch, global, unique, shallow, unentered>>
history == <<present, listed>>
walk == <<eligible, pending, current>>
setup == <<options, target, mounts, capacity>>
vars == <<world, setup, walk, budgets, found, failures, history, pc, exit>>

Init ==
  /\ tree \in Trees /\ changes = 0
  /\ options \in ScanOptions
  /\ pc = "validate"
  /\ target = 0 /\ mounts = {} /\ capacity = TRUE
  /\ eligible = << >> /\ pending = << >> /\ current = << >>
  /\ branch = {} /\ global = {} /\ unique = 0
  /\ visited = 0 /\ enumerated = 0 /\ limited = FALSE
  /\ failures = {} /\ shallow = 0 /\ unentered = {}
  /\ present = {} /\ listed = {}
  /\ exit = -1

-------------------------------------------------------------------------------
(* The tree changes.                                                       *)

Parent(p) == Front(p)
Below(p) == {q \in Paths : IsPrefix(p, q)}
Children(p) == {q \in Paths \ {<< >>} : Parent(q) = p /\ tree[q] # 0}

Removed(p) == tree' = [q \in Paths |-> IF q \in Below(p) THEN 0 ELSE tree[q]]

\* Another directory takes the place of this one, with what it had in it.
Replaced(p) ==
  /\ tree[p] \in Dirs /\ \A q \in Paths : tree[q] # Spare
  /\ tree' = [tree EXCEPT ![p] = Spare]

FileMoved(p, q) ==
  /\ tree[p] \notin Dirs /\ tree[q] = 0
  /\ q # << >> /\ tree[Parent(q)] \in Dirs
  /\ tree' = [tree EXCEPT ![q] = tree[p], ![p] = 0]

TreeChanges ==
  /\ pc # "done" /\ changes < MaxChanges
  /\ changes' = changes + 1
  /\ \E p \in Paths :
       /\ tree[p] # 0
       /\ Removed(p) \/ Replaced(p) \/ \E q \in Paths : FileMoved(p, q)
  /\ UNCHANGED <<setup, walk, budgets, found, failures, history, pc, exit>>

-------------------------------------------------------------------------------
(* Steps of the tool.                                                      *)

Done(code) == pc' = "done" /\ exit' = code

\* The target is missing or no directory, or cannot be inspected.
ValidateTarget ==
  /\ pc = "validate"
  /\ \/ tree[<< >>] # 0 /\ target' = tree[<< >>] /\ pc' = "mounts" /\ UNCHANGED exit
     \/ tree[<< >>] = 0 /\ Done(ExitUsage) /\ UNCHANGED target
     \/ Done(ExitFailure) /\ UNCHANGED target
  /\ UNCHANGED <<world, options, mounts, capacity, walk, budgets, found, failures, history>>

\* The mount table is read once, for the whole scan.  An unreadable one is a
\* warning, but nothing is missing for it.
ReadMounts ==
  /\ pc = "mounts"
  /\ mounts' \in {{p \in Remote : tree[p] \in Foreign}, {}}
  /\ pc' = "list_target"
  /\ UNCHANGED <<world, options, target, capacity, walk, budgets, found, failures, history, exit>>

\* Remote mount points are not examined, and their inode stays unknown: what
\* is there now is not asked for, if the mount has gone since.
Entry(p) ==
  [path |-> p, inode |-> IF p \in mounts /\ ~options.remote THEN 0 ELSE tree[p]]

\* The entries in the order of their names: there is one such sequence.
Sorted(entries) ==
  {s \in [1..Cardinality(entries) -> entries] :
     \A i, j \in DOMAIN s : i < j => Last(s[i].path) < Last(s[j].path)}
Small(a, b) == IF a < b THEN a ELSE b

\* One enumeration.  The entries come in any order until a budget or the
\* directory's own limit is met, and each of them may fail to be examined.
Enumerate(p, entries, lost) ==
  LET children == Children(p)
      room == options.entries - enumerated
      crowded == Cardinality(children) > MaxDirectoryEntries /\ room > MaxDirectoryEntries
      count == Small(Cardinality(children), Small(room, MaxDirectoryEntries))
  IN \E taken \in SUBSET children :
       /\ Cardinality(taken) = count
       /\ lost \subseteq {q \in taken : Entry(q).inode # 0}
       /\ entries \in Sorted({Entry(q) : q \in taken \ lost})
       /\ enumerated' = enumerated + count + (IF crowded THEN 1 ELSE 0)
       /\ limited' = (limited \/ (Cardinality(children) > room /\ ~crowded))
       /\ failures' = failures \union lost \union (IF crowded THEN {p} ELSE {})
       /\ present' = present \union {[path |-> q, inode |-> tree[q]] : q \in children}
       /\ listed' = listed \union {tree[p]}

Sublists(p) == UNION {Sorted(s) : s \in SUBSET {Entry(q) : q \in Children(p)}}

ListTarget ==
  /\ pc = "list_target"
  /\ \/ Done(ExitFailure) /\ UNCHANGED <<walk, budgets, failures, history>>
     \/ /\ tree[<< >>] = target
        /\ \E entries \in Sublists(<< >>), lost \in SUBSET Children(<< >>) :
             Enumerate(<< >>, entries, lost) /\ eligible' = entries
        /\ pc' = "capacity"
        /\ UNCHANGED <<pending, current, visited, exit>>
  /\ UNCHANGED <<world, setup, found>>

Usable(inode) == IF inode \in Unusable THEN 0 ELSE 1

\* The target is opened again, for its capacity; then it is counted itself.
ReadCapacity ==
  /\ pc = "capacity"
  /\ \/ /\ tree[<< >>] \notin {0, target}
        /\ Done(ExitFailure)
        /\ UNCHANGED <<capacity, global, unique, failures>>
     \/ /\ capacity' \in (IF tree[<< >>] = target THEN BOOLEAN ELSE {FALSE})
        /\ global' = global \union {target}
        /\ unique' = Usable(target)
        /\ failures' = IF target \in Unusable THEN failures \union {<< >>} ELSE failures
        /\ pc' = "select"
        /\ UNCHANGED exit
  /\ UNCHANGED <<world, options, target, mounts, walk, budgets, branch, shallow, unentered, history>>

Excluded(p) == p \in options.excludes
Skipped(e) == ~(e.inode # 0 /\ (options.cross \/ e.inode \notin Foreign))
\* _skip_other_filesystem: mounts that were to be crossed are reported.
NotEntered(entries) == {e.path : e \in {x \in entries : x.inode = 0 /\ options.cross}}

SelectBranches ==
  /\ pc = "select"
  /\ LET kept == {e \in ToSet(eligible) : ~Excluded(e.path)}
     IN /\ eligible' \in Sorted({e \in kept : ~Skipped(e)})
        /\ unentered' = unentered \union NotEntered(kept)
  /\ pc' = "branch"
  /\ UNCHANGED <<world, setup, pending, current, budgets, branch, global, unique, shallow, failures, history, exit>>

NextBranch ==
  /\ pc = "branch"
  /\ IF eligible = << >> \/ visited >= options.entries
     THEN /\ limited' = (limited \/ eligible # << >>)
          /\ pc' = "report"
          /\ UNCHANGED <<eligible, pending, branch>>
     ELSE /\ pending' = <<Head(eligible)>> /\ eligible' = Tail(eligible)
          /\ branch' = {}
          /\ pc' = "visit"
          /\ UNCHANGED limited
  /\ UNCHANGED <<world, setup, current, visited, enumerated, global, unique, shallow, unentered, failures, history, exit>>

\* A branch ends when its stack is empty, or when the budget is used up.
EndBranch ==
  /\ pc = "visit" /\ (pending = << >> \/ visited >= options.entries)
  /\ limited' = (limited \/ pending # << >>)
  /\ pc' = "branch"
  /\ UNCHANGED <<world, setup, walk, visited, enumerated, found, failures, history, exit>>

\* Mutant: a link in another branch is counted again.
CountEverywhere(e) ==
  /\ branch' = branch \union {e.inode}
  /\ global' = global \union {e.inode}
  /\ unique' = unique + Usable(e.inode)
  /\ failures' = IF e.inode \in Unusable THEN failures \union {e.path} ELSE failures
  /\ current' = e
  /\ pc' = IF e.inode \notin Dirs THEN "visit"
           ELSE IF Len(e.path) >= options.depth THEN "peek" ELSE "list"

\* An entry is counted once per branch, and once in all.
Count(e) ==
  /\ branch' = branch \union {e.inode}
  /\ global' = global \union {e.inode}
  /\ unique' = IF e.inode \in global THEN unique ELSE unique + Usable(e.inode)
  /\ failures' = IF e.inode \in Unusable THEN failures \union {e.path} ELSE failures
  /\ current' = e
  /\ pc' = IF e.inode \notin Dirs THEN "visit"
           ELSE IF Len(e.path) >= options.depth THEN "peek" ELSE "list"

Visit ==
  /\ pc = "visit" /\ pending # << >> /\ visited < options.entries
  /\ visited' = visited + 1
  /\ pending' = Front(pending)
  /\ LET e == Last(pending)
     IN IF Excluded(e.path) \/ Skipped(e)
        THEN /\ unentered' = unentered \union (IF Excluded(e.path) THEN {} ELSE NotEntered({e}))
             /\ UNCHANGED <<branch, global, unique, failures, current, pc>>
        ELSE IF e.inode \in branch
        THEN UNCHANGED <<branch, global, unique, failures, current, pc, unentered>>
        ELSE Count(e) /\ UNCHANGED unentered
  /\ UNCHANGED <<world, setup, eligible, enumerated, limited, shallow, history, exit>>

\* Whether a directory at the depth limit has entries; not knowing counts as yes.
Peek ==
  /\ pc = "peek"
  /\ \/ shallow' = shallow + 1 /\ UNCHANGED listed
     \/ /\ tree[current.path] = current.inode /\ Children(current.path) = {}
        /\ listed' = listed \union {current.inode}
        /\ UNCHANGED shallow
  /\ pc' = "visit"
  /\ UNCHANGED <<world, setup, walk, budgets, branch, global, unique, unentered, failures, present, exit>>

\* Mutant: the opened directory's identity is not compared.
ExpectedAnything(e) == TRUE

ExpectedAt(e) == tree[e.path] = e.inode

\* The directory is opened by its path, and must be the one that was counted.
ListDirectory ==
  /\ pc = "list"
  /\ pc' = "visit"
  /\ \/ /\ enumerated >= options.entries
        /\ limited' = TRUE
        /\ UNCHANGED <<pending, enumerated, failures, history>>
     \/ /\ enumerated < options.entries
        /\ failures' = failures \union {current.path}
        /\ UNCHANGED <<pending, enumerated, limited, history>>
     \/ /\ enumerated < options.entries
        /\ tree[current.path] # 0 /\ ExpectedAt(current)
        /\ \E entries \in Sublists(current.path), lost \in SUBSET Children(current.path) :
             /\ Enumerate(current.path, entries, lost)
             /\ pending' = pending \o Reverse(entries)
  /\ UNCHANGED <<world, setup, eligible, current, visited, found, exit>>

\* ScanResult.incomplete and main; an output failure is a failure.
Incomplete == ~capacity \/ failures # {} \/ limited \/ shallow > 0 \/ unentered # {}

Report ==
  /\ pc = "report"
  /\ \/ Done(IF Incomplete THEN ExitFinding ELSE ExitOK)
     \/ Done(ExitFailure)
  /\ UNCHANGED <<world, setup, walk, budgets, found, failures, history>>

Interrupt ==
  /\ pc # "done"
  /\ Done(ExitInterrupted)
  /\ UNCHANGED <<world, setup, walk, budgets, found, failures, history>>

ToolStep ==
  \/ ValidateTarget \/ ReadMounts \/ ListTarget \/ ReadCapacity \/ SelectBranches
  \/ NextBranch \/ EndBranch \/ Visit \/ Peek \/ ListDirectory \/ Report

Next == TreeChanges \/ ToolStep \/ Interrupt

\* Each call returns: remote mounts are not touched unless asked for.
Spec == Init /\ [][Next]_vars /\ WF_vars(ToolStep)

-------------------------------------------------------------------------------
(* The view of ObserverContract.                                           *)

\* An entry is in scope unless it, or a directory above it, is excluded or,
\* other filesystems not being crossed, it is on one of them: the device tells,
\* and for a path that was a remote mount when the mount table was read, the
\* table, whatever is at that path later.
OnPath(p) == {q \in Paths : IsPrefix(q, p) /\ q # << >>}
InScope(e) ==
  /\ OnPath(e.path) \intersect options.excludes = {}
  /\ options.cross \/ (e.inode \notin Foreign /\ e.path \notin mounts)

\* An entry that a listed directory had was neither counted nor out of scope,
\* or a counted directory was not looked into, or the capacity is not known.
Gap ==
  \/ ~capacity
  \/ \E e \in present : InScope(e) /\ (e.inode \notin global \/ e.inode \in Unusable)
  \/ \E i \in global \intersect Dirs : i \notin listed

Useful == target \in global

-------------------------------------------------------------------------------
(* Properties.                                                             *)

\* A report without a reservation is exact: its total counts each inode once
\* that the listed directories had in scope, however many links it has, and
\* over a tree that did not change this is every inode in scope.  All three
\* budgets may end the scan, but none does so silently.
CompleteIsExact ==
  exit = ExitOK =>
    /\ unique = Cardinality({target} \union {e.inode : e \in {x \in present : InScope(x)}})
    /\ changes = 0 =>
         unique = Cardinality({tree[p] : p \in {q \in Paths : tree[q] # 0 /\
                                 \A r \in OnPath(q) : InScope([path |-> r, inode |-> tree[r]])}})

\* No directory is listed but those that were counted when they were met: a
\* directory that takes the place of another in between is not looked into.
ListsWhatItCounted == listed \subseteq global \union {target}
===============================================================================
