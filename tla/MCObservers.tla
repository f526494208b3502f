----------------------------- MODULE MCObservers ------------------------------
(***************************************************************************)
(* Module Observers on small instances: every short text of six symbols,   *)
(* some trees of seven paths, two interfaces and three processes.          *)
(***************************************************************************)
EXTENDS Observers, SequencesExt, TLC

\* LogLines
CONSTANT InputLength
MCInputs == BoundedSeq({"x", "o", "t", "n", "r", "0"}, InputLength)
MCLineOptions ==
  {[window |-> FALSE, include |-> {}, exclude |-> {}],
   [window |-> TRUE, include |-> {}, exclude |-> {}],
   [window |-> FALSE, include |-> {"x"}, exclude |-> {}],
   [window |-> FALSE, include |-> {}, exclude |-> {"x"}]}
MCStores == {<< >>, <<"x">> :> 1}
MCSignature == <<"o", "x">>

\* DiskScan: inodes 1 (the target), 2 and 4 are directories, 5 and 6 files, 7
\* is a directory on another device, and 8 replaces a directory.
MCPaths == {<< >>, <<1>>, <<2>>, <<1, 1>>, <<1, 2>>, <<2, 1>>, <<1, 1, 1>>}
MCTrees ==
  {t \in [MCPaths -> {0, 1, 2, 4, 5, 6, 7}] :
     /\ t[<< >>] = 1 /\ t[<<1>>] = 2
     /\ t[<<2>>] \in {5, 7}
     /\ t[<<1, 1>>] \in {4, 5}
     /\ t[<<1, 2>>] \in {0, 6}
     /\ t[<<2, 1>>] = IF t[<<2>>] = 7 THEN 5 ELSE 0
     /\ t[<<1, 1, 1>>] = IF t[<<1, 1>>] = 4 THEN 5 ELSE 0}
Scan(depth, entries, cross, remote, excludes) ==
  [depth |-> depth, entries |-> entries, cross |-> cross, remote |-> remote, excludes |-> excludes]
MCScans ==
  {Scan(3, 9, FALSE, FALSE, {}), Scan(3, 9, TRUE, FALSE, {}), Scan(3, 9, TRUE, TRUE, {<<1, 1>>}),
   Scan(2, 9, FALSE, FALSE, {}), Scan(3, 3, TRUE, TRUE, {}), Scan(1, 2, FALSE, FALSE, {})}
MCDirs == {1, 2, 4, 7, 8}
MCRemote == {<<2>>}

\* IncidentSections
MCInterfaces == <<"eth0", "eth1">>
MCPids == <<"101", "102", "103">>
===============================================================================
