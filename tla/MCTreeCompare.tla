----------------------------- MODULE MCTreeCompare ----------------------------
(***************************************************************************)
(* Two trees with the directory 1 and the file 1/1 below it; in one of     *)
(* them another filesystem may be mounted on the directory.                *)
(***************************************************************************)
EXTENDS TreeCompare

MCPaths == {<< >>, <<1>>, <<1, 1>>}
Tree(directory) == [p \in MCPaths |-> CASE p = << >> -> 1 [] p = <<1>> -> directory [] OTHER -> 5]
MCTrees == {Tree(2), Tree(4)}
MCOptions == {[files |-> 5, depth |-> 3]}
MCFiles == {5, 6}
MCDirs == {1, 2, 4}
MCForeign == {4}

Spec == Init /\ [][Next]_vars
===============================================================================
