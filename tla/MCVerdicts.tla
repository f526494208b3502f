----------------------------- MODULE MCVerdicts -------------------------------
(***************************************************************************)
(* Module Verdicts on small instances.                                     *)
(***************************************************************************)
EXTENDS Verdicts, TLC

\* FilePair
MCPairContents == {<<"a", "b">>, <<"b", "w">>, <<"!">>}
MCModes == {"exact", "normalized", "json", "metadata"}

\* TreeCompare: 1, 2 and 3 are directories, of which 3 may not be opened, 4 is
\* one on another filesystem; 5, 6 and 9 are files, of which 9 may not be opened.
MCPaths == {<< >>, <<1>>, <<2>>, <<1, 1>>, <<1, 1, 1>>}
TreeOf(first, second, inner, leafNode) ==
  [p \in MCPaths |-> CASE p = << >> -> 1 [] p = <<1>> -> first [] p = <<2>> -> second
                       [] p = <<1, 1>> -> inner [] OTHER -> leafNode]
MCTrees ==
  {TreeOf(2, 5, 2, 5), TreeOf(2, 5, 2, 6), TreeOf(2, 9, 3, 5),
   TreeOf(5, 5, 0, 0), TreeOf(2, 5, 4, 5)}
MCTreeOptions == {[files |-> 5, depth |-> 3], [files |-> 5, depth |-> 1], [files |-> 2, depth |-> 3]}

\* PortInspect: an IPv4 socket, a dual-stack wildcard, and one of another port.
Filter(v4, v6, all, pid, process, watch) ==
  [v4 |-> v4, v6 |-> v6, all |-> all, pid |-> pid, process |-> process, watch |-> watch]
MCSockets ==
  [four |-> [family |-> "ipv4", scope |-> TRUE, acceptsV4 |-> TRUE, owner |-> "p1"],
   dual |-> [family |-> "ipv6", scope |-> TRUE, acceptsV4 |-> TRUE, owner |-> "p2"],
   six |-> [family |-> "ipv6", scope |-> FALSE, acceptsV4 |-> FALSE, owner |-> "p1"]]
MCFilters ==
  {Filter(TRUE, TRUE, FALSE, "none", "none", 1), Filter(TRUE, FALSE, TRUE, "none", "none", 2),
   Filter(FALSE, TRUE, TRUE, "p1", "none", 1), Filter(TRUE, TRUE, TRUE, "none", "n1", 1)}

\* ServiceAssess: two dependencies, of which one is checked; an entry of the
\* journal has two lines.
State(load, active, sub, how) == [load |-> load, active |-> active, sub |-> sub, result |-> how]
MCUnitStates ==
  {State("loaded", "active", "running", "success"), State("loaded", "inactive", "dead", "success"),
   State("loaded", "failed", "failed", "exit-code"), State("loaded", "inactive", "dead", "exit-code"),
   State("loaded", "activating", "auto-restart", "exit-code"),
   State("bad-setting", "inactive", "dead", "success"),
   State("not-found", "inactive", "dead", "success"), State("not-found", "active", "running", "success")}
MCFields == <<"a", "b">>
MCLevels == {<<2, 1>>, <<1000, 1000>>, <<2, 1001>>}
MCJournals == {<<2, 1, 2>>}

\* Connectivity: an answer with a repeated address and one with too many.
MCAnswers == {<<"a", "a", "b">>, <<"b">>, <<"a", "b", "c">>}
MCRequests ==
  {[retries |-> 0, compare |-> FALSE, tls |-> FALSE], [retries |-> 1, compare |-> FALSE, tls |-> TRUE],
   [retries |-> 1, compare |-> TRUE, tls |-> FALSE]}

\* CertInspect: certificates that are good, about to expire, of other names
\* and not valid yet, and one that nobody trusts.
Certificate(trusted, identities, from, to) ==
  [trusted |-> trusted, names |-> identities, others |-> FALSE, from |-> from, to |-> to]
MCCerts ==
  [good |-> Certificate(TRUE, {<<"*", "b", "c">>}, 0, 9),
   old |-> Certificate(TRUE, {<<"a", "b", "c">>}, 0, 1),
   other |-> Certificate(TRUE, {<<"*", "c">>, <<"*", "a", "b", "c">>}, 1, 9),
   own |-> Certificate(FALSE, {}, 0, 9)]
MCServers == <<"s1", "s2">>
MCHost == <<"a", "b", "c">>

\* LocalCheck: an empty file, the expected one, another as long and a larger one.
MCCheckContents == {<< >>, <<"a", "b">>, <<"b", "b">>, <<"a", "b", "a">>}
MCExpected == <<"a", "b">>
MCEnds == <<"s1", "s2">>
===============================================================================
