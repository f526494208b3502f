------------------------------ MODULE PortInspect -----------------------------
(***************************************************************************)
(* inspect_selection and main of PortLens (opsforge/portlens/portlens.py): *)
(* ss is run once for each address family, then /proc is searched for the  *)
(* owners of the sockets, then the owners are looked at, while sockets are *)
(* closed and opened and PIDs change hands; --watch repeats all of it.     *)
(*                                                                         *)
(* A socket stands for its inode; what it is bound to does not change.     *)
(***************************************************************************)
EXTENDS ExitStatus, FiniteSets, Sequences, SequencesExt

CONSTANTS
  Sockets,     \* socket -> [family, scope, acceptsV4, owner]; scope: its port is selected
  Pids,        \* the PIDs of the owners
  ProcNames,   \* what a process may be called
  Unreadable,  \* PIDs whose /proc/PID/fd may not be listed
  Filters,     \* records [v4, v6, all, pid, process, watch]
  MaxMoves     \* bound: changes of sockets and processes

SocketIds == DOMAIN Sockets
None == "none"

PortAssumption == \A s \in SocketIds : Sockets[s].family \in {"ipv4", "ipv6"}

VARIABLES
  bound,      \* the sockets that exist
  procs,      \* PID -> the name of its process, or None
  moves,      \* how often anything changed
  steady,     \* history: sockets that existed since the snapshot began
  lasting,    \* history: sockets that existed throughout some snapshot
  filter,     \* the arguments
  pc,         \* where the tool is
  snapshot,   \* number of the snapshot
  todo,       \* families, or PIDs, still to be asked
  rows,       \* the sockets that ss listed
  skipped,    \* rows that could not be parsed
  truncated,  \* families whose output was cut
  holders,    \* socket -> PIDs found to hold it
  comm,       \* PID -> the name that was read for it, or None
  matched,    \* per snapshot that came to an end, the matches
  verdict,
  exit

world == <<bound, procs, moves, steady>>
evidence == <<rows, skipped, truncated, holders, comm>>
vars == <<world, lasting, filter, pc, snapshot, todo, evidence, matched, verdict, exit>>

NoHolders == [s \in SocketIds |-> {}]
NoNames == [p \in Pids |-> None]

Init ==
  /\ bound \in SUBSET SocketIds
  /\ procs \in [Pids -> ProcNames]
  /\ moves = 0 /\ steady = bound /\ lasting = {}
  /\ filter \in Filters
  /\ pc = "find" /\ snapshot = 1 /\ todo = << >>
  /\ rows = {} /\ skipped = FALSE /\ truncated = {} /\ holders = NoHolders /\ comm = NoNames
  /\ matched = << >>
  /\ verdict = "none" /\ exit = -1

\* A socket is closed or bound, a process exits with all it has, or another
\* one gets its PID.
WorldMoves ==
  /\ pc \notin {"report", "done"} /\ moves < MaxMoves
  /\ moves' = moves + 1
  /\ \/ \E s \in bound : bound' = bound \ {s} /\ UNCHANGED procs
     \/ \E s \in SocketIds \ bound : procs[Sockets[s].owner] # None /\ bound' = bound \union {s} /\ UNCHANGED procs
     \/ \E p \in Pids, n \in ProcNames \union {None} :
          /\ n # procs[p] /\ procs' = [procs EXCEPT ![p] = n]
          /\ bound' = {s \in bound : Sockets[s].owner # p}
  /\ steady' = steady \intersect bound'
  /\ UNCHANGED <<lasting, filter, pc, snapshot, todo, evidence, matched, verdict, exit>>

-------------------------------------------------------------------------------
Done(code) == pc' = "done" /\ exit' = code

\* Mutant: --ipv4 asks for IPv4 only.
QueryOwnFamily == IF ~filter.v6 THEN <<"ipv4">> ELSE IF ~filter.v4 THEN <<"ipv6">> ELSE <<"ipv4", "ipv6">>

\* A dual-stack wildcard is listed under IPv6 and accepts IPv4.
QueryFamilies == IF filter.v4 THEN <<"ipv4", "ipv6">> ELSE <<"ipv6">>

InScope(s) ==
  /\ filter.all \/ Sockets[s].scope
  /\ Sockets[s].family = "ipv4" => filter.v4
  /\ Sockets[s].family = "ipv6" => filter.v6 \/ Sockets[s].acceptsV4

FindSs ==
  /\ pc = "find"
  /\ \/ pc' = "query" /\ todo' = QueryFamilies /\ UNCHANGED exit
     \/ Done(ExitFailure) /\ UNCHANGED todo
  /\ UNCHANGED <<world, lasting, filter, snapshot, evidence, matched, verdict>>

\* discover_sockets: all rows of a family at one time, some of which may make
\* no sense, or only the first of them if the output is too long.
Query ==
  /\ pc = "query" /\ todo # << >>
  /\ LET all == {s \in bound : Sockets[s].family = Head(todo)}
     IN \E parsed \in SUBSET all, cut \in BOOLEAN, garbled \in BOOLEAN :
          /\ parsed # all => cut \/ garbled
          /\ rows' = rows \union {s \in parsed : InScope(s)}
          /\ skipped' = (skipped \/ garbled)
          /\ truncated' = IF cut THEN truncated \union {Head(todo)} ELSE truncated
  /\ todo' = Tail(todo)
  /\ UNCHANGED <<world, lasting, filter, pc, snapshot, holders, comm, matched, verdict, exit>>

\* ss is missing, fails, or takes too long.
QueryFails ==
  /\ pc = "query" /\ todo # << >>
  /\ Done(ExitFailure)
  /\ UNCHANGED <<world, lasting, filter, snapshot, todo, evidence, matched, verdict>>

EndQueries ==
  /\ pc = "query" /\ todo = << >>
  /\ pc' = "owners"
  /\ todo' \in (IF rows = {} THEN {<< >>} ELSE {SetToSeq(Pids), << >>})   \* /proc may be closed
  /\ UNCHANGED <<world, lasting, filter, snapshot, evidence, matched, verdict, exit>>

\* find_socket_owners: one process after the other, whatever can be read.
ScanOwner ==
  /\ pc = "owners" /\ todo # << >>
  /\ LET p == Head(todo)
         held == {s \in rows \intersect bound : Sockets[s].owner = p /\ p \notin Unreadable /\ procs[p] # None}
     IN holders' = [s \in SocketIds |-> IF s \in held THEN holders[s] \union {p} ELSE holders[s]]
  /\ todo' = Tail(todo)
  /\ UNCHANGED <<world, lasting, filter, pc, snapshot, rows, skipped, truncated, comm, matched, verdict, exit>>

Owners == UNION {holders[s] : s \in rows}
EndOwners ==
  /\ pc = "owners" /\ todo = << >>
  /\ pc' = "details" /\ todo' = SetToSeq(Owners)
  /\ UNCHANGED <<world, lasting, filter, snapshot, evidence, matched, verdict, exit>>

\* process_details: of whatever process has the PID by now; each read may fail.
ReadDetails ==
  /\ pc = "details" /\ todo # << >>
  /\ comm' \in {[comm EXCEPT ![Head(todo)] = n] : n \in {procs[Head(todo)], None}}
  /\ todo' = Tail(todo)
  /\ UNCHANGED <<world, lasting, filter, pc, snapshot, rows, skipped, truncated, holders, matched, verdict, exit>>

Matches ==
  {s \in rows :
     /\ filter.pid # None => filter.pid \in holders[s]
     /\ filter.process # None => \E p \in holders[s] : comm[p] = filter.process}

\* Mutant: only a cut output makes absence uncertain.
UncertainIfCut == truncated # {}

\* Absence cannot be established from rows that are missing.
Uncertain == skipped \/ truncated # {}

EndSnapshot ==
  /\ pc = "details" /\ todo = << >>
  /\ lasting' = lasting \union steady
  /\ IF Matches = {} /\ Uncertain
     THEN Done(ExitFailure) /\ UNCHANGED <<snapshot, matched>>
     ELSE /\ matched' = Append(matched, Matches)
          /\ pc' = IF snapshot = filter.watch THEN "judge" ELSE "sleep"
          /\ UNCHANGED <<snapshot, exit>>
  /\ UNCHANGED <<world, filter, todo, evidence, verdict>>

\* time.sleep; the next snapshot starts anew.
Sleep ==
  /\ pc = "sleep"
  /\ pc' = "find" /\ snapshot' = snapshot + 1
  /\ steady' = bound
  /\ rows' = {} /\ skipped' = FALSE /\ truncated' = {} /\ holders' = NoHolders /\ comm' = NoNames
  /\ UNCHANGED <<bound, procs, moves, lasting, filter, todo, matched, verdict, exit>>

Found == \E i \in DOMAIN matched : matched[i] # {}

Judge ==
  /\ pc = "judge"
  /\ verdict' = IF Found THEN "decided" ELSE "otherwise"
  /\ pc' = "report"
  /\ UNCHANGED <<world, lasting, filter, snapshot, todo, evidence, matched, exit>>

Report ==
  /\ pc = "report"
  /\ Done(IF verdict = "decided" THEN ExitOK ELSE ExitFinding) \/ Done(ExitFailure)
  /\ UNCHANGED <<world, lasting, filter, snapshot, todo, evidence, matched, verdict>>

Interrupt ==
  /\ pc # "done"
  /\ Done(ExitInterrupted)
  /\ UNCHANGED <<world, lasting, filter, snapshot, todo, evidence, matched, verdict>>

ToolStep ==
  \/ FindSs \/ Query \/ QueryFails \/ EndQueries \/ ScanOwner \/ EndOwners \/ ReadDetails
  \/ EndSnapshot \/ Sleep \/ Judge \/ Report

Next == WorldMoves \/ ToolStep \/ Interrupt

-------------------------------------------------------------------------------
(* The view of VerdictContract: a match in any snapshot decides; an        *)
(* observation with missing rows and no match never comes to a verdict.    *)

Decisive == \E i \in DOMAIN matched : matched[i] # {}
Gap == \E i \in DOMAIN matched : matched[i] = {} /\ i = snapshot /\ (skipped \/ truncated # {})

\* NOT_FOUND is an absence: no socket that was to be found existed throughout
\* any of the snapshots, over IPv4 or through a dual-stack wildcard.  Who holds
\* a socket is best effort: with --pid and --process nothing is claimed.
AbsenceIsEstablished ==
  verdict = "otherwise" /\ filter.pid = None /\ filter.process = None =>
    \A s \in lasting : ~InScope(s)
===============================================================================
