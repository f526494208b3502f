------------------------------- MODULE Verdicts -------------------------------
(***************************************************************************)
(* The tools that judge, one of them at a time: they are processes that do *)
(* not talk to each other.  tool says which one runs; its module's steps   *)
(* are the steps, and the variables of the others stay as they are.  All   *)
(* of them must keep the one promise of VerdictContract.                   *)
(***************************************************************************)
EXTENDS ExitStatus, Sequences, FiniteSets

CONSTANTS
  PairContents, Modes, MaxWrites,                          \* FilePair
  Paths, Trees, FileNodes, DirNodes, Denied, Foreign,      \* TreeCompare
  TreeOptions, MaxEdits,
  Sockets, Pids, ProcNames, Unreadable, Filters,           \* PortInspect
  MaxMoves,
  UnitStates, Fields, DepStates, LevelChoices, Journals,   \* ServiceAssess
  LineCounts, MaxDependencies, MaxUnitChanges,
  Answers, Requests, MaxCandidates, MaxNetChanges,         \* Connectivity
  Certs, Servers, Host, Baselines,                         \* CertInspect
  WarnDays, CriticalDays, LastDay, MaxRotations,
  CheckContents, Expected, MinimumBytes, MaximumBytes,     \* LocalCheck
  MaxHashBytes, Ends, Retries, MaxTouches

VARIABLES tool, pc, verdict, exit

\* FilePair
VARIABLES files, names, writes, past, mode, strict, side, inspected, opened, data
pairVars == <<files, names, writes, past, mode, strict, side, inspected, opened, data>>
Pair == INSTANCE FilePair WITH Contents <- PairContents

\* TreeCompare
VARIABLES trees, touched, edits, limits, walking, frames, observed, entries, unreadable, unentered, found
treeVars == <<trees, touched, edits, limits, walking, frames, observed, entries, unreadable, unentered, found>>
Tree == INSTANCE TreeCompare

\* PortInspect
VARIABLES bound, procs, moves, steady, lasting, filter, snapshot, todo, rows, skipped, truncated, holders, comm, matched
portVars == <<bound, procs, moves, steady, lasting, filter, snapshot, todo, rows, skipped, truncated, holders, comm, matched>>
Port == INSTANCE PortInspect

\* ServiceAssess
VARIABLES unit, deps, changes, seen, failing, written, lines, shown, failed, journal, limit, cautions
unitVars == <<unit, deps, changes, seen, failing, written, lines, shown, failed, journal, limit, cautions>>
Svc == INSTANCE ServiceAssess

\* Connectivity
VARIABLES answering, socketable, netChanges, reachable, missed, request, resolution, candidates, round, turn, attempts, tlsStatus
netVars == <<answering, socketable, netChanges, reachable, missed, request, resolution, candidates, round, turn, attempts, tlsStatus>>
Net == INSTANCE Connectivity

\* CertInspect
VARIABLES serving, day, rotations, presented, baseline, server, trust, leaf, status
certVars == <<serving, day, rotations, presented, baseline, server, trust, leaf, status>>
Cert == INSTANCE CertInspect

\* LocalCheck
VARIABLES inodes, path, state, touches, kind, retries, trial, probed, outcomes, meta, source, hashed, result
checkVars == <<inodes, path, state, touches, kind, retries, trial, probed, outcomes, meta, source, hashed, result>>
Check == INSTANCE LocalCheck WITH Contents <- CheckContents

ASSUME VerdictsAssumption ==
  /\ Pair!FilePairAssumption
  /\ Tree!TreeAssumption
  /\ Port!PortAssumption
  /\ Svc!ServiceAssumption
  /\ Net!ConnectivityAssumption
  /\ Cert!CertAssumption
  /\ Check!LocalCheckAssumption

vars == <<tool, pc, verdict, exit, pairVars, treeVars, portVars, unitVars, netVars, certVars, checkVars>>

-------------------------------------------------------------------------------
(* A tool that does not run has no state.                                  *)

NoPair ==
  /\ files = 0 /\ names = 0 /\ writes = 0 /\ past = 0 /\ mode = 0 /\ strict = 0 /\ side = 0
  /\ inspected = 0 /\ opened = 0 /\ data = 0
NoTree ==
  /\ trees = 0 /\ touched = 0 /\ edits = 0 /\ limits = 0 /\ walking = 0 /\ frames = 0 /\ observed = 0
  /\ entries = 0 /\ unreadable = 0 /\ unentered = 0 /\ found = 0
NoPort ==
  /\ bound = 0 /\ procs = 0 /\ moves = 0 /\ steady = 0 /\ lasting = 0 /\ filter = 0 /\ snapshot = 0
  /\ todo = 0 /\ rows = 0 /\ skipped = 0 /\ truncated = 0 /\ holders = 0 /\ comm = 0 /\ matched = 0
NoUnit ==
  /\ unit = 0 /\ deps = 0 /\ changes = 0 /\ seen = 0 /\ failing = 0 /\ written = 0 /\ lines = 0
  /\ shown = 0 /\ failed = 0 /\ journal = 0 /\ limit = 0 /\ cautions = 0
NoNet ==
  /\ answering = 0 /\ socketable = 0 /\ netChanges = 0 /\ reachable = 0 /\ missed = 0 /\ request = 0
  /\ resolution = 0 /\ candidates = 0 /\ round = 0 /\ turn = 0 /\ attempts = 0 /\ tlsStatus = 0
NoCert ==
  /\ serving = 0 /\ day = 0 /\ rotations = 0 /\ presented = 0 /\ baseline = 0 /\ server = 0
  /\ trust = 0 /\ leaf = 0 /\ status = 0
NoCheck ==
  /\ inodes = 0 /\ path = 0 /\ state = 0 /\ touches = 0 /\ kind = 0 /\ retries = 0 /\ trial = 0
  /\ probed = 0 /\ outcomes = 0 /\ meta = 0 /\ source = 0 /\ hashed = 0 /\ result = 0

Init ==
  \/ tool = "configdiff" /\ Pair!Init /\ NoTree /\ NoPort /\ NoUnit /\ NoNet /\ NoCert /\ NoCheck
  \/ tool = "configdiff-directory" /\ Tree!Init /\ NoPair /\ NoPort /\ NoUnit /\ NoNet /\ NoCert /\ NoCheck
  \/ tool = "portlens" /\ Port!Init /\ NoPair /\ NoTree /\ NoUnit /\ NoNet /\ NoCert /\ NoCheck
  \/ tool = "svcdoctor" /\ Svc!Init /\ NoPair /\ NoTree /\ NoPort /\ NoNet /\ NoCert /\ NoCheck
  \/ tool = "netdoctor" /\ Net!Init /\ NoPair /\ NoTree /\ NoPort /\ NoUnit /\ NoCert /\ NoCheck
  \/ tool = "certwatch" /\ Cert!Init /\ NoPair /\ NoTree /\ NoPort /\ NoUnit /\ NoNet /\ NoCheck
  \/ tool = "healthctl" /\ Check!Init /\ NoPair /\ NoTree /\ NoPort /\ NoUnit /\ NoNet /\ NoCert

ButPair == <<tool, treeVars, portVars, unitVars, netVars, certVars, checkVars>>
ButTree == <<tool, pairVars, portVars, unitVars, netVars, certVars, checkVars>>
ButPort == <<tool, pairVars, treeVars, unitVars, netVars, certVars, checkVars>>
ButUnit == <<tool, pairVars, treeVars, portVars, netVars, certVars, checkVars>>
ButNet == <<tool, pairVars, treeVars, portVars, unitVars, certVars, checkVars>>
ButCert == <<tool, pairVars, treeVars, portVars, unitVars, netVars, checkVars>>
ButCheck == <<tool, pairVars, treeVars, portVars, unitVars, netVars, certVars>>

Next ==
  \/ tool = "configdiff" /\ Pair!Next /\ UNCHANGED ButPair
  \/ tool = "configdiff-directory" /\ Tree!Next /\ UNCHANGED ButTree
  \/ tool = "portlens" /\ Port!Next /\ UNCHANGED ButPort
  \/ tool = "svcdoctor" /\ Svc!Next /\ UNCHANGED ButUnit
  \/ tool = "netdoctor" /\ Net!Next /\ UNCHANGED ButNet
  \/ tool = "certwatch" /\ Cert!Next /\ UNCHANGED ButCert
  \/ tool = "healthctl" /\ Check!Next /\ UNCHANGED ButCheck

\* The steps of the tools themselves; nothing is expected of what they observe.
ToolStep ==
  \/ tool = "configdiff" /\ Pair!ToolStep /\ UNCHANGED ButPair
  \/ tool = "configdiff-directory" /\ Tree!ToolStep /\ UNCHANGED ButTree
  \/ tool = "portlens" /\ Port!ToolStep /\ UNCHANGED ButPort
  \/ tool = "svcdoctor" /\ Svc!ToolStep /\ UNCHANGED ButUnit
  \/ tool = "netdoctor" /\ Net!ToolStep /\ UNCHANGED ButNet
  \/ tool = "certwatch" /\ Cert!ToolStep /\ UNCHANGED ButCert
  \/ tool = "healthctl" /\ Check!ToolStep /\ UNCHANGED ButCheck

Spec == Init /\ [][Next]_vars /\ WF_vars(ToolStep)

-------------------------------------------------------------------------------
(* The view of VerdictContract: that of the tool that runs.                *)

Codes == IF tool \in {"portlens", "netdoctor"} THEN [decided |-> ExitOK, otherwise |-> ExitFinding]
         ELSE [decided |-> ExitFinding, otherwise |-> ExitOK]
Decisive ==
  \/ tool = "configdiff" /\ Pair!Decisive
  \/ tool = "configdiff-directory" /\ Tree!Decisive
  \/ tool = "portlens" /\ Port!Decisive
  \/ tool = "svcdoctor" /\ Svc!Decisive
  \/ tool = "netdoctor" /\ Net!Decisive
  \/ tool = "certwatch" /\ Cert!Decisive
  \/ tool = "healthctl" /\ Check!Decisive
Gap ==
  \/ tool = "configdiff" /\ Pair!Gap
  \/ tool = "configdiff-directory" /\ Tree!Gap
  \/ tool = "portlens" /\ Port!Gap
  \/ tool = "svcdoctor" /\ Svc!Gap
  \/ tool = "netdoctor" /\ Net!Gap
  \/ tool = "certwatch" /\ Cert!Gap
  \/ tool = "healthctl" /\ Check!Gap

-------------------------------------------------------------------------------
(* The properties, each that of the module of its tool.                    *)

\* ConfigDiff: what two files are compared by, they were at one time.
PairCoexisted == tool = "configdiff" => Pair!PairCoexisted

\* ConfigDiff: no entry of the trees is called added, removed or changed
\* because it could not be read.
DriftIsReal == tool = "configdiff-directory" => Tree!DriftIsReal

\* ConfigDiff: trees that are called unchanged have been compared throughout.
UnchangedIsComplete == tool = "configdiff-directory" => Tree!UnchangedIsComplete

\* PortLens: NOT_FOUND is an absence.
AbsenceIsEstablished == tool = "portlens" => Port!AbsenceIsEstablished

\* SvcDoctor: neither health nor failure is claimed of a state that never was.
VerdictIsEstablished == tool = "svcdoctor" => Svc!VerdictIsEstablished

\* SvcDoctor: the journal is its end, entry by entry.
JournalIsTheEnd == tool = "svcdoctor" => Svc!JournalIsTheEnd

\* NetDoctor: nothing that is reachable throughout a round is UNREACHABLE.
ReachableIsFound == tool = "netdoctor" => Net!ReachableIsFound

\* CertWatch: the certificate that is judged was presented as it is said.
JudgedWhatWasServed == tool = "certwatch" => Cert!JudgedWhatWasServed

\* Every tool ends, whatever happens to what it observes.
RunEnds == <>(pc = "done")

\* The tools keep one promise of what their exit codes say: what decides is
\* never outweighed by what is missing, and without it a gap is no answer.
Contract == INSTANCE VerdictContract WITH codes <- Codes, decisive <- Decisive, gap <- Gap
ImplementsContract == Contract!Spec
===============================================================================
