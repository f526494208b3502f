------------------------------ MODULE Observers -------------------------------
(***************************************************************************)
(* The observation-only tools, one of them at a time: they are processes   *)
(* that do not talk to each other.  tool says which one runs; its module's *)
(* steps are the steps, and the variables of the others stay as they are.  *)
(* All of them must keep the one promise of ObserverContract.              *)
(***************************************************************************)
EXTENDS Integers, Sequences, FiniteSets

CONSTANTS
  Requested, MaxProcesses, MaxTicks,                  \* ProcSampling
  Rotated, MaxRotations, MaxWrites, MaxMinutes,       \* LogSources
  Inputs, LineOptions, Stores, Signature,             \* LogLines
  MaxLineBytes, MaxPatterns,
  Paths, Trees, Dirs, Foreign, Unusable, Remote,      \* DiskScan
  ScanOptions, Spare, MaxDirectoryEntries, MaxChanges,
  InterfaceNames, Pids,                               \* IncidentSections
  MaxInterfaces, MaxRankedProcesses, MaxChurn

VARIABLES tool, pc, exit

\* ProcSampling
VARIABLES current, last, zombie, ticks, fd, identity, aux, cgroup, samples, stopped, final, warned
procVars == <<current, last, zombie, ticks, fd, identity, aux, cgroup, samples, stopped, final, warned>>
Proc == INSTANCE ProcSampling

\* LogSources
VARIABLES names, newest, moving, size, writes, index, sources, unavailable, results, turns
logVars == <<names, newest, moving, size, writes, index, sources, unavailable, results, turns>>
Log == INSTANCE LogSources

\* LogLines
VARIABLES outcome, data, options, prior, pos, pending, overlong, patterns, metrics, warning
lineVars == <<outcome, data, options, prior, pos, pending, overlong, patterns, metrics, warning>>
Lines == INSTANCE LogLines WITH Options <- LineOptions

\* DiskScan
VARIABLES tree, changes, scanOptions, target, mounts, eligible, stack, entry, branch, global, unique,
          visited, enumerated, limited, failures, shallow, unentered, capacity, present, listed
diskVars == <<tree, changes, scanOptions, target, mounts, eligible, stack, entry, branch, global, unique,
              visited, enumerated, limited, failures, shallow, unentered, capacity, present, listed>>
Disk == INSTANCE DiskScan WITH
  options <- scanOptions, pending <- stack, current <- entry

\* IncidentSections
VARIABLES alive, churn, profile, todo, items, got, gap, status, missed
snapVars == <<alive, churn, profile, todo, items, got, gap, status, missed>>
Snap == INSTANCE IncidentSections WITH MaxProcesses <- MaxRankedProcesses

ASSUME ObserversAssumption ==
  /\ Proc!SamplingAssumption
  /\ Log!LogSourcesAssumption
  /\ Lines!LogLinesAssumption
  /\ Disk!DiskScanAssumption
  /\ Snap!SectionsAssumption

vars == <<tool, pc, exit, procVars, logVars, lineVars, diskVars, snapVars>>

-------------------------------------------------------------------------------
(* A tool that does not run has no state.                                  *)

NoProc ==
  /\ current = 0 /\ last = 0 /\ zombie = 0 /\ ticks = 0 /\ fd = 0 /\ identity = 0
  /\ aux = 0 /\ cgroup = 0 /\ samples = 0 /\ stopped = 0 /\ final = 0 /\ warned = 0
NoLog ==
  /\ names = 0 /\ newest = 0 /\ moving = 0 /\ size = 0 /\ writes = 0 /\ index = 0
  /\ sources = 0 /\ unavailable = 0 /\ results = 0 /\ turns = 0
NoLines ==
  /\ outcome = 0 /\ data = 0 /\ options = 0 /\ prior = 0 /\ pos = 0 /\ pending = 0
  /\ overlong = 0 /\ patterns = 0 /\ metrics = 0 /\ warning = 0
NoDisk ==
  /\ tree = 0 /\ changes = 0 /\ scanOptions = 0 /\ target = 0 /\ mounts = 0 /\ eligible = 0 /\ stack = 0
  /\ entry = 0 /\ branch = 0 /\ global = 0 /\ unique = 0 /\ visited = 0 /\ enumerated = 0 /\ limited = 0
  /\ failures = 0 /\ shallow = 0 /\ unentered = 0 /\ capacity = 0 /\ present = 0 /\ listed = 0
NoSnap ==
  /\ alive = 0 /\ churn = 0 /\ profile = 0 /\ todo = 0 /\ items = 0 /\ got = 0 /\ gap = 0
  /\ status = 0 /\ missed = 0

Init ==
  \/ tool = "procwatch" /\ Proc!Init /\ NoLog /\ NoLines /\ NoDisk /\ NoSnap
  \/ tool = "loghound" /\ Log!Init /\ NoProc /\ NoLines /\ NoDisk /\ NoSnap
  \/ tool = "loghound-lines" /\ Lines!Init /\ exit = -1 /\ NoProc /\ NoLog /\ NoDisk /\ NoSnap
  \/ tool = "diskhound" /\ Disk!Init /\ NoProc /\ NoLog /\ NoLines /\ NoSnap
  \/ tool = "incident-snapshot" /\ Snap!Init /\ NoProc /\ NoLog /\ NoLines /\ NoDisk

ProcWatch == tool = "procwatch" /\ Proc!Next /\ UNCHANGED <<tool, logVars, lineVars, diskVars, snapVars>>
LogHound == tool = "loghound" /\ Log!Next /\ UNCHANGED <<tool, procVars, lineVars, diskVars, snapVars>>
LogHoundLines == tool = "loghound-lines" /\ Lines!Next /\ UNCHANGED <<tool, exit, procVars, logVars, diskVars, snapVars>>
DiskHound == tool = "diskhound" /\ Disk!Next /\ UNCHANGED <<tool, procVars, logVars, lineVars, snapVars>>
IncidentSnapshot == tool = "incident-snapshot" /\ Snap!Next /\ UNCHANGED <<tool, procVars, logVars, lineVars, diskVars>>

Next == ProcWatch \/ LogHound \/ LogHoundLines \/ DiskHound \/ IncidentSnapshot

\* The steps of the tools themselves; nothing is expected of what they observe.
ToolStep ==
  \/ tool = "procwatch" /\ Proc!ToolStep /\ UNCHANGED <<tool, logVars, lineVars, diskVars, snapVars>>
  \/ tool = "loghound" /\ Log!ToolStep /\ UNCHANGED <<tool, procVars, lineVars, diskVars, snapVars>>
  \/ tool = "diskhound" /\ Disk!ToolStep /\ UNCHANGED <<tool, procVars, logVars, lineVars, snapVars>>
  \/ tool = "incident-snapshot" /\ Snap!ToolStep /\ UNCHANGED <<tool, procVars, logVars, lineVars, diskVars>>

Spec == Init /\ [][Next]_vars /\ WF_vars(ToolStep)

-------------------------------------------------------------------------------
(* The properties, each that of the module of its tool.                    *)

\* ProcWatch: all evidence of a report is that of one process.
EvidenceOfOneProcess == tool = "procwatch" => Proc!EvidenceOfOneProcess

\* ProcWatch: exit 0 is a complete, monotonic sampling of a process that ran.
CompleteIsSound == tool = "procwatch" => Proc!CompleteIsSound

\* LogHound: no file is read twice, however names are rotated.
NoFileTwice == tool = "loghound" => Log!NoFileTwice

\* LogHound: a report without warnings is of consecutive logs.
CompleteIsContiguous == tool = "loghound" => Log!CompleteIsContiguous

\* LogHound: the counts are those of the text, however reads cut it, and a
\* source that is given up leaves nothing in the shared store.
LinesMatchReference ==
  tool = "loghound-lines" => Lines!LinesMatchReference /\ Lines!DroppedLeavesNothing

\* DiskHound: a total without reservations is exact.
CompleteIsExact == tool = "diskhound" => Disk!CompleteIsExact

\* DiskHound: only directories that were counted are listed.
ListsWhatItCounted == tool = "diskhound" => Disk!ListsWhatItCounted

\* Incident Snapshot: a snapshot is partial only for what was there and unread.
PartialMeansGap == tool = "incident-snapshot" => Snap!PartialMeansGap

\* Every tool ends, whatever happens to what it observes; the reading of a
\* source is bounded by its boundary and left out of the fair steps.
RunEnds == tool # "loghound-lines" => <>(pc = "done")

\* The facts by which ObserverContract judges the tool that runs.
Complete ==
  \/ tool = "procwatch" /\ ~Proc!Gap
  \/ tool = "loghound" /\ ~Log!Gap
  \/ tool = "diskhound" /\ ~Disk!Gap
  \/ tool = "incident-snapshot" /\ ~Snap!Gap
Useful ==
  \/ tool = "procwatch" /\ Proc!Useful
  \/ tool = "loghound" /\ Log!Useful
  \/ tool = "diskhound" /\ Disk!Useful
  \/ tool = "incident-snapshot" /\ Snap!Useful

\* The four tools keep one promise of what their exit codes say: 0 is never a
\* guess and 1 never empty, judged by what was there to be observed.
Contract == INSTANCE ObserverContract WITH complete <- Complete, useful <- Useful
ImplementsContract == Contract!Spec
===============================================================================
