# OpsForge verification

TLA+ specifications of OpsForge, a collection of command-line diagnostic tools in
Python, with the TLC configurations that model-check them and the TLAPS proofs of
what holds for every size of them.

## The system

OpsForge is a package of ten utilities over a small shared library. Each is one
process that observes (processes, files, sockets, services, certificates), prints
a report or writes it to a file, and ends with an exit code whose meaning is the
contract of `docs/CONTRACTS.md`: 0 for a trustworthy good answer, 1 for an
established finding, 2 for wrong usage, 3 for no trustworthy answer, 130 for an
interrupt. The utilities do not talk to each other. What can go wrong in them
comes from what they share with the rest of the machine: threads, child
processes, clocks, files and PIDs that change while they are looked at.

| Component | State | Operations | Where it is hard |
| --- | --- | --- | --- |
| HealthCtl dependency search (`healthctl.py:475`) | `visiting`, `visited`, the call stack | `visit` | marks that are set and cleared at different times |
| HealthCtl scheduler (`healthctl.py:1217`) | `waiting`, `running`, `completed`, the queue `finished` | scan, start, skip, receive; in a thread: run, retry, post | results in any order, faults of an executor, a thread that does not start, Ctrl-C, blocking without a timeout |
| HealthCtl network checks (`healthctl.py:753-945`) | one deadline, candidates, attempts, an open socket | resolve, share, connect, TLS, send, receive, redirect | stale remaining time, slow peers, gaps that look like findings |
| CertWatch worker pool (`certwatch.py:794`) | `pending`, `outcomes`, `failures`, `started` | take, mark, inspect; start, join, snapshot | workers that outlive the report, no lock, one time limit |
| Safe output (`common/output.py`) | FILE and temporary files | create, write, sync, replace, unlink | several commands on one file, failures, kills |
| Bounded child (`common/process.py`) | pipes, the selector, the process group | spawn, read, time out, kill, reap | descendants that keep pipes open, interrupts, output at the limit |
| ProcWatch sampling (`procwatch.py:329-661`) | three descriptors of `/proc/PID`, samples, evidence | sample, collect, correlate | the PID is given to another process |
| HealthCtl local checks (`healthctl.py:659-1167`) | one attempt's evidence, its descriptor, retries | probe, resolve, connect, `lstat`, hash | files written while they are hashed, abandoned calls, retries |
| CertWatch inspection (`certwatch.py:747`) | a connection, trust, one certificate | resolve, connect, handshake, decode, classify | two handshakes may meet two certificates |
| NetDoctor (`netdoctor.py:173-478`, `common/net.py`) | candidates, attempts by round | resolve, connect, retry, TLS | addresses and sockets that come and go between rounds |
| LogHound (`loghound.py:537-791`) | descriptors, a byte boundary, counters | open, read, record | files rotated, truncated and written during the run |
| DiskHound (`diskhound.py:402-703`) | a stack of entries, inode sets, budgets | list, visit, skip | the tree changes, several budgets |
| ConfigDiff (`configdiff.py:163-637`) | two descriptors, or two walks | read, verify, compare | files written while they are read, entries that cannot be read |
| PortLens (`portlens.py:354-748`) | sockets, owners, process details | query, scan, match, repeat | owners read later than sockets, cut output |
| SvcDoctor (`svcdoctor.py:208-598`) | unit properties, dependencies, journal, limits | query, assess | a unit that changes between queries, missing evidence |
| Incident Snapshot (`incidentsnapshot.py:723-978`) | sections, items | collect | items that go before they are read, sections that fail one by one |

The HealthCtl checks, PortLens, SvcDoctor and the Snapshot start children through
the bounded child; every utility ends in the safe output; HealthCtl, CertWatch and
NetDoctor connect through `common/net.py`. The utilities share two promises
about their exit codes (`common/status.py`, `docs/CONTRACTS.md`): those that judge
(HealthCtl, PortLens, SvcDoctor, NetDoctor, CertWatch, ConfigDiff), and those that
only observe (DiskHound, LogHound, ProcWatch, Incident Snapshot).

What makes each correct is said by the properties below; the hazards they answer,
with the line where each bites, are listed under `hazards` in `PROJECT.json`.

## The modules

| Module | Models | State and actions |
| --- | --- | --- |
| `CheckGraph` | `_validate_dependencies`, the selection of `main` | pure operators on dependency graphs |
| `DependencyVisit` | `_validate_dependencies` | one action per place of the recursive `visit`; the stack is explicit |
| `HealthSchedule` | `evaluate_config`, `work`, `run_check`, `main` of HealthCtl | `pc` and `batch` are the main thread's place in the scan, `attempts` and `last` a thread's; `finished` is the queue |
| `HealthVerdicts` | the promise of a HealthCtl run | per check: pending, under way, passed, ...; one exit code |
| `NetworkCheck` | `_http_check`, `run_http_head`, `_certificate_check`, `_connect_tcp_target`, `connect_first` | one action per blocking call, and `Slip` for a thread that is late |
| `CertPool` | `inspect_targets`, `main` of CertWatch | `at` and `holds` are a worker's place and target; one action per statement that touches shared state |
| `CertInspect` | `inspect_target`, `observe_endpoint`, `classify_target`, `main` of CertWatch | the connection's server, trust and leaf; servers that change certificates, days that pass |
| `LocalCheck` | `run_check` with the disk, process, systemd, file, hash, dns and tcp checks of HealthCtl | one attempt's evidence; `Changes` is what is checked |
| `SafeOutput` | `emit_output` and what it calls | one control state per command; the file system is a map from names to files |
| `AtomicOutput` | the promise of forced output | FILE holds one whole file after another |
| `BoundedChild` | `run_bounded`, `stop_process_group` | the caller's control state, the leader, its descendants and the pipes |
| `ProcSampling` | `observe_extended`, `observe_samples`, `main` of ProcWatch | the tool's control state, and the processes that hold the PID |
| `LogSources` | `open_target`, `analyze_sources`, `main` of LogHound | names and sizes of numbered logs, a rotation in progress |
| `LogLines` | `observe_descriptor` of LogHound | a position in a text, the line in progress, counters and patterns; with a reference definition of the counts of a whole text |
| `DiskScan` | `scan`, `_scan_branch`, `list_directory`, `main` of DiskHound | the tree, the stack of entries, budgets, inodes counted |
| `IncidentSections` | `collect_snapshot`, its collectors, `main` | sections to do, items of the current one, what was there and not read |
| `FilePair` | `read_file_pair`, `compare_files_mode`, `main` of ConfigDiff | two descriptors, what was read of them, and every state the files were in |
| `TreeCompare` | `collect_directory`, `compare_directories`, `main` of ConfigDiff | the walk as an explicit stack of frames |
| `PortInspect` | `inspect_selection`, `main` of PortLens | rows, holders and names as they are collected; sockets and processes move |
| `ServiceAssess` | `collect_service`, `assess_service`, `main` of SvcDoctor | the properties shown, failed dependencies, journal and limit |
| `Connectivity` | `resolve_tcp`, `diagnose`, `tls_handshake`, `classify`, `main` of NetDoctor | candidates, attempts by round |
| `ExitStatus` | `common/status.py` | the exit codes |
| `ObserverContract` | the promise of the tools that only observe | complete, useful and the exit code |
| `VerdictContract` | the promise of the tools that judge | what decides, what is missing, verdict and exit code |
| `Observers`, `Verdicts` | the compositions | `tool` says which utility runs: its module's steps are the steps, and the variables of the others stay as they are. All must implement the one contract |
| `DependencyVisitProofs`, `HealthScheduleProofs`, `CertPoolProofs`, `NetworkCheckProofs`, `SafeOutputProofs`, `BoundedChildProofs`, `ObserversProofs`, `VerdictsProofs` | | the theorems |
| the other `MC...` | | instances for TLC |

`map` in `PROJECT.json` gives the source lines of every definition that stands for
code. Definitions whose comment begins with "Mutant" are not part of any
specification: each is the neighbouring action or operator with a mistake that one
could make in the code, and shows that some property notices it.

Conventions. Source names are kept (`waiting`, `completed`, `truncated`). What a
thread does between two accesses to shared state is one action; a call that
blocks, and every read of a clock, is an action of its own. Check names, targets,
processes and files are numbers or model values, payloads only what the properties
tell apart. A check that ran is a record of its status, its attempts and its
severity. Time is a phase where only the order matters (`CertPool`,
`BoundedChild`) and counted in ticks where amounts do (`NetworkCheck`).

## What TLC checks

| Run | Instance | Shows |
| --- | --- | --- |
| `dependency_visit` | all graphs over three checks and an unknown name | the search ends and accepts exactly the graphs without an unknown, self or cyclic dependency |
| `health_schedule` | all 25 acyclic graphs of three checks, all closed selections, one or two workers, a retry, a faulty executor | order, no false cycle, refinement of `HealthVerdicts`, termination |
| `network_check` | up to three candidates, one redirect, six ticks, one tick late | the deadline over all hops, a turn for every candidate, closed sockets, gaps that are errors, termination |
| `network_fail_unobserved` | as above, smaller | **violation**, see findings |
| `cert_pool` | three targets, two workers | skipped targets were never inspected, complete reports, termination with hung workers |
| `output` | three commands, at least two of them with `--force`, that fail, are interrupted or killed anywhere, and a program that relinks FILE | an output error leaves nothing behind, the forced commands implement `AtomicOutput` |
| `output_unforced_removal` | one command with and one without `--force` | **violation**, see findings |
| `child_bounds` | a child with two descendants, one unit of output over the limit, interrupts at every point | exact results, nothing outlives the call, termination |
| `child_await_interrupted` | one descendant, an interrupt in `wait` | **violation**, see findings |
| `observers` | ProcWatch (three samples, three processes in turn), LogHound (three names, two rotations, one truncation; texts of up to four bytes in any chunks), DiskHound (trees of up to seven paths, six sets of options, one change), Incident Snapshot (four profiles, one item that goes), one at a time | each tool's own properties, termination, refinement of `ObserverContract` |
| `verdicts` | ConfigDiff (two files with two changes; two trees with one), PortLens (three sockets, two owners, one change), SvcDoctor (eight unit states, two dependencies, one change), NetDoctor (three addresses, two rounds, two changes), CertWatch (four certificates, two servers, two changes, three days), HealthCtl's local checks (eight kinds, one retry, one change), one at a time | each tool's own properties, termination, refinement of `VerdictContract` |
| `configdiff_other_filesystem` | two trees, another filesystem mounted in one | **violation**, see findings |

What the tools' own properties say:

* ProcWatch: all evidence of a report is of one process; exit 0 is a complete and
  monotonic sampling.
* LogHound: no file is read twice however names rotate; a report without a warning
  is of consecutive logs; counts are those of the text, however reads cut it
  (`LinesMatchReference`, against a definition over whole texts).
* DiskHound: a total without reservations counts exactly the inodes in scope, each
  once; only directories that were counted are listed. An entry at a mount point of the
  table, which is read once before the listing, is out of scope for the whole scan, even
  if its mount has gone: the tool skips it without a look (`diskhound.py:431-438`), and
  with it silently if other filesystems were not asked for.
* Incident Snapshot: what has gone when its turn comes never makes a snapshot partial;
  an interface that goes while its file is open does.
* ConfigDiff: two files are compared by contents that coexisted; drift of trees is
  real, and UNCHANGED is complete, for every entry that did not change.
* PortLens: NOT_FOUND is an absence. SvcDoctor: no verdict about a state that
  never was; the journal shown is its end, entry by entry. NetDoctor: nothing that
  was reachable throughout a round is UNREACHABLE. CertWatch: what is judged is a
  certificate that the connected server presented, with its own trust; trust is denied
  only after a certificate that could not be verified on its day, be it for its issuer
  or for its period.

The contracts are stated by facts, not by the tools' own flags: `complete`, `useful`,
`decisive` and `gap` are defined in each module ("The view of ...") from what was
there and what was read. `LocalCheck` has no property of its own: that a file which
is written while it is hashed, or an attempt before the last, never decides a run is
its part of `ImplementsContract`. For the evidence that is one call (a capacity, a
status) the two views have the same table of states, and nothing more is shown
than that the retry loop reports the last of them.

Bounds. Three checks have every shape of dependency that matters to a scan of one
check at a time (chain, fork, join, a dependant listed before its dependency). Two
workers on three targets or checks leave one queued while two race. Three commands
include two that race and one that comes after. Two descendants include one that
holds a pipe and one that does not, and output may exceed its limit by one unit
before and after a read. Three samples have a first, a middle and a last, and three
processes a PID that is reused between each pair of the tool's three descriptors.
Six ticks with three candidates and a floor of one let a share be above, at and
below the floor, and the deadline fall into every blocking call. Two rotations over
three names show a name that vanishes and one that comes twice. Four bytes hold two
lines, a line over the limit and its end, and cut a CR LF in two. Two changes of two
files let one change before and one after any step of the tool, so that a file may
be put back; where one change is the bound (trees, sockets, units, local checks), a
tool that read two things around it has read one old and one new. `MaxEdits`,
`MaxMoves` and the like are named in the modules. Deadlock is not checked where the
modelled program ends.

Fairness. Weak fairness of what the operating system runs: the main thread, the
clock, and in `HealthSchedule` each check's thread, because every check bounds its
own calls (that is what `NetworkCheck` and `BoundedChild` show of theirs). In the
compositions it is weak fairness of `ToolStep`: reads of local files and `/proc`
return, calls that may hang have a timeout or run in a bounded child. Nothing
is assumed of certificate workers, of child processes, of observed processes, nor
that an interrupt or another program's step ever comes. `SafeOutput` promises no
progress and has no fairness; the reading of one log (`LogLines`) is left out of the
fair steps of `observers`, as its boundary bounds it.

Findings.

* `output_unforced_removal`: a command without `--force` that fails to write
  removes FILE by name (`output.py:183`), even if a command with `--force` has
  put its result there since. `README.md:47` of the repository: "Existing files
  are refused unless `--force` is explicit".
* `child_await_interrupted`: on Ctrl-C in `process.wait`, `Popen.wait` may reap
  the child before the exception leaves it; `stop_process_group` then sees a
  return code and kills nothing (`process.py:86`), so descendants survive.
  `SECURITY.md:60` promises termination on interruption "including when surviving
  descendants outlive the helper".
* `network_fail_unobserved`: an http check whose deadline is used up by name
  resolution is a `FAIL` though nothing was tried (`healthctl.py:808`).
  `healthctl/README.md:49` keeps `FAIL` for a criterion that "was observed and not
  met".
* `configdiff_other_filesystem`: entries below a directory that is on another
  filesystem in one tree only are reported as added or removed
  (`configdiff.py:615`), although `configdiff/README.md:19` says that such
  directories "are not descended or compared and are listed as not examined".

Met while modelling, without a run: `incidentsnapshot/README.md:3` calls a section with
an IPv6 table that cannot be read unavailable, and `:20` a process section with too many
PIDs; the code keeps what it has read and makes both partial (`incidentsnapshot.py:505`
and `:664`). The exit code is the same. `IncidentSections` follows the code.
A close of the output that fails is not handled without `--force`: at `output.py:189` FILE
stays with the whole result although the tool ends with an error, and at `:181` the
unlink is skipped. `SafeOutput` follows the code (result "unclosed"), and
`FailureLeavesNothing` speaks of what is reported as `OutputError` and says that this is
the only other failure; the tests have failing writes only.

## What TLAPS proves

All theorems are about the full specifications, for every value of the constants
that the named assumptions allow.

`DependencyVisitProofs`, for any finite or infinite set of checks and any graph.
The search's invariant: `visiting` is exactly the stack (which no type can say),
the stack is a path of dependencies, and every dependency of a visited check is
visited and known (`FinishedPart`). The visited set is then closed and without a
cycle, whence `AcceptSound`; a check met on the stack closes the path to a cycle,
whence `RejectSound`.

`HealthScheduleProofs`, for any number of checks, worker limit, graphs, retries and
severities. `IInv` says where each check is (`Places`: waiting, under way in its
thread, in the queue or completed, never in two of these), that the queue has no
check twice and `running` counts exactly what is under way or queued, what the
results of a thread's retry loop can be, and what the current pass of the scan
has already settled (`PassSoFar`): checks passed over in this pass still lack
something, unless `progressed` demands another pass. The last part makes
`BlocksOnlyWhenBusy` inductive. From `IInv` follow dependency order, justified
skips, the worker limit, that nothing is lost, that blocking is justified, that
the cycle error is never raised on an accepted graph, the exit code, the
attempts, and step by step the refinement of `HealthVerdicts`.

`CertPoolProofs`, for any number of targets and workers. `IInv` puts each target in
one place (`OnePlace`), says that only failed workers leave a target without an
outcome (`NoneForgotten`), that short of the limit joined workers have ended
(`Joined`) and that the two snapshots agree with what they were taken from
(`SnapshotsAreSound`). What makes `SkippedIsNeverInspected` inductive is the order
of two reads: the outcomes are copied before the started set, and a worker marks
a target before it looks at the clock.

`NetworkCheckProofs`, for any deadline, floor, number of candidates, redirects and
reads, and any lateness of the thread: `DeadlineKept`, `SocketsClosed`,
`TurnForEveryCandidate`, `GapsReported` and `TypeCorrect`. A timeout is computed from one reading of the clock and used after
others, so `DeadlineHolds` is not inductive; `TimeoutsFit` says that the timeout of
the call that comes next ends before the deadline but for what the thread was late.
For the turns and the gaps it adds what the check's own counters say of the
candidates that it has tried and of those that are left.

`SafeOutputProofs`, for any number of commands and relinks: `IInv` says of each
command where its file is (`PlaceOf`), that what a replacement made visible is whole
and synced (`WholeWhenVisible`), that an `OutputError` has left nothing, and that only a
command without `--force` ends with a close that failed (`EndOf`); name and
place agree (`NameAgrees`), although another program relinks FILE. From it follow
`FailureLeavesNothing` and, step by step, the refinement of `AtomicOutput`.

`BoundedChildProofs`, for any bounds, any output and any number of descendants:
`NothingIsLeft` and `ExactResult`. The invariant says for each place of the caller
what is left of the group (`LeaderAt`: after the kill nothing of it runs or holds a
pipe), what its own variables say (`CallerAt`), and that what was read of a stream
that is no longer selected is all there will ever be (`OutputAt`).

`ObserversProofs` speaks of the composition `Observers`. A step is a step of the tool
that runs (`StepsOfOneTool`), so that the invariant of each tool, shown for its own
steps, is one of the composition.

* ProcWatch, for any number of samples, processes and ticks (`ProcIInv`): what each
  control state has collected is of the identity that was first read (`Evidence`,
  `Alike`), and short of a stop all samples are there; whence `OneProcess` and
  `CompleteSampling`.
* LogHound, for any number of logs and rotations (`LogIInv`): the open
  files are different ones, and so are those that were read (`LogDistinct`); unless
  something was given up or FILE was rotated twice, they are consecutive logs, read in
  their order (`LogConsecutive`). Whence `NoFileIsReadTwice` and
  `CompleteReportIsContiguous`. For the contract, what was asked for is what is
  accounted for (`LogAsked`).
* DiskHound, for any tree, options, budgets and changes (`DiskIInv`): where the scan
  is (`DiskPlaces`), which entries wait (`DiskWaits`), that the total is the number of
  inodes counted (`DiskCounts`), which of them were there when met (`DiskSaw`), which
  entries must still be counted or are reported as left out (`DiskKept`), and what the
  report says (`DiskReported`). What is in scope is fixed by the mount table, so that a
  mount that goes after it was read leaves nothing open (`DiskClear`). For `TotalIsExact` one takes a shortest path in scope
  that was missed: its directory was listed, so it was met, or left a reservation.
  `ListedWasCounted` needs only the listing (`DiskListing`).
* Incident Snapshot, for any interfaces, processes and limits (`SnapIInv`): the
  sections that are done have one status each, and partial are those that lost
  something that was there; whence `PartialIsJustified`.
* `ContractKept`: for each tool a lemma (`ProcSays`, `LogSays`, `DiskSays`,
  `SnapSays`) says how its steps look to the contract, and every such step is one of
  `ObserverContract` or a stutter. The reading of one log (`LogLines`) has no exit.
* LogHound's reading of one log, for any bytes, chunks, limits and options
  (`LinesIInv`): at each chunk the lines that have ended are counted and the last
  piece is held, as itself or as the prefix that is kept of an overlong line
  (`LinesReading`); the counters and the store are those of exactly these lines,
  filtered, excluded and dated by the line before as the options say. That a line cut
  by a chunk is the line of the text is a fact about pieces: those of a text and a
  chunk after it are those of the text, the last one going on with the first of the
  chunk. A line feed adds a piece and any other byte lengthens the last, so both are
  shown by adding a byte at a time. Whence `CountsAreOfTheText`, which also says that a source that is
  dropped leaves nothing in the store.

`VerdictsProofs` does the same for `Verdicts`.

* ConfigDiff's files, for any alphabet, contents and number of writes (`PairIInv`):
  a file's stamp only grows and equal stamps mean equal files (`PairOlder`), so that a
  verified file is what it was when it was opened; both were open before either was
  verified, and the state at that moment is the witness (`PairMet`). Whence
  `ComparedWhatCoexisted`. That two changes of a file never have equal times is the
  model's assumption about the filesystem, as it is the code's.
* ConfigDiff's directories, for any trees and number of changes (`TreeIInv`): of what
  does not change during the run a walk has, at any time, everything, for it is known,
  or below something that could not be read or was not entered, or below an entry that
  was listed and waits (`TreeComplete`); and what is known or waits is as it was listed
  (`TreeSound`). That an entry stays below its listed directory needs that whatever is
  above an entry is a directory (`TreeShape`). At the end nothing waits; whence
  `ReportedDriftIsReal` and `UnchangedMeansCompared`.
* SvcDoctor, PortLens, CertWatch's inspection and NetDoctor (`SvcIInv`, `PortIInv`,
  `CertIInv`, `NetIInv`): `VerdictOfSomeMoment`, `NotFoundIsAbsence`,
  `JudgedCertificateWasServed` and `NothingReachableIsMissed`. Each invariant relates
  what was collected to the history of what was observed: a state that was seen, a
  socket that was there throughout, a certificate that was presented, an address that
  was answering throughout the round.
* SvcDoctor's journal, for any number of entries and lines (`SvcJournal`):
  `journalctl --reverse` gives the newest entry first but the lines of an entry in
  their order, so that the first lines of its output are whole entries and the
  beginning of one older. Line by line, what `Chronological` has turned round is the
  entry in progress up to that line and, after it, all newer entries whole
  (`SvcTurnedTo`); whence `JournalIsNotTorn`.
* HealthCtl's local checks (`CheckIInv`): at each place of an attempt the evidence
  that it has, and the result that follows from it.
* `VerdictContractKept`: a run comes to its verdict before it reports and reports
  before it ends (`Concluding`); for each tool a lemma (`SvcSays`, `PairSays`, ...)
  says when its verdict is decided, incomplete or otherwise, and its exit code; and
  every such step is one of `VerdictContract` or a stutter.

Assumptions are the `ASSUME`s of the modules, or, where a module is instantiated with
substitutions, named definitions that the compositions assume (`SamplingAssumption`,
`LogSourcesAssumption`, `LogLinesAssumption`, `DiskScanAssumption`, `SectionsAssumption`,
`FilePairAssumption`, `TreeAssumption`, `PortAssumption`, `ServiceAssumption`,
`ConnectivityAssumption`, `CertAssumption`, `LocalCheckAssumption`): positive sizes,
graphs that the search accepts, retries that are natural numbers, finite trees in
which what is above an entry is a directory, journal entries of at least one line,
stores of finitely many patterns, and a signature of compressed data that has no line
feed (as none of `COMPRESSED_SIGNATURES`, `loghound.py:57`, has). TLC evaluates them in
the runs.

Proved and not checked by a run of their own any more, for the runs' properties say
more: the inductive invariants, type correctness, `BlocksOnlyWhenBusy`,
`ExitIsHonest`, `AttemptsAccounted`, `NoCheckLost`, `RunningIsExact`.

Induction over data is done by hand, for the library's theorems take an operator as a
parameter, which the installed provers cannot instantiate. The recursive definitions
are functions on `0..n`, and that such a function exists is itself shown step by step
(`RecursionExists`); a claim that would fail for some length fails for a least one
(`UpTo`, `LeastOfNat`); and a set that has the empty sequence and with each sequence
those with one element more has all of them (`AllSequences`).

Only model-checked: the liveness properties, for liveness under fairness is outside
what the prover does. Every safety property that a passing run checks is proved.

## What is not modelled

Parsing and validation of arguments, configuration, `/proc`, ASN.1 and tool output;
regular expressions and time formats; rendering, sanitising, hashing, diffs and JSON;
host and address normalisation. They are sequential transformations of one value,
and appear as nondeterministic outcomes or as symbols. Of HealthCtl's configuration
only the dependency graph is modelled; of the shared helpers for files, `/proc`,
systemd and text only what their callers' modules show. HealthCtl's scheduler, its
network checks and its local checks are three modules: the scheduler takes an
attempt's result as any of those that the other two can have.

Limits of single modules:

* `AtomicOutput` speaks of readers and kills. Of power loss it says that no file is
  visible whose contents were not synced; directories are not, in the code either, so that
  a crash of the machine may bring back the old file. `os.lstat` and `os.replace` (`output.py:194`
  and `216`) are separate steps, so that a file relinked in between is replaced.
* `LogSources`: two rotations within the opening of the names can hide a log; the
  property says so, as the code has no means to notice it. Severities, stack traces
  and the histogram of `LogLines` are left out.
* `TreeCompare`: directories change only by removal; the read budget, modes and
  owners are left out.
* `PortInspect`: who holds a socket is best effort in the code, and nothing is claimed
  of `--pid` and `--process` when a process cannot be read.
* `ServiceAssess`: `systemctl is-failed` answers for all dependencies at one moment;
  one of the four limits stands for all.
* `Connectivity`: the context files of `/proc` and `/etc` are left out.
* `LocalCheck`: severities are left out, `statvfs`, the read of a status and `is-active`
  are one step each, and an abandoned call vanishes: what it still does it does to a
  descriptor and a queue of its own.

## Plan

1. Done: every utility's core has a module, a run and its place in a contract.
2. Done: proofs of every safety property that the passing runs check, and of all four
   refinements (`HealthVerdicts`, `AtomicOutput`, `ObserverContract`,
   `VerdictContract`).
3. Next: the safety half of termination, that no tool waits on itself; then the parts
   that the section above leaves out, first the two hazards that no property covers
   (`output.py:216`, `process.py:126`).
