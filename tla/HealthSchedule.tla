---------------------------- MODULE HealthSchedule ----------------------------
(***************************************************************************)
(* The core of HealthCtl (opsforge/healthctl/healthctl.py): evaluate_config*)
(* runs each selected check on a thread of its own once the check's        *)
(* dependencies have finished, run_check retries it, and main turns the    *)
(* results into an exit code.                                              *)
(*                                                                         *)
(* One process is the main thread: it scans the waiting checks (pc "scan"),*)
(* blocks on the queue of finished checks ("wait"), and reports ("report").*)
(* The others are the check threads; they share only the queue with it.    *)
(* Checks are numbered in the order of the configuration file, which is    *)
(* the order in which the scan meets them.                                 *)
(***************************************************************************)
EXTENDS CheckGraph, Integers, Sequences, FiniteSets

CONSTANTS
  NumChecks,
  Graphs,           \* the depends_on graphs of the configurations considered
  MaxWorkers,       \* the greatest max_workers considered
  Retries,          \* per check, the retries it is configured with
  Severity,         \* per check, its configured severity
  Certificates,     \* the checks whose runner grades its own findings
  FaultyExecutors   \* checks whose executor may end without a usable result

Checks == 1..NumChecks
Findings == {"WARNING", "CRITICAL"}

ASSUME ScheduleAssumption ==
  /\ NumChecks \in Nat \ {0}
  /\ MaxWorkers \in Nat \ {0}
  /\ Graphs \subseteq [Checks -> SUBSET Checks]
  /\ \A dep \in Graphs : AcceptedGraph(Checks, dep)
  /\ Retries \in [Checks -> Nat]
  /\ Severity \in [Checks -> Findings]
  /\ Certificates \subseteq Checks
  /\ FaultyExecutors \subseteq Checks

\* Exit codes (opsforge/common/status.py); NoExit while the program runs.
NoExit == -1
ExitOK == 0
ExitFinding == 1
ExitFailure == 3
ExitInterrupted == 130

Result(status, severity, attempts) ==
  [status |-> status, severity |-> severity, attempts |-> attempts]

Pending == Result("PENDING", "NONE", 0)   \* no entry in completed yet
Skipped == Result("SKIPPED", "NONE", 0)
Invalid == Result("INVALID", "NONE", 0)   \* None, or a result of another check

Statuses == {"PASS", "FAIL", "ERROR", "SKIPPED"}
Results ==
  [status : Statuses, severity : Findings \cup {"OK", "NONE"}, attempts : Nat]

\* What the check threads put on the queue.
Entries == [check : Checks, result : Results \cup {Invalid}]

VARIABLES
  dependsOn,   \* check.depends_on
  selected,    \* the checks --profile and --group keep
  workers,     \* config.max_workers after --workers
  pc,          \* where the main thread is
  batch,       \* what is left of list(waiting) in the current pass
  progressed,  \* the flag of the same name
  waiting,
  running,
  completed,
  finished,    \* the queue the check threads put their results on
  thread,      \* per check: "none", "running", or "ended" after its put
  attempts,    \* per check: attempts made by run_check
  last,        \* per check: the result of the latest attempt
  exit         \* the exit code

config == <<dependsOn, selected, workers>>
threads == <<thread, attempts, last>>
vars == <<config, pc, batch, progressed, waiting, running, completed, finished,
          threads, exit>>

\* main() selects checks by profile and group and refuses a selection that
\* leaves out a dependency; then evaluate_config begins.
Init ==
  /\ dependsOn \in Graphs
  /\ selected \in SUBSET Checks
  /\ ClosedSelection(selected, dependsOn)
  /\ workers \in 1..MaxWorkers
  /\ pc = "scan"
  /\ batch = {}
  /\ progressed = TRUE
  /\ waiting = selected
  /\ running = 0
  /\ completed = [c \in Checks |-> Pending]
  /\ finished = << >>
  /\ thread = [c \in Checks |-> "none"]
  /\ attempts = [c \in Checks |-> 0]
  /\ last = [c \in Checks |-> Pending]
  /\ exit = NoExit

Stop(code) == pc' = "done" /\ exit' = code

-------------------------------------------------------------------------------
(* The scan of the main thread.                                            *)

DependenciesDone(c) == \A d \in dependsOn[c] : completed[d] # Pending

\* Mutant: an error or a skip of the dependency is no obstacle.
UnmetFindings(c) == {d \in dependsOn[c] : completed[d].status = "FAIL"}
Unmet(c) == {d \in dependsOn[c] : completed[d].status # "PASS"}

WorkerFree == running < workers

\* The for loop has come to check c.
AtCheck(c) ==
  /\ pc = "scan"
  /\ c \in batch
  /\ \A d \in batch : c <= d
  /\ batch' = batch \ {c}

\* Mutant: the scan does not take a skip for progress.
SkipUnnoticed(c) ==
  /\ AtCheck(c)
  /\ DependenciesDone(c)
  /\ Unmet(c) # {}
  /\ completed' = [completed EXCEPT ![c] = Skipped]
  /\ waiting' = waiting \ {c}
  /\ UNCHANGED <<config, pc, progressed, running, finished, threads, exit>>

SkipCheck(c) ==
  /\ AtCheck(c)
  /\ DependenciesDone(c)
  /\ Unmet(c) # {}
  /\ completed' = [completed EXCEPT ![c] = Skipped]
  /\ waiting' = waiting \ {c}
  /\ progressed' = TRUE
  /\ UNCHANGED <<config, pc, running, finished, threads, exit>>

StartCheck(c) ==
  /\ AtCheck(c)
  /\ DependenciesDone(c)
  /\ Unmet(c) = {}
  /\ WorkerFree
  /\ thread' = [thread EXCEPT ![c] = "running"]
  /\ running' = running + 1
  /\ waiting' = waiting \ {c}
  /\ progressed' = TRUE
  /\ UNCHANGED <<config, pc, completed, finished, attempts, last, exit>>

\* threading.Thread.start raises: no thread could be created.
StartFails(c) ==
  /\ AtCheck(c)
  /\ DependenciesDone(c)
  /\ Unmet(c) = {}
  /\ WorkerFree
  /\ Stop(ExitFailure)
  /\ UNCHANGED <<config, progressed, waiting, running, completed, finished, threads>>

PostponeCheck(c) ==
  /\ AtCheck(c)
  /\ DependenciesDone(c) => Unmet(c) = {} /\ ~WorkerFree
  /\ UNCHANGED <<config, pc, progressed, waiting, running, completed, finished,
                 threads, exit>>

\* while progressed: another pass over a fresh list(waiting).
Rescan ==
  /\ pc = "scan"
  /\ batch = {}
  /\ progressed
  /\ progressed' = FALSE
  /\ batch' = waiting
  /\ UNCHANGED <<config, pc, waiting, running, completed, finished, threads, exit>>

\* A pass changed nothing and a check is under way.
AwaitResult ==
  /\ pc = "scan"
  /\ batch = {}
  /\ ~progressed
  /\ running # 0
  /\ pc' = "wait"
  /\ UNCHANGED <<config, batch, progressed, waiting, running, completed, finished,
                 threads, exit>>

\* A pass changed nothing and nothing is under way: "if not running: break",
\* then the error about a cycle if checks are left.
FinishEvaluation ==
  /\ pc = "scan"
  /\ batch = {}
  /\ ~progressed
  /\ running = 0
  /\ \/ waiting # {} /\ Stop(ExitFailure)
     \/ waiting = {} /\ pc' = "report" /\ UNCHANGED exit
  /\ UNCHANGED <<config, batch, progressed, waiting, running, completed, finished,
                 threads>>

\* finished.get() returns, and the result is recorded or refused.
ReceiveResult ==
  /\ pc = "wait"
  /\ finished # << >>
  /\ finished' = Tail(finished)
  /\ running' = running - 1
  /\ LET check == Head(finished).check
         result == Head(finished).result
     IN \/ /\ result.status \in Statuses
           /\ completed' = [completed EXCEPT ![check] = result]
           /\ pc' = "scan"
           /\ progressed' = TRUE
           /\ UNCHANGED exit
        \/ /\ result.status \notin Statuses
           /\ Stop(ExitFailure)
           /\ UNCHANGED <<completed, progressed>>
  /\ UNCHANGED <<config, batch, waiting, threads>>

-------------------------------------------------------------------------------
(* run_check on the thread of check c.                                     *)

\* What one call of the check's runner may return.
RunnerResults(c) ==
  {Result("PASS", "OK", 0), Result("ERROR", "NONE", 0), Result("FAIL", Severity[c], 0)}
  \cup (IF c \in Certificates THEN {Result("FAIL", s, 0) : s \in Findings} ELSE {})

\* run_check leaves its loop: at the first PASS, or out of retries.
LastAttempt(c) == last[c].status = "PASS" \/ attempts[c] > Retries[c]

RunAttempt(c) ==
  /\ pc # "done"
  /\ thread[c] = "running"
  /\ ~LastAttempt(c)
  /\ attempts' = [attempts EXCEPT ![c] = @ + 1]
  /\ \E r \in RunnerResults(c) : last' = [last EXCEPT ![c] = r]
  /\ UNCHANGED <<config, pc, batch, progressed, waiting, running, completed,
                 finished, thread, exit>>

\* The severity run_check gives the result it returns.
FinalSeverity(c, result) ==
  IF result.status = "PASS" THEN "OK"
  ELSE IF result.status # "FAIL" THEN "NONE"
  ELSE IF result.severity \in Findings THEN result.severity
  ELSE Severity[c]

FinalResult(c) ==
  Result(last[c].status, FinalSeverity(c, last[c]), attempts[c])

\* Mutant: the put is not in a finally clause, an error skips it.
PutUnlessError(c, result) ==
  /\ finished' = IF result.status = "ERROR" THEN finished
                 ELSE Append(finished, [check |-> c, result |-> result])
  /\ thread' = [thread EXCEPT ![c] = "ended"]
  /\ UNCHANGED <<config, pc, batch, progressed, waiting, running, completed,
                 attempts, last, exit>>

\* finished.put((check, result)) and the end of the thread.
Put(c, result) ==
  /\ finished' = Append(finished, [check |-> c, result |-> result])
  /\ thread' = [thread EXCEPT ![c] = "ended"]
  /\ UNCHANGED <<config, pc, batch, progressed, waiting, running, completed,
                 attempts, last, exit>>

PostResult(c) ==
  /\ pc # "done"
  /\ thread[c] = "running"
  /\ LastAttempt(c)
  /\ Put(c, FinalResult(c))

\* The executor of evaluate_config's caller raises past "except Exception" or
\* returns the result of another check: the finally clause puts it all the same.
PostInvalid(c) ==
  /\ pc # "done"
  /\ c \in FaultyExecutors
  /\ thread[c] = "running"
  /\ Put(c, Invalid)

-------------------------------------------------------------------------------
(* The end of main().                                                      *)

\* aggregate_status over a set of results.
AggregateStatus(results) ==
  LET failed == {r \in results : r.status = "FAIL"}
      passed == {r \in results : r.status = "PASS"}
  IN IF failed # {}
       THEN IF \A r \in failed : r.severity = "WARNING" THEN "WARNING" ELSE "CRITICAL"
     ELSE IF passed = results THEN "OK"
     ELSE IF passed # {} THEN "INCOMPLETE"
     ELSE "ERROR"

\* AGGREGATE_EXIT_CODES
ResultExitCode(results) ==
  IF AggregateStatus(results) = "OK" THEN ExitOK
  ELSE IF AggregateStatus(results) \in Findings THEN ExitFinding
  ELSE ExitFailure

\* emit_output succeeds, or fails with OutputError.
Emit ==
  /\ pc = "report"
  /\ \/ Stop(ResultExitCode({completed[c] : c \in selected}))
     \/ Stop(ExitFailure)
  /\ UNCHANGED <<config, batch, progressed, waiting, running, completed, finished,
                 threads>>

\* KeyboardInterrupt in the main thread; the check threads are abandoned.
Interrupt ==
  /\ pc # "done"
  /\ Stop(ExitInterrupted)
  /\ UNCHANGED <<config, batch, progressed, waiting, running, completed, finished,
                 threads>>

MainStep ==
  \/ \E c \in Checks :
       SkipCheck(c) \/ StartCheck(c) \/ StartFails(c) \/ PostponeCheck(c)
  \/ Rescan
  \/ AwaitResult
  \/ FinishEvaluation
  \/ ReceiveResult
  \/ Emit

ThreadStep(c) == RunAttempt(c) \/ PostResult(c) \/ PostInvalid(c)

Next == MainStep \/ (\E c \in Checks : ThreadStep(c)) \/ Interrupt

\* The scheduler of the interpreter runs every thread that can run.  A check
\* attempt is one step because each runner has a deadline of its own.
Fairness == WF_vars(MainStep) /\ \A c \in Checks : WF_vars(ThreadStep(c))

Spec == Init /\ [][Next]_vars /\ Fairness

-------------------------------------------------------------------------------
Completed == {c \in Checks : completed[c] # Pending}
Inflight == {c \in Checks : thread[c] # "none" /\ c \notin Completed}

TypeOK ==
  /\ dependsOn \in Graphs
  /\ selected \in SUBSET Checks
  /\ workers \in 1..MaxWorkers
  /\ pc \in {"scan", "wait", "report", "done"}
  /\ batch \in SUBSET Checks
  /\ progressed \in BOOLEAN
  /\ waiting \in SUBSET Checks
  /\ running \in Int
  /\ completed \in [Checks -> Results \cup {Pending}]
  /\ finished \in Seq(Entries)
  /\ thread \in [Checks -> {"none", "running", "ended"}]
  /\ attempts \in [Checks -> Nat]
  /\ last \in [Checks -> Results \cup {Pending}]
  /\ exit \in {NoExit, ExitOK, ExitFinding, ExitFailure, ExitInterrupted}

\* A check whose thread was ever started has only passed dependencies: not just
\* finished ones, and not ones whose retries are still under way.
DependencyOrder ==
  \A c \in Checks : thread[c] # "none" =>
    \A d \in dependsOn[c] : completed[d].status = "PASS"

\* A check is reported as skipped only if it never ran and a dependency that
\* has finished did not pass.
SkipIsJustified ==
  \A c \in Checks : completed[c] = Skipped =>
    /\ thread[c] = "none"
    /\ \E d \in dependsOn[c] : completed[d].status \in {"FAIL", "ERROR", "SKIPPED"}

\* The counter running, on which the worker limit and the end of the loop both
\* rest, is exactly the number of threads whose result was not received.
RunningIsExact ==
  pc # "done" => running = Cardinality(Inflight) /\ running <= workers

\* Every selected check is in exactly one place, so none is reported twice and
\* none is lost between the waiting list, the threads, the queue and the report.
NoCheckLost ==
  pc # "done" =>
    /\ selected = waiting \cup Inflight \cup Completed
    /\ waiting \cap (Inflight \cup Completed) = {}
    /\ \A c \in Inflight :
         thread[c] = "ended" <=> \E i \in DOMAIN finished : finished[i].check = c

\* The main thread blocks on the queue only if a result will come, and only if
\* no check that waits could be skipped or started: a check starts as soon as
\* its own dependencies have finished and a worker is free.
BlocksOnlyWhenBusy ==
  pc = "wait" =>
    /\ Inflight # {}
    /\ \A c \in Inflight :
         thread[c] = "running" \/ \E i \in DOMAIN finished : finished[i].check = c
    /\ \A c \in waiting :
         DependenciesDone(c) => Unmet(c) = {} /\ Cardinality(Inflight) = workers

\* The loop never ends with checks left over: on the graphs that
\* _validate_dependencies accepts, "contains a cycle" is never reported.
NoFalseCycle ==
  pc = "scan" /\ batch = {} /\ ~progressed /\ running = 0 => waiting = {}

\* Exit 0 and 1 are given only for a complete set of results: 0 if and only if
\* every selected check passed, 1 if and only if one failed.
ExitIsHonest ==
  exit \in {ExitOK, ExitFinding} =>
    /\ selected \subseteq Completed
    /\ exit = ExitOK <=> \A c \in selected : completed[c].status = "PASS"
    /\ exit = ExitFinding <=> \E c \in selected : completed[c].status = "FAIL"

\* A result other than PASS has used up the configured retries, a PASS is the
\* first one, and only a finding or a PASS carries a severity.
AttemptsAccounted ==
  \A c \in Completed :
    /\ completed[c].status \in {"FAIL", "ERROR"} => completed[c].attempts = Retries[c] + 1
    /\ completed[c].status = "PASS" => completed[c].attempts \in 1..(Retries[c] + 1)
    /\ completed[c].status = "FAIL" <=> completed[c].severity \in Findings

\* Every run ends, whatever the graph and however the threads are interleaved.
RunEnds == <>(pc = "done")

-------------------------------------------------------------------------------
(* The inductive invariant: what the properties above rest on.             *)

\* A result that run_check can have returned for check c.
GoodResult(c, r) ==
  /\ r \in Results
  /\ r.status \in {"PASS", "FAIL", "ERROR"}
  /\ r.attempts \in 1..(Retries[c] + 1)
  /\ r.status # "PASS" => r.attempts = Retries[c] + 1
  /\ r.status = "FAIL" <=> r.severity \in Findings

ResultsAreGood ==
  /\ \A c \in Checks : completed[c] \in {Pending, Skipped} \/ GoodResult(c, completed[c])
  /\ \A i \in DOMAIN finished :
       finished[i].result = Invalid \/ GoodResult(finished[i].check, finished[i].result)

RetryLoop ==
  \A c \in Checks :
    /\ attempts[c] <= Retries[c] + 1
    /\ attempts[c] = 0 => last[c] = Pending
    /\ attempts[c] # 0 => last[c] \in RunnerResults(c)

Places ==
  /\ batch \subseteq waiting
  /\ waiting \subseteq selected
  /\ \A c \in selected \ waiting : thread[c] # "none" \/ completed[c] = Skipped
  /\ \A c \in Checks :
       /\ thread[c] # "none" => c \in selected \ waiting
       /\ completed[c] # Pending => c \in selected \ waiting
       /\ completed[c] # Pending => (thread[c] = "none" <=> completed[c] = Skipped)

Queue ==
  /\ \A i \in DOMAIN finished :
       thread[finished[i].check] = "ended" /\ completed[finished[i].check] = Pending
  /\ \A i, j \in DOMAIN finished : finished[i].check = finished[j].check => i = j
  /\ \A c \in Checks :
       /\ completed[c] # Pending => thread[c] # "running"
       /\ pc # "done" /\ thread[c] = "ended" /\ completed[c] = Pending =>
            \E i \in DOMAIN finished : finished[i].check = c

\* The main thread has decided that c can be neither skipped nor started.
Blocked(c) == DependenciesDone(c) => Unmet(c) = {} /\ ~WorkerFree

\* What a pass without progress has established for the checks it has seen.
PassSoFar ==
  /\ pc = "scan" /\ ~progressed => \A c \in waiting \ batch : Blocked(c)
  /\ pc = "wait" => running # 0 /\ \A c \in waiting : Blocked(c)
  /\ pc = "report" => running = 0 /\ waiting = {}
  /\ pc # "done" <=> exit = NoExit

IInv ==
  /\ TypeOK
  /\ ClosedSelection(selected, dependsOn)
  /\ ResultsAreGood
  /\ RetryLoop
  /\ Places
  /\ Queue
  /\ PassSoFar
  /\ RunningIsExact
  /\ DependencyOrder
  /\ SkipIsJustified
  /\ ExitIsHonest

-------------------------------------------------------------------------------
\* The verdict of a check at the level of module HealthVerdicts.
Verdict(c) ==
  IF c \in Completed
    THEN IF completed[c].status = "FAIL" THEN completed[c].severity
         ELSE completed[c].status
  ELSE IF thread[c] = "none" THEN "pending" ELSE "running"

Verdicts == INSTANCE HealthVerdicts WITH verdict <- [c \in Checks |-> Verdict(c)]

\* The threads, the queue and the repeated scans implement HealthVerdicts.
ImplementsVerdicts == Verdicts!Spec
===============================================================================
