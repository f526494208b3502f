------------------------------- MODULE CertPool -------------------------------
(***************************************************************************)
(* inspect_targets of CertWatch (opsforge/certwatch/certwatch.py): a pool  *)
(* of daemon threads takes targets from a queue, under one time limit for  *)
(* the whole run.  The main thread joins the workers until the limit and a *)
(* grace period have passed, then makes one record per target out of two   *)
(* snapshots it takes while the workers may still be running.              *)
(*                                                                         *)
(* Time is reduced to what the code compares it with: phase "before" the   *)
(* deadline, "past" it, and "over" once wait_until has passed as well.     *)
(***************************************************************************)
EXTENDS Integers, Sequences, FiniteSets

CONSTANTS
  NumTargets,
  MaxParallel    \* MAX_PARALLEL_TARGETS

ASSUME PoolAssumption ==
  /\ NumTargets \in Nat \ {0}
  /\ MaxParallel \in Nat \ {0}

Targets == 1..NumTargets
Workers == 1..(IF MaxParallel < NumTargets THEN MaxParallel ELSE NumTargets)

ExitOK == 0
ExitFinding == 1
ExitFailure == 3
ExitInterrupted == 130

\* What inspect_target returns; FINDING stands for every status that
\* STATUS_RANK puts above VALID.
Inspected == {"VALID", "FINDING", "ERROR"}
\* UNFINISHED is the ERROR that says "did not finish within the limit".
Statuses == Inspected \cup {"SKIPPED", "UNFINISHED"}

VARIABLES
  phase,     \* what the monotonic clock has passed
  pending,   \* the queue of targets
  outcomes,  \* target -> its outcome, or "none"
  started,   \* the set of targets that workers have begun
  failures,  \* how many workers ended with an exception
  at,        \* worker -> where it is
  holds,     \* worker -> the target it has taken, or 0
  pc,        \* where the main thread is
  next,      \* the worker that the main thread starts or joins next
  finished,  \* the first snapshot: list(outcomes)
  record,    \* target -> the status reported for it, or "none"
  exit       \* the exit code, or -1

shared == <<pending, outcomes, started, failures>>
workerVars == <<at, holds>>
mainVars == <<pc, next, finished, record, exit>>
vars == <<phase, shared, workerVars, mainVars>>

NoOutcomes == [t \in Targets |-> "none"]

Init ==
  /\ phase = "before"
  /\ pending = [t \in Targets |-> t]
  /\ outcomes = NoOutcomes
  /\ started = {}
  /\ failures = 0
  /\ at = [w \in Workers |-> "new"]
  /\ holds = [w \in Workers |-> 0]
  /\ pc = "start"
  /\ next = 1
  /\ finished = NoOutcomes
  /\ record = NoOutcomes
  /\ exit = -1

-------------------------------------------------------------------------------
(* work() on a worker thread.                                              *)

Goes(w, from, to) == at[w] = from /\ at' = [at EXCEPT ![w] = to]

\* while not failures
Loop(w) ==
  /\ \/ failures = 0 /\ Goes(w, "loop", "get")
     \/ failures # 0 /\ Goes(w, "loop", "ended")
  /\ UNCHANGED <<phase, shared, holds, mainVars>>

Take(w) ==
  /\ \/ /\ pending # << >>
        /\ Goes(w, "get", "taken")
        /\ holds' = [holds EXCEPT ![w] = Head(pending)]
        /\ pending' = Tail(pending)
     \/ /\ pending = << >>
        /\ Goes(w, "get", "ended")
        /\ UNCHANGED <<pending, holds>>
  /\ UNCHANGED <<phase, outcomes, started, failures, mainVars>>

\* Mutant: started.add is forgotten.
MarkNothing(w) ==
  /\ Goes(w, "taken", "marked")
  /\ UNCHANGED <<phase, shared, holds, mainVars>>

MarkStarted(w) ==
  /\ Goes(w, "taken", "marked")
  /\ started' = started \cup {holds[w]}
  /\ UNCHANGED <<phase, pending, outcomes, failures, holds, mainVars>>

\* The worker reads the clock: it inspects, or records that time has run out.
CheckTime(w) ==
  /\ \/ /\ phase = "before"
        /\ Goes(w, "marked", "inspecting")
        /\ UNCHANGED outcomes
     \/ /\ phase # "before"
        /\ Goes(w, "marked", "loop")
        /\ outcomes' = [outcomes EXCEPT ![holds[w]] = "SKIPPED"]
  /\ UNCHANGED <<phase, pending, started, failures, holds, mainVars>>

FinishInspection(w) ==
  /\ Goes(w, "inspecting", "loop")
  /\ \E status \in Inspected : outcomes' = [outcomes EXCEPT ![holds[w]] = status]
  /\ UNCHANGED <<phase, pending, started, failures, holds, mainVars>>

\* inspect_target raises something other than CertWatchError.
Fail(w) ==
  /\ Goes(w, "inspecting", "ended")
  /\ failures' = failures + 1
  /\ UNCHANGED <<phase, pending, outcomes, started, holds, mainVars>>

WorkerStep(w) ==
  \/ Loop(w) \/ Take(w) \/ MarkStarted(w) \/ CheckTime(w)
  \/ FinishInspection(w) \/ Fail(w)

-------------------------------------------------------------------------------
(* The main thread.                                                        *)

Done(code) == pc' = "done" /\ exit' = code

StartWorker ==
  /\ pc = "start"
  /\ Goes(next, "new", "loop")
  /\ IF next + 1 \in Workers
       THEN next' = next + 1 /\ UNCHANGED pc
       ELSE next' = 1 /\ pc' = "join"
  /\ UNCHANGED <<phase, shared, holds, finished, record, exit>>

\* worker.start() raises: no thread could be created.
StartFails ==
  /\ pc = "start"
  /\ Done(ExitFailure)
  /\ UNCHANGED <<phase, shared, workerVars, next, finished, record>>

\* Mutant: join() without a time limit.
JoinEnded(w) == at[w] = "ended"
\* Mutant: the worker is only polled.
JoinPolls(w) == at[w] # "new"
\* worker.join(max(0.0, wait_until - now)) returns.
JoinReturns(w) == at[w] = "ended" \/ phase = "over"

Join ==
  /\ pc = "join"
  /\ JoinReturns(next)
  /\ IF next + 1 \in Workers
       THEN next' = next + 1 /\ UNCHANGED pc
       ELSE pc' = "joined" /\ UNCHANGED next
  /\ UNCHANGED <<phase, shared, workerVars, finished, record, exit>>

\* if failures: raise failures[0]
CheckFailures ==
  /\ pc = "joined"
  /\ \/ failures # 0 /\ Done(ExitFailure)
     \/ failures = 0 /\ pc' = "checked" /\ UNCHANGED exit
  /\ UNCHANGED <<phase, shared, workerVars, next, finished, record>>

\* finished = list(outcomes)
TakeFinished ==
  /\ pc = "checked"
  /\ finished' = outcomes
  /\ pc' = "finished"
  /\ UNCHANGED <<phase, shared, workerVars, next, record, exit>>

\* started_indexes = set(started), and the records made of the two snapshots.
TakeStarted ==
  /\ pc = "finished"
  /\ record' = [t \in Targets |->
       IF finished[t] # "none" THEN finished[t]
       ELSE IF t \in started THEN "UNFINISHED" ELSE "SKIPPED"]
  /\ pc' = "report"
  /\ UNCHANGED <<phase, shared, workerVars, next, finished, exit>>

\* aggregate_status and the end of main: a finding wins, a gap is a failure.
ExitFor(statuses) ==
  IF "FINDING" \in statuses THEN ExitFinding
  ELSE IF statuses = {"VALID"} THEN ExitOK
  ELSE ExitFailure

\* emit_output succeeds or raises OutputError.
Emit ==
  /\ pc = "report"
  /\ Done(ExitFor({record[t] : t \in Targets})) \/ Done(ExitFailure)
  /\ UNCHANGED <<phase, shared, workerVars, next, finished, record>>

Interrupt ==
  /\ pc # "done"
  /\ Done(ExitInterrupted)
  /\ UNCHANGED <<phase, shared, workerVars, next, finished, record>>

MainStep ==
  \/ StartWorker \/ StartFails \/ Join
  \/ CheckFailures \/ TakeFinished \/ TakeStarted \/ Emit

Tick ==
  /\ \/ phase = "before" /\ phase' = "past"
     \/ phase = "past" /\ phase' = "over"
  /\ UNCHANGED <<shared, workerVars, mainVars>>

Next == MainStep \/ Interrupt \/ Tick \/ \E w \in Workers : WorkerStep(w)

\* Only the clock and the main thread are fair: a worker may hang for ever in
\* network I/O.
Spec == Init /\ [][Next]_vars /\ WF_vars(MainStep) /\ WF_vars(Tick)

-------------------------------------------------------------------------------
Holding(w) == at[w] \in {"taken", "marked", "inspecting"}

TypeOK ==
  /\ phase \in {"before", "past", "over"}
  /\ pending \in Seq(Targets)
  /\ outcomes \in [Targets -> Inspected \cup {"SKIPPED", "none"}]
  /\ started \in SUBSET Targets
  /\ failures \in Nat
  /\ at \in [Workers -> {"new", "loop", "get", "taken", "marked", "inspecting", "ended"}]
  /\ holds \in [Workers -> Targets \cup {0}]
  /\ pc \in {"start", "join", "joined", "checked", "finished", "report", "done"}
  /\ next \in Workers
  /\ finished \in [Targets -> Inspected \cup {"SKIPPED", "none"}]
  /\ record \in [Targets -> Statuses \cup {"none"}]
  /\ exit \in {-1, ExitOK, ExitFinding, ExitFailure, ExitInterrupted}

\* A target reported as not attempted has not been inspected, and no worker that
\* outlives the report can still inspect it.
SkippedIsNeverInspected ==
  \A t \in Targets : record[t] = "SKIPPED" =>
    /\ outcomes[t] \in {"none", "SKIPPED"}
    /\ \A w \in Workers : at[w] = "inspecting" => holds[w] # t
    /\ phase # "before"

\* Unless the grace period has passed, the report is exactly what the workers
\* found: every target has its own outcome and no worker ended with an exception.
ReportIsComplete ==
  pc = "report" /\ phase # "over" =>
    /\ failures = 0
    /\ \A t \in Targets : outcomes[t] # "none" /\ record[t] = outcomes[t]

\* Exit 0 means that every target was inspected and found valid, whatever
\* workers that outlive the report do; exit 1 that some target has a finding.
ExitIsHonest ==
  /\ exit = ExitOK => failures = 0 /\ \A t \in Targets : outcomes[t] = "VALID"
  /\ exit = ExitFinding => \E t \in Targets : outcomes[t] = "FINDING"

\* A hung worker cannot keep the run from ending.
RunEnds == <>(pc = "done")

-------------------------------------------------------------------------------
(* The inductive invariant.                                                *)

Queued(t) == \E i \in DOMAIN pending : pending[i] = t
Held(t) == \E w \in Workers : Holding(w) /\ holds[w] = t

\* A target is in one place only: queued, held by one worker, or done with.
OnePlace ==
  /\ \A i, j \in DOMAIN pending : pending[i] = pending[j] => i = j
  /\ \A t \in Targets : Queued(t) => outcomes[t] = "none" /\ ~Held(t)
  /\ \A w \in Workers : Holding(w) => holds[w] \in Targets /\ outcomes[holds[w]] = "none"
  /\ \A v, w \in Workers : Holding(v) /\ Holding(w) /\ holds[v] = holds[w] => v = w

\* Only a worker that failed leaves a target without an outcome.
NoneForgotten ==
  /\ failures = 0 => \A t \in Targets : Queued(t) \/ Held(t) \/ outcomes[t] # "none"
  /\ failures # 0 => \E t \in Targets : ~Queued(t) /\ ~Held(t) /\ outcomes[t] = "none"
  /\ \A w \in Workers : at[w] = "ended" /\ failures = 0 => pending = << >>

StartedIsSound ==
  /\ \A w \in Workers : at[w] \in {"marked", "inspecting"} => holds[w] \in started
  /\ \A t \in Targets : outcomes[t] # "none" => t \in started

\* Short of the limit, the main thread has waited for the workers it joined.
Joined ==
  phase # "over" =>
    /\ pc = "join" => \A w \in Workers : w < next => at[w] = "ended"
    /\ pc \in {"joined", "checked", "finished", "report"} =>
         \A w \in Workers : at[w] = "ended"
    /\ pc \in {"checked", "finished", "report"} => failures = 0

SnapshotsAreSound ==
  /\ \A t \in Targets : finished[t] # "none" => outcomes[t] = finished[t]
  /\ \A t \in Targets : record[t] \in Inspected => outcomes[t] = record[t]
  /\ pc = "finished" /\ phase # "over" => finished = outcomes
  /\ pc \in {"start", "join", "joined", "checked", "finished"} => record = NoOutcomes
  /\ pc = "report" => \A t \in Targets : record[t] # "none"
  /\ pc # "done" <=> exit = -1

\* A worker sees the deadline passed before it skips.
SkippedIsLate ==
  \A t \in Targets : outcomes[t] = "SKIPPED" => phase # "before"

IInv ==
  /\ TypeOK
  /\ OnePlace
  /\ NoneForgotten
  /\ StartedIsSound
  /\ Joined
  /\ SnapshotsAreSound
  /\ SkippedIsLate
  /\ SkippedIsNeverInspected
  /\ ReportIsComplete
  /\ ExitIsHonest
===============================================================================
