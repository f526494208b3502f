---------------------------- MODULE HealthVerdicts ----------------------------
(***************************************************************************)
(* What a HealthCtl run promises, without queues, threads or scans: every  *)
(* selected check goes from pending to a verdict, a check is begun only    *)
(* when all its dependencies passed, it is skipped only when one of them   *)
(* did not, at most workers checks are under way, and the exit code is     *)
(* decided by the verdicts of all selected checks or says that there is no *)
(* report.  Module HealthSchedule implements this.                         *)
(***************************************************************************)
EXTENDS CheckGraph, Integers, FiniteSets

CONSTANTS Checks, Graphs, MaxWorkers

VARIABLES
  dependsOn,
  selected,
  workers,
  verdict,   \* check -> "pending", "running", or what the report will say
  exit       \* the exit code; NoExit while the program runs

vars == <<dependsOn, selected, workers, verdict, exit>>

NoExit == -1
ExitOK == 0
ExitFinding == 1
ExitFailure == 3
ExitInterrupted == 130

Findings == {"WARNING", "CRITICAL"}
Settled == {"PASS", "ERROR", "SKIPPED"} \cup Findings

Init ==
  /\ dependsOn \in Graphs
  /\ selected \in SUBSET Checks
  /\ ClosedSelection(selected, dependsOn)
  /\ workers \in 1..MaxWorkers
  /\ verdict = [c \in Checks |-> "pending"]
  /\ exit = NoExit

UnderWay == {c \in Checks : verdict[c] = "running"}

Becomes(c, v) ==
  /\ exit = NoExit
  /\ verdict' = [verdict EXCEPT ![c] = v]
  /\ UNCHANGED <<dependsOn, selected, workers, exit>>

Begin(c) ==
  /\ c \in selected
  /\ verdict[c] = "pending"
  /\ \A d \in dependsOn[c] : verdict[d] = "PASS"
  /\ Cardinality(UnderWay) < workers
  /\ Becomes(c, "running")

Settle(c) ==
  /\ verdict[c] = "running"
  /\ \E v \in Settled \ {"SKIPPED"} : Becomes(c, v)

\* A dependency that did not pass, itself perhaps skipped.
Skip(c) ==
  /\ c \in selected
  /\ verdict[c] = "pending"
  /\ \A d \in dependsOn[c] : verdict[d] \in Settled
  /\ \E d \in dependsOn[c] : verdict[d] # "PASS"
  /\ Becomes(c, "SKIPPED")

\* The published exit codes: a finding decides, a gap is never success.
ExitFor(verdicts) ==
  IF verdicts \cap Findings # {} THEN ExitFinding
  ELSE IF verdicts \subseteq {"PASS"} THEN ExitOK
  ELSE ExitFailure

Report ==
  /\ exit = NoExit
  /\ \A c \in selected : verdict[c] \in Settled
  /\ exit' = ExitFor({verdict[c] : c \in selected})
  /\ UNCHANGED <<dependsOn, selected, workers, verdict>>

\* Interrupted, or failed without a report.
Abandon ==
  /\ exit = NoExit
  /\ exit' \in {ExitFailure, ExitInterrupted}
  /\ UNCHANGED <<dependsOn, selected, workers, verdict>>

Next ==
  \/ \E c \in Checks : Begin(c) \/ Settle(c) \/ Skip(c)
  \/ Report
  \/ Abandon

Spec == Init /\ [][Next]_vars
===============================================================================
