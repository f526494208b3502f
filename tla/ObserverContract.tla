--------------------------- MODULE ObserverContract ---------------------------
(***************************************************************************)
(* What the observation-only tools promise by their exit code              *)
(* (opsforge/common/status.py): DiskHound, LogHound, ProcWatch and         *)
(* Incident Snapshot.  0 is a complete observation, 1 a partial but useful *)
(* one, 2 says that the target is of no use, 3 that there is no report, or *)
(* none that could be put out, and 130 that the run was interrupted.       *)
(*                                                                         *)
(* Whether the observation is complete is a fact about what was there and  *)
(* what was read, not about the flags that a tool keeps.                   *)
(***************************************************************************)
EXTENDS Integers

VARIABLES
  complete,  \* all that was asked for was observed
  useful,    \* the evidence without which there is no report is there
  exit       \* the exit code, or -1

vars == <<complete, useful, exit>>

ExitOK == 0
ExitFinding == 1
ExitUsage == 2
ExitFailure == 3
ExitInterrupted == 130

Init ==
  /\ complete \in BOOLEAN /\ useful \in BOOLEAN
  /\ exit = -1

Observe ==
  /\ exit = -1
  /\ complete' \in BOOLEAN /\ useful' \in BOOLEAN
  /\ UNCHANGED exit

Conclude ==
  /\ exit = -1
  /\ \/ exit' = ExitOK /\ complete /\ useful
     \/ exit' = ExitFinding /\ useful
     \/ exit' = ExitUsage /\ ~useful
  /\ UNCHANGED <<complete, useful>>

\* No report is made, whatever the step that fails has observed.
GiveUp ==
  /\ exit = -1
  /\ exit' \in {ExitFailure, ExitInterrupted}
  /\ complete' \in BOOLEAN /\ useful' \in BOOLEAN

Next == Observe \/ Conclude \/ GiveUp

Spec == Init /\ [][Next]_vars
===============================================================================
