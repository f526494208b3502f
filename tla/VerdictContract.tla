---------------------------- MODULE VerdictContract ---------------------------
(***************************************************************************)
(* What the tools that judge promise by their exit code                    *)
(* (docs/CONTRACTS.md, opsforge/common/status.py): an observation that     *)
(* decides the question decides it whatever else is missing, and without   *)
(* one a gap is never passed over as if it were an answer.                 *)
(*                                                                         *)
(* For PortLens what decides is a match, exit 0; for the others it is a    *)
(* finding, exit 1.                                                        *)
(***************************************************************************)
EXTENDS ExitStatus

VARIABLES
  codes,     \* the exit codes [decided, otherwise] of the tool
  decisive,  \* what decides was observed
  gap,       \* something without which there is no answer was not observed
  verdict,   \* "none", "decided", "otherwise" or "incomplete"
  exit       \* the exit code, or -1

vars == <<codes, decisive, gap, verdict, exit>>

Init ==
  /\ codes \in {[decided |-> ExitOK, otherwise |-> ExitFinding], [decided |-> ExitFinding, otherwise |-> ExitOK]}
  /\ decisive = FALSE /\ gap \in BOOLEAN
  /\ verdict = "none" /\ exit = -1

Observe ==
  /\ verdict = "none" /\ exit = -1
  /\ decisive' \in BOOLEAN /\ gap' \in BOOLEAN
  /\ UNCHANGED <<codes, verdict, exit>>

Judge ==
  /\ verdict = "none" /\ exit = -1
  /\ verdict' = IF decisive THEN "decided" ELSE IF gap THEN "incomplete" ELSE "otherwise"
  /\ UNCHANGED <<codes, decisive, gap, exit>>

CodeOf(v) == CASE v = "decided" -> codes.decided [] v = "otherwise" -> codes.otherwise [] v = "incomplete" -> ExitFailure

\* The verdict is put out, or cannot be.
Conclude ==
  /\ verdict # "none" /\ exit = -1
  /\ exit' \in {CodeOf(verdict), ExitFailure, ExitInterrupted}
  /\ UNCHANGED <<codes, decisive, gap, verdict>>

\* There is no verdict, whatever the step that fails has observed.
GiveUp ==
  /\ verdict = "none" /\ exit = -1
  /\ exit' \in {ExitUsage, ExitFailure, ExitInterrupted}
  /\ decisive' \in BOOLEAN /\ gap' \in BOOLEAN
  /\ UNCHANGED <<codes, verdict>>

Next == Observe \/ Judge \/ Conclude \/ GiveUp

Spec == Init /\ [][Next]_vars
===============================================================================
