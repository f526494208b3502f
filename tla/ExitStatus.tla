------------------------------ MODULE ExitStatus ------------------------------
(* The exit codes that every tool uses (opsforge/common/status.py).        *)
EXTENDS Integers

ExitOK == 0
ExitFinding == 1
ExitUsage == 2
ExitFailure == 3
ExitInterrupted == 130
===============================================================================
