----------------------------- MODULE ProcSampling -----------------------------
(***************************************************************************)
(* observe_extended, observe_samples and the exit of ProcWatch             *)
(* (opsforge/procwatch/procwatch.py): a process is sampled through a       *)
(* descriptor of /proc/PID, opened anew for the initial evidence, for the  *)
(* samples and for the final evidence, while processes under that PID run, *)
(* exit, are reaped and have their PID given to the next one.              *)
(*                                                                         *)
(* A process stands for its start ticks: two processes of the same PID     *)
(* never start within one clock tick.  User and system ticks are one       *)
(* counter, and auxiliary evidence is the process it was read from.        *)
(***************************************************************************)
EXTENDS Integers, Sequences

CONSTANTS
  Requested,     \* the number of samples asked for
  MaxProcesses,  \* bound: how many processes the PID goes through
  MaxTicks       \* bound: what the CPU counter can be

SamplingAssumption ==
  /\ Requested \in Nat /\ Requested >= 2
  /\ MaxProcesses \in Nat \ {0} /\ MaxTicks \in Nat

ExitOK == 0
ExitFinding == 1
ExitUsage == 2
ExitFailure == 3
ExitInterrupted == 130

VARIABLES
  current,  \* the process the PID now belongs to, or 0
  last,     \* the last process that was given the PID
  zombie,   \* the current process has exited
  ticks,    \* its CPU counter
  pc,       \* where the tool is
  fd,       \* the process whose /proc directory is open, or 0
  identity, \* start ticks of the initial auxiliary evidence, or 0 for None
  aux,      \* the process of the initial auxiliary evidence, or 0 for None
  cgroup,   \* the process of the cgroup context, or 0 for None
  samples,  \* the samples that were kept
  stopped,  \* sampling ended early, for a reason
  final,    \* the process of the final auxiliary evidence, or 0 for None
  warned,   \* a warning was printed
  exit      \* the exit code, or -1

process == <<current, last, zombie, ticks>>
evidence == <<identity, aux, cgroup, final, warned>>
vars == <<process, pc, fd, evidence, samples, stopped, exit>>

Init ==
  /\ current \in {0, 1} /\ last = current
  /\ zombie \in BOOLEAN /\ (current = 0 => ~zombie)
  /\ ticks \in 0..MaxTicks
  /\ pc = "initial_open"
  /\ fd = 0 /\ identity = 0 /\ aux = 0 /\ cgroup = 0 /\ final = 0
  /\ samples = << >>
  /\ stopped = FALSE /\ warned = FALSE
  /\ exit = -1

-------------------------------------------------------------------------------
(* The processes under the PID.                                            *)

Works ==
  /\ current # 0 /\ ~zombie
  /\ ticks' \in 0..MaxTicks
  /\ UNCHANGED <<current, last, zombie>>

Exits ==
  /\ current # 0 /\ ~zombie
  /\ zombie' = TRUE
  /\ UNCHANGED <<current, last, ticks>>

Reaped ==
  /\ zombie
  /\ current' = 0 /\ zombie' = FALSE
  /\ UNCHANGED <<last, ticks>>

Reused ==
  /\ current = 0
  /\ last < MaxProcesses
  /\ last' = last + 1 /\ current' = last + 1 /\ ticks' = 0
  /\ UNCHANGED zombie

ProcessStep ==
  /\ Works \/ Exits \/ Reaped \/ Reused
  /\ UNCHANGED <<pc, fd, evidence, samples, stopped, exit>>

-------------------------------------------------------------------------------
(* Reading /proc.  An open descriptor stays with its process; once that is *)
(* reaped, reads through it fail.  Any read may fail for another reason.   *)

Readable == fd # 0 /\ fd = current
Sample == [start |-> fd, exited |-> zombie, ticks |-> ticks]
Done(code) == pc' = "done" /\ exit' = code

-------------------------------------------------------------------------------
(* observe_extended, before the samples.                                   *)

\* The except clause: whatever was collected is dropped.
DropInitial ==
  /\ identity' = 0 /\ aux' = 0 /\ cgroup' = 0 /\ warned' = TRUE
  /\ fd' = 0
  /\ pc' = "open"
  /\ UNCHANGED final

OpenInitial ==
  /\ pc = "initial_open"
  /\ \/ current # 0 /\ fd' = current /\ pc' = "initial_identity" /\ UNCHANGED evidence
     \/ DropInitial
  /\ UNCHANGED <<process, samples, stopped, exit>>

IdentifyInitial ==
  /\ pc = "initial_identity"
  /\ \/ Readable /\ identity' = fd /\ pc' = "initial_aux" /\ UNCHANGED <<fd, aux, cgroup, final, warned>>
     \/ DropInitial
  /\ UNCHANGED <<process, samples, stopped, exit>>

\* capture_auxiliary and collect_cgroup_context note their own gaps.
CollectInitial ==
  /\ pc = "initial_aux"
  /\ aux' = fd /\ cgroup' = fd
  /\ pc' = "initial_check"
  /\ UNCHANGED <<process, fd, identity, final, warned, samples, stopped, exit>>

CheckInitial ==
  /\ pc = "initial_check"
  /\ \/ Readable /\ fd = identity /\ fd' = 0 /\ pc' = "open" /\ UNCHANGED evidence
     \/ DropInitial
  /\ UNCHANGED <<process, samples, stopped, exit>>

-------------------------------------------------------------------------------
(* observe_samples.                                                        *)

\* No such process is a wrong target; other errors are failures.
OpenSampling ==
  /\ pc = "open"
  /\ \/ current # 0 /\ fd' = current /\ pc' = "first" /\ UNCHANGED exit
     \/ current = 0 /\ Done(ExitUsage) /\ UNCHANGED fd
     \/ current # 0 /\ Done(ExitFailure) /\ UNCHANGED fd
  /\ UNCHANGED <<process, evidence, samples, stopped>>

\* A process found to have exited gives a single sample.
FirstSample ==
  /\ pc = "first"
  /\ \/ /\ Readable
        /\ samples' = <<Sample>>
        /\ stopped' = zombie
        /\ pc' = IF zombie THEN "correlate" ELSE "sleep"
        /\ fd' = IF zombie THEN 0 ELSE fd
        /\ UNCHANGED exit
     \/ ~Readable /\ Done(ExitUsage) /\ fd' = 0 /\ UNCHANGED <<samples, stopped>>
     \/ Readable /\ Done(ExitFailure) /\ fd' = 0 /\ UNCHANGED <<samples, stopped>>
  /\ UNCHANGED <<process, evidence>>

\* for index in range(1, sample_count): sleep
Sleep ==
  /\ pc = "sleep"
  /\ \/ Len(samples) < Requested /\ pc' = "sample" /\ UNCHANGED fd
     \/ Len(samples) = Requested /\ pc' = "correlate" /\ fd' = 0
  /\ UNCHANGED <<process, evidence, samples, stopped, exit>>

\* Mutant: a process that has exited is sampled like one that runs.
UsableEvenExited(sample) ==
  /\ sample.start = samples[1].start
  /\ sample.ticks >= samples[Len(samples)].ticks

\* The same process, which runs, with counters that did not go backwards.
Usable(sample) ==
  /\ sample.start = samples[1].start
  /\ ~sample.exited
  /\ sample.ticks >= samples[Len(samples)].ticks

\* Mutant: a failed read is tried again.
SampleAgain ==
  /\ pc = "sample"
  /\ \/ Readable /\ Usable(Sample) /\ samples' = Append(samples, Sample)
        /\ pc' = "sleep" /\ UNCHANGED <<fd, stopped>>
     \/ ~(Readable /\ Usable(Sample)) /\ pc' = "sleep" /\ UNCHANGED <<fd, samples, stopped>>
  /\ UNCHANGED <<process, evidence, exit>>

\* The next sample is kept, or it ends the sampling.
TakeSample ==
  /\ pc = "sample"
  /\ \/ Readable /\ Usable(Sample) /\ samples' = Append(samples, Sample)
        /\ pc' = "sleep" /\ UNCHANGED <<fd, stopped>>
     \/ stopped' = TRUE /\ pc' = "correlate" /\ fd' = 0 /\ UNCHANGED samples
  /\ UNCHANGED <<process, evidence, exit>>

-------------------------------------------------------------------------------
(* observe_extended, after the samples.                                    *)

Incomplete == Len(samples) < 2 \/ stopped

\* Mutant: the initial evidence is kept unseen.
CorrelateNothing ==
  /\ pc = "correlate"
  /\ warned' = (warned \/ Incomplete)
  /\ pc' = IF Incomplete THEN "report" ELSE "final_open"
  /\ UNCHANGED <<process, identity, aux, cgroup, final, fd, samples, stopped, exit>>

\* Initial evidence of another process than the sampled one is dropped.
Correlate ==
  /\ pc = "correlate"
  /\ LET mismatch == identity # 0 /\ identity # samples[1].start
     IN  /\ aux' = IF mismatch THEN 0 ELSE aux
         /\ cgroup' = IF mismatch THEN 0 ELSE cgroup
         /\ warned' = (warned \/ mismatch \/ Incomplete)
  /\ pc' = IF Incomplete THEN "report" ELSE "final_open"
  /\ UNCHANGED <<process, identity, final, fd, samples, stopped, exit>>

\* Final evidence is not available, or is that of another process.
DropFinal ==
  /\ final' = 0 /\ warned' = TRUE
  /\ fd' = 0
  /\ pc' = "report"
  /\ UNCHANGED <<identity, aux, cgroup>>

OpenFinal ==
  /\ pc = "final_open"
  /\ \/ current # 0 /\ fd' = current /\ pc' = "final_identity" /\ UNCHANGED evidence
     \/ DropFinal
  /\ UNCHANGED <<process, samples, stopped, exit>>

\* The process is identified, and if it is the sampled one its evidence is read.
CollectFinal ==
  /\ pc = "final_identity"
  /\ \/ /\ Readable /\ fd = samples[1].start
        /\ final' = fd
        /\ pc' = "final_check"
        /\ UNCHANGED <<fd, identity, aux, cgroup, warned>>
     \/ DropFinal
  /\ UNCHANGED <<process, samples, stopped, exit>>

CheckFinal ==
  /\ pc = "final_check"
  /\ \/ Readable /\ fd' = 0 /\ pc' = "report" /\ UNCHANGED evidence
     \/ DropFinal
  /\ UNCHANGED <<process, samples, stopped, exit>>

\* main: emit_output succeeds or raises OutputError.
Report ==
  /\ pc = "report"
  /\ Done(IF Incomplete THEN ExitFinding ELSE ExitOK) \/ Done(ExitFailure)
  /\ UNCHANGED <<process, fd, evidence, samples, stopped>>

\* KeyboardInterrupt; the finally clauses close the descriptor.
Interrupt ==
  /\ pc \notin {"report", "done"}
  /\ Done(ExitInterrupted)
  /\ fd' = 0
  /\ UNCHANGED <<process, evidence, samples, stopped>>

ToolStep ==
  \/ OpenInitial \/ IdentifyInitial \/ CollectInitial \/ CheckInitial
  \/ OpenSampling \/ FirstSample \/ Sleep \/ TakeSample
  \/ Correlate \/ OpenFinal \/ CollectFinal \/ CheckFinal \/ Report

Next == ToolStep \/ Interrupt \/ ProcessStep

-------------------------------------------------------------------------------
\* The view of ObserverContract: all samples, of a process that ran.
Gap == Len(samples) < Requested \/ \E i \in DOMAIN samples : samples[i].exited
Useful == samples # << >>

Reported == exit \in {ExitOK, ExitFinding}

\* All evidence of a report, read through three descriptors at different times,
\* is that of one process, however often the PID changes hands.
EvidenceOfOneProcess ==
  Reported =>
    /\ \A i \in DOMAIN samples : samples[i].start = samples[1].start
    /\ {aux, cgroup, final} \subseteq {0, samples[1].start}

\* Exit 0 means that every requested sample is of a process that ran, and that
\* its CPU counter never went backwards: no difference of samples is negative.
CompleteIsSound ==
  exit = ExitOK =>
    /\ Len(samples) = Requested
    /\ \A i \in DOMAIN samples : ~samples[i].exited
    /\ \A i, j \in DOMAIN samples : i <= j => samples[i].ticks <= samples[j].ticks
===============================================================================
