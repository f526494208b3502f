--------------------------- MODULE ObserversProofs ---------------------------
(***************************************************************************)
(* What TLAPS proves of module Observers, tool by tool, for every value of *)
(* its constants.  For each tool an invariant is shown to be kept by the   *)
(* steps of its module; as the other tools take no steps when it runs, it  *)
(* is an invariant of the composition.                                     *)
(***************************************************************************)
EXTENDS Observers, FiniteSetTheorems, FunctionTheorems, WellFoundedInduction, TLAPS

\* The tool that runs is the one that was started, and its steps are the steps.
LEMMA StepsOfOneTool ==
  ASSUME [Next]_vars
  PROVE  /\ tool' = tool
         /\ tool = "procwatch" => Proc!Next \/ UNCHANGED Proc!vars
         /\ tool = "loghound" => Log!Next \/ UNCHANGED Log!vars
         /\ tool = "loghound-lines" => Lines!Next \/ UNCHANGED Lines!vars
         /\ tool = "diskhound" => Disk!Next \/ UNCHANGED Disk!vars
         /\ tool = "incident-snapshot" => Snap!Next \/ UNCHANGED Snap!vars
<1>1. CASE UNCHANGED vars
  <2>1. tool' = tool /\ UNCHANGED Proc!vars
    BY <1>1 DEF vars, procVars, Proc!vars, Proc!process, Proc!evidence
  <2>2. UNCHANGED Log!vars
    BY <1>1 DEF vars, logVars, Log!vars, Log!world
  <2>3. UNCHANGED Disk!vars
    BY <1>1 DEF vars, diskVars, Disk!vars, Disk!world, Disk!setup, Disk!walk, Disk!budgets, Disk!found,
      Disk!history
  <2>4. UNCHANGED Snap!vars
    BY <1>1 DEF vars, snapVars, Snap!vars, Snap!world, Snap!section
  <2>5. UNCHANGED Lines!vars
    BY <1>1 DEF vars, lineVars, Lines!vars
  <2> QED BY <2>1, <2>2, <2>3, <2>4, <2>5
<1>2. CASE Next
  BY <1>2, Zenon DEF Next, ProcWatch, LogHound, LogHoundLines, DiskHound, IncidentSnapshot
<1> QED BY <1>1, <1>2

LEMMA StartOfOneTool ==
  ASSUME Init
  PROVE  /\ tool = "procwatch" => Proc!Init
         /\ tool = "loghound" => Log!Init
         /\ tool = "loghound-lines" => Lines!Init
         /\ tool = "diskhound" => Disk!Init
         /\ tool = "incident-snapshot" => Snap!Init
BY DEF Init

-------------------------------------------------------------------------------
(* ProcWatch: for any number of samples and of processes under one PID.    *)

ProcSampleSet == [start : Nat, exited : BOOLEAN, ticks : Int]

ProcBefore == {"initial_open", "initial_identity", "initial_aux", "initial_check", "open", "first"}
ProcSampling == {"sleep", "sample"}
ProcAfter == {"final_open", "final_identity", "final_check", "report"}

ProcTypeOK ==
  /\ current \in Nat /\ last \in Nat /\ zombie \in BOOLEAN /\ ticks \in Int
  /\ pc \in ProcBefore \union ProcSampling \union {"correlate", "done"} \union ProcAfter
  /\ {fd, identity, aux, cgroup, final} \subseteq Nat
  /\ samples \in Seq(ProcSampleSet)
  /\ stopped \in BOOLEAN
  /\ exit \in {-1, Proc!ExitOK, Proc!ExitFinding, Proc!ExitUsage, Proc!ExitFailure,
    Proc!ExitInterrupted}
  /\ exit = -1 <=> pc # "done"

\* The initial evidence is that of the identified process, the final evidence
\* that of the sampled one; once correlated, so is what is left of the initial.
ProcEvidence ==
  /\ pc \in {"initial_open", "initial_identity"} => identity = 0
  /\ pc = "initial_aux" => fd = identity
  /\ pc \notin ProcAfter /\ pc # "done" => {aux, cgroup} \subseteq {0, identity} /\ final = 0
  /\ pc \in ProcAfter \/ Proc!Reported => {aux, cgroup, final} \subseteq {0, samples[1].start}

\* Samples are of one process and its counter does not go backwards.
ProcAlike ==
  /\ \A i \in DOMAIN samples : samples[i].start = samples[1].start
  /\ \A i, j \in DOMAIN samples : i <= j => samples[i].ticks <= samples[j].ticks

\* Sampling that was not stopped has all of its samples, of a running process.
ProcComplete ==
  /\ pc \in ProcBefore => samples = << >> /\ ~stopped
  /\ pc \notin ProcBefore /\ pc # "done" => samples # << >>
  /\ pc \notin ProcBefore /\ pc # "done" /\ ~stopped => \A i \in DOMAIN samples : ~samples[i].exited
  /\ pc \in ProcSampling => ~stopped /\ Len(samples) <= Requested
  /\ pc = "sample" => Len(samples) < Requested
  /\ pc \in ProcAfter \union {"correlate"} /\ ~stopped => Len(samples) = Requested

ProcIInv ==
  ProcTypeOK /\ ProcEvidence /\ ProcAlike /\ ProcComplete /\ Proc!EvidenceOfOneProcess /\ Proc!CompleteIsSound

-------------------------------------------------------------------------------
LEMMA ProcInitIInv == ASSUME Proc!SamplingAssumption, Proc!Init PROVE ProcIInv
<1>1. ProcTypeOK
  <2>1. zombie \in BOOLEAN /\ stopped \in BOOLEAN
    BY Zenon DEF Proc!Init
  <2>2. current \in Nat /\ last \in Nat /\ ticks \in Int
    BY DEF Proc!SamplingAssumption, Proc!Init
  <2>3. samples \in Seq(ProcSampleSet)
    BY DEF Proc!Init
  <2> QED
    BY <2>1, <2>2, <2>3 DEF Proc!Init, ProcTypeOK, ProcBefore
<1>2. ProcEvidence /\ ProcAlike /\ ProcComplete
  BY DEF Proc!Init, ProcEvidence, ProcAlike, ProcComplete, ProcBefore, ProcSampling, ProcAfter,
    Proc!Reported, Proc!ExitOK, Proc!ExitFinding
<1>3. Proc!EvidenceOfOneProcess /\ Proc!CompleteIsSound
  BY DEF Proc!Init, Proc!EvidenceOfOneProcess, Proc!CompleteIsSound, Proc!Reported, Proc!ExitOK,
    Proc!ExitFinding
<1> QED
  BY <1>1, <1>2, <1>3 DEF ProcIInv

\* What the processes under the PID do changes nothing that the tool has.
LEMMA ProcProcessIInv == ASSUME Proc!SamplingAssumption, ProcIInv, Proc!ProcessStep PROVE ProcIInv'
<1>1. current' \in Nat /\ last' \in Nat /\ zombie' \in BOOLEAN /\ ticks' \in Int
  <2>1. CASE Proc!Works
    BY <2>1 DEF Proc!SamplingAssumption, Proc!Works, ProcIInv, ProcTypeOK
  <2>2. CASE Proc!Exits
    BY <2>2 DEF Proc!Exits, ProcIInv, ProcTypeOK
  <2>3. CASE Proc!Reaped
    BY <2>3, Zenon DEF Proc!Reaped, ProcIInv, ProcTypeOK
  <2>4. CASE Proc!Reused
    BY <2>4 DEF Proc!Reused, ProcIInv, ProcTypeOK
  <2> QED
    BY <2>1, <2>2, <2>3, <2>4 DEF Proc!ProcessStep
<1>2. UNCHANGED <<pc, fd, Proc!evidence, samples, stopped, exit>>
  BY DEF Proc!ProcessStep
<1> QED
  BY <1>1, <1>2 DEF ProcIInv, ProcTypeOK, ProcEvidence, ProcAlike, ProcComplete,
    Proc!EvidenceOfOneProcess, Proc!CompleteIsSound,
    Proc!Reported, Proc!evidence

\* A step that leaves the samples alone.
LEMMA ProcSameSamples ==
  ASSUME ProcIInv, UNCHANGED <<samples, stopped>>, ProcTypeOK', ProcEvidence', ProcComplete',
    exit' = -1
  PROVE  ProcIInv'
BY DEF ProcIInv, ProcAlike, Proc!EvidenceOfOneProcess, Proc!CompleteIsSound, Proc!Reported,
  Proc!ExitOK, Proc!ExitFinding

\* A run that ends without a report claims nothing.
LEMMA ProcEndIInv ==
  ASSUME ProcIInv, pc' = "done", exit' \in {Proc!ExitUsage, Proc!ExitFailure, Proc!ExitInterrupted},
         UNCHANGED <<Proc!process, Proc!evidence, samples, stopped>>, fd' \in Nat
  PROVE  ProcIInv'
<1>1. ProcTypeOK'
  BY DEF ProcIInv, ProcTypeOK, Proc!process, Proc!evidence, Proc!ExitUsage, Proc!ExitFailure,
    Proc!ExitInterrupted
<1>2. ~Proc!Reported' /\ exit' # Proc!ExitOK
  BY DEF Proc!Reported, Proc!ExitOK, Proc!ExitFinding, Proc!ExitUsage, Proc!ExitFailure,
    Proc!ExitInterrupted
<1> QED
  BY <1>1, <1>2 DEF ProcIInv, ProcEvidence, ProcAlike, ProcComplete, Proc!EvidenceOfOneProcess,
    Proc!CompleteIsSound,
    ProcBefore, ProcSampling, ProcAfter

-------------------------------------------------------------------------------
(* Before the samples.                                                     *)

LEMMA ProcInitialIInv ==
  ASSUME ProcIInv,
    Proc!OpenInitial \/ Proc!IdentifyInitial \/ Proc!CollectInitial \/ Proc!CheckInitial
  PROVE  ProcIInv'
<1>1. UNCHANGED <<Proc!process, samples, stopped, exit>> /\ exit = -1
  BY DEF Proc!OpenInitial, Proc!IdentifyInitial, Proc!CollectInitial, Proc!CheckInitial, ProcIInv,
    ProcTypeOK
<1>2. ProcTypeOK'
  BY <1>1 DEF Proc!OpenInitial, Proc!IdentifyInitial, Proc!CollectInitial, Proc!CheckInitial,
    Proc!DropInitial, ProcIInv, ProcTypeOK,
    Proc!process, Proc!evidence, ProcBefore, ProcSampling, ProcAfter
<1>3. ProcEvidence'
  BY <1>1 DEF Proc!OpenInitial, Proc!IdentifyInitial, Proc!CollectInitial, Proc!CheckInitial,
    Proc!DropInitial, ProcIInv, ProcTypeOK,
    ProcEvidence, Proc!evidence, ProcAfter, Proc!Reported, Proc!ExitOK, Proc!ExitFinding
<1>4. ProcComplete'
  BY <1>1 DEF Proc!OpenInitial, Proc!IdentifyInitial, Proc!CollectInitial, Proc!CheckInitial,
    Proc!DropInitial, ProcIInv,
    ProcComplete, ProcBefore, ProcSampling, ProcAfter
<1> QED
  BY <1>1, <1>2, <1>3, <1>4, ProcSameSamples

-------------------------------------------------------------------------------
(* The samples.                                                            *)

LEMMA ProcOpenSamplingIInv == ASSUME ProcIInv, Proc!OpenSampling PROVE ProcIInv'
<1>1. CASE pc' = "done"
  BY <1>1, ProcEndIInv DEF Proc!OpenSampling, Proc!Done, ProcIInv, ProcTypeOK
<1>2. CASE current # 0 /\ fd' = current /\ pc' = "first" /\ UNCHANGED exit
  <2>1. pc = "open" /\ exit = -1 /\ UNCHANGED <<Proc!process, Proc!evidence, samples, stopped>>
    BY DEF Proc!OpenSampling, ProcIInv, ProcTypeOK
  <2>2. ProcTypeOK'
    BY <1>2, <2>1 DEF ProcIInv, ProcTypeOK, Proc!process, Proc!evidence, ProcBefore
  <2>3. ProcEvidence' /\ ProcComplete'
    BY <1>2, <2>1 DEF ProcIInv, ProcEvidence, ProcComplete, Proc!evidence, ProcBefore,
      ProcSampling, ProcAfter, Proc!Reported,
      Proc!ExitOK, Proc!ExitFinding
  <2> QED
    BY <1>2, <2>1, <2>2, <2>3, ProcSameSamples
<1> QED
  BY <1>1, <1>2 DEF Proc!OpenSampling, Proc!Done

\* The first sample stands for what all others are compared with.
LEMMA ProcFirstSampleIInv == ASSUME Proc!SamplingAssumption, ProcIInv,
  Proc!FirstSample PROVE ProcIInv'
<1> USE DEF ProcIInv
<1>1. CASE pc' = "done"
  BY <1>1, ProcEndIInv DEF Proc!FirstSample, Proc!Done
<1>2. CASE /\ Proc!Readable /\ samples' = <<Proc!Sample>> /\ stopped' = zombie
           /\ pc' = (IF zombie THEN "correlate" ELSE "sleep")
           /\ fd' = (IF zombie THEN 0 ELSE fd)
           /\ UNCHANGED exit
  <2>1. pc = "first" /\ exit = -1 /\ UNCHANGED <<Proc!process, Proc!evidence>>
    BY DEF Proc!FirstSample, ProcTypeOK
  <2>2. Proc!Sample \in ProcSampleSet /\ Proc!Sample.exited = zombie
    BY DEF Proc!Sample, ProcSampleSet, ProcTypeOK
  <2> HIDE DEF Proc!Sample
  <2>3. samples' \in Seq(ProcSampleSet) /\ Len(samples') = 1 /\ samples'[1] = Proc!Sample /\ samples' # << >>
        /\ DOMAIN samples' = {1}
    BY <1>2, <2>2
  <2>4. ProcTypeOK'
    <3>1. pc' \in {"correlate", "sleep"} /\ fd' \in Nat
      BY <1>2 DEF ProcTypeOK
    <3>2. zombie \in BOOLEAN
      BY DEF ProcTypeOK
    <3>3. UNCHANGED <<Proc!process, Proc!evidence, exit>> /\ stopped' = zombie
      BY <1>2, <2>1
    <3> QED
      BY <2>1, <2>3, <3>1, <3>2, <3>3 DEF ProcTypeOK, Proc!process, Proc!evidence, ProcBefore,
        ProcSampling
  <2>5. ProcEvidence'
    BY <1>2, <2>1 DEF ProcEvidence, Proc!evidence, ProcBefore, ProcSampling, ProcAfter,
      Proc!Reported, Proc!ExitOK, Proc!ExitFinding
  <2>6. ProcAlike'
    <3>1. samples'[1].ticks \in Int
      BY <2>2, <2>3 DEF ProcSampleSet
    <3> QED
      BY <2>3, <3>1 DEF ProcAlike
  <2>7. ProcComplete'
    <3>1. CASE zombie
      BY <1>2, <2>3, <3>1 DEF ProcComplete, ProcBefore, ProcSampling, ProcAfter
    <3>2. CASE ~zombie
      BY <1>2, <2>2, <2>3, <3>2 DEF ProcComplete, ProcBefore, ProcSampling, ProcAfter,
        Proc!SamplingAssumption
    <3> QED
      BY <3>1, <3>2
  <2>8. Proc!EvidenceOfOneProcess' /\ Proc!CompleteIsSound'
    BY <1>2, <2>1 DEF Proc!EvidenceOfOneProcess, Proc!CompleteIsSound, Proc!Reported, Proc!ExitOK,
      Proc!ExitFinding
  <2> QED
    BY <2>4, <2>5, <2>6, <2>7, <2>8
<1> QED
  BY <1>1, <1>2 DEF Proc!FirstSample, Proc!Done

LEMMA ProcSleepIInv == ASSUME Proc!SamplingAssumption, ProcIInv, Proc!Sleep PROVE ProcIInv'
<1> USE DEF ProcIInv
<1>1. pc = "sleep" /\ exit = -1 /\ UNCHANGED <<Proc!process, Proc!evidence, samples, stopped, exit>>
  BY DEF Proc!Sleep, ProcTypeOK
<1>2. ProcTypeOK'
  BY <1>1 DEF Proc!Sleep, ProcTypeOK, Proc!process, Proc!evidence, ProcBefore, ProcSampling,
    ProcAfter
<1>3. ProcEvidence'
  BY <1>1 DEF Proc!Sleep, ProcEvidence, Proc!evidence, ProcBefore, ProcSampling, ProcAfter,
    Proc!Reported, Proc!ExitOK, Proc!ExitFinding
<1>4. ProcComplete'
  BY <1>1 DEF Proc!Sleep, ProcComplete, ProcBefore, ProcSampling, ProcAfter
<1> QED
  BY <1>1, <1>2, <1>3, <1>4, ProcSameSamples

\* A sample is only kept behind one of the same process with no more ticks.
LEMMA ProcTakeSampleIInv == ASSUME Proc!SamplingAssumption, ProcIInv,
  Proc!TakeSample PROVE ProcIInv'
<1> USE DEF ProcIInv
<1>1. pc = "sample" /\ exit = -1 /\ UNCHANGED <<Proc!process, Proc!evidence, exit>>
  BY DEF Proc!TakeSample, ProcTypeOK
<1>2. samples \in Seq(ProcSampleSet) /\ samples # << >> /\ Len(samples) < Requested /\ ~stopped
      /\ (\A i \in DOMAIN samples : ~samples[i].exited)
  BY <1>1 DEF ProcComplete, ProcTypeOK, ProcBefore, ProcSampling
<1>3. Proc!EvidenceOfOneProcess' /\ Proc!CompleteIsSound'
  BY <1>1 DEF Proc!EvidenceOfOneProcess, Proc!CompleteIsSound, Proc!Reported, Proc!ExitOK,
    Proc!ExitFinding
<1>4. CASE stopped' = TRUE /\ pc' = "correlate" /\ fd' = 0 /\ UNCHANGED samples
  <2>1. ProcTypeOK'
    BY <1>1, <1>4 DEF ProcTypeOK, Proc!process, Proc!evidence
  <2>2. ProcEvidence' /\ ProcAlike'
    BY <1>1, <1>4 DEF ProcEvidence, ProcAlike, Proc!evidence, ProcBefore, ProcSampling, ProcAfter,
      Proc!Reported, Proc!ExitOK, Proc!ExitFinding
  <2>3. ProcComplete'
    BY <1>2, <1>4 DEF ProcComplete, ProcBefore, ProcSampling, ProcAfter
  <2> QED
    BY <1>3, <2>1, <2>2, <2>3
<1>5. CASE Proc!Readable /\ Proc!Usable(Proc!Sample) /\ samples' = Append(samples,
  Proc!Sample) /\ pc' = "sleep" /\ UNCHANGED <<fd, stopped>>
  <2> DEFINE n == Len(samples)
  <2>1. Proc!Sample \in ProcSampleSet
    BY DEF Proc!Sample, ProcSampleSet, ProcTypeOK
  <2>2. Proc!Sample.start = samples[1].start /\ ~Proc!Sample.exited /\ Proc!Sample.ticks >= samples[n].ticks
    BY <1>5 DEF Proc!Usable
  <2> HIDE DEF Proc!Sample
  <2>3. /\ n \in Nat \ {0} /\ DOMAIN samples = 1..n
        /\ samples' \in Seq(ProcSampleSet) /\ DOMAIN samples' = 1..(n + 1) /\ Len(samples') = n + 1
        /\ samples'[n + 1] = Proc!Sample
        /\ \A i \in 1..n : samples'[i] = samples[i]
    BY <1>2, <1>5, <2>1
  <2>4. ProcTypeOK'
    BY <1>1, <1>5, <2>3 DEF ProcTypeOK, Proc!process, Proc!evidence, ProcSampling
  <2>5. ProcEvidence'
    BY <1>1, <1>5 DEF ProcEvidence, Proc!evidence, ProcBefore, ProcSampling, ProcAfter,
      Proc!Reported, Proc!ExitOK, Proc!ExitFinding
  <2>6. ProcAlike'
    <3>1. \A i \in DOMAIN samples' : samples'[i].start = samples'[1].start
      BY <2>2, <2>3 DEF ProcAlike
    <3>2. ASSUME NEW i \in 1..(n + 1), NEW j \in 1..(n + 1), i <= j
          PROVE  samples'[i].ticks <= samples'[j].ticks
      <4>1. \A k \in 1..n : samples[k].ticks \in Int /\ samples[k].ticks <= samples[n].ticks
        <5>1. \A k \in 1..n : samples[k] \in ProcSampleSet
          BY <1>2, <2>3
        <5>2. \A k \in 1..n : n \in DOMAIN samples /\ k \in DOMAIN samples /\ k <= n
          BY <2>3
        <5> QED
          BY <5>1, <5>2 DEF ProcAlike, ProcSampleSet
      <4>2. Proc!Sample.ticks \in Int /\ samples[n].ticks \in Int
        BY <2>1, <2>3, <4>1 DEF ProcSampleSet
      <4>3. CASE j \in 1..n
        BY <2>3, <3>2, <4>3 DEF ProcAlike
      <4>4. CASE j = n + 1 /\ i \in 1..n
        BY <2>2, <2>3, <4>1, <4>2, <4>4
      <4>5. CASE j = n + 1 /\ i = n + 1
        BY <2>3, <4>2, <4>5
      <4> QED
        BY <2>3, <3>2, <4>3, <4>4, <4>5
    <3> QED
      BY <2>3, <3>1, <3>2 DEF ProcAlike
  <2>7. ProcComplete'
    <3>1. samples' # << >> /\ Len(samples') <= Requested
      BY <1>2, <2>3 DEF Proc!SamplingAssumption
    <3>2. \A i \in DOMAIN samples' : ~samples'[i].exited
      BY <1>2, <2>2, <2>3
    <3> QED
      BY <1>2, <1>5, <3>1, <3>2 DEF ProcComplete, ProcBefore, ProcSampling, ProcAfter
  <2> QED
    BY <1>3, <2>4, <2>5, <2>6, <2>7
<1> QED
  BY <1>4, <1>5, Zenon DEF Proc!TakeSample

-------------------------------------------------------------------------------
(* After the samples.                                                      *)

LEMMA ProcCorrelateIInv == ASSUME ProcIInv, Proc!Correlate PROVE ProcIInv'
<1> USE DEF ProcIInv
<1>1. /\ pc = "correlate" /\ exit = -1 /\ pc' \in {"report", "final_open"}
      /\ UNCHANGED <<Proc!process, identity, final, fd, samples, stopped, exit>>
  BY DEF Proc!Correlate, ProcTypeOK
<1>2. /\ {aux', cgroup'} \subseteq {0, samples[1].start}
      /\ {aux', cgroup'} \subseteq Nat
      /\ final' = 0
  <2>1. {aux, cgroup} \subseteq {0, identity} /\ {aux, cgroup} \subseteq Nat /\ final = 0
    BY <1>1 DEF ProcEvidence, ProcAfter, ProcTypeOK
  <2> QED
    BY <1>1, <2>1 DEF Proc!Correlate
<1>3. ProcTypeOK'
  BY <1>1, <1>2 DEF ProcTypeOK, Proc!process, ProcAfter
<1>4. ProcEvidence'
  BY <1>1, <1>2 DEF ProcEvidence, ProcAfter
<1>5. ProcComplete'
  BY <1>1 DEF ProcComplete, ProcBefore, ProcSampling, ProcAfter
<1> QED
  BY <1>1, <1>3, <1>4, <1>5, ProcSameSamples

LEMMA ProcFinalIInv == ASSUME ProcIInv,
  Proc!OpenFinal \/ Proc!CollectFinal \/ Proc!CheckFinal PROVE ProcIInv'
<1> USE DEF ProcIInv
<1>1. /\ pc \in ProcAfter /\ exit = -1 /\ pc' \in ProcAfter
      /\ UNCHANGED <<Proc!process, samples, stopped, exit>>
  BY DEF Proc!OpenFinal, Proc!CollectFinal, Proc!CheckFinal, Proc!DropFinal, ProcTypeOK, ProcAfter
<1>2. /\ UNCHANGED <<identity, aux, cgroup>>
      /\ final' \in {0, final, samples[1].start}
      /\ fd' \in Nat /\ final' \in Nat
  BY DEF Proc!OpenFinal, Proc!CollectFinal, Proc!CheckFinal, Proc!DropFinal, ProcTypeOK,
    Proc!evidence
<1>3. ProcTypeOK'
  BY <1>1, <1>2 DEF ProcTypeOK, Proc!process, ProcAfter
<1>4. ProcEvidence'
  BY <1>1, <1>2 DEF ProcEvidence, ProcAfter
<1>5. ProcComplete'
  BY <1>1 DEF ProcComplete, ProcBefore, ProcSampling, ProcAfter
<1> QED
  BY <1>1, <1>3, <1>4, <1>5, ProcSameSamples

LEMMA ProcReportIInv == ASSUME Proc!SamplingAssumption, ProcIInv, Proc!Report PROVE ProcIInv'
<1> USE DEF ProcIInv
<1>1. pc = "report" /\ pc' = "done" /\ UNCHANGED <<Proc!process, fd, Proc!evidence, samples,
  stopped>>
  BY DEF Proc!Report, Proc!Done
<1>2. CASE exit' = Proc!ExitFailure
  BY <1>1, <1>2, ProcEndIInv DEF ProcTypeOK
<1>3. CASE exit' = IF Proc!Incomplete THEN Proc!ExitFinding ELSE Proc!ExitOK
  <2>1. ProcTypeOK'
    BY <1>1, <1>3 DEF ProcTypeOK, Proc!process, Proc!evidence, Proc!ExitOK, Proc!ExitFinding
  <2>2. {aux, cgroup, final} \subseteq {0, samples[1].start}
    BY <1>1 DEF ProcEvidence, ProcAfter
  <2>3. ProcEvidence' /\ ProcAlike' /\ Proc!EvidenceOfOneProcess'
    BY <1>1, <2>2 DEF ProcEvidence, ProcAlike, Proc!EvidenceOfOneProcess, ProcAfter, Proc!evidence
  <2>4. ProcComplete'
    BY <1>1 DEF ProcComplete, ProcBefore, ProcSampling, ProcAfter
  <2>5. Proc!CompleteIsSound'
    <3>1. exit' = Proc!ExitOK => ~stopped
      BY <1>3 DEF Proc!Incomplete, Proc!ExitOK, Proc!ExitFinding
    <3> QED
      BY <1>1, <3>1 DEF Proc!CompleteIsSound, ProcComplete, ProcAlike, ProcBefore, ProcSampling,
        ProcAfter
  <2> QED
    BY <2>1, <2>3, <2>4, <2>5
<1> QED
  BY <1>2, <1>3 DEF Proc!Report, Proc!Done

-------------------------------------------------------------------------------
LEMMA ProcNextIInv == ASSUME Proc!SamplingAssumption, ProcIInv,
  Proc!Next \/ UNCHANGED Proc!vars PROVE ProcIInv'
<1>1. CASE Proc!ProcessStep
  BY <1>1, ProcProcessIInv
<1>2. CASE Proc!OpenInitial \/ Proc!IdentifyInitial \/ Proc!CollectInitial \/ Proc!CheckInitial
  BY <1>2, ProcInitialIInv
<1>3. CASE Proc!OpenSampling
  BY <1>3, ProcOpenSamplingIInv
<1>4. CASE Proc!FirstSample
  BY <1>4, ProcFirstSampleIInv
<1>5. CASE Proc!Sleep
  BY <1>5, ProcSleepIInv
<1>6. CASE Proc!TakeSample
  BY <1>6, ProcTakeSampleIInv
<1>7. CASE Proc!Correlate
  BY <1>7, ProcCorrelateIInv
<1>8. CASE Proc!OpenFinal \/ Proc!CollectFinal \/ Proc!CheckFinal
  BY <1>8, ProcFinalIInv
<1>9. CASE Proc!Report
  BY <1>9, ProcReportIInv
<1>10. CASE Proc!Interrupt
  BY <1>10, ProcEndIInv DEF Proc!Interrupt, Proc!Done, ProcIInv, ProcTypeOK
<1>11. CASE UNCHANGED Proc!vars
  BY <1>11 DEF Proc!vars, Proc!process, Proc!evidence, ProcIInv, ProcTypeOK, ProcEvidence,
    ProcAlike, ProcComplete,
    Proc!EvidenceOfOneProcess, Proc!CompleteIsSound, Proc!Reported
<1> QED
  BY <1>1, <1>2, <1>3, <1>4, <1>5, <1>6, <1>7, <1>8, <1>9, <1>10, <1>11 DEF Proc!Next, Proc!ToolStep

\* The inductive invariant of ProcWatch's sampling (observe_extended).
THEOREM ProcInvariance == Spec => [](tool = "procwatch" => ProcIInv)
<1>1. Init => (tool = "procwatch" => ProcIInv)
  BY ObserversAssumption, StartOfOneTool, ProcInitIInv
<1>2. (tool = "procwatch" => ProcIInv) /\ [Next]_vars => (tool = "procwatch" => ProcIInv)'
  BY ObserversAssumption, StepsOfOneTool, ProcNextIInv
<1> QED BY <1>1, <1>2, PTL DEF Spec

\* However often the PID changes hands while three descriptors are opened, all
\* evidence of a report is that of one process (observe_extended).
THEOREM OneProcess == Spec => []EvidenceOfOneProcess
<1>1. (tool = "procwatch" => ProcIInv) => EvidenceOfOneProcess
  BY DEF ProcIInv, EvidenceOfOneProcess
<1> QED BY ProcInvariance, <1>1, PTL

\* Exit 0 means all samples that were asked for, of a process that ran, with a
\* CPU counter that never went backwards (observe_samples, main).
THEOREM CompleteSampling == Spec => []CompleteIsSound
<1>1. (tool = "procwatch" => ProcIInv) => CompleteIsSound
  BY DEF ProcIInv, CompleteIsSound
<1> QED BY ProcInvariance, <1>1, PTL

-------------------------------------------------------------------------------
(* DiskHound: for any tree, options and limits.                            *)

\* What is about to be listed was counted, and nothing is listed before there
\* is a target.
DiskListing ==
  /\ pc \in {"peek", "list"} => entry.inode \in global
  /\ pc = "validate" => listed = {}
  /\ listed \subseteq global \union {target}

LEMMA DiskListingStep == ASSUME DiskListing, Disk!Next \/ UNCHANGED Disk!vars PROVE DiskListing'
<1> USE DEF Disk!world, Disk!setup, Disk!walk, Disk!budgets, Disk!found, Disk!history, Disk!Done
<1>1. CASE Disk!TreeChanges
  BY <1>1 DEF Disk!TreeChanges, DiskListing
<1>2. CASE Disk!ValidateTarget
  BY <1>2 DEF Disk!ValidateTarget, DiskListing
<1>3. CASE Disk!ReadMounts
  BY <1>3 DEF Disk!ReadMounts, DiskListing
<1>4. CASE Disk!ListTarget
  BY <1>4, Zenon DEF Disk!ListTarget, Disk!Enumerate, DiskListing
<1>5. CASE Disk!ReadCapacity
  BY <1>5, Zenon DEF Disk!ReadCapacity, DiskListing
<1>6. CASE Disk!SelectBranches
  BY <1>6 DEF Disk!SelectBranches, DiskListing
<1>7. CASE Disk!NextBranch
  BY <1>7 DEF Disk!NextBranch, DiskListing
<1>8. CASE Disk!EndBranch
  BY <1>8 DEF Disk!EndBranch, DiskListing
<1>9. CASE Disk!Visit
  BY <1>9 DEF Disk!Visit, Disk!Count, DiskListing
<1>10. CASE Disk!Peek
  BY <1>10 DEF Disk!Peek, DiskListing
<1>11. CASE Disk!ListDirectory
  BY <1>11, Zenon DEF Disk!ListDirectory, Disk!ExpectedAt, Disk!Enumerate, DiskListing
<1>12. CASE Disk!Report \/ Disk!Interrupt
  BY <1>12 DEF Disk!Report, Disk!Interrupt, DiskListing
<1>13. CASE UNCHANGED Disk!vars
  BY <1>13 DEF Disk!vars, DiskListing
<1> QED
  BY <1>1, <1>2, <1>3, <1>4, <1>5, <1>6, <1>7, <1>8, <1>9, <1>10, <1>11, <1>12, <1>13
  DEF Disk!Next, Disk!ToolStep

\* A directory is opened by its path and looked into only if it is the one that
\* was counted there (list_directory with an expected identity), whatever takes
\* its place in between.
THEOREM ListedWasCounted == Spec => []ListsWhatItCounted
<1>1. Init => (tool = "diskhound" => DiskListing)
  BY StartOfOneTool DEF Disk!Init, DiskListing
<1>2. (tool = "diskhound" => DiskListing) /\ [Next]_vars => (tool = "diskhound" => DiskListing)'
  BY StepsOfOneTool, DiskListingStep
<1>3. (tool = "diskhound" => DiskListing) => ListsWhatItCounted
  BY DEF DiskListing, ListsWhatItCounted, Disk!ListsWhatItCounted
<1> QED BY <1>1, <1>2, <1>3, PTL DEF Spec

-------------------------------------------------------------------------------
(* LogHound: for any number of rotated logs that are asked for, and of     *)
(* rotations while they are opened.                                        *)

\* The names n of the logs when w was created last and the rotation under way
\* is about to rename FILE.m: it has shifted the names above by one, and unless
\* a file is missing the names count back from w.
LogNames(n, w, m) ==
  /\ w \in Log!Oldest + 1 .. Log!Oldest + 1 + MaxRotations
  /\ m \in -1..Rotated
  /\ n \in [Log!Names -> 0..w]
  /\ IF m = -1 /\ n[0] # 0
     THEN \A k \in Log!Names : n[k] = w - k
     ELSE /\ w < Log!Oldest + 1 + MaxRotations
          /\ \A k \in Log!Names :
               /\ k <= m => n[k] = w - k
               /\ k = m + 1 => n[k] = 0 \/ k = Log!Oldest
               /\ k > m + 1 => n[k] = w - k + 1

LEMMA LogNamesStart ==
  ASSUME Log!LogSourcesAssumption
  PROVE  LogNames([k \in Log!Names |-> Log!Oldest + 1 - k], Log!Oldest + 1, -1)
BY DEF Log!LogSourcesAssumption, LogNames, Log!Names, Log!Oldest

LEMMA LogNamesRotate ==
  ASSUME Log!LogSourcesAssumption, NEW n, NEW w, LogNames(n, w, -1), n[0] # 0,
         w < Log!Oldest + 1 + MaxRotations
  PROVE  LogNames(n, w, Log!Oldest - 1)
BY DEF Log!LogSourcesAssumption, LogNames, Log!Names, Log!Oldest

LEMMA LogNamesRename ==
  ASSUME Log!LogSourcesAssumption, NEW n, NEW w, NEW m, LogNames(n, w, m), m >= 0
  PROVE  LogNames([n EXCEPT ![m + 1] = n[m], ![m] = 0], w, m - 1)
<1> USE DEF Log!LogSourcesAssumption, Log!Names, Log!Oldest
<1> DEFINE r == [n EXCEPT ![m + 1] = n[m], ![m] = 0]
<1>1. m \in 0..Rotated /\ m \in Log!Names /\ m + 1 \in Log!Names /\ w \in Nat /\ n[m] = w - m
  BY DEF LogNames
<1>2. r \in [Log!Names -> 0..w]
  BY <1>1 DEF LogNames
<1>3. ASSUME NEW k \in Log!Names
      PROVE  /\ k <= m - 1 => r[k] = w - k
             /\ k = m => r[k] = 0
             /\ k > m => r[k] = w - k + 1
  BY <1>1 DEF LogNames
<1>4. m - 1 \in -1..Rotated /\ (m - 1 = -1 => r[0] = 0)
  <2>1. 0 \in Log!Names
    OBVIOUS
  <2>2. 0 = m => r[0] = 0
    BY <1>3, <2>1, Zenon
  <2> QED BY <1>1, <2>2
<1> HIDE DEF r
<1>5. LogNames(r, w, m - 1)
  BY <1>1, <1>2, <1>3, <1>4 DEF LogNames
<1> QED BY <1>5 DEF r

LEMMA LogNamesCreate ==
  ASSUME Log!LogSourcesAssumption, NEW n, NEW w, LogNames(n, w, -1), n[0] = 0
  PROVE  LogNames([n EXCEPT ![0] = w + 1], w + 1, -1)
<1> USE DEF Log!LogSourcesAssumption, Log!Names, Log!Oldest
<1> DEFINE r == [n EXCEPT ![0] = w + 1]
<1>1. 0 \in Log!Names /\ w \in Nat /\ w + 1 \in Log!Oldest + 1 .. Log!Oldest + 1 + MaxRotations
  BY DEF LogNames
<1>2. r \in [Log!Names -> 0..(w + 1)] /\ r[0] # 0
  BY <1>1 DEF LogNames
<1>3. \A k \in Log!Names : r[k] = (w + 1) - k
  BY <1>1 DEF LogNames
<1> HIDE DEF r
<1>4. LogNames(r, w + 1, -1)
  BY <1>1, <1>2, <1>3 DEF LogNames
<1> QED BY <1>4 DEF r

\* While FILE has been renamed less than twice since it was opened as first, the
\* name i > 0 is missing, or is the file i logs back, or one that is open.
LEMMA LogNamesSeen ==
  ASSUME Log!LogSourcesAssumption, NEW n, NEW w, NEW m, LogNames(n, w, m),
         NEW first \in Nat, NEW i \in 1..Rotated, n[i] # 0,
         w = first \/ (w = first + 1 /\ n[0] # 0)
  PROVE  \/ w = first /\ n[0] # 0 /\ n[i] = first - i
         \/ \E j \in 0..(i - 1) : n[i] = first - j
<1> USE DEF Log!LogSourcesAssumption, Log!Names, Log!Oldest
<1>1. /\ i \in Log!Names /\ 0 \in Log!Names /\ w \in Nat /\ m \in -1..Rotated
      /\ i \in Nat /\ i # Log!Oldest /\ i - 1 \in 0..(i - 1)
  BY DEF LogNames
<1>2. n[i] = w - i \/ (n[i] = w - i + 1 /\ (n[0] # 0 => i >= 2))
  <2>1. CASE m = -1 /\ n[0] # 0
    BY <1>1, <2>1 DEF LogNames
  <2>2. CASE ~(m = -1 /\ n[0] # 0)
    <3>1. CASE i <= m
      BY <1>1, <2>2, <3>1 DEF LogNames
    <3>2. CASE i > m + 1
      BY <1>1, <2>2, <3>2 DEF LogNames
    <3>3. CASE i = m + 1
      BY <1>1, <2>2, <3>3 DEF LogNames
    <3> QED BY <1>1, <3>1, <3>2, <3>3
  <2> QED BY <2>1, <2>2
<1>3. CASE w = first /\ n[i] = w - i /\ n[0] # 0
  BY <1>3
<1>4. CASE w = first /\ n[i] = w - i /\ n[0] = 0
  <2>1. FALSE
    BY <1>1, <1>4 DEF LogNames
  <2> QED BY <2>1
<1>5. CASE w = first /\ n[i] = w - i + 1
  BY <1>1, <1>5
<1>6. CASE w = first + 1 /\ n[0] # 0 /\ n[i] = w - i
  BY <1>1, <1>6
<1>7. CASE w = first + 1 /\ n[0] # 0 /\ n[i] = w - i + 1
  <2>1. i >= 2 /\ i - 2 \in 0..(i - 1) /\ n[i] = first - (i - 2)
    BY <1>1, <1>2, <1>7
  <2> QED BY <2>1
<1> QED BY <1>2, <1>3, <1>4, <1>5, <1>6, <1>7

\* What is open is as many logs as n, each the log before the one that was
\* opened before it.
LogChain(s, n) == Len(s) = n /\ \A j \in 1..n : s[j].file = s[1].file - (j - 1)

\* What rotations did to FILE since it was opened as the log first.
LogTurned(n, w, m, first, t) ==
  /\ t = 0 => w = first /\ n[0] # 0
  /\ t = 1 => (w = first /\ n[0] = 0 /\ m = -1) \/ (w = first + 1 /\ n[0] # 0)

LogSourceSet == [file : Nat, boundary : 0..2]
LogResultSet == [file : Nat, lost : BOOLEAN, limited : BOOLEAN, minutes : SUBSET Log!Minutes]

LogTypeOK ==
  /\ size \in [Log!Files -> 0..2]
  /\ turns \in Nat
  /\ index \in Nat
  /\ sources \in Seq(LogSourceSet)
  /\ results \in Seq(LogResultSet)
  /\ pc \in {"open", "read", "report", "done"}
  /\ pc # "done" => exit = -1

\* While names are opened.
LogOpening ==
  pc = "open" =>
    /\ LogNames(names, newest, moving)
    /\ results = << >>
    /\ index \in 0..Rotated
    /\ index = 0 <=> sources = << >>

\* While sources are read.
LogReading ==
  pc = "read" =>
    /\ index \in 1..Len(sources)
    /\ \A i \in DOMAIN results : \E j \in 1..(index - 1) : results[i].file = sources[j].file

\* The files that are open are different ones, and so are those that were read.
LogDistinct ==
  /\ \A i, j \in DOMAIN sources : sources[i].file = sources[j].file => i = j
  /\ \A i, j \in DOMAIN results : results[i].file = results[j].file => i = j

\* Unless something was given up or FILE was rotated twice, the open files are
\* consecutive logs; they are read in their order, and all of them.
LogConsecutive ==
  unavailable = {} /\ turns < 2 =>
    /\ pc = "open" /\ index > 0 =>
         LogChain(sources, index) /\ LogTurned(names, newest, moving, sources[1].file, turns)
    /\ pc = "read" =>
         /\ LogChain(sources, Rotated + 1)
         /\ Len(results) = index - 1
         /\ \A i \in DOMAIN results : results[i].file = sources[i].file
    /\ pc = "report" \/ exit = Log!ExitOK => LogChain(results, Rotated + 1)

LogReported == exit = Log!ExitOK => unavailable = {}

LogIInv == LogTypeOK /\ LogOpening /\ LogReading /\ LogDistinct /\ LogConsecutive /\ LogReported

LEMMA LogTurnedStart ==
  ASSUME NEW n, NEW w, NEW first, NEW t, LogTurned(n, w, -1, first, t), n[0] # 0
  PROVE  LogTurned(n, w, Log!Oldest - 1, first, t)
BY DEF LogTurned

LEMMA LogTurnedRename ==
  ASSUME Log!LogSourcesAssumption, NEW n, NEW w, NEW m, LogNames(n, w, m), m >= 0,
         NEW first \in Nat, NEW t \in Nat, LogTurned(n, w, m, first, t)
  PROVE  LogTurned([n EXCEPT ![m + 1] = n[m], ![m] = 0], w, m - 1, first, IF m = 0 THEN t + 1 ELSE t)
<1>1. m \in 0..Rotated /\ n \in [Log!Names -> 0..w] /\ 0 \in Log!Names
  BY DEF LogNames, Log!LogSourcesAssumption, Log!Names, Log!Oldest
<1>2. CASE m = 0
  BY <1>1, <1>2 DEF LogTurned, Log!LogSourcesAssumption, Log!Names, Log!Oldest
<1>3. CASE m # 0
  BY <1>1, <1>3 DEF LogTurned, Log!LogSourcesAssumption, Log!Names, Log!Oldest
<1> QED BY <1>2, <1>3

LEMMA LogTurnedCreate ==
  ASSUME Log!LogSourcesAssumption, NEW n, NEW w, LogNames(n, w, -1), n[0] = 0,
         NEW first \in Nat, NEW t \in Nat, t < 2, LogTurned(n, w, -1, first, t)
  PROVE  LogTurned([n EXCEPT ![0] = w + 1], w + 1, -1, first, t)
BY DEF LogTurned, LogNames, Log!LogSourcesAssumption, Log!Names, Log!Oldest

LEMMA LogInit == ASSUME Log!LogSourcesAssumption, Log!Init PROVE LogIInv
<1>1. LogNames(names, newest, moving)
  BY LogNamesStart DEF Log!Init
<1>2. size \in [Log!Files -> 0..2] /\ turns \in Nat /\ index \in Nat
  BY DEF Log!Init
<1>3. sources \in Seq(LogSourceSet) /\ results \in Seq(LogResultSet)
  BY DEF Log!Init
<1> QED
  BY <1>1, <1>2, <1>3 DEF Log!Init, Log!LogSourcesAssumption, LogIInv, LogTypeOK, LogOpening, LogReading,
    LogDistinct, LogConsecutive, LogReported, Log!ExitOK

\* A run that ends without a complete report claims nothing.
LEMMA LogEnd ==
  ASSUME LogIInv, pc' = "done", exit' # Log!ExitOK,
         UNCHANGED <<Log!world, index, sources, unavailable, results, turns>>
  PROVE  LogIInv'
BY DEF LogIInv, LogTypeOK, LogOpening, LogReading, LogDistinct, LogConsecutive, LogReported, Log!world

\* What a rotation leaves alone, and what it may not break.
LEMMA LogRotation ==
  ASSUME Log!LogSourcesAssumption, LogIInv, Log!Rotation
  PROVE  LogIInv'
<1>1. /\ pc = "open" /\ LogNames(names, newest, moving) /\ turns \in Nat /\ sources \in Seq(LogSourceSet)
      /\ UNCHANGED <<size, writes, pc, index, sources, unavailable, results, exit>>
      /\ index \in 0..Rotated
  BY DEF LogIInv, LogTypeOK, LogOpening, Log!Rotation
<1>2. index > 0 => sources # << >> /\ sources[1].file \in Nat
  <2>1. index > 0 => sources # << >>
    BY DEF LogIInv, LogOpening, Log!Rotation
  <2>2. sources # << >> => 1 \in DOMAIN sources
    BY <1>1
  <2>3. sources # << >> => sources[1] \in LogSourceSet
    BY <1>1, <2>2
  <2> QED BY <2>1, <2>3 DEF LogSourceSet
<1>3. /\ LogNames(names', newest', moving')
      /\ turns' \in Nat
      /\ \A first \in Nat : LogTurned(names, newest, moving, first, turns) /\ turns' < 2
           => turns < 2 /\ LogTurned(names', newest', moving', first, turns')
      /\ turns' < 2 => turns < 2
  <2>1. CASE Log!RotationStarts /\ names[0] # 0
    BY <1>1, <2>1, LogNamesRotate, LogTurnedStart DEF Log!RotationStarts
  <2>2. CASE Log!Rename
    <3>1. moving \in -1..Rotated
      BY <1>1 DEF LogNames
    <3> DEFINE n == [names EXCEPT ![moving + 1] = names[moving], ![moving] = 0]
               t == IF moving = 0 THEN turns + 1 ELSE turns
    <3>2. names' = n /\ newest' = newest /\ moving' = moving - 1 /\ turns' = t /\ moving >= 0
      BY <2>2 DEF Log!Rename
    <3>3. LogNames(n, newest, moving - 1)
      BY <1>1, <3>2, LogNamesRename, Zenon
    <3>4. \A first \in Nat : LogTurned(names, newest, moving, first, turns)
            => LogTurned(n, newest, moving - 1, first, t)
      BY <1>1, <3>2, LogTurnedRename, Zenon
    <3>5. t \in Nat /\ (t < 2 => turns < 2)
      BY <1>1, <3>1
    <3> HIDE DEF n, t
    <3> QED BY <3>2, <3>3, <3>4, <3>5
  <2>3. CASE Log!CreateLog
    <3>1. LogNames([names EXCEPT ![0] = newest + 1], newest + 1, -1)
      BY <1>1, <2>3, LogNamesCreate, Zenon DEF Log!CreateLog
    <3>2. \A first \in Nat : LogTurned(names, newest, moving, first, turns) /\ turns < 2
            => LogTurned([names EXCEPT ![0] = newest + 1], newest + 1, -1, first, turns)
      BY <1>1, <2>3, LogTurnedCreate, Zenon DEF Log!CreateLog
    <3> QED BY <1>1, <2>3, <3>1, <3>2, Zenon DEF Log!CreateLog
  <2> QED BY <2>1, <2>2, <2>3 DEF Log!Rotation
<1>4. LogTypeOK' /\ LogOpening' /\ LogReading' /\ LogDistinct' /\ LogReported'
  BY <1>1, <1>3 DEF LogIInv, LogTypeOK, LogOpening, LogReading, LogDistinct, LogReported
<1>5. LogConsecutive'
  <2>1. exit = -1 /\ exit # Log!ExitOK
    BY <1>1 DEF LogIInv, LogTypeOK, Log!ExitOK
  <2> QED BY <1>1, <1>2, <1>3, <2>1 DEF LogIInv, LogConsecutive
<1> QED BY <1>4, <1>5 DEF LogIInv

LEMMA LogSizeChanges ==
  ASSUME LogIInv, Log!SizeChanges
  PROVE  LogIInv'
<1>1. size' \in [Log!Files -> 0..2]
  BY DEF LogIInv, LogTypeOK, Log!SizeChanges
<1>2. UNCHANGED <<names, newest, moving, pc, index, sources, unavailable, results, turns, exit>>
  BY DEF Log!SizeChanges
<1> QED
  BY <1>1, <1>2 DEF LogIInv, LogTypeOK, LogOpening, LogReading, LogDistinct, LogConsecutive, LogReported

LEMMA LogOpenFails ==
  ASSUME Log!LogSourcesAssumption, LogIInv, Log!OpenFails
  PROVE  LogIInv'
<1>1. /\ pc = "open" /\ UNCHANGED <<Log!world, sources, results, turns>>
      /\ Log!GiveUpName(Log!ExitUsage) \/ Log!GiveUpName(Log!ExitFailure)
  BY DEF Log!OpenFails
<1>2. CASE index = 0
  BY <1>1, <1>2, LogEnd DEF Log!GiveUpName, Log!Done, Log!ExitOK, Log!ExitUsage, Log!ExitFailure
<1>3. CASE index # 0
  <2>1. /\ index \in 1..Rotated /\ sources # << >> /\ results = << >> /\ exit = -1
        /\ sources \in Seq(LogSourceSet)
    BY <1>1, <1>3
    DEF Log!LogSourcesAssumption, LogIInv, LogTypeOK, LogOpening
  <2>2. /\ unavailable' # {} /\ exit' = -1
        /\ index = Rotated => index' = 1 /\ pc' = "read"
        /\ index # Rotated => index' = index + 1 /\ pc' = "open"
    BY <1>1, <1>3, <2>1, Zenon DEF Log!GiveUpName, Log!NextName
  <2>3. Len(sources) \in Nat /\ Len(sources) >= 1
    BY <2>1
  <2>4. CASE index = Rotated
    BY <1>1, <2>1, <2>2, <2>3, <2>4
    DEF LogIInv, LogTypeOK, LogOpening, LogReading, LogDistinct, LogConsecutive, LogReported, Log!world,
      Log!ExitOK
  <2>5. CASE index # Rotated
    <3>1. index + 1 \in 0..Rotated /\ index + 1 # 0 /\ index + 1 \in Nat
      BY <2>1, <2>5 DEF Log!LogSourcesAssumption
    <3> QED
      BY <1>1, <2>1, <2>2, <2>5, <3>1
      DEF LogIInv, LogTypeOK, LogOpening, LogReading, LogDistinct, LogConsecutive, LogReported, Log!world,
        Log!ExitOK
  <2> QED BY <2>4, <2>5
<1> QED BY <1>2, <1>3

\* The chain goes on with the log before the last one.
LEMMA LogChainAppend ==
  ASSUME NEW S, NEW s \in Seq(S), NEW n \in Nat, n >= 1, LogChain(s, n), NEW x \in S,
         \A y \in S : y.file \in Nat, x.file = s[1].file - n
  PROVE  LogChain(Append(s, x), n + 1)
<1> DEFINE r == Append(s, x)
<1>1. /\ Len(s) = n /\ Len(r) = n + 1 /\ r[n + 1] = x /\ r[1] = s[1] /\ s[1] \in S
      /\ \A j \in 1..n : r[j] = s[j] /\ s[j].file = s[1].file - (j - 1)
  BY DEF LogChain
<1> HIDE DEF r
<1>2. \A j \in 1..(n + 1) : r[j].file = r[1].file - (j - 1)
  BY <1>1
<1> QED BY <1>1, <1>2 DEF LogChain, r

LEMMA LogDistinctAppend ==
  ASSUME NEW S, NEW s \in Seq(S), NEW x \in S,
         \A i, j \in DOMAIN s : s[i].file = s[j].file => i = j,
         \A i \in DOMAIN s : s[i].file # x.file
  PROVE  \A i, j \in DOMAIN Append(s, x) : Append(s, x)[i].file = Append(s, x)[j].file => i = j
OBVIOUS

\* What there is to be opened when index names were looked at, all of them
\* opened: it is open already, or the log that belongs next.
LEMMA LogNextOpened ==
  ASSUME Log!LogSourcesAssumption, LogIInv, pc = "open", index > 0, names[index] # 0,
         unavailable = {}, turns < 2
  PROVE  Log!Seen(names[index]) \/ names[index] = sources[1].file - index
<1>1. /\ LogNames(names, newest, moving) /\ index \in 1..Rotated /\ sources \in Seq(LogSourceSet)
      /\ turns \in Nat
      /\ Len(sources) = index /\ \A j \in 1..index : sources[j].file = sources[1].file - (j - 1)
      /\ LogTurned(names, newest, moving, sources[1].file, turns)
  BY DEF LogIInv, LogTypeOK, LogOpening, LogConsecutive, LogChain
<1>2. sources[1].file \in Nat /\ DOMAIN sources = 1..index
  <2>1. index \in Nat /\ 1 \in 1..index /\ DOMAIN sources = 1..index
    BY <1>1 DEF Log!LogSourcesAssumption
  <2>2. sources[1] \in LogSourceSet
    BY <1>1, <2>1
  <2> QED BY <2>1, <2>2 DEF LogSourceSet
<1>3. newest = sources[1].file \/ (newest = sources[1].file + 1 /\ names[0] # 0)
  BY <1>1 DEF LogTurned
<1>4. \/ names[index] = sources[1].file - index
      \/ \E j \in 0..(index - 1) : names[index] = sources[1].file - j
  <2> DEFINE first == sources[1].file
  <2>1. first \in Nat /\ (newest = first \/ (newest = first + 1 /\ names[0] # 0))
    BY <1>2, <1>3
  <2> HIDE DEF first
  <2>2. \/ newest = first /\ names[0] # 0 /\ names[index] = first - index
        \/ \E j \in 0..(index - 1) : names[index] = first - j
    BY <1>1, <2>1, LogNamesSeen
  <2> QED BY <2>2 DEF first
<1>5. ASSUME NEW j \in 0..(index - 1), names[index] = sources[1].file - j
      PROVE  Log!Seen(names[index])
  <2>1. index \in Nat /\ j \in Int /\ j + 1 \in 1..index /\ (j + 1) - 1 = j
    BY <1>1, <1>5 DEF Log!LogSourcesAssumption
  <2>3. sources[j + 1].file = sources[1].file - j
    BY <1>1, <2>1
  <2> QED BY <1>2, <1>5, <2>1, <2>3 DEF Log!Seen
<1> QED BY <1>4, <1>5

LEMMA LogOpenSource ==
  ASSUME Log!LogSourcesAssumption, LogIInv, Log!OpenSource
  PROVE  LogIInv'
<1> DEFINE file == names[index]
           source == [file |-> file, boundary |-> size[file]]
           opened == Append(sources, source)
<1>1. /\ pc = "open" /\ file # 0 /\ UNCHANGED <<Log!world, results, exit>> /\ Log!NextName
      /\ Log!Seen(file) => unavailable' # {} /\ sources' = sources
      /\ ~Log!Seen(file) => unavailable' = unavailable /\ sources' = opened
      /\ turns' = IF index = 0 THEN 0 ELSE turns
  BY Zenon DEF Log!OpenSource
<1>2. /\ LogNames(names, newest, moving) /\ results = << >> /\ exit = -1 /\ turns \in Nat
      /\ index \in 0..Rotated /\ index \in Nat /\ sources \in Seq(LogSourceSet)
      /\ index = 0 <=> sources = << >>
      /\ size \in [Log!Files -> 0..2] /\ Rotated \in Nat
  BY <1>1 DEF LogIInv, LogTypeOK, LogOpening, Log!LogSourcesAssumption
<1>3. source \in LogSourceSet /\ source.file = file
  <2>1. file \in Log!Files /\ file \in Nat
    BY <1>1, <1>2 DEF LogNames, Log!Names, Log!Files, Log!Oldest, Log!LogSourcesAssumption
  <2> QED BY <1>2, <2>1 DEF LogSourceSet
<1>4. opened \in Seq(LogSourceSet) /\ Len(opened) = Len(sources) + 1 /\ Len(sources) \in Nat
  BY <1>2, <1>3
<1>5. sources' \in Seq(LogSourceSet) /\ sources' # << >> /\ Len(sources') \in Nat /\ Len(sources') >= 1
  <2>1. CASE Log!Seen(file)
    <3>1. sources # << >>
      BY <1>2, <2>1 DEF Log!Seen
    <3> QED BY <1>1, <1>2, <2>1, <3>1
  <2>2. CASE ~Log!Seen(file)
    BY <1>1, <1>4, <2>2
  <2> QED BY <2>1, <2>2
<1>6. \A i, j \in DOMAIN sources' : sources'[i].file = sources'[j].file => i = j
  <2>1. \A i, j \in DOMAIN sources : sources[i].file = sources[j].file => i = j
    BY DEF LogIInv, LogDistinct
  <2>2. ~Log!Seen(file) => \A i \in DOMAIN sources : sources[i].file # file
    BY DEF Log!Seen
  <2>3. ~Log!Seen(file) => \A i, j \in DOMAIN opened : opened[i].file = opened[j].file => i = j
    BY <1>2, <1>3, <2>1, <2>2, LogDistinctAppend
  <2> HIDE DEF opened
  <2> QED BY <1>1, <2>1, <2>3
<1>7. unavailable' = {} /\ turns' < 2 =>
        LogChain(sources', index + 1) /\ LogTurned(names, newest, moving, sources'[1].file, turns')
  <2>1. CASE index = 0
    <3>1. sources' = <<source>> /\ turns' = 0
      BY <1>1, <1>2, <2>1 DEF Log!Seen
    <3>2. file = newest
      BY <1>1, <1>2, <2>1 DEF LogNames, Log!Names, Log!Oldest, Log!LogSourcesAssumption
    <3>3. LogChain(<<source>>, 1)
      <4>1. source.file - 0 = source.file
        BY <1>3 DEF LogSourceSet
      <4> HIDE DEF source
      <4> QED BY <4>1 DEF LogChain
    <3> QED BY <1>1, <1>3, <2>1, <3>1, <3>2, <3>3 DEF LogTurned
  <2>2. CASE index # 0
    <3> SUFFICES ASSUME unavailable' = {}, turns' < 2
                 PROVE  /\ LogChain(sources', index + 1)
                        /\ LogTurned(names, newest, moving, sources'[1].file, turns')
      OBVIOUS
    <3>1. ~Log!Seen(file) /\ unavailable = {} /\ turns < 2 /\ turns' = turns /\ sources' = opened
      BY <1>1, <2>2
    <3>2. file = sources[1].file - index /\ index > 0
      BY <1>1, <1>2, <2>2, <3>1, LogNextOpened
    <3>3. LogChain(sources, index) /\ LogTurned(names, newest, moving, sources[1].file, turns)
      BY <1>1, <3>1, <3>2 DEF LogIInv, LogConsecutive
    <3>4. LogChain(opened, index + 1)
      <4>1. \A y \in LogSourceSet : y.file \in Nat
        BY DEF LogSourceSet
      <4>2. index >= 1 /\ source.file = sources[1].file - index
        BY <1>2, <1>3, <3>2
      <4> HIDE DEF source
      <4> QED BY <1>2, <1>3, <3>3, <4>1, <4>2, LogChainAppend
    <3>5. opened[1] = sources[1]
      BY <1>2, <1>3, <2>2
    <3> QED BY <3>1, <3>3, <3>4, <3>5
  <2> QED BY <2>1, <2>2
<1> HIDE DEF file, opened
<1>8. CASE index = Rotated
  <2>1. index' = 1 /\ pc' = "read" /\ turns' \in Nat
    BY <1>1, <1>2, <1>8 DEF Log!NextName
  <2> QED
    BY <1>1, <1>2, <1>5, <1>6, <1>7, <1>8, <2>1
    DEF LogIInv, LogTypeOK, LogOpening, LogReading, LogDistinct, LogConsecutive, LogReported, Log!world,
      Log!ExitOK
<1>9. CASE index # Rotated
  <2>1. index' = index + 1 /\ pc' = "open" /\ turns' \in Nat
    BY <1>1, <1>2, <1>9 DEF Log!NextName
  <2>2. index + 1 \in 0..Rotated /\ index + 1 # 0 /\ index + 1 \in Nat
    BY <1>2, <1>9
  <2> QED
    BY <1>1, <1>2, <1>5, <1>6, <1>7, <1>9, <2>1, <2>2
    DEF LogIInv, LogTypeOK, LogOpening, LogReading, LogDistinct, LogConsecutive, LogReported, Log!world,
      Log!ExitOK
<1> QED BY <1>8, <1>9

LEMMA LogReadFails ==
  ASSUME LogIInv, Log!ReadFails
  PROVE  LogIInv'
<1>1. /\ pc = "read" /\ UNCHANGED <<Log!world, sources, results, turns>>
      /\ Log!GiveUpSource(Log!ExitUsage) \/ Log!GiveUpSource(Log!ExitFailure)
  BY DEF Log!ReadFails
<1>2. CASE index = 1
  BY <1>1, <1>2, LogEnd DEF Log!GiveUpSource, Log!Done, Log!ExitOK, Log!ExitUsage, Log!ExitFailure
<1>3. CASE index # 1
  <2>1. /\ unavailable' # {} /\ exit' = exit /\ exit = -1 /\ index' = index + 1
        /\ index = Len(sources) => pc' = "report"
        /\ index # Len(sources) => pc' = "read"
    BY <1>1, <1>3, Zenon DEF Log!GiveUpSource, Log!NextSource, LogIInv, LogTypeOK
  <2>2. /\ index \in 1..Len(sources) /\ sources \in Seq(LogSourceSet)
        /\ \A i \in DOMAIN results : \E j \in 1..(index - 1) : results[i].file = sources[j].file
    BY <1>1 DEF LogIInv, LogTypeOK, LogReading
  <2>3. index + 1 \in Nat /\ Len(sources) \in Nat /\ 1..(index - 1) \subseteq 1..((index + 1) - 1)
    BY <2>2
  <2>4. index # Len(sources) => index + 1 \in 1..Len(sources)
    BY <2>2, <2>3
  <2>5. LogTypeOK' /\ LogOpening' /\ LogDistinct' /\ LogConsecutive' /\ LogReported'
    BY <1>1, <2>1, <2>3
    DEF LogIInv, LogTypeOK, LogOpening, LogDistinct, LogConsecutive, LogReported, Log!world, Log!ExitOK
  <2>6. LogReading'
    BY <1>1, <2>1, <2>2, <2>3, <2>4 DEF LogReading
  <2> QED BY <2>5, <2>6 DEF LogIInv
<1> QED BY <1>2, <1>3

\* The last of the sources is read, and everything was read.
LEMMA LogAllRead ==
  ASSUME NEW s, NEW r, NEW n \in Nat, n >= 1, LogChain(s, n), Len(r) = n,
         \A i \in 1..n : r[i].file = s[i].file
  PROVE  LogChain(r, n)
<1>1. 1 \in 1..n
  OBVIOUS
<1> QED BY <1>1 DEF LogChain

LEMMA LogReadSource ==
  ASSUME Log!LogSourcesAssumption, LogIInv, Log!ReadSource
  PROVE  LogIInv'
<1>1. /\ pc = "read" /\ UNCHANGED <<Log!world, sources, unavailable, turns, exit>>
      /\ index' = index + 1
      /\ index = Len(sources) => pc' = "report"
      /\ index # Len(sources) => pc' = "read"
  BY DEF Log!ReadSource, Log!NextSource
<1>2. /\ index \in 1..Len(sources) /\ sources \in Seq(LogSourceSet) /\ results \in Seq(LogResultSet)
      /\ \A i \in DOMAIN results : \E j \in 1..(index - 1) : results[i].file = sources[j].file
      /\ turns \in Nat /\ size \in [Log!Files -> 0..2] /\ exit = -1
  BY <1>1 DEF LogIInv, LogTypeOK, LogReading
<1>3. index \in Nat /\ index >= 1 /\ index <= Len(sources) /\ Len(sources) \in Nat /\ index \in DOMAIN sources
  BY <1>2
<1>4. PICK result \in LogResultSet : results' = Append(results, result) /\ result.file = sources[index].file
  <2>1. sources[index] \in LogSourceSet
    BY <1>2, <1>3
  <2>2. sources[index].file \in Nat
    BY <2>1 DEF LogSourceSet
  <2>3. PICK consumed \in 0..sources[index].boundary, limit \in BOOLEAN, minutes \in SUBSET Log!Minutes :
          results' = Append(results, [file |-> sources[index].file,
            lost |-> consumed < sources[index].boundary, limited |-> limit, minutes |-> minutes])
    BY Zenon DEF Log!ReadSource
  <2> DEFINE result == [file |-> sources[index].file, lost |-> consumed < sources[index].boundary,
                        limited |-> limit, minutes |-> minutes]
  <2>4. (consumed < sources[index].boundary) \in BOOLEAN
    OBVIOUS
  <2>5. result \in LogResultSet /\ result.file = sources[index].file
    BY <2>2, <2>4 DEF LogResultSet
  <2> QED BY <2>3, <2>5
<1>5. /\ results' \in Seq(LogResultSet) /\ Len(results') = Len(results) + 1 /\ Len(results) \in Nat
      /\ DOMAIN results' = 1..(Len(results) + 1)
      /\ results'[Len(results) + 1] = result
      /\ \A i \in 1..Len(results) : results'[i] = results[i]
  BY <1>2, <1>4
<1>6. \A i \in DOMAIN results' : \E j \in 1..index : results'[i].file = sources[j].file
  <2> SUFFICES ASSUME NEW i \in DOMAIN results'
               PROVE  \E j \in 1..index : results'[i].file = sources[j].file
    OBVIOUS
  <2>1. CASE i = Len(results) + 1
    <3>1. index \in 1..index
      BY <1>3
    <3> QED BY <1>4, <1>5, <2>1, <3>1
  <2>2. CASE i # Len(results) + 1
    <3>1. i \in 1..Len(results)
      BY <1>5, <2>2
    <3>2. i \in DOMAIN results /\ results'[i] = results[i]
      BY <1>2, <1>5, <3>1
    <3>3. 1..(index - 1) \subseteq 1..index
      BY <1>3
    <3> QED BY <1>2, <3>2, <3>3
  <2> QED BY <2>1, <2>2
<1>7. LogDistinct'
  <2>1. \A i, j \in DOMAIN results : results[i].file = results[j].file => i = j
    BY DEF LogIInv, LogDistinct
  <2>2. \A i \in DOMAIN results : results[i].file # result.file
    <3> SUFFICES ASSUME NEW i \in DOMAIN results, results[i].file = result.file
                 PROVE  FALSE
      OBVIOUS
    <3>1. PICK j \in 1..(index - 1) : results[i].file = sources[j].file
      BY <1>2
    <3>2. j \in DOMAIN sources /\ j # index
      BY <1>2, <1>3
    <3>3. sources[j].file = sources[index].file
      BY <1>4, <3>1
    <3> QED BY <1>3, <3>2, <3>3 DEF LogIInv, LogDistinct
  <2>3. \A i, j \in DOMAIN results' : results'[i].file = results'[j].file => i = j
    BY <1>2, <1>4, <2>1, <2>2, LogDistinctAppend
  <2> QED BY <1>1, <2>3 DEF LogIInv, LogDistinct
<1>8. LogConsecutive'
  <2> SUFFICES ASSUME unavailable = {}, turns < 2
               PROVE  /\ pc' = "read" =>
                           /\ LogChain(sources, Rotated + 1)
                           /\ Len(results') = (index + 1) - 1
                           /\ \A i \in DOMAIN results' : results'[i].file = sources[i].file
                      /\ pc' = "report" => LogChain(results', Rotated + 1)
    BY <1>1, <1>2 DEF LogConsecutive, Log!ExitOK
  <2>1. /\ LogChain(sources, Rotated + 1) /\ Len(results) = index - 1
        /\ \A i \in DOMAIN results : results[i].file = sources[i].file
    BY <1>1 DEF LogIInv, LogConsecutive
  <2>2. Len(results') = index /\ (index + 1) - 1 = index /\ DOMAIN results' = 1..index
    BY <1>3, <1>5, <2>1
  <2>3. \A i \in DOMAIN results' : results'[i].file = sources[i].file
    <3> SUFFICES ASSUME NEW i \in 1..index
                 PROVE  results'[i].file = sources[i].file
      BY <2>2
    <3>1. CASE i = index
      BY <1>3, <1>4, <1>5, <2>1, <3>1
    <3>2. CASE i # index
      <4>1. i \in 1..Len(results) /\ i \in DOMAIN results
        BY <1>2, <1>3, <2>1, <3>2
      <4> QED BY <1>5, <2>1, <4>1
    <3> QED BY <3>1, <3>2
  <2>4. pc' = "report" => LogChain(results', Rotated + 1)
    <3>1. Rotated + 1 \in Nat /\ Rotated + 1 >= 1 /\ Len(sources) = Rotated + 1
      BY <2>1 DEF LogChain, Log!LogSourcesAssumption
    <3>2. pc' = "report" => index = Rotated + 1
      BY <1>1, <3>1
    <3> QED BY <2>1, <2>2, <2>3, <3>1, <3>2, LogAllRead, Zenon
  <2> QED BY <2>1, <2>2, <2>3, <2>4
<1>9. LogReading'
  <2>1. (index + 1) - 1 = index
    BY <1>3
  <2>2. index # Len(sources) => index + 1 \in 1..Len(sources)
    BY <1>3
  <2> QED BY <1>1, <1>6, <2>1, <2>2 DEF LogReading
<1>10. LogTypeOK' /\ LogOpening' /\ LogReported'
  <2>1. index + 1 \in Nat
    BY <1>3
  <2> QED
    BY <1>1, <1>2, <1>5, <2>1 DEF LogIInv, LogTypeOK, LogOpening, LogReported, Log!world, Log!ExitOK
<1> QED BY <1>7, <1>8, <1>9, <1>10 DEF LogIInv

LEMMA LogReport ==
  ASSUME LogIInv, Log!Report
  PROVE  LogIInv'
<1>1. /\ pc = "report" /\ pc' = "done" /\ UNCHANGED <<Log!world, index, sources, unavailable, results, turns>>
      /\ exit' = Log!ExitOK => ~Log!Warned
  BY DEF Log!Report, Log!Done, Log!ExitOK, Log!ExitFinding, Log!ExitFailure
<1>2. CASE exit' = Log!ExitOK
  <2>1. unavailable = {}
    BY <1>1, <1>2 DEF Log!Warned
  <2> QED
    BY <1>1, <1>2, <2>1
    DEF LogIInv, LogTypeOK, LogOpening, LogReading, LogDistinct, LogConsecutive, LogReported, Log!world
<1>3. CASE exit' # Log!ExitOK
  BY <1>1, <1>3, LogEnd
<1> QED BY <1>2, <1>3

LEMMA LogStep ==
  ASSUME Log!LogSourcesAssumption, LogIInv, Log!Next \/ UNCHANGED Log!vars
  PROVE  LogIInv'
<1>1. CASE Log!Interrupt
  BY <1>1, LogEnd DEF Log!Interrupt, Log!Done, Log!ExitOK, Log!ExitInterrupted
<1>2. CASE UNCHANGED Log!vars
  BY <1>2
  DEF Log!vars, Log!world, LogIInv, LogTypeOK, LogOpening, LogReading, LogDistinct, LogConsecutive, LogReported
<1> QED
  BY <1>1, <1>2, LogRotation, LogSizeChanges, LogOpenFails, LogOpenSource, LogReadFails, LogReadSource,
     LogReport
  DEF Log!Next, Log!ToolStep

THEOREM LogInvariance == Spec => [](tool = "loghound" => LogIInv)
<1>1. Log!LogSourcesAssumption
  BY ObserversAssumption
<1>2. Init => (tool = "loghound" => LogIInv)
  BY <1>1, StartOfOneTool, LogInit
<1>3. (tool = "loghound" => LogIInv) /\ [Next]_vars => (tool = "loghound" => LogIInv)'
  BY <1>1, StepsOfOneTool, LogStep
<1> QED BY <1>2, <1>3, PTL DEF Spec

\* However many rotations rename the names while they are opened, and whatever
\* is given up, no file is read twice.
THEOREM NoFileIsReadTwice == Spec => []NoFileTwice
<1>1. LogIInv => Log!NoFileTwice
  BY DEF LogIInv, LogDistinct, Log!NoFileTwice, Log!IsInjective
<1>2. (tool = "loghound" => LogIInv) => NoFileTwice
  BY <1>1 DEF NoFileTwice
<1> QED BY <1>2, LogInvariance, PTL

\* For any number of rotated logs, a report without a warning is of FILE and
\* the logs before it without a gap, unless FILE was rotated twice meanwhile.
THEOREM CompleteReportIsContiguous == Spec => []CompleteIsContiguous
<1>1. ASSUME LogIInv PROVE Log!CompleteIsContiguous
  <2> SUFFICES ASSUME exit = Log!ExitOK, turns < 2
               PROVE  LogChain(results, Rotated + 1) /\ DOMAIN results = 1..(Rotated + 1)
    BY DEF LogChain, Log!CompleteIsContiguous
  <2>1. LogChain(results, Rotated + 1)
    BY <1>1 DEF LogIInv, LogReported, LogConsecutive
  <2>2. DOMAIN results = 1..Len(results)
    BY <1>1 DEF LogIInv, LogTypeOK
  <2> QED BY <2>1, <2>2 DEF LogChain
<1>2. (tool = "loghound" => LogIInv) => CompleteIsContiguous
  BY <1>1 DEF CompleteIsContiguous
<1> QED BY <1>2, LogInvariance, PTL

-------------------------------------------------------------------------------
(* Incident Snapshot: for any interfaces and processes, and any limits.    *)

Told(s) == \A i, j \in 1..Len(s) : s[i] = s[j] => i = j

LEMMA ToldConcat ==
  ASSUME NEW S, NEW T, S \intersect T = {}, NEW s \in Seq(S), NEW t \in Seq(T), Told(s), Told(t)
  PROVE  s \o t \in Seq(S \union T) /\ Told(s \o t)
<1> DEFINE u == s \o t
<1>1. /\ u \in Seq(S \union T) /\ Len(u) = Len(s) + Len(t)
      /\ \A i \in 1..Len(u) : u[i] = IF i <= Len(s) THEN s[i] ELSE t[i - Len(s)]
  OBVIOUS
<1>2. ASSUME NEW i \in 1..Len(u), NEW j \in 1..Len(u), u[i] = u[j] PROVE i = j
  <2>1. CASE i <= Len(s) /\ j <= Len(s)
    BY <1>1, <1>2, <2>1 DEF Told
  <2>2. CASE i > Len(s) /\ j > Len(s)
    <3>1. i - Len(s) \in 1..Len(t) /\ j - Len(s) \in 1..Len(t) /\ t[i - Len(s)] = t[j - Len(s)]
      BY <1>1, <1>2, <2>2
    <3> QED BY <3>1 DEF Told
  <2>3. CASE i <= Len(s) /\ j > Len(s)
    <3>1. s[i] \in S /\ t[j - Len(s)] \in T
      BY <1>1, <2>3
    <3> QED BY <1>1, <1>2, <2>3, <3>1
  <2>4. CASE i > Len(s) /\ j <= Len(s)
    <3>1. s[j] \in S /\ t[i - Len(s)] \in T
      BY <1>1, <2>4
    <3> QED BY <1>1, <1>2, <2>4, <3>1
  <2> QED BY <1>1, <2>1, <2>2, <2>3, <2>4
<1> QED BY <1>1, <1>2 DEF Told

SnapNames == {"memory", "filesystem", "pressure", "inodes", "interfaces", "routes", "listeners", "processes",
              "services", "kernel"}

\* A profile has each of its sections once.
LEMMA SnapSections ==
  ASSUME NEW p
  PROVE  Snap!Sections(p) \in Seq(SnapNames) /\ Told(Snap!Sections(p))
<1> DEFINE S1 == {"memory", "filesystem"}
           S2 == {"pressure", "inodes"}
           S3 == {"interfaces", "routes", "listeners"}
           S4 == {"processes"}
           S5 == {"services", "kernel"}
           s1 == <<"memory", "filesystem">>
           s2 == IF p = "full" THEN <<"pressure", "inodes">> ELSE << >>
           s3 == IF p \in {"network", "full"} THEN <<"interfaces", "routes", "listeners">> ELSE << >>
           s4 == IF p \in {"process", "full"} THEN <<"processes">> ELSE << >>
           s5 == IF p = "full" THEN <<"services", "kernel">> ELSE << >>
<1>1. s1 \in Seq(S1) /\ s2 \in Seq(S2) /\ s3 \in Seq(S3) /\ s4 \in Seq(S4) /\ s5 \in Seq(S5)
  <2>1. s1 \in Seq(S1)
    OBVIOUS
  <2>2. s2 \in Seq(S2)
    <3>1. <<"pressure", "inodes">> \in Seq(S2) /\ << >> \in Seq(S2)
      OBVIOUS
    <3> QED BY <3>1, Zenon
  <2>3. s3 \in Seq(S3)
    <3>1. <<"interfaces", "routes", "listeners">> \in Seq(S3) /\ << >> \in Seq(S3)
      OBVIOUS
    <3> QED BY <3>1, Zenon
  <2>4. s4 \in Seq(S4)
    <3>1. <<"processes">> \in Seq(S4) /\ << >> \in Seq(S4)
      OBVIOUS
    <3> QED BY <3>1, Zenon
  <2>5. s5 \in Seq(S5)
    <3>1. <<"services", "kernel">> \in Seq(S5) /\ << >> \in Seq(S5)
      OBVIOUS
    <3> QED BY <3>1, Zenon
  <2> QED BY <2>1, <2>2, <2>3, <2>4, <2>5
<1>2. Told(s1) /\ Told(s2) /\ Told(s3) /\ Told(s4) /\ Told(s5)
  BY DEF Told
<1>3. Snap!Sections(p) = s1 \o s2 \o s3 \o s4 \o s5
  BY DEF Snap!Sections
<1>4. S1 \union S2 \union S3 \union S4 \union S5 = SnapNames
  BY DEF SnapNames
<1>5. /\ S1 \intersect S2 = {} /\ (S1 \union S2) \intersect S3 = {}
      /\ (S1 \union S2 \union S3) \intersect S4 = {} /\ (S1 \union S2 \union S3 \union S4) \intersect S5 = {}
  OBVIOUS
<1> HIDE DEF S1, S2, S3, S4, S5, s1, s2, s3, s4, s5
<1>6. s1 \o s2 \in Seq(S1 \union S2) /\ Told(s1 \o s2)
  BY <1>1, <1>2, <1>5, ToldConcat, Zenon
<1>7. s1 \o s2 \o s3 \in Seq(S1 \union S2 \union S3) /\ Told(s1 \o s2 \o s3)
  BY <1>1, <1>2, <1>5, <1>6, ToldConcat, Zenon
<1>8. s1 \o s2 \o s3 \o s4 \in Seq(S1 \union S2 \union S3 \union S4) /\ Told(s1 \o s2 \o s3 \o s4)
  BY <1>1, <1>2, <1>5, <1>7, ToldConcat, Zenon
<1>9. s1 \o s2 \o s3 \o s4 \o s5 \in Seq(S1 \union S2 \union S3 \union S4 \union S5) /\ Told(s1 \o s2 \o s3 \o s4 \o s5)
  BY <1>1, <1>2, <1>5, <1>8, ToldConcat, Zenon
<1> QED BY <1>3, <1>4, <1>9

\* The sections S of the profile are closed in order, each with one status;
\* rest are those still to come.
SnapClosed(S, rest, closed) ==
  /\ rest \in Seq(SnapNames) /\ Len(rest) <= Len(S)
  /\ \A i \in 1..Len(rest) : rest[i] = S[Len(S) - Len(rest) + i]
  /\ IsFiniteSet(closed) /\ Cardinality(closed) = Len(S) - Len(rest)
  /\ {x[1] : x \in closed} = {S[i] : i \in 1..(Len(S) - Len(rest))}

SnapMissing(closed) == {x[1] : x \in {y \in closed : y[2] # "observed"}}

LEMMA SnapOneMore ==
  ASSUME NEW closed, NEW e
  PROVE  /\ {x[1] : x \in closed \union {e}} = {x[1] : x \in closed} \union {e[1]}
         /\ SnapMissing(closed \union {e}) = SnapMissing(closed) \union IF e[2] = "observed" THEN {} ELSE {e[1]}
<1>1. {x[1] : x \in closed \union {e}} = {x[1] : x \in closed} \union {e[1]}
  OBVIOUS
<1>2. CASE e[2] = "observed"
  BY <1>1, <1>2 DEF SnapMissing
<1>3. CASE e[2] # "observed"
  <2>1. {y \in closed \union {e} : y[2] # "observed"} = {y \in closed : y[2] # "observed"} \union {e}
    BY <1>3
  <2> DEFINE some == {y \in closed : y[2] # "observed"}
  <2>2. {x[1] : x \in some \union {e}} = {x[1] : x \in some} \union {e[1]}
    OBVIOUS
  <2> QED BY <1>3, <2>1, <2>2 DEF SnapMissing
<1> QED BY <1>1, <1>2, <1>3

LEMMA SnapClosing ==
  ASSUME NEW S \in Seq(SnapNames), Told(S), NEW rest, NEW closed, SnapClosed(S, rest, closed), rest # << >>,
         NEW r
  PROVE  /\ SnapClosed(S, Tail(rest), closed \union {<<Head(rest), r>>})
         /\ SnapMissing(closed \union {<<Head(rest), r>>}) =
              SnapMissing(closed) \union IF r = "observed" THEN {} ELSE {Head(rest)}
<1> DEFINE d == Len(S) - Len(rest)
           e == <<Head(rest), r>>
<1>1. rest \in Seq(SnapNames) /\ Len(rest) \in 1..Len(S) /\ d \in Nat /\ d + 1 \in 1..Len(S)
      /\ Head(rest) = S[d + 1]
  BY DEF SnapClosed
<1>2. Tail(rest) \in Seq(SnapNames) /\ Len(Tail(rest)) = Len(rest) - 1
      /\ \A i \in 1..(Len(rest) - 1) : Tail(rest)[i] = rest[i + 1]
  BY <1>1
<1>3. \A i \in 1..(Len(rest) - 1) : Tail(rest)[i] = S[d + 1 + i]
  <2> TAKE i \in 1..(Len(rest) - 1)
  <2>1. i + 1 \in 1..Len(rest) /\ Tail(rest)[i] = rest[i + 1] /\ d + (i + 1) = d + 1 + i
    BY <1>1, <1>2
  <2>2. rest[i + 1] = S[d + (i + 1)]
    BY <2>1 DEF SnapClosed
  <2> QED BY <2>1, <2>2
<1>4. e \notin closed
  <2>1. ASSUME e \in closed PROVE FALSE
    <3>1. e[1] \in {S[i] : i \in 1..d}
      BY <2>1, Zenon DEF SnapClosed
    <3>2. PICK i \in 1..d : S[i] = S[d + 1]
      BY <1>1, <3>1
    <3> QED BY <1>1, <3>2 DEF Told
  <2> QED BY <2>1
<1>5. IsFiniteSet(closed \union {e}) /\ Cardinality(closed \union {e}) = d + 1
  BY <1>4, FS_AddElement, Zenon DEF SnapClosed
<1>6. {x[1] : x \in closed \union {e}} = {x[1] : x \in closed} \union {Head(rest)}
  BY SnapOneMore, Zenon
<1>7. {S[i] : i \in 1..(d + 1)} = {S[i] : i \in 1..d} \union {S[d + 1]}
  BY <1>1
<1>8. {x[1] : x \in closed} = {S[i] : i \in 1..d}
  BY Zenon DEF SnapClosed
<1>9. Len(S) - Len(Tail(rest)) = d + 1 /\ Len(Tail(rest)) <= Len(S)
  BY <1>1, <1>2
<1>10. SnapClosed(S, Tail(rest), closed \union {e})
  <2> DEFINE t == Tail(rest)
             c == closed \union {e}
  <2>1. t \in Seq(SnapNames) /\ Len(t) <= Len(S) /\ Len(S) - Len(t) = d + 1 /\ Len(t) = Len(rest) - 1
    BY <1>2, <1>9
  <2>2. \A i \in 1..Len(t) : t[i] = S[d + 1 + i]
    BY <1>3, <2>1
  <2>3. IsFiniteSet(c) /\ Cardinality(c) = d + 1 /\ {x[1] : x \in c} = {S[i] : i \in 1..(d + 1)}
    BY <1>1, <1>5, <1>6, <1>7, <1>8, Zenon
  <2> HIDE DEF t, c, d
  <2>4. SnapClosed(S, t, c)
    BY <2>1, <2>2, <2>3, Zenon DEF SnapClosed
  <2> QED BY <2>4 DEF t, c
<1>11. SnapMissing(closed \union {e}) = SnapMissing(closed) \union IF r = "observed" THEN {} ELSE {Head(rest)}
  BY SnapOneMore, Zenon
<1> QED BY <1>10, <1>11, Zenon

LEMMA LeastOfNat ==
  ASSUME NEW K \in SUBSET Nat, K # {}
  PROVE  \E m \in K : \A k \in K : m <= k
<1> DEFINE R == OpToRel(<, Nat)
<1>1. \A a, b \in Nat : a < b => <<a, b>> \in R
  BY Zenon DEF OpToRel
<1>2. IsWellFoundedOn(R, Nat)
  BY NatLessThanWellFounded, Zenon
<1> HIDE DEF R
<1>3. PICK m \in K : \A k \in K : ~ (<<k, m>> \in R)
  BY <1>2, WFMin, Zenon
<1>4. ASSUME NEW k \in K PROVE m <= k
  <2>1. m \in Nat /\ k \in Nat
    OBVIOUS
  <2>2. ~ (k < m)
    BY <1>1, <1>3, <2>1, Zenon
  <2> QED BY <2>1, <2>2
<1> QED BY <1>4

SnapTables == {"route", "tcp", "udp"}

SnapTypeOK ==
  /\ pc \in {"mandatory", "section", "items", "opened", "done"}
  /\ profile \in Snap!Profiles
  /\ got \in BOOLEAN /\ gap \in BOOLEAN
  /\ exit = -1 <=> pc # "done"
  /\ SnapTables \subseteq alive

\* Until the end every section is either to come or closed with its status, and
\* those that are not observed are those that were missed; only the current one
\* may be missed before it is closed.
SnapProgress ==
  pc # "done" =>
    /\ SnapClosed(Snap!Sections(profile), todo, status)
    /\ missed = SnapMissing(status) \union (IF pc \in {"items", "opened"} /\ gap THEN {Snap!Current} ELSE {})
    /\ pc = "mandatory" => missed = {} /\ todo # << >>

\* While a section is read: of the tables that every kernel has one is still to
\* be read if nothing was read and nothing missed.
SnapItems ==
  pc \in {"items", "opened"} =>
    /\ pc = "opened" => items # {}
    /\ todo # << >> /\ Snap!Current \in Snap!TableSections \union Snap!ListedSections
    /\ items \subseteq Snap!Range(Snap!Sources[Snap!Current])
    /\ Snap!Current \in Snap!TableSections => got \/ gap \/ items \intersect SnapTables # {}

\* A report is made when nothing is to come.
SnapReported ==
  exit \in {Snap!ExitOK, Snap!ExitFinding} =>
    /\ SnapClosed(Snap!Sections(profile), << >>, status)
    /\ missed = SnapMissing(status)
    /\ exit = Snap!ExitOK => missed = {}

SnapIInv == SnapTypeOK /\ SnapProgress /\ SnapItems /\ SnapReported

\* The first of the items that are left is one of them.
LEMMA SnapFirst ==
  ASSUME Snap!SectionsAssumption, SnapIInv, pc \in {"items", "opened"}, items # {}
  PROVE  Snap!Item \in items
<1> DEFINE s == Snap!Sources[Snap!Current]
           K == {k \in DOMAIN s : s[k] \in items}
<1>1. K # {}
  BY DEF SnapIInv, SnapItems, Snap!Range
<1>2. K \in SUBSET Nat
  <2>1. s \in Seq(Snap!Range(s))
    <3>1. Snap!Current \in {"routes", "listeners", "interfaces", "processes"}
      BY DEF SnapIInv, SnapItems, Snap!TableSections, Snap!ListedSections
    <3>2. CASE Snap!Current = "routes"
      BY <3>2 DEF Snap!Sources, Snap!Range
    <3>3. CASE Snap!Current = "listeners"
      BY <3>3 DEF Snap!Sources, Snap!Range
    <3>4. CASE Snap!Current = "interfaces"
      BY <3>4 DEF Snap!Sources, Snap!Range, Snap!SectionsAssumption, Snap!Interfaces
    <3>5. CASE Snap!Current = "processes"
      BY <3>5 DEF Snap!Sources, Snap!Range, Snap!SectionsAssumption, Snap!Processes
    <3> QED BY <3>1, <3>2, <3>3, <3>4, <3>5
  <2> QED BY <2>1
<1> HIDE DEF s, K
<1>3. \E m \in K : \A k \in K : m <= k
  BY <1>1, <1>2, LeastOfNat
<1>4. Snap!Min(K) \in K
  BY <1>3, Zenon DEF Snap!Min
<1> QED BY <1>4 DEF K, s, Snap!Item

LEMMA SnapInit == ASSUME Snap!SectionsAssumption, Snap!Init PROVE SnapIInv
<1>1. SnapTypeOK
  BY Zenon DEF Snap!Init, SnapTypeOK, Snap!AllTables, Snap!IPv6Tables, SnapTables
<1>2. SnapProgress
  <2> DEFINE S == Snap!Sections(profile)
  <2>1. S \in Seq(SnapNames) /\ todo = S /\ status = {} /\ missed = {} /\ pc = "mandatory"
    BY SnapSections DEF Snap!Init
  <2>2. S # << >>
    BY DEF Snap!Sections
  <2> HIDE DEF S
  <2>3. IsFiniteSet(status) /\ Cardinality(status) = 0
    BY <2>1, FS_EmptySet
  <2>4. SnapClosed(S, todo, status)
    BY <2>1, <2>3 DEF SnapClosed
  <2>5. missed = SnapMissing(status)
    BY <2>1 DEF SnapMissing
  <2> QED BY <2>1, <2>2, <2>4, <2>5 DEF SnapProgress, S
<1>3. SnapItems /\ SnapReported
  BY DEF Snap!Init, SnapItems, SnapReported, Snap!ExitOK, Snap!ExitFinding
<1> QED BY <1>1, <1>2, <1>3 DEF SnapIInv

\* A run that ends otherwise than with a report says nothing of its sections.
LEMMA SnapEnd ==
  ASSUME SnapIInv, NEW code \in {Snap!ExitFailure, Snap!ExitInterrupted}, Snap!Done(code),
         UNCHANGED <<profile, got, gap, alive>>
  PROVE  SnapIInv'
BY DEF SnapIInv, SnapTypeOK, SnapProgress, SnapItems, SnapReported, Snap!Done, Snap!ExitFailure,
  Snap!ExitInterrupted, Snap!ExitOK, Snap!ExitFinding

LEMMA SnapGoes == ASSUME Snap!SectionsAssumption, SnapIInv, Snap!Goes PROVE SnapIInv'
<1>1. SnapTables \subseteq alive'
  BY DEF SnapIInv, SnapTypeOK, Snap!Goes, Snap!SectionsAssumption, Snap!AllTables, SnapTables
<1>2. UNCHANGED <<profile, pc, todo, items, got, gap, status, missed, exit>>
  BY DEF Snap!Goes, Snap!section
<1> QED BY <1>1, <1>2 DEF SnapIInv, SnapTypeOK, SnapProgress, SnapItems, SnapReported, Snap!Current

LEMMA SnapCollectMandatory == ASSUME SnapIInv, Snap!CollectMandatory PROVE SnapIInv'
<1>1. CASE Snap!Done(Snap!ExitFailure)
  BY <1>1, SnapEnd DEF Snap!CollectMandatory, Snap!world, Snap!section
<1>2. CASE pc' = "section" /\ UNCHANGED exit
  BY <1>2 DEF Snap!CollectMandatory, Snap!world, Snap!section, SnapIInv, SnapTypeOK, SnapProgress, SnapItems,
    SnapReported
<1> QED BY <1>1, <1>2 DEF Snap!CollectMandatory

\* A section is closed, observed if nothing of it was missed.
LEMMA SnapCloses ==
  ASSUME SnapIInv, todo # << >>, pc \in {"section", "items"}, NEW r, Snap!CloseSection(r),
         missed' = SnapMissing(status) \union (IF r = "observed" THEN {} ELSE {Snap!Current}),
         UNCHANGED <<profile, alive, got, gap, exit>>
  PROVE  SnapIInv'
<1> DEFINE S == Snap!Sections(profile)
<1>1. S \in Seq(SnapNames) /\ Told(S) /\ SnapClosed(S, todo, status)
  BY SnapSections DEF SnapIInv, SnapProgress
<1>2. status' = status \union {<<Head(todo), r>>} /\ todo' = Tail(todo) /\ pc' = "section"
  BY DEF Snap!CloseSection, Snap!Current
<1> HIDE DEF S
<1>3. SnapClosed(S, todo', status') /\ missed' = SnapMissing(status')
  <2>1. /\ SnapClosed(S, Tail(todo), status \union {<<Head(todo), r>>})
        /\ SnapMissing(status \union {<<Head(todo), r>>}) =
             SnapMissing(status) \union IF r = "observed" THEN {} ELSE {Head(todo)}
    BY <1>1, SnapClosing, Zenon
  <2> QED BY <1>2, <2>1, Zenon DEF Snap!Current
<1>4. S' = S
  BY DEF S
<1>5. SnapProgress'
  BY <1>2, <1>3, <1>4, Zenon DEF SnapProgress, S
<1> QED BY <1>2, <1>5 DEF SnapIInv, SnapTypeOK, SnapItems, SnapReported, Snap!ExitOK, Snap!ExitFinding

LEMMA SnapSectionFails == ASSUME SnapIInv, Snap!SectionFails PROVE SnapIInv'
<1>1. CASE Snap!Done(Snap!ExitFailure)
  BY <1>1, SnapEnd DEF Snap!SectionFails, Snap!world, Snap!section
<1>2. CASE Snap!CloseSection("unavailable") /\ UNCHANGED exit
  <2>1. missed' = SnapMissing(status) \union {Snap!Current}
    BY DEF Snap!SectionFails, SnapIInv, SnapProgress
  <2> QED BY <1>2, <2>1, SnapCloses DEF Snap!SectionFails, Snap!world, Snap!section
<1> QED BY <1>1, <1>2 DEF Snap!SectionFails

LEMMA SnapCollectSource == ASSUME SnapIInv, Snap!CollectSource PROVE SnapIInv'
<1>1. missed' = SnapMissing(status)
  BY DEF Snap!CollectSource, SnapIInv, SnapProgress
<1> QED BY <1>1, SnapCloses DEF Snap!CollectSource, Snap!world, Snap!section

LEMMA SnapEndSection == ASSUME SnapIInv, Snap!EndSection PROVE SnapIInv'
<1> DEFINE r == IF Snap!Current \in Snap!TableSections /\ ~got THEN "unavailable"
                ELSE IF gap THEN "partial" ELSE "observed"
<1>1. pc = "items" /\ items = {} /\ Snap!CloseSection(r) /\ todo # << >>
      /\ UNCHANGED <<profile, alive, got, gap, exit, missed>>
  BY DEF Snap!EndSection, Snap!world, Snap!section, SnapIInv, SnapItems
<1>2. r # "observed" <=> gap
  BY <1>1 DEF SnapIInv, SnapItems, SnapTypeOK
<1>3. missed = SnapMissing(status) \union (IF r = "observed" THEN {} ELSE {Snap!Current})
  BY <1>1, <1>2 DEF SnapIInv, SnapProgress, SnapTypeOK
<1> HIDE DEF r
<1> QED BY <1>1, <1>3, SnapCloses

\* The items of a section are listed; if some are left out, that is a gap.
LEMMA SnapBegins ==
  ASSUME SnapIInv, pc = "section", todo # << >>, Snap!Current \in Snap!TableSections \union Snap!ListedSections,
         NEW chosen \in SUBSET Snap!Range(Snap!Sources[Snap!Current]), Snap!BeginItems(chosen),
         Snap!Current \in Snap!TableSections => chosen \intersect SnapTables # {},
         gap' \in BOOLEAN, missed' = missed \union (IF gap' THEN {Snap!Current} ELSE {})
  PROVE  SnapIInv'
<1>1. pc' = "items" /\ items' = chosen /\ got' = FALSE /\ UNCHANGED <<alive, profile, todo, status, exit>>
  BY DEF Snap!BeginItems, Snap!world
<1>2. Snap!Current' = Snap!Current
  BY <1>1 DEF Snap!Current
<1>3. missed = SnapMissing(status) /\ SnapClosed(Snap!Sections(profile), todo, status)
  BY DEF SnapIInv, SnapProgress
<1>4. SnapProgress'
  BY <1>1, <1>2, <1>3 DEF SnapProgress
<1>5. SnapItems'
  BY <1>1, <1>2 DEF SnapItems
<1>6. SnapTypeOK'
  <2>1. /\ pc' \in {"mandatory", "section", "items", "opened", "done"} /\ profile' \in Snap!Profiles
        /\ exit' = -1 <=> pc' # "done"
        /\ SnapTables \subseteq alive' /\ got' \in BOOLEAN
    BY <1>1, Zenon DEF SnapIInv, SnapTypeOK
  <2> QED BY <2>1, Zenon DEF SnapTypeOK, Snap!Profiles
<1>7. SnapReported'
  BY <1>1 DEF SnapIInv, SnapTypeOK, SnapReported, Snap!ExitOK, Snap!ExitFinding
<1> QED BY <1>4, <1>5, <1>6, <1>7 DEF SnapIInv

LEMMA SnapListInterfaces == ASSUME SnapIInv, Snap!ListInterfaces PROVE SnapIInv'
<1>1. PICK chosen \in SUBSET Snap!There : Snap!BeginItems(chosen)
  <2> DEFINE c == {i \in Snap!There :
                     Snap!Cardinality({k \in 1..Snap!Place(i) : InterfaceNames[k] \in alive}) <= MaxInterfaces}
  <2>1. Snap!BeginItems(c) /\ c \in SUBSET Snap!There
    BY Zenon DEF Snap!ListInterfaces
  <2> QED BY <2>1, Zenon
<1>2. pc = "section" /\ todo # << >> /\ Snap!Current = "interfaces" /\ gap' = FALSE /\ missed' = missed
  BY DEF Snap!ListInterfaces
<1>3. chosen \in SUBSET Snap!Range(Snap!Sources[Snap!Current])
  BY DEF Snap!There
<1>4. Snap!Current \in Snap!ListedSections /\ Snap!Current \notin Snap!TableSections
  BY <1>2 DEF Snap!TableSections, Snap!ListedSections
<1>5. gap' \in BOOLEAN /\ missed' = missed \union (IF gap' THEN {Snap!Current} ELSE {})
  BY <1>2, Zenon
<1>6. /\ Snap!Current \in Snap!TableSections \union Snap!ListedSections
      /\ Snap!Current \in Snap!TableSections => chosen \intersect SnapTables # {}
  BY <1>4
<1> QED BY <1>1, <1>2, <1>3, <1>5, <1>6, SnapBegins

LEMMA SnapListTables == ASSUME SnapIInv, Snap!ListTables PROVE SnapIInv'
<1> DEFINE chosen == Snap!Range(Snap!Sources[Snap!Current])
<1>1. /\ pc = "section" /\ todo # << >> /\ Snap!Current \in Snap!TableSections /\ Snap!BeginItems(chosen)
      /\ gap' = FALSE /\ missed' = missed
  BY DEF Snap!ListTables
<1>2. chosen \intersect SnapTables # {}
  <2>1. CASE Snap!Current = "routes"
    <3>1. chosen = {<<"route", "ipv6_route">>[i] : i \in {1, 2}}
      BY <2>1 DEF Snap!Range, Snap!Sources
    <3> QED BY <3>1 DEF SnapTables
  <2>2. CASE Snap!Current = "listeners"
    <3>1. chosen = {<<"tcp", "tcp6", "udp", "udp6">>[i] : i \in {1, 2, 3, 4}}
      BY <2>2 DEF Snap!Range, Snap!Sources
    <3> QED BY <3>1 DEF SnapTables
  <2> QED BY <1>1, <2>1, <2>2 DEF Snap!TableSections
<1> HIDE DEF chosen
<1>3. chosen \in SUBSET Snap!Range(Snap!Sources[Snap!Current])
  BY DEF chosen
<1> QED BY <1>1, <1>2, <1>3, SnapBegins, Zenon DEF Snap!TableSections, Snap!ListedSections

LEMMA SnapListProcesses == ASSUME SnapIInv, Snap!ListProcesses PROVE SnapIInv'
<1>1. PICK chosen \in SUBSET Snap!There : Snap!BeginItems(chosen)
  BY Zenon DEF Snap!ListProcesses, Snap!kSubset
<1>2. /\ pc = "section" /\ todo # << >> /\ Snap!Current = "processes"
      /\ gap' \in BOOLEAN /\ missed' = missed \union (IF gap' THEN {Snap!Current} ELSE {})
  BY DEF Snap!ListProcesses
<1>3. chosen \in SUBSET Snap!Range(Snap!Sources[Snap!Current])
  BY DEF Snap!There
<1> QED BY <1>1, <1>2, <1>3, SnapBegins DEF Snap!TableSections, Snap!ListedSections

\* What an item is when its turn comes: the tables of IPv4 are there.
LEMMA SnapItemKinds ==
  ASSUME Snap!SectionsAssumption, SnapIInv, pc \in {"items", "opened"}, items # {}
  PROVE  /\ Snap!Item \in SnapTables \/ Snap!MayBeAbsent(Snap!Item)
         /\ Snap!Item \in SnapTables => Snap!Item \in alive
<1>1. Snap!Current \in {"routes", "listeners", "interfaces", "processes"}
      /\ Snap!Item \in Snap!Range(Snap!Sources[Snap!Current])
  BY SnapFirst DEF SnapIInv, SnapItems, Snap!TableSections, Snap!ListedSections
<1> DEFINE i == Snap!Item
<1>2. CASE Snap!Current = "routes"
  <2>1. i \in {<<"route", "ipv6_route">>[k] : k \in {1, 2}}
    BY <1>1, <1>2 DEF Snap!Range, Snap!Sources
  <2>2. i \in {"route", "ipv6_route"}
    BY <2>1
  <2> HIDE DEF i
  <2>3. i \in SnapTables \/ Snap!MayBeAbsent(i)
    BY <2>2 DEF SnapTables, Snap!MayBeAbsent, Snap!IPv6Tables
  <2> QED BY <2>3 DEF i, SnapIInv, SnapTypeOK
<1>3. CASE Snap!Current = "listeners"
  <2>1. i \in {<<"tcp", "tcp6", "udp", "udp6">>[k] : k \in {1, 2, 3, 4}}
    BY <1>1, <1>3 DEF Snap!Range, Snap!Sources
  <2>2. i \in {"tcp", "tcp6", "udp", "udp6"}
    BY <2>1
  <2> HIDE DEF i
  <2>3. i \in SnapTables \/ Snap!MayBeAbsent(i)
    BY <2>2 DEF SnapTables, Snap!MayBeAbsent, Snap!IPv6Tables
  <2> QED BY <2>3 DEF i, SnapIInv, SnapTypeOK
<1>4. CASE Snap!Current = "interfaces"
  <2>1. i \in Snap!Interfaces
    BY <1>1, <1>4 DEF Snap!Sources, Snap!Interfaces
  <2> HIDE DEF i
  <2>2. Snap!MayBeAbsent(i)
    BY <2>1 DEF Snap!MayBeAbsent
  <2> QED BY <2>2 DEF i, SnapIInv, SnapTypeOK
<1>5. CASE Snap!Current = "processes"
  <2>1. i \in Snap!Processes
    BY <1>1, <1>5 DEF Snap!Sources, Snap!Processes
  <2> HIDE DEF i
  <2>2. Snap!MayBeAbsent(i)
    BY <2>1 DEF Snap!MayBeAbsent
  <2> QED BY <2>2 DEF i, SnapIInv, SnapTypeOK
<1> QED BY <1>1, <1>2, <1>3, <1>4, <1>5

\* An item is read, cannot be read, is read in part, or has gone.
LEMMA SnapReads ==
  ASSUME Snap!SectionsAssumption, SnapIInv, pc \in {"items", "opened"}, items # {}, pc' = "items",
         items' = items \ {Snap!Item}, UNCHANGED <<alive, profile, todo, status, exit>>,
         Snap!Observed \/ Snap!Lost \/ Snap!TableIsCut \/ Snap!Vanished
  PROVE  SnapIInv'
<1>1. /\ pc \in {"items", "opened"} /\ pc' = "items" /\ items # {} /\ items' = items \ {Snap!Item}
      /\ UNCHANGED <<alive, profile, todo, status, exit>>
  OBVIOUS
<1>2. Snap!Current' = Snap!Current
  BY <1>1 DEF Snap!Current
<1>3. /\ got' \in BOOLEAN /\ gap' \in BOOLEAN /\ (got => got') /\ (gap => gap')
      /\ Snap!Item \in SnapTables => got' \/ gap'
      /\ missed' = missed \union (IF gap' THEN {Snap!Current} ELSE {})
  <2>1. /\ Snap!Item \in SnapTables \/ Snap!MayBeAbsent(Snap!Item)
        /\ Snap!Item \in SnapTables => Snap!Item \in alive
    BY <1>1, SnapItemKinds
  <2>2. got \in BOOLEAN /\ gap \in BOOLEAN /\ (gap => Snap!Current \in missed)
    BY <1>1 DEF SnapIInv, SnapTypeOK, SnapProgress
  <2>3. CASE Snap!Observed
    BY <2>1, <2>2, <2>3 DEF Snap!Observed
  <2>4. CASE Snap!Lost
    BY <2>1, <2>2, <2>4 DEF Snap!Lost
  <2>5. CASE Snap!TableIsCut
    BY <2>1, <2>2, <2>5 DEF Snap!TableIsCut
  <2>6. CASE Snap!Vanished
    <3>1. Snap!MayBeAbsent(Snap!Item) /\ Snap!Item \notin SnapTables
      BY <2>1, <2>6 DEF Snap!Vanished
    <3>2. gap' = gap /\ missed' = missed /\ got' = got
      BY <2>2, <2>6, <3>1 DEF Snap!Vanished
    <3> QED BY <2>2, <3>1, <3>2
  <2> QED BY <2>3, <2>4, <2>5, <2>6
<1>4. SnapProgress'
  <2>1. SnapClosed(Snap!Sections(profile), todo, status)
        /\ missed = SnapMissing(status) \union (IF gap THEN {Snap!Current} ELSE {})
    BY <1>1 DEF SnapIInv, SnapProgress
  <2>2. missed' = SnapMissing(status) \union (IF gap' THEN {Snap!Current} ELSE {})
    <3>1. CASE gap
      <4>1. gap' /\ missed = SnapMissing(status) \union {Snap!Current}
        BY <1>3, <2>1, <3>1, Zenon
      <4>2. missed' = missed \union {Snap!Current}
        BY <1>3, <4>1, Zenon
      <4>3. missed' = SnapMissing(status) \union {Snap!Current}
        BY <4>1, <4>2
      <4> QED BY <4>1, <4>3, Zenon
    <3>2. CASE ~gap
      <4>1. missed = SnapMissing(status)
        BY <2>1, <3>2
      <4> QED BY <1>3, <4>1, Zenon
    <3> QED BY <3>1, <3>2
  <2>3. SnapClosed(Snap!Sections(profile'), todo', status') /\ SnapMissing(status') = SnapMissing(status)
    BY <1>1, <2>1
  <2> QED BY <1>1, <1>2, <2>2, <2>3 DEF SnapProgress
<1>5. SnapItems'
  <2> HIDE DEF Snap!Current
  <2>1. todo' # << >> /\ Snap!Current' \in Snap!TableSections \union Snap!ListedSections
        /\ items' \subseteq Snap!Range(Snap!Sources[Snap!Current'])
    BY <1>1, <1>2 DEF SnapIInv, SnapItems
  <2>2. Snap!Current' \in Snap!TableSections => got' \/ gap' \/ items' \intersect SnapTables # {}
    <3>1. Snap!Current \in Snap!TableSections => got \/ gap \/ items \intersect SnapTables # {}
      BY <1>1 DEF SnapIInv, SnapItems
    <3>2. items \intersect SnapTables # {} => items' \intersect SnapTables # {} \/ Snap!Item \in SnapTables
      BY <1>1
    <3>3. got \/ gap => got' \/ gap'
      BY <1>3, Zenon
    <3>4. Snap!Item \in SnapTables => got' \/ gap'
      BY <1>3
    <3>5. Snap!Current' \in Snap!TableSections => Snap!Current \in Snap!TableSections
      BY <1>2
    <3> QED BY <3>1, <3>2, <3>3, <3>4, <3>5, Zenon
  <2> QED BY <2>1, <2>2 DEF SnapItems
<1>6. SnapTypeOK'
  <2>1. got' \in BOOLEAN /\ gap' \in BOOLEAN
    BY <1>3, Zenon
  <2>2. /\ pc' \in {"mandatory", "section", "items", "opened", "done"} /\ profile' \in Snap!Profiles
        /\ exit' = -1 <=> pc' # "done"
        /\ SnapTables \subseteq alive'
    BY <1>1 DEF SnapIInv, SnapTypeOK
  <2> QED BY <2>1, <2>2, Zenon DEF SnapTypeOK, Snap!Profiles
<1>7. SnapReported'
  BY <1>1 DEF SnapIInv, SnapTypeOK, SnapReported, Snap!ExitOK, Snap!ExitFinding
<1> QED BY <1>4, <1>5, <1>6, <1>7 DEF SnapIInv

LEMMA SnapReport == ASSUME SnapIInv, Snap!Report PROVE SnapIInv'
<1>1. CASE Snap!Done(Snap!ExitFailure)
  BY <1>1, SnapEnd DEF Snap!Report, Snap!world, Snap!section
<1>2. CASE Snap!Done(IF Snap!Complete THEN Snap!ExitOK ELSE Snap!ExitFinding)
  <2>1. /\ pc = "section" /\ todo = << >> /\ pc' = "done"
        /\ UNCHANGED <<alive, profile, todo, items, got, gap, status, missed>>
        /\ exit' = IF Snap!Complete THEN Snap!ExitOK ELSE Snap!ExitFinding
    BY <1>2 DEF Snap!Report, Snap!Done, Snap!world, Snap!section
  <2>2. SnapClosed(Snap!Sections(profile), << >>, status) /\ missed = SnapMissing(status)
    BY <2>1 DEF SnapIInv, SnapProgress
  <2>3. Snap!Complete => missed = {}
    BY <2>2 DEF Snap!Complete, SnapMissing
  <2>4. SnapReported'
    BY <2>1, <2>2, <2>3 DEF SnapReported, Snap!ExitOK, Snap!ExitFinding
  <2> QED BY <2>1, <2>4 DEF SnapIInv, SnapTypeOK, SnapProgress, SnapItems, Snap!ExitOK, Snap!ExitFinding
<1> QED BY <1>1, <1>2 DEF Snap!Report

LEMMA SnapStep ==
  ASSUME Snap!SectionsAssumption, SnapIInv, Snap!Next \/ UNCHANGED Snap!vars
  PROVE  SnapIInv'
<1>1. CASE UNCHANGED Snap!vars
  BY <1>1 DEF Snap!vars, Snap!world, Snap!section, SnapIInv, SnapTypeOK, SnapProgress, SnapItems, SnapReported,
    Snap!Current
<1>2. CASE Snap!Interrupt
  BY <1>2, SnapEnd DEF Snap!Interrupt, Snap!world, Snap!section
<1>3. CASE Snap!ReadInterface
  <2>1. pc = "opened" /\ items # {}
    BY <1>3 DEF Snap!ReadInterface, SnapIInv, SnapItems
  <2> QED BY <1>3, <2>1, SnapReads DEF Snap!ReadInterface, Snap!world
<1>4. CASE Snap!InterfaceNotOpened \/ Snap!ReadTable \/ Snap!ReadProcess
  <2>1. /\ pc = "items" /\ pc' = "items" /\ items # {} /\ items' = items \ {Snap!Item}
        /\ UNCHANGED <<alive, profile, todo, status, exit>>
    BY <1>4 DEF Snap!InterfaceNotOpened, Snap!ReadTable, Snap!ReadProcess, Snap!Reading, Snap!world
  <2>2. Snap!Observed \/ Snap!Lost \/ Snap!TableIsCut \/ Snap!Vanished
    BY <1>4 DEF Snap!InterfaceNotOpened, Snap!ReadTable, Snap!ReadProcess, Snap!Unreadable
  <2> QED BY <2>1, <2>2, SnapReads
<1>5. CASE Snap!OpenInterface
  <2>1. /\ pc = "items" /\ pc' = "opened" /\ items # {}
        /\ UNCHANGED <<alive, profile, todo, items, got, gap, status, missed, exit>>
    BY <1>5 DEF Snap!OpenInterface, Snap!world, Snap!section
  <2> QED BY <2>1 DEF SnapIInv, SnapTypeOK, SnapProgress, SnapItems, SnapReported, Snap!Current, Snap!ExitOK,
    Snap!ExitFinding
<1> QED BY <1>1, <1>2, <1>3, <1>4, <1>5, SnapGoes, SnapCollectMandatory, SnapSectionFails, SnapCollectSource,
  SnapListInterfaces, SnapListTables, SnapListProcesses, SnapEndSection, SnapReport DEF Snap!Next, Snap!ToolStep

THEOREM SnapInvariance == Spec => [](tool = "incident-snapshot" => SnapIInv)
<1>1. Snap!SectionsAssumption
  BY ObserversAssumption
<1>2. Init => (tool = "incident-snapshot" => SnapIInv)
  BY <1>1, StartOfOneTool, SnapInit
<1>3. (tool = "incident-snapshot" => SnapIInv) /\ [Next]_vars => (tool = "incident-snapshot" => SnapIInv)'
  BY <1>1, StepsOfOneTool, SnapStep
<1> QED BY <1>2, <1>3, PTL DEF Spec

\* For any interfaces and processes, a snapshot has one status for each section
\* of its profile, and is partial exactly for those of which something was there,
\* if only when it was opened, and was not read.
THEOREM PartialIsJustified == Spec => []PartialMeansGap
<1>1. ASSUME SnapIInv PROVE Snap!PartialMeansGap
  <2> SUFFICES ASSUME exit \in {Snap!ExitOK, Snap!ExitFinding}
               PROVE  /\ {s[1] : s \in status} = Snap!Range(Snap!Sections(profile))
                      /\ Snap!Cardinality(status) = Len(Snap!Sections(profile))
                      /\ {s[1] : s \in {x \in status : x[2] # "observed"}} = missed
    BY Zenon DEF Snap!PartialMeansGap
  <2> DEFINE S == Snap!Sections(profile)
  <2>1. S \in Seq(SnapNames) /\ SnapClosed(S, << >>, status) /\ missed = SnapMissing(status)
    BY <1>1, SnapSections DEF SnapIInv, SnapReported
  <2> HIDE DEF S
  <2>2. Cardinality(status) = Len(S) /\ {x[1] : x \in status} = {S[i] : i \in 1..Len(S)}
    <3>1. Len(<< >>) = 0 /\ Len(S) \in Nat /\ Len(S) - 0 = Len(S)
      BY <2>1
    <3> QED BY <2>1, <3>1, Zenon DEF SnapClosed
  <2>3. Snap!Range(S) = {S[i] : i \in 1..Len(S)}
    BY <2>1 DEF Snap!Range
  <2>4. Snap!Cardinality(status) = Cardinality(status)
    BY DEF Snap!Cardinality, Cardinality
  <2> QED BY <2>1, <2>2, <2>3, <2>4 DEF SnapMissing, S
<1>2. (tool = "incident-snapshot" => SnapIInv) => PartialMeansGap
  BY <1>1 DEF PartialMeansGap
<1> QED BY <1>2, SnapInvariance, PTL

-------------------------------------------------------------------------------
(* DiskHound: for any trees of finitely many paths, any options and any    *)
(* number of changes.                                                      *)

DiskEntrySet == [path : Paths \ {<< >>}, inode : Nat]

\* Nothing on the way to a path is excluded; and, in a tree that does not
\* change, nothing on the way is on another filesystem that is not crossed.
DiskClear(p) ==
  /\ Disk!OnPath(p) \intersect scanOptions.excludes = {}
  /\ changes = 0 => \A r \in Disk!OnPath(p) : scanOptions.cross \/ (tree[r] \notin Foreign /\ r \notin mounts)

\* An entry that is still to be counted or left out.
DiskWaiting == Disk!ToSet(eligible) \union Disk!ToSet(stack)

DiskStarting == {"validate", "mounts", "list_target"}
DiskLooking == {"peek", "list"}
DiskScanning == {"select", "branch", "visit", "report"} \union DiskLooking

DiskTypeOK ==
  /\ pc \in DiskStarting \union {"capacity", "done"} \union DiskScanning
  /\ tree \in [Paths -> Nat]
  /\ changes \in Nat /\ enumerated \in Nat /\ unique \in Nat /\ shallow \in Nat
  /\ limited \in BOOLEAN /\ capacity \in BOOLEAN
  /\ scanOptions \in [depth : Nat, entries : Nat, cross : BOOLEAN, remote : BOOLEAN, excludes : SUBSET Paths]
  /\ scanOptions.remote => scanOptions.cross
  /\ eligible \in Seq(DiskEntrySet) /\ stack \in Seq(DiskEntrySet)
  /\ present \subseteq DiskEntrySet
  /\ IsFiniteSet(global)

\* What the scan has in each of its places.
DiskPlaces ==
  /\ pc \in DiskStarting => eligible = << >> /\ present = {} /\ listed = {} /\ enumerated = 0
  /\ pc \in DiskStarting \union {"capacity"} => global = {} /\ branch = {} /\ capacity
  /\ pc \in DiskStarting \union {"capacity", "select"} => stack = << >>
  /\ pc \in {"branch", "report"} /\ ~limited => stack = << >>
  /\ pc = "report" /\ ~limited => eligible = << >>
  /\ pc \in {"mounts", "list_target", "capacity"} \union DiskScanning =>
       target # 0 /\ (changes = 0 => target = tree[<< >>])
  /\ pc \in {"capacity"} \union DiskScanning => target \in listed
  /\ pc \in DiskScanning => target \in global
  /\ branch \subseteq global
  /\ pc \in DiskLooking => entry \in DiskEntrySet /\ entry.inode \in Dirs \intersect global /\ DiskClear(entry.path)
  /\ exit = -1 <=> pc # "done"

\* What waits was there, below directories that are in scope; what was examined
\* at a mount point of the table is to be crossed.
DiskWaits ==
  \A w \in DiskWaiting :
    /\ DiskClear(Disk!Front(w.path))
    /\ w.inode # 0 => w \in present /\ (scanOptions.cross \/ w.path \notin mounts)

\* What is counted is the target or was there and in scope, and counts once.
DiskCounts ==
  /\ \A i \in global \ {target} : \E e \in present : e.inode = i /\ Disk!InScope(e) /\ DiskClear(e.path)
  /\ failures = {} => unique = Cardinality(global) /\ global \intersect Unusable = {}

\* In a tree that does not change a listed directory had what it has.
DiskSaw ==
  /\ \A e \in present : e.inode # 0
  /\ changes = 0 =>
       /\ tree \in Trees
       /\ \A e \in present : e.inode = tree[e.path]
       /\ \A q \in Paths \ {<< >>} :
            tree[q] # 0 /\ tree[Disk!Front(q)] \in listed => [path |-> q, inode |-> tree[q]] \in present

\* If nothing was missed, what was there is counted or waits, unless it is out
\* of scope; and each directory that was counted was looked into, but the one
\* that is next.
DiskKept ==
  pc # "done" /\ ~Disk!Incomplete =>
    /\ \A e \in present : Disk!InScope(e) =>
         \/ e.inode \in global
         \/ \E w \in DiskWaiting : w.path = e.path /\ (w.inode = e.inode \/ (w.inode = 0 /\ e.path \in mounts))
    /\ \A i \in global \intersect Dirs : i \in listed \/ (pc \in DiskLooking /\ i = entry.inode)

\* A report without reservations has nothing waiting.
DiskReported ==
  exit = Disk!ExitOK =>
    /\ ~Disk!Incomplete
    /\ target \in global /\ target # 0 /\ target \in listed /\ (changes = 0 => target = tree[<< >>])
    /\ \A e \in present : Disk!InScope(e) => e.inode \in global
    /\ global \intersect Dirs \subseteq listed

DiskIInv ==
  DiskTypeOK /\ DiskPlaces /\ DiskWaits /\ DiskCounts /\ DiskSaw /\ DiskKept /\ DiskReported

LEMMA DiskFront ==
  ASSUME NEW S, NEW s \in Seq(S), s # << >>
  PROVE  /\ Disk!Front(s) \in Seq(S) /\ Len(Disk!Front(s)) = Len(s) - 1
         /\ \A i \in 1..(Len(s) - 1) : Disk!Front(s)[i] = s[i]
         /\ Disk!Last(s) = s[Len(s)] /\ Disk!Last(s) \in S
<1> DEFINE n == Len(s) - 1
<1>1. n \in Nat /\ n < Len(s) /\ Len(s) \in 1..Len(s)
  OBVIOUS
<1>2. Disk!Front(s) = SubSeq(s, 1, n)
  BY DEF Disk!Front
<1> HIDE DEF n
<1>3. SubSeq(s, 1, n) \in Seq(S) /\ Len(SubSeq(s, 1, n)) = n /\ \A i \in 1..n : SubSeq(s, 1, n)[i] = s[i]
  BY <1>1
<1> QED BY <1>1, <1>2, <1>3 DEF n, Disk!Last

LEMMA DiskToSetOf ==
  ASSUME NEW S, NEW s \in Seq(S)
  PROVE  Disk!ToSet(s) = {s[i] : i \in 1..Len(s)}
BY DEF Disk!ToSet

LEMMA DiskPrefix ==
  ASSUME NEW q \in Seq(Nat), q # << >>, NEW r \in Seq(Nat)
  PROVE  /\ Disk!Front(q) \in Seq(Nat) /\ Len(Disk!Front(q)) = Len(q) - 1
         /\ Disk!IsPrefix(r, q) <=> r = q \/ Disk!IsPrefix(r, Disk!Front(q))
<1> DEFINE f == Disk!Front(q)
<1>1. Len(q) \in Nat \ {0}
  OBVIOUS
<1>2. f \in Seq(Nat) /\ Len(f) = Len(q) - 1 /\ \A i \in 1..Len(f) : f[i] = q[i]
  BY DiskFront, Zenon
<1> HIDE DEF f
<1>3. ASSUME Disk!IsPrefix(r, f) PROVE Disk!IsPrefix(r, q)
  <2>1. Len(r) <= Len(f) /\ SubSeq(r, 1, Len(r)) = SubSeq(f, 1, Len(r))
    BY <1>3 DEF Disk!IsPrefix
  <2>2. SubSeq(f, 1, Len(r)) = SubSeq(q, 1, Len(r))
    BY <1>1, <1>2, <2>1
  <2> QED BY <1>1, <1>2, <2>1, <2>2 DEF Disk!IsPrefix
<1>4. Disk!IsPrefix(q, q)
  BY DEF Disk!IsPrefix
<1>5. ASSUME Disk!IsPrefix(r, q), r # q PROVE Disk!IsPrefix(r, f)
  <2>1. Len(r) <= Len(q) /\ SubSeq(r, 1, Len(r)) = SubSeq(q, 1, Len(r))
    BY <1>5 DEF Disk!IsPrefix
  <2>2. Len(r) # Len(q)
    <3>1. ASSUME Len(r) = Len(q) PROVE FALSE
      <4>1. SubSeq(r, 1, Len(r)) = r /\ SubSeq(q, 1, Len(q)) = q
        OBVIOUS
      <4> QED BY <1>5, <2>1, <3>1, <4>1, Zenon
    <3> QED BY <3>1
  <2>3. Len(r) <= Len(f)
    BY <1>1, <1>2, <2>1, <2>2
  <2>4. SubSeq(f, 1, Len(r)) = SubSeq(q, 1, Len(r))
    BY <1>1, <1>2, <2>3
  <2> QED BY <2>1, <2>3, <2>4 DEF Disk!IsPrefix
<1> QED BY <1>2, <1>3, <1>4, <1>5 DEF f

LEMMA DiskPrefixOfNone ==
  ASSUME NEW r \in Seq(Nat), Disk!IsPrefix(r, << >>)
  PROVE  r = << >>
BY DEF Disk!IsPrefix

LEMMA DiskPrefixTrans ==
  ASSUME NEW p \in Seq(Nat), NEW q \in Seq(Nat), NEW r \in Seq(Nat), Disk!IsPrefix(r, q), Disk!IsPrefix(q, p)
  PROVE  Disk!IsPrefix(r, p)
<1>1. /\ Len(r) \in Nat /\ Len(q) \in Nat /\ Len(p) \in Nat
      /\ Len(r) <= Len(q) /\ SubSeq(r, 1, Len(r)) = SubSeq(q, 1, Len(r))
      /\ Len(q) <= Len(p) /\ SubSeq(q, 1, Len(q)) = SubSeq(p, 1, Len(q))
  BY DEF Disk!IsPrefix
<1>2. \A i \in 1..Len(q) : q[i] = p[i]
  <2> TAKE i \in 1..Len(q)
  <2>1. SubSeq(q, 1, Len(q))[i] = q[i] /\ SubSeq(p, 1, Len(q))[i] = p[i]
    BY <1>1
  <2> QED BY <1>1, <2>1
<1>3. SubSeq(q, 1, Len(r)) = SubSeq(p, 1, Len(r))
  BY <1>1, <1>2
<1> QED BY <1>1, <1>3 DEF Disk!IsPrefix

\* A path has the way to its directory, and itself, as its way.
LEMMA DiskOnPath ==
  ASSUME Disk!DiskScanAssumption
  PROVE  /\ Disk!OnPath(<< >>) = {}
         /\ \A p \in Paths \ {<< >>} : Disk!OnPath(p) = Disk!OnPath(Disk!Front(p)) \union {p}
         /\ \A p \in Paths : \A q \in Disk!OnPath(p) : Disk!OnPath(q) \subseteq Disk!OnPath(p)
<1>1. Paths \subseteq Seq(Nat)
  BY DEF Disk!DiskScanAssumption
<1>2. Disk!OnPath(<< >>) = {}
  BY <1>1, DiskPrefixOfNone DEF Disk!OnPath
<1>3. ASSUME NEW p \in Paths \ {<< >>} PROVE Disk!OnPath(p) = Disk!OnPath(Disk!Front(p)) \union {p}
  <2>1. \A r \in Paths : Disk!IsPrefix(r, p) <=> r = p \/ Disk!IsPrefix(r, Disk!Front(p))
    BY <1>1, DiskPrefix
  <2> QED BY <2>1 DEF Disk!OnPath
<1>4. ASSUME NEW p \in Paths, NEW q \in Disk!OnPath(p), NEW r \in Disk!OnPath(q) PROVE r \in Disk!OnPath(p)
  BY <1>1, DiskPrefixTrans DEF Disk!OnPath
<1> QED BY <1>2, <1>3, <1>4

\* What is below a clear directory, and itself in scope, is clear.
LEMMA DiskClearDown ==
  ASSUME Disk!DiskScanAssumption, NEW p \in Paths \ {<< >>}, DiskClear(Disk!Front(p)),
         p \notin scanOptions.excludes, changes = 0 => scanOptions.cross \/ (tree[p] \notin Foreign /\ p \notin mounts)
  PROVE  DiskClear(p)
<1>1. Disk!OnPath(p) = Disk!OnPath(Disk!Front(p)) \union {p}
  BY DiskOnPath
<1> QED BY <1>1 DEF DiskClear

LEMMA DiskToSet ==
  ASSUME NEW S, NEW s \in Seq(S)
  PROVE  /\ Disk!ToSet(s) = {s[i] : i \in 1..Len(s)} /\ Disk!ToSet(s) \subseteq S
         /\ Disk!ToSet(<< >>) = {}
         /\ s # << >> => /\ Disk!Front(s) \in Seq(S) /\ Disk!Last(s) \in S /\ Tail(s) \in Seq(S) /\ Head(s) \in S
                         /\ Disk!ToSet(s) = Disk!ToSet(Disk!Front(s)) \union {Disk!Last(s)}
                         /\ Disk!ToSet(s) = Disk!ToSet(Tail(s)) \union {Head(s)}
<1>1. Disk!ToSet(s) = {s[i] : i \in 1..Len(s)}
  BY DiskToSetOf
<1>2. Disk!ToSet(<< >>) = {}
  BY DEF Disk!ToSet
<1>3. ASSUME s # << >>
      PROVE  /\ Disk!Front(s) \in Seq(S) /\ Disk!Last(s) \in S
             /\ Disk!ToSet(s) = Disk!ToSet(Disk!Front(s)) \union {Disk!Last(s)}
  <2>1. Len(s) \in Nat \ {0}
    BY <1>3
  <2> DEFINE f == Disk!Front(s)
  <2>2. f \in Seq(S) /\ Len(f) = Len(s) - 1 /\ \A i \in 1..Len(f) : f[i] = s[i]
    BY <1>3, DiskFront
  <2> HIDE DEF f
  <2>3. Disk!ToSet(f) = {f[i] : i \in 1..Len(f)}
    BY <2>2, DiskToSetOf
  <2>4. Disk!Last(s) = s[Len(s)]
    BY DEF Disk!Last
  <2>5. \A i \in 1..Len(s) : i = Len(s) \/ i \in 1..Len(f)
    BY <2>1, <2>2
  <2>6. \A i \in 1..Len(f) : i \in 1..Len(s)
    BY <2>1, <2>2
  <2>7. Disk!ToSet(s) = Disk!ToSet(f) \union {Disk!Last(s)}
    BY <1>1, <2>1, <2>2, <2>3, <2>4, <2>5, <2>6
  <2> QED BY <2>1, <2>2, <2>4, <2>7 DEF f
<1>4. ASSUME s # << >>
      PROVE  Tail(s) \in Seq(S) /\ Head(s) \in S /\ Disk!ToSet(s) = Disk!ToSet(Tail(s)) \union {Head(s)}
  <2>1. Len(s) \in Nat \ {0} /\ Head(s) = s[1] /\ Tail(s) \in Seq(S) /\ Len(Tail(s)) = Len(s) - 1
        /\ \A i \in 1..(Len(s) - 1) : Tail(s)[i] = s[i + 1]
    BY <1>4
  <2>2. Disk!ToSet(Tail(s)) = {Tail(s)[i] : i \in 1..(Len(s) - 1)}
    <3>1. Disk!ToSet(Tail(s)) = {Tail(s)[i] : i \in 1..Len(Tail(s))}
      BY <2>1, DiskToSetOf, Zenon
    <3> QED BY <2>1, <3>1
  <2>3. \A i \in 1..Len(s) : i = 1 \/ (i - 1 \in 1..(Len(s) - 1) /\ (i - 1) + 1 = i)
    BY <2>1
  <2>4. \A i \in 1..(Len(s) - 1) : i + 1 \in 1..Len(s)
    BY <2>1
  <2>5. ASSUME NEW x \in Disk!ToSet(s) PROVE x \in Disk!ToSet(Tail(s)) \union {Head(s)}
    <3>1. PICK i \in 1..Len(s) : x = s[i]
      BY <1>1
    <3>2. CASE i = 1
      BY <2>1, <3>1, <3>2
    <3>3. CASE i - 1 \in 1..(Len(s) - 1) /\ (i - 1) + 1 = i
      <4>1. Tail(s)[i - 1] = s[(i - 1) + 1]
        BY <2>1, <3>3
      <4>2. Tail(s)[i - 1] = x
        BY <3>1, <3>3, <4>1
      <4>3. Tail(s)[i - 1] \in Disk!ToSet(Tail(s))
        BY <2>2, <3>3, Zenon
      <4> QED BY <4>2, <4>3, Zenon
    <3> QED BY <2>3, <3>2, <3>3
  <2>6. ASSUME NEW x \in Disk!ToSet(Tail(s)) \union {Head(s)} PROVE x \in Disk!ToSet(s)
    BY <1>1, <2>1, <2>2, <2>4
  <2> QED BY <2>1, <2>5, <2>6
<1> QED BY <1>1, <1>2, <1>3, <1>4

LEMMA DiskToSetConcat ==
  ASSUME NEW S, NEW s \in Seq(S), NEW t \in Seq(S)
  PROVE  s \o t \in Seq(S) /\ Disk!ToSet(s \o t) = Disk!ToSet(s) \union Disk!ToSet(t)
<1> DEFINE c == s \o t
<1>1. c \in Seq(S) /\ Len(c) = Len(s) + Len(t)
      /\ (\A i \in 1..Len(s) : c[i] = s[i]) /\ \A i \in 1..Len(t) : c[Len(s) + i] = t[i]
  OBVIOUS
<1> HIDE DEF c
<1>2. /\ \A i \in 1..Len(c) : i \in 1..Len(s) \/ (i - Len(s) \in 1..Len(t) /\ Len(s) + (i - Len(s)) = i)
      /\ \A i \in 1..Len(s) : i \in 1..Len(c)
      /\ \A i \in 1..Len(t) : Len(s) + i \in 1..Len(c)
  BY <1>1
<1>3. Disk!ToSet(c) = {c[i] : i \in 1..Len(c)}
  BY <1>1, DiskToSetOf, Zenon
<1>4. Disk!ToSet(s) = {s[i] : i \in 1..Len(s)} /\ Disk!ToSet(t) = {t[i] : i \in 1..Len(t)}
  <2>1. Disk!ToSet(s) = {s[i] : i \in 1..Len(s)}
    BY DiskToSetOf
  <2>2. Disk!ToSet(t) = {t[i] : i \in 1..Len(t)}
    BY DiskToSetOf
  <2> QED BY <2>1, <2>2
<1>5. ASSUME NEW i \in 1..Len(c) PROVE c[i] \in Disk!ToSet(s) \union Disk!ToSet(t)
  BY <1>1, <1>2, <1>4, Zenon
<1>6. ASSUME NEW i \in 1..Len(s) PROVE s[i] \in Disk!ToSet(c)
  BY <1>1, <1>2, <1>3
<1>7. ASSUME NEW i \in 1..Len(t) PROVE t[i] \in Disk!ToSet(c)
  BY <1>1, <1>2, <1>3, Zenon
<1>8. Disk!ToSet(c) = Disk!ToSet(s) \union Disk!ToSet(t)
  <2>1. Disk!ToSet(c) \subseteq Disk!ToSet(s) \union Disk!ToSet(t)
    BY <1>3, <1>5
  <2>2. Disk!ToSet(s) \subseteq Disk!ToSet(c) /\ Disk!ToSet(t) \subseteq Disk!ToSet(c)
    BY <1>4, <1>6, <1>7
  <2> QED BY <2>1, <2>2, Zenon
<1>9. c \in Seq(S)
  BY <1>1
<1> QED BY <1>8, <1>9, Zenon DEF c

\* A reversed sequence has the same elements.
LEMMA DiskToSetReverse ==
  ASSUME NEW S, NEW t \in Seq(S)
  PROVE  Disk!Reverse(t) \in Seq(S) /\ Disk!ToSet(Disk!Reverse(t)) = Disk!ToSet(t)
<1> DEFINE r == Disk!Reverse(t)
<1>1. r \in Seq(S) /\ Len(r) = Len(t) /\ \A i \in 1..Len(t) : r[i] = t[(Len(t) - i) + 1]
  <2>1. Len(t) \in Nat /\ \A i \in 1..Len(t) : (Len(t) - i) + 1 \in 1..Len(t)
    OBVIOUS
  <2> QED BY <2>1 DEF Disk!Reverse
<1>2. \A i \in 1..Len(t) : (Len(t) - i) + 1 \in 1..Len(t) /\ (Len(t) - ((Len(t) - i) + 1)) + 1 = i
  OBVIOUS
<1> HIDE DEF r
<1>3. Disk!ToSet(t) = {t[i] : i \in 1..Len(t)}
  BY DiskToSetOf
<1>4. Disk!ToSet(r) = {r[i] : i \in 1..Len(t)}
  <2>1. Disk!ToSet(r) = {r[i] : i \in 1..Len(r)}
    BY <1>1, DiskToSetOf
  <2> QED BY <1>1, <2>1
<1>5. ASSUME NEW i \in 1..Len(t) PROVE t[i] \in Disk!ToSet(r)
  <2>1. r[(Len(t) - i) + 1] = t[i]
    BY <1>1, <1>2
  <2> QED BY <1>2, <1>4, <2>1
<1>6. ASSUME NEW i \in 1..Len(t) PROVE r[i] \in Disk!ToSet(t)
  BY <1>1, <1>2, <1>3, Zenon
<1> QED BY <1>1, <1>3, <1>4, <1>5, <1>6, Zenon DEF r

\* A sorted sequence of a finite set of entries has just these.
LEMMA DiskSorted ==
  ASSUME Disk!DiskScanAssumption, NEW E \in SUBSET DiskEntrySet, IsFiniteSet(E), NEW s \in Disk!Sorted(E)
  PROVE  s \in Seq(DiskEntrySet) /\ Disk!ToSet(s) = E
<1> DEFINE n == Cardinality(E)
           name(e) == Disk!Last(e.path)
<1>1. n \in Nat /\ Disk!Cardinality(E) = n
  BY FS_CardinalityType, Zenon DEF Disk!Cardinality, Cardinality
<1>2. s \in [1..n -> E] /\ \A i, j \in 1..n : i < j => name(s[i]) < name(s[j])
  <2>1. /\ s \in [1..n -> E]
        /\ \A i, j \in DOMAIN s : i < j => Disk!Last(s[i].path) < Disk!Last(s[j].path)
    BY <1>1, Zenon DEF Disk!Sorted
  <2> QED BY <2>1
<1>3. \A e \in E : name(e) \in Nat
  <2>1. \A e \in E : e.path \in Seq(Nat) /\ e.path # << >>
    BY DEF Disk!DiskScanAssumption, DiskEntrySet
  <2> QED BY <2>1, DiskFront, Zenon
<1> HIDE DEF n, name
<1>4. s \in Seq(E) /\ Len(s) = n /\ s \in Seq(DiskEntrySet)
  BY <1>1, <1>2
<1>5. \A i, j \in 1..n : s[i] = s[j] => i = j
  <2> SUFFICES ASSUME NEW i \in 1..n, NEW j \in 1..n, s[i] = s[j] PROVE i = j
    OBVIOUS
  <2>1. name(s[i]) \in Nat /\ name(s[j]) = name(s[i])
    BY <1>2, <1>3
  <2>2. ~ (i < j) /\ ~ (j < i)
    BY <1>2, <2>1
  <2> QED BY <1>1, <2>2
<1>6. Disk!ToSet(s) = {s[i] : i \in 1..n}
  BY <1>4, DiskToSetOf
<1>7. s \in Surjection(1..n, E)
  <2>1. s \in Injection(1..n, E)
    BY <1>2, <1>5, Fun_IsInj, Zenon
  <2>2. Cardinality(1..n) = n
    BY <1>1, FS_Interval
  <2> QED BY <2>1, <2>2, FS_Injection DEF n
<1>8. \A e \in E : \E i \in 1..n : s[i] = e
  BY <1>7, Zenon DEF Surjection
<1> QED BY <1>2, <1>4, <1>6, <1>8

\* The entries of some paths: there are finitely many.
LEMMA DiskEntries ==
  ASSUME Disk!DiskScanAssumption, DiskTypeOK, NEW P \in SUBSET (Paths \ {<< >>})
  PROVE  IsFiniteSet({Disk!Entry(q) : q \in P}) /\ {Disk!Entry(q) : q \in P} \in SUBSET DiskEntrySet
<1> DEFINE E == {Disk!Entry(q) : q \in P}
           f == [q \in P |-> Disk!Entry(q)]
<1>1. IsFiniteSet(P)
  <2>1. IsFiniteSet(Paths) /\ P \in SUBSET Paths
    BY Zenon DEF Disk!DiskScanAssumption, Disk!IsFiniteSet, IsFiniteSet
  <2> QED BY <2>1, FS_Subset
<1>2. f \in Surjection(P, E)
  <2>1. f \in [P -> E] /\ \A e \in E : \E q \in P : f[q] = e
    OBVIOUS
  <2> QED BY <2>1, Fun_IsSurj
<1> HIDE DEF f
<1>3. IsFiniteSet(E)
  BY <1>1, <1>2, FS_Surjection
<1>4. \A q \in P : Disk!Entry(q) \in DiskEntrySet
  <2> TAKE q \in P
  <2>1. tree[q] \in Nat
    BY DEF DiskTypeOK
  <2> QED BY <2>1 DEF Disk!Entry, DiskEntrySet
<1> QED BY <1>3, <1>4

\* All entries are taken unless a limit is met.
LEMMA DiskCount ==
  ASSUME NEW n \in Nat, NEW room \in Nat, NEW most \in Nat
  PROVE  /\ Disk!Small(n, Disk!Small(room, most)) \in Nat
         /\ ~ (n > most /\ room > most) /\ ~ (n > room) => Disk!Small(n, Disk!Small(room, most)) = n
BY DEF Disk!Small

\* What an enumeration finds: entries of the directory as they are now, and all
\* of them if no limit is met and nothing is lost.
LEMMA DiskEnumerate ==
  ASSUME Disk!DiskScanAssumption, DiskTypeOK, NEW p \in Paths, enumerated <= scanOptions.entries,
         NEW entries, NEW lost, Disk!Enumerate(p, entries, lost)
  PROVE  /\ entries \in Seq(DiskEntrySet)
         /\ present' = present \union {[path |-> q, inode |-> tree[q]] : q \in Disk!Children(p)}
         /\ listed' = listed \union {tree[p]}
         /\ enumerated' \in Nat /\ limited' \in BOOLEAN /\ (limited => limited') /\ failures \subseteq failures'
         /\ \A w \in Disk!ToSet(entries) : Disk!Front(w.path) = p /\ (w.inode # 0 => w \in present' /\ (scanOptions.cross \/ w.path \notin mounts))
         /\ failures' = {} /\ ~limited' =>
              \A q \in Disk!Children(p) : \E w \in Disk!ToSet(entries) :
                w.path = q /\ (w.inode = tree[q] \/ (w.inode = 0 /\ q \in mounts))
<1> DEFINE children == Disk!Children(p)
           n == Disk!Cardinality(children)
           room == scanOptions.entries - enumerated
           crowded == n > MaxDirectoryEntries /\ room > MaxDirectoryEntries
           count == Disk!Small(n, Disk!Small(room, MaxDirectoryEntries))
<1>1. children \in SUBSET (Paths \ {<< >>}) /\ \A q \in children : Disk!Front(q) = p /\ tree[q] # 0
  BY DEF Disk!Children, Disk!Parent
<1>2. PICK taken \in SUBSET children :
        /\ Disk!Cardinality(taken) = count
        /\ lost \subseteq taken
        /\ entries \in Disk!Sorted({Disk!Entry(q) : q \in taken \ lost})
        /\ enumerated' = enumerated + count + (IF crowded THEN 1 ELSE 0)
        /\ limited' = (limited \/ (n > room /\ ~crowded))
        /\ failures' = failures \union lost \union (IF crowded THEN {p} ELSE {})
        /\ present' = present \union {[path |-> q, inode |-> tree[q]] : q \in children}
        /\ listed' = listed \union {tree[p]}
  BY Zenon DEF Disk!Enumerate
<1>3. IsFiniteSet(children)
  <2>1. IsFiniteSet(Paths) /\ children \in SUBSET Paths
    BY <1>1, Zenon DEF Disk!DiskScanAssumption, Disk!IsFiniteSet, IsFiniteSet
  <2> QED BY <2>1, FS_Subset
<1>4. n = Cardinality(children) /\ n \in Nat /\ Disk!Cardinality(taken) = Cardinality(taken)
  <2>1. n = Cardinality(children) /\ Disk!Cardinality(taken) = Cardinality(taken)
    BY DEF Disk!Cardinality, Cardinality
  <2> QED BY <1>3, <2>1, FS_CardinalityType
<1>5. room \in Nat /\ enumerated \in Nat /\ limited \in BOOLEAN /\ MaxDirectoryEntries \in Nat
      /\ tree \in [Paths -> Nat]
  <2>1. scanOptions.entries \in Nat
    BY DEF DiskTypeOK
  <2> QED BY <2>1 DEF DiskTypeOK, Disk!DiskScanAssumption
<1> DEFINE E == {Disk!Entry(q) : q \in taken \ lost}
<1>6. entries \in Seq(DiskEntrySet) /\ Disk!ToSet(entries) = E
  <2>1. taken \ lost \in SUBSET (Paths \ {<< >>})
    BY <1>1
  <2>2. IsFiniteSet(E) /\ E \in SUBSET DiskEntrySet
    BY <2>1, DiskEntries, Zenon
  <2> HIDE DEF E
  <2> QED BY <1>2, <2>2, DiskSorted DEF E
<1>7. count \in Nat /\ (~crowded /\ ~ (n > room) => count = n)
  BY <1>4, <1>5, DiskCount, Zenon
<1>8. enumerated' \in Nat /\ limited' \in BOOLEAN /\ (limited => limited') /\ failures \subseteq failures'
  <2> HIDE DEF count, crowded, room, n, children
  <2>1. (IF crowded THEN 1 ELSE 0) \in Nat
    OBVIOUS
  <2>2. \A a, b, c \in Nat : a + b + c \in Nat
    OBVIOUS
  <2>3. enumerated' \in Nat
    BY <1>2, <1>5, <1>7, <2>1, <2>2, Zenon
  <2>4. limited' \in BOOLEAN /\ (limited => limited')
    BY <1>2, Zenon
  <2>5. failures \subseteq failures'
    BY <1>2
  <2> QED BY <2>3, <2>4, <2>5, Zenon
<1>9. \A q \in children : /\ Disk!Entry(q).path = q
                          /\ Disk!Entry(q).inode = tree[q] \/ (Disk!Entry(q).inode = 0 /\ q \in mounts)
                          /\ Disk!Entry(q).inode # 0 =>
                               /\ Disk!Entry(q) = [path |-> q, inode |-> tree[q]]
                               /\ scanOptions.cross \/ q \notin mounts
  <2>1. scanOptions.remote => scanOptions.cross
    BY DEF DiskTypeOK
  <2> QED BY <2>1 DEF Disk!Entry
<1>10. ASSUME NEW w \in Disk!ToSet(entries) PROVE Disk!Front(w.path) = p /\ (w.inode # 0 => w \in present' /\ (scanOptions.cross \/ w.path \notin mounts))
  <2>1. PICK q \in taken : w = Disk!Entry(q)
    BY <1>6
  <2>2. q \in children
    BY <2>1
  <2> HIDE DEF children
  <2> QED BY <1>1, <1>2, <1>9, <2>1, <2>2
<1>11. ASSUME failures' = {}, ~limited', NEW q \in children
       PROVE  \E w \in Disk!ToSet(entries) : w.path = q /\ (w.inode = tree[q] \/ (w.inode = 0 /\ q \in mounts))
  <2> HIDE DEF children, crowded, room, n, count
  <2>1. ~crowded /\ lost = {}
    BY <1>2, <1>11
  <2>2. ~ (n > room)
    BY <1>2, <1>11, <2>1, Zenon
  <2>3. Cardinality(taken) = Cardinality(children)
    BY <1>2, <1>4, <1>7, <2>1, <2>2, Zenon
  <2>4. taken = children
    BY <1>3, <2>3, FS_Subset
  <2>5. Disk!Entry(q) \in Disk!ToSet(entries)
    BY <1>6, <2>1, <2>4
  <2> QED BY <1>9, <2>5
<1>12. /\ present' = present \union {[path |-> q, inode |-> tree[q]] : q \in children}
       /\ listed' = listed \union {tree[p]}
  BY <1>2
<1> QED BY <1>6, <1>8, <1>10, <1>11, <1>12

\* What is clear and what is in scope depends on the tree, the options and the
\* mount table only.
LEMMA DiskSame ==
  ASSUME UNCHANGED <<tree, changes, scanOptions, mounts>>
  PROVE  /\ \A p : DiskClear(p)' <=> DiskClear(p)
         /\ \A e : Disk!InScope(e)' <=> Disk!InScope(e)
BY DEF DiskClear, Disk!InScope, Disk!OnPath

LEMMA DiskInit == ASSUME Disk!DiskScanAssumption, Disk!Init PROVE DiskIInv
<1>1. DiskTypeOK
  <2>1. tree \in [Paths -> Nat] /\ changes = 0
    BY DEF Disk!Init, Disk!DiskScanAssumption
  <2>2. /\ scanOptions \in [depth : Nat, entries : Nat, cross : BOOLEAN, remote : BOOLEAN, excludes : SUBSET Paths]
        /\ scanOptions.remote => scanOptions.cross
    BY DEF Disk!Init, Disk!DiskScanAssumption
  <2>3. IsFiniteSet(global)
    BY FS_EmptySet DEF Disk!Init
  <2>4. limited \in BOOLEAN /\ capacity \in BOOLEAN
    BY Zenon DEF Disk!Init
  <2>5. eligible \in Seq(DiskEntrySet) /\ stack \in Seq(DiskEntrySet)
    BY DEF Disk!Init
  <2>6. pc \in DiskStarting /\ enumerated \in Nat /\ unique \in Nat /\ shallow \in Nat /\ present = {}
    BY DEF Disk!Init, DiskStarting
  <2> QED BY <2>1, <2>2, <2>3, <2>4, <2>5, <2>6, Zenon DEF DiskTypeOK
<1>2. DiskPlaces
  BY DEF Disk!Init, DiskPlaces, DiskStarting, DiskScanning, DiskLooking
<1>3. DiskWaits /\ DiskSaw
  BY DEF Disk!Init, DiskWaits, DiskWaiting, DiskSaw, Disk!ToSet
<1>4. DiskCounts
  <2>1. unique = Cardinality(global)
    BY FS_EmptySet DEF Disk!Init
  <2> QED BY <2>1 DEF Disk!Init, DiskCounts
<1>5. DiskKept /\ DiskReported
  BY DEF Disk!Init, DiskKept, DiskReported, Disk!ExitOK
<1> QED BY <1>1, <1>2, <1>3, <1>4, <1>5 DEF DiskIInv

\* A change of the tree voids what is said of trees that do not change.
LEMMA DiskTreeChanges == ASSUME Disk!DiskScanAssumption, DiskIInv, Disk!TreeChanges PROVE DiskIInv'
<1>1. /\ UNCHANGED <<scanOptions, target, mounts, capacity, eligible, stack, entry, visited, enumerated, limited,
        branch, global, unique, shallow, unentered, failures, present, listed, pc, exit>>
      /\ pc # "done" /\ changes' = changes + 1
  BY DEF Disk!TreeChanges, Disk!setup, Disk!walk, Disk!budgets, Disk!found, Disk!history
<1>2. tree' \in [Paths -> Nat]
  <2>1. PICK p \in Paths : Disk!Removed(p) \/ Disk!Replaced(p) \/ \E q \in Paths : Disk!FileMoved(p, q)
    BY DEF Disk!TreeChanges
  <2>2. tree \in [Paths -> Nat] /\ Spare \in Nat
    BY DEF DiskIInv, DiskTypeOK, Disk!DiskScanAssumption
  <2>3. CASE Disk!Removed(p)
    BY <2>2, <2>3 DEF Disk!Removed
  <2>4. CASE Disk!Replaced(p)
    BY <2>2, <2>4 DEF Disk!Replaced
  <2>5. CASE \E q \in Paths : Disk!FileMoved(p, q)
    BY <2>2, <2>5 DEF Disk!FileMoved
  <2> QED BY <2>1, <2>3, <2>4, <2>5
<1>3. changes' \in Nat /\ changes' # 0
  <2>1. changes \in Nat
    BY DEF DiskIInv, DiskTypeOK
  <2>2. \A n \in Nat : n + 1 \in Nat /\ n + 1 # 0
    OBVIOUS
  <2> QED BY <1>1, <2>1, <2>2, Zenon
<1>4. /\ \A p : DiskClear(p) => DiskClear(p)'
      /\ \A e : Disk!InScope(e)' <=> Disk!InScope(e)
  BY <1>1, <1>3 DEF DiskClear, Disk!InScope, Disk!OnPath
<1>5. DiskTypeOK'
  BY <1>1, <1>2, <1>3 DEF DiskIInv, DiskTypeOK
<1>6. DiskPlaces'
  BY <1>1, <1>3, <1>4 DEF DiskIInv, DiskPlaces
<1>7. DiskWaits'
  <2>1. DiskWaiting' = DiskWaiting /\ UNCHANGED <<present, scanOptions, mounts>>
    BY <1>1 DEF DiskWaiting
  <2> QED BY <1>4, <2>1 DEF DiskIInv, DiskWaits
<1>8. DiskCounts'
  <2>1. UNCHANGED <<global, target, present, failures, unique>>
    BY <1>1
  <2> QED BY <1>4, <2>1 DEF DiskIInv, DiskCounts
<1>9. DiskSaw'
  BY <1>1, <1>3 DEF DiskIInv, DiskSaw
<1>10. DiskKept'
  <2>1. DiskWaiting' = DiskWaiting /\ (Disk!Incomplete' <=> Disk!Incomplete)
    BY <1>1 DEF DiskWaiting, Disk!Incomplete
  <2>2. UNCHANGED <<pc, present, global, listed, entry, mounts>>
    BY <1>1
  <2> QED BY <1>4, <2>1, <2>2 DEF DiskIInv, DiskKept
<1>11. DiskReported'
  BY <1>1 DEF DiskIInv, DiskPlaces, DiskReported, Disk!ExitOK
<1> QED BY <1>5, <1>6, <1>7, <1>8, <1>9, <1>10, <1>11 DEF DiskIInv

\* A run that ends without a report says nothing.
LEMMA DiskEnd ==
  ASSUME DiskIInv, pc' = "done", exit' \in {Disk!ExitFinding, Disk!ExitUsage, Disk!ExitFailure, Disk!ExitInterrupted},
         UNCHANGED <<tree, changes, scanOptions, mounts, target, capacity, eligible, stack, enumerated, limited,
           branch, global, unique, shallow, failures, present, listed>>
  PROVE  DiskIInv'
<1>1. /\ \A p : DiskClear(p)' <=> DiskClear(p)
      /\ \A e : Disk!InScope(e)' <=> Disk!InScope(e)
  BY DiskSame
<1>2. exit' \notin {-1, Disk!ExitOK}
  BY DEF Disk!ExitOK, Disk!ExitFinding, Disk!ExitUsage, Disk!ExitFailure, Disk!ExitInterrupted
<1>3. DiskTypeOK' /\ DiskPlaces'
  BY <1>2 DEF DiskIInv, DiskTypeOK, DiskPlaces, DiskStarting, DiskScanning, DiskLooking
<1>4. DiskWaits'
  <2>1. DiskWaiting' = DiskWaiting
    BY DEF DiskWaiting
  <2> QED BY <1>1, <2>1 DEF DiskIInv, DiskWaits
<1>5. DiskCounts' /\ DiskSaw'
  BY <1>1 DEF DiskIInv, DiskCounts, DiskSaw
<1>6. DiskKept' /\ DiskReported'
  BY <1>2 DEF DiskKept, DiskReported
<1> QED BY <1>3, <1>4, <1>5, <1>6 DEF DiskIInv

\* A step that looks at nothing but the target, or ends the run.
LEMMA DiskValidateTarget == ASSUME Disk!DiskScanAssumption, DiskIInv, Disk!ValidateTarget PROVE DiskIInv'
<1>1. /\ pc = "validate"
      /\ UNCHANGED <<tree, changes, scanOptions, mounts, capacity, eligible, stack, entry, enumerated, limited,
           branch, global, unique, shallow, unentered, failures, present, listed>>
  BY DEF Disk!ValidateTarget, Disk!world, Disk!walk, Disk!budgets, Disk!found, Disk!history
<1>2. CASE pc' = "done"
  <2>1. UNCHANGED target /\ exit' \in {Disk!ExitUsage, Disk!ExitFailure}
    BY <1>2 DEF Disk!ValidateTarget, Disk!Done
  <2> QED BY <1>1, <1>2, <2>1, DiskEnd
<1>3. CASE tree[<< >>] # 0 /\ target' = tree[<< >>] /\ pc' = "mounts" /\ UNCHANGED exit
  <2>1. global = {} /\ present = {} /\ listed = {} /\ eligible = << >> /\ stack = << >>
    BY <1>1 DEF DiskIInv, DiskPlaces, DiskStarting
  <2>2. DiskTypeOK'
    BY <1>1, <1>3 DEF DiskIInv, DiskTypeOK, DiskStarting
  <2>3. DiskPlaces'
    BY <1>1, <1>3 DEF DiskIInv, DiskPlaces, DiskStarting, DiskScanning, DiskLooking
  <2>4. DiskWaits'
    BY <1>1, <2>1 DEF DiskWaits, DiskWaiting, Disk!ToSet
  <2>5. DiskCounts' /\ DiskSaw'
    BY <1>1, <2>1 DEF DiskIInv, DiskCounts, DiskSaw
  <2>6. DiskKept'
    BY <1>1, <2>1 DEF DiskKept
  <2>7. DiskReported'
    BY <1>1, <1>3 DEF DiskIInv, DiskPlaces, DiskReported, Disk!ExitOK
  <2> QED BY <2>2, <2>3, <2>4, <2>5, <2>6, <2>7 DEF DiskIInv
<1> QED BY <1>2, <1>3 DEF Disk!ValidateTarget, Disk!Done

LEMMA DiskReadMounts == ASSUME DiskIInv, Disk!ReadMounts PROVE DiskIInv'
<1>1. /\ pc = "mounts" /\ pc' = "list_target"
      /\ UNCHANGED <<tree, changes, scanOptions, target, capacity, eligible, stack, entry, enumerated, limited,
           branch, global, unique, shallow, unentered, failures, present, listed, exit>>
  BY DEF Disk!ReadMounts, Disk!world, Disk!walk, Disk!budgets, Disk!found, Disk!history
<1>2. global = {} /\ present = {} /\ listed = {} /\ eligible = << >> /\ stack = << >>
  BY <1>1 DEF DiskIInv, DiskPlaces, DiskStarting
<1>3. DiskTypeOK'
  BY <1>1 DEF DiskIInv, DiskTypeOK, DiskStarting
<1>4. DiskPlaces'
  BY <1>1 DEF DiskIInv, DiskPlaces, DiskStarting, DiskScanning, DiskLooking
<1>5. DiskWaits'
  BY <1>1, <1>2 DEF DiskWaits, DiskWaiting, Disk!ToSet
<1>6. DiskCounts' /\ DiskSaw'
  BY <1>1, <1>2 DEF DiskIInv, DiskCounts, DiskSaw
<1>7. DiskKept'
  BY <1>1, <1>2 DEF DiskKept
<1>8. DiskReported'
  BY <1>1 DEF DiskIInv, DiskPlaces, DiskReported, Disk!ExitOK
<1> QED BY <1>3, <1>4, <1>5, <1>6, <1>7, <1>8 DEF DiskIInv

\* The entries of the target are listed, and wait.
LEMMA DiskListTarget == ASSUME Disk!DiskScanAssumption, DiskIInv, Disk!ListTarget PROVE DiskIInv'
<1>1. /\ pc = "list_target"
      /\ UNCHANGED <<tree, changes, scanOptions, target, mounts, capacity, branch, global, unique, shallow, unentered>>
  BY DEF Disk!ListTarget, Disk!world, Disk!setup, Disk!found
<1>2. CASE Disk!Done(Disk!ExitFailure) /\ UNCHANGED <<Disk!walk, Disk!budgets, failures, Disk!history>>
  <2>1. pc' = "done" /\ exit' = Disk!ExitFailure
        /\ UNCHANGED <<eligible, stack, enumerated, limited, failures, present, listed>>
    BY <1>2 DEF Disk!Done, Disk!walk, Disk!budgets, Disk!history
  <2> QED BY <1>1, <2>1, DiskEnd
<1>3. CASE /\ tree[<< >>] = target
           /\ \E entries \in Disk!Sublists(<< >>), lost \in SUBSET Disk!Children(<< >>) :
                Disk!Enumerate(<< >>, entries, lost) /\ eligible' = entries
           /\ pc' = "capacity"
           /\ UNCHANGED <<stack, entry, visited, exit>>
  <2>1. /\ global = {} /\ branch = {} /\ present = {} /\ listed = {} /\ stack = << >> /\ enumerated = 0
        /\ target # 0 /\ exit = -1 /\ capacity
    BY <1>1 DEF DiskIInv, DiskPlaces, DiskStarting
  <2>2. << >> \in Paths /\ DiskTypeOK /\ enumerated <= scanOptions.entries
    <3>1. scanOptions.entries \in Nat
      BY DEF DiskIInv, DiskTypeOK
    <3> QED BY <2>1, <3>1 DEF DiskIInv, Disk!DiskScanAssumption
  <2>3. PICK lost : Disk!Enumerate(<< >>, eligible', lost)
    BY <1>3
  <2>4. /\ eligible' \in Seq(DiskEntrySet)
        /\ present' = present \union {[path |-> q, inode |-> tree[q]] : q \in Disk!Children(<< >>)}
        /\ listed' = listed \union {tree[<< >>]}
        /\ enumerated' \in Nat /\ limited' \in BOOLEAN /\ (limited => limited') /\ failures \subseteq failures'
        /\ \A w \in Disk!ToSet(eligible') : Disk!Front(w.path) = << >> /\ (w.inode # 0 => w \in present' /\ (scanOptions.cross \/ w.path \notin mounts))
        /\ failures' = {} /\ ~limited' =>
             \A q \in Disk!Children(<< >>) : \E w \in Disk!ToSet(eligible') :
               w.path = q /\ (w.inode = tree[q] \/ (w.inode = 0 /\ q \in mounts))
    BY <2>2, <2>3, DiskEnumerate
  <2>5. present' \subseteq DiskEntrySet /\ \A e \in present' : e.path \in Disk!Children(<< >>) /\ e.inode = tree[e.path]
        /\ e.inode # 0
    <3>1. \A q \in Disk!Children(<< >>) : q \in Paths \ {<< >>} /\ tree[q] # 0 /\ tree[q] \in Nat
      BY <2>2 DEF Disk!Children, DiskTypeOK
    <3> QED BY <2>1, <2>4, <3>1 DEF DiskEntrySet
  <2>6. listed' = {target}
    BY <1>3, <2>1, <2>4
  <2>7. /\ \A p : DiskClear(p)' <=> DiskClear(p)
        /\ \A e : Disk!InScope(e)' <=> Disk!InScope(e)
        /\ DiskClear(<< >>)
    BY <1>1, DiskSame, DiskOnPath DEF DiskClear
  <2>8. DiskWaiting' = Disk!ToSet(eligible')
    BY <1>3, <2>1 DEF DiskWaiting, Disk!ToSet
  <2>9. DiskTypeOK'
    BY <1>1, <1>3, <2>2, <2>4, <2>5 DEF DiskTypeOK
  <2>10. DiskPlaces'
    <3>1. pc' = "capacity" /\ target' # 0 /\ (changes' = 0 => target' = tree'[<< >>]) /\ target' \in listed'
      BY <1>1, <1>3, <2>1, <2>6
    <3>2. global' = {} /\ branch' = {} /\ stack' = << >> /\ exit' = -1 /\ capacity'
      BY <1>1, <1>3, <2>1
    <3> QED BY <3>1, <3>2 DEF DiskPlaces, DiskStarting, DiskScanning, DiskLooking
  <2>11. DiskWaits'
    BY <1>1, <2>4, <2>7, <2>8 DEF DiskWaits
  <2>12. DiskCounts'
    <3>1. global' = {} /\ unique' = unique
      BY <1>1, <2>1
    <3>2. failures' = {} => unique = Cardinality({})
      BY <2>1, <2>4 DEF DiskIInv, DiskCounts
    <3> QED BY <3>1, <3>2 DEF DiskCounts
  <2>13. DiskSaw'
    <3>1. changes' = 0 => tree' \in Trees
      BY <1>1 DEF DiskIInv, DiskSaw
    <3>2. \A e \in present' : e.inode # 0 /\ e.inode = tree'[e.path]
      BY <1>1, <2>5
    <3>3. ASSUME changes = 0, NEW q \in Paths \ {<< >>}, tree[q] # 0, tree[Disk!Front(q)] \in listed'
          PROVE  [path |-> q, inode |-> tree[q]] \in present'
      <4>1. tree \in Trees /\ tree[<< >>] = target /\ Disk!Front(q) \in Paths /\ tree[Disk!Front(q)] = tree[<< >>]
            /\ tree[<< >>] # 0
        BY <1>3, <2>1, <2>6, <3>3 DEF DiskIInv, DiskSaw, Disk!DiskScanAssumption
      <4>2. tree[<< >>] \in Dirs
        BY <4>1 DEF Disk!DiskScanAssumption
      <4>3. Disk!Front(q) = << >>
        BY <2>2, <4>1, <4>2 DEF Disk!DiskScanAssumption
      <4>4. q \in Disk!Children(<< >>)
        BY <3>3, <4>3 DEF Disk!Children, Disk!Parent
      <4> QED BY <2>4, <4>4
    <3> QED BY <1>1, <3>1, <3>2, <3>3 DEF DiskSaw
  <2>14. DiskKept'
    <3>1. ASSUME ~Disk!Incomplete', NEW e \in present'
          PROVE  \E w \in DiskWaiting' : w.path = e.path /\ (w.inode = e.inode \/ (w.inode = 0 /\ e.path \in mounts))
      <4>1. failures' = {} /\ ~limited'
        BY <3>1 DEF Disk!Incomplete
      <4>2. \E w \in Disk!ToSet(eligible') :
              w.path = e.path /\ (w.inode = tree[e.path] \/ (w.inode = 0 /\ e.path \in mounts))
        BY <2>4, <2>5, <4>1
      <4> QED BY <2>5, <2>8, <4>2
    <3>2. global' = {}
      BY <1>1, <2>1
    <3> QED BY <1>1, <3>1, <3>2 DEF DiskKept
  <2>15. DiskReported'
    BY <1>3, <2>1 DEF DiskReported, Disk!ExitOK
  <2> QED BY <2>9, <2>10, <2>11, <2>12, <2>13, <2>14, <2>15 DEF DiskIInv
<1> QED BY <1>2, <1>3 DEF Disk!ListTarget

\* The target is counted itself.
LEMMA DiskReadCapacity == ASSUME DiskIInv, Disk!ReadCapacity PROVE DiskIInv'
<1>1. /\ pc = "capacity"
      /\ UNCHANGED <<tree, changes, scanOptions, target, mounts, eligible, stack, entry, visited, enumerated,
           limited, branch, shallow, unentered, present, listed>>
  BY DEF Disk!ReadCapacity, Disk!world, Disk!walk, Disk!budgets, Disk!history
<1>2. CASE Disk!Done(Disk!ExitFailure) /\ UNCHANGED <<capacity, global, unique, failures>>
  <2>1. pc' = "done" /\ exit' = Disk!ExitFailure
    BY <1>2 DEF Disk!Done
  <2> QED BY <1>1, <1>2, <2>1, DiskEnd
<1>3. CASE /\ capacity' \in (IF tree[<< >>] = target THEN BOOLEAN ELSE {FALSE})
           /\ global' = global \union {target}
           /\ unique' = Disk!Usable(target)
           /\ failures' = IF target \in Unusable THEN failures \union {<< >>} ELSE failures
           /\ pc' = "select"
           /\ UNCHANGED exit
  <2>1. /\ global = {} /\ branch = {} /\ stack = << >> /\ target # 0 /\ exit = -1
        /\ target \in listed /\ (changes = 0 => target = tree[<< >>])
    BY <1>1 DEF DiskIInv, DiskPlaces, DiskStarting, DiskScanning
  <2>2. global' = {target}
    BY <1>3, <2>1
  <2>3. /\ \A p : DiskClear(p)' <=> DiskClear(p)
        /\ \A e : Disk!InScope(e)' <=> Disk!InScope(e)
    BY <1>1, DiskSame
  <2>4. DiskWaiting' = DiskWaiting
    BY <1>1 DEF DiskWaiting
  <2>5. DiskTypeOK'
    <3>1. capacity' \in BOOLEAN
      BY <1>3, Zenon
    <3>2. IsFiniteSet(global') /\ unique' \in Nat
      BY <1>3, <2>2, FS_Singleton, Zenon DEF Disk!Usable
    <3>3. limited' \in BOOLEAN
      BY <1>1 DEF DiskIInv, DiskTypeOK
    <3> QED BY <1>1, <1>3, <3>1, <3>2, <3>3 DEF DiskIInv, DiskTypeOK, DiskScanning
  <2>6. DiskPlaces'
    BY <1>1, <1>3, <2>1, <2>2 DEF DiskPlaces, DiskStarting, DiskScanning, DiskLooking
  <2>7. DiskWaits'
    BY <1>1, <2>3, <2>4 DEF DiskIInv, DiskWaits
  <2>8. DiskCounts'
    <3>1. failures' = {} => target \notin Unusable
      BY <1>3
    <3>2. target \notin Unusable => unique' = 1
      BY <1>3 DEF Disk!Usable
    <3>3. Cardinality({target}) = 1
      BY FS_Singleton
    <3> QED BY <1>1, <2>2, <3>1, <3>2, <3>3 DEF DiskCounts
  <2>9. DiskSaw'
    BY <1>1 DEF DiskIInv, DiskSaw
  <2>10. DiskKept'
    <3>1. ~Disk!Incomplete' => failures = {} /\ ~limited /\ ~ (shallow > 0) /\ unentered = {}
      BY <1>1, <1>3 DEF Disk!Incomplete
    <3>2. ~Disk!Incomplete' => ~Disk!Incomplete
      <4>1. capacity
        BY <1>1, <2>1 DEF DiskIInv, DiskPlaces
      <4> QED BY <3>1, <4>1 DEF Disk!Incomplete
    <3> QED BY <1>1, <2>1, <2>2, <2>3, <2>4, <3>2 DEF DiskIInv, DiskKept
  <2>11. DiskReported'
    BY <1>3, <2>1 DEF DiskReported, Disk!ExitOK
  <2> QED BY <2>5, <2>6, <2>7, <2>8, <2>9, <2>10, <2>11 DEF DiskIInv
<1> QED BY <1>2, <1>3, Zenon DEF Disk!ReadCapacity

\* What was there and is in scope is not left out for its path or its device.
LEMMA DiskInScopeNow ==
  ASSUME Disk!DiskScanAssumption, DiskIInv, NEW e \in present, Disk!InScope(e)
  PROVE  /\ e.path \in Paths \ {<< >>} /\ e.path \notin scanOptions.excludes
         /\ scanOptions.cross \/ (e.inode \notin Foreign /\ e.path \notin mounts)
         /\ e.inode # 0
<1>1. e.path \in Paths \ {<< >>} /\ e.inode # 0
  BY DEF DiskIInv, DiskTypeOK, DiskEntrySet, DiskSaw
<1>2. e.path \in Disk!OnPath(e.path)
  BY <1>1, DiskOnPath
<1>3. e.path \notin scanOptions.excludes
  BY <1>2 DEF Disk!InScope
<1>4. scanOptions.cross \/ (e.inode \notin Foreign /\ e.path \notin mounts)
  BY Zenon DEF Disk!InScope
<1> QED BY <1>1, <1>3, <1>4

\* Entries that are excluded or on another device are dropped; those on a device
\* that was to be crossed are noted.
LEMMA DiskSelectBranches == ASSUME Disk!DiskScanAssumption, DiskIInv, Disk!SelectBranches PROVE DiskIInv'
<1> DEFINE kept == {e \in Disk!ToSet(eligible) : ~Disk!Excluded(e.path)}
           chosen == {e \in kept : ~Disk!Skipped(e)}
<1>1. /\ pc = "select" /\ pc' = "branch" /\ eligible' \in Disk!Sorted(chosen)
      /\ unentered' = unentered \union Disk!NotEntered(kept)
      /\ UNCHANGED <<tree, changes, scanOptions, target, mounts, capacity, stack, entry, visited, enumerated,
           limited, branch, global, unique, shallow, failures, present, listed, exit>>
  BY DEF Disk!SelectBranches, Disk!world, Disk!setup, Disk!budgets, Disk!history
<1>2. eligible \in Seq(DiskEntrySet) /\ stack = << >>
  BY <1>1 DEF DiskIInv, DiskTypeOK, DiskPlaces
<1>3. IsFiniteSet(chosen) /\ chosen \in SUBSET DiskEntrySet
  <2>1. Disk!ToSet(eligible) = {eligible[i] : i \in 1..Len(eligible)} /\ Disk!ToSet(eligible) \subseteq DiskEntrySet
    BY <1>2, DiskToSet
  <2> DEFINE f == [i \in 1..Len(eligible) |-> eligible[i]]
  <2>2. f \in Surjection(1..Len(eligible), Disk!ToSet(eligible))
    <3>1. f \in [1..Len(eligible) -> Disk!ToSet(eligible)]
          /\ \A e \in Disk!ToSet(eligible) : \E i \in 1..Len(eligible) : f[i] = e
      BY <2>1
    <3> HIDE DEF f
    <3> QED BY <3>1, Fun_IsSurj
  <2>3. IsFiniteSet(1..Len(eligible))
    BY <1>2, FS_Interval
  <2>4. IsFiniteSet(Disk!ToSet(eligible))
    BY <2>2, <2>3, FS_Surjection
  <2>5. chosen \in SUBSET Disk!ToSet(eligible)
    OBVIOUS
  <2> QED BY <2>1, <2>4, <2>5, FS_Subset
<1> HIDE DEF chosen
<1>4. eligible' \in Seq(DiskEntrySet) /\ Disk!ToSet(eligible') = chosen
  BY <1>1, <1>3, DiskSorted
<1>5. DiskWaiting = Disk!ToSet(eligible) /\ DiskWaiting' = chosen
  BY <1>1, <1>2, <1>4 DEF DiskWaiting, Disk!ToSet
<1>6. /\ \A p : DiskClear(p)' <=> DiskClear(p)
      /\ \A e : Disk!InScope(e)' <=> Disk!InScope(e)
  BY <1>1, DiskSame
<1>7. DiskTypeOK'
  BY <1>1, <1>4 DEF DiskIInv, DiskTypeOK, DiskScanning
<1>8. DiskPlaces'
  BY <1>1 DEF DiskIInv, DiskPlaces, DiskStarting, DiskScanning, DiskLooking
<1>9. DiskWaits'
  BY <1>1, <1>5, <1>6 DEF DiskIInv, DiskWaits, chosen
<1>10. DiskCounts' /\ DiskSaw'
  <2>1. DiskCounts'
    BY <1>1, <1>6 DEF DiskIInv, DiskCounts
  <2>2. DiskSaw'
    BY <1>1 DEF DiskIInv, DiskSaw
  <2> QED BY <2>1, <2>2
<1>11. DiskKept'
  <2> SUFFICES ASSUME ~Disk!Incomplete'
               PROVE  /\ \A e \in present : Disk!InScope(e) =>
                           \/ e.inode \in global
                           \/ \E w \in chosen : w.path = e.path /\ (w.inode = e.inode \/ (w.inode = 0 /\ e.path \in mounts))
                      /\ \A i \in global \intersect Dirs : i \in listed
    BY <1>1, <1>5, <1>6 DEF DiskKept
  <2>1. ~Disk!Incomplete /\ Disk!NotEntered(kept) = {}
    BY <1>1 DEF Disk!Incomplete
  <2>2. ASSUME NEW e \in present, Disk!InScope(e), e.inode \notin global
        PROVE  \E w \in chosen : w.path = e.path /\ (w.inode = e.inode \/ (w.inode = 0 /\ e.path \in mounts))
    <3>1. PICK w \in DiskWaiting : w.path = e.path /\ (w.inode = e.inode \/ (w.inode = 0 /\ e.path \in mounts))
      BY <1>1, <2>1, <2>2 DEF DiskIInv, DiskKept
    <3>2. /\ e.path \notin scanOptions.excludes /\ e.inode # 0
          /\ scanOptions.cross \/ (e.inode \notin Foreign /\ e.path \notin mounts)
      BY <2>2, DiskInScopeNow
    <3>3. w \in kept
      BY <1>5, <3>1, <3>2 DEF Disk!Excluded
    <3>4. ~Disk!Skipped(w)
      <4>1. CASE w.inode = 0
        <5>1. scanOptions.cross
          BY <3>1, <3>2, <4>1
        <5>2. w.path \in Disk!NotEntered(kept)
          BY <3>3, <4>1, <5>1 DEF Disk!NotEntered
        <5> QED BY <2>1, <5>2
      <4>2. CASE w.inode # 0
        BY <3>1, <3>2, <4>2 DEF Disk!Skipped
      <4> QED BY <4>1, <4>2
    <3> QED BY <3>1, <3>3, <3>4 DEF chosen
  <2>3. \A i \in global \intersect Dirs : i \in listed
    BY <1>1, <2>1 DEF DiskIInv, DiskKept, DiskLooking
  <2> QED BY <2>2, <2>3
<1>12. DiskReported'
  BY <1>1 DEF DiskIInv, DiskPlaces, DiskReported, Disk!ExitOK
<1> QED BY <1>7, <1>8, <1>9, <1>10, <1>11, <1>12 DEF DiskIInv

\* The next branch begins, or the scan ends: what is left is noted as a limit.
LEMMA DiskNextBranch == ASSUME DiskIInv, Disk!NextBranch PROVE DiskIInv'
<1>1. /\ pc = "branch" /\ pc' \in {"report", "visit"}
      /\ UNCHANGED <<tree, changes, scanOptions, target, mounts, capacity, entry, visited, enumerated, global,
           unique, shallow, unentered, failures, present, listed, exit>>
  BY DEF Disk!NextBranch, Disk!world, Disk!setup, Disk!history
<1>2. /\ eligible \in Seq(DiskEntrySet) /\ stack \in Seq(DiskEntrySet) /\ limited \in BOOLEAN
      /\ (~limited => stack = << >>) /\ branch \subseteq global
  BY <1>1 DEF DiskIInv, DiskTypeOK, DiskPlaces
<1>3. /\ \A p : DiskClear(p)' <=> DiskClear(p)
      /\ \A e : Disk!InScope(e)' <=> Disk!InScope(e)
  BY <1>1, DiskSame
<1>4. /\ eligible' \in Seq(DiskEntrySet) /\ stack' \in Seq(DiskEntrySet) /\ limited' \in BOOLEAN
      /\ branch' \subseteq global /\ (limited => limited')
      /\ DiskWaiting' \subseteq DiskWaiting
      /\ ~limited => DiskWaiting' = DiskWaiting
      /\ pc' = "report" /\ ~limited' => eligible' = << >> /\ stack' = << >>
  <2>1. CASE eligible = << >> \/ visited >= scanOptions.entries
    <3>1. limited' = (limited \/ eligible # << >>) /\ pc' = "report" /\ UNCHANGED <<eligible, stack, branch>>
      BY <2>1 DEF Disk!NextBranch
    <3>2. limited' \in BOOLEAN
      BY <3>1, Zenon
    <3> QED BY <1>2, <3>1, <3>2, Zenon DEF DiskWaiting
  <2>2. CASE ~ (eligible = << >> \/ visited >= scanOptions.entries)
    <3>1. /\ stack' = <<Head(eligible)>> /\ eligible' = Tail(eligible) /\ branch' = {} /\ pc' = "visit"
          /\ UNCHANGED limited
      BY <2>2 DEF Disk!NextBranch
    <3>2. /\ Tail(eligible) \in Seq(DiskEntrySet) /\ Head(eligible) \in DiskEntrySet
          /\ Disk!ToSet(eligible) = Disk!ToSet(Tail(eligible)) \union {Head(eligible)}
      BY <1>2, <2>2, DiskToSet
    <3>3. Disk!ToSet(<<Head(eligible)>>) = {Head(eligible)} /\ Disk!ToSet(<< >>) = {}
      BY DEF Disk!ToSet
    <3>4. stack' \in Seq(DiskEntrySet) /\ DiskWaiting' = Disk!ToSet(eligible)
      BY <3>1, <3>2, <3>3 DEF DiskWaiting
    <3>5. ~limited => DiskWaiting = Disk!ToSet(eligible)
      BY <1>2, <3>3 DEF DiskWaiting
    <3>6. Disk!ToSet(eligible) \subseteq DiskWaiting
      BY DEF DiskWaiting
    <3> QED BY <1>2, <3>1, <3>2, <3>4, <3>5, <3>6
  <2> QED BY <2>1, <2>2
<1>5. DiskTypeOK'
  BY <1>1, <1>4 DEF DiskIInv, DiskTypeOK, DiskScanning
<1>6. DiskPlaces'
  BY <1>1, <1>4 DEF DiskIInv, DiskPlaces, DiskStarting, DiskScanning, DiskLooking
<1>7. DiskWaits'
  BY <1>1, <1>3, <1>4 DEF DiskIInv, DiskWaits
<1>8. DiskCounts'
  BY <1>1, <1>3 DEF DiskIInv, DiskCounts
<1>9. DiskSaw'
  BY <1>1 DEF DiskIInv, DiskSaw
<1>10. DiskKept'
  <2>1. ~Disk!Incomplete' => ~Disk!Incomplete /\ ~limited
    BY <1>1, <1>4 DEF Disk!Incomplete
  <2> QED BY <1>1, <1>3, <1>4, <2>1 DEF DiskIInv, DiskKept, DiskLooking
<1>11. DiskReported'
  BY <1>1 DEF DiskIInv, DiskPlaces, DiskReported, Disk!ExitOK
<1> QED BY <1>5, <1>6, <1>7, <1>8, <1>9, <1>10, <1>11 DEF DiskIInv

LEMMA DiskEndBranch == ASSUME DiskIInv, Disk!EndBranch PROVE DiskIInv'
<1>1. /\ pc = "visit" /\ pc' = "branch" /\ limited' = (limited \/ stack # << >>)
      /\ UNCHANGED <<tree, changes, scanOptions, target, mounts, capacity, eligible, stack, entry, visited,
           enumerated, branch, global, unique, shallow, unentered, failures, present, listed, exit>>
  BY DEF Disk!EndBranch, Disk!world, Disk!setup, Disk!walk, Disk!found, Disk!history
<1>2. limited' \in BOOLEAN /\ (limited => limited') /\ (~limited' => stack = << >>)
  BY <1>1, Zenon
<1>3. /\ \A p : DiskClear(p)' <=> DiskClear(p)
      /\ \A e : Disk!InScope(e)' <=> Disk!InScope(e)
  BY <1>1, DiskSame
<1>4. DiskWaiting' = DiskWaiting
  BY <1>1 DEF DiskWaiting
<1>5. DiskTypeOK'
  BY <1>1, <1>2 DEF DiskIInv, DiskTypeOK, DiskScanning
<1>6. DiskPlaces'
  BY <1>1, <1>2 DEF DiskIInv, DiskPlaces, DiskStarting, DiskScanning, DiskLooking
<1>7. DiskWaits'
  BY <1>1, <1>3, <1>4 DEF DiskIInv, DiskWaits
<1>8. DiskCounts'
  BY <1>1, <1>3 DEF DiskIInv, DiskCounts
<1>9. DiskSaw'
  BY <1>1 DEF DiskIInv, DiskSaw
<1>10. DiskKept'
  <2>1. ~Disk!Incomplete' => ~Disk!Incomplete
    BY <1>1, <1>2 DEF Disk!Incomplete
  <2> QED BY <1>1, <1>3, <1>4, <2>1 DEF DiskIInv, DiskKept, DiskLooking
<1>11. DiskReported'
  BY <1>1 DEF DiskIInv, DiskPlaces, DiskReported, Disk!ExitOK
<1> QED BY <1>5, <1>6, <1>7, <1>8, <1>9, <1>10, <1>11 DEF DiskIInv

\* The next entry is left out, known, or counted; a directory comes next.
LEMMA DiskVisit == ASSUME Disk!DiskScanAssumption, DiskIInv, Disk!Visit PROVE DiskIInv'
<1> DEFINE e == Disk!Last(stack)
           out == Disk!Excluded(e.path) \/ Disk!Skipped(e)
<1>1. /\ pc = "visit" /\ stack # << >> /\ stack' = Disk!Front(stack)
      /\ UNCHANGED <<tree, changes, scanOptions, target, mounts, capacity, eligible, enumerated, limited, shallow,
           present, listed, exit>>
  BY DEF Disk!Visit, Disk!world, Disk!setup, Disk!history
<1>2. \/ /\ out
         /\ unentered' = unentered \union (IF Disk!Excluded(e.path) THEN {} ELSE Disk!NotEntered({e}))
         /\ UNCHANGED <<branch, global, unique, failures, entry, pc>>
      \/ /\ ~out /\ e.inode \in branch
         /\ UNCHANGED <<branch, global, unique, failures, entry, pc, unentered>>
      \/ /\ ~out /\ e.inode \notin branch /\ Disk!Count(e) /\ UNCHANGED unentered
  BY Zenon DEF Disk!Visit
<1>3. /\ stack' \in Seq(DiskEntrySet) /\ e \in DiskEntrySet /\ e \in DiskWaiting
      /\ DiskWaiting = DiskWaiting' \union {e}
  <2>1. stack \in Seq(DiskEntrySet) /\ stack # << >>
    BY <1>1 DEF DiskIInv, DiskTypeOK
  <2>2. /\ Disk!Front(stack) \in Seq(DiskEntrySet) /\ e \in DiskEntrySet
        /\ Disk!ToSet(stack) = Disk!ToSet(Disk!Front(stack)) \union {e}
    BY <2>1, DiskToSet
  <2>3. DiskWaiting' = Disk!ToSet(eligible) \union Disk!ToSet(Disk!Front(stack))
    BY <1>1 DEF DiskWaiting
  <2> HIDE DEF e
  <2> QED BY <1>1, <2>2, <2>3 DEF DiskWaiting
<1>4. /\ DiskClear(Disk!Front(e.path))
      /\ e.inode # 0 => e \in present /\ (scanOptions.cross \/ e.path \notin mounts)
      /\ ~out => e.inode # 0 /\ (scanOptions.cross \/ e.inode \notin Foreign) /\ e.path \notin scanOptions.excludes
  <2>1. /\ DiskClear(Disk!Front(e.path))
        /\ e.inode # 0 => e \in present /\ (scanOptions.cross \/ e.path \notin mounts)
    BY <1>3 DEF DiskIInv, DiskWaits
  <2>2. ~out => e.inode # 0 /\ (scanOptions.cross \/ e.inode \notin Foreign) /\ e.path \notin scanOptions.excludes
    BY Zenon DEF Disk!Excluded, Disk!Skipped
  <2> QED BY <2>1, <2>2, Zenon
<1> HIDE DEF e
<1>5. /\ \A p : DiskClear(p)' <=> DiskClear(p)
      /\ \A x : Disk!InScope(x)' <=> Disk!InScope(x)
  BY <1>1, DiskSame
<1>6. DiskWaits'
  BY <1>1, <1>3, <1>5 DEF DiskIInv, DiskWaits
<1>7. DiskSaw'
  BY <1>1 DEF DiskIInv, DiskSaw
<1>8. DiskReported'
  BY <1>1 DEF DiskIInv, DiskPlaces, DiskReported, Disk!ExitOK
\* An entry that was there and in scope and waited as the one that is visited.
<1>9. ASSUME NEW x \in present, Disk!InScope(x), e.path = x.path, e.inode = x.inode \/ (e.inode = 0 /\ x.path \in mounts),
             Disk!NotEntered({e}) = {}
      PROVE  ~out /\ e.inode = x.inode
  <2>1. /\ x.path \notin scanOptions.excludes /\ x.inode # 0
        /\ scanOptions.cross \/ (x.inode \notin Foreign /\ x.path \notin mounts)
    BY <1>9, DiskInScopeNow
  <2>2. ~Disk!Excluded(e.path)
    BY <1>9, <2>1 DEF Disk!Excluded
  <2>3. CASE e.inode = 0
    <3>1. scanOptions.cross
      BY <1>9, <2>1, <2>3
    <3>2. e.path \in Disk!NotEntered({e})
      BY <2>3, <3>1 DEF Disk!NotEntered
    <3> QED BY <1>9, <3>2
  <2>4. CASE e.inode # 0
    <3>1. e.inode = x.inode
      BY <1>9, <2>4
    <3>2. ~Disk!Skipped(e)
      BY <2>1, <3>1 DEF Disk!Skipped
    <3> QED BY <2>2, <3>1, <3>2
  <2> QED BY <2>3, <2>4
<1>10. CASE /\ out
            /\ unentered' = unentered \union (IF Disk!Excluded(e.path) THEN {} ELSE Disk!NotEntered({e}))
            /\ UNCHANGED <<branch, global, unique, failures, entry, pc>>
  <2>1. DiskTypeOK' /\ DiskPlaces'
    <3>1. DiskTypeOK'
      BY <1>1, <1>3, <1>10 DEF DiskIInv, DiskTypeOK
    <3>2. DiskPlaces'
      BY <1>1, <1>10 DEF DiskIInv, DiskPlaces, DiskStarting, DiskScanning, DiskLooking
    <3> QED BY <3>1, <3>2
  <2>2. DiskCounts'
    BY <1>1, <1>5, <1>10 DEF DiskIInv, DiskCounts
  <2>3. DiskKept'
    <3> SUFFICES ASSUME ~Disk!Incomplete' PROVE DiskKept'
      BY DEF DiskKept
    <3>1. ~Disk!Incomplete /\ (~Disk!Excluded(e.path) => Disk!NotEntered({e}) = {})
      BY <1>1, <1>10, Zenon DEF Disk!Incomplete
    <3>2. ASSUME NEW x \in present, Disk!InScope(x), x.inode \notin global
          PROVE  \E w \in DiskWaiting' : w.path = x.path /\ (w.inode = x.inode \/ (w.inode = 0 /\ x.path \in mounts))
      <4>1. PICK w \in DiskWaiting : w.path = x.path /\ (w.inode = x.inode \/ (w.inode = 0 /\ x.path \in mounts))
        BY <1>1, <3>1, <3>2 DEF DiskIInv, DiskKept
      <4>2. w # e
        <5> SUFFICES ASSUME w = e PROVE FALSE
          OBVIOUS
        <5>1. ~Disk!Excluded(e.path)
          BY <3>2, <4>1, DiskInScopeNow DEF Disk!Excluded
        <5> QED BY <1>9, <1>10, <3>1, <3>2, <4>1, <5>1
      <4> QED BY <1>3, <4>1, <4>2
    <3>3. \A i \in global \intersect Dirs : i \in listed
      BY <1>1, <3>1 DEF DiskIInv, DiskKept, DiskLooking
    <3> QED BY <1>1, <1>5, <1>10, <3>2, <3>3 DEF DiskKept
  <2> QED BY <1>6, <1>7, <1>8, <2>1, <2>2, <2>3 DEF DiskIInv
<1>11. CASE /\ ~out /\ e.inode \in branch
            /\ UNCHANGED <<branch, global, unique, failures, entry, pc, unentered>>
  <2>1. DiskTypeOK' /\ DiskPlaces'
    <3>1. DiskTypeOK'
      BY <1>1, <1>3, <1>11 DEF DiskIInv, DiskTypeOK
    <3>2. DiskPlaces'
      BY <1>1, <1>11 DEF DiskIInv, DiskPlaces, DiskStarting, DiskScanning, DiskLooking
    <3> QED BY <3>1, <3>2
  <2>2. DiskCounts'
    BY <1>1, <1>5, <1>11 DEF DiskIInv, DiskCounts
  <2>3. DiskKept'
    <3> SUFFICES ASSUME ~Disk!Incomplete' PROVE DiskKept'
      BY DEF DiskKept
    <3>1. ~Disk!Incomplete
      BY <1>1, <1>11 DEF Disk!Incomplete
    <3>2. e.inode \in global
      BY <1>11 DEF DiskIInv, DiskPlaces
    <3>3. Disk!NotEntered({e}) = {}
      BY <1>4, <1>11 DEF Disk!NotEntered
    <3>4. ASSUME NEW x \in present, Disk!InScope(x), x.inode \notin global
          PROVE  \E w \in DiskWaiting' : w.path = x.path /\ (w.inode = x.inode \/ (w.inode = 0 /\ x.path \in mounts))
      <4>1. PICK w \in DiskWaiting : w.path = x.path /\ (w.inode = x.inode \/ (w.inode = 0 /\ x.path \in mounts))
        BY <1>1, <3>1, <3>4 DEF DiskIInv, DiskKept
      <4>2. w # e
        BY <1>9, <3>2, <3>3, <3>4, <4>1
      <4> QED BY <1>3, <4>1, <4>2
    <3>5. \A i \in global \intersect Dirs : i \in listed
      BY <1>1, <3>1 DEF DiskIInv, DiskKept, DiskLooking
    <3> QED BY <1>1, <1>5, <1>11, <3>4, <3>5 DEF DiskKept
  <2> QED BY <1>6, <1>7, <1>8, <2>1, <2>2, <2>3 DEF DiskIInv
<1>12. CASE ~out /\ e.inode \notin branch /\ Disk!Count(e) /\ UNCHANGED unentered
  <2>1. /\ branch' = branch \union {e.inode} /\ global' = global \union {e.inode}
        /\ unique' = IF e.inode \in global THEN unique ELSE unique + Disk!Usable(e.inode)
        /\ failures' = IF e.inode \in Unusable THEN failures \union {e.path} ELSE failures
        /\ entry' = e
        /\ e.inode \notin Dirs => pc' = "visit"
        /\ e.inode \in Dirs => pc' \in DiskLooking
    BY <1>12 DEF Disk!Count, DiskLooking
  <2>2. pc' \in {"visit"} \union DiskLooking
    BY <2>1
  <2>3. e.inode # 0 /\ e \in present /\ (scanOptions.cross \/ (e.inode \notin Foreign /\ e.path \notin mounts))
        /\ e.path \notin scanOptions.excludes
    BY <1>4, <1>12, Zenon
  <2>4. e.path \in Paths \ {<< >>} /\ e.inode \in Nat
    BY <1>3 DEF DiskEntrySet
  <2>5. DiskClear(e.path) /\ Disk!InScope(e)
    <3>1. changes = 0 => scanOptions.cross \/ (tree[e.path] \notin Foreign /\ e.path \notin mounts)
      BY <2>3 DEF DiskIInv, DiskSaw
    <3>2. DiskClear(e.path)
      BY <1>4, <2>3, <2>4, <3>1, DiskClearDown
    <3>3. Disk!InScope(e)
      BY <2>3, <3>2, Zenon DEF DiskClear, Disk!InScope
    <3> QED BY <3>2, <3>3
  <2>6. IsFiniteSet(global) /\ unique \in Nat
    BY DEF DiskIInv, DiskTypeOK
  <2>7. DiskTypeOK'
    <3>1. IsFiniteSet(global')
      BY <2>1, <2>6, FS_AddElement
    <3>2. unique' \in Nat
      <4>1. \A n \in Nat : n + Disk!Usable(e.inode) \in Nat
        BY DEF Disk!Usable
      <4> QED BY <2>1, <2>6, <4>1, Zenon
    <3> QED BY <1>1, <1>3, <2>2, <3>1, <3>2 DEF DiskIInv, DiskTypeOK, DiskScanning
  <2>8. DiskPlaces'
    <3>1. pc' \in DiskLooking =>
            entry' \in DiskEntrySet /\ entry'.inode \in Dirs \intersect global' /\ DiskClear(entry.path)'
      <4>1. DiskClear(entry.path)'
        BY <1>1, <2>1, <2>5 DEF DiskClear, Disk!OnPath
      <4>2. pc' \in DiskLooking => e.inode \in Dirs
        BY <2>1 DEF DiskLooking
      <4> QED BY <1>3, <2>1, <4>1, <4>2
    <3>2. pc' \in {"visit", "peek", "list"} /\ branch' \subseteq global' /\ global \subseteq global'
      BY <2>1, <2>2 DEF DiskIInv, DiskPlaces, DiskLooking
    <3>3. /\ target' # 0 /\ (changes' = 0 => target' = tree'[<< >>]) /\ target' \in listed' /\ target' \in global'
          /\ exit' = -1
      BY <1>1, <3>2 DEF DiskIInv, DiskPlaces, DiskScanning
    <3> QED BY <3>1, <3>2, <3>3 DEF DiskPlaces, DiskStarting, DiskScanning, DiskLooking
  <2>9. DiskCounts'
    <3>1. ASSUME NEW i \in global' \ {target}
          PROVE  \E x \in present : x.inode = i /\ Disk!InScope(x) /\ DiskClear(x.path)
      <4>1. CASE i = e.inode
        BY <2>3, <2>5, <4>1
      <4>2. CASE i # e.inode
        BY <2>1, <3>1, <4>2 DEF DiskIInv, DiskCounts
      <4> QED BY <4>1, <4>2
    <3>2. ASSUME failures' = {} PROVE unique' = Cardinality(global') /\ global' \intersect Unusable = {}
      <4>1. e.inode \notin Unusable /\ failures = {}
        BY <2>1, <3>2
      <4>2. unique = Cardinality(global) /\ global \intersect Unusable = {}
        BY <4>1 DEF DiskIInv, DiskCounts
      <4>3. Cardinality(global') = IF e.inode \in global THEN Cardinality(global) ELSE Cardinality(global) + 1
        BY <2>1, <2>6, FS_AddElement, Zenon
      <4>4. Disk!Usable(e.inode) = 1
        BY <4>1 DEF Disk!Usable
      <4>5. unique' = Cardinality(global')
        BY <2>1, <4>2, <4>3, <4>4, Zenon
      <4> QED BY <2>1, <4>1, <4>2, <4>5
    <3> QED BY <1>1, <1>5, <3>1, <3>2 DEF DiskCounts
  <2>10. DiskKept'
    <3> SUFFICES ASSUME ~Disk!Incomplete' PROVE DiskKept'
      BY DEF DiskKept
    <3>1. ~Disk!Incomplete
      BY <1>1, <1>12, <2>1 DEF Disk!Incomplete
    <3>2. Disk!NotEntered({e}) = {}
      BY <2>3 DEF Disk!NotEntered
    <3>3. ASSUME NEW x \in present, Disk!InScope(x), x.inode \notin global'
          PROVE  \E w \in DiskWaiting' : w.path = x.path /\ (w.inode = x.inode \/ (w.inode = 0 /\ x.path \in mounts))
      <4>1. x.inode \notin global /\ x.inode # e.inode
        BY <2>1, <3>3
      <4>2. PICK w \in DiskWaiting : w.path = x.path /\ (w.inode = x.inode \/ (w.inode = 0 /\ x.path \in mounts))
        BY <1>1, <3>1, <3>3, <4>1 DEF DiskIInv, DiskKept
      <4>3. w # e
        BY <1>9, <3>2, <3>3, <4>1, <4>2
      <4> QED BY <1>3, <4>2, <4>3
    <3>4. \A i \in global' \intersect Dirs : i \in listed \/ (pc' \in DiskLooking /\ i = entry'.inode)
      <4> TAKE i \in global' \intersect Dirs
      <4>1. CASE i = e.inode
        BY <2>1, <4>1
      <4>2. CASE i # e.inode
        <5>1. i \in global \intersect Dirs
          BY <2>1, <4>2
        <5> QED BY <1>1, <3>1, <5>1 DEF DiskIInv, DiskKept, DiskLooking
      <4> QED BY <4>1, <4>2
    <3> QED BY <1>1, <1>5, <3>3, <3>4 DEF DiskKept
  <2> QED BY <1>6, <1>7, <1>8, <2>7, <2>8, <2>9, <2>10 DEF DiskIInv
<1> QED BY <1>2, <1>10, <1>11, <1>12

\* A directory at the limit of depth is looked into, or is one more reservation.
LEMMA DiskPeek == ASSUME Disk!DiskScanAssumption, DiskIInv, Disk!Peek PROVE DiskIInv'
<1>1. /\ pc = "peek" /\ pc' = "visit"
      /\ UNCHANGED <<tree, changes, scanOptions, target, mounts, capacity, eligible, stack, entry, visited,
           enumerated, limited, branch, global, unique, unentered, failures, present, exit>>
      /\ \/ shallow' = shallow + 1 /\ UNCHANGED listed
         \/ /\ tree[entry.path] = entry.inode /\ Disk!Children(entry.path) = {}
            /\ listed' = listed \union {entry.inode}
            /\ UNCHANGED shallow
  BY DEF Disk!Peek, Disk!world, Disk!setup, Disk!walk, Disk!budgets
<1>2. entry \in DiskEntrySet /\ entry.inode \in Dirs \intersect global /\ exit = -1
  BY <1>1 DEF DiskIInv, DiskPlaces, DiskLooking
<1>3. /\ \A p : DiskClear(p)' <=> DiskClear(p)
      /\ \A e : Disk!InScope(e)' <=> Disk!InScope(e)
  BY <1>1, DiskSame
<1>4. DiskWaiting' = DiskWaiting
  BY <1>1 DEF DiskWaiting
<1>5. DiskTypeOK'
  <2>1. shallow' \in Nat
    <3>1. shallow \in Nat
      BY DEF DiskIInv, DiskTypeOK
    <3>2. \A n \in Nat : n + 1 \in Nat
      OBVIOUS
    <3> QED BY <1>1, <3>1, <3>2, Zenon
  <2> QED BY <1>1, <2>1 DEF DiskIInv, DiskTypeOK, DiskScanning
<1>6. DiskPlaces'
  <2>1. listed \subseteq listed'
    BY <1>1
  <2> QED BY <1>1, <2>1 DEF DiskIInv, DiskPlaces, DiskStarting, DiskScanning, DiskLooking
<1>7. DiskWaits' /\ DiskCounts'
  <2>1. DiskWaits'
    BY <1>1, <1>3, <1>4 DEF DiskIInv, DiskWaits
  <2>2. DiskCounts'
    BY <1>1, <1>3 DEF DiskIInv, DiskCounts
  <2> QED BY <2>1, <2>2
<1>8. DiskSaw'
  <2>1. ASSUME changes = 0, NEW q \in Paths \ {<< >>}, tree[q] # 0, tree[Disk!Front(q)] \in listed'
        PROVE  [path |-> q, inode |-> tree[q]] \in present
    <3>1. CASE tree[Disk!Front(q)] \in listed
      BY <2>1, <3>1 DEF DiskIInv, DiskSaw
    <3>2. CASE tree[Disk!Front(q)] \notin listed
      <4>1. tree[Disk!Front(q)] = entry.inode /\ tree[entry.path] = entry.inode /\ Disk!Children(entry.path) = {}
        BY <1>1, <2>1, <3>2
      <4>2. tree \in Trees /\ Disk!Front(q) \in Paths /\ entry.path \in Paths
        BY <1>2, <2>1 DEF DiskIInv, DiskSaw, DiskEntrySet, Disk!DiskScanAssumption
      <4>3. Disk!Front(q) = entry.path
        BY <1>2, <4>1, <4>2, Zenon DEF Disk!DiskScanAssumption
      <4>4. q \in Disk!Children(entry.path)
        BY <2>1, <4>3 DEF Disk!Children, Disk!Parent
      <4> QED BY <4>1, <4>4
    <3> QED BY <3>1, <3>2
  <2> QED BY <1>1, <2>1 DEF DiskIInv, DiskSaw
<1>9. DiskKept'
  <2> SUFFICES ASSUME ~Disk!Incomplete' PROVE DiskKept'
    BY DEF DiskKept
  <2>1. listed' = listed \union {entry.inode} /\ UNCHANGED shallow
    <3>1. ASSUME shallow' = shallow + 1 PROVE FALSE
      <4>1. shallow \in Nat
        BY DEF DiskIInv, DiskTypeOK
      <4>2. \A n \in Nat : n + 1 > 0
        OBVIOUS
      <4>3. shallow' > 0
        BY <3>1, <4>1, <4>2, Zenon
      <4> QED BY <4>3 DEF Disk!Incomplete
    <3> QED BY <1>1, <3>1
  <2>2. ~Disk!Incomplete
    BY <1>1, <2>1 DEF Disk!Incomplete
  <2> QED BY <1>1, <1>3, <1>4, <2>1, <2>2 DEF DiskIInv, DiskKept
<1>10. DiskReported'
  BY <1>1, <1>2 DEF DiskReported, Disk!ExitOK
<1> QED BY <1>5, <1>6, <1>7, <1>8, <1>9, <1>10 DEF DiskIInv

\* A directory is listed, if it is still the one that was counted.
LEMMA DiskListDirectory == ASSUME Disk!DiskScanAssumption, DiskIInv, Disk!ListDirectory PROVE DiskIInv'
<1>1. /\ pc = "list" /\ pc' = "visit"
      /\ UNCHANGED <<tree, changes, scanOptions, target, mounts, capacity, eligible, entry, visited, branch,
           global, unique, shallow, unentered, exit>>
  BY DEF Disk!ListDirectory, Disk!world, Disk!setup, Disk!found
<1>2. entry \in DiskEntrySet /\ entry.inode \in Dirs \intersect global /\ exit = -1 /\ DiskClear(entry.path)
  BY <1>1 DEF DiskIInv, DiskPlaces, DiskLooking
<1>3. /\ \A p : DiskClear(p)' <=> DiskClear(p)
      /\ \A e : Disk!InScope(e)' <=> Disk!InScope(e)
  BY <1>1, DiskSame
<1>4. DiskReported'
  BY <1>1, <1>2 DEF DiskReported, Disk!ExitOK
<1>5. CASE /\ limited' \/ failures' # {}
           /\ limited' \in BOOLEAN /\ (limited => limited') /\ failures \subseteq failures'
           /\ UNCHANGED <<stack, enumerated, present, listed>>
  <2>1. DiskTypeOK'
    BY <1>1, <1>5 DEF DiskIInv, DiskTypeOK, DiskScanning
  <2>2. DiskPlaces'
    BY <1>1, <1>5 DEF DiskIInv, DiskPlaces, DiskStarting, DiskScanning, DiskLooking
  <2>3. DiskWaits'
    <3>1. DiskWaiting' = DiskWaiting
      BY <1>1, <1>5 DEF DiskWaiting
    <3> QED BY <1>1, <1>3, <1>5, <3>1 DEF DiskIInv, DiskWaits
  <2>4. DiskCounts'
    <3>1. failures' = {} => failures = {}
      BY <1>5
    <3> QED BY <1>1, <1>3, <1>5, <3>1 DEF DiskIInv, DiskCounts
  <2>5. DiskSaw'
    BY <1>1, <1>5 DEF DiskIInv, DiskSaw
  <2>6. DiskKept'
    BY <1>5 DEF DiskKept, Disk!Incomplete
  <2> QED BY <1>4, <2>1, <2>2, <2>3, <2>4, <2>5, <2>6 DEF DiskIInv
<1>6. CASE /\ enumerated < scanOptions.entries
           /\ tree[entry.path] # 0 /\ Disk!ExpectedAt(entry)
           /\ \E entries \in Disk!Sublists(entry.path), lost \in SUBSET Disk!Children(entry.path) :
                /\ Disk!Enumerate(entry.path, entries, lost)
                /\ stack' = stack \o Disk!Reverse(entries)
  <2>1. PICK entries, lost : Disk!Enumerate(entry.path, entries, lost) /\ stack' = stack \o Disk!Reverse(entries)
    BY <1>6
  <2> DEFINE p == entry.path
             children == Disk!Children(p)
  <2>2. p \in Paths \ {<< >>} /\ DiskTypeOK /\ enumerated <= scanOptions.entries /\ tree[p] = entry.inode
    <3>1. scanOptions.entries \in Nat /\ enumerated \in Nat
      BY DEF DiskIInv, DiskTypeOK
    <3> QED BY <1>2, <1>6, <3>1 DEF DiskIInv, DiskEntrySet, Disk!ExpectedAt
  <2>3. /\ entries \in Seq(DiskEntrySet)
        /\ present' = present \union {[path |-> q, inode |-> tree[q]] : q \in children}
        /\ listed' = listed \union {tree[p]}
        /\ enumerated' \in Nat /\ limited' \in BOOLEAN /\ (limited => limited') /\ failures \subseteq failures'
        /\ \A w \in Disk!ToSet(entries) : Disk!Front(w.path) = p /\ (w.inode # 0 => w \in present' /\ (scanOptions.cross \/ w.path \notin mounts))
        /\ failures' = {} /\ ~limited' =>
             \A q \in children : \E w \in Disk!ToSet(entries) :
               w.path = q /\ (w.inode = tree[q] \/ (w.inode = 0 /\ q \in mounts))
    BY <2>1, <2>2, DiskEnumerate
  <2>4. \A q \in children : q \in Paths \ {<< >>} /\ tree[q] # 0 /\ tree[q] \in Nat
    BY <2>2 DEF Disk!Children, DiskTypeOK
  <2> HIDE DEF p, children
  <2>5. present \subseteq present' /\ present' \subseteq DiskEntrySet
        /\ \A e \in present' : e \in present \/ (e.path \in children /\ e.inode = tree[e.path] /\ e.inode # 0)
    BY <2>2, <2>3, <2>4 DEF DiskEntrySet, DiskTypeOK
  <2>6. stack' \in Seq(DiskEntrySet) /\ DiskWaiting' = DiskWaiting \union Disk!ToSet(entries)
    <3>1. stack \in Seq(DiskEntrySet)
      BY <2>2 DEF DiskTypeOK
    <3>2. Disk!Reverse(entries) \in Seq(DiskEntrySet) /\ Disk!ToSet(Disk!Reverse(entries)) = Disk!ToSet(entries)
      BY <2>3, DiskToSetReverse
    <3>3. stack' \in Seq(DiskEntrySet) /\ Disk!ToSet(stack') = Disk!ToSet(stack) \union Disk!ToSet(entries)
      BY <2>1, <3>1, <3>2, DiskToSetConcat
    <3> QED BY <1>1, <3>3 DEF DiskWaiting
  <2>7. DiskTypeOK'
    BY <1>1, <2>2, <2>3, <2>5, <2>6 DEF DiskTypeOK, DiskScanning
  <2>8. DiskPlaces'
    <3>1. listed \subseteq listed'
      BY <2>3
    <3> QED BY <1>1, <3>1 DEF DiskIInv, DiskPlaces, DiskStarting, DiskScanning, DiskLooking
  <2>9. DiskWaits'
    <3>1. ASSUME NEW w \in DiskWaiting'
          PROVE  /\ DiskClear(Disk!Front(w.path))
                 /\ w.inode # 0 => w \in present' /\ (scanOptions.cross \/ w.path \notin mounts)
      <4>1. CASE w \in DiskWaiting
        BY <2>5, <4>1 DEF DiskIInv, DiskWaits
      <4>2. CASE w \in Disk!ToSet(entries)
        BY <1>2, <2>3, <4>2 DEF p
      <4> QED BY <2>6, <3>1, <4>1, <4>2
    <3> QED BY <1>1, <1>3, <3>1 DEF DiskWaits
  <2>10. DiskCounts'
    <3>1. failures' = {} => failures = {}
      BY <2>3
    <3> QED BY <1>1, <1>3, <2>5, <3>1 DEF DiskIInv, DiskCounts
  <2>11. DiskSaw'
    <3>1. \A e \in present' : e.inode # 0 /\ (changes = 0 => e.inode = tree[e.path])
      BY <2>5 DEF DiskIInv, DiskSaw
    <3>2. ASSUME changes = 0, NEW q \in Paths \ {<< >>}, tree[q] # 0, tree[Disk!Front(q)] \in listed'
          PROVE  [path |-> q, inode |-> tree[q]] \in present'
      <4>1. CASE tree[Disk!Front(q)] \in listed
        BY <2>5, <3>2, <4>1 DEF DiskIInv, DiskSaw
      <4>2. CASE tree[Disk!Front(q)] \notin listed
        <5>1. tree[Disk!Front(q)] = tree[p]
          BY <2>3, <3>2, <4>2
        <5>2. tree \in Trees /\ Disk!Front(q) \in Paths /\ p \in Paths /\ tree[p] \in Dirs
          BY <1>2, <2>2, <3>2, Zenon DEF DiskIInv, DiskSaw, Disk!DiskScanAssumption
        <5>3. Disk!Front(q) = p
          BY <5>1, <5>2 DEF Disk!DiskScanAssumption
        <5>4. q \in children
          BY <3>2, <5>3 DEF Disk!Children, Disk!Parent, children
        <5> QED BY <2>3, <5>4
      <4> QED BY <4>1, <4>2
    <3> QED BY <1>1, <3>1, <3>2 DEF DiskIInv, DiskSaw
  <2>12. DiskKept'
    <3> SUFFICES ASSUME ~Disk!Incomplete' PROVE DiskKept'
      BY DEF DiskKept
    <3>1. failures' = {} /\ ~limited' /\ ~Disk!Incomplete
      BY <1>1, <2>3 DEF Disk!Incomplete
    <3>2. ASSUME NEW x \in present', Disk!InScope(x), x.inode \notin global
          PROVE  \E w \in DiskWaiting' : w.path = x.path /\ (w.inode = x.inode \/ (w.inode = 0 /\ x.path \in mounts))
      <4>1. CASE x \in present
        BY <1>1, <2>6, <3>1, <3>2, <4>1 DEF DiskIInv, DiskKept
      <4>2. CASE x.path \in children /\ x.inode = tree[x.path]
        BY <2>3, <2>6, <3>1, <4>2
      <4> QED BY <2>5, <4>1, <4>2
    <3>3. \A i \in global \intersect Dirs : i \in listed'
      BY <1>1, <2>2, <2>3, <3>1 DEF DiskIInv, DiskKept
    <3> QED BY <1>1, <1>3, <3>2, <3>3 DEF DiskKept
  <2> QED BY <1>4, <2>7, <2>8, <2>9, <2>10, <2>11, <2>12 DEF DiskIInv
<1>7. \/ /\ limited' = TRUE /\ UNCHANGED <<stack, enumerated, failures, Disk!history>>
      \/ /\ failures' = failures \union {entry.path} /\ UNCHANGED <<stack, enumerated, limited, Disk!history>>
      \/ /\ enumerated < scanOptions.entries
         /\ tree[entry.path] # 0 /\ Disk!ExpectedAt(entry)
         /\ \E entries \in Disk!Sublists(entry.path), lost \in SUBSET Disk!Children(entry.path) :
              /\ Disk!Enumerate(entry.path, entries, lost)
              /\ stack' = stack \o Disk!Reverse(entries)
  BY DEF Disk!ListDirectory
<1>8. ASSUME limited' = TRUE, UNCHANGED <<stack, enumerated, failures, Disk!history>> PROVE DiskIInv'
  BY <1>5, <1>8 DEF Disk!history
<1>9. ASSUME failures' = failures \union {entry.path}, UNCHANGED <<stack, enumerated, limited, Disk!history>>
      PROVE  DiskIInv'
  <2>1. limited \in BOOLEAN
    BY DEF DiskIInv, DiskTypeOK
  <2> QED BY <1>5, <1>9, <2>1 DEF Disk!history
<1> QED BY <1>6, <1>7, <1>8, <1>9, Zenon

LEMMA DiskReport == ASSUME DiskIInv, Disk!Report PROVE DiskIInv'
<1>1. /\ pc = "report" /\ pc' = "done"
      /\ UNCHANGED <<tree, changes, scanOptions, target, mounts, capacity, eligible, stack, entry, visited,
           enumerated, limited, branch, global, unique, shallow, unentered, failures, present, listed>>
      /\ exit' = Disk!ExitFailure \/ exit' = IF Disk!Incomplete THEN Disk!ExitFinding ELSE Disk!ExitOK
  BY DEF Disk!Report, Disk!Done, Disk!world, Disk!setup, Disk!walk, Disk!budgets, Disk!found, Disk!history
<1>2. CASE exit' \in {Disk!ExitFailure, Disk!ExitFinding}
  BY <1>1, <1>2, DiskEnd
<1>3. CASE ~Disk!Incomplete /\ exit' = Disk!ExitOK
  <2>1. /\ \A p : DiskClear(p)' <=> DiskClear(p)
        /\ \A e : Disk!InScope(e)' <=> Disk!InScope(e)
    BY <1>1, DiskSame
  <2>2. DiskTypeOK'
    BY <1>1 DEF DiskIInv, DiskTypeOK
  <2>3. DiskPlaces'
    BY <1>1, <1>3 DEF DiskIInv, DiskPlaces, DiskStarting, DiskScanning, DiskLooking, Disk!ExitOK
  <2>4. DiskWaits'
    <3>1. DiskWaiting' = DiskWaiting
      BY <1>1 DEF DiskWaiting
    <3> QED BY <1>1, <2>1, <3>1 DEF DiskIInv, DiskWaits
  <2>5. DiskCounts'
    BY <1>1, <2>1 DEF DiskIInv, DiskCounts
  <2>6. DiskSaw'
    BY <1>1 DEF DiskIInv, DiskSaw
  <2>7. DiskKept'
    BY <1>1 DEF DiskKept
  <2>8. DiskReported'
    <3>1. eligible = << >> /\ stack = << >>
      BY <1>1, <1>3 DEF DiskIInv, DiskPlaces, Disk!Incomplete
    <3>2. DiskWaiting = {}
      BY <3>1 DEF DiskWaiting, Disk!ToSet
    <3>3. /\ \A e \in present : Disk!InScope(e) => e.inode \in global
          /\ \A i \in global \intersect Dirs : i \in listed
      BY <1>1, <1>3, <3>2 DEF DiskIInv, DiskKept, DiskLooking
    <3>4. target \in global /\ target # 0 /\ target \in listed /\ (changes = 0 => target = tree[<< >>])
      BY <1>1 DEF DiskIInv, DiskPlaces, DiskScanning
    <3>5. ~Disk!Incomplete'
      BY <1>1, <1>3 DEF Disk!Incomplete
    <3> QED BY <1>1, <2>1, <3>3, <3>4, <3>5 DEF DiskReported
  <2> QED BY <2>2, <2>3, <2>4, <2>5, <2>6, <2>7, <2>8 DEF DiskIInv
<1> QED BY <1>1, <1>2, <1>3

LEMMA DiskStep ==
  ASSUME Disk!DiskScanAssumption, DiskIInv, Disk!Next \/ UNCHANGED Disk!vars
  PROVE  DiskIInv'
<1>1. CASE UNCHANGED Disk!vars
  <2>1. UNCHANGED <<tree, changes, scanOptions, target, mounts, capacity, eligible, stack, entry, visited,
          enumerated, limited, branch, global, unique, shallow, unentered, failures, present, listed, pc, exit>>
    BY <1>1 DEF Disk!vars, Disk!world, Disk!setup, Disk!walk, Disk!budgets, Disk!found, Disk!history
  <2>2. DiskTypeOK' /\ DiskPlaces' /\ DiskWaits'
    BY <2>1 DEF DiskIInv, DiskTypeOK, DiskPlaces, DiskWaits, DiskWaiting, DiskClear, Disk!OnPath
  <2>3. DiskCounts' /\ DiskSaw'
    BY <2>1, DiskSame DEF DiskIInv, DiskCounts, DiskSaw
  <2>4. DiskKept' /\ DiskReported'
    BY <2>1, DiskSame DEF DiskIInv, DiskKept, DiskReported, DiskWaiting, Disk!Incomplete
  <2> QED BY <2>2, <2>3, <2>4 DEF DiskIInv
<1>2. CASE Disk!Interrupt
  BY <1>2, DiskEnd DEF Disk!Interrupt, Disk!Done, Disk!world, Disk!setup, Disk!walk, Disk!budgets, Disk!found,
    Disk!history
<1> QED BY <1>1, <1>2, DiskTreeChanges, DiskValidateTarget, DiskReadMounts, DiskListTarget, DiskReadCapacity,
  DiskSelectBranches, DiskNextBranch, DiskEndBranch, DiskVisit, DiskPeek, DiskListDirectory, DiskReport
  DEF Disk!Next, Disk!ToolStep

THEOREM DiskInvariance == Spec => [](tool = "diskhound" => DiskIInv)
<1>1. Disk!DiskScanAssumption
  BY ObserversAssumption
<1>2. Init => (tool = "diskhound" => DiskIInv)
  BY <1>1, StartOfOneTool, DiskInit
<1>3. (tool = "diskhound" => DiskIInv) /\ [Next]_vars => (tool = "diskhound" => DiskIInv)'
  BY <1>1, StepsOfOneTool, DiskStep
<1> QED BY <1>2, <1>3, PTL DEF Spec

\* The entries of a tree that are in scope, with all directories above them.
DiskWholeScope ==
  {q \in Paths : tree[q] # 0 /\ \A r \in Disk!OnPath(q) : Disk!InScope([path |-> r, inode |-> tree[r]])}

\* After a report without reservations of a tree that did not change, every
\* entry in scope is counted: one that is not has a shortest path, and what is
\* above that was counted, hence listed.
LEMMA DiskAllCounted ==
  ASSUME Disk!DiskScanAssumption, DiskIInv, exit = Disk!ExitOK, changes = 0, NEW q \in DiskWholeScope
  PROVE  tree[q] \in global
<1> DEFINE Missed == {p \in DiskWholeScope : tree[p] \notin global}
           K == {Len(p) : p \in Missed}
<1>1. \A p \in Paths : p \in Seq(Nat) /\ Len(p) \in Nat
  BY DEF Disk!DiskScanAssumption
<1>2. SUFFICES ASSUME Missed # {} PROVE FALSE
  OBVIOUS
<1>3. K \in SUBSET Nat /\ K # {}
  BY <1>1, <1>2, Zenon DEF DiskWholeScope
<1>4. PICK p \in Missed : \A k \in K : Len(p) <= k
  <2> HIDE DEF Missed
  <2>1. PICK m \in K : \A k \in K : m <= k
    <3> HIDE DEF K
    <3> QED BY <1>3, LeastOfNat
  <2> QED BY <2>1
<1>5. p \in Paths /\ tree[p] # 0 /\ tree[p] \notin global
      /\ \A r \in Disk!OnPath(p) : Disk!InScope([path |-> r, inode |-> tree[r]])
  BY <1>4 DEF DiskWholeScope
<1>6. tree \in Trees /\ target = tree[<< >>] /\ target \in global /\ global \intersect Dirs \subseteq listed
      /\ \A e \in present : Disk!InScope(e) => e.inode \in global
  BY DEF DiskIInv, DiskSaw, DiskReported
<1>7. p # << >>
  BY <1>5, <1>6
<1> DEFINE f == Disk!Front(p)
<1>8. f \in Paths /\ tree[f] \in Dirs
  BY <1>5, <1>6, <1>7 DEF Disk!DiskScanAssumption
<1>9. Len(f) < Len(p)
  <2>1. Len(f) = Len(p) - 1 /\ Len(p) \in Nat
    BY <1>1, <1>5, <1>7, DiskPrefix
  <2> HIDE DEF f
  <2> QED BY <2>1
<1>10. Disk!OnPath(p) = Disk!OnPath(f) \union {p}
  BY <1>5, <1>7, DiskOnPath
<1>11. f \in DiskWholeScope
  <2>1. tree[f] # 0
    BY <1>8 DEF Disk!DiskScanAssumption
  <2> QED BY <1>5, <1>8, <1>10, <2>1 DEF DiskWholeScope
<1>12. tree[f] \in global
  <2>1. CASE f \in Missed
    <3>1. Len(f) \in K
      BY <2>1
    <3>2. Len(p) <= Len(f) /\ Len(p) \in Nat /\ Len(f) \in Nat
      BY <1>1, <1>4, <1>5, <1>8, <3>1
    <3> HIDE DEF f
    <3> QED BY <1>9, <3>2
  <2>2. CASE f \notin Missed
    BY <1>11, <2>2
  <2> QED BY <2>1, <2>2
<1>13. tree[f] \in listed
  BY <1>6, <1>8, <1>12
<1>14. [path |-> p, inode |-> tree[p]] \in present
  BY <1>5, <1>7, <1>13 DEF DiskIInv, DiskSaw
<1>15. Disk!InScope([path |-> p, inode |-> tree[p]])
  BY <1>5, <1>10
<1> QED BY <1>5, <1>6, <1>14, <1>15

\* What was counted was in scope, with all that is above it.
LEMMA DiskCountedInScope ==
  ASSUME Disk!DiskScanAssumption, DiskIInv, exit = Disk!ExitOK, changes = 0, NEW i \in global
  PROVE  \E q \in DiskWholeScope : tree[q] = i
<1>1. CASE i = target
  <2>1. target # 0 /\ target = tree[<< >>] /\ << >> \in Paths /\ Disk!OnPath(<< >>) = {}
    BY DiskOnPath DEF DiskIInv, DiskReported, Disk!DiskScanAssumption
  <2> QED BY <1>1, <2>1 DEF DiskWholeScope
<1>2. CASE i # target
  <2>1. PICK e \in present : e.inode = i /\ Disk!InScope(e) /\ DiskClear(e.path)
    BY <1>2 DEF DiskIInv, DiskCounts
  <2>2. e.path \in Paths \ {<< >>} /\ e.inode = tree[e.path] /\ e.inode # 0
    BY DEF DiskIInv, DiskTypeOK, DiskEntrySet, DiskSaw
  <2>3. ASSUME NEW r \in Disk!OnPath(e.path) PROVE Disk!InScope([path |-> r, inode |-> tree[r]])
    <3>1. Disk!OnPath(r) \subseteq Disk!OnPath(e.path)
      BY <2>2, DiskOnPath
    <3>2. Disk!OnPath(r) \intersect scanOptions.excludes = {}
      BY <2>1, <3>1 DEF DiskClear
    <3>3. scanOptions.cross \/ (tree[r] \notin Foreign /\ r \notin mounts)
      BY <2>1, Zenon DEF DiskClear
    <3> QED BY <3>2, <3>3 DEF Disk!InScope
  <2>4. e.path \in DiskWholeScope
    BY <2>2, <2>3 DEF DiskWholeScope
  <2> QED BY <2>1, <2>2, <2>4
<1> QED BY <1>1, <1>2

\* For any tree, options and changes, a report without a reservation counts each
\* inode once that the listed directories had in scope, and in a tree that did
\* not change every inode in scope.  What is at a remote mount point of the table
\* that was read first is not in scope, even if the mount has gone since
\* (diskhound.py:431-438).
THEOREM TotalIsExact == Spec => []CompleteIsExact
<1>1. ASSUME Disk!DiskScanAssumption, DiskIInv PROVE Disk!CompleteIsExact
  <2> SUFFICES ASSUME exit = Disk!ExitOK
               PROVE  /\ unique = Disk!Cardinality({target} \union {e.inode : e \in {x \in present : Disk!InScope(x)}})
                      /\ changes = 0 => unique = Disk!Cardinality({tree[p] : p \in DiskWholeScope})
    BY Zenon DEF Disk!CompleteIsExact, DiskWholeScope
  <2>1. /\ target \in global /\ failures = {}
        /\ \A e \in present : Disk!InScope(e) => e.inode \in global
    BY <1>1 DEF DiskIInv, DiskReported, Disk!Incomplete
  <2>2. unique = Cardinality(global)
    BY <1>1, <2>1 DEF DiskIInv, DiskCounts
  <2>3. {target} \union {e.inode : e \in {x \in present : Disk!InScope(x)}} = global
    <3>1. ASSUME NEW i \in global \ {target} PROVE \E e \in present : e.inode = i /\ Disk!InScope(e)
      BY <1>1 DEF DiskIInv, DiskCounts
    <3> QED BY <2>1, <3>1
  <2>4. ASSUME changes = 0 PROVE {tree[p] : p \in DiskWholeScope} = global
    <3>1. \A q \in DiskWholeScope : tree[q] \in global
      BY <1>1, <2>4, DiskAllCounted
    <3>2. \A i \in global : \E q \in DiskWholeScope : tree[q] = i
      BY <1>1, <2>4, DiskCountedInScope
    <3> QED BY <3>1, <3>2
  <2>5. Disk!Cardinality(global) = Cardinality(global)
    BY DEF Disk!Cardinality, Cardinality
  <2> QED BY <2>2, <2>3, <2>4, <2>5, Zenon
<1>2. Disk!DiskScanAssumption
  BY ObserversAssumption
<1>3. (tool = "diskhound" => DiskIInv) => CompleteIsExact
  BY <1>1, <1>2 DEF CompleteIsExact
<1> QED BY <1>3, DiskInvariance, PTL

-------------------------------------------------------------------------------
(* ObserverContract: what a tool's exit code says, by the facts g (there   *)
(* is a gap) and u (the evidence is useful).                               *)

Says(g, u) ==
  \/ exit = -1 /\ exit' \in {-1, 3, 130}
  \/ /\ g' <=> g
     /\ u' <=> u
     /\ \/ exit' = exit
        \/ exit = -1 /\ exit' = 0 /\ ~g /\ u
        \/ exit = -1 /\ exit' = 1 /\ u
        \/ exit = -1 /\ exit' = 2 /\ ~u

LEMMA ProcSays ==
  ASSUME Proc!SamplingAssumption, ProcIInv, Proc!Next \/ UNCHANGED Proc!vars
  PROVE  Says(Proc!Gap, Proc!Useful)
<1>1. CASE UNCHANGED <<samples, exit>>
  BY <1>1 DEF Says, Proc!Gap, Proc!Useful
<1>2. CASE exit = -1 /\ exit' \in {-1, 3, 130}
  BY <1>2 DEF Says
<1>3. CASE exit = -1 /\ exit' = 2 /\ samples = << >> /\ UNCHANGED samples
  BY <1>3 DEF Says, Proc!Gap, Proc!Useful
<1>4. CASE Proc!Report
  <2>1. /\ pc = "report" /\ UNCHANGED <<samples, stopped>> /\ exit = -1
        /\ exit' \in {IF Proc!Incomplete THEN 1 ELSE 0, 3}
    BY <1>4 DEF Proc!Report, Proc!Done, Proc!ExitFinding, Proc!ExitOK, Proc!ExitFailure, ProcIInv, ProcTypeOK
  <2>2. samples # << >>
    BY <2>1 DEF ProcIInv, ProcComplete, ProcBefore
  <2>3. ~Proc!Incomplete => ~Proc!Gap
    <3>1. ~stopped => Len(samples) = Requested /\ \A i \in DOMAIN samples : ~samples[i].exited
      BY <2>1 DEF ProcIInv, ProcComplete, ProcBefore, ProcAfter
    <3>2. Requested \in Nat
      BY DEF Proc!SamplingAssumption
    <3> QED BY <3>1, <3>2 DEF Proc!Incomplete, Proc!Gap
  <2> QED BY <2>1, <2>2, <2>3 DEF Says, Proc!Gap, Proc!Useful
<1>5. CASE Proc!OpenSampling \/ Proc!FirstSample
  <2>1. pc \in {"open", "first"} /\ samples = << >> /\ exit = -1
    BY <1>5 DEF Proc!OpenSampling, Proc!FirstSample, ProcIInv, ProcComplete, ProcTypeOK, ProcBefore
  <2>2. exit' \in {-1, 3} \/ (exit' = 2 /\ UNCHANGED samples)
    BY <1>5, <2>1 DEF Proc!OpenSampling, Proc!FirstSample, Proc!Done, Proc!ExitUsage, Proc!ExitFailure
  <2> QED BY <1>2, <1>3, <2>1, <2>2
<1>6. CASE Proc!ProcessStep \/ UNCHANGED Proc!vars
  BY <1>1, <1>6 DEF Proc!ProcessStep, Proc!vars
<1>7. CASE Proc!Interrupt
  BY <1>2, <1>7 DEF Proc!Interrupt, Proc!Done, Proc!ExitInterrupted, ProcIInv, ProcTypeOK
<1>8. CASE \/ Proc!OpenInitial \/ Proc!IdentifyInitial \/ Proc!CollectInitial \/ Proc!CheckInitial
           \/ Proc!Sleep \/ Proc!TakeSample \/ Proc!Correlate \/ Proc!OpenFinal \/ Proc!CollectFinal
           \/ Proc!CheckFinal
  <2>1. exit' = exit /\ pc # "done"
    BY <1>8 DEF Proc!OpenInitial, Proc!IdentifyInitial, Proc!CollectInitial, Proc!CheckInitial, Proc!Sleep,
      Proc!TakeSample, Proc!Correlate, Proc!OpenFinal, Proc!CollectFinal, Proc!CheckFinal
  <2> QED BY <1>2, <2>1 DEF ProcIInv, ProcTypeOK
<1> QED BY <1>4, <1>5, <1>6, <1>7, <1>8 DEF Proc!Next, Proc!ToolStep

LEMMA SnapSays ==
  ASSUME SnapIInv, Snap!Next \/ UNCHANGED Snap!vars
  PROVE  Says(Snap!Gap, Snap!Useful)
<1>1. CASE UNCHANGED Snap!vars
  BY <1>1 DEF Says, Snap!Gap, Snap!Useful, Snap!vars
<1>2. CASE exit = -1 /\ exit' \in {-1, 3, 130}
  BY <1>2 DEF Says
<1>3. CASE Snap!Report
  <2>1. /\ pc = "section" /\ pc' = "done" /\ todo = << >> /\ UNCHANGED <<profile, status, missed>> /\ exit = -1
        /\ exit' \in {IF Snap!Complete THEN 0 ELSE 1, 3}
    BY <1>3 DEF Snap!Report, Snap!Done, Snap!ExitFinding, Snap!ExitOK, Snap!ExitFailure, SnapIInv, SnapTypeOK
  <2>2. Snap!Complete => ~Snap!Gap
    <3> DEFINE S == Snap!Sections(profile)
    <3>1. SnapClosed(S, << >>, status) /\ missed = SnapMissing(status)
      BY <2>1 DEF SnapIInv, SnapProgress
    <3>2. S \in Seq(SnapNames)
      BY SnapSections DEF SnapIInv, SnapTypeOK
    <3>3. Snap!Complete => missed = {}
      BY <3>1 DEF Snap!Complete, SnapMissing
    <3> HIDE DEF S
    <3>4. Len(<< >>) = 0 /\ Len(S) \in Nat /\ Len(S) - 0 = Len(S)
      BY <3>2
    <3>5. {x[1] : x \in status} = {S[i] : i \in 1..Len(S)}
      BY <3>1, <3>4, Zenon DEF SnapClosed
    <3>6. Snap!Range(S) = {S[i] : i \in 1..Len(S)}
      BY <3>2 DEF Snap!Range
    <3>7. {s[1] : s \in status} = Snap!Range(S)
      BY <3>5, <3>6, Zenon
    <3> QED BY <3>3, <3>7, Zenon DEF Snap!Gap, S
  <2>3. (Snap!Gap)' <=> Snap!Gap
    BY <2>1 DEF Snap!Gap
  <2> QED BY <2>1, <2>2, <2>3 DEF Says, Snap!Useful
<1>4. CASE Snap!Interrupt
  BY <1>2, <1>4 DEF Snap!Interrupt, Snap!Done, Snap!ExitInterrupted, SnapIInv, SnapTypeOK
<1>5. CASE Snap!CollectMandatory \/ Snap!SectionFails
  BY <1>2, <1>5 DEF Snap!CollectMandatory, Snap!SectionFails, Snap!Done, Snap!ExitFailure, SnapIInv, SnapTypeOK
<1>6. CASE \/ Snap!Goes \/ Snap!CollectSource \/ Snap!ListInterfaces \/ Snap!ListTables \/ Snap!ListProcesses
           \/ Snap!OpenInterface \/ Snap!InterfaceNotOpened \/ Snap!ReadInterface \/ Snap!ReadTable
           \/ Snap!ReadProcess \/ Snap!EndSection
  <2>1. exit' = exit /\ pc # "done"
    BY <1>6 DEF Snap!Goes, Snap!CollectSource, Snap!ListInterfaces, Snap!ListTables, Snap!ListProcesses,
      Snap!BeginItems, Snap!OpenInterface, Snap!InterfaceNotOpened, Snap!ReadInterface, Snap!ReadTable,
      Snap!ReadProcess, Snap!Reading, Snap!EndSection
  <2> QED BY <1>2, <2>1 DEF SnapIInv, SnapTypeOK
<1> QED BY <1>1, <1>3, <1>4, <1>5, <1>6 DEF Snap!Next, Snap!ToolStep

LEMMA DiskSays ==
  ASSUME Disk!DiskScanAssumption, DiskIInv, DiskIInv', Disk!Next \/ UNCHANGED Disk!vars
  PROVE  Says(Disk!Gap, Disk!Useful)
<1>1. CASE UNCHANGED Disk!vars
  BY <1>1 DEF Says, Disk!Gap, Disk!Useful, Disk!InScope, Disk!OnPath, Disk!vars, Disk!setup, Disk!found, Disk!history
<1>2. CASE exit = -1 /\ exit' \in {-1, 3, 130}
  BY <1>2 DEF Says
<1>3. CASE Disk!Report
  <2>1. /\ pc = "report" /\ UNCHANGED <<scanOptions, mounts, capacity, target, global, present, listed, failures>> /\ exit = -1
        /\ exit' \in {0, 1, 3}
    BY <1>3 DEF Disk!Report, Disk!Done, Disk!ExitFinding, Disk!ExitOK, Disk!ExitFailure, Disk!setup, Disk!found,
      Disk!history, DiskIInv, DiskPlaces
  <2>2. Disk!Useful
    BY <2>1 DEF DiskIInv, DiskPlaces, DiskScanning, Disk!Useful
  <2>3. ((Disk!Gap)' <=> Disk!Gap) /\ ((Disk!Useful)' <=> Disk!Useful)
    BY <2>1 DEF Disk!Gap, Disk!Useful, Disk!InScope, Disk!OnPath
  <2>4. exit' = 0 => ~Disk!Gap
    <3> SUFFICES ASSUME exit' = 0 PROVE ~(Disk!Gap)'
      BY <2>3
    <3>1. DiskReported' /\ DiskCounts'
      BY DEF DiskIInv
    <3>2. /\ capacity' /\ failures' = {}
          /\ \A e \in present' : (Disk!InScope(e))' => e.inode \in global'
          /\ global' \intersect Dirs \subseteq listed'
      BY <3>1 DEF DiskReported, Disk!ExitOK, Disk!Incomplete
    <3>3. global' \intersect Unusable = {}
      BY <3>1, <3>2 DEF DiskCounts
    <3> QED BY <3>2, <3>3 DEF Disk!Gap
  <2> QED BY <2>1, <2>2, <2>3, <2>4 DEF Says
<1>4. CASE Disk!Interrupt
  BY <1>2, <1>4 DEF Disk!Interrupt, Disk!Done, Disk!ExitInterrupted, DiskIInv, DiskPlaces
<1>5. CASE Disk!ValidateTarget
  <2>1. exit = -1 /\ global = {} /\ exit' \in {-1, 2, 3}
        /\ UNCHANGED <<scanOptions, mounts, capacity, global, present, listed>>
    BY <1>5 DEF Disk!ValidateTarget, Disk!Done, Disk!ExitUsage, Disk!ExitFailure, Disk!found, Disk!history,
      DiskIInv, DiskPlaces, DiskStarting
  <2>2. ((Disk!Gap)' <=> Disk!Gap) /\ ~Disk!Useful /\ ~(Disk!Useful)'
    BY <2>1 DEF Disk!Gap, Disk!Useful, Disk!InScope, Disk!OnPath
  <2> QED BY <2>1, <2>2 DEF Says
<1>6. CASE Disk!ListTarget \/ Disk!ReadCapacity
  <2>1. exit' \in {exit, 3} /\ pc # "done"
    BY <1>6, Zenon DEF Disk!ListTarget, Disk!ReadCapacity, Disk!Done, Disk!ExitFailure
  <2> QED BY <1>2, <2>1 DEF DiskIInv, DiskPlaces
<1>7. CASE \/ Disk!TreeChanges \/ Disk!ReadMounts \/ Disk!SelectBranches \/ Disk!NextBranch \/ Disk!EndBranch
           \/ Disk!Visit \/ Disk!Peek \/ Disk!ListDirectory
  <2>1. exit' = exit /\ pc # "done"
    BY <1>7 DEF Disk!TreeChanges, Disk!ReadMounts, Disk!SelectBranches, Disk!NextBranch, Disk!EndBranch,
      Disk!Visit, Disk!Peek, Disk!ListDirectory
  <2> QED BY <1>2, <2>1 DEF DiskIInv, DiskPlaces
<1> QED BY <1>1, <1>3, <1>4, <1>5, <1>6, <1>7 DEF Disk!Next, Disk!ToolStep

\* What was asked for is opened and read in its order, unless it is given up.
LogAsked ==
  /\ \A i \in DOMAIN sources : sources[i].file \in Log!Files
  /\ \A i \in DOMAIN results : results[i].file \in Log!Files
  /\ pc \in {"read", "report"} =>
       IF index = 1 THEN pc = "read" /\ results = << >>
       ELSE results # << >> /\ results[1].file = sources[1].file
  /\ unavailable = {} =>
       /\ pc = "open" => Len(sources) = index
       /\ pc = "read" => Len(sources) = Rotated + 1 /\ Len(results) = index - 1
       /\ pc = "report" => Len(results) = Rotated + 1

\* What the steps that append to a sequence do to it.
LEMMA LogAppend ==
  ASSUME NEW S, NEW s \in Seq(S), NEW x \in S
  PROVE  /\ Len(Append(s, x)) = Len(s) + 1 /\ Len(s) \in Nat
         /\ Append(s, x) # << >>
         /\ s # << >> => Append(s, x)[1] = s[1]
         /\ s = << >> => Append(s, x)[1] = x
         /\ \A i \in DOMAIN Append(s, x) : (i \in DOMAIN s /\ Append(s, x)[i] = s[i]) \/ Append(s, x)[i] = x
OBVIOUS

LEMMA LogAskedStep ==
  ASSUME Log!LogSourcesAssumption, LogIInv, LogIInv', LogAsked, Log!Next \/ UNCHANGED Log!vars
  PROVE  LogAsked'
<1>1. Rotated \in Nat /\ index \in Nat /\ sources \in Seq(LogSourceSet) /\ results \in Seq(LogResultSet)
  BY DEF LogIInv, LogTypeOK, Log!LogSourcesAssumption
<1>2. CASE pc' \in {pc, "done"} /\ UNCHANGED <<index, sources, unavailable, results>>
  BY <1>2 DEF LogAsked
<1>3. CASE Log!OpenFails /\ index # 0
  <2>1. /\ pc = "open" /\ results = << >> /\ unavailable' # {} /\ UNCHANGED <<sources, results>>
        /\ pc' = "read" => index' = 1
        /\ pc' \in {"open", "read"}
    BY <1>3, Zenon DEF Log!OpenFails, Log!GiveUpName, Log!NextName, LogIInv, LogOpening
  <2> QED BY <2>1 DEF LogAsked
<1>4. CASE Log!OpenSource
  <2> DEFINE source == [file |-> names[index], boundary |-> size[names[index]]]
  <2>1. /\ pc = "open" /\ results = << >> /\ index \in 0..Rotated /\ UNCHANGED results
        /\ IF index = Rotated THEN index' = 1 /\ pc' = "read" ELSE index' = index + 1 /\ pc' = "open"
        /\ \/ sources' = sources /\ unavailable' # {}
           \/ sources' = Append(sources, source) /\ unavailable' = unavailable
    BY <1>4, Zenon DEF Log!OpenSource, Log!NextName, LogIInv, LogOpening
  <2>2. names[index] \in Log!Files /\ source \in LogSourceSet
    <3>1. LogNames(names, newest, moving) /\ size \in [Log!Files -> 0..2] /\ names[index] # 0
      BY <1>4 DEF Log!OpenSource, LogIInv, LogOpening, LogTypeOK
    <3>2. names[index] \in Log!Files /\ names[index] \in Nat
      BY <1>1, <2>1, <3>1 DEF LogNames, Log!Names, Log!Files, Log!Oldest, Log!LogSourcesAssumption
    <3> QED BY <3>1, <3>2 DEF LogSourceSet
  <2>3. source.file \in Log!Files
    BY <2>2
  <2> HIDE DEF source
  <2>4. \A i \in DOMAIN sources' : sources'[i].file \in Log!Files
    BY <1>1, <2>1, <2>2, <2>3, LogAppend DEF LogAsked
  <2>5. unavailable' = {} =>
          /\ pc' = "open" => Len(sources') = index'
          /\ pc' = "read" => Len(sources') = Rotated + 1 /\ Len(results') = index' - 1
    <3> SUFFICES ASSUME unavailable' = {}
                 PROVE  /\ pc' = "open" => Len(sources') = index'
                        /\ pc' = "read" => Len(sources') = Rotated + 1 /\ Len(results') = index' - 1
      OBVIOUS
    <3>1. unavailable = {} /\ sources' = Append(sources, source)
      BY <2>1
    <3>2. Len(sources') = index + 1
      BY <1>1, <2>1, <2>2, <3>1, LogAppend DEF LogAsked
    <3>3. Len(<< >>) = 1 - 1
      OBVIOUS
    <3> QED BY <1>1, <2>1, <3>2, <3>3
  <2> QED BY <2>1, <2>4, <2>5 DEF LogAsked
<1>5. CASE Log!ReadFails /\ index # 1
  <2>1. /\ pc = "read" /\ unavailable' # {} /\ UNCHANGED <<sources, results>> /\ index' = index + 1
        /\ pc' \in {"read", "report"}
    BY <1>5, Zenon DEF Log!ReadFails, Log!GiveUpSource, Log!NextSource
  <2>2. index + 1 # 1
    BY <1>1, <2>1 DEF LogIInv, LogReading
  <2> QED BY <1>5, <2>1, <2>2 DEF LogAsked
<1>6. CASE Log!ReadSource
  <2>1. /\ pc = "read" /\ UNCHANGED <<sources, unavailable>> /\ index' = index + 1
        /\ pc' = IF index = Len(sources) THEN "report" ELSE "read"
    BY <1>6 DEF Log!ReadSource, Log!NextSource
  <2>2. index \in 1..Len(sources) /\ Len(sources) \in Nat /\ sources[index] \in LogSourceSet
    BY <1>1, <2>1 DEF LogIInv, LogReading
  <2>3. PICK result : results' = Append(results, result) /\ result \in LogResultSet
                      /\ result.file = sources[index].file
    <3>1. PICK consumed \in 0..sources[index].boundary, limit \in BOOLEAN, minutes \in SUBSET Log!Minutes :
            results' = Append(results, [file |-> sources[index].file,
              lost |-> consumed < sources[index].boundary, limited |-> limit, minutes |-> minutes])
      BY <1>6, Zenon DEF Log!ReadSource
    <3>2. (consumed < sources[index].boundary) \in BOOLEAN /\ sources[index].file \in Nat
      BY <2>2 DEF LogSourceSet
    <3> DEFINE result == [file |-> sources[index].file, lost |-> consumed < sources[index].boundary,
                          limited |-> limit, minutes |-> minutes]
    <3>3. result \in LogResultSet /\ result.file = sources[index].file
      BY <3>2 DEF LogResultSet
    <3> QED BY <3>1, <3>3
  <2>4. \A i \in DOMAIN results' : results'[i].file \in Log!Files
    <3>1. sources[index].file \in Log!Files
      BY <1>1, <2>2 DEF LogAsked
    <3> QED BY <1>1, <2>3, <3>1, LogAppend DEF LogAsked
  <2>5. results' # << >> /\ results'[1].file = sources[1].file
    <3>1. CASE index = 1
      BY <1>1, <2>1, <2>3, <3>1, LogAppend DEF LogAsked
    <3>2. CASE index # 1
      BY <1>1, <2>1, <2>3, <3>2, LogAppend DEF LogAsked
    <3> QED BY <3>1, <3>2
  <2>6. unavailable = {} => Len(sources) = Rotated + 1 /\ Len(results') = index
    BY <1>1, <2>1, <2>2, <2>3, LogAppend DEF LogAsked
  <2>7. index + 1 # 1 /\ (index + 1) - 1 = index
    BY <1>1, <2>2
  <2> QED BY <2>1, <2>4, <2>5, <2>6, <2>7 DEF LogAsked
<1>7. CASE \/ Log!Rotation \/ Log!SizeChanges \/ Log!Report \/ Log!Interrupt \/ UNCHANGED Log!vars
           \/ (Log!OpenFails /\ index = 0) \/ (Log!ReadFails /\ index = 1)
  BY <1>2, <1>7 DEF Log!Rotation, Log!SizeChanges, Log!Report, Log!Interrupt, Log!vars, Log!Done,
    Log!OpenFails, Log!GiveUpName, Log!ReadFails, Log!GiveUpSource
<1> QED BY <1>3, <1>4, <1>5, <1>6, <1>7 DEF Log!Next, Log!ToolStep

THEOREM LogReadsWhatWasAsked == Spec => [](tool = "loghound" => LogAsked)
<1>1. Log!LogSourcesAssumption
  BY ObserversAssumption
<1>2. Init => (tool = "loghound" => LogAsked)
  BY <1>1, StartOfOneTool DEF Log!Init, LogAsked
<1>3. /\ tool = "loghound" => LogIInv
      /\ (tool = "loghound" => LogIInv)'
      /\ tool = "loghound" => LogAsked
      /\ [Next]_vars
      => (tool = "loghound" => LogAsked)'
  BY <1>1, StepsOfOneTool, LogAskedStep
<1> QED BY <1>2, <1>3, LogInvariance, PTL DEF Spec

\* When nothing was given up or lost, as many files as were asked for are whole.
LEMMA LogWhole ==
  ASSUME Log!LogSourcesAssumption, LogIInv, LogAsked, pc = "report", ~Log!Warned
  PROVE  ~Log!Gap
<1> DEFINE n == Rotated + 1
           W == {f \in Log!Files : Log!ReadWhole(f)}
           b == [i \in 1..n |-> results[i].file]
<1>1. /\ n \in Nat /\ results \in Seq(LogResultSet) /\ Len(results) = n /\ DOMAIN results = 1..n
      /\ \A i, j \in 1..n : results[i].file = results[j].file => i = j
      /\ \A i \in 1..n : results[i].file \in Log!Files /\ ~results[i].lost /\ ~results[i].limited
  <2>1. unavailable = {} /\ \A i \in DOMAIN results : ~results[i].lost /\ ~results[i].limited
    BY DEF Log!Warned
  <2>2. n \in Nat /\ results \in Seq(LogResultSet) /\ Len(results) = n
    BY <2>1 DEF LogAsked, LogIInv, LogTypeOK, Log!LogSourcesAssumption
  <2>3. DOMAIN results = 1..n
    BY <2>2
  <2> QED BY <2>1, <2>2, <2>3 DEF LogAsked, LogIInv, LogDistinct
<1> HIDE DEF n
<1>2. b \in Bijection(1..n, W)
  <2>1. \A i \in 1..n : results[i].file \in W
    BY <1>1 DEF Log!ReadWhole
  <2>2. \A f \in W : \E i \in 1..n : results[i].file = f
    BY <1>1 DEF Log!ReadWhole
  <2> HIDE DEF W
  <2>3. b \in Injection(1..n, W)
    BY <1>1, <2>1, Fun_IsInj
  <2>4. b \in Surjection(1..n, W)
    BY <2>1, <2>2, Fun_IsSurj, Zenon
  <2> QED BY <2>3, <2>4 DEF Bijection
<1>3. Cardinality(W) = n
  <2>1. ExistsBijection(1..n, W)
    BY <1>2 DEF ExistsBijection
  <2> HIDE DEF W
  <2> QED BY <1>1, <2>1, FS_CountingElements
<1>4. Log!Cardinality(W) = n
  BY <1>3 DEF Log!Cardinality, Cardinality
<1>5. ~(n < n)
  BY <1>1
<1>6. ~Log!HistogramFull
  BY DEF Log!Warned
<1> QED BY <1>4, <1>5, <1>6 DEF Log!Gap, n

LEMMA LogSays ==
  ASSUME Log!LogSourcesAssumption, LogIInv, LogAsked, Log!Next \/ UNCHANGED Log!vars
  PROVE  Says(Log!Gap, Log!Useful)
<1>1. CASE UNCHANGED Log!vars
  BY <1>1 DEF Says, Log!Gap, Log!Useful, Log!ReadWhole, Log!HistogramFull, Log!AllMinutes, Log!vars
<1>2. CASE exit = -1 /\ exit' \in {-1, 3, 130}
  BY <1>2 DEF Says
<1>3. CASE exit = -1 /\ exit' = 2 /\ results = << >> /\ UNCHANGED <<sources, results>>
  BY <1>3 DEF Says, Log!Gap, Log!Useful, Log!ReadWhole, Log!HistogramFull, Log!AllMinutes
<1>4. CASE Log!Report
  <2>1. /\ pc = "report" /\ UNCHANGED <<sources, results>> /\ exit = -1
        /\ exit' \in {IF Log!Warned THEN 1 ELSE 0, 3}
    BY <1>4 DEF Log!Report, Log!Done, Log!ExitFinding, Log!ExitOK, Log!ExitFailure, LogIInv, LogTypeOK
  <2>2. Log!Useful
    BY <2>1 DEF LogAsked, Log!Useful
  <2>3. ~Log!Warned => ~Log!Gap
    BY <2>1, LogWhole
  <2>4. ((Log!Gap)' <=> Log!Gap) /\ ((Log!Useful)' <=> Log!Useful)
    BY <2>1 DEF Log!Gap, Log!Useful, Log!ReadWhole, Log!HistogramFull, Log!AllMinutes
  <2> QED BY <2>1, <2>2, <2>3, <2>4 DEF Says
<1>5. CASE Log!OpenFails \/ Log!ReadFails
  <2>1. pc \in {"open", "read"} /\ exit = -1 /\ UNCHANGED <<sources, results>>
    BY <1>5 DEF Log!OpenFails, Log!ReadFails, LogIInv, LogTypeOK
  <2>2. exit' = -1 \/ (exit' \in {2, 3} /\ results = << >>)
    BY <1>5, <2>1 DEF Log!OpenFails, Log!ReadFails, Log!GiveUpName, Log!GiveUpSource, Log!Done, Log!ExitUsage,
      Log!ExitFailure, LogIInv, LogOpening, LogAsked
  <2> QED BY <1>2, <1>3, <2>1, <2>2
<1>6. CASE Log!Interrupt
  BY <1>2, <1>6 DEF Log!Interrupt, Log!Done, Log!ExitInterrupted, LogIInv, LogTypeOK
<1>7. CASE Log!Rotation \/ Log!SizeChanges \/ Log!OpenSource \/ Log!ReadSource
  <2>1. exit' = exit /\ pc # "done"
    BY <1>7 DEF Log!Rotation, Log!SizeChanges, Log!OpenSource, Log!ReadSource
  <2> QED BY <1>2, <2>1 DEF LogIInv, LogTypeOK
<1> QED BY <1>1, <1>4, <1>5, <1>6, <1>7 DEF Log!Next, Log!ToolStep

\* A step that says so is one of the contract.
LEMMA SaysInContract ==
  ASSUME Says(~Complete, Useful) \/ UNCHANGED <<Complete, Useful, exit>>
  PROVE  [Contract!Next]_Contract!vars
<1>1. Complete \in BOOLEAN /\ Useful \in BOOLEAN /\ Complete' \in BOOLEAN /\ Useful' \in BOOLEAN
  BY Zenon DEF Complete, Useful
<1>2. CASE UNCHANGED <<Complete, Useful, exit>>
  BY <1>2, Zenon DEF Contract!vars
<1>3. CASE exit = -1 /\ exit' \in {-1, 3, 130}
  <2>1. CASE exit' = -1
    BY <1>1, <1>3, <2>1, Zenon DEF Contract!Next, Contract!Observe
  <2>2. CASE exit' \in {3, 130}
    BY <1>1, <1>3, <2>2, Zenon DEF Contract!Next, Contract!GiveUp, Contract!ExitFailure, Contract!ExitInterrupted
  <2> QED BY <1>3, <2>1, <2>2
<1>4. CASE /\ (~Complete)' <=> ~Complete
           /\ Useful' <=> Useful
           /\ \/ exit' = exit
              \/ exit = -1 /\ exit' = 0 /\ ~~Complete /\ Useful
              \/ exit = -1 /\ exit' = 1 /\ Useful
              \/ exit = -1 /\ exit' = 2 /\ ~Useful
  <2>1. Complete' = Complete /\ Useful' = Useful
    BY <1>1, <1>4, Zenon
  <2>2. CASE exit' = exit
    BY <1>2, <2>1, <2>2, Zenon
  <2>3. CASE \/ exit = -1 /\ exit' = 0 /\ Complete /\ Useful
             \/ exit = -1 /\ exit' = 1 /\ Useful
             \/ exit = -1 /\ exit' = 2 /\ ~Useful
    BY <2>1, <2>3, Zenon DEF Contract!Next, Contract!Conclude, Contract!ExitOK, Contract!ExitFinding,
      Contract!ExitUsage
  <2> QED BY <1>4, <2>2, <2>3, Zenon
<1> QED BY <1>2, <1>3, <1>4, Zenon DEF Says

\* The invariants of the tools, each while its tool runs.
ObserversIInv ==
  /\ tool = "procwatch" => ProcIInv
  /\ tool = "loghound" => LogIInv
  /\ tool = "loghound" => LogAsked
  /\ tool = "diskhound" => DiskIInv
  /\ tool = "incident-snapshot" => SnapIInv

LEMMA StepSays ==
  ASSUME ObserversIInv, ObserversIInv', [Next]_vars
  PROVE  [Contract!Next]_Contract!vars
<1>1. CASE tool = "procwatch"
  <2>1. tool' = tool /\ Says(Proc!Gap, Proc!Useful)
    BY <1>1, ObserversAssumption, StepsOfOneTool, ProcSays DEF ObserversIInv
  <2>2. /\ Complete <=> ~Proc!Gap
        /\ Useful <=> Proc!Useful
        /\ (Complete <=> ~Proc!Gap)'
        /\ (Useful <=> Proc!Useful)'
    BY <1>1, <2>1 DEF Complete, Useful
  <2> QED BY <1>1, <2>1, <2>2, SaysInContract DEF Says
<1>2. CASE tool = "loghound"
  <2>1. tool' = tool /\ Says(Log!Gap, Log!Useful)
    BY <1>2, ObserversAssumption, StepsOfOneTool, LogSays DEF ObserversIInv
  <2>2. /\ Complete <=> ~Log!Gap
        /\ Useful <=> Log!Useful
        /\ (Complete <=> ~Log!Gap)'
        /\ (Useful <=> Log!Useful)'
    BY <1>2, <2>1 DEF Complete, Useful
  <2> QED BY <1>2, <2>1, <2>2, SaysInContract DEF Says
<1>3. CASE tool = "diskhound"
  <2>1. tool' = tool /\ Says(Disk!Gap, Disk!Useful)
    BY <1>3, ObserversAssumption, StepsOfOneTool, DiskSays DEF ObserversIInv
  <2>2. /\ Complete <=> ~Disk!Gap
        /\ Useful <=> Disk!Useful
        /\ (Complete <=> ~Disk!Gap)'
        /\ (Useful <=> Disk!Useful)'
    BY <1>3, <2>1 DEF Complete, Useful
  <2> QED BY <1>3, <2>1, <2>2, SaysInContract DEF Says
<1>4. CASE tool = "incident-snapshot"
  <2>1. tool' = tool /\ Says(Snap!Gap, Snap!Useful)
    BY <1>4, ObserversAssumption, StepsOfOneTool, SnapSays DEF ObserversIInv
  <2>2. /\ Complete <=> ~Snap!Gap
        /\ Useful <=> Snap!Useful
        /\ (Complete <=> ~Snap!Gap)'
        /\ (Useful <=> Snap!Useful)'
    BY <1>4, <2>1 DEF Complete, Useful
  <2> QED BY <1>4, <2>1, <2>2, SaysInContract DEF Says
<1>5. CASE tool \notin {"procwatch", "loghound", "diskhound", "incident-snapshot"}
  <2>1. tool' = tool /\ exit' = exit
    BY <1>5, StepsOfOneTool DEF Next, ProcWatch, LogHound, LogHoundLines, DiskHound, IncidentSnapshot, vars
  <2>2. ~Complete /\ ~Useful /\ ~Complete' /\ ~Useful'
    BY <1>5, <2>1 DEF Complete, Useful
  <2>3. UNCHANGED <<Complete, Useful, exit>>
    BY <2>1, <2>2 DEF Complete, Useful
  <2> QED BY <2>3, SaysInContract
<1> QED BY <1>1, <1>2, <1>3, <1>4, <1>5

\* Every one of the observation-only tools implements the contract: exit 0 is
\* given only if all that was asked for and was there was observed, exit 1 never
\* without useful evidence and exit 2 only without, and no code is ever changed
\* (common/status.py).
THEOREM ContractKept == Spec => ImplementsContract
<1>1. Init => Contract!Init
  <2> SUFFICES ASSUME Init PROVE Contract!Init
    OBVIOUS
  <2>1. exit = -1
    BY DEF Init, Proc!Init, Log!Init, Disk!Init, Snap!Init
  <2> QED BY <2>1 DEF Contract!Init, Complete, Useful
<1>2. ObserversIInv /\ ObserversIInv' /\ [Next]_vars => [Contract!Next]_Contract!vars
  BY StepSays
<1>3. Spec => []ObserversIInv
  BY ProcInvariance, LogInvariance, LogReadsWhatWasAsked, DiskInvariance, SnapInvariance, PTL DEF ObserversIInv
<1> QED BY <1>1, <1>2, <1>3, PTL DEF Spec, ImplementsContract, Contract!Spec

-------------------------------------------------------------------------------
(* LogHound's lines: induction over a text, which the least number of      *)
(* LeastOfNat makes possible without an operator as a parameter.           *)

\* Induction up to N: what holds of 0, and of n when it holds of n - 1.
LEMMA UpTo ==
  ASSUME NEW N \in Nat, NEW T, 0 \in T, \A n \in 1..N : n - 1 \in T => n \in T
  PROVE  \A n \in 0..N : n \in T
<1> DEFINE K == (0..N) \ T
<1> SUFFICES ASSUME K # {} PROVE FALSE
  OBVIOUS
<1>0. K \in SUBSET Nat
  OBVIOUS
<1> HIDE DEF K
<1>1. PICK n \in K : \A k \in K : n <= k
  BY <1>0, LeastOfNat
<1>2. n \in 1..N /\ n - 1 \in 0..N /\ n - 1 \in T
  BY <1>1 DEF K
<1> QED BY <1>1, <1>2 DEF K

\* f starts with b and goes from each value to the next.
StepsOver(S, N) == [(1..N) \X S -> S]
Follows(f, S, N, b, next) ==
  f \in [0..N -> S] /\ f[0] = b /\ \A n \in 1..N : f[n] = next[<<n, f[n - 1]>>]

\* A function over 0..N may be defined by its value at 0 and from each to the next.
LEMMA RecursionExists ==
  ASSUME NEW S, NEW b \in S, NEW N \in Nat, NEW next \in StepsOver(S, N)
  PROVE  \E f : Follows(f, S, N, b, next)
<1> USE DEF StepsOver
<1> DEFINE Is(f, n) == f \in [0..n -> S] /\ f[0] = b /\ \A m \in 1..n : f[m] = next[<<m, f[m - 1]>>]
           T == {n \in 0..N : \E f : Is(f, n)}
<1>1. 0 \in T
  <2> DEFINE f == [m \in 0..0 |-> b]
  <2>1. Is(f, 0)
    OBVIOUS
  <2> HIDE DEF f, Is
  <2> QED BY <2>1
<1>2. ASSUME NEW n \in 1..N, n - 1 \in T PROVE n \in T
  <2>1. PICK f : Is(f, n - 1)
    BY <1>2
  <2> DEFINE g == [m \in 0..n |-> IF m < n THEN f[m] ELSE next[<<n, f[n - 1]>>]]
  <2>2. n - 1 \in 0..(n - 1) /\ f[n - 1] \in S
    BY <2>1
  <2>3. next[<<n, f[n - 1]>>] \in S
    BY <2>2
  <2>4. g \in [0..n -> S] /\ g[0] = b
    BY <2>1, <2>3
  <2>5. (\A m \in 0..(n - 1) : g[m] = f[m]) /\ g[n] = next[<<n, f[n - 1]>>]
    OBVIOUS
  <2>6. ASSUME NEW m \in 1..n PROVE g[m] = next[<<m, g[m - 1]>>]
    <3>1. m - 1 \in 0..(n - 1) /\ (m = n \/ m \in 1..(n - 1))
      OBVIOUS
    <3> HIDE DEF g
    <3>2. CASE m = n
      BY <2>5, <3>1, <3>2
    <3>3. CASE m \in 1..(n - 1)
      BY <2>1, <2>5, <3>1, <3>3
    <3> QED BY <3>1, <3>2, <3>3
  <2>7. Is(g, n)
    BY <2>4, <2>6, Zenon
  <2> HIDE DEF g, Is
  <2> QED BY <2>7
<1>3. N \in T
  <2> HIDE DEF T
  <2> QED BY <1>1, <1>2, UpTo
<1> QED BY <1>3 DEF Follows

\* Two functions that start alike and go on alike are alike.
LEMMA SameSteps ==
  ASSUME NEW N \in Nat, NEW f, NEW g, f[0] = g[0], \A n \in 1..N : f[n - 1] = g[n - 1] => f[n] = g[n]
  PROVE  f[N] = g[N]
<1> DEFINE T == {n \in 0..N : f[n] = g[n]}
<1>1. 0 \in T /\ \A n \in 1..N : n - 1 \in T => n \in T
  OBVIOUS
<1>2. N \in T
  <2> HIDE DEF T
  <2> QED BY <1>1, UpTo
<1> QED BY <1>2

\* Dense goes through the bytes one by one.
LEMMA LinesDenseSteps ==
  ASSUME NEW s \in Seq(Lines!Bytes)
  PROVE  \E kept \in [0..Len(s) -> Seq(Lines!Bytes)] :
           /\ kept[0] = << >>
           /\ \A n \in 1..Len(s) :
                kept[n] = IF s[n] = Lines!NUL THEN kept[n - 1] ELSE Append(kept[n - 1], s[n])
           /\ Lines!Dense(s) = kept[Len(s)]
<1> DEFINE Step(n, k) == IF s[n] = Lines!NUL THEN k ELSE Append(k, s[n])
           Is(f) == f = [n \in 0..Len(s) |-> IF n = 0 THEN << >> ELSE IF s[n] = Lines!NUL THEN f[n - 1] ELSE Append(f[n - 1], s[n])]
           S == Seq(Lines!Bytes)
           next == [x \in (1..Len(s)) \X S |-> Step(x[1], x[2])]
           kept == CHOOSE f : Is(f)
<1>1. next \in [(1..Len(s)) \X S -> S]
  OBVIOUS
<1>2. << >> \in S /\ Len(s) \in Nat
  OBVIOUS
<1>3. \A n \in 1..Len(s), k \in S : next[<<n, k>>] = Step(n, k)
  OBVIOUS
<1> HIDE DEF next, S
<1>4. PICK f : Follows(f, S, Len(s), << >>, next)
  BY <1>1, <1>2, RecursionExists, Zenon DEF StepsOver
<1>5. ASSUME NEW n \in 1..Len(s) PROVE n - 1 \in 0..Len(s) /\ f[n] = Step(n, f[n - 1])
  <2>1. n - 1 \in 0..Len(s) /\ f[n - 1] \in S
    BY <1>2, <1>4 DEF Follows
  <2> QED BY <1>3, <1>4, <2>1 DEF Follows
<1>6. Is(f)
  BY <1>2, <1>4, <1>5 DEF Follows
<1>7. Is(kept)
  <2> HIDE DEF Is
  <2> QED BY <1>6
<1>8. Lines!Dense(s) = kept[Len(s)]
  BY DEF Lines!Dense
<1>9. DOMAIN kept = 0..Len(s) /\ kept = [n \in 0..Len(s) |-> kept[n]] /\ kept[0] = << >>
      /\ \A n \in 1..Len(s) : n - 1 \in 0..Len(s) /\ kept[n] = Step(n, kept[n - 1])
  <2> DEFINE N == Len(s)
  <2> HIDE DEF kept, N
  <2>1. kept = [n \in 0..N |-> IF n = 0 THEN << >> ELSE Step(n, kept[n - 1])] /\ N \in Nat
    BY <1>2, <1>7, Zenon DEF N
  <2> HIDE DEF Step
  <2>2. kept[0] = << >> /\ DOMAIN kept = 0..N /\ \A n \in 1..N : kept[n] = Step(n, kept[n - 1])
    BY <2>1
  <2>3. \A n \in 1..N : n - 1 \in 0..N
    BY <2>1
  <2>4. kept = [n \in 0..N |-> kept[n]]
    BY <2>1
  <2> QED BY <2>2, <2>3, <2>4, Zenon DEF N
<1> HIDE DEF kept
<1>10. \A n \in 0..Len(s) : kept[n] \in S
  <2> DEFINE T == {n \in 0..Len(s) : kept[n] \in S}
  <2>1. 0 \in T
    BY <1>2, <1>9
  <2>2. \A n \in 1..Len(s) : n - 1 \in T => n \in T
    <3> SUFFICES ASSUME NEW n \in 1..Len(s), kept[n - 1] \in Seq(Lines!Bytes) PROVE kept[n] \in Seq(Lines!Bytes)
      BY DEF S
    <3>1. kept[n] = IF s[n] = Lines!NUL THEN kept[n - 1] ELSE Append(kept[n - 1], s[n])
      BY <1>9, Zenon
    <3>2. s[n] \in Lines!Bytes
      OBVIOUS
    <3> QED BY <3>1, <3>2 DEF S
  <2> HIDE DEF T
  <2>3. \A n \in 0..Len(s) : n \in T
    BY <1>2, <2>1, <2>2, UpTo, Zenon
  <2> QED BY <2>3 DEF T
<1>11. kept \in [0..Len(s) -> S]
  BY <1>9, <1>10
<1> QED BY <1>8, <1>9, <1>11, Zenon DEF S

\* Dense, one byte at a time: a NUL byte adds nothing.
LEMMA LinesDense ==
  ASSUME NEW s \in Seq(Lines!Bytes)
  PROVE  /\ Lines!Dense(s) \in Seq(Lines!Bytes)
         /\ s = << >> => Lines!Dense(s) = << >>
         /\ \A b \in Lines!Bytes :
              Lines!Dense(Append(s, b)) = IF b = Lines!NUL THEN Lines!Dense(s) ELSE Append(Lines!Dense(s), b)
<1> DEFINE N == Len(s)
<1>1. PICK k \in [0..N -> Seq(Lines!Bytes)] :
        /\ k[0] = << >> /\ Lines!Dense(s) = k[N]
        /\ \A n \in 1..N : k[n] = IF s[n] = Lines!NUL THEN k[n - 1] ELSE Append(k[n - 1], s[n])
  BY LinesDenseSteps
<1>2. N \in Nat
  OBVIOUS
<1>3. ASSUME NEW b \in Lines!Bytes
      PROVE  Lines!Dense(Append(s, b)) = IF b = Lines!NUL THEN Lines!Dense(s) ELSE Append(Lines!Dense(s), b)
  <2> DEFINE r == Append(s, b)
  <2>1. r \in Seq(Lines!Bytes) /\ Len(r) = N + 1 /\ r[N + 1] = b /\ \A n \in 1..N : r[n] = s[n]
    OBVIOUS
  <2> HIDE DEF r, N
  <2>2. PICK j \in [0..(N + 1) -> Seq(Lines!Bytes)] :
          /\ j[0] = << >> /\ Lines!Dense(r) = j[N + 1]
          /\ \A n \in 1..(N + 1) : j[n] = IF r[n] = Lines!NUL THEN j[n - 1] ELSE Append(j[n - 1], r[n])
    <3>1. PICK j \in [0..Len(r) -> Seq(Lines!Bytes)] :
          /\ j[0] = << >>
          /\ \A n \in 1..Len(r) : j[n] = IF r[n] = Lines!NUL THEN j[n - 1] ELSE Append(j[n - 1], r[n])
          /\ Lines!Dense(r) = j[Len(r)]
      BY <2>1, LinesDenseSteps, Zenon
    <3> QED BY <2>1, <3>1, Zenon
  <2>3. ASSUME NEW n \in 1..N, j[n - 1] = k[n - 1] PROVE j[n] = k[n]
    <3>1. n \in 1..(N + 1) /\ r[n] = s[n]
      BY <1>2, <2>1
    <3>2. j[n] = IF s[n] = Lines!NUL THEN k[n - 1] ELSE Append(k[n - 1], s[n])
      BY <2>2, <2>3, <3>1
    <3> QED BY <1>1, <3>2
  <2>4. j[N] = k[N]
    <3>1. j[0] = k[0]
      BY <1>1, <2>2
    <3> QED BY <1>2, <2>3, <3>1, SameSteps, Zenon
  <2>5. j[N + 1] = IF r[N + 1] = Lines!NUL THEN j[N] ELSE Append(j[N], r[N + 1])
    BY <1>2, <2>2
  <2> QED BY <1>1, <2>1, <2>2, <2>4, <2>5 DEF r
<1>4. s = << >> => N = 0
  OBVIOUS
<1> HIDE DEF N
<1> QED BY <1>1, <1>2, <1>3, <1>4

\* Induction over sequences: what holds of the empty one, and of s with one more.
LEMMA AllSequences ==
  ASSUME NEW S, NEW T, << >> \in T, \A s \in Seq(S), b \in S : s \in T => Append(s, b) \in T
  PROVE  \A s \in Seq(S) : s \in T
<1> TAKE s \in Seq(S)
<1> DEFINE N == Len(s)
           K == {n \in 0..N : SubSeq(s, 1, n) \in T}
<1>1. N \in Nat
  OBVIOUS
<1>2. 0 \in K
  <2>1. SubSeq(s, 1, 0) = << >>
    OBVIOUS
  <2>2. 0 \in 0..N
    BY <1>1
  <2> QED BY <2>1, <2>2, Zenon
<1>3. ASSUME NEW n \in 1..N, n - 1 \in K PROVE n \in K
  <2>1. SubSeq(s, 1, n - 1) \in Seq(S) /\ s[n] \in S
    OBVIOUS
  <2>2. SubSeq(s, 1, n) = Append(SubSeq(s, 1, n - 1), s[n])
    OBVIOUS
  <2>3. SubSeq(s, 1, n - 1) \in T /\ n \in 0..N
    BY <1>3
  <2>4. \A x \in Seq(S), b \in S : x \in T => Append(x, b) \in T
    OBVIOUS
  <2>5. Append(SubSeq(s, 1, n - 1), s[n]) \in T
    <3> HIDE DEF K, N
    <3> QED BY <2>1, <2>3, <2>4, Zenon
  <2> QED BY <2>2, <2>3, <2>5, Zenon
<1>4. N \in K
  <2> HIDE DEF K, N
  <2> QED BY <1>1, <1>2, <1>3, UpTo
<1>5. SubSeq(s, 1, N) = s
  OBVIOUS
<1> QED BY <1>4, <1>5, Zenon

\* To join a text with one byte more is to join it and then add the byte.
LEMMA LinesAppendConcat ==
  ASSUME NEW s \in Seq(Lines!Bytes), NEW t \in Seq(Lines!Bytes), NEW b \in Lines!Bytes
  PROVE  /\ s \o t \in Seq(Lines!Bytes) /\ Append(t, b) \in Seq(Lines!Bytes)
         /\ s \o Append(t, b) = Append(s \o t, b)
OBVIOUS

\* Dense works through one text and then another.
LEMMA LinesDenseConcat ==
  ASSUME NEW s \in Seq(Lines!Bytes)
  PROVE  \A t \in Seq(Lines!Bytes) : Lines!Dense(s \o t) = Lines!Dense(s) \o Lines!Dense(t)
<1> DEFINE T == {t \in Seq(Lines!Bytes) : Lines!Dense(s \o t) = Lines!Dense(s) \o Lines!Dense(t)}
<1>1. << >> \in T
  <2> DEFINE d == Lines!Dense(s)
  <2>1. d \in Seq(Lines!Bytes) /\ << >> \in Seq(Lines!Bytes) /\ s \o << >> = s
    BY LinesDense
  <2>2. Lines!Dense(<< >>) = << >>
    BY <2>1, LinesDense, Zenon
  <2> HIDE DEF d
  <2>3. d \o << >> = d
    BY <2>1
  <2> QED BY <2>1, <2>2, <2>3 DEF d
<1>2. ASSUME NEW t \in Seq(Lines!Bytes), NEW b \in Lines!Bytes, t \in T PROVE Append(t, b) \in T
  <2> DEFINE ds == Lines!Dense(s)
             dt == Lines!Dense(t)
  <2>1. s \o t \in Seq(Lines!Bytes) /\ s \o Append(t, b) = Append(s \o t, b)
    OBVIOUS
  <2>2. ds \in Seq(Lines!Bytes) /\ dt \in Seq(Lines!Bytes)
    BY LinesDense
  <2>3. Lines!Dense(s \o Append(t, b)) = IF b = Lines!NUL THEN ds \o dt ELSE Append(ds \o dt, b)
    BY <1>2, <2>1, LinesDense, Zenon
  <2>4. Lines!Dense(Append(t, b)) = IF b = Lines!NUL THEN dt ELSE Append(dt, b)
    BY LinesDense
  <2> HIDE DEF ds, dt
  <2>5. ds \o Append(dt, b) = Append(ds \o dt, b)
    BY <2>2
  <2>6. Lines!Dense(s \o Append(t, b)) = ds \o Lines!Dense(Append(t, b))
    BY <2>3, <2>4, <2>5, Zenon
  <2>7. Append(t, b) \in Seq(Lines!Bytes)
    OBVIOUS
  <2> QED BY <2>6, <2>7 DEF ds
<1>3. \A t \in Seq(Lines!Bytes) : t \in T
  <2> HIDE DEF T
  <2> QED BY <1>1, <1>2, AllSequences
<1> QED BY <1>3

\* A text is at least one piece.
LinesTexts == Seq(Seq(Lines!Bytes)) \ {<< >>}

\* What one more byte does to the pieces p.
LinesCut(p, b) ==
  IF b = Lines!LF THEN Append(p, << >>) ELSE Append(Lines!Front(p), Append(Lines!Last(p), b))

\* The pieces stay a sequence of at least one text.
LEMMA LinesCutType ==
  ASSUME NEW p \in LinesTexts, NEW b \in Lines!Bytes
  PROVE  LinesCut(p, b) \in LinesTexts
<1>1. Len(p) \in Nat \ {0} /\ Lines!Front(p) \in Seq(Seq(Lines!Bytes)) /\ Lines!Last(p) \in Seq(Lines!Bytes)
  BY DEF LinesTexts, Lines!Front, Lines!Last
<1>2. Append(Lines!Last(p), b) \in Seq(Lines!Bytes)
  BY <1>1
<1>3. \A q \in Seq(Seq(Lines!Bytes)), c \in Seq(Lines!Bytes) : Append(q, c) \in LinesTexts
  <2> TAKE q \in Seq(Seq(Lines!Bytes)), c \in Seq(Lines!Bytes)
  <2>1. Append(q, c) \in Seq(Seq(Lines!Bytes)) /\ Len(Append(q, c)) # 0
    OBVIOUS
  <2>2. Len(<< >>) = 0
    OBVIOUS
  <2> QED BY <2>1, <2>2, Zenon DEF LinesTexts
<1>4. << >> \in Seq(Lines!Bytes) /\ p \in Seq(Seq(Lines!Bytes))
  BY DEF LinesTexts
<1>5. CASE b = Lines!LF
  BY <1>3, <1>4, <1>5, Zenon DEF LinesCut
<1>6. CASE b # Lines!LF
  BY <1>1, <1>2, <1>3, <1>6, Zenon DEF LinesCut
<1> QED BY <1>5, <1>6

\* Pieces goes through the bytes one by one.
LEMMA LinesPiecesSteps ==
  ASSUME NEW s \in Seq(Lines!Bytes)
  PROVE  \E kept \in [0..Len(s) -> LinesTexts] :
           /\ kept[0] = << << >> >>
           /\ \A n \in 1..Len(s) : kept[n] = LinesCut(kept[n - 1], s[n])
           /\ Lines!Pieces(s) = kept[Len(s)]
<1> DEFINE Step(n, k) == LinesCut(k, s[n])
           Is(f) == f = [n \in 0..Len(s) |-> IF n = 0 THEN << << >> >> ELSE LinesCut(f[n - 1], s[n])]
           S == LinesTexts
           next == [x \in (1..Len(s)) \X S |-> Step(x[1], x[2])]
           kept == CHOOSE f : Is(f)
<1>1. next \in [(1..Len(s)) \X S -> S]
  BY LinesCutType
<1>2. << << >> >> \in S /\ Len(s) \in Nat
  BY DEF LinesTexts
<1>3. \A n \in 1..Len(s), k \in S : next[<<n, k>>] = Step(n, k)
  OBVIOUS
<1> HIDE DEF next, S
<1>4. PICK f : Follows(f, S, Len(s), << << >> >>, next)
  BY <1>1, <1>2, RecursionExists, Zenon DEF StepsOver
<1>5. ASSUME NEW n \in 1..Len(s) PROVE n - 1 \in 0..Len(s) /\ f[n] = Step(n, f[n - 1])
  <2>1. n - 1 \in 0..Len(s) /\ f[n - 1] \in S
    BY <1>2, <1>4 DEF Follows
  <2> QED BY <1>3, <1>4, <2>1, Zenon DEF Follows
<1>6. Is(f)
  BY <1>2, <1>4, <1>5 DEF Follows
<1>7. Is(kept)
  <2> HIDE DEF Is
  <2> QED BY <1>6
<1>8. Lines!Pieces(s) = kept[Len(s)]
  BY DEF Lines!Pieces, LinesCut
<1>9. DOMAIN kept = 0..Len(s) /\ kept = [n \in 0..Len(s) |-> kept[n]] /\ kept[0] = << << >> >>
      /\ \A n \in 1..Len(s) : n - 1 \in 0..Len(s) /\ kept[n] = Step(n, kept[n - 1])
  <2> DEFINE N == Len(s)
  <2> HIDE DEF kept, N
  <2>1. kept = [n \in 0..N |-> IF n = 0 THEN << << >> >> ELSE Step(n, kept[n - 1])] /\ N \in Nat
    BY <1>2, <1>7, Zenon DEF N
  <2> HIDE DEF Step
  <2>2. kept[0] = << << >> >> /\ DOMAIN kept = 0..N /\ \A n \in 1..N : kept[n] = Step(n, kept[n - 1])
    BY <2>1
  <2>3. \A n \in 1..N : n - 1 \in 0..N
    BY <2>1
  <2>4. kept = [n \in 0..N |-> kept[n]]
    BY <2>1
  <2> QED BY <2>2, <2>3, <2>4, Zenon DEF N
<1> HIDE DEF kept
<1>10. \A n \in 0..Len(s) : kept[n] \in S
  <2> DEFINE T == {n \in 0..Len(s) : kept[n] \in S}
  <2>1. 0 \in T
    BY <1>2, <1>9
  <2>2. \A n \in 1..Len(s) : n - 1 \in T => n \in T
    <3> SUFFICES ASSUME NEW n \in 1..Len(s), kept[n - 1] \in S PROVE kept[n] \in S
      OBVIOUS
    <3>1. kept[n] = LinesCut(kept[n - 1], s[n])
      BY <1>9, Zenon
    <3>2. s[n] \in Lines!Bytes
      OBVIOUS
    <3> QED BY <3>1, <3>2, LinesCutType DEF S
  <2> HIDE DEF T
  <2>3. \A n \in 0..Len(s) : n \in T
    BY <1>2, <2>1, <2>2, UpTo, Zenon
  <2> QED BY <2>3 DEF T
<1>11. kept \in [0..Len(s) -> S]
  BY <1>9, <1>10
<1> QED BY <1>8, <1>9, <1>11, Zenon DEF S
\* Pieces, one byte at a time.
LEMMA LinesPieces ==
  ASSUME NEW s \in Seq(Lines!Bytes)
  PROVE  /\ Lines!Pieces(s) \in LinesTexts
         /\ s = << >> => Lines!Pieces(s) = << << >> >>
         /\ \A b \in Lines!Bytes : Lines!Pieces(Append(s, b)) = LinesCut(Lines!Pieces(s), b)
<1> DEFINE N == Len(s)
<1>1. PICK k \in [0..N -> LinesTexts] :
        /\ k[0] = << << >> >> /\ Lines!Pieces(s) = k[N]
        /\ \A n \in 1..N : k[n] = LinesCut(k[n - 1], s[n])
  BY LinesPiecesSteps, Zenon
<1>2. N \in Nat
  OBVIOUS
<1>3. ASSUME NEW b \in Lines!Bytes
      PROVE  Lines!Pieces(Append(s, b)) = LinesCut(Lines!Pieces(s), b)
  <2> DEFINE r == Append(s, b)
  <2>1. r \in Seq(Lines!Bytes) /\ Len(r) = N + 1 /\ r[N + 1] = b /\ \A n \in 1..N : r[n] = s[n]
    OBVIOUS
  <2> HIDE DEF r, N
  <2>2. PICK j \in [0..(N + 1) -> LinesTexts] :
          /\ j[0] = << << >> >> /\ Lines!Pieces(r) = j[N + 1]
          /\ \A n \in 1..(N + 1) : j[n] = LinesCut(j[n - 1], r[n])
    <3>1. PICK j \in [0..Len(r) -> LinesTexts] :
          /\ j[0] = << << >> >>
          /\ \A n \in 1..Len(r) : j[n] = LinesCut(j[n - 1], r[n])
          /\ Lines!Pieces(r) = j[Len(r)]
      BY <2>1, LinesPiecesSteps, Zenon
    <3> QED BY <2>1, <3>1, Zenon
  <2>3. ASSUME NEW n \in 1..N, j[n - 1] = k[n - 1] PROVE j[n] = k[n]
    <3>1. n \in 1..(N + 1) /\ r[n] = s[n]
      BY <1>2, <2>1
    <3>2. j[n] = LinesCut(k[n - 1], s[n])
      BY <2>2, <2>3, <3>1
    <3> QED BY <1>1, <3>2
  <2>4. j[N] = k[N]
    <3>1. j[0] = k[0]
      BY <1>1, <2>2
    <3> QED BY <1>2, <2>3, <3>1, SameSteps, Zenon
  <2>5. j[N + 1] = LinesCut(j[N], r[N + 1])
    BY <1>2, <2>2
  <2> QED BY <1>1, <2>1, <2>2, <2>4, <2>5 DEF r
<1>4. s = << >> => N = 0
  OBVIOUS
<1> HIDE DEF N
<1> QED BY <1>1, <1>2, <1>3, <1>4

\* The first n of a sequence.
LEMMA LinesPrefix ==
  ASSUME NEW S, NEW p \in Seq(S), NEW n \in 0..Len(p)
  PROVE  SubSeq(p, 1, n) \in Seq(S) /\ Len(SubSeq(p, 1, n)) = n /\ \A i \in 1..n : SubSeq(p, 1, n)[i] = p[i]
OBVIOUS

\* The pieces of a text by their positions.
LEMMA LinesEnds ==
  ASSUME NEW p \in LinesTexts
  PROVE  /\ Len(p) \in Nat \ {0}
         /\ \A i \in 1..Len(p) : p[i] \in Seq(Lines!Bytes)
         /\ Lines!Last(p) = p[Len(p)]
         /\ Lines!Front(p) \in Seq(Seq(Lines!Bytes)) /\ Len(Lines!Front(p)) = Len(p) - 1
         /\ \A i \in 1..(Len(p) - 1) : Lines!Front(p)[i] = p[i]
<1>1. p \in Seq(Seq(Lines!Bytes)) /\ p # << >>
  BY DEF LinesTexts
<1>2. Len(p) \in Nat \ {0}
  BY <1>1
<1>3. /\ SubSeq(p, 1, Len(p) - 1) \in Seq(Seq(Lines!Bytes)) /\ Len(SubSeq(p, 1, Len(p) - 1)) = Len(p) - 1
      /\ \A i \in 1..(Len(p) - 1) : SubSeq(p, 1, Len(p) - 1)[i] = p[i]
  <2>1. Len(p) - 1 \in 0..Len(p)
    BY <1>2
  <2> QED BY <1>1, <2>1, LinesPrefix, Zenon
<1>4. \A i \in 1..Len(p) : p[i] \in Seq(Lines!Bytes)
  BY <1>1
<1> QED BY <1>2, <1>3, <1>4, Zenon DEF Lines!Front, Lines!Last

\* An empty text is one empty piece.
LEMMA LinesNoText == Len(Lines!Pieces(<< >>)) = 1 /\ Lines!Pieces(<< >>)[1] = << >>
<1> DEFINE e == << >>
<1>1. e \in Seq(Lines!Bytes) /\ e = << >> /\ Len(<<e>>) = 1 /\ <<e>>[1] = e
  OBVIOUS
<1> HIDE DEF e
<1>2. Lines!Pieces(e) = << << >> >>
  BY <1>1, LinesPieces, Zenon
<1> QED BY <1>1, <1>2

\* What one more byte does to the pieces: a line feed ends the last, another byte extends it.
LEMMA LinesCutAt ==
  ASSUME NEW p \in LinesTexts, NEW b \in Lines!Bytes
  PROVE  /\ b = Lines!LF =>
              /\ Len(LinesCut(p, b)) = Len(p) + 1
              /\ \A i \in 1..Len(p) : LinesCut(p, b)[i] = p[i]
              /\ LinesCut(p, b)[Len(p) + 1] = << >>
         /\ b # Lines!LF =>
              /\ Len(LinesCut(p, b)) = Len(p)
              /\ \A i \in 1..(Len(p) - 1) : LinesCut(p, b)[i] = p[i]
              /\ LinesCut(p, b)[Len(p)] = Append(p[Len(p)], b)
<1> DEFINE f == Lines!Front(p)
           l == Append(Lines!Last(p), b)
<1>1. /\ Len(p) \in Nat \ {0} /\ f \in Seq(Seq(Lines!Bytes)) /\ Len(f) = Len(p) - 1
      /\ l = Append(p[Len(p)], b) /\ l \in Seq(Lines!Bytes)
      /\ \A i \in 1..(Len(p) - 1) : f[i] = p[i]
  BY LinesEnds
<1>2. p \in Seq(Seq(Lines!Bytes))
  BY DEF LinesTexts
<1> HIDE DEF f, l
<1>3. Len(Append(f, l)) = Len(p) /\ Append(f, l)[Len(p)] = l /\ \A i \in 1..(Len(p) - 1) : Append(f, l)[i] = f[i]
  BY <1>1
<1>4. b # Lines!LF => LinesCut(p, b) = Append(f, l)
  BY DEF LinesCut, f, l
<1>5. b = Lines!LF => LinesCut(p, b) = Append(p, << >>)
  BY DEF LinesCut
<1> DEFINE e == << >>
<1>6. e \in Seq(Lines!Bytes)
  OBVIOUS
<1> HIDE DEF e
<1>7. Len(Append(p, e)) = Len(p) + 1 /\ Append(p, e)[Len(p) + 1] = e /\ \A i \in 1..Len(p) : Append(p, e)[i] = p[i]
  BY <1>2, <1>6
<1> QED BY <1>1, <1>3, <1>4, <1>5, <1>7, Zenon DEF e, l

\* A text without a line feed.
LinesPlain(s) == \A i \in 1..Len(s) : s[i] # Lines!LF

\* One byte more keeps a text plain if it is no line feed.
LEMMA LinesPlainSteps ==
  /\ LinesPlain(<< >>)
  /\ \A s \in Seq(Lines!Bytes), b \in Lines!Bytes : LinesPlain(Append(s, b)) <=> LinesPlain(s) /\ b # Lines!LF
<1>1. LinesPlain(<< >>)
  BY DEF LinesPlain
<1>2. ASSUME NEW s \in Seq(Lines!Bytes), NEW b \in Lines!Bytes
      PROVE  LinesPlain(Append(s, b)) <=> LinesPlain(s) /\ b # Lines!LF
  <2>1. Len(s) \in Nat /\ Len(Append(s, b)) = Len(s) + 1 /\ Append(s, b)[Len(s) + 1] = b
    OBVIOUS
  <2>2. \A i \in 1..Len(s) : Append(s, b)[i] = s[i]
    OBVIOUS
  <2>3. 1..(Len(s) + 1) = 1..Len(s) \union {Len(s) + 1}
    BY <2>1
  <2> QED BY <2>1, <2>2, <2>3 DEF LinesPlain
<1> QED BY <1>1, <1>2

\* A text without a line feed is one piece.
LEMMA LinesOnePiece ==
  \A s \in Seq(Lines!Bytes) : LinesPlain(s) => Len(Lines!Pieces(s)) = 1 /\ Lines!Pieces(s)[1] = s
<1> DEFINE T == {s \in Seq(Lines!Bytes) : LinesPlain(s) => Len(Lines!Pieces(s)) = 1 /\ Lines!Pieces(s)[1] = s}
<1>1. << >> \in T
  BY LinesNoText
<1>2. ASSUME NEW s \in Seq(Lines!Bytes), NEW b \in Lines!Bytes, s \in T PROVE Append(s, b) \in T
  <2> SUFFICES ASSUME LinesPlain(Append(s, b))
               PROVE  Len(Lines!Pieces(Append(s, b))) = 1 /\ Lines!Pieces(Append(s, b))[1] = Append(s, b)
    OBVIOUS
  <2>1. LinesPlain(s) /\ b # Lines!LF
    BY LinesPlainSteps
  <2>2. Len(Lines!Pieces(s)) = 1 /\ Lines!Pieces(s)[1] = s
    BY <1>2, <2>1
  <2>3. Lines!Pieces(s) \in LinesTexts /\ Lines!Pieces(Append(s, b)) = LinesCut(Lines!Pieces(s), b)
    BY LinesPieces
  <2>4. LinesCut(Lines!Pieces(s), b)[1] = Append(s, b) /\ Len(LinesCut(Lines!Pieces(s), b)) = 1
    BY <2>1, <2>2, <2>3, LinesCutAt
  <2> QED BY <2>3, <2>4
<1>3. \A s \in Seq(Lines!Bytes) : s \in T
  <2> HIDE DEF T
  <2> QED BY <1>1, <1>2, AllSequences
<1> QED BY <1>3

\* The last piece has no line feed.
LEMMA LinesLastPlain ==
  \A s \in Seq(Lines!Bytes) : LinesPlain(Lines!Pieces(s)[Len(Lines!Pieces(s))])
<1> DEFINE T == {s \in Seq(Lines!Bytes) : LinesPlain(Lines!Pieces(s)[Len(Lines!Pieces(s))])}
<1>1. << >> \in T
  <2>1. LinesPlain(Lines!Pieces(<< >>)[Len(Lines!Pieces(<< >>))])
    BY LinesNoText, LinesPlainSteps
  <2> QED BY <2>1
<1>2. ASSUME NEW s \in Seq(Lines!Bytes), NEW b \in Lines!Bytes, s \in T PROVE Append(s, b) \in T
  <2> DEFINE p == Lines!Pieces(s)
             q == LinesCut(p, b)
  <2>1. p \in LinesTexts /\ Lines!Pieces(Append(s, b)) = q /\ LinesPlain(p[Len(p)])
    BY <1>2, LinesPieces
  <2>2. p[Len(p)] \in Seq(Lines!Bytes)
    BY <2>1, LinesEnds
  <2>3. q[Len(q)] = << >> \/ (b # Lines!LF /\ q[Len(q)] = Append(p[Len(p)], b))
    BY <2>1, LinesCutAt
  <2> HIDE DEF p, q
  <2>4. LinesPlain(q[Len(q)])
    <3>1. CASE q[Len(q)] = << >>
      BY <3>1, LinesPlainSteps, Zenon
    <3>2. CASE b # Lines!LF /\ q[Len(q)] = Append(p[Len(p)], b)
      <4>1. LinesPlain(Append(p[Len(p)], b))
        BY <2>1, <2>2, <3>2, LinesPlainSteps, Zenon
      <4> QED BY <3>2, <4>1
    <3> QED BY <2>3, <3>1, <3>2
  <2> QED BY <2>1, <2>4
<1>3. \A s \in Seq(Lines!Bytes) : s \in T
  <2> HIDE DEF T
  <2> QED BY <1>1, <1>2, AllSequences
<1> QED BY <1>3

\* w is the first m pieces of p and then q.
LinesGlued(p, m, q, w) ==
  /\ Len(w) = m + Len(q)
  /\ \A i \in 1..m : w[i] = p[i]
  /\ \A i \in 1..Len(q) : w[m + i] = q[i]

\* Pieces that are glued stay so when one byte more is cut.
LEMMA LinesGluedCut ==
  ASSUME NEW p, NEW m \in Nat, NEW q \in LinesTexts, NEW w \in LinesTexts, NEW b \in Lines!Bytes,
         LinesGlued(p, m, q, w)
  PROVE  LinesGlued(p, m, LinesCut(q, b), LinesCut(w, b))
<1> DEFINE Q == LinesCut(q, b)
           W == LinesCut(w, b)
           n == Len(q)
<1>1. n \in Nat \ {0} /\ Len(w) = m + n /\ (\A i \in 1..m : w[i] = p[i]) /\ \A i \in 1..n : w[m + i] = q[i]
  BY LinesEnds, Zenon DEF LinesGlued
<1>2. CASE b = Lines!LF
  <2>1. Len(Q) = n + 1 /\ Q[n + 1] = << >> /\ \A i \in 1..n : Q[i] = q[i]
    BY <1>2, LinesCutAt
  <2>2. Len(W) = m + n + 1 /\ W[m + n + 1] = << >> /\ \A i \in 1..(m + n) : W[i] = w[i]
    BY <1>1, <1>2, LinesCutAt
  <2> HIDE DEF Q, W, n
  <2>3. \A i \in 1..m : W[i] = p[i]
    BY <1>1, <2>2
  <2>4. ASSUME NEW i \in 1..(n + 1) PROVE W[m + i] = Q[i]
    <3>1. CASE i = n + 1
      BY <1>1, <2>1, <2>2, <3>1
    <3>2. CASE i \in 1..n
      <4>1. m + i \in 1..(m + n)
        BY <1>1, <3>2
      <4> QED BY <1>1, <2>1, <2>2, <3>2, <4>1
    <3> QED BY <1>1, <3>1, <3>2
  <2> QED BY <1>1, <2>1, <2>2, <2>3, <2>4 DEF LinesGlued, Q, W
<1>3. CASE b # Lines!LF
  <2>1. Len(Q) = n /\ Q[n] = Append(q[n], b) /\ \A i \in 1..(n - 1) : Q[i] = q[i]
    BY <1>3, LinesCutAt
  <2>2. Len(W) = m + n /\ W[m + n] = Append(w[m + n], b) /\ \A i \in 1..(m + n - 1) : W[i] = w[i]
    BY <1>1, <1>3, LinesCutAt
  <2> HIDE DEF Q, W, n
  <2>3. \A i \in 1..m : W[i] = p[i]
    BY <1>1, <2>2
  <2>4. ASSUME NEW i \in 1..n PROVE W[m + i] = Q[i]
    <3>1. CASE i = n
      BY <1>1, <2>1, <2>2, <3>1, Zenon
    <3>2. CASE i \in 1..(n - 1)
      <4>1. m + i \in 1..(m + n - 1) /\ i \in 1..n
        BY <1>1, <3>2
      <4> QED BY <1>1, <2>1, <2>2, <3>2, <4>1
    <3> QED BY <1>1, <3>1, <3>2
  <2> QED BY <1>1, <2>1, <2>2, <2>3, <2>4 DEF LinesGlued, Q, W
<1> QED BY <1>2, <1>3

\* The pieces of a longer text: those that were ended, and then the pieces of
\* the last one and what follows.
LEMMA LinesContinue ==
  ASSUME NEW s \in Seq(Lines!Bytes), NEW m, NEW r, m = Len(Lines!Pieces(s)) - 1, r = Lines!Pieces(s)[m + 1]
  PROVE  \A t \in Seq(Lines!Bytes) : LinesGlued(Lines!Pieces(s), m, Lines!Pieces(r \o t), Lines!Pieces(s \o t))
<1> DEFINE p == Lines!Pieces(s)
           T == {t \in Seq(Lines!Bytes) : LinesGlued(p, m, Lines!Pieces(r \o t), Lines!Pieces(s \o t))}
<1>1. p \in LinesTexts /\ Len(p) \in Nat \ {0} /\ m \in Nat /\ m + 1 = Len(p) /\ r = p[Len(p)] /\ r \in Seq(Lines!Bytes)
  BY LinesPieces, LinesEnds
<1>2. << >> \in T
  <2>1. r \o << >> = r /\ s \o << >> = s /\ << >> \in Seq(Lines!Bytes)
    BY <1>1
  <2>2. LinesPlain(r)
    BY <1>1, LinesLastPlain
  <2>3. Len(Lines!Pieces(r)) = 1 /\ Lines!Pieces(r)[1] = r
    BY <1>1, <2>2, LinesOnePiece
  <2> HIDE DEF p
  <2>4. LinesGlued(p, m, Lines!Pieces(r), p)
    BY <1>1, <2>3 DEF LinesGlued
  <2> QED BY <2>1, <2>4 DEF p
<1>3. ASSUME NEW t \in Seq(Lines!Bytes), NEW b \in Lines!Bytes, t \in T PROVE Append(t, b) \in T
  <2>1. r \o t \in Seq(Lines!Bytes) /\ s \o t \in Seq(Lines!Bytes)
    BY <1>1
  <2>2. r \o Append(t, b) = Append(r \o t, b) /\ s \o Append(t, b) = Append(s \o t, b) /\ Append(t, b) \in Seq(Lines!Bytes)
    BY <1>1, LinesAppendConcat, Zenon
  <2>3. /\ Lines!Pieces(r \o t) \in LinesTexts /\ Lines!Pieces(Append(r \o t, b)) = LinesCut(Lines!Pieces(r \o t), b)
        /\ Lines!Pieces(s \o t) \in LinesTexts /\ Lines!Pieces(Append(s \o t, b)) = LinesCut(Lines!Pieces(s \o t), b)
    BY <2>1, LinesPieces, Zenon
  <2>4. LinesGlued(p, m, LinesCut(Lines!Pieces(r \o t), b), LinesCut(Lines!Pieces(s \o t), b))
    <3> HIDE DEF p
    <3> QED BY <1>1, <1>3, <2>3, LinesGluedCut
  <2> QED BY <2>2, <2>3, <2>4, Zenon
<1>4. \A t \in Seq(Lines!Bytes) : t \in T
  <2> HIDE DEF T
  <2> QED BY <1>2, <1>3, AllSequences
<1> QED BY <1>4

\* w is q with s before its first piece.
LinesExtended(s, q, w) ==
  /\ Len(w) = Len(q)
  /\ w[1] = s \o q[1]
  /\ \A i \in 2..Len(q) : w[i] = q[i]

\* What has no line feed before a text is before its first piece.
LEMMA LinesBefore ==
  ASSUME NEW s \in Seq(Lines!Bytes), LinesPlain(s)
  PROVE  \A t \in Seq(Lines!Bytes) : LinesExtended(s, Lines!Pieces(t), Lines!Pieces(s \o t))
<1> DEFINE T == {t \in Seq(Lines!Bytes) : LinesExtended(s, Lines!Pieces(t), Lines!Pieces(s \o t))}
<1>1. << >> \in T
  <2>1. s \o << >> = s /\ << >> \in Seq(Lines!Bytes)
    OBVIOUS
  <2>2. Len(Lines!Pieces(s)) = 1 /\ Lines!Pieces(s)[1] = s
    BY LinesOnePiece
  <2> QED BY <2>1, <2>2, LinesNoText DEF LinesExtended
<1>2. ASSUME NEW t \in Seq(Lines!Bytes), NEW b \in Lines!Bytes, t \in T PROVE Append(t, b) \in T
  <2> DEFINE q == Lines!Pieces(t)
             w == Lines!Pieces(s \o t)
             Q == LinesCut(q, b)
             W == LinesCut(w, b)
             n == Len(q)
  <2>1. s \o t \in Seq(Lines!Bytes) /\ s \o Append(t, b) = Append(s \o t, b) /\ Append(t, b) \in Seq(Lines!Bytes)
    OBVIOUS
  <2>2. q \in LinesTexts /\ w \in LinesTexts /\ Lines!Pieces(Append(t, b)) = Q /\ Lines!Pieces(Append(s \o t, b)) = W
    BY <2>1, LinesPieces, Zenon
  <2>3. n \in Nat \ {0} /\ \A i \in 1..n : q[i] \in Seq(Lines!Bytes)
    BY <2>2, LinesEnds
  <2>4. Len(w) = n /\ w[1] = s \o q[1] /\ \A i \in 2..n : w[i] = q[i]
    BY <1>2 DEF LinesExtended
  <2>5. CASE b = Lines!LF
    <3>1. Len(Q) = n + 1 /\ Q[n + 1] = << >> /\ \A i \in 1..n : Q[i] = q[i]
      BY <2>2, <2>5, LinesCutAt
    <3>2. Len(W) = n + 1 /\ W[n + 1] = << >> /\ \A i \in 1..n : W[i] = w[i]
      BY <2>2, <2>4, <2>5, LinesCutAt
    <3> HIDE DEF q, w, n, Q, W
    <3>3. LinesExtended(s, Q, W)
      <4>1. W[1] = s \o Q[1] /\ Len(W) = Len(Q)
        <5>1. 1 \in 1..n
          BY <2>3
        <5>2. W[1] = w[1] /\ Q[1] = q[1]
          BY <3>1, <3>2, <5>1
        <5> QED BY <2>4, <3>1, <3>2, <5>2
      <4>2. ASSUME NEW i \in 2..(n + 1) PROVE W[i] = Q[i]
        <5>1. i = n + 1 \/ i \in 2..n
          BY <2>3
        <5> QED BY <2>3, <2>4, <3>1, <3>2, <5>1
      <4> QED BY <3>1, <4>1, <4>2 DEF LinesExtended
    <3> QED BY <2>1, <2>2, <3>3, Zenon DEF q, w
  <2>6. CASE b # Lines!LF
    <3>1. Len(Q) = n /\ Q[n] = Append(q[n], b) /\ \A i \in 1..(n - 1) : Q[i] = q[i]
      BY <2>2, <2>6, LinesCutAt
    <3>2. Len(W) = n /\ W[n] = Append(w[n], b) /\ \A i \in 1..(n - 1) : W[i] = w[i]
      BY <2>2, <2>4, <2>6, LinesCutAt
    <3>3. Append(s \o q[1], b) = s \o Append(q[1], b)
      <4> DEFINE x == q[1]
      <4>1. x \in Seq(Lines!Bytes)
        BY <2>3
      <4> HIDE DEF x
      <4>2. Append(s \o x, b) = s \o Append(x, b)
        BY <4>1, LinesAppendConcat, Zenon
      <4> QED BY <4>2 DEF x
    <3> HIDE DEF q, w, n, Q, W
    <3>4. W[1] = s \o Q[1]
      <4>1. CASE n = 1
        BY <2>4, <3>1, <3>2, <3>3, <4>1, Zenon
      <4>2. CASE n # 1
        <5>1. 1 \in 1..(n - 1)
          BY <2>3, <4>2
        <5> QED BY <2>4, <3>1, <3>2, <5>1, Zenon
      <4> QED BY <4>1, <4>2
    <3>5. ASSUME NEW i \in 2..n PROVE W[i] = Q[i]
      <4>1. CASE i = n
        BY <2>4, <3>1, <3>2, <4>1, Zenon
      <4>2. CASE i # n
        <5>1. i \in 1..(n - 1)
          BY <2>3, <4>2
        <5> QED BY <2>4, <3>1, <3>2, <5>1
      <4> QED BY <4>1, <4>2
    <3>6. LinesExtended(s, Q, W)
      BY <3>1, <3>2, <3>4, <3>5 DEF LinesExtended
    <3> QED BY <2>1, <2>2, <3>6, Zenon DEF q, w
  <2> QED BY <2>5, <2>6
<1>3. \A t \in Seq(Lines!Bytes) : t \in T
  <2> HIDE DEF T
  <2> QED BY <1>1, <1>2, AllSequences
<1> QED BY <1>3

\* There is one piece more than there are line feeds.
LEMMA LinesFeeds ==
  \A s \in Seq(Lines!Bytes) :
    IsFiniteSet(Lines!Feeds(s)) /\ Len(Lines!Pieces(s)) = Cardinality(Lines!Feeds(s)) + 1
<1> DEFINE T == {s \in Seq(Lines!Bytes) :
                   IsFiniteSet(Lines!Feeds(s)) /\ Len(Lines!Pieces(s)) = Cardinality(Lines!Feeds(s)) + 1}
<1>1. << >> \in T
  <2>1. Lines!Feeds(<< >>) = {}
    BY DEF Lines!Feeds
  <2>2. IsFiniteSet({}) /\ Cardinality({}) = 0 /\ << >> \in Seq(Lines!Bytes)
    BY FS_EmptySet
  <2> DEFINE e == << >>
  <2>3. e \in Seq(Lines!Bytes) /\ Lines!Feeds(e) = {} /\ Len(Lines!Pieces(e)) = 1
    BY <2>1, <2>2, LinesNoText
  <2> HIDE DEF e
  <2>4. IsFiniteSet(Lines!Feeds(e)) /\ Cardinality(Lines!Feeds(e)) = 0
    BY <2>2, <2>3, Zenon
  <2>5. Len(Lines!Pieces(e)) = Cardinality(Lines!Feeds(e)) + 1
    BY <2>3, <2>4
  <2>6. e \in T
    BY <2>3, <2>4, <2>5, Zenon
  <2> QED BY <2>6 DEF e
<1>2. ASSUME NEW s \in Seq(Lines!Bytes), NEW b \in Lines!Bytes, s \in T PROVE Append(s, b) \in T
  <2> DEFINE F == Lines!Feeds(s)
             n == Len(s)
  <2>1. F \subseteq 1..n /\ n \in Nat /\ Append(s, b) \in Seq(Lines!Bytes)
    BY DEF Lines!Feeds
  <2>2. Lines!Feeds(Append(s, b)) = F \union (IF b = Lines!LF THEN {n + 1} ELSE {})
    <3>1. DOMAIN Append(s, b) = 1..(n + 1) /\ Append(s, b)[n + 1] = b /\ \A i \in 1..n : Append(s, b)[i] = s[i]
      OBVIOUS
    <3>2. DOMAIN s = 1..n
      OBVIOUS
    <3>3. 1..(n + 1) = 1..n \union {n + 1}
      BY <2>1
    <3> HIDE DEF n
    <3> QED BY <3>1, <3>2, <3>3 DEF Lines!Feeds
  <2>3. IsFiniteSet(F) /\ Len(Lines!Pieces(s)) = Cardinality(F) + 1 /\ Cardinality(F) \in Nat
    BY <1>2, FS_CardinalityType
  <2>4. Lines!Pieces(s) \in LinesTexts /\ Lines!Pieces(Append(s, b)) = LinesCut(Lines!Pieces(s), b)
    BY LinesPieces
  <2>5. Len(Lines!Pieces(Append(s, b))) = Len(Lines!Pieces(s)) + (IF b = Lines!LF THEN 1 ELSE 0)
    BY <2>3, <2>4, LinesCutAt
  <2> HIDE DEF F, n
  <2>6. n + 1 \notin F
    BY <2>1
  <2>7. IsFiniteSet(F \union {n + 1}) /\ Cardinality(F \union {n + 1}) = Cardinality(F) + 1
    BY <2>3, <2>6, FS_AddElement
  <2> QED BY <2>1, <2>2, <2>3, <2>5, <2>7, Zenon
<1>3. \A s \in Seq(Lines!Bytes) : s \in T
  <2> HIDE DEF T
  <2> QED BY <1>1, <1>2, AllSequences
<1> QED BY <1>3

\* Nothing follows the last line feed of a text that ends with it.
LEMMA LinesRest ==
  \A s \in Seq(Lines!Bytes) :
    Lines!Pieces(s)[Len(Lines!Pieces(s))] # << >> <=> s # << >> /\ Lines!Last(s) # Lines!LF
<1> DEFINE T == {s \in Seq(Lines!Bytes) :
                   Lines!Pieces(s)[Len(Lines!Pieces(s))] # << >> <=> s # << >> /\ Lines!Last(s) # Lines!LF}
<1>1. << >> \in T
  BY LinesNoText
<1>2. ASSUME NEW s \in Seq(Lines!Bytes), NEW b \in Lines!Bytes, s \in T PROVE Append(s, b) \in T
  <2> DEFINE p == Lines!Pieces(s)
             q == LinesCut(p, b)
             r == Append(s, b)
  <2>1. p \in LinesTexts /\ Lines!Pieces(r) = q
    BY LinesPieces
  <2>2. p[Len(p)] \in Seq(Lines!Bytes)
    BY <2>1, LinesEnds
  <2>3. r \in Seq(Lines!Bytes) /\ r # << >> /\ Lines!Last(r) = b
    <3>1. r \in Seq(Lines!Bytes) /\ Len(r) = Len(s) + 1 /\ r[Len(s) + 1] = b /\ Len(s) \in Nat
      OBVIOUS
    <3>2. Lines!Last(r) = r[Len(s) + 1]
      BY <3>1 DEF Lines!Last
    <3>3. r # << >>
      BY <3>1
    <3> QED BY <3>1, <3>2, <3>3
  <2>4. CASE b = Lines!LF
    <3>1. q[Len(q)] = << >>
      BY <2>1, <2>4, LinesCutAt
    <3> HIDE DEF p, q, r
    <3> QED BY <2>1, <2>3, <2>4, <3>1 DEF r
  <2>5. CASE b # Lines!LF
    <3>1. q[Len(q)] = Append(p[Len(p)], b)
      BY <2>1, <2>5, LinesCutAt
    <3> DEFINE l == p[Len(p)]
    <3>2. l \in Seq(Lines!Bytes)
      BY <2>2
    <3> HIDE DEF l
    <3>3. Append(l, b) # << >>
      BY <3>2
    <3>4. q[Len(q)] # << >>
      BY <3>1, <3>3 DEF l
    <3> HIDE DEF p, q, r
    <3> QED BY <2>1, <2>3, <2>5, <3>4 DEF r
  <2> QED BY <2>4, <2>5
<1>3. \A s \in Seq(Lines!Bytes) : s \in T
  <2> HIDE DEF T
  <2> QED BY <1>1, <1>2, AllSequences
<1> QED BY <1>3

\* A set of line numbers has a latest.
LEMMA LinesLatest ==
  ASSUME NEW n \in Nat, NEW D \in SUBSET (1..n), D # {}
  PROVE  Lines!Max(D) \in D /\ \A j \in D : j <= Lines!Max(D)
<1> DEFINE U == {u \in Nat : \A j \in D : j <= u}
<1>1. n \in U
  OBVIOUS
<1>2. U \in SUBSET Nat /\ U # {}
  BY <1>1
<1> HIDE DEF U
<1>3. PICK u \in U : \A v \in U : u <= v
  BY <1>2, LeastOfNat
<1>4. u \in Nat /\ \A j \in D : j \in Nat /\ j <= u
  BY <1>3 DEF U
<1>5. u \in D
  <2> SUFFICES ASSUME u \notin D PROVE FALSE
    OBVIOUS
  <2>1. \A j \in D : j <= u - 1
    BY <1>4
  <2>2. u - 1 \in Nat
    <3>1. PICK j \in D : TRUE
      BY Zenon
    <3>2. j \in Nat /\ j >= 1 /\ j <= u
      BY <1>4, <3>1
    <3> QED BY <1>4, <3>2
  <2>3. u - 1 \in U
    BY <2>1, <2>2 DEF U
  <2> QED BY <1>3, <1>4, <2>3
<1>6. \E x \in D : \A y \in D : x >= y
  BY <1>4, <1>5
<1>7. Lines!Max(D) \in D /\ \A y \in D : Lines!Max(D) >= y
  BY <1>6, Zenon DEF Lines!Max
<1> QED BY <1>4, <1>7

\* One more line, or none.
LEMMA LinesOneMore ==
  ASSUME NEW n \in Nat, NEW D \in SUBSET (1..n), NEW c \in BOOLEAN
  PROVE  /\ IsFiniteSet(D) /\ Cardinality(D) \in Nat
         /\ Cardinality(D \union (IF c THEN {n + 1} ELSE {})) = Cardinality(D) + Lines!One(c)
<1>1. IsFiniteSet(1..n)
  BY FS_Interval
<1>2. IsFiniteSet(D) /\ Cardinality(D) \in Nat
  BY <1>1, FS_Subset, FS_CardinalityType, Zenon
<1>3. n + 1 \notin D
  OBVIOUS
<1>4. Cardinality(D \union {n + 1}) = Cardinality(D) + 1
  BY <1>2, <1>3, FS_AddElement
<1>5. D \union {} = D
  OBVIOUS
<1> QED BY <1>2, <1>4, <1>5 DEF Lines!One

\* What the reference says of the lines K under the options o.
LinesExcluded(o, content) ==
  \/ o.include # {} /\ Lines!ToSet(content) \intersect o.include = {}
  \/ Lines!ToSet(content) \intersect o.exclude # {}
\* The date that the line i has or inherits: the latest among the lines up to it.
LinesDatedBy(K, i) ==
  LET dated == {j \in 1..i : Lines!Dated(K[j])} IN IF dated = {} THEN "none" ELSE Head(K[Lines!Max(dated)])
\* The lines that are not blank.
LinesNonblank(K) == {i \in 1..Len(K) : ~Lines!Blank(Lines!Content(K[i]))}
\* The line i is in the window and is not filtered out.
LinesCounts(K, o, i) == (~o.window \/ LinesDatedBy(K, i) = "t") /\ ~LinesExcluded(o, Lines!Content(K[i]))
\* The lines that are analyzed.
LinesCounted(K, o) == {i \in LinesNonblank(K) : LinesCounts(K, o, i)}
\* Those of them whose content is q.
LinesWith(K, o, q) == {i \in LinesCounted(K, o) : Lines!Content(K[i]) = q}
\* The lines that were too long.
LinesLong(C) == {i \in 1..Len(C) : C[i]}

\* The options of a run, and the dates that a line may have.
LinesOptions == [window : BOOLEAN, include : SUBSET Lines!Bytes, exclude : SUBSET Lines!Bytes]
LinesDates == {"none"} \union Lines!Timestamps

\* A line is dated by a date of an earlier line or by none.
LEMMA LinesDatedByType ==
  ASSUME NEW K \in Seq(Seq(Lines!Bytes)), NEW i \in 0..Len(K)
  PROVE  LinesDatedBy(K, i) \in LinesDates
<1> DEFINE D == {j \in 1..i : Lines!Dated(K[j])}
<1>1. CASE D = {}
  BY <1>1 DEF LinesDatedBy, LinesDates
<1>2. CASE D # {}
  <2>1. i \in Nat /\ D \in SUBSET (1..i)
    OBVIOUS
  <2> HIDE DEF D
  <2>2. Lines!Max(D) \in D
    BY <1>2, <2>1, LinesLatest, Zenon
  <2>3. Head(K[Lines!Max(D)]) \in Lines!Timestamps
    BY <2>2 DEF D, Lines!Dated
  <2>4. LinesDatedBy(K, i) = Head(K[Lines!Max(D)])
    BY <1>2, Zenon DEF LinesDatedBy, D
  <2> QED BY <2>3, <2>4 DEF LinesDates
<1> QED BY <1>1, <1>2

\* A line more leaves what the lines before it were dated by, and dates itself or inherits.
LEMMA LinesDatedByNext ==
  ASSUME NEW K \in Seq(Seq(Lines!Bytes)), NEW k \in Seq(Lines!Bytes)
  PROVE  /\ \A i \in 0..Len(K) : LinesDatedBy(Append(K, k), i) = LinesDatedBy(K, i)
         /\ LinesDatedBy(Append(K, k), Len(K) + 1) = IF Lines!Dated(k) THEN Head(k) ELSE LinesDatedBy(K, Len(K))
<1> DEFINE n == Len(K)
           L == Append(K, k)
           D(M, i) == {j \in 1..i : Lines!Dated(M[j])}
<1>1. n \in Nat /\ L[n + 1] = k /\ \A j \in 1..n : L[j] = K[j]
  OBVIOUS
<1> HIDE DEF n, L
<1>2. ASSUME NEW i \in 0..n PROVE D(L, i) = D(K, i) /\ LinesDatedBy(L, i) = LinesDatedBy(K, i)
  <2>1. \A j \in 1..i : L[j] = K[j]
    <3>1. \A j \in 1..i : j \in 1..n
      BY <1>1
    <3> QED BY <1>1, <3>1, Zenon
  <2>2. D(L, i) = D(K, i)
    BY <2>1
  <2> DEFINE E == D(K, i)
  <2>3. E = {} \/ Lines!Max(E) \in 1..i
    <3>1. i \in Nat /\ E \in SUBSET (1..i)
      BY <1>1
    <3> HIDE DEF E
    <3> QED BY <3>1, LinesLatest, Zenon
  <2>4. LinesDatedBy(L, i) = IF E = {} THEN "none" ELSE Head(L[Lines!Max(E)])
    BY <2>2, Zenon DEF LinesDatedBy
  <2>5. LinesDatedBy(K, i) = IF E = {} THEN "none" ELSE Head(K[Lines!Max(E)])
    BY Zenon DEF LinesDatedBy
  <2> HIDE DEF E
  <2> QED BY <2>1, <2>2, <2>3, <2>4, <2>5
<1>3. CASE Lines!Dated(k)
  <2> DEFINE E == D(L, n + 1)
  <2>1. n + 1 \in E /\ E \in SUBSET (1..(n + 1)) /\ n + 1 \in Nat
    BY <1>1, <1>3
  <2>2. LinesDatedBy(L, n + 1) = IF E = {} THEN "none" ELSE Head(L[Lines!Max(E)])
    BY Zenon DEF LinesDatedBy
  <2> HIDE DEF E
  <2>3. Lines!Max(E) \in E /\ n + 1 <= Lines!Max(E)
    BY <2>1, LinesLatest, Zenon
  <2>4. Lines!Max(E) = n + 1
    <3>1. Lines!Max(E) \in 1..(n + 1)
      BY <2>1, <2>3, Zenon
    <3> HIDE DEF D
    <3> DEFINE x == Lines!Max(E)
    <3>2. x \in 1..(n + 1) /\ n + 1 <= x
      BY <2>3, <3>1
    <3> HIDE DEF x
    <3>3. x = n + 1
      BY <1>1, <3>2
    <3> QED BY <3>3 DEF x
  <2> QED BY <1>1, <1>2, <1>3, <2>1, <2>2, <2>4, Zenon DEF n, L
<1>4. CASE ~Lines!Dated(k)
  <2>1. D(L, n + 1) = D(L, n)
    <3>1. 1..(n + 1) = 1..n \union {n + 1}
      BY <1>1
    <3> QED BY <1>1, <1>4, <3>1
  <2>2. LinesDatedBy(L, n + 1) = LinesDatedBy(L, n)
    BY <2>1, Zenon DEF LinesDatedBy
  <2>3. n \in 0..n
    BY <1>1
  <2>4. LinesDatedBy(L, n) = LinesDatedBy(K, n)
    BY <1>2, <2>3
  <2> QED BY <1>2, <1>4, <2>2, <2>4 DEF n, L
<1> QED BY <1>3, <1>4

\* What a line adds to the lines that are not blank, that count, that have a content.
LinesSets(K, L, o, content, shown, counts) ==
  /\ LinesNonblank(L) = LinesNonblank(K) \union (IF shown THEN {Len(K) + 1} ELSE {})
  /\ LinesCounted(L, o) = LinesCounted(K, o) \union (IF counts THEN {Len(K) + 1} ELSE {})
  /\ \A q : LinesWith(L, o, q) = LinesWith(K, o, q) \union (IF counts /\ content = q THEN {Len(K) + 1} ELSE {})
  /\ \A i \in 1..Len(K) : Lines!Content(L[i]) = Lines!Content(K[i])
  /\ Lines!Content(L[Len(K) + 1]) = content

\* LinesSets holds when a line is added.
LEMMA LinesSetsNext ==
  ASSUME NEW K \in Seq(Seq(Lines!Bytes)), NEW k \in Seq(Lines!Bytes), NEW o,
         NEW content, content = Lines!Content(k), NEW shown \in BOOLEAN, shown = ~Lines!Blank(content),
         NEW counts \in BOOLEAN,
         counts = (shown /\ (~o.window \/ LinesDatedBy(Append(K, k), Len(K) + 1) = "t") /\ ~LinesExcluded(o, content))
  PROVE  LinesSets(K, Append(K, k), o, content, shown, counts)
<1> DEFINE n == Len(K)
           L == Append(K, k)
<1>1. n \in Nat /\ L[n + 1] = k /\ Len(L) = n + 1 /\ \A j \in 1..n : L[j] = K[j]
  OBVIOUS
<1>2. 1..(n + 1) = 1..n \union {n + 1} /\ n + 1 \notin 1..n
  BY <1>1
<1>3. \A i \in 1..n : LinesDatedBy(L, i) = LinesDatedBy(K, i)
  <2>1. \A i \in 0..n : LinesDatedBy(L, i) = LinesDatedBy(K, i)
    BY LinesDatedByNext
  <2> QED BY <1>1, <2>1
<1> HIDE DEF n, L
<1>4. LinesNonblank(L) = LinesNonblank(K) \union (IF shown THEN {n + 1} ELSE {})
  BY <1>1, <1>2, Zenon DEF LinesNonblank, n
<1>5. LinesNonblank(K) \subseteq 1..n
  BY DEF LinesNonblank, n
<1>6. \A i \in 1..n : LinesCounts(L, o, i) <=> LinesCounts(K, o, i)
  BY <1>1, <1>3 DEF LinesCounts
<1>7. LinesCounts(L, o, n + 1) /\ shown <=> counts
  BY <1>1, Zenon DEF LinesCounts, n, L
<1>8. LinesCounted(L, o) = LinesCounted(K, o) \union (IF counts THEN {n + 1} ELSE {})
  BY <1>2, <1>4, <1>5, <1>6, <1>7 DEF LinesCounted
<1>9. LinesCounted(K, o) \subseteq 1..n
  BY <1>5 DEF LinesCounted
<1>10. \A q : LinesWith(L, o, q) = LinesWith(K, o, q) \union (IF counts /\ content = q THEN {n + 1} ELSE {})
  BY <1>1, <1>2, <1>8, <1>9 DEF LinesWith
<1> QED BY <1>1, <1>4, <1>8, <1>10 DEF n, L, LinesSets
-------------------------------------------------------------------------------

\* A store of patterns, as pairs of a pattern and a number for each of its lines.
LinesPairs(store) == UNION {{p} \X (1..store[p]) : p \in DOMAIN store}

\* A store of patterns: finitely many, each with a number of lines.
LinesStore(store) ==
  /\ IsFiniteSet(DOMAIN store) /\ store \in [DOMAIN store -> Nat]
  /\ IsFiniteSet(LinesPairs(store))

\* The store s is the store with one line more of the pattern p.
LinesAdded(store, p, s) ==
  /\ LinesStore(s)
  /\ DOMAIN s = DOMAIN store \union {p}
  /\ \A q \in DOMAIN store : s[q] = store[q] + (IF q = p THEN 1 ELSE 0)
  /\ p \notin DOMAIN store => s[p] = 1
  /\ Cardinality(LinesPairs(s)) = Cardinality(LinesPairs(store)) + 1

\* PatternStore.add, of a pattern that is tracked, adds one line of it.
LEMMA LinesAddPattern ==
  ASSUME NEW store, LinesStore(store), NEW p, NEW s, s = Lines!AddPattern(store, p), Lines!Tracked(store, p)
  PROVE  LinesAdded(store, p, s)
<1> DEFINE old == IF p \in DOMAIN store THEN store[p] ELSE 0
<1>1. s = [q \in DOMAIN store \union {p} |->
             (IF q \in DOMAIN store THEN store[q] ELSE 0) + (IF q = p THEN 1 ELSE 0)]
  BY DEF Lines!AddPattern
<1>2. store \in [DOMAIN store -> Nat]
  BY DEF LinesStore
<1>3. old \in Nat
  BY <1>2
<1>4. DOMAIN s = DOMAIN store \union {p} /\ s[p] = old + 1
  BY <1>1, <1>3
<1>5. \A q \in DOMAIN store : store[q] \in Nat /\ (q # p => s[q] = store[q])
  BY <1>1, <1>2
<1>6. s \in [DOMAIN s -> Nat]
  <2>1. \A q \in DOMAIN s : s[q] \in Nat
    BY <1>3, <1>4, <1>5
  <2>2. s = [q \in DOMAIN s |-> s[q]]
    BY <1>1
  <2> QED BY <2>1, <2>2
<1> HIDE DEF old
<1>7. LinesPairs(s) = LinesPairs(store) \union {<<p, old + 1>>}
  <2>1. ASSUME NEW q, NEW i PROVE <<q, i>> \in LinesPairs(s) <=> q \in DOMAIN s /\ i \in 1..s[q]
    BY DEF LinesPairs
  <2>2. ASSUME NEW q, NEW i PROVE <<q, i>> \in LinesPairs(store) <=> q \in DOMAIN store /\ i \in 1..store[q]
    BY DEF LinesPairs
  <2>3. \A x \in LinesPairs(s) \union LinesPairs(store) : x = <<x[1], x[2]>>
    BY DEF LinesPairs
  <2>4. 1..(old + 1) = 1..old \union {old + 1}
    BY <1>3
  <2>5. ASSUME NEW q, NEW i PROVE <<q, i>> \in LinesPairs(s) <=> <<q, i>> \in LinesPairs(store) \/ <<q, i>> = <<p, old + 1>>
    <3>1. CASE q # p
      BY <1>4, <1>5, <2>1, <2>2, <3>1
    <3>2. CASE q = p
      <4>1. (p \in DOMAIN store /\ old = store[p]) \/ (p \notin DOMAIN store /\ 1..old = {})
        BY DEF old
      <4> QED BY <1>4, <2>1, <2>2, <2>4, <3>2, <4>1
    <3> QED BY <3>1, <3>2
  <2> QED BY <2>3, <2>5
<1>8. <<p, old + 1>> \notin LinesPairs(store)
  <2>1. <<p, old + 1>> \in LinesPairs(store) => p \in DOMAIN store /\ old + 1 \in 1..store[p]
    BY DEF LinesPairs
  <2> QED BY <1>3, <2>1 DEF old
<1>9. IsFiniteSet(LinesPairs(s)) /\ Cardinality(LinesPairs(s)) = Cardinality(LinesPairs(store)) + 1
  BY <1>7, <1>8, FS_AddElement, Zenon DEF LinesStore
<1>10. IsFiniteSet(DOMAIN s)
  BY <1>4, FS_AddElement DEF LinesStore
<1> QED BY <1>4, <1>5, <1>6, <1>9, <1>10 DEF LinesAdded, LinesStore, old

\* The counters of lines.
LinesCounters ==
  [physical : Nat, analyzable : Nat, blank : Nat, filtered : Nat, undated : Nat,
   truncated : Nat, untracked : Nat, nul : Int, inherited : LinesDates]

\* The counters after one line more.
LinesNext(m, t, i, b, u, f, a, x) ==
  [m EXCEPT !.physical = @ + 1, !.truncated = @ + t, !.inherited = i, !.blank = @ + b,
            !.undated = @ + u, !.filtered = @ + f, !.analyzable = @ + a, !.untracked = @ + x]

\* r are the counters m with one line more.
LinesWent(m, r, t, i, f, a, x) ==
  /\ r \in LinesCounters
  /\ r.physical = m.physical + 1 /\ r.truncated = m.truncated + t /\ r.inherited = i
  /\ r.filtered = m.filtered + f /\ r.analyzable = m.analyzable + a /\ r.untracked = m.untracked + x

\* LinesNext adds what it is given, and the counters stay counters.
LEMMA LinesCountersNext ==
  ASSUME NEW m \in LinesCounters, NEW t \in Nat, NEW i \in LinesDates, NEW b \in Nat, NEW u \in Nat,
         NEW f \in Nat, NEW a \in Nat, NEW x \in Nat
  PROVE  LinesWent(m, LinesNext(m, t, i, b, u, f, a, x), t, i, f, a, x)
<1> DEFINE r == LinesNext(m, t, i, b, u, f, a, x)
<1>0. /\ m.physical \in Nat /\ m.truncated \in Nat /\ m.inherited \in LinesDates /\ m.blank \in Nat
      /\ m.undated \in Nat /\ m.filtered \in Nat /\ m.analyzable \in Nat /\ m.untracked \in Nat /\ m.nul \in Int
  BY DEF LinesCounters
<1>00. r = [m EXCEPT !.physical = @ + 1, !.truncated = @ + t, !.inherited = i, !.blank = @ + b,
              !.undated = @ + u, !.filtered = @ + f, !.analyzable = @ + a, !.untracked = @ + x]
  BY DEF LinesNext
<1>1. DOMAIN m = {"physical", "analyzable", "blank", "filtered", "undated", "truncated", "untracked", "nul", "inherited"}
  BY DEF LinesCounters
<1>2. r.physical = m.physical + 1
  BY <1>00, <1>0, <1>1
<1>3. r.truncated = m.truncated + t
  BY <1>00, <1>0, <1>1
<1>4. r = [physical |-> m.physical + 1, analyzable |-> m.analyzable + a, blank |-> m.blank + b, filtered |-> m.filtered + f,
           undated |-> m.undated + u, truncated |-> m.truncated + t, untracked |-> m.untracked + x, nul |-> m.nul, inherited |-> i]
  BY <1>00, Zenon DEF LinesCounters
<1>5. r \in LinesCounters
  BY <1>4, <1>0 DEF LinesCounters
<1> HIDE DEF r
<1>6. LinesWent(m, r, t, i, f, a, x)
  BY <1>4, <1>5 DEF LinesWent
<1> QED BY <1>6 DEF r

\* The date of a line k, its own or the one it inherits.
LinesDate(m, k) == IF Lines!Dated(k) THEN Head(k) ELSE m.inherited

\* r is what _record_line leaves of m and s for the kept bytes k, given what it
\* finds of the line: whether it is shown, counts, is skipped, has no room.
LinesRecordedAs(m, s, k, c, r, shown, counts, skipped, unkept) ==
  /\ shown = ~Lines!Blank(Lines!Content(k))
  /\ counts = (shown /\ (~options.window \/ LinesDate(m, k) = "t") /\ ~LinesExcluded(options, Lines!Content(k)))
  /\ skipped = (shown /\ ~counts)
  /\ unkept = (counts /\ ~Lines!Tracked(s, Lines!Content(k)))
  /\ r = [metrics |-> r.metrics, store |-> r.store]
  /\ r.metrics \in LinesCounters
  /\ r.metrics.physical = m.physical + 1
  /\ r.metrics.truncated = m.truncated + Lines!One(c)
  /\ r.metrics.inherited = LinesDate(m, k)
  /\ r.metrics.analyzable = m.analyzable + Lines!One(counts)
  /\ r.metrics.filtered = m.filtered + Lines!One(skipped)
  /\ r.metrics.untracked = m.untracked + Lines!One(unkept)
  /\ r.store = IF counts THEN Lines!AddPattern(s, Lines!Content(k)) ELSE s

\* The same, for what it finds whatever that is.
LinesRecorded(m, s, k, c, r) ==
  \E shown, counts, skipped, unkept \in BOOLEAN : LinesRecordedAs(m, s, k, c, r, shown, counts, skipped, unkept)

\* What _record_line does to the counters and to the store, of what it saw.
LEMMA LinesRecord ==
  ASSUME NEW m \in LinesCounters, NEW s, NEW bytes, NEW lf, NEW k, k = Lines!Kept(bytes, lf), k \in Seq(Lines!Bytes),
         options \in LinesOptions, NEW r, r = Lines!RecordLine([metrics |-> m, store |-> s], bytes, lf)
  PROVE  LinesRecorded(m, s, k, Lines!TooLong(bytes, lf), r)
<1> DEFINE content == Lines!Content(k)
           date == LinesDate(m, k)
           blank == Lines!Blank(content)
           shown == ~blank
           undated == ~blank /\ options.window /\ date = "none"
           old == ~blank /\ options.window /\ date = "o"
           filtered == undated \/ old \/ (~blank /\ Lines!Excluded(content))
           counted == ~blank /\ ~filtered
           unkept == counted /\ ~Lines!Tracked(s, content)
           rm == [m EXCEPT !.physical = @ + 1, !.truncated = @ + Lines!One(Lines!TooLong(bytes, lf)),
                           !.inherited = date, !.blank = @ + Lines!One(blank),
                           !.undated = @ + Lines!One(undated), !.filtered = @ + Lines!One(filtered),
                           !.analyzable = @ + Lines!One(counted),
                           !.untracked = @ + Lines!One(counted /\ ~Lines!Tracked(s, content))]
           rs == IF counted THEN Lines!AddPattern(s, content) ELSE s
<1>1. r = [metrics |-> rm, store |-> rs]
  BY Zenon DEF Lines!RecordLine, LinesDate
<1>2. \A c \in BOOLEAN : Lines!One(c) \in Nat
  BY DEF Lines!One
<1>3. date \in LinesDates
  BY DEF LinesCounters, LinesDates, LinesDate, Lines!Dated
<1>4. Lines!Excluded(content) <=> LinesExcluded(options, content)
  BY Zenon DEF Lines!Excluded, LinesExcluded
<1>5. /\ blank \in BOOLEAN /\ shown \in BOOLEAN /\ unkept \in BOOLEAN /\ undated \in BOOLEAN
      /\ filtered \in BOOLEAN /\ counted \in BOOLEAN /\ Lines!TooLong(bytes, lf) \in BOOLEAN
      /\ (counted /\ ~Lines!Tracked(s, content)) \in BOOLEAN
  BY DEF Lines!Blank, Lines!TooLong
<1>6. /\ rm \in LinesCounters
      /\ rm.physical = m.physical + 1 /\ rm.truncated = m.truncated + Lines!One(Lines!TooLong(bytes, lf))
      /\ rm.inherited = date /\ rm.filtered = m.filtered + Lines!One(filtered)
      /\ rm.analyzable = m.analyzable + Lines!One(counted)
      /\ rm.untracked = m.untracked + Lines!One(unkept)
  <2> DEFINE tl == Lines!One(Lines!TooLong(bytes, lf))
             b == Lines!One(blank)
             u == Lines!One(undated)
             f == Lines!One(filtered)
             a == Lines!One(counted)
             x == Lines!One(unkept)
  <2>1. tl \in Nat /\ b \in Nat /\ u \in Nat /\ f \in Nat /\ a \in Nat /\ x \in Nat
    BY <1>2, <1>5, Zenon
  <2> HIDE DEF tl, b, u, f, a, x
  <2>2. rm = LinesNext(m, tl, date, b, u, f, a, x)
    BY Zenon DEF LinesNext, tl, b, u, f, a, x
  <2> HIDE DEF rm
  <2>3. LinesWent(m, LinesNext(m, tl, date, b, u, f, a, x), tl, date, f, a, x)
    BY <1>3, <2>1, LinesCountersNext, Zenon
  <2> QED BY <2>2, <2>3 DEF LinesWent, tl, f, a, x
<1>7. counted = (shown /\ (~options.window \/ date = "t") /\ ~LinesExcluded(options, content))
  BY <1>3, <1>4, <1>5 DEF LinesDates, Lines!Timestamps, LinesOptions
<1>8. filtered = (shown /\ ~counted)
  BY <1>5
<1>12. unkept = (counted /\ ~Lines!Tracked(s, content))
  OBVIOUS
<1>13. shown = ~Lines!Blank(content)
  OBVIOUS
<1> HIDE DEF rm, blank, filtered, undated, old, counted, shown, unkept
<1>9. r.metrics = rm /\ r.store = rs /\ r = [metrics |-> r.metrics, store |-> r.store]
  BY <1>1
<1> HIDE DEF rs
<1>11. rs = IF counted THEN Lines!AddPattern(s, content) ELSE s
  BY DEF rs
<1> QED BY <1>5, <1>6, <1>7, <1>8, <1>9, <1>11, <1>12, <1>13, Zenon DEF LinesRecorded, LinesRecordedAs

\* What the counters say of the lines K, of which C tells the ones that were too long.
LinesSeen(K, C, o, m) ==
  /\ m \in LinesCounters
  /\ m.physical = Len(K)
  /\ m.inherited = LinesDatedBy(K, Len(K))
  /\ m.analyzable = Cardinality(LinesCounted(K, o))
  /\ m.filtered = Cardinality(LinesNonblank(K)) - Cardinality(LinesCounted(K, o))
  /\ m.truncated = Cardinality(LinesLong(C))

\* What the store has of them: a pattern that is not tracked met a full store,
\* and a store that is full stays so.
LinesStored(K, o, pr, m, store) ==
  /\ LinesStore(store) /\ DOMAIN pr \subseteq DOMAIN store
  /\ \A q \in DOMAIN store : store[q] = (IF q \in DOMAIN pr THEN pr[q] ELSE 0) + Cardinality(LinesWith(K, o, q))
  /\ \A i \in LinesCounted(K, o) :
       Lines!Content(K[i]) \in DOMAIN store \/ MaxPatterns <= Cardinality(DOMAIN store)
  /\ LinesCounted(K, o) = {} => store = pr
  /\ Cardinality(LinesPairs(store)) + m.untracked = Cardinality(LinesPairs(pr)) + m.analyzable

\* The counters and the store say what the lines K are.
LinesTally(K, C, o, pr, m, store) == LinesSeen(K, C, o, m) /\ LinesStored(K, o, pr, m, store)

\* The kept bytes of lines, and which of them were too long.
LinesKept(K, C) == K \in Seq(Seq(Lines!Bytes)) /\ C \in Seq(BOOLEAN) /\ Len(C) = Len(K)

\* A line and whether it was too long.
LinesLine(k, c) == k \in Seq(Lines!Bytes) /\ c \in BOOLEAN

\* The counters say so of one line more.
LEMMA LinesSeenNext ==
  ASSUME NEW K, NEW C, LinesKept(K, C),
         NEW k, NEW c, LinesLine(k, c), NEW m, NEW s, LinesSeen(K, C, options, m),
         NEW r, LinesRecorded(m, s, k, c, r)
  PROVE  /\ LinesSeen(Append(K, k), Append(C, c), options, r.metrics)
         /\ LinesDatedBy(Append(K, k), Len(K) + 1) = LinesDate(m, k)
<1>0. K \in Seq(Seq(Lines!Bytes)) /\ C \in Seq(BOOLEAN) /\ Len(C) = Len(K) /\ k \in Seq(Lines!Bytes) /\ c \in BOOLEAN
  BY DEF LinesKept, LinesLine
<1> PICK shown, counts, skipped, unkept \in BOOLEAN : LinesRecordedAs(m, s, k, c, r, shown, counts, skipped, unkept)
  BY Zenon DEF LinesRecorded
<1> DEFINE o == options
           content == Lines!Content(k)
           date == LinesDate(m, k)
           rm == r.metrics
           n == Len(K)
           L == Append(K, k)
           D == Append(C, c)
<1>1. n \in Nat /\ Len(L) = n + 1 /\ Len(D) = n + 1 /\ D[n + 1] = c /\ \A i \in 1..n : D[i] = C[i]
  BY <1>0
<1>16. /\ content = Lines!Content(k) /\ shown = ~Lines!Blank(content)
       /\ counts = (shown /\ (~o.window \/ date = "t") /\ ~LinesExcluded(o, content))
       /\ skipped = (shown /\ ~counts)
       /\ rm \in LinesCounters /\ rm.inherited = date
       /\ rm.physical = m.physical + 1 /\ rm.truncated = m.truncated + Lines!One(c)
       /\ rm.analyzable = m.analyzable + Lines!One(counts) /\ rm.filtered = m.filtered + Lines!One(skipped)
  BY Zenon DEF LinesRecordedAs
<1>2. LinesDatedBy(L, n + 1) = date
  BY <1>0, LinesDatedByNext DEF LinesSeen, LinesDate
<1> HIDE DEF o, content, date, rm
<1>3. counts = (shown /\ (~o.window \/ LinesDatedBy(L, n + 1) = "t") /\ ~LinesExcluded(o, content))
  BY <1>2, <1>16
<1>10. LinesSets(K, L, o, content, shown, counts)
  BY <1>0, <1>3, <1>16, LinesSetsNext, Zenon
<1>4. /\ LinesNonblank(L) = LinesNonblank(K) \union (IF shown THEN {n + 1} ELSE {})
      /\ LinesCounted(L, o) = LinesCounted(K, o) \union (IF counts THEN {n + 1} ELSE {})
  BY <1>10 DEF LinesSets
<1>5. LinesLong(D) = LinesLong(C) \union (IF c THEN {n + 1} ELSE {})
  <2>1. 1..(n + 1) = 1..n \union {n + 1} /\ n + 1 \notin 1..n
    BY <1>1
  <2> HIDE DEF n, L, D
  <2>2. Len(C) = n
    BY <1>0 DEF n
  <2> QED BY <1>1, <2>1, <2>2 DEF LinesLong
<1>6. LinesNonblank(K) \in SUBSET (1..n) /\ LinesCounted(K, o) \in SUBSET (1..n) /\ LinesLong(C) \in SUBSET (1..n)
  BY <1>0 DEF LinesNonblank, LinesCounted, LinesLong, n
<1> HIDE DEF n, L, D
<1> DEFINE x == Cardinality(LinesNonblank(K))
           y == Cardinality(LinesCounted(K, o))
           z == Cardinality(LinesLong(C))
<1>7. /\ x \in Nat /\ y \in Nat /\ z \in Nat
      /\ Cardinality(LinesNonblank(L)) = x + Lines!One(shown)
      /\ Cardinality(LinesCounted(L, o)) = y + Lines!One(counts)
      /\ Cardinality(LinesLong(D)) = z + Lines!One(c)
  <2>1. x \in Nat /\ Cardinality(LinesNonblank(L)) = x + Lines!One(shown)
    BY <1>1, <1>4, <1>6, LinesOneMore, Zenon
  <2>2. y \in Nat /\ Cardinality(LinesCounted(L, o)) = y + Lines!One(counts)
    BY <1>1, <1>4, <1>6, LinesOneMore, Zenon
  <2>3. z \in Nat /\ Cardinality(LinesLong(D)) = z + Lines!One(c)
    BY <1>0, <1>1, <1>5, <1>6, LinesOneMore, Zenon
  <2> QED BY <2>1, <2>2, <2>3
<1>11. (counts => shown) /\ (skipped <=> shown /\ ~counts)
  BY <1>3, <1>16, Zenon
<1>8. m.filtered = x - y /\ m.analyzable = y /\ m.truncated = z /\ m.physical = n
  BY DEF LinesSeen, n, o
<1> HIDE DEF x, y, z
<1>9. (x + Lines!One(shown)) - (y + Lines!One(counts)) = x - y + Lines!One(skipped)
  <2>1. CASE counts
    BY <1>0, <1>7, <1>11, <2>1 DEF Lines!One
  <2>2. CASE ~counts /\ shown
    BY <1>0, <1>7, <1>11, <2>2 DEF Lines!One
  <2>3. CASE ~counts /\ ~shown
    BY <1>0, <1>7, <1>11, <2>3 DEF Lines!One
  <2> QED BY <1>11, <2>1, <2>2, <2>3
<1>12. /\ rm.physical = n + 1 /\ rm.inherited = date
       /\ rm.analyzable = y + Lines!One(counts) /\ rm.truncated = z + Lines!One(c)
       /\ rm.filtered = x - y + Lines!One(skipped)
  BY <1>8, <1>16
<1>13. rm.filtered = Cardinality(LinesNonblank(L)) - Cardinality(LinesCounted(L, o))
  <2> DEFINE X == Cardinality(LinesNonblank(L))
             Y == Cardinality(LinesCounted(L, o))
             sx == x + Lines!One(shown)
             sy == y + Lines!One(counts)
             d == x - y + Lines!One(skipped)
  <2>1. X = sx /\ Y = sy
    BY <1>7
  <2>2. sx - sy = d
    BY <1>9
  <2>3. rm.filtered = d
    BY <1>12
  <2> HIDE DEF X, Y, sx, sy, d
  <2>4. rm.filtered = X - Y
    BY <2>1, <2>2, <2>3
  <2> QED BY <2>4 DEF X, Y
<1>14. rm.physical = Len(L) /\ rm.inherited = LinesDatedBy(L, Len(L))
  BY <1>1, <1>2, <1>12
<1>15. LinesSeen(L, D, o, rm)
  BY <1>7, <1>12, <1>13, <1>14, <1>16, Zenon DEF LinesSeen
<1> QED BY <1>2, <1>15 DEF n, L, D, o, date, rm

\* The store says so of one line more.
LEMMA LinesStoredNext ==
  ASSUME NEW K \in Seq(Seq(Lines!Bytes)), NEW k \in Seq(Lines!Bytes), NEW c, NEW pr, LinesStore(pr),
         NEW m \in LinesCounters, NEW s, LinesStored(K, options, pr, m, s), MaxPatterns \in Nat,
         NEW e, LinesRecorded(m, s, k, c, e), LinesDatedBy(Append(K, k), Len(K) + 1) = LinesDate(m, k)
  PROVE  LinesStored(Append(K, k), options, pr, e.metrics, e.store)
<1> PICK shown, counts, skipped, unkept \in BOOLEAN : LinesRecordedAs(m, s, k, c, e, shown, counts, skipped, unkept)
  BY Zenon DEF LinesRecorded
<1> DEFINE o == options
           content == Lines!Content(k)
           r == e.metrics
           t == e.store
<1>14. /\ content = Lines!Content(k) /\ shown = ~Lines!Blank(content)
       /\ counts = (shown /\ (~o.window \/ LinesDatedBy(Append(K, k), Len(K) + 1) = "t") /\ ~LinesExcluded(o, content))
       /\ unkept = (counts /\ ~Lines!Tracked(s, content))
       /\ r \in LinesCounters /\ LinesStored(K, o, pr, m, s)
       /\ r.analyzable = m.analyzable + Lines!One(counts) /\ r.untracked = m.untracked + Lines!One(unkept)
       /\ t = IF counts THEN Lines!AddPattern(s, content) ELSE s
  BY Zenon DEF LinesRecordedAs
<1>15. MaxPatterns \in Nat /\ LinesStore(pr)
  OBVIOUS
<1> HIDE DEF o, content, r, t
<1> DEFINE n == Len(K)
           L == Append(K, k)
           A == Cardinality(LinesPairs(pr))
           B == Cardinality(LinesPairs(s))
<1>1. LinesSets(K, L, o, content, shown, counts)
  BY <1>14, LinesSetsNext, Zenon
<1>2. n \in Nat
  OBVIOUS
<1> HIDE DEF n, L
<1>3. /\ LinesCounted(L, o) = LinesCounted(K, o) \union (IF counts THEN {n + 1} ELSE {})
      /\ \A q : LinesWith(L, o, q) = LinesWith(K, o, q) \union (IF counts /\ content = q THEN {n + 1} ELSE {})
      /\ \A i \in 1..n : Lines!Content(L[i]) = Lines!Content(K[i])
      /\ Lines!Content(L[n + 1]) = content
  BY <1>1 DEF LinesSets, n
<1>4. LinesCounted(K, o) \in SUBSET (1..n) /\ \A q : LinesWith(K, o, q) \in SUBSET LinesCounted(K, o)
  BY DEF LinesNonblank, LinesCounted, LinesWith, n
<1>5. \A i \in LinesCounted(K, o) : Lines!Content(L[i]) = Lines!Content(K[i])
  BY <1>3, <1>4
<1>6. A \in Nat /\ B \in Nat /\ m.untracked \in Nat /\ m.analyzable \in Nat
  BY <1>14, FS_CardinalityType DEF LinesStored, LinesStore, LinesCounters
<1>7. B + m.untracked = A + m.analyzable
  BY <1>14 DEF LinesStored
<1>8. /\ LinesStore(s) /\ DOMAIN pr \subseteq DOMAIN s
      /\ \A q \in DOMAIN s : s[q] = (IF q \in DOMAIN pr THEN pr[q] ELSE 0) + Cardinality(LinesWith(K, o, q))
      /\ \A i \in LinesCounted(K, o) :
           Lines!Content(K[i]) \in DOMAIN s \/ MaxPatterns <= Cardinality(DOMAIN s)
      /\ LinesCounted(K, o) = {} => s = pr
  BY <1>14 DEF LinesStored
<1>9. Cardinality(DOMAIN s) \in Nat
  BY <1>8, FS_CardinalityType DEF LinesStore
<1>10. Lines!Tracked(s, content) <=> content \in DOMAIN s \/ Cardinality(DOMAIN s) < MaxPatterns
  BY DEF Lines!Tracked, Lines!Cardinality, Cardinality
<1>11. ASSUME ~counts PROVE LinesStored(L, o, pr, r, t)
  <2>1. t = s /\ LinesCounted(L, o) = LinesCounted(K, o) /\ \A q : LinesWith(L, o, q) = LinesWith(K, o, q)
    BY <1>3, <1>11, <1>14, Zenon
  <2>2. Lines!One(counts) = 0 /\ Lines!One(unkept) = 0
    BY <1>11, <1>14 DEF Lines!One
  <2>3. r.analyzable = m.analyzable /\ r.untracked = m.untracked
    BY <1>6, <1>14, <2>2
  <2> QED BY <1>5, <1>7, <1>8, <2>1, <2>3 DEF LinesStored
<1>12. ASSUME counts, ~Lines!Tracked(s, content) PROVE LinesStored(L, o, pr, r, t)
  <2>1. t = s
    BY <1>12, <1>14 DEF Lines!AddPattern
  <2>2. content \notin DOMAIN s /\ MaxPatterns <= Cardinality(DOMAIN s)
    BY <1>9, <1>10, <1>12
  <2>3. \A q \in DOMAIN s : LinesWith(L, o, q) = LinesWith(K, o, q)
    BY <1>3, <2>2, Zenon
  <2>4. Lines!One(counts) = 1 /\ Lines!One(unkept) = 1
    BY <1>12, <1>14 DEF Lines!One
  <2>5. B + r.untracked = A + r.analyzable
    <3> DEFINE u == m.untracked
               a == m.analyzable
    <3>1. r.untracked = u + 1 /\ r.analyzable = a + 1
      BY <1>14, <2>4
    <3>2. u \in Nat /\ a \in Nat /\ B + u = A + a
      BY <1>6, <1>7
    <3> HIDE DEF A, B, u, a
    <3>3. B + (u + 1) = A + (a + 1)
      BY <1>6, <3>2
    <3> QED BY <3>1, <3>3
  <2>6. LinesCounted(L, o) # {}
    BY <1>3, <1>12
  <2> QED BY <1>8, <2>1, <2>2, <2>3, <2>5, <2>6 DEF LinesStored
<1>13. ASSUME counts, Lines!Tracked(s, content) PROVE LinesStored(L, o, pr, r, t)
  <2>1. t = Lines!AddPattern(s, content)
    BY <1>13, <1>14
  <2>11. LinesAdded(s, content, t)
    BY <1>8, <1>13, <2>1, LinesAddPattern, Zenon
  <2>2. /\ LinesStore(t)
        /\ DOMAIN t = DOMAIN s \union {content}
        /\ \A q \in DOMAIN s : t[q] = s[q] + (IF q = content THEN 1 ELSE 0)
        /\ content \notin DOMAIN s => t[content] = 1
        /\ Cardinality(LinesPairs(t)) = B + 1
    BY <2>11 DEF LinesAdded
  <2>3. Lines!One(counts) = 1 /\ Lines!One(unkept) = 0
    BY <1>13, <1>14, Zenon DEF Lines!One
  <2>4. Cardinality(LinesPairs(t)) + r.untracked = A + r.analyzable
    <3> DEFINE u == m.untracked
               a == m.analyzable
    <3>1. r.untracked = u + 0 /\ r.analyzable = a + 1
      BY <1>14, <2>3
    <3>2. u \in Nat /\ a \in Nat /\ B + u = A + a
      BY <1>6, <1>7
    <3> HIDE DEF A, B, u, a
    <3>3. (B + 1) + (u + 0) = A + (a + 1)
      BY <1>6, <3>2
    <3> QED BY <2>2, <3>1, <3>3
  <2>5. LinesCounted(L, o) # {}
    BY <1>3, <1>13
  <2>6. Cardinality(DOMAIN s) <= Cardinality(DOMAIN t) /\ Cardinality(DOMAIN t) \in Nat
    <3>1. IsFiniteSet(DOMAIN t) /\ DOMAIN s \subseteq DOMAIN t
      BY <2>2 DEF LinesStore
    <3> QED BY <3>1, FS_Subset, FS_CardinalityType
  <2>7. \A i \in LinesCounted(L, o) :
           Lines!Content(L[i]) \in DOMAIN t \/ MaxPatterns <= Cardinality(DOMAIN t)
    BY <1>3, <1>5, <1>8, <1>9, <2>2, <2>6
  <2>8. ASSUME NEW q \in DOMAIN s
        PROVE  t[q] = (IF q \in DOMAIN pr THEN pr[q] ELSE 0) + Cardinality(LinesWith(L, o, q))
    <3> DEFINE W == Cardinality(LinesWith(K, o, q))
               d == counts /\ content = q
               b == IF q \in DOMAIN pr THEN pr[q] ELSE 0
    <3>1. LinesWith(K, o, q) \in SUBSET (1..n) /\ d \in BOOLEAN
      BY <1>4
    <3>2. LinesWith(L, o, q) = LinesWith(K, o, q) \union (IF d THEN {n + 1} ELSE {})
      BY <1>3
    <3>3. W \in Nat /\ Cardinality(LinesWith(L, o, q)) = W + Lines!One(d)
      <4> HIDE DEF d
      <4> QED BY <1>2, <3>1, <3>2, LinesOneMore, Zenon
    <3>4. s[q] = b + W /\ s[q] \in Nat
      BY <1>8 DEF LinesStore
    <3>5. t[q] = s[q] + Lines!One(d)
      <4>1. Lines!One(d) = IF q = content THEN 1 ELSE 0
        BY <1>13, <1>14 DEF Lines!One
      <4> QED BY <2>2, <4>1
    <3>6. b \in Int
      BY <1>15 DEF LinesStore
    <3> DEFINE g == Lines!One(d)
    <3>7. g \in Nat
      BY DEF Lines!One
    <3> HIDE DEF W, d, g, b
    <3>9. t[q] = b + (W + g)
      BY <3>3, <3>4, <3>5, <3>6, <3>7 DEF g
    <3> QED BY <3>3, <3>9 DEF b, g
  <2>9. ASSUME content \notin DOMAIN s
        PROVE  t[content] = (IF content \in DOMAIN pr THEN pr[content] ELSE 0) + Cardinality(LinesWith(L, o, content))
    <3>1. LinesWith(K, o, content) = {}
      <4>1. \A i \in LinesWith(K, o, content) : i \in LinesCounted(K, o) /\ Lines!Content(K[i]) = content
        BY DEF LinesWith
      <4>2. Cardinality(DOMAIN s) < MaxPatterns
        BY <1>10, <1>13, <2>9
      <4> QED BY <1>8, <1>9, <2>9, <4>1, <4>2
    <3>2. LinesWith(L, o, content) = LinesWith(K, o, content) \union (IF counts THEN {n + 1} ELSE {})
      BY <1>3
    <3>5. LinesWith(K, o, content) \in SUBSET (1..n)
      BY <3>1
    <3>3. Cardinality(LinesWith(L, o, content)) = Cardinality(LinesWith(K, o, content)) + Lines!One(counts)
      BY <1>2, <3>2, <3>5, LinesOneMore, Zenon
    <3>4. content \notin DOMAIN pr
      BY <1>8, <2>9
    <3> QED BY <2>2, <2>3, <2>9, <3>1, <3>3, <3>4, FS_EmptySet
  <2>10. DOMAIN pr \subseteq DOMAIN t
    BY <1>8, <2>2
  <2> QED BY <2>2, <2>4, <2>5, <2>7, <2>8, <2>9, <2>10, Zenon DEF LinesStored
<1> QED BY <1>11, <1>12, <1>13 DEF L, o, r, t

\* The state st of RecordLine has counted the lines K.
LinesCountedAll(K, C, pr, st) ==
  /\ LinesKept(K, C)
  /\ st = [metrics |-> st.metrics, store |-> st.store]
  /\ LinesTally(K, C, options, pr, st.metrics, st.store)

\* _record_line counts one line more.
LEMMA LinesTallyNext ==
  ASSUME NEW K, NEW C, NEW pr, LinesStore(pr), NEW st, LinesCountedAll(K, C, pr, st),
         options \in LinesOptions, MaxPatterns \in Nat,
         NEW bytes, NEW lf, NEW k \in Seq(Lines!Bytes), k = Lines!Kept(bytes, lf),
         NEW c \in BOOLEAN, c = Lines!TooLong(bytes, lf)
  PROVE  LinesCountedAll(Append(K, k), Append(C, c), pr, Lines!RecordLine(st, bytes, lf))
<1> DEFINE r == Lines!RecordLine(st, bytes, lf)
           m == st.metrics
           s == st.store
<1>1. LinesKept(K, C) /\ K \in Seq(Seq(Lines!Bytes)) /\ st = [metrics |-> m, store |-> s]
      /\ LinesSeen(K, C, options, m) /\ LinesStored(K, options, pr, m, s)
  BY DEF LinesCountedAll, LinesTally, LinesKept
<1>2. m \in LinesCounters
  BY <1>1 DEF LinesSeen
<1>3. r = Lines!RecordLine([metrics |-> m, store |-> s], bytes, lf)
  BY <1>1
<1> HIDE DEF r, m, s
<1>5. LinesRecorded(m, s, k, c, r)
  BY <1>2, <1>3, LinesRecord
<1>6. r = [metrics |-> r.metrics, store |-> r.store]
  BY <1>5 DEF LinesRecorded, LinesRecordedAs
<1>10. LinesLine(k, c)
  BY DEF LinesLine
<1>7. /\ LinesSeen(Append(K, k), Append(C, c), options, r.metrics)
      /\ LinesDatedBy(Append(K, k), Len(K) + 1) = LinesDate(m, k)
  BY <1>1, <1>5, <1>10, LinesSeenNext, Zenon
<1>8. LinesStored(Append(K, k), options, pr, r.metrics, r.store)
  BY <1>1, <1>2, <1>5, <1>7, LinesStoredNext, Zenon
<1>9. LinesKept(Append(K, k), Append(C, c))
  BY <1>1 DEF LinesKept
<1> QED BY <1>6, <1>7, <1>8, <1>9 DEF LinesCountedAll, LinesTally, r

\* What _record_line does with the n-th part.
LinesPart(parts, n, st) ==
  IF n = 1 /\ overlong # << >> THEN Lines!RecordLine(st, overlong, FALSE) ELSE Lines!RecordLine(st, parts[n], TRUE)

\* RecordParts goes through the parts one by one.
LEMMA LinesPartsSteps ==
  ASSUME NEW parts, Len(parts) \in Nat, NEW st
  PROVE  \E after :
           /\ after[0] = st
           /\ \A n \in 1..Len(parts) : after[n] = LinesPart(parts, n, after[n - 1])
           /\ Lines!RecordParts(st, parts) = after[Len(parts)]
<1> DEFINE N == Len(parts)
           Step(n, x) == LinesPart(parts, n, x)
           Is(f) == f = [n \in 0..N |-> IF n = 0 THEN st ELSE Step(n, f[n - 1])]
           Upto(f, n) == f = [i \in 0..n |-> IF i = 0 THEN st ELSE Step(i, f[i - 1])]
           T == {n \in 0..N : \E f : Upto(f, n)}
           Cut(f) == f = [n \in 0..Len(parts) |->
                            IF n = 0 THEN st
                            ELSE IF n = 1 /\ overlong # << >> THEN Lines!RecordLine(f[n - 1], overlong, FALSE)
                            ELSE Lines!RecordLine(f[n - 1], parts[n], TRUE)]
           after == CHOOSE f : Cut(f)
<1>1. Lines!RecordParts(st, parts) = after[Len(parts)]
  BY Zenon DEF Lines!RecordParts
<1>2. N \in Nat
  OBVIOUS
<1>3. \A f : Is(f) <=> Cut(f)
  BY DEF LinesPart
<1> HIDE DEF N, Step, Cut
<1>4. 0 \in T
  <2> DEFINE f == [i \in 0..0 |-> st]
  <2>1. Upto(f, 0)
    OBVIOUS
  <2> HIDE DEF f, Upto
  <2> QED BY <1>2, <2>1
<1>5. ASSUME NEW n \in 1..N, n - 1 \in T PROVE n \in T
  <2>1. PICK f : Upto(f, n - 1)
    BY <1>5
  <2> DEFINE g == [i \in 0..n |-> IF i < n THEN f[i] ELSE Step(n, f[n - 1])]
  <2>2. n - 1 \in 0..(n - 1) /\ n \in Nat /\ n - 1 \in Nat
    BY <1>2
  <2>3. \A i \in 0..(n - 1) : g[i] = f[i] /\ f[i] = IF i = 0 THEN st ELSE Step(i, f[i - 1])
    BY <2>1, <2>2
  <2>4. g[n] = Step(n, f[n - 1]) /\ g[n - 1] = f[n - 1]
    BY <2>2
  <2>5. ASSUME NEW i \in 0..n PROVE g[i] = IF i = 0 THEN st ELSE Step(i, g[i - 1])
    <3>1. CASE i = n
      BY <2>2, <2>4, <3>1
    <3>2. CASE i # n
      <4>1. i \in 0..(n - 1) /\ (i = 0 \/ i - 1 \in 0..(n - 1))
        BY <2>2, <3>2
      <4> HIDE DEF g
      <4> QED BY <2>3, <4>1
    <3> QED BY <3>1, <3>2
  <2>6. Upto(g, n)
    <3>1. g = [i \in 0..n |-> g[i]]
      OBVIOUS
    <3> HIDE DEF g
    <3> QED BY <2>5, <3>1, Zenon
  <2> HIDE DEF g, Upto
  <2> QED BY <2>6
<1>6. \A n \in 1..N : n - 1 \in T => n \in T
  BY <1>5, Zenon
<1>7. PICK f : Upto(f, N)
  <2>1. N \in T
    <3> HIDE DEF T
    <3> QED BY <1>2, <1>4, <1>6, UpTo
  <2> QED BY <2>1
<1>8. Is(f)
  BY <1>7, Zenon
<1>9. Is(after)
  <2> HIDE DEF Is
  <2>1. Cut(after)
    BY <1>3, <1>8
  <2> QED BY <1>3, <2>1
<1> HIDE DEF after
<1>10. after[0] = st /\ \A n \in 1..N : after[n] = Step(n, after[n - 1])
  BY <1>2, <1>9
<1> QED BY <1>1, <1>10, Zenon DEF N, Step
-------------------------------------------------------------------------------

\* The bytes that are kept of the first n pieces, and which of them are too long.
LinesKeptOf(p, n) == [i \in 1..n |-> Lines!Kept(p[i], TRUE)]
LinesLongOf(p, n) == [i \in 1..n |-> Lines!TooLong(p[i], TRUE)]

\* The kept bytes of a text are a text.
LEMMA LinesKeptType ==
  ASSUME NEW bytes \in Seq(Lines!Bytes), NEW lf \in BOOLEAN, MaxLineBytes \in Nat
  PROVE  Lines!Kept(bytes, lf) \in Seq(Lines!Bytes) /\ Lines!TooLong(bytes, lf) \in BOOLEAN
<1> DEFINE line == Lines!StripCR(bytes, lf)
<1>1. line \in Seq(Lines!Bytes)
  BY DEF Lines!StripCR, Lines!Front
<1> HIDE DEF line
<1> DEFINE n == IF Len(line) > MaxLineBytes THEN MaxLineBytes ELSE Len(line)
<1>2. n \in 0..Len(line)
  BY <1>1
<1>3. Lines!Kept(bytes, lf) = SubSeq(line, 1, n)
  BY Zenon DEF Lines!Kept, line
<1> HIDE DEF n
<1> QED BY <1>1, <1>2, <1>3, LinesPrefix DEF Lines!TooLong

\* A function over 1..(n + 1) is its values over 1..n and one more.
LEMMA LinesAppended ==
  ASSUME NEW n \in Nat, NEW S, NEW f \in [1..(n + 1) -> S], NEW g, g = [i \in 1..n |-> f[i]]
  PROVE  f = Append(g, f[n + 1])
<1>1. g \in [1..n -> S] /\ n + 1 \in 1..(n + 1)
  OBVIOUS
<1>2. g \in Seq(S) /\ Len(g) = n
  BY <1>1
<1>3. Append(g, f[n + 1]) \in Seq(S) /\ Len(Append(g, f[n + 1])) = n + 1 /\ f \in Seq(S) /\ Len(f) = n + 1
  BY <1>1, <1>2
<1>4. \A i \in 1..(n + 1) : Append(g, f[n + 1])[i] = f[i]
  BY <1>1, <1>2
<1> QED BY <1>3, <1>4

\* One piece more is kept after those before it.
LEMMA LinesKeptOfNext ==
  ASSUME NEW p, NEW n \in Nat
  PROVE  /\ LinesKeptOf(p, n + 1) = Append(LinesKeptOf(p, n), Lines!Kept(p[n + 1], TRUE))
         /\ LinesLongOf(p, n + 1) = Append(LinesLongOf(p, n), Lines!TooLong(p[n + 1], TRUE))
<1> DEFINE K == LinesKeptOf(p, n + 1)
           L == LinesLongOf(p, n + 1)
           S == {Lines!Kept(p[i], TRUE) : i \in 1..(n + 1)}
           B == {Lines!TooLong(p[i], TRUE) : i \in 1..(n + 1)}
<1>2. K \in [1..(n + 1) -> S] /\ L \in [1..(n + 1) -> B] /\ n + 1 \in 1..(n + 1)
  <2>1. K \in [1..(n + 1) -> S]
    BY Zenon DEF LinesKeptOf
  <2>2. L \in [1..(n + 1) -> B]
    BY Zenon DEF LinesLongOf
  <2>3. n + 1 \in 1..(n + 1)
    OBVIOUS
  <2> HIDE DEF K, L, S, B
  <2> QED BY <2>1, <2>2, <2>3
<1>7. \A i \in 1..n : i \in 1..(n + 1)
  OBVIOUS
<1>3. K[n + 1] = Lines!Kept(p[n + 1], TRUE) /\ L[n + 1] = Lines!TooLong(p[n + 1], TRUE)
  BY <1>2 DEF LinesKeptOf, LinesLongOf
<1>4. LinesKeptOf(p, n) = [i \in 1..n |-> K[i]] /\ LinesLongOf(p, n) = [i \in 1..n |-> L[i]]
  <2>1. LinesKeptOf(p, n) = [i \in 1..n |-> K[i]]
    <3>1. \A i \in 1..n : K[i] = Lines!Kept(p[i], TRUE)
      BY <1>7, Zenon DEF LinesKeptOf
    <3> HIDE DEF K
    <3> QED BY <3>1, Zenon DEF LinesKeptOf
  <2>2. LinesLongOf(p, n) = [i \in 1..n |-> L[i]]
    <3>1. \A i \in 1..n : L[i] = Lines!TooLong(p[i], TRUE)
      BY <1>7, Zenon DEF LinesLongOf
    <3> HIDE DEF L
    <3> QED BY <3>1, Zenon DEF LinesLongOf
  <2> QED BY <2>1, <2>2
<1> HIDE DEF K, L, S, B
<1>5. K = Append(LinesKeptOf(p, n), K[n + 1])
  BY <1>2, <1>4, LinesAppended
<1>6. L = Append(LinesLongOf(p, n), L[n + 1])
  BY <1>2, <1>4, LinesAppended
<1> QED BY <1>3, <1>5, <1>6, Zenon DEF K, L

\* After the parts of a text w whose first m lines were counted, its lines are
\* counted up to the last part.
LEMMA LinesPartsCounted ==
  ASSUME NEW w, NEW m \in Nat, NEW parts \in Seq(Seq(Lines!Bytes)), NEW pr, LinesStore(pr), NEW st,
         options \in LinesOptions, MaxPatterns \in Nat, MaxLineBytes \in Nat, overlong \in Seq(Lines!Bytes),
         LinesCountedAll(LinesKeptOf(w, m), LinesLongOf(w, m), pr, st),
         \A n \in 1..Len(parts) :
           IF n = 1 /\ overlong # << >>
           THEN /\ Lines!Kept(overlong, FALSE) = Lines!Kept(w[m + n], TRUE)
                /\ Lines!TooLong(overlong, FALSE) = Lines!TooLong(w[m + n], TRUE)
           ELSE parts[n] = w[m + n]
  PROVE  LinesCountedAll(LinesKeptOf(w, m + Len(parts)), LinesLongOf(w, m + Len(parts)), pr, Lines!RecordParts(st, parts))
<1> DEFINE N == Len(parts)
<1>0. N \in Nat /\ \A n \in 1..N : parts[n] \in Seq(Lines!Bytes)
  OBVIOUS
<1>1. PICK after :
           /\ after[0] = st
           /\ \A n \in 1..N : after[n] = LinesPart(parts, n, after[n - 1])
           /\ Lines!RecordParts(st, parts) = after[N]
  BY <1>0, LinesPartsSteps
<1> DEFINE All(n) == LinesCountedAll(LinesKeptOf(w, m + n), LinesLongOf(w, m + n), pr, after[n])
           T == {n \in 0..N : All(n)}
<1>2. 0 \in T
  BY <1>0, <1>1
<1>3. ASSUME NEW n \in 1..N, n - 1 \in T PROVE n \in T
  <2>1. m + (n - 1) \in Nat /\ m + n = (m + (n - 1)) + 1 /\ n \in 0..N
    BY <1>0
  <2> DEFINE j == m + (n - 1)
             bytes == IF n = 1 /\ overlong # << >> THEN overlong ELSE parts[n]
             lf == ~(n = 1 /\ overlong # << >>)
             k == Lines!Kept(w[j + 1], TRUE)
             c == Lines!TooLong(w[j + 1], TRUE)
  <2>2. after[n] = Lines!RecordLine(after[n - 1], bytes, lf)
    BY <1>1, Zenon DEF LinesPart
  <2>3. bytes \in Seq(Lines!Bytes) /\ lf \in BOOLEAN
    BY <1>0
  <2>4. k = Lines!Kept(bytes, lf) /\ c = Lines!TooLong(bytes, lf)
    <3>1. CASE n = 1 /\ overlong # << >>
      BY <2>1, <3>1, Zenon
    <3>2. CASE ~(n = 1 /\ overlong # << >>)
      BY <2>1, <3>2, Zenon
    <3> QED BY <3>1, <3>2, Zenon
  <2>5. All(n - 1)
    BY <1>3
  <2> HIDE DEF bytes, lf, k, c
  <2>6. k \in Seq(Lines!Bytes) /\ c \in BOOLEAN
    BY <2>3, <2>4, LinesKeptType
  <2>7. LinesCountedAll(Append(LinesKeptOf(w, j), k), Append(LinesLongOf(w, j), c), pr, after[n])
    BY <2>2, <2>4, <2>5, <2>6, LinesTallyNext
  <2>8. LinesKeptOf(w, j + 1) = Append(LinesKeptOf(w, j), k) /\ LinesLongOf(w, j + 1) = Append(LinesLongOf(w, j), c)
    BY <2>1, LinesKeptOfNext, Zenon DEF k, c
  <2>9. All(n)
    BY <2>1, <2>7, <2>8, Zenon
  <2> QED BY <2>1, <2>9
<1>4. N \in T
  <2>1. \A n \in 1..N : n - 1 \in T => n \in T
    BY <1>3
  <2> HIDE DEF T, N
  <2>2. \A n \in 0..N : n \in T
    BY <1>0, <1>2, <2>1, UpTo
  <2> QED BY <1>0, <2>2
<1> QED BY <1>1, <1>4

\* v is the kept prefix of the overlong line y.
LinesStandsFor(v, y, lf) ==
  /\ v \in Seq(Lines!Bytes) /\ v # << >>
  /\ Lines!Kept(v, FALSE) = Lines!Kept(y, lf)
  /\ Lines!TooLong(v, FALSE) /\ Lines!TooLong(y, lf)
  /\ Lines!Overflows(y)
  /\ SubSeq(y, 1, MaxLineBytes + 1) = v

\* The kept prefix of an overlong line stands for it, however it goes on.
LEMMA LinesOverlong ==
  ASSUME NEW r \in Seq(Lines!Bytes), Lines!Overflows(r), NEW v, v = SubSeq(r, 1, MaxLineBytes + 1),
         NEW x \in Seq(Lines!Bytes), NEW lf, MaxLineBytes \in Nat
  PROVE  LinesStandsFor(v, r \o x, lf)
<1> DEFINE M == MaxLineBytes
           y == r \o x
           line == Lines!StripCR(y, lf)
<1>1. /\ Len(r) \in Nat /\ M \in Nat /\ M + 1 <= Len(r)
      /\ Len(r) = M + 1 => r[M + 1] # Lines!CR
  BY DEF Lines!Overflows, Lines!Last
<1>2. y \in Seq(Lines!Bytes) /\ Len(y) = Len(r) + Len(x) /\ Len(x) \in Nat /\ \A i \in 1..Len(r) : y[i] = r[i]
  OBVIOUS
<1>3. M + 1 \in 0..Len(r) /\ M \in 0..Len(r) /\ M + 1 \in 0..Len(y) /\ M \in 0..Len(y) /\ M \in 0..(M + 1)
  BY <1>1, <1>2
<1>15. \A i \in 1..(M + 1) : i \in 1..Len(r)
  BY <1>1
<1>16. \A i \in 1..M : i \in 1..(M + 1) /\ i \in 1..Len(r)
  BY <1>1
<1>4. v \in Seq(Lines!Bytes) /\ Len(v) = M + 1 /\ \A i \in 1..(M + 1) : v[i] = r[i]
  BY <1>3, LinesPrefix
<1> HIDE DEF y
<1>5. SubSeq(y, 1, M + 1) = v
  <2> DEFINE z == SubSeq(y, 1, M + 1)
  <2>1. z \in Seq(Lines!Bytes) /\ Len(z) = M + 1 /\ \A i \in 1..(M + 1) : z[i] = y[i]
    BY <1>2, <1>3, LinesPrefix
  <2> HIDE DEF z
  <2>2. \A i \in 1..(M + 1) : z[i] = v[i]
    BY <1>2, <1>4, <1>15, <2>1
  <2>3. z = v
    BY <1>4, <2>1, <2>2
  <2> QED BY <2>3 DEF z
<1>6. Lines!Overflows(y)
  <2>1. CASE Len(y) = M + 1
    <3>1. Len(r) = M + 1 /\ y[M + 1] = r[M + 1]
      BY <1>1, <1>2, <2>1
    <3> QED BY <1>1, <2>1, <3>1 DEF Lines!Overflows, Lines!Last
  <2>2. CASE Len(y) # M + 1
    BY <1>1, <1>2, <2>2 DEF Lines!Overflows
  <2> QED BY <2>1, <2>2
<1>7. line \in Seq(Lines!Bytes) /\ M + 1 <= Len(line) /\ \A i \in 1..M : line[i] = y[i]
  <2>1. CASE line = y
    BY <1>1, <1>2, <2>1
  <2>2. CASE line # y
    <3>1. y # << >> /\ Lines!Last(y) = Lines!CR /\ line = Lines!Front(y)
      BY <2>2 DEF Lines!StripCR
    <3>2. Len(y) # M + 1
      <4>1. ASSUME Len(y) = M + 1 PROVE FALSE
        <5>1. Len(r) = M + 1 /\ y[M + 1] = r[M + 1] /\ y[M + 1] = Lines!CR
          BY <1>1, <1>2, <3>1, <4>1 DEF Lines!Last
        <5> QED BY <1>1, <5>1
      <4> QED BY <4>1
    <3>3. Len(y) - 1 \in 0..Len(y) /\ M + 1 <= Len(y) - 1
      BY <1>1, <1>2, <3>2
    <3>4. line = SubSeq(y, 1, Len(y) - 1)
      BY <3>1 DEF Lines!Front
    <3>5. line \in Seq(Lines!Bytes) /\ Len(line) = Len(y) - 1 /\ \A i \in 1..(Len(y) - 1) : line[i] = y[i]
      BY <1>2, <3>3, <3>4, LinesPrefix
    <3> QED BY <1>1, <3>3, <3>5
  <2> QED BY <2>1, <2>2
<1>8. Lines!TooLong(y, lf)
  <2>1. Lines!TooLong(y, lf) <=> Len(line) > M
    BY DEF Lines!TooLong
  <2> HIDE DEF line
  <2> QED BY <1>1, <1>7, <2>1
<1>9. Lines!Kept(y, lf) = SubSeq(line, 1, M)
  <2>1. Lines!Kept(y, lf) = SubSeq(line, 1, IF Len(line) > M THEN M ELSE Len(line))
    BY Zenon DEF Lines!Kept
  <2> HIDE DEF line
  <2>2. Len(line) > M
    BY <1>1, <1>7
  <2> QED BY <2>1, <2>2
<1>10. Lines!StripCR(v, FALSE) = v
  BY DEF Lines!StripCR
<1>11. Lines!TooLong(v, FALSE)
  <2>1. Lines!TooLong(v, FALSE) <=> Len(v) > M
    BY <1>10, Zenon DEF Lines!TooLong
  <2>2. Len(v) > M
    BY <1>1, <1>4
  <2> QED BY <2>1, <2>2, Zenon
<1>12. Lines!Kept(v, FALSE) = SubSeq(v, 1, M)
  <2>1. Len(v) > M
    BY <1>1, <1>4
  <2> QED BY <1>10, <2>1, Zenon DEF Lines!Kept
<1>13. SubSeq(v, 1, M) = SubSeq(line, 1, M)
  <2> DEFINE a == SubSeq(v, 1, M)
             b == SubSeq(line, 1, M)
  <2> HIDE DEF line
  <2>1. M \in 0..Len(v) /\ M \in 0..Len(line)
    BY <1>1, <1>4, <1>7
  <2>2. a \in Seq(Lines!Bytes) /\ Len(a) = M /\ \A i \in 1..M : a[i] = v[i]
    BY <1>4, <2>1, LinesPrefix
  <2>3. b \in Seq(Lines!Bytes) /\ Len(b) = M /\ \A i \in 1..M : b[i] = line[i]
    BY <1>7, <2>1, LinesPrefix
  <2> HIDE DEF a, b
  <2>4. \A i \in 1..M : a[i] = b[i]
    BY <1>2, <1>4, <1>7, <1>16, <2>2, <2>3, Zenon
  <2>5. a = b
    BY <2>2, <2>3, <2>4
  <2> QED BY <2>5 DEF a, b
<1>14. v # << >>
  BY <1>1, <1>4
<1> QED BY <1>4, <1>5, <1>6, <1>8, <1>9, <1>11, <1>12, <1>13, <1>14, Zenon DEF y, LinesStandsFor

\* What is held of the line r whose end was not read yet.
LinesHeld(r, p, v) ==
  /\ v # << >> => Lines!Overflows(r) /\ v = SubSeq(r, 1, MaxLineBytes + 1) /\ p = << >>
  /\ v = << >> => p = r /\ ~Lines!Overflows(r)

\* The parts of a chunk, and what is held after it, against the pieces of the whole.
LinesAgree(P, W, q, m, v) ==
  /\ Len(W) = m + Len(q) /\ Len(q) \in Nat \ {0}
  /\ \A i \in 1..m : W[i] = P[i]
  /\ \A i \in 1..(Len(q) - 1) :
       IF i = 1 /\ v # << >>
       THEN /\ Lines!Kept(v, FALSE) = Lines!Kept(W[m + i], TRUE)
            /\ Lines!TooLong(v, FALSE) = Lines!TooLong(W[m + i], TRUE)
       ELSE q[i] = W[m + i]

\* P and W are the pieces before and after a chunk that reads t, q those that it is cut into.
LinesOfChunk(s, t, P, m, W, p, q) ==
  P = Lines!Pieces(s) /\ m = Len(P) - 1 /\ W = Lines!Pieces(s \o t) /\ q = Lines!Pieces(p \o t)

\* What observe_descriptor holds after the pieces q, when it held v before.
LinesPendingAfter(q, v) == IF (v # << >> /\ Len(q) = 1) \/ Lines!Overflows(q[Len(q)]) THEN << >> ELSE q[Len(q)]
LinesOverlongAfter(q, v) ==
  IF v # << >> /\ Len(q) = 1 THEN v
  ELSE IF Lines!Overflows(q[Len(q)]) THEN SubSeq(q[Len(q)], 1, MaxLineBytes + 1) ELSE << >>

\* A chunk ends the lines that the whole text has there, and holds its last piece.
LEMMA LinesChunk ==
  ASSUME NEW s \in Seq(Lines!Bytes), NEW t \in Seq(Lines!Bytes), MaxLineBytes \in Nat,
         NEW P, NEW m, NEW W, NEW p \in Seq(Lines!Bytes), NEW q, LinesOfChunk(s, t, P, m, W, p, q),
         NEW v \in Seq(Lines!Bytes), LinesHeld(P[m + 1], p, v)
  PROVE  LinesAgree(P, W, q, m, v) /\ LinesHeld(W[Len(W)], LinesPendingAfter(q, v), LinesOverlongAfter(q, v))
<1>0. P = Lines!Pieces(s) /\ m = Len(P) - 1 /\ W = Lines!Pieces(s \o t) /\ q = Lines!Pieces(p \o t)
  BY DEF LinesOfChunk
<1> DEFINE r == P[m + 1]
           rest == q[Len(q)]
           still == v # << >> /\ Len(q) = 1
           np == IF still \/ Lines!Overflows(rest) THEN << >> ELSE rest
           nv == IF still THEN v ELSE IF Lines!Overflows(rest) THEN SubSeq(rest, 1, MaxLineBytes + 1) ELSE << >>
           e == << >>
<1>1. P \in LinesTexts /\ Len(P) \in Nat \ {0} /\ m \in Nat /\ m + 1 = Len(P) /\ r \in Seq(Lines!Bytes)
  <2>1. P \in LinesTexts
    BY <1>0, LinesPieces
  <2>2. Len(P) \in Nat \ {0} /\ \A i \in 1..Len(P) : P[i] \in Seq(Lines!Bytes)
    BY <2>1, LinesEnds
  <2> QED BY <1>0, <2>1, <2>2
<1>2. s \o t \in Seq(Lines!Bytes) /\ p \o t \in Seq(Lines!Bytes) /\ r \o t \in Seq(Lines!Bytes) /\ e \in Seq(Lines!Bytes)
  BY <1>1
<1>3. q \in LinesTexts /\ Len(q) \in Nat \ {0} /\ \A i \in 1..Len(q) : q[i] \in Seq(Lines!Bytes)
  BY <1>0, <1>2, LinesPieces, LinesEnds, Zenon
<1> DEFINE g == Lines!Pieces(r \o t)
<1>4. LinesGlued(P, m, g, W)
  BY <1>0, LinesContinue, Zenon
<1>5. g \in LinesTexts
  BY <1>2, LinesPieces, Zenon
<1>6. LinesHeld(r, p, v)
  OBVIOUS
<1>7. r = Lines!Pieces(s)[Len(Lines!Pieces(s))] /\ LinesPlain(r)
  BY <1>0, <1>1, LinesLastPlain, Zenon
<1>8. Len(rest) \in Nat /\ (Lines!Overflows(rest) => SubSeq(rest, 1, MaxLineBytes + 1) # e)
  <2>1. rest \in Seq(Lines!Bytes)
    BY <1>3
  <2>2. ASSUME Lines!Overflows(rest) PROVE SubSeq(rest, 1, MaxLineBytes + 1) # e
    <3>1. MaxLineBytes + 1 \in 0..Len(rest)
      BY <2>1, <2>2 DEF Lines!Overflows
    <3> DEFINE z == SubSeq(rest, 1, MaxLineBytes + 1)
    <3>2. z \in Seq(Lines!Bytes) /\ Len(z) = MaxLineBytes + 1
      BY <2>1, <3>1, LinesPrefix
    <3> HIDE DEF z
    <3>3. z # << >>
      BY <3>2
    <3> QED BY <3>3, Zenon DEF z
  <2>3. Len(rest) \in Nat
    BY <2>1
  <2> HIDE DEF e
  <2> QED BY <2>2, <2>3, Zenon DEF e
<1> HIDE DEF e
<1> HIDE DEF np, nv
<1>9. ASSUME v = << >> PROVE LinesAgree(P, W, q, m, v) /\ LinesHeld(W[Len(W)], np, nv)
  <2>1. p = r /\ q = g
    BY <1>0, <1>6, <1>9 DEF LinesHeld
  <2>2. /\ Len(W) = m + Len(q)
        /\ \A i \in 1..m : W[i] = P[i]
        /\ \A i \in 1..Len(q) : W[m + i] = q[i]
    BY <1>4, <2>1 DEF LinesGlued
  <2>3. W[Len(W)] = rest
    <3>1. Len(q) \in 1..Len(q)
      BY <1>3
    <3> QED BY <2>2, <3>1, Zenon
  <2>4. LinesAgree(P, W, q, m, v)
    BY <1>1, <1>3, <1>9, <2>2 DEF LinesAgree
  <2>5. ~still
    BY <1>9
  <2> QED BY <1>8, <2>3, <2>4, <2>5, Zenon DEF LinesHeld, e, np, nv
<1>10. ASSUME v # << >> PROVE LinesAgree(P, W, q, m, v) /\ LinesHeld(W[Len(W)], np, nv)
  <2>1. p = << >> /\ v = SubSeq(r, 1, MaxLineBytes + 1) /\ Lines!Overflows(r)
    BY <1>6, <1>10 DEF LinesHeld
  <2>2. p \o t = t
    BY <2>1
  <2>3. q = Lines!Pieces(t)
    BY <1>0, <2>1, <2>2
  <2>4. LinesExtended(r, q, g)
    BY <1>1, <1>7, <2>3, LinesBefore
  <2>5. /\ Len(W) = m + Len(q)
        /\ \A i \in 1..m : W[i] = P[i]
        /\ W[m + 1] = r \o q[1]
        /\ \A i \in 2..Len(q) : W[m + i] = q[i]
    <3>1. 1 \in 1..Len(q) /\ \A i \in 2..Len(q) : i \in 1..Len(q)
      BY <1>3
    <3>2. /\ Len(W) = m + Len(g) /\ Len(g) = Len(q)
          /\ \A i \in 1..m : W[i] = P[i]
          /\ \A i \in 1..Len(g) : W[m + i] = g[i]
          /\ g[1] = r \o q[1] /\ \A i \in 2..Len(q) : g[i] = q[i]
      BY <1>4, <2>4, Zenon DEF LinesGlued, LinesExtended
    <3> HIDE DEF g, r
    <3>3. Len(W) = m + Len(q) /\ \A i \in 1..Len(q) : W[m + i] = g[i]
      BY <3>2, Zenon
    <3> QED BY <3>1, <3>2, <3>3, Zenon
  <2>6. q[1] \in Seq(Lines!Bytes)
    BY <1>3
  <2>7. /\ Lines!Kept(v, FALSE) = Lines!Kept(W[m + 1], TRUE)
        /\ Lines!TooLong(v, FALSE) /\ Lines!TooLong(W[m + 1], TRUE)
        /\ Lines!Overflows(W[m + 1])
        /\ SubSeq(W[m + 1], 1, MaxLineBytes + 1) = v
    <3>1. r \o q[1] = W[m + 1]
      BY <2>5
    <3>2. r \in Seq(Lines!Bytes)
      BY <1>1
    <3> HIDE DEF r
    <3>4. LinesStandsFor(v, r \o q[1], TRUE)
      BY <2>1, <2>6, <3>2, LinesOverlong, Zenon
    <3>3. /\ Lines!Kept(v, FALSE) = Lines!Kept(r \o q[1], TRUE)
          /\ Lines!TooLong(v, FALSE) /\ Lines!TooLong(r \o q[1], TRUE)
          /\ Lines!Overflows(r \o q[1])
          /\ SubSeq(r \o q[1], 1, MaxLineBytes + 1) = v
      BY <3>4, Zenon DEF LinesStandsFor
    <3> QED BY <3>1, <3>3, Zenon
  <2>8. Lines!TooLong(v, FALSE) = Lines!TooLong(W[m + 1], TRUE)
    BY <2>7, Zenon DEF Lines!TooLong
  <2>9. LinesAgree(P, W, q, m, v)
    <3>1. \A i \in 1..(Len(q) - 1) : i = 1 \/ (i # 1 /\ i \in 2..Len(q))
      BY <1>3
    <3>2. ASSUME NEW i \in 1..(Len(q) - 1)
          PROVE  IF i = 1 /\ v # << >>
                 THEN /\ Lines!Kept(v, FALSE) = Lines!Kept(W[m + i], TRUE)
                      /\ Lines!TooLong(v, FALSE) = Lines!TooLong(W[m + i], TRUE)
                 ELSE q[i] = W[m + i]
      <4>1. CASE i = 1
        BY <1>10, <2>7, <2>8, <4>1, Zenon
      <4>2. CASE i # 1
        BY <2>5, <3>1, <4>2, Zenon
      <4> QED BY <4>1, <4>2, Zenon
    <3> QED BY <1>3, <2>5, <3>2, Zenon DEF LinesAgree
  <2>10. CASE Len(q) = 1
    <3>1. still /\ W[Len(W)] = W[m + 1]
      BY <1>1, <1>10, <2>5, <2>10
    <3> QED BY <1>10, <2>7, <2>9, <3>1 DEF LinesHeld, np, nv
  <2>11. CASE Len(q) # 1
    <3>2. Len(q) \in 2..Len(q)
      <4> DEFINE j == Len(q)
      <4>1. j \in Nat \ {0} /\ j # 1
        BY <1>3, <2>11
      <4> HIDE DEF j
      <4>2. j \in 2..j
        BY <4>1
      <4> QED BY <4>2 DEF j
    <3>1. ~still /\ W[Len(W)] = rest
      BY <2>5, <2>11, <3>2, Zenon
    <3> QED BY <1>8, <2>9, <3>1, Zenon DEF LinesHeld, e, np, nv
  <2> QED BY <2>10, <2>11
<1> QED BY <1>9, <1>10 DEF np, nv, LinesPendingAfter, LinesOverlongAfter

\* The lines that were ended among the first j bytes of d are counted, and the
\* last piece of them is held.
LinesReadingAt(d, j, p, v, pr, m, s) ==
  LET q == Lines!Pieces(Lines!Dense(SubSeq(d, 1, j)))
  IN /\ LinesCountedAll(LinesKeptOf(q, Len(q) - 1), LinesLongOf(q, Len(q) - 1), pr, [metrics |-> m, store |-> s])
     /\ LinesHeld(q[Len(q)], p, v)

\* The NUL bytes that are counted are no part of the lines.
LEMMA LinesNul ==
  ASSUME NEW K, NEW C, NEW pr, NEW st, LinesCountedAll(K, C, pr, st), NEW d \in Int
  PROVE  LinesCountedAll(K, C, pr, [metrics |-> [st.metrics EXCEPT !.nul = @ + d], store |-> st.store])
<1> DEFINE m == st.metrics
           s == st.store
           r == [m EXCEPT !.nul = @ + d]
<1>1. LinesKept(K, C) /\ LinesSeen(K, C, options, m) /\ LinesStored(K, options, pr, m, s)
  BY DEF LinesCountedAll, LinesTally
<1>2. m \in LinesCounters
  BY <1>1 DEF LinesSeen
<1> HIDE DEF m, s
<1>3. m.nul \in Int
  BY <1>2 DEF LinesCounters
<1>4. /\ r.physical = m.physical /\ r.analyzable = m.analyzable /\ r.filtered = m.filtered
      /\ r.truncated = m.truncated /\ r.untracked = m.untracked /\ r.inherited = m.inherited
      /\ r.blank = m.blank /\ r.undated = m.undated /\ r.nul = m.nul + d
  BY <1>2 DEF LinesCounters
<1>5. r = [physical |-> m.physical, analyzable |-> m.analyzable, blank |-> m.blank, filtered |-> m.filtered,
           undated |-> m.undated, truncated |-> m.truncated, untracked |-> m.untracked, nul |-> m.nul + d, inherited |-> m.inherited]
  BY <1>2 DEF LinesCounters
<1>6. r \in LinesCounters
  <2>1. /\ m.physical \in Nat /\ m.truncated \in Nat /\ m.inherited \in LinesDates /\ m.blank \in Nat /\ m.undated \in Nat
        /\ m.filtered \in Nat /\ m.analyzable \in Nat /\ m.untracked \in Nat /\ m.nul + d \in Int
    BY <1>2, <1>3 DEF LinesCounters
  <2> QED BY <1>5, <2>1 DEF LinesCounters
<1> HIDE DEF r
<1>7. LinesSeen(K, C, options, r)
  BY <1>1, <1>4, <1>6, Zenon DEF LinesSeen
<1>8. LinesStored(K, options, pr, r, s)
  BY <1>1, <1>4, Zenon DEF LinesStored
<1> DEFINE t == [metrics |-> r, store |-> s]
<1>9. t = [metrics |-> t.metrics, store |-> t.store] /\ t.metrics = r /\ t.store = s
  OBVIOUS
<1> HIDE DEF t
<1>10. LinesCountedAll(K, C, pr, t)
  BY <1>1, <1>7, <1>8, <1>9 DEF LinesCountedAll, LinesTally
<1> QED BY <1>10 DEF t, r, s, m

\* A chunk follows what was read before it.
LEMMA LinesJoin ==
  ASSUME NEW d \in Seq(Lines!Bytes), NEW j \in Nat, NEW n \in Nat, j + n <= Len(d)
  PROVE  /\ SubSeq(d, 1, j) \in Seq(Lines!Bytes) /\ SubSeq(d, j + 1, j + n) \in Seq(Lines!Bytes)
         /\ SubSeq(d, 1, j + n) = SubSeq(d, 1, j) \o SubSeq(d, j + 1, j + n)
<1> DEFINE a == SubSeq(d, 1, j)
           b == SubSeq(d, j + 1, j + n)
           c == SubSeq(d, 1, j + n)
<1>1. Len(d) \in Nat /\ j \in 0..Len(d) /\ j + n \in 0..Len(d) /\ j + n \in Nat
  OBVIOUS
<1>2. a \in Seq(Lines!Bytes) /\ Len(a) = j /\ \A i \in 1..j : a[i] = d[i]
  BY <1>1, LinesPrefix
<1>3. c \in Seq(Lines!Bytes) /\ Len(c) = j + n /\ \A i \in 1..(j + n) : c[i] = d[i]
  BY <1>1, LinesPrefix
<1>4. b \in Seq(Lines!Bytes) /\ Len(b) = n /\ \A i \in 1..n : b[i] = d[j + i]
  <2>1. b = [i \in 1..n |-> d[j + i]]
    <3>1. Len(b) = n /\ b \in Seq(Lines!Bytes) /\ \A i \in 1..n : b[i] = d[i + (j + 1) - 1]
      OBVIOUS
    <3>2. \A i \in 1..n : i + (j + 1) - 1 = j + i
      OBVIOUS
    <3> QED BY <3>1, <3>2
  <2>2. \A i \in 1..n : j + i \in 1..Len(d)
    BY <1>1
  <2>3. \A i \in 1..n : d[j + i] \in Lines!Bytes
    BY <2>2
  <2> HIDE DEF b
  <2> QED BY <2>1, <2>3
<1> HIDE DEF a, b, c
<1>5. a \o b \in Seq(Lines!Bytes) /\ Len(a \o b) = j + n
  <2>1. a \in Seq(Lines!Bytes) /\ b \in Seq(Lines!Bytes) /\ Len(a) = j /\ Len(b) = n
    BY <1>2, <1>4
  <2>2. a \o b \in Seq(Lines!Bytes) /\ Len(a \o b) = Len(a) + Len(b)
    BY <2>1
  <2> QED BY <2>1, <2>2
<1>8. \A i \in 1..(j + n) : (a \o b)[i] = IF i <= Len(a) THEN a[i] ELSE b[i - Len(a)]
  <2>1. a \in Seq(Lines!Bytes) /\ b \in Seq(Lines!Bytes) /\ Len(a) + Len(b) = j + n
    BY <1>2, <1>4
  <2>2. \A i \in 1..(Len(a) + Len(b)) : (a \o b)[i] = IF i <= Len(a) THEN a[i] ELSE b[i - Len(a)]
    BY <2>1
  <2> QED BY <2>1, <2>2
<1>6. ASSUME NEW i \in 1..(j + n) PROVE (a \o b)[i] = c[i]
  <2>1. CASE i \in 1..j
    <3>1. i <= j
      BY <2>1
    <3> QED BY <1>2, <1>3, <1>8, <2>1, <3>1, Zenon
  <2>2. CASE i \notin 1..j
    <3>1. i - j \in 1..n /\ j + (i - j) = i
      BY <2>2
    <3>2. (a \o b)[i] = b[i - j]
      <4>1. ~(i <= Len(a)) /\ Len(a) = j
        BY <1>2, <2>2
      <4> QED BY <1>8, <4>1, Zenon
    <3>3. b[i - j] = d[i]
      BY <1>4, <3>1
    <3> QED BY <1>3, <3>2, <3>3
  <2> QED BY <2>1, <2>2, Zenon
<1>7. c = a \o b
  BY <1>3, <1>5, <1>6
<1> QED BY <1>2, <1>4, <1>7, Zenon DEF a, b, c

\* What is read, and how, is of the types that the constants have.
LinesInputsOK ==
  /\ data \in Seq(Lines!Bytes) /\ options \in LinesOptions /\ LinesStore(prior)
  /\ MaxPatterns \in Nat /\ MaxLineBytes \in Nat

\* Reading a chunk of n bytes counts the lines that it ends and holds its last piece.
LEMMA LinesReadOn ==
  ASSUME LinesInputsOK, pos \in Nat, NEW n \in Nat, pos + n <= Len(data),
         pending \in Seq(Lines!Bytes), overlong \in Seq(Lines!Bytes),
         LinesReadingAt(data, pos, pending, overlong, prior, metrics, patterns),
         NEW text, text = Lines!Dense(SubSeq(data, pos + 1, pos + n)),
         NEW q, q = Lines!Pieces(pending \o text),
         NEW st, st = Lines!RecordParts([metrics |-> metrics, store |-> patterns], Lines!Front(q)),
         NEW rest, rest = Lines!Last(q),
         NEW still, still = (overlong # << >> /\ Len(q) = 1),
         NEW p, p = IF still \/ Lines!Overflows(rest) THEN << >> ELSE rest,
         NEW v, v = IF still THEN overlong ELSE IF Lines!Overflows(rest) THEN SubSeq(rest, 1, MaxLineBytes + 1) ELSE << >>
  PROVE  /\ p \in Seq(Lines!Bytes) /\ v \in Seq(Lines!Bytes)
         /\ LinesReadingAt(data, pos + n, p, v, prior, [st.metrics EXCEPT !.nul = @ + n - Len(text)], st.store)
<1> DEFINE s == Lines!Dense(SubSeq(data, 1, pos))
           P == Lines!Pieces(s)
           m == Len(P) - 1
           W == Lines!Pieces(s \o text)
           parts == Lines!Front(q)
           start == [metrics |-> metrics, store |-> patterns]
           e == << >>
<1>1. /\ data \in Seq(Lines!Bytes) /\ options \in LinesOptions /\ LinesStore(prior)
      /\ MaxPatterns \in Nat /\ MaxLineBytes \in Nat
  BY DEF LinesInputsOK
<1>2. /\ SubSeq(data, 1, pos) \in Seq(Lines!Bytes) /\ SubSeq(data, pos + 1, pos + n) \in Seq(Lines!Bytes)
      /\ SubSeq(data, 1, pos + n) = SubSeq(data, 1, pos) \o SubSeq(data, pos + 1, pos + n)
  BY <1>1, LinesJoin
<1>3. s \in Seq(Lines!Bytes) /\ text \in Seq(Lines!Bytes)
  BY <1>2, LinesDense, Zenon
<1>4. Lines!Dense(SubSeq(data, 1, pos + n)) = s \o text
  BY <1>2, LinesDenseConcat, Zenon
<1>5. pending \o text \in Seq(Lines!Bytes)
  BY <1>3
<1>6. q \in LinesTexts /\ P \in LinesTexts
  BY <1>3, <1>5, LinesPieces, Zenon
<1>7. /\ Len(q) \in Nat \ {0} /\ \A i \in 1..Len(q) : q[i] \in Seq(Lines!Bytes)
      /\ rest = q[Len(q)]
      /\ parts \in Seq(Seq(Lines!Bytes)) /\ Len(parts) = Len(q) - 1
      /\ \A i \in 1..(Len(q) - 1) : parts[i] = q[i]
  BY <1>6, LinesEnds, Zenon
<1>8. Len(P) \in Nat \ {0} /\ m \in Nat /\ m + 1 = Len(P)
  <2>1. Len(P) \in Nat \ {0}
    BY <1>6, LinesEnds
  <2> HIDE DEF P
  <2> QED BY <2>1
<1>9. LinesCountedAll(LinesKeptOf(P, m), LinesLongOf(P, m), prior, start) /\ LinesHeld(P[m + 1], pending, overlong)
  <2>1. LinesCountedAll(LinesKeptOf(P, m), LinesLongOf(P, m), prior, start) /\ LinesHeld(P[Len(P)], pending, overlong)
    BY Zenon DEF LinesReadingAt
  <2> HIDE DEF P, m, s
  <2> QED BY <1>8, <2>1
<1>10. /\ LinesAgree(P, W, q, m, overlong)
       /\ LinesHeld(W[Len(W)], p, v)
  <2>1. P = Lines!Pieces(s) /\ m = Len(P) - 1 /\ W = Lines!Pieces(s \o text)
    OBVIOUS
  <2>2. p = LinesPendingAfter(q, overlong) /\ v = LinesOverlongAfter(q, overlong)
    BY <1>7, Zenon DEF LinesPendingAfter, LinesOverlongAfter
  <2> HIDE DEF P, m, s, W
  <2>3. LinesOfChunk(s, text, P, m, W, pending, q)
    BY <2>1 DEF LinesOfChunk
  <2>4. LinesHeld(W[Len(W)], LinesPendingAfter(q, overlong), LinesOverlongAfter(q, overlong)) /\ LinesAgree(P, W, q, m, overlong)
    BY <1>1, <1>3, <1>9, <2>3, LinesChunk, Zenon
  <2> QED BY <2>2, <2>4, Zenon
<1> HIDE DEF P, m, s, W, parts, start
<1>11. /\ Len(W) = m + Len(q)
       /\ \A i \in 1..m : W[i] = P[i]
       /\ \A i \in 1..(Len(q) - 1) :
            IF i = 1 /\ overlong # << >>
            THEN /\ Lines!Kept(overlong, FALSE) = Lines!Kept(W[m + i], TRUE)
                 /\ Lines!TooLong(overlong, FALSE) = Lines!TooLong(W[m + i], TRUE)
            ELSE q[i] = W[m + i]
  BY <1>10, Zenon DEF LinesAgree
<1>12. LinesKeptOf(P, m) = LinesKeptOf(W, m) /\ LinesLongOf(P, m) = LinesLongOf(W, m)
  BY <1>11, Zenon DEF LinesKeptOf, LinesLongOf
<1>13. LinesCountedAll(LinesKeptOf(W, m), LinesLongOf(W, m), prior, start)
  BY <1>9, <1>12
<1>14. \A i \in 1..Len(parts) :
            IF i = 1 /\ overlong # << >>
            THEN /\ Lines!Kept(overlong, FALSE) = Lines!Kept(W[m + i], TRUE)
                 /\ Lines!TooLong(overlong, FALSE) = Lines!TooLong(W[m + i], TRUE)
            ELSE parts[i] = W[m + i]
  BY <1>7, <1>11, Zenon
<1>15. LinesCountedAll(LinesKeptOf(W, m + Len(parts)), LinesLongOf(W, m + Len(parts)), prior, Lines!RecordParts(start, parts))
  BY <1>1, <1>7, <1>8, <1>13, <1>14, LinesPartsCounted, Zenon
<1>16. m + Len(parts) = Len(W) - 1
  BY <1>7, <1>8, <1>11
<1>17. st = Lines!RecordParts(start, parts)
  BY DEF start, parts
<1>18. n - Len(text) \in Int
  BY <1>3
<1> DEFINE d == n - Len(text)
<1> HIDE DEF d
<1>19. LinesCountedAll(LinesKeptOf(W, Len(W) - 1), LinesLongOf(W, Len(W) - 1), prior, st)
  BY <1>15, <1>16, <1>17
<1>20. LinesCountedAll(LinesKeptOf(W, Len(W) - 1), LinesLongOf(W, Len(W) - 1), prior,
         [metrics |-> [st.metrics EXCEPT !.nul = @ + d], store |-> st.store])
  BY <1>18, <1>19, LinesNul DEF d
<1>21. W = Lines!Pieces(Lines!Dense(SubSeq(data, 1, pos + n)))
  BY <1>4, Zenon DEF W
<1>22. LinesReadingAt(data, pos + n, p, v, prior, [st.metrics EXCEPT !.nul = @ + d], st.store)
  BY <1>10, <1>20, <1>21, Zenon DEF LinesReadingAt
<1>23. rest \in Seq(Lines!Bytes) /\ e \in Seq(Lines!Bytes)
  BY <1>7
<1>24. Lines!Overflows(rest) => SubSeq(rest, 1, MaxLineBytes + 1) \in Seq(Lines!Bytes)
  <2>1. Lines!Overflows(rest) => MaxLineBytes + 1 \in 0..Len(rest)
    BY <1>1, <1>23 DEF Lines!Overflows
  <2> QED BY <1>23, <2>1, LinesPrefix
<1>25. p \in Seq(Lines!Bytes) /\ v \in Seq(Lines!Bytes)
  <2> HIDE DEF e
  <2>1. p = (IF still \/ Lines!Overflows(rest) THEN e ELSE rest)
        /\ v = (IF still THEN overlong ELSE IF Lines!Overflows(rest) THEN SubSeq(rest, 1, MaxLineBytes + 1) ELSE e)
    BY DEF e
  <2> QED BY <1>23, <1>24, <2>1, Zenon
<1> QED BY <1>22, <1>25 DEF d

\* To remove NUL bytes adds no line feed.
LEMMA LinesDensePlain ==
  \A s \in Seq(Lines!Bytes) : LinesPlain(s) => LinesPlain(Lines!Dense(s))
<1> DEFINE T == {s \in Seq(Lines!Bytes) : LinesPlain(s) => LinesPlain(Lines!Dense(s))}
<1>1. << >> \in T
  <2> DEFINE e == << >>
  <2>1. e \in Seq(Lines!Bytes)
    OBVIOUS
  <2>2. Lines!Dense(e) = e
    BY <2>1, LinesDense, Zenon
  <2> HIDE DEF e
  <2>3. e \in T
    BY <2>1, <2>2
  <2> QED BY <2>3 DEF e
<1>2. ASSUME NEW s \in Seq(Lines!Bytes), NEW b \in Lines!Bytes, s \in T PROVE Append(s, b) \in T
  <2>1. Append(s, b) \in Seq(Lines!Bytes) /\ Lines!Dense(s) \in Seq(Lines!Bytes)
    BY LinesDense
  <2>2. Lines!Dense(Append(s, b)) = IF b = Lines!NUL THEN Lines!Dense(s) ELSE Append(Lines!Dense(s), b)
    BY LinesDense
  <2>3. LinesPlain(Append(s, b)) <=> LinesPlain(s) /\ b # Lines!LF
    BY LinesPlainSteps
  <2>4. LinesPlain(Append(Lines!Dense(s), b)) <=> LinesPlain(Lines!Dense(s)) /\ b # Lines!LF
    BY <2>1, LinesPlainSteps
  <2>5. LinesPlain(s) => LinesPlain(Lines!Dense(s))
    BY <1>2
  <2>6. LinesPlain(Append(s, b)) => LinesPlain(Lines!Dense(Append(s, b)))
    BY <2>2, <2>3, <2>4, <2>5
  <2> QED BY <2>1, <2>6
<1> HIDE DEF T
<1>3. \A s \in Seq(Lines!Bytes) : s \in T
  BY <1>1, <1>2, AllSequences
<1> QED BY <1>3 DEF T

\* No line was ended when a file turns out to be compressed.
LEMMA LinesSignature ==
  ASSUME data \in Seq(Lines!Bytes), Signature \in Seq(Lines!Bytes \ {Lines!LF}), pos \in Nat, NEW n \in Nat,
         pos + n <= Len(data), Lines!Compressed(SubSeq(data, 1, pos + n)),
         pos > 0 => ~Lines!Compressed(SubSeq(data, 1, pos))
  PROVE  Len(Lines!Pieces(Lines!Dense(SubSeq(data, 1, pos)))) = 1
<1> DEFINE a == SubSeq(data, 1, pos)
           b == SubSeq(data, 1, pos + n)
           L == Len(Signature)
<1>1. L \in Nat /\ Len(data) \in Nat /\ pos \in 0..Len(data) /\ pos + n \in 0..Len(data) /\ \A i \in 1..L : Signature[i] # Lines!LF
  OBVIOUS
<1>2. a \in Seq(Lines!Bytes) /\ Len(a) = pos /\ \A i \in 1..pos : a[i] = data[i]
  BY <1>1, LinesPrefix
<1>3. b \in Seq(Lines!Bytes) /\ Len(b) = pos + n /\ \A i \in 1..(pos + n) : b[i] = data[i]
  BY <1>1, LinesPrefix
<1> HIDE DEF a, b
<1>4. L <= Len(b) /\ SubSeq(Signature, 1, L) = SubSeq(b, 1, L)
  BY DEF Lines!Compressed, Lines!IsPrefix, b
<1>5. \A i \in 1..L : Signature[i] = data[i]
  <2>1. L \in 0..Len(b) /\ L \in 0..L
    BY <1>1, <1>3, <1>4
  <2>2. \A i \in 1..L : SubSeq(b, 1, L)[i] = b[i]
    BY <1>3, <2>1, LinesPrefix
  <2>3. \A i \in 1..L : SubSeq(Signature, 1, L)[i] = Signature[i]
    BY <2>1
  <2>4. \A i \in 1..L : i \in 1..(pos + n)
    BY <1>1, <1>3, <1>4
  <2> QED BY <1>3, <1>4, <2>2, <2>3, <2>4
<1>6. pos = 0 \/ pos < L
  <2> SUFFICES ASSUME pos > 0, L <= pos PROVE FALSE
    BY <1>1
  <2>1. L \in 0..Len(a) /\ L \in 0..L
    BY <1>1, <1>2
  <2> DEFINE x == SubSeq(a, 1, L)
             y == SubSeq(Signature, 1, L)
  <2>2. x \in Seq(Lines!Bytes) /\ Len(x) = L /\ \A i \in 1..L : x[i] = a[i]
    BY <1>2, <2>1, LinesPrefix
  <2>3. y \in Seq(Lines!Bytes \ {Lines!LF}) /\ Len(y) = L /\ \A i \in 1..L : y[i] = Signature[i]
    BY <2>1
  <2> HIDE DEF x, y
  <2>4. \A i \in 1..L : i \in 1..pos
    BY <1>1
  <2>5. \A i \in 1..L : x[i] = y[i]
    BY <1>2, <1>5, <2>2, <2>3, <2>4, Zenon
  <2>6. x = y
    BY <2>2, <2>3, <2>5
  <2>7. Lines!Compressed(a)
    BY <1>1, <1>2, <2>6 DEF Lines!Compressed, Lines!IsPrefix, x, y
  <2> QED BY <2>7 DEF a
<1>7. LinesPlain(a)
  <2>1. \A i \in 1..pos : i \in 1..L
    BY <1>1, <1>6
  <2> QED BY <1>1, <1>2, <1>5, <2>1 DEF LinesPlain
<1>8. Lines!Dense(a) \in Seq(Lines!Bytes) /\ LinesPlain(Lines!Dense(a))
  BY <1>2, <1>7, LinesDense, LinesDensePlain
<1> QED BY <1>8, LinesOnePiece DEF a

\* All lines of the text, and which of them were too long.
LinesAll == [i \in 1..Lines!LineCount |-> Lines!LineOf(i)]
LinesAllLong ==
  [i \in 1..Lines!LineCount |-> Lines!TooLong(Lines!Pieces(Lines!Text)[i], i <= Cardinality(Lines!Feeds(Lines!Text)))]

\* All lines of the text: its ended pieces, and the last one if it is not empty.
LEMMA LinesOfText ==
  ASSUME data \in Seq(Lines!Bytes), MaxLineBytes \in Nat, NEW P, P = Lines!Pieces(Lines!Text), NEW m, m = Len(P) - 1
  PROVE  /\ m \in Nat /\ P[m + 1] \in Seq(Lines!Bytes)
         /\ P[m + 1] = << >> => LinesAll = LinesKeptOf(P, m) /\ LinesAllLong = LinesLongOf(P, m)
         /\ P[m + 1] # << >> =>
              /\ LinesAll = Append(LinesKeptOf(P, m), Lines!Kept(P[m + 1], FALSE))
              /\ LinesAllLong = Append(LinesLongOf(P, m), Lines!TooLong(P[m + 1], FALSE))
<1> DEFINE e == << >>
           F == Cardinality(Lines!Feeds(Lines!Text))
           c == Lines!LineCount
<1>1. Lines!Text \in Seq(Lines!Bytes)
  BY LinesDense DEF Lines!Text
<1>2. P \in LinesTexts
  BY <1>1, LinesPieces
<1>3. Len(P) \in Nat \ {0} /\ \A i \in 1..Len(P) : P[i] \in Seq(Lines!Bytes)
  BY <1>2, LinesEnds
<1>4. m \in Nat /\ m + 1 = Len(P) /\ P[m + 1] \in Seq(Lines!Bytes)
  BY <1>3
<1>5. F = m
  <2>1. IsFiniteSet(Lines!Feeds(Lines!Text)) /\ Len(P) = F + 1
    BY <1>1, LinesFeeds
  <2>2. F \in Nat
    BY <2>1, FS_CardinalityType
  <2> HIDE DEF F
  <2> QED BY <2>1, <2>2
<1>6. P[m + 1] # << >> <=> Lines!Text # << >> /\ Lines!Last(Lines!Text) # Lines!LF
  <2>1. Lines!Pieces(Lines!Text)[Len(Lines!Pieces(Lines!Text))] # << >> <=> Lines!Text # << >> /\ Lines!Last(Lines!Text) # Lines!LF
    BY <1>1, LinesRest
  <2> QED BY <1>4, <2>1, Zenon
<1>7. Lines!Cardinality(Lines!Feeds(Lines!Text)) = F
  BY DEF Lines!Cardinality, Cardinality
<1>8. c = m + IF Lines!Text # << >> /\ Lines!Last(Lines!Text) # Lines!LF THEN 1 ELSE 0
  BY <1>5, <1>7 DEF Lines!LineCount, Lines!One
<1> HIDE DEF c, F
<1>9. \A i \in 1..m : Lines!LineOf(i) = Lines!Kept(P[i], TRUE)
  <2> SUFFICES ASSUME NEW i \in 1..m PROVE Lines!LineOf(i) = Lines!Kept(P[i], TRUE)
    BY Zenon
  <2>1. i <= Lines!Cardinality(Lines!Feeds(Lines!Text))
    BY <1>4, <1>5, <1>7
  <2>2. Lines!LineOf(i) = Lines!Kept(P[i], i <= Lines!Cardinality(Lines!Feeds(Lines!Text)))
    BY Zenon DEF Lines!LineOf
  <2> DEFINE b == i <= Lines!Cardinality(Lines!Feeds(Lines!Text))
  <2>3. b = TRUE
    BY <2>1
  <2> HIDE DEF b
  <2>4. Lines!LineOf(i) = Lines!Kept(P[i], b)
    BY <2>2 DEF b
  <2> QED BY <2>3, <2>4
<1>10. Lines!LineOf(m + 1) = Lines!Kept(P[m + 1], FALSE)
  <2> DEFINE b == m + 1 <= Lines!Cardinality(Lines!Feeds(Lines!Text))
  <2>1. b = FALSE
    BY <1>4, <1>5, <1>7
  <2>2. Lines!LineOf(m + 1) = Lines!Kept(P[m + 1], b)
    BY Zenon DEF Lines!LineOf
  <2> HIDE DEF b
  <2> QED BY <2>1, <2>2, Zenon
<1> DEFINE long(i) == Lines!TooLong(Lines!Pieces(Lines!Text)[i], i <= F)
<1>11. \A i \in 1..m : long(i) = Lines!TooLong(P[i], TRUE)
  <2> SUFFICES ASSUME NEW i \in 1..m PROVE long(i) = Lines!TooLong(P[i], TRUE)
    BY Zenon
  <2> DEFINE b == i <= F
  <2>1. b = TRUE
    BY <1>4, <1>5
  <2>2. long(i) = Lines!TooLong(P[i], b)
    BY Zenon
  <2> HIDE DEF b, long
  <2> QED BY <2>1, <2>2
<1>12. long(m + 1) = Lines!TooLong(P[m + 1], FALSE)
  <2> DEFINE b == m + 1 <= F
  <2>1. b = FALSE
    BY <1>4, <1>5
  <2>2. long(m + 1) = Lines!TooLong(P[m + 1], b)
    BY Zenon
  <2> HIDE DEF b, long
  <2> QED BY <2>1, <2>2, Zenon
<1>13. LinesAll = [i \in 1..c |-> Lines!LineOf(i)] /\ LinesAllLong = [i \in 1..c |-> long(i)]
  BY DEF LinesAll, LinesAllLong, c, F
<1> HIDE DEF long
<1>14. ASSUME P[m + 1] = << >> PROVE LinesAll = LinesKeptOf(P, m) /\ LinesAllLong = LinesLongOf(P, m)
  <2>2. ~(Lines!Text # << >> /\ Lines!Last(Lines!Text) # Lines!LF)
    BY <1>6, <1>14, Zenon
  <2>3. c = m + 0
    BY <1>8, <2>2, Zenon
  <2>1. c = m
    BY <1>4, <2>3
  <2> QED BY <1>9, <1>11, <1>13, <2>1, Zenon DEF LinesKeptOf, LinesLongOf
<1>15. ASSUME P[m + 1] # << >>
       PROVE  /\ LinesAll = Append(LinesKeptOf(P, m), Lines!Kept(P[m + 1], FALSE))
              /\ LinesAllLong = Append(LinesLongOf(P, m), Lines!TooLong(P[m + 1], FALSE))
  <2>1. c = m + 1
    BY <1>4, <1>6, <1>8, <1>15
  <2> DEFINE S == {Lines!LineOf(i) : i \in 1..(m + 1)}
             B == {long(i) : i \in 1..(m + 1)}
  <2>2. LinesAll \in [1..(m + 1) -> S] /\ LinesAll[m + 1] = Lines!LineOf(m + 1) /\ \A i \in 1..m : LinesAll[i] = Lines!LineOf(i)
    BY <1>4, <1>13, <2>1
  <2>3. LinesAllLong \in [1..(m + 1) -> B] /\ LinesAllLong[m + 1] = long(m + 1) /\ \A i \in 1..m : LinesAllLong[i] = long(i)
    BY <1>4, <1>13, <2>1
  <2> HIDE DEF S, B
  <2>4. LinesKeptOf(P, m) = [i \in 1..m |-> LinesAll[i]]
    BY <1>9, <2>2, Zenon DEF LinesKeptOf
  <2>5. LinesLongOf(P, m) = [i \in 1..m |-> LinesAllLong[i]]
    BY <1>11, <2>3, Zenon DEF LinesLongOf
  <2>6. LinesAll = Append(LinesKeptOf(P, m), LinesAll[m + 1])
    BY <1>4, <2>2, <2>4, LinesAppended
  <2>7. LinesAllLong = Append(LinesLongOf(P, m), LinesAllLong[m + 1])
    BY <1>4, <2>3, <2>5, LinesAppended
  <2> QED BY <1>10, <1>12, <2>2, <2>3, <2>6, <2>7, Zenon
<1> QED BY <1>4, <1>14, <1>15, Zenon

\* The lines of the text are finitely many.
LEMMA LinesLineCount ==
  ASSUME data \in Seq(Lines!Bytes)
  PROVE  Lines!LineCount \in Nat
<1>1. Lines!Text \in Seq(Lines!Bytes)
  BY LinesDense DEF Lines!Text
<1>2. IsFiniteSet(Lines!Feeds(Lines!Text))
  BY <1>1, LinesFeeds
<1>3. Lines!Cardinality(Lines!Feeds(Lines!Text)) \in Nat
  BY <1>2, FS_CardinalityType, Zenon DEF Lines!Cardinality, Cardinality
<1> QED BY <1>3 DEF Lines!LineCount, Lines!One

\* A text that was read to its end is counted as the reference counts it.
LEMMA LinesReference ==
  ASSUME LinesCountedAll(LinesAll, LinesAllLong, prior, [metrics |-> metrics, store |-> patterns]),
         Lines!LineCount \in Nat
  PROVE  Lines!LinesMatchReference
<1> DEFINE c == Lines!LineCount
           K == LinesAll
           C == LinesAllLong
           F == Cardinality(Lines!Feeds(Lines!Text))
<1>1. LinesKept(K, C) /\ LinesSeen(K, C, options, metrics) /\ LinesStored(K, options, prior, metrics, patterns)
  BY DEF LinesCountedAll, LinesTally
<1>2. K = [i \in 1..c |-> Lines!LineOf(i)] /\ c \in Nat
  BY DEF LinesAll
<1>3. C = [i \in 1..c |-> Lines!TooLong(Lines!Pieces(Lines!Text)[i], i <= F)]
  BY DEF LinesAllLong
<1>4. K \in Seq(Seq(Lines!Bytes)) /\ C \in Seq(BOOLEAN) /\ Len(C) = Len(K)
  BY <1>1 DEF LinesKept
<1> HIDE DEF c, K, C, F
<1>5. Len(K) = c /\ Len(C) = c /\ \A i \in 1..c : K[i] = Lines!LineOf(i)
  BY <1>2, <1>4
<1>6. ASSUME NEW i \in 1..c PROVE Lines!DatedBy(i) = LinesDatedBy(K, i)
  <2> DEFINE D == {j \in 1..i : Lines!Dated(Lines!LineOf(j))}
             E == {j \in 1..i : Lines!Dated(K[j])}
  <2>1. \A j \in 1..i : j \in 1..c
    BY <1>2
  <2>2. D = E
    BY <1>5, <2>1
  <2>3. Lines!DatedBy(i) = IF D = {} THEN "none" ELSE Head(Lines!LineOf(Lines!Max(D)))
    BY Zenon DEF Lines!DatedBy
  <2>4. LinesDatedBy(K, i) = IF E = {} THEN "none" ELSE Head(K[Lines!Max(E)])
    BY Zenon DEF LinesDatedBy
  <2>5. i \in Nat /\ D \in SUBSET (1..i)
    BY <1>2
  <2> HIDE DEF D, E
  <2>6. D = {} \/ Lines!Max(D) \in 1..i
    BY <2>5, LinesLatest, Zenon
  <2>7. D = {} \/ K[Lines!Max(D)] = Lines!LineOf(Lines!Max(D))
    BY <1>5, <2>1, <2>6
  <2> QED BY <2>2, <2>3, <2>4, <2>7
<1>7. Lines!Nonblank = LinesNonblank(K)
  BY <1>5 DEF Lines!Nonblank, LinesNonblank, c
<1>8. \A i : Lines!Excluded(Lines!Content(Lines!LineOf(i))) <=> LinesExcluded(options, Lines!Content(Lines!LineOf(i)))
  BY Zenon DEF Lines!Excluded, LinesExcluded
<1>9. LinesNonblank(K) \subseteq 1..c
  BY <1>5 DEF LinesNonblank
<1>10. ASSUME NEW i \in 1..c
       PROVE  Lines!InWindow(i) /\ ~Lines!Excluded(Lines!Content(Lines!LineOf(i))) <=> LinesCounts(K, options, i)
  BY <1>5, <1>6, <1>8, <1>10 DEF Lines!InWindow, LinesCounts
<1>11. Lines!Counted = LinesCounted(K, options)
  BY <1>7, <1>9, <1>10, Zenon DEF Lines!Counted, LinesCounted
<1>12. LinesCounted(K, options) \subseteq 1..c
  BY <1>9 DEF LinesCounted
<1>13. ASSUME NEW q PROVE {i \in Lines!Counted : Lines!Content(Lines!LineOf(i)) = q} = LinesWith(K, options, q)
  BY <1>5, <1>11, <1>12 DEF LinesWith
<1>14. ASSUME NEW q PROVE Lines!Occurrences(q) = Cardinality(LinesWith(K, options, q))
  BY <1>13, Zenon DEF Lines!Occurrences, Lines!Cardinality, Cardinality
<1>15. {i \in 1..c : Lines!TooLong(Lines!Pieces(Lines!Text)[i], i <= F)} = LinesLong(C)
  BY <1>3, <1>5 DEF LinesLong
<1>16. Lines!Cardinality(Lines!Feeds(Lines!Text)) = F
  BY DEF Lines!Cardinality, Cardinality, F
<1>17. metrics.physical = Lines!LineCount
  BY <1>1, <1>5 DEF LinesSeen, c
<1>18. metrics.analyzable = Lines!Cardinality(Lines!Counted)
  BY <1>1, <1>11 DEF LinesSeen, Lines!Cardinality, Cardinality
<1>19. metrics.filtered = Lines!Cardinality(Lines!Nonblank) - Lines!Cardinality(Lines!Counted)
  BY <1>1, <1>7, <1>11 DEF LinesSeen, Lines!Cardinality, Cardinality
<1>20. metrics.truncated = Lines!Cardinality({i \in 1..c : Lines!TooLong(Lines!Pieces(Lines!Text)[i], i <= F)})
  BY <1>1, <1>15, Zenon DEF LinesSeen, Lines!Cardinality, Cardinality
<1>21. \A q \in DOMAIN patterns : patterns[q] = Lines!Before(q) + Lines!Occurrences(q)
  BY <1>1, <1>14, Zenon DEF LinesStored, Lines!Before
<1> QED BY <1>16, <1>17, <1>18, <1>19, <1>20, <1>21, Zenon DEF Lines!LinesMatchReference, c

\* What is left when the file was read to its end is its last line, if anything is.
LEMMA LinesFinish ==
  ASSUME LinesInputsOK, pos = Len(data), pending \in Seq(Lines!Bytes), warning = FALSE,
         LinesReadingAt(data, pos, pending, overlong, prior, metrics, patterns),
         NEW st, st = Lines!LastLine([metrics |-> metrics, store |-> patterns])
  PROVE  LinesCountedAll(LinesAll, LinesAllLong, prior, st)
<1> DEFINE P == Lines!Pieces(Lines!Text)
           m == Len(P) - 1
           r == P[m + 1]
           K == LinesKeptOf(P, m)
           C == LinesLongOf(P, m)
           start == [metrics |-> metrics, store |-> patterns]
           k == Lines!Kept(r, FALSE)
           c == Lines!TooLong(r, FALSE)
<1>1. /\ data \in Seq(Lines!Bytes) /\ options \in LinesOptions /\ LinesStore(prior)
      /\ MaxPatterns \in Nat /\ MaxLineBytes \in Nat
  BY DEF LinesInputsOK
<1>2. SubSeq(data, 1, Len(data)) = data
  BY <1>1
<1>3. Lines!Text = Lines!Dense(SubSeq(data, 1, pos))
  BY <1>2, Zenon DEF Lines!Text
<1>4. P = Lines!Pieces(Lines!Text) /\ m = Len(P) - 1
  OBVIOUS
<1>5. st = Lines!LastLine(start)
  OBVIOUS
<1> HIDE DEF P, m, start
<1>6. /\ m \in Nat /\ r \in Seq(Lines!Bytes)
      /\ r = << >> => LinesAll = K /\ LinesAllLong = C
      /\ r # << >> => LinesAll = Append(K, k) /\ LinesAllLong = Append(C, c)
  BY <1>1, <1>4, LinesOfText, Zenon
<1>7. m + 1 = Len(P)
  <2>1. P \in LinesTexts
    <3>1. Lines!Text \in Seq(Lines!Bytes)
      BY <1>1, LinesDense DEF Lines!Text
    <3> QED BY <1>4, <3>1, LinesPieces
  <2>2. Len(P) \in Nat
    BY <2>1, LinesEnds
  <2> QED BY <1>4, <2>2
<1>8. LinesCountedAll(K, C, prior, start) /\ LinesHeld(r, pending, overlong)
  <2>1. LinesCountedAll(LinesKeptOf(P, Len(P) - 1), LinesLongOf(P, Len(P) - 1), prior, start) /\ LinesHeld(P[Len(P)], pending, overlong)
    BY <1>3, <1>4, Zenon DEF LinesReadingAt, start
  <2> QED BY <1>4, <1>7, <2>1, Zenon
<1>9. st = (IF overlong # << >> THEN Lines!RecordLine(start, overlong, FALSE)
            ELSE IF pending # << >> THEN Lines!RecordLine(start, pending, FALSE) ELSE start)
  BY <1>5, Zenon DEF Lines!LastLine
<1> HIDE DEF r, K, C
<1>10. k \in Seq(Lines!Bytes) /\ c \in BOOLEAN
  BY <1>1, <1>6, LinesKeptType, Zenon
<1> HIDE DEF k, c
<1>11. CASE overlong # << >>
  <2>1. Lines!Overflows(r) /\ overlong = SubSeq(r, 1, MaxLineBytes + 1)
    BY <1>8, <1>11 DEF LinesHeld
  <2> DEFINE e == << >>
  <2>2. e \in Seq(Lines!Bytes) /\ r \o e = r
    BY <1>6
  <2> HIDE DEF e
  <2>3. LinesStandsFor(overlong, r \o e, FALSE)
    BY <1>1, <1>6, <2>1, <2>2, LinesOverlong, Zenon
  <2>4. Lines!Kept(overlong, FALSE) = k /\ Lines!TooLong(overlong, FALSE) /\ Lines!TooLong(r, FALSE)
    BY <2>2, <2>3, Zenon DEF LinesStandsFor, k
  <2>5. Lines!TooLong(overlong, FALSE) = c
    <3>1. c
      BY <2>4, Zenon DEF c
    <3>2. Lines!TooLong(overlong, FALSE) \in BOOLEAN
      BY DEF Lines!TooLong
    <3> QED BY <1>10, <2>4, <3>1, <3>2, Zenon
  <2>6. r # << >>
    <3>1. Len(r) # 0
      BY <1>1, <1>6, <2>1 DEF Lines!Overflows
    <3> QED BY <3>1
  <2>7. LinesCountedAll(Append(K, k), Append(C, c), prior, Lines!RecordLine(start, overlong, FALSE))
    BY <1>1, <1>8, <1>10, <2>4, <2>5, LinesTallyNext, Zenon
  <2> QED BY <1>6, <1>9, <1>11, <2>6, <2>7, Zenon
<1>12. CASE overlong = << >> /\ pending # << >>
  <2>1. pending = r
    BY <1>8, <1>12 DEF LinesHeld
  <2>2. k = Lines!Kept(pending, FALSE) /\ c = Lines!TooLong(pending, FALSE)
    BY <2>1 DEF k, c
  <2>3. LinesCountedAll(Append(K, k), Append(C, c), prior, Lines!RecordLine(start, pending, FALSE))
    BY <1>1, <1>8, <1>10, <2>2, LinesTallyNext, Zenon
  <2> QED BY <1>6, <1>9, <1>12, <2>1, <2>3, Zenon
<1>13. CASE overlong = << >> /\ pending = << >>
  <2>1. r = << >>
    BY <1>8, <1>13 DEF LinesHeld
  <2> QED BY <1>6, <1>8, <1>9, <1>13, <2>1, Zenon
<1> QED BY <1>11, <1>12, <1>13
-------------------------------------------------------------------------------

\* Nothing is counted before the first line.
LEMMA LinesNothing ==
  ASSUME LinesInputsOK, NEW m, m = Lines!NoLines, NEW K, K = << >>, NEW C, C = << >>
  PROVE  LinesCountedAll(K, C, prior, [metrics |-> m, store |-> prior])
<1> DEFINE st == [metrics |-> m, store |-> prior]
<1>1. m \in LinesCounters
  BY DEF LinesCounters, LinesDates, Lines!NoLines
<1>2. LinesKept(K, C) /\ Len(K) = 0 /\ Len(C) = 0 /\ 1..0 = {}
  BY DEF LinesKept
<1>3. LinesNonblank(K) = {} /\ LinesCounted(K, options) = {} /\ LinesLong(C) = {} /\ \A q : LinesWith(K, options, q) = {}
  BY <1>2 DEF LinesNonblank, LinesCounted, LinesLong, LinesWith
<1>4. LinesDatedBy(K, 0) = "none"
  <2>1. {j \in 1..0 : Lines!Dated(K[j])} = {}
    BY <1>2
  <2> QED BY <2>1, Zenon DEF LinesDatedBy
<1>5. Cardinality({}) = 0
  BY FS_EmptySet
<1>6. /\ m.physical = 0 /\ m.inherited = "none" /\ m.analyzable = 0 /\ m.filtered = 0 /\ m.truncated = 0 /\ m.untracked = 0
  BY DEF Lines!NoLines
<1>7. LinesSeen(K, C, options, m)
  <2>1. 0 = 0 - 0
    OBVIOUS
  <2> QED BY <1>1, <1>2, <1>3, <1>4, <1>5, <1>6, <2>1, Zenon DEF LinesSeen
<1>8. LinesStored(K, options, prior, m, prior)
  <2>1. \A q \in DOMAIN prior : prior[q] = prior[q] + 0
    BY DEF LinesInputsOK, LinesStore
  <2> QED BY <1>3, <1>5, <1>6, <2>1, Zenon DEF LinesStored, LinesInputsOK
<1>9. st = [metrics |-> st.metrics, store |-> st.store] /\ st.metrics = m /\ st.store = prior
  OBVIOUS
<1> HIDE DEF st
<1>10. LinesCountedAll(K, C, prior, st)
  BY <1>2, <1>7, <1>8, <1>9 DEF LinesCountedAll, LinesTally
<1> QED BY <1>10 DEF st

\* What holds while a source is read: its ended lines are counted, its last
\* piece is held, and it was not found to be compressed.
LinesReading ==
  /\ outcome = "none"
  /\ LinesReadingAt(data, pos, pending, overlong, prior, metrics, patterns)
  /\ pos > 0 => ~Lines!Compressed(SubSeq(data, 1, pos))

\* No line that counts is lost: it is in the store or counted as untracked.
LinesSum == Cardinality(LinesPairs(patterns)) + metrics.untracked = Cardinality(LinesPairs(prior)) + metrics.analyzable

\* What holds when the source is done: of an error nothing was stored, and of a
\* text that was read to its end every line is counted.
LinesDone ==
  /\ outcome \in {"invalid_target", "observation"} => patterns = prior
  /\ outcome = "result" => LinesSum
  /\ outcome = "result" /\ ~warning =>
       LinesCountedAll(LinesAll, LinesAllLong, prior, [metrics |-> metrics, store |-> patterns])

\* Types.
LinesTypeOK ==
  /\ data \in Seq(Lines!Bytes) /\ options \in LinesOptions /\ LinesStore(prior)
  /\ pos \in Nat /\ pos <= Len(data)
  /\ pending \in Seq(Lines!Bytes) /\ overlong \in Seq(Lines!Bytes)
  /\ warning \in BOOLEAN

\* The invariant of the reading of one source.
LinesIInv ==
  /\ LinesTypeOK
  /\ pc = "read" => LinesReading
  /\ pc # "read" => LinesDone

\* What LogLines assumes of its constants.
LEMMA LinesConstants ==
  /\ Inputs \subseteq Seq(Lines!Bytes) /\ LineOptions \subseteq LinesOptions
  /\ Signature \in Seq(Lines!Bytes \ {Lines!LF})
  /\ MaxLineBytes \in Nat /\ MaxPatterns \in Nat
  /\ \A s \in Stores : IsFiniteSet(DOMAIN s) /\ s \in [DOMAIN s -> Nat]
<1>1. Lines!LogLinesAssumption
  BY ObserversAssumption
<1> QED BY <1>1, Zenon DEF Lines!LogLinesAssumption, LinesOptions, Lines!IsFiniteSet, IsFiniteSet

\* The pairs of a finite store are finite: they are among the pairs of a
\* pattern and a number up to the most that one pattern has.
LEMMA LinesStoreFinite ==
  ASSUME NEW s, IsFiniteSet(DOMAIN s), s \in [DOMAIN s -> Nat]
  PROVE  LinesStore(s)
<1> DEFINE D == DOMAIN s
           row(p) == {p} \X (1..s[p])
           rows == {row(p) : p \in D}
           f == [p \in D |-> row(p)]
<1>1. f \in [D -> rows] /\ \A t \in rows : \E p \in D : f[p] = t
  OBVIOUS
<1>2. \A p \in D : IsFiniteSet(row(p))
  <2> SUFFICES ASSUME NEW p \in D PROVE IsFiniteSet(row(p))
    OBVIOUS
  <2>1. s[p] \in Int /\ 1 \in Int
    OBVIOUS
  <2>2. IsFiniteSet({p}) /\ IsFiniteSet(1..s[p])
    BY <2>1, FS_Singleton, FS_Interval, Zenon
  <2> QED BY <2>2, FS_Product, Zenon
<1>3. \A t \in rows : IsFiniteSet(t)
  BY <1>2
<1> HIDE DEF f, rows
<1>4. f \in Surjection(D, rows)
  BY <1>1, Fun_IsSurj
<1>5. IsFiniteSet(rows)
  BY <1>4, FS_Surjection
<1>6. IsFiniteSet(UNION rows)
  BY <1>3, <1>5, FS_UNION
<1> QED BY <1>6 DEF LinesStore, LinesPairs, rows

\* What was counted of no line is what was there before.
LEMMA LinesNoneCounted ==
  ASSUME NEW K, NEW C, NEW pr, NEW m, NEW s, LinesCountedAll(K, C, pr, [metrics |-> m, store |-> s])
  PROVE  /\ m.analyzable = 0 \/ Len(K) = 0 => s = pr
         /\ Cardinality(LinesPairs(s)) + m.untracked = Cardinality(LinesPairs(pr)) + m.analyzable
<1>1. K \in Seq(Seq(Lines!Bytes)) /\ LinesSeen(K, C, options, m) /\ LinesStored(K, options, pr, m, s)
  BY DEF LinesCountedAll, LinesTally, LinesKept
<1>2. LinesCounted(K, options) \in SUBSET (1..Len(K)) /\ Len(K) \in Nat
  BY <1>1 DEF LinesCounted, LinesNonblank
<1>3. IsFiniteSet(LinesCounted(K, options))
  BY <1>2, LinesOneMore, Zenon
<1>4. m.analyzable = Cardinality(LinesCounted(K, options))
  BY <1>1 DEF LinesSeen
<1>5. m.analyzable = 0 => LinesCounted(K, options) = {}
  BY <1>3, <1>4, FS_EmptySet, Zenon
<1>6. Len(K) = 0 => LinesCounted(K, options) = {}
  BY <1>2
<1> QED BY <1>1, <1>5, <1>6, Zenon DEF LinesStored

\* Before the first byte no line was ended and the last piece is empty.
LEMMA LinesInit ==
  ASSUME Lines!Init PROVE LinesIInv
<1> DEFINE e == << >>
<1>1. /\ pc = "read" /\ outcome = "none" /\ data \in Inputs /\ options \in LineOptions /\ prior \in Stores
      /\ pos = 0 /\ pending = e /\ overlong = e /\ patterns = prior /\ metrics = Lines!NoLines /\ warning = FALSE
  BY DEF Lines!Init
<1>2. data \in Seq(Lines!Bytes) /\ options \in LinesOptions /\ LinesStore(prior) /\ MaxLineBytes \in Nat /\ MaxPatterns \in Nat
  BY <1>1, LinesConstants, LinesStoreFinite
<1>3. e \in Seq(Lines!Bytes) /\ Len(data) \in Nat
  BY <1>2
<1>4. LinesTypeOK
  <2>1. 0 \in Nat /\ 0 <= Len(data) /\ FALSE \in BOOLEAN
    BY <1>3
  <2> HIDE DEF e
  <2> QED BY <1>1, <1>2, <1>3, <2>1, Zenon DEF LinesTypeOK
<1>5. SubSeq(data, 1, 0) = e /\ Lines!Dense(e) = e
  <2>1. SubSeq(data, 1, 0) = e
    BY <1>2
  <2> HIDE DEF e
  <2>2. e = << >>
    BY DEF e
  <2>3. Lines!Dense(e) = << >>
    BY <1>3, <2>2, LinesDense, Zenon
  <2> QED BY <2>1, <2>2, <2>3
<1> DEFINE P == Lines!Pieces(Lines!Dense(SubSeq(data, 1, 0)))
<1>6. Len(P) = 1 /\ P[1] = e
  BY <1>5, LinesNoText, Zenon
<1>7. LinesKeptOf(P, 0) = e /\ LinesLongOf(P, 0) = e
  BY DEF LinesKeptOf, LinesLongOf
<1> HIDE DEF e, P
<1>8. LinesCountedAll(LinesKeptOf(P, 0), LinesLongOf(P, 0), prior, [metrics |-> metrics, store |-> patterns])
  <2>1. LinesInputsOK
    BY <1>2 DEF LinesInputsOK
  <2>2. LinesCountedAll(LinesKeptOf(P, 0), LinesLongOf(P, 0), prior, [metrics |-> metrics, store |-> prior])
    BY <1>1, <1>7, <2>1, LinesNothing DEF e
  <2> QED BY <1>1, <2>2
<1>9. ~Lines!Overflows(e)
  <2>1. Len(e) = 0
    BY DEF e
  <2> QED BY <1>2, <2>1 DEF Lines!Overflows
<1>10. LinesHeld(P[1], pending, overlong)
  BY <1>1, <1>6, <1>9 DEF LinesHeld, e
<1>11. LinesReadingAt(data, pos, pending, overlong, prior, metrics, patterns)
  <2>1. Len(P) - 1 = 0
    BY <1>6
  <2> QED BY <1>1, <1>6, <1>8, <1>10, <2>1 DEF LinesReadingAt, P
<1>12. LinesReading
  BY <1>1, <1>11 DEF LinesReading
<1> QED BY <1>1, <1>4, <1>12 DEF LinesIInv

\* While no line counts, or none was ended, the store is as before.
LEMMA LinesPlainReading ==
  ASSUME LinesReadingAt(data, pos, pending, overlong, prior, metrics, patterns),
         metrics.analyzable = 0 \/ Len(Lines!Pieces(Lines!Dense(SubSeq(data, 1, pos)))) = 1
  PROVE  patterns = prior
<1> DEFINE P == Lines!Pieces(Lines!Dense(SubSeq(data, 1, pos)))
<1>1. LinesCountedAll(LinesKeptOf(P, Len(P) - 1), LinesLongOf(P, Len(P) - 1), prior, [metrics |-> metrics, store |-> patterns])
  BY Zenon DEF LinesReadingAt
<1> HIDE DEF P
<1>2. Len(P) = 1 => Len(LinesKeptOf(P, Len(P) - 1)) = 0
  <2> SUFFICES ASSUME Len(P) = 1 PROVE Len(LinesKeptOf(P, Len(P) - 1)) = 0
    OBVIOUS
  <2>1. Len(P) - 1 = 0
    OBVIOUS
  <2>2. LinesKeptOf(P, 0) = << >>
    BY DEF LinesKeptOf
  <2> QED BY <2>1, <2>2
<1>3. metrics.analyzable = 0 \/ Len(LinesKeptOf(P, Len(P) - 1)) = 0
  BY <1>2 DEF P
<1> QED BY <1>1, <1>3, LinesNoneCounted

\* A chunk that is read keeps the invariant.
LEMMA LinesReadChunk ==
  ASSUME LinesIInv, Lines!ReadChunk
  PROVE  LinesIInv'
<1>1. /\ pc = "read" /\ ~warning /\ pos < Len(data)
      /\ data' = data /\ options' = options /\ prior' = prior /\ warning' = warning
  BY DEF Lines!ReadChunk
<1>2. PICK n \in 1..(Len(data) - pos) :
       IF Lines!Compressed(SubSeq(data, 1, pos + n))
       THEN /\ Lines!Raise("invalid_target")
            /\ UNCHANGED <<pos, pending, overlong>>
       ELSE LET chunk == SubSeq(data, pos + 1, pos + n)
                text == Lines!Dense(chunk)
                pieces == Lines!Pieces(pending \o text)
                st == Lines!RecordParts([metrics |-> metrics, store |-> patterns], Lines!Front(pieces))
                rest == Lines!Last(pieces)
                still == overlong # << >> /\ Len(pieces) = 1
            IN /\ pos' = pos + n
               /\ metrics' = [st.metrics EXCEPT !.nul = @ + n - Len(text)]
               /\ patterns' = st.store
               /\ overlong' = IF still THEN overlong
                              ELSE IF Lines!Overflows(rest) THEN SubSeq(rest, 1, MaxLineBytes + 1) ELSE << >>
               /\ pending' = IF still \/ Lines!Overflows(rest) THEN << >> ELSE rest
               /\ UNCHANGED <<pc, outcome>>
  BY Zenon DEF Lines!ReadChunk
<1>3. /\ data \in Seq(Lines!Bytes) /\ options \in LinesOptions /\ LinesStore(prior)
      /\ pos \in Nat /\ pos <= Len(data)
      /\ pending \in Seq(Lines!Bytes) /\ overlong \in Seq(Lines!Bytes)
      /\ warning \in BOOLEAN
      /\ LinesReading
  BY <1>1 DEF LinesIInv, LinesTypeOK
<1>4. n \in Nat /\ pos + n <= Len(data) /\ pos + n \in Nat /\ pos + n > 0
  <2>1. Len(data) \in Nat
    BY <1>3
  <2> QED BY <1>3, <2>1
<1>5. /\ outcome = "none"
      /\ LinesReadingAt(data, pos, pending, overlong, prior, metrics, patterns)
      /\ pos > 0 => ~Lines!Compressed(SubSeq(data, 1, pos))
  BY <1>3 DEF LinesReading
<1>6. CASE Lines!Compressed(SubSeq(data, 1, pos + n))
  <2>1. /\ pc' = "done" /\ outcome' = "invalid_target" /\ patterns' = patterns /\ metrics' = metrics
        /\ pos' = pos /\ pending' = pending /\ overlong' = overlong
    BY <1>2, <1>6 DEF Lines!Raise
  <2>2. Len(Lines!Pieces(Lines!Dense(SubSeq(data, 1, pos)))) = 1
    BY <1>3, <1>4, <1>5, <1>6, LinesConstants, LinesSignature
  <2>3. patterns = prior
    BY <1>5, <2>2, LinesPlainReading
  <2>4. LinesTypeOK'
    BY <1>1, <1>3, <2>1 DEF LinesTypeOK
  <2>5. LinesDone'
    BY <1>1, <2>1, <2>3 DEF LinesDone
  <2> QED BY <2>1, <2>4, <2>5 DEF LinesIInv
<1>7. CASE ~Lines!Compressed(SubSeq(data, 1, pos + n))
  <2> DEFINE text == Lines!Dense(SubSeq(data, pos + 1, pos + n))
             q == Lines!Pieces(pending \o text)
             st == Lines!RecordParts([metrics |-> metrics, store |-> patterns], Lines!Front(q))
             rest == Lines!Last(q)
             still == overlong # << >> /\ Len(q) = 1
             p == IF still \/ Lines!Overflows(rest) THEN << >> ELSE rest
             v == IF still THEN overlong ELSE IF Lines!Overflows(rest) THEN SubSeq(rest, 1, MaxLineBytes + 1) ELSE << >>
             mm == [st.metrics EXCEPT !.nul = @ + n - Len(text)]
  <2>1. /\ pos' = pos + n /\ metrics' = mm /\ patterns' = st.store /\ overlong' = v /\ pending' = p
        /\ pc' = pc /\ outcome' = outcome
    BY <1>2, <1>7, Zenon
  <2>2. LinesInputsOK
    BY <1>3, LinesConstants DEF LinesInputsOK
  <2>3. /\ p \in Seq(Lines!Bytes) /\ v \in Seq(Lines!Bytes)
        /\ LinesReadingAt(data, pos + n, p, v, prior, mm, st.store)
    BY <1>3, <1>4, <1>5, <2>2, LinesReadOn, Zenon
  <2> HIDE DEF text, q, st, rest, still, p, v, mm
  <2>4. LinesTypeOK'
    BY <1>1, <1>3, <1>4, <2>1, <2>3 DEF LinesTypeOK
  <2>5. LinesReadingAt(data, pos', pending', overlong', prior, metrics', patterns')
    BY <2>1, <2>3, Zenon
  <2>6. LinesReadingAt(data, pos, pending, overlong, prior, metrics, patterns)'
    BY <1>1, <2>5, Zenon DEF LinesReadingAt, LinesCountedAll
  <2>7. LinesReading'
    BY <1>1, <1>5, <1>7, <2>1, <2>6 DEF LinesReading, Lines!Compressed
  <2> QED BY <1>1, <2>1, <2>4, <2>7 DEF LinesIInv
<1> QED BY <1>6, <1>7

\* A read that ends early keeps it.
LEMMA LinesEndsEarly ==
  ASSUME LinesIInv, Lines!ReadEndsEarly
  PROVE  LinesIInv'
<1>1. /\ pc = "read" /\ warning' = TRUE
      /\ UNCHANGED <<pc, outcome, data, options, prior, pos, pending, overlong, patterns, metrics>>
  BY DEF Lines!ReadEndsEarly
<1>2. LinesReading
  BY <1>1 DEF LinesIInv
<1>3. LinesReading'
  BY <1>1, <1>2, Zenon DEF LinesReading, LinesReadingAt, LinesCountedAll
<1> QED BY <1>1, <1>3 DEF LinesIInv, LinesTypeOK

\* The end of the source keeps it: the last line is counted if there is one.
LEMMA LinesFinishes ==
  ASSUME LinesIInv, Lines!Finish
  PROVE  LinesIInv'
<1>1. /\ pc = "read" /\ (warning \/ pos = Len(data))
      /\ UNCHANGED <<data, options, prior, pos, pending, overlong, warning>>
  BY DEF Lines!Finish
<1>2. /\ data \in Seq(Lines!Bytes) /\ options \in LinesOptions /\ LinesStore(prior)
      /\ pos \in Nat /\ pos <= Len(data)
      /\ pending \in Seq(Lines!Bytes) /\ overlong \in Seq(Lines!Bytes)
      /\ warning \in BOOLEAN
      /\ LinesReading
  BY <1>1 DEF LinesIInv, LinesTypeOK
<1>3. outcome = "none" /\ LinesReadingAt(data, pos, pending, overlong, prior, metrics, patterns)
  BY <1>2 DEF LinesReading
<1>4. LinesTypeOK'
  BY <1>1, <1>2 DEF LinesTypeOK
<1>5. LinesInputsOK
  BY <1>2, LinesConstants DEF LinesInputsOK
<1>6. CASE warning /\ metrics.analyzable = 0
  <2>1. pc' = "done" /\ outcome' = "observation" /\ patterns' = patterns /\ metrics' = metrics
    BY <1>6 DEF Lines!Finish, Lines!Raise
  <2>2. patterns = prior
    BY <1>3, <1>6, LinesPlainReading
  <2> QED BY <1>1, <1>4, <2>1, <2>2 DEF LinesIInv, LinesDone
<1>7. CASE ~(warning /\ metrics.analyzable = 0)
  <2> DEFINE st == Lines!LastLine([metrics |-> metrics, store |-> patterns])
             sum(m, s) == Cardinality(LinesPairs(s)) + m.untracked = Cardinality(LinesPairs(prior)) + m.analyzable
  <2>1. metrics' = st.metrics /\ patterns' = st.store /\ pc' = "done" /\ outcome' = "result"
    BY <1>7, Zenon DEF Lines!Finish
  <2>2. CASE warning
    <3>1. st = [metrics |-> metrics, store |-> patterns]
      BY <2>2 DEF Lines!LastLine
    <3>2. metrics' = metrics /\ patterns' = patterns
      BY <2>1, <3>1
    <3>3. sum(metrics, patterns)
      <4> DEFINE P == Lines!Pieces(Lines!Dense(SubSeq(data, 1, pos)))
      <4>1. LinesCountedAll(LinesKeptOf(P, Len(P) - 1), LinesLongOf(P, Len(P) - 1), prior, [metrics |-> metrics, store |-> patterns])
        BY <1>3, Zenon DEF LinesReadingAt
      <4> QED BY <4>1, LinesNoneCounted
    <3>4. LinesSum'
      BY <1>1, <3>2, <3>3 DEF LinesSum
    <3> QED BY <1>1, <1>4, <2>1, <2>2, <3>4 DEF LinesIInv, LinesDone
  <2>3. CASE ~warning
    <3>1. warning = FALSE /\ pos = Len(data)
      BY <1>1, <1>2, <2>3
    <3>2. LinesCountedAll(LinesAll, LinesAllLong, prior, st)
      BY <1>2, <1>3, <1>5, <3>1, LinesFinish, Zenon
    <3>3. st = [metrics |-> metrics', store |-> patterns']
      BY <2>1, <3>2 DEF LinesCountedAll
    <3> HIDE DEF st
    <3>4. LinesCountedAll(LinesAll, LinesAllLong, prior, [metrics |-> metrics', store |-> patterns'])
      BY <3>2, <3>3
    <3>5. sum(metrics', patterns')
      BY <3>4, LinesNoneCounted
    <3>6. LinesSum'
      BY <1>1, <3>5 DEF LinesSum
    <3>7. LinesCountedAll(LinesAll, LinesAllLong, prior, [metrics |-> metrics, store |-> patterns])'
      BY <1>1, <3>4, Zenon DEF LinesCountedAll, LinesAll, LinesAllLong, Lines!LineCount, Lines!LineOf, Lines!Text
    <3> QED BY <1>1, <1>4, <2>1, <3>6, <3>7 DEF LinesIInv, LinesDone
  <2> QED BY <2>2, <2>3
<1> QED BY <1>6, <1>7
-------------------------------------------------------------------------------

\* The sum of a store is the number of its pairs.
LEMMA LinesSumOf ==
  ASSUME NEW s PROVE Lines!SumOf(s) = Cardinality(LinesPairs(s))
BY DEF Lines!SumOf, LinesPairs, Lines!Cardinality, Cardinality

\* Every step of the reading keeps the invariant.
LEMMA LinesStep ==
  LinesIInv /\ (Lines!Next \/ UNCHANGED Lines!vars) => LinesIInv'
<1> SUFFICES ASSUME LinesIInv, Lines!Next \/ UNCHANGED Lines!vars PROVE LinesIInv'
  OBVIOUS
<1>1. CASE Lines!Next
  BY <1>1, LinesReadChunk, LinesEndsEarly, LinesFinishes DEF Lines!Next
<1>2. CASE UNCHANGED Lines!vars
  <2>1. UNCHANGED <<pc, outcome, data, options, prior, pos, pending, overlong, patterns, metrics, warning>>
    BY <1>2 DEF Lines!vars
  <2>2. LinesTypeOK => LinesTypeOK'
    BY <2>1, Zenon DEF LinesTypeOK
  <2>3. LinesReading => LinesReading'
    BY <2>1, Zenon DEF LinesReading, LinesReadingAt, LinesCountedAll
  <2>4. LinesDone => LinesDone'
    BY <2>1, Zenon DEF LinesDone, LinesSum, LinesCountedAll, LinesAll, LinesAllLong, Lines!LineCount, Lines!LineOf, Lines!Text
  <2> QED BY <2>1, <2>2, <2>3, <2>4, Zenon DEF LinesIInv
<1> QED BY <1>1, <1>2

\* While loghound reads a source, whatever its size, its bytes and the chunks that
\* it comes in, the ended lines are counted and the last piece is held, as
\* itself or as the prefix that is kept of an overlong line (loghound.py
\* observe_descriptor).
THEOREM LinesInvariance == Spec => [](tool = "loghound-lines" => LinesIInv)
<1>1. Init => (tool = "loghound-lines" => LinesIInv)
  BY StartOfOneTool, LinesInit
<1>2. (tool = "loghound-lines" => LinesIInv) /\ [Next]_vars => (tool = "loghound-lines" => LinesIInv)'
  BY StepsOfOneTool, LinesStep
<1> QED BY <1>1, <1>2, PTL DEF Spec

\* However the reads cut a source into chunks, the counters and the store of
\* patterns are those of its text: of each line that it has, with NUL bytes
\* removed, cut at line feeds and at the limit of bytes (loghound.py
\* observe_descriptor, _record_line, PatternStore.add).  A source that is dropped
\* leaves nothing in the store, and no line that counts is lost.
THEOREM CountsAreOfTheText == Spec => []LinesMatchReference
<1>1. (tool = "loghound-lines" => LinesIInv) => LinesMatchReference
  <2> SUFFICES ASSUME LinesIInv PROVE Lines!LinesMatchReference /\ Lines!DroppedLeavesNothing
    BY Zenon DEF LinesMatchReference
  <2>1. pc = "read" => outcome = "none"
    BY DEF LinesIInv, LinesReading
  <2>2. pc # "read" => LinesDone
    BY DEF LinesIInv
  <2>3. Lines!LinesMatchReference
    <3>1. CASE outcome = "result" /\ ~warning
      <4>1. LinesCountedAll(LinesAll, LinesAllLong, prior, [metrics |-> metrics, store |-> patterns])
        BY <2>1, <2>2, <3>1 DEF LinesDone
      <4>2. Lines!LineCount \in Nat
        BY LinesLineCount DEF LinesIInv, LinesTypeOK
      <4> QED BY <4>1, <4>2, LinesReference
    <3>2. CASE ~(outcome = "result" /\ ~warning)
      BY <3>2, Zenon DEF Lines!LinesMatchReference
    <3> QED BY <3>1, <3>2
  <2>4. Lines!DroppedLeavesNothing
    <3>1. outcome \in {"invalid_target", "observation"} => patterns = prior
      BY <2>1, <2>2 DEF LinesDone
    <3>2. outcome = "result" => LinesSum
      BY <2>1, <2>2 DEF LinesDone
    <3> QED BY <3>1, <3>2, LinesSumOf, Zenon DEF Lines!DroppedLeavesNothing, LinesSum
  <2> QED BY <2>3, <2>4
<1> QED BY <1>1, LinesInvariance, PTL

===============================================================================
