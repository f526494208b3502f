-------------------------- MODULE BoundedChildProofs --------------------------
(***************************************************************************)
(* What TLAPS proves of module BoundedChild, for every set of descendants, *)
(* every bound on the output and every pipe, and wherever the caller may   *)
(* be interrupted.                                                         *)
(***************************************************************************)
EXTENDS BoundedChild, TLAPS

\* Nothing of the group runs or holds a pipe, so nothing of it can come back.
Killed == leader \in {"zombie", "reaped"} /\ alive = {} /\ holders = {}

\* Why the call ends in such a way that the group is killed before the child is
\* reaped.
KillsGroup ==
  \/ cause \in {"timeout", "overflow"}
  \/ cause = "interrupt" /\ selected # {}
  \/ cause = "none" /\ truncated

\* What the place in run_bounded says of the child.
LeaderAt ==
  /\ pc = "spawn" => leader = "none"
  /\ pc \in {"spawned", "loop", "select", "await", "await_interrupted"} => leader \in {"running", "zombie"}
  /\ pc = "kill" => leader # "none" /\ (leader = "reaped" => ~KillsGroup)
  /\ pc = "reap" => leader \in {"zombie", "reaped"}
  /\ pc \in {"close", "returned"} => leader = "reaped"
  /\ pc = "raised" /\ cause \notin {"spawn", "unguarded"} => leader = "reaped"
  /\ pc \in {"reap", "close", "returned", "raised"} /\ KillsGroup => Killed

\* What it says of the caller's own variables.
CallerAt ==
  /\ pc \in {"spawn", "spawned", "loop", "select", "await", "await_interrupted", "returned"} => cause = "none"
  /\ pc \in {"kill", "reap"} /\ cause = "none" => truncated
  /\ pc \in {"kill", "reap", "close"} => cause \notin {"spawn", "unguarded"}
  /\ pc = "raised" => cause # "none"
  /\ pc \in {"spawn", "spawned", "select", "await", "await_interrupted"} => ~truncated
  /\ pc \in {"await", "await_interrupted"} => selected = {}
  /\ pc \in {"close", "returned"} /\ cause = "none" /\ ~truncated => selected = {}

\* What was read of a stream that is no longer in the selector is all there will
\* ever be, and a truncated stdout is filled to its bound.
OutputAt ==
  /\ pc \notin {"spawn", "spawned", "raised"} /\ call.capture =>
       \A s \in Streams \ selected : holders = {} /\ captured[s] = written[s]
  /\ truncated => captured["stdout"] = MaxOutput

IInv == TypeOK /\ LeaderAt /\ CallerAt /\ OutputAt

LEMMA InitInvariant == Init => IInv
<1> SUFFICES ASSUME Init PROVE IInv
  OBVIOUS
<1> USE ChildAssumption DEF Init
<1>1. TypeOK
  <2>1. written \in [Streams -> 0..MaxWritten] /\ captured \in [Streams -> 0..MaxOutput]
    OBVIOUS
  <2>2. born \subseteq Descendants /\ alive \subseteq born /\ selected \subseteq Streams \cup {"stdin"}
    OBVIOUS
  <2>3. holders \subseteq alive \cup {"leader"} /\ "leader" \notin holders
    OBVIOUS
  <2> QED BY <2>1, <2>2, <2>3 DEF TypeOK
<1>2. LeaderAt /\ CallerAt /\ OutputAt
  BY DEF LeaderAt, CallerAt, OutputAt, KillsGroup, Killed
<1> QED BY <1>1, <1>2 DEF IInv

\* What the processes of the group do, and whether the deadline has passed, is
\* beyond the caller.
LEMMA GroupStepInvariant == IInv /\ (GroupStep \/ Tick) => IInv'
<1> SUFFICES ASSUME IInv, GroupStep \/ Tick PROVE IInv'
  OBVIOUS
<1> USE ChildAssumption DEF processes, callerVars
<1>1. CASE LeaderExits
  <2>1. TypeOK'
    BY <1>1 DEF LeaderExits, IInv, TypeOK
  <2>2. LeaderAt' /\ CallerAt'
    BY <1>1 DEF LeaderExits, IInv, TypeOK, LeaderAt, CallerAt, KillsGroup, Killed
  <2>3. OutputAt'
    BY <1>1 DEF LeaderExits, IInv, OutputAt
  <2> QED BY <2>1, <2>2, <2>3 DEF IInv
<1>2. ASSUME NEW d \in Descendants, Fork(d) PROVE IInv'
  <2>1. TypeOK'
    BY <1>2 DEF Fork, IInv, TypeOK
  <2>2. LeaderAt' /\ CallerAt'
    BY <1>2 DEF Fork, IInv, TypeOK, LeaderAt, CallerAt, KillsGroup, Killed
  <2>3. OutputAt'
    BY <1>2 DEF Fork, IInv, OutputAt
  <2> QED BY <2>1, <2>2, <2>3 DEF IInv
<1>3. ASSUME NEW d \in Descendants, DescendantExits(d) PROVE IInv'
  <2>1. TypeOK'
    BY <1>3 DEF DescendantExits, IInv, TypeOK
  <2>2. LeaderAt' /\ CallerAt'
    BY <1>3 DEF DescendantExits, IInv, TypeOK, LeaderAt, CallerAt, KillsGroup, Killed
  <2>3. OutputAt'
    BY <1>3 DEF DescendantExits, IInv, OutputAt
  <2> QED BY <2>1, <2>2, <2>3 DEF IInv
<1>4. ASSUME NEW s \in Streams, WriteOutput(s) PROVE IInv'
  <2>1. TypeOK'
    <3>1. written' \in [Streams -> 0..MaxWritten]
      <4>1. written \in [Streams -> 0..MaxWritten] /\ written[s] \in Nat /\ written[s] + 1 \in 0..MaxWritten
        BY <1>4 DEF WriteOutput, IInv, TypeOK
      <4> QED BY <4>1, <1>4 DEF WriteOutput
    <3> QED BY <3>1, <1>4 DEF WriteOutput, IInv, TypeOK
  <2>2. LeaderAt' /\ CallerAt'
    BY <1>4 DEF WriteOutput, IInv, LeaderAt, CallerAt, KillsGroup, Killed
  <2>3. OutputAt'
    BY <1>4 DEF WriteOutput, IInv, OutputAt
  <2> QED BY <2>1, <2>2, <2>3 DEF IInv
<1>5. ASSUME NEW p \in Descendants \cup {"leader"}, CloseOutput(p) PROVE IInv'
  <2>1. TypeOK'
    BY <1>5 DEF CloseOutput, IInv, TypeOK
  <2>2. LeaderAt' /\ CallerAt'
    BY <1>5 DEF CloseOutput, IInv, LeaderAt, CallerAt, KillsGroup, Killed
  <2>3. OutputAt'
    BY <1>5 DEF CloseOutput, IInv, OutputAt
  <2> QED BY <2>1, <2>2, <2>3 DEF IInv
<1>6. CASE Tick
  BY <1>6 DEF Tick, IInv, TypeOK, LeaderAt, CallerAt, OutputAt, KillsGroup, Killed
<1> QED BY <1>1, <1>2, <1>3, <1>4, <1>5, <1>6 DEF GroupStep

LEMMA CallerStepInvariant == IInv /\ (CallerStep \/ Interrupt) => IInv'
<1> SUFFICES ASSUME IInv, CallerStep \/ Interrupt PROVE IInv'
  OBVIOUS
<1> USE ChildAssumption DEF processes, callerVars, IInv, Raises
<1>1. CASE Spawn
  <2>1. TypeOK'
    BY <1>1 DEF Spawn, TypeOK
  <2>2. LeaderAt' /\ CallerAt'
    BY <1>1 DEF Spawn, TypeOK, LeaderAt, CallerAt, KillsGroup, Killed
  <2>3. OutputAt'
    BY <1>1 DEF Spawn, OutputAt
  <2> QED BY <2>1, <2>2, <2>3
<1>2. CASE Register
  <2>1. TypeOK'
    BY <1>2 DEF Register, TypeOK
  <2>2. LeaderAt' /\ CallerAt'
    BY <1>2 DEF Register, LeaderAt, CallerAt, KillsGroup, Killed
  <2>3. OutputAt'
    BY <1>2 DEF Register, OutputAt
  <2> QED BY <2>1, <2>2, <2>3
<1>3. CASE Loop
  <2>1. TypeOK'
    BY <1>3 DEF Loop, TypeOK
  <2>2. LeaderAt' /\ CallerAt'
    BY <1>3 DEF Loop, LeaderAt, CallerAt, KillsGroup, Killed
  <2>3. OutputAt'
    BY <1>3 DEF Loop, OutputAt
  <2> QED BY <2>1, <2>2, <2>3
<1>4. CASE SelectTimesOut
  BY <1>4 DEF SelectTimesOut, TypeOK, LeaderAt, CallerAt, OutputAt, KillsGroup, Killed
<1>5. CASE SendInput
  <2>1. TypeOK'
    BY <1>5 DEF SendInput, NextEvent, TypeOK
  <2>2. LeaderAt' /\ CallerAt'
    BY <1>5 DEF SendInput, NextEvent, LeaderAt, CallerAt, KillsGroup, Killed
  <2>3. OutputAt'
    BY <1>5 DEF SendInput, NextEvent, OutputAt, Streams
  <2> QED BY <2>1, <2>2, <2>3
<1>6. ASSUME NEW s \in Streams, ReadOutput(s) PROVE IInv'
  <2>1. TypeOK'
    <3>1. captured' \in [Streams -> 0..MaxOutput]
      BY <1>6 DEF ReadOutput, TypeOK
    <3> QED BY <3>1, <1>6 DEF ReadOutput, NextEvent, TypeOK
  <2>2. LeaderAt' /\ CallerAt'
    BY <1>6 DEF ReadOutput, NextEvent, LeaderAt, CallerAt, KillsGroup, Killed
  <2>3. OutputAt'
    <3>1. \A t \in Streams \ selected : captured'[t] = captured[t]
      BY <1>6 DEF ReadOutput, TypeOK
    <3>2. truncated' => captured'["stdout"] = MaxOutput
      BY <1>6 DEF ReadOutput, TypeOK, CallerAt, Streams
    <3>3. pc' \notin {"spawn", "spawned", "raised"} /\ pc = "select" /\ UNCHANGED <<call, selected, holders, written>>
      BY <1>6 DEF ReadOutput, NextEvent
    <3> QED BY <3>1, <3>2, <3>3 DEF OutputAt
  <2> QED BY <2>1, <2>2, <2>3
<1>7. ASSUME NEW s \in Streams, ReadEnd(s) PROVE IInv'
  <2>1. TypeOK'
    BY <1>7 DEF ReadEnd, NextEvent, TypeOK
  <2>2. LeaderAt' /\ CallerAt'
    BY <1>7 DEF ReadEnd, NextEvent, LeaderAt, CallerAt, KillsGroup, Killed
  <2>3. OutputAt'
    BY <1>7 DEF ReadEnd, NextEvent, OutputAt
  <2> QED BY <2>1, <2>2, <2>3
<1>8. CASE Await
  <2>1. TypeOK'
    BY <1>8 DEF Await, TypeOK
  <2>2. LeaderAt' /\ CallerAt'
    BY <1>8 DEF Await, LeaderAt, CallerAt, KillsGroup, Killed
  <2>3. OutputAt'
    BY <1>8 DEF Await, OutputAt
  <2> QED BY <2>1, <2>2, <2>3
<1>9. CASE AwaitInterrupted
  <2>1. TypeOK'
    BY <1>9 DEF AwaitInterrupted, TypeOK
  <2>2. LeaderAt' /\ CallerAt'
    BY <1>9 DEF AwaitInterrupted, LeaderAt, CallerAt, KillsGroup, Killed
  <2>3. OutputAt'
    BY <1>9 DEF AwaitInterrupted, OutputAt
  <2> QED BY <2>1, <2>2, <2>3
<1>10. CASE KillGroup
  <2>1. TypeOK'
    BY <1>10 DEF KillGroup, TypeOK
  <2>2. LeaderAt' /\ CallerAt'
    BY <1>10 DEF KillGroup, TypeOK, LeaderAt, CallerAt, KillsGroup, Killed
  <2>3. OutputAt'
    BY <1>10 DEF KillGroup, OutputAt
  <2> QED BY <2>1, <2>2, <2>3
<1>11. CASE Reap
  <2>1. TypeOK'
    BY <1>11 DEF Reap, TypeOK, LeaderAt
  <2>2. LeaderAt' /\ CallerAt'
    BY <1>11 DEF Reap, LeaderAt, CallerAt, KillsGroup, Killed
  <2>3. OutputAt'
    BY <1>11 DEF Reap, OutputAt
  <2> QED BY <2>1, <2>2, <2>3
<1>12. CASE Close
  <2>1. TypeOK'
    BY <1>12 DEF Close, TypeOK
  <2>2. LeaderAt' /\ CallerAt'
    BY <1>12 DEF Close, LeaderAt, CallerAt, KillsGroup, Killed
  <2>3. OutputAt'
    BY <1>12 DEF Close, OutputAt
  <2> QED BY <2>1, <2>2, <2>3
<1>13. CASE Interrupt
  <2>1. TypeOK'
    BY <1>13 DEF Interrupt, TypeOK
  <2>2. LeaderAt' /\ CallerAt'
    BY <1>13 DEF Interrupt, LeaderAt, CallerAt, KillsGroup, Killed
  <2>3. OutputAt'
    BY <1>13 DEF Interrupt, OutputAt
  <2> QED BY <2>1, <2>2, <2>3
<1> QED
  BY <1>1, <1>2, <1>3, <1>4, <1>5, <1>6, <1>7, <1>8, <1>9, <1>10, <1>11, <1>12, <1>13
  DEF CallerStep

\* The inductive invariant: what each place in run_bounded knows of the child,
\* of the reason it is there, and of the streams it no longer reads.
THEOREM Invariance == Spec => []IInv
<1>1. IInv /\ UNCHANGED vars => IInv'
  BY DEF vars, processes, callerVars, IInv, TypeOK, LeaderAt, CallerAt, OutputAt, KillsGroup, Killed
<1>2. IInv /\ [Next]_vars => IInv'
  BY <1>1, GroupStepInvariant, CallerStepInvariant DEF Next
<1> QED BY InitInvariant, <1>2, PTL DEF Spec

\* Every variable keeps its type; only running processes hold the pipes.
THEOREM TypeCorrect == Spec => []TypeOK
<1>1. IInv => TypeOK
  BY DEF IInv
<1> QED BY Invariance, <1>1, PTL

\* Once run_bounded guards the child, the child is reaped however the call ends,
\* and after a timeout, an overflow or an interruption of the reading loop no
\* descendant is left: stop_process_group finds the group before wait() has
\* reaped its leader.
THEOREM NothingIsLeft == Spec => []NothingOutlivesTheCall
<1>1. IInv => NothingOutlivesTheCall
  BY DEF IInv, LeaderAt, Killed, KillsGroup, NothingOutlivesTheCall, GroupIsGone
<1> QED BY Invariance, <1>1, PTL

\* What run_bounded returns is all that was or ever will be written, unless it is
\* marked as truncated: then stdout is filled to max_output_bytes.
THEOREM ExactResult == Spec => []ResultIsExact
<1>1. IInv => ResultIsExact
  <2> SUFFICES ASSUME IInv, pc = "returned"
               PROVE  IF truncated
                        THEN captured["stdout"] = MaxOutput /\ GroupIsGone
                        ELSE call.capture => holders = {} /\ captured = written
    BY DEF ResultIsExact
  <2>1. CASE truncated
    BY <2>1 DEF IInv, CallerAt, LeaderAt, OutputAt, KillsGroup, Killed, GroupIsGone
  <2>2. CASE ~truncated /\ call.capture
    <3>1. \A s \in Streams : holders = {} /\ captured[s] = written[s]
      BY <2>2 DEF IInv, CallerAt, OutputAt
    <3>2. captured \in [Streams -> 0..MaxOutput] /\ written \in [Streams -> 0..MaxWritten]
      BY DEF IInv, TypeOK
    <3>3. "stdout" \in Streams
      BY DEF Streams
    <3>4. captured = written
      BY <3>1, <3>2
    <3> QED BY <2>2, <3>1, <3>3, <3>4
  <2> QED BY <2>1, <2>2
<1> QED BY Invariance, <1>1, PTL
===============================================================================
