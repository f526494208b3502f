----------------------------- MODULE BoundedChild -----------------------------
(***************************************************************************)
(* run_bounded and stop_process_group (opsforge/common/process.py): one    *)
(* child process under a deadline and a bound on its output.  The child is *)
(* the leader of a process group of its own; it may fork descendants that  *)
(* inherit its pipes and outlive it.                                       *)
(*                                                                         *)
(* Bytes are counted in units of which MaxOutput may be captured.  SIGKILL *)
(* ends a process at once.  The streams share their set of writers: a      *)
(* process that closes its output closes both.                             *)
(***************************************************************************)
EXTENDS Naturals

CONSTANTS
  Descendants,   \* the processes the child may fork
  MaxOutput,     \* max_output_bytes
  PipeCapacity,  \* what a pipe holds before its writers block
  MaxWritten,    \* bound: how much is written to each stream
  InterruptAt    \* where the caller's KeyboardInterrupt may arrive

ASSUME ChildAssumption ==
  /\ MaxOutput \in Nat \ {0} /\ PipeCapacity \in Nat \ {0} /\ MaxWritten \in Nat
  /\ "leader" \notin Descendants

Streams == {"stdout", "stderr"}

VARIABLES
  call,      \* the arguments capture, truncate_stdout and whether there is stdin_data
  leader,    \* the child: "none", "running", "zombie" or "reaped"
  born,      \* the descendants forked so far
  alive,     \* those of them that run
  holders,   \* the processes that hold the write ends of the pipes
  written,   \* stream -> how much was written to it
  captured,  \* stream -> how much of that was read
  selected,  \* the streams, or "stdin", in the selector
  truncated,
  expired,   \* the deadline has passed
  pc,        \* where the caller is in run_bounded
  cause      \* why run_bounded raises, or "none"

processes == <<leader, born, alive, holders, written>>
callerVars == <<captured, selected, truncated, pc, cause>>
vars == <<call, processes, callerVars, expired>>

Init ==
  /\ call \in [capture : BOOLEAN, truncate : BOOLEAN, input : BOOLEAN]
  /\ leader = "none"
  /\ born = {} /\ alive = {} /\ holders = {}
  /\ written = [s \in Streams |-> 0]
  /\ captured = [s \in Streams |-> 0]
  /\ selected = {}
  /\ truncated = FALSE
  /\ expired = FALSE
  /\ pc = "spawn"
  /\ cause = "none"

-------------------------------------------------------------------------------
(* The process group.                                                      *)

Fork(d) ==
  /\ leader = "running"
  /\ d \notin born
  /\ born' = born \cup {d}
  /\ alive' = alive \cup {d}
  /\ holders' = IF "leader" \in holders THEN holders \cup {d} ELSE holders
  /\ UNCHANGED <<call, leader, written, callerVars, expired>>

WriteOutput(s) ==
  /\ holders # {}
  /\ written[s] < MaxWritten
  /\ written[s] < captured[s] + PipeCapacity
  /\ written' = [written EXCEPT ![s] = @ + 1]
  /\ UNCHANGED <<call, leader, born, alive, holders, callerVars, expired>>

CloseOutput(p) ==
  /\ p \in holders
  /\ holders' = holders \ {p}
  /\ UNCHANGED <<call, leader, born, alive, written, callerVars, expired>>

LeaderExits ==
  /\ leader = "running"
  /\ leader' = "zombie"
  /\ holders' = holders \ {"leader"}
  /\ UNCHANGED <<call, born, alive, written, callerVars, expired>>

DescendantExits(d) ==
  /\ d \in alive
  /\ alive' = alive \ {d}
  /\ holders' = holders \ {d}
  /\ UNCHANGED <<call, leader, born, written, callerVars, expired>>

GroupStep ==
  \/ LeaderExits
  \/ \E d \in Descendants : Fork(d) \/ DescendantExits(d)
  \/ \E s \in Streams : WriteOutput(s)
  \/ \E p \in Descendants \cup {"leader"} : CloseOutput(p)

Tick ==
  /\ ~expired
  /\ expired' = TRUE
  /\ UNCHANGED <<call, processes, callerVars>>

-------------------------------------------------------------------------------
(* The caller.                                                             *)

\* The exception is on its way to the except clause.
Raises(why) == pc' = "kill" /\ cause' = why

\* Popen starts the child, or run_bounded raises ProcessSpawnError.
Spawn ==
  /\ pc = "spawn"
  /\ \/ /\ pc' = "spawned"
        /\ leader' = "running"
        /\ holders' = IF call.capture THEN {"leader"} ELSE {}
        /\ UNCHANGED cause
     \/ /\ pc' = "raised"
        /\ cause' = "spawn"
        /\ UNCHANGED <<leader, holders>>
  /\ UNCHANGED <<call, born, alive, written, captured, selected, truncated, expired>>

Register ==
  /\ pc = "spawned"
  /\ pc' = "loop"
  /\ selected' = (IF call.capture THEN Streams ELSE {})
                 \cup (IF call.input THEN {"stdin"} ELSE {})
  /\ UNCHANGED <<call, processes, captured, truncated, cause, expired>>

\* Mutant: the loop ends with the child instead of with its output.
LoopWhileRunning ==
  /\ pc = "loop"
  /\ \/ leader # "running" /\ pc' = "await" /\ UNCHANGED cause
     \/ leader = "running" /\ expired /\ Raises("timeout")
     \/ leader = "running" /\ ~expired /\ pc' = "select" /\ UNCHANGED cause
  /\ UNCHANGED <<call, processes, captured, selected, truncated, expired>>

\* while selector.get_map() and not truncated, and the deadline.
Loop ==
  /\ pc = "loop"
  /\ \/ truncated /\ pc' = "kill" /\ UNCHANGED cause
     \/ ~truncated /\ selected = {} /\ pc' = "await" /\ UNCHANGED cause
     \/ ~truncated /\ selected # {} /\ expired /\ Raises("timeout")
     \/ ~truncated /\ selected # {} /\ ~expired /\ pc' = "select" /\ UNCHANGED cause
  /\ UNCHANGED <<call, processes, captured, selected, truncated, expired>>

\* After an event, select's list may hold more of them, or the loop starts over.
NextEvent == pc' \in {"select", "loop"}

\* select returns nothing once the time is up.
SelectTimesOut ==
  /\ pc = "select"
  /\ expired
  /\ pc' = "loop"
  /\ UNCHANGED <<call, processes, captured, selected, truncated, cause, expired>>

\* The last of the input is written, or the child no longer reads it.
SendInput ==
  /\ pc = "select"
  /\ "stdin" \in selected
  /\ selected' = selected \ {"stdin"}
  /\ NextEvent
  /\ UNCHANGED <<call, processes, captured, truncated, cause, expired>>

\* os.read returns all the pipe holds: it fits, it is cut, or it is too much.
ReadOutput(s) ==
  /\ pc = "select"
  /\ s \in selected
  /\ captured[s] < written[s]
  /\ \/ /\ written[s] <= MaxOutput
        /\ captured' = [captured EXCEPT ![s] = written[s]]
        /\ NextEvent
        /\ UNCHANGED <<truncated, cause>>
     \/ /\ written[s] > MaxOutput
        /\ call.truncate /\ s = "stdout"
        /\ captured' = [captured EXCEPT ![s] = MaxOutput]
        /\ truncated' = TRUE
        /\ pc' = "loop"
        /\ UNCHANGED cause
     \/ /\ written[s] > MaxOutput
        /\ ~(call.truncate /\ s = "stdout")
        /\ Raises("overflow")
        /\ UNCHANGED <<captured, truncated>>
  /\ UNCHANGED <<call, processes, selected, expired>>

\* os.read returns nothing when no process is left that could write.
ReadEnd(s) ==
  /\ pc = "select"
  /\ s \in selected
  /\ holders = {} /\ captured[s] = written[s]
  /\ selected' = selected \ {s}
  /\ NextEvent
  /\ UNCHANGED <<call, processes, captured, truncated, cause, expired>>

\* Mutant: wait() without the remaining time.
AwaitForEver ==
  /\ pc = "await"
  /\ leader = "zombie"
  /\ leader' = "reaped"
  /\ pc' = "close"
  /\ UNCHANGED <<cause, call, born, alive, holders, written, captured, selected, truncated, expired>>

\* The deadline again, and process.wait(timeout=remaining).
Await ==
  /\ pc = "await"
  /\ \/ leader = "zombie" /\ leader' = "reaped" /\ pc' = "close" /\ UNCHANGED cause
     \/ expired /\ Raises("timeout") /\ UNCHANGED leader
  /\ UNCHANGED <<call, born, alive, holders, written, captured, selected, truncated, expired>>

\* On an interrupt Popen.wait gives the child a last quarter of a second.
AwaitInterrupted ==
  /\ pc = "await_interrupted"
  /\ leader' \in IF leader = "zombie" THEN {"zombie", "reaped"} ELSE {leader}
  /\ Raises("interrupt")
  /\ UNCHANGED <<call, born, alive, holders, written, captured, selected, truncated, expired>>

\* Mutant: process.kill() in place of os.killpg().
KillLeader ==
  /\ pc = "kill"
  /\ pc' = "reap"
  /\ leader' = IF leader = "running" THEN "zombie" ELSE leader
  /\ holders' = holders \ {"leader"}
  /\ UNCHANGED <<call, born, alive, written, captured, selected, truncated, cause, expired>>

\* stop_process_group kills the group unless the child has been reaped.
KillGroup ==
  /\ pc = "kill"
  /\ pc' = "reap"
  /\ IF leader # "reaped"
       THEN leader' = "zombie" /\ alive' = {} /\ holders' = {}
       ELSE UNCHANGED <<leader, alive, holders>>
  /\ UNCHANGED <<call, born, written, captured, selected, truncated, cause, expired>>

\* process.wait(timeout=1.0)
Reap ==
  /\ pc = "reap"
  /\ leader' = "reaped"
  /\ pc' = "close"
  /\ UNCHANGED <<call, born, alive, holders, written, captured, selected, truncated, cause, expired>>

\* finally: the selector and the pipes are closed.
Close ==
  /\ pc = "close"
  /\ pc' = IF cause = "none" THEN "returned" ELSE "raised"
  /\ UNCHANGED <<call, processes, captured, selected, truncated, cause, expired>>

\* KeyboardInterrupt in the caller.  Between Popen and the try statement there is
\* no except clause to stop the child.
Interrupt ==
  /\ pc \in InterruptAt
  /\ cause = "none"
  /\ \/ pc = "spawned" /\ pc' = "raised" /\ cause' = "unguarded"
     \/ pc \in {"loop", "select"} /\ Raises("interrupt")
     \/ pc = "await" /\ pc' = "await_interrupted" /\ UNCHANGED cause
  /\ UNCHANGED <<call, processes, captured, selected, truncated, expired>>

CallerStep ==
  \/ Spawn \/ Register \/ Loop \/ SelectTimesOut \/ SendInput
  \/ \E s \in Streams : ReadOutput(s) \/ ReadEnd(s)
  \/ Await \/ AwaitInterrupted \/ KillGroup \/ Reap \/ Close

Next == GroupStep \/ Tick \/ CallerStep \/ Interrupt

\* The clock advances and the caller runs; nothing is expected of the child.
Spec == Init /\ [][Next]_vars /\ WF_vars(CallerStep) /\ WF_vars(Tick)

-------------------------------------------------------------------------------
TypeOK ==
  /\ call \in [capture : BOOLEAN, truncate : BOOLEAN, input : BOOLEAN]
  /\ leader \in {"none", "running", "zombie", "reaped"}
  /\ born \subseteq Descendants /\ alive \subseteq born
  /\ holders \subseteq alive \cup {"leader"}
  /\ "leader" \in holders => leader = "running"
  /\ written \in [Streams -> 0..MaxWritten]
  /\ captured \in [Streams -> 0..MaxOutput]
  /\ selected \subseteq Streams \cup {"stdin"}
  /\ truncated \in BOOLEAN /\ expired \in BOOLEAN
  /\ pc \in {"spawn", "spawned", "loop", "select", "await", "await_interrupted",
             "kill", "reap", "close", "returned", "raised"}
  /\ cause \in {"none", "spawn", "timeout", "overflow", "interrupt", "unguarded"}

GroupIsGone == leader = "reaped" /\ alive = {} /\ holders = {}

\* After a timeout, an overflow or an interruption nothing of the child is left:
\* it is reaped, and no descendant survives it.
ExceptionalExitLeavesNothing ==
  pc = "raised" /\ cause \in {"timeout", "overflow", "interrupt"} => GroupIsGone

\* Once run_bounded guards the child, the child is reaped however the call ends;
\* nothing else of the group survives a timeout, an overflow, or an interruption
\* that comes while there is still output to be read or input to be sent.
NothingOutlivesTheCall ==
  /\ pc = "returned" => leader = "reaped"
  /\ pc = "raised" /\ cause \notin {"spawn", "unguarded"} => leader = "reaped"
  /\ pc = "raised" /\ cause \in {"timeout", "overflow"} => GroupIsGone
  /\ pc = "raised" /\ cause = "interrupt" /\ selected # {} => GroupIsGone

\* A result holds all that the child and its descendants wrote, unless it says
\* that it is truncated: then stdout is filled to its bound and the group gone.
ResultIsExact ==
  pc = "returned" =>
    IF truncated
      THEN captured["stdout"] = MaxOutput /\ GroupIsGone
      ELSE call.capture => holders = {} /\ captured = written

\* run_bounded ends, whatever the child and its descendants do.
RunEnds == <>(pc \in {"returned", "raised"})
===============================================================================
