------------------------------ MODULE LocalCheck ------------------------------
(***************************************************************************)
(* run_check of HealthCtl (opsforge/healthctl/healthctl.py) for one check  *)
(* that is not about HTTP or a certificate, its retries included, and the  *)
(* exit code of a run of this check alone, while files, processes, units,  *)
(* names and servers change.                                               *)
(*                                                                         *)
(* A call that is bounded by call_with_timeout may be abandoned: its       *)
(* answer goes to a queue of its own that nobody reads any more.           *)
(* Severities are left out: a finding of either one exits with 1.          *)
(***************************************************************************)
EXTENDS ExitStatus, Sequences, Functions

CONSTANTS
  Contents,      \* what a file may contain: sequences of symbols
  Expected,      \* the content whose SHA-256 is given
  MinimumBytes,  \* of file_metadata
  MaximumBytes,
  MaxHashBytes,  \* MAX_HASH_BYTES
  Ends,          \* the candidates that the resolver returns, in order
  Retries,       \* numbers of retries that are configured
  MaxTouches     \* bound: changes of what is checked

LocalCheckAssumption ==
  /\ MinimumBytes \in Nat /\ MaximumBytes \in Nat /\ MaxHashBytes \in Nat
  /\ Ends \in Seq(Range(Ends)) /\ Ends # << >> /\ Retries \subseteq Nat
  /\ \A c \in Contents : c \in Seq(UNION {Range(d) : d \in Contents})

FileKinds == {"file_exists", "file_metadata", "config_hash"}
NetKinds == {"dns", "tcp_connect"}

\* What the other kinds may find, and how the code judges it: the capacity of
\* a filesystem, State and Tgid of /proc/PID/status, the status of systemctl
\* is-active (0; 3 and 4; any other).
Met == [disk_free_percent |-> {"enough"}, process |-> {"alive"}, systemd_service |-> {"active"}]
Unmet == [disk_free_percent |-> {"too little"}, process |-> {"none", "zombie", "thread"},
          systemd_service |-> {"inactive", "no such unit"}]
Unclear == [disk_free_percent |-> {"invalid"}, process |-> {"malformed"}, systemd_service |-> {"no answer"}]
ProbeKinds == DOMAIN Met

Kinds == FileKinds \union NetKinds \union ProbeKinds
Inodes == {1, 2}
Missing == [type |-> "missing", data |-> << >>, stamp |-> 0]

VARIABLES
  inodes,   \* inode -> [type, data, stamp]
  path,     \* the inode the path names, or 0
  state,    \* of what is no file: see StatesOf
  touches,  \* how often something changed
  kind,     \* the type of the check
  retries,
  pc,       \* where the check's thread is, or main once it has the result
  trial,    \* attempts made or under way
  probed,   \* the state that this attempt saw
  outcomes, \* of the connections tried
  meta,     \* what lstat saw
  source,   \* the inode that is hashed
  hashed,   \* what was read of it
  result,   \* the status of the latest attempt
  verdict,
  exit

world == <<inodes, path, state, touches>>
options == <<kind, retries>>
evidence == <<probed, outcomes, meta, source, hashed>>
vars == <<world, options, pc, trial, evidence, result, verdict, exit>>

EndStates == {"connects", "refuses", "no socket"}
StatesOf(k) ==
  IF k \in ProbeKinds THEN Met[k] \union Unmet[k] \union Unclear[k]
  ELSE IF k \in NetKinds
  THEN [name : {"known", "unknown"}, ends : [Range(Ends) -> IF k = "dns" THEN {"refuses"} ELSE EndStates]]
  ELSE {"-"}

NothingSeen ==
  /\ probed' = << >> /\ outcomes' = << >> /\ meta' = Missing /\ source' = 0 /\ hashed' = << >>

Init ==
  /\ kind \in Kinds /\ retries \in Retries
  /\ IF kind \in FileKinds
     THEN \E d \in Contents, other \in {"regular", "directory", "symlink"} :
            /\ inodes = [i \in Inodes |-> [type |-> IF i = 1 THEN "regular" ELSE other, data |-> d, stamp |-> i]]
            /\ path \in Inodes \union {0}
     ELSE inodes = [i \in Inodes |-> Missing] /\ path = 0
  /\ state \in StatesOf(kind)
  /\ touches = 0 /\ trial = 0 /\ pc = "attempt"
  /\ probed = << >> /\ outcomes = << >> /\ meta = Missing /\ source = 0 /\ hashed = << >>
  /\ result = "none" /\ verdict = "none" /\ exit = -1

-------------------------------------------------------------------------------
(* What is checked changes.                                                *)

Write == \* every change gives a file new times
  /\ \E i \in Inodes, d \in Contents :
       /\ inodes[i].type = "regular" /\ d # inodes[i].data
       /\ inodes' = [inodes EXCEPT ![i].data = d, ![i].stamp = @ + 2]
  /\ UNCHANGED <<path, state>>
Rename == kind \in FileKinds /\ path' \in (Inodes \union {0}) \ {path} /\ UNCHANGED <<inodes, state>>
Turn == state' \in StatesOf(kind) \ {state} /\ UNCHANGED <<inodes, path>>

Changes ==
  /\ verdict = "none" /\ exit = -1 /\ touches < MaxTouches
  /\ touches' = touches + 1
  /\ Write \/ Rename \/ Turn
  /\ UNCHANGED <<options, pc, trial, evidence, result, verdict, exit>>

-------------------------------------------------------------------------------
(* One attempt, and whether there is another.                              *)

Ended(r) ==
  /\ result' = r
  /\ pc' = IF r = "PASS" \/ trial > retries THEN "aggregate" ELSE "attempt"
Continue(p) == pc' = p /\ UNCHANGED result
Check == UNCHANGED <<world, options, trial, verdict, exit>>

BeginAttempt ==
  /\ pc = "attempt"
  /\ trial' = trial + 1
  /\ pc' = IF kind \in FileKinds THEN "lstat" ELSE IF kind \in NetKinds THEN "resolve" ELSE "probe"
  /\ NothingSeen
  /\ UNCHANGED <<world, options, result, verdict, exit>>

\* One call: statvfs, a read of /proc/PID/status, or systemctl.  A process that
\* goes between the opening of its status and the read is not there either way.
Probe ==
  /\ pc = "probe"
  /\ probed' = state
  /\ Ended(IF state \in Met[kind] THEN "PASS" ELSE IF state \in Unmet[kind] THEN "FAIL" ELSE "ERROR")
  /\ UNCHANGED <<outcomes, meta, source, hashed>> /\ Check

Resolve ==
  /\ pc = "resolve"
  /\ probed' = state.name
  /\ IF state.name = "unknown" THEN Ended("FAIL")
     ELSE IF kind = "dns" THEN Ended("PASS") ELSE Continue("connect")
  /\ UNCHANGED <<outcomes, meta, source, hashed>> /\ Check

\* Without a deadline every candidate is tried until one connects; one that
\* answers may still be too slow for its timeout.
Connect ==
  /\ pc = "connect"
  /\ LET end == state.ends[Ends[Len(outcomes) + 1]]
     IN \E o \in {end} \union (IF end = "connects" THEN {"refuses"} ELSE {}) : outcomes' = Append(outcomes, o)
  /\ IF outcomes'[Len(outcomes')] = "connects" THEN Ended("PASS")
     ELSE IF Len(outcomes') < Len(Ends) THEN Continue("connect")
     ELSE Ended(IF Range(outcomes') = {"no socket"} THEN "ERROR" ELSE "FAIL")
  /\ UNCHANGED <<probed, meta, source, hashed>> /\ Check

Named == IF path = 0 THEN Missing ELSE inodes[path]

\* The first checks of _file_check; only a hash needs more than lstat.
Lstat ==
  /\ pc = "lstat"
  /\ meta' = Named
  /\ LET type == Named.type
     IN CASE type = "missing" -> Ended("FAIL")
          [] type = "symlink" -> Ended("ERROR")
          [] kind = "file_exists" /\ type \in {"regular", "directory"} -> Ended("PASS")
          [] kind # "file_exists" /\ type = "directory" -> Ended("FAIL")
          [] kind = "file_metadata" /\ type = "regular" ->
               Ended(IF Len(Named.data) \in MinimumBytes..MaximumBytes THEN "PASS" ELSE "FAIL")
          [] kind = "config_hash" /\ type = "regular" -> Continue("open")
  /\ UNCHANGED <<probed, outcomes, source, hashed>> /\ Check

\* It must be the file that lstat saw, and not too large.
OpenForHash ==
  /\ pc = "open"
  /\ source' = path
  /\ IF Named = meta /\ Len(meta.data) <= MaxHashBytes THEN Continue("hash") ELSE Ended("ERROR")
  /\ UNCHANGED <<probed, outcomes, meta, hashed>> /\ Check

Now == inodes[source]
Size == Len(meta.data)

HashPart ==
  /\ pc = "hash" /\ Len(hashed) < Size
  /\ LET pos == Len(hashed)
     IN IF Len(Now.data) <= pos THEN Ended("ERROR") /\ UNCHANGED hashed
        ELSE \E n \in 1..(Size - pos) :
               /\ pos + n <= Len(Now.data)
               /\ hashed' = hashed \o SubSeq(Now.data, pos + 1, pos + n)
               /\ Continue("hash")
  /\ UNCHANGED <<probed, outcomes, meta, source>> /\ Check

\* One more byte is asked for, which must not be there.
HashEnd ==
  /\ pc = "hash" /\ Len(hashed) = Size
  /\ IF Len(Now.data) > Size THEN Ended("ERROR") ELSE Continue("fstat")
  /\ UNCHANGED evidence /\ Check

CompareHash ==
  /\ pc = "fstat"
  /\ Ended(IF Now.stamp # meta.stamp THEN "ERROR" ELSE IF hashed = Expected THEN "PASS" ELSE "FAIL")
  /\ UNCHANGED evidence /\ Check

\* A call times out, is refused or breaks off, and what run_check makes of it.
ObservationFails ==
  /\ pc \in {"probe", "resolve", "connect", "lstat", "open", "hash", "fstat"}
  /\ Ended("ERROR")
  /\ UNCHANGED evidence /\ Check

-------------------------------------------------------------------------------
Done(code) == pc' = "done" /\ exit' = code

\* aggregate_status of one result.
Aggregate ==
  /\ pc = "aggregate"
  /\ verdict' = CASE result = "FAIL" -> "decided" [] result = "PASS" -> "otherwise" [] OTHER -> "incomplete"
  /\ pc' = "report"
  /\ UNCHANGED <<world, options, trial, evidence, result, exit>>

ExitCode == [decided |-> ExitFinding, otherwise |-> ExitOK, incomplete |-> ExitFailure]
Report ==
  /\ pc = "report"
  /\ Done(ExitCode[verdict]) \/ Done(ExitFailure)
  /\ UNCHANGED <<world, options, trial, evidence, result, verdict>>

Interrupt ==
  /\ pc # "done"
  /\ Done(ExitInterrupted)
  /\ UNCHANGED <<world, options, trial, evidence, result, verdict>>

ToolStep ==
  \/ BeginAttempt \/ Probe \/ Resolve \/ Connect \/ Lstat \/ OpenForHash \/ HashPart \/ HashEnd
  \/ CompareHash \/ ObservationFails \/ Aggregate \/ Report

Next == Changes \/ ToolStep \/ Interrupt

-------------------------------------------------------------------------------
(* The view of VerdictContract: what the last attempt met, a file being    *)
(* what it was when it was examined and not what was read of it.           *)

Evaluated == pc \in {"aggregate", "report"} \/ verdict # "none"
Gap == Evaluated /\ result = "ERROR"
Contrary ==
  CASE kind = "file_exists" -> meta = Missing
    [] kind = "file_metadata" -> meta.type # "regular" \/ Len(meta.data) \notin MinimumBytes..MaximumBytes
    [] kind = "config_hash" -> meta.type # "regular" \/ meta.data # Expected
    [] kind = "dns" -> probed = "unknown"
    [] kind = "tcp_connect" -> probed = "unknown" \/ \A i \in DOMAIN outcomes : outcomes[i] # "connects"
    [] OTHER -> probed \in Unmet[kind]
Decisive == Evaluated /\ ~Gap /\ Contrary
===============================================================================
