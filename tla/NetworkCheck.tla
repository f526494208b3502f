----------------------------- MODULE NetworkCheck -----------------------------
(***************************************************************************)
(* One attempt of an http, https or certificate_expiry check: _http_check, *)
(* run_http_head, _certificate_check and _connect_tcp_target               *)
(* (opsforge/healthctl/healthctl.py), with connect_first                   *)
(* (opsforge/common/net.py).  One deadline covers name resolution, the     *)
(* candidates, TLS, the answer, and the same for every redirect followed.  *)
(*                                                                         *)
(* Time is counted in ticks.  A blocking call takes at most the timeout it *)
(* was given; that the thread itself is late is a step of its own, Slip,   *)
(* and can happen between any two others.  The resolver's own timeout is   *)
(* never shorter than a deadline may be, and is left out.                  *)
(***************************************************************************)
EXTENDS Integers, Sequences

CONSTANTS
  Deadline,       \* timeout_seconds, in ticks
  Floor,          \* CONNECT_ATTEMPT_FLOOR_SECONDS
  MaxCandidates,  \* MAX_CANDIDATES
  MaxRedirects,   \* MAX_HTTP_REDIRECTS
  MaxReads,       \* MAX_HTTP_HEADER_BYTES, in what one recv returns
  MaxSlips        \* bound: ticks the thread may be late in all

ASSUME NetworkAssumption ==
  /\ Deadline \in Nat \ {0} /\ Floor \in Nat \ {0}
  /\ MaxCandidates \in Nat \ {0} /\ MaxReads \in Nat \ {0}
  /\ MaxRedirects \in Nat /\ MaxSlips \in Nat

Kinds == {"http", "https", "certificate"}

VARIABLES
  kind,        \* the type of the check
  pc,          \* where run_http_head or _certificate_check is
  now,         \* the clock, 0 when the deadline is set
  deadline,    \* the deadline
  slipped,     \* ticks the thread was late
  redirects,   \* redirects followed
  resolvedAt,  \* when the resolver answered
  candidates,  \* how many candidates it gave
  attempts,    \* outcomes of the candidates that were tried
  budget,      \* the share of the present candidate, then its timeout
  reads,       \* what was received of this answer
  open,        \* a socket is open
  observed,    \* the network or the resolver gave any answer at all
  judged,      \* a certificate was examined
  verdict      \* status of the result, or "none"

time == <<now, slipped>>
search == <<resolvedAt, candidates, attempts, budget>>
vars == <<kind, pc, time, deadline, redirects, search, reads, open, observed, judged, verdict>>

Init ==
  /\ kind \in Kinds
  /\ pc = "hop"
  /\ now = 0 /\ slipped = 0 /\ deadline = Deadline
  /\ redirects = 0 /\ reads = 0
  /\ resolvedAt = 0 /\ candidates = 0 /\ attempts = << >> /\ budget = 0
  /\ open = FALSE /\ observed = FALSE /\ judged = FALSE
  /\ verdict = "none"

Remaining == deadline - now

\* A blocking call that takes no longer than its timeout.
Takes(timeout) == \E d \in 0..timeout : now' = now + d

Conclude(status) == pc' = "done" /\ verdict' = status

\* What the callers make of a NetworkFailure, or of an OSError after it.
NetworkFails == Conclude(IF kind = "certificate" THEN "ERROR" ELSE "FAIL")

Slip ==
  /\ pc # "done"
  /\ slipped < MaxSlips
  /\ now' = now + 1 /\ slipped' = slipped + 1
  /\ UNCHANGED <<kind, pc, deadline, redirects, search, reads, open, observed, judged, verdict>>

-------------------------------------------------------------------------------
(* _connect_tcp_target.                                                    *)

BeginHop ==
  /\ pc = "hop"
  /\ IF Remaining <= 0
     THEN NetworkFails /\ UNCHANGED budget
     ELSE pc' = "resolve" /\ budget' = Remaining /\ UNCHANGED verdict
  /\ UNCHANGED <<kind, time, deadline, redirects, resolvedAt, candidates, attempts, reads, open, observed, judged>>

\* Candidates, a negative answer, or an error, which may be that time is up.
Resolve ==
  /\ pc = "resolve"
  /\ Takes(budget)
  /\ \/ /\ candidates' \in 1..MaxCandidates
        /\ resolvedAt' = now' /\ attempts' = << >>
        /\ pc' = "share"
        /\ UNCHANGED <<observed, verdict>>
     \/ NetworkFails /\ observed' = TRUE /\ UNCHANGED <<candidates, resolvedAt, attempts>>
     \/ Conclude("ERROR") /\ UNCHANGED <<candidates, resolvedAt, attempts, observed>>
  /\ UNCHANGED <<kind, slipped, deadline, redirects, budget, reads, open, judged>>

CandidatesLeft == candidates - Len(attempts)

\* Mutant: the first candidate gets all the time there is.
WholeTime == Remaining

\* An equal share of the time left, at least the floor, rounded down to a tick.
FairShare ==
  LET share == Remaining \div CandidatesLeft
  IN  IF share >= Floor THEN share ELSE IF Floor <= Remaining THEN Floor ELSE Remaining

Share ==
  /\ pc = "share"
  /\ IF CandidatesLeft > 0 /\ Remaining > 0
     THEN pc' = "begin" /\ budget' = FairShare
     ELSE pc' = "exhausted" /\ UNCHANGED budget
  /\ UNCHANGED <<kind, time, deadline, redirects, resolvedAt, candidates, attempts, reads, open, observed, judged, verdict>>

\* connect_first reads the clock again: the share may be too long by now.
BeginAttempt ==
  /\ pc = "begin"
  /\ IF Remaining <= 0
     THEN pc' = "exhausted" /\ UNCHANGED budget
     ELSE pc' = "socket" /\ budget' = IF Remaining < budget THEN Remaining ELSE budget
  /\ UNCHANGED <<kind, time, deadline, redirects, resolvedAt, candidates, attempts, reads, open, observed, judged, verdict>>

CreateSocket ==
  /\ pc = "socket"
  /\ \/ open' = TRUE /\ pc' = "timeout" /\ UNCHANGED attempts
     \/ attempts' = Append(attempts, "unavailable") /\ pc' = "share" /\ UNCHANGED open
  /\ UNCHANGED <<kind, time, deadline, redirects, resolvedAt, candidates, budget, reads, observed, judged, verdict>>

\* Mutant: the socket is left open when its timeout cannot be set.
SetTimeoutOnly ==
  /\ pc = "timeout"
  /\ \/ pc' = "connect" /\ UNCHANGED verdict
     \/ Conclude("ERROR")
  /\ UNCHANGED <<kind, time, deadline, redirects, search, reads, open, observed, judged>>

\* settimeout: a failure closes the socket and ends the check.
SetTimeout ==
  /\ pc = "timeout"
  /\ \/ pc' = "connect" /\ UNCHANGED <<open, verdict>>
     \/ Conclude("ERROR") /\ open' = FALSE
  /\ UNCHANGED <<kind, time, deadline, redirects, search, reads, observed, judged>>

Connect ==
  /\ pc = "connect"
  /\ Takes(budget)
  /\ \/ /\ attempts' = Append(attempts, "connected")
        /\ pc' = IF kind = "http" THEN "send" ELSE "tls"
        /\ UNCHANGED open
     \/ /\ attempts' = Append(attempts, "failed")
        /\ pc' = "share"
        /\ open' = FALSE
  /\ observed' = TRUE
  /\ UNCHANGED <<kind, slipped, deadline, redirects, resolvedAt, candidates, budget, reads, judged, verdict>>

OnlyUnavailable == \A i \in DOMAIN attempts : attempts[i] = "unavailable"

\* Mutant: that no socket could be made counts as a failure of the network.
ExhaustedFails ==
  /\ pc = "exhausted"
  /\ NetworkFails
  /\ UNCHANGED <<kind, time, deadline, redirects, search, reads, open, observed, judged>>

Exhausted ==
  /\ pc = "exhausted"
  /\ IF CandidatesLeft = 0 /\ OnlyUnavailable THEN Conclude("ERROR") ELSE NetworkFails
  /\ UNCHANGED <<kind, time, deadline, redirects, search, reads, open, observed, judged>>

-------------------------------------------------------------------------------
(* With a connection: the finally clauses close it, whatever happens.      *)

FailOpen == NetworkFails /\ open' = FALSE

\* wrap_socket, for a certificate also the verdict on it.
Handshake ==
  /\ pc = "tls"
  /\ \/ /\ Remaining <= 0 /\ FailOpen
        /\ UNCHANGED <<now, judged>>
     \/ /\ Remaining > 0 /\ Takes(Remaining)
        /\ \/ FailOpen /\ UNCHANGED judged
           \/ kind = "https" /\ pc' = "send" /\ UNCHANGED <<open, judged, verdict>>
           \/ /\ kind = "certificate"
              /\ judged' = TRUE
              /\ Conclude("PASS") \/ Conclude("FAIL")
              /\ open' = FALSE
  /\ UNCHANGED <<kind, slipped, deadline, redirects, search, reads, observed>>

Send ==
  /\ pc = "send"
  /\ \/ /\ Remaining <= 0 /\ FailOpen
        /\ UNCHANGED <<now, reads>>
     \/ /\ Remaining > 0 /\ Takes(Remaining)
        /\ \/ FailOpen /\ UNCHANGED reads
           \/ pc' = "recv" /\ reads' = 0 /\ UNCHANGED <<open, verdict>>
  /\ UNCHANGED <<kind, slipped, deadline, redirects, search, observed, judged>>

\* Mutant: an interim response also clears the count of what was received.
ReceiveAnyMuch ==
  /\ pc = "recv"
  /\ \/ /\ Remaining <= 0 /\ FailOpen
        /\ UNCHANGED <<now, reads>>
     \/ /\ Remaining > 0 /\ Takes(Remaining)
        /\ \/ FailOpen /\ UNCHANGED reads
           \/ Conclude("ERROR") /\ open' = FALSE /\ UNCHANGED reads
           \/ /\ reads < MaxReads
              /\ reads' \in {0, reads + 1}
              /\ pc' \in {"recv", "head"}
              /\ UNCHANGED <<open, verdict>>
  /\ UNCHANGED <<kind, slipped, deadline, redirects, search, observed, judged>>

\* recv: a failure, too much, the end of the stream or a malformed head, which
\* are errors, or a part of a head or an interim response, or the final head.
Receive ==
  /\ pc = "recv"
  /\ \/ /\ Remaining <= 0 /\ FailOpen
        /\ UNCHANGED <<now, reads>>
     \/ /\ Remaining > 0 /\ Takes(Remaining)
        /\ \/ FailOpen /\ UNCHANGED reads
           \/ Conclude("ERROR") /\ open' = FALSE /\ UNCHANGED reads
           \/ /\ reads < MaxReads
              /\ reads' = reads + 1
              /\ pc' \in {"recv", "head"}
              /\ UNCHANGED <<open, verdict>>
  /\ UNCHANGED <<kind, slipped, deadline, redirects, search, observed, judged>>

\* Mutant: every redirect followed sets a new deadline.
UseHeadAndRestart ==
  /\ pc = "head"
  /\ open' = FALSE
  /\ \/ (Conclude("PASS") \/ Conclude("FAIL")) /\ UNCHANGED <<redirects, deadline>>
     \/ redirects = MaxRedirects /\ Conclude("ERROR") /\ UNCHANGED <<redirects, deadline>>
     \/ /\ redirects < MaxRedirects /\ redirects' = redirects + 1
        /\ deadline' = now + Deadline
        /\ pc' = "hop"
        /\ UNCHANGED verdict
  /\ UNCHANGED <<kind, time, search, reads, observed, judged>>

\* run_http_head and _http_check: the connection is closed, and the status is
\* the answer, or a redirect that is followed or exceeds what is allowed.
UseHead ==
  /\ pc = "head"
  /\ open' = FALSE
  /\ \/ (Conclude("PASS") \/ Conclude("FAIL")) /\ UNCHANGED redirects
     \/ Conclude("ERROR") /\ UNCHANGED redirects
     \/ redirects < MaxRedirects /\ redirects' = redirects + 1 /\ pc' = "hop" /\ UNCHANGED verdict
  /\ UNCHANGED <<kind, time, deadline, search, reads, observed, judged>>

CheckStep ==
  \/ BeginHop \/ Resolve \/ Share \/ BeginAttempt \/ CreateSocket \/ SetTimeout \/ Connect
  \/ Exhausted \/ Handshake \/ Send \/ Receive \/ UseHead

Next == CheckStep \/ Slip

\* The check's thread runs, and every call it makes has a timeout.
Spec == Init /\ [][Next]_vars /\ WF_vars(CheckStep)

-------------------------------------------------------------------------------
TypeOK ==
  /\ kind \in Kinds
  /\ pc \in {"hop", "resolve", "share", "begin", "socket", "timeout", "connect",
             "exhausted", "tls", "send", "recv", "head", "done"}
  /\ now \in Nat /\ deadline = Deadline /\ slipped \in 0..MaxSlips
  /\ redirects \in 0..MaxRedirects /\ reads \in 0..MaxReads
  /\ resolvedAt \in 0..now /\ candidates \in 0..MaxCandidates
  /\ attempts \in Seq({"unavailable", "failed", "connected"}) /\ Len(attempts) <= candidates
  /\ budget \in 0..Deadline
  /\ open \in BOOLEAN /\ observed \in BOOLEAN /\ judged \in BOOLEAN
  /\ verdict \in {"none", "PASS", "FAIL", "ERROR"}

\* A check leaves no socket open, and while it runs only the one it uses.
NothingLeftOpen ==
  open <=> pc \in {"timeout", "connect", "tls", "send", "recv", "head"}

\* No blocking call, of however many candidates and redirects, carries the check
\* past its deadline: it is late only by what its thread was late.
DeadlineHolds == now <= Deadline + slipped

\* With time for the floor of each candidate, a slow one never keeps the others
\* from being tried before the search is given up.
EveryCandidateHasATurn ==
  pc = "exhausted" /\ Deadline - resolvedAt >= candidates * (Floor + slipped)
    => Len(attempts) = candidates

\* What could not be evaluated is no finding: neither that no socket could be
\* made for any candidate nor, for a certificate, that none was seen.
GapsAreErrors ==
  verdict = "FAIL" =>
    /\ kind = "certificate" => judged
    /\ candidates # 0 /\ CandidatesLeft = 0 => ~OnlyUnavailable

\* The check ends, whatever the peer sends and however slowly.
RunEnds == <>(pc = "done")

\* FAIL says that the criterion was observed and not met.
FailIsObserved == verdict = "FAIL" => observed
===============================================================================
