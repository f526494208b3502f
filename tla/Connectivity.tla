----------------------------- MODULE Connectivity -----------------------------
(***************************************************************************)
(* diagnose, tls_handshake, classify and main of NetDoctor                 *)
(* (opsforge/netdoctor/netdoctor.py) with resolve_tcp and connect_first of *)
(* opsforge/common/net.py: the name is resolved once, its addresses are    *)
(* tried one after the other in up to retries + 1 rounds, and with --tls   *)
(* the first that answered is connected to again, while the addresses and  *)
(* the means to make a socket come and go.                                 *)
(***************************************************************************)
EXTENDS ExitStatus, Sequences, FiniteSetsExt

CONSTANTS
  Answers,        \* what the resolver may return: sequences of addresses, repeats included
  MaxCandidates,  \* MAX_CANDIDATES
  Requests,       \* records [retries, compare, tls]
  MaxNetChanges   \* bound: changes of the network

Addresses == UNION {Range(a) : a \in Answers}

ConnectivityAssumption ==
  /\ MaxCandidates \in Nat \ {0}
  /\ \A a \in Answers : a \in Seq(Addresses) /\ a # << >>
  /\ \A q \in Requests : q.retries \in Nat

VARIABLES
  answering,   \* the addresses that complete a connection
  socketable,  \* the addresses for whose family a socket can be made
  netChanges,  \* how often the network changed
  reachable,   \* history: addresses that were answering and socketable since the round began
  missed,      \* history: candidates that were so throughout a round
  request,     \* the arguments
  pc,          \* where the tool is
  resolution,  \* "none", "failed" or "resolved"
  candidates,  \* the distinct addresses, in order, up to the limit
  round,       \* how many rounds were begun
  turn,        \* the candidate to be tried next
  attempts,    \* [address, outcome], outcome "no socket", "connected", "unreachable" or "refused"
  tlsStatus,   \* "none", "connected" or "failed"
  verdict,
  exit

world == <<answering, socketable, netChanges>>
evidence == <<resolution, candidates, round, turn, attempts, tlsStatus>>
vars == <<world, reachable, missed, request, pc, evidence, verdict, exit>>

Init ==
  /\ answering \in SUBSET Addresses /\ socketable \in {Addresses, {}}
  /\ netChanges = 0 /\ reachable = {} /\ missed = {}
  /\ request \in Requests
  /\ pc = "resolve"
  /\ resolution = "none" /\ candidates = << >> /\ round = 0 /\ turn = 1
  /\ attempts = << >> /\ tlsStatus = "none"
  /\ verdict = "none" /\ exit = -1

\* A listener or a route comes or goes, descriptors run out, a family with them.
NetworkChanges ==
  /\ pc \notin {"classify", "report", "done"} /\ netChanges < MaxNetChanges
  /\ netChanges' = netChanges + 1
  /\ \E a \in Addresses :
       \/ answering' = SymDiff(answering, {a}) /\ UNCHANGED socketable
       \/ socketable' = SymDiff(socketable, {a}) /\ UNCHANGED answering
  /\ reachable' = reachable \intersect answering' \intersect socketable'
  /\ UNCHANGED <<missed, request, pc, evidence, verdict, exit>>

-------------------------------------------------------------------------------
Done(code) == pc' = "done" /\ exit' = code

\* The positions at which an address is seen for the first time.
FirstSeen(answer) == {i \in DOMAIN answer : \A j \in 1..(i - 1) : answer[j] # answer[i]}

\* resolve_tcp: the first MAX_CANDIDATES distinct addresses in their order.
Kept(answer) ==
  LET found == FirstSeen(answer)
      nth(n) == CHOOSE i \in found : Cardinality({j \in found : j <= i}) = n
  IN [n \in 1..Min({Cardinality(found), MaxCandidates}) |-> answer[nth(n)]]

BeginRound ==
  /\ round' = round + 1 /\ turn' = 1
  /\ reachable' = answering \intersect socketable

Resolve ==
  /\ pc = "resolve"
  /\ \E answer \in Answers :
       /\ resolution' = "resolved" /\ candidates' = Kept(answer)
       /\ BeginRound
       /\ pc' = "connect"
  /\ UNCHANGED <<world, missed, request, attempts, tlsStatus, verdict, exit>>

\* The resolver's answer that there is no such name is an observation.
ResolveNegative ==
  /\ pc = "resolve"
  /\ resolution' = "failed" /\ pc' = "classify"
  /\ UNCHANGED <<world, reachable, missed, request, candidates, round, turn, attempts, tlsStatus, verdict, exit>>

\* It does not answer in time, fails, or answers with nonsense; or the
\* arguments name no host.
ResolveFails ==
  /\ pc = "resolve"
  /\ Done(ExitFailure) \/ Done(ExitUsage)
  /\ UNCHANGED <<world, reachable, missed, request, evidence, verdict>>

Connected(list) == \E i \in DOMAIN list : list[i].outcome = "connected"
FirstConnected == attempts[Min({n \in DOMAIN attempts : attempts[n].outcome = "connected"})].address

\* connect_first with a single candidate.
OutcomeOf(a) ==
  IF a \notin socketable THEN {"no socket"}
  ELSE IF a \in answering THEN {"connected"} ELSE {"unreachable", "refused"}

\* Mutant: a socket that cannot be made ends the round like a connection.
RoundEndsWithout(outcome) == turn = Len(candidates) \/ outcome \in {"connected", "no socket"}

RoundEnds(outcome) == turn = Len(candidates) \/ (outcome = "connected" /\ ~request.compare)

\* attempt_connections, one candidate; diagnose goes on with the next round
\* unless some candidate ever answered.
Attempt ==
  /\ pc = "connect"
  /\ \E outcome \in OutcomeOf(candidates[turn]) :
       /\ attempts' = Append(attempts, [address |-> candidates[turn], outcome |-> outcome])
       /\ IF ~RoundEnds(outcome)
          THEN turn' = turn + 1 /\ UNCHANGED <<pc, round, reachable, missed>>
          ELSE /\ missed' = missed \union (reachable \intersect Range(candidates))
               /\ IF Connected(attempts') \/ round = request.retries + 1
                  THEN /\ pc' = IF request.tls /\ Connected(attempts') THEN "tls" ELSE "classify"
                       /\ UNCHANGED <<round, turn, reachable>>
                  ELSE BeginRound /\ UNCHANGED pc
  /\ UNCHANGED <<world, request, resolution, candidates, tlsStatus, verdict, exit>>

\* The timeout cannot be applied to the socket.
AttemptFails ==
  /\ pc = "connect" /\ candidates[turn] \in socketable
  /\ Done(ExitFailure)
  /\ UNCHANGED <<world, reachable, missed, request, evidence, verdict>>

\* tls_handshake: connect to the same address again, then the handshake; the
\* run fails without a socket and when a timeout cannot be applied to it.
TlsHandshake ==
  /\ pc = "tls"
  /\ \E outcome \in OutcomeOf(FirstConnected) :
       \/ Done(ExitFailure) /\ UNCHANGED tlsStatus
       \/ /\ outcome # "no socket"
          /\ tlsStatus' \in (IF outcome = "connected" THEN {"connected", "failed"} ELSE {"failed"})
          /\ pc' = "classify" /\ UNCHANGED exit
  /\ UNCHANGED <<world, reachable, missed, request, resolution, candidates, round, turn, attempts, verdict>>

Complete == Connected(attempts) /\ (request.tls => tlsStatus = "connected")
Tested == \E i \in DOMAIN attempts : attempts[i].outcome # "no socket"

Untested == resolution = "resolved" /\ ~Tested

Classify ==
  /\ pc = "classify"
  /\ verdict' = IF Complete THEN "decided" ELSE IF Untested THEN "incomplete" ELSE "otherwise"
  /\ pc' = "report"
  /\ UNCHANGED <<world, reachable, missed, request, evidence, exit>>

Report ==
  /\ pc = "report"
  /\ \/ Done(CASE verdict = "decided" -> ExitOK [] verdict = "incomplete" -> ExitFailure [] OTHER -> ExitFinding)
     \/ Done(ExitFailure)
  /\ UNCHANGED <<world, reachable, missed, request, evidence, verdict>>

Interrupt ==
  /\ pc # "done"
  /\ Done(ExitInterrupted)
  /\ UNCHANGED <<world, reachable, missed, request, evidence, verdict>>

ToolStep ==
  \/ Resolve \/ ResolveNegative \/ ResolveFails \/ Attempt \/ AttemptFails \/ TlsHandshake
  \/ Classify \/ Report

Next == NetworkChanges \/ ToolStep \/ Interrupt

-------------------------------------------------------------------------------
(* The view of VerdictContract: a connection decides; a name whose         *)
(* addresses could not be tested at all leaves the answer open.            *)

AtClassify == pc \in {"classify", "report"} \/ verdict # "none"
Decisive == AtClassify /\ Complete
Gap == AtClassify /\ Untested

\* Nothing reachable is called UNREACHABLE: if some candidate answered, and a
\* socket could be made for it, throughout any one of the rounds, a connection
\* was made; without one, all the rounds were gone through, with all of the
\* candidates in each, and at least one of the attempts was a real one.
ReachableIsFound ==
  verdict = "otherwise" /\ resolution = "resolved" =>
    \/ Connected(attempts) /\ request.tls
    \/ /\ missed = {} /\ Tested
       /\ Len(attempts) = (request.retries + 1) * Len(candidates)
       /\ \A i \in DOMAIN attempts : attempts[i].address = candidates[((i - 1) % Len(candidates)) + 1]
===============================================================================
