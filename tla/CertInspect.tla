------------------------------ MODULE CertInspect -----------------------------
(***************************************************************************)
(* inspect_target, observe_endpoint and classify_target of CertWatch       *)
(* (opsforge/certwatch/certwatch.py) for a single target: a handshake that *)
(* verifies the chain and, if that fails, a second one to the same address *)
(* that does not, while the server's certificate and the date change.      *)
(*                                                                         *)
(* A name is the sequence of its labels.                                   *)
(***************************************************************************)
EXTENDS ExitStatus, Sequences, FiniteSets, Functions

CONSTANTS
  Certs,         \* certificate -> [trusted, names, others, from, to]; trusted: its chain is, as long
                 \* as it is in its period; others: has SANs of another kind
  Servers,       \* the addresses, in the order of the resolver
  Host,          \* the name that a client verifies
  WarnDays,
  CriticalDays,
  Baselines,     \* certificates whose fingerprint may be given, or None
  LastDay,       \* bound: days go from 0 to this one
  MaxRotations   \* bound: changes of a server

None == "none"
CertIds == DOMAIN Certs

CertAssumption ==
  /\ CriticalDays \in Nat /\ WarnDays \in Nat /\ CriticalDays <= WarnDays
  /\ \A c \in CertIds : Certs[c].from \in Int /\ Certs[c].to \in Int /\ Certs[c].from <= Certs[c].to
  /\ \A c \in CertIds : \A p \in Certs[c].names : p \in Seq(Range(p))
  /\ Host \in Seq(Range(Host))

VARIABLES
  serving,    \* server -> the certificate it presents, or None: it does not answer
  day,        \* the date
  rotations,  \* how often a server changed
  presented,  \* history: <<server, certificate, day>> of each that a handshake was shown
  baseline,   \* --baseline-sha256, or None
  pc,         \* where the tool is
  server,     \* the server of the connection, or None
  trust,      \* whether the verification of the handshake that was used succeeded
  leaf,       \* the certificate that was read, or None
  status,     \* the status of the target, or "none"
  verdict,
  exit

world == <<serving, day, rotations>>
evidence == <<server, trust, leaf, status>>
vars == <<world, presented, baseline, pc, evidence, verdict, exit>>

Init ==
  /\ serving \in [Range(Servers) -> CertIds \union {None}]
  /\ day = 0 /\ rotations = 0 /\ presented = {}
  /\ baseline \in Baselines
  /\ pc = "resolve" /\ server = None /\ trust = FALSE /\ leaf = None /\ status = "none"
  /\ verdict = "none" /\ exit = -1

\* A server gets another certificate, goes down or comes back.
ServerChanges ==
  /\ pc # "done" /\ rotations < MaxRotations
  /\ rotations' = rotations + 1
  /\ \E s \in Range(Servers), c \in CertIds \union {None} :
       c # serving[s] /\ serving' = [serving EXCEPT ![s] = c]
  /\ UNCHANGED <<day, presented, baseline, pc, evidence, verdict, exit>>

DayPasses ==
  /\ pc # "done" /\ day < LastDay
  /\ day' = day + 1
  /\ UNCHANGED <<serving, rotations, presented, baseline, pc, evidence, verdict, exit>>

-------------------------------------------------------------------------------
Done(code) == pc' = "done" /\ exit' = code

\* unobserved_target: any CertWatchError makes the target an ERROR.
Unobserved == status' = "ERROR" /\ pc' = "aggregate"

Resolve ==
  /\ pc = "resolve"
  /\ \/ pc' = "connect" /\ UNCHANGED status
     \/ Unobserved
  /\ UNCHANGED <<world, presented, baseline, server, trust, leaf, verdict, exit>>

\* _connect: the first server that answers, all within one budget.
Connect ==
  /\ pc = "connect"
  /\ \/ /\ \E i \in DOMAIN Servers :
             /\ serving[Servers[i]] # None
             /\ \A j \in 1..(i - 1) : serving[Servers[j]] = None
             /\ server' = Servers[i]
        /\ pc' = "handshake" /\ UNCHANGED status
     \/ Unobserved /\ UNCHANGED server
  /\ UNCHANGED <<world, presented, baseline, trust, leaf, verdict, exit>>

\* Mutant: the contexts are swapped, so that the first verifies nothing.
ContextsSwapped(c) == TRUE

\* The chain verifies only for a certificate in its period.
InPeriod(c, d) == Certs[c].from <= d /\ d <= Certs[c].to
Verified(c) == Certs[c].trusted /\ InPeriod(c, day)

Present(c) == presented' = presented \union {<<server, c, day>>}

\* The verifying handshake: read the leaf, or see the verification fail.
Handshake ==
  /\ pc = "handshake"
  /\ LET c == serving[server]
     IN \/ /\ c # None /\ Verified(c)
           /\ leaf' = c /\ trust' = TRUE /\ Present(c)
           /\ pc' = "decode" /\ UNCHANGED status
        \/ /\ c # None /\ ~Verified(c)
           /\ Present(c)
           /\ pc' = "retry" /\ UNCHANGED <<leaf, trust, status>>
        \/ Unobserved /\ UNCHANGED <<leaf, trust, presented>>
  /\ UNCHANGED <<world, baseline, server, verdict, exit>>

\* Only then: connect to the same server again and read whatever it presents.
HandshakeUnverified ==
  /\ pc = "retry"
  /\ \/ /\ serving[server] # None
        /\ leaf' = serving[server] /\ trust' = FALSE /\ Present(leaf')
        /\ pc' = "decode" /\ UNCHANGED status
     \/ Unobserved /\ UNCHANGED <<leaf, trust, presented>>
  /\ UNCHANGED <<world, baseline, server, verdict, exit>>

\* openssl decodes the leaf, or fails.
Decode ==
  /\ pc = "decode"
  /\ \/ pc' = "classify" /\ UNCHANGED status
     \/ Unobserved
  /\ UNCHANGED <<world, presented, baseline, server, trust, leaf, verdict, exit>>

\* assess_validity.
Remaining(c) == Certs[c].to - day
Validity(c) ==
  IF day < Certs[c].from THEN "NOT_YET_VALID"
  ELSE IF day > Certs[c].to THEN "EXPIRED"
  ELSE IF Remaining(c) <= CriticalDays THEN "CRITICAL"
  ELSE IF Remaining(c) <= WarnDays THEN "WARNING" ELSE "VALID"

\* verify_hostname for one DNS name: a wildcard is one whole label, the first
\* one, in front of at least two others.
Matches(pattern, name) ==
  \/ "*" \notin Range(pattern) /\ pattern = name
  \/ /\ Head(pattern) = "*" /\ "*" \notin Range(Tail(pattern))
     /\ Len(Tail(pattern)) >= 2 /\ Len(name) = Len(pattern)
     /\ Tail(name) = Tail(pattern)

Identity(c) ==
  IF Certs[c].names = {} THEN IF Certs[c].others THEN "mismatch" ELSE "unavailable"
  ELSE IF \E p \in Certs[c].names : Matches(p, Host) THEN "verified" ELSE "mismatch"

Severity(s) ==
  CASE s = "VALID" -> 0 [] s = "WARNING" -> 1 [] s = "DRIFT" -> 2
    [] s = "CRITICAL" -> 3 [] s = "NOT_YET_VALID" -> 4 [] OTHER -> 5

Conditions(c) ==
  {"VALID", Validity(c)}
    \union (IF baseline \notin {None, c} THEN {"DRIFT"} ELSE {})
    \union (IF ~trust \/ Identity(c) # "verified" THEN {"WARNING"} ELSE {})

Worst(conditions) == CHOOSE s \in conditions : \A t \in conditions : Severity(t) <= Severity(s)

ClassifyTarget ==
  /\ pc = "classify"
  /\ status' = Worst(Conditions(leaf))
  /\ pc' = "aggregate"
  /\ UNCHANGED <<world, presented, baseline, server, trust, leaf, verdict, exit>>

\* aggregate_status of one target.
Aggregate ==
  /\ pc = "aggregate"
  /\ verdict' = CASE status = "ERROR" -> "incomplete" [] status = "VALID" -> "otherwise" [] OTHER -> "decided"
  /\ pc' = "report"
  /\ UNCHANGED <<world, presented, baseline, evidence, exit>>

Report ==
  /\ pc = "report"
  /\ \/ Done(CASE verdict = "decided" -> ExitFinding [] verdict = "incomplete" -> ExitFailure [] OTHER -> ExitOK)
     \/ Done(ExitFailure)
  /\ UNCHANGED <<world, presented, baseline, evidence, verdict>>

Interrupt ==
  /\ pc # "done"
  /\ Done(ExitInterrupted)
  /\ UNCHANGED <<world, presented, baseline, evidence, verdict>>

ToolStep ==
  \/ Resolve \/ Connect \/ Handshake \/ HandshakeUnverified \/ Decode
  \/ ClassifyTarget \/ Aggregate \/ Report

Next == ServerChanges \/ DayPasses \/ ToolStep \/ Interrupt

-------------------------------------------------------------------------------
(* The view of VerdictContract: a finding decides, a target that could not *)
(* be observed leaves the answer open.                                     *)

Decisive == status \notin {"none", "VALID", "ERROR"}
Gap == status = "ERROR"

\* RFC 6125, said another way.
Covers(pattern, name) ==
  /\ Len(pattern) = Len(name)
  /\ \A i \in DOMAIN pattern : pattern[i] = name[i] \/ (i = 1 /\ pattern[i] = "*" /\ Len(pattern) >= 3)

\* The server presented the leaf, and trust is that of this handshake.
LeafShown ==
  \E d \in 0..day :
    <<server, leaf, d>> \in presented /\ (trust => Certs[leaf].trusted /\ InPeriod(leaf, d))

\* The server presented a certificate that could not be verified then.
FailureShown ==
  \E c \in CertIds, d \in 0..day :
    <<server, c, d>> \in presented /\ ~(Certs[c].trusted /\ InPeriod(c, d))

\* All that is said of the certificate is said of one that the connected
\* server presented: trust is that of this very certificate, in its period on
\* the day of its handshake, also if another one failed the verification before
\* it; without trust, a certificate of this server was not to be trusted or out
\* of its period when it was shown; and VALID means that it was in its period
\* on some day until now, is the baseline's, and covers the host.
JudgedWhatWasServed ==
  status \notin {"none", "ERROR"} =>
    /\ LeafShown
    /\ ~trust => FailureShown
    /\ status = "VALID" =>
         /\ trust /\ baseline \in {None, leaf}
         /\ Certs[leaf].from <= day /\ Certs[leaf].to > WarnDays
         /\ \E p \in Certs[leaf].names : Covers(p, Host)
===============================================================================
