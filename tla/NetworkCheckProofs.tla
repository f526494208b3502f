-------------------------- MODULE NetworkCheckProofs --------------------------
(***************************************************************************)
(* What TLAPS proves of module NetworkCheck, for every deadline, floor,    *)
(* number of candidates, redirects and reads, and however late the thread  *)
(* is.                                                                     *)
(***************************************************************************)
EXTENDS NetworkCheck, TLAPS

\* A timeout that was computed earlier than it is used is too long by no more
\* than what the thread was late meanwhile.
TimeoutsFit ==
  pc \in {"resolve", "socket", "timeout", "connect"} => now + budget <= deadline + slipped

\* The candidate that is tried is one of those that are left.
HasCandidate ==
  pc \in {"begin", "socket", "timeout", "connect"} => Len(attempts) < candidates

\* TypeOK in three parts.
TypeOfControl ==
  /\ kind \in Kinds
  /\ pc \in {"hop", "resolve", "share", "begin", "socket", "timeout", "connect",
             "exhausted", "tls", "send", "recv", "head", "done"}
  /\ open \in BOOLEAN /\ observed \in BOOLEAN /\ judged \in BOOLEAN
  /\ verdict \in {"none", "PASS", "FAIL", "ERROR"}

TypeOfTime ==
  /\ now \in Nat /\ deadline = Deadline /\ slipped \in 0..MaxSlips
  /\ redirects \in 0..MaxRedirects /\ reads \in 0..MaxReads
  /\ budget \in 0..Deadline

TypeOfSearch ==
  /\ resolvedAt \in 0..now /\ candidates \in 0..MaxCandidates
  /\ attempts \in Seq({"unavailable", "failed", "connected"}) /\ Len(attempts) <= candidates

IInv == TypeOK /\ NothingLeftOpen /\ TimeoutsFit /\ HasCandidate /\ DeadlineHolds

LEMMA ShareIsPart ==
  ASSUME NEW r \in Nat, NEW k \in Nat \ {0}
  PROVE  r \div k \in 0..r
<1> DEFINE q == r \div k
<1>1. q \in Int /\ k * q <= r /\ r < k * q + k
  BY SMT
<1> QED BY SMT

LEMMA TypeParts == TypeOfControl /\ TypeOfTime /\ TypeOfSearch <=> TypeOK
BY DEF TypeOfControl, TypeOfTime, TypeOfSearch, TypeOK

LEMMA InitInvariant == Init => IInv
<1> SUFFICES ASSUME Init PROVE IInv
  OBVIOUS
<1> USE NetworkAssumption DEF Init
<1>1. TypeOfControl
  BY DEF TypeOfControl
<1>2. TypeOfTime
  BY DEF TypeOfTime
<1>3. TypeOfSearch
  BY DEF TypeOfSearch
<1>4. NothingLeftOpen
  BY DEF NothingLeftOpen
<1>5. TimeoutsFit /\ HasCandidate /\ DeadlineHolds
  BY DEF TimeoutsFit, HasCandidate, DeadlineHolds
<1> QED BY <1>1, <1>2, <1>3, <1>4, <1>5, TypeParts DEF IInv

LEMMA ShareKeepsInvariant == IInv /\ Share => IInv'
<1> SUFFICES ASSUME IInv, Share PROVE IInv'
  OBVIOUS
<1> USE NetworkAssumption DEF IInv
<1>1. CASE CandidatesLeft > 0 /\ Remaining > 0
  <2>1. Remaining \in Nat \ {0} /\ CandidatesLeft \in Nat \ {0} /\ Remaining <= Deadline
    BY <1>1 DEF TypeOK, Remaining, CandidatesLeft
  <2>2. FairShare \in 0..Remaining
    BY <2>1, ShareIsPart DEF FairShare
  <2>3. budget' \in 0..Deadline
    BY <1>1, <2>1, <2>2 DEF Share
  <2> QED
    BY <1>1, <2>3 DEF Share, TypeOK, NothingLeftOpen, TimeoutsFit, HasCandidate, DeadlineHolds,
       CandidatesLeft, time
<1>2. CASE ~(CandidatesLeft > 0 /\ Remaining > 0)
  BY <1>2 DEF Share, TypeOK, NothingLeftOpen, TimeoutsFit, HasCandidate, DeadlineHolds, time
<1> QED BY <1>1, <1>2

\* The inductive invariant: the timeout a blocking call is given fits before the
\* deadline, but for what the thread has been late since it was computed.
THEOREM Invariance == Spec => []IInv
<1>1. IInv /\ [Next]_vars => IInv'
  <2> SUFFICES ASSUME IInv, [Next]_vars PROVE IInv'
    OBVIOUS
  <2> USE NetworkAssumption DEF IInv, time, search
  <2>1. CASE BeginHop
    BY <2>1 DEF BeginHop, NetworkFails, Conclude, Remaining,
       TypeOK, NothingLeftOpen, TimeoutsFit, HasCandidate, DeadlineHolds
  <2>2. CASE Resolve
    <3> USE <2>2 DEF Resolve, Takes, NetworkFails, Conclude
    <3>1. TypeOfControl'
      BY DEF TypeOK, TypeOfControl
    <3>2. TypeOfTime'
      BY DEF TypeOK, TypeOfTime
    <3>3. TypeOfSearch'
      <4>1. now' \in Nat /\ now <= now'
        BY DEF TypeOK
      <4>2. \/ candidates' \in 1..MaxCandidates /\ resolvedAt' = now' /\ attempts' = << >>
            \/ UNCHANGED <<candidates, resolvedAt, attempts>>
        BY Zenon
      <4> HIDE <2>2
      <4>3. candidates' \in 0..MaxCandidates /\ resolvedAt' \in 0..now'
        BY <4>1, <4>2 DEF TypeOK
      <4>4. attempts' \in Seq({"unavailable", "failed", "connected"}) /\ Len(attempts') <= candidates'
        <5>1. CASE candidates' \in 1..MaxCandidates /\ attempts' = << >>
          BY <5>1
        <5>2. CASE UNCHANGED <<candidates, attempts>>
          BY <5>2 DEF TypeOK
        <5> QED BY <4>2, <5>1, <5>2
      <4> QED BY <4>3, <4>4 DEF TypeOfSearch
    <3>4. NothingLeftOpen'
      BY DEF NothingLeftOpen, TypeOK
    <3>5. TimeoutsFit' /\ HasCandidate'
      BY DEF TimeoutsFit, HasCandidate, TypeOK
    <3>6. DeadlineHolds'
      BY DEF DeadlineHolds, TimeoutsFit, TypeOK
    <3>7. TypeOK'
      BY <3>1, <3>2, <3>3, Zenon DEF TypeOK, TypeOfControl, TypeOfTime, TypeOfSearch
    <3> QED BY <3>4, <3>5, <3>6, <3>7, Zenon DEF IInv
  <2>3. CASE BeginAttempt
    BY <2>3 DEF BeginAttempt, Remaining,
       TypeOK, NothingLeftOpen, TimeoutsFit, HasCandidate, DeadlineHolds
  <2>4. CASE CreateSocket
    <3> USE <2>4 DEF CreateSocket
    <3>1. TypeOfControl'
      BY DEF TypeOK, TypeOfControl
    <3>2. TypeOfTime'
      BY DEF TypeOK, TypeOfTime
    <3>3. TypeOfSearch'
      BY DEF TypeOK, TypeOfSearch, HasCandidate
    <3>4. NothingLeftOpen'
      BY DEF NothingLeftOpen, TypeOK
    <3>5. TimeoutsFit' /\ HasCandidate'
      BY DEF TimeoutsFit, HasCandidate, TypeOK
    <3>6. DeadlineHolds'
      BY DEF DeadlineHolds, TimeoutsFit, TypeOK
    <3>7. TypeOK'
      BY <3>1, <3>2, <3>3, Zenon DEF TypeOK, TypeOfControl, TypeOfTime, TypeOfSearch
    <3> QED BY <3>4, <3>5, <3>6, <3>7, Zenon DEF IInv
  <2>5. CASE SetTimeout
    BY <2>5 DEF SetTimeout, Conclude,
       TypeOK, NothingLeftOpen, TimeoutsFit, HasCandidate, DeadlineHolds
  <2>6. CASE Connect
    <3> USE <2>6 DEF Connect, Takes
    <3>1. TypeOfControl'
      BY DEF TypeOK, TypeOfControl
    <3>2. TypeOfTime'
      BY DEF TypeOK, TypeOfTime
    <3>3. TypeOfSearch'
      BY DEF TypeOK, TypeOfSearch, HasCandidate
    <3>4. NothingLeftOpen'
      <4>1. \/ pc' \in {"send", "tls"} /\ UNCHANGED open
            \/ pc' = "share" /\ open' = FALSE
        OBVIOUS
      <4>2. open
        BY DEF NothingLeftOpen
      <4> HIDE <2>6
      <4>3. CASE pc' \in {"send", "tls"} /\ UNCHANGED open
        BY <4>2, <4>3 DEF NothingLeftOpen
      <4>4. CASE pc' = "share" /\ open' = FALSE
        BY <4>4 DEF NothingLeftOpen
      <4> QED BY <4>1, <4>3, <4>4
    <3>5. TimeoutsFit' /\ HasCandidate'
      BY DEF TimeoutsFit, HasCandidate, TypeOK
    <3>6. DeadlineHolds'
      BY DEF DeadlineHolds, TimeoutsFit, TypeOK
    <3>7. TypeOK'
      BY <3>1, <3>2, <3>3, Zenon DEF TypeOK, TypeOfControl, TypeOfTime, TypeOfSearch
    <3> QED BY <3>4, <3>5, <3>6, <3>7, Zenon DEF IInv
  <2>7. CASE Exhausted
    BY <2>7 DEF Exhausted, NetworkFails, Conclude,
       TypeOK, NothingLeftOpen, TimeoutsFit, HasCandidate, DeadlineHolds
  <2>8. CASE Handshake
    <3> USE <2>8 DEF Handshake, FailOpen, NetworkFails, Takes, Conclude, Remaining
    <3>1. TypeOfControl'
      BY DEF TypeOK, TypeOfControl
    <3>2. TypeOfTime'
      BY DEF TypeOK, TypeOfTime
    <3>3. TypeOfSearch'
      BY DEF TypeOK, TypeOfSearch, HasCandidate
    <3>4. NothingLeftOpen'
      BY DEF NothingLeftOpen, TypeOK
    <3>5. TimeoutsFit' /\ HasCandidate'
      BY DEF TimeoutsFit, HasCandidate, TypeOK
    <3>6. DeadlineHolds'
      BY DEF DeadlineHolds, TimeoutsFit, TypeOK
    <3>7. TypeOK'
      BY <3>1, <3>2, <3>3, Zenon DEF TypeOK, TypeOfControl, TypeOfTime, TypeOfSearch
    <3> QED BY <3>4, <3>5, <3>6, <3>7, Zenon DEF IInv
  <2>9. CASE Send
    <3> USE <2>9 DEF Send, FailOpen, NetworkFails, Takes, Conclude, Remaining
    <3>1. TypeOfControl'
      BY DEF TypeOK, TypeOfControl
    <3>2. TypeOfTime'
      BY DEF TypeOK, TypeOfTime
    <3>3. TypeOfSearch'
      BY DEF TypeOK, TypeOfSearch, HasCandidate
    <3>4. NothingLeftOpen'
      BY DEF NothingLeftOpen, TypeOK
    <3>5. TimeoutsFit' /\ HasCandidate'
      BY DEF TimeoutsFit, HasCandidate, TypeOK
    <3>6. DeadlineHolds'
      BY DEF DeadlineHolds, TimeoutsFit, TypeOK
    <3>7. TypeOK'
      BY <3>1, <3>2, <3>3, Zenon DEF TypeOK, TypeOfControl, TypeOfTime, TypeOfSearch
    <3> QED BY <3>4, <3>5, <3>6, <3>7, Zenon DEF IInv
  <2>10. CASE Receive
    <3> USE <2>10 DEF Receive, FailOpen, NetworkFails, Takes, Conclude, Remaining
    <3>1. TypeOfControl'
      BY DEF TypeOK, TypeOfControl
    <3>2. TypeOfTime'
      BY DEF TypeOK, TypeOfTime
    <3>3. TypeOfSearch'
      BY DEF TypeOK, TypeOfSearch, HasCandidate
    <3>4. NothingLeftOpen'
      BY DEF NothingLeftOpen, TypeOK
    <3>5. TimeoutsFit' /\ HasCandidate'
      BY DEF TimeoutsFit, HasCandidate, TypeOK
    <3>6. DeadlineHolds'
      BY DEF DeadlineHolds, TimeoutsFit, TypeOK
    <3>7. TypeOK'
      BY <3>1, <3>2, <3>3, Zenon DEF TypeOK, TypeOfControl, TypeOfTime, TypeOfSearch
    <3> QED BY <3>4, <3>5, <3>6, <3>7, Zenon DEF IInv
  <2>11. CASE UseHead
    <3> USE <2>11 DEF UseHead, Conclude
    <3>1. TypeOfControl'
      BY DEF TypeOK, TypeOfControl
    <3>2. TypeOfTime'
      BY DEF TypeOK, TypeOfTime
    <3>3. TypeOfSearch'
      BY DEF TypeOK, TypeOfSearch, HasCandidate
    <3>4. NothingLeftOpen'
      BY DEF NothingLeftOpen, TypeOK
    <3>5. TimeoutsFit' /\ HasCandidate'
      BY DEF TimeoutsFit, HasCandidate, TypeOK
    <3>6. DeadlineHolds'
      BY DEF DeadlineHolds, TimeoutsFit, TypeOK
    <3>7. TypeOK'
      BY <3>1, <3>2, <3>3, Zenon DEF TypeOK, TypeOfControl, TypeOfTime, TypeOfSearch
    <3> QED BY <3>4, <3>5, <3>6, <3>7, Zenon DEF IInv
  <2>12. CASE Slip
    BY <2>12 DEF Slip,
       TypeOK, NothingLeftOpen, TimeoutsFit, HasCandidate, DeadlineHolds
  <2>13. CASE Share
    BY <2>13, ShareKeepsInvariant DEF IInv
  <2>14. CASE UNCHANGED vars
    BY <2>14 DEF vars, TypeOK, NothingLeftOpen, TimeoutsFit, HasCandidate, DeadlineHolds
  <2> QED
    BY <2>1, <2>2, <2>3, <2>4, <2>5, <2>6, <2>7,
       <2>8, <2>9, <2>10, <2>11, <2>12, <2>13, <2>14
    DEF Next, CheckStep
<1> QED BY InitInvariant, <1>1, PTL DEF Spec

\* Every variable keeps its type; deadline is never set again, and no list of
\* outcomes is longer than the list of candidates.
THEOREM TypeCorrect == Spec => []TypeOK
<1>1. IInv => TypeOK
  BY DEF IInv
<1> QED BY Invariance, <1>1, PTL

\* A check holds a socket open exactly where it uses one, so none is left when
\* the result is there: the except and finally clauses of connect_first,
\* run_http_head and _certificate_check.
THEOREM SocketsClosed == Spec => []NothingLeftOpen
<1>1. IInv => NothingLeftOpen
  BY DEF IInv
<1> QED BY Invariance, <1>1, PTL

\* The deadline of _connect_tcp_target and its callers holds across candidates,
\* redirects and reads: the check overruns it only by what its thread was late.
THEOREM DeadlineKept == Spec => []DeadlineHolds
<1>1. IInv => DeadlineHolds
  BY DEF IInv
<1> QED BY Invariance, <1>1, PTL

-------------------------------------------------------------------------------
(* A verdict is a finding only when something was found.                   *)

Connected == \E i \in DOMAIN attempts : attempts[i] = "connected"

\* There is no verdict before the end, a connection in use was recorded as one,
\* and a redirect is followed only from an answer, which needs a connection.
GapInv ==
  /\ pc # "done" => verdict = "none"
  /\ pc \in {"tls", "send", "recv", "head"} => Connected
  /\ pc \in {"hop", "resolve"} => candidates = 0 \/ Connected
  /\ pc \in {"send", "recv", "head"} => kind # "certificate"

LEMMA ConnectedIsSeen == Connected => ~OnlyUnavailable
BY DEF Connected, OnlyUnavailable

LEMMA SameAttempts == UNCHANGED attempts => (Connected' <=> Connected) /\ (OnlyUnavailable' <=> OnlyUnavailable)
BY DEF Connected, OnlyUnavailable

LEMMA GapStep == IInv /\ GapInv /\ GapsAreErrors /\ [Next]_vars => GapInv' /\ GapsAreErrors'
<1> SUFFICES ASSUME IInv, GapInv, GapsAreErrors, [Next]_vars PROVE GapInv' /\ GapsAreErrors'
  OBVIOUS
<1> USE NetworkAssumption DEF time, search
<1>t. TypeOfControl /\ TypeOfSearch
  BY TypeParts DEF IInv
<1> USE <1>t DEF TypeOfControl, TypeOfSearch
<1>1. CASE BeginHop
  BY <1>1, SameAttempts, ConnectedIsSeen
  DEF BeginHop, NetworkFails, Conclude, GapInv, GapsAreErrors, CandidatesLeft
<1>2. CASE Resolve
  <2>1. CASE /\ candidates' \in 1..MaxCandidates
             /\ pc' = "share"
             /\ UNCHANGED verdict
    BY <2>1, <1>2 DEF Resolve, GapInv, GapsAreErrors
  <2>2. CASE NetworkFails /\ UNCHANGED <<candidates, attempts>>
    BY <2>2, <1>2, SameAttempts, ConnectedIsSeen
    DEF Resolve, NetworkFails, Conclude, GapInv, GapsAreErrors, CandidatesLeft
  <2>3. CASE Conclude("ERROR")
    BY <2>3 DEF Conclude, GapInv, GapsAreErrors
  <2> QED BY <1>2, <2>1, <2>2, <2>3 DEF Resolve
<1>3. CASE Share
  BY <1>3 DEF Share, GapInv, GapsAreErrors
<1>4. CASE BeginAttempt
  BY <1>4 DEF BeginAttempt, GapInv, GapsAreErrors
<1>5. CASE CreateSocket
  BY <1>5 DEF CreateSocket, GapInv, GapsAreErrors
<1>6. CASE SetTimeout
  BY <1>6 DEF SetTimeout, Conclude, GapInv, GapsAreErrors
<1>7. CASE Connect
  <2>1. CASE attempts' = Append(attempts, "connected") /\ pc' \in {"send", "tls"} /\ (pc' = "send" => kind = "http")
    <3>1. Connected'
      BY <2>1 DEF Connected
    <3> QED BY <3>1, <2>1, <1>7 DEF Connect, GapInv, GapsAreErrors
  <2>2. CASE pc' = "share"
    BY <2>2, <1>7 DEF Connect, GapInv, GapsAreErrors
  <2> QED BY <1>7, <2>1, <2>2 DEF Connect
<1>8. CASE Exhausted
  BY <1>8, SameAttempts DEF Exhausted, NetworkFails, Conclude, GapInv, GapsAreErrors, CandidatesLeft
<1>9. CASE Handshake
  BY <1>9, SameAttempts, ConnectedIsSeen
  DEF Handshake, FailOpen, NetworkFails, Conclude, GapInv, GapsAreErrors, Kinds
<1>10. CASE Send
  BY <1>10, SameAttempts, ConnectedIsSeen
  DEF Send, FailOpen, NetworkFails, Conclude, GapInv, GapsAreErrors
<1>11. CASE Receive
  BY <1>11, SameAttempts, ConnectedIsSeen
  DEF Receive, FailOpen, NetworkFails, Conclude, GapInv, GapsAreErrors
<1>12. CASE UseHead
  BY <1>12, SameAttempts, ConnectedIsSeen
  DEF UseHead, Conclude, GapInv, GapsAreErrors
<1>13. CASE Slip
  BY <1>13, SameAttempts DEF Slip, GapInv, GapsAreErrors, CandidatesLeft
<1>14. CASE UNCHANGED vars
  BY <1>14, SameAttempts DEF vars, GapInv, GapsAreErrors, CandidatesLeft
<1> QED
  BY <1>1, <1>2, <1>3, <1>4, <1>5, <1>6, <1>7, <1>8, <1>9, <1>10, <1>11, <1>12, <1>13, <1>14
  DEF Next, CheckStep

\* What could not be evaluated is reported as ERROR and never as FAIL: a
\* certificate that was not seen, and candidates for none of which there was a
\* socket (_certificate_check and the end of connect_first).
THEOREM GapsReported == Spec => []GapsAreErrors
<1>1. Init => GapInv /\ GapsAreErrors
  BY DEF Init, GapInv, GapsAreErrors
<1>2. IInv /\ (GapInv /\ GapsAreErrors) /\ [Next]_vars => (GapInv /\ GapsAreErrors)'
  BY GapStep
<1> QED BY Invariance, <1>1, <1>2, PTL DEF Spec

-------------------------------------------------------------------------------
(* Every candidate has a turn.                                             *)

\* There was time for the floor of each candidate and for a thread that is s
\* ticks late.
Enough(s) == s >= slipped /\ deadline - resolvedAt >= candidates * (Floor + s)

\* Then there still is for those that are left, and the share of the present
\* one leaves it for the others.
TurnInv ==
  \A s \in Nat : Enough(s) =>
    /\ pc \in {"share", "begin", "socket", "timeout", "connect", "exhausted"}
         => Remaining + slipped >= CandidatesLeft * (Floor + s)
    /\ pc \in {"begin", "socket", "timeout", "connect"}
         => Remaining + slipped - budget >= (CandidatesLeft - 1) * (Floor + s)

\* The search is given up when all were tried or the time is over.
GivenUp == pc = "exhausted" => CandidatesLeft <= 0 \/ Remaining <= 0

\* A share of r ticks for k candidates leaves the others what they need.
LEMMA ShareLeavesRoom ==
  ASSUME NEW r \in Nat, NEW k \in Nat \ {0}, NEW g \in Nat, NEW late \in Nat,
         r + late >= k * g, r \div k \in 0..r
  PROVE  r + late - (r \div k) >= (k - 1) * g
<1> DEFINE q == r \div k
<1>1. q \in Nat /\ k * q <= r
  BY SMT
<1> HIDE DEF q
<1>2. (k - 1) * g = k * g - g /\ (k - 1) * q = k * q - q /\ k - 1 \in Nat
  BY <1>1
<1>3. CASE q <= g
  BY <1>1, <1>2, <1>3
<1>4. CASE g <= q
  <2>1. (k - 1) * g <= (k - 1) * q
    <3> DEFINE j == k - 1
           d == q - g
    <3>1. j \in Nat /\ d \in Nat /\ q = g + d
      BY <1>1, <1>2, <1>4
    <3> HIDE DEF j, d
    <3>2. j * d \in Nat /\ j * (g + d) = j * g + j * d
      BY <3>1
    <3>3. j * g <= j * q
      BY <3>1, <3>2
    <3> QED BY <3>3 DEF j
  <2> QED BY <1>1, <1>2, <2>1
<1>5. r + late - q >= (k - 1) * g
  BY <1>1, <1>3, <1>4
<1> QED BY <1>5 DEF q

\* So does the share that is given, which is at least the floor if there is so
\* much time, and otherwise what there is.
LEMMA FairShareLeavesRoom ==
  ASSUME TypeOK, CandidatesLeft \in Nat \ {0}, Remaining \in Nat \ {0},
         NEW s \in Nat, s >= slipped,
         Remaining + slipped >= CandidatesLeft * (Floor + s)
  PROVE  Remaining + slipped - FairShare >= (CandidatesLeft - 1) * (Floor + s)
<1> USE NetworkAssumption
<1> DEFINE r == Remaining
           k == CandidatesLeft
           g == Floor + s
<1>1. r \in Nat /\ k \in Nat \ {0} /\ g \in Nat /\ slipped \in Nat /\ Floor \in Nat /\ Floor <= g
  BY DEF TypeOK
<1>2. r + slipped >= k * g
  OBVIOUS
<1>3. r \div k \in 0..r
  BY <1>1, ShareIsPart
<1>4. (k - 1) * g = k * g - g
  BY <1>1
<1>5. g <= k * g
  <2>1. k - 1 \in Nat /\ (k - 1) * g \in Nat
    BY <1>1
  <2> HIDE DEF k, g
  <2> QED BY <1>1, <1>4, <2>1
<1>6. Floor <= r
  BY <1>1, <1>2, <1>5 DEF TypeOK
<1>7. CASE r \div k >= Floor
  <2>1. FairShare = r \div k
    BY <1>7 DEF FairShare
  <2>2. r + slipped - (r \div k) >= (k - 1) * g
    <3> HIDE DEF r, k, g
    <3> QED BY <1>1, <1>2, <1>3, ShareLeavesRoom
  <2> QED BY <2>1, <2>2
<1>8. CASE ~(r \div k >= Floor)
  <2>1. FairShare = Floor
    BY <1>6, <1>8 DEF FairShare
  <2>2. r + slipped - Floor >= (k - 1) * g
    <3> HIDE DEF r, k, g
    <3> QED BY <1>1, <1>2, <1>4
  <2> QED BY <2>1, <2>2
<1> QED BY <1>7, <1>8

LEMMA SmallerShare ==
  ASSUME NEW r \in Int, NEW late \in Int, NEW b \in Int, NEW c \in Int, NEW n \in Int,
         r + late - b >= n, c <= b
  PROVE  r + late - c >= n
OBVIOUS

LEMMA LaterIsLess ==
  ASSUME NEW d \in Int, NEW t \in Int, NEW u \in Int, NEW b \in Int, u <= t + b
  PROVE  d - u \in Int /\ d - u >= d - t - b
OBVIOUS

LEMMA LessStillEnough ==
  ASSUME NEW r \in Int, NEW q \in Int, NEW late \in Int, NEW b \in Int, NEW n \in Int,
         r + late - b >= n, q >= r - b
  PROVE  q + late >= n
OBVIOUS

LEMMA MinusZero == ASSUME NEW k \in Nat PROVE k - 0 = k
OBVIOUS

LEMMA ProductIsNat == ASSUME NEW k \in Nat, NEW g \in Nat PROVE k * g \in Nat
OBVIOUS

LEMMA TurnStep == IInv /\ TurnInv /\ GivenUp /\ [Next]_vars => TurnInv' /\ GivenUp'
<1> SUFFICES ASSUME IInv, TurnInv, GivenUp, [Next]_vars PROVE TurnInv' /\ GivenUp'
  OBVIOUS
<1> USE NetworkAssumption DEF time, search
<1>t. TypeOK /\ HasCandidate /\ TypeOfTime /\ TypeOfSearch /\ CandidatesLeft \in Nat /\ Remaining \in Int
  BY TypeParts DEF IInv, TypeOK, CandidatesLeft, Remaining
<1>i. /\ now \in Int /\ deadline \in Int /\ slipped \in Int /\ budget \in Int /\ budget >= 0
      /\ Floor \in Nat /\ Remaining \in Int /\ slipped >= 0
  BY <1>t DEF TypeOfTime
\* A step that leaves the search and the clock alone.
<1>q. ASSUME UNCHANGED <<now, deadline, slipped, resolvedAt, candidates, attempts, budget>>,
             pc' \in {"share", "begin", "socket", "timeout", "connect"} => pc' = pc \/ (pc = "timeout" /\ pc' = "connect"),
             pc' = "exhausted" => pc \in {"exhausted"}
      PROVE  TurnInv' /\ GivenUp'
  BY <1>q DEF TurnInv, GivenUp, Enough, Remaining, CandidatesLeft
\* A step out of the search.
<1>o. ASSUME pc' \notin {"share", "begin", "socket", "timeout", "connect", "exhausted"}
      PROVE  TurnInv' /\ GivenUp'
  BY <1>o DEF TurnInv, GivenUp
<1>1. CASE BeginHop
  BY <1>1, <1>o DEF BeginHop, NetworkFails, Conclude
<1>2. CASE Resolve
  <2>1. CASE /\ candidates' \in 1..MaxCandidates
             /\ resolvedAt' = now' /\ attempts' = << >>
             /\ pc' = "share"
    <3>1. CandidatesLeft' = candidates' /\ candidates' \in Nat
      <4>1. Len(attempts') = 0
        BY <2>1
      <4>2. candidates' \in Nat
        BY <2>1
      <4>3. candidates' - 0 = candidates'
        BY <4>2, MinusZero
      <4> QED BY <4>1, <4>2, <4>3 DEF CandidatesLeft
    <3>2. slipped' \in Nat /\ deadline' \in Nat /\ now' \in Nat
      BY <1>2, <1>t DEF Resolve, Takes, TypeOK
    <3>3. ASSUME NEW s \in Nat, Enough(s)'
          PROVE  Remaining' + slipped' >= CandidatesLeft' * (Floor + s)
      <4>1. deadline' - now' >= candidates' * (Floor + s)
        BY <3>3, <2>1 DEF Enough
      <4> DEFINE need == candidates' * (Floor + s)
      <4>2. need \in Nat
        <5>1. candidates' \in Nat /\ Floor + s \in Nat
          BY <3>1
        <5> QED BY <5>1, ProductIsNat
      <4> HIDE DEF need
      <4>3. deadline' - now' + slipped' >= need
        BY <3>2, <4>1, <4>2 DEF need
      <4> QED BY <3>1, <4>3 DEF Remaining, need
    <3> QED BY <2>1, <3>3 DEF TurnInv, GivenUp
  <2>2. CASE pc' = "done"
    BY <2>2, <1>o
  <2> QED BY <1>2, <2>1, <2>2 DEF Resolve, NetworkFails, Conclude
<1>3. CASE Share
  <2>1. CASE CandidatesLeft > 0 /\ Remaining > 0
    <3>1. /\ pc = "share" /\ pc' = "begin" /\ budget' = FairShare
          /\ UNCHANGED <<now, deadline, slipped, resolvedAt, candidates, attempts>>
      BY <1>3, <2>1 DEF Share
    <3>2. CandidatesLeft \in Nat \ {0} /\ Remaining \in Nat \ {0}
      BY <2>1, <1>t
    <3>3. ASSUME NEW s \in Nat, Enough(s)
          PROVE  /\ Remaining + slipped >= CandidatesLeft * (Floor + s)
                 /\ Remaining + slipped - FairShare >= (CandidatesLeft - 1) * (Floor + s)
      <4>1. s >= slipped /\ Remaining + slipped >= CandidatesLeft * (Floor + s)
        BY <3>1, <3>3 DEF TurnInv, Enough
      <4> QED BY <4>1, <3>2, <1>t, FairShareLeavesRoom
    <3>4. Remaining' = Remaining /\ CandidatesLeft' = CandidatesLeft /\ \A s \in Nat : Enough(s)' <=> Enough(s)
      BY <3>1 DEF Remaining, CandidatesLeft, Enough
    <3> QED BY <3>1, <3>3, <3>4 DEF TurnInv, GivenUp
  <2>2. CASE ~(CandidatesLeft > 0 /\ Remaining > 0)
    <3>1. /\ pc = "share" /\ pc' = "exhausted"
          /\ UNCHANGED <<now, deadline, slipped, resolvedAt, candidates, attempts, budget>>
      BY <1>3, <2>2 DEF Share
    <3>2. CandidatesLeft' <= 0 \/ Remaining' <= 0
      BY <3>1, <2>2, <1>t DEF CandidatesLeft, Remaining
    <3> QED BY <3>1, <3>2 DEF TurnInv, GivenUp, Enough, Remaining, CandidatesLeft
  <2> QED BY <2>1, <2>2
<1>4. CASE BeginAttempt
  <2>1. /\ pc = "begin" /\ pc' \in {"exhausted", "socket"}
        /\ pc' = "exhausted" => Remaining <= 0
        /\ budget' \in Int /\ budget' <= budget
        /\ UNCHANGED <<now, deadline, slipped, resolvedAt, candidates, attempts>>
    BY <1>4, <1>t DEF BeginAttempt, TypeOfTime
  <2>2. Remaining' = Remaining /\ CandidatesLeft' = CandidatesLeft /\ \A s \in Nat : Enough(s)' <=> Enough(s)
    BY <2>1 DEF Remaining, CandidatesLeft, Enough
  <2>3. ASSUME NEW s \in Nat, Enough(s)
        PROVE  Remaining' + slipped' - budget' >= (CandidatesLeft' - 1) * (Floor + s)
    <3> DEFINE need == (CandidatesLeft - 1) * (Floor + s)
    <3>1. need \in Int /\ Remaining + slipped - budget >= need
      BY <2>1, <2>3, <1>t DEF TurnInv
    <3> HIDE DEF need
    <3>2. Remaining + slipped - budget' >= need
      BY <3>1, <2>1, <1>i, SmallerShare
    <3> QED BY <3>2, <2>1, <2>2 DEF need
  <2> QED BY <2>1, <2>2, <2>3 DEF TurnInv, GivenUp
<1>5. CASE CreateSocket
  <2>1. CASE pc' = "timeout" /\ UNCHANGED attempts
    BY <1>5, <2>1, <1>t DEF CreateSocket, TurnInv, GivenUp, Enough, Remaining, CandidatesLeft
  <2>2. CASE attempts' = Append(attempts, "unavailable") /\ pc' = "share"
    <3>1. /\ pc = "socket"
          /\ UNCHANGED <<now, deadline, slipped, resolvedAt, candidates, budget>>
      BY <1>5 DEF CreateSocket
    <3>2. CandidatesLeft' = CandidatesLeft - 1 /\ Remaining' = Remaining
      BY <3>1, <2>2, <1>t DEF CandidatesLeft, Remaining, TypeOfSearch
    <3>3. ASSUME NEW s \in Nat, Enough(s)
          PROVE  Remaining + slipped >= (CandidatesLeft - 1) * (Floor + s)
      <4> DEFINE need == (CandidatesLeft - 1) * (Floor + s)
      <4>1. need \in Int /\ Remaining + slipped - budget >= need
        BY <3>1, <3>3, <1>t DEF TurnInv
      <4> HIDE DEF need
      <4>2. Remaining + slipped >= need
        BY <4>1, <1>t DEF TypeOfTime
      <4> QED BY <4>2 DEF need
    <3>4. \A s \in Nat : Enough(s)' <=> Enough(s)
      BY <3>1 DEF Enough
    <3> QED BY <2>2, <3>1, <3>2, <3>3, <3>4 DEF TurnInv, GivenUp
  <2> QED BY <1>5, <2>1, <2>2 DEF CreateSocket
<1>6. CASE SetTimeout
  <2>1. CASE pc' = "connect"
    BY <1>6, <2>1, <1>q DEF SetTimeout
  <2>2. CASE pc' = "done"
    BY <2>2, <1>o
  <2> QED BY <1>6, <2>1, <2>2 DEF SetTimeout, Conclude
<1>7. CASE Connect
  <2>1. CASE pc' \in {"send", "tls"}
    BY <2>1, <1>o
  <2>2. CASE attempts' = Append(attempts, "failed") /\ pc' = "share"
    <3>1. /\ pc = "connect" /\ now' \in Nat /\ now' <= now + budget
          /\ UNCHANGED <<deadline, slipped, resolvedAt, candidates, budget>>
      BY <1>7, <1>t DEF Connect, Takes, TypeOfTime
    <3>2. CandidatesLeft' = CandidatesLeft - 1
      BY <3>1, <2>2, <1>t DEF CandidatesLeft, TypeOfSearch
    <3>r. Remaining' \in Int /\ Remaining' >= Remaining - budget
      <4>1. now' \in Int /\ now' <= now + budget /\ deadline' = deadline
        BY <3>1
      <4>2. deadline - now' \in Int /\ deadline - now' >= deadline - now - budget
        BY <4>1, <1>i, LaterIsLess
      <4> QED BY <4>1, <4>2 DEF Remaining
    <3>3. ASSUME NEW s \in Nat, Enough(s)
          PROVE  Remaining' + slipped >= (CandidatesLeft - 1) * (Floor + s)
      <4> DEFINE need == (CandidatesLeft - 1) * (Floor + s)
      <4>1. need \in Int /\ Remaining + slipped - budget >= need
        BY <3>1, <3>3, <1>t DEF TurnInv
      <4> HIDE DEF need
      <4>2. Remaining' + slipped >= need
        BY <4>1, <3>r, <1>i, LessStillEnough
      <4> QED BY <4>2 DEF need
    <3>4. \A s \in Nat : Enough(s)' <=> Enough(s)
      BY <3>1 DEF Enough
    <3> QED BY <2>2, <3>1, <3>2, <3>3, <3>4 DEF TurnInv, GivenUp
  <2> QED BY <1>7, <2>1, <2>2 DEF Connect
<1>8. CASE Exhausted
  BY <1>8, <1>o DEF Exhausted, NetworkFails, Conclude
<1>9. CASE Handshake
  BY <1>9, <1>o DEF Handshake, FailOpen, NetworkFails, Conclude
<1>10. CASE Send
  BY <1>10, <1>o DEF Send, FailOpen, NetworkFails, Conclude
<1>11. CASE Receive
  BY <1>11, <1>o DEF Receive, FailOpen, NetworkFails, Conclude
<1>12. CASE UseHead
  BY <1>12, <1>o DEF UseHead, Conclude
<1>13. CASE Slip
  <2>1. /\ now' = now + 1 /\ slipped' = slipped + 1
        /\ UNCHANGED <<pc, deadline, resolvedAt, candidates, attempts, budget>>
    BY <1>13 DEF Slip
  <2>2. /\ Remaining' + slipped' = Remaining + slipped /\ CandidatesLeft' = CandidatesLeft
        /\ Remaining' <= Remaining
        /\ Remaining' + slipped' - budget' = Remaining + slipped - budget
    BY <2>1, <1>t DEF Remaining, CandidatesLeft, TypeOfTime
  <2>3. \A s \in Nat : Enough(s)' => Enough(s)
    BY <2>1, <1>t DEF Enough, TypeOfTime
  <2>4. TurnInv'
    BY <2>1, <2>2, <2>3 DEF TurnInv
  <2>5. GivenUp'
    BY <2>1, <2>2, <1>t DEF GivenUp, Remaining, TypeOfTime
  <2> QED BY <2>4, <2>5
<1>14. CASE UNCHANGED vars
  BY <1>14, <1>q DEF vars
<1> QED
  BY <1>1, <1>2, <1>3, <1>4, <1>5, <1>6, <1>7, <1>8, <1>9, <1>10, <1>11, <1>12, <1>13, <1>14
  DEF Next, CheckStep

LEMMA GivenUpHadATurn == IInv /\ TurnInv /\ GivenUp => EveryCandidateHasATurn
<1> SUFFICES ASSUME IInv, TurnInv, GivenUp, pc = "exhausted",
                    Deadline - resolvedAt >= candidates * (Floor + slipped)
             PROVE  Len(attempts) = candidates
  BY DEF EveryCandidateHasATurn
<1> USE NetworkAssumption
<1>1. /\ slipped \in Nat /\ deadline = Deadline /\ CandidatesLeft \in Nat /\ Remaining \in Int
      /\ Len(attempts) \in Nat /\ candidates \in Nat
  BY DEF IInv, TypeOK, CandidatesLeft, Remaining
<1>2. Remaining + slipped >= CandidatesLeft * (Floor + slipped)
  BY <1>1 DEF TurnInv, Enough
<1>3. CASE CandidatesLeft > 0
  <2>1. (CandidatesLeft - 1) * (Floor + slipped) \in Nat
        /\ CandidatesLeft * (Floor + slipped) = (CandidatesLeft - 1) * (Floor + slipped) + (Floor + slipped)
    BY <1>1, <1>3
  <2>2. Remaining > 0
    BY <1>1, <1>2, <2>1
  <2> QED BY <1>1, <1>3, <2>2 DEF GivenUp
<1>4. CASE CandidatesLeft = 0
  BY <1>1, <1>4 DEF CandidatesLeft
<1> QED BY <1>1, <1>3, <1>4

\* A slow candidate never keeps the others from being tried: _connect_tcp_target
\* gives up before the last one only when there was less time, when the resolver
\* answered, than the floor for each.
THEOREM TurnForEveryCandidate == Spec => []EveryCandidateHasATurn
<1>1. Init => TurnInv /\ GivenUp
  BY DEF Init, TurnInv, GivenUp
<1>2. IInv /\ (TurnInv /\ GivenUp) /\ [Next]_vars => (TurnInv /\ GivenUp)'
  BY TurnStep
<1>3. IInv /\ (TurnInv /\ GivenUp) => EveryCandidateHasATurn
  BY GivenUpHadATurn
<1> QED BY Invariance, <1>1, <1>2, <1>3, PTL DEF Spec
===============================================================================
