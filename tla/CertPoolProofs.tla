---------------------------- MODULE CertPoolProofs ----------------------------
(***************************************************************************)
(* What TLAPS proves of module CertPool, for any number of targets and     *)
(* workers and any interleaving of the workers with the main thread.       *)
(***************************************************************************)
EXTENDS CertPool, TLAPS

\* What Head and Tail leave of a sequence, position by position.
LEMMA TailFacts ==
  ASSUME NEW S, NEW s \in Seq(S), s # << >>
  PROVE  /\ Tail(s) \in Seq(S) /\ Head(s) \in S /\ Head(s) = s[1] /\ 1 \in DOMAIN s
         /\ \A i \in DOMAIN Tail(s) :
              i \in Nat \ {0} /\ i + 1 \in DOMAIN s /\ Tail(s)[i] = s[i + 1]
         /\ \A i \in DOMAIN s :
              i # 1 => i - 1 \in DOMAIN Tail(s) /\ Tail(s)[i - 1] = s[i]
OBVIOUS

\* Taking the head of a queue without repetitions removes just that item.
LEMMA TakeFacts ==
  ASSUME NEW S, NEW s \in Seq(S), s # << >>,
         \A i, j \in DOMAIN s : s[i] = s[j] => i = j
  PROVE  /\ \A i, j \in DOMAIN Tail(s) : Tail(s)[i] = Tail(s)[j] => i = j
         /\ \A x : (\E i \in DOMAIN Tail(s) : Tail(s)[i] = x)
                   <=> (\E i \in DOMAIN s : s[i] = x) /\ x # Head(s)
<1>1. \A i, j \in DOMAIN Tail(s) : Tail(s)[i] = Tail(s)[j] => i = j
  <2> SUFFICES ASSUME NEW i \in DOMAIN Tail(s), NEW j \in DOMAIN Tail(s),
                      Tail(s)[i] = Tail(s)[j]
               PROVE  i = j
    OBVIOUS
  <2>1. i \in Nat /\ j \in Nat /\ i + 1 = j + 1
    BY TailFacts
  <2> QED BY <2>1
<1>2. ASSUME NEW x, NEW i \in DOMAIN Tail(s), Tail(s)[i] = x
      PROVE  (\E k \in DOMAIN s : s[k] = x) /\ x # Head(s)
  <2>1. i \in Nat \ {0} /\ i + 1 \in DOMAIN s /\ s[i + 1] = x /\ 1 \in DOMAIN s /\ Head(s) = s[1]
    BY <1>2, TailFacts
  <2>2. i + 1 # 1
    BY <2>1
  <2> QED BY <2>1, <2>2
<1>3. ASSUME NEW x, NEW i \in DOMAIN s, s[i] = x, x # Head(s)
      PROVE  \E k \in DOMAIN Tail(s) : Tail(s)[k] = x
  <2>1. i # 1
    BY <1>3, TailFacts
  <2>2. i - 1 \in DOMAIN Tail(s) /\ Tail(s)[i - 1] = x
    BY <1>3, <2>1, TailFacts
  <2> QED BY <2>2
<1> QED BY <1>1, <1>2, <1>3

LEMMA WorkersFact == Workers \subseteq Nat \ {0} /\ 1 \in Workers
BY PoolAssumption DEF Workers

LEMMA InitIInv == Init => IInv
<1> SUFFICES ASSUME Init PROVE IInv
  OBVIOUS
<1> USE DEF Init, NoOutcomes, Holding, Targets
<1>1. TypeOK
  <2>1. pending \in Seq(Targets)
    BY PoolAssumption
  <2> QED BY <2>1, WorkersFact DEF TypeOK
<1>2. OnePlace
  BY PoolAssumption DEF OnePlace, Queued, Held
<1>3. NoneForgotten
  BY PoolAssumption DEF NoneForgotten, Queued
<1>4. StartedIsSound /\ Joined /\ SkippedIsLate
  BY WorkersFact DEF StartedIsSound, Joined, SkippedIsLate
<1>5. SnapshotsAreSound
  BY DEF SnapshotsAreSound, Inspected
<1>6. SkippedIsNeverInspected /\ ReportIsComplete /\ ExitIsHonest
  BY DEF SkippedIsNeverInspected, ReportIsComplete, ExitIsHonest, ExitOK, ExitFinding
<1> QED
  BY <1>1, <1>2, <1>3, <1>4, <1>5, <1>6 DEF IInv

-------------------------------------------------------------------------------
(* The steps of a worker.                                                  *)

\* A worker moves between two places where it holds no target.
LEMMA LoopIInv ==
  ASSUME IInv, NEW w \in Workers, Loop(w)
  PROVE  IInv'
<1> USE DEF IInv
<1>1. /\ UNCHANGED <<phase, shared, holds, mainVars>>
      /\ at[w] = "loop"
      /\ at' = [at EXCEPT ![w] = "get"] \/ (at' = [at EXCEPT ![w] = "ended"] /\ failures # 0)
  BY DEF Loop, Goes
<1>2. /\ at' \in [Workers -> {"new", "loop", "get", "taken", "marked", "inspecting", "ended"}]
      /\ \A v \in Workers : v # w => at'[v] = at[v]
      /\ at'[w] \in {"get", "ended"} /\ (at'[w] = "ended" => failures # 0)
  BY <1>1 DEF TypeOK
<1>3. TypeOK'
  BY <1>1, <1>2 DEF TypeOK, shared, mainVars
<1>4. \A v \in Workers : Holding(v)' <=> Holding(v)
  BY <1>1, <1>2 DEF Holding
<1>5. \A t \in Targets : (Held(t)' <=> Held(t)) /\ (Queued(t)' <=> Queued(t))
  BY <1>1, <1>4 DEF Held, Queued, shared
<1>6. OnePlace'
  BY <1>1, <1>4, <1>5 DEF OnePlace, shared
<1>7. NoneForgotten'
  BY <1>1, <1>2, <1>5 DEF NoneForgotten, shared
<1>8. StartedIsSound'
  BY <1>1, <1>2 DEF StartedIsSound, shared
<1>9. Joined'
  BY <1>1, <1>2 DEF Joined, shared, mainVars
<1>10. SnapshotsAreSound' /\ SkippedIsLate'
  BY <1>1 DEF SnapshotsAreSound, SkippedIsLate, shared, mainVars
<1>11. SkippedIsNeverInspected'
  BY <1>1, <1>2 DEF SkippedIsNeverInspected, shared, mainVars
<1>12. ReportIsComplete' /\ ExitIsHonest'
  BY <1>1 DEF ReportIsComplete, ExitIsHonest, shared, mainVars
<1> QED
  BY <1>3, <1>6, <1>7, <1>8, <1>9, <1>10, <1>11, <1>12

\* What Goes says of the places of the workers.
LEMMA Moves ==
  ASSUME IInv, NEW w \in Workers, NEW from, NEW to, Goes(w, from, to),
         to \in {"loop", "get", "taken", "marked", "inspecting", "ended"}
  PROVE  /\ at[w] = from /\ at'[w] = to
         /\ \A v \in Workers : v # w => at'[v] = at[v]
         /\ at' \in [Workers -> {"new", "loop", "get", "taken", "marked", "inspecting", "ended"}]
BY DEF IInv, TypeOK, Goes

\* The worker takes the head of the queue, or finds the queue empty and ends.
LEMMA TakeIInv ==
  ASSUME IInv, NEW w \in Workers, Take(w)
  PROVE  IInv'
<1> USE DEF IInv
<1>0. UNCHANGED <<phase, outcomes, started, failures, mainVars>>
  BY DEF Take
<1>1. CASE /\ pending = << >> /\ Goes(w, "get", "ended")
           /\ UNCHANGED <<pending, holds>>
  <2>1. at[w] = "get" /\ at'[w] = "ended" /\ (\A v \in Workers : v # w => at'[v] = at[v])
        /\ at' \in [Workers -> {"new", "loop", "get", "taken", "marked", "inspecting", "ended"}]
    BY <1>1, Moves
  <2>2. \A v \in Workers : Holding(v)' <=> Holding(v)
    BY <2>1 DEF Holding
  <2>3. \A t \in Targets : (Held(t)' <=> Held(t)) /\ (Queued(t)' <=> Queued(t))
    BY <1>1, <2>2 DEF Held, Queued
  <2>4. TypeOK'
    BY <1>0, <1>1, <2>1 DEF TypeOK, mainVars
  <2>5. OnePlace'
    BY <1>0, <1>1, <2>2, <2>3 DEF OnePlace
  <2>6. NoneForgotten'
    BY <1>0, <1>1, <2>1, <2>3 DEF NoneForgotten
  <2>7. StartedIsSound' /\ Joined'
    BY <1>0, <1>1, <2>1 DEF StartedIsSound, Joined, mainVars
  <2>8. SnapshotsAreSound' /\ SkippedIsLate' /\ ReportIsComplete' /\ ExitIsHonest'
    BY <1>0 DEF SnapshotsAreSound, SkippedIsLate, ReportIsComplete, ExitIsHonest, mainVars
  <2>9. SkippedIsNeverInspected'
    BY <1>0, <1>1, <2>1 DEF SkippedIsNeverInspected, mainVars
  <2> QED BY <2>4, <2>5, <2>6, <2>7, <2>8, <2>9
<1>2. CASE /\ pending # << >> /\ Goes(w, "get", "taken")
           /\ holds' = [holds EXCEPT ![w] = Head(pending)]
           /\ pending' = Tail(pending)
  <2>1. at[w] = "get" /\ at'[w] = "taken" /\ (\A v \in Workers : v # w => at'[v] = at[v])
        /\ at' \in [Workers -> {"new", "loop", "get", "taken", "marked", "inspecting", "ended"}]
    BY <1>2, Moves
  <2> DEFINE head == Head(pending)
  <2>2. /\ pending' \in Seq(Targets) /\ head \in Targets
        /\ head = pending[1] /\ 1 \in DOMAIN pending
    <3>1. pending \in Seq(Targets)
      BY DEF TypeOK
    <3> QED BY <3>1, <1>2, TailFacts
  <2>3. /\ \A i, j \in DOMAIN pending' : pending'[i] = pending'[j] => i = j
        /\ \A t \in Targets : Queued(t)' <=> Queued(t) /\ t # head
    <3>1. pending \in Seq(Targets) /\ \A i, j \in DOMAIN pending : pending[i] = pending[j] => i = j
      BY DEF TypeOK, OnePlace
    <3> DEFINE s == pending
    <3>2. /\ \A i, j \in DOMAIN Tail(s) : Tail(s)[i] = Tail(s)[j] => i = j
          /\ \A x : (\E i \in DOMAIN Tail(s) : Tail(s)[i] = x)
                    <=> (\E i \in DOMAIN s : s[i] = x) /\ x # Head(s)
      BY <3>1, <1>2, TakeFacts
    <3>3. \A t : Queued(t)' <=> \E i \in DOMAIN Tail(pending) : Tail(pending)[i] = t
      BY <1>2 DEF Queued
    <3>4. \A t \in Targets : Queued(t)' <=> Queued(t) /\ t # head
      BY <3>2, <3>3 DEF Queued
    <3>5. \A i, j \in DOMAIN pending' : pending'[i] = pending'[j] => i = j
      BY <3>2, <1>2
    <3> QED BY <3>4, <3>5
  <2>4. Queued(head) /\ outcomes[head] = "none" /\ ~Held(head)
    BY <2>2 DEF Queued, OnePlace
  <2>5. holds'[w] = head /\ (\A v \in Workers : v # w => holds'[v] = holds[v])
        /\ holds' \in [Workers -> Targets \cup {0}]
    BY <1>2, <2>2 DEF TypeOK
  <2>6. /\ Holding(w)' /\ ~Holding(w)
        /\ \A v \in Workers : v # w => (Holding(v)' <=> Holding(v))
    BY <2>1 DEF Holding
  <2> HIDE DEF head
  <2>7. \A t \in Targets : Held(t)' <=> Held(t) \/ t = head
    BY <2>5, <2>6 DEF Held
  <2>8. TypeOK'
    BY <1>0, <2>1, <2>2, <2>5 DEF TypeOK, mainVars
  <2>9. OnePlace'
    <3>1. \A t \in Targets : Queued(t)' => outcomes'[t] = "none" /\ ~Held(t)'
      BY <1>0, <2>3, <2>7 DEF OnePlace
    <3>2. \A v \in Workers : Holding(v)' => holds'[v] \in Targets /\ outcomes'[holds'[v]] = "none"
      BY <1>0, <2>2, <2>4, <2>5, <2>6 DEF OnePlace
    <3>3. \A u, v \in Workers : Holding(u)' /\ Holding(v)' /\ holds'[u] = holds'[v] => u = v
      BY <2>4, <2>5, <2>6 DEF OnePlace, Held
    <3> QED BY <2>3, <3>1, <3>2, <3>3 DEF OnePlace
  <2>10. NoneForgotten'
    <3>1. \A t \in Targets : (Queued(t)' \/ Held(t)') <=> (Queued(t) \/ Held(t))
      BY <2>3, <2>4, <2>7
    <3>2. \A v \in Workers : at'[v] = "ended" /\ failures' = 0 => pending' = << >>
      BY <1>0, <1>2, <2>1 DEF NoneForgotten
    <3> QED BY <1>0, <3>1, <3>2 DEF NoneForgotten
  <2>11. StartedIsSound' /\ Joined'
    BY <1>0, <2>1, <2>5 DEF StartedIsSound, Joined, mainVars
  <2>12. SnapshotsAreSound' /\ SkippedIsLate' /\ ReportIsComplete' /\ ExitIsHonest'
    BY <1>0 DEF SnapshotsAreSound, SkippedIsLate, ReportIsComplete, ExitIsHonest, mainVars
  <2>13. SkippedIsNeverInspected'
    BY <1>0, <2>1, <2>5 DEF SkippedIsNeverInspected, mainVars
  <2> QED BY <2>8, <2>9, <2>10, <2>11, <2>12, <2>13
<1> QED BY <1>1, <1>2 DEF Take

\* The worker keeps the target it has taken and notes that it has begun it.
LEMMA MarkStartedIInv ==
  ASSUME IInv, NEW w \in Workers, MarkStarted(w)
  PROVE  IInv'
<1> USE DEF IInv
<1>1. /\ UNCHANGED <<phase, pending, outcomes, failures, holds, mainVars>>
      /\ started' = started \cup {holds[w]}
  BY DEF MarkStarted
<1>2. at[w] = "taken" /\ at'[w] = "marked" /\ (\A v \in Workers : v # w => at'[v] = at[v])
      /\ at' \in [Workers -> {"new", "loop", "get", "taken", "marked", "inspecting", "ended"}]
  BY Moves DEF MarkStarted
<1>3. \A v \in Workers : Holding(v)' <=> Holding(v)
  BY <1>2 DEF Holding
<1>4. \A t \in Targets : (Held(t)' <=> Held(t)) /\ (Queued(t)' <=> Queued(t))
  BY <1>1, <1>3 DEF Held, Queued
<1>5. holds[w] \in Targets
  BY <1>2 DEF OnePlace, Holding
<1>6. TypeOK'
  BY <1>1, <1>2, <1>5 DEF TypeOK, mainVars
<1>7. OnePlace'
  BY <1>1, <1>3, <1>4 DEF OnePlace
<1>8. NoneForgotten'
  BY <1>1, <1>2, <1>4 DEF NoneForgotten
<1>9. StartedIsSound' /\ Joined'
  BY <1>1, <1>2 DEF StartedIsSound, Joined, mainVars
<1>10. SnapshotsAreSound' /\ SkippedIsLate' /\ ReportIsComplete' /\ ExitIsHonest'
  BY <1>1 DEF SnapshotsAreSound, SkippedIsLate, ReportIsComplete, ExitIsHonest, mainVars
<1>11. SkippedIsNeverInspected'
  BY <1>1, <1>2 DEF SkippedIsNeverInspected, mainVars
<1> QED BY <1>6, <1>7, <1>8, <1>9, <1>10, <1>11

\* A worker that holds a target gives it its outcome: by finishing the
\* inspection, or by finding that the time has run out.
LEMMA SettleIInv ==
  ASSUME IInv, NEW w \in Workers, NEW status \in Inspected \cup {"SKIPPED"},
         \/ at[w] = "inspecting" /\ status # "SKIPPED"
         \/ at[w] = "marked" /\ status = "SKIPPED" /\ phase # "before",
         Goes(w, at[w], "loop"),
         outcomes' = [outcomes EXCEPT ![holds[w]] = status],
         UNCHANGED <<phase, pending, started, failures, holds, mainVars>>
  PROVE  IInv'
<1> USE DEF IInv
<1> DEFINE t0 == holds[w]
<1>1. at'[w] = "loop" /\ (\A v \in Workers : v # w => at'[v] = at[v])
      /\ at' \in [Workers -> {"new", "loop", "get", "taken", "marked", "inspecting", "ended"}]
  BY Moves
<1>2. Holding(w) /\ t0 \in Targets /\ t0 \in started /\ outcomes[t0] = "none" /\ at[w] # "ended"
  BY DEF Holding, OnePlace, StartedIsSound
<1>3. /\ ~Holding(w)'
      /\ \A v \in Workers : v # w => (Holding(v)' <=> Holding(v))
  BY <1>1 DEF Holding
<1>4. outcomes'[t0] = status /\ status # "none" /\ (\A t \in Targets : t # t0 => outcomes'[t] = outcomes[t])
      /\ outcomes' \in [Targets -> Inspected \cup {"SKIPPED", "none"}]
  BY <1>2 DEF TypeOK, Inspected
<1> HIDE DEF t0
<1>5. /\ \A t \in Targets : Held(t)' <=> Held(t) /\ t # t0
      /\ \A t \in Targets : Queued(t)' <=> Queued(t)
      /\ ~Queued(t0) /\ Held(t0)
  BY <1>2, <1>3 DEF Held, Queued, OnePlace, t0
<1>6. TypeOK'
  BY <1>1, <1>4 DEF TypeOK, mainVars
<1>7. OnePlace'
  <2>1. \A t \in Targets : Queued(t)' => outcomes'[t] = "none" /\ ~Held(t)'
    BY <1>4, <1>5 DEF OnePlace
  <2>2. \A v \in Workers : Holding(v)' => holds'[v] \in Targets /\ holds'[v] # t0 /\ outcomes'[holds'[v]] = "none"
    BY <1>2, <1>3, <1>4 DEF OnePlace, t0
  <2>3. \A u, v \in Workers : Holding(u)' /\ Holding(v)' /\ holds'[u] = holds'[v] => u = v
    BY <1>3 DEF OnePlace
  <2> QED BY <2>1, <2>2, <2>3 DEF OnePlace
<1>8. NoneForgotten'
  BY <1>1, <1>4, <1>5 DEF NoneForgotten
<1>9. StartedIsSound'
  BY <1>1, <1>2, <1>4 DEF StartedIsSound
<1>10. Joined'
  BY <1>1, <1>2 DEF Joined, mainVars
<1>11. SnapshotsAreSound'
  <2>1. \A t \in Targets : finished'[t] # "none" => outcomes'[t] = finished'[t]
    BY <1>2, <1>4 DEF SnapshotsAreSound, mainVars
  <2>2. \A t \in Targets : record'[t] \in Inspected => outcomes'[t] = record'[t]
    BY <1>2, <1>4 DEF SnapshotsAreSound, Inspected, mainVars
  <2>3. ~(pc = "finished" /\ phase # "over")
    BY <1>2 DEF Joined
  <2> QED BY <2>1, <2>2, <2>3 DEF SnapshotsAreSound, mainVars
<1>12. SkippedIsLate'
  BY <1>4 DEF SkippedIsLate, Inspected
<1>13. SkippedIsNeverInspected'
  BY <1>1, <1>4 DEF SkippedIsNeverInspected, mainVars, t0
<1>14. ReportIsComplete'
  BY <1>2 DEF ReportIsComplete, Joined, mainVars
<1>15. ExitIsHonest'
  BY <1>2, <1>4 DEF ExitIsHonest, mainVars
<1> QED BY <1>6, <1>7, <1>8, <1>9, <1>10, <1>11, <1>12, <1>13, <1>14, <1>15

\* An exception ends the worker and leaves its target without an outcome.
LEMMA FailIInv ==
  ASSUME IInv, NEW w \in Workers, Fail(w)
  PROVE  IInv'
<1> USE DEF IInv
<1> DEFINE t0 == holds[w]
<1>1. /\ UNCHANGED <<phase, pending, outcomes, started, holds, mainVars>>
      /\ failures' = failures + 1
  BY DEF Fail
<1>2. at[w] = "inspecting" /\ at'[w] = "ended" /\ (\A v \in Workers : v # w => at'[v] = at[v])
      /\ at' \in [Workers -> {"new", "loop", "get", "taken", "marked", "inspecting", "ended"}]
  BY Moves DEF Fail
<1>3. Holding(w) /\ t0 \in Targets /\ outcomes[t0] = "none"
  BY <1>2 DEF Holding, OnePlace
<1>4. /\ ~Holding(w)'
      /\ \A v \in Workers : v # w => (Holding(v)' <=> Holding(v))
  BY <1>2 DEF Holding
<1> HIDE DEF t0
<1>5. /\ \A t \in Targets : Held(t)' <=> Held(t) /\ t # t0
      /\ \A t \in Targets : Queued(t)' <=> Queued(t)
      /\ ~Queued(t0)
  BY <1>1, <1>3, <1>4 DEF Held, Queued, OnePlace, t0
<1>6. failures' \in Nat /\ failures' # 0
  BY <1>1 DEF TypeOK
<1>7. TypeOK'
  BY <1>1, <1>2, <1>6 DEF TypeOK, mainVars
<1>8. OnePlace'
  BY <1>1, <1>4, <1>5 DEF OnePlace
<1>9. NoneForgotten'
  BY <1>1, <1>3, <1>5, <1>6 DEF NoneForgotten
<1>10. StartedIsSound' /\ Joined'
  BY <1>1, <1>2 DEF StartedIsSound, Joined, mainVars
<1>11. SnapshotsAreSound' /\ SkippedIsLate'
  BY <1>1 DEF SnapshotsAreSound, SkippedIsLate, mainVars
<1>12. SkippedIsNeverInspected'
  BY <1>1, <1>2 DEF SkippedIsNeverInspected, mainVars
<1>13. ReportIsComplete'
  BY <1>1, <1>2 DEF ReportIsComplete, Joined, mainVars
<1>14. ExitIsHonest'
  BY <1>1, <1>3 DEF ExitIsHonest, mainVars
<1> QED BY <1>7, <1>8, <1>9, <1>10, <1>11, <1>12, <1>13, <1>14

\* A worker that finds time left goes on to inspect the target it holds.
LEMMA InspectIInv ==
  ASSUME IInv, NEW w \in Workers, phase = "before", Goes(w, "marked", "inspecting"),
         UNCHANGED <<phase, pending, outcomes, started, failures, holds, mainVars>>
  PROVE  IInv'
<1> USE DEF IInv
<1>1. at[w] = "marked" /\ at'[w] = "inspecting" /\ (\A v \in Workers : v # w => at'[v] = at[v])
      /\ at' \in [Workers -> {"new", "loop", "get", "taken", "marked", "inspecting", "ended"}]
  BY Moves
<1>2. \A v \in Workers : Holding(v)' <=> Holding(v)
  BY <1>1 DEF Holding
<1>3. \A t \in Targets : (Held(t)' <=> Held(t)) /\ (Queued(t)' <=> Queued(t))
  BY <1>2 DEF Held, Queued
<1>4. TypeOK'
  BY <1>1 DEF TypeOK, mainVars
<1>5. OnePlace'
  BY <1>2, <1>3 DEF OnePlace
<1>6. NoneForgotten'
  BY <1>1, <1>3 DEF NoneForgotten
<1>7. StartedIsSound' /\ Joined'
  BY <1>1 DEF StartedIsSound, Joined, mainVars
<1>8. SnapshotsAreSound' /\ SkippedIsLate' /\ ReportIsComplete' /\ ExitIsHonest'
  BY DEF SnapshotsAreSound, SkippedIsLate, ReportIsComplete, ExitIsHonest, mainVars
<1>9. SkippedIsNeverInspected'
  BY <1>1 DEF SkippedIsNeverInspected, mainVars
<1> QED BY <1>4, <1>5, <1>6, <1>7, <1>8, <1>9

LEMMA WorkerIInv ==
  ASSUME IInv, NEW w \in Workers, WorkerStep(w)
  PROVE  IInv'
<1>1. CASE Loop(w)
  BY <1>1, LoopIInv
<1>2. CASE Take(w)
  BY <1>2, TakeIInv
<1>3. CASE MarkStarted(w)
  BY <1>3, MarkStartedIInv
<1>4. CASE CheckTime(w)
  <2>1. CASE phase = "before" /\ Goes(w, "marked", "inspecting") /\ UNCHANGED outcomes
    BY <1>4, <2>1, InspectIInv DEF CheckTime
  <2>2. CASE /\ phase # "before" /\ Goes(w, "marked", "loop")
             /\ outcomes' = [outcomes EXCEPT ![holds[w]] = "SKIPPED"]
    <3>1. Goes(w, at[w], "loop") /\ at[w] = "marked"
      BY <2>2 DEF Goes
    <3> QED BY <1>4, <2>2, <3>1, SettleIInv DEF CheckTime
  <2> QED BY <1>4, <2>1, <2>2 DEF CheckTime
<1>5. CASE FinishInspection(w)
  <2>1. PICK status \in Inspected : outcomes' = [outcomes EXCEPT ![holds[w]] = status]
    BY <1>5 DEF FinishInspection
  <2>2. Goes(w, at[w], "loop") /\ at[w] = "inspecting" /\ status # "SKIPPED"
    BY <1>5 DEF FinishInspection, Goes, Inspected
  <2> QED BY <1>5, <2>1, <2>2, SettleIInv DEF FinishInspection
<1>6. CASE Fail(w)
  BY <1>6, FailIInv
<1> QED BY <1>1, <1>2, <1>3, <1>4, <1>5, <1>6 DEF WorkerStep

-------------------------------------------------------------------------------
(* The steps of the main thread and of the clock.                          *)

\* What only depends on the queue and the workers is kept when they are.
LEMMA WorkersKept ==
  ASSUME IInv, UNCHANGED shared, UNCHANGED workerVars
  PROVE  OnePlace' /\ NoneForgotten' /\ StartedIsSound'
<1> USE DEF IInv, shared, workerVars
<1>1. \A v \in Workers : Holding(v)' <=> Holding(v)
  BY DEF Holding
<1>2. \A t \in Targets : (Held(t)' <=> Held(t)) /\ (Queued(t)' <=> Queued(t))
  BY <1>1 DEF Held, Queued
<1> QED BY <1>1, <1>2 DEF OnePlace, NoneForgotten, StartedIsSound

LEMMA StartWorkerIInv ==
  ASSUME IInv, StartWorker
  PROVE  IInv'
<1> USE DEF IInv
<1>1. /\ UNCHANGED <<phase, shared, holds, finished, record, exit>>
      /\ next \in Workers /\ at[next] = "new" /\ pc = "start" /\ pc' \in {"start", "join"}
  BY DEF StartWorker, TypeOK, Goes
<1>2. at'[next] = "loop" /\ (\A v \in Workers : v # next => at'[v] = at[v])
      /\ at' \in [Workers -> {"new", "loop", "get", "taken", "marked", "inspecting", "ended"}]
  BY <1>1, Moves DEF StartWorker, Goes, TypeOK
<1>3. next' \in Workers /\ (pc' = "join" => next' = 1)
  BY <1>1, WorkersFact DEF StartWorker
<1>4. \A v \in Workers : Holding(v)' <=> Holding(v)
  BY <1>1, <1>2 DEF Holding
<1>5. \A t \in Targets : (Held(t)' <=> Held(t)) /\ (Queued(t)' <=> Queued(t))
  BY <1>1, <1>4 DEF Held, Queued, shared
<1>6. TypeOK'
  BY <1>1, <1>2, <1>3 DEF TypeOK, shared
<1>7. OnePlace'
  BY <1>1, <1>4, <1>5 DEF OnePlace, shared
<1>8. NoneForgotten'
  BY <1>1, <1>2, <1>5 DEF NoneForgotten, shared
<1>9. StartedIsSound'
  BY <1>1, <1>2 DEF StartedIsSound, shared
<1>10. Joined'
  BY <1>1, <1>3, WorkersFact DEF Joined
<1>11. SnapshotsAreSound' /\ SkippedIsLate' /\ ReportIsComplete' /\ ExitIsHonest'
  BY <1>1 DEF SnapshotsAreSound, SkippedIsLate, ReportIsComplete, ExitIsHonest, shared
<1>12. SkippedIsNeverInspected'
  BY <1>1, <1>2 DEF SkippedIsNeverInspected, shared
<1> QED BY <1>6, <1>7, <1>8, <1>9, <1>10, <1>11, <1>12

\* The main thread ends with a code that claims nothing of the targets.
LEMMA GiveUpIInv ==
  ASSUME IInv, NEW code \in {ExitFailure, ExitInterrupted}, Done(code),
         UNCHANGED <<phase, shared, workerVars, next, finished, record>>
  PROVE  IInv'
<1> USE DEF IInv, Done
<1>1. exit' = code /\ code \notin {-1, ExitOK, ExitFinding} /\ pc' = "done"
  BY DEF ExitFailure, ExitInterrupted, ExitOK, ExitFinding
<1>2. TypeOK'
  BY <1>1 DEF TypeOK, shared, workerVars
<1>3. OnePlace' /\ NoneForgotten' /\ StartedIsSound'
  BY WorkersKept
<1>4. Joined' /\ ReportIsComplete'
  BY <1>1 DEF Joined, ReportIsComplete
<1>5. SnapshotsAreSound'
  BY <1>1 DEF SnapshotsAreSound, shared
<1>6. SkippedIsLate' /\ SkippedIsNeverInspected'
  BY DEF SkippedIsLate, SkippedIsNeverInspected, shared, workerVars
<1>7. ExitIsHonest'
  BY <1>1 DEF ExitIsHonest
<1> QED BY <1>2, <1>3, <1>4, <1>5, <1>6, <1>7

\* Joining the last worker short of the limit means that all have ended.
LEMMA JoinIInv ==
  ASSUME IInv, Join
  PROVE  IInv'
<1> USE DEF IInv, Join
<1>1. /\ pc = "join" /\ pc' \in {"join", "joined"}
      /\ UNCHANGED <<phase, shared, workerVars, finished, record, exit>>
  OBVIOUS
<1>2. next' \in Workers
  BY DEF TypeOK
<1>3. TypeOK'
  BY <1>1, <1>2 DEF TypeOK, shared, workerVars
<1>4. OnePlace' /\ NoneForgotten' /\ StartedIsSound'
  BY <1>1, WorkersKept
<1>5. Joined'
  <2> SUFFICES ASSUME phase # "over" PROVE Joined'
    BY <1>1 DEF Joined
  <2>1. next \in Workers /\ at[next] = "ended" /\ \A w \in Workers : w < next => at[w] = "ended"
    BY <1>1 DEF JoinReturns, Joined, TypeOK
  <2>2. \A w \in Workers : w < next + 1 => at[w] = "ended"
    BY <2>1, WorkersFact
  <2>3. CASE next + 1 \in Workers
    BY <1>1, <2>2, <2>3 DEF Joined, workerVars
  <2>4. CASE next + 1 \notin Workers
    <3>1. \A w \in Workers : w < next + 1
      BY <2>1, <2>4, PoolAssumption DEF Workers
    <3> QED BY <1>1, <2>2, <2>4, <3>1 DEF Joined, workerVars
  <2> QED BY <2>3, <2>4
<1>6. SnapshotsAreSound' /\ SkippedIsLate' /\ ReportIsComplete' /\ ExitIsHonest'
  BY <1>1 DEF SnapshotsAreSound, SkippedIsLate, ReportIsComplete, ExitIsHonest, shared
<1>7. SkippedIsNeverInspected'
  BY <1>1 DEF SkippedIsNeverInspected, shared, workerVars
<1> QED BY <1>3, <1>4, <1>5, <1>6, <1>7

LEMMA CheckFailuresIInv ==
  ASSUME IInv, CheckFailures
  PROVE  IInv'
<1> USE DEF IInv
<1>1. CASE failures # 0 /\ Done(ExitFailure)
  BY <1>1, GiveUpIInv DEF CheckFailures
<1>2. CASE failures = 0 /\ pc' = "checked" /\ UNCHANGED exit
  <2>1. /\ pc = "joined" /\ pc' = "checked"
        /\ UNCHANGED <<phase, shared, workerVars, next, finished, record, exit>>
    BY <1>2 DEF CheckFailures
  <2>2. TypeOK'
    BY <2>1 DEF TypeOK, shared, workerVars
  <2>3. OnePlace' /\ NoneForgotten' /\ StartedIsSound'
    BY <2>1, WorkersKept
  <2>4. Joined'
    BY <1>2, <2>1 DEF Joined, shared, workerVars
  <2>5. SnapshotsAreSound' /\ SkippedIsLate' /\ ReportIsComplete' /\ ExitIsHonest'
    BY <2>1 DEF SnapshotsAreSound, SkippedIsLate, ReportIsComplete, ExitIsHonest, shared
  <2>6. SkippedIsNeverInspected'
    BY <2>1 DEF SkippedIsNeverInspected, shared, workerVars
  <2> QED BY <2>2, <2>3, <2>4, <2>5, <2>6
<1> QED BY <1>1, <1>2 DEF CheckFailures

LEMMA TakeFinishedIInv ==
  ASSUME IInv, TakeFinished
  PROVE  IInv'
<1> USE DEF IInv
<1>1. /\ pc = "checked" /\ pc' = "finished" /\ finished' = outcomes
      /\ UNCHANGED <<phase, shared, workerVars, next, record, exit>>
  BY DEF TakeFinished
<1>2. TypeOK'
  BY <1>1 DEF TypeOK, shared, workerVars
<1>3. OnePlace' /\ NoneForgotten' /\ StartedIsSound'
  BY <1>1, WorkersKept
<1>4. Joined' /\ ReportIsComplete'
  BY <1>1 DEF Joined, ReportIsComplete, shared, workerVars
<1>5. SnapshotsAreSound'
  BY <1>1 DEF SnapshotsAreSound, shared
<1>6. SkippedIsLate' /\ SkippedIsNeverInspected' /\ ExitIsHonest'
  BY <1>1 DEF SkippedIsLate, SkippedIsNeverInspected, ExitIsHonest, shared, workerVars
<1> QED BY <1>2, <1>3, <1>4, <1>5, <1>6

\* Short of the limit every worker has ended without exception, so that every
\* target has its outcome in the first snapshot.
LEMMA AllSettled ==
  ASSUME IInv, phase # "over", pc = "finished"
  PROVE  \A t \in Targets : finished[t] # "none" /\ finished[t] = outcomes[t]
<1> USE DEF IInv
<1>1. failures = 0 /\ (\A w \in Workers : at[w] = "ended") /\ finished = outcomes
  BY DEF Joined, SnapshotsAreSound
<1>2. pending = << >>
  BY <1>1, WorkersFact DEF NoneForgotten
<1>3. \A t \in Targets : ~Queued(t) /\ ~Held(t)
  BY <1>1, <1>2 DEF Queued, Held, Holding
<1> QED BY <1>1, <1>3 DEF NoneForgotten

LEMMA TakeStartedIInv ==
  ASSUME IInv, TakeStarted
  PROVE  IInv'
<1> USE DEF IInv
<1>1. /\ pc = "finished" /\ pc' = "report"
      /\ UNCHANGED <<phase, shared, workerVars, next, finished, exit>>
      /\ record' = [t \in Targets |->
           IF finished[t] # "none" THEN finished[t]
           ELSE IF t \in started THEN "UNFINISHED" ELSE "SKIPPED"]
  BY DEF TakeStarted
<1>2. /\ \A t \in Targets : record'[t] # "none"
      /\ \A t \in Targets : record'[t] \in Inspected => outcomes[t] = record'[t]
      /\ \A t \in Targets : record'[t] = "SKIPPED" =>
           finished[t] = "SKIPPED" \/ (finished[t] = "none" /\ t \notin started)
      /\ record' \in [Targets -> Statuses \cup {"none"}]
  BY <1>1 DEF TypeOK, SnapshotsAreSound, Inspected, Statuses
<1>3. TypeOK'
  BY <1>1, <1>2 DEF TypeOK, shared, workerVars
<1>4. OnePlace' /\ NoneForgotten' /\ StartedIsSound'
  BY <1>1, WorkersKept
<1>5. Joined'
  BY <1>1 DEF Joined, shared, workerVars
<1>6. SnapshotsAreSound'
  BY <1>1, <1>2 DEF SnapshotsAreSound, shared
<1>7. SkippedIsLate' /\ ExitIsHonest'
  BY <1>1 DEF SkippedIsLate, ExitIsHonest, shared
<1>8. SkippedIsNeverInspected'
  <2> SUFFICES ASSUME NEW t \in Targets, record'[t] = "SKIPPED"
               PROVE  /\ outcomes[t] \in {"none", "SKIPPED"}
                      /\ \A w \in Workers : at[w] = "inspecting" => holds[w] # t
                      /\ phase # "before"
    BY <1>1 DEF SkippedIsNeverInspected, shared, workerVars
  <2>1. CASE finished[t] = "SKIPPED"
    <3>1. outcomes[t] = "SKIPPED"
      BY <2>1 DEF SnapshotsAreSound
    <3> QED BY <3>1 DEF OnePlace, Holding, SkippedIsLate
  <2>2. CASE finished[t] = "none" /\ t \notin started
    BY <1>1, <2>2, AllSettled DEF StartedIsSound
  <2> QED BY <1>2, <2>1, <2>2
<1>9. ReportIsComplete'
  <2>1. phase # "over" => failures = 0
    BY <1>1 DEF Joined
  <2>2. phase # "over" => \A t \in Targets : outcomes[t] # "none" /\ record'[t] = outcomes[t]
    BY <1>1, AllSettled
  <2> QED BY <1>1, <2>1, <2>2 DEF ReportIsComplete, shared
<1> QED BY <1>3, <1>4, <1>5, <1>6, <1>7, <1>8, <1>9

LEMMA EmitIInv ==
  ASSUME IInv, Emit
  PROVE  IInv'
<1> USE DEF IInv
<1> DEFINE code == ExitFor({record[t] : t \in Targets})
<1>1. /\ pc = "report"
      /\ UNCHANGED <<phase, shared, workerVars, next, finished, record>>
      /\ Done(code) \/ Done(ExitFailure)
  BY DEF Emit
<1>2. CASE Done(ExitFailure)
  BY <1>1, <1>2, GiveUpIInv
<1>3. CASE Done(code) /\ code # ExitFailure
  <2>1. pc' = "done" /\ exit' = code
    BY <1>3 DEF Done
  <2>2. code \in {ExitOK, ExitFinding}
    BY <1>3 DEF ExitFor
  <2>3. code = ExitOK => \A t \in Targets : record[t] = "VALID"
    BY DEF ExitFor, ExitOK, ExitFinding, ExitFailure
  <2>4. code = ExitFinding => \E t \in Targets : record[t] = "FINDING"
    BY DEF ExitFor, ExitOK, ExitFinding, ExitFailure
  <2> HIDE DEF code
  <2>5. TypeOK'
    BY <1>1, <2>1, <2>2 DEF TypeOK, shared, workerVars
  <2>6. OnePlace' /\ NoneForgotten' /\ StartedIsSound'
    BY <1>1, WorkersKept
  <2>7. Joined' /\ ReportIsComplete'
    BY <2>1 DEF Joined, ReportIsComplete
  <2>8. SnapshotsAreSound'
    BY <1>1, <2>1, <2>2 DEF SnapshotsAreSound, shared, ExitOK, ExitFinding
  <2>9. SkippedIsLate' /\ SkippedIsNeverInspected'
    BY <1>1 DEF SkippedIsLate, SkippedIsNeverInspected, shared, workerVars
  <2>10. code = ExitOK => failures = 0 /\ \A t \in Targets : outcomes[t] = "VALID"
    <3> SUFFICES ASSUME code = ExitOK
                 PROVE  failures = 0 /\ \A t \in Targets : outcomes[t] = "VALID"
      OBVIOUS
    <3>1. \A t \in Targets : outcomes[t] = "VALID"
      BY <2>3 DEF SnapshotsAreSound, Inspected
    <3> QED BY <3>1 DEF NoneForgotten
  <2>11. code = ExitFinding => \E t \in Targets : outcomes[t] = "FINDING"
    BY <2>4 DEF SnapshotsAreSound, Inspected
  <2>12. ExitIsHonest'
    BY <1>1, <2>1, <2>10, <2>11 DEF ExitIsHonest, shared
  <2> QED BY <2>5, <2>6, <2>7, <2>8, <2>9, <2>12
<1> QED BY <1>1, <1>2, <1>3

LEMMA TickIInv ==
  ASSUME IInv, Tick
  PROVE  IInv'
<1> USE DEF IInv
<1>1. /\ UNCHANGED <<shared, workerVars, mainVars>>
      /\ phase' \in {"past", "over"} /\ phase # "over"
  BY DEF Tick
<1>2. TypeOK'
  BY <1>1 DEF TypeOK, shared, workerVars, mainVars
<1>3. OnePlace' /\ NoneForgotten' /\ StartedIsSound'
  BY <1>1, WorkersKept
<1>4. Joined' /\ SnapshotsAreSound' /\ ReportIsComplete' /\ ExitIsHonest'
  BY <1>1 DEF Joined, SnapshotsAreSound, ReportIsComplete, ExitIsHonest, shared, workerVars, mainVars
<1>5. SkippedIsLate' /\ SkippedIsNeverInspected'
  BY <1>1 DEF SkippedIsLate, SkippedIsNeverInspected, shared, workerVars, mainVars
<1> QED BY <1>2, <1>3, <1>4, <1>5

LEMMA StutterIInv ==
  ASSUME IInv, UNCHANGED vars
  PROVE  IInv'
<1> USE DEF IInv, vars
<1>1. OnePlace' /\ NoneForgotten' /\ StartedIsSound'
  BY WorkersKept
<1>2. TypeOK'
  BY DEF TypeOK, shared, workerVars, mainVars
<1>3. /\ Joined' /\ SnapshotsAreSound' /\ ReportIsComplete' /\ ExitIsHonest'
      /\ SkippedIsLate' /\ SkippedIsNeverInspected'
  BY DEF Joined, SnapshotsAreSound, ReportIsComplete, ExitIsHonest, SkippedIsLate,
         SkippedIsNeverInspected, shared, workerVars, mainVars
<1> QED BY <1>1, <1>2, <1>3

LEMMA NextIInv == IInv /\ [Next]_vars => IInv'
<1> SUFFICES ASSUME IInv, [Next]_vars PROVE IInv'
  OBVIOUS
<1>1. CASE StartWorker
  BY <1>1, StartWorkerIInv
<1>2. CASE StartFails
  BY <1>2, GiveUpIInv DEF StartFails
<1>3. CASE Join
  BY <1>3, JoinIInv
<1>4. CASE CheckFailures
  BY <1>4, CheckFailuresIInv
<1>5. CASE TakeFinished
  BY <1>5, TakeFinishedIInv
<1>6. CASE TakeStarted
  BY <1>6, TakeStartedIInv
<1>7. CASE Emit
  BY <1>7, EmitIInv
<1>8. CASE Interrupt
  BY <1>8, GiveUpIInv DEF Interrupt
<1>9. CASE Tick
  BY <1>9, TickIInv
<1>10. CASE \E w \in Workers : WorkerStep(w)
  BY <1>10, WorkerIInv
<1>11. CASE UNCHANGED vars
  BY <1>11, StutterIInv
<1> QED
  BY <1>1, <1>2, <1>3, <1>4, <1>5, <1>6, <1>7, <1>8, <1>9, <1>10, <1>11 DEF Next, MainStep

-------------------------------------------------------------------------------
(* The theorems.                                                           *)

\* The inductive invariant holds in every reachable state of inspect_targets.
THEOREM Invariance == Spec => []IInv
<1>1. Init => IInv
  BY InitIInv
<1>2. IInv /\ [Next]_vars => IInv'
  BY NextIInv
<1> QED BY <1>1, <1>2, PTL DEF Spec

\* Every variable of the pool keeps its type.
THEOREM TypeCorrect == Spec => []TypeOK
<1>1. IInv => TypeOK
  BY DEF IInv
<1> QED BY <1>1, Invariance, PTL

\* A target reported as not attempted was not and will not be inspected.
THEOREM SkippedNeverInspected == Spec => []SkippedIsNeverInspected
<1>1. IInv => SkippedIsNeverInspected
  BY DEF IInv
<1> QED BY <1>1, Invariance, PTL

\* Within the limit, the report is what the workers found, target by target.
THEOREM CompleteReport == Spec => []ReportIsComplete
<1>1. IInv => ReportIsComplete
  BY DEF IInv
<1> QED BY <1>1, Invariance, PTL

\* Exit 0 and exit 1 are given only for outcomes that justify them.
THEOREM HonestExit == Spec => []ExitIsHonest
<1>1. IInv => ExitIsHonest
  BY DEF IInv
<1> QED BY <1>1, Invariance, PTL
===============================================================================
