------------------------- MODULE HealthScheduleProofs -------------------------
(***************************************************************************)
(* What TLAPS proves of module HealthSchedule, for every number of checks, *)
(* every set of accepted graphs, every worker limit and every retry count. *)
(***************************************************************************)
EXTENDS HealthSchedule, FiniteSetTheorems, TLAPS

-------------------------------------------------------------------------------
(* Facts about the data.                                                   *)

\* What Head and Tail leave of a sequence, position by position.
LEMMA TailFacts ==
  ASSUME NEW S, NEW s \in Seq(S), s # << >>
  PROVE  /\ Tail(s) \in Seq(S) /\ Head(s) \in S /\ Head(s) = s[1] /\ 1 \in DOMAIN s
         /\ \A i \in DOMAIN Tail(s) :
              i \in Nat \ {0} /\ i + 1 \in DOMAIN s /\ Tail(s)[i] = s[i + 1]
         /\ \A i \in DOMAIN s :
              i # 1 => i - 1 \in DOMAIN Tail(s) /\ Tail(s)[i - 1] = s[i]
OBVIOUS

\* Whatever a runner returns, run_check makes a good result of it once the
\* retry loop is over.
LEMMA FinalResultIsGood ==
  ASSUME NEW c \in Checks, RetryLoop, LastAttempt(c),
         attempts \in [Checks -> Nat], last \in [Checks -> Results \cup {Pending}]
  PROVE  GoodResult(c, FinalResult(c))
<1>1. attempts[c] # 0
  <2>1. Retries[c] \in Nat
    BY ScheduleAssumption
  <2>2. CASE attempts[c] = 0
    <3>1. last[c] = Pending
      BY <2>2 DEF RetryLoop
    <3>2. ~LastAttempt(c)
      BY <2>1, <2>2, <3>1 DEF LastAttempt, Pending, Result
    <3> QED BY <3>2
  <2> QED BY <2>2
<1>2. last[c] \in RunnerResults(c) /\ attempts[c] \in 1..(Retries[c] + 1)
  BY <1>1, ScheduleAssumption DEF RetryLoop
<1>3. Severity[c] \in Findings
  BY ScheduleAssumption
<1>4. /\ last[c].status \in {"PASS", "FAIL", "ERROR"}
      /\ last[c].status = "FAIL" => last[c].severity \in Findings
  BY <1>2, <1>3 DEF RunnerResults, Result
<1>5. last[c].status # "PASS" => attempts[c] = Retries[c] + 1
  BY <1>2, ScheduleAssumption DEF LastAttempt
<1>6. /\ FinalSeverity(c, last[c]) \in Findings \cup {"OK", "NONE"}
      /\ last[c].status = "FAIL" <=> FinalSeverity(c, last[c]) \in Findings
  <2>1. CASE last[c].status = "PASS"
    BY <2>1 DEF FinalSeverity, Findings
  <2>2. CASE last[c].status = "FAIL"
    BY <2>2, <1>4 DEF FinalSeverity
  <2>3. CASE last[c].status = "ERROR"
    BY <2>3 DEF FinalSeverity, Findings
  <2> QED BY <1>4, <2>1, <2>2, <2>3
<1> QED
  BY <1>2, <1>4, <1>5, <1>6 DEF GoodResult, FinalResult, Result, Results, Statuses

\* The markers that are not results differ from every result.
LEMMA MarkersDiffer ==
  /\ Pending # Skipped /\ Skipped # Invalid /\ Pending # Invalid
  /\ Pending.status = "PENDING" /\ Skipped.status = "SKIPPED" /\ Invalid.status = "INVALID"
  /\ Skipped \in Results /\ Pending \notin Results /\ Invalid \notin Results
  /\ \A r \in Results : r.status \in Statuses
  /\ \A c : ~GoodResult(c, Skipped) /\ ~GoodResult(c, Pending) /\ ~GoodResult(c, Invalid)
BY DEF Pending, Skipped, Invalid, Result, Results, Statuses, GoodResult, Findings

-------------------------------------------------------------------------------
(* The invariant holds initially.                                          *)

LEMMA InitIInv == Init => IInv
<1> SUFFICES ASSUME Init PROVE IInv
  OBVIOUS
<1> USE DEF Init
<1>1. TypeOK
  BY ScheduleAssumption DEF TypeOK
<1>2. ResultsAreGood
  BY DEF ResultsAreGood
<1>3. RetryLoop
  BY ScheduleAssumption DEF RetryLoop
<1>4. Places
  BY DEF Places
<1>5. Queue
  BY MarkersDiffer DEF Queue
<1>6. PassSoFar
  BY DEF PassSoFar
<1>7. RunningIsExact
  <2>1. Inflight = {}
    BY DEF Inflight
  <2>2. Cardinality(Inflight) = 0
    BY <2>1, FS_EmptySet
  <2> QED BY <2>2, ScheduleAssumption DEF RunningIsExact
<1>8. DependencyOrder
  BY DEF DependencyOrder
<1>9. SkipIsJustified
  BY MarkersDiffer DEF SkipIsJustified
<1>10. ExitIsHonest
  BY DEF ExitIsHonest, NoExit, ExitOK, ExitFinding
<1> QED
  BY <1>1, <1>2, <1>3, <1>4, <1>5, <1>6, <1>7, <1>8, <1>9, <1>10 DEF IInv

-------------------------------------------------------------------------------
(* Every step of the main thread's scan preserves it.                      *)

LEMMA InflightIsFinite ==
  IsFiniteSet(Inflight) /\ Cardinality(Inflight) \in Nat
<1>1. IsFiniteSet(Checks)
  BY ScheduleAssumption, FS_Interval DEF Checks
<1>2. Inflight \in SUBSET Checks
  BY DEF Inflight
<1> QED BY <1>1, <1>2, FS_Subset, FS_CardinalityType

\* A check the scan comes to has not been touched.
LEMMA AtCheckFacts ==
  ASSUME IInv, NEW c \in Checks, AtCheck(c)
  PROVE  /\ c \in batch /\ c \in waiting /\ c \in selected
         /\ thread[c] = "none" /\ completed[c] = Pending
         /\ pc = "scan" /\ exit = NoExit
         /\ batch' = batch \ {c}
BY DEF IInv, AtCheck, Places, PassSoFar

LEMMA SkipCheckIInv ==
  ASSUME IInv, NEW c \in Checks, SkipCheck(c)
  PROVE  IInv'
<1> USE DEF IInv
<1>1. /\ c \in batch /\ c \in waiting /\ c \in selected
      /\ thread[c] = "none" /\ completed[c] = Pending
      /\ pc = "scan" /\ exit = NoExit /\ batch' = batch \ {c}
  BY AtCheckFacts DEF SkipCheck
<1>2. /\ completed' = [completed EXCEPT ![c] = Skipped]
      /\ waiting' = waiting \ {c}
      /\ progressed' = TRUE
      /\ UNCHANGED <<config, pc, running, finished, threads, exit>>
  BY DEF SkipCheck
<1>3. completed' \in [Checks -> Results \cup {Pending}] /\ completed'[c] = Skipped
  BY <1>2, MarkersDiffer DEF TypeOK
<1>4. TypeOK'
  BY <1>1, <1>2, <1>3 DEF TypeOK, config, threads
<1>5. ClosedSelection(selected, dependsOn)'
  BY <1>2 DEF config, ClosedSelection
<1>6. ResultsAreGood'
  BY <1>2 DEF ResultsAreGood, TypeOK
<1>7. RetryLoop'
  BY <1>2 DEF RetryLoop, threads, RunnerResults
<1>8. Places'
  BY <1>1, <1>2, <1>3, MarkersDiffer DEF Places, config, threads, TypeOK
<1>9. Queue'
  BY <1>1, <1>2, <1>3, MarkersDiffer DEF Queue, threads, TypeOK
<1>10. PassSoFar'
  BY <1>1, <1>2 DEF PassSoFar
<1>11. RunningIsExact'
  <2>1. Inflight' = Inflight
    BY <1>1, <1>2 DEF Inflight, Completed, threads, TypeOK
  <2> QED BY <2>1, <1>2 DEF RunningIsExact, config
<1>12. \A d \in Checks : completed[d] # Pending => completed'[d] = completed[d]
  BY <1>1, <1>2 DEF TypeOK
<1>13. DependencyOrder'
  BY <1>2, <1>12, MarkersDiffer DEF DependencyOrder, TypeOK, config, threads
<1>14. SkipIsJustified'
  <2>1. PICK e \in dependsOn[c] : completed[e].status # "PASS"
    BY DEF SkipCheck, Unmet
  <2>2. completed[e] # Pending /\ e \in Checks
    BY <2>1, ScheduleAssumption DEF SkipCheck, DependenciesDone, TypeOK
  <2>3. completed'[e].status \in {"FAIL", "ERROR", "SKIPPED"}
    BY <2>1, <2>2, <1>12, MarkersDiffer DEF TypeOK, Statuses
  <2> QED
    BY <2>1, <2>3, <1>1, <1>2, <1>12, MarkersDiffer, ScheduleAssumption
    DEF SkipIsJustified, TypeOK, config, threads
<1>15. ExitIsHonest'
  BY <1>1, <1>2 DEF ExitIsHonest, NoExit, ExitOK, ExitFinding
<1> QED
  BY <1>4, <1>5, <1>6, <1>7, <1>8, <1>9, <1>10, <1>11, <1>13, <1>14, <1>15

LEMMA StartCheckIInv ==
  ASSUME IInv, NEW c \in Checks, StartCheck(c)
  PROVE  IInv'
<1> USE DEF IInv
<1>1. /\ c \in batch /\ c \in waiting /\ c \in selected
      /\ thread[c] = "none" /\ completed[c] = Pending
      /\ pc = "scan" /\ exit = NoExit /\ batch' = batch \ {c}
  BY AtCheckFacts DEF StartCheck
<1>2. /\ thread' = [thread EXCEPT ![c] = "running"]
      /\ waiting' = waiting \ {c}
      /\ running' = running + 1
      /\ progressed' = TRUE
      /\ UNCHANGED <<config, pc, completed, finished, attempts, last, exit>>
  BY DEF StartCheck
<1>3. thread' \in [Checks -> {"none", "running", "ended"}] /\ thread'[c] = "running"
  BY <1>2 DEF TypeOK
<1>4. TypeOK'
  BY <1>1, <1>2, <1>3 DEF TypeOK, config
<1>5. ClosedSelection(selected, dependsOn)'
  BY <1>2 DEF config, ClosedSelection
<1>6. ResultsAreGood'
  BY <1>2 DEF ResultsAreGood
<1>7. RetryLoop'
  BY <1>2 DEF RetryLoop, RunnerResults
<1>8. Places'
  BY <1>1, <1>2, <1>3 DEF Places, config, TypeOK
<1>9. Queue'
  BY <1>1, <1>2, <1>3 DEF Queue, TypeOK
<1>10. PassSoFar'
  BY <1>1, <1>2 DEF PassSoFar
<1>11. RunningIsExact'
  <2>1. Inflight' = Inflight \cup {c} /\ c \notin Inflight
    BY <1>1, <1>2, <1>3 DEF Inflight, Completed, TypeOK
  <2>2. Cardinality(Inflight') = Cardinality(Inflight) + 1
    BY <2>1, InflightIsFinite, FS_AddElement
  <2>3. running < workers /\ workers \in Nat /\ running \in Int
    BY ScheduleAssumption DEF StartCheck, WorkerFree, TypeOK
  <2> QED BY <2>2, <2>3, <1>1, <1>2 DEF RunningIsExact, config
<1>12. DependencyOrder'
  <2>1. \A d \in dependsOn[c] : completed[d].status = "PASS"
    BY DEF StartCheck, Unmet
  <2> QED BY <2>1, <1>2, <1>3 DEF DependencyOrder, TypeOK, config
<1>13. SkipIsJustified'
  BY <1>1, <1>2, <1>3, MarkersDiffer DEF SkipIsJustified, TypeOK, config
<1>14. ExitIsHonest'
  BY <1>1, <1>2 DEF ExitIsHonest, NoExit, ExitOK, ExitFinding
<1> QED
  BY <1>4, <1>5, <1>6, <1>7, <1>8, <1>9, <1>10, <1>11, <1>12, <1>13, <1>14

\* A step that only ends the run.
LEMMA StopIInv ==
  ASSUME IInv, NEW code \in {ExitOK, ExitFinding, ExitFailure, ExitInterrupted},
         Stop(code),
         code \in {ExitOK, ExitFinding} => ExitIsHonest',
         batch' \in SUBSET batch,
         UNCHANGED <<config, progressed, waiting, completed, threads>>,
         \/ UNCHANGED <<running, finished>>
         \/ /\ finished # << >> /\ finished' = Tail(finished)
            /\ running' = running - 1
  PROVE  IInv'
<1> USE DEF IInv, config, threads
<1>1. pc' = "done" /\ exit' = code
  BY DEF Stop
<1>2. /\ finished' \in Seq(Entries)
      /\ \/ finished' = finished
         \/ /\ finished # << >>
            /\ \A i \in DOMAIN finished' :
                 i \in Nat /\ i + 1 \in DOMAIN finished /\ finished'[i] = finished[i + 1]
  <2>1. finished \in Seq(Entries)
    BY DEF TypeOK
  <2>2. CASE finished # << >> /\ finished' = Tail(finished)
    BY <2>1, <2>2, TailFacts
  <2> QED BY <2>1, <2>2
<1>3. TypeOK'
  BY <1>1, <1>2 DEF TypeOK
<1>4. ClosedSelection(selected, dependsOn)'
  BY DEF ClosedSelection
<1>5. ResultsAreGood'
  BY <1>2 DEF ResultsAreGood, TypeOK
<1>6. RetryLoop'
  BY DEF RetryLoop, RunnerResults
<1>7. Places'
  BY DEF Places
<1>8. Queue'
  <2>1. CASE finished' = finished
    BY <2>1, <1>1 DEF Queue
  <2>2. CASE finished' # finished
    <3>1. \A i, j \in DOMAIN finished' : finished'[i].check = finished'[j].check => i = j
      BY <2>2, <1>2 DEF Queue
    <3> QED BY <2>2, <3>1, <1>1, <1>2 DEF Queue
  <2> QED BY <2>1, <2>2
<1>9. PassSoFar'
  BY <1>1 DEF PassSoFar, NoExit, ExitOK, ExitFinding, ExitFailure, ExitInterrupted
<1>10. RunningIsExact'
  BY <1>1 DEF RunningIsExact
<1>11. DependencyOrder'
  BY DEF DependencyOrder
<1>12. SkipIsJustified'
  BY DEF SkipIsJustified
<1>13. ExitIsHonest'
  BY <1>1 DEF ExitIsHonest, ExitFailure, ExitInterrupted, ExitOK, ExitFinding
<1> QED
  BY <1>3, <1>4, <1>5, <1>6, <1>7, <1>8, <1>9, <1>10, <1>11, <1>12, <1>13

\* A step of the main thread that changes no check: it only moves on in the
\* scan, or from the scan to the queue or to the report.
LEMMA MoveOnIInv ==
  ASSUME IInv, batch' \in SUBSET waiting, progressed' \in BOOLEAN,
         pc' \in {"scan", "wait", "report"}, pc # "done",
         UNCHANGED <<config, waiting, running, completed, finished, threads, exit>>,
         PassSoFar'
  PROVE  IInv'
<1> USE DEF IInv, config, threads
<1>1. exit = NoExit
  BY DEF PassSoFar
<1>2. TypeOK'
  BY DEF TypeOK
<1>3. ClosedSelection(selected, dependsOn)'
  BY DEF ClosedSelection
<1>4. ResultsAreGood'
  BY DEF ResultsAreGood
<1>5. RetryLoop'
  BY DEF RetryLoop, RunnerResults
<1>6. Places'
  BY DEF Places
<1>7. Queue'
  BY DEF Queue
<1>8. RunningIsExact'
  BY DEF RunningIsExact, Inflight, Completed
<1>9. DependencyOrder'
  BY DEF DependencyOrder
<1>10. SkipIsJustified'
  BY DEF SkipIsJustified
<1>11. ExitIsHonest'
  BY <1>1 DEF ExitIsHonest, NoExit, ExitOK, ExitFinding
<1> QED
  BY <1>2, <1>3, <1>4, <1>5, <1>6, <1>7, <1>8, <1>9, <1>10, <1>11

LEMMA ScanIInv ==
  ASSUME IInv,
         \/ \E c \in Checks : StartFails(c) \/ PostponeCheck(c)
         \/ Rescan \/ AwaitResult \/ FinishEvaluation
  PROVE  IInv'
<1>1. ASSUME NEW c \in Checks, StartFails(c) PROVE IInv'
  <2>1. batch' \in SUBSET batch
    BY <1>1 DEF StartFails, AtCheck
  <2> QED
    BY <1>1, <2>1, StopIInv DEF StartFails, ExitFailure, ExitOK, ExitFinding
<1>2. ASSUME NEW c \in Checks, PostponeCheck(c) PROVE IInv'
  <2>1. /\ c \in batch /\ c \in waiting /\ pc = "scan" /\ batch' = batch \ {c}
        /\ batch \subseteq waiting
    BY <1>2, AtCheckFacts DEF PostponeCheck, IInv, Places
  <2>2. Blocked(c)
    BY <1>2 DEF PostponeCheck, Blocked
  <2>3. PassSoFar'
    BY <1>2, <2>1, <2>2
    DEF PostponeCheck, IInv, PassSoFar, Blocked, DependenciesDone, Unmet, WorkerFree, config
  <2> QED
    BY <1>2, <2>1, <2>3, MoveOnIInv DEF PostponeCheck, IInv, TypeOK
<1>3. CASE Rescan
  <2>1. PassSoFar'
    BY <1>3 DEF Rescan, IInv, PassSoFar
  <2> QED BY <1>3, <2>1, MoveOnIInv DEF Rescan, IInv, TypeOK
<1>4. CASE AwaitResult
  <2>1. PassSoFar'
    BY <1>4 DEF AwaitResult, IInv, PassSoFar, Blocked, DependenciesDone, Unmet, WorkerFree, config
  <2> QED BY <1>4, <2>1, MoveOnIInv DEF AwaitResult, IInv, TypeOK, Places
<1>5. CASE FinishEvaluation
  <2>1. CASE waiting # {} /\ Stop(ExitFailure)
    <3>1. batch' \in SUBSET batch
      BY <1>5 DEF FinishEvaluation
    <3> QED
      BY <1>5, <2>1, <3>1, StopIInv DEF FinishEvaluation, ExitFailure, ExitOK, ExitFinding
  <2>2. CASE waiting = {} /\ pc' = "report" /\ UNCHANGED exit
    <3>1. PassSoFar'
      BY <1>5, <2>2 DEF FinishEvaluation, IInv, PassSoFar
    <3> QED BY <1>5, <2>2, <3>1, MoveOnIInv DEF FinishEvaluation, IInv, TypeOK, Places
  <2> QED BY <1>5, <2>1, <2>2 DEF FinishEvaluation
<1> QED
  BY <1>1, <1>2, <1>3, <1>4, <1>5

-------------------------------------------------------------------------------
(* So does receiving a result.                                             *)

LEMMA ReceiveResultIInv ==
  ASSUME IInv, ReceiveResult
  PROVE  IInv'
<1> DEFINE check == Head(finished).check
           result == Head(finished).result
<1> USE DEF IInv
<1>1. /\ pc = "wait" /\ finished # << >> /\ finished' = Tail(finished)
      /\ running' = running - 1
      /\ UNCHANGED <<config, batch, waiting, threads>>
  BY DEF ReceiveResult
<1>2. finished \in Seq(Entries)
  BY DEF TypeOK
<1>3. /\ 1 \in DOMAIN finished /\ finished[1].check = check /\ finished[1].result = result
      /\ check \in Checks /\ result \in Results \cup {Invalid}
  <2>1. /\ 1 \in DOMAIN finished /\ finished[1] = Head(finished)
        /\ Head(finished) \in Entries
    BY <1>1, <1>2, TailFacts
  <2> QED BY <2>1 DEF Entries
<1>4. CASE result.status \notin Statuses /\ Stop(ExitFailure) /\ UNCHANGED <<completed, progressed>>
  <2>1. batch' \in SUBSET batch
    BY <1>1
  <2> QED
    BY <1>1, <1>4, <2>1, StopIInv DEF ExitFailure, ExitOK, ExitFinding
<1>5. ASSUME result.status \in Statuses,
             completed' = [completed EXCEPT ![check] = result],
             pc' = "scan", progressed' = TRUE, UNCHANGED exit
      PROVE  IInv'
  <2>1. /\ thread[check] = "ended" /\ completed[check] = Pending
        /\ check \in selected \ waiting
    BY <1>3 DEF Queue, Places
  <2>2. result # Invalid /\ GoodResult(check, result)
    BY <1>3, <1>5, MarkersDiffer DEF ResultsAreGood, Statuses
  <2>3. result \in Results /\ result # Pending /\ result # Skipped
    BY <2>2, <1>3, MarkersDiffer
  <2>4. exit = NoExit
    BY <1>1 DEF PassSoFar
  <2>5. /\ finished' \in Seq(Entries)
        /\ \A i \in DOMAIN finished' :
             i \in Nat \ {0} /\ i + 1 \in DOMAIN finished /\ finished'[i] = finished[i + 1]
        /\ \A i \in DOMAIN finished :
             i # 1 => i - 1 \in DOMAIN finished' /\ finished'[i - 1] = finished[i]
    BY <1>1, <1>2, TailFacts
  <2>6. /\ completed' \in [Checks -> Results \cup {Pending}] /\ completed'[check] = result
        /\ \A c \in Checks : c # check => completed'[c] = completed[c]
    BY <1>3, <1>5, <2>3 DEF TypeOK
  <2>7. TypeOK'
    BY <1>1, <1>5, <2>5, <2>6 DEF TypeOK, config, threads
  <2>8. ClosedSelection(selected, dependsOn)'
    BY <1>1 DEF config, ClosedSelection
  <2>9. ResultsAreGood'
    BY <2>2, <2>5, <2>6 DEF ResultsAreGood
  <2>10. RetryLoop'
    BY <1>1 DEF RetryLoop, threads, RunnerResults
  <2>11. Places'
    <3>1. \A c \in Checks :
            /\ thread'[c] # "none" => c \in selected' \ waiting'
            /\ completed'[c] # Pending => c \in selected' \ waiting'
            /\ completed'[c] # Pending => (thread'[c] = "none" <=> completed'[c] = Skipped)
      BY <1>1, <2>1, <2>3, <2>6 DEF Places, config, threads
    <3>2. \A c \in selected' \ waiting' : thread'[c] # "none" \/ completed'[c] = Skipped
      BY <1>1, <2>1, <2>6 DEF Places, config, threads, TypeOK
    <3> QED BY <1>1, <3>1, <3>2 DEF Places, config
  <2>12. Queue'
    <3>1. \A i \in DOMAIN finished' : finished'[i].check # check
      <4> SUFFICES ASSUME NEW i \in DOMAIN finished' PROVE finished'[i].check # check
        OBVIOUS
      <4>1. i + 1 \in DOMAIN finished /\ i + 1 # 1 /\ finished'[i] = finished[i + 1]
        BY <2>5
      <4> QED BY <4>1, <1>3 DEF Queue
    <3>2. \A i, j \in DOMAIN finished' : finished'[i].check = finished'[j].check => i = j
      BY <2>5 DEF Queue
    <3>3. \A i \in DOMAIN finished' : finished'[i].check \in Checks
      <4>1. \A i \in DOMAIN finished' :
              finished'[i] \in Entries
        BY <2>5
      <4> QED BY <4>1 DEF Entries
    <3>4. \A i \in DOMAIN finished' :
            thread'[finished'[i].check] = "ended" /\ completed'[finished'[i].check] = Pending
      BY <1>1, <2>5, <2>6, <3>1, <3>3 DEF Queue, threads
    <3>5. ASSUME NEW c \in Checks, thread'[c] = "ended", completed'[c] = Pending
          PROVE  \E i \in DOMAIN finished' : finished'[i].check = c
      <4>1. c # check /\ thread[c] = "ended" /\ completed[c] = Pending
        BY <3>5, <1>1, <2>3, <2>6 DEF threads
      <4>2. PICK i \in DOMAIN finished : finished[i].check = c
        BY <4>1, <1>1 DEF Queue
      <4>3. i # 1
        BY <4>1, <4>2, <1>3
      <4> QED BY <4>2, <4>3, <2>5
    <3>6. \A c \in Checks : completed'[c] # Pending => thread'[c] # "running"
      BY <1>1, <2>1, <2>6 DEF Queue, threads
    <3> QED BY <3>2, <3>4, <3>5, <3>6 DEF Queue
  <2>13. PassSoFar'
    BY <1>5, <2>4 DEF PassSoFar
  <2>14. RunningIsExact'
    <3>1. Inflight' = Inflight \ {check} /\ check \in Inflight
      BY <1>1, <1>3, <2>1, <2>3, <2>6 DEF Inflight, Completed, threads
    <3>2. Cardinality(Inflight') = Cardinality(Inflight) - 1
      BY <3>1, InflightIsFinite, FS_RemoveElement
    <3>3. workers \in Nat /\ running \in Int
      BY ScheduleAssumption DEF TypeOK
    <3> QED BY <3>2, <3>3, <1>1 DEF RunningIsExact, config
  <2>15. \A c \in Checks : completed[c] # Pending => completed'[c] = completed[c]
    BY <2>1, <2>6
  <2>16. \A c \in Checks : dependsOn[c] \subseteq Checks
    BY ScheduleAssumption DEF TypeOK
  <2>17. DependencyOrder'
    BY <1>1, <2>15, <2>16, MarkersDiffer DEF DependencyOrder, config, threads
  <2>18. SkipIsJustified'
    BY <1>1, <2>3, <2>6, <2>15, <2>16, MarkersDiffer DEF SkipIsJustified, config, threads
  <2>19. ExitIsHonest'
    BY <1>5, <2>4 DEF ExitIsHonest, NoExit, ExitOK, ExitFinding
  <2> QED
    BY <2>7, <2>8, <2>9, <2>10, <2>11, <2>12, <2>13, <2>14, <2>17, <2>18, <2>19
<1> QED
  BY <1>4, <1>5 DEF ReceiveResult

-------------------------------------------------------------------------------
(* The steps of the check threads.                                         *)

LEMMA RunAttemptIInv ==
  ASSUME IInv, NEW c \in Checks, RunAttempt(c)
  PROVE  IInv'
<1> USE DEF IInv
<1>1. PICK r \in RunnerResults(c) : last' = [last EXCEPT ![c] = r]
  BY DEF RunAttempt
<1>2. /\ attempts' = [attempts EXCEPT ![c] = @ + 1]
      /\ attempts[c] <= Retries[c]
      /\ UNCHANGED <<config, pc, batch, progressed, waiting, running, completed,
                     finished, thread, exit>>
  <2>1. attempts[c] \in Nat /\ Retries[c] \in Nat
    BY ScheduleAssumption DEF TypeOK
  <2> QED BY <2>1 DEF RunAttempt, LastAttempt
<1>3. r \in Results
  <2>1. Severity[c] \in Findings
    BY ScheduleAssumption
  <2> QED BY <2>1 DEF RunnerResults, Result, Results, Statuses
<1>4. TypeOK'
  BY <1>1, <1>2, <1>3 DEF TypeOK, config
<1>5. ClosedSelection(selected, dependsOn)'
  BY <1>2 DEF config, ClosedSelection
<1>6. ResultsAreGood'
  BY <1>2 DEF ResultsAreGood
<1>7. RetryLoop'
  <2>1. /\ attempts'[c] = attempts[c] + 1 /\ last'[c] = r
        /\ \A d \in Checks : d # c => attempts'[d] = attempts[d] /\ last'[d] = last[d]
        /\ attempts[c] \in Nat /\ Retries[c] \in Nat
    BY <1>1, <1>2, ScheduleAssumption DEF TypeOK
  <2>2. /\ attempts'[c] <= Retries[c] + 1 /\ attempts'[c] # 0
        /\ last'[c] \in RunnerResults(c)
    BY <1>2, <2>1
  <2>3. \A d \in Checks : RunnerResults(d)' = RunnerResults(d)
    BY DEF RunnerResults
  <2> QED BY <2>1, <2>2, <2>3 DEF RetryLoop
<1>8. Places' /\ Queue' /\ PassSoFar' /\ RunningIsExact'
  BY <1>2 DEF Places, Queue, PassSoFar, RunningIsExact, config, Blocked, DependenciesDone,
              Unmet, WorkerFree, Inflight, Completed
<1>9. DependencyOrder' /\ SkipIsJustified' /\ ExitIsHonest'
  BY <1>2 DEF DependencyOrder, SkipIsJustified, ExitIsHonest, Completed, config
<1> QED
  BY <1>4, <1>5, <1>6, <1>7, <1>8, <1>9

LEMMA PutIInv ==
  ASSUME IInv, NEW c \in Checks, thread[c] = "running", pc # "done",
         NEW result \in Results \cup {Invalid},
         result = Invalid \/ GoodResult(c, result),
         Put(c, result)
  PROVE  IInv'
<1> DEFINE entry == [check |-> c, result |-> result]
<1> USE DEF IInv
<1>1. /\ finished' = Append(finished, entry)
      /\ thread' = [thread EXCEPT ![c] = "ended"]
      /\ UNCHANGED <<config, pc, batch, progressed, waiting, running, completed,
                     attempts, last, exit>>
  BY DEF Put
<1>2. completed[c] = Pending
  BY DEF Queue
<1>3. entry \in Entries /\ entry.check = c /\ entry.result = result
  BY DEF Entries
<1> HIDE DEF entry
<1>4. finished \in Seq(Entries)
  BY DEF TypeOK
<1>5. /\ finished' \in Seq(Entries)
      /\ DOMAIN finished' = DOMAIN finished \cup {Len(finished) + 1}
      /\ Len(finished) + 1 \notin DOMAIN finished
      /\ finished'[Len(finished) + 1] = entry
      /\ \A i \in DOMAIN finished : finished'[i] = finished[i]
  BY <1>1, <1>3, <1>4
<1>6. /\ thread' \in [Checks -> {"none", "running", "ended"}] /\ thread'[c] = "ended"
      /\ \A d \in Checks : d # c => thread'[d] = thread[d]
      /\ \A d \in Checks : thread'[d] = "none" <=> thread[d] = "none"
  BY <1>1 DEF TypeOK
<1>7. TypeOK'
  BY <1>1, <1>5, <1>6 DEF TypeOK, config
<1>8. ClosedSelection(selected, dependsOn)'
  BY <1>1 DEF config, ClosedSelection
<1>9. ResultsAreGood'
  BY <1>1, <1>3, <1>5 DEF ResultsAreGood
<1>10. RetryLoop'
  BY <1>1 DEF RetryLoop, RunnerResults
<1>11. Places'
  BY <1>1, <1>6 DEF Places, config, TypeOK
<1>12. Queue'
  <2>1. \A i \in DOMAIN finished : finished[i].check # c
    BY DEF Queue
  <2>2. \A i \in DOMAIN finished : finished[i].check \in Checks
    <3>1. \A i \in DOMAIN finished : finished[i] \in Entries
      BY <1>4
    <3> QED BY <3>1 DEF Entries
  <2>3. \A i \in DOMAIN finished' :
          thread'[finished'[i].check] = "ended" /\ completed'[finished'[i].check] = Pending
    BY <1>1, <1>2, <1>3, <1>5, <1>6, <2>1, <2>2 DEF Queue
  <2>4. \A i, j \in DOMAIN finished' : finished'[i].check = finished'[j].check => i = j
    BY <1>3, <1>5, <2>1 DEF Queue
  <2>5. ASSUME NEW d \in Checks, thread'[d] = "ended", completed'[d] = Pending
        PROVE  \E i \in DOMAIN finished' : finished'[i].check = d
    <3>1. CASE d = c
      BY <3>1, <1>3, <1>5
    <3>2. CASE d # c
      <4>1. PICK i \in DOMAIN finished : finished[i].check = d
        BY <2>5, <3>2, <1>1, <1>6 DEF Queue
      <4> QED BY <4>1, <1>5
    <3> QED BY <3>1, <3>2
  <2>6. \A d \in Checks : completed'[d] # Pending => thread'[d] # "running"
    BY <1>1, <1>6 DEF Queue
  <2> QED BY <2>3, <2>4, <2>5, <2>6 DEF Queue
<1>13. PassSoFar'
  BY <1>1 DEF PassSoFar, config, Blocked, DependenciesDone, Unmet, WorkerFree
<1>14. RunningIsExact'
  <2>1. Inflight' = Inflight
    BY <1>1, <1>6 DEF Inflight, Completed
  <2> QED BY <2>1, <1>1 DEF RunningIsExact, config
<1>15. DependencyOrder' /\ SkipIsJustified'
  BY <1>1, <1>6 DEF DependencyOrder, SkipIsJustified, config
<1>16. ExitIsHonest'
  BY <1>1 DEF ExitIsHonest, Completed, config
<1> QED
  BY <1>7, <1>8, <1>9, <1>10, <1>11, <1>12, <1>13, <1>14, <1>15, <1>16

LEMMA ThreadIInv ==
  ASSUME IInv, NEW c \in Checks, ThreadStep(c)
  PROVE  IInv'
<1>1. CASE RunAttempt(c)
  BY <1>1, RunAttemptIInv
<1>2. CASE PostResult(c)
  <2>1. GoodResult(c, FinalResult(c))
    BY <1>2, FinalResultIsGood DEF IInv, TypeOK, PostResult
  <2> QED BY <1>2, <2>1, PutIInv DEF PostResult, GoodResult
<1>3. CASE PostInvalid(c)
  BY <1>3, PutIInv DEF PostInvalid
<1> QED BY <1>1, <1>2, <1>3 DEF ThreadStep

-------------------------------------------------------------------------------
(* The end of the run.                                                     *)

\* The exit code computed from a set of final results.
LEMMA ExitCodeMeaning ==
  ASSUME NEW R, \A r \in R : r.status \in Statuses
  PROVE  /\ ResultExitCode(R) \in {ExitOK, ExitFinding, ExitFailure}
         /\ ResultExitCode(R) = ExitOK <=> \A r \in R : r.status = "PASS"
         /\ ResultExitCode(R) = ExitFinding <=> \E r \in R : r.status = "FAIL"
<1> DEFINE failed == {r \in R : r.status = "FAIL"}
           passed == {r \in R : r.status = "PASS"}
<1>1. CASE failed # {}
  <2>1. AggregateStatus(R) \in Findings
    BY <1>1 DEF AggregateStatus, Findings
  <2> QED
    BY <1>1, <2>1 DEF ResultExitCode, Findings, ExitOK, ExitFinding, ExitFailure
<1>2. CASE failed = {} /\ passed = R
  <2>1. AggregateStatus(R) = "OK"
    BY <1>2 DEF AggregateStatus
  <2> QED
    BY <1>2, <2>1 DEF ResultExitCode, ExitOK, ExitFinding, ExitFailure
<1>3. CASE failed = {} /\ passed # R
  <2>1. AggregateStatus(R) \in {"INCOMPLETE", "ERROR"}
    BY <1>3 DEF AggregateStatus
  <2>2. \E r \in R : r.status # "PASS"
    BY <1>3
  <2> QED
    BY <1>3, <2>1, <2>2 DEF ResultExitCode, Findings, ExitOK, ExitFinding, ExitFailure
<1> QED BY <1>1, <1>2, <1>3

\* When the main thread reports, every selected check has a final result.
LEMMA ReportIsComplete ==
  ASSUME IInv, pc = "report"
  PROVE  selected \subseteq Completed /\ \A c \in selected : completed[c].status \in Statuses
<1> USE DEF IInv
<1>1. running = 0 /\ waiting = {}
  BY DEF PassSoFar
<1>2. Inflight = {}
  BY <1>1, InflightIsFinite, FS_EmptySet DEF RunningIsExact
<1>3. selected \subseteq Completed
  BY <1>1, <1>2, MarkersDiffer DEF Places, Inflight, Completed, TypeOK
<1> QED
  BY <1>3, MarkersDiffer DEF Completed, TypeOK

LEMMA EmitIInv ==
  ASSUME IInv, Emit
  PROVE  IInv'
<1> DEFINE R == {completed[c] : c \in selected}
           code == ResultExitCode(R)
<1>1. pc = "report" /\ batch' \in SUBSET batch
  BY DEF Emit
<1>2. CASE Stop(code)
  <2>1. selected \subseteq Completed /\ \A r \in R : r.status \in Statuses
    BY <1>1, ReportIsComplete
  <2>2. /\ code \in {ExitOK, ExitFinding, ExitFailure}
        /\ code = ExitOK <=> \A r \in R : r.status = "PASS"
        /\ code = ExitFinding <=> \E r \in R : r.status = "FAIL"
    BY <2>1, ExitCodeMeaning
  <2>3. exit' = code /\ UNCHANGED <<completed, selected>>
    BY <1>2 DEF Emit, Stop, config
  <2>4. ExitIsHonest'
    BY <2>1, <2>2, <2>3 DEF ExitIsHonest, Completed
  <2> HIDE DEF code
  <2> QED
    BY <1>1, <1>2, <2>2, <2>4, StopIInv DEF Emit
<1>3. CASE Stop(ExitFailure)
  BY <1>1, <1>3, StopIInv DEF Emit, ExitFailure, ExitOK, ExitFinding
<1> QED BY <1>2, <1>3 DEF Emit

LEMMA InterruptIInv ==
  ASSUME IInv, Interrupt
  PROVE  IInv'
<1>1. batch' \in SUBSET batch
  BY DEF Interrupt
<1> QED BY <1>1, StopIInv DEF Interrupt, ExitInterrupted, ExitOK, ExitFinding

LEMMA StutterIInv ==
  ASSUME IInv, UNCHANGED vars
  PROVE  IInv'
BY DEF IInv, vars, config, threads, TypeOK, ClosedSelection, ResultsAreGood, RetryLoop,
       RunnerResults, Places, Queue, PassSoFar, Blocked, DependenciesDone, Unmet, WorkerFree,
       RunningIsExact, Inflight, Completed, DependencyOrder, SkipIsJustified, ExitIsHonest

LEMMA NextIInv ==
  ASSUME IInv, [Next]_vars
  PROVE  IInv'
<1>1. CASE MainStep
  <2>1. ASSUME NEW c \in Checks, SkipCheck(c) PROVE IInv'
    BY <2>1, SkipCheckIInv
  <2>2. ASSUME NEW c \in Checks, StartCheck(c) PROVE IInv'
    BY <2>2, StartCheckIInv
  <2> QED
    BY <1>1, <2>1, <2>2, ScanIInv, ReceiveResultIInv, EmitIInv DEF MainStep
<1>2. ASSUME NEW c \in Checks, ThreadStep(c) PROVE IInv'
  BY <1>2, ThreadIInv
<1>3. CASE Interrupt
  BY <1>3, InterruptIInv
<1>4. CASE UNCHANGED vars
  BY <1>4, StutterIInv
<1> QED BY <1>1, <1>2, <1>3, <1>4 DEF Next

-------------------------------------------------------------------------------
(* The theorems.                                                           *)

THEOREM Invariance == Spec => []IInv
<1>1. Init => IInv
  BY InitIInv
<1>2. IInv /\ [Next]_vars => IInv'
  BY NextIInv
<1> QED BY <1>1, <1>2, PTL DEF Spec

\* Every variable keeps its type.
THEOREM TypeCorrect == Spec => []TypeOK
<1>1. IInv => TypeOK
  BY DEF IInv
<1> QED BY <1>1, Invariance, PTL

\* No check ever runs before all its dependencies have passed.
THEOREM DependenciesFirst == Spec => []DependencyOrder
<1>1. IInv => DependencyOrder
  BY DEF IInv
<1> QED BY <1>1, Invariance, PTL

\* A check is skipped only for a dependency that did not pass, and never ran.
THEOREM SkipsAreJustified == Spec => []SkipIsJustified
<1>1. IInv => SkipIsJustified
  BY DEF IInv
<1> QED BY <1>1, Invariance, PTL

\* The counter the worker limit rests on counts the threads under way.
THEOREM WorkerLimit == Spec => []RunningIsExact
<1>1. IInv => RunningIsExact
  BY DEF IInv
<1> QED BY <1>1, Invariance, PTL

\* Exit 0 and 1 stand for complete results that justify them.
THEOREM HonestExit == Spec => []ExitIsHonest
<1>1. IInv => ExitIsHonest
  BY DEF IInv
<1> QED BY <1>1, Invariance, PTL

\* No selected check is lost or counted twice.
THEOREM NothingLost == Spec => []NoCheckLost
<1>1. ASSUME IInv PROVE NoCheckLost
  <2> SUFFICES ASSUME pc # "done" PROVE NoCheckLost
    BY DEF NoCheckLost
  <2> USE <1>1 DEF IInv
  <2>1. selected = waiting \cup Inflight \cup Completed
    BY MarkersDiffer DEF Places, Inflight, Completed, TypeOK
  <2>2. waiting \cap (Inflight \cup Completed) = {}
    BY DEF Places, Inflight, Completed
  <2>3. \A c \in Inflight :
          thread[c] = "ended" <=> \E i \in DOMAIN finished : finished[i].check = c
    BY DEF Queue, Inflight, Completed
  <2> QED BY <2>1, <2>2, <2>3 DEF NoCheckLost
<1> QED BY <1>1, Invariance, PTL

\* When the main thread blocks a result will come, and no waiting check could
\* have been skipped or started.
THEOREM BlockingIsJustified == Spec => []BlocksOnlyWhenBusy
<1>1. ASSUME IInv PROVE BlocksOnlyWhenBusy
  <2> SUFFICES ASSUME pc = "wait" PROVE BlocksOnlyWhenBusy
    BY DEF BlocksOnlyWhenBusy
  <2> USE <1>1 DEF IInv
  <2>1. /\ running # 0 /\ running = Cardinality(Inflight) /\ running <= workers
        /\ \A c \in waiting : Blocked(c)
    BY DEF PassSoFar, RunningIsExact
  <2>2. Inflight # {}
    BY <2>1, FS_EmptySet
  <2>3. running \in Int /\ workers \in Int
    BY ScheduleAssumption DEF TypeOK
  <2>4. \A c \in Inflight :
           thread[c] = "running" \/ \E i \in DOMAIN finished : finished[i].check = c
    BY DEF Queue, TypeOK, Inflight, Completed
  <2>5. \A c \in waiting :
           DependenciesDone(c) => Unmet(c) = {} /\ Cardinality(Inflight) = workers
    BY <2>1, <2>3 DEF Blocked, WorkerFree
  <2> QED BY <2>2, <2>4, <2>5 DEF BlocksOnlyWhenBusy
<1> QED BY <1>1, Invariance, PTL

\* On a well-founded graph the loop never ends with checks left over: the
\* minimal waiting check has all its dependencies finished, and a free worker.
THEOREM CycleNeverReported == Spec => []NoFalseCycle
<1>1. ASSUME IInv PROVE NoFalseCycle
  <2> SUFFICES ASSUME pc = "scan", batch = {}, ~progressed, running = 0, waiting # {}
               PROVE  FALSE
    BY DEF NoFalseCycle
  <2> USE <1>1 DEF IInv
  <2>1. waiting \in SUBSET Checks /\ AcceptedGraph(Checks, dependsOn)
    BY ScheduleAssumption DEF TypeOK
  <2>2. PICK c \in waiting : dependsOn[c] \cap waiting = {}
    BY <2>1 DEF AcceptedGraph, WellFounded
  <2>3. Inflight = {}
    BY InflightIsFinite, FS_EmptySet DEF RunningIsExact
  <2>4. dependsOn[c] \subseteq selected \ waiting
    BY <2>2 DEF ClosedSelection, Places
  <2>5. DependenciesDone(c)
    BY <2>3, <2>4, MarkersDiffer DEF DependenciesDone, Places, Inflight, Completed, TypeOK
  <2>6. Blocked(c)
    BY <2>2 DEF PassSoFar
  <2> QED
    BY <2>5, <2>6, ScheduleAssumption DEF Blocked, WorkerFree, TypeOK
<1> QED BY <1>1, Invariance, PTL

\* Retries and severities are accounted for in every result.
THEOREM AttemptsAreAccounted == Spec => []AttemptsAccounted
<1>1. ASSUME IInv PROVE AttemptsAccounted
  <2> SUFFICES ASSUME NEW c \in Completed
               PROVE  /\ completed[c].status \in {"FAIL", "ERROR"} =>
                           completed[c].attempts = Retries[c] + 1
                      /\ completed[c].status = "PASS" =>
                           completed[c].attempts \in 1..(Retries[c] + 1)
                      /\ completed[c].status = "FAIL" <=> completed[c].severity \in Findings
    BY DEF AttemptsAccounted
  <2>1. CASE completed[c] = Skipped
    BY <2>1 DEF Skipped, Result, Findings
  <2>2. CASE GoodResult(c, completed[c])
    BY <2>2 DEF GoodResult
  <2> QED
    BY <1>1, <2>1, <2>2 DEF IInv, ResultsAreGood, Completed
<1> QED BY <1>1, Invariance, PTL

-------------------------------------------------------------------------------
(* The schedule implements HealthVerdicts.                                 *)

\* What the verdict of a check says of the check.
LEMMA VerdictFacts ==
  ASSUME IInv, NEW c \in Checks
  PROVE  /\ Verdict(c) = "pending" <=> completed[c] = Pending /\ thread[c] = "none"
         /\ Verdict(c) = "running" <=> c \in Inflight
         /\ Verdict(c) \in Verdicts!Settled <=> c \in Completed
         /\ Verdict(c) = "PASS" <=> completed[c].status = "PASS"
         /\ Verdict(c) \in Findings <=> completed[c].status = "FAIL"
<1>1. CASE completed[c] = Pending
  BY <1>1, MarkersDiffer
  DEF Verdict, Completed, Inflight, Findings, Verdicts!Settled, Verdicts!Findings
<1>2. CASE completed[c] = Skipped
  BY <1>2, MarkersDiffer
  DEF Verdict, Completed, Inflight, Findings, Verdicts!Settled, Verdicts!Findings
<1>3. CASE GoodResult(c, completed[c])
  <2>1. completed[c] # Pending
    BY <1>3, MarkersDiffer
  <2> QED
    BY <1>3, <2>1
    DEF GoodResult, Verdict, Completed, Inflight, Findings, Verdicts!Settled, Verdicts!Findings
<1> QED BY <1>1, <1>2, <1>3 DEF IInv, ResultsAreGood

\* A step that leaves completed alone and starts no thread changes no verdict.
LEMMA VerdictsStay ==
  ASSUME IInv, IInv', UNCHANGED completed,
         \A c \in Checks : thread'[c] = "none" <=> thread[c] = "none"
  PROVE  UNCHANGED [c \in Checks |-> Verdict(c)]
<1>1. \A c \in Checks : Verdict(c)' = Verdict(c)
  BY DEF Verdict, Completed
<1> QED BY <1>1

LEMMA InitRefines == Init => Verdicts!Init
<1> SUFFICES ASSUME Init PROVE Verdicts!Init
  OBVIOUS
<1>1. \A c \in Checks : Verdict(c) = "pending"
  BY DEF Init, Verdict, Completed
<1>2. [c \in Checks |-> Verdict(c)] = [c \in Checks |-> "pending"]
  BY <1>1
<1>3. exit = Verdicts!NoExit
  BY DEF Init, Verdicts!NoExit, NoExit
<1> QED BY <1>2, <1>3 DEF Init, Verdicts!Init, ClosedSelection, Verdicts!ClosedSelection

LEMMA StopRefines ==
  ASSUME IInv, IInv', NEW code \in {ExitFailure, ExitInterrupted}, Stop(code), pc # "done",
         UNCHANGED <<config, completed, threads>>
  PROVE  Verdicts!Abandon
<1>1. UNCHANGED [c \in Checks |-> Verdict(c)]
  BY VerdictsStay DEF threads
<1>2. exit = NoExit /\ exit' \in {ExitFailure, ExitInterrupted}
  BY DEF Stop, IInv, PassSoFar
<1> QED
  BY <1>1, <1>2
  DEF config, NoExit, ExitFailure, ExitInterrupted, Verdicts!Abandon, Verdicts!NoExit,
      Verdicts!ExitFailure, Verdicts!ExitInterrupted

LEMMA SkipRefines ==
  ASSUME IInv, IInv', NEW c \in Checks, SkipCheck(c)
  PROVE  Verdicts!Skip(c)
<1> DEFINE verdicts == [d \in Checks |-> Verdict(d)]
<1>1. /\ c \in selected /\ thread[c] = "none" /\ completed[c] = Pending /\ exit = NoExit
  BY AtCheckFacts DEF SkipCheck
<1>2. /\ completed' = [completed EXCEPT ![c] = Skipped]
      /\ UNCHANGED <<config, threads, exit>>
      /\ DependenciesDone(c) /\ Unmet(c) # {}
  BY DEF SkipCheck
<1>3. /\ Verdict(c) = "pending"
      /\ Verdict(c)' = "SKIPPED"
      /\ \A d \in Checks : d # c => Verdict(d)' = Verdict(d)
  BY <1>1, <1>2, MarkersDiffer DEF Verdict, Completed, threads, IInv, TypeOK
<1>4. verdicts' = [verdicts EXCEPT ![c] = "SKIPPED"]
  BY <1>3
<1>5. dependsOn[c] \subseteq Checks
  BY ScheduleAssumption DEF IInv, TypeOK
<1>6. \A d \in dependsOn[c] : verdicts[d] \in Verdicts!Settled
  BY <1>2, <1>5, VerdictFacts DEF DependenciesDone, Completed
<1>7. \E d \in dependsOn[c] : verdicts[d] # "PASS"
  BY <1>2, <1>5, VerdictFacts DEF Unmet
<1>8. verdicts[c] = "pending"
  BY <1>3
<1> HIDE DEF verdicts
<1>9. /\ exit = Verdicts!NoExit
      /\ UNCHANGED <<dependsOn, selected, workers, exit>>
  BY <1>1, <1>2 DEF config, Verdicts!NoExit, NoExit
<1> QED
  BY <1>1, <1>4, <1>6, <1>7, <1>8, <1>9 DEF Verdicts!Skip, Verdicts!Becomes, verdicts

LEMMA StartRefines ==
  ASSUME IInv, IInv', NEW c \in Checks, StartCheck(c)
  PROVE  Verdicts!Begin(c)
<1> DEFINE verdicts == [d \in Checks |-> Verdict(d)]
<1>1. /\ c \in selected /\ thread[c] = "none" /\ completed[c] = Pending /\ exit = NoExit
      /\ pc = "scan"
  BY AtCheckFacts DEF StartCheck
<1>2. /\ thread' = [thread EXCEPT ![c] = "running"]
      /\ UNCHANGED <<config, completed, exit>>
      /\ DependenciesDone(c) /\ Unmet(c) = {} /\ running < workers
  BY DEF StartCheck, WorkerFree
<1>3. /\ Verdict(c) = "pending"
      /\ Verdict(c)' = "running"
      /\ \A d \in Checks : d # c => Verdict(d)' = Verdict(d)
  BY <1>1, <1>2 DEF Verdict, Completed, IInv, TypeOK
<1>4. verdicts' = [verdicts EXCEPT ![c] = "running"]
  BY <1>3
<1>5. dependsOn[c] \subseteq Checks
  BY ScheduleAssumption DEF IInv, TypeOK
<1>6. \A d \in dependsOn[c] : verdicts[d] = "PASS"
  BY <1>2, <1>5, VerdictFacts DEF Unmet
<1>7. verdicts[c] = "pending"
  BY <1>3
<1>8. Verdicts!UnderWay = Inflight
  BY VerdictFacts DEF Inflight, Verdicts!UnderWay
<1> HIDE DEF verdicts
<1>9. Verdicts!Cardinality(Verdicts!UnderWay) < workers
  <2>1. Verdicts!Cardinality(Inflight) = Cardinality(Inflight)
    BY DEF Cardinality, Verdicts!Cardinality
  <2> QED BY <1>1, <1>2, <1>8, <2>1 DEF IInv, RunningIsExact
<1>10. /\ exit = Verdicts!NoExit
       /\ UNCHANGED <<dependsOn, selected, workers, exit>>
  BY <1>1, <1>2 DEF config, Verdicts!NoExit, NoExit
<1> QED
  BY <1>1, <1>4, <1>6, <1>7, <1>9, <1>10
  DEF Verdicts!Begin, Verdicts!Becomes, verdicts

LEMMA ReceiveRefines ==
  ASSUME IInv, IInv', ReceiveResult
  PROVE  Verdicts!Next
<1> DEFINE check == Head(finished).check
           result == Head(finished).result
           verdicts == [d \in Checks |-> Verdict(d)]
<1>1. pc = "wait" /\ finished # << >> /\ UNCHANGED <<config, threads>>
  BY DEF ReceiveResult
<1>2. CASE Stop(ExitFailure) /\ UNCHANGED <<completed, progressed>>
  BY <1>1, <1>2, StopRefines DEF Verdicts!Next
<1>3. finished \in Seq(Entries)
  BY DEF IInv, TypeOK
<1>4. finished[1] = Head(finished) /\ finished[1] \in Entries /\ 1 \in DOMAIN finished
  BY <1>1, <1>3, TailFacts
<1>5. PICK c \in Checks : c = check
  BY <1>4 DEF Entries
<1>6. ASSUME result.status \in Statuses,
             completed' = [completed EXCEPT ![check] = result], UNCHANGED exit
      PROVE  Verdicts!Next
  <2>3. thread[c] = "ended" /\ completed[c] = Pending
    BY <1>4, <1>5 DEF IInv, Queue
  <2>4. GoodResult(c, result) /\ result # Pending
    BY <1>4, <1>5, <1>6, MarkersDiffer DEF IInv, ResultsAreGood, Statuses
  <2> DEFINE v == Verdict(c)'
  <2>5. completed'[c] = result
    BY <1>5, <1>6, <2>3 DEF IInv, TypeOK
  <2>6. v \in Verdicts!Settled \ {"SKIPPED"}
    BY <2>3, <2>4, <2>5
    DEF Verdict, Completed, GoodResult, Findings, Verdicts!Settled, Verdicts!Findings
  <2>7. \A d \in Checks : d # c => Verdict(d)' = Verdict(d)
    BY <1>1, <1>5, <1>6 DEF Verdict, Completed, threads, IInv, TypeOK
  <2>8. verdicts' = [verdicts EXCEPT ![c] = v]
    BY <2>3, <2>7
  <2>9. verdicts[c] = "running"
    BY <2>3, VerdictFacts DEF Inflight, Completed
  <2>10. /\ exit = Verdicts!NoExit
         /\ UNCHANGED <<dependsOn, selected, workers, exit>>
    BY <1>1, <1>6 DEF config, Verdicts!NoExit, NoExit, IInv, PassSoFar
  <2> HIDE DEF verdicts, v
  <2>11. Verdicts!Settle(c)
    BY <2>6, <2>8, <2>9, <2>10 DEF Verdicts!Settle, Verdicts!Becomes, verdicts
  <2> QED BY <2>11 DEF Verdicts!Next
<1> QED BY <1>2, <1>5, <1>6 DEF ReceiveResult

LEMMA EmitRefines ==
  ASSUME IInv, IInv', Emit
  PROVE  Verdicts!Next
<1> DEFINE verdicts == [d \in Checks |-> Verdict(d)]
           R == {completed[c] : c \in selected}
           V == {verdicts[c] : c \in selected}
<1>1. pc = "report" /\ UNCHANGED <<config, completed, threads>>
  BY DEF Emit
<1>2. CASE Stop(ExitFailure)
  BY <1>1, <1>2, StopRefines DEF Verdicts!Next
<1>3. CASE Stop(ResultExitCode(R))
  <2>1. selected \subseteq Completed /\ \A r \in R : r.status \in Statuses
    BY <1>1, ReportIsComplete
  <2>2. selected \subseteq Checks
    BY DEF IInv, TypeOK
  <2>3. /\ ResultExitCode(R) \in {ExitOK, ExitFinding, ExitFailure}
        /\ ResultExitCode(R) = ExitOK <=> \A r \in R : r.status = "PASS"
        /\ ResultExitCode(R) = ExitFinding <=> \E r \in R : r.status = "FAIL"
    BY <2>1, ExitCodeMeaning
  <2>4. \A c \in selected : verdicts[c] \in Verdicts!Settled
    BY <2>1, <2>2, VerdictFacts
  <2>5. (\A r \in R : r.status = "PASS") <=> V \subseteq {"PASS"}
    BY <2>2, VerdictFacts
  <2>6. (\E r \in R : r.status = "FAIL") <=> V \cap Findings # {}
    BY <2>2, VerdictFacts
  <2> HIDE DEF verdicts, R
  <2>7. ResultExitCode(R) = Verdicts!ExitFor(V)
    <3>1. V \subseteq {"PASS"} => V \cap Findings = {}
      BY DEF Findings
    <3> QED
      BY <2>3, <2>5, <2>6, <3>1
      DEF Verdicts!ExitFor, Verdicts!Findings, Findings, ExitOK, ExitFinding, ExitFailure,
          Verdicts!ExitOK, Verdicts!ExitFinding, Verdicts!ExitFailure
  <2>8. /\ exit = Verdicts!NoExit /\ exit' = ResultExitCode(R)
        /\ UNCHANGED <<dependsOn, selected, workers, verdicts>>
    BY <1>1, <1>3, VerdictsStay
    DEF Stop, config, threads, verdicts, NoExit, Verdicts!NoExit, IInv, PassSoFar
  <2>9. Verdicts!Report
    BY <2>4, <2>7, <2>8 DEF Verdicts!Report, verdicts
  <2> QED BY <2>9 DEF Verdicts!Next
<1> QED BY <1>2, <1>3 DEF Emit

\* Every step of the schedule is a step of HealthVerdicts or changes no verdict.
LEMMA StepRefines ==
  ASSUME IInv, IInv', [Next]_vars
  PROVE  Verdicts!Next \/ UNCHANGED Verdicts!vars
<1>1. ASSUME NEW c \in Checks, SkipCheck(c) PROVE Verdicts!Next
  BY <1>1, SkipRefines DEF Verdicts!Next
<1>2. ASSUME NEW c \in Checks, StartCheck(c) PROVE Verdicts!Next
  BY <1>2, StartRefines DEF Verdicts!Next
<1>3. ASSUME NEW c \in Checks, StartFails(c) PROVE Verdicts!Next
  <2>1. pc # "done"
    BY <1>3 DEF StartFails, AtCheck
  <2> QED BY <1>3, <2>1, StopRefines DEF StartFails, Verdicts!Next
<1>4. ASSUME Interrupt PROVE Verdicts!Next
  BY <1>4, StopRefines DEF Interrupt, Verdicts!Next
<1>5. ASSUME UNCHANGED <<config, completed, exit>>,
             \A c \in Checks : thread'[c] = "none" <=> thread[c] = "none"
      PROVE  UNCHANGED Verdicts!vars
  BY <1>5, VerdictsStay DEF config, Verdicts!vars
<1>6. CASE FinishEvaluation
  <2>1. CASE Stop(ExitFailure)
    <3>1. pc # "done"
      BY <1>6 DEF FinishEvaluation
    <3> QED BY <1>6, <2>1, <3>1, StopRefines DEF FinishEvaluation, Verdicts!Next
  <2>2. CASE UNCHANGED exit
    BY <1>5, <1>6, <2>2 DEF FinishEvaluation, threads
  <2> QED BY <1>6, <2>1, <2>2 DEF FinishEvaluation
<1>7. ASSUME NEW c \in Checks, PostponeCheck(c) PROVE UNCHANGED Verdicts!vars
  BY <1>5, <1>7 DEF PostponeCheck, threads
<1>8. CASE Rescan \/ AwaitResult
  BY <1>5, <1>8 DEF Rescan, AwaitResult, threads
<1>9. ASSUME NEW c \in Checks, ThreadStep(c) PROVE UNCHANGED Verdicts!vars
  <2>1. UNCHANGED <<config, completed, exit>>
    BY <1>9 DEF ThreadStep, RunAttempt, PostResult, PostInvalid, Put
  <2>2. thread' = thread \/ (thread[c] = "running" /\ thread' = [thread EXCEPT ![c] = "ended"])
    BY <1>9 DEF ThreadStep, RunAttempt, PostResult, PostInvalid, Put
  <2>3. \A d \in Checks : thread'[d] = "none" <=> thread[d] = "none"
    BY <2>2 DEF IInv, TypeOK
  <2> QED BY <1>5, <2>1, <2>3
<1>10. CASE UNCHANGED vars
  BY <1>5, <1>10 DEF vars, threads
<1> QED
  BY <1>1, <1>2, <1>3, <1>4, <1>6, <1>7, <1>8, <1>9, <1>10, ReceiveRefines, EmitRefines
  DEF Next, MainStep

\* The threads, the queue, the passes and the retries implement the promise of
\* HealthVerdicts.
THEOREM Refinement == Spec => ImplementsVerdicts
<1>1. Init => Verdicts!Init
  BY InitRefines
<1>2. IInv /\ IInv' /\ [Next]_vars => [Verdicts!Next]_Verdicts!vars
  BY StepRefines
<1> QED BY <1>1, <1>2, Invariance, PTL DEF Spec, ImplementsVerdicts, Verdicts!Spec

===============================================================================
