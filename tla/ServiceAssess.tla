---------------------------- MODULE ServiceAssess -----------------------------
(***************************************************************************)
(* collect_service, assess_service, report and main of SvcDoctor           *)
(* (opsforge/svcdoctor/svcdoctor.py): systemctl show, then systemctl       *)
(* is-failed for the dependencies, then journalctl, then systemctl show    *)
(* for the slices, while the unit and its dependencies change state.       *)
(*                                                                         *)
(* A line of the journal is <<entry, k>>: line k of an entry; journalctl   *)
(* indents all but the first, which is how the tool tells entries apart.   *)
(* One of the four limits is modelled; the tool treats all of them alike.  *)
(***************************************************************************)
EXTENDS ExitStatus, Sequences, FiniteSetsExt

CONSTANTS
  UnitStates,       \* records [load, active, sub, result] of the unit
  Fields,           \* the dependencies that the properties name, in order
  DepStates,        \* what a dependency may be
  MaxDependencies,  \* MAX_DEPENDENCIES
  LevelChoices,     \* amounts of a limit at the unit and its slices, nearest first
  Journals,         \* numbers of lines of the journal's entries, oldest first
  LineCounts,       \* --journal-lines
  MaxUnitChanges    \* bound: changes of the unit and its dependencies

Infinity == 1000
Garbled == 1001     \* an amount that cannot be parsed

ServiceAssumption ==
  /\ MaxDependencies \in Nat \ {0}
  /\ Fields \in Seq(Range(Fields))
  /\ \A l \in LevelChoices : l # << >> /\ \A i \in DOMAIN l : l[i] \in Nat
  /\ LineCounts \subseteq Nat /\ Journals \subseteq Seq(Nat \ {0})

Names == Range(Fields)

VARIABLES
  unit,        \* the state of the unit
  deps,        \* dependency -> its state
  changes,     \* how often anything changed
  seen,        \* history: the states the unit was in
  failing,     \* history: for every moment, the dependencies that were failed
  written,     \* the journal's entries
  lines,       \* --journal-lines
  pc,          \* where the tool is
  shown,       \* the properties: [state, lost], lost being what systemctl left out
  failed,      \* the failed dependencies, or {"unknown"}
  journal,     \* the lines shown
  limit,       \* [value, source] of the limit; source 0 is no level, -1 an unavailable limit
  cautions,    \* the sections with a warning
  verdict,
  exit

world == <<unit, deps, changes, seen, failing>>
given == <<written, lines>>
evidence == <<shown, failed, journal, limit, cautions>>
vars == <<world, given, pc, evidence, verdict, exit>>

Unknown == {"unknown"}
FailedAmong(ds) == {n \in DOMAIN ds : ds[n] = "failed"}
NoLimit == [value |-> Infinity, source |-> 0]
UnavailableLimit == [value |-> Infinity, source |-> -1]

Init ==
  /\ unit \in UnitStates /\ deps \in [Names -> DepStates]
  /\ changes = 0 /\ seen = {unit} /\ failing = {FailedAmong(deps)}
  /\ written \in Journals /\ lines \in LineCounts
  /\ pc = "show"
  /\ shown = [state |-> unit, lost |-> {}] /\ failed = {} /\ journal = << >> /\ limit = NoLimit
  /\ cautions = {}
  /\ verdict = "none" /\ exit = -1

\* systemd starts and stops units.
UnitChanges ==
  /\ pc \notin {"assess", "report", "done"} /\ changes < MaxUnitChanges
  /\ changes' = changes + 1
  /\ \/ \E u \in UnitStates \ {unit} : unit' = u /\ UNCHANGED deps
     \/ \E n \in Names, d \in DepStates : d # deps[n] /\ deps' = [deps EXCEPT ![n] = d] /\ UNCHANGED unit
  /\ seen' = seen \union {unit'}
  /\ failing' = failing \union {FailedAmong(deps')}
  /\ UNCHANGED <<given, pc, evidence, verdict, exit>>

-------------------------------------------------------------------------------
Done(code) == pc' = "done" /\ exit' = code

\* run_systemctl and validate_properties: the query works and says enough.
\* systemd need not know the state of a unit that it did not find.
Show ==
  /\ pc = "show"
  /\ \E lost \in SUBSET {"ActiveState", "dependencies", "Slice"} :
       LET known == "ActiveState" \notin lost
           absent == unit.load = "not-found" /\ (known => unit.active = "inactive")
       IN /\ shown' = [state |-> unit, lost |-> lost]
          /\ CASE absent -> Done(ExitUsage)
               [] ~absent /\ ~known -> Done(ExitFailure)
               [] OTHER -> pc' = "dependencies" /\ UNCHANGED exit
  /\ UNCHANGED <<world, given, failed, journal, limit, cautions, verdict>>

\* systemctl fails: only a rejected target is the fault of the invocation.
ShowFails ==
  /\ pc = "show"
  /\ Done(ExitFailure) \/ Done(ExitUsage)
  /\ UNCHANGED <<world, given, evidence, verdict>>

\* Mutant: the truncation is forgotten.
TruncatedNever == FALSE

Truncated == Len(Fields) > MaxDependencies
Checked == SubSeq(Fields, 1, Min({Len(Fields), MaxDependencies}))

\* find_failed_dependencies: one line for each dependency, or nothing at all.
QueryDependencies ==
  /\ pc = "dependencies"
  /\ pc' = "journal"
  /\ \/ /\ "dependencies" \notin shown.lost
        /\ failed' = FailedAmong(deps) \intersect Range(Checked)
        /\ UNCHANGED cautions
     \/ failed' = Unknown /\ cautions' = cautions \union {"dependencies"}
  /\ UNCHANGED <<world, given, shown, journal, limit, verdict, exit>>

\* journalctl --reverse: the newest entry first, each with its lines in order.
Entry(e) == [k \in 1..written[e] |-> <<e, k>>]
Reversed ==
  LET newest[e \in 0..Len(written)] == IF e = 0 THEN << >> ELSE Entry(e) \o newest[e - 1]
  IN newest[Len(written)]

\* Mutant: line by line instead of entry by entry.
LinesReversed(newest) == [n \in DOMAIN newest |-> newest[Len(newest) + 1 - n]]

\* Whole entries are turned round: a line that is indented goes on with the
\* entry before it, another starts one, which is older than those so far.
Chronological(newest) ==
  LET turned[n \in 0..Len(newest)] ==
        IF n = 0 THEN [entry |-> << >>, later |-> << >>]
        ELSE LET t == turned[n - 1]
             IN IF t.entry # << >> /\ newest[n][2] > 1
                THEN [entry |-> Append(t.entry, newest[n]), later |-> t.later]
                ELSE [entry |-> <<newest[n]>>, later |-> t.entry \o t.later]
  IN turned[Len(newest)].entry \o turned[Len(newest)].later

\* collect_journal: with a cut, the last line is not to be trusted.
CollectJournal ==
  /\ pc = "journal"
  /\ pc' = "limits"
  /\ \/ lines = 0 /\ UNCHANGED <<journal, cautions>>
     \/ /\ lines > 0
        /\ \E got \in 0..Len(Reversed) :
             LET newest == SubSeq(Reversed, 1, Min({got, lines}))
             IN /\ journal' = Chronological(newest)
                /\ cautions' = IF got < Len(Reversed) /\ Len(newest) < lines
                               THEN cautions \union {"journal"} ELSE cautions
     \/ lines > 0 /\ journal' = << >> /\ cautions' = cautions \union {"journal"}
  /\ UNCHANGED <<world, given, shown, failed, limit, verdict, exit>>

\* effective_limits: the tightest level, the nearest of several.
Effective(amounts) ==
  LET finite == {i \in DOMAIN amounts : amounts[i] < Infinity}
      tightest == Min({amounts[i] : i \in finite})
  IN IF \E i \in DOMAIN amounts : amounts[i] = Garbled THEN UnavailableLimit
     ELSE IF finite = {} THEN NoLimit
     ELSE [value |-> tightest, source |-> Min({i \in finite : amounts[i] = tightest})]

\* collect_limits: a chain of slices that cannot be had leaves no limit at all.
CollectLimits ==
  /\ pc = "limits"
  /\ pc' = "assess"
  /\ \/ /\ "Slice" \notin shown.lost
        /\ \E levels \in LevelChoices : limit' = Effective(levels)
        /\ cautions' = IF limit' = UnavailableLimit THEN cautions \union {"limits"} ELSE cautions
     \/ limit' = UnavailableLimit /\ cautions' = cautions \union {"limits"}
  /\ UNCHANGED <<world, given, shown, failed, journal, verdict, exit>>

\* What decides by itself, whatever is known of the dependencies.
Broken(u) ==
  \/ u.active = "failed"
  \/ u.load \in {"bad-setting", "error"}
  \/ u.sub = "auto-restart"
  \/ u.active # "active" /\ u.result # "success"

FailedDependency == shown.state.active # "active" /\ failed \notin {{}, Unknown}
DependencyUnknown == shown.state.active # "active" /\ (failed = Unknown \/ Truncated)

Assess ==
  /\ pc = "assess"
  /\ verdict' = IF Broken(shown.state) \/ FailedDependency THEN "decided"
                ELSE IF DependencyUnknown THEN "incomplete" ELSE "otherwise"
  /\ pc' = "report"
  /\ UNCHANGED <<world, given, evidence, exit>>

Report ==
  /\ pc = "report"
  /\ \/ Done(CASE verdict = "decided" -> ExitFinding [] verdict = "incomplete" -> ExitFailure [] OTHER -> ExitOK)
     \/ Done(ExitFailure)
  /\ UNCHANGED <<world, given, evidence, verdict>>

Interrupt ==
  /\ pc # "done"
  /\ Done(ExitInterrupted)
  /\ UNCHANGED <<world, given, evidence, verdict>>

ToolStep == Show \/ ShowFails \/ QueryDependencies \/ CollectJournal \/ CollectLimits \/ Assess \/ Report

Next == UnitChanges \/ ToolStep \/ Interrupt

-------------------------------------------------------------------------------
(* The view of VerdictContract: a failure decides; what is not known of    *)
(* the dependencies of a unit that is not active leaves the answer open.   *)

Assessable == pc \in {"assess", "report"} \/ verdict # "none"
Decisive == Assessable /\ (Broken(shown.state) \/ FailedDependency)
Gap == Assessable /\ DependencyUnknown

\* Exit 0 is earned: in some state the unit was seen in during the run nothing
\* was wrong with it, and it was active or there was a moment at which none of
\* its dependencies was failed, those beyond the limit included; exit 1 says
\* that the unit was broken, or that it was not active and a dependency failed.
VerdictIsEstablished ==
  /\ verdict = "otherwise" => \E u \in seen : ~Broken(u) /\ (u.active = "active" \/ {} \in failing)
  /\ verdict = "decided" => \E u \in seen : Broken(u) \/ (u.active # "active" /\ failing # {{}})

\* The journal that is shown is the end of the journal, in order: no entry is
\* torn out of it, only its oldest entry may lack its last lines, and without
\* a warning there are as many lines as were asked for, or all of them.
JournalIsTheEnd ==
  /\ \A i, j \in DOMAIN journal : i < j =>
       journal[i][1] < journal[j][1] \/ (journal[i][1] = journal[j][1] /\ journal[i][2] < journal[j][2])
  /\ \A i \in DOMAIN journal :
       /\ \A k \in 1..journal[i][2] : <<journal[i][1], k>> \in Range(journal)
       /\ \A e \in DOMAIN written : e > journal[i][1] => Range(Entry(e)) \subseteq Range(journal)
  /\ pc \notin {"show", "dependencies", "journal", "done"} /\ "journal" \notin cautions =>
       Len(journal) = Min({lines, Len(Reversed)})
===============================================================================
