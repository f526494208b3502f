--------------------------- MODULE IncidentSections ---------------------------
(***************************************************************************)
(* collect_snapshot, its collectors and main of Incident Snapshot          *)
(* (opsforge/incidentsnapshot/incidentsnapshot.py): mandatory evidence,    *)
(* then the sections of a profile one after the other, each of which lists *)
(* items and reads them one by one while interfaces and processes go.      *)
(*                                                                         *)
(* An item is an interface, a kernel table, a process, or the one source   *)
(* of a section that is all or nothing.  The states "unavailable" and      *)
(* "error" of a section differ in their wording and are one here.          *)
(***************************************************************************)
EXTENDS Integers, Sequences, FiniteSetsExt

CONSTANTS
  InterfaceNames, Pids,   \* what may be listed, in order
  MaxInterfaces,          \* interfaces that are read
  MaxProcesses,           \* processes that are read
  MaxChurn                \* bound: items that go during the run

ExitOK == 0
ExitFinding == 1
ExitFailure == 3
ExitInterrupted == 130

VARIABLES
  alive,    \* the items that exist
  churn,    \* how many have gone
  profile,  \* the profile asked for
  pc,       \* where the tool is
  todo,     \* sections still to be collected, the current one first
  items,    \* the items of the current section still to be read, in the order of its list
  got,      \* something of the section was read
  gap,      \* something of it could not be read
  status,   \* pairs of a section and its status
  missed,   \* history: sections of which something was there, be it when it was opened, and not read
  exit      \* the exit code, or -1

world == <<alive, churn>>
section == <<items, got, gap>>
vars == <<world, profile, pc, todo, section, status, missed, exit>>

Profiles == {"basic", "network", "process", "full"}

\* The order of collect_snapshot; memory and the filesystem come first.
Sections(p) ==
  <<"memory", "filesystem">>
  \o (IF p = "full" THEN <<"pressure", "inodes">> ELSE << >>)
  \o (IF p \in {"network", "full"} THEN <<"interfaces", "routes", "listeners">> ELSE << >>)
  \o (IF p \in {"process", "full"} THEN <<"processes">> ELSE << >>)
  \o (IF p = "full" THEN <<"services", "kernel">> ELSE << >>)

Sources ==
  [routes |-> <<"route", "ipv6_route">>, listeners |-> <<"tcp", "tcp6", "udp", "udp6">>,
   interfaces |-> InterfaceNames, processes |-> Pids]
TableSections == {"routes", "listeners"}
ListedSections == {"interfaces", "processes"}
IPv6Tables == {"ipv6_route", "tcp6", "udp6"}
AllTables == IPv6Tables \union {"route", "tcp", "udp"}
Interfaces == Range(InterfaceNames)
Processes == Range(Pids)

\* The items of different sections are told apart.
SectionsAssumption ==
  /\ InterfaceNames \in Seq(Interfaces) /\ Pids \in Seq(Processes)
  /\ Interfaces \intersect AllTables = {} /\ Processes \intersect AllTables = {}
  /\ MaxInterfaces \in Nat /\ MaxProcesses \in Nat /\ MaxChurn \in Nat

\* A kernel without IPv6 has none of its tables.
Init ==
  /\ alive \in {Interfaces \union Processes \union AllTables,
                Interfaces \union Processes \union (AllTables \ IPv6Tables)}
  /\ churn = 0
  /\ profile \in Profiles
  /\ pc = "mandatory"
  /\ todo = Sections(profile)
  /\ items = {} /\ got = FALSE /\ gap = FALSE
  /\ status = {} /\ missed = {}
  /\ exit = -1

\* An interface is removed, or a process exits.
Goes ==
  /\ pc # "done" /\ churn < MaxChurn
  /\ \E i \in alive \intersect (Interfaces \union Processes) : alive' = alive \ {i}
  /\ churn' = churn + 1
  /\ UNCHANGED <<profile, pc, todo, section, status, missed, exit>>

-------------------------------------------------------------------------------
Done(code) == pc' = "done" /\ exit' = code

\* collect_platform, collect_runtime: without them there is no snapshot.
CollectMandatory ==
  /\ pc = "mandatory"
  /\ \/ pc' = "section" /\ UNCHANGED exit
     \/ Done(ExitFailure)
  /\ UNCHANGED <<world, profile, todo, section, status, missed>>

Current == Head(todo)

CloseSection(s) ==
  /\ status' = status \union {<<Current, s>>}
  /\ todo' = Tail(todo)
  /\ pc' = "section"

\* A collector that fails loses its section only; an exception that no
\* collector foresees does so too, but for memory and the filesystem.
SectionFails ==
  /\ pc = "section" /\ todo # << >>
  /\ \/ CloseSection("unavailable") /\ UNCHANGED exit
     \/ Current \in {"memory", "filesystem"} /\ Done(ExitFailure) /\ UNCHANGED <<status, todo>>
  /\ missed' = missed \union {Current}
  /\ UNCHANGED <<world, profile, section>>

\* A section of one source, which is read as a whole.
CollectSource ==
  /\ pc = "section" /\ todo # << >> /\ Current \notin TableSections \union ListedSections
  /\ CloseSection("observed")
  /\ UNCHANGED <<world, profile, section, missed, exit>>

There == Range(Sources[Current]) \intersect alive
Place(i) == Min({k \in DOMAIN Sources[Current] : Sources[Current][k] = i})

BeginItems(chosen) ==
  /\ pc' = "items"
  /\ items' = chosen
  /\ got' = FALSE
  /\ UNCHANGED <<world, profile, todo, status, exit>>

\* The first of the sorted names; those beyond the limit are counted in
\* total_seen, which is evidence and no gap.
ListInterfaces ==
  /\ pc = "section" /\ todo # << >> /\ Current = "interfaces"
  /\ BeginItems({i \in There :
       Cardinality({k \in 1..Place(i) : InterfaceNames[k] \in alive}) <= MaxInterfaces})
  /\ gap' = FALSE /\ UNCHANGED missed

\* _parse_tables: the tables are known by name, be they there or not.
ListTables ==
  /\ pc = "section" /\ todo # << >> /\ Current \in TableSections
  /\ BeginItems(Range(Sources[Current]))
  /\ gap' = FALSE /\ UNCHANGED missed

\* The first processes of the directory, in any order; one beyond the limit
\* may belong in the ranking and is a gap.
ListProcesses ==
  /\ pc = "section" /\ todo # << >> /\ Current = "processes"
  /\ \E chosen \in kSubset(IF Cardinality(There) > MaxProcesses THEN MaxProcesses ELSE Cardinality(There), There) :
       BeginItems(chosen)
  /\ gap' = (Cardinality(There) > MaxProcesses)
  /\ missed' = IF gap' THEN missed \union {Current} ELSE missed

Item == Sources[Current][Min({k \in DOMAIN Sources[Current] : Sources[Current][k] \in items})]

\* Mutant: an interface that has gone counts as unreadable.
MayBeAbsentUnlessInterface(i) == i \in Processes \union IPv6Tables

\* What has gone since it was listed is no gap, nor is IPv6 that is not there.
MayBeAbsent(i) == i \in Interfaces \union Processes \union IPv6Tables

Observed == Item \in alive /\ got' = TRUE /\ UNCHANGED <<gap, missed>>
Lost == gap' = TRUE /\ missed' = missed \union {Current} /\ UNCHANGED got
Unreadable == Item \in alive /\ Lost
Vanished == Item \notin alive /\ gap' = (gap \/ ~MayBeAbsent(Item)) /\ UNCHANGED <<got, missed>>

Reading(sections) ==
  /\ pc = "items" /\ items # {} /\ Current \in sections
  /\ items' = items \ {Item}
  /\ UNCHANGED <<world, profile, pc, todo, status, exit>>

\* The file of the state or of the MTU of an interface: one stands for both.
OpenInterface ==
  /\ pc = "items" /\ items # {} /\ Current = "interfaces" /\ Item \in alive
  /\ pc' = "opened"
  /\ UNCHANGED <<world, profile, todo, section, status, missed, exit>>

InterfaceNotOpened == Reading({"interfaces"}) /\ (Unreadable \/ Vanished)

\* A file that was open when its interface went cannot be read, which is a gap;
\* one that was still to be opened has gone, which is none.
ReadInterface ==
  /\ pc = "opened" /\ pc' = "items"
  /\ items' = items \ {Item}
  /\ Observed \/ Lost \/ Vanished
  /\ UNCHANGED <<world, profile, todo, status, exit>>

\* A table beyond the read limit is examined up to it, and that is a gap too.
TableIsCut == Item \in alive /\ got' = TRUE /\ gap' = TRUE /\ missed' = missed \union {Current}

ReadTable == Reading(TableSections) /\ (Observed \/ TableIsCut \/ Unreadable \/ Vanished)

\* The stat file of a process.
ReadProcess == Reading({"processes"}) /\ (Observed \/ Unreadable \/ Vanished)

\* Mutant: a gap shows only if nothing was read.
EndSectionGenerously ==
  /\ pc = "items" /\ items = {}
  /\ CloseSection(IF gap /\ ~got THEN "unavailable" ELSE "observed")
  /\ UNCHANGED <<world, profile, section, missed, exit>>

\* Tables none of which was examined make no section.
EndSection ==
  /\ pc = "items" /\ items = {}
  /\ CloseSection(IF Current \in TableSections /\ ~got THEN "unavailable"
                  ELSE IF gap THEN "partial" ELSE "observed")
  /\ UNCHANGED <<world, profile, section, missed, exit>>

\* snapshot_exit_code and main; a failure of the clock or the output is one of the run.
Complete == \A s \in status : s[2] = "observed"

Report ==
  /\ pc = "section" /\ todo = << >>
  /\ \/ Done(IF Complete THEN ExitOK ELSE ExitFinding)
     \/ Done(ExitFailure)
  /\ UNCHANGED <<world, profile, todo, section, status, missed>>

Interrupt ==
  /\ pc # "done"
  /\ Done(ExitInterrupted)
  /\ UNCHANGED <<world, profile, todo, section, status, missed>>

ToolStep ==
  \/ CollectMandatory \/ SectionFails \/ CollectSource
  \/ ListInterfaces \/ ListTables \/ ListProcesses
  \/ OpenInterface \/ InterfaceNotOpened \/ ReadInterface \/ ReadTable \/ ReadProcess \/ EndSection \/ Report

Next == Goes \/ ToolStep \/ Interrupt

\* Reads are bounded, and systemctl runs as a bounded child.
Spec == Init /\ [][Next]_vars /\ WF_vars(ToolStep)

-------------------------------------------------------------------------------
(* The view of ObserverContract.                                           *)

Gap == missed # {} \/ {s[1] : s \in status} # Range(Sections(profile))
Useful == pc # "mandatory"

-------------------------------------------------------------------------------
(* Properties.                                                             *)

\* A snapshot is partial only if something that was there was not read: what
\* goes between the listing and its turn, and an IPv6 that the kernel lacks,
\* never makes it so; an interface that goes when its file is open may.  It has one status for each section of its profile,
\* whatever became of those before it.
PartialMeansGap ==
  exit \in {ExitOK, ExitFinding} =>
    /\ {s[1] : s \in status} = Range(Sections(profile))
    /\ Cardinality(status) = Len(Sections(profile))
    /\ {s[1] : s \in {x \in status : x[2] # "observed"}} = missed
===============================================================================
