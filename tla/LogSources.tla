------------------------------ MODULE LogSources ------------------------------
(***************************************************************************)
(* analyze_sources, open_target and main of LogHound                       *)
(* (opsforge/loghound/loghound.py): FILE, FILE.1, ... are opened in this   *)
(* order, and then read in it, while a log rotation renames them and the   *)
(* open files are written and truncated.                                   *)
(*                                                                         *)
(* Files are numbered in the order in which they were created, so that the *)
(* file after f is the log that went on where f ended.  How a file is read *)
(* is LogLines; here a source is its bytes and what became of them.        *)
(***************************************************************************)
EXTENDS Integers, Sequences, FiniteSets, Functions

CONSTANTS
  Rotated,       \* how many rotations were asked for
  MaxRotations,  \* bound: rotations that happen
  MaxWrites,     \* bound: times the size of a file changes
  MaxMinutes     \* minute buckets that are kept

LogSourcesAssumption == Rotated \in Nat /\ MaxRotations \in Nat /\ MaxMinutes \in Nat

ExitOK == 0
ExitFinding == 1
ExitUsage == 2
ExitFailure == 3
ExitInterrupted == 130

VARIABLES
  names,        \* file that FILE.k is now, or 0
  newest,       \* the file that was created last
  moving,       \* the next name the rotation under way renames, or -1
  size,         \* bytes of each file
  writes,       \* how often a size changed
  pc,           \* where the tool is
  index,        \* the next name to open, or source to read
  sources,      \* files opened for reading, with the boundary of each
  unavailable,  \* names and sources that were given up
  results,      \* what the sources read so far gave
  turns,        \* history: rotations of FILE while the later names were opened
  exit          \* the exit code, or -1

world == <<names, newest, moving, size, writes>>
vars == <<world, pc, index, sources, unavailable, results, turns, exit>>

Oldest == Rotated + 1
Names == 0..Oldest
Files == 1..(Oldest + 1 + MaxRotations)
Minutes == 1..(MaxMinutes + 1)

Init ==
  /\ names = [k \in Names |-> Oldest + 1 - k]
  /\ newest = Oldest + 1
  /\ moving = -1
  /\ size = [f \in Files |-> 1]
  /\ writes = 0
  /\ pc = "open"
  /\ index = 0
  /\ sources = << >> /\ unavailable = {} /\ results = << >>
  /\ turns = 0
  /\ exit = -1

-------------------------------------------------------------------------------
(* The rotation renames from the oldest name to FILE, then creates FILE.   *)
(* Names are not looked at once all are open: renaming stops to matter.    *)

RotationStarts ==
  /\ moving = -1 /\ newest < Oldest + 1 + MaxRotations
  /\ moving' = Oldest - 1
  /\ UNCHANGED <<names, newest, turns>>

Rename ==
  /\ moving >= 0
  /\ names' = [names EXCEPT ![moving + 1] = names[moving], ![moving] = 0]
  /\ moving' = moving - 1
  /\ turns' = IF moving = 0 THEN turns + 1 ELSE turns
  /\ UNCHANGED newest

CreateLog ==
  /\ moving = -1 /\ names[0] = 0
  /\ newest' = newest + 1
  /\ names' = [names EXCEPT ![0] = newest + 1]
  /\ UNCHANGED <<moving, turns>>

Rotation ==
  /\ pc = "open"
  /\ (RotationStarts /\ names[0] # 0) \/ Rename \/ CreateLog
  /\ UNCHANGED <<size, writes, pc, index, sources, unavailable, results, exit>>

\* A file grows, or is truncated.
SizeChanges ==
  /\ pc # "done" /\ writes < MaxWrites
  /\ \E f \in Files, s \in 0..2 : s # size[f] /\ size' = [size EXCEPT ![f] = s]
  /\ writes' = writes + 1
  /\ UNCHANGED <<names, newest, moving, pc, index, sources, unavailable, results, turns, exit>>

-------------------------------------------------------------------------------
(* Opening every source before any is read.                                *)

Done(code) == pc' = "done" /\ exit' = code

NextName ==
  /\ index' = IF index = Rotated THEN 1 ELSE index + 1
  /\ pc' = IF index = Rotated THEN "read" ELSE "open"

\* A name that cannot be opened is fatal for FILE only.
GiveUpName(code) ==
  IF index = 0
  THEN Done(code) /\ UNCHANGED <<index, unavailable>>
  ELSE NextName /\ unavailable' = unavailable \union {<<"name", index>>} /\ UNCHANGED exit

\* A missing name is an invalid target, another error a failed observation;
\* so is a name that is no regular file, or one that is too large, invalid.
OpenFails ==
  /\ pc = "open"
  /\ \/ GiveUpName(ExitUsage)
     \/ names[index] # 0 /\ GiveUpName(ExitFailure)
  /\ UNCHANGED <<world, sources, results, turns>>

\* Mutant: the identity is compared with the source before only.
SeenJustBefore(file) == sources # << >> /\ sources[Len(sources)].file = file

\* Mutant: the identity is not compared.
SeenNever(file) == FALSE

Seen(file) == \E i \in DOMAIN sources : sources[i].file = file

OpenSource ==
  /\ pc = "open" /\ names[index] # 0
  /\ NextName
  /\ IF Seen(names[index])
     THEN unavailable' = unavailable \union {<<"name", index>>} /\ UNCHANGED sources
     ELSE /\ sources' = Append(sources, [file |-> names[index], boundary |-> size[names[index]]])
          /\ UNCHANGED unavailable
  /\ turns' = IF index = 0 THEN 0 ELSE turns
  /\ UNCHANGED <<world, results, exit>>

-------------------------------------------------------------------------------
(* Reading them.                                                           *)

NextSource ==
  /\ index' = index + 1
  /\ pc' = IF index = Len(sources) THEN "report" ELSE "read"

GiveUpSource(code) ==
  IF index = 1
  THEN Done(code) /\ UNCHANGED <<index, unavailable>>
  ELSE NextSource /\ unavailable' = unavailable \union {<<"source", index>>} /\ UNCHANGED exit

\* The content is compressed, or nothing was recorded when the read failed.
ReadFails ==
  /\ pc = "read" /\ sources[index].boundary > 0
  /\ GiveUpSource(ExitUsage) \/ GiveUpSource(ExitFailure)
  /\ UNCHANGED <<world, sources, results, turns>>

\* A read ends early at an error or at the end of a file that was truncated.
\* limited is any loss that observe_descriptor warns of, its own histogram
\* being full included.
ReadSource ==
  /\ pc = "read"
  /\ LET s == sources[index]
     IN \E consumed \in 0..s.boundary, limited \in BOOLEAN, minutes \in SUBSET Minutes :
          /\ consumed <= size[s.file]
          /\ consumed = 0 => s.boundary = 0 /\ ~limited /\ minutes = {}
          /\ Cardinality(minutes) <= MaxMinutes
          /\ results' = Append(results,
               [file |-> s.file, lost |-> consumed < s.boundary, limited |-> limited, minutes |-> minutes])
  /\ NextSource
  /\ UNCHANGED <<world, sources, unavailable, turns, exit>>

-------------------------------------------------------------------------------
(* The report.                                                             *)

AllMinutes == UNION {results[i].minutes : i \in DOMAIN results}
HistogramFull == Cardinality(AllMinutes) > MaxMinutes

Warned ==
  \/ \E i \in DOMAIN results : results[i].lost \/ results[i].limited
  \/ unavailable # {}
  \/ HistogramFull

\* An output failure is a failure, whatever was observed.
Report ==
  /\ pc = "report"
  /\ \/ Done(IF Warned THEN ExitFinding ELSE ExitOK)
     \/ Done(ExitFailure)
  /\ UNCHANGED <<world, index, sources, unavailable, results, turns>>

Interrupt ==
  /\ pc # "done"
  /\ Done(ExitInterrupted)
  /\ UNCHANGED <<world, index, sources, unavailable, results, turns>>

ToolStep == OpenFails \/ OpenSource \/ ReadFails \/ ReadSource \/ Report

Next == Rotation \/ SizeChanges \/ ToolStep \/ Interrupt

\* Opening and reading local regular files does not block.
Spec == Init /\ [][Next]_vars /\ WF_vars(ToolStep)

-------------------------------------------------------------------------------
(* The view of ObserverContract: what was asked for are Rotated + 1 files, *)
(* each to its boundary and without limits, of which FILE is required.     *)

ReadWhole(f) == \E i \in DOMAIN results :
  results[i].file = f /\ ~results[i].lost /\ ~results[i].limited

Gap ==
  \/ Cardinality({f \in Files : ReadWhole(f)}) < Rotated + 1
  \/ HistogramFull

Useful == results # << >> /\ results[1].file = sources[1].file

-------------------------------------------------------------------------------
(* Properties.                                                             *)

\* However a rotation renames files while the names are opened, no file is
\* read twice: its lines would be counted twice under two line numbers.
NoFileTwice == IsInjective([i \in DOMAIN results |-> results[i].file])

\* A report without a warning is about consecutive logs, from the one that
\* FILE was when it was opened backwards, unless FILE was rotated twice while
\* the names were opened: a single rotation always shows, as a missing name
\* or as a name of a file that is open already.
CompleteIsContiguous ==
  exit = ExitOK /\ turns < 2 =>
    /\ Len(results) = Rotated + 1
    /\ \A i \in DOMAIN results : results[i].file = results[1].file - (i - 1)
===============================================================================
