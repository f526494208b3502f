------------------------------- MODULE FilePair -------------------------------
(***************************************************************************)
(* read_file_pair, compare_files_mode and main of ConfigDiff               *)
(* (opsforge/configdiff/configdiff.py): two files are opened, read and     *)
(* checked for changes while they are written, truncated, replaced and     *)
(* given other permissions.                                                *)
(*                                                                         *)
(* A symbol of a file is a piece of it: "w" is insignificant (whitespace,  *)
(* a comment) and "!" cannot be parsed.  The stamp of a file is its times: *)
(* every change of a file gives it new ones.                               *)
(***************************************************************************)
EXTENDS ExitStatus, Sequences, Functions

CONSTANTS
  Contents,  \* what a file may contain: sequences of symbols
  Modes,     \* the comparison modes that are asked for
  MaxWrites  \* bound: changes of the files

\* They are finite sequences.
FilePairAssumption == \A c \in Contents : c \in Seq(UNION {Range(d) : d \in Contents})

Sides == {"baseline", "current"}
Inodes == 1..3

VARIABLES
  files,      \* inode -> [data, attr, stamp]
  names,      \* side -> inode, or 0
  writes,     \* how often something changed
  past,       \* history: what the files were, at any time
  mode,       \* exact, normalized, json or metadata
  strict,     \* --permissions
  pc,         \* where the tool is
  side,       \* the file it is at
  inspected,  \* the inode that lstat saw
  opened,     \* side -> the inode, or 0, and its metadata when it was opened
  data,       \* side -> what was read
  verdict,
  exit

world == <<files, names, writes, past>>
options == <<mode, strict>>
vars == <<world, options, pc, side, inspected, opened, data, verdict, exit>>

NotOpened == [inode |-> 0, meta |-> [data |-> << >>, attr |-> 0, stamp |-> 0]]

Init ==
  /\ \E a, b \in Contents :
       files = [i \in Inodes |-> [data |-> <<a, b, a>>[i], attr |-> 0, stamp |-> 0]]
  /\ names = [s \in Sides |-> IF s = "baseline" THEN 1 ELSE 2]
  /\ writes = 0 /\ past = {files}
  /\ mode \in Modes /\ strict \in BOOLEAN
  /\ pc = "stat" /\ side = "baseline" /\ inspected = 0
  /\ opened = [s \in Sides |-> NotOpened] /\ data = [s \in Sides |-> << >>]
  /\ verdict = "none" /\ exit = -1

-------------------------------------------------------------------------------
(* The files change.                                                       *)

Written(i) == \E d \in Contents : d # files[i].data /\ files' = [files EXCEPT ![i].data = d, ![i].stamp = @ + 1]
Chmod(i) == files' = [files EXCEPT ![i].attr = 1 - @, ![i].stamp = @ + 1]

FileChanges ==
  /\ pc \notin {"compare", "report", "done"} /\ writes < MaxWrites
  /\ writes' = writes + 1
  /\ \/ \E i \in Range(names) \ {0} : (Written(i) \/ Chmod(i)) /\ UNCHANGED names
     \/ \E s \in Sides, i \in {0, 3} :   \* removed, or replaced by another
          names[s] # i /\ names' = [names EXCEPT ![s] = i] /\ UNCHANGED files
  /\ past' = past \union {files'}
  /\ UNCHANGED <<options, pc, side, inspected, opened, data, verdict, exit>>

-------------------------------------------------------------------------------
Done(code) == pc' = "done" /\ exit' = code

\* Mutant: the second file is only opened when the first has been verified.
FollowingInTurn ==
  CASE pc = "open" -> <<"read", side>>
    [] pc = "read" -> <<"verify", side>>
    [] pc = "verify" /\ side = "baseline" -> <<"stat", "current">>
    [] OTHER -> <<"compare", "current">>

\* Both files are opened, then both are read, then both are verified.
Following ==
  CASE pc = "open" /\ side = "baseline" -> <<"stat", "current">>
    [] pc = "open" /\ side = "current" -> <<"read", "baseline">>
    [] pc = "read" /\ side = "baseline" -> <<"read", "current">>
    [] pc = "read" /\ side = "current" -> <<"verify", "baseline">>
    [] pc = "verify" /\ side = "baseline" -> <<"verify", "current">>
    [] OTHER -> <<"compare", "current">>
GoOn == pc' = Following[1] /\ side' = Following[2] /\ UNCHANGED exit

StatFile ==
  /\ pc = "stat"
  /\ \/ names[side] # 0 /\ inspected' = names[side] /\ pc' = "open" /\ UNCHANGED exit
     \/ Done(ExitUsage) /\ UNCHANGED inspected   \* missing, or not a regular file
  /\ UNCHANGED <<world, options, side, opened, data, verdict>>

\* The open file must be the one that was inspected.
OpenFile ==
  /\ pc = "open"
  /\ \/ /\ names[side] = inspected
        /\ opened' = [opened EXCEPT ![side] = [inode |-> inspected, meta |-> files[inspected]]]
        /\ GoOn
     \/ Done(ExitUsage) /\ UNCHANGED <<side, opened>>   \* not a regular file, too large, refused
     \/ names[side] # 0 /\ Done(ExitFailure) /\ UNCHANGED <<side, opened>>
  /\ UNCHANGED <<world, options, inspected, data, verdict>>

Now == files[opened[side].inode]
Size == Len(opened[side].meta.data)

\* Mutant: a read that returns nothing is tried again.
ReadOn ==
  /\ pc = "read" /\ Len(data[side]) < Size
  /\ LET pos == Len(data[side])
     IN IF Len(Now.data) <= pos THEN UNCHANGED data
        ELSE data' = [data EXCEPT ![side] = @ \o SubSeq(Now.data, pos + 1, pos + 1)]
  /\ UNCHANGED <<world, options, pc, side, inspected, opened, verdict, exit>>

\* A read of up to as much as the file had; it may be cut short by another write.
ReadPart ==
  /\ pc = "read" /\ Len(data[side]) < Size
  /\ LET pos == Len(data[side])
     IN IF Len(Now.data) <= pos
        THEN Done(ExitFailure) /\ UNCHANGED data
        ELSE \/ /\ \E n \in 1..(Size - pos) :
                     /\ pos + n <= Len(Now.data)
                     /\ data' = [data EXCEPT ![side] = @ \o SubSeq(Now.data, pos + 1, pos + n)]
                /\ UNCHANGED <<pc, exit>>
             \/ Done(ExitFailure) /\ UNCHANGED data
  /\ UNCHANGED <<world, options, side, inspected, opened, verdict>>

\* One more byte is asked for, which must not be there.
FinishRead ==
  /\ pc = "read" /\ Len(data[side]) = Size
  /\ IF Len(Now.data) > Size THEN Done(ExitFailure) /\ UNCHANGED side ELSE GoOn
  /\ UNCHANGED <<world, options, inspected, opened, data, verdict>>

\* metadata_identity: size and times, which stand for everything.
Verify ==
  /\ pc = "verify"
  /\ IF Now.stamp = opened[side].meta.stamp THEN GoOn ELSE Done(ExitFailure) /\ UNCHANGED side
  /\ UNCHANGED <<world, options, inspected, opened, data, verdict>>

Significant(d) == SelectSeq(d, LAMBDA x : x # "w")
Comparable(a, b) == mode # "json" \/ \A x \in Range(a) \union Range(b) : x # "!"
Same(a, b) ==
  CASE mode = "exact" -> a = b
    [] mode = "metadata" -> Len(a) = Len(b)
    [] OTHER -> Significant(a) = Significant(b)

\* Permissions that are asked for, or are what is compared, come from opening.
Drift ==
  \/ ~Same(data["baseline"], data["current"])
  \/ (strict \/ mode = "metadata") /\ opened["baseline"].meta.attr # opened["current"].meta.attr

Compare ==
  /\ pc = "compare"
  /\ \/ /\ Comparable(data["baseline"], data["current"])
        /\ verdict' = IF Drift THEN "decided" ELSE "otherwise"
        /\ pc' = "report"
        /\ UNCHANGED exit
     \/ ~Comparable(data["baseline"], data["current"]) /\ Done(ExitUsage) /\ UNCHANGED verdict
  /\ UNCHANGED <<world, options, side, inspected, opened, data>>

Report ==
  /\ pc = "report"
  /\ Done(IF verdict = "decided" THEN ExitFinding ELSE ExitOK) \/ Done(ExitFailure)
  /\ UNCHANGED <<world, options, side, inspected, opened, data, verdict>>

Interrupt ==
  /\ pc # "done"
  /\ Done(ExitInterrupted)
  /\ UNCHANGED <<world, options, side, inspected, opened, data, verdict>>

ToolStep == StatFile \/ OpenFile \/ ReadPart \/ FinishRead \/ Verify \/ Compare \/ Report

Next == FileChanges \/ ToolStep \/ Interrupt

-------------------------------------------------------------------------------
(* The view of VerdictContract: what the opened files were when the second *)
(* of them was.                                                            *)

BothOpen == \A s \in Sides : opened[s].inode # 0
Decisive ==
  /\ BothOpen
  /\ LET a == opened["baseline"].meta
         b == opened["current"].meta
     IN \/ ~Same(a.data, b.data)
        \/ (strict \/ mode = "metadata") /\ a.attr # b.attr
Gap == FALSE

\* However the files are written while they are read, what is compared is what
\* both files were at one and the same time: no verdict is about a torn file,
\* nor about two contents that were never there together.
PairCoexisted ==
  verdict # "none" =>
    \E p \in past : \A s \in Sides :
      /\ p[opened[s].inode].data = data[s]
      /\ p[opened[s].inode].attr = opened[s].meta.attr
===============================================================================
