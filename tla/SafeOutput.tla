------------------------------ MODULE SafeOutput ------------------------------
(***************************************************************************)
(* emit_output with --output FILE (opsforge/common/output.py): several     *)
(* commands that write the same FILE at the same time, with --force        *)
(* (_replace_atomically) or without (_write_new), each of which may fail,  *)
(* be interrupted or be killed between any two system calls.               *)
(*                                                                         *)
(* Each command creates at most one inode, which is named after it.  An    *)
(* unlink of a name that is there succeeds.                                *)
(***************************************************************************)
EXTENDS Naturals

CONSTANTS
  Writers,      \* the commands
  ForceChoices, \* which of them may be those with --force
  Before,       \* what the name FILE can be before they run
  MaxRelinks    \* how often another program turns FILE into a special one

\* A "special" file is one that is always refused: a symlink, not regular, or
\* with several links.
ASSUME OutputAssumption ==
  /\ ForceChoices \subseteq SUBSET Writers
  /\ Before \subseteq {"absent", "regular", "special"}
  /\ Writers \cap {"absent", "regular", "special"} = {}

VARIABLES
  force,    \* the commands with --force
  out,      \* what the name FILE refers to: a writer's inode or another file
  content,  \* writer -> what of its result its inode holds: none, partial, written, synced
  place,    \* writer -> the name of its inode: none, temporary, FILE, or once FILE
  pc,       \* writer -> where it is
  result,   \* writer -> how it ended, or "none"
  relinks   \* how often FILE was turned into a special file

New == Writers \ force

vars == <<force, out, content, place, pc, result, relinks>>

Init ==
  /\ force \in ForceChoices
  /\ out \in Before
  /\ content = [w \in Writers |-> "none"]
  /\ place = [w \in Writers |-> "none"]
  /\ pc = [w \in Writers |-> "render"]
  /\ result = [w \in Writers |-> "none"]
  /\ relinks = 0

Goes(w, from, to) == pc[w] = from /\ pc' = [pc EXCEPT ![w] = to]
Ends(w, r) == pc' = [pc EXCEPT ![w] = "done"] /\ result' = [result EXCEPT ![w] = r]
FilesKept == UNCHANGED <<out, content, place>>

\* The writers' inodes once the name FILE no longer refers to what it did.
Displaced == [v \in Writers |-> IF out = v THEN "once" ELSE place[v]]

\* _bounded_output refuses a result of more than MAX_OUTPUT_BYTES.
Render(w) ==
  /\ pc[w] = "render"
  /\ \/ Goes(w, "render", IF w \in force THEN "inspect" ELSE "create") /\ UNCHANGED result
     \/ Ends(w, "error")
  /\ FilesKept /\ UNCHANGED relinks

\* lstat and the tests of its result.
Inspect(w) ==
  /\ pc[w] = "inspect"
  /\ \/ out # "special" /\ Goes(w, "inspect", "create") /\ UNCHANGED result
     \/ Ends(w, "error")
  /\ FilesKept /\ UNCHANGED relinks

\* _create_exclusive of the temporary name, or of FILE itself.
Create(w) ==
  /\ pc[w] = "create"
  /\ \/ /\ w \in force
        /\ place' = [place EXCEPT ![w] = "temporary"]
        /\ UNCHANGED out
     \/ /\ w \in New
        /\ out = "absent"
        /\ out' = w
        /\ place' = [place EXCEPT ![w] = "file"]
  /\ content' = [content EXCEPT ![w] = "partial"]
  /\ Goes(w, "create", "opened")
  /\ UNCHANGED <<result, relinks>>

\* FileExistsError or another OSError of os.open.
CreateFails(w) ==
  /\ pc[w] = "create"
  /\ Ends(w, "error")
  /\ FilesKept /\ UNCHANGED relinks

\* The try statement that guards the descriptor is entered.
EnterTry(w) ==
  /\ Goes(w, "opened", "write")
  /\ FilesKept /\ UNCHANGED <<result, relinks>>

\* _write_and_sync writes all of the bytes,
Write(w) ==
  /\ Goes(w, "write", "sync")
  /\ content' = [content EXCEPT ![w] = "written"]
  /\ UNCHANGED <<out, place, result, relinks>>

\* Mutant: and does not sync them.
SyncNever(w) ==
  /\ Goes(w, "sync", "close")
  /\ FilesKept /\ UNCHANGED <<result, relinks>>

\* and syncs them.
Sync(w) ==
  /\ Goes(w, "sync", "close")
  /\ content' = [content EXCEPT ![w] = "synced"]
  /\ UNCHANGED <<out, place, result, relinks>>

\* An OSError of write, or of fsync, which may have synced the file.
WriteFails(w) ==
  /\ \/ Goes(w, "write", "abandon_error") /\ UNCHANGED content
     \/ /\ Goes(w, "sync", "abandon_error")
        /\ content' \in {content, [content EXCEPT ![w] = "synced"]}
  /\ UNCHANGED <<out, place, result, relinks>>

\* os.close of a whole file: with --force in the finally clause, in front of the
\* rename; without, behind the try statement.
Close(w) ==
  /\ Goes(w, "close", IF w \in force THEN "replace" ELSE "return")
  /\ FilesKept /\ UNCHANGED <<result, relinks>>

\* An OSError of that close.  With --force the except clause cleans up; without,
\* nothing does, and the error leaves emit_output as it is.
CloseFails(w) ==
  /\ pc[w] = "close"
  /\ \/ w \in force /\ Goes(w, "close", "clean_error") /\ UNCHANGED result
     \/ w \in New /\ Ends(w, "unclosed")
  /\ FilesKept /\ UNCHANGED relinks

\* os.close after a failure or an interrupt.  With --force an OSError of it takes
\* the place of what is being raised; without, it leaves the except clause before
\* the unlink.
Abandon(w) ==
  /\ \/ Goes(w, "abandon_error", "clean_error") /\ UNCHANGED result
     \/ Goes(w, "abandon_interrupt", "clean_interrupt") /\ UNCHANGED result
     \/ w \in force /\ Goes(w, "abandon_interrupt", "clean_error") /\ UNCHANGED result
     \/ w \in New /\ pc[w] \in {"abandon_error", "abandon_interrupt"} /\ Ends(w, "unclosed")
  /\ FilesKept /\ UNCHANGED relinks

\* os.replace of FILE by the temporary name.
Replace(w) ==
  /\ Goes(w, "replace", "return")
  /\ out' = w
  /\ place' = [Displaced EXCEPT ![w] = "file"]
  /\ UNCHANGED <<content, result, relinks>>

\* Mutant: the temporary file is left when the rename fails.
ReplaceFailsAtOnce(w) ==
  /\ pc[w] = "replace"
  /\ Ends(w, "error")
  /\ FilesKept /\ UNCHANGED relinks

ReplaceFails(w) ==
  /\ Goes(w, "replace", "clean_error")
  /\ FilesKept /\ UNCHANGED <<result, relinks>>

Return(w) ==
  /\ pc[w] = "return"
  /\ Ends(w, "ok")
  /\ FilesKept /\ UNCHANGED relinks

\* Unlinking the temporary name, or FILE whatever it now refers to, on the way
\* out of the except clause with result r.
Unlink(w, r) ==
  /\ \/ /\ w \in force
        /\ place' = [place EXCEPT ![w] = IF @ = "temporary" THEN "none" ELSE @]
        /\ UNCHANGED out
     \/ /\ w \in New
        /\ out' = "absent"
        /\ place' = Displaced
  /\ Ends(w, r)
  /\ UNCHANGED <<content, relinks>>

CleanUp(w) ==
  \/ pc[w] = "clean_error" /\ Unlink(w, "error")
  \/ pc[w] = "clean_interrupt" /\ Unlink(w, "interrupted")

\* KeyboardInterrupt: inside the try statement it runs the except clause, with
\* --force after the finally clause; before it, after it and in the except clause
\* itself nothing is undone.  The close and the rename of a command with --force
\* are inside, the close of a command without is not.
Interrupt(w) ==
  /\ \/ /\ pc[w] \in {"write", "sync"}
        /\ pc' = [pc EXCEPT ![w] = "abandon_interrupt"]
        /\ UNCHANGED result
     \/ /\ w \in force
        /\ pc[w] \in {"close", "abandon_error", "abandon_interrupt", "replace", "return"}
        /\ pc' = [pc EXCEPT ![w] = "clean_interrupt"]
        /\ UNCHANGED result
     \/ /\ \/ pc[w] \in {"render", "inspect", "create", "opened", "return", "clean_error", "clean_interrupt"}
           \/ w \in New /\ pc[w] \in {"close", "abandon_error", "abandon_interrupt"}
        /\ Ends(w, "interrupted")
  /\ FilesKept /\ UNCHANGED relinks

\* SIGKILL or a crash of the machine.
Crash(w) ==
  /\ pc[w] # "done"
  /\ Ends(w, "crashed")
  /\ FilesKept /\ UNCHANGED relinks

\* Another program makes FILE a symlink or a second link to the file.
Relink ==
  /\ relinks < MaxRelinks
  /\ relinks' = relinks + 1
  /\ out' = "special"
  /\ place' = Displaced
  /\ UNCHANGED <<content, pc, result>>

WriterStep(w) ==
  \/ Render(w) \/ Inspect(w) \/ Create(w) \/ CreateFails(w) \/ EnterTry(w)
  \/ Write(w) \/ Sync(w) \/ WriteFails(w) \/ Close(w) \/ CloseFails(w) \/ Abandon(w)
  \/ Replace(w) \/ ReplaceFails(w) \/ Return(w) \/ CleanUp(w) \/ Interrupt(w) \/ Crash(w)

Next == (Relink \/ \E w \in Writers : WriterStep(w)) /\ UNCHANGED force

Spec == Init /\ [][Next]_vars

-------------------------------------------------------------------------------
\* A command that reports OutputError has left neither a temporary file nor its
\* own result behind, and every failure of a command with --force is reported so:
\* only a close that fails leaves a file, and only without --force.
FailureLeavesNothing ==
  \A w \in Writers :
    /\ result[w] = "error" => place[w] \notin {"temporary", "file"}
    /\ result[w] = "unclosed" => w \in New

\* A command without --force never takes away a file it did not create.
ExistingFilesAreKept ==
  [][\A w \in New : pc'[w] # pc[w] => out' = out \/ out = "absent" \/ out = w]_vars

Output == INSTANCE AtomicOutput WITH
  Commands <- Writers,
  alone <- New = {} /\ relinks = 0,
  visible <- CASE out \in force -> IF content[out] = "synced" THEN out ELSE "partial"
               [] OTHER -> "other",
  published <- {w \in force : place[w] \in {"file", "once"}},
  answer <- [w \in Writers |-> IF w \in force THEN result[w] ELSE "none"]

\* Commands with --force implement the atomic replacement they promise, also
\* next to commands without it and to other programs.  A result that is not
\* synced does not count as whole: a crash of the machine could still take it.
ImplementsAtomicOutput == Output!Spec
===============================================================================
