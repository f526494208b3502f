--------------------------- MODULE SafeOutputProofs ---------------------------
(***************************************************************************)
(* What TLAPS proves of module SafeOutput, for any number of commands:     *)
(* they implement AtomicOutput, and a failure leaves nothing behind.       *)
(***************************************************************************)
EXTENDS SafeOutput, TLAPS

Stages ==
  {"render", "inspect", "create", "opened", "write", "sync", "close", "replace", "return",
   "abandon_error", "abandon_interrupt", "clean_error", "clean_interrupt", "done"}

Contents == {"none", "partial", "written", "synced"}
Results == {"none", "ok", "error", "unclosed", "interrupted", "crashed"}

TypeOK ==
  /\ force \subseteq Writers
  /\ out \in Writers \union {"absent", "regular", "special"}
  /\ content \in [Writers -> Contents]
  /\ place \in [Writers -> {"none", "temporary", "file", "once"}]
  /\ pc \in [Writers -> Stages]
  /\ result \in [Writers -> Results]
  /\ relinks \in Nat

\* The inode under the name FILE, if it is a command's, and where it says it is.
NameAgrees == \A w \in Writers : place[w] = "file" <=> out = w

\* How far the file of w is by the time w is where it is.
PlaceOf(w) ==
  /\ pc[w] \in {"inspect", "replace"} => w \in force
  /\ pc[w] \in {"render", "inspect", "create"} => place[w] = "none"
  /\ w \in force /\ pc[w] \in {"opened", "write", "sync", "close", "replace", "abandon_error", "abandon_interrupt",
                             "clean_error"}
       => place[w] = "temporary"
  /\ w \in force /\ pc[w] = "return" => place[w] \in {"file", "once"}
  /\ w \in New => place[w] # "temporary"

\* What has been under the name FILE by replacement is a whole result, and synced.
WholeWhenVisible(w) ==
  w \in force /\ (pc[w] \in {"close", "replace"} \/ place[w] \in {"file", "once"}) => content[w] = "synced"

EndOf(w) ==
  /\ result[w] = "none" <=> pc[w] # "done"
  /\ result[w] = "error" => place[w] \notin {"temporary", "file"}
  /\ result[w] = "unclosed" => w \in New

IInv ==
  /\ TypeOK /\ NameAgrees
  /\ \A w \in Writers : PlaceOf(w) /\ WholeWhenVisible(w) /\ EndOf(w)

-------------------------------------------------------------------------------
LEMMA InitIInv == Init => IInv
BY OutputAssumption DEF Init, IInv, TypeOK, NameAgrees, PlaceOf, WholeWhenVisible, EndOf, Stages, Results, Contents, New

\* Steps that leave every file alone.
LEMMA KeepIInv ==
  ASSUME IInv, NEW w \in Writers, UNCHANGED force,
         Render(w) \/ Inspect(w) \/ CreateFails(w) \/ EnterTry(w) \/ ReplaceFails(w) \/ Return(w)
           \/ Close(w) \/ CloseFails(w) \/ Abandon(w) \/ Interrupt(w) \/ Crash(w)
  PROVE  IInv'
<1> USE DEF IInv
<1>1. UNCHANGED <<force, out, content, place, relinks>>
  BY DEF Render, Inspect, CreateFails, EnterTry, ReplaceFails, Return, Close, CloseFails,
    Abandon, Interrupt, Crash, FilesKept
<1>2. /\ pc' \in [Writers -> Stages]
      /\ result' \in [Writers -> Results]
      /\ \A v \in Writers \ {w} : pc'[v] = pc[v] /\ result'[v] = result[v]
  <2> USE DEF Goes, Ends, TypeOK, Stages, Results
  <2>1. CASE Render(w) \/ Inspect(w) \/ CreateFails(w) \/ EnterTry(w)
    BY <2>1 DEF Render, Inspect, CreateFails, EnterTry
  <2>2. CASE ReplaceFails(w) \/ Return(w) \/ Close(w) \/ CloseFails(w)
    BY <2>2 DEF ReplaceFails, Return, Close, CloseFails
  <2>3. CASE Abandon(w)
    BY <2>3 DEF Abandon
  <2>4. CASE Interrupt(w) \/ Crash(w)
    BY <2>4 DEF Interrupt, Crash
  <2> QED
    BY <2>1, <2>2, <2>3, <2>4
<1>3. PlaceOf(w)' /\ WholeWhenVisible(w)' /\ EndOf(w)'
  <2> USE DEF Goes, Ends, TypeOK, PlaceOf, WholeWhenVisible, EndOf, New, Stages, Results
  <2>1. CASE Render(w)
    BY <1>1, <2>1 DEF Render
  <2>2. CASE Inspect(w)
    BY <1>1, <2>2 DEF Inspect
  <2>3. CASE CreateFails(w)
    BY <1>1, <2>3 DEF CreateFails
  <2>4. CASE EnterTry(w)
    BY <1>1, <2>4 DEF EnterTry
  <2>5. CASE ReplaceFails(w)
    BY <1>1, <2>5 DEF ReplaceFails
  <2>6. CASE Return(w)
    BY <1>1, <2>6 DEF Return
  <2>7. CASE Close(w)
    BY <1>1, <2>7 DEF Close
  <2>8. CASE CloseFails(w)
    BY <1>1, <2>8 DEF CloseFails
  <2>9. CASE Abandon(w)
    BY <1>1, <2>9 DEF Abandon
  <2>10. CASE Interrupt(w)
    BY <1>1, <2>10 DEF Interrupt
  <2>11. CASE Crash(w)
    BY <1>1, <2>11 DEF Crash
  <2> QED
    BY <2>1, <2>2, <2>3, <2>4, <2>5, <2>6, <2>7, <2>8, <2>9, <2>10, <2>11
<1>4. TypeOK' /\ NameAgrees'
  BY <1>1, <1>2 DEF TypeOK, NameAgrees
<1>5. \A v \in Writers \ {w} : PlaceOf(v)' /\ WholeWhenVisible(v)' /\ EndOf(v)'
  BY <1>1, <1>2 DEF PlaceOf, WholeWhenVisible, EndOf, New
<1> QED
  BY <1>3, <1>4, <1>5

\* Steps of w on its own file.
LEMMA FileIInv ==
  ASSUME IInv, NEW w \in Writers, UNCHANGED force,
         Create(w) \/ Write(w) \/ Sync(w) \/ WriteFails(w)
  PROVE  IInv'
<1> USE DEF IInv
<1>1. /\ content' \in [Writers -> Contents]
      /\ place' \in [Writers -> {"none", "temporary", "file", "once"}]
      /\ pc' \in [Writers -> Stages]
      /\ \A v \in Writers \ {w} : content'[v] = content[v] /\ place'[v] = place[v] /\ pc'[v] = pc[v]
  BY DEF Create, Write, Sync, WriteFails, Goes, TypeOK, Stages, Results, Contents
<1>2. out' \in {out, w} /\ UNCHANGED <<force, result, relinks>>
  BY DEF Create, Write, Sync, WriteFails
<1>3. TypeOK'
  BY <1>1, <1>2 DEF TypeOK
<1>4. NameAgrees'
  <2>1. CASE Create(w)
    <3>1. place[w] = "none" /\ out # w
      BY <2>1 DEF Create, Goes, PlaceOf, NameAgrees
    <3>2. CASE w \in force
      BY <2>1, <3>1, <3>2 DEF Create, NameAgrees, New, TypeOK
    <3>3. CASE w \in New
      BY <2>1, <3>1, <3>3, OutputAssumption DEF Create, NameAgrees, New, TypeOK
    <3> QED
      BY <2>1, <3>2, <3>3 DEF Create
  <2>2. CASE Write(w) \/ Sync(w) \/ WriteFails(w)
    BY <2>2 DEF Write, Sync, WriteFails, NameAgrees
  <2> QED
    BY <2>1, <2>2
<1>5. PlaceOf(w)' /\ WholeWhenVisible(w)' /\ EndOf(w)'
  BY DEF Create, Write, Sync, WriteFails, Goes, TypeOK, PlaceOf, WholeWhenVisible, EndOf, New
<1>6. \A v \in Writers \ {w} : PlaceOf(v)' /\ WholeWhenVisible(v)' /\ EndOf(v)'
  BY <1>1, <1>2 DEF PlaceOf, WholeWhenVisible, EndOf, New
<1> QED
  BY <1>3, <1>4, <1>5, <1>6

\* Where the name FILE is taken from whatever had it.
LEMMA DisplacedFacts ==
  ASSUME IInv
  PROVE  /\ Displaced \in [Writers -> {"none", "temporary", "file", "once"}]
         /\ \A v \in Writers :
              Displaced[v] = IF place[v] = "file" THEN "once" ELSE place[v]
BY DEF IInv, TypeOK, NameAgrees, Displaced

LEMMA ReplaceIInv ==
  ASSUME IInv, NEW w \in Writers, UNCHANGED force, Replace(w)
  PROVE  IInv'
<1> USE DEF IInv
<1>1. /\ pc[w] = "replace" /\ pc'[w] = "return" /\ w \in force /\ out' = w
      /\ pc' \in [Writers -> Stages]
      /\ \A v \in Writers \ {w} : pc'[v] = pc[v]
      /\ UNCHANGED <<force, content, result, relinks>>
  BY DEF Replace, Goes, PlaceOf, TypeOK, Stages, Results, Contents
<1>2. /\ place' \in [Writers -> {"none", "temporary", "file", "once"}]
      /\ place'[w] = "file"
      /\ \A v \in Writers \ {w} : place'[v] = IF place[v] = "file" THEN "once" ELSE place[v]
  <2> HIDE DEF IInv
  <2> QED
    BY DisplacedFacts DEF Replace
<1>3. TypeOK' /\ NameAgrees'
  BY <1>1, <1>2 DEF TypeOK, NameAgrees
<1>4. ASSUME NEW v \in Writers PROVE PlaceOf(v)' /\ WholeWhenVisible(v)' /\ EndOf(v)'
  BY <1>1, <1>2 DEF PlaceOf, WholeWhenVisible, EndOf, New
<1> QED
  BY <1>3, <1>4

LEMMA CleanUpIInv ==
  ASSUME IInv, NEW w \in Writers, UNCHANGED force, CleanUp(w)
  PROVE  IInv'
<1> USE DEF IInv
<1>1. PICK r \in {"error", "interrupted"} :
        Unlink(w, r) /\ pc[w] = IF r = "error" THEN "clean_error" ELSE "clean_interrupt"
  BY DEF CleanUp
<1>2. /\ pc' \in [Writers -> Stages] /\ pc'[w] = "done"
      /\ result' \in [Writers -> Results] /\ result'[w] = r
      /\ \A v \in Writers \ {w} : pc'[v] = pc[v] /\ result'[v] = result[v]
      /\ UNCHANGED <<force, content, relinks>>
  BY <1>1 DEF Unlink, Ends, TypeOK, Stages, Results, Contents
<1>3. CASE /\ w \in force /\ UNCHANGED out
           /\ place' = [place EXCEPT ![w] = IF @ = "temporary" THEN "none" ELSE @]
  <2>1. TypeOK' /\ NameAgrees'
    BY <1>2, <1>3 DEF TypeOK, NameAgrees
  <2>2. PlaceOf(w)' /\ WholeWhenVisible(w)' /\ EndOf(w)'
    BY <1>1, <1>2, <1>3 DEF PlaceOf, WholeWhenVisible, EndOf, New, TypeOK
  <2>3. \A v \in Writers \ {w} : PlaceOf(v)' /\ WholeWhenVisible(v)' /\ EndOf(v)'
    BY <1>2, <1>3 DEF PlaceOf, WholeWhenVisible, EndOf, New, TypeOK
  <2> QED
    BY <2>1, <2>2, <2>3
<1>4. CASE w \in New /\ out' = "absent" /\ place' = Displaced
  <2>1. /\ place' \in [Writers -> {"none", "temporary", "file", "once"}]
        /\ \A v \in Writers : place'[v] = IF place[v] = "file" THEN "once" ELSE place[v]
    <3> HIDE DEF IInv
    <3> QED
      BY <1>4, DisplacedFacts
  <2>2. TypeOK' /\ NameAgrees'
    BY <1>2, <1>4, <2>1, OutputAssumption DEF TypeOK, NameAgrees
  <2>3. PlaceOf(w)' /\ WholeWhenVisible(w)' /\ EndOf(w)'
    BY <1>2, <1>4, <2>1 DEF PlaceOf, WholeWhenVisible, EndOf, New
  <2>4. \A v \in Writers \ {w} : PlaceOf(v)' /\ WholeWhenVisible(v)' /\ EndOf(v)'
    BY <1>2, <2>1 DEF PlaceOf, WholeWhenVisible, EndOf, New
  <2> QED
    BY <2>2, <2>3, <2>4
<1> QED
  BY <1>1, <1>3, <1>4 DEF Unlink

LEMMA RelinkIInv ==
  ASSUME IInv, UNCHANGED force, Relink
  PROVE  IInv'
<1> USE DEF IInv
<1>1. /\ place' \in [Writers -> {"none", "temporary", "file", "once"}]
      /\ \A v \in Writers : place'[v] = IF place[v] = "file" THEN "once" ELSE place[v]
  <2> HIDE DEF IInv
  <2> QED
    BY DisplacedFacts DEF Relink
<1>2. out' = "special" /\ relinks' \in Nat /\ UNCHANGED <<force, content, pc, result>>
  BY DEF Relink, TypeOK
<1>3. TypeOK' /\ NameAgrees'
  BY <1>1, <1>2, OutputAssumption DEF TypeOK, NameAgrees
<1>4. \A v \in Writers : PlaceOf(v)' /\ WholeWhenVisible(v)' /\ EndOf(v)'
  BY <1>1, <1>2 DEF PlaceOf, WholeWhenVisible, EndOf, New
<1> QED
  BY <1>3, <1>4

LEMMA NextIInv == IInv /\ [Next]_vars => IInv'
<1> SUFFICES ASSUME IInv, [Next]_vars PROVE IInv'
  OBVIOUS
<1>1. CASE Relink /\ UNCHANGED force
  BY <1>1, RelinkIInv
<1>2. ASSUME NEW w \in Writers, WriterStep(w), UNCHANGED force PROVE IInv'
  BY <1>2, KeepIInv, FileIInv, ReplaceIInv, CleanUpIInv DEF WriterStep
<1>3. CASE UNCHANGED vars
  BY <1>3 DEF vars, IInv, TypeOK, NameAgrees, PlaceOf, WholeWhenVisible, EndOf, New
<1> QED
  BY <1>1, <1>2, <1>3 DEF Next

\* The inductive invariant of the commands that write FILE: what a file holds
\* agrees with the place of the command that made it (emit_output).
THEOREM Invariance == Spec => []IInv
BY InitIInv, NextIInv, PTL DEF Spec

\* A command that reports OutputError left no file of its own behind (the except
\* clauses of _write_new and _replace_atomically), and only one without --force
\* ends with the bare error of a close (output.py:181 and 189), which may leave it.
THEOREM FailureIsClean == Spec => []FailureLeavesNothing
<1>1. IInv => FailureLeavesNothing
  BY DEF IInv, EndOf, FailureLeavesNothing
<1> QED
  BY <1>1, Invariance, PTL

-------------------------------------------------------------------------------
(* The refinement.  In every state of the invariant the abstract variables *)
(* are these.                                                              *)

Visible == CASE out \in force -> IF content[out] = "synced" THEN out ELSE "partial"
             [] OTHER -> "other"
Published == {w \in force : place[w] \in {"file", "once"}}
AnswerOf == [w \in Writers |-> IF w \in force THEN result[w] ELSE "none"]
Alone == New = {} /\ relinks = 0

LEMMA VisibleIsWhole ==
  /\ IInv => Visible = IF out \in force THEN out ELSE "other"
  /\ IInv' => Visible' = IF out' \in force' THEN out' ELSE "other"
<1>1. ASSUME IInv, out \in force PROVE content[out] = "synced"
  BY <1>1 DEF IInv, TypeOK, NameAgrees, WholeWhenVisible
<1>2. ASSUME IInv', out' \in force' PROVE content'[out'] = "synced"
  BY <1>2 DEF IInv, TypeOK, NameAgrees, WholeWhenVisible
<1> QED
  BY <1>1, <1>2 DEF Visible

LEMMA InitRefines == Init => Output!Init
<1> SUFFICES ASSUME Init PROVE Output!Init
  OBVIOUS
<1>1. Alone \in BOOLEAN
  BY DEF Alone
<1>2. Visible = "other"
  BY OutputAssumption DEF Init, Visible
<1>3. Published = {}
  BY OutputAssumption DEF Init, Published
<1>4. AnswerOf = [w \in Writers |-> "none"]
  BY DEF Init, AnswerOf
<1> QED
  BY <1>1, <1>2, <1>3, <1>4 DEF Output!Init, Alone, Visible, Published, AnswerOf

\* A step that only ends a command is an answer of it.
LEMMA EndRefines ==
  ASSUME IInv, IInv', NEW w \in Writers, NEW r, Ends(w, r), pc[w] # "done",
         UNCHANGED <<force, relinks, out, content>>,
         \A v \in force : place'[v] \in {"file", "once"} <=> place[v] \in {"file", "once"},
         \/ r \in {"interrupted", "crashed"}
         \/ r = "ok" /\ (w \in force => w \in Published)
         \/ r = "error" /\ w \notin Published
         \/ r = "unclosed" /\ w \in New
  PROVE  \/ \E c \in Writers : Output!Answer(c)
         \/ UNCHANGED <<Alone, Visible, Published, AnswerOf>>
<1>1. UNCHANGED <<Alone, Visible, Published>>
  BY DEF Alone, Visible, Published, New
<1>2. result' = [result EXCEPT ![w] = r] /\ result \in [Writers -> Results]
  BY DEF Ends, IInv, TypeOK
<1>3. CASE w \in force
  <2>1. AnswerOf' = [AnswerOf EXCEPT ![w] = r]
    BY <1>2, <1>3 DEF AnswerOf
  <2>2. AnswerOf[w] = "none"
    BY <1>3 DEF AnswerOf, IInv, EndOf
  <2>3. Output!Answer(w)
    BY <1>1, <1>3, <2>1, <2>2 DEF Output!Answer, Alone, Visible, Published, AnswerOf, New
  <2> QED
    BY <2>3
<1>4. CASE w \notin force
  BY <1>1, <1>2, <1>4 DEF AnswerOf
<1> QED
  BY <1>3, <1>4

\* A step within a command changes nothing that a reader sees.
LEMMA StutterRefines ==
  ASSUME IInv, IInv', UNCHANGED <<force, relinks, result>>,
         out' \in force \/ out \in force => out' = out,
         \A v \in force : place'[v] \in {"file", "once"} <=> place[v] \in {"file", "once"}
  PROVE  UNCHANGED <<Alone, Visible, Published, AnswerOf>>
<1>1. Visible' = Visible
  <2>1. Visible' = IF out' \in force THEN out' ELSE "other"
    BY VisibleIsWhole
  <2> QED
    BY <2>1, VisibleIsWhole
<1> QED
  BY <1>1 DEF Alone, Published, AnswerOf, New

LEMMA ReplaceRefines ==
  ASSUME IInv, IInv', NEW w \in Writers, Replace(w), UNCHANGED force
  PROVE  Output!Publish(w)
<1>1. w \in force /\ pc[w] = "replace" /\ out' = w /\ place[w] = "temporary" /\ result[w] = "none"
      /\ UNCHANGED <<force, result, relinks>>
  BY DEF Replace, Goes, IInv, PlaceOf, EndOf
<1>2. /\ place'[w] = "file"
      /\ \A v \in Writers \ {w} : place'[v] = IF place[v] = "file" THEN "once" ELSE place[v]
  BY DisplacedFacts DEF Replace
<1>3. Visible' = w
  <2>1. Visible' = IF out' \in force THEN out' ELSE "other"
    BY <1>1, VisibleIsWhole
  <2> QED
    BY <1>1, <2>1
<1>4. w \notin Published /\ Published' = Published \union {w}
  BY <1>1, <1>2 DEF Published, IInv, TypeOK
<1>5. AnswerOf[w] = "none" /\ UNCHANGED <<Alone, AnswerOf>>
  BY <1>1 DEF AnswerOf, Alone, New
<1> QED
  BY <1>3, <1>4, <1>5 DEF Output!Publish, Alone, Visible, Published, AnswerOf

\* Whoever else takes the name FILE is a disturbance.
LEMMA DisturbRefines ==
  ASSUME IInv, IInv', UNCHANGED force, out' \notin force, New # {} \/ relinks' # 0, AnswerOf' = AnswerOf,
         place' = Displaced
  PROVE  Output!Disturb
<1>1. Alone' = FALSE
  BY DEF Alone, New
<1>2. Visible' = "other"
  BY DEF Visible
<1>3. Published' = Published
  BY DisplacedFacts DEF Published, IInv, TypeOK
<1> QED
  BY <1>1, <1>2, <1>3 DEF Output!Disturb, Alone, Visible, Published, AnswerOf

LEMMA StepRefines ==
  ASSUME IInv, IInv', NEW w \in Writers, WriterStep(w), UNCHANGED force
  PROVE  Output!Next \/ UNCHANGED <<Alone, Visible, Published, AnswerOf>>
<1> DEFINE Goal == Output!Next \/ UNCHANGED <<Alone, Visible, Published, AnswerOf>>
<1>1. ASSUME NEW r, Ends(w, r), pc[w] # "done", UNCHANGED <<relinks, out, content>>,
             \A v \in force : place'[v] \in {"file", "once"} <=> place[v] \in {"file", "once"},
             \/ r \in {"interrupted", "crashed"}
             \/ r = "ok" /\ (w \in force => w \in Published)
             \/ r = "error" /\ w \notin Published
             \/ r = "unclosed" /\ w \in New
      PROVE  Goal
  BY <1>1, EndRefines DEF Output!Next
<1>2. ASSUME UNCHANGED <<relinks, result>>, out' \in force \/ out \in force => out' = out,
             \A v \in force : place'[v] \in {"file", "once"} <=> place[v] \in {"file", "once"}
      PROVE  Goal
  BY <1>2, StutterRefines
<1>3. ASSUME pc[w] \in {"render", "inspect", "create", "clean_error"}, w \in force
      PROVE  w \notin Published
  BY <1>3 DEF IInv, PlaceOf, Published
<1>4. w \in Published => w \in force
  BY DEF Published
<1> SUFFICES Goal
  OBVIOUS
<1> HIDE DEF Goal
<1>5. CASE Render(w) \/ Inspect(w) \/ CreateFails(w)
  <2>1. FilesKept /\ UNCHANGED relinks /\ pc[w] \in {"render", "inspect", "create"}
    BY <1>5 DEF Render, Inspect, CreateFails
  <2>2. UNCHANGED result \/ Ends(w, "error")
    BY <1>5 DEF Render, Inspect, CreateFails
  <2> QED
    BY <1>1, <1>2, <1>3, <1>4, <2>1, <2>2 DEF FilesKept
<1>6. CASE Create(w)
  <2>1. pc[w] = "create" /\ UNCHANGED <<result, relinks>>
    BY <1>6 DEF Create, Goes
  <2>2. out' = out \/ (w \in New /\ out = "absent" /\ out' = w)
    BY <1>6 DEF Create
  <2>3. out' \in force \/ out \in force => out' = out
    BY <2>2, OutputAssumption DEF New, IInv, TypeOK
  <2>4. \A v \in force : place'[v] \in {"file", "once"} <=> place[v] \in {"file", "once"}
    <3>1. place[w] = "none"
      BY <2>1 DEF IInv, PlaceOf
    <3> QED
      BY <1>6, <3>1 DEF Create, New, IInv, TypeOK
  <2> QED
    BY <1>2, <2>1, <2>3, <2>4
<1>7. CASE EnterTry(w) \/ Write(w) \/ Sync(w) \/ WriteFails(w) \/ Close(w) \/ ReplaceFails(w)
  BY <1>2, <1>7 DEF EnterTry, Write, Sync, WriteFails, Close, ReplaceFails, FilesKept
<1>8. CASE Replace(w)
  BY <1>8, ReplaceRefines DEF Goal, Output!Next
<1>9. CASE Return(w)
  <2>1. w \in force => w \in Published
    BY <1>9 DEF Return, IInv, PlaceOf, Published
  <2> QED
    BY <1>1, <1>9, <2>1 DEF Return, FilesKept
<1>10. CASE CleanUp(w)
  <2>1. PICK r \in {"error", "interrupted"} :
          Unlink(w, r) /\ pc[w] = IF r = "error" THEN "clean_error" ELSE "clean_interrupt"
    BY <1>10 DEF CleanUp
  <2>2. CASE w \in force /\ UNCHANGED out /\ place' = [place EXCEPT ![w] = IF @ = "temporary" THEN "none" ELSE @]
    <3>1. \A v \in force : place'[v] \in {"file", "once"} <=> place[v] \in {"file", "once"}
      BY <2>2 DEF IInv, TypeOK
    <3>2. Ends(w, r) /\ UNCHANGED <<relinks, out, content>> /\ pc[w] # "done"
      BY <2>1, <2>2 DEF Unlink
    <3>3. r = "error" => w \notin Published
      BY <1>3, <2>1, <2>2
    <3> QED
      BY <1>1, <3>1, <3>2, <3>3
  <2>3. CASE w \in New /\ out' = "absent" /\ place' = Displaced
    <3>1. AnswerOf' = AnswerOf
      BY <2>1, <2>3 DEF Unlink, Ends, AnswerOf, New, IInv, TypeOK
    <3>2. out' \notin force
      BY <2>3, OutputAssumption DEF IInv, TypeOK
    <3>3. Output!Disturb
      BY <2>3, <3>1, <3>2, DisturbRefines
    <3> QED
      BY <3>3 DEF Goal, Output!Next
  <2> QED
    BY <2>1, <2>2, <2>3 DEF Unlink
<1>11. CASE Interrupt(w)
  <2>1. FilesKept /\ UNCHANGED relinks /\ pc[w] # "done"
    BY <1>11 DEF Interrupt
  <2>2. UNCHANGED result \/ Ends(w, "interrupted")
    BY <1>11 DEF Interrupt
  <2> QED
    BY <1>1, <1>2, <2>1, <2>2 DEF FilesKept
<1>12. CASE Crash(w)
  BY <1>1, <1>12 DEF Crash, FilesKept
<1>13. CASE CloseFails(w) \/ Abandon(w)
  <2>1. FilesKept /\ UNCHANGED relinks /\ pc[w] # "done"
    BY <1>13 DEF CloseFails, Abandon, Goes
  <2>2. UNCHANGED result \/ (Ends(w, "unclosed") /\ w \in New)
    BY <1>13 DEF CloseFails, Abandon
  <2> QED
    BY <1>1, <1>2, <2>1, <2>2 DEF FilesKept
<1> QED
  BY <1>5, <1>6, <1>7, <1>8, <1>9, <1>10, <1>11, <1>12, <1>13 DEF WriterStep

LEMMA NextRefines ==
  ASSUME IInv, IInv', [Next]_vars
  PROVE  Output!Next \/ UNCHANGED <<Alone, Visible, Published, AnswerOf>>
<1>1. CASE Relink /\ UNCHANGED force
  <2>1. relinks' # 0 /\ out' = "special" /\ place' = Displaced /\ UNCHANGED result
    BY <1>1 DEF Relink, IInv, TypeOK
  <2>2. out' \notin force /\ AnswerOf' = AnswerOf
    BY <1>1, <2>1, OutputAssumption DEF AnswerOf, IInv, TypeOK
  <2>3. Output!Disturb
    BY <1>1, <2>1, <2>2, DisturbRefines
  <2> QED
    BY <2>3 DEF Output!Next
<1>2. CASE \E w \in Writers : WriterStep(w) /\ UNCHANGED force
  BY <1>2, StepRefines
<1>3. CASE UNCHANGED vars
  BY <1>3 DEF vars, Alone, Visible, Published, AnswerOf, New
<1> QED
  BY <1>1, <1>2, <1>3 DEF Next

\* Concurrent commands with --force implement the atomic replacement they
\* promise (_replace_atomically), whoever else writes or relinks FILE.
THEOREM Refinement == Spec => ImplementsAtomicOutput
<1>1. Init => Output!Init
  BY InitRefines
<1>2. IInv /\ IInv' /\ [Next]_vars =>
        [Output!Next]_<<New = {} /\ relinks = 0,
          CASE out \in force -> IF content[out] = "synced" THEN out ELSE "partial" [] OTHER -> "other",
          {w \in force : place[w] \in {"file", "once"}},
          [w \in Writers |-> IF w \in force THEN result[w] ELSE "none"]>>
  BY NextRefines DEF Alone, Visible, Published, AnswerOf
<1> QED
  BY <1>1, <1>2, Invariance, PTL DEF Spec, ImplementsAtomicOutput, Output!Spec
===============================================================================
