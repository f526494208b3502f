----------------------------- MODULE AtomicOutput -----------------------------
(***************************************************************************)
(* What --output FILE --force promises (SECURITY.md, docs/CONTRACTS.md):   *)
(* whoever reads the name FILE sees one whole result or what somebody else *)
(* put there, a command that answers "ok" has published its result, and as *)
(* long as nobody else touches the file a result stays until the next one. *)
(***************************************************************************)
CONSTANT Commands  \* the commands that are to write the file

VARIABLES
  alone,     \* nobody but these commands ever touched the file
  visible,   \* what a reader of the name finds: a command's whole result, or "other"
  published, \* the commands whose result has been under the name
  answer     \* command -> how it ended, or "none"

Init ==
  /\ alone \in BOOLEAN
  /\ visible = "other"
  /\ published = {}
  /\ answer = [c \in Commands |-> "none"]

\* The whole result of c takes the place of what was there, once.
Publish(c) ==
  /\ c \notin published
  /\ answer[c] = "none"
  /\ visible' = c
  /\ published' = published \cup {c}
  /\ UNCHANGED <<alone, answer>>

\* A command can only call itself successful after it has published, and can
\* only report an error if it has not; an interruption or crash says neither.
Answer(c) ==
  /\ answer[c] = "none"
  /\ \/ c \in published /\ answer' = [answer EXCEPT ![c] = "ok"]
     \/ c \notin published /\ answer' = [answer EXCEPT ![c] = "error"]
     \/ \E r \in {"interrupted", "crashed"} : answer' = [answer EXCEPT ![c] = r]
  /\ UNCHANGED <<alone, visible, published>>

\* Others may remove or replace the file, never with a part of a result.
Disturb ==
  /\ alone' = FALSE /\ visible' = "other"
  /\ UNCHANGED <<published, answer>>

Next == Disturb \/ \E c \in Commands : Publish(c) \/ Answer(c)

Spec == Init /\ [][Next]_<<alone, visible, published, answer>>
===============================================================================
