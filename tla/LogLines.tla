------------------------------- MODULE LogLines -------------------------------
(***************************************************************************)
(* observe_descriptor of LogHound (opsforge/loghound/loghound.py): one     *)
(* descriptor is read in chunks of any size up to the boundary that was    *)
(* its size when it was opened, and cut into lines whose patterns are      *)
(* counted in a store that earlier sources have used already.              *)
(*                                                                         *)
(* A byte is a symbol: LF, CR, NUL, "x" for text, and two timestamps, "o"  *)
(* before the cutoff of a time window and "t" after it, which date a line  *)
(* when they begin it.  A normalized pattern is the content of its line.   *)
(* Severities, stack traces and the minute histogram are left out.         *)
(***************************************************************************)
EXTENDS Integers, Sequences, FiniteSets, SequencesExt, FiniteSetsExt

CONSTANTS
  Inputs,        \* what the file may contain
  Options,       \* records [window, include, exclude]
  Stores,        \* what earlier sources may have left in the pattern store
  MaxLineBytes,  \* bytes of a line that are kept
  MaxPatterns,   \* patterns the store tracks
  Signature      \* the first bytes of a compressed file

LF == "n"
CR == "r"
NUL == "0"
Timestamps == {"o", "t"}
Bytes == {LF, CR, NUL, "x"} \union Timestamps

\* No signature of a compressed file has a line feed.
LogLinesAssumption ==
  /\ Inputs \subseteq Seq(Bytes)
  /\ Options \subseteq [window : BOOLEAN, include : SUBSET Bytes, exclude : SUBSET Bytes]
  /\ Signature \in Seq(Bytes \ {LF})
  /\ MaxLineBytes \in Nat \ {0} /\ MaxPatterns \in Nat
  /\ \A s \in Stores :
       /\ IsFiniteSet(DOMAIN s) /\ Cardinality(DOMAIN s) <= MaxPatterns
       /\ s \in [DOMAIN s -> Nat]

VARIABLES
  pc,         \* "read" or "done"
  outcome,    \* "none", "result", or the error that was raised
  data,       \* the bytes up to the boundary
  options,    \* the options of the run
  prior,      \* the store before this source
  pos,        \* bytes consumed
  pending,    \* the line whose end was not read yet
  overlong,   \* the kept prefix of an overlong line in progress, or << >>
  patterns,   \* the store: pattern to count
  metrics,    \* counters of lines
  warning     \* the read ended before the boundary

vars == <<pc, outcome, data, options, prior, pos, pending, overlong, patterns, metrics, warning>>

NoLines ==
  [physical |-> 0, analyzable |-> 0, blank |-> 0, filtered |-> 0, undated |-> 0,
   truncated |-> 0, untracked |-> 0, nul |-> 0, inherited |-> "none"]

Init ==
  /\ pc = "read" /\ outcome = "none"
  /\ data \in Inputs /\ options \in Options /\ prior \in Stores
  /\ pos = 0 /\ pending = << >> /\ overlong = << >>
  /\ patterns = prior
  /\ metrics = NoLines
  /\ warning = FALSE

-------------------------------------------------------------------------------
(* _record_line.                                                           *)

\* The bytes of a line that are looked at.
StripCR(bytes, lf) == IF lf /\ bytes # << >> /\ Last(bytes) = CR THEN Front(bytes) ELSE bytes
Kept(bytes, lf) ==
  LET line == StripCR(bytes, lf) IN SubSeq(line, 1, IF Len(line) > MaxLineBytes THEN MaxLineBytes ELSE Len(line))
TooLong(bytes, lf) == Len(StripCR(bytes, lf)) > MaxLineBytes

\* extract_timestamp.
Dated(line) == line # << >> /\ Head(line) \in Timestamps
Content(line) == IF Dated(line) THEN Tail(line) ELSE line
Blank(content) == \A i \in DOMAIN content : content[i] = CR

Excluded(content) ==
  \/ options.include # {} /\ ToSet(content) \intersect options.include = {}
  \/ ToSet(content) \intersect options.exclude # {}

\* PatternStore.add.
Tracked(store, p) == p \in DOMAIN store \/ Cardinality(DOMAIN store) < MaxPatterns
AddPattern(store, p) ==
  IF ~Tracked(store, p) THEN store
  ELSE [q \in DOMAIN store \union {p} |->
          (IF q \in DOMAIN store THEN store[q] ELSE 0) + (IF q = p THEN 1 ELSE 0)]

One(condition) == IF condition THEN 1 ELSE 0

\* The state st is a pair of the counters and the store.
RecordLine(st, bytes, lf) ==
  LET line == Kept(bytes, lf)
      content == Content(line)
      m == st.metrics
      inherited == IF Dated(line) THEN Head(line) ELSE m.inherited
      blank == Blank(content)
      undated == ~blank /\ options.window /\ inherited = "none"
      old == ~blank /\ options.window /\ inherited = "o"
      filtered == undated \/ old \/ (~blank /\ Excluded(content))
      counted == ~blank /\ ~filtered
  IN [metrics |->
        [m EXCEPT !.physical = @ + 1,
                  !.truncated = @ + One(TooLong(bytes, lf)),
                  !.inherited = inherited,
                  !.blank = @ + One(blank),
                  !.undated = @ + One(undated),
                  !.filtered = @ + One(filtered),
                  !.analyzable = @ + One(counted),
                  !.untracked = @ + One(counted /\ ~Tracked(st.store, content))],
      store |-> IF counted THEN AddPattern(st.store, content) ELSE st.store]

-------------------------------------------------------------------------------
(* observe_descriptor.                                                     *)

\* Checked on every chunk until as many bytes are seen as a signature has.
Compressed(prefix) == IsPrefix(Signature, prefix)

\* What is left when NUL bytes are removed.
Dense(bytes) ==
  LET kept[n \in 0..Len(bytes)] ==
        IF n = 0 THEN << >>
        ELSE IF bytes[n] = NUL THEN kept[n - 1] ELSE Append(kept[n - 1], bytes[n])
  IN kept[Len(bytes)]

\* The pieces of a text between line feeds; the last one has no line feed.
Pieces(text) ==
  LET cut[n \in 0..Len(text)] ==
        IF n = 0 THEN << << >> >>
        ELSE LET before == cut[n - 1]
             IN IF text[n] = LF THEN Append(before, << >>)
                ELSE Append(Front(before), Append(Last(before), text[n]))
  IN cut[Len(text)]

\* The first of the complete parts may end an overlong line instead.
RecordParts(st, parts) ==
  LET after[n \in 0..Len(parts)] ==
        IF n = 0 THEN st
        ELSE IF n = 1 /\ overlong # << >> THEN RecordLine(after[n - 1], overlong, FALSE)
        ELSE RecordLine(after[n - 1], parts[n], TRUE)
  IN after[Len(parts)]

\* Mutant: a line is too long as soon as it has one byte more.
OverflowsAtOnce(line) == Len(line) > MaxLineBytes

\* Nothing is decided on a line that a CR may still end.
Overflows(line) ==
  \/ Len(line) > MaxLineBytes + 1
  \/ Len(line) = MaxLineBytes + 1 /\ Last(line) # CR

Raise(error) ==
  /\ pc' = "done" /\ outcome' = error
  /\ UNCHANGED <<patterns, metrics>>

ReadChunk ==
  /\ pc = "read" /\ ~warning /\ pos < Len(data)
  /\ \E n \in 1..(Len(data) - pos) :
       IF Compressed(SubSeq(data, 1, pos + n))
       THEN /\ Raise("invalid_target")
            /\ UNCHANGED <<pos, pending, overlong>>
       ELSE LET chunk == SubSeq(data, pos + 1, pos + n)
                text == Dense(chunk)
                pieces == Pieces(pending \o text)
                st == RecordParts([metrics |-> metrics, store |-> patterns], Front(pieces))
                rest == Last(pieces)
                still == overlong # << >> /\ Len(pieces) = 1
            IN /\ pos' = pos + n
               /\ metrics' = [st.metrics EXCEPT !.nul = @ + n - Len(text)]
               /\ patterns' = st.store
               /\ overlong' = IF still THEN overlong
                              ELSE IF Overflows(rest) THEN SubSeq(rest, 1, MaxLineBytes + 1) ELSE << >>
               /\ pending' = IF still \/ Overflows(rest) THEN << >> ELSE rest
               /\ UNCHANGED <<pc, outcome>>
  /\ UNCHANGED <<data, options, prior, warning>>

\* The file was truncated, or cannot be read on.
ReadEndsEarly ==
  /\ pc = "read" /\ ~warning /\ pos < Len(data)
  /\ warning' = TRUE
  /\ UNCHANGED <<pc, outcome, data, options, prior, pos, pending, overlong, patterns, metrics>>

\* What the file ends with is a line, unless bytes before the boundary are missing.
LastLine(st) ==
  IF warning THEN st
  ELSE IF overlong # << >> THEN RecordLine(st, overlong, FALSE)
  ELSE IF pending # << >> THEN RecordLine(st, pending, FALSE)
  ELSE st

Finish ==
  /\ pc = "read" /\ (warning \/ pos = Len(data))
  /\ IF warning /\ metrics.analyzable = 0
     THEN Raise("observation")
     ELSE LET st == LastLine([metrics |-> metrics, store |-> patterns])
          IN /\ metrics' = st.metrics /\ patterns' = st.store
             /\ pc' = "done" /\ outcome' = "result"
  /\ UNCHANGED <<data, options, prior, pos, pending, overlong, warning>>

Next == ReadChunk \/ ReadEndsEarly \/ Finish

\* A local read returns; a chunk has at least one byte.
Spec == Init /\ [][Next]_vars /\ WF_vars(Next)

\* What makes a result incomplete.
Incomplete ==
  warning \/ metrics.nul > 0 \/ metrics.truncated > 0 \/ metrics.undated > 0 \/ metrics.untracked > 0

-------------------------------------------------------------------------------
(* The reference: what the counts of a whole text are.                     *)

Text == Dense(data)
Feeds(text) == {i \in DOMAIN text : text[i] = LF}
LineCount == Cardinality(Feeds(Text)) + One(Text # << >> /\ Last(Text) # LF)
LineOf(i) == Kept(Pieces(Text)[i], i <= Cardinality(Feeds(Text)))
DatedBy(i) ==
  LET dated == {j \in 1..i : Dated(LineOf(j))}
  IN IF dated = {} THEN "none" ELSE Head(LineOf(Max(dated)))
Nonblank == {i \in 1..LineCount : ~Blank(Content(LineOf(i)))}
InWindow(i) == ~options.window \/ DatedBy(i) = "t"
Counted == {i \in Nonblank : InWindow(i) /\ ~Excluded(Content(LineOf(i)))}
Occurrences(p) == Cardinality({i \in Counted : Content(LineOf(i)) = p})
SumOf(store) == Cardinality(UNION {{p} \X (1..store[p]) : p \in DOMAIN store})
Before(p) == IF p \in DOMAIN prior THEN prior[p] ELSE 0

-------------------------------------------------------------------------------
(* Properties.                                                             *)

\* However the reads cut a file, through a CR and its LF, through a line that
\* is too long, at a NUL, a result that was read to the boundary has exactly
\* the lines of the text, and every tracked pattern is counted exactly: one
\* that is not tracked from its first line on is never tracked.
LinesMatchReference ==
  outcome = "result" /\ ~warning =>
    /\ metrics.physical = LineCount
    /\ metrics.analyzable = Cardinality(Counted)
    /\ metrics.filtered = Cardinality(Nonblank) - Cardinality(Counted)
    /\ metrics.truncated =
         Cardinality({i \in 1..LineCount : TooLong(Pieces(Text)[i], i <= Cardinality(Feeds(Text)))})
    /\ \A p \in DOMAIN patterns : patterns[p] = Before(p) + Occurrences(p)

\* A source that is dropped as unavailable, because it turns out to be
\* compressed or because its read failed with nothing to report, has left
\* nothing in the store that it shares with the sources that are reported,
\* and the counts of a result account for every pattern it did leave.
DroppedLeavesNothing ==
  /\ outcome \in {"invalid_target", "observation"} => patterns = prior
  /\ outcome = "result" =>
       SumOf(patterns) + metrics.untracked = SumOf(prior) + metrics.analyzable
===============================================================================
