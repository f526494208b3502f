---------------------------- MODULE VerdictsProofs ----------------------------
(***************************************************************************)
(* What TLAPS proves of module Verdicts, tool by tool, for every value of  *)
(* its constants.  For each tool an invariant is shown to be kept by the   *)
(* steps of its module; as the other tools take no steps when it runs, it  *)
(* is an invariant of the composition.                                     *)
(***************************************************************************)
EXTENDS Verdicts, FiniteSetTheorems, FunctionTheorems, WellFoundedInduction, TLAPS

\* The tool that runs is the one that was started, and its steps are the steps.
LEMMA StepsOfOneTool ==
  ASSUME [Next]_vars
  PROVE  /\ tool' = tool
         /\ tool = "configdiff" => Pair!Next \/ UNCHANGED Pair!vars
         /\ tool = "portlens" => Port!Next \/ UNCHANGED Port!vars
         /\ tool = "svcdoctor" => Svc!Next \/ UNCHANGED Svc!vars
         /\ tool = "netdoctor" => Net!Next \/ UNCHANGED Net!vars
         /\ tool = "certwatch" => Cert!Next \/ UNCHANGED Cert!vars
         /\ tool = "configdiff-directory" => Tree!Next \/ UNCHANGED Tree!vars
         /\ tool = "healthctl" => Check!Next \/ UNCHANGED Check!vars
<1>1. CASE UNCHANGED vars
  <2>1. tool' = tool /\ UNCHANGED <<pc, verdict, exit>>
    BY <1>1 DEF vars
  <2>2. UNCHANGED Pair!vars
    BY <1>1 DEF vars, pairVars, Pair!vars, Pair!world, Pair!options
  <2>3. UNCHANGED Port!vars
    BY <1>1 DEF vars, portVars, Port!vars, Port!world, Port!evidence
  <2>4. UNCHANGED Svc!vars
    BY <1>1 DEF vars, unitVars, Svc!vars, Svc!world, Svc!given, Svc!evidence
  <2>5. UNCHANGED Net!vars
    BY <1>1 DEF vars, netVars, Net!vars, Net!world, Net!evidence
  <2>6. UNCHANGED Cert!vars
    BY <1>1 DEF vars, certVars, Cert!vars, Cert!world, Cert!evidence
  <2>7. UNCHANGED Tree!vars
    BY <1>1 DEF vars, treeVars, Tree!vars, Tree!world, Tree!seen
  <2>8. UNCHANGED Check!vars
    BY <1>1 DEF vars, checkVars, Check!vars, Check!world, Check!options, Check!evidence
  <2> QED BY <2>1, <2>2, <2>3, <2>4, <2>5, <2>6, <2>7, <2>8
<1>2. CASE Next
  BY <1>2, Zenon DEF Next, ButPair, ButTree, ButPort, ButUnit, ButNet, ButCert, ButCheck
<1> QED BY <1>1, <1>2

LEMMA StartOfOneTool ==
  ASSUME Init
  PROVE  /\ tool = "configdiff" => Pair!Init
         /\ tool = "portlens" => Port!Init
         /\ tool = "svcdoctor" => Svc!Init
         /\ tool = "netdoctor" => Net!Init
         /\ tool = "certwatch" => Cert!Init
         /\ tool = "configdiff-directory" => Tree!Init
         /\ tool = "healthctl" => Check!Init
BY DEF Init

-------------------------------------------------------------------------------
(* ConfigDiff: two files, of any contents and however often they change.   *)
(*                                                                         *)
(* The argument: the state of the files at the moment the second of them   *)
(* is opened is a witness.  A file only grows older: if its stamp is still *)
(* what it was when it was opened, then so it was at that moment, and so   *)
(* it was at every read in between.                                        *)

PairMeta(Symbols) == [data : Seq(Symbols), attr : {0, 1}, stamp : Nat]

PairTypeOK(Symbols) ==
  /\ files \in [Pair!Inodes -> PairMeta(Symbols)]
  /\ names \in [Pair!Sides -> Pair!Inodes \union {0}]
  /\ past \subseteq [Pair!Inodes -> PairMeta(Symbols)]
  /\ pc \in {"stat", "open", "read", "verify", "compare", "report", "done"}
  /\ side \in Pair!Sides
  /\ inspected \in Pair!Inodes \union {0}
  /\ opened \in [Pair!Sides -> [inode : Pair!Inodes \union {0}, meta : PairMeta(Symbols)]]
  /\ data \in [Pair!Sides -> Seq(Symbols)]

\* The metadata m is that of a file which is by now f.
PairOlder(m, f) == m.stamp <= f.stamp /\ (m.stamp = f.stamp => m = f)

PairIsOpen(s) == opened[s].inode # 0
PairMeta0(s) == opened[s].meta
PairInode(s) == opened[s].inode

\* How far each file has come.
PairIsRead(s) == pc \in {"verify", "compare",
  "report"} \/ (pc = "read" /\ side = "current" /\ s = "baseline")
PairIsVerified(s) == pc \in {"compare",
  "report"} \/ (pc = "verify" /\ side = "current" /\ s = "baseline")

PairOrder ==
  /\ pc = "open" => inspected # 0
  /\ pc \in {"stat", "open"} =>
       /\ opened["current"] = Pair!NotOpened
       /\ IF side = "baseline" THEN opened["baseline"] = Pair!NotOpened ELSE PairIsOpen("baseline")
       /\ \A s \in Pair!Sides : data[s] = << >>
  /\ pc \in {"read", "verify", "compare", "report"} => Pair!BothOpen
  /\ pc = "report" \/ pc = "done" \/ verdict = "none"

\* What was read of a file that has not changed is a part of it.
PairDataSoFar ==
  \A s \in Pair!Sides : PairIsOpen(s) /\ pc # "done" =>
    /\ PairOlder(PairMeta0(s), files[PairInode(s)])
    /\ Len(data[s]) <= Len(PairMeta0(s).data)
    /\ PairMeta0(s).stamp = files[PairInode(s)].stamp =>
         data[s] = SubSeq(PairMeta0(s).data, 1, Len(data[s]))
    /\ PairIsRead(s) => Len(data[s]) = Len(PairMeta0(s).data)
    /\ PairIsVerified(s) => data[s] = PairMeta0(s).data

\* The files p were there after both were opened, and p is what each of them
\* was when it was opened, unless its verification will fail.
PairMeeting(p) ==
  \A s \in Pair!Sides :
    /\ PairOlder(PairMeta0(s), p[PairInode(s)])
    /\ PairOlder(p[PairInode(s)], files[PairInode(s)])
    /\ PairIsVerified(s) => p[PairInode(s)] = PairMeta0(s)

PairMet == Pair!BothOpen /\ pc # "done" => \E p \in past : PairMeeting(p)

PairIInv(Symbols) ==
  /\ PairTypeOK(Symbols) /\ files \in past
  /\ PairOrder /\ PairDataSoFar /\ PairMet /\ Pair!PairCoexisted

-------------------------------------------------------------------------------
LEMMA PairOlderTransitive ==
  ASSUME NEW a, NEW b, NEW c, a.stamp \in Nat, b.stamp \in Nat, c.stamp \in Nat,
         PairOlder(a, b), PairOlder(b, c)
  PROVE  PairOlder(a, c)
BY DEF PairOlder

\* Two parts that meet are one part.
LEMMA PairPartsJoin ==
  ASSUME NEW Symbols, NEW d \in Seq(Symbols), NEW m \in Nat, NEW n \in Nat, m + n <= Len(d)
  PROVE  SubSeq(d, 1, m) \o SubSeq(d, m + 1, m + n) = SubSeq(d, 1, m + n)
<1>1. /\ SubSeq(d, 1, m) \in Seq(Symbols) /\ Len(SubSeq(d, 1, m)) = m
      /\ SubSeq(d, m + 1, m + n) \in Seq(Symbols) /\ Len(SubSeq(d, m + 1, m + n)) = n
      /\ SubSeq(d, 1, m + n) \in Seq(Symbols) /\ Len(SubSeq(d, 1, m + n)) = m + n
  OBVIOUS
<1>2. ASSUME NEW i \in 1..(m + n)
      PROVE  (SubSeq(d, 1, m) \o SubSeq(d, m + 1, m + n))[i] = SubSeq(d, 1, m + n)[i]
  <2>1. CASE i <= m
    BY <1>1, <2>1
  <2>2. CASE i > m
    <3>1. i - m \in 1..n
      BY <2>2
    <3>2. SubSeq(d, m + 1, m + n)[i - m] = d[m + 1 + (i - m) - 1]
      BY <3>1
    <3>3. m + 1 + (i - m) - 1 = i
      OBVIOUS
    <3>4. SubSeq(d, 1, m + n)[i] = d[i]
      OBVIOUS
    <3> DEFINE a == SubSeq(d, 1, m)
               b == SubSeq(d, m + 1, m + n)
    <3> HIDE DEF a, b
    <3>5. (a \o b)[i] = b[i - m]
      BY <1>1, <2>2 DEF a, b
    <3> QED
      BY <3>2, <3>3, <3>4, <3>5, Zenon DEF a, b
  <2> QED
    BY <2>1, <2>2
<1> QED
  BY <1>1, <1>2

LEMMA PairJoined ==
  ASSUME NEW Symbols, NEW a \in Seq(Symbols), NEW b \in Seq(Symbols)
  PROVE  a \o b \in Seq(Symbols) /\ Len(a \o b) = Len(a) + Len(b)
OBVIOUS

LEMMA PairWholePart ==
  ASSUME NEW Symbols, NEW d \in Seq(Symbols)
  PROVE  SubSeq(d, 1, Len(d)) = d
OBVIOUS

-------------------------------------------------------------------------------
LEMMA PairInitIInv ==
  ASSUME NEW Symbols, PairContents \subseteq Seq(Symbols), Pair!Init
  PROVE  PairIInv(Symbols)
<1> USE DEF Pair!Init
<1>1. PICK a \in PairContents, b \in PairContents :
        files = [i \in Pair!Inodes |-> [data |-> <<a, b, a>>[i], attr |-> 0, stamp |-> 0]]
  BY Zenon
<1>2. \A i \in Pair!Inodes : <<a, b, a>>[i] \in Seq(Symbols)
  BY DEF Pair!Inodes
<1>3. files \in [Pair!Inodes -> PairMeta(Symbols)]
  BY <1>1, <1>2, Zenon DEF PairMeta
<1>4. << >> \in Seq(Symbols)
  OBVIOUS
<1>5. PairTypeOK(Symbols)
  <2>1. Pair!NotOpened \in [inode : Pair!Inodes \union {0}, meta : PairMeta(Symbols)]
    BY <1>4 DEF Pair!NotOpened, PairMeta
  <2> QED
    BY <1>3, <1>4, <2>1 DEF PairTypeOK, Pair!Sides, Pair!Inodes
<1>6. ~Pair!BothOpen /\ (\A s \in Pair!Sides : ~PairIsOpen(s))
  BY DEF Pair!BothOpen, PairIsOpen, Pair!NotOpened, Pair!Sides
<1> QED
  BY <1>5, <1>6 DEF PairIInv, PairOrder, PairDataSoFar, PairMet, Pair!PairCoexisted, Pair!Sides

-------------------------------------------------------------------------------
(* Steps of the programs that write the files.                             *)

LEMMA PairFileChangesIInv ==
  ASSUME NEW Symbols, PairContents \subseteq Seq(Symbols), PairIInv(Symbols), Pair!FileChanges
  PROVE  PairIInv(Symbols)'
<1> USE DEF PairIInv
<1>1. UNCHANGED <<Pair!options, pc, side, inspected, opened, data, verdict,
  exit>> /\ past' = past \union {files'}
  BY DEF Pair!FileChanges
<1> DEFINE Aged == /\ files' \in [Pair!Inodes -> PairMeta(Symbols)]
                   /\ names' \in [Pair!Sides -> Pair!Inodes \union {0}]
                   /\ \A j \in Pair!Inodes : PairOlder(files[j], files'[j])
<1>2. Aged
  <2>1. ASSUME NEW i \in Pair!Range(names) \ {0}, Pair!Written(i) \/ Pair!Chmod(i), UNCHANGED names
        PROVE  Aged
    <3>1. i \in Pair!Inodes
      BY <2>1 DEF PairTypeOK, Pair!Range
    <3>2. CASE Pair!Written(i)
      <4>1. PICK d \in PairContents : files' = [files EXCEPT ![i].data = d, ![i].stamp = @ + 1]
        BY <3>2, Zenon DEF Pair!Written
      <4>2. d \in Seq(Symbols)
        OBVIOUS
      <4> QED
        BY <2>1, <3>1, <4>1, <4>2 DEF PairTypeOK, PairMeta, PairOlder
    <3>3. CASE Pair!Chmod(i)
      <4>1. files[i] \in PairMeta(Symbols) /\ 1 - files[i].attr \in {0, 1}
        BY <3>1 DEF PairTypeOK, PairMeta
      <4>2. /\ files'[i].stamp = files[i].stamp + 1
            /\ files'[i] \in PairMeta(Symbols)
            /\ files' \in [Pair!Inodes -> PairMeta(Symbols)]
            /\ \A j \in Pair!Inodes : j # i => files'[j] = files[j]
        BY <3>1, <3>3, <4>1 DEF Pair!Chmod, PairTypeOK, PairMeta
      <4> QED
        BY <2>1, <3>1, <4>1, <4>2 DEF PairTypeOK, PairMeta, PairOlder
    <3> QED
      BY <2>1, <3>2, <3>3
  <2>2. ASSUME NEW s \in Pair!Sides, NEW i \in {0, 3}, names' = [names EXCEPT ![s] = i],
    UNCHANGED files
        PROVE  Aged
    BY <2>2 DEF PairTypeOK, Pair!Inodes, PairOlder, PairMeta
  <2>3. \/ \E i \in Pair!Range(names) \ {0} : (Pair!Written(i) \/ Pair!Chmod(i)) /\ UNCHANGED names
        \/ \E s \in Pair!Sides, i \in {0, 3} : names' = [names EXCEPT ![s] = i] /\ UNCHANGED files
    BY DEF Pair!FileChanges
  <2> QED
    BY <2>1, <2>2, <2>3
<1>3. PairTypeOK(Symbols)' /\ files' \in past'
  BY <1>1, <1>2 DEF PairTypeOK
<1>4. PairOrder'
  BY <1>1 DEF PairOrder, PairIsOpen, Pair!BothOpen
<1>5. ASSUME NEW i \in Pair!Inodes, NEW m \in PairMeta(Symbols), PairOlder(m, files[i])
      PROVE  PairOlder(m, files'[i]) /\ (m.stamp = files'[i].stamp => m.stamp = files[i].stamp)
  <2>1. files[i] \in PairMeta(Symbols) /\ files'[i] \in PairMeta(Symbols) /\ PairOlder(files[i],
    files'[i])
    BY <1>2 DEF PairTypeOK
  <2>2. m.stamp \in Nat /\ files[i].stamp \in Nat /\ files'[i].stamp \in Nat
    BY <2>1 DEF PairMeta
  <2> QED
    BY <1>5, <2>1, <2>2, PairOlderTransitive DEF PairOlder
<1>6. \A s \in Pair!Sides : PairIsOpen(s) => PairInode(s) \in Pair!Inodes /\ PairMeta0(s) \in PairMeta(Symbols)
  BY DEF PairTypeOK, PairIsOpen, PairInode, PairMeta0
<1>7. PairDataSoFar'
  BY <1>1, <1>5, <1>6 DEF PairDataSoFar, PairIsOpen, PairInode, PairMeta0, PairIsRead,
    PairIsVerified
<1>8. PairMet'
  <2> SUFFICES ASSUME Pair!BothOpen, pc # "done" PROVE \E p \in past' : PairMeeting(p)'
    BY <1>1 DEF PairMet, Pair!BothOpen
  <2>1. PICK p \in past : PairMeeting(p)
    BY DEF PairMet
  <2>2. \A s \in Pair!Sides : PairInode(s) \in Pair!Inodes /\ p[PairInode(s)] \in PairMeta(Symbols)
    BY <1>6 DEF Pair!BothOpen, PairIsOpen, PairTypeOK
  <2>3. PairMeeting(p)'
    BY <1>1, <1>5, <2>1, <2>2 DEF PairMeeting, PairInode, PairMeta0, PairIsVerified
  <2> QED
    BY <1>1, <2>3
<1>9. Pair!PairCoexisted'
  BY <1>1 DEF Pair!PairCoexisted
<1> QED
  BY <1>3, <1>4, <1>7, <1>8, <1>9

-------------------------------------------------------------------------------
(* Steps of the tool.                                                      *)

\* Whatever ends the run changes nothing that was observed.
LEMMA PairEndIInv ==
  ASSUME NEW Symbols, PairIInv(Symbols), pc' = "done",
         UNCHANGED <<Pair!world, side, inspected, opened, data, verdict>>
  PROVE  PairIInv(Symbols)'
<1> USE DEF PairIInv
<1>1. PairTypeOK(Symbols)' /\ files' \in past'
  BY DEF PairTypeOK, Pair!world
<1>2. PairOrder' /\ PairDataSoFar' /\ PairMet'
  BY DEF PairOrder, PairDataSoFar, PairMet
<1>3. Pair!PairCoexisted'
  BY DEF Pair!PairCoexisted, Pair!world
<1> QED
  BY <1>1, <1>2, <1>3

LEMMA PairStatFileIInv ==
  ASSUME NEW Symbols, PairIInv(Symbols), Pair!StatFile
  PROVE  PairIInv(Symbols)'
<1> USE DEF PairIInv
<1>1. CASE Pair!Done(Pair!ExitUsage) /\ UNCHANGED inspected
  BY <1>1, PairEndIInv DEF Pair!StatFile, Pair!Done
<1>2. CASE names[side] # 0 /\ inspected' = names[side] /\ pc' = "open"
  <2>1. UNCHANGED <<Pair!world, side, opened, data, verdict>> /\ pc = "stat"
    BY DEF Pair!StatFile
  <2>2. PairTypeOK(Symbols)' /\ files' \in past'
    BY <1>2, <2>1 DEF PairTypeOK, Pair!world
  <2>3. ~Pair!BothOpen /\ PairOrder'
    BY <1>2, <2>1 DEF PairOrder, PairIsOpen, Pair!BothOpen, PairTypeOK, Pair!Sides, Pair!NotOpened
  <2>4. PairDataSoFar' /\ PairMet' /\ Pair!PairCoexisted'
    BY <1>2, <2>1, <2>3 DEF PairDataSoFar, PairMet, Pair!PairCoexisted, Pair!BothOpen, PairIsOpen,
      PairInode, PairMeta0,
      PairIsRead, PairIsVerified, PairOrder, Pair!world
  <2> QED
    BY <2>2, <2>3, <2>4
<1> QED
  BY <1>1, <1>2 DEF Pair!StatFile

\* The moment when the second file is opened is the one when both were there.
LEMMA PairOpenFileIInv ==
  ASSUME NEW Symbols, PairIInv(Symbols), Pair!OpenFile
  PROVE  PairIInv(Symbols)'
<1> USE DEF PairIInv
<1>1. CASE pc' = "done"
  <2>1. UNCHANGED <<side, opened>>
    BY <1>1 DEF Pair!OpenFile, Pair!GoOn, Pair!Following, PairTypeOK, Pair!Sides
  <2> QED
    BY <1>1, <2>1, PairEndIInv DEF Pair!OpenFile
<1>2. CASE /\ names[side] = inspected
           /\ opened' = [opened EXCEPT ![side] = [inode |-> inspected, meta |-> files[inspected]]]
           /\ Pair!GoOn
  <2>1. UNCHANGED <<Pair!world, inspected, data, verdict>> /\ pc = "open" /\ verdict = "none"
    BY DEF Pair!OpenFile, PairOrder
  <2>2. inspected \in Pair!Inodes /\ files[inspected] \in PairMeta(Symbols)
    BY <2>1 DEF PairOrder, PairTypeOK
  <2>3. \/ side = "baseline" /\ pc' = "stat" /\ side' = "current"
        \/ side = "current" /\ pc' = "read" /\ side' = "baseline"
    BY <1>2, <2>1 DEF Pair!GoOn, Pair!Following, PairTypeOK, Pair!Sides
  <2>4. opened' \in [Pair!Sides -> [inode : Pair!Inodes \union {0}, meta : PairMeta(Symbols)]]
    BY <1>2, <2>2 DEF PairTypeOK
  <2>5. PairTypeOK(Symbols)' /\ files' \in past'
    BY <2>1, <2>3, <2>4 DEF PairTypeOK, Pair!world, Pair!Sides
  <2>6. /\ opened'[side] = [inode |-> inspected, meta |-> files[inspected]]
        /\ \A s \in Pair!Sides \ {side} : opened'[s] = opened[s]
    BY <1>2 DEF PairTypeOK
  <2>7. \A s \in Pair!Sides : data[s] = << >>
    BY <2>1 DEF PairOrder
  <2>8. \A s \in Pair!Sides : PairIsOpen(s)' =>
          /\ PairInode(s)' \in Pair!Inodes /\ PairMeta0(s)' \in PairMeta(Symbols)
          /\ PairOlder(PairMeta0(s)', files[PairInode(s)'])
    <3> TAKE s \in Pair!Sides
    <3> HAVE PairIsOpen(s)'
    <3>1. CASE s = side
      BY <2>2, <2>6, <3>1 DEF PairInode, PairMeta0, PairOlder, PairMeta
    <3>2. CASE s # side
      BY <2>1, <2>6, <3>2 DEF PairInode, PairMeta0, PairIsOpen, PairDataSoFar, PairTypeOK
    <3> QED
      BY <3>1, <3>2
  <2>9. PairOrder'
    <3>1. inspected # 0
      BY <2>2 DEF Pair!Inodes
    <3> QED
      BY <2>1, <2>3, <2>6, <2>7, <3>1 DEF PairOrder, Pair!BothOpen, PairIsOpen, Pair!Sides
  <2>10. PairDataSoFar'
    <3> SUFFICES ASSUME NEW s \in Pair!Sides, PairIsOpen(s)'
                 PROVE  /\ PairOlder(PairMeta0(s)', files[PairInode(s)'])
                        /\ data[s] = << >>
                        /\ Len(data[s]) <= Len(PairMeta0(s)'.data)
                        /\ data[s] = SubSeq(PairMeta0(s)'.data, 1, Len(data[s]))
                        /\ ~PairIsRead(s)' /\ ~PairIsVerified(s)'
      BY <2>1 DEF PairDataSoFar, PairMeta0, PairInode, Pair!world
    <3>1. PairMeta0(s)'.data \in Seq(Symbols) /\ data[s] = << >>
      BY <2>7, <2>8 DEF PairMeta
    <3>2. SubSeq(PairMeta0(s)'.data, 1,
      0) = << >> /\ Len(PairMeta0(s)'.data) >= 0 /\ Len(data[s]) = 0
      BY <3>1
    <3> QED
      BY <2>3, <2>8, <3>1, <3>2 DEF PairIsRead, PairIsVerified
  <2>11. PairMet'
    <3> SUFFICES ASSUME Pair!BothOpen' PROVE \E p \in past' : PairMeeting(p)'
      BY DEF PairMet
    <3>1. PICK p \in past : p = files
      OBVIOUS
    <3>2. ASSUME NEW s \in Pair!Sides
          PROVE  /\ PairOlder(PairMeta0(s)', p[PairInode(s)'])
                 /\ PairOlder(p[PairInode(s)'], files'[PairInode(s)'])
                 /\ ~PairIsVerified(s)'
      <4>1. PairIsOpen(s)' /\ ~PairIsVerified(s)'
        BY <2>3 DEF Pair!BothOpen, PairIsOpen, PairIsVerified
      <4>2. PairOlder(PairMeta0(s)', files[PairInode(s)']) /\ files[PairInode(s)'].stamp \in Nat
        BY <2>8, <4>1 DEF PairTypeOK, PairMeta
      <4> QED
        BY <2>1, <3>1, <4>1, <4>2 DEF PairOlder, Pair!world
    <3>3. PairMeeting(p)'
      BY <3>2 DEF PairMeeting
    <3> QED
      BY <2>1, <3>3 DEF Pair!world
  <2>12. Pair!PairCoexisted'
    BY <2>1 DEF Pair!PairCoexisted
  <2> QED
    BY <2>5, <2>9, <2>10, <2>11, <2>12
<1> QED
  BY <1>1, <1>2 DEF Pair!OpenFile, Pair!Done

\* What holds of the file the tool is at, once both are open.
LEMMA PairAtHand ==
  ASSUME NEW Symbols, PairIInv(Symbols), pc \in {"read", "verify", "compare", "report"},
    NEW s \in Pair!Sides
  PROVE  /\ PairIsOpen(s) /\ PairInode(s) \in Pair!Inodes
         /\ PairMeta0(s) \in PairMeta(Symbols) /\ PairMeta0(s).data \in Seq(Symbols)
         /\ PairMeta0(s).stamp \in Nat
         /\ files[PairInode(s)] \in PairMeta(Symbols) /\ files[PairInode(s)].data \in Seq(Symbols)
         /\ files[PairInode(s)].stamp \in Nat
         /\ data[s] \in Seq(Symbols)
<1>1. PairIsOpen(s) /\ PairInode(s) \in Pair!Inodes /\ PairMeta0(s) \in PairMeta(Symbols) /\ data[s] \in Seq(Symbols)
  BY DEF PairIInv, PairOrder, Pair!BothOpen, PairIsOpen, PairInode, PairMeta0, PairTypeOK
<1>2. files[PairInode(s)] \in PairMeta(Symbols)
  BY <1>1 DEF PairIInv, PairTypeOK
<1> QED
  BY <1>1, <1>2 DEF PairMeta

LEMMA PairReadPartIInv ==
  ASSUME NEW Symbols, PairIInv(Symbols), Pair!ReadPart
  PROVE  PairIInv(Symbols)'
<1> USE DEF PairIInv
<1> DEFINE pos == Len(data[side])
<1>1. CASE Pair!Done(Pair!ExitFailure) /\ UNCHANGED data
  BY <1>1, PairEndIInv DEF Pair!ReadPart, Pair!Done
<1>2. ASSUME NEW n \in 1..(Pair!Size - pos), pos + n <= Len(Pair!Now.data),
             data' = [data EXCEPT ![side] = @ \o SubSeq(Pair!Now.data, pos + 1, pos + n)],
             UNCHANGED <<pc, exit>>
      PROVE  PairIInv(Symbols)'
  <2>1. pc = "read" /\ UNCHANGED <<Pair!world, Pair!options, side, inspected, opened,
    verdict>> /\ pos < Pair!Size
    BY DEF Pair!ReadPart
  <2>2. side \in Pair!Sides /\ pos \in Nat /\ Pair!Size \in Nat /\ n \in Nat /\ pos + n <= Pair!Size
        /\ Pair!Now.data \in Seq(Symbols)
    <3>1. side \in Pair!Sides /\ n \in Nat /\ n <= Pair!Size - pos
      BY DEF PairTypeOK
    <3>2. PairMeta0(side).data \in Seq(Symbols) /\ Pair!Now.data \in Seq(Symbols) /\ data[side] \in Seq(Symbols)
      BY <2>1, <3>1, PairAtHand DEF Pair!Now, PairInode
    <3>3. pos \in Nat /\ Pair!Size \in Nat
      BY <3>2 DEF Pair!Size, PairMeta0
    <3> QED
      BY <3>1, <3>2, <3>3
  <2>3. SubSeq(Pair!Now.data, pos + 1, pos + n) \in Seq(Symbols) /\ Len(SubSeq(Pair!Now.data,
    pos + 1, pos + n)) = n
    BY <1>2, <2>2
  <2> DEFINE new == data[side] \o SubSeq(Pair!Now.data, pos + 1, pos + n)
  <2>4. new \in Seq(Symbols) /\ Len(new) = pos + n
    BY <2>2, <2>3 DEF PairTypeOK
  <2>5. data'[side] = new /\ \A s \in Pair!Sides \ {side} : data'[s] = data[s]
    BY <1>2, <2>2 DEF PairTypeOK
  <2>6. PairTypeOK(Symbols)' /\ files' \in past'
    <3>1. data' \in [Pair!Sides -> Seq(Symbols)]
      BY <1>2, <2>4 DEF PairTypeOK
    <3> HIDE DEF new
    <3> QED
      BY <1>2, <2>1, <3>1 DEF PairTypeOK, Pair!world
  <2>7. PairOrder'
    BY <1>2, <2>1 DEF PairOrder, Pair!BothOpen, PairIsOpen
  <2>8. PairDataSoFar'
    <3> SUFFICES ASSUME NEW s \in Pair!Sides
                 PROVE  /\ PairOlder(PairMeta0(s), files[PairInode(s)])
                        /\ Len(data'[s]) <= Len(PairMeta0(s).data)
                        /\ PairMeta0(s).stamp = files[PairInode(s)].stamp =>
                             data'[s] = SubSeq(PairMeta0(s).data, 1, Len(data'[s]))
                        /\ PairIsRead(s) => Len(data'[s]) = Len(PairMeta0(s).data)
                        /\ PairIsVerified(s) => data'[s] = PairMeta0(s).data
      BY <1>2, <2>1 DEF PairDataSoFar, PairIsRead, PairIsVerified, PairMeta0, PairInode, Pair!world
    <3>1. CASE s # side
      BY <2>1, <2>5, <3>1, PairAtHand, Zenon DEF PairDataSoFar
    <3>2. CASE s = side
      <4>1. PairOlder(PairMeta0(s), files[PairInode(s)]) /\ Len(data'[s]) <= Len(PairMeta0(s).data)
        BY <2>1, <2>2, <2>4, <2>5, <3>2, PairAtHand, Zenon DEF PairDataSoFar, Pair!Size, PairMeta0
      <4>2. ~PairIsVerified(s)
        BY <2>1 DEF PairIsVerified
      <4>3. ~PairIsRead(s)
        BY <2>1, <2>2, <3>2, PairAtHand DEF PairDataSoFar, Pair!Size, PairMeta0
      <4>4. ASSUME PairMeta0(s).stamp = files[PairInode(s)].stamp
            PROVE  data'[s] = SubSeq(PairMeta0(s).data, 1, Len(data'[s]))
        <5>1. Pair!Now = PairMeta0(s) /\ data[s] = SubSeq(PairMeta0(s).data, 1, pos)
          BY <2>1, <3>2, <4>4, PairAtHand DEF PairDataSoFar, PairOlder, Pair!Now, PairInode
        <5>2. new = SubSeq(PairMeta0(s).data, 1, pos + n)
          BY <1>2, <2>2, <3>2, <5>1, PairPartsJoin
        <5> QED
          BY <2>4, <2>5, <3>2, <5>2, Zenon
      <4> QED
        BY <4>1, <4>2, <4>3, <4>4
    <3> QED
      BY <3>1, <3>2
  <2>9. PairMet' /\ Pair!PairCoexisted'
    <3>1. verdict = "none"
      BY <2>1 DEF PairOrder
    <3> QED
      BY <1>2, <2>1, <3>1 DEF PairMet, Pair!PairCoexisted, PairMeeting, Pair!BothOpen,
        PairIsVerified, PairMeta0, PairInode, Pair!world
  <2> QED
    BY <2>6, <2>7, <2>8, <2>9
<1> QED
  BY <1>1, <1>2, Zenon DEF Pair!ReadPart

LEMMA PairFinishReadIInv ==
  ASSUME NEW Symbols, PairIInv(Symbols), Pair!FinishRead
  PROVE  PairIInv(Symbols)'
<1> USE DEF PairIInv
<1>1. CASE Pair!Done(Pair!ExitFailure) /\ UNCHANGED side
  BY <1>1, PairEndIInv DEF Pair!FinishRead, Pair!Done
<1>2. CASE Pair!GoOn
  <2>1. pc = "read" /\ Len(data[side]) = Pair!Size /\ verdict = "none"
        /\ UNCHANGED <<Pair!world, Pair!options, inspected, opened, data, verdict>>
    BY DEF Pair!FinishRead, PairOrder
  <2>2. \/ side = "baseline" /\ pc' = "read" /\ side' = "current"
        \/ side = "current" /\ pc' = "verify" /\ side' = "baseline"
    BY <1>2, <2>1 DEF Pair!GoOn, Pair!Following, PairTypeOK, Pair!Sides
  <2>3. PairTypeOK(Symbols)' /\ files' \in past'
    BY <2>1, <2>2 DEF PairTypeOK, Pair!world, Pair!Sides
  <2>4. PairOrder'
    BY <2>1, <2>2 DEF PairOrder, Pair!BothOpen, PairIsOpen
  <2>5. \A s \in Pair!Sides : ~PairIsVerified(s)' /\ (PairIsRead(s)' => PairIsRead(s) \/ s = side)
    BY <2>1, <2>2 DEF PairIsVerified, PairIsRead, Pair!Sides
  <2>6. PairDataSoFar'
    BY <2>1, <2>5 DEF PairDataSoFar, PairIsOpen, PairMeta0, PairInode, Pair!Size, Pair!world
  <2>7. PairMet' /\ Pair!PairCoexisted'
    BY <2>1, <2>5 DEF PairMet, Pair!PairCoexisted, PairMeeting, Pair!BothOpen, PairMeta0,
      PairInode, Pair!world
  <2> QED
    BY <2>3, <2>4, <2>6, <2>7
<1> QED
  BY <1>1, <1>2 DEF Pair!FinishRead

\* A file that still has its stamp is what it was when both were open.
LEMMA PairVerifyIInv ==
  ASSUME NEW Symbols, PairIInv(Symbols), Pair!Verify
  PROVE  PairIInv(Symbols)'
<1> USE DEF PairIInv
<1>1. CASE Pair!Done(Pair!ExitFailure) /\ UNCHANGED side
  BY <1>1, PairEndIInv DEF Pair!Verify, Pair!Done
<1>2. CASE Pair!Now.stamp = opened[side].meta.stamp /\ Pair!GoOn
  <2>1. pc = "verify" /\ verdict = "none" /\ side \in Pair!Sides
        /\ UNCHANGED <<Pair!world, Pair!options, inspected, opened, data, verdict>>
    BY DEF Pair!Verify, PairOrder, PairTypeOK
  <2>2. \/ side = "baseline" /\ pc' = "verify" /\ side' = "current"
        \/ side = "current" /\ pc' = "compare" /\ side' = "current"
    BY <1>2, <2>1 DEF Pair!GoOn, Pair!Following, PairTypeOK, Pair!Sides
  <2>3. PairTypeOK(Symbols)' /\ files' \in past'
    BY <2>1, <2>2 DEF PairTypeOK, Pair!world, Pair!Sides
  <2>4. PairOrder'
    BY <2>1, <2>2 DEF PairOrder, Pair!BothOpen, PairIsOpen
  <2>5. \A s \in Pair!Sides : PairIsVerified(s)' => PairIsVerified(s) \/ s = side
    BY <2>1, <2>2 DEF PairIsVerified, Pair!Sides
  <2>6. PairMeta0(side).stamp = files[PairInode(side)].stamp
    BY <1>2 DEF Pair!Now, PairMeta0, PairInode
  <2>7. data[side] = PairMeta0(side).data
    <3>1. Len(data[side]) = Len(PairMeta0(side).data) /\ data[side] = SubSeq(PairMeta0(side).data,
      1, Len(data[side]))
      BY <2>1, <2>6, PairAtHand DEF PairDataSoFar, PairIsRead
    <3> QED
      BY <2>1, <3>1, PairAtHand, PairWholePart, Zenon
  <2>8. PairDataSoFar'
    <3>1. \A s \in Pair!Sides : PairIsRead(s)
      BY <2>1 DEF PairIsRead
    <3> QED
      BY <2>1, <2>5, <2>7, <3>1 DEF PairDataSoFar, PairIsOpen, PairMeta0, PairInode, Pair!world
  <2>9. PairMet'
    <3>1. Pair!BothOpen
      BY <2>1 DEF PairOrder
    <3>2. PICK p \in past : PairMeeting(p)
      BY <2>1, <3>1 DEF PairMet
    <3>3. p[PairInode(side)] = PairMeta0(side)
      <4>1. p[PairInode(side)].stamp \in Nat
        BY <2>1, PairAtHand, Zenon DEF PairTypeOK, PairMeta
      <4> QED
        BY <2>1, <2>6, <3>2, <4>1, PairAtHand DEF PairMeeting, PairOlder
    <3>4. PairMeeting(p)'
      BY <2>1, <2>5, <3>2, <3>3 DEF PairMeeting, PairMeta0, PairInode, Pair!world
    <3> QED
      BY <2>1, <3>4 DEF PairMet, Pair!world
  <2>10. Pair!PairCoexisted'
    BY <2>1 DEF Pair!PairCoexisted
  <2> QED
    BY <2>3, <2>4, <2>8, <2>9, <2>10
<1> QED
  BY <1>1, <1>2 DEF Pair!Verify

LEMMA PairCompareIInv ==
  ASSUME NEW Symbols, PairIInv(Symbols), Pair!Compare
  PROVE  PairIInv(Symbols)'
<1> USE DEF PairIInv
<1>1. CASE Pair!Done(Pair!ExitUsage) /\ UNCHANGED verdict
  BY <1>1, PairEndIInv DEF Pair!Compare, Pair!Done
<1>2. CASE pc' = "report"
  <2>1. pc = "compare" /\ UNCHANGED <<Pair!world, Pair!options, side, inspected, opened, data>>
    BY DEF Pair!Compare
  <2>2. Pair!BothOpen /\ PairOrder'
    BY <1>2, <2>1 DEF PairOrder, Pair!BothOpen, PairIsOpen
  <2>3. PairTypeOK(Symbols)' /\ files' \in past'
    BY <1>2, <2>1 DEF PairTypeOK, Pair!world
  <2>4. \A s \in Pair!Sides : PairIsVerified(s) /\ PairIsRead(s)
    BY <2>1 DEF PairIsVerified, PairIsRead
  <2>5. PairDataSoFar'
    BY <1>2, <2>1, <2>4 DEF PairDataSoFar, PairIsOpen, PairMeta0, PairInode, Pair!world
  <2>6. PICK p \in past : PairMeeting(p)
    BY <2>1, <2>2 DEF PairMet
  <2>7. PairMet'
    <3>1. PairMeeting(p)'
      BY <2>1, <2>4, <2>6 DEF PairMeeting, PairMeta0, PairInode, Pair!world
    <3> QED
      BY <2>1, <3>1 DEF PairMet, Pair!world
  <2>8. \A s \in Pair!Sides : p[opened[s].inode].data = data[s] /\ p[opened[s].inode].attr = opened[s].meta.attr
    BY <2>1, <2>4, <2>6, PairAtHand DEF PairMeeting, PairDataSoFar, PairMeta0, PairInode
  <2>9. Pair!PairCoexisted'
    BY <2>1, <2>8 DEF Pair!PairCoexisted, Pair!world
  <2> QED
    BY <2>2, <2>3, <2>5, <2>7, <2>9
<1> QED
  BY <1>1, <1>2 DEF Pair!Compare

-------------------------------------------------------------------------------
LEMMA PairNextIInv ==
  ASSUME NEW Symbols, PairContents \subseteq Seq(Symbols), PairIInv(Symbols), Pair!Next \/ UNCHANGED Pair!vars
  PROVE  PairIInv(Symbols)'
<1>1. CASE Pair!FileChanges
  BY <1>1, PairFileChangesIInv
<1>2. CASE Pair!StatFile
  BY <1>2, PairStatFileIInv
<1>3. CASE Pair!OpenFile
  BY <1>3, PairOpenFileIInv
<1>4. CASE Pair!ReadPart
  BY <1>4, PairReadPartIInv
<1>5. CASE Pair!FinishRead
  BY <1>5, PairFinishReadIInv
<1>6. CASE Pair!Verify
  BY <1>6, PairVerifyIInv
<1>7. CASE Pair!Compare
  BY <1>7, PairCompareIInv
<1>8. CASE Pair!Report
  BY <1>8, PairEndIInv DEF Pair!Report, Pair!Done
<1>9. CASE Pair!Interrupt
  BY <1>9, PairEndIInv DEF Pair!Interrupt, Pair!Done
<1>10. CASE UNCHANGED Pair!vars
  BY <1>10 DEF Pair!vars, Pair!world, Pair!options, PairIInv, PairTypeOK, PairOrder, PairDataSoFar,
    PairMet, PairMeeting, Pair!PairCoexisted,
    Pair!BothOpen, PairIsOpen, PairIsRead, PairIsVerified, PairMeta0, PairInode
<1> QED
  BY <1>1, <1>2, <1>3, <1>4, <1>5, <1>6, <1>7, <1>8, <1>9, <1>10 DEF Pair!Next, Pair!ToolStep

PairSymbols == UNION {Pair!Range(c) : c \in PairContents}

\* Whatever the files contain and however often they change: what ConfigDiff
\* compares (read_file_pair) is what both files were at one and the same time.
THEOREM ComparedWhatCoexisted == Spec => []PairCoexisted
<1>1. PairContents \subseteq Seq(PairSymbols)
  BY VerdictsAssumption DEF Pair!FilePairAssumption, PairSymbols
<1>2. Init => (tool = "configdiff" => PairIInv(PairSymbols))
  BY <1>1, StartOfOneTool, PairInitIInv
<1>3. (tool = "configdiff" => PairIInv(PairSymbols)) /\ [Next]_vars
        => (tool = "configdiff" => PairIInv(PairSymbols))'
  <2> SUFFICES ASSUME tool = "configdiff" => PairIInv(PairSymbols), [Next]_vars, tool' = "configdiff"
               PROVE  PairIInv(PairSymbols)'
    OBVIOUS
  <2>1. tool = "configdiff" /\ (Pair!Next \/ UNCHANGED Pair!vars)
    BY StepsOfOneTool
  <2> QED BY <1>1, <2>1, PairNextIInv
<1>4. (tool = "configdiff" => PairIInv(PairSymbols)) => PairCoexisted
  BY DEF PairIInv, PairCoexisted
<1> QED BY <1>2, <1>3, <1>4, PTL DEF Spec

-------------------------------------------------------------------------------
(* SvcDoctor: a unit with any states, any number of dependencies that      *)
(* change at any time, and any limit on how many of them are asked for.    *)

SvcStates == {"show", "dependencies", "journal", "limits", "assess", "report", "done"}

\* What was seen was there at some time; of the dependencies that were asked
\* for, the failed ones are those that were at one moment.
SvcIInv ==
  /\ pc \in SvcStates
  /\ deps \in [Svc!Names -> DepStates]
  /\ unit \in seen /\ shown.state \in seen
  /\ Svc!FailedAmong(deps) \in failing
  /\ failing \subseteq SUBSET Svc!Names
  /\ pc \in {"journal", "limits", "assess"} /\ failed # Svc!Unknown =>
       \E f \in failing : failed = f \intersect Svc!Range(Svc!Checked)
  /\ pc \notin {"report", "done"} => verdict = "none"
  /\ Svc!VerdictIsEstablished

LEMMA MinOfTwo ==
  ASSUME NEW a \in Nat, NEW b \in Nat
  PROVE  /\ a <= b => Svc!Min({a, b}) = a
         /\ b <= a => Svc!Min({a, b}) = b
BY DEF Svc!Min

\* Within the limit, all of the dependencies are asked for.
LEMMA SvcAllChecked ==
  ASSUME Svc!ServiceAssumption, ~Svc!Truncated
  PROVE  Svc!Range(Svc!Checked) = Svc!Names
<1>1. Fields \in Seq(Svc!Range(Fields)) /\ Len(Fields) \in Nat /\ MaxDependencies \in Nat
      /\ Len(Fields) <= MaxDependencies
  BY DEF Svc!ServiceAssumption, Svc!Truncated
<1>2. Svc!Min({Len(Fields), MaxDependencies}) = Len(Fields)
  BY <1>1, MinOfTwo
<1>3. SubSeq(Fields, 1, Len(Fields)) = Fields
  BY <1>1
<1> QED BY <1>2, <1>3, Zenon DEF Svc!Checked, Svc!Names

LEMMA SvcInit == ASSUME Svc!Init PROVE SvcIInv
BY DEF Svc!Init, SvcIInv, SvcStates, Svc!FailedAmong, Svc!VerdictIsEstablished

\* Steps after which the evidence is what it was.
LEMMA SvcSameEvidence ==
  ASSUME SvcIInv, UNCHANGED <<Svc!world, shown, failed, verdict>>,
         pc' \in SvcStates,
         pc' \in {"journal", "limits", "assess"} => pc \in {"journal", "limits", "assess"},
         pc' \in {"report", "done"} \/ verdict = "none"
  PROVE  SvcIInv'
BY Zenon DEF SvcIInv, Svc!world, Svc!FailedAmong, Svc!Checked, Svc!VerdictIsEstablished, Svc!Broken, Svc!Unknown

LEMMA SvcUnitChanges == ASSUME SvcIInv, Svc!UnitChanges PROVE SvcIInv'
<1>1. /\ deps' \in [Svc!Names -> DepStates]
      /\ unit' \in seen' /\ seen \subseteq seen' /\ failing \subseteq failing'
      /\ Svc!FailedAmong(deps') \in failing'
      /\ failing' = failing \union {Svc!FailedAmong(deps')}
      /\ UNCHANGED <<Svc!given, pc, Svc!evidence, verdict, exit>>
      /\ verdict = "none"
  BY DEF SvcIInv, Svc!UnitChanges
<1>2. Svc!FailedAmong(deps') \subseteq Svc!Names
  BY <1>1 DEF Svc!FailedAmong
<1>3. Svc!VerdictIsEstablished'
  BY <1>1 DEF Svc!VerdictIsEstablished
<1> QED
  BY <1>1, <1>2, <1>3, Zenon DEF SvcIInv, Svc!FailedAmong, Svc!Checked, Svc!Unknown, Svc!evidence

LEMMA SvcQueryDependencies == ASSUME SvcIInv, Svc!QueryDependencies PROVE SvcIInv'
<1>1. /\ pc' = "journal" /\ UNCHANGED <<Svc!world, shown, verdict>> /\ verdict = "none"
      /\ failed' # Svc!Unknown => failed' = Svc!FailedAmong(deps) \intersect Svc!Range(Svc!Checked)
  BY DEF SvcIInv, Svc!QueryDependencies
<1> QED
  BY <1>1, Zenon DEF SvcIInv, SvcStates, Svc!world, Svc!FailedAmong, Svc!Checked, Svc!Unknown, Svc!VerdictIsEstablished

\* The verdict is about the state that was shown and about the moment at which
\* the dependencies were asked for.
LEMMA SvcAssess == ASSUME Svc!ServiceAssumption, SvcIInv, Svc!Assess PROVE SvcIInv'
<1>1. /\ pc = "assess" /\ pc' = "report" /\ UNCHANGED <<Svc!world, Svc!given, Svc!evidence, exit>>
      /\ verdict' = IF Svc!Broken(shown.state) \/ Svc!FailedDependency THEN "decided"
                    ELSE IF Svc!DependencyUnknown THEN "incomplete" ELSE "otherwise"
  BY DEF Svc!Assess
<1>2. /\ shown.state \in seen /\ failing \subseteq SUBSET Svc!Names
      /\ failed # Svc!Unknown => \E f \in failing : failed = f \intersect Svc!Range(Svc!Checked)
  BY <1>1 DEF SvcIInv
<1>3. verdict' = "otherwise" =>
        \E u \in seen : ~Svc!Broken(u) /\ (u.active = "active" \/ {} \in failing)
  <2> SUFFICES ASSUME verdict' = "otherwise", shown.state.active # "active"
               PROVE  ~Svc!Broken(shown.state) /\ {} \in failing
    BY <1>1, <1>2
  <2>1. ~Svc!Broken(shown.state) /\ ~Svc!FailedDependency /\ ~Svc!DependencyUnknown
    BY <1>1
  <2>2. failed = {} /\ failed # Svc!Unknown /\ ~Svc!Truncated
    BY <2>1 DEF Svc!FailedDependency, Svc!DependencyUnknown
  <2>3. PICK f \in failing : {} = f \intersect Svc!Names
    BY <1>2, <2>2, SvcAllChecked
  <2>4. f = {}
    BY <1>2, <2>3
  <2> QED BY <2>1, <2>4
<1>4. verdict' = "decided" =>
        \E u \in seen : Svc!Broken(u) \/ (u.active # "active" /\ failing # {{}})
  <2> SUFFICES ASSUME verdict' = "decided", ~Svc!Broken(shown.state)
               PROVE  shown.state.active # "active" /\ failing # {{}}
    BY <1>2
  <2>1. shown.state.active # "active" /\ failed # {} /\ failed # Svc!Unknown
    BY <1>1 DEF Svc!FailedDependency
  <2>2. PICK f \in failing : failed = f \intersect Svc!Range(Svc!Checked)
    BY <1>2, <2>1
  <2>3. f # {}
    BY <2>1, <2>2
  <2> QED BY <2>1, <2>3
<1>5. Svc!VerdictIsEstablished'
  BY <1>1, <1>3, <1>4 DEF Svc!VerdictIsEstablished, Svc!world, Svc!Broken
<1> QED
  BY <1>1, <1>5 DEF SvcIInv, SvcStates, Svc!world, Svc!evidence, Svc!FailedAmong, Svc!Checked

LEMMA SvcStep ==
  ASSUME Svc!ServiceAssumption, SvcIInv, Svc!Next \/ UNCHANGED Svc!vars
  PROVE  SvcIInv'
<1>1. CASE Svc!UnitChanges
  BY <1>1, SvcUnitChanges
<1>2. CASE Svc!Show
  <2>1. /\ shown'.state = unit /\ pc' \in {"dependencies", "done"} /\ verdict = "none"
        /\ UNCHANGED <<Svc!world, verdict>>
    BY <1>2 DEF SvcIInv, Svc!Show, Svc!Done
  <2> QED
    BY <2>1 DEF SvcIInv, SvcStates, Svc!world, Svc!FailedAmong, Svc!VerdictIsEstablished
<1>3. CASE Svc!ShowFails \/ Svc!Interrupt \/ Svc!Report
  BY <1>3, SvcSameEvidence DEF Svc!ShowFails, Svc!Interrupt, Svc!Report, Svc!Done, Svc!evidence, SvcStates
<1>4. CASE Svc!QueryDependencies
  BY <1>4, SvcQueryDependencies
<1>5. CASE Svc!CollectJournal \/ Svc!CollectLimits
  <2>1. /\ pc \in {"journal", "limits"} /\ pc' \in {"limits", "assess"}
        /\ UNCHANGED <<Svc!world, shown, failed, verdict>>
    BY <1>5, Zenon DEF Svc!CollectJournal, Svc!CollectLimits
  <2>2. verdict = "none"
    BY <2>1 DEF SvcIInv
  <2> QED BY <2>1, <2>2, SvcSameEvidence DEF SvcStates
<1>6. CASE Svc!Assess
  BY <1>6, SvcAssess
<1>7. CASE UNCHANGED Svc!vars
  <2>1. UNCHANGED <<Svc!world, shown, failed, verdict, pc>>
    BY <1>7 DEF Svc!vars, Svc!evidence
  <2> QED BY <2>1, SvcSameEvidence DEF SvcIInv
<1> QED
  BY <1>1, <1>2, <1>3, <1>4, <1>5, <1>6, <1>7 DEF Svc!Next, Svc!ToolStep

\* Whatever the unit and its dependencies do while systemctl is asked about
\* them, "healthy" and "failed" are about a state and a moment that there were
\* (assess_service), the dependencies beyond the limit included.
THEOREM VerdictOfSomeMoment == Spec => []VerdictIsEstablished
<1>1. Init => (tool = "svcdoctor" => SvcIInv)
  BY StartOfOneTool, SvcInit
<1>2. (tool = "svcdoctor" => SvcIInv) /\ [Next]_vars => (tool = "svcdoctor" => SvcIInv)'
  <2>1. Svc!ServiceAssumption
    BY VerdictsAssumption
  <2> QED BY <2>1, StepsOfOneTool, SvcStep
<1>3. (tool = "svcdoctor" => SvcIInv) => VerdictIsEstablished
  BY DEF SvcIInv, VerdictIsEstablished
<1> QED BY <1>1, <1>2, <1>3, PTL DEF Spec

-------------------------------------------------------------------------------
(* SvcDoctor's journal: any number of entries of any number of lines, cut  *)
(* off anywhere, by induction over the lines.                              *)

\* Induction up to N: what holds of 0, and of n when it holds of n - 1.
LEMMA UpTo ==
  ASSUME NEW N \in Nat, NEW T, 0 \in T, \A n \in 1..N : n - 1 \in T => n \in T
  PROVE  \A n \in 0..N : n \in T
<1> DEFINE K == (0..N) \ T
           R == OpToRel(<, Nat)
<1> SUFFICES ASSUME K # {} PROVE FALSE
  OBVIOUS
<1>1. K \in SUBSET Nat
  OBVIOUS
<1>2. \A a, b \in Nat : a < b => <<a, b>> \in R
  BY Zenon DEF OpToRel
<1>3. IsWellFoundedOn(R, Nat)
  BY NatLessThanWellFounded, Zenon
<1> HIDE DEF R, K
<1>4. PICK n \in K : \A k \in K : ~ (<<k, n>> \in R)
  BY <1>1, <1>3, WFMin, Zenon
<1>5. n \in Nat /\ n - 1 \in Int
  BY <1>1, <1>4
<1>6. n - 1 \in K => FALSE
  <2> SUFFICES ASSUME n - 1 \in K PROVE FALSE
    OBVIOUS
  <2>1. n - 1 \in Nat /\ n - 1 < n
    BY <1>1, <1>5
  <2> QED BY <1>2, <1>4, <1>5, <2>1, Zenon
<1>7. n \in 1..N /\ n - 1 \in 0..N /\ n - 1 \in T
  BY <1>4, <1>5, <1>6 DEF K
<1> QED BY <1>4, <1>7 DEF K

\* f starts with b and goes from each value to the next.
StepsOver(S, N) == [(1..N) \X S -> S]
Follows(f, S, N, b, next) ==
  f \in [0..N -> S] /\ f[0] = b /\ \A n \in 1..N : f[n] = next[<<n, f[n - 1]>>]

\* A function over 0..N may be defined by its value at 0 and from each to the next.
LEMMA RecursionExists ==
  ASSUME NEW S, NEW b \in S, NEW N \in Nat, NEW next \in StepsOver(S, N)
  PROVE  \E f : Follows(f, S, N, b, next)
<1> USE DEF StepsOver
<1> DEFINE Is(f, n) == f \in [0..n -> S] /\ f[0] = b /\ \A m \in 1..n : f[m] = next[<<m, f[m - 1]>>]
           T == {n \in 0..N : \E f : Is(f, n)}
<1>1. 0 \in T
  <2> DEFINE f == [m \in 0..0 |-> b]
  <2>1. Is(f, 0)
    OBVIOUS
  <2> HIDE DEF f, Is
  <2> QED BY <2>1
<1>2. ASSUME NEW n \in 1..N, n - 1 \in T PROVE n \in T
  <2>1. PICK f : Is(f, n - 1)
    BY <1>2
  <2> DEFINE g == [m \in 0..n |-> IF m < n THEN f[m] ELSE next[<<n, f[n - 1]>>]]
  <2>2. n - 1 \in 0..(n - 1) /\ f[n - 1] \in S
    BY <2>1
  <2>3. next[<<n, f[n - 1]>>] \in S
    BY <2>2
  <2>4. g \in [0..n -> S] /\ g[0] = b
    BY <2>1, <2>3
  <2>5. (\A m \in 0..(n - 1) : g[m] = f[m]) /\ g[n] = next[<<n, f[n - 1]>>]
    OBVIOUS
  <2>6. ASSUME NEW m \in 1..n PROVE g[m] = next[<<m, g[m - 1]>>]
    <3>1. m - 1 \in 0..(n - 1) /\ (m = n \/ m \in 1..(n - 1))
      OBVIOUS
    <3> HIDE DEF g
    <3>2. CASE m = n
      BY <2>5, <3>1, <3>2
    <3>3. CASE m \in 1..(n - 1)
      BY <2>1, <2>5, <3>1, <3>3
    <3> QED BY <3>1, <3>2, <3>3
  <2>7. Is(g, n)
    <3> HIDE DEF g
    <3> QED BY <2>4, <2>6
  <2> HIDE DEF g, Is
  <2> QED BY <2>7
<1>3. N \in T
  <2>1. \A n \in 1..N : n - 1 \in T => n \in T
    BY <1>2, Zenon
  <2> HIDE DEF T
  <2> QED BY <1>1, <2>1, UpTo
<1> QED BY <1>3 DEF Follows

\* A line of the journal, and an entry's first n lines.
SvcLine == Nat \X Nat
SvcFirst(e, n) == [k \in 1..n |-> <<e, k>>]

\* An entry's first n lines are n lines.
LEMMA SvcFirstType ==
  ASSUME NEW e \in Nat, NEW n \in Nat
  PROVE  /\ SvcFirst(e, n) \in Seq(SvcLine) /\ Len(SvcFirst(e, n)) = n
         /\ \A k \in 1..n : SvcFirst(e, n)[k] = <<e, k>>
<1>1. \A k \in 1..n : <<e, k>> \in SvcLine
  BY DEF SvcLine
<1>2. SvcFirst(e, n) \in [1..n -> SvcLine]
  BY <1>1 DEF SvcFirst
<1>3. SvcFirst(e, n) \in Seq(SvcLine) /\ Len(SvcFirst(e, n)) = n
  <2> DEFINE f == SvcFirst(e, n)
  <2> HIDE DEF f
  <2>1. f \in [1..n -> SvcLine]
    BY <1>2 DEF f
  <2>2. f \in Seq(SvcLine) /\ Len(f) = n
    BY <2>1
  <2> QED BY <2>2 DEF f
<1> QED BY <1>3 DEF SvcFirst

\* Reversed goes through the entries from the oldest.
LEMMA SvcReversedSteps ==
  ASSUME written \in Seq(Nat \ {0})
  PROVE  \E newest \in [0..Len(written) -> Seq(SvcLine)] :
           /\ newest[0] = << >>
           /\ \A e \in 1..Len(written) : newest[e] = SvcFirst(e, written[e]) \o newest[e - 1]
           /\ Svc!Reversed = newest[Len(written)]
<1> DEFINE N == Len(written)
           S == Seq(SvcLine)
           Step(e, s) == SvcFirst(e, written[e]) \o s
           Is(f) == f = [e \in 0..Len(written) |-> IF e = 0 THEN << >> ELSE Svc!Entry(e) \o f[e - 1]]
           next == [x \in (1..N) \X S |-> Step(x[1], x[2])]
           newest == CHOOSE f : Is(f)
<1>1. Svc!Reversed = newest[Len(written)]
  BY Zenon DEF Svc!Reversed
<1>2. << >> \in S /\ N \in Nat
  OBVIOUS
<1>3. ASSUME NEW e \in 1..N, NEW s \in S PROVE Step(e, s) \in S
  <2>1. written[e] \in Nat /\ e \in Nat
    BY <1>2
  <2>2. SvcFirst(e, written[e]) \in Seq(SvcLine)
    BY <2>1, SvcFirstType, Zenon
  <2>3. s \in Seq(SvcLine)
    OBVIOUS
  <2> QED BY <2>2, <2>3
<1>4. \A e \in 1..N : Svc!Entry(e) = SvcFirst(e, written[e])
  BY DEF Svc!Entry, SvcFirst
<1> HIDE DEF Step, S
<1>5. next \in StepsOver(S, N)
  BY <1>3 DEF StepsOver
<1>6. \A e \in 1..N, s \in S : next[<<e, s>>] = Step(e, s)
  OBVIOUS
<1> HIDE DEF next
<1>7. PICK f : Follows(f, S, N, << >>, next)
  BY <1>2, <1>5, RecursionExists, Zenon
<1>8. ASSUME NEW e \in 1..N PROVE e - 1 \in 0..N /\ f[e] = Step(e, f[e - 1])
  <2>1. e - 1 \in 0..N /\ f[e - 1] \in S
    BY <1>2, <1>7 DEF Follows
  <2> QED BY <1>6, <1>7, <2>1, Zenon DEF Follows
<1>9. Is(f)
  <2>1. f = [e \in 0..N |-> f[e]]
    BY <1>7 DEF Follows
  <2>2. \A e \in 0..N : f[e] = IF e = 0 THEN << >> ELSE Svc!Entry(e) \o f[e - 1]
    <3> HIDE DEF N
    <3>1. \A e \in 0..N : e = 0 \/ e \in 1..N
      BY <1>2
    <3> QED BY <1>4, <1>7, <1>8, <3>1, Zenon DEF Step, Follows
  <2> QED BY <2>1, <2>2, Zenon
<1>10. Is(newest)
  <2> HIDE DEF Is
  <2> QED BY <1>9
<1> HIDE DEF newest
<1>11. newest[0] = << >> /\ newest = [e \in 0..N |-> newest[e]] /\ \A e \in 1..N : e - 1 \in 0..N /\ newest[e] = Step(e, newest[e - 1])
  <2>1. newest = [e \in 0..N |-> IF e = 0 THEN << >> ELSE Svc!Entry(e) \o newest[e - 1]]
    BY <1>10, Zenon
  <2> DEFINE G(e, s) == Svc!Entry(e) \o s
  <2>10. newest = [e \in 0..N |-> IF e = 0 THEN << >> ELSE G(e, newest[e - 1])]
    BY <2>1, Zenon
  <2> HIDE DEF N, G
  <2>2. newest[0] = << >> /\ newest = [e \in 0..N |-> newest[e]]
    BY <1>2, <2>10
  <2>3. \A e \in 1..N : e - 1 \in 0..N /\ newest[e] = G(e, newest[e - 1])
    BY <1>2, <2>10
  <2> QED BY <1>4, <2>2, <2>3, Zenon DEF Step, G
<1>12. \A e \in 0..N : newest[e] \in S
  <2> DEFINE T == {e \in 0..N : newest[e] \in S}
  <2>1. 0 \in T
    BY <1>2, <1>11
  <2>2. \A e \in 1..N : e - 1 \in T => e \in T
    <3> HIDE DEF N
    <3> SUFFICES ASSUME NEW e \in 1..N, newest[e - 1] \in S PROVE newest[e] \in S
      BY <1>2
    <3> QED BY <1>3, <1>11
  <2> HIDE DEF T, N
  <2>3. \A e \in 0..N : e \in T
    BY <1>2, <2>1, <2>2, UpTo, Zenon
  <2> QED BY <2>3 DEF T
<1>13. newest \in [0..N -> S]
  BY <1>11, <1>12
<1> QED BY <1>1, <1>11, <1>13, Zenon DEF N, S, Step

\* What the next line does to the entries that were turned round so far.
SvcTurn(line, t) ==
  IF t.entry # << >> /\ line[2] > 1
  THEN [entry |-> Append(t.entry, line), later |-> t.later]
  ELSE [entry |-> <<line>>, later |-> t.entry \o t.later]

\* The entry in progress, and the lines of those that came before it in the output.
SvcTurns == [entry : Seq(SvcLine), later : Seq(SvcLine)]
SvcNoTurn == [entry |-> << >>, later |-> << >>]

\* Entries that are turned round stay sequences of lines.
LEMMA SvcTurnType ==
  ASSUME NEW line \in SvcLine, NEW t \in SvcTurns PROVE SvcTurn(line, t) \in SvcTurns
<1>1. t.entry \in Seq(SvcLine) /\ t.later \in Seq(SvcLine)
  BY DEF SvcTurns
<1>2. Append(t.entry, line) \in Seq(SvcLine) /\ <<line>> \in Seq(SvcLine) /\ t.entry \o t.later \in Seq(SvcLine)
  <2> DEFINE a == t.entry
             b == t.later
  <2> HIDE DEF a, b
  <2>1. a \in Seq(SvcLine) /\ b \in Seq(SvcLine)
    BY <1>1 DEF a, b
  <2>2. Append(a, line) \in Seq(SvcLine) /\ <<line>> \in Seq(SvcLine) /\ a \o b \in Seq(SvcLine)
    BY <2>1
  <2> QED BY <2>2 DEF a, b
<1> QED BY <1>1, <1>2 DEF SvcTurn, SvcTurns

\* Chronological goes through the lines one by one.
LEMMA SvcTurnedSteps ==
  ASSUME NEW s \in Seq(SvcLine)
  PROVE  \E turned \in [0..Len(s) -> SvcTurns] :
           /\ turned[0] = SvcNoTurn
           /\ \A n \in 1..Len(s) : turned[n] = SvcTurn(s[n], turned[n - 1])
           /\ Svc!Chronological(s) = turned[Len(s)].entry \o turned[Len(s)].later
<1> DEFINE N == Len(s)
           S == SvcTurns
           Step(n, t) == SvcTurn(s[n], t)
           Is(f) == f = [n \in 0..Len(s) |->
                           IF n = 0 THEN [entry |-> << >>, later |-> << >>]
                           ELSE LET t == f[n - 1]
                                IN IF t.entry # << >> /\ s[n][2] > 1
                                   THEN [entry |-> Append(t.entry, s[n]), later |-> t.later]
                                   ELSE [entry |-> <<s[n]>>, later |-> t.entry \o t.later]]
           next == [x \in (1..N) \X S |-> Step(x[1], x[2])]
           turned == CHOOSE f : Is(f)
<1>1. Svc!Chronological(s) = turned[Len(s)].entry \o turned[Len(s)].later
  BY Zenon DEF Svc!Chronological
<1>2. SvcNoTurn \in S /\ N \in Nat
  BY DEF SvcNoTurn, SvcTurns
<1>3. ASSUME NEW n \in 1..N, NEW t \in S PROVE Step(n, t) \in S
  <2>1. s[n] \in SvcLine
    OBVIOUS
  <2> QED BY <2>1, SvcTurnType
<1>4. \A f : Is(f) <=> f = [n \in 0..N |-> IF n = 0 THEN SvcNoTurn ELSE Step(n, f[n - 1])]
  BY DEF SvcNoTurn, SvcTurn
<1> HIDE DEF Step, S, Is
<1>5. next \in StepsOver(S, N)
  BY <1>3 DEF StepsOver
<1>6. \A n \in 1..N, t \in S : next[<<n, t>>] = Step(n, t)
  OBVIOUS
<1> HIDE DEF next
<1>7. PICK f : Follows(f, S, N, SvcNoTurn, next)
  BY <1>2, <1>5, RecursionExists, Zenon
<1>8. ASSUME NEW n \in 1..N PROVE n - 1 \in 0..N /\ f[n] = Step(n, f[n - 1])
  <2>1. n - 1 \in 0..N /\ f[n - 1] \in S
    BY <1>2, <1>7 DEF Follows
  <2> QED BY <1>6, <1>7, <2>1 DEF Follows
<1>9. Is(f)
  <2>1. f = [n \in 0..N |-> f[n]]
    BY <1>7 DEF Follows
  <2>2. \A n \in 0..N : f[n] = IF n = 0 THEN SvcNoTurn ELSE Step(n, f[n - 1])
    <3> HIDE DEF N
    <3>1. \A n \in 0..N : n = 0 \/ n \in 1..N
      BY <1>2
    <3> QED BY <1>7, <1>8, <3>1 DEF Follows
  <2> QED BY <1>4, <2>1, <2>2
<1>10. Is(turned)
  BY <1>9
<1> HIDE DEF turned
<1>11. turned[0] = SvcNoTurn /\ turned = [n \in 0..N |-> turned[n]]
       /\ \A n \in 1..N : n - 1 \in 0..N /\ turned[n] = Step(n, turned[n - 1])
  <2>1. turned = [n \in 0..N |-> IF n = 0 THEN SvcNoTurn ELSE Step(n, turned[n - 1])]
    BY <1>4, <1>10
  <2> HIDE DEF N
  <2>2. turned[0] = SvcNoTurn /\ turned = [n \in 0..N |-> turned[n]]
    BY <1>2, <2>1
  <2>3. \A n \in 1..N : n - 1 \in 0..N /\ turned[n] = Step(n, turned[n - 1])
    BY <1>2, <2>1
  <2> QED BY <2>2, <2>3, Zenon
<1>12. \A n \in 0..N : turned[n] \in S
  <2> DEFINE T == {n \in 0..N : turned[n] \in S}
  <2>1. 0 \in T
    BY <1>2, <1>11
  <2>2. \A n \in 1..N : n - 1 \in T => n \in T
    <3> HIDE DEF N
    <3> SUFFICES ASSUME NEW n \in 1..N, turned[n - 1] \in S PROVE turned[n] \in S
      BY <1>2
    <3> QED BY <1>3, <1>11, Zenon
  <2> HIDE DEF T, N
  <2>3. \A n \in 0..N : n \in T
    BY <1>2, <2>1, <2>2, UpTo, Zenon
  <2> QED BY <2>3 DEF T
<1>13. turned \in [0..N -> S]
  BY <1>11, <1>12
<1> QED BY <1>1, <1>11, <1>13, Zenon DEF N, S, Step

\* journalctl --reverse shows y right after x: the entry goes on, or the one
\* before it, which is older, begins.
SvcAfter(x, y) == y = IF x[2] < written[x[1]] THEN <<x[1], x[2] + 1>> ELSE <<x[1] - 1, 1>>

\* s are all lines of the entries up to e, the newest entry first.
SvcNewest(s, e) ==
  /\ s \in Seq(SvcLine)
  /\ \A i \in 1..Len(s) : s[i][1] \in 1..e /\ s[i][2] \in 1..written[s[i][1]]
  /\ e = 0 => Len(s) = 0
  /\ e > 0 => Len(s) > 0 /\ s[1] = <<e, 1>>
  /\ \A i \in 1..(Len(s) - 1) : SvcAfter(s[i], s[i + 1])

\* The lines c are those of a, and then those of s.
SvcJoined(a, s, c) ==
  /\ c \in Seq(SvcLine) /\ Len(c) = Len(a) + Len(s)
  /\ \A i \in 1..Len(a) : c[i] = a[i]
  /\ \A i \in 1..Len(s) : c[Len(a) + i] = s[i]

\* What \o joins.
LEMMA SvcConcat ==
  ASSUME NEW a \in Seq(SvcLine), NEW s \in Seq(SvcLine)
  PROVE  SvcJoined(a, s, a \o s)
<1>1. a \o s \in Seq(SvcLine) /\ Len(a \o s) = Len(a) + Len(s)
  OBVIOUS
<1>2. \A i \in 1..Len(a) : (a \o s)[i] = a[i]
  OBVIOUS
<1>3. \A i \in 1..Len(s) : (a \o s)[Len(a) + i] = s[i]
  OBVIOUS
<1> QED BY <1>1, <1>2, <1>3 DEF SvcJoined

\* An entry more comes first.
LEMMA SvcNewestNext ==
  ASSUME written \in Seq(Nat \ {0}), NEW e \in 1..Len(written), NEW s, SvcNewest(s, e - 1)
  PROVE  SvcNewest(SvcFirst(e, written[e]) \o s, e)
<1> DEFINE w == written[e]
           a == SvcFirst(e, w)
           b == a \o s
<1>1. w \in Nat \ {0} /\ e \in Nat /\ e > 0 /\ e - 1 \in Nat
  OBVIOUS
<1>2. a \in Seq(SvcLine) /\ Len(a) = w /\ \A k \in 1..w : a[k] = <<e, k>>
  BY <1>1, SvcFirstType, Zenon
<1>3. s \in Seq(SvcLine) /\ Len(s) \in Nat
  BY DEF SvcNewest
<1> HIDE DEF w, a
<1>4. /\ b \in Seq(SvcLine) /\ Len(b) = w + Len(s)
      /\ \A i \in 1..w : b[i] = a[i]
      /\ \A i \in 1..Len(s) : b[w + i] = s[i]
  <2>1. a \in Seq(SvcLine) /\ s \in Seq(SvcLine)
    BY <1>2, <1>3
  <2>2. SvcJoined(a, s, b)
    BY <2>1, SvcConcat, Zenon
  <2> HIDE DEF b
  <2> QED BY <1>2, <2>2 DEF SvcJoined
<1> HIDE DEF b
<1>5. \A i \in 1..Len(b) : i \in 1..w \/ \E j \in 1..Len(s) : i = w + j
  <2> SUFFICES ASSUME NEW i \in 1..Len(b), i > w PROVE \E j \in 1..Len(s) : i = w + j
    BY <1>1, <1>3, <1>4
  <2>1. i - w \in 1..Len(s) /\ i = w + (i - w)
    BY <1>1, <1>3, <1>4
  <2> QED BY <2>1
<1>6. ASSUME NEW i \in 1..Len(b) PROVE b[i][1] \in 1..e /\ b[i][2] \in 1..written[b[i][1]]
  <2>1. CASE i \in 1..w
    <3>1. b[i] = <<e, i>>
      BY <1>2, <1>4, <2>1, Zenon
    <3> QED BY <1>1, <2>1, <3>1 DEF w
  <2>2. CASE \E j \in 1..Len(s) : i = w + j
    <3>1. PICK j \in 1..Len(s) : i = w + j
      BY <2>2
    <3>2. b[i] = s[j] /\ s[j][1] \in 1..(e - 1) /\ s[j][2] \in 1..written[s[j][1]]
      BY <1>4, <3>1 DEF SvcNewest
    <3> QED BY <1>1, <3>2
  <2> QED BY <1>5, <2>1, <2>2
<1>7. Len(b) > 0 /\ b[1] = <<e, 1>>
  BY <1>1, <1>2, <1>3, <1>4
<1>8. ASSUME NEW i \in 1..(Len(b) - 1) PROVE SvcAfter(b[i], b[i + 1])
  <2>1. CASE i \in 1..(w - 1)
    <3>1. i \in 1..w /\ i + 1 \in 1..w /\ i < w
      BY <1>1, <2>1
    <3>2. b[i] = <<e, i>> /\ b[i + 1] = <<e, i + 1>>
      BY <1>2, <1>4, <3>1, Zenon
    <3> QED BY <3>1, <3>2 DEF SvcAfter, w
  <2>2. CASE i = w
    <3>1. Len(s) > 0
      BY <1>1, <1>3, <1>4, <2>2
    <3>2. s[1] = <<e - 1, 1>>
      BY <1>1, <3>1 DEF SvcNewest
    <3>3. 1 \in 1..Len(s) /\ w \in 1..w
      BY <1>1, <1>3, <3>1
    <3>4. b[w] = <<e, w>> /\ b[w + 1] = <<e - 1, 1>>
      BY <1>2, <1>4, <3>2, <3>3, Zenon
    <3>5. ~(w < w)
      BY <1>1
    <3> QED BY <2>2, <3>4, <3>5 DEF SvcAfter, w
  <2>3. CASE i > w
    <3>1. i - w \in 1..(Len(s) - 1) /\ (i - w) + 1 \in 1..Len(s) /\ i - w \in 1..Len(s)
          /\ i = w + (i - w) /\ i + 1 = w + ((i - w) + 1)
      BY <1>1, <1>3, <1>4, <2>3
    <3>2. PICK j \in 1..(Len(s) - 1) : j + 1 \in 1..Len(s) /\ j \in 1..Len(s) /\ i = w + j /\ i + 1 = w + (j + 1)
      BY <3>1
    <3>3. b[i] = s[j] /\ b[i + 1] = s[j + 1]
      BY <1>4, <3>2, Zenon
    <3>4. SvcAfter(s[j], s[j + 1])
      BY DEF SvcNewest
    <3> QED BY <3>3, <3>4
  <2>4. i \in 1..(w - 1) \/ i = w \/ i > w
    BY <1>1
  <2> QED BY <2>1, <2>2, <2>3, <2>4
<1>9. SvcNewest(b, e)
  BY <1>1, <1>4, <1>6, <1>7, <1>8 DEF SvcNewest
<1> QED BY <1>9 DEF b, a, w

\* What journalctl --reverse has to show.
LEMMA SvcReversed ==
  ASSUME written \in Seq(Nat \ {0})
  PROVE  SvcNewest(Svc!Reversed, Len(written))
<1> DEFINE N == Len(written)
<1>1. PICK newest \in [0..N -> Seq(SvcLine)] :
        /\ newest[0] = << >>
        /\ \A e \in 1..N : newest[e] = SvcFirst(e, written[e]) \o newest[e - 1]
        /\ Svc!Reversed = newest[N]
  BY SvcReversedSteps, Zenon
<1> DEFINE T == {e \in 0..N : SvcNewest(newest[e], e)}
<1>2. N \in Nat
  OBVIOUS
<1>3. 0 \in T
  <2>1. SvcNewest(newest[0], 0)
    BY <1>1 DEF SvcNewest
  <2> QED BY <1>2, <2>1
<1>4. ASSUME NEW e \in 1..N, e - 1 \in T PROVE e \in T
  <2>1. SvcNewest(newest[e - 1], e - 1)
    BY <1>4
  <2>2. SvcNewest(newest[e], e)
    BY <1>1, <2>1, SvcNewestNext, Zenon
  <2> QED BY <1>2, <2>2
<1>5. \A e \in 1..N : e - 1 \in T => e \in T
  BY <1>4
<1> HIDE DEF T, N
<1>6. N \in T
  <2>1. \A e \in 0..N : e \in T
    BY <1>2, <1>3, <1>5, UpTo, Zenon
  <2> QED BY <1>2, <2>1
<1> QED BY <1>1, <1>6 DEF T, N

\* The journal's own order.
SvcBefore(x, y) == x[1] < y[1] \/ (x[1] = y[1] /\ x[2] < y[2])
SvcOrdered(j) == \A i, k \in 1..Len(j) : i < k => SvcBefore(j[i], j[k])

\* In j is no line but of the journal's entries from e on.
SvcFrom(j, e) == \A i \in 1..Len(j) : j[i][1] \in e..Len(written) /\ j[i][2] \in 1..written[j[i][1]]

\* In j are the first n lines of the entry e.
SvcHas(j, e, n) == \A k \in 1..n : \E i \in 1..Len(j) : j[i] = <<e, k>>

\* j are all lines of the entries after e, in order.
SvcWhole(j, e) ==
  /\ j \in Seq(SvcLine) /\ SvcOrdered(j) /\ SvcFrom(j, e + 1)
  /\ \A a \in (e + 1)..Len(written) : SvcHas(j, a, written[a])

\* j are the first n lines of the entry e and all lines of those after it, in order.
SvcEndAt(j, e, n) ==
  /\ j \in Seq(SvcLine) /\ SvcOrdered(j) /\ SvcFrom(j, e)
  /\ \A i \in 1..Len(j) : j[i][1] = e => j[i][2] <= n
  /\ SvcHas(j, e, n)
  /\ \A a \in (e + 1)..Len(written) : SvcHas(j, a, written[a])

\* The first lines of an entry before all of those after it are an end of the journal.
LEMMA SvcAddFront ==
  ASSUME written \in Seq(Nat \ {0}), NEW e \in 1..Len(written), NEW n \in 1..written[e], NEW j, SvcWhole(j, e)
  PROVE  /\ SvcEndAt(SvcFirst(e, n) \o j, e, n)
         /\ Len(SvcFirst(e, n) \o j) = n + Len(j)
<1> DEFINE a == SvcFirst(e, n)
           c == a \o j
<1>1. Len(written) \in Nat /\ e \in Nat /\ written[e] \in Nat /\ n \in Nat
  OBVIOUS
<1>2. a \in Seq(SvcLine) /\ Len(a) = n /\ \A k \in 1..n : a[k] = <<e, k>>
  BY <1>1, SvcFirstType, Zenon
<1>3. j \in Seq(SvcLine) /\ Len(j) \in Nat /\ SvcOrdered(j) /\ SvcFrom(j, e + 1)
      /\ \A b \in (e + 1)..Len(written) : SvcHas(j, b, written[b])
  BY DEF SvcWhole
<1> HIDE DEF a
<1>4. SvcJoined(a, j, c)
  BY <1>2, <1>3, SvcConcat, Zenon
<1> HIDE DEF c
<1>5. /\ c \in Seq(SvcLine) /\ Len(c) = n + Len(j)
      /\ \A i \in 1..n : c[i] = <<e, i>>
      /\ \A i \in 1..Len(j) : c[n + i] = j[i]
  BY <1>2, <1>4 DEF SvcJoined
<1>6. \A i \in 1..Len(c) : i \in 1..n \/ \E k \in 1..Len(j) : i = n + k
  <2>1. \A i \in 1..Len(c) : i \in 1..n \/ i > n
    BY <1>1, <1>3, <1>5
  <2> SUFFICES ASSUME NEW i \in 1..Len(c), i > n PROVE \E k \in 1..Len(j) : i = n + k
    BY <2>1
  <2>2. i - n \in 1..Len(j) /\ i = n + (i - n)
    BY <1>1, <1>3, <1>5
  <2> QED BY <2>2
<1>7. \A k \in 1..Len(j) : j[k][1] \in (e + 1)..Len(written) /\ j[k][2] \in 1..written[j[k][1]]
  BY <1>3 DEF SvcFrom
<1>8. ASSUME NEW i \in 1..Len(c), NEW k \in 1..Len(c), i < k PROVE SvcBefore(c[i], c[k])
  <2>1. CASE i \in 1..n /\ k \in 1..n
    <3>1. c[i] = <<e, i>> /\ c[k] = <<e, k>>
      BY <1>5, <2>1, Zenon
    <3> QED BY <1>1, <1>8, <3>1 DEF SvcBefore
  <2>2. CASE i \in 1..n /\ \E m \in 1..Len(j) : k = n + m
    <3>1. PICK m \in 1..Len(j) : k = n + m
      BY <2>2
    <3>2. c[i] = <<e, i>> /\ c[k] = j[m] /\ j[m][1] \in (e + 1)..Len(written)
      BY <1>5, <1>7, <2>2, <3>1, Zenon
    <3>3. e < j[m][1]
      BY <1>1, <3>2
    <3> QED BY <3>2, <3>3 DEF SvcBefore
  <2>3. CASE (\E l \in 1..Len(j) : i = n + l) /\ \E m \in 1..Len(j) : k = n + m
    <3>1. PICK l \in 1..Len(j), m \in 1..Len(j) : i = n + l /\ k = n + m
      BY <2>3
    <3>2. c[i] = j[l] /\ c[k] = j[m] /\ l < m
      BY <1>1, <1>5, <1>8, <3>1
    <3> QED BY <1>3, <3>2 DEF SvcOrdered
  <2>4. CASE (\E l \in 1..Len(j) : i = n + l) /\ k \in 1..n
    BY <1>1, <1>8, <2>4
  <2> QED BY <1>6, <2>1, <2>2, <2>3, <2>4
<1>9. ASSUME NEW i \in 1..Len(c)
      PROVE  c[i][1] \in e..Len(written) /\ c[i][2] \in 1..written[c[i][1]] /\ (c[i][1] = e => c[i][2] <= n)
  <2>1. CASE i \in 1..n
    <3>1. c[i] = <<e, i>>
      BY <1>5, <2>1
    <3> QED BY <1>1, <2>1, <3>1
  <2>2. CASE \E m \in 1..Len(j) : i = n + m
    <3>1. PICK m \in 1..Len(j) : i = n + m
      BY <2>2
    <3>2. c[i] = j[m] /\ j[m][1] \in (e + 1)..Len(written) /\ j[m][2] \in 1..written[j[m][1]]
      BY <1>5, <1>7, <3>1
    <3>3. \A x \in (e + 1)..Len(written) : x \in e..Len(written) /\ x # e
      BY <1>1
    <3> QED BY <3>2, <3>3, Zenon
  <2> QED BY <1>6, <2>1, <2>2
<1>10. SvcHas(c, e, n)
  <2> SUFFICES ASSUME NEW k \in 1..n PROVE \E i \in 1..Len(c) : c[i] = <<e, k>>
    BY Zenon DEF SvcHas
  <2>1. k \in 1..Len(c) /\ c[k] = <<e, k>>
    BY <1>1, <1>3, <1>5
  <2> QED BY <2>1
<1>11. ASSUME NEW b \in (e + 1)..Len(written) PROVE SvcHas(c, b, written[b])
  <2> SUFFICES ASSUME NEW k \in 1..written[b] PROVE \E i \in 1..Len(c) : c[i] = <<b, k>>
    BY Zenon DEF SvcHas
  <2>1. PICK i \in 1..Len(j) : j[i] = <<b, k>>
    BY <1>3, Zenon DEF SvcHas
  <2>2. c[n + i] = <<b, k>>
    BY <1>5, <2>1, Zenon
  <2>3. n + i \in 1..Len(c)
    BY <1>1, <1>3, <1>5
  <2> QED BY <2>2, <2>3, Zenon
<1>12. SvcOrdered(c) /\ SvcFrom(c, e)
  BY <1>8, <1>9 DEF SvcOrdered, SvcFrom
<1>13. SvcEndAt(c, e, n)
  BY <1>5, <1>9, <1>10, <1>11, <1>12, Zenon DEF SvcEndAt
<1> QED BY <1>5, <1>13 DEF c, a

\* An entry that is there with all its lines makes the ones after the entry
\* before it complete.
LEMMA SvcEntryDone ==
  ASSUME written \in Seq(Nat \ {0}), NEW e \in 1..Len(written), NEW j, SvcEndAt(j, e, written[e])
  PROVE  SvcWhole(j, e - 1)
<1>1. (e - 1) + 1 = e
  OBVIOUS
<1>2. j \in Seq(SvcLine) /\ SvcOrdered(j) /\ SvcFrom(j, e)
      /\ SvcHas(j, e, written[e]) /\ \A a \in (e + 1)..Len(written) : SvcHas(j, a, written[a])
  BY DEF SvcEndAt
<1>3. ASSUME NEW a \in e..Len(written) PROVE SvcHas(j, a, written[a])
  <2>1. a = e \/ a \in (e + 1)..Len(written)
    OBVIOUS
  <2> QED BY <1>2, <2>1
<1> QED BY <1>1, <1>2, <1>3 DEF SvcWhole

\* p are the first lines that journalctl --reverse shows.
SvcShown(p) ==
  /\ p \in Seq(SvcLine)
  /\ \A i \in 1..Len(p) : p[i][1] \in 1..Len(written) /\ p[i][2] \in 1..written[p[i][1]]
  /\ Len(p) > 0 => p[1] = <<Len(written), 1>>
  /\ \A i \in 1..(Len(p) - 1) : SvcAfter(p[i], p[i + 1])

\* t are the first n lines of p with their entries turned round.
SvcTurnedTo(t, p, n) ==
  /\ n = 0 => t = SvcNoTurn
  /\ n > 0 => /\ t.entry = SvcFirst(p[n][1], p[n][2])
              /\ SvcWhole(t.later, p[n][1])
              /\ p[n][2] + Len(t.later) = n

\* An entry begins with one line and goes on with the next.
LEMMA SvcFirstNext ==
  ASSUME NEW e \in Nat, NEW k \in Nat
  PROVE  /\ <<<<e, 1>>>> = SvcFirst(e, 1)
         /\ Append(SvcFirst(e, k), <<e, k + 1>>) = SvcFirst(e, k + 1)
         /\ k > 0 => SvcFirst(e, k) # << >>
<1>1. <<<<e, 1>>>> = SvcFirst(e, 1)
  <2> DEFINE x == <<e, 1>>
             f == SvcFirst(e, 1)
  <2>0. 1 \in Nat /\ 1 \in 1..1
    OBVIOUS
  <2>1. f \in Seq(SvcLine) /\ Len(f) = 1 /\ f[1] = x
    BY <2>0, SvcFirstType, Zenon
  <2> HIDE DEF f, x
  <2>2. f = <<x>>
    BY <2>1
  <2> QED BY <2>2 DEF f, x
<1>2. Append(SvcFirst(e, k), <<e, k + 1>>) = SvcFirst(e, k + 1)
  <2> DEFINE x == <<e, k + 1>>
             f == SvcFirst(e, k)
             g == SvcFirst(e, k + 1)
  <2>0. k + 1 \in Nat /\ x \in SvcLine
    BY DEF SvcLine
  <2>1. f \in Seq(SvcLine) /\ Len(f) = k /\ \A i \in 1..k : f[i] = <<e, i>>
    BY SvcFirstType
  <2>2. g \in Seq(SvcLine) /\ Len(g) = k + 1 /\ \A i \in 1..(k + 1) : g[i] = <<e, i>>
    BY <2>0, SvcFirstType
  <2>5. k + 1 \in 1..(k + 1) /\ \A i \in 1..k : i \in 1..(k + 1)
    BY <2>0
  <2>3. g[k + 1] = x /\ \A i \in 1..k : g[i] = f[i]
    BY <2>1, <2>2, <2>5, Zenon
  <2> HIDE DEF f, g, x
  <2>4. Append(f, x) = g
    BY <2>0, <2>1, <2>2, <2>3
  <2> QED BY <2>4 DEF f, g, x
<1>3. k > 0 => SvcFirst(e, k) # << >>
  <2> SUFFICES ASSUME k > 0, SvcFirst(e, k) = << >> PROVE FALSE
    OBVIOUS
  <2>1. Len(SvcFirst(e, k)) = k
    BY SvcFirstType
  <2> QED BY <2>1
<1> QED BY <1>1, <1>2, <1>3

\* The next line extends what was turned round to an end of the journal by one.
LEMMA SvcTurnedNext ==
  ASSUME written \in Seq(Nat \ {0}), NEW p, SvcShown(p), NEW n \in 1..Len(p),
         NEW t \in SvcTurns, SvcTurnedTo(t, p, n - 1)
  PROVE  SvcTurnedTo(SvcTurn(p[n], t), p, n)
<1> DEFINE y == p[n]
           r == SvcTurn(y, t)
           N == Len(written)
<1>1. /\ N \in Nat /\ n \in Nat /\ n > 0 /\ Len(p) \in Nat
      /\ \A i \in 1..Len(p) : p[i][1] \in 1..N /\ p[i][2] \in 1..written[p[i][1]]
      /\ \A i \in 1..N : written[i] \in Nat \ {0}
  BY DEF SvcShown
<1>2. t.entry \in Seq(SvcLine) /\ t.later \in Seq(SvcLine)
  BY DEF SvcTurns
<1>3. CASE n = 1
  <2>1. y = <<N, 1>> /\ t = SvcNoTurn
    <3>1. Len(p) > 0
      BY <1>1
    <3> QED BY <1>3, <3>1 DEF SvcShown, SvcTurnedTo
  <2>2. t.entry = << >> /\ t.later = << >>
    BY <2>1 DEF SvcNoTurn
  <2>3. r = [entry |-> <<y>>, later |-> t.entry \o t.later]
    BY <2>2 DEF SvcTurn
  <2>4. t.entry \o t.later = << >>
    BY <2>2
  <2>5. r.entry = SvcFirst(N, 1) /\ r.later = << >>
    <3>1. <<<<N, 1>>>> = SvcFirst(N, 1)
      BY <1>1, SvcFirstNext, Zenon
    <3> HIDE DEF r, N, y
    <3> QED BY <2>1, <2>3, <2>4, <3>1
  <2>6. SvcWhole(<< >>, N)
    <3>1. \A a \in (N + 1)..N : FALSE
      BY <1>1
    <3> QED BY <3>1 DEF SvcWhole, SvcOrdered, SvcFrom
  <2>7. y[1] = N /\ y[2] = 1
    BY <2>1
  <2> HIDE DEF r, N, y
  <2>8. Len(r.later) = 0
    BY <2>5
  <2>9. r.entry = SvcFirst(y[1], y[2]) /\ SvcWhole(r.later, y[1]) /\ y[2] + Len(r.later) = n
    BY <1>3, <2>5, <2>6, <2>7, <2>8
  <2> QED BY <1>3, <2>9 DEF SvcTurnedTo, y, r
<1>4. CASE n > 1
  <2> DEFINE x == p[n - 1]
             e == x[1]
             k == x[2]
  <2>1. n - 1 \in 1..Len(p) /\ n - 1 > 0 /\ n - 1 \in 1..(Len(p) - 1) /\ (n - 1) + 1 = n
    BY <1>1, <1>4
  <2>2. /\ t.entry = SvcFirst(e, k) /\ SvcWhole(t.later, e) /\ k + Len(t.later) = n - 1
    BY <2>1 DEF SvcTurnedTo
  <2>3. SvcAfter(x, y)
    BY <2>1 DEF SvcShown
  <2>4. e \in 1..N /\ k \in 1..written[e] /\ written[e] \in Nat \ {0}
    BY <1>1, <2>1
  <2>5. e \in Nat /\ k \in Nat /\ k > 0 /\ Len(t.later) \in Nat
    <3>1. Len(t.later) \in Nat
      BY <1>2
    <3> HIDE DEF N, e, k
    <3>2. e \in Nat
      BY <1>1, <2>4
    <3>3. k \in Nat /\ k > 0
      BY <2>4
    <3> QED BY <3>1, <3>2, <3>3
  <2>6. t.entry # << >>
    BY <2>2, <2>5, SvcFirstNext, Zenon
  <2>7. y = IF k < written[e] THEN <<e, k + 1>> ELSE <<e - 1, 1>>
    BY <2>3 DEF SvcAfter
  <2>8. y[1] \in 1..N
    BY <1>1
  <2> HIDE DEF x, y, e, k
  <2>9. CASE k < written[e]
    <3>1. y = <<e, k + 1>> /\ k + 1 > 1 /\ y[2] > 1 /\ y[1] = e /\ y[2] = k + 1
      BY <2>5, <2>7, <2>9
    <3>2. r = [entry |-> Append(t.entry, y), later |-> t.later]
      BY <2>6, <3>1 DEF SvcTurn
    <3>3. r.entry = SvcFirst(e, k + 1) /\ r.later = t.later
      <4>1. Append(SvcFirst(e, k), <<e, k + 1>>) = SvcFirst(e, k + 1)
        BY <2>5, SvcFirstNext, Zenon
      <4> HIDE DEF r
      <4> QED BY <2>2, <3>1, <3>2, <4>1
    <3>4. (k + 1) + Len(t.later) = n
      <4> DEFINE m == Len(t.later)
      <4>1. k \in Nat /\ m \in Nat /\ n \in Nat /\ k + m = n - 1
        BY <1>1, <2>2, <2>5
      <4> HIDE DEF m
      <4>2. (k + 1) + m = n
        BY <4>1
      <4> QED BY <4>2 DEF m
    <3> HIDE DEF r
    <3>5. r.entry = SvcFirst(y[1], y[2]) /\ SvcWhole(r.later, y[1]) /\ y[2] + Len(r.later) = n
      BY <2>2, <3>1, <3>3, <3>4
    <3> QED BY <1>1, <3>5 DEF SvcTurnedTo, y, r
  <2>10. CASE ~(k < written[e])
    <3>1. y = <<e - 1, 1>> /\ ~(y[2] > 1) /\ y[1] = e - 1 /\ y[2] = 1
      BY <2>7, <2>10
    <3>2. k = written[e] /\ e - 1 \in Nat
      BY <2>4, <2>5, <2>10, <2>8, <3>1
    <3>3. r = [entry |-> <<y>>, later |-> t.entry \o t.later]
      BY <3>1 DEF SvcTurn
    <3>4. r.entry = SvcFirst(e - 1, 1) /\ r.later = SvcFirst(e, k) \o t.later
      <4>1. <<<<e - 1, 1>>>> = SvcFirst(e - 1, 1)
        BY <3>2, SvcFirstNext, Zenon
      <4> HIDE DEF r
      <4> QED BY <2>2, <3>1, <3>3, <4>1, Zenon
    <3>5. SvcEndAt(r.later, e, k) /\ Len(r.later) = k + Len(t.later)
      <4> DEFINE w == t.later
      <4>1. SvcWhole(w, e)
        BY <2>2
      <4> HIDE DEF w
      <4>2. SvcEndAt(SvcFirst(e, k) \o w, e, k) /\ Len(SvcFirst(e, k) \o w) = k + Len(w)
        BY <2>4, <4>1, SvcAddFront
      <4> HIDE DEF r
      <4> QED BY <3>4, <4>2 DEF w
    <3> HIDE DEF r
    <3>6. SvcWhole(r.later, e - 1)
      BY <2>4, <3>2, <3>5, SvcEntryDone
    <3>7. 1 + Len(r.later) = n
      BY <1>1, <2>2, <2>5, <3>5
    <3>8. r.entry = SvcFirst(y[1], y[2]) /\ SvcWhole(r.later, y[1]) /\ y[2] + Len(r.later) = n
      BY <3>1, <3>4, <3>6, <3>7
    <3> QED BY <1>1, <3>8 DEF SvcTurnedTo, y, r
  <2> QED BY <2>9, <2>10
<1> QED BY <1>1, <1>3, <1>4

\* j is an end of the journal: some of the last lines' entry first, and all after it.
SvcEnd(j) == j = << >> \/ \E e \in 1..Len(written) : \E n \in 1..written[e] : SvcEndAt(j, e, n)

\* Turned round, the lines that journalctl shows are an end of the journal, and
\* none is lost.
LEMMA SvcChronological ==
  ASSUME written \in Seq(Nat \ {0}), NEW p, SvcShown(p)
  PROVE  SvcEnd(Svc!Chronological(p)) /\ Len(Svc!Chronological(p)) = Len(p)
<1> DEFINE N == Len(p)
           j == Svc!Chronological(p)
<1>1. p \in Seq(SvcLine) /\ N \in Nat
  BY DEF SvcShown
<1>2. PICK turned \in [0..N -> SvcTurns] :
        /\ turned[0] = SvcNoTurn
        /\ \A n \in 1..N : turned[n] = SvcTurn(p[n], turned[n - 1])
        /\ j = turned[N].entry \o turned[N].later
  BY <1>1, SvcTurnedSteps, Zenon
<1> DEFINE T == {n \in 0..N : SvcTurnedTo(turned[n], p, n)}
<1>3. 0 \in T
  BY <1>1, <1>2 DEF SvcTurnedTo
<1>4. ASSUME NEW n \in 1..N, n - 1 \in T PROVE n \in T
  <2>1. turned[n - 1] \in SvcTurns /\ SvcTurnedTo(turned[n - 1], p, n - 1)
    BY <1>2, <1>4, Zenon
  <2>2. SvcTurnedTo(turned[n], p, n)
    BY <1>2, <2>1, SvcTurnedNext
  <2> QED BY <1>1, <2>2
<1>5. \A n \in 1..N : n - 1 \in T => n \in T
  BY <1>4
<1> HIDE DEF T, N
<1>6. SvcTurnedTo(turned[N], p, N) /\ turned[N] \in SvcTurns
  <2>1. \A n \in 0..N : n \in T
    BY <1>1, <1>3, <1>5, UpTo, Zenon
  <2>2. N \in T
    BY <1>1, <2>1
  <2> QED BY <1>1, <1>2, <2>2 DEF T
<1> HIDE DEF j
<1>7. CASE N = 0
  <2>1. turned[N] = SvcNoTurn
    BY <1>6, <1>7 DEF SvcTurnedTo
  <2>2. j = << >> \o << >>
    BY <1>2, <2>1 DEF SvcNoTurn
  <2>3. j = << >> /\ Len(j) = 0
    BY <2>2
  <2> QED BY <1>7, <2>3 DEF SvcEnd, N, j
<1>8. CASE N > 0
  <2> DEFINE e == p[N][1]
             k == p[N][2]
             w == turned[N].later
  <2>1. turned[N].entry = SvcFirst(e, k) /\ SvcWhole(w, e) /\ k + Len(w) = N
    BY <1>6, <1>8 DEF SvcTurnedTo
  <2>2. e \in 1..Len(written) /\ k \in 1..written[e]
    BY <1>1, <1>8 DEF SvcShown, N
  <2> HIDE DEF e, k, w
  <2>3. SvcEndAt(SvcFirst(e, k) \o w, e, k) /\ Len(SvcFirst(e, k) \o w) = k + Len(w)
    BY <2>1, <2>2, SvcAddFront
  <2>4. j = SvcFirst(e, k) \o w
    BY <1>2, <2>1 DEF w
  <2>5. SvcEnd(j) /\ Len(j) = N
    BY <2>1, <2>2, <2>3, <2>4 DEF SvcEnd
  <2> QED BY <2>5 DEF j, N
<1> QED BY <1>1, <1>7, <1>8

\* The first m of the lines that there are.
LEMMA SvcPrefix ==
  ASSUME written \in Seq(Nat \ {0}), NEW m \in 0..Len(Svc!Reversed)
  PROVE  SvcShown(SubSeq(Svc!Reversed, 1, m)) /\ Len(SubSeq(Svc!Reversed, 1, m)) = m
<1> DEFINE R == Svc!Reversed
           N == Len(written)
           p == SubSeq(R, 1, m)
<1>1. SvcNewest(R, N) /\ N \in Nat
  BY SvcReversed
<1> HIDE DEF R, N
<1>2. R \in Seq(SvcLine) /\ Len(R) \in Nat /\ m \in 0..Len(R) /\ m \in Nat /\ m <= Len(R)
  BY <1>1 DEF SvcNewest, R
<1>3. p \in Seq(SvcLine) /\ Len(p) = m /\ \A i \in 1..m : p[i] = R[i]
  <2>1. \A i \in 1..m : i \in 1..Len(R) /\ R[i] \in SvcLine
    BY <1>2
  <2> QED BY <1>2, <2>1
<1> HIDE DEF p
<1>4. ASSUME NEW i \in 1..m PROVE p[i][1] \in 1..N /\ p[i][2] \in 1..written[p[i][1]]
  <2>1. i \in 1..Len(R)
    BY <1>2
  <2> QED BY <1>1, <1>3, <2>1, Zenon DEF SvcNewest
<1>5. m > 0 => p[1] = <<N, 1>>
  <2> SUFFICES ASSUME m > 0 PROVE p[1] = <<N, 1>>
    OBVIOUS
  <2>1. Len(R) > 0 /\ 1 \in 1..m
    BY <1>2
  <2>2. N > 0
    BY <1>1, <2>1 DEF SvcNewest
  <2> QED BY <1>1, <1>3, <2>1, <2>2 DEF SvcNewest
<1>6. ASSUME NEW i \in 1..(m - 1) PROVE SvcAfter(p[i], p[i + 1])
  <2>1. i \in 1..m /\ i + 1 \in 1..m /\ i \in 1..(Len(R) - 1)
    BY <1>2
  <2>2. SvcAfter(R[i], R[i + 1])
    BY <1>1, <2>1 DEF SvcNewest
  <2> QED BY <1>3, <2>1, <2>2
<1>7. SvcShown(p)
  BY <1>3, <1>4, <1>5, <1>6 DEF SvcShown, N
<1> QED BY <1>3, <1>7 DEF p, R

\* The journal that is held is an end of the journal, with as many lines as
\* there could be if nothing is said of it.
SvcJournal ==
  /\ written \in Seq(Nat \ {0}) /\ lines \in Nat
  /\ SvcEnd(journal)
  /\ pc \in {"show", "dependencies", "journal"} => journal = << >>
  /\ pc \notin {"show", "dependencies", "journal", "done"} /\ "journal" \notin cautions =>
       Len(journal) = Svc!Min({lines, Len(Svc!Reversed)})

\* What is an end of the journal is what JournalIsTheEnd says.
LEMMA SvcJournalIsTheEnd == ASSUME SvcJournal PROVE Svc!JournalIsTheEnd
<1>1. CASE journal = << >>
  BY <1>1 DEF SvcJournal, Svc!JournalIsTheEnd
<1>2. CASE journal # << >>
  <2>1. PICK e \in 1..Len(written) : \E n \in 1..written[e] : SvcEndAt(journal, e, n)
    BY <1>2 DEF SvcJournal, SvcEnd
  <2>2. PICK n \in 1..written[e] : SvcEndAt(journal, e, n)
    BY <2>1
  <2> DEFINE j == journal
             N == Len(written)
  <2>3. /\ j \in Seq(SvcLine) /\ SvcOrdered(j) /\ SvcFrom(j, e)
        /\ \A i \in 1..Len(j) : j[i][1] = e => j[i][2] <= n
        /\ SvcHas(j, e, n)
        /\ \A a \in (e + 1)..N : SvcHas(j, a, written[a])
    BY <2>2 DEF SvcEndAt
  <2>4. DOMAIN j = 1..Len(j) /\ N \in Nat /\ DOMAIN written = 1..N /\ e \in Nat /\ n \in Nat
        /\ \A a \in 1..N : written[a] \in Nat
    BY <2>3 DEF SvcJournal
  <2>5. \A i, k \in DOMAIN j : i < k => j[i][1] < j[k][1] \/ (j[i][1] = j[k][1] /\ j[i][2] < j[k][2])
    BY <2>3, <2>4 DEF SvcOrdered, SvcBefore
  <2>6. ASSUME NEW a, NEW m, SvcHas(j, a, m), NEW k \in 1..m PROVE <<a, k>> \in Svc!Range(j)
    <3>1. PICK i \in 1..Len(j) : j[i] = <<a, k>>
      BY <2>6, Zenon DEF SvcHas
    <3> QED BY <2>4, <3>1 DEF Svc!Range
  <2>7. ASSUME NEW i \in DOMAIN j
        PROVE  /\ \A k \in 1..j[i][2] : <<j[i][1], k>> \in Svc!Range(j)
               /\ \A a \in DOMAIN written : a > j[i][1] => Svc!Range(Svc!Entry(a)) \subseteq Svc!Range(j)
    <3> DEFINE b == j[i][1]
               l == j[i][2]
    <3>1. b \in e..N /\ l \in 1..written[b] /\ (b = e => l <= n)
      BY <2>3, <2>4 DEF SvcFrom
    <3> HIDE DEF b, l
    <3>2. b \in Nat /\ l \in Nat /\ written[b] \in Nat
      BY <2>4, <3>1
    <3>3. ASSUME NEW k \in 1..l PROVE <<b, k>> \in Svc!Range(j)
      <4>1. CASE b = e
        <5>1. k \in 1..n
          BY <2>4, <3>1, <3>2, <4>1
        <5> QED BY <2>3, <2>6, <4>1, <5>1
      <4>2. CASE b # e
        <5>1. b \in (e + 1)..N /\ k \in 1..written[b]
          BY <2>4, <3>1, <3>2, <4>2
        <5> QED BY <2>3, <2>6, <5>1
      <4> QED BY <4>1, <4>2
    <3>4. ASSUME NEW a \in DOMAIN written, a > b PROVE Svc!Range(Svc!Entry(a)) \subseteq Svc!Range(j)
      <4>1. a \in (e + 1)..N /\ a \in Nat /\ written[a] \in Nat
        BY <2>4, <3>1, <3>2, <3>4
      <4>2. \A k \in 1..written[a] : <<a, k>> \in Svc!Range(j)
        BY <2>3, <2>6, <4>1
      <4>3. Svc!Range(Svc!Entry(a)) = {<<a, k>> : k \in 1..written[a]}
        BY <4>1 DEF Svc!Range, Svc!Entry
      <4> QED BY <4>2, <4>3
    <3> QED BY <3>3, <3>4 DEF b, l
  <2>8. pc \notin {"show", "dependencies", "journal", "done"} /\ "journal" \notin cautions =>
          Len(j) = Svc!Min({lines, Len(Svc!Reversed)})
    BY DEF SvcJournal
  <2> HIDE DEF j
  <2>9. Svc!JournalIsTheEnd <=>
          /\ \A i, k \in DOMAIN j : i < k => j[i][1] < j[k][1] \/ (j[i][1] = j[k][1] /\ j[i][2] < j[k][2])
          /\ \A i \in DOMAIN j :
               /\ \A k \in 1..j[i][2] : <<j[i][1], k>> \in Svc!Range(j)
               /\ \A a \in DOMAIN written : a > j[i][1] => Svc!Range(Svc!Entry(a)) \subseteq Svc!Range(j)
          /\ pc \notin {"show", "dependencies", "journal", "done"} /\ "journal" \notin cautions =>
               Len(j) = Svc!Min({lines, Len(Svc!Reversed)})
    BY Zenon DEF Svc!JournalIsTheEnd, j
  <2> QED BY <2>5, <2>7, <2>8, <2>9, Zenon
<1> QED BY <1>1, <1>2

\* The end of the journal is asked for once.
LEMMA SvcCollect ==
  ASSUME SvcJournal, Svc!CollectJournal PROVE SvcJournal'
<1> DEFINE R == Svc!Reversed
           L == Len(R)
<1>1. pc' = "limits" /\ written' = written /\ lines' = lines /\ written \in Seq(Nat \ {0}) /\ lines \in Nat
  BY DEF Svc!CollectJournal, Svc!given, SvcJournal
<1>2. R' = R
  BY <1>1, Zenon DEF Svc!Reversed, Svc!Entry
<1>3. L \in Nat
  BY <1>1, SvcReversed DEF SvcNewest
<1>4. SvcEnd(journal)' <=> SvcEnd(journal')
  BY <1>1, Zenon DEF SvcEnd, SvcEndAt, SvcFrom, SvcHas, SvcOrdered
<1>5. SvcEnd(journal)' /\ ("journal" \notin cautions' => Len(journal') = Svc!Min({lines, L}))
  <2>1. CASE lines = 0 /\ UNCHANGED <<journal, cautions>>
    <3>1. journal = << >> /\ lines = 0
      BY <2>1 DEF SvcJournal, Svc!CollectJournal
    <3>2. SvcEnd(journal') /\ Len(journal') = 0
      BY <2>1, <3>1 DEF SvcEnd
    <3>3. Svc!Min({lines, L}) = 0
      BY <1>3, <3>1, MinOfTwo
    <3> QED BY <1>4, <3>2, <3>3
  <2>2. CASE lines > 0 /\ journal' = << >> /\ cautions' = cautions \union {"journal"}
    BY <1>4, <2>2 DEF SvcEnd
  <2>3. CASE /\ lines > 0
             /\ \E got \in 0..L :
                  LET newest == SubSeq(R, 1, Svc!Min({got, lines}))
                  IN /\ journal' = Svc!Chronological(newest)
                     /\ cautions' = IF got < L /\ Len(newest) < lines
                                    THEN cautions \union {"journal"} ELSE cautions
    <3>1. PICK got \in 0..L :
            LET newest == SubSeq(R, 1, Svc!Min({got, lines}))
            IN /\ journal' = Svc!Chronological(newest)
               /\ cautions' = IF got < L /\ Len(newest) < lines THEN cautions \union {"journal"} ELSE cautions
      BY <2>3, Zenon
    <3> DEFINE m == Svc!Min({got, lines})
               newest == SubSeq(R, 1, m)
    <3>2. got \in Nat /\ got <= L /\ m \in 0..L /\ (m = got \/ m = lines) /\ m <= lines /\ m <= got
      <4>1. got \in Nat /\ got <= L
        BY <1>3
      <4>2. (got <= lines /\ m = got) \/ (lines <= got /\ m = lines)
        BY <1>1, <4>1, MinOfTwo
      <4> HIDE DEF m
      <4> QED BY <1>1, <1>3, <4>1, <4>2
    <3> HIDE DEF m
    <3>3. SvcShown(newest) /\ Len(newest) = m
      BY <1>1, <3>2, SvcPrefix
    <3> HIDE DEF newest
    <3>4. SvcEnd(Svc!Chronological(newest)) /\ Len(Svc!Chronological(newest)) = m
      BY <1>1, <3>3, SvcChronological
    <3>5. /\ journal' = Svc!Chronological(newest)
          /\ cautions' = IF got < L /\ m < lines THEN cautions \union {"journal"} ELSE cautions
      BY <3>1, <3>3, Zenon DEF newest, m
    <3>6. "journal" \notin cautions' => m = Svc!Min({lines, L})
      <4> SUFFICES ASSUME ~(got < L /\ m < lines) PROVE m = Svc!Min({lines, L})
        BY <3>5
      <4>1. (m = L /\ L <= lines) \/ (m = lines /\ lines <= L)
        BY <1>1, <1>3, <3>2
      <4> QED BY <1>1, <1>3, <4>1, MinOfTwo
    <3> QED BY <1>4, <3>4, <3>5, <3>6
  <2> QED BY <2>1, <2>2, <2>3, Zenon DEF Svc!CollectJournal
<1>6. Len(journal)' = Len(journal')
  OBVIOUS
<1> QED BY <1>1, <1>2, <1>5, <1>6 DEF SvcJournal

\* Nothing else changes the journal, and what is said of it is not taken back.
LEMMA SvcJournalKept ==
  ASSUME SvcJournal, UNCHANGED <<Svc!given, journal>>, cautions \subseteq cautions',
         pc' \in {"show", "dependencies", "journal"} => pc \in {"show", "dependencies", "journal"},
         pc' \notin {"show", "dependencies", "journal", "done"} => pc \notin {"show", "dependencies", "journal", "done"}
  PROVE  SvcJournal'
<1>1. written' = written /\ lines' = lines /\ journal' = journal
  BY DEF Svc!given
<1>2. (Svc!Reversed)' = Svc!Reversed
  BY <1>1, Zenon DEF Svc!Reversed, Svc!Entry
<1>3. SvcEnd(journal)'
  <2>1. SvcEnd(journal)
    BY DEF SvcJournal
  <2>2. SvcEnd(journal)' <=> SvcEnd(journal')
    BY <1>1, Zenon DEF SvcEnd, SvcEndAt, SvcFrom, SvcHas, SvcOrdered
  <2> QED BY <1>1, <2>1, <2>2
<1> QED BY <1>1, <1>2, <1>3 DEF SvcJournal

\* Every step keeps SvcJournal.
LEMMA SvcJournalStep ==
  ASSUME SvcJournal, Svc!Next \/ UNCHANGED Svc!vars
  PROVE  SvcJournal'
<1>1. CASE Svc!UnitChanges
  BY <1>1, SvcJournalKept DEF Svc!UnitChanges, Svc!given, Svc!evidence
<1>2. CASE Svc!Show
  BY <1>2, SvcJournalKept DEF Svc!Show, Svc!Done, Svc!given
<1>3. CASE Svc!ShowFails
  BY <1>3, SvcJournalKept DEF Svc!ShowFails, Svc!Done, Svc!given, Svc!evidence
<1>4. CASE Svc!QueryDependencies
  BY <1>4, SvcJournalKept DEF Svc!QueryDependencies, Svc!given
<1>5. CASE Svc!CollectJournal
  BY <1>5, SvcCollect
<1>6. CASE Svc!CollectLimits
  <2>1. cautions \subseteq cautions' /\ pc = "limits" /\ pc' = "assess" /\ UNCHANGED <<Svc!given, journal>>
    BY <1>6 DEF Svc!CollectLimits, Svc!given
  <2> QED BY <2>1, SvcJournalKept
<1>7. CASE Svc!Assess \/ Svc!Report \/ Svc!Interrupt
  <2>1. UNCHANGED <<Svc!given, Svc!evidence>>
        /\ (pc' = "done" \/ (pc = "assess" /\ pc' = "report"))
    BY <1>7 DEF Svc!Assess, Svc!Report, Svc!Interrupt, Svc!Done
  <2> QED BY <2>1, SvcJournalKept DEF Svc!evidence
<1>8. CASE UNCHANGED Svc!vars
  BY <1>8, SvcJournalKept DEF Svc!vars, Svc!given, Svc!evidence
<1> QED BY <1>1, <1>2, <1>3, <1>4, <1>5, <1>6, <1>7, <1>8 DEF Svc!Next, Svc!ToolStep

\* No line is held at first.
LEMMA SvcJournalInit ==
  ASSUME Svc!ServiceAssumption, Svc!Init PROVE SvcJournal
<1>1. /\ journal = << >> /\ pc = "show" /\ written \in Journals /\ lines \in LineCounts
      /\ LineCounts \subseteq Nat /\ Journals \subseteq Seq(Nat \ {0})
  BY DEF Svc!Init, Svc!ServiceAssumption
<1> QED BY <1>1 DEF SvcJournal, SvcEnd

\* However many entries there are, of however many lines, and wherever the
\* output of journalctl is cut, the journal that SvcDoctor shows is the end of the
\* journal in its order (collect_journal): no entry is torn out of it, only the
\* oldest one may lack its last lines, and there are as many lines as were asked
\* for unless a warning says otherwise.
THEOREM JournalIsNotTorn == Spec => []JournalIsTheEnd
<1>1. Init => (tool = "svcdoctor" => SvcJournal)
  <2>1. Svc!ServiceAssumption
    BY VerdictsAssumption
  <2> QED BY <2>1, StartOfOneTool, SvcJournalInit
<1>2. (tool = "svcdoctor" => SvcJournal) /\ [Next]_vars => (tool = "svcdoctor" => SvcJournal)'
  BY StepsOfOneTool, SvcJournalStep
<1>3. (tool = "svcdoctor" => SvcJournal) => JournalIsTheEnd
  BY SvcJournalIsTheEnd DEF JournalIsTheEnd
<1> QED BY <1>1, <1>2, <1>3, PTL DEF Spec

-------------------------------------------------------------------------------
(* PortLens: any sockets, which are closed and bound at any time, and any  *)
(* number of snapshots.                                                    *)

PortStates == {"find", "query", "owners", "details", "sleep", "judge", "report", "done"}

\* The socket s was listed, unless rows are missing.
PortListed(s) == s \in rows \/ Port!Uncertain

\* No filter for owners is given, and no match was found so far.
PortNoMatch ==
  /\ filter.pid = Port!None /\ filter.process = Port!None
  /\ \A i \in DOMAIN matched : matched[i] = {}

\* The families that were not asked for yet are todo; a socket that exists
\* since the snapshot began was listed with those that were.
PortIInv ==
  /\ pc \in PortStates
  /\ bound \subseteq Port!SocketIds /\ steady \subseteq bound /\ rows \subseteq Port!SocketIds
  /\ matched \in Seq(SUBSET Port!SocketIds)
  /\ pc = "query" =>
       /\ todo \in {<<"ipv4", "ipv6">>, <<"ipv6">>, << >>}
       /\ \A s \in steady : Port!InScope(s) =>
            \/ PortListed(s)
            \/ Sockets[s].family = "ipv6" /\ todo # << >>
            \/ Sockets[s].family = "ipv4" /\ todo = <<"ipv4", "ipv6">>
  /\ pc \in {"owners", "details"} => \A s \in steady : Port!InScope(s) => PortListed(s)
  /\ pc # "done" /\ PortNoMatch => \A s \in lasting : ~Port!InScope(s)
  /\ pc \notin {"report", "done"} => verdict = "none"
  /\ Port!AbsenceIsEstablished

LEMMA PortInit == ASSUME Port!Init PROVE PortIInv
BY DEF Port!Init, PortIInv, PortStates, Port!AbsenceIsEstablished

\* Steps that leave what was observed of the sockets alone.
LEMMA PortSame ==
  ASSUME PortIInv, UNCHANGED <<Port!world, lasting, filter, rows, skipped, truncated, matched, verdict>>,
         pc' \in PortStates,
         pc' = "query" => pc = "query" /\ todo' = todo,
         pc' \in {"owners", "details"} => pc \in {"owners", "details"} \/ (pc = "query" /\ todo = << >>),
         pc' # "done" => pc # "done",
         pc' \in {"report", "done"} \/ verdict = "none"
  PROVE  PortIInv'
<1>1. UNCHANGED <<bound, steady>>
  BY DEF Port!world
<1>2. \A s \in steady : PortListed(s)' = PortListed(s) /\ Port!InScope(s)' = Port!InScope(s)
  BY DEF PortListed, Port!Uncertain, Port!InScope
<1>3. pc' = "query" =>
        /\ todo' \in {<<"ipv4", "ipv6">>, <<"ipv6">>, << >>}
        /\ \A s \in steady : Port!InScope(s)' =>
             \/ PortListed(s)'
             \/ Sockets[s].family = "ipv6" /\ todo' # << >>
             \/ Sockets[s].family = "ipv4" /\ todo' = <<"ipv4", "ipv6">>
  BY <1>2 DEF PortIInv
<1>4. pc' \in {"owners", "details"} => \A s \in steady : Port!InScope(s)' => PortListed(s)'
  <2>1. << >> # <<"ipv4", "ipv6">>
    OBVIOUS
  <2> QED BY <1>2, <2>1, Zenon DEF PortIInv
<1>5. pc' # "done" /\ PortNoMatch' => \A s \in lasting' : ~Port!InScope(s)'
  BY DEF PortIInv, PortNoMatch, Port!InScope
<1>6. Port!AbsenceIsEstablished'
  BY DEF PortIInv, Port!AbsenceIsEstablished, Port!InScope
<1> QED
  BY <1>1, <1>3, <1>4, <1>5, <1>6 DEF PortIInv

LEMMA PortWorldMoves == ASSUME PortIInv, Port!WorldMoves PROVE PortIInv'
<1>1. /\ UNCHANGED <<lasting, filter, pc, snapshot, todo, Port!evidence, matched, verdict, exit>>
      /\ bound' \subseteq Port!SocketIds /\ steady' \subseteq bound' /\ steady' \subseteq steady
  BY DEF PortIInv, Port!WorldMoves
<1> QED
  BY <1>1
  DEF PortIInv, PortListed, PortNoMatch, Port!Uncertain, Port!InScope, Port!AbsenceIsEstablished, Port!evidence

LEMMA PortFindSs == ASSUME Port!PortAssumption, PortIInv, Port!FindSs PROVE PortIInv'
<1>1. CASE pc' = "done"
  BY <1>1, PortSame DEF PortIInv, PortStates, Port!FindSs, Port!evidence
<1>2. CASE pc' = "query" /\ todo' = Port!QueryFamilies
  <2>1. pc = "find" /\ UNCHANGED <<Port!world, lasting, filter, snapshot, Port!evidence, matched, verdict>>
    BY DEF Port!FindSs
  <2>2. todo' \in {<<"ipv4", "ipv6">>, <<"ipv6">>} /\ todo' # << >>
    BY <1>2 DEF Port!QueryFamilies
  <2>3. \A s \in steady : Port!InScope(s) =>
          Sockets[s].family = "ipv6" \/ (Sockets[s].family = "ipv4" /\ todo' = <<"ipv4", "ipv6">>)
    BY <1>2 DEF PortIInv, Port!PortAssumption, Port!InScope, Port!QueryFamilies
  <2> QED
    BY <1>2, <2>1, <2>2, <2>3
    DEF PortIInv, PortStates, PortListed, PortNoMatch, Port!Uncertain, Port!InScope,
      Port!AbsenceIsEstablished, Port!evidence, Port!world
<1> QED BY <1>1, <1>2 DEF Port!FindSs, Port!Done

\* The family that is asked for is listed as it is at that moment.
LEMMA PortQuery == ASSUME Port!PortAssumption, PortIInv, Port!Query PROVE PortIInv'
<1>1. /\ pc = "query" /\ todo # << >> /\ todo' = Tail(todo)
      /\ UNCHANGED <<Port!world, lasting, filter, pc, snapshot, holders, comm, matched, verdict, exit>>
  BY DEF Port!Query
<1> DEFINE all == {s \in bound : Sockets[s].family = Head(todo)}
<1>2. PICK parsed \in SUBSET all, cut \in BOOLEAN, garbled \in BOOLEAN :
        /\ parsed # all => cut \/ garbled
        /\ rows' = rows \union {s \in parsed : Port!InScope(s)}
        /\ skipped' = (skipped \/ garbled)
        /\ truncated' = IF cut THEN truncated \union {Head(todo)} ELSE truncated
  BY Zenon DEF Port!Query
<1>3. Port!Uncertain' \/ (parsed = all /\ ~Port!Uncertain)
  BY <1>2, Zenon DEF Port!Uncertain
<1>4. rows \subseteq rows' /\ rows' \subseteq Port!SocketIds /\ (Port!Uncertain => Port!Uncertain')
  BY <1>2, Zenon DEF PortIInv, Port!Uncertain
<1>5. \A s \in steady : Port!InScope(s) /\ Sockets[s].family = Head(todo) => s \in rows' \/ Port!Uncertain'
  BY <1>2, <1>3 DEF PortIInv
<1>6. \/ todo = <<"ipv4", "ipv6">> /\ Head(todo) = "ipv4" /\ todo' = <<"ipv6">>
      \/ todo = <<"ipv6">> /\ Head(todo) = "ipv6" /\ todo' = << >>
  <2>1. todo \in {<<"ipv4", "ipv6">>, <<"ipv6">>}
    BY <1>1 DEF PortIInv
  <2>2. CASE todo = <<"ipv4", "ipv6">>
    <3>1. Tail(<<"ipv4", "ipv6">>) = <<"ipv6">> /\ Head(<<"ipv4", "ipv6">>) = "ipv4"
      OBVIOUS
    <3> QED BY <1>1, <2>2, <3>1
  <2>3. CASE todo = <<"ipv6">>
    <3>1. Tail(<<"ipv6">>) = << >> /\ Head(<<"ipv6">>) = "ipv6"
      OBVIOUS
    <3> QED BY <1>1, <2>3, <3>1
  <2> QED BY <2>1, <2>2, <2>3
<1>7. \A s \in steady : Port!InScope(s) =>
        \/ s \in rows' \/ Port!Uncertain'
        \/ Sockets[s].family = "ipv6" /\ todo' # << >>
        \/ Sockets[s].family = "ipv4" /\ todo' = <<"ipv4", "ipv6">>
  <2> SUFFICES ASSUME NEW s \in steady, Port!InScope(s), ~(s \in rows' \/ Port!Uncertain')
               PROVE  Sockets[s].family = "ipv6" /\ todo' = <<"ipv6">>
    BY <1>6
  <2>1. ~PortListed(s)
    BY <1>4 DEF PortListed
  <2>2. Sockets[s].family # Head(todo)
    BY <1>5
  <2> QED BY <1>1, <1>6, <2>1, <2>2 DEF PortIInv
<1> HIDE DEF all
<1> QED
  BY <1>1, <1>4, <1>6, <1>7
  DEF PortIInv, PortListed, PortNoMatch, Port!InScope, Port!AbsenceIsEstablished, Port!world

\* Without a match, and with all rows, nothing existed that was to be found.
LEMMA PortEndSnapshot == ASSUME PortIInv, Port!EndSnapshot PROVE PortIInv'
<1>1. /\ pc = "details" /\ lasting' = lasting \union steady
      /\ UNCHANGED <<Port!world, filter, todo, Port!evidence, verdict>>
      /\ verdict = "none"
  BY DEF PortIInv, Port!EndSnapshot
<1>2. CASE pc' = "done" /\ UNCHANGED matched
  BY <1>1, <1>2
  DEF PortIInv, PortStates, PortListed, PortNoMatch, Port!AbsenceIsEstablished, Port!evidence, Port!world
<1>3. CASE /\ ~(Port!Matches = {} /\ Port!Uncertain)
           /\ matched' = Append(matched, Port!Matches)
           /\ pc' \in {"judge", "sleep"}
  <2>1. Port!Matches \in SUBSET Port!SocketIds
    BY DEF PortIInv, Port!Matches
  <2>2. /\ matched' \in Seq(SUBSET Port!SocketIds)
        /\ matched'[Len(matched) + 1] = Port!Matches /\ Len(matched) + 1 \in DOMAIN matched'
        /\ \A i \in DOMAIN matched : i \in DOMAIN matched' /\ matched'[i] = matched[i]
    BY <1>3, <2>1 DEF PortIInv
  <2>3. PortNoMatch' => \A s \in lasting' : ~Port!InScope(s)
    <3> SUFFICES ASSUME PortNoMatch', NEW s \in lasting'
                 PROVE  ~Port!InScope(s)
      OBVIOUS
    <3>1. PortNoMatch /\ Port!Matches = {}
      BY <1>1, <2>2 DEF PortNoMatch
    <3>2. rows = {} /\ ~Port!Uncertain
      BY <1>3, <3>1 DEF PortNoMatch, Port!Matches
    <3>3. CASE s \in lasting
      BY <1>1, <3>1, <3>3 DEF PortIInv
    <3>4. CASE s \in steady
      BY <1>1, <3>2, <3>4 DEF PortIInv, PortListed
    <3> QED BY <1>1, <3>3, <3>4
  <2> QED
    BY <1>1, <1>3, <2>2, <2>3
    DEF PortIInv, PortStates, Port!InScope, Port!AbsenceIsEstablished, Port!evidence, Port!world
<1> QED BY <1>2, <1>3 DEF Port!EndSnapshot, Port!Done

LEMMA PortStep ==
  ASSUME Port!PortAssumption, PortIInv, Port!Next \/ UNCHANGED Port!vars
  PROVE  PortIInv'
<1>1. CASE Port!WorldMoves
  BY <1>1, PortWorldMoves
<1>2. CASE Port!FindSs
  BY <1>2, PortFindSs
<1>3. CASE Port!Query
  BY <1>3, PortQuery
<1>4. CASE Port!QueryFails \/ Port!Interrupt \/ Port!Report
  BY <1>4, PortSame
  DEF PortStates, Port!QueryFails, Port!Interrupt, Port!Report, Port!Done, Port!evidence
<1>5. CASE Port!EndQueries \/ Port!ScanOwner \/ Port!EndOwners \/ Port!ReadDetails
  <2>1. /\ UNCHANGED <<Port!world, lasting, filter, rows, skipped, truncated, matched, verdict>>
        /\ pc' \in {"owners", "details"}
        /\ pc \in {"owners", "details"} \/ (pc = "query" /\ todo = << >>)
    BY <1>5, Zenon
    DEF Port!EndQueries, Port!ScanOwner, Port!EndOwners, Port!ReadDetails, Port!evidence
  <2>2. verdict = "none"
    BY <2>1 DEF PortIInv
  <2> QED BY <2>1, <2>2, PortSame DEF PortStates
<1>6. CASE Port!EndSnapshot
  BY <1>6, PortEndSnapshot
<1>7. CASE Port!Sleep
  BY <1>7
  DEF Port!Sleep, PortIInv, PortStates, PortNoMatch, Port!InScope, Port!AbsenceIsEstablished
<1>8. CASE Port!Judge
  <2>1. /\ pc = "judge" /\ pc' = "report"
        /\ UNCHANGED <<Port!world, lasting, filter, snapshot, todo, Port!evidence, matched, exit>>
        /\ verdict' = "otherwise" => \A i \in DOMAIN matched : matched[i] = {}
    BY <1>8 DEF Port!Judge, Port!Found
  <2>2. Port!AbsenceIsEstablished'
    BY <2>1 DEF PortIInv, PortNoMatch, Port!InScope, Port!AbsenceIsEstablished
  <2> QED
    BY <2>1, <2>2
    DEF PortIInv, PortStates, PortNoMatch, Port!InScope, Port!evidence, Port!world
<1>9. CASE UNCHANGED Port!vars
  <2>1. UNCHANGED <<Port!world, lasting, filter, rows, skipped, truncated, matched, verdict, pc, todo>>
    BY <1>9 DEF Port!vars, Port!evidence
  <2> QED
    BY <2>1
    DEF PortIInv, PortListed, PortNoMatch, Port!Uncertain, Port!InScope, Port!AbsenceIsEstablished, Port!world
<1> QED
  BY <1>1, <1>2, <1>3, <1>4, <1>5, <1>6, <1>7, <1>8, <1>9 DEF Port!Next, Port!ToolStep

\* Whichever sockets there are and however they come and go, NOT_FOUND without
\* a filter for owners says that none of those that were asked for existed
\* throughout any of the snapshots (inspect_selection).
THEOREM NotFoundIsAbsence == Spec => []AbsenceIsEstablished
<1>1. Init => (tool = "portlens" => PortIInv)
  BY StartOfOneTool, PortInit
<1>2. (tool = "portlens" => PortIInv) /\ [Next]_vars => (tool = "portlens" => PortIInv)'
  <2>1. Port!PortAssumption
    BY VerdictsAssumption
  <2> QED BY <2>1, StepsOfOneTool, PortStep
<1>3. (tool = "portlens" => PortIInv) => AbsenceIsEstablished
  BY DEF PortIInv, AbsenceIsEstablished
<1> QED BY <1>1, <1>2, <1>3, PTL DEF Spec

-------------------------------------------------------------------------------
(* CertWatch: any certificates, which the servers exchange at any time.    *)

\* A pattern with a wildcard that matches covers the name, label by label.
LEMMA CertMatchesCovers ==
  ASSUME NEW S, NEW T, NEW p \in Seq(S), NEW name \in Seq(T), Cert!Matches(p, name)
  PROVE  Cert!Covers(p, name)
<1>1. CASE p = name
  BY <1>1 DEF Cert!Covers
<1>2. CASE /\ Head(p) = "*" /\ Len(Tail(p)) >= 2 /\ Len(name) = Len(p)
           /\ Tail(name) = Tail(p)
  <2>1. CASE p = << >>
    BY <1>2, <2>1 DEF Cert!Covers
  <2>2. CASE p # << >>
    <3> DEFINE t == Tail(p)
               n == Len(p)
    <3>1. /\ n \in Nat /\ n >= 3 /\ Len(t) = n - 1 /\ Len(name) = n /\ p[1] = "*"
          /\ \A i \in 1..(n - 1) : t[i] = p[i + 1]
      BY <1>2, <2>2
    <3>2. \A i \in 1..(n - 1) : Tail(name)[i] = name[i + 1]
      BY <3>1
    <3>3. \A i \in 1..(n - 1) : t[i] = name[i + 1]
      BY <1>2, <3>2
    <3>4. ASSUME NEW i \in 2..n
          PROVE  p[i] = name[i]
      <4>1. i - 1 \in 1..(n - 1) /\ (i - 1) + 1 = i
        BY <3>1
      <4> QED BY <3>1, <3>3, <4>1, Zenon
    <3> QED BY <3>1, <3>4 DEF Cert!Covers
  <2> QED BY <2>1, <2>2
<1> QED BY <1>1, <1>2 DEF Cert!Matches

\* The worst of conditions is one of them.
LEMMA CertWorst ==
  ASSUME NEW S, S # {}
  PROVE  Cert!Worst(S) \in S /\ \A t \in S : Cert!Severity(t) <= Cert!Severity(Cert!Worst(S))
<1>1. \A s \in S : Cert!Severity(s) \in 0..5
  BY DEF Cert!Severity
<1>2. \E s \in S : \A t \in S : Cert!Severity(t) <= Cert!Severity(s)
  <2>1. CASE \E s \in S : Cert!Severity(s) = 5
    BY <1>1, <2>1
  <2>2. CASE (\E s \in S : Cert!Severity(s) = 4) /\ \A s \in S : Cert!Severity(s) \in 0..4
    BY <2>2
  <2>3. CASE (\E s \in S : Cert!Severity(s) = 3) /\ \A s \in S : Cert!Severity(s) \in 0..3
    BY <2>3
  <2>4. CASE (\E s \in S : Cert!Severity(s) = 2) /\ \A s \in S : Cert!Severity(s) \in 0..2
    BY <2>4
  <2>5. CASE (\E s \in S : Cert!Severity(s) = 1) /\ \A s \in S : Cert!Severity(s) \in 0..1
    BY <2>5
  <2>6. CASE \A s \in S : Cert!Severity(s) = 0
    BY <2>6
  <2> QED BY <1>1, <2>1, <2>2, <2>3, <2>4, <2>5, <2>6
<1> QED BY <1>2 DEF Cert!Worst

\* Nothing but VALID is as good as VALID.
LEMMA CertOnlyValid ==
  ASSUME NEW S, S # {}, Cert!Worst(S) = "VALID"
  PROVE  S = {"VALID"}
<1>1. \A t \in S : Cert!Severity(t) <= Cert!Severity("VALID")
  BY CertWorst
<1>2. \A t \in S : t = "VALID"
  BY <1>1 DEF Cert!Severity
<1> QED BY <1>2

CertBefore == {"resolve", "connect", "handshake", "retry", "decode", "classify"}
CertStates == CertBefore \union {"aggregate", "report", "done"}

\* The leaf was presented as it is said, and the chain verified or not.
CertServed ==
  /\ leaf \in Cert!CertIds
  /\ Cert!LeafShown
  /\ ~trust => Cert!FailureShown

CertIInv ==
  /\ pc \in CertStates
  /\ serving \in [Cert!Range(Servers) -> Cert!CertIds \union {Cert!None}]
  /\ day \in Nat
  /\ pc \in {"handshake", "retry"} => server \in Cert!Range(Servers)
  /\ pc \in CertBefore => status = "none"
  /\ pc = "retry" => Cert!FailureShown
  /\ pc \in {"decode", "classify"} \/ status \notin {"none", "ERROR"} => CertServed
  /\ Cert!JudgedWhatWasServed

LEMMA CertInit == ASSUME Cert!Init PROVE CertIInv
BY DEF Cert!Init, CertIInv, CertStates, CertBefore, Cert!JudgedWhatWasServed

\* What was presented stays presented.
LEMMA CertShown ==
  ASSUME day \in Nat, day' \in Nat, day <= day', presented \subseteq presented', server' = server
  PROVE  /\ Cert!FailureShown => Cert!FailureShown'
         /\ UNCHANGED <<leaf, trust>> /\ Cert!LeafShown => Cert!LeafShown'
<1>1. \A d \in 0..day : d \in 0..day'
  OBVIOUS
<1>2. Cert!FailureShown => Cert!FailureShown'
  BY <1>1, Zenon DEF Cert!FailureShown, Cert!InPeriod
<1>3. UNCHANGED <<leaf, trust>> /\ Cert!LeafShown => Cert!LeafShown'
  BY <1>1 DEF Cert!LeafShown, Cert!InPeriod
<1> QED BY <1>2, <1>3

\* Certificates that are exchanged, and days that pass, change nothing that was
\* said of what was presented before.
LEMMA CertWorld ==
  ASSUME Cert!CertAssumption, CertIInv, Cert!ServerChanges \/ Cert!DayPasses
  PROVE  CertIInv'
<1>1. /\ UNCHANGED <<presented, baseline, pc, Cert!evidence, verdict, exit>>
      /\ serving' \in [Cert!Range(Servers) -> Cert!CertIds \union {Cert!None}]
      /\ day' = day \/ day' = day + 1
  BY DEF CertIInv, Cert!ServerChanges, Cert!DayPasses
<1>2. day \in Nat
  BY DEF CertIInv
<1>3. \A from \in Int : from <= day => from <= day'
  BY <1>1, <1>2
<1>4. day' \in Nat /\ day <= day'
  BY <1>1, <1>2
<1>5. (Cert!FailureShown => Cert!FailureShown') /\ (Cert!LeafShown => Cert!LeafShown')
  BY <1>1, <1>2, <1>4, CertShown DEF Cert!evidence
<1>6. Cert!JudgedWhatWasServed'
  <2>1. Cert!JudgedWhatWasServed /\ (status \notin {"none", "ERROR"} => Certs[leaf].from \in Int)
    BY DEF CertIInv, CertServed, Cert!CertAssumption
  <2> QED BY <1>1, <1>3, <1>5, <2>1 DEF Cert!JudgedWhatWasServed, Cert!evidence
<1> QED
  BY <1>1, <1>4, <1>6, <1>5, Zenon DEF CertIInv, CertServed, Cert!evidence

\* Steps that leave alone what is said of the certificate.
LEMMA CertSame ==
  ASSUME CertIInv, UNCHANGED <<Cert!world, presented, baseline, Cert!evidence>>,
         pc' \in CertStates,
         pc' \in CertBefore => pc' = pc
  PROVE  CertIInv'
BY DEF CertIInv, CertStates, CertBefore, CertServed, Cert!world, Cert!evidence, Cert!JudgedWhatWasServed,
  Cert!LeafShown, Cert!FailureShown, Cert!InPeriod

\* A target that could not be observed: nothing is said of a certificate.
LEMMA CertUnobserved ==
  ASSUME CertIInv, Cert!Unobserved, UNCHANGED <<Cert!world, presented, baseline>>
  PROVE  CertIInv'
BY DEF CertIInv, CertStates, CertBefore, Cert!Unobserved, Cert!world, Cert!JudgedWhatWasServed

LEMMA CertConnect == ASSUME CertIInv, Cert!Connect PROVE CertIInv'
<1>1. pc = "connect" /\ UNCHANGED <<Cert!world, presented, baseline, trust, leaf, verdict, exit>>
  BY DEF Cert!Connect
<1>2. CASE pc' = "handshake" /\ status' = status /\ server' \in Cert!Range(Servers)
  BY <1>1, <1>2
  DEF CertIInv, CertStates, CertBefore, CertServed, Cert!world, Cert!JudgedWhatWasServed,
      Cert!LeafShown, Cert!FailureShown, Cert!InPeriod
<1>3. CASE Cert!Unobserved
  BY <1>1, <1>3, CertUnobserved
<1> QED BY <1>2, <1>3 DEF Cert!Connect, Cert!Range

LEMMA CertHandshake == ASSUME CertIInv, Cert!Handshake PROVE CertIInv'
<1>1. /\ pc = "handshake" /\ UNCHANGED <<Cert!world, baseline, server, verdict, exit>>
      /\ status = "none" /\ serving[server] \in Cert!CertIds \union {Cert!None}
  BY DEF Cert!Handshake, CertIInv, CertBefore
<1> DEFINE c == serving[server]
<1>2. CASE /\ c # Cert!None /\ Cert!Verified(c) /\ leaf' = c /\ trust' = TRUE /\ Cert!Present(c)
           /\ pc' = "decode" /\ UNCHANGED status
  <2>1. CertServed'
    <3>1. day' \in Nat /\ day' = day /\ day' \in 0..day' /\ <<server', leaf', day'>> \in presented'
      BY <1>1, <1>2 DEF CertIInv, Cert!Present, Cert!world
    <3>2. leaf' \in Cert!CertIds /\ Certs[leaf'].trusted /\ Cert!InPeriod(leaf', day') /\ trust'
      BY <1>1, <1>2, <3>1 DEF Cert!Verified, Cert!InPeriod
    <3>3. Cert!LeafShown'
      BY <3>1, <3>2 DEF Cert!LeafShown, Cert!InPeriod
    <3> QED BY <3>2, <3>3 DEF CertServed
  <2> QED
    BY <1>1, <1>2, <2>1
    DEF CertIInv, CertStates, CertBefore, Cert!world, Cert!JudgedWhatWasServed
<1>3. CASE /\ c # Cert!None /\ ~Cert!Verified(c) /\ Cert!Present(c)
           /\ pc' = "retry" /\ UNCHANGED <<leaf, trust, status>>
  <2>1. Cert!FailureShown'
    <3>1. day' \in Nat /\ day' = day /\ day' \in 0..day' /\ <<server', c, day'>> \in presented'
      BY <1>1, <1>3 DEF CertIInv, Cert!Present, Cert!world
    <3>2. c \in Cert!CertIds /\ ~(Certs[c].trusted /\ Cert!InPeriod(c, day'))
      BY <1>1, <1>3, <3>1 DEF Cert!Verified
    <3> HIDE DEF c
    <3> QED BY <3>1, <3>2, Zenon DEF Cert!FailureShown, Cert!InPeriod
  <2> QED
    BY <1>1, <1>3, <2>1
    DEF CertIInv, CertStates, CertBefore, Cert!world, Cert!JudgedWhatWasServed
<1>4. CASE Cert!Unobserved /\ UNCHANGED <<leaf, trust, presented>>
  BY <1>1, <1>4, CertUnobserved
<1> QED BY <1>2, <1>3, <1>4, Zenon DEF Cert!Handshake

LEMMA CertHandshakeUnverified == ASSUME CertIInv, Cert!HandshakeUnverified PROVE CertIInv'
<1>1. /\ pc = "retry" /\ UNCHANGED <<Cert!world, baseline, server, verdict, exit>>
      /\ status = "none" /\ serving[server] \in Cert!CertIds \union {Cert!None}
      /\ Cert!FailureShown /\ day \in Nat
  BY DEF Cert!HandshakeUnverified, CertIInv, CertBefore
<1>2. CASE /\ serving[server] # Cert!None /\ leaf' = serving[server] /\ trust' = FALSE /\ Cert!Present(leaf')
           /\ pc' = "decode" /\ UNCHANGED status
  <2>1. CertServed'
    <3>1. day' = day /\ day' \in Nat /\ day <= day' /\ day' \in 0..day' /\ <<server', leaf', day'>> \in presented'
      BY <1>1, <1>2 DEF Cert!Present, Cert!world
    <3>2. Cert!FailureShown'
      BY <1>1, <1>2, <3>1, CertShown DEF Cert!Present
    <3>3. Cert!LeafShown'
      BY <1>2, <3>1 DEF Cert!LeafShown
    <3> QED BY <1>1, <1>2, <3>2, <3>3 DEF CertServed
  <2> QED
    BY <1>1, <1>2, <2>1
    DEF CertIInv, CertStates, CertBefore, Cert!world, Cert!JudgedWhatWasServed
<1>3. CASE Cert!Unobserved /\ UNCHANGED <<leaf, trust, presented>>
  BY <1>1, <1>3, CertUnobserved
<1> QED BY <1>2, <1>3, Zenon DEF Cert!HandshakeUnverified

\* VALID is the verdict on a certificate that nothing is wrong with.
LEMMA CertValid ==
  ASSUME Cert!CertAssumption, day \in Nat, NEW c \in Cert!CertIds,
         Cert!Worst(Cert!Conditions(c)) = "VALID"
  PROVE  /\ trust /\ baseline \in {Cert!None, c}
         /\ Certs[c].from <= day /\ Certs[c].to > WarnDays
         /\ \E p \in Certs[c].names : Cert!Covers(p, Host)
<1>1. Cert!Conditions(c) = {"VALID"}
  BY CertOnlyValid DEF Cert!Conditions
<1>2. Cert!Validity(c) = "VALID" /\ baseline \in {Cert!None, c} /\ trust /\ Cert!Identity(c) = "verified"
  BY <1>1 DEF Cert!Conditions
<1>3. Certs[c].from \in Int /\ Certs[c].to \in Int /\ WarnDays \in Nat /\ CriticalDays \in Nat
  BY DEF Cert!CertAssumption
<1>4. Certs[c].from <= day /\ Certs[c].to > WarnDays
  BY <1>2, <1>3 DEF Cert!Validity, Cert!Remaining
<1>5. PICK p \in Certs[c].names : Cert!Matches(p, Host)
  BY <1>2 DEF Cert!Identity
<1>6. Cert!Covers(p, Host)
  BY <1>5, CertMatchesCovers DEF Cert!CertAssumption
<1> QED BY <1>2, <1>4, <1>5, <1>6

LEMMA CertClassify == ASSUME Cert!CertAssumption, CertIInv, Cert!ClassifyTarget PROVE CertIInv'
<1>1. /\ pc = "classify" /\ status' = Cert!Worst(Cert!Conditions(leaf)) /\ pc' = "aggregate"
      /\ UNCHANGED <<Cert!world, presented, baseline, server, trust, leaf, verdict, exit>>
  BY DEF Cert!ClassifyTarget
<1>2. CertServed /\ day \in Nat
  BY <1>1 DEF CertIInv
<1>3. Cert!JudgedWhatWasServed'
  BY <1>1, <1>2, CertValid DEF CertServed, Cert!JudgedWhatWasServed, Cert!world, Cert!LeafShown,
    Cert!FailureShown, Cert!InPeriod
<1> QED
  BY <1>1, <1>2, <1>3 DEF CertIInv, CertStates, CertBefore, CertServed, Cert!world, Cert!LeafShown,
    Cert!FailureShown, Cert!InPeriod

LEMMA CertStep ==
  ASSUME Cert!CertAssumption, CertIInv, Cert!Next \/ UNCHANGED Cert!vars
  PROVE  CertIInv'
<1>1. CASE Cert!ServerChanges \/ Cert!DayPasses
  BY <1>1, CertWorld
<1>2. CASE Cert!Resolve
  <2>1. pc = "resolve" /\ UNCHANGED <<Cert!world, presented, baseline, server, trust, leaf, verdict, exit>>
    BY <1>2 DEF Cert!Resolve
  <2>2. CASE pc' = "connect" /\ UNCHANGED status
    BY <2>1, <2>2
    DEF CertIInv, CertStates, CertBefore, CertServed, Cert!world, Cert!JudgedWhatWasServed,
      Cert!LeafShown, Cert!FailureShown, Cert!InPeriod
  <2> QED BY <1>2, <2>1, <2>2, CertUnobserved DEF Cert!Resolve
<1>3. CASE Cert!Connect
  BY <1>3, CertConnect
<1>4. CASE Cert!Handshake
  BY <1>4, CertHandshake
<1>5. CASE Cert!HandshakeUnverified
  BY <1>5, CertHandshakeUnverified
<1>6. CASE Cert!Decode
  <2>1. pc = "decode" /\ UNCHANGED <<Cert!world, presented, baseline, server, trust, leaf, verdict, exit>>
    BY <1>6 DEF Cert!Decode
  <2>2. CASE pc' = "classify" /\ UNCHANGED status
    BY <2>1, <2>2
    DEF CertIInv, CertStates, CertBefore, CertServed, Cert!world, Cert!JudgedWhatWasServed,
      Cert!LeafShown, Cert!FailureShown, Cert!InPeriod
  <2> QED BY <1>6, <2>1, <2>2, CertUnobserved DEF Cert!Decode
<1>7. CASE Cert!ClassifyTarget
  BY <1>7, CertClassify
<1>8. CASE Cert!Aggregate \/ Cert!Report \/ Cert!Interrupt
  <2>1. pc' \in {"report", "done"} /\ UNCHANGED <<Cert!world, presented, baseline, Cert!evidence>>
    BY <1>8 DEF Cert!Aggregate, Cert!Report, Cert!Interrupt, Cert!Done
  <2> QED BY <2>1, CertSame DEF CertStates, CertBefore
<1>9. CASE UNCHANGED Cert!vars
  BY <1>9, CertSame, Zenon DEF Cert!vars, CertIInv
<1> QED
  BY <1>1, <1>2, <1>3, <1>4, <1>5, <1>6, <1>7, <1>8, <1>9 DEF Cert!Next, Cert!ToolStep

\* However servers exchange their certificates between the two handshakes, and
\* whenever the date changes, what is said of a certificate is said of one that
\* was presented (observe_endpoint), trust is that of its handshake and of its
\* day, and is denied only after one that could not be verified then; and VALID
\* is said of none that is not.
THEOREM JudgedCertificateWasServed == Spec => []JudgedWhatWasServed
<1>1. Init => (tool = "certwatch" => CertIInv)
  BY StartOfOneTool, CertInit
<1>2. (tool = "certwatch" => CertIInv) /\ [Next]_vars => (tool = "certwatch" => CertIInv)'
  <2>1. Cert!CertAssumption
    BY VerdictsAssumption
  <2> QED BY <2>1, StepsOfOneTool, CertStep
<1>3. (tool = "certwatch" => CertIInv) => JudgedWhatWasServed
  BY DEF CertIInv, JudgedWhatWasServed
<1> QED BY <1>1, <1>2, <1>3, PTL DEF Spec

-------------------------------------------------------------------------------
(* NetDoctor: any answers of the resolver, any number of rounds, and any   *)
(* changes of the network between and during the connections.              *)

\* The positions of the attempts: L were made when it is the turn of t in round r.
LEMMA NetCount ==
  ASSUME NEW n \in Nat \ {0}, NEW r \in Nat \ {0}, NEW t \in 1..n, NEW L, L = (r - 1) * n + (t - 1)
  PROVE  /\ L \in Nat
         /\ L + 1 = (r - 1) * n + ((t + 1) - 1)
         /\ t = n => L + 1 = r * n /\ L + 1 = ((r + 1) - 1) * n + (1 - 1)
         /\ (((L + 1) - 1) % n) + 1 = t
<1>1. (r - 1) \in Nat /\ (t - 1) \in 0..(n - 1) /\ (r - 1) * n \in Nat
  OBVIOUS
<1>2. L \in Nat /\ (L + 1) - 1 = (r - 1) * n + (t - 1)
  BY <1>1
<1>3. ((r - 1) * n + (t - 1)) % n = t - 1
  BY <1>1
<1>4. (r - 1) * n + n = r * n /\ (r + 1) - 1 = r
  OBVIOUS
<1>5. t = n => L + 1 = r * n
  BY <1>1, <1>2, <1>4
<1>6. L + 1 = (r - 1) * n + ((t + 1) - 1)
  BY <1>1, <1>2
<1>7. r * n = ((r + 1) - 1) * n + (1 - 1)
  BY <1>4
<1> QED BY <1>2, <1>3, <1>5, <1>6, <1>7

\* What is kept of an answer is at least one address.
LEMMA NetKept ==
  ASSUME Net!ConnectivityAssumption, NEW answer \in Answers
  PROVE  Len(Net!Kept(answer)) \in Nat \ {0}
         /\ DOMAIN Net!Kept(answer) = 1..Len(Net!Kept(answer))
<1> DEFINE firsts == Net!FirstSeen(answer)
<1>1. /\ MaxCandidates \in Nat \ {0} /\ answer \in Seq(Net!Addresses)
      /\ Len(answer) \in Nat /\ 1 \in DOMAIN answer /\ DOMAIN answer = 1..Len(answer)
  BY DEF Net!ConnectivityAssumption
<1>2. firsts \subseteq 1..Len(answer) /\ 1 \in firsts
  BY <1>1 DEF Net!FirstSeen
<1>3. IsFiniteSet(firsts)
  <2>1. IsFiniteSet(1..Len(answer))
    BY <1>1, FS_Interval
  <2> QED BY <1>2, <2>1, FS_Subset
<1>4. Cardinality(firsts) \in Nat /\ Cardinality(firsts) # 0
  BY <1>2, <1>3, FS_CardinalityType, FS_EmptySet
<1>5. \A S : Net!Cardinality(S) = Cardinality(S)
  BY DEF Net!Cardinality, Cardinality
<1> DEFINE k == Net!Min({Net!Cardinality(firsts), MaxCandidates})
<1>6. k \in Nat \ {0}
  <2>1. \A a, b \in Nat : Net!Min({a, b}) = a \/ Net!Min({a, b}) = b
    BY DEF Net!Min
  <2> HIDE DEF firsts
  <2> QED BY <1>1, <1>4, <1>5, <2>1
<1> DEFINE nth(n) == CHOOSE i \in firsts : Net!Cardinality({j \in firsts : j <= i}) = n
<1>7. Net!Kept(answer) = [n \in 1..k |-> answer[nth(n)]]
  BY DEF Net!Kept
<1> HIDE DEF k, nth, firsts
<1> QED BY <1>6, <1>7

NetStates == {"resolve", "connect", "tls", "classify", "report", "done"}
NetAttempts == [address : Net!Range(candidates), outcome : {"no socket", "connected", "unreachable", "refused"}]

\* It is the turn of candidate t of n in round r of at most m + 1, and L attempts
\* were made.
NetTurns(L, n, r, t, m) ==
  /\ n \in Nat \ {0} /\ r \in 1..(m + 1) /\ t \in 1..n
  /\ L = (r - 1) * n + (t - 1)

\* Before turn t of a round, none that was tried in it is reachable.
NetMissed(c, t, hit) == \A j \in 1..(t - 1) : c[j] \notin hit

\* While candidates are tried: as many attempts as turns, one candidate after
\* the other, and none of those that were tried in this round is reachable.
NetTrying ==
  /\ resolution = "resolved"
  /\ DOMAIN candidates = 1..Len(candidates)
  /\ NetTurns(Len(attempts), Len(candidates), round, turn, request.retries)
  /\ ~Net!Connected(attempts) => NetMissed(candidates, turn, reachable)

\* All the rounds were gone through without a connection.
NetTried == Len(attempts) = (request.retries + 1) * Len(candidates)

NetIInv ==
  /\ pc \in NetStates
  /\ request \in Requests
  /\ reachable \subseteq answering \intersect socketable
  /\ attempts \in Seq(NetAttempts)
  /\ \A i \in DOMAIN attempts : attempts[i].address = candidates[((i - 1) % Len(candidates)) + 1]
  /\ ~Net!Connected(attempts) => missed = {}
  /\ pc = "resolve" => attempts = << >> /\ round = 0
  /\ pc = "connect" => NetTrying
  /\ pc \in {"tls", "classify"} /\ resolution = "resolved" /\ ~Net!Connected(attempts) => NetTried
  /\ pc \notin {"report", "done"} => verdict = "none"
  /\ Net!ReachableIsFound

LEMMA NetInit == ASSUME Net!Init PROVE NetIInv
<1>1. attempts \in Seq(NetAttempts) /\ DOMAIN attempts = {}
  BY DEF Net!Init
<1> QED
  BY <1>1 DEF Net!Init, NetIInv, NetStates, Net!ReachableIsFound

LEMMA NetChanges == ASSUME NetIInv, Net!NetworkChanges PROVE NetIInv'
<1>1. /\ UNCHANGED <<missed, request, pc, Net!evidence, verdict, exit>>
      /\ reachable' \subseteq reachable
      /\ reachable' \subseteq answering' \intersect socketable'
  BY DEF Net!NetworkChanges
<1>2. NetAttempts' = NetAttempts
  BY <1>1 DEF NetAttempts, Net!evidence
<1> QED
  BY <1>1, <1>2, Zenon DEF NetIInv, NetTrying, NetMissed, NetTried, Net!Connected, Net!Tested, Net!ReachableIsFound, Net!evidence

\* Steps that leave alone what was attempted.
LEMMA NetSame ==
  ASSUME NetIInv,
         UNCHANGED <<Net!world, reachable, missed, request, candidates, attempts>>,
         pc' \in {"classify", "report", "done"},
         pc' = "classify" /\ resolution' = "resolved" => pc = "tls" /\ resolution = "resolved",
         pc' = "classify" => verdict' = "none",
         Net!ReachableIsFound'
  PROVE  NetIInv'
<1>1. NetAttempts' = NetAttempts
  BY DEF NetAttempts
<1> QED
  BY <1>1 DEF NetIInv, NetStates, NetTried, Net!Connected, Net!world

LEMMA NetResolve ==
  ASSUME Net!ConnectivityAssumption, NetIInv, Net!Resolve
  PROVE  NetIInv'
<1>1. PICK answer \in Answers :
        /\ resolution' = "resolved" /\ candidates' = Net!Kept(answer)
        /\ Net!BeginRound
        /\ pc' = "connect"
  BY DEF Net!Resolve
<1>2. /\ pc = "resolve" /\ UNCHANGED <<Net!world, missed, request, attempts, tlsStatus, verdict, exit>>
      /\ round' = round + 1 /\ turn' = 1 /\ reachable' = answering \intersect socketable
  BY <1>1 DEF Net!Resolve, Net!BeginRound
<1>3. attempts = << >> /\ round = 0 /\ request.retries \in Nat /\ verdict = "none"
  BY <1>2 DEF NetIInv, Net!ConnectivityAssumption
<1> DEFINE c == Net!Kept(answer)
<1>4. Len(c) \in Nat \ {0} /\ DOMAIN c = 1..Len(c)
  BY NetKept
<1>5. round' = 1 /\ NetTurns(0, Len(c), 1, 1, request.retries)
  <2>1. \A n \in Nat \ {0}, m \in Nat : NetTurns(0, n, 1, 1, m)
    BY DEF NetTurns
  <2> QED BY <1>2, <1>3, <1>4, <2>1
<1>6. NetMissed(c, 1, reachable')
  BY DEF NetMissed
<1>7. Len(attempts') = 0 /\ attempts' \in Seq(NetAttempts') /\ DOMAIN attempts' = {}
  BY <1>2, <1>3
<1> HIDE DEF c
<1>8. NetTrying'
  BY <1>1, <1>2, <1>4, <1>5, <1>6, <1>7 DEF NetTrying, c
<1> QED
  BY <1>1, <1>2, <1>3, <1>7, <1>8
  DEF NetIInv, NetStates, Net!Connected, Net!ReachableIsFound, Net!world

\* A candidate that was reachable since the round began would have connected.
LEMMA NetOutcome ==
  ASSUME NetIInv, NEW a, NEW o \in Net!OutcomeOf(a), o # "connected"
  PROVE  a \notin reachable
BY Zenon DEF NetIInv, Net!OutcomeOf

LEMMA NetAttempt ==
  ASSUME Net!ConnectivityAssumption, NetIInv, Net!Attempt
  PROVE  NetIInv'
<1>1. PICK outcome \in Net!OutcomeOf(candidates[turn]) :
        /\ attempts' = Append(attempts, [address |-> candidates[turn], outcome |-> outcome])
        /\ IF ~Net!RoundEnds(outcome)
           THEN turn' = turn + 1 /\ UNCHANGED <<pc, round, reachable, missed>>
           ELSE /\ missed' = missed \union (reachable \intersect Net!Range(candidates))
                /\ IF Net!Connected(attempts') \/ round = request.retries + 1
                   THEN /\ pc' = IF request.tls /\ Net!Connected(attempts') THEN "tls" ELSE "classify"
                        /\ UNCHANGED <<round, turn, reachable>>
                   ELSE Net!BeginRound /\ UNCHANGED pc
  BY DEF Net!Attempt
<1>2. pc = "connect" /\ UNCHANGED <<Net!world, request, resolution, candidates, tlsStatus, verdict, exit>>
  BY DEF Net!Attempt
<1> DEFINE n == Len(candidates)
           L == Len(attempts)
           m == request.retries
           x == [address |-> candidates[turn], outcome |-> outcome]
<1>3. /\ NetTrying /\ request \in Requests /\ m \in Nat /\ verdict = "none" /\ attempts \in Seq(NetAttempts)
      /\ n \in Nat \ {0} /\ DOMAIN candidates = 1..n /\ turn \in 1..n /\ round \in 1..(m + 1)
      /\ L = (round - 1) * n + (turn - 1)
  BY <1>2 DEF NetIInv, NetTrying, NetTurns, Net!ConnectivityAssumption
<1>4. round \in Nat \ {0} /\ L \in Nat /\ turn \in Nat
  BY <1>3
<1>5. x \in NetAttempts
  BY <1>3, Zenon DEF NetAttempts, Net!Range, Net!OutcomeOf
<1>6. /\ attempts' \in Seq(NetAttempts) /\ Len(attempts') = L + 1 /\ DOMAIN attempts' = 1..(L + 1)
      /\ attempts'[L + 1] = x /\ \A i \in 1..L : attempts'[i] = attempts[i]
      /\ DOMAIN attempts = 1..L
  <2> HIDE DEF x
  <2> QED BY <1>1, <1>3, <1>5 DEF x
<1>7. NetAttempts' = NetAttempts
  BY <1>2 DEF NetAttempts
<1> HIDE DEF n, L, m
<1>8. /\ L + 1 = (round - 1) * n + ((turn + 1) - 1)
      /\ turn = n => L + 1 = round * n /\ L + 1 = ((round + 1) - 1) * n + (1 - 1)
      /\ (((L + 1) - 1) % n) + 1 = turn
  BY <1>3, <1>4, NetCount
<1>9. \A i \in DOMAIN attempts' : attempts'[i].address = candidates[((i - 1) % n) + 1]
  <2> SUFFICES ASSUME NEW i \in 1..(L + 1)
               PROVE  attempts'[i].address = candidates[((i - 1) % n) + 1]
    BY <1>6
  <2>1. CASE i = L + 1
    BY <1>6, <1>8, <2>1
  <2>2. CASE i # L + 1
    <3>1. i \in 1..L
      BY <1>4, <2>2
    <3> QED BY <1>6, <3>1 DEF NetIInv, n
  <2> QED BY <2>1, <2>2
<1>10. Net!Connected(attempts') <=> Net!Connected(attempts) \/ outcome = "connected"
  <2>1. L + 1 \in 1..(L + 1) /\ \A i \in 1..(L + 1) : i = L + 1 \/ i \in 1..L
    BY <1>4
  <2>2. 1..L \subseteq 1..(L + 1)
    BY <1>4
  <2> QED BY <1>6, <2>1, <2>2 DEF Net!Connected
<1>11. ~Net!Connected(attempts') => NetMissed(candidates, turn + 1, reachable)
  <2> SUFFICES ASSUME ~Net!Connected(attempts'), NEW j \in 1..((turn + 1) - 1)
               PROVE  candidates[j] \notin reachable
    BY DEF NetMissed
  <2>1. CASE j = turn
    BY <1>10, <2>1, NetOutcome
  <2>2. CASE j # turn
    <3>1. j \in 1..(turn - 1)
      BY <1>4, <2>2
    <3> QED BY <1>3, <1>10, <3>1 DEF NetTrying, NetMissed
  <2> QED BY <2>1, <2>2
<1>12. CASE ~Net!RoundEnds(outcome)
  <2>1. turn' = turn + 1 /\ UNCHANGED <<pc, round, reachable, missed>> /\ turn # n
    BY <1>1, <1>12 DEF Net!RoundEnds, n
  <2>2. NetTurns(L + 1, n, round, turn + 1, m)
    <3>1. turn + 1 \in 1..n
      BY <1>3, <2>1
    <3> QED BY <1>3, <1>8, <3>1 DEF NetTurns
  <2>3. NetTrying'
    BY <1>2, <1>3, <1>6, <1>11, <2>1, <2>2, Zenon DEF NetTrying, n, m
  <2> QED
    BY <1>2, <1>3, <1>6, <1>7, <1>9, <1>10, <2>1, <2>3, Zenon
    DEF NetIInv, NetStates, Net!ReachableIsFound, Net!world, n
<1>13. CASE Net!RoundEnds(outcome)
  <2>1. missed' = missed \union (reachable \intersect Net!Range(candidates))
    BY <1>1, <1>13
  <2>2. ~Net!Connected(attempts') => turn = n /\ missed' = {}
    <3> SUFFICES ASSUME ~Net!Connected(attempts') PROVE turn = n /\ missed' = {}
      OBVIOUS
    <3>1. turn = n /\ missed = {}
      BY <1>10, <1>13 DEF Net!RoundEnds, NetIInv, n
    <3>2. (turn + 1) - 1 = n
      BY <1>3, <3>1
    <3>3. \A j \in 1..n : candidates[j] \notin reachable
      BY <1>11, <3>2 DEF NetMissed
    <3>4. reachable \intersect Net!Range(candidates) = {}
      BY <1>3, <3>3 DEF Net!Range
    <3> QED BY <2>1, <3>1, <3>4
  <2>3. CASE Net!Connected(attempts') \/ round = m + 1
    <3>1. pc' \in {"tls", "classify"} /\ UNCHANGED <<round, turn, reachable>>
      BY <1>1, <1>13, <2>3 DEF m
    <3>2. ~Net!Connected(attempts') => Len(attempts') = (m + 1) * n
      BY <1>6, <1>8, <2>2, <2>3
    <3> QED
      BY <1>2, <1>3, <1>6, <1>7, <1>9, <2>2, <3>1, <3>2, Zenon
      DEF NetIInv, NetStates, NetTried, Net!ReachableIsFound, Net!world, n, m
  <2>4. CASE ~Net!Connected(attempts') /\ round # m + 1
    <3>1. round' = round + 1 /\ turn' = 1 /\ reachable' = answering \intersect socketable /\ pc' = pc
      BY <1>1, <1>13, <2>4 DEF Net!BeginRound, m
    <3>2. NetTurns(L + 1, n, round + 1, 1, m)
      <4>1. round + 1 \in 1..(m + 1) /\ 1 \in 1..n
        BY <1>3, <2>4
      <4> QED BY <1>3, <1>8, <2>2, <2>4, <4>1 DEF NetTurns
    <3>3. NetMissed(candidates, 1, reachable')
      BY DEF NetMissed
    <3>4. NetTrying'
      BY <1>2, <1>3, <1>6, <3>1, <3>2, <3>3 DEF NetTrying, n, m
    <3> QED
      BY <1>2, <1>3, <1>6, <1>7, <1>9, <2>2, <2>4, <3>1, <3>4
      DEF NetIInv, NetStates, Net!ReachableIsFound, Net!world, n
  <2> QED BY <2>3, <2>4
<1> QED BY <1>12, <1>13

LEMMA NetClassify ==
  ASSUME NetIInv, Net!Classify
  PROVE  NetIInv'
<1>1. /\ pc = "classify" /\ pc' = "report"
      /\ UNCHANGED <<Net!world, reachable, missed, request, Net!evidence, exit>>
      /\ verdict' = "otherwise" => ~Net!Complete /\ ~Net!Untested
  BY DEF Net!Classify
<1>2. Net!ReachableIsFound'
  <2> SUFFICES ASSUME verdict' = "otherwise", resolution = "resolved", ~(Net!Connected(attempts) /\ request.tls)
               PROVE  missed = {} /\ Net!Tested /\ NetTried
    BY <1>1, Zenon DEF NetIInv, NetTried, Net!ReachableIsFound, Net!evidence, Net!Connected, Net!Tested
  <2>1. ~Net!Connected(attempts) /\ Net!Tested
    BY <1>1 DEF Net!Complete, Net!Untested
  <2> QED BY <1>1, <2>1 DEF NetIInv
<1> QED
  BY <1>1, <1>2, NetSame DEF Net!evidence

LEMMA NetStep ==
  ASSUME Net!ConnectivityAssumption, NetIInv, Net!Next \/ UNCHANGED Net!vars
  PROVE  NetIInv'
<1>1. CASE Net!NetworkChanges
  BY <1>1, NetChanges
<1>2. CASE Net!Resolve
  BY <1>2, NetResolve
<1>3. CASE Net!Attempt
  BY <1>3, NetAttempt
<1>4. CASE Net!Classify
  BY <1>4, NetClassify
<1>5. CASE Net!ResolveNegative
  <2>1. /\ UNCHANGED <<Net!world, reachable, missed, request, candidates, attempts, verdict>>
        /\ resolution' = "failed" /\ pc' = "classify" /\ verdict = "none"
    BY <1>5 DEF NetIInv, Net!ResolveNegative
  <2>2. Net!ReachableIsFound'
    BY <2>1 DEF Net!ReachableIsFound
  <2> QED BY <2>1, <2>2, NetSame
<1>6. CASE Net!TlsHandshake
  <2>1. /\ UNCHANGED <<Net!world, reachable, missed, request, candidates, attempts, verdict, resolution>>
        /\ pc = "tls" /\ pc' \in {"classify", "done"} /\ verdict = "none"
    BY <1>6, Zenon DEF NetIInv, Net!TlsHandshake, Net!Done
  <2>2. Net!ReachableIsFound'
    BY <2>1 DEF Net!ReachableIsFound
  <2> QED BY <2>1, <2>2, NetSame
<1>7. CASE Net!ResolveFails \/ Net!AttemptFails \/ Net!Report \/ Net!Interrupt
  <2>1. UNCHANGED <<Net!world, reachable, missed, request, Net!evidence, verdict>> /\ pc' = "done"
    BY <1>7 DEF Net!ResolveFails, Net!AttemptFails, Net!Report, Net!Interrupt, Net!Done
  <2>2. Net!ReachableIsFound'
    BY <2>1, Zenon DEF NetIInv, Net!ReachableIsFound, Net!Connected, Net!Tested, Net!evidence
  <2> QED BY <2>1, <2>2, NetSame DEF Net!evidence
<1>8. CASE UNCHANGED Net!vars
  <2>1. NetAttempts' = NetAttempts
    BY <1>8 DEF NetAttempts, Net!vars, Net!evidence
  <2> QED
    BY <1>8, <2>1, Zenon
    DEF NetIInv, NetTrying, NetTried, Net!Connected, Net!Tested, Net!ReachableIsFound, Net!vars, Net!world,
      Net!evidence
<1> QED
  BY <1>1, <1>2, <1>3, <1>4, <1>5, <1>6, <1>7, <1>8 DEF Net!Next, Net!ToolStep

\* However addresses and sockets come and go: a candidate that could be reached
\* throughout a round is not called UNREACHABLE, and without a connection every
\* candidate was tried in each of the rounds (diagnose, attempt_connections).
THEOREM NothingReachableIsMissed == Spec => []ReachableIsFound
<1>1. Init => (tool = "netdoctor" => NetIInv)
  BY StartOfOneTool, NetInit
<1>2. (tool = "netdoctor" => NetIInv) /\ [Next]_vars => (tool = "netdoctor" => NetIInv)'
  <2>1. Net!ConnectivityAssumption
    BY VerdictsAssumption
  <2> QED BY <2>1, StepsOfOneTool, NetStep
<1>3. (tool = "netdoctor" => NetIInv) => ReachableIsFound
  BY DEF NetIInv, ReachableIsFound
<1> QED BY <1>1, <1>2, <1>3, PTL DEF Spec

-------------------------------------------------------------------------------
(* ConfigDiff: two trees, of any shape and however often they change.      *)
(*                                                                         *)
(* The argument: of what does not change during the run, a walk has, at    *)
(* any time, everything: it was examined, or is below something that could *)
(* not be or was not entered, or is still ahead, below an entry that was   *)
(* listed and is waiting.  When the walk ends nothing is waiting.          *)

TreeNodes == {0} \union FileNodes \union DirNodes
TreeEntry == [path : Paths \ {<< >>}, node : FileNodes \union DirNodes]
TreeFrame == [path : Paths, todo : Seq(TreeEntry)]
TreeStates == {"root", "walk", "compare", "report", "done"}

TreeTypeOK ==
  /\ pc \in TreeStates /\ verdict \in {"none", "decided", "incomplete", "otherwise"}
  /\ trees \in [Tree!Sides -> [Paths -> TreeNodes]] /\ touched \subseteq Paths
  /\ walking \in Tree!Sides /\ frames \in Seq(TreeFrame)
  /\ entries \in [Tree!Sides -> SUBSET TreeEntry]
  /\ unreadable \in [Tree!Sides -> SUBSET Paths]
  /\ unentered \in [Tree!Sides -> SUBSET Paths]

\* What is above an entry is a directory.
TreeShape ==
  \A s \in Tree!Sides : \A p, q \in Paths :
    trees[s][p] # 0 /\ Tree!IsPrefix(q, p) /\ q # p => trees[s][q] \in DirNodes

\* The entries that wait in a stack of frames.
TreeWaits(fs, e) == \E j \in DOMAIN fs : \E k \in DOMAIN fs[j].todo : fs[j].todo[k] = e

\* An entry is still what it was when it was listed, unless its path changed.
TreeStill(s, e) == e.path \notin touched => trees[s][e.path] = e.node
TreeSound ==
  /\ \A s \in Tree!Sides : \A e \in entries[s] : TreeStill(s, e)
  /\ \A e \in TreeEntry : TreeWaits(frames, e) => TreeStill(walking, e)

TreeCovered(s, p) ==
  \/ \E e \in entries[s] : e.path = p
  \/ \E q \in unreadable[s] : Tree!IsPrefix(q, p)
  \/ Tree!Cut(s, p)
TreeAhead(p) == \E e \in TreeEntry : TreeWaits(frames, e) /\ Tree!IsPrefix(e.path, p)
TreeThere(s, p) == p # << >> /\ p \notin touched /\ trees[s][p] # 0

\* A walk has what does not change; begun says that it has started.
TreeBegun(s) == IF s = walking THEN pc # "root" ELSE walking = "current"
TreeComplete ==
  \A s \in Tree!Sides : TreeBegun(s) =>
    /\ trees[s][<< >>] \in DirNodes
    /\ \A p \in Paths : TreeThere(s, p) => TreeCovered(s, p) \/ (s = walking /\ TreeAhead(p))

TreeWalking ==
  /\ TreeSound /\ TreeComplete /\ verdict = "none" /\ exit # 0
  /\ pc # "walk" => frames = << >>
  /\ pc = "compare" => walking = "current"

\* What both trees hold of p, if they hold it, is the same.
TreeSame(p) ==
  /\ trees["baseline"][p] = 0 <=> trees["current"][p] = 0
  /\ ~Tree!Differ(trees["baseline"][p], trees["current"][p])

TreeJudged ==
  /\ Tree!DriftIsReal
  /\ verdict = "otherwise" =>
       \A p \in Paths : (\A q \in touched : ~Tree!IsPrefix(q, p) /\ ~Tree!IsPrefix(p, q)) => TreeSame(p)
  /\ exit = 0 => verdict = "otherwise"
  /\ pc = "report" => verdict # "none"

TreeIInv ==
  /\ TreeTypeOK /\ TreeShape /\ TreeJudged
  /\ pc \in {"root", "walk", "compare"} => TreeWalking

LEMMA TreePrefixTrans ==
  ASSUME NEW p \in Seq(Nat), NEW q \in Seq(Nat), NEW r \in Seq(Nat), Tree!IsPrefix(r, q), Tree!IsPrefix(q, p)
  PROVE  Tree!IsPrefix(r, p)
<1>1. /\ Len(r) \in Nat /\ Len(q) \in Nat /\ Len(p) \in Nat
      /\ Len(r) <= Len(q) /\ SubSeq(r, 1, Len(r)) = SubSeq(q, 1, Len(r))
      /\ Len(q) <= Len(p) /\ SubSeq(q, 1, Len(q)) = SubSeq(p, 1, Len(q))
  BY DEF Tree!IsPrefix
<1>2. \A i \in 1..Len(q) : q[i] = p[i]
  <2> TAKE i \in 1..Len(q)
  <2>1. SubSeq(q, 1, Len(q))[i] = q[i] /\ SubSeq(p, 1, Len(q))[i] = p[i]
    BY <1>1
  <2> QED BY <1>1, <2>1
<1>3. SubSeq(q, 1, Len(r)) = SubSeq(p, 1, Len(r))
  BY <1>1, <1>2
<1> QED BY <1>1, <1>3 DEF Tree!IsPrefix

LEMMA TreePrefixSelf ==
  ASSUME NEW p \in Seq(Nat)
  PROVE  Tree!IsPrefix(p, p) /\ Tree!IsPrefix(<< >>, p) /\ (Tree!IsPrefix(p, << >>) => p = << >>)
<1>1. Len(p) \in Nat
  OBVIOUS
<1>2. Tree!IsPrefix(p, p)
  BY <1>1 DEF Tree!IsPrefix
<1>3. Tree!IsPrefix(<< >>, p)
  BY <1>1 DEF Tree!IsPrefix
<1>4. Tree!IsPrefix(p, << >>) => p = << >>
  BY DEF Tree!IsPrefix
<1> QED BY <1>2, <1>3, <1>4

\* What is above a path is the path, or above its directory.
LEMMA TreeAbove ==
  ASSUME NEW q \in Seq(Nat), q # << >>, NEW r \in Seq(Nat)
  PROVE  /\ Tree!Front(q) = SubSeq(q, 1, Len(q) - 1) /\ Len(q) - 1 \in 0..Len(q)
         /\ Tree!Front(q) \in Seq(Nat)
         /\ Tree!IsPrefix(r, q) /\ r # q => Tree!IsPrefix(r, Tree!Front(q))
<1> DEFINE n == Len(q) - 1
<1>1. Len(q) \in Nat \ {0} /\ n \in Nat /\ n < Len(q)
  OBVIOUS
<1>2. Tree!Front(q) = SubSeq(q, 1, n)
  BY DEF Tree!Front
<1> HIDE DEF n
<1>3. SubSeq(q, 1, n) \in Seq(Nat) /\ Len(SubSeq(q, 1, n)) = n /\ \A i \in 1..n : SubSeq(q, 1, n)[i] = q[i]
  BY <1>1
<1> DEFINE f == SubSeq(q, 1, n)
<1> HIDE DEF f
<1>4. f \in Seq(Nat) /\ Len(f) = n /\ \A i \in 1..n : f[i] = q[i]
  BY <1>3 DEF f
<1>5. ASSUME Tree!IsPrefix(r, q), r # q PROVE Tree!IsPrefix(r, f)
  <2>1. Len(r) \in Nat /\ Len(r) <= Len(q) /\ SubSeq(r, 1, Len(r)) = SubSeq(q, 1, Len(r))
    BY <1>5 DEF Tree!IsPrefix
  <2>2. ASSUME Len(r) = Len(q) PROVE FALSE
    <3>1. SubSeq(r, 1, Len(r)) = r /\ SubSeq(q, 1, Len(q)) = q
      OBVIOUS
    <3> QED BY <1>5, <2>1, <2>2, <3>1, Zenon
  <2>3. Len(r) <= n
    BY <1>1, <2>1, <2>2 DEF n
  <2>4. SubSeq(f, 1, Len(r)) = SubSeq(q, 1, Len(r))
    BY <1>1, <1>4, <2>1, <2>3
  <2> QED BY <1>4, <2>1, <2>3, <2>4 DEF Tree!IsPrefix
<1> QED BY <1>1, <1>2, <1>4, <1>5 DEF f, n

\* Below a path, the way to an entry leads through a child.
LEMMA TreeChild ==
  ASSUME Tree!TreeAssumption, NEW p \in Paths, NEW q \in Paths, Tree!IsPrefix(q, p), q # p
  PROVE  \E c \in Paths \ {<< >>} : Tree!Front(c) = q /\ Tree!IsPrefix(c, p)
<1> DEFINE n == Len(q) + 1
           c == SubSeq(p, 1, n)
<1>1. p \in Seq(Nat) /\ q \in Seq(Nat) /\ \A m \in 0..Len(p) : SubSeq(p, 1, m) \in Paths
  BY DEF Tree!TreeAssumption
<1>2. Len(q) \in Nat /\ Len(p) \in Nat /\ Len(q) <= Len(p) /\ SubSeq(q, 1, Len(q)) = SubSeq(p, 1, Len(q))
  BY <1>1 DEF Tree!IsPrefix
<1>3. ASSUME Len(q) = Len(p) PROVE FALSE
  <2>1. SubSeq(q, 1, Len(q)) = q /\ SubSeq(p, 1, Len(p)) = p
    BY <1>1
  <2> QED BY <1>2, <1>3, <2>1
<1>4. n \in 1..Len(p) /\ n - 1 = Len(q)
  BY <1>2, <1>3
<1> HIDE DEF n
<1>5. c \in Seq(Nat) /\ Len(c) = n /\ \A i \in 1..n : c[i] = p[i]
  BY <1>1, <1>2, <1>4
<1>6. c \in Paths
  BY <1>1, <1>2, <1>4
<1> HIDE DEF c
<1>7. SubSeq(c, 1, Len(q)) = SubSeq(p, 1, Len(q))
  BY <1>1, <1>2, <1>4, <1>5
<1>8. Tree!Front(c) = q
  <2>1. Tree!Front(c) = SubSeq(c, 1, Len(q))
    BY <1>4, <1>5 DEF Tree!Front
  <2>2. SubSeq(q, 1, Len(q)) = q
    BY <1>1
  <2> QED BY <1>2, <1>7, <2>1, <2>2
<1>9. Tree!IsPrefix(c, p)
  <2>1. SubSeq(c, 1, n) = SubSeq(p, 1, n)
    BY <1>1, <1>2, <1>4, <1>5
  <2> QED BY <1>2, <1>4, <1>5, <2>1 DEF Tree!IsPrefix
<1>10. c # << >>
  BY <1>2, <1>4, <1>5
<1> QED BY <1>6, <1>8, <1>9, <1>10

\* What the stack holds when a frame is added, or its last entry is taken.
LEMMA TreePush ==
  ASSUME NEW fs \in Seq(TreeFrame), NEW f \in TreeFrame
  PROVE  /\ Append(fs, f) \in Seq(TreeFrame)
         /\ \A e : TreeWaits(Append(fs, f), e) <=> TreeWaits(fs, e) \/ \E k \in DOMAIN f.todo : f.todo[k] = e
<1> DEFINE a == Append(fs, f)
           n == Len(fs)
<1>1. n \in Nat /\ a \in Seq(TreeFrame) /\ Len(a) = n + 1 /\ a[n + 1] = f /\ \A j \in 1..n : a[j] = fs[j]
  OBVIOUS
<1> HIDE DEF a
<1>2. DOMAIN fs = 1..n /\ DOMAIN a = 1..(n + 1)
  BY <1>1
<1> HIDE DEF n
<1>3. \A j \in 1..(n + 1) : j \in 1..n \/ j = n + 1
  BY <1>1
<1>4. (\A j \in 1..n : j \in 1..(n + 1)) /\ n + 1 \in 1..(n + 1)
  BY <1>1
<1>5. ASSUME NEW e, TreeWaits(a, e) PROVE TreeWaits(fs, e) \/ \E k \in DOMAIN f.todo : f.todo[k] = e
  BY <1>1, <1>2, <1>3, <1>5 DEF TreeWaits
<1>6. ASSUME NEW e, TreeWaits(fs, e) PROVE TreeWaits(a, e)
  BY <1>1, <1>2, <1>4, <1>6 DEF TreeWaits
<1>7. ASSUME NEW e, \E k \in DOMAIN f.todo : f.todo[k] = e PROVE TreeWaits(a, e)
  <2>1. n + 1 \in DOMAIN a /\ a[n + 1] = f
    BY <1>1, <1>2, <1>4
  <2> QED BY <1>7, <2>1 DEF TreeWaits
<1> QED BY <1>1, <1>5, <1>6, <1>7 DEF a

LEMMA TreePop ==
  ASSUME NEW fs \in Seq(TreeFrame), fs # << >>
  PROVE  /\ Tree!Front(fs) \in Seq(TreeFrame) /\ Tree!Last(fs) \in TreeFrame
         /\ fs = Append(Tree!Front(fs), Tree!Last(fs))
<1> DEFINE n == Len(fs) - 1
           f == SubSeq(fs, 1, n)
<1>1. n \in Nat /\ n < Len(fs) /\ Len(fs) \in 1..Len(fs) /\ n + 1 = Len(fs)
  OBVIOUS
<1>2. Tree!Front(fs) = f /\ Tree!Last(fs) = fs[Len(fs)]
  BY DEF Tree!Front, Tree!Last
<1> HIDE DEF n
<1>3. f \in Seq(TreeFrame) /\ Len(f) = n /\ \A j \in 1..n : f[j] = fs[j]
  BY <1>1
<1> HIDE DEF f
<1>4. fs[Len(fs)] \in TreeFrame
  BY <1>1
<1>5. fs = Append(f, fs[Len(fs)])
  BY <1>1, <1>3, <1>4
<1> QED BY <1>2, <1>3, <1>4, <1>5

LEMMA TreeTaken ==
  ASSUME NEW l \in TreeFrame, NEW rest
  PROVE  [l EXCEPT !.todo = rest] = [path |-> l.path, todo |-> rest]
BY DEF TreeFrame

\* The next entry, and the stack without it.
LEMMA TreeRest ==
  ASSUME TreeTypeOK, Tree!Inspecting
  PROVE  /\ Tree!Child \in TreeEntry /\ TreeWaits(frames, Tree!Child)
         /\ Tree!Rest \in Seq(TreeFrame)
         /\ \A e : TreeWaits(Tree!Rest, e) => TreeWaits(frames, e)
         /\ \A e : TreeWaits(frames, e) => e = Tree!Child \/ TreeWaits(Tree!Rest, e)
<1> DEFINE l == Tree!Last(frames)
           f == Tree!Front(frames)
           t == l.todo
           r == [path |-> l.path, todo |-> Tail(t)]
<1>1. /\ frames \in Seq(TreeFrame) /\ frames # << >> /\ t # << >>
      /\ Tree!Child = Head(t)
      /\ Tree!Rest = Append(f, [l EXCEPT !.todo = Tail(@)])
  BY DEF TreeTypeOK, Tree!Inspecting, Tree!Child, Tree!Rest, Tree!Frame
<1>2. f \in Seq(TreeFrame) /\ l \in TreeFrame /\ frames = Append(f, l)
  BY <1>1, TreePop
<1> HIDE DEF l, f
<1>3. t \in Seq(TreeEntry) /\ l.path \in Paths
  BY <1>2 DEF TreeFrame
<1>4. [l EXCEPT !.todo = Tail(@)] = r
  BY <1>2, TreeTaken, Zenon
<1> HIDE DEF t
<1>5. /\ Tail(t) \in Seq(TreeEntry) /\ Head(t) \in TreeEntry /\ Head(t) = t[1] /\ 1 \in DOMAIN t
      /\ \A k \in DOMAIN Tail(t) : k + 1 \in DOMAIN t /\ Tail(t)[k] = t[k + 1]
      /\ \A k \in DOMAIN t : k = 1 \/ (k - 1 \in DOMAIN Tail(t) /\ Tail(t)[k - 1] = t[k])
  <2>1. Len(t) \in Nat \ {0} /\ Tail(t) \in Seq(TreeEntry) /\ Len(Tail(t)) = Len(t) - 1 /\ Head(t) = t[1]
        /\ \A k \in 1..(Len(t) - 1) : Tail(t)[k] = t[k + 1]
    BY <1>1, <1>3
  <2>2. DOMAIN t = 1..Len(t) /\ DOMAIN Tail(t) = 1..(Len(t) - 1)
    BY <1>3, <2>1
  <2>3. /\ \A k \in 1..(Len(t) - 1) : k + 1 \in 1..Len(t)
        /\ \A k \in 1..Len(t) : k = 1 \/ (k - 1 \in 1..(Len(t) - 1) /\ (k - 1) + 1 = k)
        /\ 1 \in 1..Len(t)
    BY <2>1
  <2>4. t[1] \in TreeEntry
    BY <1>3, <2>3
  <2>5. \A k \in 1..Len(t) : k = 1 \/ Tail(t)[k - 1] = t[k]
    <3> TAKE k \in 1..Len(t)
    <3>1. CASE k - 1 \in 1..(Len(t) - 1) /\ (k - 1) + 1 = k
      <4>1. Tail(t)[k - 1] = t[(k - 1) + 1]
        BY <2>1, <3>1
      <4> QED BY <3>1, <4>1
    <3> QED BY <2>3, <3>1
  <2> QED BY <2>1, <2>2, <2>3, <2>4, <2>5
<1>6. r \in TreeFrame /\ r.todo = Tail(t)
  BY <1>3, <1>5 DEF TreeFrame, t
<1>7. l \in TreeFrame /\ l.todo = t
  BY <1>2 DEF t
<1> HIDE DEF r
<1>11. /\ Append(f, r) \in Seq(TreeFrame)
       /\ \A e : TreeWaits(Append(f, r), e) <=> TreeWaits(f, e) \/ \E k \in DOMAIN r.todo : r.todo[k] = e
  BY <1>2, <1>6, TreePush, Zenon
<1>8. /\ Append(f, r) \in Seq(TreeFrame)
      /\ \A e : TreeWaits(Append(f, r), e) <=> TreeWaits(f, e) \/ \E k \in DOMAIN Tail(t) : Tail(t)[k] = e
  BY <1>6, <1>11
<1>9. \A e : TreeWaits(frames, e) <=> TreeWaits(f, e) \/ \E k \in DOMAIN t : t[k] = e
  BY <1>2, <1>7, TreePush
<1>10. Tree!Rest = Append(f, r)
  BY <1>1, <1>4
<1> QED BY <1>1, <1>5, <1>8, <1>9, <1>10, Zenon

\* A sorted sequence of a finite set of entries has just these.
LEMMA TreeSorted ==
  ASSUME Tree!TreeAssumption, NEW E \in SUBSET TreeEntry, IsFiniteSet(E), NEW s \in Tree!Sorted(E)
  PROVE  s \in Seq(TreeEntry) /\ \A e : (\E k \in DOMAIN s : s[k] = e) <=> e \in E
<1> DEFINE n == Cardinality(E)
           name(e) == Tree!Last(e.path)
<1>1. n \in Nat /\ Tree!Cardinality(E) = n
  BY FS_CardinalityType, Zenon DEF Tree!Cardinality, Cardinality
<1>2. s \in [1..n -> E] /\ \A i, j \in 1..n : i < j => name(s[i]) < name(s[j])
  <2>1. /\ s \in [1..n -> E]
        /\ \A i, j \in DOMAIN s : i < j => Tree!Last(s[i].path) < Tree!Last(s[j].path)
    BY <1>1, Zenon DEF Tree!Sorted
  <2> QED BY <2>1
<1>3. \A e \in E : name(e) \in Nat
  <2> TAKE e \in E
  <2>1. e.path \in Seq(Nat) /\ e.path # << >>
    BY DEF Tree!TreeAssumption, TreeEntry
  <2> QED BY <2>1 DEF Tree!Last
<1> HIDE DEF n, name
<1>4. s \in Seq(TreeEntry) /\ DOMAIN s = 1..n
  BY <1>1, <1>2
<1>5. \A i, j \in 1..n : s[i] = s[j] => i = j
  <2> SUFFICES ASSUME NEW i \in 1..n, NEW j \in 1..n, s[i] = s[j] PROVE i = j
    OBVIOUS
  <2>1. name(s[i]) \in Nat /\ name(s[j]) = name(s[i])
    BY <1>2, <1>3
  <2>2. ~ (i < j) /\ ~ (j < i)
    BY <1>2, <2>1
  <2> QED BY <1>1, <2>2
<1>6. s \in Surjection(1..n, E)
  <2>1. s \in Injection(1..n, E)
    BY <1>2, <1>5, Fun_IsInj, Zenon
  <2>2. Cardinality(1..n) = n
    BY <1>1, FS_Interval
  <2> QED BY <2>1, <2>2, FS_Injection DEF n
<1>7. \A e \in E : \E i \in 1..n : s[i] = e
  BY <1>6, Zenon DEF Surjection
<1>8. \A e : (\E k \in DOMAIN s : s[k] = e) <=> e \in E
  BY <1>2, <1>4, <1>7
<1> QED BY <1>4, <1>8

\* What a directory that is listed adds: what is in it waits, or is unreadable.
LEMMA TreeListed ==
  ASSUME Tree!TreeAssumption, TreeTypeOK, TreeShape, NEW d \in Paths, NEW rest \in Seq(TreeFrame),
         Tree!ListInto(d, rest)
  PROVE  \/ pc' = "done" /\ exit' # 0 /\ UNCHANGED <<frames, unreadable>>
         \/ /\ pc' = "walk" /\ exit' = exit /\ frames' \in Seq(TreeFrame)
            /\ unreadable' \in [Tree!Sides -> SUBSET Paths]
            /\ \A s \in Tree!Sides : unreadable[s] \subseteq unreadable'[s]
            /\ \A e : TreeWaits(rest, e) => TreeWaits(frames', e)
            /\ \A e : TreeWaits(frames', e) => TreeWaits(rest, e) \/ trees[walking][e.path] = e.node
            /\ \A p \in Paths : TreeThere(walking, p) /\ Tree!IsPrefix(d, p) /\ d # p =>
                 (\E q \in unreadable'[walking] : Tree!IsPrefix(q, p)) \/ TreeAhead(p)'
<1> DEFINE children == Tree!Children(walking, d)
           T == trees[walking]
<1>1. CASE Tree!Done(Tree!ExitFailure) /\ UNCHANGED <<frames, observed, unreadable>>
  BY <1>1 DEF Tree!Done, Tree!ExitFailure
<1>2. CASE ~ (Tree!Done(Tree!ExitFailure) /\ UNCHANGED <<frames, observed, unreadable>>)
  <2> DEFINE E(lost) == {[path |-> q, node |-> Tree!Here(q)] : q \in children \ lost}
  <2>0. PICK lost \in SUBSET children : \E listing \in Tree!Sorted(E(lost)) :
          /\ frames' = Append(rest, [path |-> d, todo |-> listing])
          /\ unreadable' = [unreadable EXCEPT ![walking] = @ \union lost]
          /\ pc' = "walk" /\ exit' = exit
    BY <1>2, Zenon DEF Tree!ListInto
  <2>1. PICK listing \in Tree!Sorted(E(lost)) :
          /\ frames' = Append(rest, [path |-> d, todo |-> listing])
          /\ unreadable' = [unreadable EXCEPT ![walking] = @ \union lost]
          /\ pc' = "walk" /\ exit' = exit
    BY <2>0, Zenon
  <2> DEFINE F == {[path |-> q, node |-> T[q]] : q \in children \ lost}
  <2>2. E(lost) = F
    BY DEF Tree!Here
  <2> HIDE DEF E
  <2>3. T \in [Paths -> TreeNodes] /\ children \in SUBSET (Paths \ {<< >>}) /\ \A q \in children : T[q] # 0
    BY DEF TreeTypeOK, Tree!Children
  <2>4. F \in SUBSET TreeEntry
    BY <2>3 DEF TreeEntry, TreeNodes
  <2>5. IsFiniteSet(F)
    <3> DEFINE f == [q \in children \ lost |-> [path |-> q, node |-> T[q]]]
    <3>1. IsFiniteSet(children \ lost)
      <4>1. IsFiniteSet(Paths) /\ children \ lost \in SUBSET Paths
        BY <2>3, Zenon DEF Tree!TreeAssumption, Tree!IsFiniteSet, IsFiniteSet
      <4> QED BY <4>1, FS_Subset
    <3>2. f \in [children \ lost -> F] /\ \A e \in F : \E q \in children \ lost : f[q] = e
      OBVIOUS
    <3>3. f \in Surjection(children \ lost, F)
      BY <3>2, Fun_IsSurj
    <3> HIDE DEF f
    <3> QED BY <3>1, <3>3, FS_Surjection
  <2>6. listing \in Seq(TreeEntry) /\ \A e : (\E k \in DOMAIN listing : listing[k] = e) <=> e \in F
    BY <2>2, <2>4, <2>5, TreeSorted, Zenon
  <2> DEFINE frame == [path |-> d, todo |-> listing]
  <2>7. frame \in TreeFrame /\ frame.todo = listing
    BY <2>6 DEF TreeFrame
  <2> HIDE DEF frame, F
  <2>8. /\ Append(rest, frame) \in Seq(TreeFrame)
        /\ \A e : TreeWaits(Append(rest, frame), e) <=> TreeWaits(rest, e) \/ \E k \in DOMAIN frame.todo : frame.todo[k] = e
    BY <2>7, TreePush
  <2>9. frames' \in Seq(TreeFrame) /\ \A e : TreeWaits(frames', e) <=> TreeWaits(rest, e) \/ e \in F
    BY <2>1, <2>6, <2>7, <2>8 DEF frame
  <2>10. \A e \in F : T[e.path] = e.node
    BY DEF F
  <2>11. /\ unreadable' \in [Tree!Sides -> SUBSET Paths]
         /\ unreadable'[walking] = unreadable[walking] \union lost
         /\ \A s \in Tree!Sides : unreadable[s] \subseteq unreadable'[s]
    BY <2>1, <2>3 DEF TreeTypeOK
  <2>12. ASSUME NEW p \in Paths, TreeThere(walking, p), Tree!IsPrefix(d, p), d # p
         PROVE  (\E q \in unreadable'[walking] : Tree!IsPrefix(q, p)) \/ TreeAhead(p)'
    <3>1. PICK c \in Paths \ {<< >>} : Tree!Front(c) = d /\ Tree!IsPrefix(c, p)
      BY <2>12, TreeChild
    <3>2. T[c] # 0
      <4>1. T[p] # 0 /\ 0 \notin DirNodes
        BY <2>12 DEF TreeThere, Tree!TreeAssumption
      <4>2. c # p => T[c] \in DirNodes
        BY <3>1, <4>1 DEF TreeShape, TreeTypeOK
      <4> QED BY <4>1, <4>2
    <3>3. c \in children
      BY <3>1, <3>2 DEF Tree!Children
    <3>4. CASE c \in lost
      BY <2>11, <3>1, <3>4
    <3>5. CASE c \notin lost
      <4> DEFINE e == [path |-> c, node |-> T[c]]
      <4>1. e \in F /\ e \in TreeEntry /\ e.path = c
        BY <2>4, <3>3, <3>5 DEF F
      <4> HIDE DEF e
      <4>2. TreeWaits(frames', e)
        BY <2>9, <4>1
      <4> QED BY <3>1, <4>1, <4>2 DEF TreeAhead
    <3> QED BY <3>4, <3>5
  <2>13. \A e : TreeWaits(frames', e) => TreeWaits(rest, e) \/ trees[walking][e.path] = e.node
    BY <2>9, <2>10
  <2> QED BY <2>1, <2>9, <2>11, <2>12, <2>13
<1> QED BY <1>1, <1>2

LEMMA TreeInit == ASSUME Tree!TreeAssumption, Tree!Init PROVE TreeIInv
<1>1. /\ trees \in [Tree!Sides -> Trees] /\ touched = {} /\ pc = "root" /\ walking = "baseline" /\ frames = << >>
      /\ verdict = "none" /\ exit = -1
      /\ entries = [s \in Tree!Sides |-> {}] /\ unreadable = entries /\ unentered = entries
  BY DEF Tree!Init, Tree!Nothing
<1>2. \A s \in Tree!Sides : trees[s] \in [Paths -> TreeNodes]
  BY <1>1 DEF Tree!TreeAssumption, TreeNodes
<1>3. TreeTypeOK
  <2>1. trees \in [Tree!Sides -> [Paths -> TreeNodes]]
    BY <1>1, <1>2
  <2>2. << >> \in Seq(TreeFrame)
    OBVIOUS
  <2>3. {} \in SUBSET TreeEntry /\ {} \in SUBSET Paths /\ "baseline" \in Tree!Sides
    BY DEF Tree!Sides
  <2> QED BY <1>1, <2>1, <2>2, <2>3 DEF TreeTypeOK, TreeStates
<1>4. TreeShape
  BY <1>1 DEF TreeShape, Tree!TreeAssumption
<1>5. TreeSound
  <2>1. \A e : ~TreeWaits(frames, e)
    BY <1>1 DEF TreeWaits
  <2> QED BY <1>1, <2>1 DEF TreeSound
<1>6. TreeComplete
  BY <1>1 DEF TreeComplete, TreeBegun
<1> QED BY <1>1, <1>3, <1>4, <1>5, <1>6 DEF TreeIInv, TreeWalking, TreeJudged, Tree!DriftIsReal

\* The trees change, at paths that are then touched.
LEMMA TreeWorld ==
  ASSUME TreeIInv, pc \in {"root", "walk"}, UNCHANGED <<pc, walking, frames, entries, unreadable, unentered, verdict, exit>>,
         trees' \in [Tree!Sides -> [Paths -> TreeNodes]], touched \subseteq touched', touched' \subseteq Paths, TreeShape',
         \A s \in Tree!Sides : \A p \in Paths : p \notin touched' \/ p = << >> => trees'[s][p] = trees[s][p]
  PROVE  TreeIInv'
<1>1. TreeTypeOK'
  BY DEF TreeIInv, TreeTypeOK
<1>2. TreeSound'
  <2>1. ASSUME NEW s \in Tree!Sides, NEW e \in TreeEntry, TreeStill(s, e) PROVE TreeStill(s, e)'
    BY <2>1 DEF TreeStill, TreeEntry
  <2>2. TreeSound /\ \A s \in Tree!Sides : entries[s] \subseteq TreeEntry
    BY DEF TreeIInv, TreeWalking, TreeTypeOK
  <2>3. walking \in Tree!Sides
    BY DEF TreeIInv, TreeTypeOK
  <2> QED BY <2>1, <2>2, <2>3 DEF TreeSound
<1>3. TreeComplete'
  <2> SUFFICES ASSUME NEW s \in Tree!Sides, TreeBegun(s)'
               PROVE  /\ trees'[s][<< >>] \in DirNodes
                      /\ \A p \in Paths : TreeThere(s, p)' =>
                           TreeCovered(s, p)' \/ (s = walking' /\ TreeAhead(p)')
    BY DEF TreeComplete
  <2>1. TreeComplete /\ TreeBegun(s)
    BY DEF TreeIInv, TreeWalking, TreeBegun
  <2>2. trees[s][<< >>] \in DirNodes /\ \A p \in Paths : TreeThere(s, p) => TreeCovered(s, p) \/ (s = walking /\ TreeAhead(p))
    BY <2>1 DEF TreeComplete
  <2>3. << >> \in Paths => trees'[s][<< >>] \in DirNodes
    BY <2>2
  <2>4. << >> \in Paths
    BY VerdictsAssumption DEF Tree!TreeAssumption
  <2>5. ASSUME NEW p \in Paths, TreeThere(s, p)' PROVE TreeCovered(s, p)' \/ (s = walking' /\ TreeAhead(p)')
    <3>1. TreeThere(s, p)
      BY <2>5 DEF TreeThere
    <3> QED BY <2>2, <3>1 DEF TreeCovered, Tree!Cut, TreeAhead
  <2> QED BY <2>3, <2>4, <2>5
<1>4. TreeWalking' /\ verdict' = "none" /\ exit' # 0 /\ pc' \in {"root", "walk"}
  BY <1>2, <1>3 DEF TreeIInv, TreeWalking
<1>5. TreeJudged'
  BY <1>4 DEF TreeJudged, Tree!DriftIsReal
<1> QED BY <1>1, <1>4, <1>5 DEF TreeIInv

LEMMA TreeTreeChanges == ASSUME Tree!TreeAssumption, TreeIInv, Tree!TreeChanges PROVE TreeIInv'
<1> DEFINE Sides == Tree!Sides
<1>1. PICK s \in Sides, p \in Paths \ {<< >>} :
        \/ /\ trees' = [trees EXCEPT ![s] = [q \in Paths |-> IF q \in Tree!Below(p) THEN 0 ELSE @[q]]]
           /\ touched' = touched \union Tree!Below(p)
        \/ /\ trees[s][p] \notin DirNodes /\ trees[s][Tree!Front(p)] \in DirNodes
           /\ \E n \in FileNodes : trees' = [trees EXCEPT ![s][p] = n]
           /\ touched' = touched \union {p}
  BY DEF Tree!TreeChanges
<1>2. /\ pc \in {"root", "walk"}
      /\ UNCHANGED <<pc, walking, frames, entries, unreadable, unentered, verdict, exit>>
  BY DEF Tree!TreeChanges, Tree!seen, TreeIInv, TreeTypeOK, TreeStates
<1>3. /\ trees \in [Sides -> [Paths -> TreeNodes]] /\ touched \subseteq Paths /\ TreeShape
      /\ Paths \subseteq Seq(Nat) /\ << >> \in Paths /\ 0 \notin DirNodes /\ p \in Seq(Nat) /\ p # << >>
  BY DEF TreeIInv, TreeTypeOK, Tree!TreeAssumption
<1>4. CASE /\ trees' = [trees EXCEPT ![s] = [q \in Paths |-> IF q \in Tree!Below(p) THEN 0 ELSE @[q]]]
           /\ touched' = touched \union Tree!Below(p)
  <2> DEFINE B == Tree!Below(p)
  <2>1. B \subseteq Paths /\ << >> \notin B
    BY <1>3, TreePrefixSelf DEF Tree!Below
  <2>2. \A q \in Paths : q \in B <=> Tree!IsPrefix(p, q)
    BY DEF Tree!Below
  <2> HIDE DEF B
  <2>3. trees' = [trees EXCEPT ![s] = [q \in Paths |-> IF q \in B THEN 0 ELSE trees[s][q]]]
    BY <1>4 DEF B
  <2>4. trees' \in [Sides -> [Paths -> TreeNodes]]
    BY <1>3, <2>3 DEF TreeNodes
  <2>5. /\ \A t \in Sides : \A q \in Paths : q \notin B => trees'[t][q] = trees[t][q]
        /\ \A t \in Sides : \A q \in Paths : trees'[t][q] \in {0, trees[t][q]}
        /\ \A q \in B : trees'[s][q] = 0
        /\ \A t \in Sides : t # s => trees'[t] = trees[t]
    BY <1>3, <2>1, <2>3
  <2>6. TreeShape'
    <3> SUFFICES ASSUME NEW t \in Sides, NEW q \in Paths, NEW r \in Paths,
                        trees'[t][q] # 0, Tree!IsPrefix(r, q), r # q
                 PROVE  trees'[t][r] \in DirNodes
      BY DEF TreeShape
    <3>1. trees[t][r] \in DirNodes
      BY <1>3, <2>5 DEF TreeShape
    <3>2. CASE t # s
      BY <2>5, <3>1, <3>2
    <3>3. CASE t = s
      <4>1. ~Tree!IsPrefix(p, q)
        BY <2>2, <2>5, <3>3
      <4>2. ~Tree!IsPrefix(p, r)
        BY <1>3, <4>1, TreePrefixTrans
      <4> QED BY <2>2, <2>5, <3>1, <4>2
    <3> QED BY <3>2, <3>3
  <2>7. \A t \in Sides : \A q \in Paths : q \notin touched' \/ q = << >> => trees'[t][q] = trees[t][q]
    BY <1>4, <2>1, <2>5 DEF B
  <2>8. touched \subseteq touched' /\ touched' \subseteq Paths
    BY <1>3, <1>4, <2>1 DEF B
  <2> QED BY <1>2, <2>4, <2>6, <2>7, <2>8, TreeWorld
<1>5. CASE /\ trees[s][p] \notin DirNodes /\ trees[s][Tree!Front(p)] \in DirNodes
           /\ \E n \in FileNodes : trees' = [trees EXCEPT ![s][p] = n]
           /\ touched' = touched \union {p}
  <2>1. PICK n \in FileNodes : trees' = [trees EXCEPT ![s][p] = n]
    BY <1>5, Zenon
  <2>2. /\ trees' \in [Sides -> [Paths -> TreeNodes]]
        /\ \A t \in Sides : \A q \in Paths : trees'[t][q] = trees[t][q] \/ (t = s /\ q = p)
    BY <1>3, <2>1 DEF TreeNodes
  <2>3. TreeShape'
    <3> SUFFICES ASSUME NEW t \in Sides, NEW q \in Paths, NEW r \in Paths,
                        trees'[t][q] # 0, Tree!IsPrefix(r, q), r # q
                 PROVE  trees'[t][r] \in DirNodes
      BY DEF TreeShape
    <3>1. CASE t # s \/ q # p
      <4>1. trees[t][r] \in DirNodes
        BY <1>3, <2>2, <3>1 DEF TreeShape
      <4> QED BY <1>5, <2>2, <4>1
    <3>2. CASE t = s /\ q = p
      <4> DEFINE f == Tree!Front(p)
      <4>1. f = SubSeq(p, 1, Len(p) - 1) /\ Len(p) - 1 \in 0..Len(p) /\ Tree!IsPrefix(r, f)
        BY <1>3, <3>2, TreeAbove
      <4>2. f \in Paths
        BY <4>1 DEF Tree!TreeAssumption
      <4> HIDE DEF f
      <4>3. trees[s][f] \in DirNodes
        BY <1>5 DEF f
      <4>4. trees[s][r] \in DirNodes
        BY <1>3, <4>1, <4>2, <4>3, Zenon DEF TreeShape
      <4> QED BY <2>2, <3>2, <4>4
    <3> QED BY <3>1, <3>2
  <2>4. \A t \in Sides : \A q \in Paths : q \notin touched' \/ q = << >> => trees'[t][q] = trees[t][q]
    BY <1>3, <1>5, <2>2
  <2>5. touched \subseteq touched' /\ touched' \subseteq Paths
    BY <1>3, <1>5
  <2> QED BY <1>2, <2>2, <2>3, <2>4, <2>5, TreeWorld
<1> QED BY <1>1, <1>4, <1>5

\* The run ends, or reports.
LEMMA TreeEnd ==
  ASSUME TreeIInv, pc' = "done", UNCHANGED <<trees, touched, found, unentered, verdict>>, TreeTypeOK',
         exit' = 0 => verdict = "otherwise"
  PROVE  TreeIInv'
<1>1. TreeShape' /\ TreeJudged'
  BY DEF TreeIInv, TreeShape, TreeJudged, TreeSame, Tree!DriftIsReal, Tree!Cut
<1> QED BY <1>1 DEF TreeIInv

\* A step of a walk: entries are taken, and what is below them is examined,
\* could not be, was not entered, or waits.
LEMMA TreeProgress ==
  ASSUME TreeIInv, pc = "walk", pc' = "walk", UNCHANGED <<trees, touched, walking, verdict, exit>>, TreeTypeOK',
         NEW taken \in SUBSET TreeEntry, \A e \in taken : TreeWaits(frames, e),
         \A s \in Tree!Sides : /\ entries[s] \subseteq entries'[s] /\ unreadable[s] \subseteq unreadable'[s]
                               /\ unentered[s] \subseteq unentered'[s],
         \A s \in Tree!Sides : \A e \in entries'[s] : e \in entries[s] \/ (s = walking /\ e \in taken),
         \A e \in TreeEntry : TreeWaits(frames', e) => TreeWaits(frames, e) \/ trees[walking][e.path] = e.node,
         \A e \in TreeEntry : TreeWaits(frames, e) => e \in taken \/ TreeWaits(frames', e),
         \A p \in Paths : \A e \in taken : TreeThere(walking, p) /\ Tree!IsPrefix(e.path, p) =>
           TreeCovered(walking, p)' \/ TreeAhead(p)'
  PROVE  TreeIInv'
<1>1. TreeWalking /\ TreeSound /\ TreeComplete /\ walking \in Tree!Sides
  BY DEF TreeIInv, TreeWalking, TreeTypeOK
<1>2. TreeShape' /\ TreeJudged'
  BY <1>1 DEF TreeIInv, TreeShape, TreeJudged, TreeWalking, Tree!DriftIsReal
<1>3. TreeSound'
  <2>1. \A e \in TreeEntry : TreeWaits(frames, e) => TreeStill(walking, e)
    BY <1>1 DEF TreeSound
  <2>2. \A s : \A e : TreeStill(s, e) => TreeStill(s, e)'
    BY DEF TreeStill
  <2>3. ASSUME NEW s \in Tree!Sides, NEW e \in entries'[s] PROVE TreeStill(s, e)'
    <3>1. CASE e \in entries[s]
      BY <1>1, <2>2, <3>1 DEF TreeSound
    <3>2. CASE s = walking /\ e \in taken
      BY <2>1, <2>2, <3>2
    <3> QED BY <2>3, <3>1, <3>2
  <2>4. ASSUME NEW e \in TreeEntry, TreeWaits(frames, e)' PROVE TreeStill(walking, e)'
    <3>1. CASE TreeWaits(frames, e)
      BY <2>1, <2>2, <3>1 DEF TreeStill
    <3>2. CASE trees[walking][e.path] = e.node
      BY <3>2 DEF TreeStill
    <3> QED BY <2>4, <3>1, <3>2 DEF TreeWaits
  <2> QED BY <2>3, <2>4 DEF TreeSound
<1>4. TreeComplete'
  <2>1. ASSUME NEW s \in Tree!Sides, NEW p, TreeCovered(s, p) PROVE TreeCovered(s, p)'
    BY <2>1 DEF TreeCovered, Tree!Cut
  <2>2. ASSUME NEW p \in Paths, TreeThere(walking, p), TreeAhead(p) PROVE TreeCovered(walking, p)' \/ TreeAhead(p)'
    <3>1. PICK e \in TreeEntry : TreeWaits(frames, e) /\ Tree!IsPrefix(e.path, p)
      BY <2>2 DEF TreeAhead
    <3>2. CASE e \in taken
      BY <2>2, <3>1, <3>2
    <3>3. CASE TreeWaits(frames', e)
      BY <3>1, <3>3 DEF TreeAhead, TreeWaits
    <3> QED BY <3>1, <3>2, <3>3
  <2> SUFFICES ASSUME NEW s \in Tree!Sides, TreeBegun(s)'
               PROVE  /\ trees'[s][<< >>] \in DirNodes
                      /\ \A p \in Paths : TreeThere(s, p)' =>
                           TreeCovered(s, p)' \/ (s = walking' /\ TreeAhead(p)')
    BY DEF TreeComplete
  <2>3. TreeBegun(s)
    BY DEF TreeBegun
  <2>4. trees[s][<< >>] \in DirNodes /\ \A p \in Paths : TreeThere(s, p) => TreeCovered(s, p) \/ (s = walking /\ TreeAhead(p))
    BY <1>1, <2>3 DEF TreeComplete
  <2>5. ASSUME NEW p \in Paths, TreeThere(s, p)' PROVE TreeCovered(s, p)' \/ (s = walking' /\ TreeAhead(p)')
    <3>1. TreeThere(s, p)
      BY <2>5 DEF TreeThere
    <3>2. CASE TreeCovered(s, p)
      BY <2>1, <3>2
    <3>3. CASE s = walking /\ TreeAhead(p)
      BY <2>2, <3>1, <3>3
    <3> QED BY <2>4, <3>1, <3>2, <3>3
  <2> QED BY <2>4, <2>5
<1> QED BY <1>1, <1>2, <1>3, <1>4 DEF TreeIInv, TreeWalking

LEMMA TreeInspectFails == ASSUME Tree!TreeAssumption, TreeIInv, Tree!InspectFails PROVE TreeIInv'
<1> DEFINE c == Tree!Child
<1>1. TreeTypeOK /\ pc = "walk" /\ walking \in Tree!Sides /\ c \in TreeEntry /\ TreeWaits(frames, c) /\ Tree!Rest \in Seq(TreeFrame)
  BY TreeRest DEF TreeIInv, TreeTypeOK, Tree!InspectFails, Tree!Inspecting
<1>2. UNCHANGED <<trees, touched, walking, unentered, found, verdict>>
  BY DEF Tree!InspectFails, Tree!world
<1>3. CASE Tree!Done(Tree!ExitFailure) /\ UNCHANGED <<frames, entries, unreadable>>
  <2>1. pc' = "done" /\ exit' = 3
    BY <1>3 DEF Tree!Done, Tree!ExitFailure
  <2>2. TreeTypeOK'
    BY <1>1, <1>2, <1>3, <2>1 DEF TreeTypeOK, TreeStates
  <2> QED BY <1>2, <2>1, <2>2, TreeEnd
<1>4. CASE ~ (Tree!Done(Tree!ExitFailure) /\ UNCHANGED <<frames, entries, unreadable>>)
  <2>1. /\ frames' = Tree!Rest /\ Tree!Unread(c.path) /\ UNCHANGED <<pc, exit>>
        /\ Tree!Entered(c) \/ UNCHANGED entries
    BY <1>4 DEF Tree!InspectFails
  <2> HIDE DEF c
  <2>2. /\ unreadable' \in [Tree!Sides -> SUBSET Paths] /\ c.path \in unreadable'[walking]
        /\ \A s \in Tree!Sides : unreadable[s] \subseteq unreadable'[s]
    BY <1>1, <2>1 DEF TreeTypeOK, TreeEntry, Tree!Unread
  <2>3. /\ entries' \in [Tree!Sides -> SUBSET TreeEntry]
        /\ \A s \in Tree!Sides : entries[s] \subseteq entries'[s]
        /\ \A s \in Tree!Sides : \A e \in entries'[s] : e \in entries[s] \/ (s = walking /\ e \in {c})
    BY <1>1, <2>1, Zenon DEF TreeTypeOK, Tree!Entered
  <2>4. TreeTypeOK'
    BY <1>1, <1>2, <2>1, <2>2, <2>3 DEF TreeTypeOK
  <2>5. \A e : (TreeWaits(frames', e) => TreeWaits(frames, e)) /\ (TreeWaits(frames, e) => e \in {c} \/ TreeWaits(frames', e))
    BY <1>1, <2>1, TreeRest DEF Tree!InspectFails, c
  <2>6. \A p \in Paths : Tree!IsPrefix(c.path, p) => TreeCovered(walking, p)'
    BY <1>2, <2>2 DEF TreeCovered
  <2>7. {c} \in SUBSET TreeEntry /\ \A e \in {c} : TreeWaits(frames, e)
    BY <1>1
  <2>8. \A p \in Paths : \A e \in {c} : TreeThere(walking, p) /\ Tree!IsPrefix(e.path, p) => TreeCovered(walking, p)' \/ TreeAhead(p)'
    BY <2>6
  <2>9. \A s \in Tree!Sides : unentered[s] \subseteq unentered'[s]
    BY <1>2
  <2> QED BY <1>1, <1>2, <2>1, <2>2, <2>3, <2>4, <2>5, <2>7, <2>8, <2>9, TreeProgress, Zenon
<1> QED BY <1>3, <1>4

\* An entry that is now known: itself, and nothing else.
LEMMA TreeEnters ==
  ASSUME TreeTypeOK, NEW c \in TreeEntry, Tree!Entered(c)
  PROVE  /\ entries' \in [Tree!Sides -> SUBSET TreeEntry] /\ c \in entries'[walking]
         /\ \A s \in Tree!Sides : entries[s] \subseteq entries'[s]
         /\ \A s \in Tree!Sides : \A e \in entries'[s] : e \in entries[s] \/ (s = walking /\ e \in {c})
BY DEF TreeTypeOK, Tree!Entered

LEMMA TreeInspectFile == ASSUME Tree!TreeAssumption, TreeIInv, Tree!InspectFile PROVE TreeIInv'
<1> DEFINE c == Tree!Child
<1>1. TreeTypeOK /\ pc = "walk" /\ walking \in Tree!Sides /\ c \in TreeEntry /\ TreeWaits(frames, c) /\ Tree!Rest \in Seq(TreeFrame)
  BY TreeRest DEF TreeIInv, TreeTypeOK, Tree!InspectFile, Tree!Inspecting
<1>2. /\ UNCHANGED <<trees, touched, walking, unreadable, unentered, found, verdict, pc, exit>>
      /\ Tree!Entered(c) /\ frames' = Tree!Rest /\ c.node \in FileNodes /\ trees[walking][c.path] = c.node
  BY DEF Tree!InspectFile, Tree!world, Tree!Here
<1>3. \A e : (TreeWaits(frames', e) => TreeWaits(frames, e)) /\ (TreeWaits(frames, e) => e \in {c} \/ TreeWaits(frames', e))
  BY <1>1, <1>2, TreeRest DEF Tree!InspectFile
<1> HIDE DEF c
<1>4. /\ entries' \in [Tree!Sides -> SUBSET TreeEntry] /\ c \in entries'[walking]
      /\ \A s \in Tree!Sides : entries[s] \subseteq entries'[s]
      /\ \A s \in Tree!Sides : \A e \in entries'[s] : e \in entries[s] \/ (s = walking /\ e \in {c})
  BY <1>1, <1>2, TreeEnters
<1>5. TreeTypeOK'
  BY <1>1, <1>2, <1>4 DEF TreeTypeOK
<1>6. ASSUME NEW p \in Paths, TreeThere(walking, p), Tree!IsPrefix(c.path, p) PROVE TreeCovered(walking, p)'
  <2>1. CASE c.path = p
    BY <1>2, <1>4, <2>1 DEF TreeCovered
  <2>2. CASE c.path # p
    <3>1. trees[walking][c.path] \in DirNodes
      BY <1>1, <1>6, <2>2 DEF TreeIInv, TreeShape, TreeThere, TreeEntry
    <3> QED BY <1>2, <3>1 DEF Tree!TreeAssumption
  <2> QED BY <2>1, <2>2
<1>7. {c} \in SUBSET TreeEntry /\ \A e \in {c} : TreeWaits(frames, e)
  BY <1>1
<1>8. \A p \in Paths : \A e \in {c} : TreeThere(walking, p) /\ Tree!IsPrefix(e.path, p) => TreeCovered(walking, p)' \/ TreeAhead(p)'
  BY <1>6
<1>9. \A s \in Tree!Sides : unentered[s] \subseteq unentered'[s] /\ unreadable[s] \subseteq unreadable'[s]
  BY <1>2
<1> QED BY <1>1, <1>2, <1>3, <1>4, <1>5, <1>7, <1>8, <1>9, TreeProgress, Zenon

LEMMA TreeInspectUnentered == ASSUME Tree!TreeAssumption, TreeIInv, Tree!InspectUnentered PROVE TreeIInv'
<1> DEFINE c == Tree!Child
           new == IF c.node \in Foreign \/ Tree!Children(walking, c.path) # {} THEN {c.path} ELSE {}
<1>1. TreeTypeOK /\ pc = "walk" /\ walking \in Tree!Sides /\ c \in TreeEntry /\ TreeWaits(frames, c) /\ Tree!Rest \in Seq(TreeFrame)
  BY TreeRest DEF TreeIInv, TreeTypeOK, Tree!InspectUnentered, Tree!Inspecting
<1>2. /\ UNCHANGED <<trees, touched, walking, unreadable, found, verdict, pc, exit>>
      /\ Tree!Entered(c) /\ frames' = Tree!Rest
      /\ unentered' = IF c.node \in Foreign \/ Tree!Children(walking, c.path) # {}
                      THEN [unentered EXCEPT ![walking] = @ \union {c.path}] ELSE unentered
  BY DEF Tree!InspectUnentered, Tree!world
<1>3. \A e : (TreeWaits(frames', e) => TreeWaits(frames, e)) /\ (TreeWaits(frames, e) => e \in {c} \/ TreeWaits(frames', e))
  BY <1>1, <1>2, TreeRest DEF Tree!InspectUnentered
<1> HIDE DEF c
<1>4. /\ entries' \in [Tree!Sides -> SUBSET TreeEntry] /\ c \in entries'[walking]
      /\ \A s \in Tree!Sides : entries[s] \subseteq entries'[s]
      /\ \A s \in Tree!Sides : \A e \in entries'[s] : e \in entries[s] \/ (s = walking /\ e \in {c})
  BY <1>1, <1>2, TreeEnters
<1>9. /\ unentered' \in [Tree!Sides -> SUBSET Paths]
      /\ \A s \in Tree!Sides : unentered[s] \subseteq unentered'[s] /\ unreadable[s] \subseteq unreadable'[s]
      /\ c.node \in Foreign \/ Tree!Children(walking, c.path) # {} => c.path \in unentered'[walking]
  BY <1>1, <1>2 DEF TreeTypeOK, TreeEntry
<1>5. TreeTypeOK'
  BY <1>1, <1>2, <1>4, <1>9 DEF TreeTypeOK
<1>6. ASSUME NEW p \in Paths, TreeThere(walking, p), Tree!IsPrefix(c.path, p) PROVE TreeCovered(walking, p)'
  <2>1. CASE c.path = p
    BY <1>2, <1>4, <2>1 DEF TreeCovered
  <2>2. CASE c.path # p
    <3>1. c.path \in Paths
      BY <1>1 DEF TreeEntry
    <3>2. PICK d \in Paths \ {<< >>} : Tree!Front(d) = c.path /\ Tree!IsPrefix(d, p)
      BY <1>6, <2>2, <3>1, TreeChild
    <3>3. trees[walking][d] # 0
      BY <1>1, <1>6, <3>2 DEF TreeThere, TreeIInv, TreeShape, Tree!TreeAssumption
    <3>4. Tree!Children(walking, c.path) # {}
      BY <3>2, <3>3 DEF Tree!Children
    <3>5. c.path \in unentered'[walking]
      BY <1>9, <3>4
    <3> QED BY <1>2, <1>6, <2>2, <3>5 DEF TreeCovered, Tree!Cut
  <2> QED BY <2>1, <2>2
<1>7. {c} \in SUBSET TreeEntry /\ \A e \in {c} : TreeWaits(frames, e)
  BY <1>1
<1>8. \A p \in Paths : \A e \in {c} : TreeThere(walking, p) /\ Tree!IsPrefix(e.path, p) => TreeCovered(walking, p)' \/ TreeAhead(p)'
  BY <1>6
<1> QED BY <1>1, <1>2, <1>3, <1>4, <1>5, <1>7, <1>8, <1>9, TreeProgress, Zenon

LEMMA TreeDescend == ASSUME Tree!TreeAssumption, TreeIInv, Tree!Descend PROVE TreeIInv'
<1> DEFINE c == Tree!Child
<1>1. /\ TreeTypeOK /\ TreeShape /\ pc = "walk" /\ walking \in Tree!Sides /\ c \in TreeEntry /\ TreeWaits(frames, c)
      /\ Tree!Rest \in Seq(TreeFrame)
  BY TreeRest DEF TreeIInv, TreeTypeOK, Tree!Descend, Tree!Inspecting
<1>2. /\ UNCHANGED <<trees, touched, walking, unentered, found, verdict>>
      /\ Tree!Entered(c) /\ Tree!ListInto(c.path, Tree!Rest)
  BY DEF Tree!Descend, Tree!world
<1>3. \A e : (TreeWaits(Tree!Rest, e) => TreeWaits(frames, e)) /\ (TreeWaits(frames, e) => e \in {c} \/ TreeWaits(Tree!Rest, e))
  BY <1>1, TreeRest DEF Tree!Descend
<1> HIDE DEF c
<1>4. /\ entries' \in [Tree!Sides -> SUBSET TreeEntry] /\ c \in entries'[walking]
      /\ \A s \in Tree!Sides : entries[s] \subseteq entries'[s]
      /\ \A s \in Tree!Sides : \A e \in entries'[s] : e \in entries[s] \/ (s = walking /\ e \in {c})
  BY <1>1, <1>2, TreeEnters
<1>5. c.path \in Paths
  BY <1>1 DEF TreeEntry
<1> DEFINE r == Tree!Rest
<1> HIDE DEF r
<1>6. \/ pc' = "done" /\ exit' # 0 /\ UNCHANGED <<frames, unreadable>>
      \/ /\ pc' = "walk" /\ exit' = exit /\ frames' \in Seq(TreeFrame)
         /\ unreadable' \in [Tree!Sides -> SUBSET Paths]
         /\ \A s \in Tree!Sides : unreadable[s] \subseteq unreadable'[s]
         /\ \A e : TreeWaits(r, e) => TreeWaits(frames', e)
         /\ \A e : TreeWaits(frames', e) => TreeWaits(r, e) \/ trees[walking][e.path] = e.node
         /\ \A p \in Paths : TreeThere(walking, p) /\ Tree!IsPrefix(c.path, p) /\ c.path # p =>
              (\E q \in unreadable'[walking] : Tree!IsPrefix(q, p)) \/ TreeAhead(p)'
  BY <1>1, <1>2, <1>5, TreeListed DEF r
<1>7. CASE pc' = "done" /\ exit' # 0 /\ UNCHANGED <<frames, unreadable>>
  <2>1. TreeTypeOK'
    BY <1>1, <1>2, <1>4, <1>7 DEF TreeTypeOK, TreeStates
  <2> QED BY <1>2, <1>7, <2>1, TreeEnd
<1>8. CASE pc' # "done"
  <2>1. TreeTypeOK'
    BY <1>1, <1>2, <1>4, <1>6, <1>8 DEF TreeTypeOK, TreeStates
  <2>2. {c} \in SUBSET TreeEntry /\ \A e \in {c} : TreeWaits(frames, e)
    BY <1>1
  <2>3. ASSUME NEW p \in Paths, TreeThere(walking, p), Tree!IsPrefix(c.path, p) PROVE TreeCovered(walking, p)' \/ TreeAhead(p)'
    <3>1. CASE c.path = p
      BY <1>2, <1>4, <3>1 DEF TreeCovered
    <3>2. CASE c.path # p
      BY <1>2, <1>6, <1>8, <2>3, <3>2 DEF TreeCovered
    <3> QED BY <3>1, <3>2
  <2>4. \A p \in Paths : \A e \in {c} : TreeThere(walking, p) /\ Tree!IsPrefix(e.path, p) => TreeCovered(walking, p)' \/ TreeAhead(p)'
    BY <2>3
  <2>5. \A s \in Tree!Sides : unentered[s] \subseteq unentered'[s] /\ unreadable[s] \subseteq unreadable'[s]
    BY <1>2, <1>6, <1>8
  <2>6. /\ \A e \in TreeEntry : TreeWaits(frames', e) => TreeWaits(frames, e) \/ trees[walking][e.path] = e.node
        /\ \A e \in TreeEntry : TreeWaits(frames, e) => e \in {c} \/ TreeWaits(frames', e)
    BY <1>3, <1>6, <1>8 DEF r
  <2> QED BY <1>1, <1>2, <1>4, <1>6, <1>8, <2>1, <2>2, <2>4, <2>5, <2>6, TreeProgress, Zenon
<1> QED BY <1>6, <1>7, <1>8

LEMMA TreeAscend == ASSUME TreeIInv, Tree!Ascend PROVE TreeIInv'
<1> DEFINE f == Tree!Front(frames)
           l == Tree!Last(frames)
<1>1. /\ TreeTypeOK /\ pc = "walk" /\ frames # << >> /\ l.todo = << >>
      /\ UNCHANGED <<trees, touched, walking, entries, unreadable, unentered, found, verdict, pc, exit>> /\ frames' = f
  BY DEF Tree!Ascend, Tree!world, Tree!seen, Tree!Frame, TreeIInv
<1>2. frames \in Seq(TreeFrame) /\ f \in Seq(TreeFrame) /\ l \in TreeFrame /\ frames = Append(f, l)
  BY <1>1, TreePop DEF TreeTypeOK
<1> HIDE DEF f, l
<1>3. \A e : TreeWaits(frames, e) <=> TreeWaits(f, e) \/ \E k \in DOMAIN l.todo : l.todo[k] = e
  BY <1>2, TreePush
<1>4. \A e : TreeWaits(frames', e) <=> TreeWaits(frames, e)
  BY <1>1, <1>3
<1>5. TreeTypeOK'
  BY <1>1, <1>2 DEF TreeTypeOK
<1>6. \A e \in {} : TreeWaits(frames, e)
  OBVIOUS
<1>7. /\ \A s \in Tree!Sides : /\ entries[s] \subseteq entries'[s] /\ unreadable[s] \subseteq unreadable'[s]
                               /\ unentered[s] \subseteq unentered'[s]
      /\ \A s \in Tree!Sides : \A e \in entries'[s] : e \in entries[s] \/ (s = walking /\ e \in {})
      /\ \A e \in TreeEntry : TreeWaits(frames', e) => TreeWaits(frames, e) \/ trees[walking][e.path] = e.node
      /\ \A e \in TreeEntry : TreeWaits(frames, e) => e \in {} \/ TreeWaits(frames', e)
      /\ \A p \in Paths : \A e \in {} : TreeThere(walking, p) /\ Tree!IsPrefix(e.path, p) =>
           TreeCovered(walking, p)' \/ TreeAhead(p)'
  BY <1>1, <1>4
<1>8. {} \in SUBSET TreeEntry
  OBVIOUS
<1> QED BY <1>1, <1>5, <1>6, <1>7, <1>8, TreeProgress

\* A walk starts: what is in the root waits, and the other walk is as it was.
LEMMA TreeOpenRoot == ASSUME Tree!TreeAssumption, TreeIInv, Tree!OpenRoot PROVE TreeIInv'
<1>1. /\ TreeTypeOK /\ TreeShape /\ pc = "root" /\ walking \in Tree!Sides /\ frames = << >> /\ frames \in Seq(TreeFrame)
      /\ TreeSound /\ TreeComplete /\ verdict = "none" /\ exit # 0 /\ << >> \in Paths
  BY DEF TreeIInv, TreeWalking, TreeTypeOK, Tree!OpenRoot, Tree!TreeAssumption
<1>2. UNCHANGED <<trees, touched, walking, entries, unentered, found, verdict>>
  BY DEF Tree!OpenRoot, Tree!world
<1>3. CASE pc' = "done" /\ exit' # 0 /\ UNCHANGED <<frames, unreadable>>
  <2>1. TreeTypeOK'
    BY <1>1, <1>2, <1>3 DEF TreeTypeOK, TreeStates
  <2> QED BY <1>2, <1>3, <2>1, TreeEnd
<1>4. CASE ~ (pc' = "done" /\ exit' # 0 /\ UNCHANGED <<frames, unreadable>>)
  <2>1. trees[walking][<< >>] \in DirNodes /\ Tree!ListInto(<< >>, << >>)
    BY <1>4 DEF Tree!OpenRoot, Tree!Here, Tree!Done, Tree!ExitUsage, Tree!ExitFailure
  <2>2. << >> \in Seq(TreeFrame)
    BY <1>1
  <2>3. /\ pc' = "walk" /\ exit' = exit /\ frames' \in Seq(TreeFrame)
        /\ unreadable' \in [Tree!Sides -> SUBSET Paths]
        /\ \A s \in Tree!Sides : unreadable[s] \subseteq unreadable'[s]
        /\ \A e : TreeWaits(frames', e) => TreeWaits(<< >>, e) \/ trees[walking][e.path] = e.node
        /\ \A p \in Paths : TreeThere(walking, p) /\ Tree!IsPrefix(<< >>, p) /\ << >> # p =>
             (\E q \in unreadable'[walking] : Tree!IsPrefix(q, p)) \/ TreeAhead(p)'
    BY <1>1, <1>4, <2>1, <2>2, TreeListed, Zenon
  <2>4. \A e : ~TreeWaits(<< >>, e)
    BY DEF TreeWaits
  <2>5. TreeTypeOK'
    BY <1>1, <1>2, <2>3 DEF TreeTypeOK, TreeStates
  <2>6. TreeSound'
    <3>1. ASSUME NEW s \in Tree!Sides, NEW e \in entries'[s] PROVE TreeStill(s, e)'
      BY <1>1, <1>2, <3>1 DEF TreeSound, TreeStill
    <3>2. ASSUME NEW e \in TreeEntry, TreeWaits(frames', e) PROVE TreeStill(walking, e)'
      BY <1>2, <2>3, <2>4, <3>2 DEF TreeStill
    <3> QED BY <1>2, <3>1, <3>2 DEF TreeSound, TreeStill, TreeWaits
  <2>7. TreeComplete'
    <3> SUFFICES ASSUME NEW s \in Tree!Sides, TreeBegun(s)'
                 PROVE  /\ trees'[s][<< >>] \in DirNodes
                        /\ \A p \in Paths : TreeThere(s, p)' =>
                             TreeCovered(s, p)' \/ (s = walking' /\ TreeAhead(p)')
      BY DEF TreeComplete
    <3>1. CASE s = walking
      <4>1. ASSUME NEW p \in Paths, TreeThere(s, p)' PROVE TreeCovered(s, p)' \/ TreeAhead(p)'
        <5>1. TreeThere(walking, p) /\ << >> # p
          BY <1>2, <3>1, <4>1 DEF TreeThere
        <5>2. Tree!IsPrefix(<< >>, p)
          BY TreePrefixSelf DEF Tree!TreeAssumption
        <5> QED BY <1>2, <2>3, <3>1, <5>1, <5>2 DEF TreeCovered
      <4> QED BY <1>2, <2>1, <3>1, <4>1
    <3>2. CASE s # walking
      <4>1. TreeBegun(s)
        BY <1>2, <3>2 DEF TreeBegun
      <4>2. trees[s][<< >>] \in DirNodes /\ \A p \in Paths : TreeThere(s, p) => TreeCovered(s, p)
        BY <1>1, <3>2, <4>1 DEF TreeComplete
      <4>3. ASSUME NEW p \in Paths, TreeThere(s, p)' PROVE TreeCovered(s, p)'
        <5>1. TreeThere(s, p)
          BY <1>2, <4>3 DEF TreeThere
        <5>2. TreeCovered(s, p)
          BY <4>2, <5>1
        <5> QED BY <1>2, <2>3, <5>2 DEF TreeCovered, Tree!Cut
      <4> QED BY <1>2, <4>2, <4>3
    <3> QED BY <3>1, <3>2
  <2>8. TreeShape' /\ TreeJudged'
    BY <1>1, <1>2, <2>3 DEF TreeShape, TreeJudged, Tree!DriftIsReal
  <2> QED BY <1>1, <1>2, <2>3, <2>5, <2>6, <2>7, <2>8 DEF TreeIInv, TreeWalking
<1> QED BY <1>3, <1>4

LEMMA TreeEndWalk == ASSUME TreeIInv, Tree!EndWalk PROVE TreeIInv'
<1>1. /\ TreeTypeOK /\ TreeShape /\ pc = "walk" /\ walking \in Tree!Sides /\ frames = << >>
      /\ TreeSound /\ TreeComplete /\ verdict = "none" /\ exit # 0
  BY DEF TreeIInv, TreeWalking, TreeTypeOK, Tree!EndWalk
<1>2. /\ UNCHANGED <<trees, touched, frames, entries, unreadable, unentered, found, verdict, exit>>
      /\ \/ walking = "baseline" /\ walking' = "current" /\ pc' = "root"
         \/ walking = "current" /\ walking' = "current" /\ pc' = "compare"
  BY <1>1 DEF Tree!EndWalk, Tree!world, Tree!seen, Tree!Sides
<1>3. TreeTypeOK'
  BY <1>1, <1>2 DEF TreeTypeOK, TreeStates, Tree!Sides
<1>4. \A e : ~TreeWaits(frames, e)
  BY <1>1 DEF TreeWaits
<1>5. TreeSound'
  <2>1. \A s \in Tree!Sides : \A e \in entries'[s] : TreeStill(s, e)'
    BY <1>1, <1>2 DEF TreeSound, TreeStill
  <2>2. \A e : ~TreeWaits(frames, e)'
    BY <1>2, <1>4, Zenon DEF TreeWaits
  <2> QED BY <2>1, <2>2 DEF TreeSound
<1>6. TreeComplete'
  <2> SUFFICES ASSUME NEW s \in Tree!Sides, TreeBegun(s)'
               PROVE  /\ trees'[s][<< >>] \in DirNodes
                      /\ \A p \in Paths : TreeThere(s, p)' => TreeCovered(s, p)'
    BY DEF TreeComplete
  <2>1. TreeBegun(s)
    BY <1>1, <1>2 DEF TreeBegun, Tree!Sides
  <2>2. trees[s][<< >>] \in DirNodes /\ \A p \in Paths : TreeThere(s, p) => TreeCovered(s, p) \/ TreeAhead(p)
    BY <1>1, <2>1 DEF TreeComplete
  <2>3. \A p : ~TreeAhead(p)
    BY <1>4 DEF TreeAhead
  <2>4. ASSUME NEW p \in Paths, TreeThere(s, p)' PROVE TreeCovered(s, p)'
    <3>1. TreeThere(s, p)
      BY <1>2, <2>4 DEF TreeThere
    <3>2. TreeCovered(s, p)
      BY <2>2, <2>3, <3>1
    <3> QED BY <1>2, <3>2 DEF TreeCovered, Tree!Cut
  <2> QED BY <1>2, <2>2, <2>4
<1>7. TreeShape' /\ TreeJudged'
  BY <1>1, <1>2 DEF TreeShape, TreeJudged, Tree!DriftIsReal
<1> QED BY <1>1, <1>2, <1>3, <1>5, <1>6, <1>7 DEF TreeIInv, TreeWalking

\* When both walks have ended, what is there and did not change is known, or
\* was not examined; and what is known of it is so.
LEMMA TreeFacts ==
  ASSUME Tree!TreeAssumption, TreeIInv, pc = "compare", NEW s \in Tree!Sides, NEW p \in Paths \ touched
  PROVE  /\ p \in Tree!Known(s) => /\ p # << >> /\ trees[s][p] # 0 /\ Tree!NodeOf(s, p) = trees[s][p]
         /\ p # << >> /\ trees[s][p] # 0 =>
              p \in Tree!Known(s) \/ (\E q \in unreadable[s] : Tree!IsPrefix(q, p)) \/ Tree!Cut(s, p)
         /\ trees[s][<< >>] \in DirNodes
<1>1. /\ TreeTypeOK /\ TreeSound /\ TreeComplete /\ walking = "current" /\ frames = << >>
      /\ \A q \in Tree!Sides : q \in {"baseline", "current"}
  BY DEF TreeIInv, TreeWalking, Tree!Sides
<1>2. TreeBegun(s)
  BY <1>1 DEF TreeBegun
<1>3. ~TreeAhead(p)
  BY <1>1 DEF TreeAhead, TreeWaits
<1>4. trees[s][<< >>] \in DirNodes /\ (TreeThere(s, p) => TreeCovered(s, p))
  BY <1>1, <1>2, <1>3 DEF TreeComplete
<1>5. p # << >> /\ trees[s][p] # 0 =>
        p \in Tree!Known(s) \/ (\E q \in unreadable[s] : Tree!IsPrefix(q, p)) \/ Tree!Cut(s, p)
  BY <1>4 DEF TreeThere, TreeCovered, Tree!Known
<1>6. ASSUME p \in Tree!Known(s) PROVE p # << >> /\ trees[s][p] # 0 /\ Tree!NodeOf(s, p) = trees[s][p]
  <2>1. \A e \in entries[s] : e \in TreeEntry /\ (e.path = p => trees[s][p] = e.node)
    BY <1>1 DEF TreeTypeOK, TreeSound, TreeStill
  <2>2. \E e \in entries[s] : e.path = p
    BY <1>6 DEF Tree!Known
  <2>3. PICK e \in entries[s] : e.path = p /\ Tree!NodeOf(s, p) = e.node
    BY <2>2, Zenon DEF Tree!NodeOf
  <2>4. p # << >> /\ e.node # 0
    BY <2>1, <2>3 DEF TreeEntry, Tree!TreeAssumption
  <2> QED BY <2>1, <2>3, <2>4
<1> QED BY <1>4, <1>5, <1>6

LEMMA TreeComparison == ASSUME Tree!TreeAssumption, TreeIInv, Tree!Compare PROVE TreeIInv'
<1> DEFINE B == Tree!Known("baseline")
           C == Tree!Known("current")
<1>1. /\ TreeTypeOK /\ TreeShape /\ pc = "compare" /\ pc' = "report" /\ exit' = exit /\ exit # 0
      /\ UNCHANGED <<trees, touched, walking, frames, entries, unreadable, unentered>>
      /\ "baseline" \in Tree!Sides /\ "current" \in Tree!Sides
  BY DEF TreeIInv, TreeWalking, Tree!Compare, Tree!world, Tree!seen, Tree!Sides
<1>2. /\ found' = [added |-> {p \in C \ B : ~Tree!Unexamined(p)},
                   removed |-> {p \in B \ C : ~Tree!Unexamined(p)},
                   changed |-> {p \in B \intersect C : Tree!Differ(Tree!NodeOf("baseline", p), Tree!NodeOf("current", p))}]
      /\ verdict' = IF Tree!Drift(found') THEN "decided" ELSE IF Tree!Incomplete THEN "incomplete" ELSE "otherwise"
  BY DEF Tree!Compare
<1> DEFINE T(s) == trees[s]
<1>3. /\ \A p \in Paths \ touched : \A s \in Tree!Sides :
           /\ p \in Tree!Known(s) => p # << >> /\ trees[s][p] # 0 /\ Tree!NodeOf(s, p) = trees[s][p]
           /\ p # << >> /\ trees[s][p] # 0 =>
                p \in Tree!Known(s) \/ (\E q \in unreadable[s] : Tree!IsPrefix(q, p)) \/ Tree!Cut(s, p)
           /\ trees[s][<< >>] \in DirNodes
  BY <1>1, TreeFacts
<1>4. B \subseteq Paths /\ C \subseteq Paths
  BY <1>1 DEF TreeTypeOK, TreeEntry, Tree!Known
<1>5. \A p : ~Tree!Unexamined(p) <=> \A s \in Tree!Sides : ~ \E q \in unreadable[s] : Tree!IsPrefix(q, p)
  BY DEF Tree!Unexamined, Tree!Sides
<1> HIDE DEF B, C
<1>6. /\ found'.added = {p \in C \ B : ~Tree!Unexamined(p)}
      /\ found'.removed = {p \in B \ C : ~Tree!Unexamined(p)}
      /\ found'.changed = {p \in B \intersect C : Tree!Differ(Tree!NodeOf("baseline", p), Tree!NodeOf("current", p))}
  BY <1>2
<1>7. ASSUME NEW p \in Paths \ touched
      PROVE  /\ p \in found'.added /\ ~Tree!Cut("baseline", p) => trees["baseline"][p] = 0
             /\ p \in found'.removed /\ ~Tree!Cut("current", p) => trees["current"][p] = 0
             /\ p \in found'.changed => Tree!Differ(trees["baseline"][p], trees["current"][p])
  <2>1. p \in found'.added /\ ~Tree!Cut("baseline", p) => trees["baseline"][p] = 0
    BY <1>1, <1>3, <1>5, <1>6 DEF B, C
  <2>2. p \in found'.removed /\ ~Tree!Cut("current", p) => trees["current"][p] = 0
    BY <1>1, <1>3, <1>5, <1>6 DEF B, C
  <2>3. p \in found'.changed => Tree!Differ(trees["baseline"][p], trees["current"][p])
    BY <1>1, <1>3, <1>6 DEF B, C
  <2> QED BY <2>1, <2>2, <2>3
<1>8. \A s : \A p : Tree!Cut(s, p)' <=> Tree!Cut(s, p)
  BY <1>1 DEF Tree!Cut
<1>9. Tree!DriftIsReal'
  BY <1>1, <1>7, <1>8 DEF Tree!DriftIsReal, Tree!Differ
<1>10. ASSUME verdict' = "otherwise", NEW p \in Paths, \A q \in touched : ~Tree!IsPrefix(q, p) /\ ~Tree!IsPrefix(p, q)
       PROVE  TreeSame(p)'
  <2>1. /\ found'.added = {} /\ found'.removed = {} /\ found'.changed = {}
        /\ \A s \in Tree!Sides : unreadable[s] = {} /\ unentered[s] = {}
    BY <1>2, <1>10 DEF Tree!Drift, Tree!Incomplete
  <2>2. p \notin touched
    BY <1>10, TreePrefixSelf DEF Tree!TreeAssumption
  <2>3. \A q : ~Tree!Unexamined(q) /\ \A s \in Tree!Sides : ~Tree!Cut(s, q)
    BY <1>5, <2>1 DEF Tree!Cut
  <2>4. CASE p = << >>
    BY <1>1, <1>3, <2>2, <2>4 DEF TreeSame, Tree!Differ, Tree!TreeAssumption
  <2>5. CASE p # << >>
    <3>1. (p \in B <=> trees["baseline"][p] # 0) /\ (p \in C <=> trees["current"][p] # 0)
      BY <1>1, <1>3, <2>1, <2>2, <2>3, <2>5, Zenon DEF B, C
    <3>2. p \in B <=> p \in C
      BY <1>6, <2>1, <2>3
    <3>3. p \in B => ~Tree!Differ(trees["baseline"][p], trees["current"][p])
      BY <1>1, <1>3, <1>6, <2>1, <2>2, <3>2 DEF B, C
    <3>4. p \notin B => trees["baseline"][p] = trees["current"][p]
      BY <3>1, <3>2
    <3> QED BY <1>1, <3>1, <3>2, <3>3, <3>4 DEF TreeSame, Tree!Differ
  <2> QED BY <2>4, <2>5
<1>11. TreeJudged'
  <2>1. verdict' # "none" /\ exit' # 0
    BY <1>1, <1>2
  <2> QED BY <1>1, <1>9, <1>10, <2>1 DEF TreeJudged
<1>12. TreeTypeOK'
  BY <1>1, <1>2 DEF TreeTypeOK, TreeStates
<1>13. TreeShape'
  BY <1>1 DEF TreeShape
<1> QED BY <1>1, <1>11, <1>12, <1>13 DEF TreeIInv

LEMMA TreeReport == ASSUME TreeIInv, Tree!Report PROVE TreeIInv'
<1>1. /\ pc = "report" /\ pc' = "done"
      /\ UNCHANGED <<trees, touched, walking, frames, entries, unreadable, unentered, found, verdict>>
      /\ exit' \in {CASE verdict = "decided" -> 1 [] verdict = "incomplete" -> 3 [] OTHER -> 0, 3}
  BY DEF Tree!Report, Tree!Done, Tree!world, Tree!seen, Tree!ExitOK, Tree!ExitFinding, Tree!ExitFailure
<1>2. verdict \in {"decided", "incomplete", "otherwise"}
  BY <1>1 DEF TreeIInv, TreeTypeOK, TreeJudged
<1>3. exit' = 0 => verdict = "otherwise"
  BY <1>1, <1>2
<1>4. TreeTypeOK'
  BY <1>1 DEF TreeIInv, TreeTypeOK, TreeStates
<1> QED BY <1>1, <1>3, <1>4, TreeEnd

LEMMA TreeStep ==
  ASSUME Tree!TreeAssumption, TreeIInv, Tree!Next \/ UNCHANGED Tree!vars
  PROVE  TreeIInv'
<1>1. CASE UNCHANGED Tree!vars
  <2>1. UNCHANGED <<trees, touched, pc, walking, frames, entries, unreadable, unentered, found, verdict, exit>>
    BY <1>1 DEF Tree!vars, Tree!world, Tree!seen
  <2>2. TreeTypeOK' /\ TreeShape' /\ TreeJudged'
    BY <2>1 DEF TreeIInv, TreeTypeOK, TreeShape, TreeJudged, TreeSame, Tree!DriftIsReal, Tree!Cut
  <2>3. TreeSound => TreeSound'
    BY <2>1 DEF TreeSound, TreeStill, TreeWaits
  <2>4. TreeComplete => TreeComplete'
    <3>1. \A s : TreeBegun(s)' <=> TreeBegun(s)
      BY <2>1 DEF TreeBegun
    <3>2. \A s, p : (TreeThere(s, p)' <=> TreeThere(s, p)) /\ (TreeCovered(s, p)' <=> TreeCovered(s, p))
      BY <2>1 DEF TreeThere, TreeCovered, Tree!Cut
    <3>3. \A p : TreeAhead(p)' <=> TreeAhead(p)
      BY <2>1 DEF TreeAhead, TreeWaits
    <3> QED BY <2>1, <3>1, <3>2, <3>3 DEF TreeComplete
  <2> QED BY <2>1, <2>2, <2>3, <2>4 DEF TreeIInv, TreeWalking
<1>2. CASE Tree!Interrupt
  <2>1. /\ pc' = "done" /\ exit' = 130
        /\ UNCHANGED <<trees, touched, walking, frames, entries, unreadable, unentered, found, verdict>>
    BY <1>2 DEF Tree!Interrupt, Tree!Done, Tree!world, Tree!seen, Tree!ExitInterrupted
  <2>2. TreeTypeOK'
    BY <2>1 DEF TreeIInv, TreeTypeOK, TreeStates
  <2> QED BY <2>1, <2>2, TreeEnd
<1> QED
  BY <1>1, <1>2, TreeTreeChanges, TreeOpenRoot, TreeInspectFails, TreeInspectFile, TreeInspectUnentered, TreeDescend,
    TreeAscend, TreeEndWalk, TreeComparison, TreeReport
  DEF Tree!Next, Tree!ToolStep

THEOREM TreeInvariance == Spec => [](tool = "configdiff-directory" => TreeIInv)
<1>1. Init => (tool = "configdiff-directory" => TreeIInv)
  BY VerdictsAssumption, StartOfOneTool, TreeInit
<1>2. (tool = "configdiff-directory" => TreeIInv) /\ [Next]_vars => (tool = "configdiff-directory" => TreeIInv)'
  BY VerdictsAssumption, StepsOfOneTool, TreeStep
<1> QED BY <1>1, <1>2, PTL DEF Spec

\* Drift is real: nothing that did not change during the run is called added or
\* removed because it could not be read, or changed though it is the same
\* (compare_directories).
THEOREM ReportedDriftIsReal == Spec => []DriftIsReal
<1>1. (tool = "configdiff-directory" => TreeIInv) => DriftIsReal
  BY DEF DriftIsReal, TreeIInv, TreeJudged
<1> QED BY <1>1, TreeInvariance, PTL

\* UNCHANGED is complete: what did not change during the run was compared
\* throughout and is the same in both trees (compare_directories, main).
THEOREM UnchangedMeansCompared == Spec => []UnchangedIsComplete
<1>1. (tool = "configdiff-directory" => TreeIInv) => UnchangedIsComplete
  BY DEF UnchangedIsComplete, Tree!UnchangedIsComplete, Tree!ExitOK, TreeIInv, TreeJudged, TreeSame
<1> QED BY <1>1, TreeInvariance, PTL

-------------------------------------------------------------------------------
(* VerdictContract: what a tool's exit code says, by the facts d (what     *)
(* decides was observed) and g (there is a gap), with the exit codes of   *)
(* the tool for a verdict that is decided, or otherwise.                   *)

Says(d, g, decided, otherwise) ==
  \/ verdict = "none" /\ verdict' = "none" /\ exit = -1 /\ exit' \in {-1, 2, 3, 130}
  \/ /\ d' <=> d
     /\ g' <=> g
     /\ \/ UNCHANGED <<verdict, exit>>
        \/ /\ verdict = "none" /\ exit = -1 /\ exit' = -1
           /\ d => verdict' = "decided"
           /\ ~d /\ g => verdict' = "incomplete"
           /\ ~d /\ ~g => verdict' = "otherwise"
        \/ /\ verdict # "none" /\ verdict' = verdict /\ exit = -1
           /\ \/ exit' \in {3, 130}
              \/ verdict = "decided" /\ exit' = decided
              \/ verdict = "otherwise" /\ exit' = otherwise

\* A run comes to its verdict before it reports, and reports before it ends.
Concluding ==
  /\ pc # "done" => exit = -1
  /\ pc \notin {"report", "done"} => verdict = "none"
  /\ pc = "report" => verdict # "none"
  /\ verdict \in {"none", "decided", "otherwise", "incomplete"}

LEMMA SvcSays ==
  ASSUME Concluding, Svc!Next \/ UNCHANGED Svc!vars
  PROVE  Concluding' /\ Says(Svc!Decisive, Svc!Gap, 1, 0)
<1> USE DEF Concluding, Says
<1>1. CASE UNCHANGED Svc!vars
  BY <1>1 DEF Svc!vars, Svc!evidence, Svc!Decisive, Svc!Gap, Svc!Assessable, Svc!FailedDependency, Svc!DependencyUnknown
<1>2. CASE Svc!UnitChanges \/ Svc!QueryDependencies \/ Svc!CollectJournal \/ Svc!CollectLimits
  <2>1. /\ pc \notin {"report", "done"} /\ pc' \notin {"report", "done"}
        /\ UNCHANGED <<verdict, exit>>
    BY <1>2 DEF Svc!UnitChanges, Svc!QueryDependencies, Svc!CollectJournal, Svc!CollectLimits
  <2> QED BY <2>1
<1>3. CASE Svc!Show \/ Svc!ShowFails
  <2>1. /\ pc = "show" /\ pc' # "report" /\ verdict' = verdict
        /\ \/ exit' = exit
           \/ pc' = "done" /\ exit' \in {2, 3}
    BY <1>3 DEF Svc!Show, Svc!ShowFails, Svc!Done, Svc!ExitUsage, Svc!ExitFailure
  <2> QED BY <2>1
<1>4. CASE Svc!Assess
  <2>1. /\ pc = "assess" /\ pc' = "report" /\ UNCHANGED <<shown, failed, exit>>
        /\ verdict' = IF Svc!Broken(shown.state) \/ Svc!FailedDependency THEN "decided"
                      ELSE IF Svc!DependencyUnknown THEN "incomplete" ELSE "otherwise"
    BY <1>4 DEF Svc!Assess, Svc!evidence
  <2>2. /\ Svc!Decisive <=> Svc!Broken(shown.state) \/ Svc!FailedDependency
        /\ Svc!Gap <=> Svc!DependencyUnknown
        /\ (Svc!Decisive)' <=> Svc!Decisive
        /\ (Svc!Gap)' <=> Svc!Gap
    BY <2>1 DEF Svc!Decisive, Svc!Gap, Svc!Assessable, Svc!FailedDependency, Svc!DependencyUnknown
  <2> QED BY <2>1, <2>2
<1>5. CASE Svc!Report
  <2>1. /\ pc = "report" /\ pc' = "done" /\ UNCHANGED <<shown, failed, verdict>>
        /\ exit' \in {CASE verdict = "decided" -> 1 [] verdict = "incomplete" -> 3 [] OTHER -> 0, 3}
    BY <1>5 DEF Svc!Report, Svc!Done, Svc!evidence, Svc!ExitOK, Svc!ExitFinding, Svc!ExitFailure
  <2>2. ((Svc!Decisive)' <=> Svc!Decisive) /\ ((Svc!Gap)' <=> Svc!Gap)
    BY <2>1 DEF Svc!Decisive, Svc!Gap, Svc!Assessable, Svc!FailedDependency, Svc!DependencyUnknown
  <2> QED BY <2>1, <2>2
<1>6. CASE Svc!Interrupt
  <2>1. pc # "done" /\ pc' = "done" /\ exit' = 130 /\ UNCHANGED <<shown, failed, verdict>>
    BY <1>6 DEF Svc!Interrupt, Svc!Done, Svc!evidence, Svc!ExitInterrupted
  <2>2. verdict # "none" => ((Svc!Decisive)' <=> Svc!Decisive) /\ ((Svc!Gap)' <=> Svc!Gap)
    BY <2>1 DEF Svc!Decisive, Svc!Gap, Svc!Assessable, Svc!FailedDependency, Svc!DependencyUnknown
  <2> QED BY <2>1, <2>2
<1> QED BY <1>1, <1>2, <1>3, <1>4, <1>5, <1>6 DEF Svc!Next, Svc!ToolStep

LEMMA NetSays ==
  ASSUME Concluding, Net!Next \/ UNCHANGED Net!vars
  PROVE  Concluding' /\ Says(Net!Decisive, Net!Gap, 0, 1)
<1> USE DEF Concluding, Says
<1> DEFINE Same == UNCHANGED <<request, resolution, attempts, tlsStatus>>
<1>1. Same /\ (verdict = "none" <=> verdict' = "none") /\ Net!AtClassify /\ Net!AtClassify'
        => ((Net!Decisive)' <=> Net!Decisive) /\ ((Net!Gap)' <=> Net!Gap)
  BY DEF Net!Decisive, Net!Gap, Net!Complete, Net!Untested, Net!Tested, Net!Connected
<1>2. CASE UNCHANGED Net!vars
  <2>1. Same /\ UNCHANGED <<pc, verdict, exit>>
    BY <1>2 DEF Net!vars, Net!evidence
  <2>2. ((Net!Decisive)' <=> Net!Decisive) /\ ((Net!Gap)' <=> Net!Gap)
    BY <2>1 DEF Net!AtClassify, Net!Decisive, Net!Gap, Net!Complete, Net!Untested, Net!Tested, Net!Connected
  <2> QED BY <2>1, <2>2
<1>3. CASE Net!NetworkChanges \/ Net!Resolve \/ Net!ResolveNegative \/ Net!Attempt
  <2>1. /\ pc \notin {"report", "done"} /\ pc' \notin {"report", "done"}
        /\ UNCHANGED <<verdict, exit>>
    BY <1>3, Zenon DEF Net!NetworkChanges, Net!Resolve, Net!ResolveNegative, Net!Attempt
  <2> QED BY <2>1
<1>4. CASE Net!ResolveFails \/ Net!AttemptFails \/ Net!TlsHandshake
  <2>1. /\ pc \in {"resolve", "connect", "tls"} /\ pc' # "report" /\ verdict' = verdict
        /\ \/ exit' = exit
           \/ pc' = "done" /\ exit' \in {2, 3}
    BY <1>4, Zenon DEF Net!ResolveFails, Net!AttemptFails, Net!TlsHandshake, Net!Done, Net!ExitUsage, Net!ExitFailure
  <2> QED BY <2>1
<1>5. CASE Net!Classify
  <2>1. /\ pc = "classify" /\ pc' = "report" /\ Same /\ exit' = exit
        /\ verdict' = IF Net!Complete THEN "decided" ELSE IF Net!Untested THEN "incomplete" ELSE "otherwise"
    BY <1>5 DEF Net!Classify, Net!evidence
  <2>2. /\ Net!Decisive <=> Net!Complete
        /\ Net!Gap <=> Net!Untested
        /\ (Net!Decisive)' <=> Net!Decisive
        /\ (Net!Gap)' <=> Net!Gap
    BY <2>1, Zenon DEF Net!Decisive, Net!Gap, Net!AtClassify, Net!Complete, Net!Untested, Net!Tested, Net!Connected
  <2> QED BY <2>1, <2>2
<1>6. CASE Net!Report
  <2>1. /\ pc = "report" /\ pc' = "done" /\ Same /\ verdict' = verdict
        /\ exit' \in {CASE verdict = "decided" -> 0 [] verdict = "incomplete" -> 3 [] OTHER -> 1, 3}
    BY <1>6 DEF Net!Report, Net!Done, Net!evidence, Net!ExitOK, Net!ExitFinding, Net!ExitFailure
  <2> QED BY <1>1, <2>1 DEF Net!AtClassify
<1>7. CASE Net!Interrupt
  <2>1. pc # "done" /\ pc' = "done" /\ exit' = 130 /\ Same /\ verdict' = verdict
    BY <1>7 DEF Net!Interrupt, Net!Done, Net!evidence, Net!ExitInterrupted
  <2> QED BY <1>1, <2>1 DEF Net!AtClassify
<1> QED BY <1>2, <1>3, <1>4, <1>5, <1>6, <1>7 DEF Net!Next, Net!ToolStep

\* A target has a status once it was classified, or could not be observed.
CertHasStatus == pc = "aggregate" => status # "none"

LEMMA CertSays ==
  ASSUME CertHasStatus, Concluding, Cert!Next \/ UNCHANGED Cert!vars
  PROVE  CertHasStatus' /\ Concluding' /\ Says(Cert!Decisive, Cert!Gap, 1, 0)
<1> USE DEF CertHasStatus, Concluding, Says, Cert!Decisive, Cert!Gap
<1>1. CASE UNCHANGED <<pc, status, verdict, exit>>
  BY <1>1
<1>2. CASE Cert!ServerChanges \/ Cert!DayPasses \/ UNCHANGED Cert!vars
  BY <1>1, <1>2 DEF Cert!ServerChanges, Cert!DayPasses, Cert!evidence, Cert!vars
<1>3. CASE Cert!Resolve \/ Cert!Connect \/ Cert!Handshake \/ Cert!HandshakeUnverified \/ Cert!Decode
  <2>1. /\ pc \notin {"report", "done"} /\ UNCHANGED <<verdict, exit>>
        /\ \/ pc' \notin {"aggregate", "report", "done"}
           \/ pc' = "aggregate" /\ status' = "ERROR"
    BY <1>3 DEF Cert!Resolve, Cert!Connect, Cert!Handshake, Cert!HandshakeUnverified, Cert!Decode, Cert!Unobserved
  <2> QED BY <2>1
<1>4. CASE Cert!ClassifyTarget
  <2> DEFINE S == Cert!Conditions(leaf)
  <2>1. pc = "classify" /\ pc' = "aggregate" /\ UNCHANGED <<verdict, exit>> /\ status' = Cert!Worst(S)
    BY <1>4 DEF Cert!ClassifyTarget
  <2>2. S # {} /\ "none" \notin S
    BY DEF Cert!Conditions, Cert!Validity
  <2> HIDE DEF S
  <2>3. Cert!Worst(S) \in S
    BY <2>2, CertWorst
  <2> QED BY <2>1, <2>2, <2>3
<1>5. CASE Cert!Aggregate
  <2>1. /\ pc = "aggregate" /\ pc' = "report" /\ UNCHANGED <<status, exit>>
        /\ verdict' = CASE status = "ERROR" -> "incomplete" [] status = "VALID" -> "otherwise" [] OTHER -> "decided"
    BY <1>5 DEF Cert!Aggregate, Cert!evidence
  <2> QED BY <2>1
<1>6. CASE Cert!Report
  <2>1. /\ pc = "report" /\ pc' = "done" /\ UNCHANGED <<status, verdict>>
        /\ exit' \in {CASE verdict = "decided" -> 1 [] verdict = "incomplete" -> 3 [] OTHER -> 0, 3}
    BY <1>6 DEF Cert!Report, Cert!Done, Cert!evidence, Cert!ExitOK, Cert!ExitFinding, Cert!ExitFailure
  <2> QED BY <2>1
<1>7. CASE Cert!Interrupt
  <2>1. pc # "done" /\ pc' = "done" /\ exit' = 130 /\ UNCHANGED <<status, verdict>>
    BY <1>7 DEF Cert!Interrupt, Cert!Done, Cert!evidence, Cert!ExitInterrupted
  <2> QED BY <2>1
<1> QED BY <1>2, <1>3, <1>4, <1>5, <1>6, <1>7 DEF Cert!Next, Cert!ToolStep

\* What is compared is what the opened files were.
LEMMA PairSays ==
  ASSUME NEW Symbols, PairIInv(Symbols), Concluding, verdict # "incomplete",
         Pair!Next \/ UNCHANGED Pair!vars
  PROVE  Concluding' /\ verdict' # "incomplete" /\ Says(Pair!Decisive, Pair!Gap, 1, 0)
<1> USE DEF Concluding, Says
<1>1. UNCHANGED <<mode, strict, opened>> =>
        ((Pair!Decisive)' <=> Pair!Decisive) /\ ((Pair!Gap)' <=> Pair!Gap) /\ ~Pair!Gap
  BY DEF Pair!Decisive, Pair!Gap, Pair!BothOpen, Pair!Same
<1>2. CASE UNCHANGED Pair!vars
  BY <1>1, <1>2 DEF Pair!vars, Pair!options
<1>3. CASE Pair!FileChanges
  BY <1>3 DEF Pair!FileChanges, PairIInv, PairTypeOK
<1>4. CASE Pair!StatFile \/ Pair!OpenFile \/ Pair!ReadPart \/ Pair!FinishRead \/ Pair!Verify
  <2>1. pc \in {"stat", "open", "read", "verify"} /\ verdict' = verdict
    BY <1>4 DEF Pair!StatFile, Pair!OpenFile, Pair!ReadPart, Pair!FinishRead, Pair!Verify
  <2>2. (pc' # "report" /\ exit' = exit) \/ (pc' = "done" /\ exit' \in {2, 3})
    BY <1>4, <2>1 DEF Pair!StatFile, Pair!OpenFile, Pair!ReadPart, Pair!FinishRead, Pair!Verify,
      Pair!GoOn, Pair!Following, Pair!Done, Pair!ExitUsage, Pair!ExitFailure
  <2> QED BY <2>1, <2>2
<1>5. CASE Pair!Compare
  <2>1. /\ pc = "compare" /\ UNCHANGED <<mode, strict, opened>>
        /\ \/ pc' = "report" /\ exit' = exit /\ verdict' = IF Pair!Drift THEN "decided" ELSE "otherwise"
           \/ pc' = "done" /\ exit' = 2 /\ verdict' = verdict
    BY <1>5 DEF Pair!Compare, Pair!Done, Pair!ExitUsage, Pair!options
  <2>2. /\ opened["baseline"].inode # 0 /\ opened["current"].inode # 0
        /\ data["baseline"] = opened["baseline"].meta.data /\ data["current"] = opened["current"].meta.data
    BY <2>1, PairAtHand DEF PairIInv, PairDataSoFar, PairIsVerified, PairIsOpen, PairMeta0, Pair!Sides
  <2>3. Pair!Drift <=> Pair!Decisive
    BY <2>2 DEF Pair!Drift, Pair!Decisive, Pair!BothOpen, Pair!Sides
  <2> QED BY <1>1, <2>1, <2>3
<1>6. CASE Pair!Report
  <2>1. /\ pc = "report" /\ pc' = "done" /\ UNCHANGED <<mode, strict, opened, verdict>>
        /\ exit' \in {IF verdict = "decided" THEN 1 ELSE 0, 3}
    BY <1>6 DEF Pair!Report, Pair!Done, Pair!options, Pair!ExitOK, Pair!ExitFinding, Pair!ExitFailure
  <2> QED BY <1>1, <2>1
<1>7. CASE Pair!Interrupt
  <2>1. pc # "done" /\ pc' = "done" /\ exit' = 130 /\ UNCHANGED <<mode, strict, opened, verdict>>
    BY <1>7 DEF Pair!Interrupt, Pair!Done, Pair!options, Pair!ExitInterrupted
  <2> QED BY <1>1, <2>1
<1> QED BY <1>2, <1>3, <1>4, <1>5, <1>6, <1>7 DEF Pair!Next, Pair!ToolStep

\* The matches of the snapshots that ended; the latest has some, or there is
\* nothing missing of what it would be among.
PortSnapshots ==
  /\ snapshot \in Nat \ {0}
  /\ pc \in {"find", "query", "owners", "details"} => Len(matched) = snapshot - 1
  /\ pc \in {"sleep", "judge", "report"} =>
       Len(matched) = snapshot /\ (matched[snapshot] = {} => ~Port!Uncertain)

\* A snapshot in which nothing is found, and something is missing, ends the run.
LEMMA PortSays ==
  ASSUME PortIInv, PortSnapshots, Concluding, verdict # "incomplete",
         Port!Next \/ UNCHANGED Port!vars
  PROVE  PortSnapshots' /\ Concluding' /\ verdict' # "incomplete" /\ Says(Port!Decisive, Port!Gap, 0, 1)
<1> USE DEF PortSnapshots, Concluding, Says
<1>1. UNCHANGED <<matched, snapshot, skipped, truncated>> =>
        ((Port!Decisive)' <=> Port!Decisive) /\ ((Port!Gap)' <=> Port!Gap)
  BY DEF Port!Decisive, Port!Gap
<1>2. CASE UNCHANGED Port!vars
  BY <1>1, <1>2 DEF Port!vars, Port!evidence, Port!Uncertain
<1>3. CASE Port!WorldMoves
  BY <1>3 DEF Port!WorldMoves, Port!evidence, Port!Uncertain
<1>4. CASE Port!FindSs \/ Port!Query \/ Port!QueryFails \/ Port!EndQueries \/ Port!ScanOwner \/ Port!EndOwners
           \/ Port!ReadDetails
  <2>1. /\ pc \in {"find", "query", "owners", "details"} /\ UNCHANGED <<verdict, matched, snapshot>>
        /\ \/ exit' = exit /\ pc' \in {"find", "query", "owners", "details"}
           \/ pc' = "done" /\ exit' = 3
    BY <1>4, Zenon DEF Port!FindSs, Port!Query, Port!QueryFails, Port!EndQueries, Port!ScanOwner, Port!EndOwners,
      Port!ReadDetails, Port!Done, Port!ExitFailure
  <2> QED BY <2>1
<1>5. CASE Port!EndSnapshot
  <2>1. /\ pc = "details" /\ UNCHANGED <<snapshot, skipped, truncated, verdict>>
        /\ \/ pc' = "done" /\ exit' = 3
           \/ /\ exit' = exit /\ matched' = Append(matched, Port!Matches) /\ pc' \in {"judge", "sleep"}
              /\ Port!Matches = {} => ~Port!Uncertain
    BY <1>5 DEF Port!EndSnapshot, Port!Done, Port!ExitFailure, Port!evidence
  <2>2. CASE matched' = Append(matched, Port!Matches) /\ (Port!Matches = {} => ~Port!Uncertain)
    <3>1. matched \in Seq(SUBSET Port!SocketIds) /\ Port!Matches \in SUBSET Port!SocketIds
      BY DEF PortIInv, Port!Matches
    <3> DEFINE M == Port!Matches
    <3> HIDE DEF M
    <3>2. Len(matched') = snapshot /\ matched'[snapshot] = M
      BY <2>1, <2>2, <3>1 DEF M
    <3>3. Port!Uncertain' = Port!Uncertain
      BY <2>1 DEF Port!Uncertain
    <3> QED BY <2>1, <2>2, <3>2, <3>3 DEF M
  <2> QED BY <2>1, <2>2
<1>6. CASE Port!Sleep
  <2>1. pc = "sleep" /\ pc' = "find" /\ snapshot' = snapshot + 1 /\ UNCHANGED <<matched, verdict, exit>>
    BY <1>6 DEF Port!Sleep
  <2>2. snapshot' \in Nat \ {0} /\ snapshot' - 1 = snapshot
    BY <2>1
  <2> QED BY <2>1, <2>2
<1>7. CASE Port!Judge
  <2>1. /\ pc = "judge" /\ pc' = "report" /\ UNCHANGED <<matched, snapshot, skipped, truncated, exit>>
        /\ verdict' = IF Port!Found THEN "decided" ELSE "otherwise"
    BY <1>7 DEF Port!Judge, Port!evidence
  <2>2. (Port!Found <=> Port!Decisive) /\ ~Port!Gap
    BY <2>1 DEF Port!Found, Port!Decisive, Port!Gap, Port!Uncertain
  <2> QED BY <1>1, <2>1, <2>2 DEF Port!Uncertain
<1>8. CASE Port!Report
  <2>1. /\ pc = "report" /\ pc' = "done" /\ UNCHANGED <<matched, snapshot, skipped, truncated, verdict>>
        /\ exit' \in {IF verdict = "decided" THEN 0 ELSE 1, 3}
    BY <1>8 DEF Port!Report, Port!Done, Port!evidence, Port!ExitOK, Port!ExitFinding, Port!ExitFailure
  <2> QED BY <1>1, <2>1
<1>9. CASE Port!Interrupt
  <2>1. pc # "done" /\ pc' = "done" /\ exit' = 130 /\ UNCHANGED <<matched, snapshot, skipped, truncated, verdict>>
    BY <1>9 DEF Port!Interrupt, Port!Done, Port!evidence, Port!ExitInterrupted
  <2> QED BY <1>1, <2>1
<1> QED BY <1>2, <1>3, <1>4, <1>5, <1>6, <1>7, <1>8, <1>9 DEF Port!Next, Port!ToolStep

\* A difference is one of what both walks could see.
LEMMA TreeSays ==
  ASSUME Concluding, Tree!Next \/ UNCHANGED Tree!vars
  PROVE  Concluding' /\ Says(Tree!Decisive, Tree!Gap, 1, 0)
<1> USE DEF Concluding, Says
<1> DEFINE Kept == UNCHANGED <<entries, unreadable, unentered>>
<1>1. Kept /\ Tree!Walked /\ Tree!Walked' =>
        ((Tree!Decisive)' <=> Tree!Decisive) /\ ((Tree!Gap)' <=> Tree!Gap)
  BY DEF Tree!Decisive, Tree!Gap, Tree!Known, Tree!NodeOf, Tree!Looked
<1>2. CASE UNCHANGED Tree!vars
  <2>1. Kept /\ UNCHANGED <<pc, verdict, exit>>
    BY <1>2 DEF Tree!vars, Tree!seen
  <2>2. ((Tree!Decisive)' <=> Tree!Decisive) /\ ((Tree!Gap)' <=> Tree!Gap)
    BY <2>1 DEF Tree!Walked, Tree!Decisive, Tree!Gap, Tree!Known, Tree!NodeOf, Tree!Looked
  <2> QED BY <2>1, <2>2
<1>3. CASE Tree!TreeChanges \/ Tree!InspectFile \/ Tree!InspectUnentered \/ Tree!Ascend \/ Tree!EndWalk
  <2>1. pc \notin {"report", "done"} /\ pc' \notin {"report", "done"} /\ UNCHANGED <<verdict, exit>>
    BY <1>3 DEF Tree!TreeChanges, Tree!InspectFile, Tree!InspectUnentered, Tree!Ascend, Tree!EndWalk, Tree!Inspecting
  <2> QED BY <2>1
<1>4. CASE Tree!OpenRoot \/ Tree!InspectFails \/ Tree!Descend
  <2>1. /\ pc \in {"root", "walk"} /\ verdict' = verdict
        /\ \/ exit' = exit /\ pc' \in {"root", "walk"}
           \/ pc' = "done" /\ exit' \in {2, 3}
    BY <1>4, Zenon DEF Tree!OpenRoot, Tree!InspectFails, Tree!Descend, Tree!Inspecting, Tree!ListInto, Tree!Done,
      Tree!ExitUsage, Tree!ExitFailure
  <2> QED BY <2>1
<1>5. CASE Tree!Compare
  <2>1. /\ pc = "compare" /\ pc' = "report" /\ Kept /\ exit' = exit
        /\ found' = [added |-> {p \in Tree!Known("current") \ Tree!Known("baseline") : ~Tree!Unexamined(p)},
                     removed |-> {p \in Tree!Known("baseline") \ Tree!Known("current") : ~Tree!Unexamined(p)},
                     changed |-> {p \in Tree!Known("baseline") \intersect Tree!Known("current") :
                                    Tree!Differ(Tree!NodeOf("baseline", p), Tree!NodeOf("current", p))}]
        /\ verdict' = IF Tree!Drift(found') THEN "decided" ELSE IF Tree!Incomplete THEN "incomplete" ELSE "otherwise"
    BY <1>5 DEF Tree!Compare, Tree!seen
  <2>2. Tree!Walked /\ Tree!Walked'
    BY <2>1 DEF Tree!Walked
  <2>3. \A p : ~Tree!Unexamined(p) <=> Tree!Looked("baseline", p) /\ Tree!Looked("current", p)
    BY DEF Tree!Unexamined, Tree!Looked
  <2>4. Tree!Drift(found') <=> Tree!Decisive
    <3> DEFINE B == Tree!Known("baseline")
               C == Tree!Known("current")
               D(p) == Tree!Differ(Tree!NodeOf("baseline", p), Tree!NodeOf("current", p))
               L(p) == Tree!Looked("baseline", p) /\ Tree!Looked("current", p)
               U(p) == Tree!Unexamined(p)
    <3>1. Tree!Decisive <=> \E p \in B \union C : IF p \in B \intersect C THEN D(p) ELSE L(p)
      BY <2>2 DEF Tree!Decisive
    <3>2. Tree!Drift(found') <=>
            {p \in C \ B : ~U(p)} \union {p \in B \ C : ~U(p)} \union {p \in B \intersect C : D(p)} # {}
      BY <2>1 DEF Tree!Drift
    <3>3. \A p : ~U(p) <=> L(p)
      BY <2>3
    <3> HIDE DEF B, C, D, L, U
    <3> QED BY <3>1, <3>2, <3>3
  <2>5. Tree!Incomplete <=> Tree!Gap
    BY <2>2 DEF Tree!Incomplete, Tree!Gap
  <2> QED BY <1>1, <2>1, <2>2, <2>4, <2>5
<1>6. CASE Tree!Report
  <2>1. /\ pc = "report" /\ pc' = "done" /\ Kept /\ verdict' = verdict
        /\ exit' \in {CASE verdict = "decided" -> 1 [] verdict = "incomplete" -> 3 [] OTHER -> 0, 3}
    BY <1>6 DEF Tree!Report, Tree!Done, Tree!seen, Tree!ExitOK, Tree!ExitFinding, Tree!ExitFailure
  <2> QED BY <1>1, <2>1 DEF Tree!Walked
<1>7. CASE Tree!Interrupt
  <2>1. pc # "done" /\ pc' = "done" /\ exit' = 130 /\ Kept /\ verdict' = verdict
    BY <1>7 DEF Tree!Interrupt, Tree!Done, Tree!seen, Tree!ExitInterrupted
  <2> QED BY <1>1, <2>1 DEF Tree!Walked
<1> QED BY <1>2, <1>3, <1>4, <1>5, <1>6, <1>7 DEF Tree!Next, Tree!ToolStep

-------------------------------------------------------------------------------
(* HealthCtl, one check: whatever is checked and however often it changes. *)

CheckMeta(Symbols) ==
  [type : {"regular", "directory", "symlink", "missing"}, data : Seq(Symbols), stamp : Nat]

CheckStates ==
  {"attempt", "probe", "resolve", "connect", "lstat", "open", "hash", "fstat", "aggregate", "report", "done"}

CheckTypeOK(Symbols) ==
  /\ kind \in Check!Kinds
  /\ inodes \in [Check!Inodes -> CheckMeta(Symbols)] /\ path \in Check!Inodes \union {0}
  /\ kind \in Check!FileKinds => \A i \in Check!Inodes : inodes[i].type # "missing"
  /\ state \in Check!StatesOf(kind)
  /\ outcomes \in Seq(Check!EndStates)
  /\ meta \in CheckMeta(Symbols) /\ hashed \in Seq(Symbols)
  /\ pc \in CheckStates

\* The metadata m is that of a file which is by now f.
CheckOlder(m, f) == m.stamp <= f.stamp /\ (m.stamp = f.stamp => m = f)

\* What was read of a file that has not changed is a part of it.
CheckHashing ==
  /\ source \in Check!Inodes
  /\ CheckOlder(meta, inodes[source])
  /\ Len(hashed) <= Len(meta.data)
  /\ meta.stamp = inodes[source].stamp => hashed = SubSeq(meta.data, 1, Len(hashed))
  /\ pc = "fstat" => Len(hashed) = Len(meta.data)

\* What is known where the attempt is, and in the end what its result says.
CheckPlace ==
  /\ pc = "probe" => kind \in Check!ProbeKinds
  /\ pc = "resolve" => kind \in Check!NetKinds /\ outcomes = << >>
  /\ pc = "connect" =>
       /\ kind = "tcp_connect" /\ probed # "unknown" /\ Len(outcomes) < Len(Ends)
       /\ \A i \in DOMAIN outcomes : outcomes[i] # "connects"
  /\ pc = "lstat" => kind \in Check!FileKinds /\ hashed = << >>
  /\ pc \in {"open", "hash", "fstat"} => kind = "config_hash" /\ meta.type = "regular"
  /\ pc = "open" => hashed = << >>
  /\ pc \in {"hash", "fstat"} => CheckHashing
  /\ pc = "aggregate" =>
       /\ result \in {"PASS", "FAIL", "ERROR"}
       /\ result = "FAIL" => Check!Contrary
       /\ result = "PASS" => ~Check!Contrary

CheckIInv(Symbols) == CheckTypeOK(Symbols) /\ CheckPlace

LEMMA CheckInit ==
  ASSUME NEW Symbols, CheckContents \subseteq Seq(Symbols), Check!Init
  PROVE  CheckIInv(Symbols)
<1> USE DEF Check!Init
<1>1. << >> \in Seq(Symbols) /\ << >> \in Seq(Check!EndStates)
  OBVIOUS
<1>2. inodes \in [Check!Inodes -> CheckMeta(Symbols)] /\ path \in Check!Inodes \union {0}
        /\ (kind \in Check!FileKinds => \A i \in Check!Inodes : inodes[i].type # "missing")
  <2>1. CASE kind \in Check!FileKinds
    <3>1. PICK d \in CheckContents, other \in {"regular", "directory", "symlink"} :
            /\ inodes = [i \in Check!Inodes |-> [type |-> IF i = 1 THEN "regular" ELSE other, data |-> d, stamp |-> i]]
            /\ path \in Check!Inodes \union {0}
      BY <2>1
    <3>2. d \in Seq(Symbols)
      OBVIOUS
    <3>3. \A i \in Check!Inodes : [type |-> IF i = 1 THEN "regular" ELSE other, data |-> d, stamp |-> i] \in CheckMeta(Symbols)
      BY <3>2 DEF CheckMeta, Check!Inodes
    <3>4. inodes \in [Check!Inodes -> CheckMeta(Symbols)]
      BY <3>1, <3>3
    <3>5. \A i \in Check!Inodes : inodes[i].type = IF i = 1 THEN "regular" ELSE other
      BY <3>1
    <3> QED BY <3>1, <3>4, <3>5
  <2>2. CASE kind \notin Check!FileKinds
    <3>1. Check!Missing \in CheckMeta(Symbols)
      BY <1>1 DEF CheckMeta, Check!Missing
    <3>2. inodes = [i \in Check!Inodes |-> Check!Missing] /\ path = 0
      BY <2>2
    <3> QED BY <2>2, <3>1, <3>2
  <2> QED BY <2>1, <2>2
<1>3. meta \in CheckMeta(Symbols)
  BY <1>1 DEF CheckMeta, Check!Missing
<1> QED BY <1>1, <1>2, <1>3 DEF CheckIInv, CheckTypeOK, CheckPlace, CheckStates

\* A file that is written is older than before, and not the same.
LEMMA CheckRewritten ==
  ASSUME NEW Symbols, NEW f \in CheckMeta(Symbols), NEW d \in Seq(Symbols),
         NEW g, g = [type |-> f.type, data |-> d, stamp |-> f.stamp + 2]
  PROVE  g \in CheckMeta(Symbols) /\ CheckOlder(f, g) /\ g.type = f.type
<1>1. f.type = g.type /\ g.stamp = f.stamp + 2 /\ f.stamp \in Nat
  BY DEF CheckMeta
<1>2. g \in CheckMeta(Symbols)
  BY <1>1 DEF CheckMeta
<1>3. f.stamp < g.stamp
  BY <1>1
<1> QED BY <1>1, <1>2, <1>3 DEF CheckOlder

\* What is checked changes: a file only grows older.
LEMMA CheckChanges ==
  ASSUME NEW Symbols, CheckContents \subseteq Seq(Symbols), CheckIInv(Symbols), Check!Changes
  PROVE  CheckIInv(Symbols)'
<1> USE DEF CheckIInv
<1>1. UNCHANGED <<kind, pc, trial, probed, outcomes, meta, source, hashed, result>>
  BY DEF Check!Changes, Check!options, Check!evidence
<1>2. /\ inodes' \in [Check!Inodes -> CheckMeta(Symbols)] /\ path' \in Check!Inodes \union {0}
      /\ \A i \in Check!Inodes : /\ CheckOlder(inodes[i], inodes'[i])
                                 /\ inodes[i].type = inodes'[i].type
      /\ state' \in Check!StatesOf(kind)
  <2>1. CASE Check!Write
    <3>1. PICK i \in Check!Inodes, d \in CheckContents :
            inodes' = [inodes EXCEPT ![i].data = d, ![i].stamp = @ + 2]
      BY <2>1, Zenon DEF Check!Write
    <3>2. UNCHANGED <<path, state>>
      BY <2>1 DEF Check!Write
    <3>3. d \in Seq(Symbols) /\ inodes[i] \in CheckMeta(Symbols)
      BY DEF CheckTypeOK
    <3>4. /\ inodes'[i] = [inodes[i] EXCEPT !.data = d, !.stamp = @ + 2]
          /\ \A j \in Check!Inodes : j # i => inodes'[j] = inodes[j]
          /\ DOMAIN inodes' = Check!Inodes
          /\ inodes' = [j \in Check!Inodes |-> inodes'[j]]
      <4>1. inodes = [j \in Check!Inodes |-> inodes[j]]
        BY DEF CheckTypeOK
      <4> QED BY <3>1, <4>1
    <3>5. inodes'[i] \in CheckMeta(Symbols) /\ CheckOlder(inodes[i], inodes'[i]) /\ inodes'[i].type = inodes[i].type
      <4>1. inodes'[i] = [type |-> inodes[i].type, data |-> d, stamp |-> inodes[i].stamp + 2]
        BY <3>3, <3>4, Zenon DEF CheckMeta
      <4>2. \A f \in CheckMeta(Symbols) : \A g : g = [type |-> f.type, data |-> d, stamp |-> f.stamp + 2] =>
              g \in CheckMeta(Symbols) /\ CheckOlder(f, g) /\ g.type = f.type
        BY <3>3, CheckRewritten
      <4> QED BY <3>3, <4>1, <4>2, Zenon
    <3>6. \A j \in Check!Inodes : inodes[j] \in CheckMeta(Symbols) /\ CheckOlder(inodes[j], inodes[j])
      BY DEF CheckTypeOK, CheckMeta, CheckOlder
    <3>7. \A j \in Check!Inodes : inodes'[j] \in CheckMeta(Symbols)
      BY <3>4, <3>5, <3>6
    <3>8. inodes' \in [Check!Inodes -> CheckMeta(Symbols)]
      BY <3>4, <3>7
    <3>9. state \in Check!StatesOf(kind) /\ path \in Check!Inodes \union {0}
      BY DEF CheckTypeOK
    <3> QED BY <3>2, <3>4, <3>5, <3>6, <3>8, <3>9, Zenon
  <2>2. CASE Check!Rename \/ Check!Turn
    <3>1. inodes' = inodes /\ path' \in Check!Inodes \union {0} /\ state' \in Check!StatesOf(kind)
      BY <2>2 DEF Check!Rename, Check!Turn, CheckTypeOK
    <3>2. \A i \in Check!Inodes : inodes[i].stamp \in Nat
      BY DEF CheckTypeOK, CheckMeta
    <3> QED BY <3>1, <3>2 DEF CheckTypeOK, CheckOlder
  <2> QED BY <2>1, <2>2 DEF Check!Changes
<1>3. CheckTypeOK(Symbols)'
  BY <1>1, <1>2 DEF CheckTypeOK
<1>4. ASSUME CheckHashing PROVE CheckHashing'
  <2>1. source \in Check!Inodes
    BY <1>4 DEF CheckHashing
  <2>2. /\ inodes[source].stamp \in Nat /\ inodes'[source].stamp \in Nat /\ meta.stamp \in Nat
        /\ CheckOlder(inodes[source], inodes'[source])
    BY <1>2, <2>1, Zenon DEF CheckTypeOK, CheckMeta
  <2> QED BY <1>1, <1>4, <2>1, <2>2 DEF CheckHashing, CheckOlder
<1>5. CheckPlace'
  BY <1>1, <1>4 DEF CheckPlace, Check!Contrary
<1> QED BY <1>3, <1>5

\* An attempt that ends with a result that is true.
LEMMA CheckEnded ==
  ASSUME NEW Symbols, CheckTypeOK(Symbols)', NEW r \in {"PASS", "FAIL", "ERROR"}, Check!Ended(r),
         r = "FAIL" => Check!Contrary', r = "PASS" => ~Check!Contrary'
  PROVE  CheckIInv(Symbols)'
BY DEF Check!Ended, CheckIInv, CheckPlace

\* An attempt goes on: the place where it is is a state of the model.
LEMMA CheckTypes ==
  ASSUME NEW Symbols, CheckTypeOK(Symbols), UNCHANGED <<Check!world, Check!options>>,
         outcomes' \in Seq(Check!EndStates), meta' \in CheckMeta(Symbols), hashed' \in Seq(Symbols),
         pc' \in CheckStates
  PROVE  CheckTypeOK(Symbols)'
BY DEF CheckTypeOK, Check!world, Check!options

LEMMA CheckBeginAttempt ==
  ASSUME NEW Symbols, CheckIInv(Symbols), Check!BeginAttempt
  PROVE  CheckIInv(Symbols)'
<1>1. /\ UNCHANGED <<Check!world, Check!options, result>>
      /\ pc' = IF kind \in Check!FileKinds THEN "lstat" ELSE IF kind \in Check!NetKinds THEN "resolve" ELSE "probe"
      /\ outcomes' = << >> /\ meta' = Check!Missing /\ hashed' = << >>
  BY DEF Check!BeginAttempt, Check!NothingSeen
<1>2. << >> \in Seq(Symbols) /\ << >> \in Seq(Check!EndStates)
  OBVIOUS
<1>3. CheckTypeOK(Symbols)'
  BY <1>1, <1>2, CheckTypes DEF CheckIInv, CheckMeta, Check!Missing, CheckStates
<1> QED BY <1>1, <1>3 DEF CheckIInv, CheckTypeOK, CheckPlace, Check!options, Check!Kinds

LEMMA CheckProbe ==
  ASSUME NEW Symbols, CheckIInv(Symbols), Check!Probe
  PROVE  CheckIInv(Symbols)'
<1> DEFINE r == IF state \in Check!Met[kind] THEN "PASS" ELSE IF state \in Check!Unmet[kind] THEN "FAIL" ELSE "ERROR"
<1>1. /\ pc = "probe" /\ probed' = state /\ Check!Ended(r)
      /\ UNCHANGED <<Check!world, Check!options, outcomes, meta, source, hashed>>
  BY DEF Check!Probe, Check!Check
<1>2. pc' \in CheckStates
  BY <1>1 DEF Check!Ended, CheckStates
<1>3. CheckTypeOK(Symbols)'
  BY <1>1, <1>2, CheckTypes DEF CheckIInv, CheckTypeOK
<1>4. kind \in {"disk_free_percent", "process", "systemd_service"}
  BY <1>1 DEF CheckIInv, CheckPlace, Check!ProbeKinds, Check!Met
<1>5. Check!Contrary' <=> state \in Check!Unmet[kind]
  BY <1>1, <1>4 DEF Check!Contrary, Check!options
<1>6. state \in Check!Met[kind] => state \notin Check!Unmet[kind]
  <2>1. CASE kind = "disk_free_percent"
    BY <2>1 DEF Check!Met, Check!Unmet
  <2>2. CASE kind = "process"
    BY <2>2 DEF Check!Met, Check!Unmet
  <2>3. CASE kind = "systemd_service"
    BY <2>3 DEF Check!Met, Check!Unmet
  <2> QED BY <1>4, <2>1, <2>2, <2>3
<1>7. r \in {"PASS", "FAIL", "ERROR"} /\ (r = "FAIL" => Check!Contrary') /\ (r = "PASS" => ~Check!Contrary')
  BY <1>5, <1>6
<1> QED BY <1>1, <1>3, <1>7, CheckEnded

LEMMA CheckResolve ==
  ASSUME NEW Symbols, Check!LocalCheckAssumption, CheckIInv(Symbols), Check!Resolve
  PROVE  CheckIInv(Symbols)'
<1>1. /\ pc = "resolve" /\ probed' = state.name
      /\ UNCHANGED <<Check!world, Check!options, outcomes, meta, source, hashed>>
  BY DEF Check!Resolve, Check!Check
<1>2. kind' = kind /\ kind \in {"dns", "tcp_connect"} /\ outcomes' = << >>
  BY <1>1 DEF CheckIInv, CheckPlace, Check!NetKinds, Check!options
<1>3. CASE Check!Ended("FAIL") /\ probed' = "unknown"
  <2>1. CheckTypeOK(Symbols)'
    BY <1>1, <1>3, CheckTypes DEF CheckIInv, CheckTypeOK, Check!Ended, CheckStates
  <2> QED BY <1>2, <1>3, <2>1, CheckEnded DEF Check!Contrary
<1>4. CASE Check!Ended("PASS") /\ kind = "dns" /\ probed' # "unknown"
  <2>1. CheckTypeOK(Symbols)'
    BY <1>1, <1>4, CheckTypes DEF CheckIInv, CheckTypeOK, Check!Ended, CheckStates
  <2> QED BY <1>2, <1>4, <2>1, CheckEnded DEF Check!Contrary
<1>5. CASE Check!Continue("connect") /\ kind # "dns" /\ probed' # "unknown"
  <2>1. CheckTypeOK(Symbols)'
    BY <1>1, <1>5, CheckTypes DEF CheckIInv, CheckTypeOK, Check!Continue, CheckStates
  <2>2. Len(<< >>) < Len(Ends)
    BY DEF Check!LocalCheckAssumption
  <2> QED BY <1>2, <1>5, <2>1, <2>2 DEF CheckIInv, CheckPlace, Check!Continue
<1> QED BY <1>1, <1>2, <1>3, <1>4, <1>5 DEF Check!Resolve

LEMMA CheckConnect ==
  ASSUME NEW Symbols, Check!LocalCheckAssumption, CheckIInv(Symbols), Check!Connect
  PROVE  CheckIInv(Symbols)'
<1> DEFINE n == Len(outcomes) + 1
           end == state.ends[Ends[n]]
<1>1. /\ pc = "connect"
      /\ UNCHANGED <<Check!world, Check!options, probed, meta, source, hashed>>
  BY Zenon DEF Check!Connect, Check!Check
<1>2. PICK o \in {end} \union (IF end = "connects" THEN {"refuses"} ELSE {}) : outcomes' = Append(outcomes, o)
  BY Zenon DEF Check!Connect
<1>3. /\ kind' = kind /\ kind = "tcp_connect" /\ probed' # "unknown" /\ Len(outcomes) < Len(Ends)
      /\ outcomes \in Seq(Check!EndStates) /\ \A i \in DOMAIN outcomes : outcomes[i] # "connects"
      /\ state \in Check!StatesOf("tcp_connect")
  BY <1>1 DEF CheckIInv, CheckPlace, CheckTypeOK, Check!options
<1>4. o \in Check!EndStates
  <2>1. n \in 1..Len(Ends)
    BY <1>3
  <2>2. Ends[n] \in Check!Range(Ends)
    BY <2>1 DEF Check!LocalCheckAssumption
  <2>3. state.ends \in [Check!Range(Ends) -> Check!EndStates]
    BY <1>3 DEF Check!StatesOf, Check!ProbeKinds, Check!Met, Check!NetKinds
  <2>4. end \in Check!EndStates
    BY <2>2, <2>3
  <2> QED BY <1>2, <2>4, Zenon DEF Check!EndStates
<1>5. /\ outcomes' \in Seq(Check!EndStates) /\ Len(outcomes') = n /\ outcomes'[n] = o
      /\ \A i \in 1..Len(outcomes) : outcomes'[i] = outcomes[i]
  BY <1>2, <1>3, <1>4
<1>6. DOMAIN outcomes' = 1..n /\ DOMAIN outcomes = 1..Len(outcomes)
  BY <1>3, <1>5
<1>7. (\A i \in DOMAIN outcomes' : outcomes'[i] # "connects") <=> o # "connects"
  BY <1>3, <1>5, <1>6
<1>8. ASSUME pc' \in CheckStates PROVE CheckTypeOK(Symbols)'
  BY <1>1, <1>5, <1>8, CheckTypes DEF CheckIInv, CheckTypeOK
<1>9. Check!Contrary' <=> o # "connects"
  BY <1>3, <1>7 DEF Check!Contrary
<1>10. CASE o = "connects" /\ Check!Ended("PASS")
  <2>1. CheckTypeOK(Symbols)'
    BY <1>8, <1>10 DEF Check!Ended, CheckStates
  <2> QED BY <1>9, <1>10, <2>1, CheckEnded
<1>11. CASE o # "connects" /\ Len(outcomes') < Len(Ends) /\ Check!Continue("connect")
  <2>1. CheckTypeOK(Symbols)'
    BY <1>8, <1>11 DEF Check!Continue, CheckStates
  <2> QED BY <1>3, <1>7, <1>11, <2>1 DEF CheckIInv, CheckPlace, Check!Continue
<1>12. CASE o # "connects" /\ (Check!Ended("ERROR") \/ Check!Ended("FAIL"))
  <2>1. CheckTypeOK(Symbols)'
    BY <1>8, <1>12 DEF Check!Ended, CheckStates
  <2> QED BY <1>9, <1>12, <2>1, CheckEnded
<1> QED
  <2>1. IF o = "connects" THEN Check!Ended("PASS")
        ELSE IF Len(outcomes') < Len(Ends) THEN Check!Continue("connect")
        ELSE Check!Ended(IF Check!Range(outcomes') = {"no socket"} THEN "ERROR" ELSE "FAIL")
    BY <1>5, Zenon DEF Check!Connect
  <2> QED BY <1>10, <1>11, <1>12, <2>1, Zenon

LEMMA CheckLstat ==
  ASSUME NEW Symbols, CheckIInv(Symbols), Check!Lstat
  PROVE  CheckIInv(Symbols)' /\ pc' \notin {"report", "done"}
<1> DEFINE m == Check!Named
           fine == Len(m.data) \in MinimumBytes..MaximumBytes
<1>1. /\ pc = "lstat" /\ meta' = m
      /\ UNCHANGED <<Check!world, Check!options, probed, outcomes, source, hashed>>
  BY DEF Check!Lstat, Check!Check
<1>2. /\ kind' = kind /\ kind \in {"file_exists", "file_metadata", "config_hash"} /\ hashed' = << >>
      /\ m \in CheckMeta(Symbols)
      /\ m = Check!Missing <=> m.type = "missing"
  <2>1. kind' = kind /\ kind \in Check!FileKinds /\ hashed' = << >>
    BY <1>1 DEF CheckIInv, CheckPlace, Check!options
  <2>2. Check!Missing \in CheckMeta(Symbols) /\ Check!Missing.type = "missing"
    BY DEF CheckMeta, Check!Missing
  <2>3. path # 0 => inodes[path] \in CheckMeta(Symbols) /\ inodes[path].type # "missing"
    BY <2>1 DEF CheckIInv, CheckTypeOK
  <2> QED BY <2>1, <2>2, <2>3 DEF Check!Named, Check!FileKinds
<1> HIDE DEF m
<1>3. ASSUME pc' \in CheckStates PROVE CheckTypeOK(Symbols)'
  BY <1>1, <1>2, <1>3, CheckTypes DEF CheckIInv, CheckTypeOK
<1>4. m.type \in {"regular", "directory", "symlink", "missing"}
  BY <1>2 DEF CheckMeta
<1>5. Check!Contrary' <=>
        \/ kind = "file_exists" /\ m.type = "missing"
        \/ kind = "file_metadata" /\ (m.type # "regular" \/ ~fine)
        \/ kind = "config_hash" /\ (m.type # "regular" \/ m.data # Expected)
  BY <1>1, <1>2 DEF Check!Contrary
<1>6. \/ \E r \in {"PASS", "FAIL", "ERROR"} :
           /\ Check!Ended(r)
           /\ r = "FAIL" => Check!Contrary'
           /\ r = "PASS" => ~Check!Contrary'
      \/ Check!Continue("open") /\ kind = "config_hash" /\ m.type = "regular"
  <2>1. CASE m.type = "missing"
    <3>1. Check!Ended("FAIL")
      BY <2>1 DEF Check!Lstat, m
    <3> QED BY <1>2, <1>5, <2>1, <3>1
  <2>2. CASE m.type = "symlink"
    <3>1. Check!Ended("ERROR")
      BY <2>2 DEF Check!Lstat, m
    <3> QED BY <3>1
  <2>3. CASE kind = "file_exists" /\ m.type \in {"regular", "directory"}
    <3>1. Check!Ended("PASS")
      BY <2>3 DEF Check!Lstat, m
    <3> QED BY <1>5, <2>3, <3>1
  <2>4. CASE kind # "file_exists" /\ m.type = "directory"
    <3>1. Check!Ended("FAIL")
      BY <2>4 DEF Check!Lstat, m
    <3> QED BY <1>2, <1>5, <2>4, <3>1
  <2>5. CASE kind = "file_metadata" /\ m.type = "regular"
    <3>1. Check!Ended(IF fine THEN "PASS" ELSE "FAIL")
      BY <2>5 DEF Check!Lstat, m
    <3> QED BY <1>5, <2>5, <3>1
  <2>6. CASE kind = "config_hash" /\ m.type = "regular"
    BY <2>6 DEF Check!Lstat, m
  <2> QED BY <1>2, <1>4, <2>1, <2>2, <2>3, <2>4, <2>5, <2>6
<1>7. CASE \E r \in {"PASS", "FAIL", "ERROR"} :
             /\ Check!Ended(r)
             /\ r = "FAIL" => Check!Contrary'
             /\ r = "PASS" => ~Check!Contrary'
  <2>1. CheckTypeOK(Symbols)'
    BY <1>3, <1>7 DEF Check!Ended, CheckStates
  <2> QED BY <1>7, <2>1, CheckEnded DEF Check!Ended
<1>8. CASE Check!Continue("open") /\ kind = "config_hash" /\ m.type = "regular"
  <2>1. CheckTypeOK(Symbols)'
    BY <1>3, <1>8 DEF Check!Continue, CheckStates
  <2> QED BY <1>1, <1>2, <1>8, <2>1 DEF CheckIInv, CheckPlace, Check!Continue
<1> QED BY <1>6, <1>7, <1>8

\* An attempt that comes to no result.
LEMMA CheckFails ==
  ASSUME NEW Symbols, CheckIInv(Symbols), UNCHANGED <<Check!world, Check!options, outcomes, meta, hashed>>,
         Check!Ended("ERROR")
  PROVE  CheckIInv(Symbols)'
<1>1. CheckTypeOK(Symbols)'
  BY CheckTypes DEF CheckIInv, CheckTypeOK, Check!Ended, CheckStates
<1> QED BY <1>1, CheckEnded

LEMMA CheckOpenForHash ==
  ASSUME NEW Symbols, CheckIInv(Symbols), Check!OpenForHash
  PROVE  CheckIInv(Symbols)'
<1>1. /\ pc = "open" /\ source' = path
      /\ UNCHANGED <<Check!world, Check!options, probed, outcomes, meta, hashed>>
  BY DEF Check!OpenForHash, Check!Check
<1>2. CASE Check!Ended("ERROR")
  BY <1>1, <1>2, CheckFails
<1>3. CASE Check!Named = meta /\ Check!Continue("hash")
  <2>1. /\ kind' = kind /\ kind = "config_hash" /\ meta.type = "regular" /\ hashed = << >>
        /\ meta \in CheckMeta(Symbols) /\ inodes' = inodes /\ path \in Check!Inodes \union {0}
    BY <1>1 DEF CheckIInv, CheckPlace, CheckTypeOK, Check!options, Check!world
  <2>2. path \in Check!Inodes /\ inodes[path] = meta
    BY <1>3, <2>1 DEF Check!Named, Check!Missing
  <2>3. meta.stamp \in Nat /\ meta.data \in Seq(Symbols)
    BY <2>1 DEF CheckMeta
  <2>4. << >> = SubSeq(meta.data, 1, Len(<< >>)) /\ Len(<< >>) <= Len(meta.data)
    BY <2>3
  <2>5. CheckHashing'
    BY <1>1, <1>3, <2>1, <2>2, <2>3, <2>4 DEF CheckHashing, CheckOlder, Check!Continue
  <2>6. CheckTypeOK(Symbols)'
    BY <1>1, <1>3, CheckTypes DEF CheckIInv, CheckTypeOK, Check!Continue, CheckStates
  <2> QED BY <1>1, <1>3, <2>1, <2>5, <2>6 DEF CheckIInv, CheckPlace, Check!Continue
<1> QED BY <1>2, <1>3 DEF Check!OpenForHash

\* What is read is a part of the file, of the one that was examined if it is
\* still the same.
LEMMA CheckHashPart ==
  ASSUME NEW Symbols, CheckIInv(Symbols), Check!HashPart
  PROVE  CheckIInv(Symbols)'
<1> DEFINE pos == Len(hashed)
           now == Check!Now.data
<1>1. /\ pc = "hash" /\ pos < Len(meta.data)
      /\ UNCHANGED <<Check!world, Check!options, probed, outcomes, meta, source>>
  BY DEF Check!HashPart, Check!Check, Check!Size
<1>2. CASE Check!Ended("ERROR") /\ UNCHANGED hashed
  BY <1>1, <1>2, CheckFails
<1>3. CASE Check!Continue("hash") /\ \E n \in 1..(Len(meta.data) - pos) :
             pos + n <= Len(now) /\ hashed' = hashed \o SubSeq(now, pos + 1, pos + n)
  <2>1. PICK n \in 1..(Len(meta.data) - pos) :
          pos + n <= Len(now) /\ hashed' = hashed \o SubSeq(now, pos + 1, pos + n)
    BY <1>3, Zenon
  <2>2. /\ CheckHashing /\ kind' = kind /\ kind = "config_hash" /\ meta.type = "regular"
        /\ source \in Check!Inodes /\ meta \in CheckMeta(Symbols) /\ inodes[source] \in CheckMeta(Symbols)
        /\ hashed \in Seq(Symbols) /\ inodes' = inodes
    BY <1>1 DEF CheckIInv, CheckPlace, CheckTypeOK, CheckHashing, Check!options, Check!world
  <2>3. now \in Seq(Symbols) /\ meta.data \in Seq(Symbols) /\ pos \in Nat /\ n \in Nat
    BY <2>2 DEF CheckMeta, Check!Now
  <2>4. /\ SubSeq(now, pos + 1, pos + n) \in Seq(Symbols)
        /\ Len(SubSeq(now, pos + 1, pos + n)) = n
    BY <2>1, <2>3
  <2>5. hashed' \in Seq(Symbols) /\ Len(hashed') = pos + n /\ pos + n <= Len(meta.data)
    <3> DEFINE part == SubSeq(now, pos + 1, pos + n)
    <3>1. part \in Seq(Symbols) /\ Len(part) = n /\ n \in Nat /\ hashed' = hashed \o part
      BY <2>1, <2>3, <2>4
    <3> HIDE DEF part, now
    <3>2. hashed \o part \in Seq(Symbols) /\ Len(hashed \o part) = pos + n
      <4>1. hashed \in Seq(Symbols) /\ part \in Seq(Symbols) /\ Len(part) = n
        BY <2>2, <3>1
      <4> QED BY <4>1, PairJoined, Zenon
    <3>3. pos + n <= Len(meta.data)
      BY <2>3
    <3> QED BY <3>1, <3>2, <3>3, Zenon
  <2>6. ASSUME meta.stamp = inodes[source].stamp
        PROVE  hashed' = SubSeq(meta.data, 1, Len(hashed'))
    <3>1. meta = inodes[source] /\ hashed = SubSeq(meta.data, 1, pos)
      BY <2>2, <2>6 DEF CheckHashing, CheckOlder
    <3>2. now = meta.data
      BY <3>1 DEF Check!Now
    <3>3. SubSeq(meta.data, 1, pos) \o SubSeq(meta.data, pos + 1, pos + n) = SubSeq(meta.data, 1, pos + n)
      BY <2>3, <2>5, PairPartsJoin, Zenon
    <3> QED BY <2>1, <2>5, <3>1, <3>2, <3>3, Zenon
  <2>7. CheckHashing'
    <3>1. UNCHANGED <<source, meta, inodes>> /\ pc' = "hash"
      BY <1>1, <1>3 DEF Check!world, Check!Continue
    <3> QED BY <2>2, <2>5, <2>6, <3>1 DEF CheckHashing, CheckOlder
  <2>8. CheckTypeOK(Symbols)'
    BY <1>1, <1>3, <2>5, CheckTypes DEF CheckIInv, CheckTypeOK, Check!Continue, CheckStates
  <2> QED BY <1>1, <1>3, <2>2, <2>7, <2>8 DEF CheckIInv, CheckPlace, Check!Continue
<1> QED BY <1>2, <1>3, Zenon DEF Check!HashPart, Check!Size

LEMMA CheckHashEnd ==
  ASSUME NEW Symbols, CheckIInv(Symbols), Check!HashEnd
  PROVE  CheckIInv(Symbols)'
<1>1. /\ pc = "hash" /\ Len(hashed) = Len(meta.data)
      /\ UNCHANGED <<inodes, kind, source, Check!world, Check!options, probed, outcomes, meta, hashed>>
  BY DEF Check!HashEnd, Check!Check, Check!evidence, Check!Size, Check!world, Check!options
<1>2. CASE Check!Ended("ERROR")
  BY <1>1, <1>2, CheckFails
<1>3. CASE Check!Continue("fstat")
  <2>1. CheckHashing'
    BY <1>1 DEF CheckIInv, CheckPlace, CheckHashing
  <2>2. CheckTypeOK(Symbols)'
    BY <1>1, <1>3, CheckTypes DEF CheckIInv, CheckTypeOK, Check!Continue, CheckStates
  <2> QED BY <1>1, <1>3, <2>1, <2>2 DEF CheckIInv, CheckPlace, Check!Continue
<1> QED BY <1>2, <1>3 DEF Check!HashEnd

\* A file that is what it was when it was examined has been read as a whole.
LEMMA CheckCompareHash ==
  ASSUME NEW Symbols, CheckIInv(Symbols), Check!CompareHash
  PROVE  CheckIInv(Symbols)'
<1> DEFINE r == IF Check!Now.stamp # meta.stamp THEN "ERROR" ELSE IF hashed = Expected THEN "PASS" ELSE "FAIL"
<1>1. /\ pc = "fstat" /\ Check!Ended(r)
      /\ UNCHANGED <<kind, Check!world, Check!options, probed, outcomes, meta, source, hashed>>
  BY DEF Check!CompareHash, Check!Check, Check!evidence, Check!options
<1>2. /\ CheckHashing /\ kind = "config_hash" /\ meta.type = "regular"
      /\ meta.data \in Seq(Symbols)
  BY <1>1 DEF CheckIInv, CheckPlace, CheckTypeOK, CheckMeta
<1>3. Check!Now.stamp = meta.stamp => hashed = meta.data
  BY <1>1, <1>2, PairWholePart DEF CheckHashing, Check!Now
<1>4. Check!Contrary' <=> meta.data # Expected
  BY <1>1, <1>2 DEF Check!Contrary
<1>5. r \in {"PASS", "FAIL", "ERROR"} /\ (r = "FAIL" => Check!Contrary') /\ (r = "PASS" => ~Check!Contrary')
  BY <1>3, <1>4
<1>6. CheckTypeOK(Symbols)'
  BY <1>1, CheckTypes DEF CheckIInv, CheckTypeOK, Check!Ended, CheckStates
<1> QED BY <1>1, <1>5, <1>6, CheckEnded

LEMMA CheckStep ==
  ASSUME NEW Symbols, CheckContents \subseteq Seq(Symbols), Check!LocalCheckAssumption,
         CheckIInv(Symbols), Check!Next \/ UNCHANGED Check!vars
  PROVE  CheckIInv(Symbols)'
<1>1. CASE Check!ObservationFails
  BY <1>1, CheckFails DEF Check!ObservationFails, Check!evidence, Check!Check
<1>2. CASE Check!Aggregate \/ Check!Report \/ Check!Interrupt
  <2>1. /\ pc' \in {"report", "done"}
        /\ UNCHANGED <<Check!world, Check!options, outcomes, meta, hashed>>
    BY <1>2 DEF Check!Aggregate, Check!Report, Check!Interrupt, Check!Done, Check!evidence
  <2>2. CheckTypeOK(Symbols)'
    BY <2>1, CheckTypes DEF CheckIInv, CheckTypeOK, CheckStates
  <2> QED BY <2>1, <2>2 DEF CheckIInv, CheckPlace
<1>3. CASE UNCHANGED Check!vars
  <2>1. UNCHANGED <<Check!world, inodes, Check!options, kind, pc, probed, outcomes, meta, source, hashed, result>>
    BY <1>3 DEF Check!vars, Check!world, Check!options, Check!evidence
  <2>2. CheckTypeOK(Symbols)'
    BY <2>1, CheckTypes DEF CheckIInv, CheckTypeOK
  <2>3. CheckPlace'
    BY <2>1 DEF CheckIInv, CheckPlace, CheckHashing, Check!Contrary
  <2> QED BY <2>2, <2>3 DEF CheckIInv
<1> QED
  BY <1>1, <1>2, <1>3, CheckChanges, CheckBeginAttempt, CheckProbe, CheckResolve, CheckConnect, CheckLstat,
    CheckOpenForHash, CheckHashPart, CheckHashEnd, CheckCompareHash
  DEF Check!Next, Check!ToolStep

\* The result of the last attempt is the verdict.
LEMMA CheckSays ==
  ASSUME NEW Symbols, CheckIInv(Symbols), Concluding, Check!Next \/ UNCHANGED Check!vars
  PROVE  Concluding' /\ Says(Check!Decisive, Check!Gap, 1, 0)
<1> USE DEF Concluding, Says
<1> DEFINE Kept == UNCHANGED <<kind, probed, outcomes, meta, result>>
<1>1. Kept /\ Check!Evaluated /\ Check!Evaluated' =>
        ((Check!Decisive)' <=> Check!Decisive) /\ ((Check!Gap)' <=> Check!Gap)
  BY DEF Check!Decisive, Check!Gap, Check!Contrary
<1>2. CASE UNCHANGED Check!vars
  <2>1. Kept /\ UNCHANGED <<pc, verdict, exit>>
    BY <1>2 DEF Check!vars, Check!evidence, Check!options
  <2>2. ((Check!Decisive)' <=> Check!Decisive) /\ ((Check!Gap)' <=> Check!Gap)
    BY <2>1 DEF Check!Evaluated, Check!Decisive, Check!Gap, Check!Contrary
  <2> QED BY <2>1, <2>2
<1>3. CASE Check!Changes
  BY <1>3 DEF Check!Changes
<1>4. CASE \/ Check!BeginAttempt \/ Check!Probe \/ Check!Resolve \/ Check!Connect \/ Check!Lstat \/ Check!OpenForHash
           \/ Check!HashPart \/ Check!HashEnd \/ Check!CompareHash \/ Check!ObservationFails
  <2>1. pc \notin {"report", "done"} /\ UNCHANGED <<verdict, exit>>
    BY <1>4, Zenon DEF Check!BeginAttempt, Check!Probe, Check!Resolve, Check!Connect, Check!Lstat, Check!OpenForHash,
      Check!HashPart, Check!HashEnd, Check!CompareHash, Check!ObservationFails, Check!Check
  <2>2. pc' \notin {"report", "done"}
    <3>1. \A r : Check!Ended(r) => pc' \notin {"report", "done"}
      BY DEF Check!Ended
    <3>2. \A p : Check!Continue(p) => pc' = p
      BY DEF Check!Continue
    <3>3. CASE Check!BeginAttempt
      BY <3>3 DEF Check!BeginAttempt
    <3>4. CASE Check!Probe \/ Check!CompareHash \/ Check!ObservationFails
      BY <3>1, <3>4 DEF Check!Probe, Check!CompareHash, Check!ObservationFails
    <3>5. CASE Check!Resolve \/ Check!Connect \/ Check!OpenForHash
      BY <3>1, <3>2, <3>5, Zenon DEF Check!Resolve, Check!Connect, Check!OpenForHash
    <3>6. CASE Check!HashPart \/ Check!HashEnd
      BY <3>1, <3>2, <3>6 DEF Check!HashPart, Check!HashEnd
    <3>7. CASE Check!Lstat
      BY <3>7, CheckLstat
    <3> QED BY <1>4, <3>3, <3>4, <3>5, <3>6, <3>7
  <2> QED BY <2>1, <2>2
<1>5. CASE Check!Aggregate
  <2>1. /\ pc = "aggregate" /\ pc' = "report" /\ Kept /\ exit' = exit
        /\ verdict' = CASE result = "FAIL" -> "decided" [] result = "PASS" -> "otherwise" [] OTHER -> "incomplete"
    BY <1>5 DEF Check!Aggregate, Check!evidence, Check!options
  <2>2. /\ result \in {"PASS", "FAIL", "ERROR"}
        /\ result = "FAIL" => Check!Contrary
        /\ result = "PASS" => ~Check!Contrary
    BY <2>1 DEF CheckIInv, CheckPlace
  <2>3. Check!Evaluated /\ Check!Evaluated'
    BY <2>1 DEF Check!Evaluated
  <2>4. /\ Check!Gap <=> result = "ERROR"
        /\ Check!Decisive <=> result = "FAIL"
    BY <2>2, <2>3 DEF Check!Gap, Check!Decisive
  <2> QED BY <1>1, <2>1, <2>2, <2>3, <2>4
<1>6. CASE Check!Report
  <2>1. /\ pc = "report" /\ pc' = "done" /\ Kept /\ verdict' = verdict
        /\ exit' \in {Check!ExitCode[verdict], 3}
    BY <1>6 DEF Check!Report, Check!Done, Check!evidence, Check!options, Check!ExitFailure
  <2>2. verdict \in {"decided", "otherwise", "incomplete"}
    BY <2>1
  <2>3. Check!ExitCode[verdict] = CASE verdict = "decided" -> 1 [] verdict = "otherwise" -> 0 [] OTHER -> 3
    BY <2>2 DEF Check!ExitCode, Check!ExitFinding, Check!ExitOK, Check!ExitFailure
  <2> QED BY <1>1, <2>1, <2>2, <2>3 DEF Check!Evaluated
<1>7. CASE Check!Interrupt
  <2>1. pc # "done" /\ pc' = "done" /\ exit' = 130 /\ Kept /\ verdict' = verdict
    BY <1>7 DEF Check!Interrupt, Check!Done, Check!evidence, Check!options, Check!ExitInterrupted
  <2> QED BY <1>1, <2>1 DEF Check!Evaluated
<1> QED BY <1>2, <1>3, <1>4, <1>5, <1>6, <1>7 DEF Check!Next, Check!ToolStep

\* What a tool says is a step of the contract, or none.
LEMMA SaysInContract ==
  ASSUME tool' = tool, Says(Decisive, Gap, Codes.decided, Codes.otherwise)
  PROVE  [Contract!Next]_Contract!vars
<1>1. Decisive \in BOOLEAN /\ Gap \in BOOLEAN /\ Decisive' \in BOOLEAN /\ Gap' \in BOOLEAN
  BY Zenon DEF Decisive, Gap
<1>2. Codes' = Codes
  BY DEF Codes
<1>3. CASE verdict = "none" /\ verdict' = "none" /\ exit = -1 /\ exit' \in {-1, 2, 3, 130}
  <2>1. CASE exit' = -1
    BY <1>1, <1>2, <1>3, <2>1, Zenon DEF Contract!Next, Contract!Observe
  <2>2. CASE exit' \in {2, 3, 130}
    BY <1>1, <1>2, <1>3, <2>2, Zenon DEF Contract!Next, Contract!GiveUp, Contract!ExitUsage, Contract!ExitFailure,
      Contract!ExitInterrupted
  <2> QED BY <1>3, <2>1, <2>2
<1>4. CASE (Decisive' <=> Decisive) /\ (Gap' <=> Gap)
  <2>1. Decisive' = Decisive /\ Gap' = Gap
    BY <1>1, <1>4, Zenon
  <2>2. CASE UNCHANGED <<verdict, exit>>
    BY <1>2, <2>1, <2>2, Zenon DEF Contract!vars
  <2>3. CASE /\ verdict = "none" /\ exit = -1 /\ exit' = -1
             /\ Decisive => verdict' = "decided"
             /\ ~Decisive /\ Gap => verdict' = "incomplete"
             /\ ~Decisive /\ ~Gap => verdict' = "otherwise"
    <3>1. verdict' = IF Decisive THEN "decided" ELSE IF Gap THEN "incomplete" ELSE "otherwise"
      BY <2>3, Zenon
    <3> QED BY <1>2, <2>1, <2>3, <3>1, Zenon DEF Contract!Next, Contract!Judge
  <2>4. CASE /\ verdict # "none" /\ verdict' = verdict /\ exit = -1
             /\ \/ exit' \in {3, 130}
                \/ verdict = "decided" /\ exit' = Codes.decided
                \/ verdict = "otherwise" /\ exit' = Codes.otherwise
    <3>1. exit' \in {Contract!CodeOf(verdict), 3, 130}
      BY <2>4 DEF Contract!CodeOf
    <3> QED BY <1>2, <2>1, <2>4, <3>1, Zenon DEF Contract!Next, Contract!Conclude, Contract!ExitFailure,
      Contract!ExitInterrupted
  <2> QED BY <1>3, <1>4, <2>2, <2>3, <2>4, Zenon DEF Says
<1> QED BY <1>3, <1>4, Zenon DEF Says

CheckSymbols == UNION {Check!Range(c) : c \in CheckContents}
Tools == {"configdiff", "configdiff-directory", "portlens", "svcdoctor", "netdoctor", "certwatch", "healthctl"}

\* The invariants of the tools, each while its tool runs.
VerdictsIInv ==
  /\ tool \in Tools /\ Concluding
  /\ tool \in {"configdiff", "portlens"} => verdict # "incomplete"
  /\ tool = "configdiff" => PairIInv(PairSymbols)
  /\ tool = "portlens" => PortIInv
  /\ tool = "portlens" => PortSnapshots
  /\ tool = "certwatch" => CertHasStatus
  /\ tool = "healthctl" => CheckIInv(CheckSymbols)

LEMMA SymbolsKnown ==
  PairContents \subseteq Seq(PairSymbols) /\ CheckContents \subseteq Seq(CheckSymbols)
BY VerdictsAssumption DEF Pair!FilePairAssumption, PairSymbols, Check!LocalCheckAssumption, CheckSymbols

LEMMA VerdictsInit == ASSUME Init PROVE VerdictsIInv
<1>1. tool \in Tools
  BY DEF Init, Tools
<1>2. exit = -1 /\ verdict = "none" /\ pc \notin {"aggregate", "report", "done"}
  BY DEF Init, Pair!Init, Tree!Init, Port!Init, Svc!Init, Net!Init, Cert!Init, Check!Init
<1>3. Concluding /\ CertHasStatus /\ verdict # "incomplete"
  BY <1>2 DEF Concluding, CertHasStatus
<1>4. tool = "portlens" => PortSnapshots
  BY StartOfOneTool DEF Port!Init, PortSnapshots
<1> QED BY <1>1, <1>3, <1>4, StartOfOneTool, SymbolsKnown, PairInitIInv, PortInit, CheckInit DEF VerdictsIInv

LEMMA VerdictsStep ==
  ASSUME VerdictsIInv, [Next]_vars
  PROVE  VerdictsIInv' /\ [Contract!Next]_Contract!vars
<1>1. tool' = tool
  BY StepsOfOneTool
<1> USE DEF VerdictsIInv
<1>2. CASE tool = "configdiff"
  <2>1. PairIInv(PairSymbols)' /\ Concluding' /\ verdict' # "incomplete" /\ Says(Pair!Decisive, Pair!Gap, 1, 0)
    BY <1>2, StepsOfOneTool, SymbolsKnown, PairNextIInv, PairSays
  <2>2. /\ Decisive <=> Pair!Decisive
        /\ Gap <=> Pair!Gap
        /\ (Decisive <=> Pair!Decisive)'
        /\ (Gap <=> Pair!Gap)'
        /\ Codes.decided = 1 /\ Codes.otherwise = 0
    BY <1>1, <1>2 DEF Decisive, Gap, Codes, ExitOK, ExitFinding
  <2>3. Says(Decisive, Gap, Codes.decided, Codes.otherwise)
    BY <2>1, <2>2 DEF Says
  <2> QED BY <1>1, <1>2, <2>1, <2>3, SaysInContract
<1>3. CASE tool = "configdiff-directory"
  <2>1. Concluding' /\ Says(Tree!Decisive, Tree!Gap, 1, 0)
    BY <1>3, StepsOfOneTool, TreeSays
  <2>2. /\ Decisive <=> Tree!Decisive
        /\ Gap <=> Tree!Gap
        /\ (Decisive <=> Tree!Decisive)'
        /\ (Gap <=> Tree!Gap)'
        /\ Codes.decided = 1 /\ Codes.otherwise = 0
    BY <1>1, <1>3 DEF Decisive, Gap, Codes, ExitOK, ExitFinding
  <2>3. Says(Decisive, Gap, Codes.decided, Codes.otherwise)
    BY <2>1, <2>2 DEF Says
  <2> QED BY <1>1, <1>3, <2>1, <2>3, SaysInContract
<1>4. CASE tool = "portlens"
  <2>1. /\ PortIInv' /\ PortSnapshots' /\ Concluding' /\ verdict' # "incomplete"
        /\ Says(Port!Decisive, Port!Gap, 0, 1)
    BY <1>4, VerdictsAssumption, StepsOfOneTool, PortStep, PortSays
  <2>2. /\ Decisive <=> Port!Decisive
        /\ Gap <=> Port!Gap
        /\ (Decisive <=> Port!Decisive)'
        /\ (Gap <=> Port!Gap)'
        /\ Codes.decided = 0 /\ Codes.otherwise = 1
    BY <1>1, <1>4 DEF Decisive, Gap, Codes, ExitOK, ExitFinding
  <2>3. Says(Decisive, Gap, Codes.decided, Codes.otherwise)
    BY <2>1, <2>2 DEF Says
  <2> QED BY <1>1, <1>4, <2>1, <2>3, SaysInContract
<1>5. CASE tool = "svcdoctor"
  <2>1. Concluding' /\ Says(Svc!Decisive, Svc!Gap, 1, 0)
    BY <1>5, StepsOfOneTool, SvcSays
  <2>2. /\ Decisive <=> Svc!Decisive
        /\ Gap <=> Svc!Gap
        /\ (Decisive <=> Svc!Decisive)'
        /\ (Gap <=> Svc!Gap)'
        /\ Codes.decided = 1 /\ Codes.otherwise = 0
    BY <1>1, <1>5 DEF Decisive, Gap, Codes, ExitOK, ExitFinding
  <2>3. Says(Decisive, Gap, Codes.decided, Codes.otherwise)
    BY <2>1, <2>2 DEF Says
  <2> QED BY <1>1, <1>5, <2>1, <2>3, SaysInContract
<1>6. CASE tool = "netdoctor"
  <2>1. Concluding' /\ Says(Net!Decisive, Net!Gap, 0, 1)
    BY <1>6, StepsOfOneTool, NetSays
  <2>2. /\ Decisive <=> Net!Decisive
        /\ Gap <=> Net!Gap
        /\ (Decisive <=> Net!Decisive)'
        /\ (Gap <=> Net!Gap)'
        /\ Codes.decided = 0 /\ Codes.otherwise = 1
    BY <1>1, <1>6 DEF Decisive, Gap, Codes, ExitOK, ExitFinding
  <2>3. Says(Decisive, Gap, Codes.decided, Codes.otherwise)
    BY <2>1, <2>2 DEF Says
  <2> QED BY <1>1, <1>6, <2>1, <2>3, SaysInContract
<1>7. CASE tool = "certwatch"
  <2>1. CertHasStatus' /\ Concluding' /\ Says(Cert!Decisive, Cert!Gap, 1, 0)
    BY <1>7, StepsOfOneTool, CertSays
  <2>2. /\ Decisive <=> Cert!Decisive
        /\ Gap <=> Cert!Gap
        /\ (Decisive <=> Cert!Decisive)'
        /\ (Gap <=> Cert!Gap)'
        /\ Codes.decided = 1 /\ Codes.otherwise = 0
    BY <1>1, <1>7 DEF Decisive, Gap, Codes, ExitOK, ExitFinding
  <2>3. Says(Decisive, Gap, Codes.decided, Codes.otherwise)
    BY <2>1, <2>2 DEF Says
  <2> QED BY <1>1, <1>7, <2>1, <2>3, SaysInContract
<1>8. CASE tool = "healthctl"
  <2>1. CheckIInv(CheckSymbols)' /\ Concluding' /\ Says(Check!Decisive, Check!Gap, 1, 0)
    BY <1>8, VerdictsAssumption, StepsOfOneTool, SymbolsKnown, CheckStep, CheckSays
  <2>2. /\ Decisive <=> Check!Decisive
        /\ Gap <=> Check!Gap
        /\ (Decisive <=> Check!Decisive)'
        /\ (Gap <=> Check!Gap)'
        /\ Codes.decided = 1 /\ Codes.otherwise = 0
    BY <1>1, <1>8 DEF Decisive, Gap, Codes, ExitOK, ExitFinding
  <2>3. Says(Decisive, Gap, Codes.decided, Codes.otherwise)
    BY <2>1, <2>2 DEF Says
  <2> QED BY <1>1, <1>8, <2>1, <2>3, SaysInContract
<1> QED BY <1>2, <1>3, <1>4, <1>5, <1>6, <1>7, <1>8 DEF Tools

\* Every one of the tools that judge implements the contract: what decides is
\* never outweighed by what is missing, without it a gap is no answer, and the
\* exit code is that of the verdict or says that there was a failure (main of
\* each tool, common/status.py).
THEOREM VerdictContractKept == Spec => ImplementsContract
<1>1. Init => Contract!Init
  <2> SUFFICES ASSUME Init PROVE Contract!Init
    OBVIOUS
  <2>1. exit = -1 /\ verdict = "none" /\ ~Decisive
    <3>1. CASE tool = "configdiff"
      BY <3>1, StartOfOneTool DEF Pair!Init, Decisive, Pair!Decisive, Pair!BothOpen, Pair!NotOpened, Pair!Sides
    <3>2. CASE tool = "configdiff-directory"
      BY <3>2, StartOfOneTool DEF Tree!Init, Decisive, Tree!Decisive, Tree!Walked
    <3>3. CASE tool = "portlens"
      BY <3>3, StartOfOneTool DEF Port!Init, Decisive, Port!Decisive
    <3>4. CASE tool = "svcdoctor"
      BY <3>4, StartOfOneTool DEF Svc!Init, Decisive, Svc!Decisive, Svc!Assessable
    <3>5. CASE tool = "netdoctor"
      BY <3>5, StartOfOneTool DEF Net!Init, Decisive, Net!Decisive, Net!AtClassify
    <3>6. CASE tool = "certwatch"
      BY <3>6, StartOfOneTool DEF Cert!Init, Decisive, Cert!Decisive
    <3>7. CASE tool = "healthctl"
      BY <3>7, StartOfOneTool DEF Check!Init, Decisive, Check!Decisive, Check!Evaluated
    <3> QED BY <3>1, <3>2, <3>3, <3>4, <3>5, <3>6, <3>7, VerdictsInit DEF VerdictsIInv, Tools
  <2>2. Codes \in {[decided |-> 0, otherwise |-> 1], [decided |-> 1, otherwise |-> 0]}
    BY DEF Codes, ExitOK, ExitFinding
  <2>3. Decisive = FALSE /\ Gap \in BOOLEAN
    BY <2>1, Zenon DEF Decisive, Gap
  <2> QED BY <2>1, <2>2, <2>3, Zenon DEF Contract!Init, Contract!ExitOK, Contract!ExitFinding
<1>2. Init => VerdictsIInv
  BY VerdictsInit
<1>3. VerdictsIInv /\ [Next]_vars => VerdictsIInv' /\ [Contract!Next]_Contract!vars
  BY VerdictsStep
<1> QED BY <1>1, <1>2, <1>3, PTL DEF Spec, ImplementsContract, Contract!Spec

===============================================================================
