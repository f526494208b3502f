------------------------ MODULE DependencyVisitProofs ------------------------
(***************************************************************************)
(* The depth-first search of module DependencyVisit is right on every      *)
(* finite or infinite set of checks: it accepts only graphs without        *)
(* unknown names, self-dependencies and cycles, and rejects only others.   *)
(***************************************************************************)
EXTENDS DependencyVisit, SequenceTheorems, TLAPS

LEMMA InitIInv == Init => IInv
<1> SUFFICES ASSUME Init PROVE IInv
  OBVIOUS
<1> USE DEF Init
<1>1. TypeOK
  BY GraphsAssumption DEF TypeOK
<1>2. StackIsPath /\ LoopsHaveFinished /\ AcceptIsSound /\ RejectIsSound
  BY DEF StackIsPath, LoopsHaveFinished, AcceptIsSound, RejectIsSound
<1>3. FinishedPart
  BY DEF FinishedPart, WellFounded
<1> QED
  BY <1>1, <1>2, <1>3 DEF IInv

LEMMA CheckNamesIInv ==
  ASSUME IInv, CheckNames
  PROVE  IInv'
<1> USE DEF IInv, CheckNames
<1>1. TypeOK'
  BY DEF TypeOK
<1>2. StackIsPath' /\ LoopsHaveFinished' /\ FinishedPart'
  BY DEF StackIsPath, LoopsHaveFinished, FinishedPart, WellFounded
<1>3. AcceptIsSound' /\ RejectIsSound'
  BY DEF AcceptIsSound, RejectIsSound, AcceptedGraph
<1> QED
  BY <1>1, <1>2, <1>3 DEF InvalidDependency

\* The innermost activation is on the stack.
LEMMA TopFacts ==
  ASSUME TypeOK, stack # << >>
  PROVE  /\ Len(stack) \in Nat \ {0} /\ DOMAIN stack = 1..Len(stack)
         /\ Len(stack) \in DOMAIN stack /\ Len(stack) + 1 \notin DOMAIN stack
         /\ Top = stack[Len(stack)] /\ Top \in Checks /\ Top \in visiting
BY DEF TypeOK, Top

\* The group of checks from an earlier occurrence of a check on the stack up to
\* the top: when the top depends on that check, each of the group depends on
\* another of the group.
LEMMA RevisitIsCycle ==
  ASSUME IInv, stack # << >>, NEW c \in visiting, c \in dependsOn[Top]
  PROVE  ~AcceptedGraph(Checks, dependsOn)
<1> USE DEF IInv
<1>1. PICK k \in DOMAIN stack : stack[k] = c
  BY DEF TypeOK
<1>2. /\ Len(stack) \in Nat \ {0} /\ DOMAIN stack = 1..Len(stack)
      /\ Top = stack[Len(stack)]
  BY TopFacts
<1> DEFINE group == {stack[i] : i \in k..Len(stack)}
<1>3. group \in SUBSET Checks /\ group # {}
  BY <1>1, <1>2 DEF TypeOK
<1>4. ASSUME NEW b \in group PROVE dependsOn[b] \cap group # {}
  <2>1. PICK i \in k..Len(stack) : b = stack[i]
    BY <1>4
  <2>2. CASE i = Len(stack)
    BY <1>1, <1>2, <2>1, <2>2
  <2>3. CASE i # Len(stack)
    <3>0. k \in 1..Len(stack) /\ i \in Int /\ Len(stack) \in Int
      BY <1>1, <1>2
    <3>1. i \in 1..Len(stack) /\ i + 1 \in 1..Len(stack) /\ i + 1 \in k..Len(stack)
      BY <3>0, <2>3
    <3>2. stack[i + 1] \in dependsOn[stack[i]]
      BY <3>1, <1>2 DEF StackIsPath
    <3> QED BY <2>1, <3>1, <3>2
  <2> QED BY <2>2, <2>3
<1> HIDE DEF group
<1> QED BY <1>3, <1>4 DEF AcceptedGraph, WellFounded

\* A call of visit: from the outer loop, or from the innermost activation with
\* one of the dependencies that activation has left.
VisitCall(c, taken) ==
  /\ verdict = "visit"
  /\ \/ /\ stack = << >>
        /\ roots' = roots \ {c}
        /\ taken = todo
     \/ /\ stack # << >>
        /\ c \in todo[Top]
        /\ taken = [todo EXCEPT ![Top] = @ \ {c}]
        /\ roots' = roots
  /\ Visit(c, taken)

\* The call is of a check that is on the stack: the graph has a cycle.
LEMMA VisitRejectsIInv ==
  ASSUME IInv, NEW c \in Checks, NEW taken, VisitCall(c, taken), c \in visiting
  PROVE  IInv'
<1> USE DEF IInv, VisitCall
<1>1. /\ verdict' = "rejected" /\ todo' = taken
      /\ UNCHANGED <<dependsOn, visited, stack, visiting>>
  BY DEF Visit
<1>2. stack # << >>
  BY DEF TypeOK
<1>3. Top \in Checks /\ c \in dependsOn[Top]
  BY <1>2, TopFacts DEF LoopsHaveFinished
<1>4. ~AcceptedGraph(Checks, dependsOn)
  BY <1>2, <1>3, RevisitIsCycle
<1>5. TypeOK'
  BY <1>1, <1>2, <1>3 DEF TypeOK
<1>6. StackIsPath' /\ LoopsHaveFinished'
  BY <1>1 DEF StackIsPath, LoopsHaveFinished
<1>7. FinishedPart'
  BY <1>1, <1>2 DEF FinishedPart, WellFounded
<1>8. AcceptIsSound' /\ RejectIsSound'
  BY <1>1, <1>4 DEF AcceptIsSound, RejectIsSound, AcceptedGraph, InvalidDependency, WellFounded
<1> QED
  BY <1>1, <1>5, <1>6, <1>7, <1>8

\* The call is of a finished check: it returns at once.
LEMMA VisitReturnsIInv ==
  ASSUME IInv, NEW c \in Checks, NEW taken, VisitCall(c, taken),
         c \notin visiting, c \in visited
  PROVE  IInv'
<1> USE DEF IInv, VisitCall
<1>1. todo' = taken /\ UNCHANGED <<verdict, dependsOn, visited, stack, visiting>>
  BY DEF Visit
<1>2. CASE stack = << >>
  <2>1. TypeOK' /\ StackIsPath' /\ LoopsHaveFinished'
    BY <1>1, <1>2 DEF TypeOK, StackIsPath, LoopsHaveFinished
  <2>2. FinishedPart'
    BY <1>1, <1>2 DEF FinishedPart, WellFounded
  <2> QED
    BY <1>1, <2>1, <2>2 DEF InvalidDependency, AcceptIsSound, RejectIsSound
<1>3. CASE stack # << >>
  <2>1. Top \in Checks
    BY <1>3, TopFacts
  <2>2. /\ todo' \in [Checks -> SUBSET (Checks \cup Unknown)]
        /\ todo'[Top] = todo[Top] \ {c}
        /\ \A b \in Checks : b # Top => todo'[b] = todo[b]
    BY <1>1, <1>3, <2>1 DEF TypeOK
  <2>3. TypeOK' /\ StackIsPath'
    BY <1>1, <1>3, <2>2 DEF TypeOK, StackIsPath
  <2>4. LoopsHaveFinished'
    <3>1. \A i \in DOMAIN stack : stack[i] \in Checks
      BY DEF TypeOK
    <3> QED BY <1>1, <2>2, <3>1 DEF LoopsHaveFinished
  <2>5. FinishedPart'
    BY <1>1, <1>3 DEF FinishedPart, WellFounded
  <2> QED
    BY <1>1, <2>3, <2>4, <2>5 DEF InvalidDependency, AcceptIsSound, RejectIsSound
<1> QED BY <1>2, <1>3

\* The call opens an activation.
LEMMA VisitDescendsIInv ==
  ASSUME IInv, NEW c \in Checks, NEW taken, VisitCall(c, taken),
         c \notin visiting \cup visited
  PROVE  IInv'
<1> USE DEF IInv, VisitCall
<1>1. /\ visiting' = visiting \cup {c}
      /\ stack' = Append(stack, c)
      /\ todo' = [taken EXCEPT ![c] = dependsOn[c]]
      /\ UNCHANGED <<verdict, dependsOn, visited>>
  BY DEF Visit
<1> DEFINE n == Len(stack)
<1>2. /\ stack \in Seq(Checks) /\ stack' \in Seq(Checks)
      /\ n \in Nat /\ DOMAIN stack = 1..n /\ DOMAIN stack' = 1..(n + 1)
      /\ stack'[n + 1] = c
      /\ \A i \in 1..n : stack'[i] = stack[i] /\ stack[i] \in Checks /\ stack[i] # c
  BY <1>1 DEF TypeOK
<1>3. /\ todo' \in [Checks -> SUBSET (Checks \cup Unknown)]
      /\ todo'[c] = dependsOn[c]
      /\ \A i \in 1..n : i # n => todo'[stack[i]] = todo[stack[i]]
      /\ n # 0 => /\ c \in todo[stack[n]]
                  /\ todo'[stack[n]] = todo[stack[n]] \ {c}
  <2>1. CASE stack = << >>
    BY <1>1, <1>2, <2>1 DEF TypeOK
  <2>2. CASE stack # << >>
    <3>1. Top = stack[n] /\ Top \in Checks /\ n # 0 /\ Top # c
      BY <1>2, <2>2, TopFacts
    <3>2. taken = [todo EXCEPT ![Top] = @ \ {c}] /\ c \in todo[Top]
      BY <2>2
    <3>3. \A i \in 1..n : i # n => stack[i] # Top
      <4>1. n \in 1..n
        BY <1>2, <3>1
      <4> HIDE DEF n
      <4> QED BY <1>2, <3>1, <4>1 DEF StackIsPath
    <3> QED
      BY <1>1, <1>2, <3>1, <3>2, <3>3 DEF TypeOK
  <2> QED BY <2>1, <2>2
<1> HIDE DEF n
<1>4. TypeOK'
  <2>1. visiting' = {stack'[i] : i \in DOMAIN stack'}
    BY <1>1, <1>2 DEF TypeOK
  <2>2. roots' \in SUBSET Checks
    BY DEF TypeOK
  <2> QED BY <1>1, <1>2, <1>3, <2>1, <2>2 DEF TypeOK
<1>5. n # 0 => c \in dependsOn[stack[n]]
  BY <1>2, <1>3 DEF LoopsHaveFinished
<1>6. StackIsPath'
  <2>1. \A i, j \in 1..(n + 1) : stack'[i] = stack'[j] => i = j
    BY <1>2 DEF StackIsPath
  <2>2. \A i \in 1..(n + 1) : i + 1 \in 1..(n + 1) => stack'[i + 1] \in dependsOn[stack'[i]]
    <3> SUFFICES ASSUME NEW i \in 1..n PROVE stack'[i + 1] \in dependsOn[stack'[i]]
      BY <1>2
    <3>1. CASE i = n
      BY <1>2, <1>5, <3>1
    <3>2. CASE i # n
      <4>1. i + 1 \in 1..n
        BY <1>2, <3>2
      <4> QED BY <1>2, <4>1 DEF StackIsPath
    <3> QED BY <3>1, <3>2
  <2> QED BY <1>1, <1>2, <2>1, <2>2 DEF StackIsPath
<1>7. LoopsHaveFinished'
  <2>1. ASSUME NEW i \in 1..(n + 1)
        PROVE  /\ todo'[stack'[i]] \subseteq dependsOn[stack'[i]]
               /\ \A d \in dependsOn[stack'[i]] \ todo'[stack'[i]] :
                    d \in visited \/ (i + 1 \in 1..(n + 1) /\ d = stack'[i + 1])
    <3>1. CASE i = n + 1
      BY <1>2, <1>3, <3>1
    <3>2. CASE i = n
      <4>1. i \in 1..n /\ n # 0 /\ i + 1 \in 1..(n + 1) /\ i + 1 \notin 1..n
        BY <1>2, <2>1, <3>2
      <4> QED BY <1>2, <1>3, <3>2, <4>1 DEF LoopsHaveFinished
    <3>3. CASE i \in 1..n /\ i # n
      <4>1. i + 1 \in 1..n /\ i + 1 \in 1..(n + 1)
        BY <1>2, <3>3
      <4> QED BY <1>2, <1>3, <3>3, <4>1 DEF LoopsHaveFinished
    <3> QED BY <1>2, <2>1, <3>1, <3>2, <3>3
  <2> QED BY <1>1, <1>2, <2>1 DEF LoopsHaveFinished
<1>8. FinishedPart'
  BY <1>1 DEF FinishedPart, WellFounded
<1> QED
  BY <1>1, <1>4, <1>6, <1>7, <1>8 DEF InvalidDependency, AcceptIsSound, RejectIsSound

LEMMA VisitIInv ==
  ASSUME IInv, NEW c \in Checks, VisitRoot(c) \/ VisitDependency(c)
  PROVE  IInv'
<1>1. PICK taken : VisitCall(c, taken)
  <2>1. CASE VisitRoot(c)
    BY <2>1 DEF VisitRoot, VisitCall
  <2>2. CASE VisitDependency(c)
    BY <2>2 DEF VisitDependency, VisitCall
  <2> QED BY <2>1, <2>2
<1> QED
  BY <1>1, VisitRejectsIInv, VisitReturnsIInv, VisitDescendsIInv

\* Adding a check whose dependencies are all in a closed well-founded part
\* keeps that part well-founded.
LEMMA WellFoundedExtends ==
  ASSUME NEW part, NEW dep, NEW c, c \notin part, WellFounded(part, dep),
         \A b \in part : dep[b] \subseteq part, dep[c] \subseteq part
  PROVE  WellFounded(part \cup {c}, dep)
<1> SUFFICES ASSUME NEW group \in SUBSET (part \cup {c}), group # {}
             PROVE  \E b \in group : dep[b] \cap group = {}
  BY DEF WellFounded
<1>1. CASE group = {c}
  BY <1>1
<1>2. CASE group # {c}
  <2>1. group \ {c} \in SUBSET part /\ group \ {c} # {}
    BY <1>2
  <2>2. PICK b \in group \ {c} : dep[b] \cap (group \ {c}) = {}
    BY <2>1 DEF WellFounded
  <2> QED BY <2>1, <2>2
<1> QED BY <1>1, <1>2

LEMMA LeaveIInv ==
  ASSUME IInv, Leave
  PROVE  IInv'
<1> USE DEF IInv
<1> DEFINE n == Len(stack)
<1>1. /\ verdict = "visit" /\ stack # << >> /\ todo[Top] = {}
      /\ visiting' = visiting \ {Top} /\ visited' = visited \cup {Top}
      /\ stack' = SubSeq(stack, 1, n - 1)
      /\ UNCHANGED <<dependsOn, verdict, roots, todo>>
  BY DEF Leave
<1>2. /\ n \in Nat \ {0} /\ DOMAIN stack = 1..n /\ Top = stack[n]
      /\ n \in 1..n /\ Top \in Checks /\ Top \in visiting
      /\ stack \in Seq(Checks)
  BY <1>1, TopFacts DEF TypeOK
<1>3. /\ stack' \in Seq(Checks) /\ DOMAIN stack' = 1..(n - 1)
      /\ \A i \in 1..(n - 1) : stack'[i] = stack[i] /\ i \in 1..n /\ i # n
  <2> HIDE DEF n
  <2>1. /\ n - 1 \in Nat /\ (1 <= n - 1 => n - 1 - 1 + 1 = n - 1) /\ (~(1 <= n - 1) => n - 1 = 0)
        /\ n - 1 - 1 + 1 = n - 1
        /\ \A i \in 1..(n - 1) : 1 + i - 1 = i /\ i \in 1..n /\ i # n
    BY <1>2
  <2>2. \A i \in 1..(n - 1) : stack[i] \in Checks
    BY <1>2, <2>1
  <2>3. /\ SubSeq(stack, 1, n - 1) \in Seq(Checks)
        /\ Len(SubSeq(stack, 1, n - 1)) = n - 1
        /\ \A i \in 1..(n - 1) : SubSeq(stack, 1, n - 1)[i] = stack[i]
    BY <2>1, <2>2, SubSeqProperties
  <2> QED BY <1>1, <2>1, <2>3
<1> HIDE DEF n
<1>4. \A i \in 1..n : i # n => stack[i] # Top /\ i \in 1..(n - 1)
  <2>1. \A i \in 1..n : i # n => stack[i] # Top
    BY <1>2 DEF StackIsPath
  <2> QED BY <1>2, <2>1
<1>5. TypeOK'
  <2>1. visiting' = {stack'[i] : i \in DOMAIN stack'}
    <3>1. visiting = {stack[i] : i \in 1..n}
      BY <1>2 DEF TypeOK
    <3>2. \A c \in visiting : c # Top => \E i \in 1..(n - 1) : c = stack'[i]
      BY <1>2, <1>3, <1>4, <3>1
    <3>3. \A i \in 1..(n - 1) : stack'[i] \in visiting /\ stack'[i] # Top
      BY <1>3, <1>4, <3>1
    <3> QED BY <1>1, <1>3, <3>2, <3>3
  <2>2. visited' \in SUBSET Checks
    BY <1>1, <1>2 DEF TypeOK
  <2> QED BY <1>1, <1>3, <2>1, <2>2 DEF TypeOK
<1>6. StackIsPath'
  <2>1. \A i, j \in 1..(n - 1) : stack'[i] = stack'[j] => i = j
    BY <1>2, <1>3 DEF StackIsPath
  <2>2. \A i \in 1..(n - 1) :
          i + 1 \in 1..(n - 1) => stack'[i + 1] \in dependsOn[stack'[i]]
    BY <1>2, <1>3 DEF StackIsPath
  <2> QED BY <1>1, <1>3, <2>1, <2>2 DEF StackIsPath
<1>7. LoopsHaveFinished'
  <2>1. ASSUME NEW i \in 1..(n - 1)
        PROVE  /\ todo[stack'[i]] \subseteq dependsOn[stack'[i]]
               /\ \A d \in dependsOn[stack'[i]] \ todo[stack'[i]] :
                    d \in visited' \/ (i + 1 \in 1..(n - 1) /\ d = stack'[i + 1])
    <3>1. stack'[i] = stack[i] /\ i \in 1..n
      BY <1>3
    <3>2. /\ todo[stack[i]] \subseteq dependsOn[stack[i]]
          /\ \A d \in dependsOn[stack[i]] \ todo[stack[i]] :
               d \in visited \/ (i + 1 \in 1..n /\ d = stack[i + 1])
      BY <1>1, <1>2, <3>1 DEF LoopsHaveFinished
    <3>3. i + 1 \in 1..n => stack[i + 1] = Top \/ i + 1 \in 1..(n - 1)
      BY <1>2, <1>4
    <3> QED BY <1>1, <1>3, <3>1, <3>2, <3>3
  <2> QED BY <1>1, <1>3, <2>1 DEF LoopsHaveFinished
<1>8. FinishedPart'
  <2>1. dependsOn[Top] \subseteq visited
    <3>1. n + 1 \notin 1..n
      BY <1>2
    <3>2. \A d \in dependsOn[stack[n]] \ todo[stack[n]] :
            d \in visited \/ (n + 1 \in 1..n /\ d = stack[n + 1])
      BY <1>1, <1>2 DEF LoopsHaveFinished
    <3> QED BY <1>1, <1>2, <3>1, <3>2
  <2>2. Top \notin visited
    BY <1>2 DEF FinishedPart
  <2>3. WellFounded(visited \cup {Top}, dependsOn)
    BY <2>1, <2>2, WellFoundedExtends DEF FinishedPart
  <2>4. WellFounded(visited, dependsOn)'
    BY <1>1, <2>3 DEF WellFounded
  <2> QED BY <1>1, <1>2, <2>1, <2>4 DEF FinishedPart
<1> QED
  BY <1>1, <1>5, <1>6, <1>7, <1>8 DEF InvalidDependency, AcceptIsSound, RejectIsSound

LEMMA AcceptIInv ==
  ASSUME IInv, Accept
  PROVE  IInv'
<1> USE DEF IInv, Accept
<1>1. visiting = {} /\ visited = Checks
  <2>1. DOMAIN stack = {}
    OBVIOUS
  <2>2. visiting = {}
    BY <2>1 DEF TypeOK
  <2> QED BY <2>2 DEF TypeOK, FinishedPart
<1>2. AcceptedGraph(Checks, dependsOn)
  BY <1>1 DEF AcceptedGraph, FinishedPart
<1>3. TypeOK' /\ StackIsPath' /\ LoopsHaveFinished'
  BY DEF TypeOK, StackIsPath, LoopsHaveFinished
<1>4. FinishedPart'
  BY DEF FinishedPart, WellFounded
<1>5. AcceptIsSound' /\ RejectIsSound'
  BY <1>2 DEF AcceptIsSound, RejectIsSound, AcceptedGraph, InvalidDependency, WellFounded
<1> QED
  BY <1>3, <1>4, <1>5 DEF InvalidDependency

THEOREM Invariance == Spec => []IInv
<1>1. Init => IInv
  BY InitIInv
<1>2. IInv /\ [Next]_vars => IInv'
  <2>1. ASSUME IInv, UNCHANGED vars PROVE IInv'
    BY <2>1
    DEF vars, IInv, TypeOK, InvalidDependency, StackIsPath, LoopsHaveFinished, FinishedPart,
        AcceptIsSound, RejectIsSound, AcceptedGraph, WellFounded
  <2> QED
    BY <2>1, CheckNamesIInv, VisitIInv, LeaveIInv, AcceptIInv DEF Next
<1> QED BY <1>1, <1>2, PTL DEF Spec

\* The set visiting is exactly the call stack of the recursion.
THEOREM TypeCorrect == Spec => []TypeOK
<1>1. IInv => TypeOK
  BY DEF IInv
<1> QED BY <1>1, Invariance, PTL

\* An accepted configuration has only valid dependencies and no cycle.
THEOREM AcceptSound == Spec => []AcceptIsSound
<1>1. IInv => AcceptIsSound
  BY DEF IInv
<1> QED BY <1>1, Invariance, PTL

\* A rejected configuration has an invalid dependency or a cycle.
THEOREM RejectSound == Spec => []RejectIsSound
<1>1. IInv => RejectIsSound
  BY DEF IInv
<1> QED BY <1>1, Invariance, PTL
===============================================================================
