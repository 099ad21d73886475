---------------------------- MODULE TUnifyProofs ----------------------------
(***************************************************************************)
(* The unifier, for any number of blocks and any file: its walk does not   *)
(* recurse deeper than the blocks are many, its assertion never fails, the *)
(* blocks it rewrites keep their tables in order, relocations stay at the  *)
(* code they were emitted for, what it does to a program is what Inlining  *)
(* allows, what runs from a block is what ran before, and no block that    *)
(* could be unified is left out.                                           *)
(***************************************************************************)
EXTENDS TUnify, TBOpsProofs, FiniteSetTheorems

LEMMA TBsFacts == NumTBs \in Nat \ {0} /\ TBs \subseteq Nat \ {0} /\ NoTB = 0
BY NumTBsAssumption DEF TBs, NoTB

(* The positions of a list, with the last one apart.                       *)
LEMMA LastApart ==
    \A n \in Nat : /\ \A i \in 1..n - 1 : i \in 1..n /\ i # n
                   /\ \A i \in 1..n : i \in 1..n - 1 \/ i = n
OBVIOUS

-----------------------------------------------------------------------------
(* The stack.                                                              *)

LEMMA StackFacts ==
    ASSUME TypeOK
    PROVE  /\ Len(stack) \in Nat
           /\ DOMAIN stack = 1..Len(stack)
           /\ \A i \in 1..Len(stack) :
                /\ stack[i] \in FrameType
                /\ stack[i].tb \in TBs
                /\ file.key[stack[i].tb] \in Nat
           /\ stack # <<>> =>
                /\ Len(stack) \in 1..Len(stack)
                /\ Top \in FrameType /\ Top.tb \in TBs
<1>1. stack \in Seq(FrameType) /\ file.key \in [TBs -> Nat]
  BY DEF TypeOK, WellFormedFile, FileType
<1>2. Len(stack) \in Nat /\ DOMAIN stack = 1..Len(stack)
  BY <1>1, LenProperties
<1>3. \A i \in 1..Len(stack) : stack[i] \in FrameType
  BY <1>1, ElementOfSeq
<1>4. \A i \in 1..Len(stack) : stack[i].tb \in TBs /\ file.key[stack[i].tb] \in Nat
  BY <1>1, <1>3 DEF FrameType
<1>5. stack # <<>> => Len(stack) \in 1..Len(stack)
  BY <1>1, <1>2, EmptySeq
<1>6. stack # <<>> => Top \in FrameType /\ Top.tb \in TBs
  BY <1>3, <1>4, <1>5 DEF Top
<1> QED
  BY <1>2, <1>3, <1>4, <1>5, <1>6

LEMMA PopFacts ==
    ASSUME TypeOK, stack # <<>>
    PROVE  /\ Pop \in Seq(FrameType)
           /\ Len(Pop) = Len(stack) - 1
           /\ DOMAIN Pop = 1..Len(stack) - 1
           /\ \A i \in 1..Len(stack) - 1 : Pop[i] = stack[i]
<1>1. /\ Len(stack) \in Nat /\ Len(stack) - 1 \in Nat
      /\ \A i \in 1..Len(stack) - 1 : stack[i] \in FrameType
  BY StackFacts
<1>2. /\ Pop \in Seq(FrameType)
      /\ Len(Pop) = Len(stack) - 1
      /\ \A i \in 1..Len(stack) - 1 : Pop[i] = stack[i]
  <2> DEFINE m == Len(stack) - 1
  <2>1. m \in Nat /\ m \in Int /\ 1 \in Int /\ (1 <= m \/ m = 0) /\ m - 1 + 1 = m
    <3>1. m \in Nat
      BY <1>1
    <3> HIDE DEF m
    <3> QED
      BY <3>1
  <2>2. \A i \in 1..m : i \in 1..Len(stack) /\ 1 + i - 1 = i
    BY <1>1, LastApart
  <2>3. \A i \in 1..m : stack[i] \in FrameType
    BY <1>1
  <2>4. Pop = SubSeq(stack, 1, m)
    BY DEF Pop
  <2> HIDE DEF m
  <2>5. /\ Pop \in Seq(FrameType)
        /\ Len(Pop) = IF 1 <= m THEN m - 1 + 1 ELSE 0
        /\ \A i \in 1..m - 1 + 1 : Pop[i] = stack[1 + i - 1]
    BY <2>1, <2>3, <2>4, SubSeqProperties
  <2>6. Len(Pop) = m /\ \A i \in 1..m : Pop[i] = stack[i]
    BY <2>1, <2>2, <2>5
  <2> QED
    BY <2>5, <2>6 DEF m
<1> QED
  BY <1>2, LenProperties

(* The innermost call goes on: its frame is replaced.                      *)
Resumed(s, pc) ==
    /\ s \in Seq(FrameType)
    /\ Len(s) = Len(stack)
    /\ DOMAIN s = 1..Len(stack)
    /\ \A i \in 1..Len(stack) - 1 : s[i] = stack[i]
    /\ s[Len(stack)] = [tb |-> Top.tb, pc |-> pc]

LEMMA ResumeFacts ==
    ASSUME TypeOK, stack # <<>>, NEW pc \in {"false", "true", "leave"}
    PROVE  Resumed(Append(Pop, [Top EXCEPT !.pc = pc]), pc)
<1> DEFINE s == Append(Pop, [Top EXCEPT !.pc = pc])
           n == Len(stack)
<1>1. /\ Pop \in Seq(FrameType) /\ Len(Pop) = n - 1
      /\ \A i \in 1..n - 1 : Pop[i] = stack[i]
      /\ n \in Nat
  BY PopFacts, StackFacts
<1>2. [Top EXCEPT !.pc = pc] = [tb |-> Top.tb, pc |-> pc]
      /\ [Top EXCEPT !.pc = pc] \in FrameType
  BY StackFacts DEF FrameType
<1>3. /\ s \in Seq(FrameType) /\ Len(s) = n
      /\ \A i \in 1..n - 1 : s[i] = Pop[i]
      /\ s[n] = [Top EXCEPT !.pc = pc]
  <2> HIDE DEF n
  <2>1. /\ s \in Seq(FrameType) /\ Len(s) = Len(Pop) + 1
        /\ \A i \in 1..Len(Pop) : s[i] = Pop[i]
        /\ s[Len(Pop) + 1] = [Top EXCEPT !.pc = pc]
    BY <1>1, <1>2, AppendProperties
  <2>2. Len(Pop) + 1 = n
    BY <1>1
  <2> QED
    BY <1>1, <2>1, <2>2
<1> HIDE DEF s
<1>4. DOMAIN s = 1..n
  BY <1>3, LenProperties
<1> QED
  BY <1>1, <1>2, <1>3, <1>4 DEF Resumed, s

LEMMA PushFacts ==
    ASSUME NEW t \in TBs \cup {NoTB}, NEW s \in Seq(FrameType)
    PROVE  /\ Push(t, s) \in Seq(FrameType)
           /\ t = NoTB => Push(t, s) = s
           /\ t # NoTB => /\ Len(Push(t, s)) = Len(s) + 1
                          /\ DOMAIN Push(t, s) = 1..Len(s) + 1
                          /\ \A i \in 1..Len(s) : Push(t, s)[i] = s[i]
                          /\ Push(t, s)[Len(s) + 1] = [tb |-> t, pc |-> "enter"]
<1>1. CASE t = NoTB
  BY <1>1 DEF Push
<1>2. CASE t # NoTB
  <2>1. Frame(t) \in FrameType /\ Push(t, s) = Append(s, Frame(t))
    BY <1>2 DEF Frame, FrameType, Push
  <2>2. /\ Push(t, s) \in Seq(FrameType)
        /\ Len(Push(t, s)) = Len(s) + 1
        /\ \A i \in 1..Len(s) : Push(t, s)[i] = s[i]
        /\ Push(t, s)[Len(s) + 1] = Frame(t)
    BY <2>1, AppendProperties
  <2>3. DOMAIN Push(t, s) = 1..Len(s) + 1
    BY <2>2, LenProperties
  <2> QED
    BY <1>2, <2>2, <2>3 DEF Frame
<1> QED
  BY <1>1, <1>2

-----------------------------------------------------------------------------
(* The walk.                                                               *)

LEMMA PopKeepsWalk ==
    ASSUME TypeOK, WalkOK, stack # <<>>, stack' = Pop, file' = file,
           parents' = parents
           \/ /\ Entered(Len(stack))
              /\ parents' = parents \ {file.key[Top.tb]}
    PROVE  stack' \in Seq(FrameType) /\ WalkOK'
<1> DEFINE n == Len(stack)
<1>1. /\ stack' \in Seq(FrameType) /\ Len(stack') = n - 1 /\ DOMAIN stack' = 1..n - 1
      /\ \A i \in 1..n - 1 : stack'[i] = stack[i]
      /\ n \in Nat /\ DOMAIN stack = 1..n /\ n \in 1..n
  BY PopFacts, StackFacts
<1>2. \A i \in 1..n - 1 : i \in DOMAIN stack /\ i # n /\ Entered(i)
  <2>1. \A i \in 1..n - 1 : i \in DOMAIN stack /\ i # n
    BY <1>1, LastApart
  <2> QED
    BY <2>1 DEF WalkOK
<1>3. \A i \in 1..n - 1 : file.key[stack[i].tb] \in parents'
  <2>1. \A i \in 1..n - 1 : file.key[stack[i].tb] \in parents
    BY <1>2 DEF WalkOK
  <2>2. Entered(n) => \A i \in 1..n - 1 : file.key[stack[i].tb] # file.key[stack[n].tb]
    BY <1>1, <1>2 DEF WalkOK
  <2> QED
    BY <2>1, <2>2 DEF Top
<1>4. \A i, j \in 1..n - 1 : i # j => file.key[stack[i].tb] # file.key[stack[j].tb]
  BY <1>2 DEF WalkOK
<1>5. \A i \in 1..n - 1 : stack'[i].pc # "enter"
  BY <1>1, <1>2 DEF Entered
<1> HIDE DEF n
<1> QED
  BY <1>1, <1>3, <1>4, <1>5 DEF WalkOK, Entered

(* The innermost call goes on with its block among the parents, and may    *)
(* call itself for one more block.                                         *)
LEMMA ResumeKeepsWalk ==
    ASSUME TypeOK, WalkOK, stack # <<>>, file' = file,
           NEW pc \in {"false", "true", "leave"}, NEW s, Resumed(s, pc),
           NEW t \in TBs \cup {NoTB}, stack' = Push(t, s),
           \/ Entered(Len(stack)) /\ parents' = parents
           \/ /\ file.key[Top.tb] \notin parents
              /\ parents' = parents \cup {file.key[Top.tb]}
    PROVE  stack' \in Seq(FrameType) /\ WalkOK'
<1> DEFINE n == Len(stack)
<1>1. /\ s \in Seq(FrameType) /\ Len(s) = n /\ DOMAIN s = 1..n
      /\ \A i \in 1..n - 1 : s[i] = stack[i]
      /\ s[n] = [tb |-> Top.tb, pc |-> pc]
      /\ n \in Nat /\ DOMAIN stack = 1..n /\ n \in 1..n
  BY StackFacts DEF Resumed
<1>2. \A i \in 1..n - 1 : i \in DOMAIN stack /\ i # n /\ Entered(i)
  <2>1. \A i \in 1..n - 1 : i \in DOMAIN stack /\ i # n
    BY <1>1, LastApart
  <2> QED
    BY <2>1 DEF WalkOK
<1>3. \A i \in 1..n : s[i].tb = stack[i].tb /\ s[i].pc # "enter"
  <2>1. \A i \in 1..n - 1 : s[i].tb = stack[i].tb /\ s[i].pc # "enter"
    BY <1>1, <1>2 DEF Entered
  <2>2. s[n].tb = stack[n].tb /\ s[n].pc # "enter"
    BY <1>1 DEF Top
  <2>3. \A i \in 1..n : i \in 1..n - 1 \/ i = n
    BY <1>1, LastApart
  <2> QED
    BY <2>1, <2>2, <2>3
<1>4. \A i \in 1..n : file.key[stack[i].tb] \in parents'
  <2>1. \A i \in 1..n - 1 : file.key[stack[i].tb] \in parents
    BY <1>2 DEF WalkOK
  <2>2. file.key[stack[n].tb] \in parents'
    BY <1>1 DEF WalkOK, Top
  <2>3. \A i \in 1..n : i \in 1..n - 1 \/ i = n
    BY <1>1, LastApart
  <2> QED
    BY <2>1, <2>2, <2>3
<1>5. \A i, j \in 1..n : i # j => file.key[stack[i].tb] # file.key[stack[j].tb]
  <2>1. \A i, j \in 1..n - 1 : i # j => file.key[stack[i].tb] # file.key[stack[j].tb]
    BY <1>2 DEF WalkOK
  <2>2. \A i \in 1..n - 1 : file.key[stack[i].tb] # file.key[stack[n].tb]
    <3>1. CASE Entered(n)
      BY <1>1, <1>2, <3>1 DEF WalkOK
    <3>2. CASE file.key[Top.tb] \notin parents
      BY <1>2, <3>2 DEF WalkOK, Top
    <3> QED
      BY <3>1, <3>2
  <2>3. \A i \in 1..n : i \in 1..n - 1 \/ i = n
    BY <1>1, LastApart
  <2> QED
    BY <2>1, <2>2, <2>3
<1>6. CASE t = NoTB
  <2>1. stack' = s
    BY <1>1, <1>6, PushFacts
  <2> HIDE DEF n
  <2> QED
    BY <1>1, <1>3, <1>4, <1>5, <2>1 DEF WalkOK, Entered
<1>7. CASE t # NoTB
  <2>1. /\ stack' \in Seq(FrameType) /\ Len(stack') = n + 1 /\ DOMAIN stack' = 1..n + 1
        /\ \A i \in 1..n : stack'[i] = s[i]
        /\ stack'[n + 1] = [tb |-> t, pc |-> "enter"]
    BY <1>1, <1>7, PushFacts
  <2> HIDE DEF n
  <2>2. \A i \in 1..n + 1 : i \in 1..n \/ i = n + 1
    BY <1>1
  <2>3. stack'[n + 1].pc = "enter"
    BY <2>1
  <2>4. \A i \in 1..n : stack'[i].pc # "enter" /\ stack'[i].tb = stack[i].tb
    BY <1>3, <2>1
  <2>5. \A i \in DOMAIN stack' : stack'[i].pc # "enter" => i \in 1..n
    BY <2>1, <2>2, <2>3
  <2>6. \A i \in DOMAIN stack' : i # Len(stack') => i \in 1..n
    BY <2>1, <2>2
  <2> QED
    BY <1>4, <1>5, <2>1, <2>4, <2>5, <2>6 DEF WalkOK, Entered
<1> QED
  BY <1>6, <1>7

LEMMA StartKeepsWalk ==
    ASSUME TypeOK, StartEntry
    PROVE  stack' \in Seq(FrameType) /\ entries' \in Seq(TBs) /\ WalkOK'
<1>1. entries \in Seq(TBs) /\ entries # <<>>
  BY DEF TypeOK, StartEntry
<1>2. Head(entries) \in TBs /\ Tail(entries) \in Seq(TBs)
  BY <1>1, HeadTailProperties
<1>3. stack' = <<[tb |-> Head(entries), pc |-> "enter"]>> /\ entries' = Tail(entries)
  BY DEF StartEntry, Frame
<1>4. [tb |-> Head(entries), pc |-> "enter"] \in FrameType
  BY <1>2 DEF FrameType
<1>5. /\ stack' \in Seq(FrameType) /\ Len(stack') = 1 /\ DOMAIN stack' = {1}
      /\ stack'[1].pc = "enter"
  BY <1>3, <1>4
<1> QED
  BY <1>2, <1>3, <1>5 DEF WalkOK, Entered

(* However the blocks are linked, the calls are never more than the blocks *)
(* and one.                                                                *)
LEMMA WalkIsBounded ==
    ASSUME TypeOK, WalkOK
    PROVE  RecursionBounded
<1> DEFINE n == Len(stack)
           S == 1..n - 1
           f == [i \in S |-> stack[i].tb]
<1>1. n \in Nat /\ DOMAIN stack = 1..n /\ \A i \in 1..n : stack[i].tb \in TBs
  BY StackFacts
<1>2. SUFFICES ASSUME ~ (n <= NumTBs + 1) PROVE FALSE
  BY DEF RecursionBounded
<1>3. NumTBs \in Nat
  BY TBsFacts
<1>4. IsFiniteSet(S) /\ Cardinality(S) = n - 1
  BY <1>1, <1>2, <1>3, FS_Interval
<1>5. IsFiniteSet(TBs) /\ Cardinality(TBs) = NumTBs
  BY <1>3, FS_Interval DEF TBs
<1>6. f \in [S -> TBs]
  BY <1>1
<1>7. \A i, j \in S : i # j => f[i] # f[j]
  <2>1. \A i \in S : i \in DOMAIN stack /\ i # n
    BY <1>1, LastApart
  <2>2. \A i \in S : Entered(i)
    BY <2>1 DEF WalkOK
  <2> QED
    BY <2>1, <2>2 DEF WalkOK
<1>8. Cardinality(TBs) < Cardinality(S)
  BY <1>1, <1>2, <1>3, <1>4, <1>5
<1> HIDE DEF S, f, n
<1>9. \E i, j \in S : i # j /\ f[i] = f[j]
  BY <1>4, <1>5, <1>6, <1>8, FS_PigeonHole
<1> QED
  BY <1>7, <1>9

-----------------------------------------------------------------------------
(* The loops of the model are the iterations they say they are.            *)

LEMMA InOrderUnfold ==
    ASSUME NEW T
    PROVE  \E f : /\ f[0] = <<>>
                  /\ \A n \in 1..NumTBs :
                        f[n] = IF n \in T THEN Append(f[n - 1], n) ELSE f[n - 1]
                  /\ InOrder(T) = f[NumTBs]
<1> DEFINE F(s, n) == IF n \in T THEN Append(s, n) ELSE s
           G(f, n) == [k \in 0..n |-> IF k = 0 THEN <<>> ELSE F(f[k - 1], k)]
           N == {n \in Nat : \E f : f = G(f, n)}
           upto == CHOOSE f : f = [k \in 0..NumTBs |-> IF k = 0 THEN <<>> ELSE
                                    IF k \in T THEN Append(f[k - 1], k) ELSE f[k - 1]]
<1>1. InOrder(T) = upto[NumTBs]
  BY DEF InOrder
<1>1a. upto = CHOOSE f : f = G(f, NumTBs)
  OBVIOUS
<1> HIDE DEF F, upto
<1>2. 0 \in N
  <2>1. [k \in 0..0 |-> <<>>] = G([k \in 0..0 |-> <<>>], 0)
    OBVIOUS
  <2> QED
    BY <2>1
<1>3. ASSUME NEW n \in N
      PROVE  n + 1 \in N
  <2>1. PICK f : f = G(f, n)
    OBVIOUS
  <2> DEFINE g == [k \in 0..n + 1 |-> IF k = n + 1 THEN F(f[n], n + 1) ELSE f[k]]
  <2>2. ASSUME NEW k \in 0..n + 1
        PROVE  g[k] = IF k = 0 THEN <<>> ELSE F(g[k - 1], k)
    <3>1. CASE k = n + 1
      <4>1. k # 0 /\ k - 1 = n /\ n \in 0..n + 1 /\ n # n + 1
        BY <3>1
      <4> QED
        BY <3>1, <4>1
    <3>2. CASE k = 0
      BY <3>2, <2>1
    <3>3. CASE k # 0 /\ k # n + 1
      <4>1. k \in 0..n /\ k - 1 \in 0..n + 1 /\ k - 1 # n + 1
        BY <3>3
      <4> QED
        BY <3>3, <4>1, <2>1
    <3> QED
      BY <3>1, <3>2, <3>3
  <2>3. g = G(g, n + 1)
    <3> HIDE DEF g
    <3>1. DOMAIN g = 0..n + 1 /\ g = [k \in DOMAIN g |-> g[k]]
      BY DEF g
    <3> QED
      BY <3>1, <2>2
  <2>4. n + 1 \in Nat
    OBVIOUS
  <2>5. \E h : h = G(h, n + 1)
    <3> HIDE DEF g
    <3> QED
      BY <2>3, Zenon
  <2> QED
    BY <2>4, <2>5
<1>4. NumTBs \in N
  <2> HIDE DEF N
  <2> QED
    BY <1>2, <1>3, NatInduct, TBsFacts DEF N
<1>5. upto = G(upto, NumTBs)
  BY <1>1a, <1>4
<1>6. upto[0] = <<>> /\ \A n \in 1..NumTBs : upto[n] = F(upto[n - 1], n)
  BY <1>5, TBsFacts
<1> QED
  BY <1>1, <1>6 DEF F

LEMMA InOrderType ==
    ASSUME NEW T
    PROVE  InOrder(T) \in Seq(TBs)
<1>1. PICK f : /\ f[0] = <<>>
               /\ \A n \in 1..NumTBs :
                    f[n] = IF n \in T THEN Append(f[n - 1], n) ELSE f[n - 1]
               /\ InOrder(T) = f[NumTBs]
  BY InOrderUnfold
<1> DEFINE N == {n \in Nat : n <= NumTBs => f[n] \in Seq(TBs)}
<1>2. 0 \in N
  BY <1>1, EmptySeq
<1>3. ASSUME NEW n \in N
      PROVE  n + 1 \in N
  <2>1. SUFFICES ASSUME n + 1 <= NumTBs PROVE f[n + 1] \in Seq(TBs)
    OBVIOUS
  <2>2. n \in Nat /\ n + 1 \in TBs /\ (n + 1) - 1 = n /\ f[n] \in Seq(TBs)
    BY <2>1, TBsFacts DEF TBs
  <2>3. f[n + 1] = IF n + 1 \in T THEN Append(f[n], n + 1) ELSE f[n]
    BY <1>1, <2>2 DEF TBs
  <2> QED
    BY <2>2, <2>3, AppendProperties
<1>4. NumTBs \in N
  <2> HIDE DEF N
  <2> QED
    BY <1>2, <1>3, NatInduct, TBsFacts DEF N
<1> QED
  BY <1>1, <1>4, TBsFacts

LEMMA CopiedRelsUnfold ==
    ASSUME NEW rels, Len(rels) \in Nat, NEW start
    PROVE  \E f : /\ f[0] = <<>>
                  /\ \A j \in 1..Len(rels) :
                        f[j] = IF rels[j].valid
                               THEN Append(f[j - 1], [rels[j] EXCEPT !.off = @ + start])
                               ELSE f[j - 1]
                  /\ CopiedRels(rels, start) = f[Len(rels)]
<1> DEFINE F(s, j) == IF rels[j].valid
                      THEN Append(s, [rels[j] EXCEPT !.off = @ + start]) ELSE s
           G(f, n) == [k \in 0..n |-> IF k = 0 THEN <<>> ELSE F(f[k - 1], k)]
           N == {n \in Nat : \E f : f = G(f, n)}
           upto == CHOOSE f : f = [j \in 0..Len(rels) |-> IF j = 0 THEN <<>> ELSE
                        IF rels[j].valid
                        THEN Append(f[j - 1], [rels[j] EXCEPT !.off = @ + start])
                        ELSE f[j - 1]]
<1>1. CopiedRels(rels, start) = upto[Len(rels)]
  BY DEF CopiedRels
<1>1a. upto = CHOOSE f : f = G(f, Len(rels))
  OBVIOUS
<1> HIDE DEF F, upto
<1>2. 0 \in N
  <2>1. [k \in 0..0 |-> <<>>] = G([k \in 0..0 |-> <<>>], 0)
    OBVIOUS
  <2> QED
    BY <2>1
<1>3. ASSUME NEW n \in N
      PROVE  n + 1 \in N
  <2>1. PICK f : f = G(f, n)
    OBVIOUS
  <2> DEFINE g == [k \in 0..n + 1 |-> IF k = n + 1 THEN F(f[n], n + 1) ELSE f[k]]
  <2>2. ASSUME NEW k \in 0..n + 1
        PROVE  g[k] = IF k = 0 THEN <<>> ELSE F(g[k - 1], k)
    <3>1. CASE k = n + 1
      <4>1. k # 0 /\ k - 1 = n /\ n \in 0..n + 1 /\ n # n + 1
        BY <3>1
      <4> QED
        BY <3>1, <4>1
    <3>2. CASE k = 0
      BY <3>2, <2>1
    <3>3. CASE k # 0 /\ k # n + 1
      <4>1. k \in 0..n /\ k - 1 \in 0..n + 1 /\ k - 1 # n + 1
        BY <3>3
      <4> QED
        BY <3>3, <4>1, <2>1
    <3> QED
      BY <3>1, <3>2, <3>3
  <2>3. g = G(g, n + 1)
    <3> HIDE DEF g
    <3>1. DOMAIN g = 0..n + 1 /\ g = [k \in DOMAIN g |-> g[k]]
      BY DEF g
    <3> QED
      BY <3>1, <2>2
  <2>4. n + 1 \in Nat
    OBVIOUS
  <2>5. \E h : h = G(h, n + 1)
    <3> HIDE DEF g
    <3> QED
      BY <2>3, Zenon
  <2> QED
    BY <2>4, <2>5
<1>4. Len(rels) \in N
  <2> HIDE DEF N
  <2> QED
    BY <1>2, <1>3, NatInduct DEF N
<1>5. upto = G(upto, Len(rels))
  BY <1>1a, <1>4
<1>6. upto[0] = <<>> /\ \A j \in 1..Len(rels) : upto[j] = F(upto[j - 1], j)
  BY <1>5
<1> QED
  BY <1>1, <1>6 DEF F

(* c is the valid ones of the first n relocations, moved, in their order:  *)
(* p says where an entry of c was.                                         *)
CopyOf(rels, start, n, c, p) ==
    /\ c \in Seq(RelType)
    /\ \A k \in 1..Len(c) :
        /\ p[k] \in 1..n
        /\ rels[p[k]].valid
        /\ c[k] = [rels[p[k]] EXCEPT !.off = @ + start]
    /\ \A k, m \in 1..Len(c) : k < m => p[k] < p[m]
    /\ \A j \in 1..n : rels[j].valid => \E k \in 1..Len(c) : p[k] = j

LEMMA CopyOneMore ==
    ASSUME NEW rels \in Seq(RelType), NEW start \in Nat,
           NEW n \in Nat, n + 1 <= Len(rels), NEW c, NEW p, CopyOf(rels, start, n, c, p),
           NEW d, d = IF rels[n + 1].valid
                      THEN Append(c, [rels[n + 1] EXCEPT !.off = @ + start]) ELSE c
    PROVE  \E q : CopyOf(rels, start, n + 1, d, q)
<1>0. /\ Len(rels) \in Nat /\ n + 1 \in 1..Len(rels) /\ rels[n + 1] \in RelType
      /\ c \in Seq(RelType) /\ Len(c) \in Nat
      /\ \A j \in 1..n : j \in 1..n + 1 /\ j < n + 1
      /\ \A j \in 1..n + 1 : j \in 1..n \/ j = n + 1
  <2>1. Len(rels) \in Nat /\ c \in Seq(RelType) /\ Len(c) \in Nat
    BY LenProperties DEF CopyOf
  <2>2. n + 1 \in 1..Len(rels)
    BY <2>1
  <2>3. rels[n + 1] \in RelType
    BY <2>2, ElementOfSeq
  <2> QED
    BY <2>1, <2>2, <2>3
<1>1. CASE ~ rels[n + 1].valid
  <2>1. d = c
    BY <1>1
  <2>2. CopyOf(rels, start, n + 1, d, p)
    BY <1>0, <1>1, <2>1 DEF CopyOf
  <2> QED
    BY <2>2
<1>2. CASE rels[n + 1].valid
  <2> DEFINE e == [rels[n + 1] EXCEPT !.off = @ + start]
             m == Len(c) + 1
             q == [k \in 1..m |-> IF k = m THEN n + 1 ELSE p[k]]
  <2>0. m \in Nat /\ m \in 1..m /\ (\A k \in 1..Len(c) : k \in 1..m /\ k # m /\ k < m)
        /\ (\A k \in 1..m : k \in 1..Len(c) \/ k = m)
        /\ (\A k, l \in 1..m : k < l => k \in 1..Len(c))
    BY <1>0
  <2>1. e \in RelType
    <3>1. rels[n + 1] \in RelType /\ rels[n + 1].off + start \in Nat
      BY <1>0, EntryTypes
    <3> QED
      BY <3>1, EntryTypes
  <2>2. d = Append(c, e)
    BY <1>2
  <2> HIDE DEF e
  <2>3. /\ d \in Seq(RelType) /\ Len(d) = m
        /\ \A k \in 1..Len(c) : d[k] = c[k]
        /\ d[m] = e
    BY <1>0, <2>1, <2>2, AppendProperties
  <2>4. q[m] = n + 1 /\ \A k \in 1..Len(c) : q[k] = p[k]
    BY <2>0
  <2> HIDE DEF m, q
  <2>5. ASSUME NEW k \in 1..m
        PROVE  /\ q[k] \in 1..n + 1
               /\ rels[q[k]].valid
               /\ d[k] = [rels[q[k]] EXCEPT !.off = @ + start]
    <3>1. CASE k \in 1..Len(c)
      BY <1>0, <2>3, <2>4, <3>1 DEF CopyOf
    <3>2. CASE k = m
      BY <1>0, <1>2, <2>3, <2>4, <3>2, SMTT(30) DEF e
    <3> QED
      BY <2>0, <3>1, <3>2
  <2>6. ASSUME NEW k \in 1..m, NEW l \in 1..m, k < l
        PROVE  q[k] < q[l]
    <3>1. k \in 1..Len(c) /\ q[k] = p[k] /\ p[k] \in 1..n /\ p[k] < n + 1
      BY <1>0, <2>0, <2>4, <2>6 DEF CopyOf
    <3>2. CASE l \in 1..Len(c)
      BY <2>4, <2>6, <3>1, <3>2 DEF CopyOf
    <3>3. CASE l = m
      BY <2>4, <3>1, <3>3
    <3> QED
      BY <2>0, <3>2, <3>3
  <2>7. ASSUME NEW j \in 1..n + 1, rels[j].valid
        PROVE  \E k \in 1..m : q[k] = j
    <3>1. CASE j \in 1..n
      <4>1. PICK k \in 1..Len(c) : p[k] = j
        BY <2>7, <3>1 DEF CopyOf
      <4> QED
        BY <2>0, <2>4, <4>1
    <3>2. CASE j = n + 1
      BY <2>0, <2>4, <3>2
    <3> QED
      BY <1>0, <3>1, <3>2
  <2>8. CopyOf(rels, start, n + 1, d, q)
    BY <2>3, <2>5, <2>6, <2>7 DEF CopyOf
  <2> QED
    BY <2>8
<1> QED
  BY <1>1, <1>2

LEMMA CopiedRelsFacts ==
    ASSUME NEW rels \in Seq(RelType), NEW start \in Nat
    PROVE  \E p : CopyOf(rels, start, Len(rels), CopiedRels(rels, start), p)
<1>0. Len(rels) \in Nat
  BY LenProperties
<1>1. PICK f : /\ f[0] = <<>>
               /\ \A j \in 1..Len(rels) :
                    f[j] = IF rels[j].valid
                           THEN Append(f[j - 1], [rels[j] EXCEPT !.off = @ + start])
                           ELSE f[j - 1]
               /\ CopiedRels(rels, start) = f[Len(rels)]
  BY <1>0, CopiedRelsUnfold
<1> DEFINE N == {n \in Nat : n <= Len(rels) => \E p : CopyOf(rels, start, n, f[n], p)}
<1>2. 0 \in N
  <2>1. CopyOf(rels, start, 0, f[0], <<>>)
    BY <1>1, EmptySeq DEF CopyOf
  <2> QED
    BY <2>1
<1>3. ASSUME NEW n \in N
      PROVE  n + 1 \in N
  <2>1. SUFFICES ASSUME n + 1 <= Len(rels)
                 PROVE  \E q : CopyOf(rels, start, n + 1, f[n + 1], q)
    OBVIOUS
  <2>2. n \in Nat /\ n <= Len(rels) /\ n + 1 \in 1..Len(rels) /\ (n + 1) - 1 = n
    BY <1>0, <2>1
  <2>3. PICK p : CopyOf(rels, start, n, f[n], p)
    BY <2>2
  <2>4. f[n + 1] = IF rels[n + 1].valid
                   THEN Append(f[n], [rels[n + 1] EXCEPT !.off = @ + start]) ELSE f[n]
    BY <1>1, <2>2
  <2> QED
    BY <2>1, <2>2, <2>3, <2>4, CopyOneMore
<1>4. Len(rels) \in N
  <2> HIDE DEF N
  <2> QED
    BY <1>0, <1>2, <1>3, NatInduct DEF N
<1> QED
  BY <1>0, <1>1, <1>4

-----------------------------------------------------------------------------
(* The blocks.                                                             *)

LEMMA IdIsNat == \A t \in TBs, k \in Nat \ {0} : Id(t, k) \in Nat
<1>1. \A a, b \in Nat : a * b \in Nat
  OBVIOUS
<1>2. SUFFICES ASSUME NEW t \in TBs, NEW k \in Nat \ {0} PROVE Id(t, k) \in Nat
  OBVIOUS
<1>3. k - 1 \in Nat /\ NumTBs \in Nat /\ t \in Nat
  BY TBsFacts
<1>4. (k - 1) * NumTBs \in Nat
  BY <1>1, <1>3
<1> QED
  BY <1>3, <1>4 DEF Id

LEMMA FileFacts ==
    ASSUME TypeOK, NEW t \in TBs
    PROVE  /\ file.code[t] \in Seq(OpClasses)
           /\ Len(file.code[t]) \in Nat
           /\ DOMAIN file.code[t] = 1..Len(file.code[t])
           /\ file.rels[t] \in Seq(RelType)
           /\ file.linked[t] \in [Jumps -> BOOLEAN]
           /\ file.target[t] \in [Jumps -> Nat]
           /\ file.next[t] \in [Jumps -> TBs \cup {NoTB}]
           /\ file.seg[t] \in Nat \ {0}
BY LenProperties DEF TypeOK, WellFormedFile, FileType

LEMMA CodeFacts ==
    ASSUME TypeOK, NEW t \in TBs
    PROVE  /\ Code(t) \in Seq(InsnType)
           /\ Len(Code(t)) = Len(file.code[t])
           /\ DOMAIN Code(t) = 1..Len(file.code[t])
           /\ \A k \in 1..Len(file.code[t]) :
                Code(t)[k] = [id |-> Id(t, k), opc |-> file.code[t][k]]
<1> DEFINE n == Len(file.code[t])
<1>1. n \in Nat /\ DOMAIN file.code[t] = 1..n /\ file.code[t] \in Seq(OpClasses)
  BY FileFacts
<1>2. Code(t) = [k \in 1..n |-> [id |-> Id(t, k), opc |-> file.code[t][k]]]
  BY <1>1 DEF Code
<1>3. ASSUME NEW k \in 1..n
      PROVE  [id |-> Id(t, k), opc |-> file.code[t][k]] \in InsnType
  <2>1. file.code[t][k] \in OpClasses
    BY <1>1, ElementOfSeq
  <2>2. k \in Nat \ {0}
    BY <1>1
  <2>3. Id(t, k) \in Nat
    BY <2>2, IdIsNat
  <2> QED
    BY <2>1, <2>3 DEF InsnType
<1> HIDE DEF n
<1>4. Code(t) \in [1..n -> InsnType]
  BY <1>2, <1>3
<1>5. Code(t) \in Seq(InsnType) /\ Len(Code(t)) = n
  BY <1>1, <1>4, FcnIsSeq
<1> QED
  BY <1>2, <1>5 DEF n

(* Attaching and decoding fill the block the constructor left empty.       *)
LEMMA DecodedBlock ==
    ASSUME TypeOK, NEW t \in TBs, Unread(t)
    PROVE  /\ Decoded(t) \in TBType
           /\ AllBranchesIndexed(Decoded(t))
           /\ Decoded(t).insns  = Code(t)
           /\ Decoded(t).rels   = file.rels[t]
           /\ Decoded(t).linked = file.linked[t]
           /\ Decoded(t).target = file.target[t]
<1> DEFINE b == Constructed(t)
           more == AddBranches(b.branches, Code(t), 0)
<1>1. tbs[t] = b /\ b \in TBType
  BY DEF Unread, TypeOK
<1>2. b.insns = <<>> /\ b.branches = [c \in BranchClasses |-> <<>>] /\ Len(b.insns) = 0
      /\ b.linked = file.linked[t] /\ b.target = file.target[t]
  BY DEF Constructed
<1>3. AllBranchesIndexed(b)
  <2>1. DOMAIN <<>> = {}
    OBVIOUS
  <2>2. \A c \in BranchClasses : b.branches[c] = <<>>
    BY <1>2
  <2> QED
    BY <1>2, <2>1, <2>2 DEF AllBranchesIndexed, BranchIndexed
<1>4. Decoded(t) = [b EXCEPT !.rels = file.rels[t], !.insns = Code(t), !.branches = more]
  BY <1>1 DEF Decoded
<1>5. Code(t) \in Seq(InsnType) /\ <<>> \o Code(t) = Code(t)
  BY CodeFacts
<1> HIDE DEF b
<1>6. /\ more \in [BranchClasses -> Seq(BranchType)]
      /\ \A u : u.insns = Code(t) /\ u.branches = more => AllBranchesIndexed(u)
  BY <1>1, <1>2, <1>3, <1>5, AppendKeepsIndexed
<1> HIDE DEF more
<1>7. file.rels[t] \in Seq(RelType)
  BY FileFacts
<1>8. /\ Decoded(t) \in TBType
      /\ Decoded(t).insns = Code(t) /\ Decoded(t).branches = more
      /\ Decoded(t).rels = file.rels[t]
      /\ Decoded(t).linked = b.linked /\ Decoded(t).target = b.target
  BY <1>1, <1>4, <1>5, <1>6, <1>7 DEF TBType, InsnType
<1> QED
  BY <1>2, <1>6, <1>8

(* u is dst with everything from index start on replaced by src.           *)
Replaced(dst, src, start, u) ==
    /\ u \in TBType
    /\ AllBranchesIndexed(u)
    /\ u.linked = src.linked
    /\ Len(u.insns) = start + Len(src.insns)
    /\ \A k \in 1..start : u.insns[k] = dst.insns[k]
    /\ \A k \in 1..Len(src.insns) : u.insns[start + k] = src.insns[k]
    /\ u.rels = DeleteRun(dst, start, Len(dst.insns) - start).rels
                  \o CopiedRels(src.rels, start)

LEMMA UnifiedBlock ==
    ASSUME NEW dst \in TBType, AllBranchesIndexed(dst), NEW src \in TBType,
           NEW start \in 0..Len(dst.insns) - 1,
           NEW u, u = Unified(dst, src, start)
    PROVE  Replaced(dst, src, start, u)
<1> DEFINE n == Len(dst.insns)
           head == DeleteRun(dst, start, n - start)
           copied == CopiedRels(src.rels, start)
           more == AddBranches(head.branches, src.insns, start)
           target == [d \in Jumps |-> IF src.linked[d] THEN start + src.target[d]
                                                       ELSE head.target[d]]
<1>1. n \in Nat /\ start \in Nat /\ n - start \in Nat /\ start + (n - start) = n
      /\ n - (n - start) = start
  <2>1. n \in Nat
    BY IndexFacts
  <2> HIDE DEF n
  <2> QED
    BY <2>1 DEF n
<1>2. Without(dst, start, n - start, head)
  BY <1>1, DeleteRunFields
<1>3. /\ head \in TBType /\ AllBranchesIndexed(head)
      /\ Len(head.insns) = start
      /\ \A k \in 1..start : head.insns[k] = dst.insns[k]
  <2>1. \A k \in 1..start : k <= start
    BY <1>1
  <2> QED
    BY <1>1, <1>2, <2>1 DEF Without
<1>4. copied \in Seq(RelType)
  <2>1. src.rels \in Seq(RelType)
    BY DEF TBType
  <2> QED
    BY <1>1, <2>1, CopiedRelsFacts DEF CopyOf
<1>5. u = [head EXCEPT !.rels = @ \o copied, !.insns = @ \o src.insns,
                       !.branches = more, !.linked = src.linked, !.target = target]
  BY DEF Unified
<1> HIDE DEF head, copied
<1>6. src.insns \in Seq(InsnType) /\ head.insns \in Seq(InsnType)
      /\ head.rels \in Seq(RelType)
      /\ src.linked \in [Jumps -> BOOLEAN]
      /\ Len(src.insns) \in Nat
  BY <1>3, IndexFacts DEF TBType, InsnType
<1>7. /\ more \in [BranchClasses -> Seq(BranchType)]
      /\ \A w : w.insns = head.insns \o src.insns /\ w.branches = more => AllBranchesIndexed(w)
  BY <1>3, <1>6, AppendKeepsIndexed
<1>8. target \in [Jumps -> Nat]
  <2>1. src.target \in [Jumps -> Nat] /\ head.target \in [Jumps -> Nat]
    BY <1>3 DEF TBType
  <2> QED
    BY <1>1, <2>1
<1> HIDE DEF more, target
<1>9. /\ head.insns \o src.insns \in Seq(InsnType)
      /\ head.rels \o copied \in Seq(RelType)
  BY <1>4, <1>6, ConcatProperties
<1>10. /\ u \in TBType
       /\ u.insns = head.insns \o src.insns
       /\ u.branches = more
       /\ u.rels = head.rels \o copied
       /\ u.linked = src.linked
  BY <1>3, <1>5, <1>6, <1>7, <1>8, <1>9 DEF TBType, InsnType
<1>11. /\ Len(u.insns) = start + Len(src.insns)
       /\ \A k \in 1..start : u.insns[k] = dst.insns[k]
       /\ \A k \in 1..Len(src.insns) : u.insns[start + k] = src.insns[k]
  <2> HIDE DEF n
  <2>1. /\ Len(head.insns \o src.insns) = Len(head.insns) + Len(src.insns)
        /\ \A k \in 1..Len(head.insns) + Len(src.insns) :
              (head.insns \o src.insns)[k] = IF k <= Len(head.insns) THEN head.insns[k]
                                             ELSE src.insns[k - Len(head.insns)]
    BY <1>6, ConcatProperties
  <2>2. \A k \in 1..start : k \in 1..start + Len(src.insns) /\ k <= start
    BY <1>1, <1>6
  <2>3. \A k \in 1..Len(src.insns) : /\ start + k \in 1..start + Len(src.insns)
                                     /\ ~ (start + k <= start)
                                     /\ (start + k) - start = k
    BY <1>1, <1>6
  <2>4. \A k \in 1..start : u.insns[k] = dst.insns[k]
    BY <1>3, <1>10, <2>1, <2>2
  <2>5. \A k \in 1..Len(src.insns) : u.insns[start + k] = src.insns[k]
    BY <1>3, <1>10, <2>1, <2>3
  <2> QED
    BY <1>3, <1>10, <2>1, <2>4, <2>5
<1> QED
  BY <1>7, <1>10, <1>11 DEF head, copied, n, Replaced

(* What the walk knows when it unifies t.                                  *)
LEMMA UnifyFacts ==
    ASSUME TypeOK, BlocksOK, NEW t \in TBs, CanUnify(t)
    PROVE  \E d \in Jumps :
            LET src == TheOnlyOneSuccessor(t) IN
            /\ tbs[t].linked[d] /\ ~ tbs[t].linked[1 - d] /\ 1 - d \in Jumps
            /\ src = branch[t][d] /\ src \in TBs /\ src # t
            /\ NoSuccessor(src)
            /\ IsDecoded(t) /\ AsRead(t)
            /\ BranchInsnIndex(t) = file.target[t][d]
            /\ BranchInsnIndex(t) \in 0..Len(tbs[t].insns) - 1
            /\ JumpIsB(t)
<1>1. PICK d \in Jumps : /\ tbs[t].linked[d]
                         /\ ~ tbs[t].linked[1 - d]
                         /\ branch[t][d] # NoTB
  BY DEF CanUnify, OnlyOneSuccessor
<1>2. 1 - d \in Jumps /\ ((d = 0 /\ 1 - d = 1) \/ (d = 1 /\ 1 - d = 0))
  BY DEF Jumps
<1>3. branch[t][1 - d] = NoTB
  BY <1>1, <1>2 DEF BlocksOK
<1>4. TheOnlyOneSuccessor(t) = branch[t][d]
  BY <1>1, <1>2, <1>3 DEF TheOnlyOneSuccessor
<1>5. branch[t][d] \in TBs
  BY <1>1 DEF TypeOK
<1>6. NoSuccessor(TheOnlyOneSuccessor(t)) /\ ~ NoSuccessor(t)
  BY <1>1 DEF CanUnify, NoSuccessor
<1>7. IsDecoded(t)
  BY <1>1 DEF BlocksOK, Unread
<1>8. AsRead(t)
  BY <1>6, <1>7 DEF BlocksOK
<1>9. BranchInsnIndex(t) = tbs[t].target[d]
  BY <1>1, <1>2 DEF BranchInsnIndex
<1>10. /\ tbs[t].target[d] = file.target[t][d] /\ file.linked[t][d]
       /\ tbs[t].insns = Code(t)
  BY <1>1, <1>8 DEF AsRead
<1>11. file.target[t][d] < Len(file.code[t]) /\ file.code[t][file.target[t][d] + 1] = "B"
  BY <1>10 DEF TypeOK, WellFormedFile
<1>12. file.target[t][d] \in Nat /\ Len(file.code[t]) \in Nat
  BY FileFacts
<1>13. /\ Len(Code(t)) = Len(file.code[t])
       /\ file.target[t][d] + 1 \in 1..Len(file.code[t])
  BY <1>11, <1>12, CodeFacts
<1>14. Code(t)[file.target[t][d] + 1].opc = "B"
  <2> DEFINE k == file.target[t][d] + 1
  <2>1. k \in 1..Len(file.code[t]) /\ file.code[t][k] = "B"
    BY <1>11, <1>13
  <2> HIDE DEF k
  <2>2. Code(t)[k] = [id |-> Id(t, k), opc |-> file.code[t][k]]
    BY <2>1, CodeFacts
  <2>3. Code(t)[k].opc = "B"
    BY <2>1, <2>2
  <2> QED
    BY <2>3 DEF k
<1>15. JumpIsB(t)
  BY <1>9, <1>10, <1>11, <1>13, <1>14 DEF JumpIsB
<1>16. BranchInsnIndex(t) \in 0..Len(tbs[t].insns) - 1
  BY <1>9, <1>10, <1>11, <1>12, <1>13
<1> QED
  BY <1>1, <1>2, <1>4, <1>5, <1>6, <1>7, <1>8, <1>9, <1>10, <1>15, <1>16

-----------------------------------------------------------------------------
(* The invariant is inductive.                                             *)

LEMMA FileStays ==
    ASSUME TypeOK, file' = file
    PROVE  WellFormedFile(file)'
BY DEF TypeOK, WellFormedFile, FileType, Disjoint

(* A step that touches no block, and decodes none.                         *)
LEMMA BlocksStay ==
    ASSUME TypeOK, BlocksOK, BranchesIndexed, UNCHANGED <<file, tbs, branch>>,
           \A t \in TBs : IsDecoded(t)' <=> IsDecoded(t)
    PROVE  /\ tbs' \in [TBs -> TBType]
           /\ branch' \in [TBs -> [Jumps -> TBs \cup {NoTB}]]
           /\ BlocksOK'
           /\ BranchesIndexed'
<1>1. tbs' \in [TBs -> TBType] /\ branch' \in [TBs -> [Jumps -> TBs \cup {NoTB}]]
  BY DEF TypeOK
<1>2. BlocksOK'
  <2>1. SUFFICES ASSUME NEW t \in TBs
                 PROVE  /\ ~ IsDecoded(t) => Unread(t)'
                        /\ IsDecoded(t) /\ ~ NoSuccessor(t)' => AsRead(t)'
                        /\ \A d \in Jumps : ~ tbs'[t].linked[d] => branch'[t][d] = NoTB
    BY DEF BlocksOK
  <2>2. Unread(t)' <=> Unread(t)
    BY DEF Unread, Constructed
  <2>3. NoSuccessor(t)' <=> NoSuccessor(t)
    BY DEF NoSuccessor
  <2>4. AsRead(t)' <=> AsRead(t)
    BY DEF AsRead, Code
  <2> QED
    BY <2>2, <2>3, <2>4 DEF BlocksOK
<1>3. BranchesIndexed'
  BY DEF BranchesIndexed, AllBranchesIndexed, BranchIndexed
<1> QED
  BY <1>1, <1>2, <1>3

LEMMA PrepareKeeps ==
    ASSUME IndInv, Prepare
    PROVE  IndInv'
<1> DEFINE new == BlocksOf(seg)
<1>0. /\ TypeOK /\ BlocksOK /\ BranchesIndexed /\ WalkOK /\ step = "prepare"
      /\ step' = "unify" /\ UNCHANGED <<file, seg, stack, parents, finished>>
      /\ entries' = InOrder(new \ parented')
      /\ branch' = [t \in TBs |-> IF t \in new THEN Settled(t) ELSE branch[t]]
      /\ tbs' = [t \in TBs |-> IF t \in new THEN Decoded(t) ELSE tbs[t]]
  BY DEF IndInv, Prepare
<1>1. ASSUME NEW t \in TBs
      PROVE  /\ t \in new => ~ IsDecoded(t) /\ IsDecoded(t)'
             /\ t \notin new => (IsDecoded(t)' <=> IsDecoded(t))
  BY <1>0, FileFacts DEF IsDecoded, BlocksOf, TypeOK
<1>2. ASSUME NEW t \in TBs, t \in new
      PROVE  /\ tbs'[t] \in TBType
             /\ AllBranchesIndexed(tbs'[t])
             /\ branch'[t] \in [Jumps -> TBs \cup {NoTB}]
             /\ AsRead(t)'
             /\ \A d \in Jumps : ~ tbs'[t].linked[d] => branch'[t][d] = NoTB
  <2>1. Unread(t)
    BY <1>0, <1>1, <1>2 DEF BlocksOK
  <2>2. tbs'[t] = Decoded(t) /\ branch'[t] = Settled(t)
    BY <1>0, <1>2
  <2>3. /\ Decoded(t) \in TBType
        /\ AllBranchesIndexed(Decoded(t))
        /\ Decoded(t).insns  = Code(t)
        /\ Decoded(t).rels   = file.rels[t]
        /\ Decoded(t).linked = file.linked[t]
        /\ Decoded(t).target = file.target[t]
    BY <1>0, <2>1, DecodedBlock
  <2>4. tbs[t].linked = file.linked[t]
    BY <2>1 DEF Unread, Constructed
  <2>5. /\ Settled(t) \in [Jumps -> TBs \cup {NoTB}]
        /\ \A d \in Jumps : Settled(t)[d] = IF file.linked[t][d] THEN file.next[t][d] ELSE NoTB
    BY <1>0, <2>4, FileFacts DEF Settled
  <2>6. AsRead(t)'
    BY <1>0, <2>2, <2>3, <2>5 DEF AsRead, Code
  <2> QED
    BY <2>2, <2>3, <2>5, <2>6
<1>3. ASSUME NEW t \in TBs, t \notin new
      PROVE  /\ tbs'[t] = tbs[t] /\ branch'[t] = branch[t]
             /\ tbs'[t] \in TBType
             /\ AllBranchesIndexed(tbs'[t])
             /\ branch'[t] \in [Jumps -> TBs \cup {NoTB}]
             /\ IsDecoded(t)' <=> IsDecoded(t)
  <2>1. tbs'[t] = tbs[t] /\ branch'[t] = branch[t]
    BY <1>0, <1>3
  <2>2. tbs[t] \in TBType /\ branch[t] \in [Jumps -> TBs \cup {NoTB}]
        /\ AllBranchesIndexed(tbs[t])
    BY <1>0 DEF TypeOK, BranchesIndexed
  <2> QED
    BY <1>1, <1>3, <2>1, <2>2
<1> HIDE DEF new
<1>4. TypeOK'
  <2>1. tbs' \in [TBs -> TBType] /\ branch' \in [TBs -> [Jumps -> TBs \cup {NoTB}]]
    <3>1. DOMAIN tbs' = TBs /\ DOMAIN branch' = TBs
          /\ tbs' = [t \in TBs |-> tbs'[t]] /\ branch' = [t \in TBs |-> branch'[t]]
      BY <1>0
    <3>2. \A t \in TBs : tbs'[t] \in TBType /\ branch'[t] \in [Jumps -> TBs \cup {NoTB}]
      BY <1>2, <1>3
    <3> QED
      BY <3>1, <3>2
  <2>2. entries' \in Seq(TBs)
    BY <1>0, InOrderType
  <2>3. WellFormedFile(file)'
    BY <1>0, FileStays
  <2>4. seg' \in Nat /\ stack' \in Seq(FrameType)
    BY <1>0 DEF TypeOK
  <2> QED
    BY <1>0, <2>1, <2>2, <2>3, <2>4 DEF TypeOK
<1>5. BlocksOK'
  <2>1. SUFFICES ASSUME NEW t \in TBs
                 PROVE  /\ ~ IsDecoded(t)' => Unread(t)'
                        /\ IsDecoded(t)' /\ ~ NoSuccessor(t)' => AsRead(t)'
                        /\ \A d \in Jumps : ~ tbs'[t].linked[d] => branch'[t][d] = NoTB
    BY DEF BlocksOK
  <2>2. CASE t \in new
    BY <1>1, <1>2, <2>2
  <2>3. CASE t \notin new
    <3>1. /\ Unread(t)' <=> Unread(t)
          /\ NoSuccessor(t)' <=> NoSuccessor(t)
      BY <1>0, <1>3, <2>3 DEF Unread, Constructed, NoSuccessor
    <3>2. AsRead(t)' <=> AsRead(t)
      BY <1>0, <1>3, <2>3 DEF AsRead, Code
    <3> QED
      BY <1>0, <1>3, <2>3, <3>1, <3>2 DEF BlocksOK
  <2> QED
    BY <2>2, <2>3
<1>6. BranchesIndexed'
  <2>1. \A t \in TBs : AllBranchesIndexed(tbs'[t])
    BY <1>2, <1>3
  <2> QED
    BY <2>1 DEF BranchesIndexed, AllBranchesIndexed, BranchIndexed
<1>7. NeverAborts' /\ WalkOK'
  BY <1>0 DEF NeverAborts, WalkOK, Entered
<1> QED
  BY <1>4, <1>5, <1>6, <1>7 DEF IndInv

(* One block is rewritten; it has no successor afterwards.                 *)
LEMMA UnifyKeeps ==
    ASSUME IndInv, Unify
    PROVE  IndInv'
<1> DEFINE t == Top.tb
           src == TheOnlyOneSuccessor(t)
           start == BranchInsnIndex(t)
           u == Unified(tbs[t], tbs[src], start)
<1>0. /\ TypeOK /\ BlocksOK /\ BranchesIndexed /\ WalkOK /\ step = "unify" /\ stack # <<>>
      /\ CanUnify(t)
      /\ UNCHANGED <<file, seg, parented, entries, parents, finished>>
  BY DEF IndInv, Unify, At
<1>1. t \in TBs
  BY <1>0, StackFacts
<1>2. /\ src \in TBs /\ src # t /\ NoSuccessor(src)
      /\ IsDecoded(t) /\ JumpIsB(t)
      /\ start \in 0..Len(tbs[t].insns) - 1
  BY <1>0, <1>1, UnifyFacts
<1>3. /\ tbs' = [tbs EXCEPT ![t] = u]
      /\ branch' = [branch EXCEPT ![t] = branch[src]]
      /\ stack' = Pop
      /\ step' = step
  BY <1>2 DEF Unify
<1>4. /\ tbs[t] \in TBType /\ AllBranchesIndexed(tbs[t])
      /\ tbs[src] \in TBType
      /\ branch[src] \in [Jumps -> TBs \cup {NoTB}]
      /\ tbs \in [TBs -> TBType]
      /\ branch \in [TBs -> [Jumps -> TBs \cup {NoTB}]]
  BY <1>0, <1>1, <1>2 DEF TypeOK, BranchesIndexed
<1> HIDE DEF t, src, start
<1>5. u \in TBType /\ AllBranchesIndexed(u) /\ u.linked = tbs[src].linked
  <2>1. tbs[t] \in TBType /\ AllBranchesIndexed(tbs[t]) /\ tbs[src] \in TBType
        /\ start \in 0..Len(tbs[t].insns) - 1 /\ u = Unified(tbs[t], tbs[src], start)
    BY <1>2, <1>4
  <2> HIDE DEF u
  <2>2. Replaced(tbs[t], tbs[src], start, u)
    BY <2>1, UnifiedBlock
  <2> QED
    BY <2>2 DEF Replaced
<1> HIDE DEF u
<1>6. /\ tbs'[t] = u /\ branch'[t] = branch[src]
      /\ \A v \in TBs : v # t => tbs'[v] = tbs[v] /\ branch'[v] = branch[v]
      /\ tbs' \in [TBs -> TBType]
      /\ branch' \in [TBs -> [Jumps -> TBs \cup {NoTB}]]
  BY <1>1, <1>3, <1>4, <1>5
<1>7. stack' \in Seq(FrameType) /\ WalkOK'
  BY <1>0, <1>3, PopKeepsWalk
<1>8. TypeOK'
  <2>1. WellFormedFile(file)'
    BY <1>0, FileStays
  <2> QED
    BY <1>0, <1>3, <1>6, <1>7, <2>1 DEF TypeOK
<1>9. BlocksOK'
  <2>1. SUFFICES ASSUME NEW v \in TBs
                 PROVE  /\ ~ IsDecoded(v)' => Unread(v)'
                        /\ IsDecoded(v)' /\ ~ NoSuccessor(v)' => AsRead(v)'
                        /\ \A d \in Jumps : ~ tbs'[v].linked[d] => branch'[v][d] = NoTB
    BY DEF BlocksOK
  <2>2. IsDecoded(v)' <=> IsDecoded(v)
    BY <1>0, <1>3 DEF IsDecoded
  <2>3. CASE v = t
    <3>1. \A d \in Jumps : ~ tbs[src].linked[d] /\ branch[src][d] = NoTB
      BY <1>0, <1>2 DEF BlocksOK, NoSuccessor
    <3>2. NoSuccessor(v)'
      BY <1>5, <1>6, <2>3, <3>1 DEF NoSuccessor
    <3> QED
      BY <1>2, <1>6, <2>2, <2>3, <3>1, <3>2
  <2>4. CASE v # t
    <3>1. /\ Unread(v)' <=> Unread(v)
          /\ NoSuccessor(v)' <=> NoSuccessor(v)
      BY <1>0, <1>6, <2>4 DEF Unread, Constructed, NoSuccessor
    <3>2. AsRead(v)' <=> AsRead(v)
      BY <1>0, <1>6, <2>4 DEF AsRead, Code
    <3> QED
      BY <1>0, <1>6, <2>2, <2>4, <3>1, <3>2 DEF BlocksOK
  <2> QED
    BY <2>3, <2>4
<1>10. BranchesIndexed'
  <2>1. \A v \in TBs : AllBranchesIndexed(tbs'[v])
    BY <1>0, <1>5, <1>6 DEF BranchesIndexed
  <2> QED
    BY <2>1 DEF BranchesIndexed, AllBranchesIndexed, BranchIndexed
<1>11. NeverAborts'
  BY <1>0, <1>3 DEF NeverAborts
<1> QED
  BY <1>7, <1>8, <1>9, <1>10, <1>11 DEF IndInv

(* Every other step of the walk leaves the blocks alone.                   *)
LEMMA WalkKeeps ==
    ASSUME IndInv, UNCHANGED <<file, seg, step, tbs, branch>>,
           entries' \in Seq(TBs), stack' \in Seq(FrameType), WalkOK'
    PROVE  IndInv'
<1>1. TypeOK /\ BlocksOK /\ BranchesIndexed /\ NeverAborts
  BY DEF IndInv
<1>2. \A t \in TBs : IsDecoded(t)' <=> IsDecoded(t)
  BY DEF IsDecoded
<1>3. /\ tbs' \in [TBs -> TBType]
      /\ branch' \in [TBs -> [Jumps -> TBs \cup {NoTB}]]
      /\ BlocksOK' /\ BranchesIndexed'
  BY <1>1, <1>2, BlocksStay
<1>4. TypeOK'
  BY <1>1, <1>3, FileStays DEF TypeOK
<1> QED
  BY <1>1, <1>3, <1>4 DEF IndInv, NeverAborts

LEMMA NextSegmentKeeps ==
    ASSUME IndInv, NextSegment
    PROVE  IndInv'
<1>1. /\ TypeOK /\ BlocksOK /\ BranchesIndexed /\ WalkOK /\ step = "unify"
      /\ UNCHANGED <<file, tbs, branch, parented, entries, stack, parents, finished>>
      /\ \/ step' = "done" /\ seg' = seg
         \/ step' = "prepare" /\ seg' = seg + 1
  BY DEF IndInv, NextSegment
<1>2. \A t \in TBs : IsDecoded(t)' <=> IsDecoded(t)
  BY <1>1, FileFacts DEF IsDecoded, TypeOK
<1>3. /\ tbs' \in [TBs -> TBType]
      /\ branch' \in [TBs -> [Jumps -> TBs \cup {NoTB}]]
      /\ BlocksOK' /\ BranchesIndexed'
  BY <1>1, <1>2, BlocksStay
<1>4. TypeOK'
  <2>1. seg' \in Nat
    BY <1>1 DEF TypeOK
  <2> QED
    BY <1>1, <1>3, <2>1, FileStays DEF TypeOK
<1>5. WalkOK' /\ NeverAborts'
  BY <1>1 DEF WalkOK, Entered, NeverAborts
<1> QED
  BY <1>3, <1>4, <1>5 DEF IndInv

LEMMA StepKeepsIndInv ==
    ASSUME IndInv, [Next]_vars
    PROVE  IndInv'
<1>0. TypeOK /\ WalkOK
  BY DEF IndInv
<1>1. CASE Prepare
  BY <1>1, PrepareKeeps
<1>2. CASE StartEntry
  <2>1. stack' \in Seq(FrameType) /\ entries' \in Seq(TBs) /\ WalkOK'
    BY <1>0, <1>2, StartKeepsWalk
  <2> QED
    BY <1>2, <2>1, WalkKeeps DEF StartEntry
<1>3. CASE AlreadySeen
  <2>1. stack # <<>> /\ stack' = Pop /\ entries' = entries
        /\ UNCHANGED <<file, seg, step, tbs, branch, parents>>
    BY <1>3 DEF AlreadySeen, At
  <2>2. stack' \in Seq(FrameType) /\ WalkOK'
    BY <1>0, <2>1, PopKeepsWalk
  <2>3. entries' \in Seq(TBs)
    BY <1>0, <2>1 DEF TypeOK
  <2> QED
    BY <2>1, <2>2, <2>3, WalkKeeps
<1>4. CASE Unify
  BY <1>4, UnifyKeeps
<1>5. CASE Enter
  <2>1. /\ stack # <<>> /\ entries' = entries
        /\ UNCHANGED <<file, seg, step, tbs, branch>>
        /\ stack' = Append(Pop, [Top EXCEPT !.pc = "false"])
        /\ file.key[Top.tb] \notin parents
        /\ parents' = parents \cup {file.key[Top.tb]}
    BY <1>5 DEF Enter, At, Seen
  <2>2. stack' \in Seq(FrameType) /\ WalkOK'
    <3>1. NoTB \in TBs \cup {NoTB} /\ \A s : Push(NoTB, s) = s
      BY DEF Push
    <3>2. stack' = Push(NoTB, Append(Pop, [Top EXCEPT !.pc = "false"]))
          /\ Resumed(Append(Pop, [Top EXCEPT !.pc = "false"]), "false")
      BY <1>0, <2>1, <3>1, ResumeFacts
    <3> QED
      BY <1>0, <2>1, <3>1, <3>2, ResumeKeepsWalk
  <2>3. entries' \in Seq(TBs)
    BY <1>0, <2>1 DEF TypeOK
  <2> QED
    BY <2>1, <2>2, <2>3, WalkKeeps
<1>6. CASE VisitFalse
  <2>1. /\ stack # <<>> /\ Top.pc = "false" /\ entries' = entries
        /\ UNCHANGED <<file, seg, step, tbs, branch, parents>>
        /\ stack' = Push(branch[Top.tb][0], Append(Pop, [Top EXCEPT !.pc = "true"]))
    BY <1>6 DEF VisitFalse, At
  <2>2. Top.tb \in TBs /\ branch[Top.tb][0] \in TBs \cup {NoTB} /\ Entered(Len(stack))
    <3>1. Top.tb \in TBs
      BY <1>0, <2>1, StackFacts
    <3>2. 0 \in Jumps
      BY DEF Jumps
    <3> QED
      BY <1>0, <2>1, <3>1, <3>2 DEF TypeOK, Entered, Top
  <2>3. Resumed(Append(Pop, [Top EXCEPT !.pc = "true"]), "true")
    BY <1>0, <2>1, ResumeFacts
  <2>4. stack' \in Seq(FrameType) /\ WalkOK'
    BY <1>0, <2>1, <2>2, <2>3, ResumeKeepsWalk
  <2>5. entries' \in Seq(TBs)
    BY <1>0, <2>1 DEF TypeOK
  <2> QED
    BY <2>1, <2>4, <2>5, WalkKeeps
<1>7. CASE VisitTrue
  <2>1. /\ stack # <<>> /\ Top.pc = "true" /\ entries' = entries
        /\ UNCHANGED <<file, seg, step, tbs, branch, parents>>
        /\ stack' = Push(branch[Top.tb][1], Append(Pop, [Top EXCEPT !.pc = "leave"]))
    BY <1>7 DEF VisitTrue, At
  <2>2. Top.tb \in TBs /\ branch[Top.tb][1] \in TBs \cup {NoTB} /\ Entered(Len(stack))
    <3>1. Top.tb \in TBs
      BY <1>0, <2>1, StackFacts
    <3>2. 1 \in Jumps
      BY DEF Jumps
    <3> QED
      BY <1>0, <2>1, <3>1, <3>2 DEF TypeOK, Entered, Top
  <2>3. Resumed(Append(Pop, [Top EXCEPT !.pc = "leave"]), "leave")
    BY <1>0, <2>1, ResumeFacts
  <2>4. stack' \in Seq(FrameType) /\ WalkOK'
    BY <1>0, <2>1, <2>2, <2>3, ResumeKeepsWalk
  <2>5. entries' \in Seq(TBs)
    BY <1>0, <2>1 DEF TypeOK
  <2> QED
    BY <2>1, <2>4, <2>5, WalkKeeps
<1>8. CASE Leave
  <2>1. /\ stack # <<>> /\ Top.pc = "leave" /\ entries' = entries /\ stack' = Pop
        /\ UNCHANGED <<file, seg, step, tbs, branch>>
        /\ parents' = parents \ {file.key[Top.tb]}
    BY <1>8 DEF Leave, At
  <2>2. Entered(Len(stack))
    BY <2>1 DEF Entered, Top
  <2>3. stack' \in Seq(FrameType) /\ WalkOK'
    BY <1>0, <2>1, <2>2, PopKeepsWalk
  <2>4. entries' \in Seq(TBs)
    BY <1>0, <2>1 DEF TypeOK
  <2> QED
    BY <2>1, <2>3, <2>4, WalkKeeps
<1>9. CASE NextSegment
  BY <1>9, NextSegmentKeeps
<1>10. CASE UNCHANGED vars
  <2>1. UNCHANGED <<file, seg, step, tbs, branch, entries, stack, parents>>
    BY <1>10 DEF vars
  <2>2. WalkOK'
    BY <1>0, <2>1 DEF WalkOK, Entered
  <2>3. entries' \in Seq(TBs) /\ stack' \in Seq(FrameType)
    BY <1>0, <2>1 DEF TypeOK
  <2> QED
    BY <2>1, <2>2, <2>3, WalkKeeps
<1> QED
  BY <1>1, <1>2, <1>3, <1>4, <1>5, <1>6, <1>7, <1>8, <1>9, <1>10 DEF Next, Walk

LEMMA InitOK == Init => IndInv
<1> SUFFICES ASSUME Init PROVE IndInv
  OBVIOUS
<1>1. WellFormedFile(file) /\ file \in FileType
  BY FilesAssumption DEF Init, WellFormedFile
<1>2. ASSUME NEW t \in TBs
      PROVE  /\ ~ IsDecoded(t) /\ Unread(t)
             /\ tbs[t] \in TBType
             /\ AllBranchesIndexed(tbs[t])
             /\ branch[t] = [d \in Jumps |-> NoTB]
  <2>1. file.seg[t] \in Nat \ {0} /\ file.linked[t] \in [Jumps -> BOOLEAN]
        /\ file.target[t] \in [Jumps -> Nat]
    BY <1>1 DEF FileType
  <2>2. ~ IsDecoded(t)
    BY <2>1 DEF Init, IsDecoded
  <2>3. tbs[t] = Constructed(t) /\ branch[t] = [d \in Jumps |-> NoTB]
    BY DEF Init
  <2> DEFINE b == Constructed(t)
  <2>4. \A S : <<>> \in Seq(S)
    BY EmptySeq
  <2>5. b.insns = <<>> /\ b.branches = [c \in BranchClasses |-> <<>>]
    BY DEF Constructed
  <2>6. b \in TBType
    BY <2>1, <2>4 DEF Constructed, TBType
  <2>7. AllBranchesIndexed(b)
    <3>1. DOMAIN <<>> = {}
      OBVIOUS
    <3>2. \A c \in BranchClasses : b.branches[c] = <<>>
      BY <2>5
    <3> QED
      BY <2>5, <3>1, <3>2 DEF AllBranchesIndexed, BranchIndexed
  <2> HIDE DEF b
  <2> QED
    BY <2>2, <2>3, <2>6, <2>7 DEF Unread, b
<1>3. TypeOK
  <2>1. tbs \in [TBs -> TBType]
    <3>1. tbs = [t \in TBs |-> tbs[t]]
      BY DEF Init
    <3> QED
      BY <1>2, <3>1
  <2>2. branch \in [TBs -> [Jumps -> TBs \cup {NoTB}]]
    BY DEF Init
  <2>3. entries \in Seq(TBs) /\ stack \in Seq(FrameType)
    BY EmptySeq DEF Init
  <2>4. seg \in Nat /\ step \in {"prepare", "unify", "done", "aborted"}
    BY DEF Init
  <2> QED
    BY <1>1, <2>1, <2>2, <2>3, <2>4 DEF TypeOK
<1>4. BlocksOK /\ BranchesIndexed
  BY <1>2 DEF BlocksOK, BranchesIndexed
<1>5. NeverAborts /\ WalkOK
  BY DEF Init, NeverAborts, WalkOK
<1> QED
  BY <1>3, <1>4, <1>5 DEF IndInv

(* The invariant holds of every state the driver reaches.                  *)
THEOREM Inductive == Spec => []IndInv
<1>1. IndInv /\ [Next]_vars => IndInv'
  BY StepKeepsIndInv
<1> QED
  BY <1>1, InitOK, PTL DEF Spec

(* Whenever a successor is about to be attached, the jump it is to replace *)
(* is in the block and is a B, so the assertion of TU_Vistor.cpp:56-59     *)
(* holds.  (That the assertions of linking hold is                         *)
(* LoadingProofs!LinkingNeverAborts.)                                      *)
THEOREM Safe == Spec => []NeverAborts
<1>1. IndInv => NeverAborts
  BY DEF IndInv
<1> QED
  BY <1>1, Inductive, PTL

(* However many blocks there are and however they are linked, the calls of *)
(* unify_one_successor active at once are at most the blocks and one.      *)
THEOREM Bounded == Spec => []RecursionBounded
<1>1. IndInv => RecursionBounded
  BY WalkIsBounded DEF IndInv
<1> QED
  BY <1>1, Inductive, PTL

(* Every block's branch vectors index its branches, those copied from a    *)
(* successor included.                                                     *)
THEOREM Indexed == Spec => []BranchesIndexed
<1>1. IndInv => BranchesIndexed
  BY DEF IndInv
<1> QED
  BY <1>1, Inductive, PTL

-----------------------------------------------------------------------------
(* What the driver does to a program.                                      *)

Ids(insns) == [k \in DOMAIN insns |-> insns[k].id]

LEMMA IdsFacts ==
    ASSUME NEW insns \in Seq(InsnType)
    PROVE  /\ Ids(insns) \in Seq(Nat)
           /\ Len(Ids(insns)) = Len(insns)
           /\ \A k \in 1..Len(insns) : Ids(insns)[k] = insns[k].id
<1>1. Len(insns) \in Nat /\ DOMAIN insns = 1..Len(insns)
  BY LenProperties
<1>2. \A k \in 1..Len(insns) : insns[k].id \in Nat
  <2>1. \A k \in 1..Len(insns) : insns[k] \in InsnType
    BY ElementOfSeq
  <2> QED
    BY <2>1 DEF InsnType
<1>3. Ids(insns) = [k \in 1..Len(insns) |-> insns[k].id]
  BY <1>1 DEF Ids
<1>4. Ids(insns) \in [1..Len(insns) -> Nat]
  BY <1>2, <1>3
<1>5. Ids(insns) \in Seq(Nat) /\ Len(Ids(insns)) = Len(insns)
  BY <1>1, <1>4, FcnIsSeq
<1> QED
  BY <1>3, <1>5

LEMMA PrefixFacts ==
    ASSUME NEW S, NEW s \in Seq(S), NEW n \in 0..Len(s)
    PROVE  /\ SubSeq(s, 1, n) \in Seq(S)
           /\ Len(SubSeq(s, 1, n)) = n
           /\ \A k \in 1..n : SubSeq(s, 1, n)[k] = s[k]
<1>1. Len(s) \in Nat /\ \A k \in 1..Len(s) : s[k] \in S
  BY LenProperties, ElementOfSeq
<1>2. n \in Int /\ 1 \in Int /\ \A k \in 1..n : s[k] \in S
  BY <1>1
<1>3. /\ SubSeq(s, 1, n) \in Seq(S)
      /\ Len(SubSeq(s, 1, n)) = IF 1 <= n THEN n - 1 + 1 ELSE 0
      /\ \A k \in 1..n - 1 + 1 : SubSeq(s, 1, n)[k] = s[1 + k - 1]
  BY <1>2, SubSeqProperties
<1>4. (IF 1 <= n THEN n - 1 + 1 ELSE 0) = n /\ n - 1 + 1 = n
      /\ \A k \in 1..n : 1 + k - 1 = k
  BY <1>1
<1> QED
  BY <1>3, <1>4

(* A unified block runs the code before its jump, then its successor's.    *)
LEMMA ReplacedIds ==
    ASSUME NEW dst \in TBType, NEW src \in TBType, NEW start \in 0..Len(dst.insns) - 1,
           NEW u, Replaced(dst, src, start, u)
    PROVE  Ids(u.insns) = SubSeq(Ids(dst.insns), 1, start) \o Ids(src.insns)
<1> DEFINE a == SubSeq(Ids(dst.insns), 1, start)
           b == Ids(src.insns)
           c == a \o b
           n == Len(src.insns)
<1>1. /\ dst.insns \in Seq(InsnType) /\ src.insns \in Seq(InsnType) /\ u.insns \in Seq(InsnType)
      /\ n \in Nat /\ Len(dst.insns) \in Nat /\ start \in Nat
      /\ start \in 0..Len(dst.insns)
  BY IndexFacts DEF TBType, InsnType, Replaced
<1>2. /\ a \in Seq(Nat) /\ Len(a) = start
      /\ \A k \in 1..start : a[k] = dst.insns[k].id
  <2>1. /\ Ids(dst.insns) \in Seq(Nat) /\ Len(Ids(dst.insns)) = Len(dst.insns)
        /\ \A k \in 1..Len(dst.insns) : Ids(dst.insns)[k] = dst.insns[k].id
    BY <1>1, IdsFacts
  <2>2. /\ a \in Seq(Nat) /\ Len(a) = start
        /\ \A k \in 1..start : a[k] = Ids(dst.insns)[k]
    BY <1>1, <2>1, PrefixFacts
  <2>3. \A k \in 1..start : k \in 1..Len(dst.insns)
    BY <1>1
  <2> QED
    BY <2>1, <2>2, <2>3
<1>3. b \in Seq(Nat) /\ Len(b) = n /\ \A k \in 1..n : b[k] = src.insns[k].id
  BY <1>1, IdsFacts
<1> HIDE DEF a, b
<1>4. /\ c \in Seq(Nat) /\ Len(c) = start + n
      /\ \A k \in 1..start : c[k] = a[k]
      /\ \A k \in 1..n : c[start + k] = b[k]
  <2>1. a \in Seq(Nat) /\ b \in Seq(Nat) /\ c = a \o b
    BY <1>2, <1>3
  <2> HIDE DEF c, n
  <2>2. /\ c \in Seq(Nat)
        /\ Len(c) = Len(a) + Len(b)
        /\ \A k \in 1..Len(a) : c[k] = a[k]
        /\ \A k \in 1..Len(b) : c[Len(a) + k] = b[k]
    BY <2>1, Concat
  <2> QED
    BY <1>2, <1>3, <2>2
<1>5. /\ Ids(u.insns) \in Seq(Nat) /\ Len(Ids(u.insns)) = start + n
      /\ \A k \in 1..start + n : Ids(u.insns)[k] = u.insns[k].id
  <2>1. Len(u.insns) = start + n
    BY DEF Replaced
  <2> QED
    BY <1>1, <2>1, IdsFacts
<1> HIDE DEF c, n
<1>6. ASSUME NEW k \in 1..start + n
      PROVE  Ids(u.insns)[k] = c[k]
  <2>1. CASE k \in 1..start
    BY <1>2, <1>4, <1>5, <2>1, ZenonT(40) DEF Replaced
  <2>2. CASE k \notin 1..start
    <3>1. k - start \in 1..n /\ start + (k - start) = k
      BY <1>1, <2>2
    <3>2. u.insns[start + (k - start)] = src.insns[k - start]
      BY <3>1 DEF Replaced, n
    <3>3. c[start + (k - start)] = b[k - start] /\ b[k - start] = src.insns[k - start].id
      BY <1>3, <1>4, <3>1
    <3> QED
      BY <1>5, <3>1, <3>2, <3>3
  <2> QED
    BY <2>1, <2>2
<1>7. Ids(u.insns) = c
  BY <1>4, <1>5, <1>6, SeqEqual
<1> QED
  BY <1>7 DEF a, b, c

LEMMA GivenStays ==
    ASSUME file' = file, NEW t \in TBs
    PROVE  GivenBlock(t)' = GivenBlock(t)
BY DEF GivenBlock, FileIds, AsProgram

LEMMA RunningStays ==
    ASSUME NEW t \in TBs, file' = file, tbs'[t] = tbs[t], branch'[t] = branch[t],
           IsDecoded(t)' <=> IsDecoded(t)
    PROVE  RunningBlock(t)' = RunningBlock(t)
<1>1. GivenBlock(t)' = GivenBlock(t)
  BY GivenStays
<1>2. CASE IsDecoded(t)
  BY <1>2 DEF RunningBlock, MemoryIds, AsProgram
<1>3. CASE ~ IsDecoded(t)
  BY <1>1, <1>3 DEF RunningBlock
<1> QED
  BY <1>2, <1>3

LEMMA DecodedRuns ==
    \A t \in TBs :
        /\ IsDecoded(t) => RunningBlock(t) = AsProgram(Ids(tbs[t].insns), tbs[t].linked,
                                                       tbs[t].target, branch[t])
        /\ IsDecoded(t)' => RunningBlock(t)' = AsProgram(Ids(tbs'[t].insns), tbs'[t].linked,
                                                         tbs'[t].target, branch'[t])
BY DEF RunningBlock, MemoryIds, AsProgram, Ids

(* Reading a block into memory does not change how it runs.                *)
LEMMA PrepareStutters ==
    ASSUME IndInv, Prepare, NEW t \in TBs
    PROVE  RunningBlock(t)' = RunningBlock(t)
<1>0. /\ TypeOK /\ BlocksOK /\ step = "prepare" /\ step' = "unify"
      /\ UNCHANGED <<file, seg>>
      /\ branch' = [u \in TBs |-> IF u \in BlocksOf(seg) THEN Settled(u) ELSE branch[u]]
      /\ tbs' = [u \in TBs |-> IF u \in BlocksOf(seg) THEN Decoded(u) ELSE tbs[u]]
  BY DEF IndInv, Prepare
<1>1. CASE file.seg[t] # seg
  <2>1. tbs'[t] = tbs[t] /\ branch'[t] = branch[t]
    BY <1>0, <1>1 DEF BlocksOf
  <2>2. IsDecoded(t)' <=> IsDecoded(t)
    BY <1>0, <1>1 DEF IsDecoded
  <2> QED
    BY <1>0, <2>1, <2>2, RunningStays
<1>2. CASE file.seg[t] = seg
  <2>1. ~ IsDecoded(t) /\ IsDecoded(t)'
    BY <1>0, <1>2 DEF IsDecoded, TypeOK
  <2>2. tbs'[t] = Decoded(t) /\ branch'[t] = Settled(t) /\ Unread(t)
    BY <1>0, <1>2, <2>1 DEF BlocksOf, BlocksOK
  <2>3. /\ tbs'[t].insns = Code(t) /\ tbs'[t].linked = file.linked[t]
        /\ tbs'[t].target = file.target[t]
    BY <1>0, <2>2, DecodedBlock
  <2>4. Ids(Code(t)) = [k \in DOMAIN file.code[t] |-> Id(t, k)]
    <3>1. DOMAIN Code(t) = DOMAIN file.code[t]
          /\ \A k \in DOMAIN file.code[t] : Code(t)[k].id = Id(t, k)
      BY DEF Code
    <3> QED
      BY <3>1 DEF Ids
  <2>5. \A d \in Jumps : file.linked[t][d] => branch'[t][d] = file.next[t][d]
    BY <2>2 DEF Settled, Unread, Constructed
  <2>6. \A ids : AsProgram(ids, file.linked[t], file.target[t], branch'[t])
               = AsProgram(ids, file.linked[t], file.target[t], file.next[t])
    BY <2>5 DEF AsProgram
  <2>7. RunningBlock(t) = GivenBlock(t)
    BY <2>1 DEF RunningBlock
  <2>8. RunningBlock(t)' = AsProgram(Ids(tbs'[t].insns), tbs'[t].linked,
                                     tbs'[t].target, branch'[t])
    BY <2>1, DecodedRuns
  <2> QED
    BY <2>3, <2>4, <2>6, <2>7, <2>8 DEF GivenBlock, FileIds
<1> QED
  BY <1>1, <1>2

LEMMA NoJump ==
    ASSUME NEW ids, NEW linked, NEW target, NEW next, \A d \in Jumps : ~ linked[d]
    PROVE  AsProgram(ids, linked, target, next) = [code |-> ids, jumps |-> {}]
BY DEF AsProgram

(* Unifying a block inlines its only successor.                            *)
LEMMA UnifyInlines ==
    ASSUME IndInv, Unify
    PROVE  Unifier!Next
<1>a. TypeOK /\ stack # <<>>
  BY DEF IndInv, Unify, At
<1>b. PICK t \in TBs : t = Top.tb
  BY <1>a, StackFacts
<1>c. PICK src, start : src = TheOnlyOneSuccessor(t) /\ start = BranchInsnIndex(t)
  OBVIOUS
<1>d. PICK u, code : u = Unified(tbs[t], tbs[src], start) /\ code = Ids(tbs[src].insns)
  OBVIOUS
<1>0. /\ TypeOK /\ BlocksOK /\ BranchesIndexed /\ step = "unify" /\ stack # <<>>
      /\ CanUnify(t)
      /\ UNCHANGED <<file, seg>>
  BY <1>b DEF IndInv, Unify, At
<1>1. t \in TBs
  OBVIOUS
<1>2. PICK d \in Jumps : /\ tbs[t].linked[d] /\ ~ tbs[t].linked[1 - d]
                         /\ src = branch[t][d] /\ src \in TBs /\ src # t
                         /\ NoSuccessor(src)
                         /\ IsDecoded(t) /\ AsRead(t) /\ JumpIsB(t)
                         /\ start = file.target[t][d]
                         /\ start \in 0..Len(tbs[t].insns) - 1
  BY <1>0, <1>1, <1>c, UnifyFacts
<1>3. /\ tbs' = [tbs EXCEPT ![t] = u]
      /\ branch' = [branch EXCEPT ![t] = branch[src]]
      /\ step' = step
  BY <1>2, <1>b, <1>c, <1>d DEF Unify
<1>4. /\ tbs[t] \in TBType /\ AllBranchesIndexed(tbs[t]) /\ tbs[src] \in TBType
      /\ DOMAIN tbs = TBs /\ DOMAIN branch = TBs
  BY <1>0, <1>1, <1>2 DEF TypeOK, BranchesIndexed
<1>5. Replaced(tbs[t], tbs[src], start, u)
  BY <1>2, <1>4, <1>d, UnifiedBlock
<1>6. /\ tbs'[t] = u /\ branch'[t] = branch[src]
      /\ \A v \in TBs : v # t => tbs'[v] = tbs[v] /\ branch'[v] = branch[v]
  BY <1>1, <1>3, <1>4
<1>7. \A v \in TBs : IsDecoded(v)' <=> IsDecoded(v)
  BY <1>0, <1>3 DEF IsDecoded
<1>8. RunningBlock(t) = [code |-> Ids(tbs[t].insns), jumps |-> {[at |-> start, to |-> src]}]
  <2>1. tbs[t].target[d] = start
    BY <1>2 DEF AsRead
  <2>2. RunningBlock(t) = AsProgram(Ids(tbs[t].insns), tbs[t].linked,
                                    tbs[t].target, branch[t])
    BY <1>2, DecodedRuns
  <2>3. AsProgram(Ids(tbs[t].insns), tbs[t].linked, tbs[t].target, branch[t])
          = [code  |-> Ids(tbs[t].insns),
             jumps |-> {[at |-> tbs[t].target[d], to |-> branch[t][d]]}]
    <3>1. d \in Jumps /\ tbs[t].linked[d] /\ \A e \in Jumps : tbs[t].linked[e] => e = d
      BY <1>2 DEF Jumps
    <3> QED
      BY <3>1 DEF AsProgram
  <2> QED
    BY <1>2, <2>1, <2>2, <2>3
<1>9. \A d1 \in Jumps : ~ tbs[src].linked[d1]
  BY <1>2 DEF NoSuccessor
<1>10. RunningBlock(t)' = [code  |-> SubSeq(Ids(tbs[t].insns), 1, start) \o code,
                           jumps |-> {}]
  <2>1. Ids(u.insns) = SubSeq(Ids(tbs[t].insns), 1, start) \o code
    BY <1>2, <1>4, <1>5, <1>d, ReplacedIds, ZenonT(40)
  <2>2. \A d1 \in Jumps : ~ u.linked[d1]
    BY <1>5, <1>9 DEF Replaced
  <2>3. RunningBlock(t)' = AsProgram(Ids(u.insns), u.linked, u.target, branch[src])
    BY <1>1, <1>2, <1>6, <1>7, DecodedRuns
  <2> QED
    BY <2>1, <2>2, <2>3, NoJump
<1>11. /\ RunningBlock(src).jumps = {}
       /\ \/ RunningBlock(src).code = code
          \/ file.seg[src] > file.seg[t] /\ code = <<>>
  <2>1. CASE IsDecoded(src)
    BY <1>2, <1>9, <2>1, <1>d, DecodedRuns, NoJump
  <2>2. CASE ~ IsDecoded(src)
    <3>1. tbs[src] = Constructed(src)
      BY <1>0, <1>2, <2>2 DEF BlocksOK, Unread
    <3>2. tbs[src].linked = file.linked[src] /\ tbs[src].insns = <<>>
      BY <3>1 DEF Constructed
    <3>3. RunningBlock(src).jumps = {}
      BY <1>9, <2>2, <3>2, NoJump DEF RunningBlock, GivenBlock
    <3>4. code = <<>>
      BY <1>d, <3>2 DEF Ids
    <3>5. file.seg[src] \in Nat /\ file.seg[t] \in Nat /\ seg \in Nat
      BY <1>0, <1>1, <1>2, FileFacts DEF TypeOK
    <3>6. file.seg[src] > file.seg[t]
      BY <1>0, <1>2, <2>2, <3>5 DEF IsDecoded
    <3> QED
      BY <3>3, <3>4, <3>6
  <2> QED
    BY <2>1, <2>2
<1>12. UNCHANGED Given
  <2>1. \A v \in TBs : GivenBlock(v)' = GivenBlock(v)
    BY <1>0, GivenStays
  <2> QED
    BY <1>0, <2>1 DEF Given
<1>13. AsItRuns' = [AsItRuns EXCEPT ![t] = [code  |-> SubSeq(@.code, 1, start) \o code,
                                            jumps |-> {}]]
  <2>1. \A v \in TBs : v # t => RunningBlock(v)' = RunningBlock(v)
    BY <1>0, <1>6, <1>7, RunningStays
  <2> DEFINE b == [code |-> SubSeq(Ids(tbs[t].insns), 1, start) \o code, jumps |-> {}]
  <2>2. RunningBlock(t).code = Ids(tbs[t].insns)
    BY <1>8
  <2>3. AsItRuns' = [v \in TBs |-> RunningBlock(v)']
    BY DEF AsItRuns
  <2>4. RunningBlock(t)' = b
    BY <1>10
  <2>5. b = [code |-> SubSeq(AsItRuns[t].code, 1, start) \o code, jumps |-> {}]
    BY <2>2 DEF AsItRuns
  <2> HIDE DEF b
  <2>6. AsItRuns' = [v \in TBs |-> IF v = t THEN b ELSE RunningBlock(v)]
    BY <2>1, <2>3, <2>4
  <2>7. AsItRuns' = [AsItRuns EXCEPT ![t] = b]
    BY <2>6 DEF AsItRuns
  <2> QED
    BY <2>5, <2>7
<1>14. code \in Unifier!CodeTaken(t, src)
  BY <1>2, <1>11 DEF Unifier!CodeTaken, AsItRuns, Given
<1>15. Unifier!Inline(t)
  <2> DEFINE jump == [at |-> start, to |-> src]
  <2>1. AsItRuns[t].jumps = {jump} /\ jump.to = src /\ jump.at = start
    BY <1>1, <1>8 DEF AsItRuns
  <2>2. AsItRuns[src].jumps = {}
    BY <1>2, <1>11 DEF AsItRuns
  <2> HIDE DEF jump
  <2> QED
    BY <1>2, <1>12, <1>13, <1>14, <2>1, <2>2 DEF Unifier!Inline
<1> QED
  BY <1>15 DEF Unifier!Next

LEMMA StepInlines ==
    ASSUME IndInv, [Next]_vars
    PROVE  [Unifier!Next]_(Unifier!vars)
<1>0. TypeOK
  BY DEF IndInv
<1>1. ASSUME UNCHANGED file, \A t \in TBs : RunningBlock(t)' = RunningBlock(t)
      PROVE  UNCHANGED Unifier!vars
  <2>1. \A t \in TBs : GivenBlock(t)' = GivenBlock(t)
    BY <1>1, GivenStays
  <2>2. UNCHANGED Given /\ UNCHANGED AsItRuns
    BY <1>1, <2>1 DEF Given, AsItRuns
  <2> QED
    BY <2>2 DEF Unifier!vars
<1>2. ASSUME UNCHANGED <<file, tbs, branch>>, \A t \in TBs : IsDecoded(t)' <=> IsDecoded(t)
      PROVE  UNCHANGED Unifier!vars
  <2>1. \A t \in TBs : RunningBlock(t)' = RunningBlock(t)
    BY <1>2, RunningStays
  <2> QED
    BY <1>1, <1>2, <2>1
<1>3. CASE Prepare
  <2>1. UNCHANGED file
    BY <1>3 DEF Prepare
  <2> QED
    BY <1>1, <1>3, <2>1, PrepareStutters
<1>4. CASE Unify
  BY <1>4, UnifyInlines
<1>5. CASE UNCHANGED <<file, seg, step, tbs, branch>>
  <2>1. \A t \in TBs : IsDecoded(t)' <=> IsDecoded(t)
    BY <1>5 DEF IsDecoded
  <2> QED
    BY <1>2, <1>5, <2>1
<1>6. CASE NextSegment
  <2>1. /\ UNCHANGED <<file, tbs, branch>> /\ step = "unify"
        /\ \/ step' = "done" /\ seg' = seg
           \/ step' = "prepare" /\ seg' = seg + 1
    BY <1>6 DEF NextSegment
  <2>2. \A t \in TBs : IsDecoded(t)' <=> IsDecoded(t)
    BY <1>0, <2>1, FileFacts DEF IsDecoded, TypeOK
  <2> QED
    BY <1>2, <2>1, <2>2
<1>7. CASE StartEntry \/ AlreadySeen \/ Enter \/ VisitFalse \/ VisitTrue \/ Leave
  BY <1>5, <1>7 DEF StartEntry, AlreadySeen, Enter, VisitFalse, VisitTrue, Leave
<1>8. CASE UNCHANGED vars
  BY <1>5, <1>8 DEF vars
<1> QED
  BY <1>3, <1>4, <1>6, <1>7, <1>8 DEF Next, Walk

(* The driver and its walk implement Inlining: every step leaves all       *)
(* blocks as they run or inlines one successor that has no jump, whatever  *)
(* the walk found (TU_Vistor.cpp:26-103).                                  *)
THEOREM Refines == Spec => OnlyInlines
<1>1. Init => Unifier!Init
  <2> SUFFICES ASSUME Init PROVE AsItRuns = Given.block
    BY DEF Unifier!Init
  <2>2. \A t \in TBs : ~ IsDecoded(t)
    <3>1. file \in FileType
      BY FilesAssumption DEF Init, WellFormedFile
    <3> QED
      BY <3>1 DEF Init, IsDecoded, FileType
  <2>3. \A t \in TBs : RunningBlock(t) = GivenBlock(t)
    BY <2>2 DEF RunningBlock
  <2> QED
    BY <2>3 DEF AsItRuns, Given
<1>2. IndInv /\ [Next]_vars => [Unifier!Next]_(Unifier!vars)
  BY StepInlines
<1> QED
  BY <1>1, <1>2, Inductive, PTL DEF Spec, OnlyInlines, Unifier!Spec

-----------------------------------------------------------------------------
(* Slices of a sequence.                                                   *)

LEMMA SliceFacts ==
    ASSUME NEW S, NEW s \in Seq(S), NEW a \in Nat, NEW n \in Nat, a + n <= Len(s)
    PROVE  /\ SubSeq(s, a + 1, a + n) \in Seq(S)
           /\ Len(SubSeq(s, a + 1, a + n)) = n
           /\ \A i \in 1..n : SubSeq(s, a + 1, a + n)[i] = s[a + i]
<1>1. Len(s) \in Nat /\ \A k \in 1..Len(s) : s[k] \in S
  BY LenProperties, ElementOfSeq
<1>2. a + 1 \in Int /\ a + n \in Int /\ \A k \in a + 1..a + n : s[k] \in S
  BY <1>1
<1>3. /\ SubSeq(s, a + 1, a + n) \in Seq(S)
      /\ Len(SubSeq(s, a + 1, a + n)) =
            IF a + 1 <= a + n THEN (a + n) - (a + 1) + 1 ELSE 0
      /\ \A k \in 1..(a + n) - (a + 1) + 1 :
            SubSeq(s, a + 1, a + n)[k] = s[(a + 1) + k - 1]
  BY <1>2, SubSeqProperties
<1>4. /\ (IF a + 1 <= a + n THEN (a + n) - (a + 1) + 1 ELSE 0) = n
      /\ (a + n) - (a + 1) + 1 = n
      /\ \A k \in 1..n : (a + 1) + k - 1 = a + k
  OBVIOUS
<1> QED
  BY <1>3, <1>4

Slice(s, a, n) == SubSeq(s, a + 1, a + n)

Agree(s, a, t, b, n) == \A i \in 1..n : s[a + i] = t[b + i]

LEMMA SlicesEqual ==
    ASSUME NEW s \in Seq(Nat), NEW t \in Seq(Nat), NEW a \in Nat, NEW b \in Nat,
           NEW n \in Nat, a + n <= Len(s), b + n <= Len(t), Agree(s, a, t, b, n)
    PROVE  Slice(s, a, n) = Slice(t, b, n)
<1> DEFINE v == Slice(s, a, n)
           w == Slice(t, b, n)
<1>1. v \in Seq(Nat) /\ Len(v) = n /\ \A i \in 1..n : v[i] = s[a + i]
  BY SliceFacts, SMTT(30) DEF Slice
<1>2. w \in Seq(Nat) /\ Len(w) = n /\ \A i \in 1..n : w[i] = t[b + i]
  BY SliceFacts, SMTT(30) DEF Slice
<1> HIDE DEF v, w
<1>3. v = w
  BY <1>1, <1>2, SeqEqual DEF Agree
<1> QED
  BY <1>3 DEF v, w

LEMMA PatchedSlice ==
    \A ids, rel : Patched(ids, rel) = [kind |-> rel.kind, ids |-> Slice(ids, rel.off, rel.slots)]
BY DEF Patched, Slice

-----------------------------------------------------------------------------
(* The relocations of a unified block.                                     *)

(* All relocations of a block are valid, inside it and apart.              *)
FreshRels(t) ==
    /\ \A j \in DOMAIN t.rels : t.rels[j].valid /\ t.rels[j].off + t.rels[j].slots <= Len(t.insns)
    /\ RelsApart(t)

(* rels are those of dst, valid in front of start, followed by the valid   *)
(* ones of src moved to start: p says which one of src is where.           *)
Joined(dst, src, start, rels, p) ==
    LET h == Len(dst.rels) IN
    /\ rels \in Seq(RelType)
    /\ h <= Len(rels)
    /\ \A j \in 1..h :
        /\ rels[j].valid <=> dst.rels[j].off + dst.rels[j].slots <= start
        /\ rels[j].kind = dst.rels[j].kind
        /\ rels[j].slots = dst.rels[j].slots
        /\ rels[j].valid => rels[j].off = dst.rels[j].off
    /\ \A j \in h + 1..Len(rels) :
        /\ p[j] \in DOMAIN src.rels
        /\ src.rels[p[j]].valid
        /\ rels[j].valid
        /\ rels[j].kind = src.rels[p[j]].kind
        /\ rels[j].slots = src.rels[p[j]].slots
        /\ rels[j].off = src.rels[p[j]].off + start
    /\ \A j, k \in h + 1..Len(rels) : j < k => p[j] < p[k]
    /\ \A i \in DOMAIN src.rels :
        src.rels[i].valid => \E j \in h + 1..Len(rels) : p[j] = i

LEMMA JoinedRels ==
    ASSUME NEW dst \in TBType, NEW src \in TBType, NEW start \in 0..Len(dst.insns) - 1,
           FreshRels(dst), NEW u, Replaced(dst, src, start, u)
    PROVE  \E p : Joined(dst, src, start, u.rels, p)
<1> DEFINE n == Len(dst.insns)
           head == DeleteRun(dst, start, n - start)
           c == CopiedRels(src.rels, start)
           h == Len(dst.rels)
<1>1. /\ n \in Nat /\ start \in Nat /\ n - start \in Nat /\ start + (n - start) = n
      /\ n - start # 0
  <2>1. n \in Nat
    BY IndexFacts
  <2> HIDE DEF n
  <2> QED
    BY <2>1 DEF n
<1>2. /\ Spared(dst, start, n - start, head)
      /\ head \in TBType /\ DOMAIN head.rels = DOMAIN dst.rels
  <2>1. RelsApart(dst)
    BY DEF FreshRels
  <2>2. Spared(dst, start, n - start, head)
    BY <1>1, <2>1, DeleteRunRels
  <2>3. Without(dst, start, n - start, head)
    BY <1>1, DeleteRunFields
  <2> QED
    BY <2>2, <2>3 DEF Without
<1>3. u.rels = head.rels \o c
  BY DEF Replaced
<1> HIDE DEF head, c, n
<1>4. /\ dst.rels \in Seq(RelType) /\ src.rels \in Seq(RelType) /\ head.rels \in Seq(RelType)
      /\ h \in Nat /\ DOMAIN dst.rels = 1..h /\ Len(head.rels) = h
      /\ DOMAIN src.rels = 1..Len(src.rels)
  BY <1>2, LenProperties DEF TBType
<1>5. PICK p : CopyOf(src.rels, start, Len(src.rels), c, p)
  BY <1>1, <1>4, CopiedRelsFacts DEF c
<1>6. /\ c \in Seq(RelType) /\ Len(c) \in Nat
      /\ u.rels \in Seq(RelType)
      /\ Len(u.rels) = h + Len(c)
      /\ \A j \in 1..h : u.rels[j] = head.rels[j]
      /\ \A k \in 1..Len(c) : u.rels[h + k] = c[k]
  <2>1. c \in Seq(RelType) /\ Len(c) \in Nat
    BY <1>5, LenProperties DEF CopyOf
  <2>2. /\ u.rels \in Seq(RelType)
        /\ Len(u.rels) = Len(head.rels) + Len(c)
        /\ \A j \in 1..Len(head.rels) : u.rels[j] = head.rels[j]
        /\ \A k \in 1..Len(c) : u.rels[Len(head.rels) + k] = c[k]
    <3>1. PICK a : a = head.rels
      OBVIOUS
    <3>2. a \in Seq(RelType) /\ c \in Seq(RelType) /\ u.rels = a \o c
      BY <1>3, <1>4, <2>1, <3>1
    <3>3. /\ u.rels \in Seq(RelType)
          /\ Len(u.rels) = Len(a) + Len(c)
          /\ \A j \in 1..Len(a) : u.rels[j] = a[j]
          /\ \A k \in 1..Len(c) : u.rels[Len(a) + k] = c[k]
      BY <3>2, Concat
    <3> QED
      BY <3>1, <3>3
  <2> QED
    BY <1>4, <2>1, <2>2
<1> DEFINE q == [j \in h + 1..Len(u.rels) |-> p[j - h]]
<1>7. \A j \in h + 1..Len(u.rels) : j - h \in 1..Len(c) /\ h + (j - h) = j
  BY <1>4, <1>6
<1>8. ASSUME NEW j \in 1..h
      PROVE  /\ u.rels[j].valid <=> dst.rels[j].off + dst.rels[j].slots <= start
             /\ u.rels[j].kind = dst.rels[j].kind
             /\ u.rels[j].slots = dst.rels[j].slots
             /\ u.rels[j].valid => u.rels[j].off = dst.rels[j].off
  <2>1. /\ u.rels[j].valid <=> /\ dst.rels[j].valid
                               /\ SparedAt(dst.rels[j].off, dst.rels[j].slots, start, n - start)
        /\ u.rels[j].kind = dst.rels[j].kind
        /\ u.rels[j].slots = dst.rels[j].slots
        /\ u.rels[j].valid => u.rels[j].off = ShiftedBy(dst.rels[j].off, start, n - start)
    BY <1>2, <1>4, <1>6 DEF Spared
  <2>2. /\ dst.rels[j].off \in Nat /\ dst.rels[j].slots \in Nat \ {0}
        /\ dst.rels[j].valid /\ dst.rels[j].off + dst.rels[j].slots <= n
    BY <1>4, RelFacts DEF FreshRels, n
  <2>3. SparedAt(dst.rels[j].off, dst.rels[j].slots, start, n - start)
            <=> dst.rels[j].off + dst.rels[j].slots <= start
    BY <1>1, <2>2 DEF SparedAt
  <2>4. dst.rels[j].off + dst.rels[j].slots <= start
            => ShiftedBy(dst.rels[j].off, start, n - start) = dst.rels[j].off
    BY <1>1, <2>2 DEF ShiftedBy
  <2> QED
    BY <2>1, <2>2, <2>3, <2>4
<1>9. ASSUME NEW j \in h + 1..Len(u.rels)
      PROVE  /\ q[j] = p[j - h]
             /\ q[j] \in DOMAIN src.rels
             /\ src.rels[q[j]].valid
             /\ u.rels[j].valid
             /\ u.rels[j].kind = src.rels[q[j]].kind
             /\ u.rels[j].slots = src.rels[q[j]].slots
             /\ u.rels[j].off = src.rels[q[j]].off + start
  <2> DEFINE k == j - h
  <2>1. k \in 1..Len(c) /\ u.rels[j] = c[k] /\ q[j] = p[k]
    BY <1>6, <1>7
  <2> HIDE DEF k, q
  <2>2. p[k] \in DOMAIN src.rels /\ src.rels[p[k]].valid
        /\ c[k] = [src.rels[p[k]] EXCEPT !.off = @ + start]
    BY <1>4, <1>5, <2>1 DEF CopyOf
  <2>3. src.rels[p[k]] \in RelType
    BY <2>2, RelFacts
  <2> QED
    BY <2>1, <2>2, <2>3 DEF RelType, k
<1>10. \A j, k \in h + 1..Len(u.rels) : j < k => q[j] < q[k]
  <2>1. SUFFICES ASSUME NEW j \in h + 1..Len(u.rels), NEW k \in h + 1..Len(u.rels), j < k
                 PROVE  q[j] < q[k]
    OBVIOUS
  <2>2. j - h < k - h
    BY <1>4, <1>6, <2>1
  <2> QED
    BY <1>5, <1>7, <1>9, <2>2 DEF CopyOf
<1>11. \A i \in DOMAIN src.rels :
        src.rels[i].valid => \E j \in h + 1..Len(u.rels) : q[j] = i
  <2>1. SUFFICES ASSUME NEW i \in DOMAIN src.rels, src.rels[i].valid
                 PROVE  \E j \in h + 1..Len(u.rels) : q[j] = i
    OBVIOUS
  <2>2. PICK k \in 1..Len(c) : p[k] = i
    BY <1>4, <1>5, <2>1 DEF CopyOf
  <2>3. h + k \in h + 1..Len(u.rels) /\ (h + k) - h = k
    BY <1>4, <1>6
  <2>4. q[h + k] = i
    BY <2>2, <2>3
  <2> QED
    BY <2>3, <2>4
<1>12. h <= Len(u.rels)
  BY <1>4, <1>6
<1> HIDE DEF q
<1>13. Joined(dst, src, start, u.rels, q)
  BY <1>6, <1>8, <1>9, <1>10, <1>11, <1>12 DEF Joined
<1> QED
  BY <1>13

InsideOf(t) ==
    \A j \in DOMAIN t.rels :
        t.rels[j].valid => t.rels[j].off + t.rels[j].slots <= Len(t.insns)

LEMMA JoinedFacts ==
    ASSUME NEW dst \in TBType, NEW src \in TBType, NEW start \in 0..Len(dst.insns) - 1,
           NEW u, Replaced(dst, src, start, u), NEW p, Joined(dst, src, start, u.rels, p)
    PROVE  LET h == Len(dst.rels)
               m == Len(u.rels)
           IN  /\ h \in Nat /\ m \in Nat /\ DOMAIN dst.rels = 1..h /\ DOMAIN u.rels = 1..m
               /\ \A j \in 1..m : j \in 1..h \/ j \in h + 1..m
               /\ \A j \in 1..h : j \in 1..m
               /\ \A j \in h + 1..m : j \in 1..m
<1> DEFINE h == Len(dst.rels)
           m == Len(u.rels)
<1>1. dst.rels \in Seq(RelType) /\ u.rels \in Seq(RelType) /\ h <= m
  BY DEF TBType, Joined
<1>2. h \in Nat /\ m \in Nat /\ DOMAIN dst.rels = 1..h /\ DOMAIN u.rels = 1..m
  BY <1>1, LenProperties
<1> HIDE DEF h, m
<1>3. /\ \A j \in 1..m : j \in 1..h \/ j \in h + 1..m
      /\ \A j \in 1..h : j \in 1..m
      /\ \A j \in h + 1..m : j \in 1..m
  BY <1>1, <1>2
<1> QED
  BY <1>2, <1>3 DEF h, m

LEMMA JoinedInside ==
    ASSUME NEW dst \in TBType, NEW src \in TBType, NEW start \in 0..Len(dst.insns) - 1,
           NEW u, Replaced(dst, src, start, u), NEW p, Joined(dst, src, start, u.rels, p),
           InsideOf(src)
    PROVE  InsideOf(u)
<1> DEFINE h == Len(dst.rels)
           m == Len(u.rels)
           n == Len(src.insns)
<1>1. /\ DOMAIN u.rels = 1..m /\ DOMAIN dst.rels = 1..h
      /\ \A j \in 1..m : j \in 1..h \/ j \in h + 1..m
  BY JoinedFacts
<1>2. /\ start \in Nat /\ n \in Nat /\ Len(u.insns) = start + n
  BY IndexFacts DEF Replaced
<1>3. SUFFICES ASSUME NEW j \in 1..m, u.rels[j].valid
               PROVE  u.rels[j].off + u.rels[j].slots <= start + n
  BY <1>1, <1>2 DEF InsideOf
<1>4. CASE j \in 1..h
  <2>1. /\ dst.rels[j].off + dst.rels[j].slots <= start
        /\ u.rels[j].off = dst.rels[j].off /\ u.rels[j].slots = dst.rels[j].slots
    BY <1>3, <1>4 DEF Joined
  <2>2. dst.rels[j].off \in Nat /\ dst.rels[j].slots \in Nat
    BY <1>1, <1>4, RelFacts
  <2> HIDE DEF n
  <2> QED
    BY <1>2, <2>1, <2>2
<1>5. CASE j \in h + 1..m
  <2>1. /\ p[j] \in DOMAIN src.rels /\ src.rels[p[j]].valid
        /\ u.rels[j].off = src.rels[p[j]].off + start
        /\ u.rels[j].slots = src.rels[p[j]].slots
    BY <1>5 DEF Joined
  <2>2. src.rels[p[j]].off \in Nat /\ src.rels[p[j]].slots \in Nat
    BY <2>1, RelFacts
  <2>3. src.rels[p[j]].off + src.rels[p[j]].slots <= n
    BY <2>1 DEF InsideOf
  <2> HIDE DEF n
  <2> QED
    BY <1>2, <2>1, <2>2, <2>3, SMTT(30)
<1> QED
  BY <1>1, <1>3, <1>4, <1>5

LEMMA JoinedInOrder ==
    ASSUME NEW dst \in TBType, NEW src \in TBType, NEW start \in 0..Len(dst.insns) - 1,
           NEW u, Replaced(dst, src, start, u), NEW p, Joined(dst, src, start, u.rels, p),
           FreshRels(dst), InOrderOfCode(dst.rels), InOrderOfCode(src.rels)
    PROVE  InOrderOfCode(u.rels)
<1> DEFINE h == Len(dst.rels)
           m == Len(u.rels)
<1>1. /\ DOMAIN u.rels = 1..m /\ DOMAIN dst.rels = 1..h /\ h \in Nat /\ m \in Nat
      /\ \A j \in 1..m : j \in 1..h \/ j \in h + 1..m
  BY JoinedFacts
<1>2. start \in Nat
  BY IndexFacts
<1>3. ASSUME NEW j \in 1..h, u.rels[j].valid
      PROVE  /\ dst.rels[j].valid /\ dst.rels[j].off + dst.rels[j].slots <= start
             /\ u.rels[j].off = dst.rels[j].off /\ u.rels[j].slots = dst.rels[j].slots
  BY <1>1, <1>3 DEF Joined, FreshRels
<1>4. ASSUME NEW j \in h + 1..m
      PROVE  /\ p[j] \in DOMAIN src.rels /\ src.rels[p[j]].valid
             /\ u.rels[j].off = src.rels[p[j]].off + start
             /\ u.rels[j].slots = src.rels[p[j]].slots
             /\ src.rels[p[j]].off \in Nat /\ src.rels[p[j]].slots \in Nat
  <2>1. /\ p[j] \in DOMAIN src.rels /\ src.rels[p[j]].valid
        /\ u.rels[j].off = src.rels[p[j]].off + start
        /\ u.rels[j].slots = src.rels[p[j]].slots
    BY DEF Joined
  <2> QED
    BY <2>1, RelFacts
<1>5. SUFFICES ASSUME NEW j \in 1..m, NEW k \in 1..m, j < k, u.rels[j].valid, u.rels[k].valid
               PROVE  u.rels[j].off + u.rels[j].slots <= u.rels[k].off
  BY <1>1 DEF InOrderOfCode
<1>6. CASE j \in 1..h /\ k \in 1..h
  BY <1>1, <1>3, <1>5, <1>6 DEF InOrderOfCode
<1>7. CASE j \in 1..h /\ k \in h + 1..m
  <2>1. /\ dst.rels[j].off + dst.rels[j].slots <= start
        /\ u.rels[j].off = dst.rels[j].off /\ u.rels[j].slots = dst.rels[j].slots
    BY <1>3, <1>5, <1>7
  <2>2. dst.rels[j].off \in Nat /\ dst.rels[j].slots \in Nat
    BY <1>1, <1>7, RelFacts
  <2>3. u.rels[k].off = src.rels[p[k]].off + start /\ src.rels[p[k]].off \in Nat
    BY <1>4, <1>7
  <2>4. \A a, b, c \in Nat : a + b <= start => a + b <= c + start
    BY <1>2
  <2> QED
    BY <2>1, <2>2, <2>3, <2>4
<1>8. CASE j \in h + 1..m /\ k \in h + 1..m
  <2>1. p[j] < p[k]
    BY <1>5, <1>8 DEF Joined
  <2>2. src.rels[p[j]].off + src.rels[p[j]].slots <= src.rels[p[k]].off
    BY <1>4, <1>8, <2>1 DEF InOrderOfCode
  <2>3. /\ u.rels[j].off = src.rels[p[j]].off + start
        /\ u.rels[j].slots = src.rels[p[j]].slots
        /\ u.rels[k].off = src.rels[p[k]].off + start
        /\ src.rels[p[j]].off \in Nat /\ src.rels[p[j]].slots \in Nat
        /\ src.rels[p[k]].off \in Nat
    BY <1>4, <1>8
  <2>4. \A a, b, c, s \in Nat : a + b <= c => (a + s) + b <= c + s
    OBVIOUS
  <2> QED
    BY <1>2, <2>2, <2>3, <2>4
<1>9. ~ (j \in h + 1..m /\ k \in 1..h)
  <2> HIDE DEF h, m
  <2> QED
    BY <1>1, <1>5
<1> QED
  BY <1>1, <1>6, <1>7, <1>8, <1>9

(* What a unified block has patched is what dst has in front of the jump   *)
(* and what src has.                                                       *)
PatchedAsBefore(dst, src, start, u) ==
    PatchedBy(Ids(u.insns), u.rels)
      = {Patched(Ids(dst.insns), dst.rels[j]) :
             j \in {k \in DOMAIN dst.rels : dst.rels[k].off + dst.rels[k].slots <= start}}
        \cup PatchedBy(Ids(src.insns), src.rels)

LEMMA JoinedPatched ==
    ASSUME NEW dst \in TBType, NEW src \in TBType, NEW start \in 0..Len(dst.insns) - 1,
           NEW u, Replaced(dst, src, start, u), NEW p, Joined(dst, src, start, u.rels, p),
           InsideOf(src)
    PROVE  PatchedAsBefore(dst, src, start, u)
<1> DEFINE h == Len(dst.rels)
           m == Len(u.rels)
           n == Len(src.insns)
           du == Ids(u.insns)
           dd == Ids(dst.insns)
           ds == Ids(src.insns)
           front == {k \in DOMAIN dst.rels : dst.rels[k].off + dst.rels[k].slots <= start}
<1>1. /\ DOMAIN u.rels = 1..m /\ DOMAIN dst.rels = 1..h /\ h \in Nat /\ m \in Nat
      /\ \A j \in 1..m : j \in 1..h \/ j \in h + 1..m
      /\ \A j \in 1..h : j \in 1..m
      /\ \A j \in h + 1..m : j \in 1..m
  BY JoinedFacts
<1>2. /\ dst.insns \in Seq(InsnType) /\ src.insns \in Seq(InsnType) /\ u.insns \in Seq(InsnType)
      /\ n \in Nat /\ start \in Nat /\ Len(dst.insns) \in Nat /\ start <= Len(dst.insns)
      /\ Len(u.insns) = start + n
  <2>1. u \in TBType /\ Len(u.insns) = start + n
    BY DEF Replaced
  <2>2. n \in Nat /\ Len(dst.insns) \in Nat
    BY IndexFacts
  <2>3. dst.insns \in Seq(InsnType) /\ src.insns \in Seq(InsnType) /\ u.insns \in Seq(InsnType)
    BY <2>1 DEF TBType, InsnType
  <2> HIDE DEF n
  <2> QED
    BY <2>1, <2>2, <2>3
<1>3. /\ du \in Seq(Nat) /\ Len(du) = start + n
      /\ dd \in Seq(Nat) /\ Len(dd) = Len(dst.insns)
      /\ ds \in Seq(Nat) /\ Len(ds) = n
  BY <1>2, IdsFacts
<1>4. (\A k \in 1..start : du[k] = dd[k]) /\ (\A k \in 1..n : du[start + k] = ds[k])
  <2>1. /\ \A k \in 1..start + n : du[k] = u.insns[k].id
        /\ \A k \in 1..Len(dst.insns) : dd[k] = dst.insns[k].id
        /\ \A k \in 1..n : ds[k] = src.insns[k].id
    BY <1>2, IdsFacts
  <2>2. (\A k \in 1..start : k \in 1..start + n /\ k \in 1..Len(dst.insns))
        /\ (\A k \in 1..n : start + k \in 1..start + n)
    <3> HIDE DEF n
    <3> QED
      BY <1>2
  <2>3. /\ \A k \in 1..start : u.insns[k] = dst.insns[k]
        /\ \A k \in 1..n : u.insns[start + k] = src.insns[k]
    BY DEF Replaced
  <2> HIDE DEF n, du, dd, ds
  <2> QED
    BY <2>1, <2>2, <2>3
<1> HIDE DEF n, du, dd, ds, h, m
<1>5. ASSUME NEW j \in 1..h
      PROVE  /\ u.rels[j].valid <=> j \in front
             /\ u.rels[j].valid => Patched(du, u.rels[j]) = Patched(dd, dst.rels[j])
  <2>1. /\ u.rels[j].valid <=> dst.rels[j].off + dst.rels[j].slots <= start
        /\ u.rels[j].kind = dst.rels[j].kind
        /\ u.rels[j].slots = dst.rels[j].slots
        /\ u.rels[j].valid => u.rels[j].off = dst.rels[j].off
    BY DEF Joined, h
  <2>2. SUFFICES ASSUME u.rels[j].valid
                 PROVE  Slice(du, dst.rels[j].off, dst.rels[j].slots)
                      = Slice(dd, dst.rels[j].off, dst.rels[j].slots)
    BY <1>1, <2>1, PatchedSlice
  <2> DEFINE a == dst.rels[j].off
             l == dst.rels[j].slots
  <2>3. a \in Nat /\ l \in Nat /\ a + l <= start
    BY <1>1, <2>1, <2>2, RelFacts
  <2> HIDE DEF a, l
  <2>4. /\ a + l <= Len(du) /\ a + l <= Len(dd)
        /\ \A i \in 1..l : a + i \in 1..start
    BY <1>2, <1>3, <2>3
  <2>5. Agree(du, a, dd, a, l)
    BY <1>4, <2>4 DEF Agree
  <2>6. a + l <= Len(du) /\ a + l <= Len(dd)
    BY <2>4
  <2>7. du \in Seq(Nat) /\ dd \in Seq(Nat)
    BY <1>3
  <2>8. a \in Nat /\ l \in Nat
    BY <2>3
  <2>9. Slice(du, a, l) = Slice(dd, a, l)
    BY <2>5, <2>6, <2>7, <2>8, SlicesEqual
  <2> QED
    BY <2>9 DEF a, l
<1>6. ASSUME NEW j \in h + 1..m
      PROVE  /\ u.rels[j].valid
             /\ p[j] \in DOMAIN src.rels /\ src.rels[p[j]].valid
             /\ Patched(du, u.rels[j]) = Patched(ds, src.rels[p[j]])
  <2>1. /\ p[j] \in DOMAIN src.rels /\ src.rels[p[j]].valid
        /\ u.rels[j].valid
        /\ u.rels[j].kind = src.rels[p[j]].kind
        /\ u.rels[j].slots = src.rels[p[j]].slots
        /\ u.rels[j].off = src.rels[p[j]].off + start
    BY DEF Joined, h, m
  <2> DEFINE b == src.rels[p[j]].off
             l == src.rels[p[j]].slots
             a == b + start
  <2>2. b \in Nat /\ l \in Nat /\ b + l <= n
    BY <2>1, RelFacts DEF InsideOf, n
  <2> HIDE DEF b, l
  <2>3. /\ a \in Nat /\ a + l <= Len(du) /\ b + l <= Len(ds)
        /\ \A i \in 1..l : b + i \in 1..n /\ a + i = start + (b + i)
    BY <1>2, <1>3, <2>2
  <2> HIDE DEF a
  <2>4. Agree(du, a, ds, b, l)
    BY <1>4, <2>3 DEF Agree
  <2>5. Slice(du, a, l) = Slice(ds, b, l)
    BY <1>3, <2>2, <2>3, <2>4, SlicesEqual
  <2> QED
    BY <2>1, <2>5, PatchedSlice DEF a, b, l
<1>7. ASSUME NEW j \in 1..m, u.rels[j].valid
      PROVE  \/ \E i \in front : Patched(du, u.rels[j]) = Patched(dd, dst.rels[i])
             \/ \E i \in DOMAIN src.rels :
                    src.rels[i].valid /\ Patched(du, u.rels[j]) = Patched(ds, src.rels[i])
  BY <1>1, <1>5, <1>6, <1>7
<1>8. ASSUME NEW i \in front
      PROVE  \E j \in 1..m : u.rels[j].valid /\ Patched(du, u.rels[j]) = Patched(dd, dst.rels[i])
  BY <1>1, <1>5
<1>9. ASSUME NEW i \in DOMAIN src.rels, src.rels[i].valid
      PROVE  \E j \in 1..m : u.rels[j].valid /\ Patched(du, u.rels[j]) = Patched(ds, src.rels[i])
  <2>1. PICK j \in h + 1..m : p[j] = i
    BY <1>9 DEF Joined, h, m
  <2> QED
    BY <1>1, <1>6, <2>1
<1> HIDE DEF front
<1>10. PatchedBy(du, u.rels) = {Patched(dd, dst.rels[j]) : j \in front} \cup PatchedBy(ds, src.rels)
  <2>1. ASSUME NEW x \in PatchedBy(du, u.rels)
        PROVE  x \in {Patched(dd, dst.rels[j]) : j \in front} \cup PatchedBy(ds, src.rels)
    BY <1>1, <1>7 DEF PatchedBy
  <2>2. ASSUME NEW i \in front
        PROVE  Patched(dd, dst.rels[i]) \in PatchedBy(du, u.rels)
    BY <1>1, <1>8 DEF PatchedBy
  <2>3. ASSUME NEW x \in PatchedBy(ds, src.rels)
        PROVE  x \in PatchedBy(du, u.rels)
    BY <1>1, <1>9 DEF PatchedBy
  <2> QED
    BY <2>1, <2>2, <2>3
<1> QED
  BY <1>10 DEF du, dd, ds, front, PatchedAsBefore

-----------------------------------------------------------------------------
(* The instructions of the file, and what its relocations patch.           *)

(* No two instructions of the file have the same identity.                 *)
LEMMA IdApart ==
    ASSUME NEW t \in TBs, NEW v \in TBs, NEW k \in Nat \ {0}, NEW m \in Nat \ {0},
           Id(t, k) = Id(v, m)
    PROVE  t = v /\ k = m
<1> DEFINE N == NumTBs
           a == k - 1
           b == m - 1
<1>1. N \in Nat \ {0} /\ a \in Nat /\ b \in Nat /\ t \in 1..N /\ v \in 1..N
  BY TBsFacts DEF TBs
<1>2. a * N + t = b * N + v
  BY DEF Id
<1>3. k = a + 1 /\ m = b + 1
  OBVIOUS
<1> HIDE DEF N, a, b
<1>4. ASSUME NEW x \in Nat, NEW y \in Nat, x > y,
             NEW p \in 1..N, NEW q \in 1..N, x * N + p = y * N + q
      PROVE  FALSE
  <2>1. PICK c \in Nat : x = y + 1 + c
    <3>1. x - y - 1 \in Nat /\ x = y + 1 + (x - y - 1)
      BY <1>4
    <3> QED
      BY <3>1
  <2>2. \A i, j, l \in Nat : (i + 1 + j) * l = i * l + l + j * l
    OBVIOUS
  <2>3. x * N = y * N + N + c * N
    BY <1>1, <2>1, <2>2
  <2>4. \A i, j \in Nat : i * j \in Nat
    OBVIOUS
  <2>5. c * N \in Nat /\ y * N \in Nat
    BY <1>1, <2>4
  <2> QED
    BY <1>1, <1>4, <2>3, <2>5
<1>5. ~ (a > b)
  BY <1>1, <1>2, <1>4
<1>6. ~ (b > a)
  BY <1>1, <1>2, <1>4
<1>7. a = b
  BY <1>1, <1>5, <1>6
<1>8. a * N \in Nat
  <2>1. \A i, j \in Nat : i * j \in Nat
    OBVIOUS
  <2> QED
    BY <1>1, <2>1
<1>9. t = v
  BY <1>1, <1>2, <1>7, <1>8
<1> QED
  BY <1>3, <1>7, <1>9

LEMMA FileIdsFacts ==
    ASSUME TypeOK, NEW t \in TBs
    PROVE  /\ FileIds(t) \in Seq(Nat)
           /\ Len(FileIds(t)) = Len(file.code[t])
           /\ \A k \in 1..Len(file.code[t]) : FileIds(t)[k] = Id(t, k)
           /\ Ids(Code(t)) = FileIds(t)
<1>1. DOMAIN file.code[t] = 1..Len(file.code[t])
  BY FileFacts
<1>2. Ids(Code(t)) = FileIds(t)
  <2>1. DOMAIN Code(t) = DOMAIN file.code[t]
        /\ \A k \in DOMAIN file.code[t] : Code(t)[k].id = Id(t, k)
    BY DEF Code
  <2> QED
    BY <2>1 DEF Ids, FileIds
<1>3. Code(t) \in Seq(InsnType) /\ Len(Code(t)) = Len(file.code[t])
  BY CodeFacts
<1>4. Ids(Code(t)) \in Seq(Nat) /\ Len(Ids(Code(t))) = Len(file.code[t])
  BY <1>3, IdsFacts
<1> QED
  BY <1>1, <1>2, <1>4 DEF FileIds

LEMMA FileRelFacts ==
    ASSUME TypeOK, NEW t \in TBs, NEW j \in DOMAIN file.rels[t]
    PROVE  /\ file.rels[t][j].valid
           /\ file.rels[t][j].off \in Nat
           /\ file.rels[t][j].slots \in Nat \ {0}
           /\ file.rels[t][j].off + file.rels[t][j].slots <= Len(file.code[t])
           /\ \A k \in DOMAIN file.rels[t] : j = k \/ Disjoint(file.rels[t][j], file.rels[t][k])
<1>1. file.rels[t] \in Seq(RelType)
  BY FileFacts
<1>2. file.rels[t][j] \in RelType
  BY <1>1, LenProperties, ElementOfSeq
<1> QED
  BY <1>2, EntryTypes DEF TypeOK, WellFormedFile

LEMMA EmittedFacts ==
    ASSUME TypeOK
    PROVE  /\ \A p : p \in Emitted <=> \E t \in TBs : \E j \in DOMAIN file.rels[t] :
                                        p = Patched(FileIds(t), file.rels[t][j])
           /\ \A t \in TBs : \A j \in DOMAIN file.rels[t] :
                Range(Patched(FileIds(t), file.rels[t][j]).ids)
                    = {Id(t, file.rels[t][j].off + i) : i \in 1..file.rels[t][j].slots}
<1>1. \A t \in TBs : FileView[t].ids = FileIds(t)
  BY DEF FileView, InFile, Running
<1>2. ASSUME NEW t \in TBs, NEW j \in DOMAIN file.rels[t]
      PROVE  Range(Patched(FileIds(t), file.rels[t][j]).ids)
                = {Id(t, file.rels[t][j].off + i) : i \in 1..file.rels[t][j].slots}
  <2> DEFINE a == file.rels[t][j].off
             l == file.rels[t][j].slots
             s == Slice(FileIds(t), a, l)
  <2>1. a \in Nat /\ l \in Nat /\ a + l <= Len(file.code[t]) /\ Len(file.code[t]) \in Nat
    BY FileRelFacts, FileFacts
  <2>2. Patched(FileIds(t), file.rels[t][j]).ids = s
    BY PatchedSlice
  <2> HIDE DEF a, l, s
  <2>3. s \in Seq(Nat) /\ Len(s) = l /\ \A i \in 1..l : s[i] = FileIds(t)[a + i]
    BY <2>1, FileIdsFacts, SliceFacts DEF s, Slice
  <2>4. \A i \in 1..l : a + i \in 1..Len(file.code[t])
    BY <2>1
  <2>5. \A i \in 1..l : s[i] = Id(t, a + i)
    BY <2>3, <2>4, FileIdsFacts
  <2>6. Range(s) = {s[i] : i \in 1..l}
    BY <2>3, RangeEquality
  <2>7. Range(s) = {Id(t, a + i) : i \in 1..l}
    BY <2>5, <2>6
  <2> QED
    BY <2>2, <2>7 DEF a, l
<1>3. Emitted = UNION {{Patched(FileIds(t), file.rels[t][j]) : j \in DOMAIN file.rels[t]} : t \in TBs}
  BY <1>1 DEF Emitted
<1>4. \A p : p \in Emitted <=> \E t \in TBs : \E j \in DOMAIN file.rels[t] :
                                    p = Patched(FileIds(t), file.rels[t][j])
  BY <1>3
<1> QED
  BY <1>2, <1>4

Covered(b) ==
    PatchedBy(Ids(b.insns), b.rels)
        = {p \in Emitted : Range(p.ids) \subseteq Range(Ids(b.insns))}

LEMMA CoveredEmpty ==
    ASSUME TypeOK, NEW b, b.insns = <<>>, b.rels = <<>>
    PROVE  Covered(b) /\ InsideOf(b) /\ InOrderOfCode(b.rels)
<1>1. DOMAIN b.insns = {} /\ DOMAIN b.rels = {}
  OBVIOUS
<1>2. Range(Ids(b.insns)) = {}
  BY <1>1 DEF Ids, Range
<1>3. PatchedBy(Ids(b.insns), b.rels) = {}
  BY <1>1 DEF PatchedBy
<1>4. ASSUME NEW p \in Emitted, Range(p.ids) = {}
      PROVE  FALSE
  <2>0. PICK t \in TBs : \E j \in DOMAIN file.rels[t] : p = Patched(FileIds(t), file.rels[t][j])
    BY EmittedFacts
  <2>1. PICK j \in DOMAIN file.rels[t] : p = Patched(FileIds(t), file.rels[t][j])
    BY <2>0
  <2>2. Range(p.ids) = {Id(t, file.rels[t][j].off + i) : i \in 1..file.rels[t][j].slots}
    BY <2>1, EmittedFacts
  <2>3. 1 \in 1..file.rels[t][j].slots
    BY FileRelFacts
  <2> QED
    BY <1>4, <2>2, <2>3
<1>5. Covered(b)
  BY <1>2, <1>3, <1>4 DEF Covered
<1> QED
  BY <1>1, <1>5 DEF InsideOf, InOrderOfCode

(* A block as it was decoded has what the file has for it.                 *)
LEMMA CoveredDecoded ==
    ASSUME TypeOK, NEW t \in TBs, NEW b, b.insns = Code(t), b.rels = file.rels[t]
    PROVE  Covered(b) /\ InsideOf(b) /\ FreshRels(b)
<1>1. /\ Ids(b.insns) = FileIds(t)
      /\ Len(b.insns) = Len(file.code[t])
      /\ Len(file.code[t]) \in Nat
  BY FileIdsFacts, CodeFacts, FileFacts
<1>2. PatchedBy(FileIds(t), file.rels[t])
        = {Patched(FileIds(t), file.rels[t][j]) : j \in DOMAIN file.rels[t]}
  BY FileRelFacts DEF PatchedBy
<1>3. Range(FileIds(t)) = {Id(t, k) : k \in 1..Len(file.code[t])}
  <2>1. Range(FileIds(t)) = {FileIds(t)[k] : k \in 1..Len(file.code[t])}
    BY FileIdsFacts, RangeEquality
  <2> QED
    BY <2>1, FileIdsFacts
<1>4. ASSUME NEW j \in DOMAIN file.rels[t]
      PROVE  /\ Patched(FileIds(t), file.rels[t][j]) \in Emitted
             /\ Range(Patched(FileIds(t), file.rels[t][j]).ids) \subseteq Range(FileIds(t))
  <2>1. /\ file.rels[t][j].off \in Nat /\ file.rels[t][j].slots \in Nat
        /\ file.rels[t][j].off + file.rels[t][j].slots <= Len(file.code[t])
    BY FileRelFacts
  <2>2. \A i \in 1..file.rels[t][j].slots : file.rels[t][j].off + i \in 1..Len(file.code[t])
    <3>1. \A x, l, n \in Nat : x + l <= n => \A i \in 1..l : x + i \in 1..n
      OBVIOUS
    <3> QED
      BY <1>1, <2>1, <3>1
  <2>3. Patched(FileIds(t), file.rels[t][j]) \in Emitted
    BY EmittedFacts
  <2>4. Range(Patched(FileIds(t), file.rels[t][j]).ids)
            = {Id(t, file.rels[t][j].off + i) : i \in 1..file.rels[t][j].slots}
    BY EmittedFacts
  <2>5. \A i \in 1..file.rels[t][j].slots :
            Id(t, file.rels[t][j].off + i) \in Range(FileIds(t))
    BY <1>3, <2>2
  <2> QED
    BY <2>3, <2>4, <2>5
<1>5. ASSUME NEW p \in Emitted, Range(p.ids) \subseteq Range(FileIds(t))
      PROVE  \E j \in DOMAIN file.rels[t] : p = Patched(FileIds(t), file.rels[t][j])
  <2>0. PICK v \in TBs : \E j \in DOMAIN file.rels[v] : p = Patched(FileIds(v), file.rels[v][j])
    BY EmittedFacts
  <2>1. PICK j \in DOMAIN file.rels[v] : p = Patched(FileIds(v), file.rels[v][j])
    BY <2>0
  <2>2. Range(p.ids) = {Id(v, file.rels[v][j].off + i) : i \in 1..file.rels[v][j].slots}
    BY <2>1, EmittedFacts
  <2>3. 1 \in 1..file.rels[v][j].slots /\ file.rels[v][j].off + 1 \in Nat \ {0}
    BY FileRelFacts
  <2>4. PICK k \in 1..Len(file.code[t]) : Id(v, file.rels[v][j].off + 1) = Id(t, k)
    BY <1>3, <1>5, <2>2, <2>3
  <2>5. v = t
    BY <2>3, <2>4, IdApart
  <2> QED
    BY <2>1, <2>5
<1>6. Covered(b)
  BY <1>1, <1>2, <1>4, <1>5 DEF Covered
<1>7. InsideOf(b) /\ FreshRels(b)
  BY <1>1, FileRelFacts DEF InsideOf, FreshRels, RelsApart
<1> QED
  BY <1>6, <1>7

(* A block that has no instruction the file has in t.                      *)
Foreign(b, t) ==
    \A k \in DOMAIN b.insns : \A m \in DOMAIN file.code[t] : b.insns[k].id # Id(t, m)

(* The instructions of a unified block: t's up to its jump, and src's.     *)
LEMMA UnifiedIds ==
    ASSUME TypeOK, NEW t \in TBs, NEW dst \in TBType, dst.insns = Code(t),
           NEW src \in TBType, Foreign(src, t), NEW start \in 0..Len(dst.insns) - 1,
           NEW u, Replaced(dst, src, start, u)
    PROVE  /\ Range(Ids(u.insns)) = {Id(t, k) : k \in 1..start} \cup Range(Ids(src.insns))
           /\ \A m \in 1..Len(file.code[t]) : Id(t, m) \notin Range(Ids(src.insns))
           /\ start \in Nat /\ start <= Len(file.code[t])
<1> DEFINE D == FileIds(t)
           S == Ids(src.insns)
           n == Len(file.code[t])
<1>1. /\ Ids(dst.insns) = D /\ D \in Seq(Nat) /\ Len(D) = n
      /\ \A k \in 1..n : D[k] = Id(t, k)
      /\ Len(dst.insns) = n /\ n \in Nat /\ DOMAIN file.code[t] = 1..n
  BY FileIdsFacts, CodeFacts, FileFacts
<1>2. /\ src.insns \in Seq(InsnType) /\ DOMAIN src.insns = 1..Len(src.insns)
      /\ S \in Seq(Nat) /\ Len(S) = Len(src.insns)
      /\ \A k \in 1..Len(src.insns) : S[k] = src.insns[k].id
  <2>1. src.insns \in Seq(InsnType)
    BY DEF TBType, InsnType
  <2> QED
    BY <2>1, IdsFacts, LenProperties
<1>3. Ids(u.insns) = SubSeq(D, 1, start) \o S
  <2>1. Ids(u.insns) = SubSeq(Ids(dst.insns), 1, start) \o Ids(src.insns)
    BY ReplacedIds
  <2> QED
    BY <1>1, <2>1
<1> HIDE DEF D, S, n
<1>4. start \in Nat /\ start <= n /\ start \in 0..n
  BY <1>1
<1>5. Range(S) = {S[k] : k \in 1..Len(src.insns)}
  BY <1>2, RangeEquality
<1>6. ASSUME NEW m \in 1..n
      PROVE  Id(t, m) \notin Range(S)
  BY <1>1, <1>2, <1>5, ZenonT(40) DEF Foreign
<1> DEFINE P == SubSeq(D, 1, start)
<1>7. P \in Seq(Nat) /\ Len(P) = start /\ \A k \in 1..start : P[k] = D[k]
  BY <1>1, <1>4, PrefixFacts
<1> HIDE DEF P
<1>8. Range(P) = {P[k] : k \in 1..start}
  BY <1>7, RangeEquality
<1>9. \A k \in 1..start : k \in 1..n
  BY <1>1, <1>4
<1>10. Range(P) = {Id(t, k) : k \in 1..start}
  BY <1>1, <1>7, <1>8, <1>9
<1>11. Range(P \o S) = Range(P) \cup Range(S)
  BY <1>2, <1>7, RangeConcatenation
<1> QED
  BY <1>3, <1>4, <1>6, <1>10, <1>11 DEF P, S, n

(* Copying a foreign block over the end of a decoded one leaves no         *)
(* relocation behind and none without its code.                            *)
LEMMA CoveredUnified ==
    ASSUME TypeOK, NEW t \in TBs, NEW dst \in TBType,
           dst.insns = Code(t), dst.rels = file.rels[t],
           NEW src \in TBType, Covered(src), InsideOf(src), Foreign(src, t),
           NEW start \in 0..Len(dst.insns) - 1,
           NEW u, Replaced(dst, src, start, u)
    PROVE  /\ Covered(u) /\ InsideOf(u)
           /\ InOrderOfCode(dst.rels) /\ InOrderOfCode(src.rels) => InOrderOfCode(u.rels)
<1> DEFINE D == FileIds(t)
           S == Range(Ids(src.insns))
           U == Range(Ids(u.insns))
           n == Len(file.code[t])
           front == {k \in DOMAIN dst.rels : dst.rels[k].off + dst.rels[k].slots <= start}
<1>1. FreshRels(dst)
  BY CoveredDecoded
<1>2. PICK p : Joined(dst, src, start, u.rels, p)
  BY <1>1, JoinedRels
<1>3. Ids(dst.insns) = D
  BY FileIdsFacts
<1>4. PatchedBy(Ids(u.insns), u.rels)
        = {Patched(D, dst.rels[j]) : j \in front} \cup PatchedBy(Ids(src.insns), src.rels)
  <2>1. PatchedAsBefore(dst, src, start, u)
    BY <1>2, JoinedPatched
  <2> QED
    BY <1>3, <2>1 DEF PatchedAsBefore
<1>5. PatchedBy(Ids(src.insns), src.rels) = {q \in Emitted : Range(q.ids) \subseteq S}
  BY DEF Covered
<1>6. /\ U = {Id(t, k) : k \in 1..start} \cup S
      /\ \A m \in 1..n : Id(t, m) \notin S
      /\ start \in Nat /\ start <= n
  BY UnifiedIds
<1> HIDE DEF S, U, n
<1>7. ASSUME NEW v \in TBs, NEW j \in DOMAIN file.rels[v],
             NEW q, q = Patched(FileIds(v), file.rels[v][j])
      PROVE  Range(q.ids) \subseteq U
                <=> (v = t /\ file.rels[v][j].off + file.rels[v][j].slots <= start)
                    \/ Range(q.ids) \subseteq S
  <2> DEFINE a == file.rels[v][j].off
             l == file.rels[v][j].slots
  <2>1. /\ a \in Nat /\ l \in Nat \ {0} /\ a + l <= Len(file.code[v])
        /\ Len(file.code[v]) \in Nat
    BY FileRelFacts, FileFacts
  <2>2. Range(q.ids) = {Id(v, a + i) : i \in 1..l}
    BY <1>7, EmittedFacts
  <2> HIDE DEF a, l
  <2>3. /\ l \in 1..l
        /\ \A i \in 1..l : a + i \in Nat \ {0}
        /\ a + l \in 1..Len(file.code[v])
    BY <2>1
  <2>4. ASSUME v = t, a + l <= start
        PROVE  Range(q.ids) \subseteq U
    <3>1. \A i \in 1..l : a + i \in 1..start
      BY <1>6, <2>1, <2>4
    <3> QED
      BY <1>6, <2>2, <2>4, <3>1
  <2>5. ASSUME Range(q.ids) \subseteq U, v = t
        PROVE  a + l <= start
    <3>1. Id(t, a + l) \in U /\ Id(t, a + l) \notin S
      BY <1>6, <2>2, <2>3, <2>5 DEF n
    <3>2. PICK k \in 1..start : Id(t, a + l) = Id(t, k)
      BY <1>6, <3>1
    <3>3. k \in Nat \ {0} /\ a + l \in Nat \ {0}
      BY <1>6, <2>3
    <3>4. a + l = k
      BY <3>2, <3>3, IdApart
    <3> QED
      BY <1>6, <3>4
  <2>6. ASSUME Range(q.ids) \subseteq U, v # t
        PROVE  Range(q.ids) \subseteq S
    <3>1. SUFFICES ASSUME NEW i \in 1..l PROVE Id(v, a + i) \in S
      BY <2>2
    <3>2. ASSUME NEW k \in 1..start PROVE Id(v, a + i) # Id(t, k)
      <4>1. k \in Nat \ {0} /\ a + i \in Nat \ {0}
        BY <1>6, <2>3
      <4> QED
        BY <2>6, <4>1, IdApart
    <3>3. Id(v, a + i) \in U
      BY <2>2, <2>6
    <3> QED
      BY <1>6, <3>2, <3>3
  <2> QED
    BY <1>6, <2>4, <2>5, <2>6 DEF a, l
<1>8. ASSUME NEW x \in PatchedBy(Ids(u.insns), u.rels)
      PROVE  x \in Emitted /\ Range(x.ids) \subseteq U
  <2>1. CASE \E j \in front : x = Patched(D, dst.rels[j])
    <3>1. PICK j \in front : x = Patched(D, dst.rels[j])
      BY <2>1
    <3>2. /\ j \in DOMAIN file.rels[t] /\ x = Patched(FileIds(t), file.rels[t][j])
          /\ file.rels[t][j].off + file.rels[t][j].slots <= start
      BY <3>1
    <3> QED
      BY <1>7, <3>2, EmittedFacts
  <2>2. CASE x \in Emitted /\ Range(x.ids) \subseteq S
    BY <1>6, <2>2
  <2> QED
    BY <1>4, <1>5, <2>1, <2>2
<1>9. ASSUME NEW x \in Emitted, Range(x.ids) \subseteq U
      PROVE  x \in PatchedBy(Ids(u.insns), u.rels)
  <2>0. PICK v \in TBs : \E j \in DOMAIN file.rels[v] : x = Patched(FileIds(v), file.rels[v][j])
    BY EmittedFacts
  <2>1. PICK j \in DOMAIN file.rels[v] : x = Patched(FileIds(v), file.rels[v][j])
    BY <2>0
  <2>2. CASE v = t /\ file.rels[v][j].off + file.rels[v][j].slots <= start
    <3>1. j \in front /\ x = Patched(D, dst.rels[j])
      BY <2>1, <2>2
    <3> QED
      BY <1>4, <3>1
  <2>3. CASE Range(x.ids) \subseteq S
    BY <1>4, <1>5, <2>3
  <2> QED
    BY <1>7, <1>9, <2>1, <2>2, <2>3
<1>10. Covered(u)
  <2> HIDE DEF front
  <2> QED
    BY <1>8, <1>9 DEF Covered, U
<1> QED
  BY <1>1, <1>2, <1>10, JoinedInside, JoinedInOrder

-----------------------------------------------------------------------------
(* Relocations follow the code they patch.                                 *)

(* RelsInv one block at a time, in this state and in the next.             *)
LEMMA RelsInvByBlock ==
    RelsInv => \A t \in TBs : Covered(tbs[t]) /\ InsideOf(tbs[t])
<1> SUFFICES ASSUME RelsInv, NEW t \in TBs PROVE Covered(tbs[t]) /\ InsideOf(tbs[t])
  OBVIOUS
<1>1. MemoryIds(t) = Ids(tbs[t].insns)
  BY DEF MemoryIds, Ids
<1>2. PatchedBy(MemoryIds(t), tbs[t].rels)
        = {p \in Emitted : Range(p.ids) \subseteq Range(MemoryIds(t))}
  BY DEF RelsInv, NoneMissing
<1>3. InsideOf(tbs[t])
  BY DEF RelsInv, RelsInside, InsideOf
<1> QED
  BY <1>1, <1>2, <1>3 DEF Covered

LEMMA NextRelsInv ==
    ASSUME file' = file, OwnOrFinal',
           \A t \in TBs : Covered(tbs'[t]) /\ InsideOf(tbs'[t]),
           (\A t \in TBs : InOrderOfCode(file.rels[t]))
                => \A t \in TBs : InOrderOfCode(tbs'[t].rels)
    PROVE  RelsInv'
<1>1. Emitted' = Emitted
  BY DEF Emitted, FileView, InFile, FileIds, Running
<1>2. NoneMissing'
  <2>1. SUFFICES ASSUME NEW t \in TBs
                 PROVE  PatchedBy(MemoryIds(t)', tbs'[t].rels)
                          = {p \in Emitted' : Range(p.ids) \subseteq Range(MemoryIds(t)')}
    BY DEF NoneMissing, PatchedBy, Patched, Range
  <2>2. MemoryIds(t)' = Ids(tbs'[t].insns)
    BY DEF MemoryIds, Ids
  <2>3. Covered(tbs'[t])
    OBVIOUS
  <2> QED
    BY <1>1, <2>2, <2>3 DEF Covered
<1>3. RelsInside'
  BY DEF RelsInside, InsideOf
<1>4. RelsInOrder'
  BY DEF RelsInOrder, InOrderOfCode
<1> QED
  BY <1>2, <1>3, <1>4 DEF RelsInv

LEMMA PrepareKeepsRels ==
    ASSUME IndInv, RelsInv, Prepare
    PROVE  RelsInv'
<1>1. /\ TypeOK /\ BlocksOK /\ OwnOrFinal /\ RelsInOrder
      /\ step = "prepare" /\ step' = "unify" /\ UNCHANGED <<file, seg>>
      /\ tbs' = [t \in TBs |-> IF t \in BlocksOf(seg) THEN Decoded(t) ELSE tbs[t]]
  BY DEF IndInv, RelsInv, Prepare
<1>2. ASSUME NEW t \in TBs, t \in BlocksOf(seg)
      PROVE  /\ tbs'[t].insns = Code(t)
             /\ tbs'[t].rels = file.rels[t]
             /\ tbs'[t].linked = tbs[t].linked
  <2>1. ~ IsDecoded(t)
    BY <1>1, <1>2, FileFacts DEF IsDecoded, BlocksOf, TypeOK
  <2>2. Unread(t) /\ tbs'[t] = Decoded(t)
    BY <1>1, <1>2, <2>1 DEF BlocksOK
  <2>3. Decoded(t).insns = Code(t) /\ Decoded(t).rels = file.rels[t]
        /\ Decoded(t).linked = file.linked[t]
    BY <1>1, <2>2, DecodedBlock
  <2>4. tbs[t].linked = file.linked[t]
    BY <2>2 DEF Unread, Constructed
  <2> QED
    BY <2>2, <2>3, <2>4
<1>3. ASSUME NEW t \in TBs, t \notin BlocksOf(seg)
      PROVE  tbs'[t] = tbs[t]
  BY <1>1, <1>3
<1>4. ASSUME NEW t \in TBs, NoSuccessor(t)
      PROVE  NoSuccessor(t)'
  <2>1. tbs'[t].linked = tbs[t].linked
    BY <1>2, <1>3
  <2> QED
    BY <1>4, <2>1 DEF NoSuccessor
<1>5. OwnOrFinal'
  <2>1. SUFFICES ASSUME NEW t \in TBs, NEW k \in DOMAIN tbs'[t].insns
                 PROVE  \E v \in TBs :
                            /\ \E m \in DOMAIN file.code[v] : tbs'[t].insns[k].id = Id(v, m)
                            /\ v = t \/ NoSuccessor(v)'
    BY <1>1 DEF OwnOrFinal, Id
  <2>2. CASE t \in BlocksOf(seg)
    <3>1. k \in DOMAIN Code(t) /\ tbs'[t].insns[k] = Code(t)[k]
      BY <1>2, <2>1, <2>2
    <3>2. k \in DOMAIN file.code[t] /\ tbs'[t].insns[k].id = Id(t, k)
      BY <3>1 DEF Code
    <3> QED
      BY <3>2
  <2>3. CASE t \notin BlocksOf(seg)
    <3>1. tbs'[t] = tbs[t] /\ k \in DOMAIN tbs[t].insns
      BY <1>3, <2>1, <2>3
    <3>2. PICK v \in TBs : /\ \E m \in DOMAIN file.code[v] : tbs[t].insns[k].id = Id(v, m)
                           /\ v = t \/ NoSuccessor(v)
      BY <1>1, <3>1 DEF OwnOrFinal
    <3> QED
      BY <1>4, <3>1, <3>2
  <2> QED
    BY <2>2, <2>3
<1>6. ASSUME NEW t \in TBs
      PROVE  Covered(tbs'[t]) /\ InsideOf(tbs'[t])
  <2>1. CASE t \in BlocksOf(seg)
    BY <1>1, <1>2, <2>1, CoveredDecoded
  <2>2. CASE t \notin BlocksOf(seg)
    BY <1>3, <2>2, RelsInvByBlock
  <2> QED
    BY <2>1, <2>2
<1>7. ASSUME \A t \in TBs : InOrderOfCode(file.rels[t]), NEW t \in TBs
      PROVE  InOrderOfCode(tbs'[t].rels)
  BY <1>1, <1>2, <1>3, <1>7 DEF RelsInOrder
<1> QED
  BY <1>1, <1>5, <1>6, <1>7, NextRelsInv

(* t has a successor, so no block that has none holds any of t's code.     *)
LEMMA SuccessorIsForeign ==
    ASSUME TypeOK, OwnOrFinal, NEW t \in TBs, NEW src \in TBs, src # t,
           ~ NoSuccessor(t)
    PROVE  Foreign(tbs[src], t)
<1>1. SUFFICES ASSUME NEW k \in DOMAIN tbs[src].insns, NEW m \in DOMAIN file.code[t],
                      tbs[src].insns[k].id = Id(t, m)
               PROVE  FALSE
  BY DEF Foreign
<1>2. PICK v \in TBs : /\ \E j \in DOMAIN file.code[v] : tbs[src].insns[k].id = Id(v, j)
                       /\ v = src \/ NoSuccessor(v)
  BY DEF OwnOrFinal
<1>3. PICK j \in DOMAIN file.code[v] : tbs[src].insns[k].id = Id(v, j)
  BY <1>2
<1>4. j \in Nat \ {0} /\ m \in Nat \ {0}
  BY FileFacts
<1>5. v = t
  BY <1>1, <1>3, <1>4, IdApart
<1> QED
  BY <1>2, <1>5

LEMMA UnifyKeepsRels ==
    ASSUME IndInv, RelsInv, Unify
    PROVE  RelsInv'
<1>1. /\ TypeOK /\ BlocksOK /\ BranchesIndexed /\ OwnOrFinal /\ RelsInOrder
      /\ stack # <<>> /\ CanUnify(Top.tb) /\ file' = file
  BY DEF IndInv, RelsInv, Unify, At
<1>2. PICK t \in TBs : t = Top.tb
  BY <1>1, StackFacts
<1>3. PICK src \in TBs : src = TheOnlyOneSuccessor(t) /\ src # t /\ NoSuccessor(src)
  BY <1>1, <1>2, UnifyFacts
<1>4. PICK start \in 0..Len(tbs[t].insns) - 1 : start = BranchInsnIndex(t)
  BY <1>1, <1>2, UnifyFacts
<1>5. JumpIsB(t) /\ AsRead(t) /\ ~ NoSuccessor(t)
  BY <1>1, <1>2, UnifyFacts DEF NoSuccessor
<1>6. tbs' = [tbs EXCEPT ![t] = Unified(tbs[t], tbs[src], start)]
  BY <1>2, <1>3, <1>4, <1>5 DEF Unify
<1>7. /\ tbs[t] \in TBType /\ tbs[src] \in TBType /\ AllBranchesIndexed(tbs[t])
      /\ tbs \in [TBs -> TBType]
  BY <1>1 DEF TypeOK, BranchesIndexed
<1>8. PICK u : u = Unified(tbs[t], tbs[src], start)
  OBVIOUS
<1>9. Replaced(tbs[t], tbs[src], start, u)
  BY <1>7, <1>8, UnifiedBlock
<1>10. tbs'[t] = u /\ \A v \in TBs : v # t => tbs'[v] = tbs[v]
  BY <1>6, <1>7, <1>8
<1>11. tbs[t].insns = Code(t) /\ tbs[t].rels = file.rels[t]
  BY <1>5 DEF AsRead
<1>12. Covered(tbs[src]) /\ InsideOf(tbs[src]) /\ Foreign(tbs[src], t)
  BY <1>1, <1>3, <1>5, RelsInvByBlock, SuccessorIsForeign
<1>13. /\ Covered(u) /\ InsideOf(u)
       /\ InOrderOfCode(tbs[t].rels) /\ InOrderOfCode(tbs[src].rels) => InOrderOfCode(u.rels)
  BY <1>1, <1>7, <1>9, <1>11, <1>12, CoveredUnified
<1>14. ASSUME NEW v \in TBs, NoSuccessor(v)
       PROVE  NoSuccessor(v)'
  <2>1. \A d \in Jumps : ~ u.linked[d]
    BY <1>3, <1>9 DEF Replaced, NoSuccessor
  <2> QED
    BY <1>10, <1>14, <2>1 DEF NoSuccessor
<1>15. OwnOrFinal'
  <2>1. SUFFICES ASSUME NEW v \in TBs, NEW k \in DOMAIN tbs'[v].insns
                 PROVE  \E w \in TBs :
                            /\ \E m \in DOMAIN file.code[w] : tbs'[v].insns[k].id = Id(w, m)
                            /\ w = v \/ NoSuccessor(w)'
    BY <1>1 DEF OwnOrFinal, Id
  <2>2. CASE v # t
    <3>1. tbs'[v] = tbs[v] /\ k \in DOMAIN tbs[v].insns
      BY <1>10, <2>1, <2>2
    <3>2. PICK w \in TBs : /\ \E m \in DOMAIN file.code[w] : tbs[v].insns[k].id = Id(w, m)
                           /\ w = v \/ NoSuccessor(w)
      BY <1>1, <3>1 DEF OwnOrFinal
    <3> QED
      BY <1>14, <3>1, <3>2
  <2>3. CASE v = t
    <3> DEFINE n == Len(tbs[src].insns)
    <3>1. /\ n \in Nat /\ DOMAIN tbs[src].insns = 1..n /\ start \in Nat
          /\ Len(tbs[t].insns) \in Nat
      BY <1>7, IndexFacts
    <3>2. /\ DOMAIN u.insns = 1..start + n
          /\ \A i \in 1..start : u.insns[i] = tbs[t].insns[i]
          /\ \A i \in 1..n : u.insns[start + i] = tbs[src].insns[i]
      <4>1. u \in TBType /\ Len(u.insns) = start + n
        BY <1>9 DEF Replaced
      <4>2. DOMAIN u.insns = 1..Len(u.insns)
        BY <4>1, IndexFacts
      <4> QED
        BY <1>9, <4>1, <4>2 DEF Replaced
    <3> HIDE DEF n
    <3>3. k \in 1..start + n /\ tbs'[v].insns[k] = u.insns[k]
      BY <1>10, <2>1, <2>3, <3>2
    <3>4. CASE k \in 1..start
      <4>1. k \in DOMAIN file.code[t]
        <5>1. k \in 1..Len(tbs[t].insns)
          BY <3>1, <3>4
        <5> QED
          BY <1>1, <1>11, <5>1, CodeFacts, FileFacts
      <4>2. tbs'[v].insns[k] = Code(t)[k]
        BY <1>11, <3>2, <3>3, <3>4
      <4>3. tbs'[v].insns[k].id = Id(t, k)
        BY <4>1, <4>2 DEF Code
      <4> QED
        BY <2>3, <4>1, <4>3
    <3>5. CASE k \notin 1..start
      <4>1. k - start \in 1..n /\ start + (k - start) = k
        BY <3>1, <3>3, <3>5
      <4>2. tbs'[v].insns[k] = tbs[src].insns[k - start]
        BY <3>2, <3>3, <4>1
      <4>3. PICK w \in TBs :
                /\ \E m \in DOMAIN file.code[w] : tbs[src].insns[k - start].id = Id(w, m)
                /\ w = src \/ NoSuccessor(w)
        BY <1>1, <3>1, <4>1 DEF OwnOrFinal
      <4> QED
        BY <1>3, <1>14, <4>2, <4>3
    <3> QED
      BY <3>4, <3>5
  <2> QED
    BY <2>2, <2>3
<1>16. ASSUME NEW v \in TBs
       PROVE  Covered(tbs'[v]) /\ InsideOf(tbs'[v])
  BY <1>10, <1>13, RelsInvByBlock
<1>17. ASSUME \A v \in TBs : InOrderOfCode(file.rels[v]), NEW v \in TBs
       PROVE  InOrderOfCode(tbs'[v].rels)
  BY <1>1, <1>10, <1>13, <1>17 DEF RelsInOrder
<1> QED
  BY <1>1, <1>15, <1>16, <1>17, NextRelsInv

LEMMA StayKeepsRels ==
    ASSUME RelsInv, UNCHANGED <<file, tbs>>
    PROVE  RelsInv'
<1>1. OwnOrFinal'
  BY DEF RelsInv, OwnOrFinal, NoSuccessor, Id
<1>2. \A t \in TBs : Covered(tbs'[t]) /\ InsideOf(tbs'[t])
  BY RelsInvByBlock
<1>3. (\A t \in TBs : InOrderOfCode(file.rels[t]))
            => \A t \in TBs : InOrderOfCode(tbs'[t].rels)
  BY DEF RelsInv, RelsInOrder
<1> QED
  BY <1>1, <1>2, <1>3, NextRelsInv

LEMMA StepKeepsRels ==
    ASSUME IndInv, RelsInv, [Next]_vars
    PROVE  RelsInv'
<1>1. CASE Prepare
  BY <1>1, PrepareKeepsRels
<1>2. CASE Unify
  BY <1>2, UnifyKeepsRels
<1>3. CASE StartEntry \/ AlreadySeen \/ Enter \/ VisitFalse \/ VisitTrue \/ Leave
              \/ NextSegment \/ UNCHANGED vars
  <2>1. UNCHANGED <<file, tbs>>
    BY <1>3 DEF StartEntry, AlreadySeen, Enter, VisitFalse, VisitTrue, Leave, NextSegment, vars
  <2> QED
    BY <2>1, StayKeepsRels
<1> QED
  BY <1>1, <1>2, <1>3 DEF Next, Walk

LEMMA InitRels == Init => RelsInv
<1> SUFFICES ASSUME Init PROVE RelsInv
  OBVIOUS
<1>1. TypeOK
  BY InitOK DEF IndInv
<1>2. ASSUME NEW t \in TBs
      PROVE  /\ tbs[t].insns = <<>> /\ tbs[t].rels = <<>>
             /\ Covered(tbs[t]) /\ InsideOf(tbs[t]) /\ InOrderOfCode(tbs[t].rels)
  <2>1. tbs[t].insns = <<>> /\ tbs[t].rels = <<>>
    BY DEF Init, Constructed
  <2> QED
    BY <1>1, <2>1, CoveredEmpty
<1>3. OwnOrFinal
  BY <1>2 DEF OwnOrFinal
<1>4. RelsInside /\ RelsInOrder
  BY <1>2 DEF RelsInside, InsideOf, RelsInOrder
<1>5. NoneMissing
  <2>1. \A t \in TBs : MemoryIds(t) = Ids(tbs[t].insns) /\ Covered(tbs[t])
    BY <1>2 DEF MemoryIds, Ids
  <2> QED
    BY <2>1 DEF NoneMissing, Covered
<1> QED
  BY <1>3, <1>4, <1>5 DEF RelsInv

(* Whatever the walk unifies, and however often it copies a block that     *)
(* holds copies, the relocations of a decoded block patch what the         *)
(* relocations of the file patch, and none whose instructions are there    *)
(* is missing (TU_Vistor.cpp:52-74).                                       *)
THEOREM Relocated == Spec => []RelsFollowCode
<1>1. IndInv /\ RelsInv => RelsFollowCode
  <2>1. SUFFICES ASSUME RelsInv, NEW t \in TBs, IsDecoded(t)
                 PROVE  PatchedBy(MemoryView[t].ids, tbs[t].rels)
                          = {p \in Emitted : Range(p.ids) \subseteq Range(MemoryView[t].ids)}
    BY DEF RelsFollowCode, RelsInv
  <2>2. MemoryView[t].ids = MemoryIds(t)
    BY <2>1 DEF MemoryView, InMemory, Running
  <2> QED
    BY <2>1, <2>2 DEF RelsInv, NoneMissing
<1>2. IndInv /\ RelsInv /\ [Next]_vars => RelsInv'
  BY StepKeepsRels
<1> QED
  BY <1>1, <1>2, InitRels, Inductive, PTL DEF Spec

-----------------------------------------------------------------------------
(* Chains of blocks, and what they run.                                    *)

LEMMA TracesUnfold ==
    ASSUME NEW view
    PROVE  /\ Traces(view)[0] = [u \in TBs |-> <<>>]
           /\ \A n \in 1..NumTBs : Traces(view)[n] = [u \in TBs |->
                IF view[u].next = NoTB THEN view[u].ids
                ELSE SubSeq(view[u].ids, 1, view[u].jump) \o Traces(view)[n - 1][view[u].next]]
<1> DEFINE F(s, n) == [u \in TBs |->
        IF n = 0 THEN <<>>
        ELSE IF view[u].next = NoTB THEN view[u].ids
        ELSE SubSeq(view[u].ids, 1, view[u].jump) \o s[view[u].next]]
           G(f, n) == [k \in 0..n |-> F(f[k - 1], k)]
           N == {n \in Nat : \E f : f = G(f, n)}
<1>1. Traces(view) = CHOOSE f : f = G(f, NumTBs)
  BY DEF Traces
<1>2. F(0, 0) = [u \in TBs |-> <<>>] /\ \A s : F(s, 0) = F(0, 0)
  OBVIOUS
<1> HIDE DEF F
<1>3. 0 \in N
  <2>1. [k \in 0..0 |-> F(0, 0)] = G([k \in 0..0 |-> F(0, 0)], 0)
    BY <1>2
  <2> QED
    BY <2>1
<1>4. ASSUME NEW n \in N
      PROVE  n + 1 \in N
  <2>1. PICK f : f = G(f, n)
    OBVIOUS
  <2> DEFINE g == [k \in 0..n + 1 |-> IF k = n + 1 THEN F(f[n], n + 1) ELSE f[k]]
  <2>2. ASSUME NEW k \in 0..n + 1
        PROVE  g[k] = F(g[k - 1], k)
    <3>1. CASE k = n + 1
      <4>1. k - 1 = n /\ n \in 0..n + 1 /\ n # n + 1
        BY <3>1
      <4> QED
        BY <3>1, <4>1
    <3>2. CASE k = 0
      <4>1. g[0] = f[0] /\ f[0] = F(f[0 - 1], 0)
        BY <2>1
      <4>2. g[0] = F(g[0 - 1], 0)
        <5> HIDE DEF g
        <5> QED
          BY <1>2, <4>1
      <4> QED
        BY <3>2, <4>2
    <3>3. CASE k # 0 /\ k # n + 1
      <4>1. k \in 0..n /\ k - 1 \in 0..n + 1 /\ k - 1 # n + 1
        BY <3>3
      <4> QED
        BY <3>3, <4>1, <2>1
    <3> QED
      BY <3>1, <3>2, <3>3
  <2>3. g = G(g, n + 1)
    <3> HIDE DEF g
    <3>1. DOMAIN g = 0..n + 1 /\ g = [k \in DOMAIN g |-> g[k]]
      BY DEF g
    <3> QED
      BY <3>1, <2>2
  <2>4. n + 1 \in Nat
    OBVIOUS
  <2>5. \E h : h = G(h, n + 1)
    <3> HIDE DEF g
    <3> QED
      BY <2>3, Zenon
  <2> QED
    BY <2>4, <2>5
<1>5. NumTBs \in N
  <2> HIDE DEF N
  <2> QED
    BY <1>3, <1>4, NatInduct, TBsFacts DEF N
<1>6. Traces(view) = G(Traces(view), NumTBs)
  BY <1>1, <1>5
<1>7. /\ Traces(view)[0] = F(Traces(view)[0 - 1], 0)
      /\ \A n \in 1..NumTBs : Traces(view)[n] = F(Traces(view)[n - 1], n)
  <2> DEFINE r == Traces(view)
  <2> HIDE DEF r
  <2> SUFFICES r[0] = F(r[0 - 1], 0) /\ \A n \in 1..NumTBs : r[n] = F(r[n - 1], n)
    BY DEF r
  <2>1. r = G(r, NumTBs)
    BY <1>6 DEF r
  <2> QED
    BY <2>1, TBsFacts
<1>8. Traces(view)[0] = [u \in TBs |-> <<>>]
  BY <1>2, <1>7
<1>9. ASSUME NEW n \in 1..NumTBs
       PROVE  Traces(view)[n] = [u \in TBs |->
                IF view[u].next = NoTB THEN view[u].ids
                ELSE SubSeq(view[u].ids, 1, view[u].jump) \o Traces(view)[n - 1][view[u].next]]
  <2>1. Traces(view)[n] = F(Traces(view)[n - 1], n)
    BY <1>7
  <2>2. n # 0
    OBVIOUS
  <2> QED
    BY <2>1, <2>2 DEF F
<1> QED
  BY <1>8, <1>9

LEMMA EndingUnfold ==
    ASSUME NEW view
    PROVE  /\ Ending(view)[0] = {}
           /\ \A n \in 1..NumTBs : Ending(view)[n] = {t \in TBs : view[t].next = NoTB \/ view[t].next \in Ending(view)[n - 1]}
<1> DEFINE F(s, n) == IF n = 0 THEN {}
        ELSE {t \in TBs : view[t].next = NoTB \/ view[t].next \in s}
           G(f, n) == [k \in 0..n |-> F(f[k - 1], k)]
           N == {n \in Nat : \E f : f = G(f, n)}
<1>1. Ending(view) = CHOOSE f : f = G(f, NumTBs)
  BY DEF Ending
<1>2. F(0, 0) = {} /\ \A s : F(s, 0) = F(0, 0)
  OBVIOUS
<1> HIDE DEF F
<1>3. 0 \in N
  <2>1. [k \in 0..0 |-> F(0, 0)] = G([k \in 0..0 |-> F(0, 0)], 0)
    BY <1>2
  <2> QED
    BY <2>1
<1>4. ASSUME NEW n \in N
      PROVE  n + 1 \in N
  <2>1. PICK f : f = G(f, n)
    OBVIOUS
  <2> DEFINE g == [k \in 0..n + 1 |-> IF k = n + 1 THEN F(f[n], n + 1) ELSE f[k]]
  <2>2. ASSUME NEW k \in 0..n + 1
        PROVE  g[k] = F(g[k - 1], k)
    <3>1. CASE k = n + 1
      <4>1. k - 1 = n /\ n \in 0..n + 1 /\ n # n + 1
        BY <3>1
      <4> QED
        BY <3>1, <4>1
    <3>2. CASE k = 0
      <4>1. g[0] = f[0] /\ f[0] = F(f[0 - 1], 0)
        BY <2>1
      <4>2. g[0] = F(g[0 - 1], 0)
        <5> HIDE DEF g
        <5> QED
          BY <1>2, <4>1
      <4> QED
        BY <3>2, <4>2
    <3>3. CASE k # 0 /\ k # n + 1
      <4>1. k \in 0..n /\ k - 1 \in 0..n + 1 /\ k - 1 # n + 1
        BY <3>3
      <4> QED
        BY <3>3, <4>1, <2>1
    <3> QED
      BY <3>1, <3>2, <3>3
  <2>3. g = G(g, n + 1)
    <3> HIDE DEF g
    <3>1. DOMAIN g = 0..n + 1 /\ g = [k \in DOMAIN g |-> g[k]]
      BY DEF g
    <3> QED
      BY <3>1, <2>2
  <2>4. n + 1 \in Nat
    OBVIOUS
  <2>5. \E h : h = G(h, n + 1)
    <3> HIDE DEF g
    <3> QED
      BY <2>3, Zenon
  <2> QED
    BY <2>4, <2>5
<1>5. NumTBs \in N
  <2> HIDE DEF N
  <2> QED
    BY <1>3, <1>4, NatInduct, TBsFacts DEF N
<1>6. Ending(view) = G(Ending(view), NumTBs)
  BY <1>1, <1>5
<1>7. /\ Ending(view)[0] = F(Ending(view)[0 - 1], 0)
      /\ \A n \in 1..NumTBs : Ending(view)[n] = F(Ending(view)[n - 1], n)
  <2> DEFINE r == Ending(view)
  <2> HIDE DEF r
  <2> SUFFICES r[0] = F(r[0 - 1], 0) /\ \A n \in 1..NumTBs : r[n] = F(r[n - 1], n)
    BY DEF r
  <2>1. r = G(r, NumTBs)
    BY <1>6 DEF r
  <2> QED
    BY <2>1, TBsFacts
<1>8. Ending(view)[0] = {}
  BY <1>2, <1>7
<1>9. ASSUME NEW n \in 1..NumTBs
       PROVE  Ending(view)[n] = {t \in TBs : view[t].next = NoTB \/ view[t].next \in Ending(view)[n - 1]}
  <2>1. Ending(view)[n] = F(Ending(view)[n - 1], n)
    BY <1>7
  <2>2. n # 0
    OBVIOUS
  <2> QED
    BY <2>1, <2>2 DEF F
<1> QED
  BY <1>8, <1>9

(* What block u runs with n blocks to go.                                  *)
RunsNext(view, n, u) ==
    /\ view[u].next = NoTB => Traces(view)[n][u] = view[u].ids
    /\ view[u].next # NoTB =>
        Traces(view)[n][u]
            = SubSeq(view[u].ids, 1, view[u].jump) \o Traces(view)[n - 1][view[u].next]

LEMMA RunAt ==
    ASSUME NEW view, NEW n \in 1..NumTBs, NEW u \in TBs
    PROVE  RunsNext(view, n, u)
<1> DEFINE s == Traces(view)[n - 1]
<1>1. Traces(view)[n] = [w \in TBs |->
            IF view[w].next = NoTB THEN view[w].ids
            ELSE SubSeq(view[w].ids, 1, view[w].jump) \o s[view[w].next]]
  BY TracesUnfold
<1> HIDE DEF s
<1>2. Traces(view)[n][u] = IF view[u].next = NoTB THEN view[u].ids
            ELSE SubSeq(view[u].ids, 1, view[u].jump) \o s[view[u].next]
  BY <1>1
<1> QED
  BY <1>2 DEF s, RunsNext

LinksToBlocks(view) == \A u \in TBs : view[u].next \in TBs \cup {NoTB}

Before(view, S) == {t \in TBs : view[t].next = NoTB \/ view[t].next \in S}

(* A chain that ends does so within NumTBs blocks: the sets of blocks that *)
(* end within n grow until they stay the same.                             *)
LEMMA EndingFacts ==
    ASSUME NEW view, LinksToBlocks(view)
    PROVE  /\ \A n \in 1..NumTBs : Ending(view)[n] = Before(view, Ending(view)[n - 1])
           /\ \A n \in 1..NumTBs : Ending(view)[n - 1] \subseteq Ending(view)[n]
           /\ Ending(view)[NumTBs] = Before(view, Ending(view)[NumTBs])
<1> DEFINE E == Ending(view)
           T == {n \in Nat : n + 1 <= NumTBs =>
                    /\ E[n] \subseteq E[n + 1]
                    /\ E[n + 1] = E[n] \/ Cardinality(E[n + 1]) >= n + 1}
<1>1. E[0] = {} /\ \A n \in 1..NumTBs : E[n] = Before(view, E[n - 1])
  BY EndingUnfold DEF Before
<1> HIDE DEF E
<1>2. IsFiniteSet(TBs) /\ Cardinality(TBs) = NumTBs
  BY TBsFacts, FS_Interval DEF TBs
<1>3. \A R, S : R \subseteq S => Before(view, R) \subseteq Before(view, S)
  BY DEF Before
<1>4. ASSUME NEW n \in 1..NumTBs
      PROVE  E[n] \subseteq TBs /\ IsFiniteSet(E[n]) /\ Cardinality(E[n]) \in Nat
  <2>1. E[n] \subseteq TBs
    BY <1>1 DEF Before
  <2>2. IsFiniteSet(E[n])
    BY <1>2, <2>1, FS_Subset
  <2> QED
    BY <2>1, <2>2, FS_CardinalityType
<1>5. 0 \in T
  <2>1. 1 \in 1..NumTBs /\ 0 + 1 = 1
    BY TBsFacts
  <2>2. Cardinality(E[1]) >= 1 \/ E[1] = {}
    <3>1. Cardinality(E[1]) \in Nat /\ (Cardinality(E[1]) = 0 => E[1] = {})
      BY <1>4, <2>1, FS_EmptySet
    <3> QED
      BY <3>1
  <2>3. E[0] \subseteq E[1] /\ (E[1] = E[0] \/ Cardinality(E[1]) >= 1)
    BY <1>1, <2>2
  <2> QED
    BY <2>1, <2>3
<1>6. ASSUME NEW n \in T
      PROVE  n + 1 \in T
  <2>1. SUFFICES ASSUME (n + 1) + 1 <= NumTBs
                 PROVE  /\ E[n + 1] \subseteq E[(n + 1) + 1]
                        /\ \/ E[(n + 1) + 1] = E[n + 1]
                           \/ Cardinality(E[(n + 1) + 1]) >= (n + 1) + 1
    OBVIOUS
  <2> DEFINE a == n + 1
             b == a + 1
  <2>2. /\ a \in 1..NumTBs /\ b \in 1..NumTBs /\ a - 1 = n /\ b - 1 = a /\ b = a + 1 /\ a \in Nat
        /\ E[n] \subseteq E[a]
        /\ E[a] = E[n] \/ Cardinality(E[a]) >= a
    BY <2>1, TBsFacts
  <2> HIDE DEF a, b
  <2>3. E[a] = Before(view, E[n]) /\ E[b] = Before(view, E[a])
    BY <1>1, <2>2
  <2>4. E[a] \subseteq E[b]
    BY <1>3, <2>2, <2>3
  <2>5. CASE E[a] = E[n]
    BY <2>3, <2>4, <2>5 DEF a, b
  <2>6. CASE E[a] # E[n] /\ E[b] # E[a]
    <3>1. /\ IsFiniteSet(E[b]) /\ E[a] \in SUBSET E[b]
          /\ Cardinality(E[a]) \in Nat /\ Cardinality(E[b]) \in Nat
      BY <1>4, <2>2, <2>4
    <3>2. Cardinality(E[a]) <= Cardinality(E[b]) /\ Cardinality(E[b]) # Cardinality(E[a])
      BY <2>6, <3>1, FS_Subset
    <3>3. Cardinality(E[b]) >= b
      BY <2>2, <2>6, <3>1, <3>2
    <3> QED
      BY <2>4, <3>3 DEF a, b
  <2>7. CASE E[b] = E[a]
    BY <2>4, <2>7 DEF a, b
  <2> QED
    BY <2>5, <2>6, <2>7
<1>7. T = Nat
  <2>1. T \in SUBSET Nat
    OBVIOUS
  <2> HIDE DEF T
  <2> QED
    BY <1>5, <1>6, <2>1, NatInduct
<1>8. ASSUME NEW n \in 1..NumTBs
      PROVE  /\ E[n - 1] \subseteq E[n]
             /\ E[n] = E[n - 1] \/ Cardinality(E[n]) >= n
  <2>1. n - 1 \in Nat /\ (n - 1) + 1 = n /\ n <= NumTBs
    BY TBsFacts
  <2>2. n - 1 \in T
    BY <1>7, <2>1
  <2> QED
    BY <2>1, <2>2
<1>9. E[NumTBs] = Before(view, E[NumTBs])
  <2>1. NumTBs \in 1..NumTBs /\ NumTBs \in Nat
    BY TBsFacts
  <2>2. CASE E[NumTBs] = E[NumTBs - 1]
    BY <1>1, <2>1, <2>2
  <2>3. CASE Cardinality(E[NumTBs]) >= NumTBs
    <3>1. E[NumTBs] \in SUBSET TBs /\ Cardinality(E[NumTBs]) \in Nat
      BY <1>4, <2>1
    <3>2. Cardinality(E[NumTBs]) <= NumTBs
      BY <1>2, <3>1, FS_Subset
    <3>3. Cardinality(TBs) = Cardinality(E[NumTBs])
      BY <1>2, <2>1, <2>3, <3>1, <3>2
    <3>4. E[NumTBs] = TBs
      BY <1>2, <3>1, <3>3, FS_Subset
    <3> QED
      BY <3>4 DEF Before, LinksToBlocks
  <2> QED
    BY <1>8, <2>1, <2>2, <2>3
<1> QED
  BY <1>1, <1>8, <1>9 DEF E

(* From the end of a chain on, looking further changes nothing.            *)
LEMMA EndedChains ==
    ASSUME NEW view, LinksToBlocks(view), NEW n \in 0..NumTBs,
           NEW u \in Ending(view)[n], NEW m \in n..NumTBs
    PROVE  Traces(view)[m][u] = Traces(view)[n][u]
<1> DEFINE E == Ending(view)
           R == Traces(view)
           T == {k \in Nat : k <= NumTBs =>
                    \A v \in E[k], l \in k..NumTBs : R[l][v] = R[k][v]}
<1>1. /\ E[0] = {}
      /\ \A k \in 1..NumTBs : E[k] = {v \in TBs : view[v].next = NoTB \/ view[v].next \in E[k - 1]}
  BY EndingUnfold
<1>2. \A k \in 1..NumTBs : \A v \in TBs : RunsNext(view, k, v)
  BY RunAt
<1> HIDE DEF E, R
<1>3. 0 \in T
  BY <1>1
<1>4. ASSUME NEW k \in T
      PROVE  k + 1 \in T
  <2>1. SUFFICES ASSUME k + 1 <= NumTBs, NEW v \in E[k + 1], NEW l \in k + 1..NumTBs
                 PROVE  R[l][v] = R[k + 1][v]
    OBVIOUS
  <2>2. /\ k + 1 \in 1..NumTBs /\ l \in 1..NumTBs /\ (k + 1) - 1 = k /\ l - 1 \in k..NumTBs
        /\ k <= NumTBs
    BY <2>1, TBsFacts
  <2>3. v \in TBs /\ (view[v].next = NoTB \/ view[v].next \in E[k])
    BY <1>1, <2>2
  <2>4. RunsNext(view, l, v) /\ RunsNext(view, k + 1, v)
    BY <1>2, <2>2, <2>3
  <2>5. CASE view[v].next = NoTB
    BY <2>4, <2>5 DEF RunsNext, R
  <2>6. CASE view[v].next # NoTB
    <3>1. view[v].next \in E[k]
      BY <2>3, <2>6
    <3>2. R[l - 1][view[v].next] = R[k][view[v].next]
      BY <2>2, <3>1
    <3> QED
      BY <2>2, <2>4, <2>6, <3>2, ZenonT(40) DEF RunsNext, R
  <2> QED
    BY <2>5, <2>6
<1>5. T = Nat
  <2>1. T \in SUBSET Nat
    OBVIOUS
  <2> HIDE DEF T
  <2> QED
    BY <1>3, <1>4, <2>1, NatInduct
<1>6. n \in T /\ n <= NumTBs /\ u \in E[n]
  BY <1>5, TBsFacts DEF E
<1> QED
  BY <1>6 DEF E, R

(* A block whose successor's chain ends: its chain ends too, one block     *)
(* later.                                                                  *)
Follows(view, v, t) ==
    /\ t \in Ending(view)[NumTBs]
    /\ Trace(view, t) = SubSeq(view[t].ids, 1, view[t].jump) \o Trace(view, v)

LEMMA LongerChain ==
    ASSUME NEW view, LinksToBlocks(view), NEW t \in TBs, NEW v \in TBs, view[t].next = v,
           v \in Ending(view)[NumTBs]
    PROVE  Follows(view, v, t)
<1>1. v # NoTB /\ NumTBs \in 1..NumTBs /\ NumTBs - 1 \in 0..NumTBs /\ NumTBs \in NumTBs - 1..NumTBs
  BY TBsFacts DEF TBs
<1>2. t \in Ending(view)[NumTBs]
  BY EndingFacts DEF Before
<1>3. v \in Ending(view)[NumTBs - 1]
  BY <1>1, <1>2, EndingFacts DEF Before
<1>4. Traces(view)[NumTBs][v] = Traces(view)[NumTBs - 1][v]
  BY <1>1, <1>3, EndedChains
<1>5. RunsNext(view, NumTBs, t)
  BY <1>1, RunAt
<1>6. Traces(view)[NumTBs][t]
        = SubSeq(view[t].ids, 1, view[t].jump) \o Traces(view)[NumTBs - 1][v]
  BY <1>1, <1>5 DEF RunsNext
<1> QED
  BY <1>2, <1>4, <1>6 DEF Trace, Follows

(* A block without a known successor runs itself.                          *)
LEMMA ShortestChain ==
    ASSUME NEW view, LinksToBlocks(view), NEW t \in TBs, view[t].next = NoTB
    PROVE  /\ t \in Ending(view)[NumTBs]
           /\ Trace(view, t) = view[t].ids
<1>1. NumTBs \in 1..NumTBs
  BY TBsFacts
<1>2. t \in Ending(view)[NumTBs]
  BY <1>1, EndingFacts DEF Before
<1>3. Traces(view)[NumTBs][t] = view[t].ids
  BY <1>1, RunAt DEF RunsNext
<1> QED
  BY <1>2, <1>3 DEF Trace

-----------------------------------------------------------------------------
(* A block without a successor runs to the end of its chain in the file.   *)

LEMMA RunningFacts ==
    ASSUME NEW ids, NEW linked \in [Jumps -> BOOLEAN], NEW target,
           NEW next \in [Jumps -> TBs \cup {NoTB}]
    PROVE  LET r == Running(ids, linked, target, next) IN
           /\ r.ids = ids
           /\ r.next \in TBs \cup {NoTB}
           /\ (\A d \in Jumps : ~ linked[d]) => r.next = NoTB
           /\ \A d \in Jumps : linked[d] /\ ~ linked[1 - d] /\ next[d] # NoTB
                => r.jump = target[d] /\ r.next = next[d]
<1> DEFINE only == {d \in Jumps : linked[d] /\ ~ linked[1 - d] /\ next[d] # NoTB}
           r == Running(ids, linked, target, next)
           e == CHOOSE d \in only : TRUE
<1>1. /\ r.ids = ids
      /\ only = {} => r.next = NoTB
      /\ only # {} => r.jump = target[e] /\ r.next = next[e]
  BY DEF Running
<1>2. only # {} => e \in only
  OBVIOUS
<1>3. only \subseteq Jumps /\ \A d \in only : next[d] \in TBs \cup {NoTB}
  OBVIOUS
<1>4. (\A d \in Jumps : ~ linked[d]) => only = {}
  OBVIOUS
<1>5. \A d \in Jumps : linked[d] /\ ~ linked[1 - d] /\ next[d] # NoTB => only = {d}
  BY DEF Jumps
<1> HIDE DEF only, r, e
<1>6. \A d \in Jumps : only = {d} => e = d
  BY <1>2
<1>7. r.next \in TBs \cup {NoTB}
  BY <1>1, <1>2, <1>3
<1>8. \A d \in Jumps : linked[d] /\ ~ linked[1 - d] /\ next[d] # NoTB
            => r.jump = target[d] /\ r.next = next[d]
  BY <1>1, <1>5, <1>6
<1> QED
  BY <1>1, <1>4, <1>7, <1>8 DEF r

LEMMA FileViewFacts ==
    ASSUME TypeOK
    PROVE  /\ LinksToBlocks(FileView)
           /\ \A t \in TBs :
                /\ FileView[t].ids = FileIds(t)
                /\ (\A d \in Jumps : ~ file.linked[t][d]) => FileView[t].next = NoTB
                /\ \A d \in Jumps :
                    file.linked[t][d] /\ ~ file.linked[t][1 - d] /\ file.next[t][d] # NoTB
                        => /\ FileView[t].jump = file.target[t][d]
                           /\ FileView[t].next = file.next[t][d]
<1>1. ASSUME NEW t \in TBs
      PROVE  /\ FileView[t].next \in TBs \cup {NoTB}
             /\ FileView[t].ids = FileIds(t)
             /\ (\A d \in Jumps : ~ file.linked[t][d]) => FileView[t].next = NoTB
             /\ \A d \in Jumps :
                    file.linked[t][d] /\ ~ file.linked[t][1 - d] /\ file.next[t][d] # NoTB
                        => /\ FileView[t].jump = file.target[t][d]
                           /\ FileView[t].next = file.next[t][d]
  <2>1. FileView[t] = Running(FileIds(t), file.linked[t], file.target[t], file.next[t])
    BY DEF FileView, InFile
  <2>2. file.linked[t] \in [Jumps -> BOOLEAN] /\ file.next[t] \in [Jumps -> TBs \cup {NoTB}]
    BY FileFacts
  <2> QED
    BY <2>1, <2>2, RunningFacts
<1> QED
  BY <1>1 DEF LinksToBlocks

(* A block that may be cut leads to one that ends, which is not cut; the   *)
(* others are in the cut file as in the file.                              *)
LEMMA CutViewFacts ==
    ASSUME TypeOK
    PROVE  /\ LinksToBlocks(CutView)
           /\ \A t \in TBs :
                /\ ~ MayBeCut(t) => CutView[t] = FileView[t]
                /\ MayBeCut(t) =>
                    /\ CutView[t].ids = SubSeq(FileView[t].ids, 1, FileView[t].jump)
                    /\ CutView[t].next = NoTB
                    /\ FileView[t].next \in TBs
                    /\ FileView[FileView[t].next].next = NoTB
                    /\ CutView[FileView[t].next] = FileView[FileView[t].next]
<1>1. LinksToBlocks(FileView)
  BY FileViewFacts
<1>2. ASSUME NEW t \in TBs, ~ MayBeCut(t)
      PROVE  CutView[t] = FileView[t]
  BY <1>2 DEF CutView
<1>3. ASSUME NEW t \in TBs, MayBeCut(t)
      PROVE  /\ CutView[t].ids = SubSeq(FileView[t].ids, 1, FileView[t].jump)
             /\ CutView[t].next = NoTB
             /\ FileView[t].next \in TBs
             /\ FileView[FileView[t].next].next = NoTB
             /\ CutView[FileView[t].next] = FileView[FileView[t].next]
  <2>1. /\ CutView[t].ids = SubSeq(FileView[t].ids, 1, FileView[t].jump)
        /\ CutView[t].next = NoTB
    BY <1>3 DEF CutView
  <2>2. PICK v : v = FileView[t].next
    OBVIOUS
  <2>3. v \in TBs /\ \A d \in Jumps : ~ file.linked[v][d]
    BY <1>1, <1>3, <2>2 DEF MayBeCut, LinksToBlocks
  <2>4. FileView[v].next = NoTB
    BY <2>3, FileViewFacts
  <2>5. ~ MayBeCut(v)
    BY <2>4 DEF MayBeCut
  <2> QED
    BY <1>2, <2>1, <2>2, <2>3, <2>4, <2>5
<1>4. LinksToBlocks(CutView)
  BY <1>1, <1>2, <1>3 DEF LinksToBlocks
<1> QED
  BY <1>2, <1>3, <1>4

LEMMA CutEnds ==
    ASSUME TypeOK, NEW n \in 0..NumTBs
    PROVE  Ending(FileView)[n] \subseteq Ending(CutView)[n]
<1> DEFINE E == Ending(FileView)
           C == Ending(CutView)
           T == {k \in Nat : k <= NumTBs => E[k] \subseteq C[k]}
<1>1. /\ E[0] = {}
      /\ \A k \in 1..NumTBs : E[k] = {u \in TBs : FileView[u].next = NoTB
                                                \/ FileView[u].next \in E[k - 1]}
  BY EndingUnfold
<1>2. \A k \in 1..NumTBs : C[k] = {u \in TBs : CutView[u].next = NoTB
                                             \/ CutView[u].next \in C[k - 1]}
  BY EndingUnfold
<1> HIDE DEF E, C
<1>3. 0 \in T
  BY <1>1
<1>4. ASSUME NEW k \in T
      PROVE  k + 1 \in T
  <2>1. SUFFICES ASSUME k + 1 <= NumTBs, NEW u \in E[k + 1] PROVE u \in C[k + 1]
    OBVIOUS
  <2>2. k + 1 \in 1..NumTBs /\ (k + 1) - 1 = k /\ k <= NumTBs
    BY <2>1, TBsFacts
  <2>3. u \in TBs /\ (FileView[u].next = NoTB \/ FileView[u].next \in E[k])
    BY <1>1, <2>2
  <2>4. E[k] \subseteq C[k]
    BY <2>2
  <2>5. CutView[u].next = NoTB \/ CutView[u].next = FileView[u].next
    BY <2>3, CutViewFacts
  <2> QED
    BY <1>2, <2>2, <2>3, <2>4, <2>5
<1>5. T = Nat
  <2>1. T \in SUBSET Nat
    OBVIOUS
  <2> HIDE DEF T
  <2> QED
    BY <1>3, <1>4, <2>1, NatInduct
<1>6. n \in T /\ n <= NumTBs
  BY <1>5, TBsFacts
<1> QED
  BY <1>6 DEF E, C

(* TracesInv of the next state, in terms of the file of this one.          *)
LEMMA NextTracesInv ==
    ASSUME file' = file,
           \A t \in TBs : NoSuccessor(t)' =>
                /\ t \in Ending(FileView)[NumTBs]
                /\ IsDecoded(t)' => Ids(tbs'[t].insns) \in {Trace(FileView, t), Trace(CutView, t)}
    PROVE  TracesInv'
<1>1. FileView' = FileView
  <2>1. \A t \in TBs : FileIds(t)' = FileIds(t)
    BY DEF FileIds
  <2>2. ASSUME NEW t \in TBs
        PROVE  InFile(t)' = InFile(t)
    <3>1. InFile(t)' = Running(FileIds(t)', file'.linked[t], file'.target[t], file'.next[t])
      BY DEF InFile, Running
    <3> QED
      BY <2>1, <3>1 DEF InFile
  <2> QED
    BY <2>2 DEF FileView
<1>2. Ending(FileView)' = Ending(FileView)
  <2>1. Ending(FileView)' = Ending(FileView')
    BY DEF Ending
  <2> QED
    BY <1>1, <2>1
<1>3. CutView' = CutView
  <2>1. \A t \in TBs : MayBeCut(t)' <=> MayBeCut(t)
    BY <1>1 DEF MayBeCut
  <2> QED
    BY <1>1, <2>1 DEF CutView
<1>4. ASSUME NEW t \in TBs
      PROVE  Trace(FileView, t)' = Trace(FileView, t) /\ Trace(CutView, t)' = Trace(CutView, t)
  <2>1. Trace(FileView, t)' = Trace(FileView', t) /\ Trace(CutView, t)' = Trace(CutView', t)
    BY DEF Trace, Traces
  <2> QED
    BY <1>1, <1>3, <2>1
<1>5. \A t \in TBs : MemoryIds(t)' = Ids(tbs'[t].insns)
  BY DEF MemoryIds, Ids
<1> QED
  BY <1>2, <1>4, <1>5 DEF TracesInv

LEMMA InitTraces == Init => TracesInv
<1> SUFFICES ASSUME Init PROVE TracesInv
  OBVIOUS
<1>1. TypeOK
  BY InitOK DEF IndInv
<1>2. ASSUME NEW t \in TBs, NoSuccessor(t)
      PROVE  t \in Ending(FileView)[NumTBs] /\ ~ IsDecoded(t)
  <2>1. \A d \in Jumps : ~ file.linked[t][d]
    BY <1>2 DEF Init, Constructed, NoSuccessor
  <2>2. FileView[t].next = NoTB
    BY <1>1, <2>1, FileViewFacts
  <2>3. t \in Ending(FileView)[NumTBs]
    BY <1>1, <2>2, FileViewFacts, ShortestChain
  <2>4. ~ IsDecoded(t)
    BY <1>1, FileFacts DEF Init, IsDecoded
  <2> QED
    BY <2>3, <2>4
<1> QED
  BY <1>2 DEF TracesInv

LEMMA PrepareKeepsTraces ==
    ASSUME IndInv, TracesInv, Prepare
    PROVE  TracesInv'
<1>1. /\ TypeOK /\ BlocksOK
      /\ step = "prepare" /\ step' = "unify" /\ UNCHANGED <<file, seg>>
      /\ tbs' = [t \in TBs |-> IF t \in BlocksOf(seg) THEN Decoded(t) ELSE tbs[t]]
  BY DEF IndInv, Prepare
<1>2. ASSUME NEW t \in TBs, NoSuccessor(t)', t \in BlocksOf(seg)
      PROVE  /\ t \in Ending(FileView)[NumTBs]
             /\ Ids(tbs'[t].insns) = Trace(FileView, t)
  <2>1. ~ IsDecoded(t)
    BY <1>1, <1>2, FileFacts DEF IsDecoded, BlocksOf, TypeOK
  <2>2. Unread(t) /\ tbs'[t] = Decoded(t)
    BY <1>1, <1>2, <2>1 DEF BlocksOK
  <2>3. tbs'[t].insns = Code(t) /\ tbs'[t].linked = file.linked[t]
    BY <1>1, <2>2, DecodedBlock
  <2>4. \A d \in Jumps : ~ file.linked[t][d]
    BY <1>2, <2>3 DEF NoSuccessor
  <2>5. FileView[t].next = NoTB /\ FileView[t].ids = FileIds(t) /\ LinksToBlocks(FileView)
    BY <1>1, <2>4, FileViewFacts
  <2>6. t \in Ending(FileView)[NumTBs] /\ Trace(FileView, t) = FileIds(t)
    BY <2>5, ShortestChain
  <2>7. Ids(Code(t)) = FileIds(t)
    BY <1>1, FileIdsFacts
  <2> QED
    BY <2>3, <2>6, <2>7
<1>3. ASSUME NEW t \in TBs, NoSuccessor(t)', t \notin BlocksOf(seg)
      PROVE  /\ t \in Ending(FileView)[NumTBs]
             /\ IsDecoded(t)' => Ids(tbs'[t].insns) \in {Trace(FileView, t), Trace(CutView, t)}
  <2>1. tbs'[t] = tbs[t]
    BY <1>1, <1>3
  <2>2. NoSuccessor(t)
    BY <1>3, <2>1 DEF NoSuccessor
  <2>3. IsDecoded(t)' => IsDecoded(t)
    BY <1>1, <1>3, FileFacts DEF IsDecoded, BlocksOf, TypeOK
  <2>4. MemoryIds(t) = Ids(tbs'[t].insns)
    BY <2>1 DEF MemoryIds, Ids
  <2> QED
    BY <2>2, <2>3, <2>4 DEF TracesInv
<1> QED
  BY <1>1, <1>2, <1>3, NextTracesInv

LEMMA UnifyKeepsTraces ==
    ASSUME IndInv, TracesInv, Unify
    PROVE  TracesInv'
<1>1. /\ TypeOK /\ BlocksOK /\ BranchesIndexed
      /\ stack # <<>> /\ CanUnify(Top.tb) /\ UNCHANGED <<file, seg>>
  BY DEF IndInv, Unify, At
<1>2. PICK t \in TBs : t = Top.tb
  BY <1>1, StackFacts
<1>3. PICK d \in Jumps :
            LET src == TheOnlyOneSuccessor(t) IN
            /\ tbs[t].linked[d] /\ ~ tbs[t].linked[1 - d] /\ 1 - d \in Jumps
            /\ src = branch[t][d] /\ src \in TBs /\ src # t
            /\ NoSuccessor(src)
            /\ IsDecoded(t) /\ AsRead(t)
            /\ BranchInsnIndex(t) = file.target[t][d]
            /\ BranchInsnIndex(t) \in 0..Len(tbs[t].insns) - 1
            /\ JumpIsB(t)
  BY <1>1, <1>2, UnifyFacts
<1>4. PICK src \in TBs : src = TheOnlyOneSuccessor(t) /\ NoSuccessor(src) /\ src # t
  BY <1>3
<1>5. PICK start \in 0..Len(tbs[t].insns) - 1 : start = BranchInsnIndex(t)
  BY <1>3
<1>6. tbs' = [tbs EXCEPT ![t] = Unified(tbs[t], tbs[src], start)] /\ step' = step
  BY <1>2, <1>3, <1>4, <1>5 DEF Unify
<1>7. /\ tbs[t] \in TBType /\ tbs[src] \in TBType /\ AllBranchesIndexed(tbs[t])
      /\ tbs \in [TBs -> TBType]
  BY <1>1 DEF TypeOK, BranchesIndexed
<1>8. PICK u : u = Unified(tbs[t], tbs[src], start)
  OBVIOUS
<1>9. Replaced(tbs[t], tbs[src], start, u)
  BY <1>7, <1>8, UnifiedBlock
<1>10. tbs'[t] = u /\ \A v \in TBs : v # t => tbs'[v] = tbs[v]
  BY <1>6, <1>7, <1>8
<1>11. /\ tbs[t].insns = Code(t) /\ Ids(tbs[t].insns) = FileIds(t)
       /\ file.linked[t][d] /\ ~ file.linked[t][1 - d] /\ file.next[t][d] = src
       /\ file.target[t][d] = start
  <2>1. tbs[t].insns = Code(t) /\ tbs[t].linked = file.linked[t] /\ branch[t][d] = file.next[t][d]
    BY <1>3 DEF AsRead
  <2> QED
    BY <1>1, <1>3, <1>4, <1>5, <2>1, FileIdsFacts
<1>12. /\ LinksToBlocks(FileView)
       /\ FileView[t].next = src /\ FileView[t].jump = start /\ FileView[t].ids = FileIds(t)
  <2>1. src # NoTB
    BY TBsFacts
  <2> QED
    BY <1>1, <1>11, <2>1, FileViewFacts
<1>13. src \in Ending(FileView)[NumTBs]
  BY <1>4 DEF TracesInv
<1>14. /\ t \in Ending(FileView)[NumTBs]
       /\ Trace(FileView, t) = SubSeq(FileIds(t), 1, start) \o Trace(FileView, src)
  <2>1. Follows(FileView, src, t)
    BY <1>12, <1>13, LongerChain
  <2> QED
    BY <1>12, <2>1 DEF Follows
<1>15. Ids(u.insns) = SubSeq(FileIds(t), 1, start) \o Ids(tbs[src].insns)
  BY <1>7, <1>9, <1>11, ReplacedIds
<1>16. ASSUME IsDecoded(src)
       PROVE  Ids(u.insns) \in {Trace(FileView, t), Trace(CutView, t)}
  <2>1. Ids(tbs[src].insns) \in {Trace(FileView, src), Trace(CutView, src)}
    BY <1>4, <1>16 DEF TracesInv, MemoryIds, Ids
  <2>2. CASE Ids(tbs[src].insns) = Trace(FileView, src)
    BY <1>14, <1>15, <2>2
  <2>3. CASE Ids(tbs[src].insns) = Trace(CutView, src) /\ ~ MayBeCut(t)
    <3>1. CutView[t] = FileView[t] /\ LinksToBlocks(CutView)
      BY <1>1, <2>3, CutViewFacts
    <3>2. src \in Ending(CutView)[NumTBs]
      <4>1. NumTBs \in 0..NumTBs
        BY TBsFacts
      <4> QED
        BY <1>1, <1>13, <4>1, CutEnds
    <3>3. Follows(CutView, src, t)
      BY <1>12, <3>1, <3>2, LongerChain
    <3> QED
      BY <1>12, <1>15, <2>3, <3>1, <3>3 DEF Follows
  <2>4. CASE Ids(tbs[src].insns) = Trace(CutView, src) /\ MayBeCut(t)
    <3>1. /\ FileView[src].next = NoTB /\ CutView[src] = FileView[src]
          /\ LinksToBlocks(CutView)
      BY <1>1, <1>12, <2>4, CutViewFacts
    <3>2. Trace(CutView, src) = FileView[src].ids /\ Trace(FileView, src) = FileView[src].ids
      BY <1>12, <3>1, ShortestChain
    <3> QED
      BY <1>14, <1>15, <2>4, <3>2
  <2> QED
    BY <2>1, <2>2, <2>3, <2>4
<1>17. ASSUME ~ IsDecoded(src)
       PROVE  Ids(u.insns) \in {Trace(FileView, t), Trace(CutView, t)}
  <2>1. tbs[src].insns = <<>> /\ \A e \in Jumps : ~ file.linked[src][e]
    <3>1. tbs[src] = Constructed(src)
      BY <1>1, <1>17 DEF BlocksOK, Unread
    <3>2. tbs[src].insns = <<>> /\ tbs[src].linked = file.linked[src]
      BY <3>1 DEF Constructed
    <3>3. \A e \in Jumps : ~ tbs[src].linked[e]
      BY <1>4 DEF NoSuccessor
    <3> QED
      BY <3>2, <3>3
  <2>2. file.seg[src] > file.seg[t]
    BY <1>1, <1>3, <1>17, FileFacts DEF IsDecoded, TypeOK
  <2>3. MayBeCut(t)
    <3>1. src # NoTB
      BY TBsFacts
    <3> QED
      BY <1>12, <2>1, <2>2, <3>1 DEF MayBeCut
  <2>4. CutView[t].ids = SubSeq(FileIds(t), 1, start) /\ CutView[t].next = NoTB
        /\ LinksToBlocks(CutView)
    BY <1>1, <1>12, <2>3, CutViewFacts
  <2>5. Trace(CutView, t) = SubSeq(FileIds(t), 1, start)
    BY <2>4, ShortestChain
  <2>6. SubSeq(FileIds(t), 1, start) \o Ids(tbs[src].insns) = SubSeq(FileIds(t), 1, start)
    <3>1. Ids(tbs[src].insns) = <<>>
      BY <2>1 DEF Ids
    <3> DEFINE q == SubSeq(Ids(tbs[t].insns), 1, start)
    <3>2. q \in Seq(Nat)
      <4>1. tbs[t].insns \in Seq(InsnType) /\ Len(tbs[t].insns) \in Nat
        BY <1>7, LenProperties DEF TBType, InsnType
      <4>2. Ids(tbs[t].insns) \in Seq(Nat) /\ Len(Ids(tbs[t].insns)) = Len(tbs[t].insns)
        BY <4>1, IdsFacts
      <4> QED
        BY <4>1, <4>2, PrefixFacts
    <3>3. q \o <<>> = q
      BY <3>2, ConcatEmptySeq
    <3> QED
      BY <1>11, <3>1, <3>3 DEF q
  <2> QED
    BY <1>15, <2>5, <2>6
<1>18. Ids(u.insns) \in {Trace(FileView, t), Trace(CutView, t)}
  BY <1>16, <1>17
<1>19. ASSUME NEW v \in TBs, NoSuccessor(v)'
       PROVE  /\ v \in Ending(FileView)[NumTBs]
              /\ IsDecoded(v)' => Ids(tbs'[v].insns) \in {Trace(FileView, v), Trace(CutView, v)}
  <2>1. CASE v = t
    BY <1>10, <1>14, <1>18, <2>1
  <2>2. CASE v # t
    <3>1. tbs'[v] = tbs[v]
      BY <1>10, <2>2
    <3>2. NoSuccessor(v) /\ (IsDecoded(v)' => IsDecoded(v))
      BY <1>1, <1>6, <1>19, <3>1 DEF NoSuccessor, IsDecoded
    <3>3. MemoryIds(v) = Ids(tbs'[v].insns)
      BY <3>1 DEF MemoryIds, Ids
    <3> QED
      BY <3>2, <3>3 DEF TracesInv
  <2> QED
    BY <2>1, <2>2
<1> QED
  BY <1>1, <1>19, NextTracesInv

LEMMA StayKeepsTraces ==
    ASSUME TracesInv, UNCHANGED <<file, tbs>>, \A t \in TBs : IsDecoded(t)' <=> IsDecoded(t)
    PROVE  TracesInv'
<1>1. ASSUME NEW t \in TBs, NoSuccessor(t)'
      PROVE  /\ t \in Ending(FileView)[NumTBs]
             /\ IsDecoded(t)' => Ids(tbs'[t].insns) \in {Trace(FileView, t), Trace(CutView, t)}
  <2>1. NoSuccessor(t)
    BY <1>1 DEF NoSuccessor
  <2>2. MemoryIds(t) = Ids(tbs'[t].insns)
    BY DEF MemoryIds, Ids
  <2> QED
    BY <2>1, <2>2 DEF TracesInv
<1> QED
  BY <1>1, NextTracesInv

LEMMA StepKeepsTraces ==
    ASSUME IndInv, TracesInv, [Next]_vars
    PROVE  TracesInv'
<1>1. CASE Prepare
  BY <1>1, PrepareKeepsTraces
<1>2. CASE Unify
  BY <1>2, UnifyKeepsTraces
<1>3. CASE StartEntry \/ AlreadySeen \/ Enter \/ VisitFalse \/ VisitTrue \/ Leave
              \/ UNCHANGED vars
  <2>1. UNCHANGED <<file, tbs, seg, step>>
    BY <1>3 DEF StartEntry, AlreadySeen, Enter, VisitFalse, VisitTrue, Leave, vars
  <2>2. \A t \in TBs : IsDecoded(t)' <=> IsDecoded(t)
    BY <2>1 DEF IsDecoded
  <2> QED
    BY <2>1, <2>2, StayKeepsTraces
<1>4. CASE NextSegment
  <2>1. \A t \in TBs : IsDecoded(t)' <=> IsDecoded(t)
    BY <1>4, FileFacts DEF NextSegment, IsDecoded, IndInv, TypeOK
  <2>2. UNCHANGED <<file, tbs>>
    BY <1>4 DEF NextSegment
  <2> QED
    BY <2>1, <2>2, StayKeepsTraces
<1> QED
  BY <1>1, <1>2, <1>3, <1>4 DEF Next, Walk

(* A block that has a recorded jump, or is not decoded yet, runs as in the *)
(* file.                                                                   *)
LEMMA SameRunning ==
    ASSUME NEW ids, NEW linked, NEW target, NEW next, NEW other,
           \A d \in Jumps : linked[d] => next[d] = other[d]
    PROVE  Running(ids, linked, target, next) = Running(ids, linked, target, other)
<1> DEFINE only == {d \in Jumps : linked[d] /\ ~ linked[1 - d] /\ next[d] # NoTB}
           same == {d \in Jumps : linked[d] /\ ~ linked[1 - d] /\ other[d] # NoTB}
           e == CHOOSE d \in only : TRUE
           RunsAs(S, m) == [ids  |-> ids,
                            jump |-> IF S = {} THEN -1 ELSE target[CHOOSE d \in S : TRUE],
                            next |-> IF S = {} THEN NoTB ELSE m[CHOOSE d \in S : TRUE]]
<1>1. only = same
  OBVIOUS
<1>2. only # {} => next[e] = other[e]
  <2>1. only # {} => e \in only
    OBVIOUS
  <2> QED
    BY <2>1
<1>3. /\ Running(ids, linked, target, next) = RunsAs(only, next)
      /\ Running(ids, linked, target, other) = RunsAs(same, other)
  BY DEF Running
<1> HIDE DEF only, same
<1>4. RunsAs(only, next) = RunsAs(only, other)
  BY <1>2
<1> QED
  BY <1>1, <1>3, <1>4

LEMMA MemoryViewFacts ==
    ASSUME TypeOK, BlocksOK, NEW t \in TBs
    PROVE  /\ IsDecoded(t) /\ NoSuccessor(t) =>
                MemoryView[t].ids = MemoryIds(t) /\ MemoryView[t].next = NoTB
           /\ ~ (IsDecoded(t) /\ NoSuccessor(t)) => MemoryView[t] = FileView[t]
<1>1. ASSUME IsDecoded(t)
      PROVE  MemoryView[t] = Running(MemoryIds(t), tbs[t].linked, tbs[t].target, branch[t])
  BY <1>1 DEF MemoryView, InMemory
<1>2. ASSUME IsDecoded(t), NoSuccessor(t)
      PROVE  MemoryView[t].ids = MemoryIds(t) /\ MemoryView[t].next = NoTB
  <2>1. tbs[t].linked \in [Jumps -> BOOLEAN] /\ branch[t] \in [Jumps -> TBs \cup {NoTB}]
    BY DEF TypeOK, TBType
  <2>2. \A d \in Jumps : ~ tbs[t].linked[d]
    BY <1>2 DEF NoSuccessor
  <2> QED
    BY <1>1, <1>2, <2>1, <2>2, RunningFacts
<1>3. ASSUME IsDecoded(t), ~ NoSuccessor(t)
      PROVE  MemoryView[t] = FileView[t]
  <2>1. AsRead(t)
    BY <1>3 DEF BlocksOK
  <2>2. MemoryIds(t) = FileIds(t)
    BY <2>1, FileIdsFacts DEF AsRead, MemoryIds, Ids
  <2>3. MemoryView[t] = Running(FileIds(t), file.linked[t], file.target[t], branch[t])
    BY <1>1, <1>3, <2>1, <2>2 DEF AsRead
  <2>4. \A d \in Jumps : file.linked[t][d] => branch[t][d] = file.next[t][d]
    BY <2>1 DEF AsRead
  <2>5. FileView[t] = Running(FileIds(t), file.linked[t], file.target[t], file.next[t])
    BY DEF FileView, InFile
  <2> QED
    BY <2>3, <2>4, <2>5, SameRunning
<1>4. ASSUME ~ IsDecoded(t)
      PROVE  MemoryView[t] = FileView[t]
  BY <1>4 DEF MemoryView, InMemory, FileView
<1> QED
  BY <1>2, <1>3, <1>4

LEMMA EndsEarly ==
    ASSUME NEW view, LinksToBlocks(view), NEW n \in 0..NumTBs
    PROVE  Ending(view)[n] \subseteq Ending(view)[NumTBs]
<1> DEFINE E == Ending(view)
           T == {k \in Nat : k <= NumTBs => E[NumTBs - k] \subseteq E[NumTBs]}
<1>1. \A k \in 1..NumTBs : E[k - 1] \subseteq E[k]
  BY EndingFacts
<1> HIDE DEF E
<1>2. 0 \in T
  BY TBsFacts
<1>3. ASSUME NEW k \in T
      PROVE  k + 1 \in T
  <2>1. SUFFICES ASSUME k + 1 <= NumTBs PROVE E[NumTBs - (k + 1)] \subseteq E[NumTBs]
    OBVIOUS
  <2>2. /\ NumTBs - k \in 1..NumTBs /\ (NumTBs - k) - 1 = NumTBs - (k + 1) /\ k <= NumTBs
    BY <2>1, TBsFacts
  <2> QED
    BY <1>1, <2>2
<1>4. T = Nat
  <2>1. T \in SUBSET Nat
    OBVIOUS
  <2> HIDE DEF T
  <2> QED
    BY <1>2, <1>3, <2>1, NatInduct
<1>5. NumTBs - n \in Nat /\ NumTBs - n <= NumTBs /\ NumTBs - (NumTBs - n) = n
  BY TBsFacts
<1>6. NumTBs - n \in T
  BY <1>4, <1>5
<1> QED
  BY <1>5, <1>6 DEF E

(* A chain that ends is the same down to the first block unified, and that *)
(* one runs the rest, or all of the rest but a block of a later segment.   *)
LEMMA EndingTraces ==
    ASSUME TypeOK, BlocksOK, TracesInv,
           NEW t \in Ending(FileView)[NumTBs]
    PROVE  Trace(MemoryView, t) \in {Trace(FileView, t), Trace(CutView, t)}
<1> DEFINE E == Ending(FileView)
           M == Traces(MemoryView)
           F == Traces(FileView)
           C == Traces(CutView)
           T == {n \in Nat : n <= NumTBs =>
                    \A u \in E[n] : M[n][u] \in {F[n][u], C[n][u]}}
<1>1. LinksToBlocks(FileView) /\ LinksToBlocks(CutView)
  BY FileViewFacts, CutViewFacts
<1>2. /\ E[0] = {}
      /\ \A n \in 1..NumTBs : E[n] = {u \in TBs : FileView[u].next = NoTB
                                                \/ FileView[u].next \in E[n - 1]}
  BY EndingUnfold
<1>3. \A n \in 1..NumTBs : \A u \in TBs :
            /\ RunsNext(MemoryView, n, u) /\ RunsNext(FileView, n, u) /\ RunsNext(CutView, n, u)
  BY RunAt
<1>4. 0 \in T
  BY <1>2
<1>5. ASSUME NEW n \in T
      PROVE  n + 1 \in T
  <2>1. SUFFICES ASSUME n + 1 <= NumTBs, NEW u \in E[n + 1]
                 PROVE  M[n + 1][u] \in {F[n + 1][u], C[n + 1][u]}
    OBVIOUS
  <2>2. /\ n + 1 \in 1..NumTBs /\ n + 1 \in 0..NumTBs /\ (n + 1) - 1 = n /\ n <= NumTBs
        /\ NumTBs \in n + 1..NumTBs
    BY <2>1, TBsFacts
  <2>3. u \in TBs /\ (FileView[u].next = NoTB \/ FileView[u].next \in E[n])
    BY <1>2, <2>2
  <2>4. RunsNext(MemoryView, n + 1, u) /\ RunsNext(FileView, n + 1, u) /\ RunsNext(CutView, n + 1, u)
    BY <1>3, <2>2, <2>3
  <2>5. CASE IsDecoded(u) /\ NoSuccessor(u)
    <3>1. MemoryView[u].ids = MemoryIds(u) /\ MemoryView[u].next = NoTB
      BY <2>3, <2>5, MemoryViewFacts
    <3>2. MemoryIds(u) \in {Trace(FileView, u), Trace(CutView, u)}
      BY <2>3, <2>5 DEF TracesInv
    <3>3. F[NumTBs][u] = F[n + 1][u]
      BY <1>1, <2>2, EndedChains
    <3>4. u \in Ending(CutView)[n + 1]
      BY <2>2, CutEnds
    <3>5. C[NumTBs][u] = C[n + 1][u]
      BY <1>1, <2>2, <3>4, EndedChains
    <3>6. M[n + 1][u] = MemoryIds(u)
      BY <2>4, <3>1 DEF RunsNext
    <3> QED
      BY <3>2, <3>3, <3>5, <3>6 DEF Trace
  <2>6. CASE ~ (IsDecoded(u) /\ NoSuccessor(u))
    <3>1. MemoryView[u] = FileView[u]
      BY <2>3, <2>6, MemoryViewFacts
    <3>2. CASE FileView[u].next = NoTB
      BY <2>4, <3>1, <3>2 DEF RunsNext
    <3>3. CASE FileView[u].next # NoTB
      <4>1. PICK v \in E[n] : v = FileView[u].next
        BY <2>3, <3>3
      <4>2. v \in TBs /\ v # NoTB
        BY <1>1, <2>3, <3>3, <4>1 DEF LinksToBlocks
      <4> DEFINE start == SubSeq(FileView[u].ids, 1, FileView[u].jump)
      <4>3. M[n + 1][u] = start \o M[n][v] /\ F[n + 1][u] = start \o F[n][v]
        BY <2>2, <2>4, <3>1, <3>3, <4>1 DEF RunsNext
      <4>4. M[n][v] \in {F[n][v], C[n][v]}
        BY <2>2
      <4> HIDE DEF start
      <4>5. CASE M[n][v] = F[n][v]
        BY <4>3, <4>5
      <4>6. CASE M[n][v] = C[n][v] /\ ~ MayBeCut(u)
        <5>1. CutView[u] = FileView[u]
          BY <2>3, <4>6, CutViewFacts
        <5>2. C[n + 1][u] = start \o C[n][v]
          BY <2>2, <2>4, <3>3, <4>1, <5>1 DEF RunsNext, start
        <5> QED
          BY <4>3, <4>6, <5>2
      <4>7. CASE M[n][v] = C[n][v] /\ MayBeCut(u)
        <5>1. FileView[v].next = NoTB /\ CutView[v] = FileView[v]
          BY <2>3, <4>1, <4>7, CutViewFacts
        <5>2. n \in 1..NumTBs
          <6>1. n # 0
            BY <1>2
          <6> QED
            BY <2>2, <6>1
        <5>3. RunsNext(FileView, n, v) /\ RunsNext(CutView, n, v)
          BY <1>3, <4>2, <5>2
        <5>4. F[n][v] = C[n][v]
          BY <5>1, <5>3 DEF RunsNext
        <5> QED
          BY <4>3, <4>7, <5>4
      <4> QED
        BY <4>4, <4>5, <4>6, <4>7
    <3> QED
      BY <3>2, <3>3
  <2> QED
    BY <2>5, <2>6
<1>6. T = Nat
  <2>1. T \in SUBSET Nat
    OBVIOUS
  <2> HIDE DEF T
  <2> QED
    BY <1>4, <1>5, <2>1, NatInduct
<1>7. NumTBs \in T /\ NumTBs <= NumTBs
  BY <1>6, TBsFacts
<1> QED
  BY <1>7 DEF Trace

(* No block of a chain that has no end is ever unified.                    *)
LEMMA EndlessTraces ==
    ASSUME TypeOK, BlocksOK, TracesInv, NEW t \in TBs, t \notin Ending(FileView)[NumTBs]
    PROVE  Trace(MemoryView, t) = Trace(FileView, t)
<1> DEFINE S == TBs \ Ending(FileView)[NumTBs]
           T == {n \in Nat : n <= NumTBs =>
                    \A u \in S : Traces(MemoryView)[n][u] = Traces(FileView)[n][u]}
<1>1. LinksToBlocks(FileView)
  BY FileViewFacts
<1>2. \A u \in S : FileView[u].next \in S /\ FileView[u].next # NoTB
  BY <1>1, EndingFacts DEF Before, LinksToBlocks
<1>3. \A u \in S : MemoryView[u] = FileView[u]
  BY MemoryViewFacts DEF TracesInv
<1>4. 0 \in T
  BY TracesUnfold
<1>5. ASSUME NEW n \in T
      PROVE  n + 1 \in T
  <2>1. SUFFICES ASSUME n + 1 <= NumTBs, NEW u \in S
                 PROVE  Traces(MemoryView)[n + 1][u] = Traces(FileView)[n + 1][u]
    OBVIOUS
  <2>2. n + 1 \in 1..NumTBs /\ (n + 1) - 1 = n /\ n <= NumTBs /\ u \in TBs
    BY <2>1, TBsFacts
  <2>3. RunsNext(MemoryView, n + 1, u) /\ RunsNext(FileView, n + 1, u)
    BY <2>2, RunAt
  <2>4. PICK v \in S : v = FileView[u].next /\ v # NoTB
    BY <1>2
  <2>5. Traces(MemoryView)[n][v] = Traces(FileView)[n][v]
    BY <2>2
  <2> QED
    BY <1>3, <2>2, <2>3, <2>4, <2>5, ZenonT(40) DEF RunsNext
<1>6. T = Nat
  <2>1. T \in SUBSET Nat
    OBVIOUS
  <2> HIDE DEF T
  <2> QED
    BY <1>4, <1>5, <2>1, NatInduct
<1>7. NumTBs \in T /\ NumTBs <= NumTBs /\ t \in S
  BY <1>6, TBsFacts
<1> QED
  BY <1>7 DEF Trace

(* What runs from a block, whichever, is at every moment of the walk what  *)
(* ran before the driver touched the file (TU_Vistor.cpp:26-103), except   *)
(* that the chain may lack the code of its last block, if that lies in a   *)
(* later segment than the block which leads to it (driver.cpp:79-96).      *)
THEOREM TracesAlwaysKept == Spec => []TracesKept
<1>1. IndInv /\ TracesInv => TracesKept
  <2> SUFFICES ASSUME IndInv, TracesInv, NEW t \in TBs
               PROVE  Trace(MemoryView, t) \in {Trace(FileView, t), Trace(CutView, t)}
    BY DEF TracesKept
  <2>1. TypeOK /\ BlocksOK
    BY DEF IndInv
  <2>2. CASE t \in Ending(FileView)[NumTBs]
    BY <2>1, <2>2, EndingTraces
  <2>3. CASE t \notin Ending(FileView)[NumTBs]
    BY <2>1, <2>3, EndlessTraces
  <2> QED
    BY <2>2, <2>3
<1>2. IndInv /\ TracesInv /\ [Next]_vars => TracesInv'
  BY StepKeepsTraces
<1> QED
  BY <1>1, <1>2, InitTraces, Inductive, PTL DEF Spec

-----------------------------------------------------------------------------
(* Nothing missed.                                                         *)

DistinctKeys == \A t, u \in TBs : file.key[t] = file.key[u] => t = u

LEMMA KeysDistinct ==
    ASSUME TypeOK, Cardinality(Range(file.key)) = NumTBs
    PROVE  DistinctKeys
<1> DEFINE T == Range(file.key)
<1>1. file.key \in [TBs -> Nat]
  BY DEF TypeOK, WellFormedFile, FileType
<1>2. IsFiniteSet(TBs) /\ Cardinality(TBs) = NumTBs
  <2>1. NumTBs \in Nat
    BY TBsFacts
  <2> QED
    BY <2>1, FS_Interval DEF TBs
<1>3. file.key \in Surjection(TBs, T)
  <2>1. T = {file.key[t] : t \in TBs}
    BY <1>1 DEF Range
  <2> HIDE DEF T
  <2>2. file.key \in [TBs -> T] /\ \A k \in T : \E t \in TBs : file.key[t] = k
    BY <1>1, <2>1
  <2> QED
    BY <2>2 DEF Surjection
<1>4. file.key \in Injection(TBs, T)
  <2> HIDE DEF T
  <2>1. Cardinality(T) = Cardinality(TBs)
    BY <1>2 DEF T
  <2> QED
    BY <1>2, <1>3, <2>1, FS_Surjection
<1>5. \A t, u \in TBs : file.key[t] = file.key[u] => t = u
  <2> HIDE DEF T
  <2> QED
    BY <1>1, <1>4 DEF Injection, IsInjective
<1> QED
  BY <1>5 DEF DistinctKeys

(* Where the file's links go, once a block is decoded.                     *)
LEMMA LinkFollowed ==
    ASSUME TypeOK, BlocksOK, NEW t \in TBs, IsDecoded(t), ~ NoSuccessor(t),
           NEW d \in Jumps, file.linked[t][d]
    PROVE  branch[t][d] = file.next[t][d]
<1>1. AsRead(t)
  BY DEF BlocksOK
<1> QED
  BY <1>1 DEF AsRead

LEMMA GoesToBlock ==
    ASSUME TypeOK, NEW t \in TBs, NEW u, Goes(t, u), u # NoTB
    PROVE  u \in TBs
BY FileFacts DEF Goes

(* The two functions that tell the jumps apart.                            *)
LEMMA JumpsFacts == 0 \in Jumps /\ 1 \in Jumps /\ \A d \in Jumps : d = 0 \/ d = 1
BY DEF Jumps

(* A block whose only successor ends is one the walk unifies, unless it    *)
(* has been.                                                               *)
LEMMA EndsNextUnified ==
    ASSUME TypeOK, BlocksOK, NEW t \in TBs, IsDecoded(t), EndsNext(t), ~ CanUnify(t)
    PROVE  NoSuccessor(t)
<1> SUFFICES ASSUME ~ NoSuccessor(t)
             PROVE  FALSE
  OBVIOUS
<1>1. AsRead(t)
  BY DEF BlocksOK
<1>2. tbs[t].linked = file.linked[t]
  BY <1>1 DEF AsRead
<1> DEFINE s == InFile(t).next
<1>3. s # NoTB /\ \A d \in Jumps : ~ file.linked[s][d]
  BY DEF EndsNext
<1>4. PICK d \in Jumps : file.linked[t][d] /\ ~ file.linked[t][1 - d] /\ file.next[t][d] # NoTB
  BY <1>3 DEF InFile, Running
<1>5. s = file.next[t][d]
  <2>1. FileView[t].next = file.next[t][d]
    BY <1>4, FileViewFacts
  <2> QED
    BY <2>1 DEF FileView
<1>6. s \in TBs
  BY <1>3, <1>4, <1>5, FileFacts
<1>7. branch[t][d] = s /\ branch[t][1 - d] = NoTB /\ OnlyOneSuccessor(t)
  <2>1. branch[t][d] = s
    BY <1>1, <1>2, <1>4, <1>5 DEF AsRead
  <2>2. 1 - d \in Jumps
    BY DEF Jumps
  <2> QED
    BY <1>2, <1>3, <1>4, <2>1, <2>2 DEF BlocksOK, OnlyOneSuccessor
<1>8. TheOnlyOneSuccessor(t) = s
  <2>1. (d = 0 /\ 1 - d = 1) \/ (d = 1 /\ 1 - d = 0)
    BY DEF Jumps
  <2> QED
    BY <1>3, <1>7, <2>1 DEF TheOnlyOneSuccessor
<1>9. NoSuccessor(s)
  <2> SUFFICES ASSUME ~ NoSuccessor(s)
               PROVE  FALSE
    OBVIOUS
  <2>1. tbs[s].linked = file.linked[s]
    <3> HIDE DEF s
    <3>1. CASE IsDecoded(s)
      BY <1>6, <3>1 DEF BlocksOK, AsRead
    <3>2. CASE ~ IsDecoded(s)
      <4>1. tbs[s] = Constructed(s)
        BY <1>6, <3>2 DEF BlocksOK, Unread
      <4> QED
        BY <4>1 DEF Constructed
    <3> QED
      BY <3>1, <3>2
  <2> QED
    BY <1>3, <2>1 DEF NoSuccessor
<1> QED
  BY <1>7, <1>8, <1>9 DEF CanUnify

-----------------------------------------------------------------------------
(* Blocks without successor.                                               *)

(* What the driver does to blocks: a block loses its successors at most.   *)
Settling ==
    /\ file' = file
    /\ \A t \in TBs : NoSuccessor(t) => NoSuccessor(t)'
    /\ \A t \in TBs : IsDecoded(t) => IsDecoded(t)'
    /\ EndsClosed'

LEMMA BlocksSettled ==
    ASSUME EndsClosed, UNCHANGED <<file, seg, step, tbs>>
    PROVE  /\ Settling
           /\ \A t \in TBs : NoSuccessor(t)' <=> NoSuccessor(t)
           /\ \A t \in TBs : IsDecoded(t)' <=> IsDecoded(t)
<1>1. \A t \in TBs : NoSuccessor(t)' <=> NoSuccessor(t)
  BY DEF NoSuccessor
<1>2. \A t \in TBs : IsDecoded(t)' <=> IsDecoded(t)
  BY DEF IsDecoded
<1>3. \A t, u \in TBs : Goes(t, u)' <=> Goes(t, u)
  BY DEF Goes
<1> QED
  BY <1>1, <1>2, <1>3 DEF Settling, EndsClosed

LEMMA PrepareSettles ==
    ASSUME IndInv, EndsClosed, Prepare
    PROVE  /\ Settling
           /\ \A t \in TBs : IsDecoded(t)' <=> IsDecoded(t) \/ t \in BlocksOf(seg)
<1>0. /\ TypeOK /\ BlocksOK /\ step = "prepare" /\ step' = "unify" /\ seg' = seg /\ file' = file
      /\ tbs' = [t \in TBs |-> IF t \in BlocksOf(seg) THEN Decoded(t) ELSE tbs[t]]
  BY DEF IndInv, Prepare
<1>1. ASSUME NEW t \in TBs
      PROVE  IsDecoded(t)' <=> IsDecoded(t) \/ t \in BlocksOf(seg)
  BY <1>0, FileFacts DEF IsDecoded, BlocksOf, TypeOK
<1>2. ASSUME NEW t \in TBs
      PROVE  NoSuccessor(t)' <=> NoSuccessor(t)
  <2>1. CASE t \in BlocksOf(seg)
    <3>1. ~ IsDecoded(t)
      BY <1>0, <2>1, FileFacts DEF IsDecoded, BlocksOf, TypeOK
    <3>2. Unread(t) /\ tbs'[t] = Decoded(t)
      BY <1>0, <2>1, <3>1 DEF BlocksOK
    <3>3. Decoded(t).linked = file.linked[t] /\ tbs[t].linked = file.linked[t]
      BY <1>0, <3>2, DecodedBlock DEF Unread, Constructed
    <3> QED
      BY <3>2, <3>3 DEF NoSuccessor
  <2>2. CASE t \notin BlocksOf(seg)
    BY <1>0, <2>2 DEF NoSuccessor
  <2> QED
    BY <2>1, <2>2
<1>3. \A t, u \in TBs : Goes(t, u)' <=> Goes(t, u)
  BY <1>0 DEF Goes
<1> QED
  BY <1>0, <1>1, <1>2, <1>3 DEF Settling, EndsClosed

TopEnds == \E t \in TBs : t = Top.tb /\ NoSuccessor(t)'

LEMMA UnifySettles ==
    ASSUME IndInv, EndsClosed, Unify
    PROVE  /\ Settling /\ TopEnds
           /\ \A t \in TBs : IsDecoded(t)' <=> IsDecoded(t)
           /\ stack' = Pop /\ stack # <<>>
           /\ UNCHANGED <<file, seg, step, parented, entries, parents, finished>>
<1>0. /\ TypeOK /\ BlocksOK /\ BranchesIndexed /\ step = "unify" /\ stack # <<>>
      /\ CanUnify(Top.tb)
      /\ UNCHANGED <<file, seg, parented, entries, parents, finished>>
  BY DEF IndInv, Unify, At
<1>1. PICK t \in TBs : t = Top.tb
  BY <1>0, StackFacts
<1> DEFINE src == TheOnlyOneSuccessor(t)
           start == BranchInsnIndex(t)
           u == Unified(tbs[t], tbs[src], start)
<1>2. PICK d \in Jumps :
      /\ tbs[t].linked[d] /\ ~ tbs[t].linked[1 - d] /\ 1 - d \in Jumps
      /\ src = branch[t][d] /\ src \in TBs /\ src # t /\ NoSuccessor(src)
      /\ IsDecoded(t) /\ AsRead(t) /\ JumpIsB(t)
      /\ start \in 0..Len(tbs[t].insns) - 1
  BY <1>0, <1>1, UnifyFacts
<1>3. /\ tbs' = [tbs EXCEPT ![t] = u]
      /\ stack' = Pop
      /\ step' = step
  BY <1>1, <1>2 DEF Unify
<1>4. /\ tbs[t] \in TBType /\ AllBranchesIndexed(tbs[t]) /\ tbs[src] \in TBType
      /\ tbs \in [TBs -> TBType]
  BY <1>0, <1>1, <1>2 DEF TypeOK, BranchesIndexed
<1>2a. PICK successor \in TBs : successor = src
  BY <1>2
<1> HIDE DEF src, start
<1>5. u.linked = tbs[src].linked
  <2>1. tbs[t] \in TBType /\ AllBranchesIndexed(tbs[t]) /\ tbs[src] \in TBType
        /\ start \in 0..Len(tbs[t].insns) - 1 /\ u = Unified(tbs[t], tbs[src], start)
    BY <1>2, <1>4
  <2> HIDE DEF u
  <2>2. Replaced(tbs[t], tbs[src], start, u)
    BY <2>1, UnifiedBlock
  <2> QED
    BY <2>2 DEF Replaced
<1> HIDE DEF u
<1>6. tbs'[t] = u /\ \A v \in TBs : v # t => tbs'[v] = tbs[v]
  BY <1>1, <1>3, <1>4
<1>7. NoSuccessor(t)'
  BY <1>2, <1>5, <1>6 DEF NoSuccessor
<1>8. \A v \in TBs : v # t => (NoSuccessor(v)' <=> NoSuccessor(v))
  BY <1>6 DEF NoSuccessor
<1>9. \A v \in TBs : IsDecoded(v)' <=> IsDecoded(v)
  BY <1>0, <1>3 DEF IsDecoded
<1>10. \A v \in TBs : Goes(t, v) => NoSuccessor(v)'
  <2>1. tbs[t].linked = file.linked[t] /\ branch[t][d] = file.next[t][d]
    BY <1>2 DEF AsRead
  <2>2. \A e \in Jumps : e = d \/ e = 1 - d
    BY DEF Jumps
  <2>3. \A v \in TBs : Goes(t, v) => v = successor
    BY <1>2, <1>2a, <2>1, <2>2 DEF Goes
  <2> QED
    BY <1>2, <1>2a, <1>8, <2>3
<1>11. \A v, w \in TBs : Goes(v, w)' <=> Goes(v, w)
  BY <1>0 DEF Goes
<1>12. EndsClosed'
  <2> SUFFICES ASSUME NEW v \in TBs, NEW w \in TBs, NoSuccessor(v)', Goes(v, w)
               PROVE  NoSuccessor(w)'
    BY <1>11 DEF EndsClosed
  <2>1. CASE v = t
    BY <1>10, <2>1
  <2>2. CASE v # t
    <3>1. NoSuccessor(w)
      BY <1>8, <2>2 DEF EndsClosed
    <3> QED
      BY <1>7, <1>8, <3>1
  <2> QED
    BY <2>1, <2>2
<1>13. \A v \in TBs : NoSuccessor(v) => NoSuccessor(v)'
  BY <1>7, <1>8
<1>14. Settling
  BY <1>0, <1>9, <1>12, <1>13 DEF Settling
<1> QED
  BY <1>0, <1>1, <1>3, <1>7, <1>9, <1>14 DEF TopEnds
-----------------------------------------------------------------------------
(* The search.                                                             *)

LEMMA SameFile ==
    ASSUME file' = file
    PROVE  /\ \A t, u : Goes(t, u)' <=> Goes(t, u)
           /\ \A t \in TBs : EndsNext(t)' <=> EndsNext(t)
           /\ \A t \in TBs : IsEntry(t)' <=> IsEntry(t)
           /\ \A t : ReachedFrom(t)' = ReachedFrom(t)
<1>1. \A t, u : Goes(t, u)' <=> Goes(t, u)
  BY DEF Goes
<1>2. \A t \in TBs : InFile(t)' = InFile(t)
  BY DEF InFile, Running, FileIds
<1>3. \A t \in TBs : EndsNext(t)' <=> EndsNext(t)
  BY <1>2 DEF EndsNext
<1>4. \A t \in TBs : IsEntry(t)' <=> IsEntry(t)
  BY <1>1 DEF IsEntry
<1>5. \A t : ReachedFrom(t)' = ReachedFrom(t)
  BY DEF ReachedFrom, BlocksOf, Goes
<1> QED
  BY <1>1, <1>3, <1>4, <1>5

LEMMA HandledStays ==
    ASSUME Settling, parents \cup finished \subseteq parents' \cup finished'
    PROVE  \A u \in TBs : Handled(u) => Handled(u)'
BY DEF Settling, Handled

(* The call above call i is still there or has handled its block.          *)
NextHandled(i) ==
    \/ i < Len(stack') /\ stack'[i + 1].tb = stack[i + 1].tb
    \/ \E u \in TBs : u = stack[i + 1].tb /\ Handled(u)'

LEMMA TriedStays ==
    ASSUME file' = file, seg' = seg, \A u \in TBs : Handled(u) => Handled(u)',
           NEW i \in Nat, stack'[i].tb = stack[i].tb, NEW d \in Jumps, Tried(i, d),
           i < Len(stack) => NextHandled(i)
    PROVE  Tried(i, d)'
<1>1. SUFFICES ASSUME NEW u \in BlocksOf(seg),
                      file.linked[stack[i].tb][d], file.next[stack[i].tb][d] = u
               PROVE  Handled(u)' \/ (i < Len(stack') /\ stack'[i + 1].tb = u)
  BY DEF Tried, BlocksOf
<1>2. u \in TBs
  BY DEF BlocksOf
<1>3. Handled(u) \/ (i < Len(stack) /\ stack[i + 1].tb = u)
  BY <1>1 DEF Tried
<1> QED
  BY <1>2, <1>3 DEF NextHandled

(* The innermost call has returned.                                        *)
TopHandled == \E t \in TBs : t = Top.tb /\ Handled(t)'

LEMMA PopSearches ==
    ASSUME TypeOK, WalkOK, WalkSearches, stack # <<>>, stack' = Pop, seg' = seg, Settling,
           TopHandled, parents \cup finished \subseteq parents' \cup finished',
           NEW i \in DOMAIN stack', stack'[i].tb \in BlocksOf(seg)
    PROVE  /\ stack'[i].pc \in {"true", "leave"} => Tried(i, 0)'
           /\ stack'[i].pc = "leave" => Tried(i, 1)'
<1> DEFINE n == Len(stack)
<1>0. PICK t \in TBs : t = Top.tb /\ Handled(t)'
  BY DEF TopHandled
<1>1. /\ Len(stack') = n - 1 /\ DOMAIN stack' = 1..n - 1
      /\ \A k \in 1..n - 1 : stack'[k] = stack[k]
      /\ n \in Nat /\ DOMAIN stack = 1..n /\ stack[n].tb = t
  BY <1>0, PopFacts, StackFacts DEF Top
<1>2. \A u \in TBs : Handled(u) => Handled(u)'
  BY HandledStays
<1>3. i \in 1..n - 1 /\ i \in DOMAIN stack /\ stack'[i] = stack[i] /\ i \in Nat /\ i < n
  BY <1>1
<1>4. NextHandled(i)
  <2>1. CASE i = n - 1
    <3>1. i + 1 = n
      BY <1>1, <2>1
    <3> HIDE DEF n
    <3> QED
      BY <1>0, <1>1, <3>1 DEF NextHandled
  <2>2. CASE i # n - 1
    <3>1. i < Len(stack') /\ i + 1 \in 1..n - 1
      BY <1>1, <1>3, <2>2
    <3> QED
      BY <1>1, <3>1 DEF NextHandled
  <2> QED
    BY <2>1, <2>2
<1>5. file' = file
  BY DEF Settling
<1> HIDE DEF n
<1>6. ASSUME NEW d \in Jumps, Tried(i, d)
      PROVE  Tried(i, d)'
  BY <1>2, <1>3, <1>4, <1>5, <1>6, TriedStays
<1>7. /\ stack[i].pc \in {"true", "leave"} => Tried(i, 0)
      /\ stack[i].pc = "leave" => Tried(i, 1)
  BY <1>3 DEF WalkSearches
<1> QED
  BY <1>3, <1>6, <1>7, JumpsFacts

(* The innermost call goes on at pc, and calls itself for block t.         *)
Onward(pc, t) ==
    /\ \A i \in 1..Len(stack) : i \in DOMAIN stack' /\ stack'[i].tb = stack[i].tb
    /\ \A i \in 1..Len(stack) - 1 : stack'[i] = stack[i]
    /\ stack'[Len(stack)].pc = pc
    /\ Len(stack') \in {Len(stack), Len(stack) + 1}
    /\ \A i \in DOMAIN stack' : i \in 1..Len(stack) \/ stack'[i].pc = "enter"
    /\ t # NoTB => Len(stack) < Len(stack') /\ stack'[Len(stack) + 1].tb = t

LEMMA CallGoesOn ==
    ASSUME TypeOK, stack # <<>>, NEW pc \in {"false", "true", "leave"},
           NEW t \in TBs \cup {NoTB},
           stack' = Push(t, Append(Pop, [Top EXCEPT !.pc = pc]))
    PROVE  Onward(pc, t)
<1> DEFINE n == Len(stack)
<1>1. PICK s : s = Append(Pop, [Top EXCEPT !.pc = pc])
  OBVIOUS
<1>2. Resumed(s, pc)
  BY <1>1, ResumeFacts
<1>3. /\ s \in Seq(FrameType) /\ Len(s) = n /\ DOMAIN s = 1..n
      /\ \A i \in 1..n - 1 : s[i] = stack[i]
      /\ s[n] = [tb |-> stack[n].tb, pc |-> pc]
      /\ n \in Nat /\ n \in 1..n
  BY <1>2, StackFacts DEF Resumed, Top
<1>4. stack' = Push(t, s)
  BY <1>1
<1>5. \A i \in 1..n : s[i].tb = stack[i].tb
  <2>1. \A i \in 1..n : i \in 1..n - 1 \/ i = n
    BY <1>3, LastApart
  <2> HIDE DEF n
  <2> QED
    BY <1>3, <2>1
<1>6. CASE t = NoTB
  <2>1. stack' = s
    BY <1>3, <1>4, <1>6, PushFacts
  <2>2. \A i \in 1..n - 1 : i \in 1..n
    BY <1>3
  <2> HIDE DEF n
  <2>3. \A i \in 1..n : i \in DOMAIN stack' /\ stack'[i].tb = stack[i].tb
    BY <1>3, <1>5, <2>1
  <2>4. \A i \in 1..n - 1 : stack'[i] = stack[i]
    BY <1>3, <2>1
  <2>5. stack'[n].pc = pc /\ Len(stack') = n
    BY <1>3, <2>1
  <2>6. \A i \in DOMAIN stack' : i \in 1..n
    BY <1>3, <2>1
  <2> QED
    BY <1>6, <2>3, <2>4, <2>5, <2>6 DEF Onward, n
<1>7. CASE t # NoTB
  <2>1. /\ Len(stack') = n + 1 /\ DOMAIN stack' = 1..n + 1
        /\ \A i \in 1..n : stack'[i] = s[i]
        /\ stack'[n + 1] = [tb |-> t, pc |-> "enter"]
    <3> HIDE DEF n
    <3>1. /\ Len(Push(t, s)) = Len(s) + 1 /\ DOMAIN Push(t, s) = 1..Len(s) + 1
          /\ \A i \in 1..Len(s) : Push(t, s)[i] = s[i]
          /\ Push(t, s)[Len(s) + 1] = [tb |-> t, pc |-> "enter"]
      BY <1>3, <1>7, PushFacts
    <3> QED
      BY <1>3, <1>4, <3>1
  <2>2. \A i \in 1..n + 1 : i \in 1..n \/ i = n + 1
    BY <1>3
  <2>3. \A i \in 1..n : i \in 1..n + 1
    BY <1>3
  <2>4. \A i \in 1..n - 1 : i \in 1..n
    BY <1>3
  <2>5. n < n + 1
    BY <1>3
  <2> HIDE DEF n
  <2>6. \A i \in 1..n : i \in DOMAIN stack' /\ stack'[i].tb = stack[i].tb
    BY <1>5, <2>1, <2>3
  <2>7. \A i \in DOMAIN stack' : i \in 1..n \/ stack'[i].pc = "enter"
    BY <2>1, <2>2
  <2>8. \A i \in 1..n - 1 : stack'[i] = stack[i]
    BY <1>3, <2>1, <2>4
  <2>9. stack'[n].pc = pc
    BY <1>3, <2>1
  <2>10. n < Len(stack') /\ stack'[n + 1].tb = t
    BY <2>1, <2>5
  <2> QED
    BY <2>1, <2>6, <2>7, <2>8, <2>9, <2>10 DEF Onward, n
<1> QED
  BY <1>6, <1>7

(* The calls below it have tried what they had tried.                      *)
LEMMA OthersSearch ==
    ASSUME TypeOK, WalkSearches, stack # <<>>, NEW pc, NEW t, Onward(pc, t), seg' = seg,
           file' = file, \A u \in TBs : Handled(u) => Handled(u)',
           NEW i \in 1..Len(stack) - 1, stack[i].tb \in BlocksOf(seg)
    PROVE  /\ stack'[i].pc \in {"true", "leave"} => Tried(i, 0)'
           /\ stack'[i].pc = "leave" => Tried(i, 1)'
<1> DEFINE n == Len(stack)
<1>1. n \in Nat /\ DOMAIN stack = 1..n
  BY StackFacts
<1>2. i \in 1..n /\ i + 1 \in 1..n /\ i \in Nat /\ i < n
  BY <1>1
<1>3. stack'[i] = stack[i] /\ stack'[i + 1].tb = stack[i + 1].tb /\ i < Len(stack')
  <2>1. Len(stack') \in {n, n + 1}
    BY DEF Onward
  <2>2. i < Len(stack')
    BY <1>1, <1>2, <2>1
  <2> QED
    BY <1>2, <2>2 DEF Onward
<1> HIDE DEF n
<1>4. ASSUME NEW d \in Jumps, Tried(i, d)
      PROVE  Tried(i, d)'
  <2>1. NextHandled(i)
    BY <1>3 DEF NextHandled
  <2> QED
    BY <1>2, <1>3, <1>4, <2>1, TriedStays
<1>5. /\ stack[i].pc \in {"true", "leave"} => Tried(i, 0)
      /\ stack[i].pc = "leave" => Tried(i, 1)
  BY <1>1, <1>2 DEF WalkSearches
<1> QED
  BY <1>3, <1>4, <1>5, JumpsFacts

LEMMA EnteredKeys ==
    ASSUME WalkSearches, NEW k \in parents
    PROVE  \E i \in DOMAIN stack : Entered(i) /\ k = file.key[stack[i].tb]
BY DEF WalkSearches

(* A call returns at once.                                                 *)
LEMMA ReturnSearches ==
    ASSUME TypeOK, WalkOK, WalkSearches, At("enter"), stack' = Pop, seg' = seg, Settling,
           UNCHANGED <<parents, finished>>, TopHandled
    PROVE  WalkSearches'
<1> DEFINE n == Len(stack)
<1>1. stack # <<>> /\ file' = file /\ ~ Entered(n)
  BY DEF At, Settling, Entered, Top
<1>2. /\ Len(stack') = n - 1 /\ DOMAIN stack' = 1..n - 1
      /\ \A k \in 1..n - 1 : stack'[k] = stack[k]
      /\ n \in Nat /\ DOMAIN stack = 1..n
  BY <1>1, PopFacts, StackFacts
<1>3. \A u \in TBs : Handled(u) => Handled(u)'
  BY HandledStays
<1>4. ASSUME NEW k \in parents
      PROVE  \E i \in DOMAIN stack' : Entered(i)' /\ k = file.key[stack'[i].tb]
  <2>1. PICK i \in DOMAIN stack : Entered(i) /\ k = file.key[stack[i].tb]
    BY EnteredKeys
  <2>2. i \in 1..n - 1
    BY <1>1, <1>2, <2>1
  <2>3. i \in DOMAIN stack' /\ stack'[i] = stack[i]
    BY <1>2, <2>2
  <2> QED
    BY <2>1, <2>3 DEF Entered
<1>5. \A t \in TBs, u \in TBs : Goes(t, u)' <=> Goes(t, u)
  BY <1>1, SameFile
<1>6. BlocksOf(seg)' = BlocksOf(seg) /\ BlocksOf(seg) \subseteq TBs
  BY <1>1 DEF BlocksOf
<1>7. \A t \in BlocksOf(seg), u \in BlocksOf(seg) :
        file.key[t] \in finished /\ Goes(t, u) => Handled(u)'
  BY <1>3, <1>6 DEF WalkSearches
<1>8. \A t \in BlocksOf(seg) :
        EndsNext(t) /\ file.key[t] \in parents \cup finished => NoSuccessor(t)'
  BY <1>6 DEF WalkSearches, Settling
<1>9. \A t \in TBs : EndsNext(t)' <=> EndsNext(t)
  BY <1>1, SameFile
<1>10. parents \cup finished \subseteq parents' \cup finished'
  OBVIOUS
<1>11. \A i \in DOMAIN stack' : stack'[i].tb \in BlocksOf(seg) =>
          /\ stack'[i].pc \in {"true", "leave"} => Tried(i, 0)'
          /\ stack'[i].pc = "leave" => Tried(i, 1)'
  BY <1>1, <1>10, PopSearches
<1> HIDE DEF n
<1> QED
  BY <1>1, <1>4, <1>5, <1>6, <1>7, <1>8, <1>9, <1>11 DEF WalkSearches

(* A call leaves its block, whose successors have both been tried.         *)
LEMMA LeaveSearches ==
    ASSUME IndInv, EndsClosed, DistinctKeys, WalkSearches, Leave
    PROVE  WalkSearches'
<1> DEFINE n == Len(stack)
<1>0. /\ TypeOK /\ WalkOK /\ stack # <<>> /\ Top.pc = "leave" /\ stack' = Pop
      /\ parents' = parents \ {file.key[Top.tb]}
      /\ finished' = finished \cup {file.key[Top.tb]}
      /\ UNCHANGED <<file, seg, step, tbs>>
  BY DEF IndInv, Leave, At
<1>1. /\ Len(stack') = n - 1 /\ DOMAIN stack' = 1..n - 1
      /\ \A k \in 1..n - 1 : stack'[k] = stack[k]
      /\ n \in Nat /\ DOMAIN stack = 1..n /\ n \in 1..n /\ Top.tb \in TBs /\ Top = stack[n]
  BY <1>0, PopFacts, StackFacts DEF Top
<1>2. Settling /\ parents \cup finished \subseteq parents' \cup finished'
  BY <1>0, BlocksSettled
<1>3. \A u \in TBs : Handled(u) => Handled(u)'
  BY <1>2, HandledStays
<1>4. TopHandled
  BY <1>0, <1>1 DEF Handled, TopHandled
<1>5. ASSUME NEW k \in parents'
      PROVE  \E i \in DOMAIN stack' : Entered(i)' /\ k = file.key[stack'[i].tb]
  <2>1. PICK i \in DOMAIN stack : Entered(i) /\ k = file.key[stack[i].tb]
    BY <1>0, EnteredKeys
  <2>2. i # n
    BY <1>0, <1>1, <2>1
  <2>3. i \in 1..n - 1
    BY <1>1, <2>2
  <2>4. i \in DOMAIN stack' /\ stack'[i] = stack[i]
    BY <1>1, <2>3
  <2> QED
    BY <2>1, <2>4 DEF Entered
<1>6. \A t \in TBs, u \in TBs : Goes(t, u)' <=> Goes(t, u)
  BY <1>0, SameFile
<1>7. BlocksOf(seg)' = BlocksOf(seg) /\ BlocksOf(seg) \subseteq TBs
  BY <1>0 DEF BlocksOf
<1>8. ASSUME NEW t \in BlocksOf(seg), NEW u \in BlocksOf(seg),
             file.key[t] \in finished', Goes(t, u)
      PROVE  Handled(u)'
  <2>1. CASE file.key[t] \in finished
    BY <1>3, <1>7, <1>8, <2>1 DEF WalkSearches
  <2>2. CASE file.key[t] = file.key[Top.tb]
    <3>1. t = stack[n].tb
      BY <1>1, <1>7, <2>2 DEF DistinctKeys
    <3>2. Tried(n, 0) /\ Tried(n, 1)
      BY <1>0, <1>1, <3>1 DEF WalkSearches
    <3>3. \A d \in Jumps : Tried(n, d)
      BY <3>2, JumpsFacts
    <3>4. PICK d \in Jumps : file.linked[t][d] /\ file.next[t][d] = u
      BY <1>8 DEF Goes
    <3>5. Handled(u)
      BY <1>1, <3>1, <3>3, <3>4 DEF Tried
    <3> QED
      BY <1>3, <1>7, <3>5
  <2> QED
    BY <1>0, <1>8, <2>1, <2>2
<1>9. \A t \in BlocksOf(seg) :
        EndsNext(t) /\ file.key[t] \in parents' \cup finished' => NoSuccessor(t)'
  <2> SUFFICES ASSUME NEW t \in BlocksOf(seg), EndsNext(t), file.key[t] \in parents' \cup finished'
               PROVE  NoSuccessor(t)'
    OBVIOUS
  <2>1. file.key[Top.tb] \in parents
    BY <1>0, <1>1 DEF WalkOK, Entered
  <2>2. file.key[t] \in parents \cup finished
    BY <1>0, <2>1
  <2> QED
    BY <1>2, <1>7, <2>2 DEF WalkSearches, Settling
<1>10. \A t \in TBs : EndsNext(t)' <=> EndsNext(t)
  BY <1>0, SameFile
<1>11. \A i \in DOMAIN stack' : stack'[i].tb \in BlocksOf(seg) =>
          /\ stack'[i].pc \in {"true", "leave"} => Tried(i, 0)'
          /\ stack'[i].pc = "leave" => Tried(i, 1)'
  BY <1>0, <1>2, <1>4, PopSearches
<1> HIDE DEF n
<1> QED
  BY <1>0, <1>5, <1>6, <1>7, <1>8, <1>9, <1>10, <1>11 DEF WalkSearches

(* A call goes on with its block among the parents.                        *)
LEMMA GoingOnSearches ==
    ASSUME IndInv, EndsClosed, DistinctKeys, WalkSearches, stack # <<>>,
           UNCHANGED <<file, seg, step, tbs, finished>>,
           NEW pc \in {"false", "true", "leave"}, NEW t \in TBs \cup {NoTB}, Onward(pc, t),
           \/ Entered(Len(stack)) /\ parents' = parents
           \/ parents' = parents \cup {file.key[Top.tb]},
           file.key[Top.tb] \in parents' \cup finished',
           NEW n, n = Len(stack),
           Top.tb \in BlocksOf(seg) =>
                /\ EndsNext(Top.tb) => NoSuccessor(Top.tb)
                /\ pc \in {"true", "leave"} => Tried(n, 0)'
                /\ pc = "leave" => Tried(n, 1)'
    PROVE  WalkSearches'
<1>0. TypeOK
  BY DEF IndInv
<1>1. /\ n \in Nat /\ DOMAIN stack = 1..n /\ n \in 1..n /\ Top.tb \in TBs /\ Top = stack[n]
  BY <1>0, StackFacts DEF Top
<1>2. Settling /\ parents \cup finished \subseteq parents' \cup finished'
  BY BlocksSettled
<1>3. \A u \in TBs : Handled(u) => Handled(u)'
  BY <1>2, HandledStays
<1>4. /\ \A i \in 1..n : i \in DOMAIN stack' /\ stack'[i].tb = stack[i].tb
      /\ \A i \in 1..n - 1 : stack'[i] = stack[i]
      /\ stack'[n].pc = pc
      /\ \A i \in DOMAIN stack' : i \in 1..n \/ stack'[i].pc = "enter"
  BY DEF Onward
<1>5. \A i \in 1..n : i \in 1..n - 1 \/ i = n
  BY <1>1, LastApart
<1>6. \A i \in 1..n : (Entered(i) \/ i = n) => Entered(i)'
  BY <1>4, <1>5 DEF Entered
<1>7. ASSUME NEW k \in parents'
      PROVE  \E i \in DOMAIN stack' : Entered(i)' /\ k = file.key[stack'[i].tb]
  <2>1. CASE k \in parents
    <3>1. PICK i \in DOMAIN stack : Entered(i) /\ k = file.key[stack[i].tb]
      BY <2>1, EnteredKeys
    <3> QED
      BY <1>1, <1>4, <1>6, <3>1
  <2>2. CASE k = file.key[Top.tb]
    BY <1>1, <1>4, <1>6, <2>2
  <2> QED
    BY <1>7, <2>1, <2>2
<1>8. \A v \in TBs, u \in TBs : Goes(v, u)' <=> Goes(v, u)
  BY SameFile
<1>9. BlocksOf(seg)' = BlocksOf(seg) /\ BlocksOf(seg) \subseteq TBs
  BY DEF BlocksOf
<1>10. \A v \in BlocksOf(seg), u \in BlocksOf(seg) :
        file.key[v] \in finished /\ Goes(v, u) => Handled(u)'
  BY <1>3, <1>9 DEF WalkSearches
<1>11. \A v \in TBs : EndsNext(v)' <=> EndsNext(v)
  BY SameFile
<1>12. ASSUME NEW i \in DOMAIN stack', stack'[i].tb \in BlocksOf(seg)
       PROVE  /\ stack'[i].pc \in {"true", "leave"} => Tried(i, 0)'
              /\ stack'[i].pc = "leave" => Tried(i, 1)'
  <2>1. CASE stack'[i].pc = "enter"
    BY <2>1
  <2>2. CASE i = n
    BY <1>1, <1>4, <1>12, <2>2
  <2>3. CASE i \in 1..n - 1
    <3>1. stack[i].tb \in BlocksOf(seg)
      BY <1>4, <1>12, <2>3
    <3> QED
      BY <1>0, <1>3, <2>3, <3>1, OthersSearch
  <2> QED
    BY <1>4, <1>5, <2>1, <2>2, <2>3
<1>13. SUFFICES ASSUME NEW v \in BlocksOf(seg), EndsNext(v), file.key[v] \in parents' \cup finished'
                PROVE  NoSuccessor(v)'
  BY <1>7, <1>8, <1>9, <1>10, <1>11, <1>12 DEF WalkSearches
<1>14. CASE file.key[v] \in parents \cup finished
  BY <1>2, <1>9, <1>13, <1>14 DEF WalkSearches, Settling
<1>15. CASE file.key[v] = file.key[Top.tb]
  <2>1. v = Top.tb /\ NoSuccessor(v)
    BY <1>1, <1>9, <1>13, <1>15 DEF DistinctKeys
  <2> QED
    BY <1>2, <1>9, <2>1 DEF Settling
<1> QED
  BY <1>13, <1>14, <1>15

(* The block called for is the successor, if there is one.                 *)
LEMMA CalledForSuccessor ==
    ASSUME IndInv, EndsClosed, step = "unify", stack # <<>>, Top.tb \in BlocksOf(seg),
           UNCHANGED <<file, seg, step, tbs>>,
           NEW pc, NEW d \in Jumps, Onward(pc, branch[Top.tb][d]),
           NEW n, n = Len(stack)
    PROVE  Tried(n, d)'
<1>0. TypeOK /\ BlocksOK
  BY DEF IndInv
<1>0a. PICK v : v = Top.tb
  OBVIOUS
<1>1. n \in Nat /\ n \in 1..n /\ v \in TBs /\ v = stack[n].tb /\ file.seg[v] = seg
  BY <1>0, <1>0a, StackFacts DEF Top, BlocksOf
<1>2. stack'[n].tb = v
  BY <1>1 DEF Onward
<1>3. SUFFICES ASSUME NEW u \in BlocksOf(seg), file.linked[v][d], file.next[v][d] = u
               PROVE  Handled(u)' \/ (n < Len(stack') /\ stack'[n + 1].tb = u)
  BY <1>2 DEF Tried, BlocksOf
<1>4. u \in TBs /\ u # NoTB
  BY TBsFacts DEF BlocksOf
<1>5. CASE NoSuccessor(v)
  <2>1. Goes(v, u)
    BY <1>3 DEF Goes
  <2>2. NoSuccessor(u)
    BY <1>1, <1>4, <1>5, <2>1 DEF EndsClosed
  <2>3. NoSuccessor(u)'
    BY <2>2 DEF NoSuccessor
  <2> QED
    BY <2>3 DEF Handled
<1>6. CASE ~ NoSuccessor(v)
  <2>1. IsDecoded(v)
    BY <1>1 DEF IsDecoded
  <2>2. branch[v][d] = u
    BY <1>0, <1>1, <1>3, <1>6, <2>1, LinkFollowed
  <2> QED
    BY <1>0a, <1>4, <2>2 DEF Onward
<1> QED
  BY <1>5, <1>6

LEMMA EnterSearches ==
    ASSUME IndInv, EndsClosed, DistinctKeys, WalkSearches, Enter
    PROVE  WalkSearches'
<1>1. /\ TypeOK /\ BlocksOK /\ stack # <<>> /\ step = "unify" /\ ~ CanUnify(Top.tb)
      /\ parents' = parents \cup {file.key[Top.tb]}
      /\ stack' = Append(Pop, [Top EXCEPT !.pc = "false"])
      /\ UNCHANGED <<file, seg, step, tbs, finished>>
  BY DEF IndInv, Enter, At
<1>2. NoTB \in TBs \cup {NoTB} /\ \A s : Push(NoTB, s) = s
  BY DEF Push
<1>3. Onward("false", NoTB)
  BY <1>1, <1>2, CallGoesOn
<1>4. ASSUME Top.tb \in BlocksOf(seg), EndsNext(Top.tb)
      PROVE  NoSuccessor(Top.tb)
  <2>1. Top.tb \in TBs /\ IsDecoded(Top.tb)
    BY <1>1, <1>4 DEF BlocksOf, IsDecoded
  <2> QED
    BY <1>1, <1>4, <2>1, EndsNextUnified
<1>5. PICK n : n = Len(stack)
  OBVIOUS
<1> QED
  BY <1>1, <1>2, <1>3, <1>4, <1>5, GoingOnSearches

LEMMA VisitSearches ==
    ASSUME IndInv, EndsClosed, DistinctKeys, WalkSearches, VisitFalse \/ VisitTrue
    PROVE  WalkSearches'
<1>0. /\ TypeOK /\ WalkOK /\ stack # <<>> /\ step = "unify"
      /\ UNCHANGED <<file, seg, step, tbs, finished, parents>>
  BY DEF IndInv, VisitFalse, VisitTrue, At
<1>1. PICK d \in Jumps, pc \in {"true", "leave"} :
        /\ \/ d = 0 /\ Top.pc = "false" /\ pc = "true"
           \/ d = 1 /\ Top.pc = "true" /\ pc = "leave"
        /\ stack' = Push(branch[Top.tb][d], Append(Pop, [Top EXCEPT !.pc = pc]))
  BY JumpsFacts DEF VisitFalse, VisitTrue, At
<1>2. /\ Top.tb \in TBs /\ branch[Top.tb][d] \in TBs \cup {NoTB}
      /\ Len(stack) \in DOMAIN stack /\ Top = stack[Len(stack)] /\ Entered(Len(stack))
      /\ Len(stack) \in Nat
  <2>1. /\ Top.tb \in TBs /\ Len(stack) \in DOMAIN stack /\ Top = stack[Len(stack)]
        /\ Len(stack) \in Nat
    BY <1>0, StackFacts DEF Top
  <2> QED
    BY <1>0, <1>1, <2>1 DEF TypeOK, Entered
<1>3. file.key[Top.tb] \in parents
  BY <1>0, <1>2 DEF WalkOK
<1>4. Onward(pc, branch[Top.tb][d])
  BY <1>0, <1>1, <1>2, CallGoesOn
<1>4a. PICK n : n = Len(stack)
  OBVIOUS
<1>5. ASSUME Top.tb \in BlocksOf(seg)
      PROVE  /\ EndsNext(Top.tb) => NoSuccessor(Top.tb)
             /\ Tried(n, d)'
             /\ pc = "leave" => Tried(n, 0)'
  <2>1. EndsNext(Top.tb) => NoSuccessor(Top.tb)
    BY <1>3, <1>5 DEF WalkSearches
  <2>2. Tried(n, d)'
    BY <1>0, <1>4, <1>4a, <1>5, CalledForSuccessor
  <2>3. ASSUME pc = "leave"
        PROVE  Tried(n, 0)'
    <3>1. Tried(n, 0)
      BY <1>1, <1>2, <1>4a, <1>5, <2>3 DEF WalkSearches
    <3>2. \A u \in TBs : Handled(u) => Handled(u)'
      <4>1. Settling
        BY <1>0, BlocksSettled
      <4>2. parents \cup finished \subseteq parents' \cup finished'
        BY <1>0
      <4> QED
        BY <4>1, <4>2, HandledStays
    <3>3. stack'[Len(stack)].tb = stack[Len(stack)].tb
      <4>1. Len(stack) \in 1..Len(stack)
        BY <1>0, StackFacts
      <4> QED
        BY <1>4, <4>1 DEF Onward
    <3>4. ~ (Len(stack) < Len(stack))
      BY <1>2
    <3> QED
      BY <1>0, <1>2, <1>4a, <3>1, <3>2, <3>3, <3>4, JumpsFacts, TriedStays
  <2> QED
    BY <2>1, <2>2, <2>3
<1>6. pc \in {"false", "true", "leave"} /\ (pc = "true" => d = 0) /\ (pc = "leave" => d = 1)
  BY <1>1
<1>7. PICK t \in TBs \cup {NoTB} : t = branch[Top.tb][d]
  BY <1>2
<1> QED
  BY <1>0, <1>2, <1>3, <1>4, <1>4a, <1>5, <1>6, <1>7, GoingOnSearches

-----------------------------------------------------------------------------
(* What has been searched.                                                 *)

LEMMA ReachUnfold ==
    ASSUME NEW e
    PROVE  \E f : /\ f[0] = {e}
                  /\ \A n \in 1..NumTBs :
                        f[n] = f[n - 1] \cup {u \in BlocksOf(file.seg[e]) : \E t \in f[n - 1] : Goes(t, u)}
                  /\ ReachedFrom(e) = f[NumTBs]
<1> DEFINE F(s) == s \cup {u \in BlocksOf(file.seg[e]) : \E t \in s : Goes(t, u)}
           G(f, n) == [k \in 0..n |-> IF k = 0 THEN {e} ELSE F(f[k - 1])]
           N == {n \in Nat : \E f : f = G(f, n)}
           reach == CHOOSE f : f = [k \in 0..NumTBs |-> IF k = 0 THEN {e} ELSE
                        f[k - 1] \cup {u \in BlocksOf(file.seg[e]) : \E t \in f[k - 1] : Goes(t, u)}]
<1>1. ReachedFrom(e) = reach[NumTBs]
  BY DEF ReachedFrom
<1>1a. reach = CHOOSE f : f = G(f, NumTBs)
  OBVIOUS
<1> HIDE DEF F, reach
<1>2. 0 \in N
  <2>1. [k \in 0..0 |-> {e}] = G([k \in 0..0 |-> {e}], 0)
    OBVIOUS
  <2> QED
    BY <2>1
<1>3. ASSUME NEW n \in N
      PROVE  n + 1 \in N
  <2>1. PICK f : f = G(f, n)
    OBVIOUS
  <2> DEFINE g == [k \in 0..n + 1 |-> IF k = n + 1 THEN F(f[n]) ELSE f[k]]
  <2>2. ASSUME NEW k \in 0..n + 1
        PROVE  g[k] = IF k = 0 THEN {e} ELSE F(g[k - 1])
    <3>1. CASE k = n + 1
      <4>1. k # 0 /\ k - 1 = n /\ n \in 0..n + 1 /\ n # n + 1
        BY <3>1
      <4> QED
        BY <3>1, <4>1
    <3>2. CASE k = 0
      BY <3>2, <2>1
    <3>3. CASE k # 0 /\ k # n + 1
      <4>1. k \in 0..n /\ k - 1 \in 0..n + 1 /\ k - 1 # n + 1
        BY <3>3
      <4> QED
        BY <3>3, <4>1, <2>1
    <3> QED
      BY <3>1, <3>2, <3>3
  <2>3. g = G(g, n + 1)
    <3> HIDE DEF g
    <3>1. DOMAIN g = 0..n + 1 /\ g = [k \in DOMAIN g |-> g[k]]
      BY DEF g
    <3> QED
      BY <3>1, <2>2
  <2>4. n + 1 \in Nat
    OBVIOUS
  <2>5. \E h : h = G(h, n + 1)
    <3> HIDE DEF g
    <3> QED
      BY <2>3, Zenon
  <2> QED
    BY <2>4, <2>5
<1>4. NumTBs \in N
  <2> HIDE DEF N
  <2> QED
    BY <1>2, <1>3, NatInduct, TBsFacts DEF N
<1>5. reach = G(reach, NumTBs)
  BY <1>1a, <1>4
<1> HIDE DEF reach
<1>6. reach[0] = {e} /\ \A n \in 1..NumTBs : reach[n] = F(reach[n - 1])
  <2>1. \A k \in 0..NumTBs : reach[k] = IF k = 0 THEN {e} ELSE F(reach[k - 1])
    BY <1>5
  <2>2. 0 \in 0..NumTBs /\ \A n \in 1..NumTBs : n \in 0..NumTBs /\ n # 0
    BY TBsFacts
  <2> QED
    BY <2>1, <2>2
<1> QED
  BY <1>1, <1>6 DEF F

(* A set that no link of the segment leaves has all that is reached from   *)
(* one of its blocks.                                                      *)
LEMMA ReachedWithin ==
    ASSUME NEW e, NEW H, e \in H,
           \A t \in H, u \in BlocksOf(file.seg[e]) : Goes(t, u) => u \in H
    PROVE  ReachedFrom(e) \subseteq H
<1> DEFINE next(s) == {u \in BlocksOf(file.seg[e]) : \E t \in s : Goes(t, u)}
<1>1. PICK f : /\ f[0] = {e}
               /\ \A n \in 1..NumTBs : f[n] = f[n - 1] \cup next(f[n - 1])
               /\ ReachedFrom(e) = f[NumTBs]
  BY ReachUnfold
<1>2. \A s : s \subseteq H => next(s) \subseteq H
  OBVIOUS
<1> HIDE DEF next
<1> DEFINE N == {n \in Nat : n <= NumTBs => f[n] \subseteq H}
<1>3. 0 \in N
  BY <1>1
<1>4. ASSUME NEW n \in N
      PROVE  n + 1 \in N
  <2>1. SUFFICES ASSUME n + 1 <= NumTBs PROVE f[n + 1] \subseteq H
    OBVIOUS
  <2>2. n \in Nat /\ n + 1 \in 1..NumTBs /\ (n + 1) - 1 = n /\ f[n] \subseteq H
    BY <2>1, TBsFacts
  <2>3. f[n + 1] = f[n] \cup next(f[n])
    BY <1>1, <2>2
  <2> QED
    BY <1>2, <2>2, <2>3
<1>5. NumTBs \in N
  <2>1. N \in SUBSET Nat
    OBVIOUS
  <2> HIDE DEF N
  <2>2. N = Nat
    BY <1>3, <1>4, <2>1, NatInduct
  <2> QED
    BY <2>2, TBsFacts
<1> QED
  BY <1>1, <1>5, TBsFacts

(* When the walk is over, nothing it reached was missed.                   *)
SearchEnded == EndsClosed /\ WalkSearches /\ stack = <<>>

HandledSearched == \A e \in BlocksOf(seg) : Handled(e) => NoneMissed(e)

LEMMA SearchOver == SearchEnded => HandledSearched
<1> SUFFICES ASSUME SearchEnded, NEW e \in BlocksOf(seg), Handled(e)
             PROVE  NoneMissed(e)
  BY DEF HandledSearched
<1>0. EndsClosed /\ WalkSearches /\ stack = <<>>
  BY DEF SearchEnded
<1>1. parents = {}
  <2>1. DOMAIN stack = {}
    BY <1>0
  <2> QED
    BY <1>0, <2>1 DEF WalkSearches
<1> DEFINE H == {t \in BlocksOf(seg) : Handled(t)}
<1>2. file.seg[e] = seg /\ BlocksOf(seg) \subseteq TBs
  BY DEF BlocksOf
<1>3. ASSUME NEW t \in H, NEW u \in BlocksOf(seg), Goes(t, u)
      PROVE  Handled(u)
  <2>1. CASE NoSuccessor(t)
    <3>1. NoSuccessor(u)
      BY <1>0, <1>2, <1>3, <2>1 DEF EndsClosed
    <3> QED
      BY <3>1 DEF Handled
  <2>2. CASE ~ NoSuccessor(t)
    <3>1. file.key[t] \in finished
      BY <1>1, <2>2 DEF Handled
    <3> QED
      BY <1>0, <1>3, <3>1 DEF WalkSearches
  <2> QED
    BY <2>1, <2>2
<1>4. ReachedFrom(e) \subseteq H
  <2>1. e \in H /\ \A t \in H, u \in BlocksOf(file.seg[e]) : Goes(t, u) => u \in H
    BY <1>2, <1>3
  <2> HIDE DEF H
  <2> QED
    BY <2>1, ReachedWithin
<1>5. \A t \in H : EndsNext(t) => NoSuccessor(t)
  BY <1>0 DEF WalkSearches, Handled
<1> QED
  BY <1>4, <1>5 DEF NoneMissed

LEMMA SearchOverNext == SearchEnded' => HandledSearched'
BY SearchOver, PTL

(* Nothing is missed later that was not missed before.                     *)
LEMMA NoneMissedStays ==
    ASSUME TypeOK, Settling, NEW e \in TBs, NoneMissed(e)
    PROVE  NoneMissed(e)'
<1>1. ReachedFrom(e)' = ReachedFrom(e)
  BY SameFile DEF Settling
<1>2. ReachedFrom(e) \subseteq TBs
  <2>1. BlocksOf(file.seg[e]) \subseteq TBs
    BY DEF BlocksOf
  <2> QED
    BY <2>1, ReachedWithin
<1>3. \A t \in TBs : EndsNext(t)' <=> EndsNext(t)
  BY SameFile DEF Settling
<1> QED
  BY <1>1, <1>2, <1>3 DEF NoneMissed, Settling

(* Each call that returns has handled its block, and the call of the entry *)
(* block is the last to.                                                   *)
RootHandled == \E t \in TBs : t = stack[1].tb /\ Handled(t)'

LEMMA WalkSettles ==
    ASSUME IndInv, EndsClosed, Walk
    PROVE  /\ Settling
           /\ \A t \in TBs : IsDecoded(t)' <=> IsDecoded(t)
           /\ stack # <<>> /\ step = "unify"
           /\ UNCHANGED <<file, seg, step, parented, entries>>
           /\ stack' # <<>> => stack'[1].tb = stack[1].tb
           /\ stack' = <<>> => RootHandled
<1> DEFINE n == Len(stack)
<1>0. TypeOK /\ stack # <<>> /\ step = "unify"
  BY DEF IndInv, Walk, AlreadySeen, Unify, Enter, VisitFalse, VisitTrue, Leave, At
<1>1. n \in Nat /\ n \in 1..n /\ DOMAIN stack = 1..n /\ Top = stack[n] /\ Top.tb \in TBs
  BY <1>0, StackFacts DEF Top
<1>2. ASSUME stack' = Pop, TopHandled
      PROVE  /\ stack' # <<>> => stack'[1].tb = stack[1].tb
             /\ stack' = <<>> => RootHandled
  <2>1. /\ Len(stack') = n - 1 /\ DOMAIN stack' = 1..n - 1
        /\ \A k \in 1..n - 1 : stack'[k] = stack[k]
        /\ stack' \in Seq(FrameType)
    BY <1>0, <1>2, PopFacts
  <2>2. CASE n = 1
    <3>1. Len(stack') = 0
      BY <1>1, <2>1, <2>2
    <3>2. stack' = <<>>
      BY <2>1, <3>1, EmptySeq
    <3> QED
      BY <1>1, <1>2, <2>2, <3>2 DEF TopHandled, RootHandled
  <2>3. CASE n # 1
    <3>1. 1 \in 1..n - 1
      BY <1>1, <2>3
    <3>2. stack' # <<>> /\ stack'[1] = stack[1]
      <4>1. 1 \in DOMAIN stack' /\ DOMAIN <<>> = {}
        BY <2>1, <3>1
      <4> QED
        BY <2>1, <3>1, <4>1
    <3> QED
      BY <3>2
  <2> QED
    BY <2>2, <2>3
<1>3. ASSUME NEW pc \in {"false", "true", "leave"}, NEW t \in TBs \cup {NoTB},
             stack' = Push(t, Append(Pop, [Top EXCEPT !.pc = pc]))
      PROVE  /\ stack' # <<>> => stack'[1].tb = stack[1].tb
             /\ stack' = <<>> => RootHandled
  <2>1. Onward(pc, t)
    BY <1>0, <1>3, CallGoesOn
  <2>2. 1 \in 1..Len(stack)
    BY <1>1
  <2>3. 1 \in DOMAIN stack' /\ stack'[1].tb = stack[1].tb
    BY <2>1, <2>2 DEF Onward
  <2>4. DOMAIN <<>> = {}
    OBVIOUS
  <2> QED
    BY <2>3, <2>4
<1> HIDE DEF n
<1>4. CASE Unify
  <2>1. /\ Settling /\ TopEnds /\ stack' = Pop
        /\ \A t \in TBs : IsDecoded(t)' <=> IsDecoded(t)
        /\ UNCHANGED <<file, seg, step, parented, entries>>
    BY <1>4, UnifySettles
  <2>2. TopHandled
    BY <2>1 DEF Handled, TopEnds, TopHandled
  <2> QED
    BY <1>0, <1>2, <2>1, <2>2
<1>5. CASE ~ Unify
  <2>1. UNCHANGED <<file, seg, step, tbs, parented, entries>>
    BY <1>5 DEF Walk, AlreadySeen, Enter, VisitFalse, VisitTrue, Leave
  <2>2. Settling /\ \A t \in TBs : IsDecoded(t)' <=> IsDecoded(t)
    BY <2>1, BlocksSettled
  <2>3. CASE AlreadySeen
    <3>1. stack' = Pop /\ file.key[Top.tb] \in parents \cup finished
          /\ UNCHANGED <<file, parents, finished>>
      BY <2>3 DEF AlreadySeen, Seen
    <3>2. TopHandled
      BY <1>1, <3>1 DEF Handled, TopHandled
    <3> QED
      BY <1>0, <1>2, <2>1, <2>2, <3>1, <3>2
  <2>4. CASE Leave
    <3>1. stack' = Pop /\ file' = file /\ finished' = finished \cup {file.key[Top.tb]}
      BY <2>4 DEF Leave
    <3>2. TopHandled
      BY <1>1, <3>1 DEF Handled, TopHandled
    <3> QED
      BY <1>0, <1>2, <2>1, <2>2, <3>1, <3>2
  <2>5. CASE Enter
    <3>1. stack' = Append(Pop, [Top EXCEPT !.pc = "false"])
      BY <2>5 DEF Enter
    <3>2. NoTB \in TBs \cup {NoTB} /\ \A s : Push(NoTB, s) = s
      BY DEF Push
    <3> QED
      BY <1>0, <1>3, <2>1, <2>2, <3>1, <3>2
  <2>6. CASE VisitFalse \/ VisitTrue
    <3>1. PICK d \in Jumps, pc \in {"false", "true", "leave"} :
            stack' = Push(branch[Top.tb][d], Append(Pop, [Top EXCEPT !.pc = pc]))
      BY <2>6, JumpsFacts DEF VisitFalse, VisitTrue
    <3>2. branch[Top.tb][d] \in TBs \cup {NoTB}
      BY <1>0, <1>1 DEF TypeOK
    <3> QED
      BY <1>0, <1>3, <2>1, <2>2, <3>1, <3>2
  <2> QED
    BY <1>5, <2>3, <2>4, <2>5, <2>6 DEF Walk
<1> QED
  BY <1>4, <1>5

LEMMA StepSearches ==
    ASSUME IndInv, EndsClosed, DistinctKeys, WalkSearches, Walk
    PROVE  WalkSearches'
<1>1. TypeOK /\ WalkOK /\ UNCHANGED <<file, seg>>
  BY WalkSettles DEF IndInv
<1>2. CASE Unify
  <2>1. /\ Settling /\ TopEnds /\ stack' = Pop
        /\ UNCHANGED <<parents, finished>>
    BY <1>2, UnifySettles
  <2>2. TopHandled /\ At("enter")
    BY <1>2, <2>1 DEF Handled, TopEnds, TopHandled, Unify
  <2> QED
    BY <1>1, <2>1, <2>2, ReturnSearches
<1>3. CASE AlreadySeen
  <2>1. /\ stack' = Pop /\ file.key[Top.tb] \in parents \cup finished /\ At("enter")
        /\ UNCHANGED <<file, seg, step, tbs, parents, finished>>
    BY <1>3 DEF AlreadySeen, Seen
  <2>2. TopHandled
    <3>1. Top.tb \in TBs
      BY <1>1, <2>1, StackFacts DEF At
    <3> QED
      BY <2>1, <3>1 DEF Handled, TopHandled
  <2>3. Settling
    BY <2>1, BlocksSettled
  <2> QED
    BY <1>1, <2>1, <2>2, <2>3, ReturnSearches
<1> QED
  BY <1>2, <1>3, EnterSearches, VisitSearches, LeaveSearches DEF Walk

-----------------------------------------------------------------------------
(* The invariant of the search.                                            *)

LEMMA InOrderHas ==
    ASSUME NEW T, T \subseteq TBs
    PROVE  /\ InOrder(T) \in Seq(TBs)
           /\ \A t \in T : \E i \in DOMAIN InOrder(T) : InOrder(T)[i] = t
           /\ \A i \in DOMAIN InOrder(T) : InOrder(T)[i] \in T
<1>1. PICK f : /\ f[0] = <<>>
               /\ \A n \in 1..NumTBs :
                    f[n] = IF n \in T THEN Append(f[n - 1], n) ELSE f[n - 1]
               /\ InOrder(T) = f[NumTBs]
  BY InOrderUnfold
<1> DEFINE Good(s, n) == /\ s \in Seq(TBs)
                         /\ \A t \in T : t <= n => \E i \in 1..Len(s) : s[i] = t
                         /\ \A i \in 1..Len(s) : s[i] \in T
           N == {n \in Nat : n <= NumTBs => Good(f[n], n)}
<1>2. 0 \in N
  <2>1. f[0] = <<>> /\ Len(f[0]) = 0 /\ f[0] \in Seq(TBs)
    BY <1>1
  <2>2. \A t \in T : ~ (t <= 0)
    BY TBsFacts
  <2>3. \A i \in 1..0 : FALSE
    OBVIOUS
  <2> QED
    BY <2>1, <2>2, <2>3
<1>3. ASSUME NEW n \in N
      PROVE  n + 1 \in N
  <2>1. SUFFICES ASSUME n + 1 <= NumTBs PROVE Good(f[n + 1], n + 1)
    OBVIOUS
  <2>2. n \in Nat /\ n + 1 \in TBs /\ (n + 1) - 1 = n /\ Good(f[n], n)
    BY <2>1, TBsFacts DEF TBs
  <2>3. f[n + 1] = IF n + 1 \in T THEN Append(f[n], n + 1) ELSE f[n]
    BY <1>1, <2>2 DEF TBs
  <2>4. PICK s : s = f[n]
    OBVIOUS
  <2>5. \A t \in T : t <= n + 1 => t <= n \/ t = n + 1
    BY <2>2, TBsFacts
  <2>6. CASE n + 1 \notin T
    BY <2>2, <2>3, <2>5, <2>6
  <2>7. CASE n + 1 \in T
    <3>1. PICK g : g = Append(s, n + 1)
      OBVIOUS
    <3>2. s \in Seq(TBs)
      BY <2>2, <2>4
    <3>3. /\ g \in Seq(TBs) /\ Len(g) = Len(s) + 1
          /\ \A i \in 1..Len(s) : g[i] = s[i]
          /\ g[Len(s) + 1] = n + 1
      BY <2>2, <3>1, <3>2, AppendProperties
    <3>4. Len(s) \in Nat
      BY <3>2, LenProperties
    <3>5. /\ \A i \in 1..Len(s) + 1 : i \in 1..Len(s) \/ i = Len(s) + 1
          /\ \A i \in 1..Len(s) : i \in 1..Len(s) + 1
          /\ Len(s) + 1 \in 1..Len(s) + 1
      BY <3>4
    <3>6. \A t \in T : t <= n + 1 => \E i \in 1..Len(g) : g[i] = t
      <4> SUFFICES ASSUME NEW t \in T, t <= n + 1
                   PROVE  \E i \in 1..Len(g) : g[i] = t
        OBVIOUS
      <4>1. CASE t = n + 1
        BY <3>3, <3>5, <4>1
      <4>2. CASE t <= n
        <5>1. PICK i \in 1..Len(s) : s[i] = t
          BY <2>2, <2>4, <4>2
        <5> QED
          BY <3>3, <3>5, <5>1
      <4> QED
        BY <2>5, <4>1, <4>2
    <3>7. \A i \in 1..Len(g) : g[i] \in T
      <4> SUFFICES ASSUME NEW i \in 1..Len(g)
                   PROVE  g[i] \in T
        OBVIOUS
      <4>1. \A k \in 1..Len(s) : s[k] \in T
        BY <2>2, <2>4
      <4> QED
        BY <2>7, <3>3, <3>5, <4>1
    <3>8. f[n + 1] = g
      BY <2>3, <2>4, <2>7, <3>1
    <3> QED
      BY <3>3, <3>6, <3>7, <3>8
  <2> QED
    BY <2>6, <2>7
<1> HIDE DEF Good
<1>4. NumTBs \in N
  <2> HIDE DEF N
  <2> QED
    BY <1>2, <1>3, NatInduct, TBsFacts DEF N
<1>5. Good(InOrder(T), NumTBs)
  BY <1>1, <1>4, TBsFacts
<1>6. \A t \in T : t <= NumTBs
  BY DEF TBs
<1>7. InOrder(T) \in Seq(TBs)
  BY <1>5 DEF Good
<1>8. DOMAIN InOrder(T) = 1..Len(InOrder(T))
  BY <1>7, LenProperties
<1> QED
  BY <1>5, <1>6, <1>7, <1>8 DEF Good

(* The segments follow each other without gap.                             *)
LEMMA LastSegment ==
    ASSUME TypeOK, SegmentOK, BlocksOf(seg + 1) = {}
    PROVE  \A t \in TBs : file.seg[t] <= seg
<1>1. /\ seg \in Nat \ {0}
      /\ \A t \in TBs : file.seg[t] \in Nat \ {0} /\ file.seg[t] # seg + 1
      /\ \A t \in TBs : file.seg[t] = 1 \/ \E u \in 1..t - 1 : file.seg[u] \in {file.seg[t], file.seg[t] - 1}
  BY FileFacts DEF TypeOK, WellFormedFile, SegmentOK, BlocksOf
<1> DEFINE N == {n \in Nat : \A t \in TBs : t <= n => file.seg[t] <= seg}
<1>2. 0 \in N
  BY TBsFacts
<1>3. ASSUME NEW n \in N
      PROVE  n + 1 \in N
  <2>1. SUFFICES ASSUME n + 1 \in TBs PROVE file.seg[n + 1] <= seg
    <3>1. \A t \in TBs : t <= n + 1 => t <= n \/ t = n + 1
      BY TBsFacts
    <3> QED
      BY <3>1
  <2>2. CASE file.seg[n + 1] = 1
    BY <1>1, <2>2
  <2>3. CASE file.seg[n + 1] # 1
    <3>1. PICK u \in 1..(n + 1) - 1 : file.seg[u] \in {file.seg[n + 1], file.seg[n + 1] - 1}
      BY <1>1, <2>1, <2>3
    <3>2. u \in TBs /\ u <= n
      BY <2>1, <3>1, TBsFacts DEF TBs
    <3>3. file.seg[u] <= seg
      BY <3>2
    <3>4. /\ file.seg[n + 1] \in Nat /\ file.seg[n + 1] # seg + 1 /\ file.seg[u] \in Nat
      BY <1>1, <2>1, <3>2
    <3> QED
      BY <1>1, <3>1, <3>3, <3>4
  <2> QED
    BY <2>2, <2>3
<1>4. N = Nat
  <2>1. N \in SUBSET Nat
    OBVIOUS
  <2> HIDE DEF N
  <2> QED
    BY <1>2, <1>3, <2>1, NatInduct
<1>5. \A t \in TBs : t \in Nat /\ t <= t
  BY TBsFacts
<1> QED
  BY <1>4, <1>5

LEMMA WalkKeepsMiss ==
    ASSUME IndInv, MissInv, Walk
    PROVE  MissInv'
<1>1. /\ Settling
      /\ \A t \in TBs : IsDecoded(t)' <=> IsDecoded(t)
      /\ stack # <<>> /\ step = "unify"
      /\ UNCHANGED <<file, seg, step, parented, entries>>
      /\ stack' # <<>> => stack'[1].tb = stack[1].tb
      /\ stack' = <<>> => RootHandled
  BY WalkSettles DEF MissInv
<1>2. TypeOK
  BY DEF IndInv
<1>3. /\ \A t, u : Goes(t, u)' <=> Goes(t, u)
      /\ \A t \in TBs : IsEntry(t)' <=> IsEntry(t)
      /\ BlocksOf(seg)' = BlocksOf(seg)
  BY <1>1, SameFile DEF BlocksOf
<1>4. EndsClosed' /\ ParentedOK'
  BY <1>1, <1>3 DEF MissInv, Settling, ParentedOK
<1>5. SegmentOK'
  BY <1>1, <1>3 DEF MissInv, SegmentOK
<1>6. ASSUME DistinctKeys
      PROVE  WalkSearches' /\ EntriesSearched'
  <2>1. WalkSearches /\ EntriesSearched /\ EndsClosed
    BY <1>1, <1>6 DEF MissInv, DistinctKeys
  <2>2. WalkSearches'
    BY <1>6, <2>1, StepSearches
  <2>3. SUFFICES ASSUME NEW e \in TBs, IsEntry(e), IsDecoded(e)
                 PROVE  \/ e \in Range(entries)
                        \/ stack' # <<>> /\ stack'[1].tb = e
                        \/ NoneMissed(e)'
    BY <1>1, <1>3, <2>2 DEF EntriesSearched, Range
  <2>4. CASE e \in Range(entries)
    BY <2>4
  <2>5. CASE NoneMissed(e)
    BY <1>1, <1>2, <2>5, NoneMissedStays
  <2>6. CASE stack[1].tb = e /\ stack' # <<>>
    BY <1>1, <2>6
  <2>7. CASE stack[1].tb = e /\ stack' = <<>>
    <3>1. e \in BlocksOf(seg) /\ Handled(e)'
      BY <1>1, <2>7 DEF RootHandled, MissInv, SegmentOK
    <3>2. HandledSearched'
      BY <1>4, <2>2, <2>7, SearchOverNext DEF SearchEnded
    <3>3. NoneMissed(e)'
      BY <1>3, <3>1, <3>2 DEF HandledSearched
    <3> QED
      BY <3>3
  <2> QED
    BY <2>1, <2>3, <2>4, <2>5, <2>6, <2>7 DEF EntriesSearched
<1> QED
  BY <1>1, <1>4, <1>5, <1>6 DEF MissInv, DistinctKeys

LEMMA StartKeepsMiss ==
    ASSUME IndInv, MissInv, StartEntry
    PROVE  MissInv'
<1>1. /\ step = "unify" /\ stack = <<>> /\ entries # <<>> /\ entries \in Seq(TBs)
      /\ stack' = <<[tb |-> Head(entries), pc |-> "enter"]>> /\ entries' = Tail(entries)
      /\ parents' = {} /\ finished' = {}
      /\ UNCHANGED <<file, seg, step, tbs, parented>>
      /\ TypeOK
  BY DEF IndInv, TypeOK, StartEntry, Frame
<1>2. PICK e : e = Head(entries)
  OBVIOUS
<1>3. /\ stack' = <<[tb |-> e, pc |-> "enter"]>>
      /\ stack' # <<>> /\ stack'[1].tb = e /\ DOMAIN stack' = {1} /\ stack'[1].pc = "enter"
  BY <1>1, <1>2
<1>4. /\ Head(entries) = entries[1] /\ 1 \in DOMAIN entries
      /\ DOMAIN entries' = 1..Len(entries) - 1 /\ Len(entries) \in Nat
      /\ DOMAIN entries = 1..Len(entries)
      /\ \A i \in 1..Len(entries) - 1 : entries'[i] = entries[i + 1]
  <2>1. entries' \in Seq(TBs) /\ Len(entries') = Len(entries) - 1
        /\ \A i \in 1..Len(entries') : entries'[i] = entries[i + 1]
        /\ Head(entries) = entries[1]
    BY <1>1, HeadTailProperties
  <2>2. Len(entries) \in Nat /\ DOMAIN entries = 1..Len(entries) /\ Len(entries) # 0
        /\ DOMAIN entries' = 1..Len(entries')
    BY <1>1, <2>1, LenProperties, EmptySeq
  <2> QED
    BY <2>1, <2>2
<1>5. /\ Settling
      /\ \A t \in TBs : IsDecoded(t)' <=> IsDecoded(t)
  BY <1>1, BlocksSettled DEF MissInv
<1>6. /\ \A t, u : Goes(t, u)' <=> Goes(t, u)
      /\ \A t \in TBs : IsEntry(t)' <=> IsEntry(t)
      /\ BlocksOf(seg)' = BlocksOf(seg)
  BY <1>1, SameFile DEF BlocksOf
<1>7. EndsClosed' /\ ParentedOK'
  BY <1>1, <1>5, <1>6 DEF MissInv, Settling, ParentedOK
<1>8. SegmentOK'
  <2>1. e \in BlocksOf(seg)
    BY <1>2, <1>4 DEF MissInv, SegmentOK
  <2>2. \A i \in DOMAIN entries' : i + 1 \in DOMAIN entries
    BY <1>4
  <2>3. \A i \in DOMAIN entries' : entries'[i] \in BlocksOf(seg)
    BY <1>4, <2>2 DEF MissInv, SegmentOK
  <2> QED
    BY <1>1, <1>3, <1>6, <2>1, <2>3 DEF MissInv, SegmentOK
<1>9. WalkSearches'
  BY <1>1, <1>3 DEF WalkSearches
<1>10. ASSUME EntriesSearched
       PROVE  EntriesSearched'
  <2>1. SUFFICES ASSUME NEW b \in TBs, IsEntry(b), IsDecoded(b)
                 PROVE  \/ b \in Range(entries')
                        \/ b = e
                        \/ NoneMissed(b)'
    BY <1>3, <1>5, <1>6 DEF EntriesSearched, Range
  <2>2. CASE NoneMissed(b)
    BY <1>1, <1>5, <2>2, NoneMissedStays
  <2>3. CASE b \in Range(entries)
    <3>1. PICK i \in DOMAIN entries : entries[i] = b
      BY <2>3 DEF Range
    <3>2. CASE i = 1
      BY <1>2, <1>4, <3>1, <3>2
    <3>3. CASE i # 1
      <4>1. i - 1 \in 1..Len(entries) - 1 /\ (i - 1) + 1 = i
        BY <1>4, <3>3
      <4>2. entries'[i - 1] = b /\ i - 1 \in DOMAIN entries'
        BY <1>4, <3>1, <4>1
      <4> QED
        BY <4>2 DEF Range
    <3> QED
      BY <3>2, <3>3
  <2> QED
    BY <1>1, <1>10, <2>1, <2>2, <2>3 DEF EntriesSearched
<1> QED
  BY <1>1, <1>7, <1>8, <1>9, <1>10 DEF MissInv

LEMMA PrepareKeepsMiss ==
    ASSUME IndInv, MissInv, Prepare
    PROVE  MissInv'
<1> DEFINE new == BlocksOf(seg)
<1>1. /\ TypeOK /\ BlocksOK /\ step = "prepare" /\ step' = "unify" /\ entries = <<>> /\ stack = <<>>
      /\ UNCHANGED <<file, seg, stack, parents, finished>>
      /\ branch' = [t \in TBs |-> IF t \in new THEN Settled(t) ELSE branch[t]]
      /\ entries' = InOrder(new \ parented')
  BY DEF IndInv, MissInv, SegmentOK, Prepare
<1>2. /\ Settling
      /\ \A t \in TBs : IsDecoded(t)' <=> IsDecoded(t) \/ t \in new
  BY PrepareSettles DEF MissInv
<1>3. /\ \A t, u : Goes(t, u)' <=> Goes(t, u)
      /\ \A t \in TBs : IsEntry(t)' <=> IsEntry(t)
      /\ BlocksOf(seg)' = new /\ new \subseteq TBs
  BY <1>1, SameFile DEF BlocksOf
<1>4. parented' = parented \cup {u \in TBs : \E t \in new, d \in Jumps : branch'[t][d] = u}
  <2>1. parented' = parented \cup
          {u \in TBs : \E t \in new, d \in Jumps :
             [v \in TBs |-> IF v \in new THEN Settled(v) ELSE branch[v]][t][d] = u}
    BY DEF Prepare
  <2> QED
    BY <1>1, <2>1
<1>5. ASSUME NEW t \in new, NEW d \in Jumps, NEW u \in TBs, branch'[t][d] = u
      PROVE  Goes(t, u)
  <2>1. t \in TBs /\ ~ IsDecoded(t)
    BY <1>1, <1>3, FileFacts DEF IsDecoded, BlocksOf, TypeOK
  <2>2. tbs[t].linked = file.linked[t]
    <3>1. tbs[t] = Constructed(t)
      BY <1>1, <2>1 DEF BlocksOK, Unread
    <3> QED
      BY <3>1 DEF Constructed
  <2>3. branch'[t] = Settled(t)
    BY <1>1, <2>1
  <2>4. u # NoTB
    BY TBsFacts
  <2> QED
    BY <1>5, <2>2, <2>3, <2>4 DEF Settled, Goes
<1>6. ASSUME NEW u \in TBs, u \in parented'
      PROVE  \E t \in TBs : IsDecoded(t)' /\ Goes(t, u)
  <2>1. CASE u \in parented
    BY <1>2, <2>1 DEF MissInv, ParentedOK
  <2>2. CASE u \notin parented
    <3>1. PICK t \in new, d \in Jumps : branch'[t][d] = u
      BY <1>4, <1>6, <2>2
    <3> QED
      BY <1>2, <1>3, <1>5, <3>1
  <2> QED
    BY <2>1, <2>2
<1>7. EndsClosed' /\ ParentedOK'
  BY <1>2, <1>3, <1>6 DEF Settling, ParentedOK
<1>8. PICK T : T = new \ parented'
  OBVIOUS
<1>9. /\ entries' \in Seq(TBs)
      /\ \A t \in T : \E i \in DOMAIN entries' : entries'[i] = t
      /\ \A i \in DOMAIN entries' : entries'[i] \in T
  BY <1>1, <1>3, <1>8, InOrderHas
<1>10. SegmentOK'
  <2>1. \A i \in DOMAIN entries' : entries'[i] \in new
    BY <1>8, <1>9
  <2> QED
    BY <1>1, <1>3, <2>1 DEF MissInv, SegmentOK
<1>11. ASSUME EntriesSearched
       PROVE  EntriesSearched'
  <2>1. SUFFICES ASSUME NEW e \in TBs, IsEntry(e), IsDecoded(e) \/ e \in new
                 PROVE  e \in Range(entries') \/ NoneMissed(e)'
    BY <1>2, <1>3 DEF EntriesSearched, Range
  <2>2. CASE e \in new
    <3>1. e \notin parented'
      <4> SUFFICES ASSUME e \in parented'
                   PROVE  FALSE
        OBVIOUS
      <4>1. PICK t \in TBs : IsDecoded(t)' /\ Goes(t, e)
        BY <1>6
      <4>2. file.seg[t] <= file.seg[e]
        BY <1>1, <1>2, <2>2, <4>1, FileFacts DEF IsDecoded, BlocksOf, TypeOK
      <4> QED
        BY <2>1, <4>1, <4>2 DEF IsEntry
    <3>2. PICK i \in DOMAIN entries' : entries'[i] = e
      BY <1>8, <1>9, <2>2, <3>1
    <3> QED
      BY <3>2 DEF Range
  <2>3. CASE IsDecoded(e)
    <3>1. e \notin Range(entries) /\ stack = <<>>
      BY <1>1 DEF Range
    <3>2. NoneMissed(e)
      BY <1>11, <2>1, <2>3, <3>1 DEF EntriesSearched
    <3> QED
      BY <1>1, <1>2, <3>2, NoneMissedStays
  <2> QED
    BY <2>1, <2>2, <2>3
<1> QED
  BY <1>1, <1>7, <1>10, <1>11 DEF MissInv

LEMMA NextSegmentKeepsMiss ==
    ASSUME IndInv, MissInv, NextSegment
    PROVE  MissInv'
<1>1. /\ TypeOK /\ SegmentOK /\ step = "unify" /\ stack = <<>> /\ entries = <<>>
      /\ UNCHANGED <<file, tbs, branch, parented, entries, stack, parents, finished>>
      /\ \/ step' = "done" /\ seg' = seg /\ BlocksOf(seg + 1) = {}
         \/ step' = "prepare" /\ seg' = seg + 1
      /\ seg \in Nat
  BY DEF IndInv, MissInv, TypeOK, NextSegment
<1>2. \A t \in TBs : IsDecoded(t)' <=> IsDecoded(t)
  BY <1>1, FileFacts DEF IsDecoded
<1>3. /\ \A t, u : Goes(t, u)' <=> Goes(t, u)
      /\ \A t \in TBs : IsEntry(t)' <=> IsEntry(t)
      /\ \A t \in TBs : NoSuccessor(t)' <=> NoSuccessor(t)
  BY <1>1, SameFile DEF NoSuccessor
<1>4. EndsClosed' /\ ParentedOK'
  BY <1>1, <1>2, <1>3 DEF MissInv, EndsClosed, ParentedOK
<1>5. Settling
  BY <1>1, <1>2, <1>3, <1>4 DEF Settling
<1>6. SegmentOK'
  <2>1. seg' # 0
    BY <1>1 DEF SegmentOK
  <2>2. step' = "done" => \A t \in TBs : file.seg[t] <= seg
    BY <1>1, LastSegment
  <2>3. DOMAIN entries' = {}
    BY <1>1
  <2> QED
    BY <1>1, <2>1, <2>2, <2>3 DEF SegmentOK
<1>7. ASSUME EntriesSearched
      PROVE  EntriesSearched'
  <2>1. SUFFICES ASSUME NEW e \in TBs, IsEntry(e), IsDecoded(e)
                 PROVE  NoneMissed(e)'
    BY <1>2, <1>3 DEF EntriesSearched
  <2>2. e \notin Range(entries) /\ stack = <<>>
    BY <1>1 DEF Range
  <2>3. NoneMissed(e)
    BY <1>7, <2>1, <2>2 DEF EntriesSearched
  <2> QED
    BY <1>1, <1>5, <2>3, NoneMissedStays
<1> QED
  BY <1>1, <1>4, <1>6, <1>7 DEF MissInv

LEMMA StutterKeepsMiss ==
    ASSUME MissInv, UNCHANGED vars
    PROVE  MissInv'
<1>1. UNCHANGED <<file, seg, step, tbs, branch, parented, entries, stack, parents, finished>>
  BY DEF vars
<1>2. /\ \A t, u : Goes(t, u)' <=> Goes(t, u)
      /\ \A t \in TBs : EndsNext(t)' <=> EndsNext(t)
      /\ \A t \in TBs : IsEntry(t)' <=> IsEntry(t)
      /\ \A t : ReachedFrom(t)' = ReachedFrom(t)
  BY <1>1, SameFile
<1>3. /\ \A t : NoSuccessor(t)' <=> NoSuccessor(t)
      /\ \A t : IsDecoded(t)' <=> IsDecoded(t)
      /\ BlocksOf(seg)' = BlocksOf(seg) /\ BlocksOf(seg) \subseteq TBs
  BY <1>1 DEF NoSuccessor, IsDecoded, BlocksOf
<1>4. \A t : Handled(t)' <=> Handled(t)
  BY <1>1, <1>3 DEF Handled
<1>5. \A i, d : Tried(i, d)' <=> Tried(i, d)
  BY <1>1, <1>3, <1>4 DEF Tried
<1>6. WalkSearches' <=> WalkSearches
  BY <1>1, <1>2, <1>3, <1>4, <1>5 DEF WalkSearches, Entered
<1>7. \A t : NoneMissed(t) => NoneMissed(t)'
  <2>1. \A t : EndsNext(t)' <=> EndsNext(t)
    BY <1>1 DEF EndsNext, InFile, Running, FileIds
  <2> QED
    BY <1>2, <1>3, <2>1 DEF NoneMissed
<1>8. EntriesSearched => EntriesSearched'
  BY <1>1, <1>2, <1>3, <1>7 DEF EntriesSearched, Range
<1>9. EndsClosed' /\ ParentedOK'
  BY <1>1, <1>2, <1>3 DEF MissInv, EndsClosed, ParentedOK
<1>10. SegmentOK'
  BY <1>1, <1>3 DEF MissInv, SegmentOK
<1> QED
  BY <1>1, <1>6, <1>8, <1>9, <1>10 DEF MissInv

LEMMA InitMiss == Init => MissInv
<1> SUFFICES ASSUME Init PROVE MissInv
  OBVIOUS
<1>1. TypeOK
  BY InitOK DEF IndInv
<1>2. ASSUME NEW t \in TBs, NEW u \in TBs, Goes(t, u)
      PROVE  ~ NoSuccessor(t)
  BY <1>2 DEF Goes, Init, Constructed, NoSuccessor
<1>3. \A t \in TBs : ~ IsDecoded(t)
  BY <1>1, FileFacts DEF Init, IsDecoded
<1>4. EndsClosed /\ ParentedOK
  BY <1>2 DEF EndsClosed, ParentedOK, Init
<1>5. SegmentOK
  BY DEF Init, SegmentOK
<1>6. EntriesSearched
  BY <1>3 DEF EntriesSearched
<1> QED
  BY <1>4, <1>5, <1>6 DEF MissInv, Init

(* No opportunity the file shows is missed: every block whose only         *)
(* successor ends, and that some entry block reaches in its segment, has   *)
(* been unified when the segment is done, in any file whose addresses      *)
(* differ in their low 32 bits (TU_Vistor.cpp:106-141).                    *)
THEOREM NoneOverlooked == Spec => []NothingMissed
<1>1. IndInv /\ MissInv /\ [Next]_vars => MissInv'
  BY WalkKeepsMiss, StartKeepsMiss, PrepareKeepsMiss, NextSegmentKeepsMiss, StutterKeepsMiss
  DEF Next
<1>2. IndInv /\ MissInv => NothingMissed
  <2> SUFFICES ASSUME IndInv, MissInv, Cardinality(Range(file.key)) = NumTBs,
                      NEW e \in TBs, IsEntry(e), file.seg[e] < seg \/ step = "done"
               PROVE  NoneMissed(e)
    BY DEF NothingMissed
  <2>1. TypeOK /\ DistinctKeys /\ SegmentOK /\ EntriesSearched
    BY KeysDistinct DEF IndInv, MissInv, DistinctKeys
  <2>2. file.seg[e] \in Nat /\ seg \in Nat
    BY <2>1, FileFacts DEF TypeOK
  <2>3. IsDecoded(e)
    BY <2>1, <2>2 DEF IsDecoded, SegmentOK
  <2>4. e \notin Range(entries) /\ ~ (stack # <<>> /\ stack[1].tb = e)
    <3>1. CASE file.seg[e] < seg
      <4>1. e \notin BlocksOf(seg)
        BY <2>2, <3>1 DEF BlocksOf
      <4> QED
        BY <2>1, <4>1 DEF SegmentOK, Range
    <3>2. CASE step = "done"
      BY <2>1, <3>2 DEF SegmentOK, Range
    <3> QED
      BY <3>1, <3>2
  <2> QED
    BY <2>1, <2>3, <2>4 DEF EntriesSearched
<1> QED
  BY <1>1, <1>2, InitMiss, Inductive, PTL DEF Spec
=============================================================================
