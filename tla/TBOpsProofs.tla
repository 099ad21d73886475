---------------------------- MODULE TBOpsProofs ----------------------------
(***************************************************************************)
(* What the editing operations of a block return, for every block: they    *)
(* keep its type, and each instruction and relocation ends up where the    *)
(* theorems about TBEdit need it.                                          *)
(***************************************************************************)
EXTENDS TBOps, SequenceTheorems, WellFoundedInduction, TLAPS

(* A function over an initial interval of the naturals is a sequence.      *)
LEMMA FcnIsSeq ==
    ASSUME NEW S, NEW n \in Nat, NEW f \in [1..n -> S]
    PROVE  f \in Seq(S) /\ Len(f) = n
OBVIOUS

(* Concatenation, with the second part indexed from 1.                     *)
LEMMA Concat ==
    \A S : \A a, b \in Seq(S) : \A c : c = a \o b =>
        /\ c \in Seq(S)
        /\ Len(c) = Len(a) + Len(b)
        /\ \A i \in 1..Len(a) : c[i] = a[i]
        /\ \A i \in 1..Len(b) : c[Len(a) + i] = b[i]
<1> SUFFICES ASSUME NEW S, NEW a \in Seq(S), NEW b \in Seq(S), NEW c, c = a \o b
             PROVE  /\ c \in Seq(S)
                    /\ Len(c) = Len(a) + Len(b)
                    /\ \A i \in 1..Len(a) : c[i] = a[i]
                    /\ \A i \in 1..Len(b) : c[Len(a) + i] = b[i]
  OBVIOUS
<1>0. Len(a) \in Nat /\ Len(b) \in Nat
  BY LenProperties
<1>1. /\ a \o b \in Seq(S)
      /\ Len(a \o b) = Len(a) + Len(b)
      /\ \A i \in 1..Len(a) + Len(b) :
            (a \o b)[i] = IF i <= Len(a) THEN a[i] ELSE b[i - Len(a)]
  BY ConcatProperties
<1>2. /\ c \in Seq(S)
      /\ Len(c) = Len(a) + Len(b)
      /\ \A i \in 1..Len(a) + Len(b) :
            c[i] = IF i <= Len(a) THEN a[i] ELSE b[i - Len(a)]
  BY <1>1, Zenon
<1>3. ASSUME NEW i \in 1..Len(b)
      PROVE  c[Len(a) + i] = b[i]
  <2>1. /\ Len(a) + i \in 1..Len(a) + Len(b)
        /\ ~ (Len(a) + i <= Len(a))
        /\ (Len(a) + i) - Len(a) = i
    BY <1>0
  <2> QED
    BY <1>2, <2>1
<1>4. \A i \in 1..Len(a) : c[i] = a[i]
  BY <1>0, <1>2
<1> QED
  BY <1>2, <1>3, <1>4

(* Removing the n-th element of a sequence moves the later ones down.      *)
LEMMA RemoveAtProperties ==
    ASSUME NEW S, NEW s \in Seq(S), NEW n \in 1..Len(s)
    PROVE  /\ RemoveAt(s, n) \in Seq(S)
           /\ Len(RemoveAt(s, n)) = Len(s) - 1
           /\ \A k \in 1..Len(s) - 1 :
                RemoveAt(s, n)[k] = IF k < n THEN s[k] ELSE s[k + 1]
<1> DEFINE x == n - 1
           y == Len(s) - n
           a == SubSeq(s, 1, x)
           b == SubSeq(s, n + 1, Len(s))
<1>0. Len(s) \in Nat /\ x \in Nat /\ y \in Nat /\ n = x + 1 /\ Len(s) = x + y + 1
  BY LenProperties
<1>1. /\ a \in Seq(S) /\ Len(a) = x
      /\ \A i \in 1..x : a[i] = s[i]
  BY SubSeqProperties, ElementOfSeq
<1>2. /\ b \in Seq(S) /\ Len(b) = y
      /\ \A i \in 1..y : b[i] = s[n + i]
  BY SubSeqProperties, ElementOfSeq
<1>3. RemoveAt(s, n) = a \o b
  BY DEF RemoveAt
<1> HIDE DEF a, b, x, y
<1> DEFINE c == a \o b
<1>3a. c = a \o b
  OBVIOUS
<1> HIDE DEF c
<1>4. /\ c \in Seq(S)
      /\ Len(c) = x + y
      /\ \A i \in 1..x : c[i] = a[i]
      /\ \A i \in 1..y : c[x + i] = b[i]
  <2>1. /\ c \in Seq(S)
        /\ Len(c) = Len(a) + Len(b)
        /\ \A i \in 1..Len(a) : c[i] = a[i]
        /\ \A i \in 1..Len(b) : c[Len(a) + i] = b[i]
    <3>1. a \in Seq(S) /\ b \in Seq(S)
      BY <1>1, <1>2
    <3> QED
      BY <3>1, <1>3a, Concat, Z3
  <2> QED
    BY <2>1, <1>1, <1>2
<1>5. ASSUME NEW k \in 1..x + y
      PROVE  c[k] = IF k < n THEN s[k] ELSE s[k + 1]
  <2>1. CASE k <= x
    BY <2>1, <1>0, <1>1, <1>4
  <2>2. CASE ~ (k <= x)
    <3>1. PICK i \in 1..y : k = x + i
      <4>1. k - x \in 1..y /\ k = x + (k - x)
        BY <1>0, <2>2
      <4> QED
        BY <4>1
    <3>2. c[k] = s[n + i]
      BY <3>1, <1>2, <1>4
    <3>3. n + i = k + 1 /\ ~ (k < n)
      BY <3>1, <1>0
    <3> QED
      BY <3>2, <3>3
  <2> QED
    BY <2>1, <2>2
<1>6. RemoveAt(s, n) = c
  BY <1>3, <1>3a
<1>7. Len(s) - 1 = x + y
  BY <1>0
<1> QED
  BY <1>4, <1>5, <1>6, <1>7

(* Inserting in front of the n-th element moves it and the later ones up.  *)
LEMMA InsertAtProperties ==
    ASSUME NEW S, NEW s \in Seq(S), NEW n \in 1..Len(s) + 1, NEW e \in S
    PROVE  /\ InsertAt(s, n, e) \in Seq(S)
           /\ Len(InsertAt(s, n, e)) = Len(s) + 1
           /\ \A k \in 1..Len(s) + 1 :
                InsertAt(s, n, e)[k] = IF k < n THEN s[k]
                                       ELSE IF k = n THEN e ELSE s[k - 1]
<1> DEFINE x == n - 1
           y == Len(s) - x
           a == SubSeq(s, 1, x)
           b == SubSeq(s, n, Len(s))
           p == Append(a, e)
<1>0. Len(s) \in Nat /\ x \in Nat /\ y \in Nat /\ n = x + 1 /\ Len(s) = x + y
  BY LenProperties
<1>1. /\ a \in Seq(S) /\ Len(a) = x
      /\ \A i \in 1..x : a[i] = s[i]
  BY SubSeqProperties, ElementOfSeq
<1>2. /\ b \in Seq(S) /\ Len(b) = y
      /\ \A i \in 1..y : b[i] = s[x + i]
  BY SubSeqProperties, ElementOfSeq
<1>3. InsertAt(s, n, e) = (a \o <<e>>) \o b
  BY DEF InsertAt
<1>4. a \o <<e>> = p
  BY <1>1, AppendIsConcat
<1> HIDE DEF a, b, x, y
<1>5. /\ p \in Seq(S) /\ Len(p) = x + 1
      /\ \A i \in 1..x : p[i] = a[i]
      /\ p[x + 1] = e
  BY <1>1, AppendProperties
<1> HIDE DEF p
<1> DEFINE c == p \o b
<1>5a. c = p \o b
  OBVIOUS
<1> HIDE DEF c
<1>6. /\ c \in Seq(S)
      /\ Len(c) = n + y
      /\ \A i \in 1..n : c[i] = p[i]
      /\ \A i \in 1..y : c[n + i] = b[i]
  <2>1. Len(p) = n
    BY <1>0, <1>5
  <2>2. /\ c \in Seq(S)
        /\ Len(c) = Len(p) + Len(b)
        /\ \A i \in 1..Len(p) : c[i] = p[i]
        /\ \A i \in 1..Len(b) : c[Len(p) + i] = b[i]
    <3>1. p \in Seq(S) /\ b \in Seq(S)
      BY <1>2, <1>5
    <3> QED
      BY <3>1, <1>5a, Concat, Z3
  <2> QED
    BY <2>1, <2>2, <1>2
<1>7. ASSUME NEW k \in 1..n + y
      PROVE  c[k] = IF k < n THEN s[k] ELSE IF k = n THEN e ELSE s[k - 1]
  <2>1. CASE k \in 1..x
    <3>1. c[k] = s[k]
      BY <2>1, <1>0, <1>1, <1>5, <1>6
    <3> QED
      BY <2>1, <3>1, <1>0
  <2>2. CASE k = n
    BY <2>2, <1>0, <1>5, <1>6
  <2>3. CASE k \notin 1..n
    <3>1. PICK i \in 1..y : k = n + i
      <4>1. k - n \in 1..y /\ k = n + (k - n)
        BY <1>0, <2>3
      <4> QED
        BY <4>1
    <3>2. c[k] = s[x + i]
      BY <3>1, <1>2, <1>6
    <3>3. x + i = k - 1 /\ ~ (k < n) /\ k # n
      BY <3>1, <1>0
    <3> QED
      BY <3>2, <3>3
  <2> QED
    BY <1>0, <2>1, <2>2, <2>3
<1>8. InsertAt(s, n, e) = c
  BY <1>3, <1>4, <1>5a
<1>9. Len(s) + 1 = n + y
  BY <1>0
<1> QED
  BY <1>6, <1>7, <1>8, <1>9

-----------------------------------------------------------------------------
(* Induction over the naturals, in the form of a least element.            *)
LEMMA LeastNatural ==
    ASSUME NEW T \in SUBSET Nat, T # {}
    PROVE  \E x \in T : \A y \in T : x <= y
<1>1. \E x \in T : \A y \in T : <<y, x>> \notin OpToRel(<, Nat)
  BY WFMin, NatLessThanWellFounded
<1>2. \A x, y \in Nat : <<y, x>> \notin OpToRel(<, Nat) => x <= y
  BY DEF OpToRel
<1> QED
  BY <1>1, <1>2

LEMMA NatInduct ==
    ASSUME NEW T \in SUBSET Nat, 0 \in T, \A n \in T : n + 1 \in T
    PROVE  T = Nat
<1> SUFFICES ASSUME Nat \ T # {} PROVE FALSE
  OBVIOUS
<1>1. PICK m \in Nat \ T : \A n \in Nat \ T : m <= n
  BY LeastNatural
<1>2. m - 1 \in Nat /\ m - 1 < m /\ (m - 1) + 1 = m
  BY <1>1
<1>3. m - 1 \in T
  BY <1>1, <1>2
<1> QED
  BY <1>1, <1>2, <1>3

-----------------------------------------------------------------------------
(* The operators keep the type of a block.                                 *)

LEMMA EntryTypes ==
    /\ \A b \in BranchType : b.off \in Nat
    /\ \A b \in BranchType, n \in Nat : [b EXCEPT !.off = n] \in BranchType
    /\ \A r \in RelType : r.off \in Nat /\ r.slots \in Nat \ {0} /\ r.valid \in BOOLEAN
    /\ \A r \in RelType, n \in Nat : [r EXCEPT !.off = n] \in RelType
    /\ \A r \in RelType, b \in BOOLEAN : [r EXCEPT !.valid = b] \in RelType
BY DEF BranchType, RelType

LEMMA EraseBranchAtType ==
    ASSUME NEW v \in Seq(BranchType), NEW i \in Nat
    PROVE  EraseBranchAt(v, i) \in Seq(BranchType)
<1> DEFINE I == {k \in 1..Len(v) : v[k].off = i}
<1>1. CASE I = {}
  BY <1>1 DEF EraseBranchAt, RemoveFirstMatch
<1>2. CASE I # {}
  <2>1. I \in SUBSET Nat
    OBVIOUS
  <2>2. Min(I) \in I
    BY <2>1, <1>2, LeastNatural DEF Min
  <2>3. EraseBranchAt(v, i) = RemoveAt(v, Min(I))
    BY <1>2 DEF EraseBranchAt, RemoveFirstMatch, SelectInSeq
  <2> QED
    BY <2>2, <2>3, RemoveAtProperties
<1> QED
  BY <1>1, <1>2

LEMMA ShiftType ==
    ASSUME NEW v \in Seq(BranchType), NEW i \in Nat
    PROVE  /\ ShiftDown(v, i) \in Seq(BranchType)
           /\ ShiftUp(v, i) \in Seq(BranchType)
<1>1. Len(v) \in Nat /\ DOMAIN v = 1..Len(v) /\ \A k \in 1..Len(v) : v[k] \in BranchType
  BY LenProperties, ElementOfSeq
<1>2. ShiftDown(v, i) \in [1..Len(v) -> BranchType]
  <2>1. ASSUME NEW k \in 1..Len(v)
        PROVE  [v[k] EXCEPT !.off = IF @ > i THEN @ - 1 ELSE @] \in BranchType
    <3>1. v[k] \in BranchType /\ v[k].off \in Nat
      BY <1>1, EntryTypes
    <3>2. (IF v[k].off > i THEN v[k].off - 1 ELSE v[k].off) \in Nat
      BY <3>1
    <3> QED
      BY <3>1, <3>2, EntryTypes
  <2> QED
    BY <1>1, <2>1 DEF ShiftDown
<1>3. ShiftUp(v, i) \in [1..Len(v) -> BranchType]
  <2>1. ASSUME NEW k \in 1..Len(v)
        PROVE  [v[k] EXCEPT !.off = IF @ > i THEN @ + 1 ELSE @] \in BranchType
    <3>1. v[k] \in BranchType /\ v[k].off \in Nat
      BY <1>1, EntryTypes
    <3>2. (IF v[k].off > i THEN v[k].off + 1 ELSE v[k].off) \in Nat
      BY <3>1
    <3> QED
      BY <3>1, <3>2, EntryTypes
  <2> QED
    BY <1>1, <2>1 DEF ShiftUp
<1> QED
  BY <1>1, <1>2, <1>3, FcnIsSeq

InsnType == [id : Nat, opc : OpClasses]

LEMMA DropBranchType ==
    ASSUME NEW br \in [BranchClasses -> Seq(BranchType)], NEW insn, NEW i \in Nat
    PROVE  DropBranch(br, insn, i) \in [BranchClasses -> Seq(BranchType)]
<1>1. ASSUME NEW c \in BranchClasses
      PROVE  ShiftDown(IF insn.opc = c THEN EraseBranchAt(br[c], i) ELSE br[c], i)
                \in Seq(BranchType)
  BY EraseBranchAtType, ShiftType
<1> QED
  BY <1>1 DEF DropBranch

LEMMA AddBranchType ==
    ASSUME NEW br \in [BranchClasses -> Seq(BranchType)],
           NEW insn \in InsnType, NEW i \in Nat
    PROVE  AddBranch(br, insn, i) \in [BranchClasses -> Seq(BranchType)]
<1>1. [insn |-> insn.id, off |-> i] \in BranchType
  BY DEF BranchType, InsnType
<1>2. ASSUME NEW c \in BranchClasses
      PROVE  Append(br[c], [insn |-> insn.id, off |-> i]) \in Seq(BranchType)
  BY <1>1, AppendProperties
<1> QED
  BY <1>2 DEF AddBranch

LEMMA RelsAfterType ==
    ASSUME NEW rels \in Seq(RelType), NEW i \in Nat
    PROVE  /\ RelsAfterRemove(rels, i) \in Seq(RelType)
           /\ Len(RelsAfterRemove(rels, i)) = Len(rels)
           /\ RelsAfterAdd(rels, i) \in Seq(RelType)
           /\ Len(RelsAfterAdd(rels, i)) = Len(rels)
<1>1. /\ Len(rels) \in Nat /\ DOMAIN rels = 1..Len(rels)
      /\ \A k \in 1..Len(rels) : rels[k] \in RelType
  BY LenProperties, ElementOfSeq
<1>2. RelsAfterRemove(rels, i) \in [1..Len(rels) -> RelType]
  <2>1. ASSUME NEW j \in 1..Len(rels), i < rels[j].off
        PROVE  [rels[j] EXCEPT !.off = @ - 1] \in RelType
    <3>1. rels[j] \in RelType /\ rels[j].off - 1 \in Nat
      BY <1>1, <2>1, EntryTypes
    <3> QED
      BY <3>1, EntryTypes
  <2> QED
    BY <1>1, <2>1 DEF RelsAfterRemove
<1>3. RelsAfterAdd(rels, i) \in [1..Len(rels) -> RelType]
  <2>1. ASSUME NEW j \in 1..Len(rels)
        PROVE  [rels[j] EXCEPT !.off = @ + 1] \in RelType
    <3>1. rels[j] \in RelType /\ rels[j].off + 1 \in Nat
      BY <1>1, EntryTypes
    <3> QED
      BY <3>1, EntryTypes
  <2> QED
    BY <1>1, <2>1 DEF RelsAfterAdd
<1> QED
  BY <1>1, <1>2, <1>3, FcnIsSeq

LEMMA RemoveInsnType ==
    ASSUME NEW tb \in TBType, NEW i \in 0..Len(tb.insns) - 1
    PROVE  /\ RemoveInsn(tb, i + 1, i) \in TBType
           /\ Len(RemoveInsn(tb, i + 1, i).insns) = Len(tb.insns) - 1
<1> DEFINE insns    == RemoveAt(tb.insns, i + 1)
           branches == DropBranch(tb.branches, tb.insns[i + 1], i)
           rels     == RelsAfterRemove(tb.rels, i)
           target   == [d \in Jumps |-> IF tb.linked[d] /\ tb.target[d] > i
                                        THEN tb.target[d] - 1 ELSE tb.target[d]]
<1>0. /\ tb.insns \in Seq(InsnType) /\ Len(tb.insns) \in Nat /\ i \in Nat
      /\ i + 1 \in 1..Len(tb.insns)
      /\ tb.branches \in [BranchClasses -> Seq(BranchType)]
      /\ tb.rels \in Seq(RelType)
      /\ tb.target \in [Jumps -> Nat]
  BY LenProperties DEF TBType, InsnType
<1>1. insns \in Seq(InsnType) /\ Len(insns) = Len(tb.insns) - 1
  BY <1>0, RemoveAtProperties
<1>2. branches \in [BranchClasses -> Seq(BranchType)]
  BY <1>0, DropBranchType
<1>3. rels \in Seq(RelType)
  BY <1>0, RelsAfterType
<1>4. target \in [Jumps -> Nat]
  BY <1>0
<1>5. RemoveInsn(tb, i + 1, i) = [tb EXCEPT !.insns = insns, !.branches = branches,
                                           !.rels = rels, !.target = target]
  BY DEF RemoveInsn
<1> HIDE DEF insns, branches, rels, target
<1> QED
  BY <1>1, <1>2, <1>3, <1>4, <1>5 DEF TBType, InsnType

LEMMA InvalidateRelAtType ==
    ASSUME NEW tb \in TBType, NEW i
    PROVE  /\ InvalidateRelAt(tb, i) \in TBType
           /\ DOMAIN InvalidateRelAt(tb, i).rels = DOMAIN tb.rels
           /\ \A j \in DOMAIN tb.rels :
                InvalidateRelAt(tb, i).rels[j] =
                    [tb.rels[j] EXCEPT !.valid = @ /\ ~ FirstRelAt(tb, j, i)]
<1> DEFINE rels == [j \in DOMAIN tb.rels |->
                        [tb.rels[j] EXCEPT !.valid = @ /\ ~ FirstRelAt(tb, j, i)]]
<1>1. /\ tb.rels \in Seq(RelType) /\ Len(tb.rels) \in Nat
      /\ DOMAIN tb.rels = 1..Len(tb.rels)
      /\ \A j \in 1..Len(tb.rels) : tb.rels[j] \in RelType
  BY LenProperties, ElementOfSeq DEF TBType
<1>2. ASSUME NEW j \in 1..Len(tb.rels)
      PROVE  [tb.rels[j] EXCEPT !.valid = @ /\ ~ FirstRelAt(tb, j, i)] \in RelType
  <2>1. tb.rels[j] \in RelType /\ (tb.rels[j].valid /\ ~ FirstRelAt(tb, j, i)) \in BOOLEAN
    BY <1>1
  <2> QED
    BY <2>1, EntryTypes
<1>3. rels \in [1..Len(tb.rels) -> RelType]
  BY <1>1, <1>2
<1>4. rels \in Seq(RelType)
  BY <1>1, <1>3, FcnIsSeq
<1>5. InvalidateRelAt(tb, i) = [tb EXCEPT !.rels = rels]
  BY DEF InvalidateRelAt
<1>6. DOMAIN rels = DOMAIN tb.rels
  OBVIOUS
<1>7. \A j \in DOMAIN tb.rels :
        rels[j] = [tb.rels[j] EXCEPT !.valid = @ /\ ~ FirstRelAt(tb, j, i)]
  OBVIOUS
<1> HIDE DEF rels
<1>8. InvalidateRelAt(tb, i) \in TBType /\ InvalidateRelAt(tb, i).rels = rels
  BY <1>4, <1>5 DEF TBType
<1> QED
  BY <1>6, <1>7, <1>8

LEMMA AddInsnType ==
    ASSUME NEW tb \in TBType, NEW index \in -1..Len(tb.insns) - 1, NEW insn \in InsnType
    PROVE  AddInsn(tb, index + 1, insn, index) \in TBType
<1> DEFINE at       == index + 1
           insns    == InsertAt(tb.insns, at + 1, insn)
           up       == [c \in BranchClasses |-> ShiftUp(tb.branches[c], at)]
           branches == AddBranch(up, insn, at)
           rels     == RelsAfterAdd(tb.rels, at)
           target   == [d \in Jumps |-> IF tb.linked[d] /\ tb.target[d] >= at
                                        THEN tb.target[d] + 1 ELSE tb.target[d]]
<1>0. /\ tb.insns \in Seq(InsnType) /\ Len(tb.insns) \in Nat /\ at \in Nat
      /\ at + 1 \in 1..Len(tb.insns) + 1
      /\ tb.branches \in [BranchClasses -> Seq(BranchType)]
      /\ tb.rels \in Seq(RelType)
      /\ tb.target \in [Jumps -> Nat]
  BY LenProperties DEF TBType, InsnType
<1>1. insns \in Seq(InsnType)
  BY <1>0, InsertAtProperties
<1>2. up \in [BranchClasses -> Seq(BranchType)]
  BY <1>0, ShiftType
<1>3. branches \in [BranchClasses -> Seq(BranchType)]
  BY <1>0, <1>2, AddBranchType
<1>4. rels \in Seq(RelType)
  BY <1>0, RelsAfterType
<1>5. target \in [Jumps -> Nat]
  BY <1>0
<1>6. AddInsn(tb, index + 1, insn, index) =
        [tb EXCEPT !.insns = insns, !.branches = branches,
                   !.rels = rels, !.target = target]
  BY DEF AddInsn
<1> HIDE DEF insns, branches, rels, target
<1> QED
  BY <1>1, <1>3, <1>4, <1>5, <1>6 DEF TBType, InsnType

-----------------------------------------------------------------------------
(* The loop of deletions is the iteration it says it is.                   *)
Iterates(f, t, i, count) ==
    /\ f[0] = t
    /\ \A k \in 1..count :
        f[k] = DeleteIthInsnAlongWithRel(f[k - 1], i + 1, i)

LEMMA DeleteRunUnfold ==
    ASSUME NEW t, NEW i, NEW count \in Nat
    PROVE  \E f : Iterates(f, t, i, count) /\ DeleteRun(t, i, count) = f[count]
<1> DEFINE F(b) == DeleteIthInsnAlongWithRel(b, i + 1, i)
           G(f, n) == [k \in 0..n |-> IF k = 0 THEN t ELSE F(f[k - 1])]
           T == {n \in Nat : \E f : f = G(f, n)}
           after == CHOOSE f : f = G(f, count)
<1>1. DeleteRun(t, i, count) = after[count]
  BY DEF DeleteRun
<1> HIDE DEF F
<1>2. 0 \in T
  <2>1. [k \in 0..0 |-> t] = G([k \in 0..0 |-> t], 0)
    OBVIOUS
  <2> QED
    BY <2>1
<1>3. ASSUME NEW n \in T
      PROVE  n + 1 \in T
  <2>1. PICK f : f = G(f, n)
    OBVIOUS
  <2> DEFINE g == [k \in 0..n + 1 |-> IF k = n + 1 THEN F(f[n]) ELSE f[k]]
  <2>2. ASSUME NEW k \in 0..n + 1
        PROVE  g[k] = IF k = 0 THEN t ELSE F(g[k - 1])
    <3>1. CASE k = n + 1
      <4>1. k # 0 /\ k - 1 = n /\ n \in 0..n + 1 /\ n # n + 1
        BY <3>1
      <4> QED
        BY <3>1, <4>1
    <3>2. CASE k = 0
      BY <3>2, <2>1
    <3>3. CASE k # 0 /\ k # n + 1
      <4>1. k \in 0..n /\ k - 1 \in 0..n + 1 /\ k - 1 # n + 1
        BY <3>3
      <4> QED
        BY <3>3, <4>1, <2>1
    <3> QED
      BY <3>1, <3>2, <3>3
  <2>3. g = G(g, n + 1)
    <3> HIDE DEF g
    <3>1. DOMAIN g = 0..n + 1 /\ g = [k \in DOMAIN g |-> g[k]]
      BY DEF g
    <3> QED
      BY <3>1, <2>2
  <2>4. n + 1 \in Nat
    OBVIOUS
  <2>5. \E h : h = G(h, n + 1)
    <3> HIDE DEF g
    <3> QED
      BY <2>3, Zenon
  <2> QED
    BY <2>4, <2>5
<1>4. count \in T
  <2> HIDE DEF T
  <2> QED
    BY <1>2, <1>3, NatInduct DEF T
<1>5. after = G(after, count)
  BY <1>4
<1>6. after[0] = t /\ \A k \in 1..count : after[k] = F(after[k - 1])
  <2> HIDE DEF after
  <2> QED
    BY <1>5
<1> QED
  BY <1>1, <1>6 DEF F, Iterates

-----------------------------------------------------------------------------
(* What one deletion does to each field.                                   *)

LEMMA RemoveInsnFields ==
    ASSUME NEW t \in TBType, NEW i \in 0..Len(t.insns) - 1,
           NEW u, u = RemoveInsn(t, i + 1, i)
    PROVE  /\ u \in TBType
           /\ Len(u.insns) = Len(t.insns) - 1
           /\ \A k \in 1..Len(t.insns) - 1 :
                u.insns[k] = IF k < i + 1 THEN t.insns[k] ELSE t.insns[k + 1]
           /\ u.linked = t.linked
           /\ DOMAIN u.rels = DOMAIN t.rels
           /\ \A j \in DOMAIN t.rels :
                u.rels[j] = IF t.rels[j].valid /\ i < t.rels[j].off
                            THEN [t.rels[j] EXCEPT !.off = @ - 1] ELSE t.rels[j]
           /\ \A d \in Jumps :
                u.target[d] = IF t.linked[d] /\ t.target[d] > i
                              THEN t.target[d] - 1 ELSE t.target[d]
<1>1. u \in TBType /\ Len(u.insns) = Len(t.insns) - 1
  BY RemoveInsnType
<1>2. t.insns \in Seq(InsnType) /\ i + 1 \in 1..Len(t.insns)
  BY LenProperties DEF TBType, InsnType
<1>3. /\ u.insns = RemoveAt(t.insns, i + 1)
      /\ u.linked = t.linked
      /\ u.rels = RelsAfterRemove(t.rels, i)
      /\ u.target = [d \in Jumps |-> IF t.linked[d] /\ t.target[d] > i
                                     THEN t.target[d] - 1 ELSE t.target[d]]
  BY DEF RemoveInsn, TBType
<1>4. \A k \in 1..Len(t.insns) - 1 :
        u.insns[k] = IF k < i + 1 THEN t.insns[k] ELSE t.insns[k + 1]
  <2>1. \A k \in 1..Len(t.insns) - 1 :
            RemoveAt(t.insns, i + 1)[k] = IF k < i + 1 THEN t.insns[k] ELSE t.insns[k + 1]
    BY <1>2, RemoveAtProperties
  <2> QED
    BY <1>3, <2>1
<1>5. /\ DOMAIN u.rels = DOMAIN t.rels
      /\ \A j \in DOMAIN t.rels :
            u.rels[j] = IF t.rels[j].valid /\ i < t.rels[j].off
                        THEN [t.rels[j] EXCEPT !.off = @ - 1] ELSE t.rels[j]
  BY <1>3 DEF RelsAfterRemove
<1>6. \A d \in Jumps :
        u.target[d] = IF t.linked[d] /\ t.target[d] > i
                      THEN t.target[d] - 1 ELSE t.target[d]
  BY <1>3
<1> QED
  BY <1>1, <1>3, <1>4, <1>5, <1>6

LEMMA IndexFacts ==
    ASSUME NEW t \in TBType
    PROVE  /\ Len(t.insns) \in Nat
           /\ DOMAIN t.insns = 1..Len(t.insns)
           /\ \A i \in 0..Len(t.insns) - 1 : i \in Nat
           /\ \A i \in -1..Len(t.insns) - 1 : i \in Int /\ i + 1 \in Nat
BY LenProperties DEF TBType

(* A relocation as arithmetic sees it.                                     *)
LEMMA RelFacts ==
    ASSUME NEW t \in TBType, NEW j \in DOMAIN t.rels
    PROVE  /\ t.rels[j] \in RelType
           /\ t.rels[j].off \in Nat
           /\ t.rels[j].slots \in Nat \ {0}
           /\ t.rels[j].valid \in BOOLEAN
           /\ [t.rels[j] EXCEPT !.off = @ - 1].off = t.rels[j].off - 1
           /\ [t.rels[j] EXCEPT !.off = @ + 1].off = t.rels[j].off + 1
           /\ [t.rels[j] EXCEPT !.off = @ - 1].slots = t.rels[j].slots
           /\ [t.rels[j] EXCEPT !.off = @ + 1].slots = t.rels[j].slots
           /\ [t.rels[j] EXCEPT !.off = @ - 1].valid = t.rels[j].valid
           /\ [t.rels[j] EXCEPT !.off = @ + 1].valid = t.rels[j].valid
<1>1. t.rels[j] \in RelType
  BY LenProperties, ElementOfSeq DEF TBType
<1> QED
  BY <1>1, EntryTypes DEF RelType

(* Where a relocation not covering i stands after the removal at i.        *)
LEMMA RelAfterRemove ==
    ASSUME NEW t \in TBType, NEW i \in 0..Len(t.insns) - 1,
           NEW u, u = RemoveInsn(t, i + 1, i),
           NEW j \in DOMAIN t.rels
    PROVE  /\ u.rels[j].valid = t.rels[j].valid
           /\ u.rels[j].slots = t.rels[j].slots
           /\ t.rels[j].valid /\ ~ Covers(t.rels[j], i) =>
                \/ i < t.rels[j].off /\ u.rels[j].off = t.rels[j].off - 1
                \/ /\ t.rels[j].off + t.rels[j].slots <= i
                   /\ u.rels[j].off = t.rels[j].off
<1>1. u.rels[j] = IF t.rels[j].valid /\ i < t.rels[j].off
                  THEN [t.rels[j] EXCEPT !.off = @ - 1] ELSE t.rels[j]
  BY RemoveInsnFields
<1>2. i \in Nat
  BY LenProperties DEF TBType
<1>3. /\ t.rels[j].off \in Nat
      /\ t.rels[j].slots \in Nat \ {0}
      /\ [t.rels[j] EXCEPT !.off = @ - 1].off = t.rels[j].off - 1
      /\ [t.rels[j] EXCEPT !.off = @ - 1].slots = t.rels[j].slots
      /\ [t.rels[j] EXCEPT !.off = @ - 1].valid = t.rels[j].valid
  BY RelFacts
<1> QED
  <2>1. CASE t.rels[j].valid /\ i < t.rels[j].off
    BY <1>1, <1>3, <2>1
  <2>2. CASE ~ (t.rels[j].valid /\ i < t.rels[j].off)
    BY <1>1, <1>2, <1>3, <2>2 DEF Covers
  <2> QED
    BY <2>1, <2>2

-----------------------------------------------------------------------------
(* One vector under one deletion.                                          *)

(* An entry behind the deleted index moves down, with its instruction.     *)
Moved(b, i) == [b EXCEPT !.off = IF @ > i THEN @ - 1 ELSE @]

LEMMA MovedFacts ==
    ASSUME NEW b \in BranchType, NEW i \in Nat
    PROVE  /\ b.off \in Nat
           /\ Moved(b, i).insn = b.insn
           /\ b.off > i => Moved(b, i).off = b.off - 1
           /\ ~ (b.off > i) => Moved(b, i).off = b.off
BY DEF Moved, BranchType

(* Of an ordered vector the entry with an offset is the one erased.        *)
LEMMA EraseIsRemoveAt ==
    ASSUME NEW v \in Seq(BranchType), NEW i \in Nat,
           \A e, f \in DOMAIN v : e < f => v[e].off < v[f].off,
           NEW x \in DOMAIN v, v[x].off = i
    PROVE  EraseBranchAt(v, i) = RemoveAt(v, x)
<1> DEFINE I == {k \in 1..Len(v) : v[k].off = i}
<1>1. DOMAIN v = 1..Len(v) /\ Len(v) \in Nat
  BY LenProperties
<1>2. x \in I /\ I \in SUBSET Nat
  BY <1>1
<1>3. Min(I) \in I
  BY <1>2, LeastNatural DEF Min
<1>4. \A k \in I : k = x
  <2>1. SUFFICES ASSUME NEW k \in I, k # x
                 PROVE  FALSE
    OBVIOUS
  <2>2. k \in Nat /\ x \in Nat /\ k \in DOMAIN v /\ v[k].off = i
    BY <1>1
  <2>3. k < x \/ x < k
    BY <2>1, <2>2
  <2>4. i < i
    BY <2>2, <2>3
  <2> QED
    BY <2>4
<1>5. EraseBranchAt(v, i) = RemoveAt(v, Min(I))
  BY <1>1, <1>2 DEF EraseBranchAt, RemoveFirstMatch, SelectInSeq
<1> QED
  BY <1>3, <1>4, <1>5

(* w is the vector v without the entry for index i, each other one moved:  *)
(* p says where an entry of w was in v.                                    *)
IsDropped(v, w, i, p) ==
    /\ DOMAIN w = 1..Len(w)
    /\ \A k \in DOMAIN w : p[k] \in DOMAIN v /\ v[p[k]].off # i /\ w[k] = Moved(v[p[k]], i)
    /\ \A k, m \in DOMAIN w : k < m => p[k] < p[m]
    /\ \A e \in DOMAIN v : v[e].off # i => \E k \in DOMAIN w : p[k] = e

LEMMA DroppedEntry ==
    ASSUME NEW t \in TBType, NEW c \in BranchClasses, BranchIndexed(t, c),
           NEW i \in 0..Len(t.insns) - 1, t.insns[i + 1].opc = c
    PROVE  LET w == DropBranch(t.branches, t.insns[i + 1], i)[c]
           IN  \E p : IsDropped(t.branches[c], w, i, p)
<1> DEFINE v == t.branches[c]
           w == DropBranch(t.branches, t.insns[i + 1], i)[c]
<1>0. /\ v \in Seq(BranchType) /\ Len(v) \in Nat /\ DOMAIN v = 1..Len(v)
      /\ i \in Nat /\ i + 1 \in DOMAIN t.insns
  BY LenProperties, IndexFacts DEF TBType
<1>1. PICK x \in DOMAIN v : v[x].off = i
  BY <1>0 DEF BranchIndexed
<1>2. \A e, f \in DOMAIN v : e < f => v[e].off < v[f].off
  BY DEF BranchIndexed
<1> DEFINE r == RemoveAt(v, x)
<1>3. w = ShiftDown(r, i)
  BY <1>0, <1>1, <1>2, EraseIsRemoveAt DEF DropBranch
<1>4. /\ Len(r) = Len(v) - 1 /\ Len(r) \in Nat
      /\ DOMAIN r = 1..Len(r)
      /\ \A k \in 1..Len(v) - 1 : r[k] = IF k < x THEN v[k] ELSE v[k + 1]
  <2>0. x \in 1..Len(v)
    BY <1>0, <1>1
  <2> HIDE DEF v
  <2>1. /\ r \in Seq(BranchType)
        /\ Len(r) = Len(v) - 1
        /\ \A k \in 1..Len(v) - 1 : r[k] = IF k < x THEN v[k] ELSE v[k + 1]
    BY <1>0, <2>0, RemoveAtProperties
  <2>2. Len(r) \in Nat /\ DOMAIN r = 1..Len(r)
    BY <2>1, LenProperties
  <2> QED
    BY <2>1, <2>2
<1> HIDE DEF r
<1>5. w \in Seq(BranchType) /\ DOMAIN w = 1..Len(w) /\ Len(w) \in Nat
  <2>1. r \in Seq(BranchType)
    BY <1>0, <1>1, RemoveAtProperties DEF r
  <2>2. w \in Seq(BranchType)
    BY <1>0, <1>3, <2>1, ShiftType
  <2> QED
    BY <2>2, LenProperties
<1>6. /\ DOMAIN w = 1..Len(v) - 1
      /\ \A k \in 1..Len(v) - 1 : w[k] = Moved(r[k], i)
  BY <1>3, <1>4 DEF ShiftDown, Moved
<1> DEFINE p == [k \in 1..Len(v) - 1 |-> IF k < x THEN k ELSE k + 1]
<1> HIDE DEF w
<1>7. ASSUME NEW k \in DOMAIN w
      PROVE  p[k] \in DOMAIN v /\ v[p[k]].off # i /\ w[k] = Moved(v[p[k]], i)
  <2>1. p[k] \in DOMAIN v /\ p[k] # x /\ r[k] = v[p[k]]
    <3>1. k \in 1..Len(v) - 1 /\ x \in 1..Len(v)
      BY <1>0, <1>1, <1>6
    <3>2. p[k] = IF k < x THEN k ELSE k + 1
      BY <3>1
    <3> HIDE DEF p, v
    <3> QED
      BY <1>0, <1>4, <3>1, <3>2
  <2>2. v[p[k]].off # i
    <3>1. p[k] < x \/ x < p[k]
      BY <1>0, <2>1
    <3>2. p[k] < x => v[p[k]].off < v[x].off
      BY <1>2, <2>1
    <3>3. x < p[k] => v[x].off < v[p[k]].off
      BY <1>2, <2>1
    <3>4. ~ (i < i)
      BY <1>0
    <3> QED
      BY <1>1, <3>1, <3>2, <3>3, <3>4
  <2> QED
    BY <1>6, <2>1, <2>2
<1>8. \A k, m \in DOMAIN w : k < m => p[k] < p[m]
  BY <1>0, <1>1, <1>6
<1>9. ASSUME NEW e \in DOMAIN v, v[e].off # i
      PROVE  \E k \in DOMAIN w : p[k] = e
  <2>1. e # x /\ e \in 1..Len(v)
    BY <1>0, <1>1, <1>9
  <2>2. CASE e < x
    <3>1. e \in DOMAIN w /\ p[e] = e
      BY <1>0, <1>1, <1>6, <2>1, <2>2
    <3> QED
      BY <3>1
  <2>3. CASE e > x
    <3>1. e - 1 \in DOMAIN w /\ p[e - 1] = e
      BY <1>0, <1>1, <1>6, <2>1, <2>3
    <3> QED
      BY <3>1
  <2>4. e < x \/ e > x
    <3>1. e \in Nat /\ x \in Nat /\ e # x
      BY <1>0, <1>1, <2>1
    <3> QED
      BY <3>1
  <2> HIDE DEF p, v
  <2> QED
    BY <2>2, <2>3, <2>4
<1> HIDE DEF p
<1>10. IsDropped(v, w, i, p)
  BY <1>5, <1>7, <1>8, <1>9 DEF IsDropped
<1> QED
  BY <1>10 DEF w

(* A vector of another class keeps all its entries.                        *)
LEMMA PassedVector ==
    ASSUME NEW t \in TBType, NEW c \in BranchClasses, BranchIndexed(t, c),
           NEW i \in 0..Len(t.insns) - 1, t.insns[i + 1].opc # c
    PROVE  LET v == t.branches[c]
               w == DropBranch(t.branches, t.insns[i + 1], i)[c]
           IN  /\ DOMAIN w = 1..Len(w) /\ DOMAIN w = DOMAIN v /\ Len(w) = Len(v)
               /\ \A k \in DOMAIN v : v[k].off # i /\ w[k] = Moved(v[k], i)
<1> DEFINE v == t.branches[c]
           w == DropBranch(t.branches, t.insns[i + 1], i)[c]
<1>0. /\ v \in Seq(BranchType) /\ DOMAIN v = 1..Len(v) /\ Len(v) \in Nat
      /\ i \in Nat
  BY LenProperties, IndexFacts DEF TBType
<1>1. w = ShiftDown(v, i)
  BY DEF DropBranch
<1>2. w \in Seq(BranchType) /\ DOMAIN w = 1..Len(w) /\ Len(w) \in Nat
  <2>1. w \in Seq(BranchType)
    BY <1>0, <1>1, ShiftType
  <2> QED
    BY <2>1, LenProperties
<1>3. DOMAIN w = DOMAIN v /\ \A k \in DOMAIN v : w[k] = Moved(v[k], i)
  BY <1>1 DEF ShiftDown, Moved
<1>4. \A k \in DOMAIN v : v[k].off # i
  <2>1. SUFFICES ASSUME NEW k \in DOMAIN v, v[k].off = i
                 PROVE  FALSE
    OBVIOUS
  <2>2. t.insns[i + 1] = [id |-> v[k].insn, opc |-> c]
    BY <2>1 DEF BranchIndexed
  <2> QED
    BY <2>2
<1> HIDE DEF v, w
<1>5. Len(w) = Len(v)
  <2>1. \A m, n \in Nat : 1..m = 1..n => m = n
    <3>1. ASSUME NEW m \in Nat, NEW n \in Nat, 1..m = 1..n
          PROVE  m = n
      <4>1. (m > 0 => m \in 1..n) /\ (n > 0 => n \in 1..m)
        BY <3>1
      <4> QED
        BY <4>1
    <3> QED
      BY <3>1
  <2> QED
    BY <1>0, <1>2, <1>3, <2>1
<1> QED
  BY <1>2, <1>3, <1>4, <1>5 DEF v, w

LEMMA PassedEntry ==
    ASSUME NEW t \in TBType, NEW c \in BranchClasses, BranchIndexed(t, c),
           NEW i \in 0..Len(t.insns) - 1, t.insns[i + 1].opc # c
    PROVE  LET w == DropBranch(t.branches, t.insns[i + 1], i)[c]
           IN  \E p : IsDropped(t.branches[c], w, i, p)
<1> DEFINE v == t.branches[c]
           w == DropBranch(t.branches, t.insns[i + 1], i)[c]
           p == [k \in DOMAIN v |-> k]
<1>1. /\ DOMAIN w = 1..Len(w) /\ DOMAIN w = DOMAIN v
      /\ \A k \in DOMAIN v : v[k].off # i /\ w[k] = Moved(v[k], i)
  BY PassedVector
<1> HIDE DEF w
<1>2. IsDropped(v, w, i, p)
  BY <1>1 DEF IsDropped
<1> QED
  BY <1>2 DEF w

LEMMA DroppedKeepsIndexed ==
    ASSUME NEW t \in TBType, NEW c \in BranchClasses, BranchIndexed(t, c),
           NEW i \in 0..Len(t.insns) - 1,
           NEW u, u = RemoveInsn(t, i + 1, i)
    PROVE  BranchIndexed(u, c)
<1> DEFINE v == t.branches[c]
           w == u.branches[c]
<1>0. /\ Len(t.insns) \in Nat /\ i \in Nat
      /\ DOMAIN t.insns = 1..Len(t.insns)
  BY IndexFacts
<1>1. /\ u \in TBType /\ Len(u.insns) = Len(t.insns) - 1
      /\ \A k \in 1..Len(t.insns) - 1 :
            u.insns[k] = IF k < i + 1 THEN t.insns[k] ELSE t.insns[k + 1]
  BY RemoveInsnFields
<1>2. DOMAIN u.insns = 1..Len(t.insns) - 1
  BY <1>1, IndexFacts
<1>3. w = DropBranch(t.branches, t.insns[i + 1], i)[c]
  BY DEF RemoveInsn, TBType
<1>4. PICK p : IsDropped(v, w, i, p)
  BY <1>3, DroppedEntry, PassedEntry
<1>5. v \in Seq(BranchType) /\ \A e \in DOMAIN v : v[e] \in BranchType
  BY LenProperties, ElementOfSeq DEF TBType
<1>6. /\ \A e \in DOMAIN v :
            /\ v[e].off < Len(t.insns)
            /\ t.insns[v[e].off + 1] = [id |-> v[e].insn, opc |-> c]
      /\ \A e, f \in DOMAIN v : e < f => v[e].off < v[f].off
      /\ \A k \in DOMAIN t.insns :
            t.insns[k].opc = c => \E e \in DOMAIN v : v[e].off = k - 1
  BY DEF BranchIndexed
<1> HIDE DEF v, w
<1>7. ASSUME NEW k \in DOMAIN w
      PROVE  /\ p[k] \in DOMAIN v /\ v[p[k]].off \in Nat /\ v[p[k]].off # i
             /\ w[k].insn = v[p[k]].insn
             /\ v[p[k]].off > i => w[k].off = v[p[k]].off - 1
             /\ ~ (v[p[k]].off > i) => w[k].off = v[p[k]].off
  <2>1. p[k] \in DOMAIN v /\ v[p[k]].off # i /\ w[k] = Moved(v[p[k]], i)
    BY <1>4 DEF IsDropped
  <2> QED
    BY <1>0, <1>5, <2>1, MovedFacts
<1>8. ASSUME NEW k \in DOMAIN w
      PROVE  /\ w[k].off < Len(u.insns)
             /\ u.insns[w[k].off + 1] = [id |-> w[k].insn, opc |-> c]
  <2> DEFINE q == v[p[k]]
  <2>1. /\ q.off \in Nat /\ q.off # i /\ q.off < Len(t.insns)
        /\ t.insns[q.off + 1] = [id |-> w[k].insn, opc |-> c]
    BY <1>6, <1>7
  <2>2. CASE q.off > i
    <3>1. w[k].off = q.off - 1
      BY <1>7, <2>2
    <3>2. w[k].off + 1 \in 1..Len(t.insns) - 1 /\ ~ (w[k].off + 1 < i + 1)
          /\ (w[k].off + 1) + 1 = q.off + 1 /\ w[k].off < Len(t.insns) - 1
      BY <1>0, <2>1, <2>2, <3>1
    <3> QED
      BY <1>1, <2>1, <3>2
  <2>3. CASE ~ (q.off > i)
    <3>1. w[k].off = q.off
      BY <1>7, <2>3
    <3>2. w[k].off + 1 \in 1..Len(t.insns) - 1 /\ w[k].off + 1 < i + 1
          /\ w[k].off < Len(t.insns) - 1
      BY <1>0, <2>1, <2>3, <3>1
    <3> QED
      BY <1>1, <2>1, <3>1, <3>2
  <2> QED
    BY <2>2, <2>3
<1>9. ASSUME NEW k \in DOMAIN w, NEW m \in DOMAIN w, k < m
      PROVE  w[k].off < w[m].off
  <2>1. v[p[k]].off < v[p[m]].off
    <3>1. p[k] < p[m] /\ p[k] \in DOMAIN v /\ p[m] \in DOMAIN v
      BY <1>4, <1>9 DEF IsDropped
    <3> QED
      BY <1>6, <3>1
  <2> QED
    BY <1>0, <1>7, <2>1
<1>10. ASSUME NEW k \in DOMAIN u.insns, u.insns[k].opc = c
       PROVE  \E e \in DOMAIN w : w[e].off = k - 1
  <2>1. k \in 1..Len(t.insns) - 1
    BY <1>2
  <2> DEFINE m == IF k < i + 1 THEN k ELSE k + 1
  <2>2. m \in DOMAIN t.insns /\ t.insns[m].opc = c /\ m - 1 # i
    <3>1. u.insns[k] = t.insns[m]
      BY <1>1, <2>1
    <3>2. m \in 1..Len(t.insns) /\ m - 1 # i
      BY <1>0, <2>1
    <3> QED
      BY <1>0, <1>10, <3>1, <3>2
  <2>3. PICK e \in DOMAIN v : v[e].off = m - 1
    BY <1>6, <2>2
  <2>4. PICK d \in DOMAIN w : p[d] = e
    BY <1>4, <2>2, <2>3 DEF IsDropped
  <2>5. w[d].off = k - 1
    BY <1>0, <1>7, <2>1, <2>3, <2>4
  <2> QED
    BY <2>5
<1> QED
  BY <1>8, <1>9, <1>10 DEF BranchIndexed, w

LEMMA RemoveKeepsIndexed ==
    ASSUME NEW t \in TBType, AllBranchesIndexed(t), NEW i \in 0..Len(t.insns) - 1
    PROVE  AllBranchesIndexed(RemoveInsn(t, i + 1, i))
BY DroppedKeepsIndexed DEF AllBranchesIndexed

LEMMA DeleteAlongKeepsIndexed ==
    ASSUME NEW t \in TBType, AllBranchesIndexed(t), NEW i \in 0..Len(t.insns) - 1
    PROVE  AllBranchesIndexed(DeleteIthInsnAlongWithRel(t, i + 1, i))
<1> DEFINE m == InvalidateRelAt(t, i)
<1>1. m \in TBType
  BY InvalidateRelAtType
<1>2. m.insns = t.insns /\ m.branches = t.branches
  BY DEF InvalidateRelAt, TBType
<1>3. AllBranchesIndexed(m)
  BY <1>2 DEF AllBranchesIndexed, BranchIndexed
<1>4. i \in 0..Len(m.insns) - 1
  BY <1>2
<1>5. DeleteIthInsnAlongWithRel(t, i + 1, i) = RemoveInsn(m, i + 1, i)
  BY DEF DeleteIthInsnAlongWithRel
<1> HIDE DEF m
<1> QED
  BY <1>1, <1>3, <1>4, <1>5, RemoveKeepsIndexed

-----------------------------------------------------------------------------
(* One vector under one insertion at the end.                              *)

LEMMA AddBranchKeepsIndexed ==
    ASSUME NEW t \in TBType, NEW c \in BranchClasses, BranchIndexed(t, c),
           NEW insn \in InsnType, NEW u \in TBType,
           u.insns = Append(t.insns, insn),
           u.branches = AddBranch(t.branches, insn, Len(t.insns))
    PROVE  BranchIndexed(u, c)
<1> DEFINE i == Len(t.insns)
           v == t.branches[c]
           w == u.branches[c]
           b == [insn |-> insn.id, off |-> i]
<1>0. /\ t.insns \in Seq(InsnType) /\ i \in Nat /\ DOMAIN t.insns = 1..i
      /\ v \in Seq(BranchType) /\ Len(v) \in Nat /\ DOMAIN v = 1..Len(v)
  BY IndexFacts, LenProperties DEF TBType, InsnType
<1>1. /\ Len(u.insns) = i + 1
      /\ \A k \in 1..i : u.insns[k] = t.insns[k]
      /\ u.insns[i + 1] = insn
      /\ DOMAIN u.insns = 1..i + 1
  <2>1. /\ Len(u.insns) = i + 1
        /\ \A k \in 1..i : u.insns[k] = t.insns[k]
        /\ u.insns[i + 1] = insn
    BY <1>0, AppendProperties
  <2> QED
    BY <2>1, IndexFacts
<1>2. /\ \A e \in DOMAIN v :
            /\ v[e].off < i
            /\ t.insns[v[e].off + 1] = [id |-> v[e].insn, opc |-> c]
      /\ \A e, f \in DOMAIN v : e < f => v[e].off < v[f].off
      /\ \A k \in DOMAIN t.insns :
            t.insns[k].opc = c => \E e \in DOMAIN v : v[e].off = k - 1
  BY DEF BranchIndexed
<1>3. \A e \in DOMAIN v : v[e].off \in Nat
  BY <1>0, ElementOfSeq, EntryTypes
<1>4. \A e \in DOMAIN v :
        v[e].off < i + 1 /\ u.insns[v[e].off + 1] = [id |-> v[e].insn, opc |-> c]
  <2>1. SUFFICES ASSUME NEW e \in DOMAIN v
                 PROVE  /\ v[e].off < i + 1
                        /\ u.insns[v[e].off + 1] = [id |-> v[e].insn, opc |-> c]
    OBVIOUS
  <2>2. v[e].off + 1 \in 1..i /\ v[e].off < i + 1
    <3>1. v[e].off \in Nat /\ v[e].off < i /\ i \in Nat
      BY <1>0, <1>2, <1>3
    <3> HIDE DEF v, i
    <3> QED
      BY <3>1
  <2> QED
    BY <1>1, <1>2, <2>2
<1>5. CASE insn.opc # c
  <2>1. w = v
    BY <1>5 DEF AddBranch
  <2>2. \A k \in DOMAIN u.insns : u.insns[k].opc = c => k \in DOMAIN t.insns
                                                       /\ u.insns[k] = t.insns[k]
    BY <1>0, <1>1, <1>5
  <2> HIDE DEF v, w, i
  <2> QED
    BY <1>1, <1>2, <1>4, <2>1, <2>2 DEF BranchIndexed, w
<1>6. CASE insn.opc = c
  <2>1. w = Append(v, b)
    BY <1>6 DEF AddBranch
  <2>2. b \in BranchType /\ b.off = i
    BY <1>0 DEF BranchType, InsnType
  <2> HIDE DEF v, w, b
  <2>3. /\ DOMAIN w = 1..Len(v) + 1
        /\ \A e \in 1..Len(v) : w[e] = v[e]
        /\ w[Len(v) + 1] = b
    <3>1. w \in Seq(BranchType) /\ Len(w) = Len(v) + 1
      BY <1>0, <2>1, <2>2, AppendProperties
    <3>2. DOMAIN w = 1..Len(w)
      BY <3>1, LenProperties
    <3> QED
      BY <1>0, <2>1, <2>2, <3>1, <3>2, AppendProperties
  <2>4. insn = [id |-> b.insn, opc |-> c]
    BY <1>6 DEF InsnType, b
  <2> HIDE DEF i
  <2>5. ASSUME NEW e \in DOMAIN w
        PROVE  /\ w[e].off < Len(u.insns)
               /\ u.insns[w[e].off + 1] = [id |-> w[e].insn, opc |-> c]
    <3>1. CASE e \in DOMAIN v
      BY <1>0, <1>1, <1>4, <2>3, <3>1
    <3>2. CASE e = Len(v) + 1
      BY <1>0, <1>1, <2>2, <2>3, <2>4, <3>2
    <3>3. e \in DOMAIN v \/ e = Len(v) + 1
      BY <1>0, <2>3
    <3> QED
      BY <3>1, <3>2, <3>3
  <2>6. ASSUME NEW e \in DOMAIN w, NEW f \in DOMAIN w, e < f
        PROVE  w[e].off < w[f].off
    <3>1. e \in DOMAIN v /\ w[e] = v[e]
      BY <1>0, <2>3, <2>6
    <3>2. CASE f \in DOMAIN v
      BY <1>0, <1>2, <2>3, <2>6, <3>1, <3>2
    <3>3. CASE f = Len(v) + 1
      BY <1>2, <2>2, <2>3, <3>1, <3>3
    <3>4. f \in DOMAIN v \/ f = Len(v) + 1
      BY <1>0, <2>3
    <3> QED
      BY <3>2, <3>3, <3>4
  <2>7. ASSUME NEW k \in DOMAIN u.insns, u.insns[k].opc = c
        PROVE  \E e \in DOMAIN w : w[e].off = k - 1
    <3>1. CASE k \in 1..i
      <4>1. PICK e \in DOMAIN v : v[e].off = k - 1
        BY <1>0, <1>1, <1>2, <2>7, <3>1
      <4>2. e \in DOMAIN w /\ w[e].off = k - 1
        BY <1>0, <2>3, <4>1
      <4> QED
        BY <4>2
    <3>2. CASE k = i + 1
      <4>1. Len(v) + 1 \in DOMAIN w /\ w[Len(v) + 1].off = k - 1
        BY <1>0, <2>2, <2>3, <3>2
      <4> QED
        BY <4>1
    <3>3. k \in 1..i \/ k = i + 1
      BY <1>0, <1>1
    <3> QED
      BY <3>1, <3>2, <3>3
  <2> QED
    BY <2>5, <2>6, <2>7 DEF BranchIndexed, w
<1> QED
  BY <1>5, <1>6

-----------------------------------------------------------------------------
(* The deletion loop, whatever the relocations of the block.               *)

LEMMA DeleteAlongFields ==
    ASSUME NEW t \in TBType, NEW i \in 0..Len(t.insns) - 1,
           NEW u, u = DeleteIthInsnAlongWithRel(t, i + 1, i)
    PROVE  /\ u \in TBType
           /\ Len(u.insns) = Len(t.insns) - 1
           /\ \A k \in 1..Len(t.insns) - 1 :
                u.insns[k] = IF k < i + 1 THEN t.insns[k] ELSE t.insns[k + 1]
           /\ u.linked = t.linked
           /\ DOMAIN u.rels = DOMAIN t.rels
<1> DEFINE m == InvalidateRelAt(t, i)
<1>1. m \in TBType /\ DOMAIN m.rels = DOMAIN t.rels
  BY InvalidateRelAtType
<1>2. m.insns = t.insns /\ m.linked = t.linked
  BY DEF InvalidateRelAt, TBType
<1>3. i \in 0..Len(m.insns) - 1
  BY <1>2
<1>4. u = RemoveInsn(m, i + 1, i)
  BY DEF DeleteIthInsnAlongWithRel
<1> HIDE DEF m
<1>5. /\ u \in TBType
      /\ Len(u.insns) = Len(m.insns) - 1
      /\ \A k \in 1..Len(m.insns) - 1 :
            u.insns[k] = IF k < i + 1 THEN m.insns[k] ELSE m.insns[k + 1]
      /\ u.linked = m.linked
      /\ DOMAIN u.rels = DOMAIN m.rels
  BY <1>1, <1>3, <1>4, RemoveInsnFields
<1> QED
  BY <1>1, <1>2, <1>5

(* b is t without the count instructions from index i on.                  *)
Without(t, i, count, b) ==
    /\ b \in TBType
    /\ Len(b.insns) = Len(t.insns) - count
    /\ \A k \in 1..Len(t.insns) - count :
        b.insns[k] = IF k <= i THEN t.insns[k] ELSE t.insns[k + count]
    /\ b.linked = t.linked
    /\ DOMAIN b.rels = DOMAIN t.rels
    /\ AllBranchesIndexed(t) => AllBranchesIndexed(b)

LEMMA WithoutOneMore ==
    ASSUME NEW t \in TBType, NEW i \in Nat, NEW count \in Nat,
           i + count + 1 <= Len(t.insns),
           NEW b, Without(t, i, count, b),
           NEW u, u = DeleteIthInsnAlongWithRel(b, i + 1, i)
    PROVE  Without(t, i, count + 1, u)
<1> DEFINE n == Len(t.insns)
<1>0. n \in Nat
  BY IndexFacts
<1>1. /\ b \in TBType /\ Len(b.insns) = n - count
      /\ \A k \in 1..n - count :
            b.insns[k] = IF k <= i THEN t.insns[k] ELSE t.insns[k + count]
  BY DEF Without
<1>2. i \in 0..Len(b.insns) - 1
  BY <1>0, <1>1
<1>3. /\ u \in TBType /\ Len(u.insns) = Len(b.insns) - 1
      /\ \A k \in 1..Len(b.insns) - 1 :
            u.insns[k] = IF k < i + 1 THEN b.insns[k] ELSE b.insns[k + 1]
      /\ u.linked = b.linked
      /\ DOMAIN u.rels = DOMAIN b.rels
  BY <1>1, <1>2, DeleteAlongFields, ZenonT(40)
<1>4. AllBranchesIndexed(b) => AllBranchesIndexed(u)
  BY <1>1, <1>2, DeleteAlongKeepsIndexed
<1> HIDE DEF n
<1>5. Len(u.insns) = n - (count + 1)
  BY <1>0, <1>1, <1>3
<1>6. ASSUME NEW k \in 1..n - (count + 1)
      PROVE  u.insns[k] = IF k <= i THEN t.insns[k] ELSE t.insns[k + (count + 1)]
  <2>1. CASE k <= i
    <3>1. k \in 1..Len(b.insns) - 1 /\ k < i + 1 /\ k \in 1..n - count
      BY <1>0, <1>1, <2>1
    <3> QED
      BY <1>1, <1>3, <2>1, <3>1
  <2>2. CASE ~ (k <= i)
    <3>1. /\ k \in 1..Len(b.insns) - 1 /\ ~ (k < i + 1)
          /\ k + 1 \in 1..n - count /\ ~ (k + 1 <= i)
          /\ (k + 1) + count = k + (count + 1)
      BY <1>0, <1>1, <2>2
    <3>2. u.insns[k] = b.insns[k + 1]
      BY <1>3, <3>1
    <3>3. b.insns[k + 1] = t.insns[(k + 1) + count]
      BY <1>1, <3>1
    <3> QED
      BY <2>2, <3>1, <3>2, <3>3
  <2> QED
    BY <2>1, <2>2
<1> QED
  BY <1>3, <1>4, <1>5, <1>6 DEF Without, n

LEMMA DeleteRunFields ==
    ASSUME NEW t \in TBType, NEW i \in Nat, NEW count \in Nat,
           i + count <= Len(t.insns)
    PROVE  Without(t, i, count, DeleteRun(t, i, count))
<1>0. Len(t.insns) \in Nat
  BY IndexFacts
<1>1. PICK f : Iterates(f, t, i, count) /\ DeleteRun(t, i, count) = f[count]
  BY DeleteRunUnfold
<1> DEFINE T == {k \in Nat : k <= count => Without(t, i, k, f[k])}
<1>2. 0 \in T
  <2>1. f[0] = t
    BY <1>1 DEF Iterates
  <2>2. Without(t, i, 0, t)
    <3>1. Len(t.insns) - 0 = Len(t.insns) /\ \A k \in 1..Len(t.insns) : k + 0 = k
      BY <1>0
    <3> QED
      BY <3>1 DEF Without
  <2> QED
    BY <2>1, <2>2
<1>3. ASSUME NEW k \in T
      PROVE  k + 1 \in T
  <2>1. k \in Nat /\ k + 1 \in Nat
    OBVIOUS
  <2>2. SUFFICES ASSUME k + 1 <= count
                 PROVE  Without(t, i, k + 1, f[k + 1])
    BY <2>1
  <2>3. Without(t, i, k, f[k]) /\ i + k + 1 <= Len(t.insns)
    BY <1>0, <2>1, <2>2
  <2>4. f[k + 1] = DeleteIthInsnAlongWithRel(f[k], i + 1, i)
    <3>1. k + 1 \in 1..count /\ (k + 1) - 1 = k
      BY <2>1, <2>2
    <3> QED
      BY <1>1, <3>1 DEF Iterates
  <2> QED
    BY <2>1, <2>3, <2>4, WithoutOneMore
<1>4. count \in T
  <2> HIDE DEF T
  <2> QED
    BY <1>2, <1>3, NatInduct DEF T
<1> QED
  BY <1>1, <1>4

-----------------------------------------------------------------------------
(* The deletion loop and the relocations.                                  *)

(* slots instructions from off on have none of the count from i on among   *)
(* them; where they are when those are gone.                               *)
SparedAt(off, slots, i, count) == count = 0 \/ off + slots <= i \/ i + count <= off

ShiftedBy(off, i, count) == IF off < i THEN off ELSE off - count

LEMMA SparedOnce ==
    \A off, i, k \in Nat : \A slots \in Nat \ {0} : \A x :
        SparedAt(off, slots, i, k) /\ x = ShiftedBy(off, i, k) =>
            /\ x \in Nat
            /\ SparedAt(off, slots, i, k + 1) <=> ~ (x <= i /\ i < x + slots)
            /\ SparedAt(off, slots, i, k + 1) /\ i < x => x - 1 = ShiftedBy(off, i, k + 1)
            /\ SparedAt(off, slots, i, k + 1) /\ x + slots <= i => x = ShiftedBy(off, i, k + 1)
BY DEF SparedAt, ShiftedBy

LEMMA SparedLess ==
    \A off, i, k \in Nat : \A slots \in Nat \ {0} :
        SparedAt(off, slots, i, k + 1) => SparedAt(off, slots, i, k)
BY DEF SparedAt

LEMMA OneCovers ==
    \A a, b, i, k \in Nat : \A m, n \in Nat \ {0} : \A x, y :
        /\ SparedAt(a, m, i, k) /\ x = ShiftedBy(a, i, k)
        /\ SparedAt(b, n, i, k) /\ y = ShiftedBy(b, i, k)
        /\ a + m <= b \/ b + n <= a
        => ~ ((x <= i /\ i < x + m) /\ (y <= i /\ i < y + n))
BY DEF SparedAt, ShiftedBy

RelsApart(t) ==
    \A j, k \in DOMAIN t.rels :
        j # k /\ t.rels[j].valid /\ t.rels[k].valid => Disjoint(t.rels[j], t.rels[k])

(* The relocations of b are those of t after the run of deletions.         *)
Spared(t, i, count, b) ==
    \A j \in DOMAIN t.rels :
        /\ b.rels[j].valid <=> /\ t.rels[j].valid
                               /\ SparedAt(t.rels[j].off, t.rels[j].slots, i, count)
        /\ b.rels[j].kind = t.rels[j].kind
        /\ b.rels[j].slots = t.rels[j].slots
        /\ b.rels[j].valid => b.rels[j].off = ShiftedBy(t.rels[j].off, i, count)

LEMMA SparedOneMore ==
    ASSUME NEW t \in TBType, RelsApart(t), NEW i \in Nat, NEW k \in Nat,
           NEW b \in TBType, DOMAIN b.rels = DOMAIN t.rels, Spared(t, i, k, b),
           i \in 0..Len(b.insns) - 1,
           NEW u, u = DeleteIthInsnAlongWithRel(b, i + 1, i)
    PROVE  Spared(t, i, k + 1, u)
<1> DEFINE m == InvalidateRelAt(b, i)
<1>1. /\ m \in TBType /\ DOMAIN m.rels = DOMAIN b.rels
      /\ \A j \in DOMAIN b.rels :
            m.rels[j] = [b.rels[j] EXCEPT !.valid = @ /\ ~ FirstRelAt(b, j, i)]
  BY InvalidateRelAtType
<1>2. m.insns = b.insns
  BY DEF InvalidateRelAt, TBType
<1>3. u = RemoveInsn(m, i + 1, i)
  BY DEF DeleteIthInsnAlongWithRel
<1> HIDE DEF m
<1>4. SUFFICES ASSUME NEW j \in DOMAIN t.rels
               PROVE  /\ u.rels[j].valid <=>
                            /\ t.rels[j].valid
                            /\ SparedAt(t.rels[j].off, t.rels[j].slots, i, k + 1)
                      /\ u.rels[j].kind = t.rels[j].kind
                      /\ u.rels[j].slots = t.rels[j].slots
                      /\ u.rels[j].valid => u.rels[j].off = ShiftedBy(t.rels[j].off, i, k + 1)
  BY DEF Spared
<1>5. ASSUME NEW l \in DOMAIN t.rels
      PROVE  /\ t.rels[l].off \in Nat /\ t.rels[l].slots \in Nat \ {0}
             /\ b.rels[l].off \in Nat
             /\ b.rels[l].valid <=> /\ t.rels[l].valid
                                    /\ SparedAt(t.rels[l].off, t.rels[l].slots, i, k)
             /\ b.rels[l].slots = t.rels[l].slots
             /\ b.rels[l].valid => b.rels[l].off = ShiftedBy(t.rels[l].off, i, k)
  <2>1. t.rels[l].off \in Nat /\ t.rels[l].slots \in Nat \ {0} /\ b.rels[l].off \in Nat
    BY RelFacts
  <2> QED
    BY <2>1 DEF Spared
<1>6. /\ m.rels[j].off = b.rels[j].off /\ m.rels[j].slots = b.rels[j].slots
      /\ m.rels[j].kind = b.rels[j].kind
      /\ m.rels[j].valid <=> b.rels[j].valid /\ ~ FirstRelAt(b, j, i)
  <2>1. b.rels[j] \in RelType
    BY RelFacts
  <2> QED
    BY <1>1, <2>1 DEF RelType
<1>7. b.rels[j].valid => (FirstRelAt(b, j, i) <=> Covers(b.rels[j], i))
  <2>1. SUFFICES ASSUME b.rels[j].valid, Covers(b.rels[j], i),
                        NEW l \in DOMAIN b.rels, l < j, ValidAt(b, l, i)
                 PROVE  FALSE
    BY DEF FirstRelAt, ValidAt
  <2>2. l # j
    BY <2>1, LenProperties DEF TBType
  <2>3. Disjoint(t.rels[j], t.rels[l])
    BY <1>5, <2>1, <2>2 DEF RelsApart, ValidAt
  <2>4. Covers(b.rels[l], i) /\ b.rels[l].valid
    BY <2>1 DEF ValidAt
  <2> QED
    BY <1>5, <2>1, <2>3, <2>4, OneCovers DEF Covers, Disjoint
<1>8. /\ u.rels[j].valid = m.rels[j].valid
      /\ u.rels[j].slots = m.rels[j].slots
      /\ m.rels[j].valid /\ ~ Covers(m.rels[j], i) =>
            \/ i < m.rels[j].off /\ u.rels[j].off = m.rels[j].off - 1
            \/ m.rels[j].off + m.rels[j].slots <= i /\ u.rels[j].off = m.rels[j].off
  BY <1>1, <1>2, <1>3, RelAfterRemove
<1>9. u.rels[j].kind = m.rels[j].kind
  <2>0. m \in TBType /\ i \in 0..Len(m.insns) - 1 /\ j \in DOMAIN m.rels
    BY <1>1, <1>2
  <2>1. u.rels[j] = IF m.rels[j].valid /\ i < m.rels[j].off
                    THEN [m.rels[j] EXCEPT !.off = @ - 1] ELSE m.rels[j]
    BY <1>3, <2>0, RemoveInsnFields, ZenonT(40)
  <2>2. m.rels[j] \in RelType
    BY <2>0, RelFacts
  <2> QED
    BY <2>1, <2>2 DEF RelType
<1>10. u.rels[j].valid <=> b.rels[j].valid /\ ~ Covers(b.rels[j], i)
  BY <1>6, <1>7, <1>8
<1>11. u.rels[j].valid <=> /\ t.rels[j].valid
                           /\ SparedAt(t.rels[j].off, t.rels[j].slots, i, k + 1)
  <2>1. CASE b.rels[j].valid
    BY <1>5, <1>10, <2>1, SparedOnce DEF Covers
  <2>2. CASE ~ b.rels[j].valid
    BY <1>5, <1>10, <2>2, SparedLess
  <2> QED
    BY <2>1, <2>2
<1>12. ASSUME u.rels[j].valid
       PROVE  u.rels[j].off = ShiftedBy(t.rels[j].off, i, k + 1)
  <2>1. b.rels[j].valid /\ ~ Covers(b.rels[j], i)
    BY <1>10, <1>12
  <2>2. m.rels[j].valid /\ ~ Covers(m.rels[j], i)
    BY <1>6, <1>8, <1>12, <2>1 DEF Covers
  <2>3. /\ SparedAt(t.rels[j].off, t.rels[j].slots, i, k)
        /\ SparedAt(t.rels[j].off, t.rels[j].slots, i, k + 1)
        /\ b.rels[j].off = ShiftedBy(t.rels[j].off, i, k)
    BY <1>5, <1>11, <1>12, <2>1
  <2>4. t.rels[j].off \in Nat /\ t.rels[j].slots \in Nat \ {0}
    BY <1>5
  <2>5. /\ i < b.rels[j].off => b.rels[j].off - 1 = ShiftedBy(t.rels[j].off, i, k + 1)
        /\ b.rels[j].off + t.rels[j].slots <= i
              => b.rels[j].off = ShiftedBy(t.rels[j].off, i, k + 1)
    BY <2>3, <2>4, SparedOnce, SMTT(30)
  <2>6. m.rels[j].off = b.rels[j].off /\ m.rels[j].slots = t.rels[j].slots
    BY <1>5, <1>6
  <2> QED
    BY <1>8, <2>2, <2>5, <2>6
<1>13. u.rels[j].kind = t.rels[j].kind /\ u.rels[j].slots = t.rels[j].slots
  BY <1>5, <1>6, <1>8, <1>9 DEF Spared
<1> QED
  BY <1>11, <1>12, <1>13

LEMMA DeleteRunRels ==
    ASSUME NEW t \in TBType, RelsApart(t), NEW i \in Nat, NEW count \in Nat,
           i + count <= Len(t.insns)
    PROVE  Spared(t, i, count, DeleteRun(t, i, count))
<1>0. Len(t.insns) \in Nat
  BY IndexFacts
<1>1. PICK f : Iterates(f, t, i, count) /\ DeleteRun(t, i, count) = f[count]
  BY DeleteRunUnfold
<1> DEFINE T == {k \in Nat : k <= count =>
                    Without(t, i, k, f[k]) /\ Spared(t, i, k, f[k])}
<1>2. 0 \in T
  <2>1. f[0] = t
    BY <1>1 DEF Iterates
  <2>2. Without(t, i, 0, t)
    <3>1. Len(t.insns) - 0 = Len(t.insns) /\ \A k \in 1..Len(t.insns) : k + 0 = k
      BY <1>0
    <3> QED
      BY <3>1 DEF Without
  <2>3. Spared(t, i, 0, t)
    <3>1. \A off \in Nat : off = ShiftedBy(off, i, 0)
      BY DEF ShiftedBy
    <3> QED
      BY <3>1, RelFacts DEF Spared, SparedAt
  <2> QED
    BY <2>1, <2>2, <2>3
<1>3. ASSUME NEW k \in T
      PROVE  k + 1 \in T
  <2>1. k \in Nat /\ k + 1 \in Nat
    OBVIOUS
  <2>2. SUFFICES ASSUME k + 1 <= count
                 PROVE  Without(t, i, k + 1, f[k + 1]) /\ Spared(t, i, k + 1, f[k + 1])
    BY <2>1
  <2>3. Without(t, i, k, f[k]) /\ Spared(t, i, k, f[k]) /\ i + k + 1 <= Len(t.insns)
    BY <1>0, <2>1, <2>2
  <2>4. f[k + 1] = DeleteIthInsnAlongWithRel(f[k], i + 1, i)
    <3>1. k + 1 \in 1..count /\ (k + 1) - 1 = k
      BY <2>1, <2>2
    <3> QED
      BY <1>1, <3>1 DEF Iterates
  <2>5. Without(t, i, k + 1, f[k + 1])
    BY <2>1, <2>3, <2>4, WithoutOneMore
  <2>6. /\ f[k] \in TBType /\ DOMAIN f[k].rels = DOMAIN t.rels
        /\ i \in 0..Len(f[k].insns) - 1
    <3>1. f[k] \in TBType /\ DOMAIN f[k].rels = DOMAIN t.rels
          /\ Len(f[k].insns) = Len(t.insns) - k
      BY <2>3 DEF Without
    <3> QED
      BY <1>0, <2>1, <2>3, <3>1
  <2>7. Spared(t, i, k + 1, f[k + 1])
    BY <2>1, <2>3, <2>4, <2>6, SparedOneMore
  <2> QED
    BY <2>5, <2>7
<1>4. count \in T
  <2> HIDE DEF T
  <2> QED
    BY <1>2, <1>3, NatInduct DEF T
<1> QED
  BY <1>1, <1>4

-----------------------------------------------------------------------------
(* Appending a whole list.                                                 *)

Adds(f, branches, insns, base) ==
    /\ f[0] = branches
    /\ \A k \in 1..Len(insns) : f[k] = AddBranch(f[k - 1], insns[k], base + k - 1)

LEMMA AddBranchesUnfold ==
    ASSUME NEW branches, NEW insns, Len(insns) \in Nat, NEW base
    PROVE  \E f : /\ Adds(f, branches, insns, base)
                  /\ AddBranches(branches, insns, base) = f[Len(insns)]
<1> DEFINE F(b, k) == AddBranch(b, insns[k], base + k - 1)
           G(f, n) == [k \in 0..n |-> IF k = 0 THEN branches ELSE F(f[k - 1], k)]
           T == {n \in Nat : \E f : f = G(f, n)}
           added == CHOOSE f : f = G(f, Len(insns))
<1>1. AddBranches(branches, insns, base) = added[Len(insns)]
  BY DEF AddBranches
<1> HIDE DEF F
<1>2. 0 \in T
  <2>1. [k \in 0..0 |-> branches] = G([k \in 0..0 |-> branches], 0)
    OBVIOUS
  <2> QED
    BY <2>1
<1>3. ASSUME NEW n \in T
      PROVE  n + 1 \in T
  <2>1. PICK f : f = G(f, n)
    OBVIOUS
  <2> DEFINE g == [k \in 0..n + 1 |-> IF k = n + 1 THEN F(f[n], n + 1) ELSE f[k]]
  <2>2. ASSUME NEW k \in 0..n + 1
        PROVE  g[k] = IF k = 0 THEN branches ELSE F(g[k - 1], k)
    <3>1. CASE k = n + 1
      <4>1. k # 0 /\ k - 1 = n /\ n \in 0..n + 1 /\ n # n + 1
        BY <3>1
      <4> QED
        BY <3>1, <4>1
    <3>2. CASE k = 0
      BY <3>2, <2>1
    <3>3. CASE k # 0 /\ k # n + 1
      <4>1. k \in 0..n /\ k - 1 \in 0..n + 1 /\ k - 1 # n + 1
        BY <3>3
      <4> QED
        BY <3>3, <4>1, <2>1
    <3> QED
      BY <3>1, <3>2, <3>3
  <2>3. g = G(g, n + 1)
    <3> HIDE DEF g
    <3>1. DOMAIN g = 0..n + 1 /\ g = [k \in DOMAIN g |-> g[k]]
      BY DEF g
    <3> QED
      BY <3>1, <2>2
  <2>4. n + 1 \in Nat
    OBVIOUS
  <2>5. \E h : h = G(h, n + 1)
    <3> HIDE DEF g
    <3> QED
      BY <2>3, Zenon
  <2> QED
    BY <2>4, <2>5
<1>4. Len(insns) \in T
  <2> HIDE DEF T
  <2> QED
    BY <1>2, <1>3, NatInduct DEF T
<1>5. added = G(added, Len(insns))
  BY <1>4
<1>6. added[0] = branches /\ \A k \in 1..Len(insns) : added[k] = F(added[k - 1], k)
  <2> HIDE DEF added
  <2> QED
    BY <1>5
<1> QED
  BY <1>1, <1>6 DEF F, Adds

(* t with the first k of insns appended, and the branches that go with it. *)
Extended(t, insns, k, branches) ==
    [t EXCEPT
        !.insns    = [m \in 1..Len(t.insns) + k |->
                        IF m <= Len(t.insns) THEN t.insns[m] ELSE insns[m - Len(t.insns)]],
        !.branches = branches]

(* Being indexed is a matter of the list and the vectors alone.            *)
LEMMA SameIndexed ==
    ASSUME NEW t, AllBranchesIndexed(t), NEW u,
           u.insns = t.insns, u.branches = t.branches
    PROVE  AllBranchesIndexed(u)
<1> DEFINE Ordered(insns, v, c) ==
        /\ \A e \in DOMAIN v :
            /\ v[e].off < Len(insns)
            /\ insns[v[e].off + 1] = [id |-> v[e].insn, opc |-> c]
        /\ \A e, f \in DOMAIN v : e < f => v[e].off < v[f].off
        /\ \A k \in DOMAIN insns :
            insns[k].opc = c => \E e \in DOMAIN v : v[e].off = k - 1
<1>1. \A b, c : BranchIndexed(b, c) <=> Ordered(b.insns, b.branches[c], c)
  BY DEF BranchIndexed
<1> HIDE DEF Ordered
<1> QED
  BY <1>1 DEF AllBranchesIndexed

LEMMA ExtendedType ==
    ASSUME NEW t \in TBType, NEW insns \in Seq(InsnType), NEW k \in 0..Len(insns),
           NEW branches \in [BranchClasses -> Seq(BranchType)]
    PROVE  /\ Extended(t, insns, k, branches) \in TBType
           /\ Len(Extended(t, insns, k, branches).insns) = Len(t.insns) + k
<1> DEFINE n == Len(t.insns)
           list == [m \in 1..n + k |-> IF m <= n THEN t.insns[m] ELSE insns[m - n]]
<1>0. /\ n \in Nat /\ Len(insns) \in Nat /\ k \in Nat
      /\ \A m \in 1..n : t.insns[m] \in InsnType
      /\ \A m \in 1..Len(insns) : insns[m] \in InsnType
  <2>1. n \in Nat /\ Len(insns) \in Nat /\ k \in Nat
    BY IndexFacts, LenProperties
  <2>2. t.insns \in Seq(InsnType)
    BY DEF TBType, InsnType
  <2>3. \A m \in 1..n : t.insns[m] \in InsnType
    BY <2>2, ElementOfSeq
  <2>4. \A m \in 1..Len(insns) : insns[m] \in InsnType
    BY ElementOfSeq
  <2> QED
    BY <2>1, <2>3, <2>4
<1>1. list \in [1..n + k -> InsnType]
  <2>1. ASSUME NEW m \in 1..n + k
        PROVE  (IF m <= n THEN t.insns[m] ELSE insns[m - n]) \in InsnType
    <3>1. CASE m <= n
      BY <1>0, <3>1
    <3>2. CASE ~ (m <= n)
      <4>1. m - n \in 1..Len(insns)
        BY <1>0, <3>2
      <4> QED
        BY <1>0, <3>2, <4>1
    <3> QED
      BY <3>1, <3>2
  <2> QED
    BY <2>1
<1>2. list \in Seq(InsnType) /\ Len(list) = n + k
  <2> DEFINE w == n + k
  <2>1. w \in Nat /\ list \in [1..w -> InsnType]
    BY <1>0, <1>1
  <2> HIDE DEF list, w
  <2>2. list \in Seq(InsnType) /\ Len(list) = w
    BY <2>1, FcnIsSeq, ZenonT(40)
  <2> QED
    BY <2>2 DEF w
<1>3. Extended(t, insns, k, branches) = [t EXCEPT !.insns = list, !.branches = branches]
  BY DEF Extended
<1> HIDE DEF list
<1> QED
  BY <1>2, <1>3 DEF TBType, InsnType

LEMMA ExtendedByOne ==
    ASSUME NEW t \in TBType, NEW insns \in Seq(InsnType), NEW k \in 0..Len(insns) - 1,
           NEW branches \in [BranchClasses -> Seq(BranchType)],
           AllBranchesIndexed(Extended(t, insns, k, branches)),
           NEW more, more = AddBranch(branches, insns[k + 1], Len(t.insns) + (k + 1) - 1)
    PROVE  /\ more \in [BranchClasses -> Seq(BranchType)]
           /\ AllBranchesIndexed(Extended(t, insns, k + 1, more))
<1> DEFINE n == Len(t.insns)
           a == Extended(t, insns, k, branches)
           b == Extended(t, insns, k + 1, more)
<1>0. /\ n \in Nat /\ Len(insns) \in Nat /\ k \in Nat
      /\ insns[k + 1] \in InsnType
      /\ k \in 0..Len(insns) /\ k + 1 \in 0..Len(insns)
      /\ n + (k + 1) - 1 = n + k /\ n + k \in Nat
  <2>1. n \in Nat /\ Len(insns) \in Nat
    BY IndexFacts, LenProperties
  <2>2. k + 1 \in 1..Len(insns)
    BY <2>1
  <2>3. insns[k + 1] \in InsnType
    BY <2>2, ElementOfSeq
  <2> HIDE DEF n
  <2> QED
    BY <2>1, <2>2, <2>3
<1>1. more \in [BranchClasses -> Seq(BranchType)]
  BY <1>0, AddBranchType
<1>2. a \in TBType /\ b \in TBType /\ Len(a.insns) = n + k /\ Len(b.insns) = n + (k + 1)
  BY <1>0, <1>1, ExtendedType
<1>3. a.branches = branches /\ b.branches = more
  BY DEF Extended, TBType
<1>4. b.insns = Append(a.insns, insns[k + 1])
  <2>1. /\ a.insns = [m \in 1..n + k |-> IF m <= n THEN t.insns[m] ELSE insns[m - n]]
        /\ b.insns = [m \in 1..n + (k + 1) |-> IF m <= n THEN t.insns[m] ELSE insns[m - n]]
    BY DEF Extended, TBType
  <2>2. a.insns \in Seq(InsnType) /\ Len(a.insns) = n + k
    BY <1>2 DEF TBType, InsnType
  <2>3. b.insns \in Seq(InsnType) /\ Len(b.insns) = n + (k + 1)
    BY <1>2 DEF TBType, InsnType
  <2> HIDE DEF a, b, n
  <2> DEFINE w == Append(a.insns, insns[k + 1])
  <2>4. /\ w \in Seq(InsnType) /\ Len(w) = (n + k) + 1
        /\ \A m \in 1..n + k : w[m] = a.insns[m]
        /\ w[(n + k) + 1] = insns[k + 1]
    BY <1>0, <2>2, AppendProperties
  <2> HIDE DEF w
  <2>5. (n + k) + 1 = n + (k + 1)
    BY <1>0
  <2>6. ASSUME NEW m \in 1..n + (k + 1)
        PROVE  b.insns[m] = w[m]
    <3>1. CASE m = (n + k) + 1
      <4>1. ~ (m <= n) /\ m - n = k + 1
        BY <1>0, <3>1
      <4> QED
        BY <2>1, <2>4, <3>1, <4>1
    <3>2. CASE m # (n + k) + 1
      <4>1. m \in 1..n + k
        BY <1>0, <3>2
      <4> QED
        BY <2>1, <2>4, <3>2, <4>1
    <3> QED
      BY <3>1, <3>2
  <2>7. b.insns = w
    BY <2>3, <2>4, <2>5, <2>6, SeqEqual
  <2> QED
    BY <2>7 DEF w
<1>5. b.branches = AddBranch(a.branches, insns[k + 1], Len(a.insns))
  BY <1>0, <1>2, <1>3
<1> HIDE DEF a, b
<1>6. ASSUME NEW c \in BranchClasses
      PROVE  BranchIndexed(b, c)
  <2>1. BranchIndexed(a, c)
    BY DEF AllBranchesIndexed, a
  <2> QED
    BY <1>0, <1>2, <1>4, <1>5, <2>1, AddBranchKeepsIndexed
<1> QED
  BY <1>1, <1>6 DEF AllBranchesIndexed, b

LEMMA AppendKeepsIndexed ==
    ASSUME NEW t \in TBType, AllBranchesIndexed(t), NEW insns \in Seq(InsnType)
    PROVE  /\ AddBranches(t.branches, insns, Len(t.insns)) \in [BranchClasses -> Seq(BranchType)]
           /\ \A u : /\ u.insns = t.insns \o insns
                     /\ u.branches = AddBranches(t.branches, insns, Len(t.insns))
                     => AllBranchesIndexed(u)
<1> DEFINE n == Len(t.insns)
<1>0. /\ n \in Nat /\ Len(insns) \in Nat /\ DOMAIN t.insns = 1..n
      /\ t.insns \in Seq(InsnType)
      /\ t.branches \in [BranchClasses -> Seq(BranchType)]
  BY IndexFacts, LenProperties DEF TBType, InsnType
<1>1. PICK f : /\ Adds(f, t.branches, insns, n)
               /\ AddBranches(t.branches, insns, n) = f[Len(insns)]
  BY <1>0, AddBranchesUnfold
<1> DEFINE T == {k \in Nat : k <= Len(insns) =>
                    /\ f[k] \in [BranchClasses -> Seq(BranchType)]
                    /\ AllBranchesIndexed(Extended(t, insns, k, f[k]))}
<1>2. 0 \in T
  <2>1. f[0] = t.branches
    BY <1>1 DEF Adds
  <2>2. Extended(t, insns, 0, f[0]).branches = t.branches
    BY <2>1 DEF Extended, TBType
  <2>3. Extended(t, insns, 0, f[0]).insns = t.insns
    <3>1. Extended(t, insns, 0, f[0]).insns =
            [m \in 1..n + 0 |-> IF m <= n THEN t.insns[m] ELSE insns[m - n]]
      BY DEF Extended, TBType
    <3> HIDE DEF n
    <3>2. n + 0 = n /\ \A m \in 1..n : m <= n
      BY <1>0
    <3>3. t.insns = [m \in 1..n |-> t.insns[m]]
      BY <1>0
    <3> QED
      BY <3>1, <3>2, <3>3
  <2>4. AllBranchesIndexed(Extended(t, insns, 0, f[0]))
    BY <2>2, <2>3, SameIndexed
  <2> QED
    BY <1>0, <2>1, <2>4
<1>3. ASSUME NEW k \in T
      PROVE  k + 1 \in T
  <2>1. k \in Nat /\ k + 1 \in Nat
    OBVIOUS
  <2>2. SUFFICES ASSUME k + 1 <= Len(insns)
                 PROVE  /\ f[k + 1] \in [BranchClasses -> Seq(BranchType)]
                        /\ AllBranchesIndexed(Extended(t, insns, k + 1, f[k + 1]))
    BY <2>1
  <2>3. /\ f[k] \in [BranchClasses -> Seq(BranchType)]
        /\ AllBranchesIndexed(Extended(t, insns, k, f[k]))
    BY <1>0, <2>1, <2>2
  <2>4. k \in 0..Len(insns) - 1
    BY <1>0, <2>1, <2>2
  <2>5. f[k + 1] = AddBranch(f[k], insns[k + 1], n + (k + 1) - 1)
    <3>1. k + 1 \in 1..Len(insns) /\ (k + 1) - 1 = k
      BY <2>1, <2>2
    <3> QED
      BY <1>1, <3>1 DEF Adds
  <2> QED
    BY <2>3, <2>4, <2>5, ExtendedByOne
<1>4. Len(insns) \in T
  <2> HIDE DEF T
  <2> QED
    BY <1>0, <1>2, <1>3, NatInduct DEF T
<1> DEFINE last == Extended(t, insns, Len(insns), f[Len(insns)])
<1>5. /\ f[Len(insns)] \in [BranchClasses -> Seq(BranchType)]
      /\ AllBranchesIndexed(last)
  BY <1>0, <1>4
<1>6. /\ last.branches = f[Len(insns)]
      /\ last.insns = [m \in 1..n + Len(insns) |-> IF m <= n THEN t.insns[m] ELSE insns[m - n]]
  BY DEF Extended, TBType
<1>7. last.insns = t.insns \o insns
  BY <1>0, <1>6
<1> HIDE DEF last
<1>8. ASSUME NEW u, u.insns = t.insns \o insns, u.branches = f[Len(insns)]
      PROVE  AllBranchesIndexed(u)
  BY <1>5, <1>6, <1>7, <1>8, SameIndexed
<1> QED
  BY <1>1, <1>5, <1>8

-----------------------------------------------------------------------------
(* A list that is a part of some code stays one when a run is taken out.    *)

(* Two places of the list hold different instructions.                     *)
LEMMA IdsDiffer ==
    ASSUME NEW t \in TBType, NEW code, PartOf(t, code)
    PROVE  \A k, m \in DOMAIN t.insns :
             /\ t.insns[k].id = t.insns[m].id => k = m
             /\ t.insns[k].id < t.insns[m].id => k < m
<1>1. \A k \in DOMAIN t.insns : k \in Nat
  BY IndexFacts
<1>2. \A k \in DOMAIN t.insns : t.insns[k].id \in Nat
  <2>1. t.insns \in Seq([id : Nat, opc : OpClasses])
    BY DEF TBType
  <2>2. ASSUME NEW k \in DOMAIN t.insns
        PROVE  t.insns[k].id \in Nat
    <3>1. t.insns[k] \in [id : Nat, opc : OpClasses]
      BY <2>1, IndexFacts, ElementOfSeq
    <3> QED
      BY <3>1
  <2> QED
    BY <2>2
<1>3. \A k, m \in DOMAIN t.insns : k < m => t.insns[k].id < t.insns[m].id
  BY DEF PartOf
<1>4. SUFFICES ASSUME NEW k \in DOMAIN t.insns, NEW m \in DOMAIN t.insns
               PROVE  /\ t.insns[k].id = t.insns[m].id => k = m
                      /\ t.insns[k].id < t.insns[m].id => k < m
  OBVIOUS
<1>5. k \in Nat /\ m \in Nat /\ t.insns[k].id \in Nat /\ t.insns[m].id \in Nat
  BY <1>1, <1>2
<1>6. /\ k < m => t.insns[k].id < t.insns[m].id
      /\ m < k => t.insns[m].id < t.insns[k].id
  BY <1>3
<1> QED
  BY <1>5, <1>6

(* The places of t that are left, and where they are then.                 *)
LEMMA WithoutPlaces ==
    ASSUME NEW t \in TBType, NEW i \in Nat, NEW count \in Nat, i + count <= Len(t.insns),
           NEW u, Without(t, i, count, u)
    PROVE  /\ u \in TBType
           /\ DOMAIN u.insns = 1..Len(t.insns) - count
           /\ \A k \in DOMAIN u.insns :
                /\ k <= i => k \in DOMAIN t.insns /\ u.insns[k] = t.insns[k]
                /\ i < k => k + count \in DOMAIN t.insns /\ u.insns[k] = t.insns[k + count]
           /\ \A k \in DOMAIN t.insns :
                /\ k <= i => k \in DOMAIN u.insns /\ u.insns[k] = t.insns[k]
                /\ i + count < k => k - count \in DOMAIN u.insns
                                    /\ u.insns[k - count] = t.insns[k]
<1> DEFINE n == Len(t.insns)
<1>1. n \in Nat /\ DOMAIN t.insns = 1..n
  BY IndexFacts
<1>2. /\ u \in TBType /\ Len(u.insns) = n - count
      /\ \A k \in 1..n - count :
            u.insns[k] = IF k <= i THEN t.insns[k] ELSE t.insns[k + count]
  BY DEF Without
<1>3. DOMAIN u.insns = 1..n - count
  BY <1>2, IndexFacts
<1>4. i + count <= n
  OBVIOUS
<1> HIDE DEF n
<1>5. ASSUME NEW k \in 1..n - count
      PROVE  /\ k <= i => k \in 1..n /\ u.insns[k] = t.insns[k]
             /\ i < k => k + count \in 1..n /\ u.insns[k] = t.insns[k + count]
  BY <1>1, <1>2, <1>4
<1>6. ASSUME NEW k \in 1..n
      PROVE  /\ k <= i => k \in 1..n - count /\ u.insns[k] = t.insns[k]
             /\ i + count < k => k - count \in 1..n - count
                                 /\ u.insns[k - count] = t.insns[k]
  <2>1. CASE k <= i
    BY <1>1, <1>2, <1>4, <2>1
  <2>2. CASE i + count < k
    <3>1. k - count \in 1..n - count /\ ~ (k - count <= i) /\ (k - count) + count = k
      BY <1>1, <1>4, <2>2
    <3> QED
      BY <1>2, <2>2, <3>1
  <2>3. CASE ~ (k <= i) /\ ~ (i + count < k)
    BY <2>3
  <2> QED
    BY <2>1, <2>2, <2>3
<1>7. n - count = Len(t.insns) - count
  BY DEF n
<1> QED
  BY <1>1, <1>2, <1>3, <1>5, <1>6, <1>7

LEMMA WithoutIsPart ==
    ASSUME NEW t \in TBType, NEW code, PartOf(t, code),
           NEW i \in Nat, NEW count \in Nat, i + count <= Len(t.insns),
           NEW u, Without(t, i, count, u)
    PROVE  /\ PartOf(u, code)
           /\ IdsOf(u) = IdsOf(t) \ {t.insns[k].id : k \in i + 1..i + count}
<1>0. DOMAIN u.insns = 1..Len(t.insns) - count
  BY WithoutPlaces
<1>1. /\ DOMAIN t.insns = 1..Len(t.insns) /\ Len(t.insns) \in Nat
      /\ DOMAIN u.insns = 1..Len(t.insns) - count
  BY <1>0, IndexFacts
<1>2. \A k \in DOMAIN u.insns :
        /\ k <= i => k \in DOMAIN t.insns /\ u.insns[k] = t.insns[k]
        /\ i < k => k + count \in DOMAIN t.insns /\ u.insns[k] = t.insns[k + count]
  BY WithoutPlaces
<1>3. \A k \in DOMAIN t.insns :
        /\ k <= i => k \in DOMAIN u.insns /\ u.insns[k] = t.insns[k]
        /\ i + count < k => k - count \in DOMAIN u.insns
                            /\ u.insns[k - count] = t.insns[k]
  BY WithoutPlaces
<1>4. /\ \A k \in DOMAIN t.insns :
            /\ t.insns[k].id \in DOMAIN code
            /\ t.insns[k].opc = code[t.insns[k].id]
      /\ \A k, m \in DOMAIN t.insns : k < m => t.insns[k].id < t.insns[m].id
  BY DEF PartOf
<1>5. ASSUME NEW k \in DOMAIN u.insns
      PROVE  k \in Nat /\ (k <= i \/ i < k)
  BY <1>1
<1>6. ASSUME NEW k \in DOMAIN u.insns
      PROVE  /\ u.insns[k].id \in DOMAIN code
             /\ u.insns[k].opc = code[u.insns[k].id]
  BY <1>2, <1>4, <1>5
<1>7. ASSUME NEW k \in DOMAIN u.insns, NEW m \in DOMAIN u.insns, k < m
      PROVE  u.insns[k].id < u.insns[m].id
  <2>1. k \in Nat /\ m \in Nat
    BY <1>5
  <2>2. CASE m <= i
    <3>1. k <= i
      BY <1>7, <2>1, <2>2
    <3> QED
      BY <1>2, <1>4, <1>7, <2>2, <3>1
  <2>3. CASE k <= i /\ i < m
    <3>1. k < m + count
      BY <1>7, <2>1
    <3> QED
      BY <1>2, <1>4, <2>3, <3>1
  <2>4. CASE i < k
    <3>1. i < m /\ k + count < m + count
      BY <1>7, <2>1, <2>4
    <3> QED
      BY <1>2, <1>4, <2>4, <3>1
  <2> QED
    BY <2>1, <2>2, <2>3, <2>4
<1> DEFINE gone == {t.insns[k].id : k \in i + 1..i + count}
<1>8. ASSUME NEW k \in DOMAIN u.insns
      PROVE  u.insns[k].id \in IdsOf(t) \ gone
  <2>1. PICK x \in DOMAIN t.insns : u.insns[k] = t.insns[x] /\ (x <= i \/ i + count < x)
    <3>1. CASE k <= i
      BY <1>2, <3>1
    <3>2. CASE i < k
      <4>1. i + count < k + count
        BY <1>5, <3>2
      <4> QED
        BY <1>2, <3>2, <4>1
    <3> QED
      BY <1>5, <3>1, <3>2
  <2>2. t.insns[x].id \in IdsOf(t)
    BY DEF IdsOf
  <2>3. ASSUME NEW y \in i + 1..i + count
        PROVE  t.insns[x].id # t.insns[y].id
    <3>1. y \in DOMAIN t.insns /\ y # x
      BY <1>1, <2>1
    <3> QED
      BY <3>1, IdsDiffer
  <2> QED
    BY <2>1, <2>2, <2>3
<1>9. ASSUME NEW x \in DOMAIN t.insns, t.insns[x].id \notin gone
      PROVE  t.insns[x].id \in IdsOf(u)
  <2>1. x \in Nat /\ (x <= i \/ i + count < x)
    BY <1>1, <1>9
  <2> QED
    BY <1>3, <2>1 DEF IdsOf
<1> HIDE DEF gone
<1>10. IdsOf(u) = IdsOf(t) \ gone
  BY <1>8, <1>9 DEF IdsOf
<1> QED
  BY <1>6, <1>7, <1>10 DEF PartOf, gone

LEMMA RemoveIsWithout ==
    ASSUME NEW t \in TBType, NEW i \in 0..Len(t.insns) - 1,
           NEW u, u = RemoveInsn(t, i + 1, i)
    PROVE  Without(t, i, 1, u)
<1>0. Len(t.insns) \in Nat /\ i \in Nat
  BY IndexFacts
<1>1. /\ u \in TBType
      /\ Len(u.insns) = Len(t.insns) - 1
      /\ \A k \in 1..Len(t.insns) - 1 :
           u.insns[k] = IF k < i + 1 THEN t.insns[k] ELSE t.insns[k + 1]
      /\ u.linked = t.linked
      /\ DOMAIN u.rels = DOMAIN t.rels
  BY RemoveInsnFields
<1>2. AllBranchesIndexed(t) => AllBranchesIndexed(u)
  BY RemoveKeepsIndexed
<1>3. \A k \in 1..Len(t.insns) - 1 : k < i + 1 <=> k <= i
  BY <1>0
<1>4. \A k \in 1..Len(t.insns) - 1 :
         u.insns[k] = IF k <= i THEN t.insns[k] ELSE t.insns[k + 1]
  BY <1>1, <1>3
<1> QED
  BY <1>1, <1>2, <1>4 DEF Without

-----------------------------------------------------------------------------
(* pipehole_opt_available, after a deletion that concerns none of what it  *)
(* looks at.                                                               *)

LEMMA LinkedJumpsFacts ==
    ASSUME NEW t
    PROVE  /\ Len(LinkedJumps(t)) \in Nat
           /\ \A k \in 1..Len(LinkedJumps(t)) :
                LinkedJumps(t)[k] \in Jumps /\ t.linked[LinkedJumps(t)[k]]
<1> DEFINE a == IF t.linked[0] THEN <<0>> ELSE <<>>
           b == IF t.linked[1] THEN <<1>> ELSE <<>>
           c == LinkedJumps(t)
<1>1. c = a \o b
  BY DEF LinkedJumps
<1>2. /\ a \in Seq(Jumps) /\ b \in Seq(Jumps)
      /\ \A k \in 1..Len(a) : a[k] \in Jumps /\ t.linked[a[k]]
      /\ \A k \in 1..Len(b) : b[k] \in Jumps /\ t.linked[b[k]]
  <2>1. 0 \in Jumps /\ 1 \in Jumps
    BY DEF Jumps
  <2>2. \A d \in Jumps : /\ <<d>> \in Seq(Jumps) /\ Len(<<d>>) = 1
                         /\ \A k \in 1..1 : <<d>>[k] = d
    OBVIOUS
  <2>3. <<>> \in Seq(Jumps) /\ Len(<<>>) = 0 /\ \A k \in 1..0 : FALSE
    OBVIOUS
  <2>4. (a = <<0>> /\ t.linked[0]) \/ a = <<>>
    OBVIOUS
  <2>5. (b = <<1>> /\ t.linked[1]) \/ b = <<>>
    OBVIOUS
  <2> HIDE DEF a, b
  <2>6. a \in Seq(Jumps) /\ \A k \in 1..Len(a) : a[k] \in Jumps /\ t.linked[a[k]]
    <3>1. CASE a = <<0>> /\ t.linked[0]
      <4>1. \A k \in 1..Len(a) : a[k] = 0
        BY <2>1, <2>2, <3>1
      <4> QED
        BY <2>1, <2>2, <3>1, <4>1
    <3>2. CASE a = <<>>
      BY <2>3, <3>2
    <3> QED
      BY <2>4, <3>1, <3>2
  <2>7. b \in Seq(Jumps) /\ \A k \in 1..Len(b) : b[k] \in Jumps /\ t.linked[b[k]]
    <3>1. CASE b = <<1>> /\ t.linked[1]
      <4>1. \A k \in 1..Len(b) : b[k] = 1
        BY <2>1, <2>2, <3>1
      <4> QED
        BY <2>1, <2>2, <3>1, <4>1
    <3>2. CASE b = <<>>
      BY <2>3, <3>2
    <3> QED
      BY <2>5, <3>1, <3>2
  <2> QED
    BY <2>6, <2>7
<1> HIDE DEF a, b, c
<1>3. /\ Len(a) \in Nat /\ Len(b) \in Nat
      /\ Len(c) = Len(a) + Len(b)
      /\ \A k \in 1..Len(a) : c[k] = a[k]
      /\ \A k \in 1..Len(b) : c[Len(a) + k] = b[k]
  BY <1>1, <1>2, Concat, LenProperties
<1>4. ASSUME NEW k \in 1..Len(c)
      PROVE  c[k] \in Jumps /\ t.linked[c[k]]
  <2>1. CASE k <= Len(a)
    <3>1. k \in 1..Len(a)
      BY <1>3, <2>1
    <3> QED
      BY <1>2, <1>3, <3>1
  <2>2. CASE ~ (k <= Len(a))
    <3>1. k - Len(a) \in 1..Len(b) /\ Len(a) + (k - Len(a)) = k
      BY <1>3, <2>2
    <3> QED
      BY <1>2, <1>3, <3>1
  <2> QED
    BY <2>1, <2>2
<1> QED
  BY <1>3, <1>4 DEF c

(* Index x has become y with the deletion of another index, i.             *)
Closed(x, y, i) == x # i /\ y = IF x > i THEN x - 1 ELSE x

LEMMA ClosedSame ==
    \A x, y, i \in Nat : \A v, w : Closed(x, v, i) /\ Closed(y, w, i) => (v = w <=> x = y)
BY DEF Closed

ClosedUp(t, u, i) ==
    /\ u.linked = t.linked
    /\ \A c \in BranchClasses :
        /\ Len(u.branches[c]) = Len(t.branches[c])
        /\ \A k \in 1..Len(t.branches[c]) :
            Closed(t.branches[c][k].off, u.branches[c][k].off, i)
    /\ \A d \in Jumps : t.linked[d] => Closed(t.target[d], u.target[d], i)
    /\ DOMAIN u.rels = DOMAIN t.rels
    /\ \A j \in DOMAIN t.rels :
        /\ u.rels[j].kind = t.rels[j].kind
        /\ t.rels[j].kind = "B_EPILOGUE" => Closed(t.rels[j].off, u.rels[j].off, i)

LEMMA ClosedUpPipehole ==
    ASSUME NEW t \in TBType, NEW u \in TBType, NEW i \in Nat, ClosedUp(t, u, i)
    PROVE  PipeholeOptAvailable(u) <=> PipeholeOptAvailable(t)
<1> DEFINE jumps == LinkedJumps(t)
           n     == Len(jumps)
           b     == t.branches["B"]
           e     == u.branches["B"]
<1>1. LinkedJumps(u) = jumps
  BY DEF LinkedJumps, ClosedUp
<1>2. /\ \A c \in BranchClasses :
            t.branches[c] \in Seq(BranchType) /\ u.branches[c] \in Seq(BranchType)
      /\ b \in Seq(BranchType)
      /\ "OTHER" \in BranchClasses /\ "BNE" \in BranchClasses /\ "B" \in BranchClasses
  BY DEF TBType, BranchClasses
<1>3. (u.branches["OTHER"] = <<>>) <=> (t.branches["OTHER"] = <<>>)
  <2>1. Len(u.branches["OTHER"]) = Len(t.branches["OTHER"])
    BY <1>2 DEF ClosedUp
  <2> QED
    BY <1>2, <2>1, EmptySeq
<1>4. Len(u.branches["BNE"]) = Len(t.branches["BNE"]) /\ Len(e) = Len(b)
  BY <1>2 DEF ClosedUp
<1>5. \A k \in 1..Len(b) : b[k].off \in Nat /\ Closed(b[k].off, e[k].off, i)
  <2>1. \A k \in 1..Len(b) : b[k] \in BranchType
    BY <1>2, ElementOfSeq
  <2> QED
    BY <1>2, <2>1, EntryTypes DEF ClosedUp
<1>6. /\ n \in Nat /\ \A k \in 1..n : jumps[k] \in Jumps /\ t.linked[jumps[k]]
  BY LinkedJumpsFacts
<1>7. \A d \in Jumps : t.linked[d] => t.target[d] \in Nat /\ Closed(t.target[d], u.target[d], i)
  BY DEF TBType, ClosedUp
<1>8. ASSUME NEW k \in 1..Len(b)
      PROVE  FallsBack(u, e[k]) <=> FallsBack(t, b[k])
  <2>1. ASSUME NEW j \in DOMAIN t.rels, t.rels[j].kind = "B_EPILOGUE"
        PROVE  u.rels[j].off = e[k].off <=> t.rels[j].off = b[k].off
    <3>1. t.rels[j].off \in Nat /\ Closed(t.rels[j].off, u.rels[j].off, i)
      BY <2>1, RelFacts DEF ClosedUp
    <3> QED
      BY <1>5, <3>1, ClosedSame, SMTT(30)
  <2>2. DOMAIN u.rels = DOMAIN t.rels /\ \A j \in DOMAIN t.rels : u.rels[j].kind = t.rels[j].kind
    BY DEF ClosedUp
  <2> QED
    BY <2>1, <2>2 DEF FallsBack
<1> HIDE DEF jumps, n, b, e
<1>9. ASSUME NEW m \in 1..n, NEW k \in 1..Len(b)
      PROVE  e[k].off = u.target[jumps[m]] <=> b[k].off = t.target[jumps[m]]
  <2>1. jumps[m] \in Jumps /\ t.linked[jumps[m]]
    BY <1>6
  <2>2. t.target[jumps[m]] \in Nat /\ Closed(t.target[jumps[m]], u.target[jumps[m]], i)
    BY <1>7, <2>1
  <2> QED
    BY <1>5, <2>2, ClosedSame
<1>10. Len(b) = n =>
        ((\A k \in 1..n : e[k].off = u.target[jumps[k]])
            <=> (\A k \in 1..n : b[k].off = t.target[jumps[k]]))
  BY <1>9
<1>11. Len(b) = 2 * n =>
        ((\A k \in 1..n : /\ e[2 * k - 1].off = u.target[jumps[k]]
                          /\ FallsBack(u, e[2 * k]))
            <=> (\A k \in 1..n : /\ b[2 * k - 1].off = t.target[jumps[k]]
                                 /\ FallsBack(t, b[2 * k])))
  <2>1. SUFFICES ASSUME Len(b) = 2 * n, NEW k \in 1..n
                 PROVE  /\ e[2 * k - 1].off = u.target[jumps[k]]
                            <=> b[2 * k - 1].off = t.target[jumps[k]]
                        /\ FallsBack(u, e[2 * k]) <=> FallsBack(t, b[2 * k])
    OBVIOUS
  <2>2. 2 * k - 1 \in 1..Len(b) /\ 2 * k \in 1..Len(b)
    BY <1>6, <2>1
  <2> QED
    BY <1>8, <1>9, <2>2
<1> QED
  BY <1>1, <1>3, <1>4, <1>10, <1>11 DEF PipeholeOptAvailable, jumps, n, b, e

=============================================================================
