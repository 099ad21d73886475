-------------------------- MODULE TBPassesProofs --------------------------
(***************************************************************************)
(* TBPasses, proved: whatever block the passes are given, the list stays a *)
(* part of the file's code in the file's order, and relocations and        *)
(* recorded jumps stay at the instructions they had in the file.  From     *)
(* that follows which instructions are gone in the end, that no assertion  *)
(* of the passes fails, and that the branches that are repaired go where   *)
(* they went in the file.                                                  *)
(***************************************************************************)
EXTENDS TBPasses, TBOpsProofs

(* The recorded jumps that are not among the deleted instructions move     *)
(* down by as many as were in front of them.                               *)
JumpsMoved(t, i, count, b) ==
    \A d \in Jumps :
        t.linked[d] /\ (t.target[d] < i \/ i + count <= t.target[d])
            => b.target[d] = ShiftedBy(t.target[d], i, count)

LEMMA JumpFacts ==
    ASSUME NEW t \in TBType, NEW d \in Jumps
    PROVE  t.target[d] \in Nat /\ t.linked[d] \in BOOLEAN
BY DEF TBType

LEMMA JumpsMovedOnce ==
    ASSUME NEW t \in TBType, NEW i \in 0..Len(t.insns) - 1,
           NEW u, u = DeleteIthInsnAlongWithRel(t, i + 1, i),
           NEW d \in Jumps, t.linked[d]
    PROVE  u.target[d] = IF t.target[d] > i THEN t.target[d] - 1 ELSE t.target[d]
<1> DEFINE m == InvalidateRelAt(t, i)
<1>1. m \in TBType
  BY InvalidateRelAtType
<1>2. m.insns = t.insns /\ m.linked = t.linked /\ m.target = t.target
  BY DEF InvalidateRelAt, TBType
<1>3. i \in 0..Len(m.insns) - 1
  BY <1>2
<1>4. u = RemoveInsn(m, i + 1, i)
  BY DEF DeleteIthInsnAlongWithRel
<1> HIDE DEF m
<1>5. u.target[d] = IF m.linked[d] /\ m.target[d] > i THEN m.target[d] - 1 ELSE m.target[d]
  BY <1>1, <1>3, <1>4, RemoveInsnFields
<1> QED
  BY <1>2, <1>5

LEMMA DeleteRunJumps ==
    ASSUME NEW t \in TBType, NEW i \in Nat, NEW count \in Nat,
           i + count <= Len(t.insns)
    PROVE  JumpsMoved(t, i, count, DeleteRun(t, i, count))
<1>0. Len(t.insns) \in Nat
  BY IndexFacts
<1>1. PICK f : Iterates(f, t, i, count) /\ DeleteRun(t, i, count) = f[count]
  BY DeleteRunUnfold
<1> DEFINE T == {k \in Nat : k <= count =>
                    Without(t, i, k, f[k]) /\ JumpsMoved(t, i, k, f[k])}
<1>2. 0 \in T
  <2>1. f[0] = t
    BY <1>1 DEF Iterates
  <2>2. Without(t, i, 0, t)
    <3>1. Len(t.insns) - 0 = Len(t.insns) /\ \A k \in 1..Len(t.insns) : k + 0 = k
      BY <1>0
    <3> QED
      BY <3>1 DEF Without
  <2>3. JumpsMoved(t, i, 0, t)
    BY JumpFacts DEF JumpsMoved, ShiftedBy
  <2> QED
    BY <2>1, <2>2, <2>3
<1>3. ASSUME NEW k \in T
      PROVE  k + 1 \in T
  <2>1. k \in Nat /\ k + 1 \in Nat
    OBVIOUS
  <2>2. SUFFICES ASSUME k + 1 <= count
                 PROVE  Without(t, i, k + 1, f[k + 1]) /\ JumpsMoved(t, i, k + 1, f[k + 1])
    BY <2>1
  <2>3. Without(t, i, k, f[k]) /\ JumpsMoved(t, i, k, f[k]) /\ i + k + 1 <= Len(t.insns)
    BY <1>0, <2>1, <2>2
  <2>4. f[k + 1] = DeleteIthInsnAlongWithRel(f[k], i + 1, i)
    <3>1. k + 1 \in 1..count /\ (k + 1) - 1 = k
      BY <2>1, <2>2
    <3> QED
      BY <1>1, <3>1 DEF Iterates
  <2>5. Without(t, i, k + 1, f[k + 1])
    BY <2>1, <2>3, <2>4, WithoutOneMore
  <2>6. /\ f[k] \in TBType /\ f[k].linked = t.linked
        /\ i \in 0..Len(f[k].insns) - 1
    <3>1. f[k] \in TBType /\ f[k].linked = t.linked
          /\ Len(f[k].insns) = Len(t.insns) - k
      BY <2>3 DEF Without
    <3> QED
      BY <1>0, <2>1, <2>3, <3>1
  <2>7. ASSUME NEW d \in Jumps, t.linked[d],
               t.target[d] < i \/ i + (k + 1) <= t.target[d]
        PROVE  f[k + 1].target[d] = ShiftedBy(t.target[d], i, k + 1)
    <3>1. t.target[d] \in Nat
      BY JumpFacts
    <3>2. f[k].target[d] = ShiftedBy(t.target[d], i, k)
      BY <2>1, <2>3, <2>7, <3>1 DEF JumpsMoved
    <3>3. f[k + 1].target[d] = IF f[k].target[d] > i THEN f[k].target[d] - 1
                                                     ELSE f[k].target[d]
      BY <2>4, <2>6, <2>7, JumpsMovedOnce
    <3> QED
      BY <2>1, <2>7, <3>1, <3>2, <3>3 DEF ShiftedBy
  <2> QED
    BY <2>5, <2>7 DEF JumpsMoved
<1>4. count \in T
  <2> HIDE DEF T
  <2> QED
    BY <1>2, <1>3, NatInduct DEF T
<1> QED
  BY <1>1, <1>4

-----------------------------------------------------------------------------
(* u is t without the count instructions from index i on, everything else  *)
(* moved along.                                                            *)
Cut(t, i, count, u) ==
    /\ Without(t, i, count, u)
    /\ Spared(t, i, count, u)
    /\ JumpsMoved(t, i, count, u)

LEMMA DeleteRunCuts ==
    ASSUME NEW t \in TBType, RelsApart(t), NEW i \in Nat, NEW count \in Nat,
           i + count <= Len(t.insns)
    PROVE  Cut(t, i, count, DeleteRun(t, i, count))
BY DeleteRunFields, DeleteRunRels, DeleteRunJumps DEF Cut

LEMMA RemoveInsnCuts ==
    ASSUME NEW t \in TBType, NEW i \in 0..Len(t.insns) - 1, ~ InRel(t, i),
           NEW u, u = RemoveInsn(t, i + 1, i)
    PROVE  Cut(t, i, 1, u)
<1>0. Len(t.insns) \in Nat /\ i \in Nat
  BY IndexFacts
<1>1. /\ u \in TBType
      /\ Len(u.insns) = Len(t.insns) - 1
      /\ \A k \in 1..Len(t.insns) - 1 :
           u.insns[k] = IF k < i + 1 THEN t.insns[k] ELSE t.insns[k + 1]
      /\ u.linked = t.linked
      /\ DOMAIN u.rels = DOMAIN t.rels
  BY RemoveInsnFields
<1>5. \A j \in DOMAIN t.rels :
        u.rels[j] = IF t.rels[j].valid /\ i < t.rels[j].off
                    THEN [t.rels[j] EXCEPT !.off = @ - 1] ELSE t.rels[j]
  BY RemoveInsnFields
<1>6. \A d \in Jumps :
        u.target[d] = IF t.linked[d] /\ t.target[d] > i
                      THEN t.target[d] - 1 ELSE t.target[d]
  BY RemoveInsnFields
<1>2. Without(t, i, 1, u)
  BY RemoveIsWithout
<1>3. ASSUME NEW j \in DOMAIN t.rels
      PROVE  /\ u.rels[j].valid <=> /\ t.rels[j].valid
                                    /\ SparedAt(t.rels[j].off, t.rels[j].slots, i, 1)
             /\ u.rels[j].kind = t.rels[j].kind
             /\ u.rels[j].slots = t.rels[j].slots
             /\ u.rels[j].valid => u.rels[j].off = ShiftedBy(t.rels[j].off, i, 1)
  <2>1. /\ t.rels[j].off \in Nat /\ t.rels[j].slots \in Nat \ {0}
        /\ [t.rels[j] EXCEPT !.off = @ - 1].kind = t.rels[j].kind
    BY RelFacts DEF RelType
  <2>2. u.rels[j].kind = t.rels[j].kind
    BY <1>5, <2>1
  <2>3. /\ u.rels[j].valid = t.rels[j].valid
        /\ u.rels[j].slots = t.rels[j].slots
        /\ t.rels[j].valid /\ ~ Covers(t.rels[j], i) =>
             \/ i < t.rels[j].off /\ u.rels[j].off = t.rels[j].off - 1
             \/ /\ t.rels[j].off + t.rels[j].slots <= i
                /\ u.rels[j].off = t.rels[j].off
    BY RelAfterRemove
  <2>4. t.rels[j].valid => ~ Covers(t.rels[j], i)
    BY DEF InRel, ValidAt
  <2>5. CASE ~ t.rels[j].valid
    BY <2>2, <2>3, <2>5
  <2>6. CASE t.rels[j].valid
    <3>1. \A off, x \in Nat, slots \in Nat \ {0} :
             \/ i < off /\ x = off - 1
             \/ off + slots <= i /\ x = off
             => SparedAt(off, slots, i, 1) /\ x = ShiftedBy(off, i, 1)
      BY <1>0 DEF SparedAt, ShiftedBy
    <3>2. u.rels[j].off \in Nat
      BY <1>1, RelFacts
    <3> QED
      BY <2>1, <2>2, <2>3, <2>4, <2>6, <3>1, <3>2
  <2> QED
    BY <2>5, <2>6
<1>4. JumpsMoved(t, i, 1, u)
  <2>1. \A d \in Jumps : t.target[d] \in Nat
    BY JumpFacts
  <2> QED
    BY <1>0, <1>6, <2>1 DEF JumpsMoved, ShiftedBy
<1> QED
  BY <1>2, <1>3, <1>4 DEF Cut, Spared

-----------------------------------------------------------------------------
(* What is known of the block of the file.                                 *)

LEMMA BlockFacts ==
    ASSUME block \in Blocks
    PROVE  /\ WellFormedBlock(block)
           /\ Len(block.code) \in Nat /\ DOMAIN block.code = 1..Len(block.code)
           /\ \A k \in DOMAIN block.code : block.code[k] \in OpClasses
           /\ block.rels \in Seq(RelType)
           /\ block.linked \in [Jumps -> BOOLEAN]
           /\ block.target \in [Jumps -> Nat]
           /\ \A j \in DOMAIN block.rels :
                /\ block.rels[j] \in RelType
                /\ block.rels[j].valid
                /\ block.rels[j].off \in Nat
                /\ block.rels[j].slots \in Nat \ {0}
                /\ block.rels[j].off + block.rels[j].slots <= Len(block.code)
           /\ \A d \in Jumps : block.linked[d] =>
                /\ block.target[d] \in Nat
                /\ block.target[d] < Len(block.code)
                /\ block.code[block.target[d] + 1] = "B"
<1>1. WellFormedBlock(block)
  BY BlocksAssumption
<1>2. block \in BlockType
  BY <1>1 DEF WellFormedBlock
<1>3. /\ block.code \in Seq(OpClasses) /\ block.rels \in Seq(RelType)
      /\ block.linked \in [Jumps -> BOOLEAN] /\ block.target \in [Jumps -> Nat]
  BY <1>2 DEF BlockType
<1>4. ASSUME NEW j \in DOMAIN block.rels
      PROVE  /\ block.rels[j] \in RelType
             /\ block.rels[j].valid
             /\ block.rels[j].off \in Nat
             /\ block.rels[j].slots \in Nat \ {0}
             /\ block.rels[j].off + block.rels[j].slots <= Len(block.code)
  <2>1. block.rels[j] \in RelType
    BY <1>3
  <2> QED
    BY <1>1, <2>1, EntryTypes DEF WellFormedBlock
<1>5. \A d \in Jumps : block.linked[d] =>
                /\ block.target[d] \in Nat
                /\ block.target[d] < Len(block.code)
                /\ block.code[block.target[d] + 1] = "B"
  BY <1>1, <1>3 DEF WellFormedBlock
<1> QED
  BY <1>1, <1>3, <1>4, <1>5, LenProperties

(* Relocations of the file do not share an instruction.                    *)
LEMMA SlotsDiffer ==
    ASSUME block \in Blocks,
           NEW j \in DOMAIN block.rels, NEW k \in DOMAIN block.rels, j # k,
           NEW i \in 1..block.rels[j].slots, NEW m \in 1..block.rels[k].slots
    PROVE  block.rels[j].off + i # block.rels[k].off + m
<1>1. Disjoint(block.rels[j], block.rels[k])
  BY BlockFacts DEF WellFormedBlock
<1>2. /\ block.rels[j].off \in Nat /\ block.rels[j].slots \in Nat
      /\ block.rels[k].off \in Nat /\ block.rels[k].slots \in Nat
  BY BlockFacts
<1> QED
  BY <1>1, <1>2 DEF Disjoint

(* Neither do those of a faithful list.                                    *)
LEMMA FaithfulApart ==
    ASSUME block \in Blocks, NEW t \in TBType, Faithful(t)
    PROVE  RelsApart(t)
<1>1. SUFFICES ASSUME NEW j \in DOMAIN t.rels, NEW k \in DOMAIN t.rels, j # k,
                      t.rels[j].valid, t.rels[k].valid,
                      ~ Disjoint(t.rels[j], t.rels[k])
               PROVE  FALSE
  BY DEF RelsApart
<1>2. DOMAIN t.rels = DOMAIN block.rels
  BY DEF Faithful, RelsStand
<1>3. /\ t.rels[j].off \in Nat /\ t.rels[j].slots \in Nat \ {0}
      /\ t.rels[k].off \in Nat /\ t.rels[k].slots \in Nat \ {0}
  BY RelFacts
<1>4. /\ t.rels[j].slots = block.rels[j].slots
      /\ t.rels[k].slots = block.rels[k].slots
      /\ \A i \in 1..block.rels[j].slots :
            t.insns[t.rels[j].off + i].id = block.rels[j].off + i
      /\ \A i \in 1..block.rels[k].slots :
            t.insns[t.rels[k].off + i].id = block.rels[k].off + i
  BY <1>1, <1>2 DEF Faithful, RelsStand
<1> DEFINE a == t.rels[j].off
           b == t.rels[k].off
           m == t.rels[j].slots
           n == t.rels[k].slots
<1>5. a \in Nat /\ b \in Nat /\ m \in Nat \ {0} /\ n \in Nat \ {0} /\ a + m > b /\ b + n > a
  BY <1>1, <1>3 DEF Disjoint
<1> HIDE DEF a, b, m, n
<1>6. \E x \in 1..m, y \in 1..n : a + x = b + y
  <2>2. CASE a <= b
    <3>1. (b - a) + 1 \in 1..m /\ 1 \in 1..n /\ a + ((b - a) + 1) = b + 1
      BY <1>5, <2>2
    <3> QED
      BY <3>1
  <2>3. CASE b < a
    <3>1. (a - b) + 1 \in 1..n /\ 1 \in 1..m /\ a + 1 = b + ((a - b) + 1)
      BY <1>5, <2>3
    <3> QED
      BY <3>1
  <2> QED
    BY <1>5, <2>2, <2>3
<1> USE DEF a, b, m, n
<1>7. PICK x \in 1..t.rels[j].slots, y \in 1..t.rels[k].slots :
        t.rels[j].off + x = t.rels[k].off + y
  BY <1>6
<1>8. block.rels[j].off + x = block.rels[k].off + y
  BY <1>4, <1>7
<1> QED
  BY <1>1, <1>2, <1>4, <1>8, SlotsDiffer

-----------------------------------------------------------------------------
(* A cut keeps a list faithful, and takes away just what was there.        *)

LEMMA CutRels ==
    ASSUME block \in Blocks,
           NEW t \in TBType, PartOf(t, block.code), RelsStand(t),
           NEW i \in Nat, NEW count \in Nat, i + count <= Len(t.insns),
           NEW u, Cut(t, i, count, u)
    PROVE  RelsStand(u)
<1>1. /\ DOMAIN t.rels = DOMAIN block.rels
      /\ DOMAIN u.rels = DOMAIN t.rels
      /\ u \in TBType
  BY DEF RelsStand, Cut, Without
<1>2. IdsOf(u) = IdsOf(t) \ {t.insns[k].id : k \in i + 1..i + count}
  BY WithoutIsPart DEF Cut
<1>3. \A k \in DOMAIN t.insns :
        /\ k <= i => k \in DOMAIN u.insns /\ u.insns[k] = t.insns[k]
        /\ i + count < k => k - count \in DOMAIN u.insns
                            /\ u.insns[k - count] = t.insns[k]
  BY WithoutPlaces DEF Cut
<1>4. SUFFICES ASSUME NEW j \in DOMAIN block.rels
               PROVE  /\ u.rels[j].kind = block.rels[j].kind
                      /\ u.rels[j].slots = block.rels[j].slots
                      /\ u.rels[j].valid => \A x \in 1..block.rels[j].slots :
                           /\ u.rels[j].off + x \in DOMAIN u.insns
                           /\ u.insns[u.rels[j].off + x].id = block.rels[j].off + x
                      /\ ~ u.rels[j].valid =>
                           \E x \in 1..block.rels[j].slots :
                                block.rels[j].off + x \notin IdsOf(u)
  BY <1>1 DEF RelsStand
<1> DEFINE off == t.rels[j].off
           slots == block.rels[j].slots
           own == block.rels[j].off
<1>5. /\ off \in Nat /\ slots \in Nat \ {0} /\ own \in Nat
      /\ t.rels[j].valid \in BOOLEAN /\ u.rels[j].valid \in BOOLEAN
  BY <1>1, RelFacts, BlockFacts
<1>6. /\ t.rels[j].kind = block.rels[j].kind /\ t.rels[j].slots = slots
      /\ t.rels[j].valid => \A x \in 1..slots :
            off + x \in DOMAIN t.insns /\ t.insns[off + x].id = own + x
      /\ ~ t.rels[j].valid => \E x \in 1..slots : own + x \notin IdsOf(t)
  BY DEF RelsStand
<1>7. /\ u.rels[j].valid <=> t.rels[j].valid /\ SparedAt(off, slots, i, count)
      /\ u.rels[j].kind = block.rels[j].kind /\ u.rels[j].slots = slots
      /\ u.rels[j].valid => u.rels[j].off = ShiftedBy(off, i, count)
  BY <1>1, <1>6 DEF Cut, Spared
<1> HIDE DEF off, slots, own
<1>8. ASSUME u.rels[j].valid, NEW x \in 1..slots
      PROVE  /\ u.rels[j].off + x \in DOMAIN u.insns
             /\ u.insns[u.rels[j].off + x].id = own + x
  <2>1. /\ off + x \in DOMAIN t.insns /\ t.insns[off + x].id = own + x
        /\ SparedAt(off, slots, i, count)
        /\ u.rels[j].off = ShiftedBy(off, i, count)
    BY <1>6, <1>7, <1>8
  <2>2. CASE off < i
    <3>1. u.rels[j].off = off
      BY <2>1, <2>2 DEF ShiftedBy
    <3>2. off + x <= i \/ (count = 0 /\ i + count < off + x /\ (off + x) - count = off + x)
      BY <1>5, <2>1, <2>2 DEF SparedAt
    <3> QED
      BY <1>3, <2>1, <3>1, <3>2
  <2>3. CASE ~ (off < i)
    <3>1. u.rels[j].off = off - count
      BY <2>1, <2>3 DEF ShiftedBy
    <3>2. i + count < off + x /\ (off + x) - count = (off - count) + x
      BY <1>5, <2>1, <2>3 DEF SparedAt
    <3> QED
      BY <1>3, <2>1, <3>1, <3>2
  <2> QED
    BY <2>2, <2>3
<1>9. ASSUME ~ u.rels[j].valid
      PROVE  \E x \in 1..slots : own + x \notin IdsOf(u)
  <2>1. CASE ~ t.rels[j].valid
    BY <1>2, <1>6, <2>1
  <2>2. CASE t.rels[j].valid
    <3>1. ~ SparedAt(off, slots, i, count)
      BY <1>7, <1>9, <2>2
    <3>2. \E x \in 1..slots : off + x \in i + 1..i + count
      <4>1. CASE off < i
        <5>1. (i - off) + 1 \in 1..slots /\ off + ((i - off) + 1) \in i + 1..i + count
          BY <1>5, <3>1, <4>1 DEF SparedAt
        <5> QED
          BY <5>1
      <4>2. CASE ~ (off < i)
        <5>1. 1 \in 1..slots /\ off + 1 \in i + 1..i + count
          BY <1>5, <3>1, <4>2 DEF SparedAt
        <5> QED
          BY <5>1
      <4> QED
        BY <4>1, <4>2
    <3>3. PICK x \in 1..slots : off + x \in i + 1..i + count
      BY <3>2
    <3>4. t.insns[off + x].id = own + x
      BY <1>6, <2>2
    <3>5. own + x \notin IdsOf(u)
      BY <1>2, <3>3, <3>4
    <3> QED
      BY <3>5
  <2> QED
    BY <2>1, <2>2
<1> QED
  BY <1>7, <1>8, <1>9 DEF slots, own

LEMMA CutJumps ==
    ASSUME block \in Blocks,
           NEW t \in TBType, TargetsStand(t),
           NEW i \in Nat, NEW count \in Nat, i + count <= Len(t.insns),
           NEW u, Cut(t, i, count, u),
           \A d \in Jumps : block.linked[d] => t.target[d] < i \/ i + count <= t.target[d]
    PROVE  TargetsStand(u)
<1>1. \A k \in DOMAIN t.insns :
        /\ k <= i => k \in DOMAIN u.insns /\ u.insns[k] = t.insns[k]
        /\ i + count < k => k - count \in DOMAIN u.insns
                            /\ u.insns[k - count] = t.insns[k]
  BY WithoutPlaces DEF Cut
<1>2. u.linked = t.linked /\ t.linked = block.linked
  BY DEF Cut, Without, TargetsStand
<1>3. ASSUME NEW d \in Jumps, block.linked[d]
      PROVE  /\ u.target[d] + 1 \in DOMAIN u.insns
             /\ u.insns[u.target[d] + 1].id = block.target[d] + 1
  <2>1. /\ t.target[d] + 1 \in DOMAIN t.insns
        /\ t.insns[t.target[d] + 1].id = block.target[d] + 1
    BY <1>3 DEF TargetsStand
  <2>2. t.target[d] \in Nat
    BY JumpFacts
  <2>3. u.target[d] = ShiftedBy(t.target[d], i, count)
    BY <1>2, <1>3 DEF Cut, JumpsMoved
  <2>4. CASE t.target[d] < i
    <3>1. u.target[d] = t.target[d] /\ t.target[d] + 1 <= i
      BY <2>2, <2>3, <2>4 DEF ShiftedBy
    <3> QED
      BY <1>1, <2>1, <3>1
  <2>5. CASE ~ (t.target[d] < i)
    <3>1. i + count <= t.target[d]
      BY <1>3, <2>5
    <3>2. u.target[d] = t.target[d] - count
      BY <2>3, <2>5 DEF ShiftedBy
    <3>3. i + count < t.target[d] + 1 /\ (t.target[d] + 1) - count = (t.target[d] - count) + 1
      BY <2>2, <3>1
    <3> QED
      BY <1>1, <2>1, <3>2, <3>3
  <2> QED
    BY <2>4, <2>5
<1> QED
  BY <1>2, <1>3 DEF TargetsStand

LEMMA CutKeepsFaithful ==
    ASSUME block \in Blocks,
           NEW t \in TBType, Faithful(t),
           NEW i \in Nat, NEW count \in Nat, i + count <= Len(t.insns),
           NEW u, Cut(t, i, count, u),
           \A d \in Jumps : block.linked[d] => t.target[d] < i \/ i + count <= t.target[d]
    PROVE  /\ u \in TBType
           /\ Faithful(u)
           /\ IdsOf(u) = IdsOf(t) \ {t.insns[k].id : k \in i + 1..i + count}
<1>1. PartOf(t, block.code) /\ RelsStand(t) /\ TargetsStand(t)
  BY DEF Faithful
<1>2. /\ PartOf(u, block.code)
      /\ IdsOf(u) = IdsOf(t) \ {t.insns[k].id : k \in i + 1..i + count}
  BY <1>1, WithoutIsPart DEF Cut
<1>3. RelsStand(u)
  BY <1>1, CutRels
<1>4. TargetsStand(u)
  BY <1>1, CutJumps
<1> QED
  BY <1>2, <1>3, <1>4 DEF Faithful, Cut, Without

-----------------------------------------------------------------------------
(* The block as it is decoded.                                             *)

CodeOf(blk) == [k \in DOMAIN blk.code |-> [id |-> k, opc |-> blk.code[k]]]

LEMMA DecodedFacts ==
    ASSUME block \in Blocks
    PROVE  /\ Decoded(block) \in TBType
           /\ Decoded(block).insns  = CodeOf(block)
           /\ Decoded(block).rels   = block.rels
           /\ Decoded(block).linked = block.linked
           /\ Decoded(block).target = block.target
           /\ DOMAIN CodeOf(block) = DOMAIN block.code
           /\ \A k \in DOMAIN block.code :
                CodeOf(block)[k] = [id |-> k, opc |-> block.code[k]]
<1> DEFINE none == [c \in BranchClasses |-> <<>>]
           more == AddBranches(none, CodeOf(block), 0)
           empty == [insns |-> <<>>, branches |-> none, rels |-> block.rels,
                     linked |-> block.linked, target |-> block.target]
<1>1. /\ Len(block.code) \in Nat /\ DOMAIN block.code = 1..Len(block.code)
      /\ \A k \in DOMAIN block.code : block.code[k] \in OpClasses
      /\ block.rels \in Seq(RelType)
      /\ block.linked \in [Jumps -> BOOLEAN]
      /\ block.target \in [Jumps -> Nat]
  BY BlockFacts
<1>2. /\ DOMAIN CodeOf(block) = DOMAIN block.code
      /\ \A k \in DOMAIN block.code :
            CodeOf(block)[k] = [id |-> k, opc |-> block.code[k]]
  BY DEF CodeOf
<1>3. CodeOf(block) \in Seq(InsnType)
  <2>1. CodeOf(block) \in [1..Len(block.code) -> InsnType]
    BY <1>1 DEF CodeOf, InsnType
  <2> QED
    BY <1>1, <2>1, FcnIsSeq
<1>4. empty \in TBType /\ Len(empty.insns) = 0 /\ AllBranchesIndexed(empty)
  <2>1. <<>> \in Seq(InsnType) /\ <<>> \in Seq(BranchType) /\ Len(<<>>) = 0 /\ DOMAIN <<>> = {}
    OBVIOUS
  <2>2. none \in [BranchClasses -> Seq(BranchType)] /\ \A c \in BranchClasses : none[c] = <<>>
    BY <2>1
  <2>3. empty.insns = <<>> /\ empty.branches = none
    OBVIOUS
  <2>4. empty \in TBType
    BY <1>1, <2>1, <2>2 DEF TBType, InsnType
  <2> HIDE DEF empty, none
  <2>5. AllBranchesIndexed(empty)
    BY <2>1, <2>2, <2>3 DEF AllBranchesIndexed, BranchIndexed
  <2> QED
    BY <2>1, <2>3, <2>4, <2>5
<1>5. empty.branches = none /\ empty.rels = block.rels
      /\ empty.linked = block.linked /\ empty.target = block.target
  OBVIOUS
<1>6. Decoded(block) = [insns |-> CodeOf(block), branches |-> more, rels |-> block.rels,
                        linked |-> block.linked, target |-> block.target]
  BY DEF Decoded, CodeOf
<1> HIDE DEF empty, none
<1>7. more \in [BranchClasses -> Seq(BranchType)]
  BY <1>3, <1>4, <1>5, AppendKeepsIndexed
<1> HIDE DEF more
<1>8. Decoded(block) \in TBType
  BY <1>1, <1>3, <1>6, <1>7 DEF TBType, InsnType
<1> QED
  BY <1>2, <1>6, <1>8

LEMMA DecodedFaithful ==
    ASSUME block \in Blocks
    PROVE  /\ Faithful(Decoded(block))
           /\ IdsOf(Decoded(block)) = DOMAIN block.code
<1> DEFINE t == Decoded(block)
<1>1. /\ t \in TBType
      /\ t.insns = CodeOf(block)
      /\ t.rels = block.rels /\ t.linked = block.linked /\ t.target = block.target
      /\ DOMAIN t.insns = DOMAIN block.code
      /\ \A k \in DOMAIN block.code : t.insns[k] = [id |-> k, opc |-> block.code[k]]
  BY DecodedFacts
<1> HIDE DEF t
<1>2. \A k \in DOMAIN block.code : t.insns[k].id = k /\ t.insns[k].opc = block.code[k]
  <2>1. ASSUME NEW k \in DOMAIN block.code
        PROVE  t.insns[k].id = k /\ t.insns[k].opc = block.code[k]
    <3>1. t.insns[k] = [id |-> k, opc |-> block.code[k]]
      BY <1>1
    <3> QED
      BY <3>1
  <2> QED
    BY <2>1
<1>3. PartOf(t, block.code) /\ IdsOf(t) = DOMAIN block.code
  BY <1>1, <1>2 DEF PartOf, IdsOf
<1>4. RelsStand(t)
  <2>1. ASSUME NEW j \in DOMAIN block.rels
        PROVE  /\ block.rels[j].valid
               /\ \A i \in 1..block.rels[j].slots :
                    /\ block.rels[j].off + i \in DOMAIN block.code
                    /\ t.insns[block.rels[j].off + i].id = block.rels[j].off + i
    <3>1. /\ block.rels[j].valid
          /\ block.rels[j].off \in Nat /\ block.rels[j].slots \in Nat
          /\ block.rels[j].off + block.rels[j].slots <= Len(block.code)
          /\ Len(block.code) \in Nat /\ DOMAIN block.code = 1..Len(block.code)
      BY BlockFacts
    <3> QED
      BY <1>2, <3>1, SMTT(30)
  <2> QED
    BY <1>1, <2>1 DEF RelsStand
<1>5. TargetsStand(t)
  <2>1. ASSUME NEW d \in Jumps, block.linked[d]
        PROVE  block.target[d] + 1 \in DOMAIN block.code
    BY <2>1, BlockFacts
  <2> QED
    BY <1>1, <1>2, <2>1 DEF TargetsStand
<1> QED
  BY <1>3, <1>4, <1>5 DEF Faithful, t

(* The recorded jumps are B instructions, in every faithful list.          *)
LEMMA JumpIsB ==
    ASSUME block \in Blocks, NEW t \in TBType, Faithful(t), NEW d \in Jumps, block.linked[d]
    PROVE  /\ t.target[d] \in Nat
           /\ t.target[d] < Len(t.insns)
           /\ t.insns[t.target[d] + 1].id = block.target[d] + 1
           /\ t.insns[t.target[d] + 1].opc = "B"
<1>1. /\ t.target[d] + 1 \in DOMAIN t.insns
      /\ t.insns[t.target[d] + 1].id = block.target[d] + 1
  BY DEF Faithful, TargetsStand
<1>2. t.target[d] \in Nat /\ t.target[d] < Len(t.insns)
  BY <1>1, JumpFacts, IndexFacts
<1>3. t.insns[t.target[d] + 1].opc = block.code[block.target[d] + 1]
  BY <1>1 DEF Faithful, PartOf
<1> QED
  BY <1>1, <1>2, <1>3, BlockFacts

-----------------------------------------------------------------------------
(* The nops that may go.                                                   *)

LEMMA FreeNopsFacts ==
    ASSUME block \in Blocks
    PROVE  \A k \in FreeNops :
             /\ NopsWanted
             /\ k \in DOMAIN block.code
             /\ block.code[k] = "PLAIN"
             /\ k - 1 \in block.nops
             /\ ~ InRel(Decoded(block), k - 1)
<1>1. SUFFICES ASSUME NEW k \in FreeNops
               PROVE  /\ NopsWanted
                      /\ k \in DOMAIN block.code
                      /\ block.code[k] = "PLAIN"
                      /\ k - 1 \in block.nops
                      /\ ~ InRel(Decoded(block), k - 1)
  OBVIOUS
<1>2. /\ NopsWanted
      /\ k \in {i + 1 : i \in {n \in block.nops : ~ InRel(Decoded(block), n)}}
  BY DEF FreeNops
<1>3. PICK n \in block.nops : ~ InRel(Decoded(block), n) /\ k = n + 1
  BY <1>2
<1>4. n \in Nat /\ n < Len(block.code) /\ block.code[n + 1] = "PLAIN"
  <2>1. WellFormedBlock(block)
    BY BlockFacts
  <2> QED
    BY <2>1 DEF WellFormedBlock, BlockType
<1>5. k - 1 = n /\ k \in DOMAIN block.code
  BY <1>3, <1>4, BlockFacts
<1> QED
  BY <1>2, <1>3, <1>4, <1>5

LEMMA IsFreeNop ==
    ASSUME NopsWanted, NEW n \in block.nops, ~ InRel(Decoded(block), n)
    PROVE  n + 1 \in FreeNops
BY DEF FreeNops

(* As long as all relocations are valid, the same instructions are covered *)
(* as in the file.                                                         *)
LEMMA CoveredAsInFile ==
    ASSUME block \in Blocks, NEW t \in TBType, Faithful(t),
           \A j \in DOMAIN t.rels : t.rels[j].valid,
           NEW k \in DOMAIN t.insns
    PROVE  InRel(t, k - 1) <=> InRel(Decoded(block), t.insns[k].id - 1)
<1>1. /\ DOMAIN t.rels = DOMAIN block.rels
      /\ \A j \in DOMAIN block.rels :
            /\ t.rels[j].slots = block.rels[j].slots
            /\ \A i \in 1..block.rels[j].slots :
                /\ t.rels[j].off + i \in DOMAIN t.insns
                /\ t.insns[t.rels[j].off + i].id = block.rels[j].off + i
  BY DEF Faithful, RelsStand
<1>2. Decoded(block).rels = block.rels
  BY DecodedFacts
<1>3. k \in Nat /\ t.insns[k].id \in Nat
  <2>1. PartOf(t, block.code)
    BY DEF Faithful
  <2>2. t.insns[k].id \in DOMAIN block.code
    BY <2>1 DEF PartOf
  <2> QED
    BY <2>2, IndexFacts, BlockFacts
<1>4. ASSUME NEW j \in DOMAIN block.rels
      PROVE  Covers(t.rels[j], k - 1) <=> Covers(block.rels[j], t.insns[k].id - 1)
  <2>1. /\ t.rels[j].off \in Nat /\ block.rels[j].off \in Nat
        /\ block.rels[j].slots \in Nat
    BY <1>1, RelFacts, BlockFacts
  <2>2. ASSUME Covers(t.rels[j], k - 1)
        PROVE  Covers(block.rels[j], t.insns[k].id - 1)
    <3>1. k - t.rels[j].off \in 1..block.rels[j].slots
          /\ t.rels[j].off + (k - t.rels[j].off) = k
      BY <1>1, <1>3, <2>1, <2>2 DEF Covers
    <3>2. t.insns[k].id = block.rels[j].off + (k - t.rels[j].off)
      BY <1>1, <3>1
    <3> QED
      BY <1>3, <2>1, <3>1, <3>2 DEF Covers
  <2>3. ASSUME Covers(block.rels[j], t.insns[k].id - 1)
        PROVE  Covers(t.rels[j], k - 1)
    <3> DEFINE i == t.insns[k].id - block.rels[j].off
    <3>1. i \in 1..block.rels[j].slots /\ block.rels[j].off + i = t.insns[k].id
      BY <1>3, <2>1, <2>3 DEF Covers
    <3> HIDE DEF i
    <3>2. /\ t.rels[j].off + i \in DOMAIN t.insns
          /\ t.insns[t.rels[j].off + i].id = t.insns[k].id
      BY <1>1, <3>1
    <3>3. t.rels[j].off + i = k
      BY <3>2, IdsDiffer DEF Faithful
    <3> QED
      BY <1>1, <1>3, <2>1, <3>1, <3>3 DEF Covers
  <2> QED
    BY <2>2, <2>3
<1>5. \A j \in DOMAIN block.rels : block.rels[j].valid
  BY BlockFacts
<1> QED
  BY <1>1, <1>2, <1>4, <1>5 DEF InRel, ValidAt

-----------------------------------------------------------------------------
(* What stays while the passes run stays.                                  *)

SameInputs ==
    block' = block /\ passes' = passes /\ pipehole_available' = pipehole_available

LEMMA InputsStay ==
    ASSUME SameInputs
    PROVE  /\ FreeNops' = FreeNops
           /\ \A d \in Jumps : OwnTail(d)' = OwnTail(d)
           /\ Removable' = Removable
           /\ IdsOf(tb)' = IdsOf(tb')
           /\ Faithful(tb)' <=> Faithful(tb')
<1>1. block' = block /\ passes' = passes /\ NopsWanted' = NopsWanted
  BY DEF SameInputs, NopsWanted
<1>2. Decoded(block)' = Decoded(block)
  BY <1>1 DEF Decoded
<1>3. FreeNops' = FreeNops
  BY <1>1, <1>2 DEF FreeNops
<1>4. \A d \in Jumps : OwnTail(d)' = OwnTail(d)
  BY <1>1 DEF OwnTail, TailOf
<1>5. OwnTail(0)' = OwnTail(0) /\ OwnTail(1)' = OwnTail(1)
  BY <1>1 DEF OwnTail, TailOf
<1>6. IdsOf(tb)' = IdsOf(tb')
  BY DEF IdsOf
<1>7. Faithful(tb)' <=> Faithful(tb')
  BY <1>1, <1>6 DEF Faithful, PartOf, RelsStand, TargetsStand
<1> QED
  BY <1>3, <1>4, <1>5, <1>6, <1>7 DEF Removable

LEMMA InitInv == Init => IndInv
<1> SUFFICES ASSUME Init
             PROVE  IndInv
  OBVIOUS
<1>1. /\ block \in Blocks /\ passes \in SUBSET {"nops", "tail"}
      /\ tb = Decoded(block) /\ cur = 0 /\ pc = "nops"
  BY DEF Init
<1>2. /\ tb \in TBType /\ tb.rels = block.rels
      /\ Faithful(tb) /\ IdsOf(tb) = DOMAIN block.code
  BY <1>1, DecodedFacts, DecodedFaithful
<1>3. \A j \in DOMAIN tb.rels : tb.rels[j].valid
  BY <1>1, <1>2, BlockFacts
<1>4. Progress
  BY <1>1, <1>2, <1>3, IndexFacts DEF Progress
<1> QED
  BY <1>1, <1>2, <1>4 DEF IndInv, TypeOK

-----------------------------------------------------------------------------
(* RemoveNonVistor.                                                        *)

(* A nop that goes, and one that stays because a relocation covers it.     *)
LEMMA RemoveNopInv ==
    ASSUME IndInv, RemoveNop
    PROVE  IndInv'
<1>1. /\ pc = "nops" /\ NopsWanted /\ cur < Len(tb.insns)
      /\ tb.insns[cur + 1].id - 1 \in block.nops
      /\ tb' = DeleteIthInsn(tb, cur + 1, cur)
      /\ cur' = IF tb' = tb THEN cur + 1 ELSE cur
      /\ pc' = pc /\ SameInputs
  BY DEF RemoveNop, IsNop, SameInputs
<1>2. /\ block \in Blocks /\ tb \in TBType /\ cur \in Nat /\ Faithful(tb)
      /\ \A j \in DOMAIN tb.rels : tb.rels[j].valid
      /\ DOMAIN block.code \ IdsOf(tb) \subseteq FreeNops
      /\ \A k \in 1..cur : tb.insns[k].id \notin FreeNops
  BY <1>1 DEF IndInv, TypeOK, Progress
<1>3. /\ FreeNops' = FreeNops
      /\ IdsOf(tb)' = IdsOf(tb')
      /\ Faithful(tb)' <=> Faithful(tb')
      /\ block' = block /\ passes' = passes
  BY <1>1, InputsStay DEF SameInputs
<1>4. /\ Len(tb.insns) \in Nat /\ cur + 1 \in DOMAIN tb.insns /\ (cur + 1) - 1 = cur
      /\ cur \in 0..Len(tb.insns) - 1
  BY <1>1, <1>2, IndexFacts
<1> DEFINE id == tb.insns[cur + 1].id
<1>5. InRel(tb, cur) <=> InRel(Decoded(block), id - 1)
  BY <1>2, <1>4, CoveredAsInFile
<1>6. id \in DOMAIN block.code /\ tb.insns[cur + 1].opc = block.code[id] /\ id \in Nat
  <2>1. id \in DOMAIN block.code /\ tb.insns[cur + 1].opc = block.code[id]
    BY <1>2, <1>4 DEF Faithful, PartOf
  <2> QED
    BY <1>2, <2>1, BlockFacts
<1>7. id - 1 \in block.nops /\ (id - 1) + 1 = id
  BY <1>1, <1>6
<1> HIDE DEF id
<1>8. CASE InRel(tb, cur)
  <2>1. tb' = tb /\ cur' = cur + 1
    BY <1>1, <1>8 DEF DeleteIthInsn
  <2>2. id \notin FreeNops
    BY <1>2, <1>5, <1>8, FreeNopsFacts
  <2>3. \A k \in 1..cur + 1 : tb.insns[k].id \notin FreeNops
    <3>1. \A k \in 1..cur + 1 : k \in 1..cur \/ k = cur + 1
      BY <1>2
    <3> QED
      BY <1>2, <2>2, <3>1 DEF id
  <2>4. Progress'
    BY <1>1, <1>2, <1>3, <1>4, <2>1, <2>3 DEF Progress
  <2>5. TypeOK'
    BY <1>1, <1>2, <1>3, <2>1 DEF IndInv, TypeOK
  <2> QED
    BY <1>2, <1>3, <2>1, <2>4, <2>5 DEF IndInv
<1>9. CASE ~ InRel(tb, cur)
  <2>1. tb' = RemoveInsn(tb, cur + 1, cur)
    BY <1>1, <1>9 DEF DeleteIthInsn
  <2>2. Cut(tb, cur, 1, tb') /\ cur + 1 <= Len(tb.insns)
    BY <1>2, <1>4, <1>9, <2>1, RemoveInsnCuts
  <2>3. ASSUME NEW d \in Jumps, block.linked[d]
        PROVE  tb.target[d] < cur \/ cur + 1 <= tb.target[d]
    <3>1. /\ tb.target[d] \in Nat
          /\ tb.insns[tb.target[d] + 1].opc = "B"
      BY <1>2, <2>3, JumpIsB
    <3>2. block.code[id] = "PLAIN"
      <4>1. WellFormedBlock(block)
        BY <1>2, BlockFacts
      <4> QED
        BY <1>7, <4>1 DEF WellFormedBlock
    <3>3. tb.target[d] # cur
      BY <1>6, <3>1, <3>2
    <3> QED
      BY <1>2, <3>1, <3>3
  <2>4. /\ tb' \in TBType /\ Faithful(tb')
        /\ IdsOf(tb') = IdsOf(tb) \ {tb.insns[k].id : k \in cur + 1..cur + 1}
    BY <1>2, <2>2, <2>3, CutKeepsFaithful
  <2>5. /\ DOMAIN tb'.rels = DOMAIN tb.rels
        /\ Len(tb'.insns) = Len(tb.insns) - 1
        /\ \A k \in 1..Len(tb.insns) - 1 : k <= cur => tb'.insns[k] = tb.insns[k]
        /\ \A j \in DOMAIN tb.rels : tb'.rels[j].valid <=>
             /\ tb.rels[j].valid
             /\ SparedAt(tb.rels[j].off, tb.rels[j].slots, cur, 1)
    BY <2>2 DEF Cut, Without, Spared
  <2>6. tb' # tb /\ cur' = cur
    BY <1>1, <1>4, <2>5
  <2>7. \A j \in DOMAIN tb'.rels : tb'.rels[j].valid
    <3>1. SUFFICES ASSUME NEW j \in DOMAIN tb.rels
                   PROVE  SparedAt(tb.rels[j].off, tb.rels[j].slots, cur, 1)
      BY <1>2, <2>5
    <3>2. tb.rels[j].off \in Nat /\ tb.rels[j].slots \in Nat
      BY <1>2, RelFacts
    <3>3. ~ Covers(tb.rels[j], cur)
      BY <1>2, <1>9 DEF InRel, ValidAt
    <3> QED
      BY <1>2, <3>2, <3>3 DEF Covers, SparedAt
  <2>8. DOMAIN block.code \ IdsOf(tb') \subseteq FreeNops
    <3>1. id \in FreeNops
      BY <1>1, <1>5, <1>7, <1>9, IsFreeNop
    <3>2. {tb.insns[k].id : k \in cur + 1..cur + 1} = {id}
      BY <1>2 DEF id
    <3> QED
      BY <1>2, <2>4, <3>1, <3>2
  <2>9. \A k \in 1..cur : tb'.insns[k].id \notin FreeNops
    <3>1. \A k \in 1..cur : k \in 1..Len(tb.insns) - 1 /\ k <= cur
      BY <1>4
    <3> QED
      BY <1>2, <2>5, <3>1
  <2>10. Progress'
    BY <1>1, <1>3, <1>4, <2>5, <2>6, <2>7, <2>8, <2>9 DEF Progress
  <2>11. TypeOK'
    BY <1>1, <1>2, <1>3, <2>4, <2>6 DEF IndInv, TypeOK
  <2> QED
    BY <1>3, <2>4, <2>10, <2>11 DEF IndInv
<1> QED
  BY <1>8, <1>9

LEMMA KeepInsnInv ==
    ASSUME IndInv, KeepInsn
    PROVE  IndInv'
<1>1. /\ pc = "nops" /\ NopsWanted /\ cur < Len(tb.insns)
      /\ tb.insns[cur + 1].id - 1 \notin block.nops
      /\ tb' = tb /\ cur' = cur + 1
      /\ pc' = pc /\ SameInputs
  BY DEF KeepInsn, IsNop, SameInputs
<1>2. /\ block \in Blocks /\ tb \in TBType /\ cur \in Nat /\ Faithful(tb)
      /\ \A k \in 1..cur : tb.insns[k].id \notin FreeNops
  BY <1>1 DEF IndInv, TypeOK, Progress
<1>3. /\ FreeNops' = FreeNops
      /\ IdsOf(tb)' = IdsOf(tb')
      /\ Faithful(tb)' <=> Faithful(tb')
      /\ block' = block /\ passes' = passes
  BY <1>1, InputsStay DEF SameInputs
<1>4. \A k \in 1..cur + 1 : tb.insns[k].id \notin FreeNops
  <2>1. tb.insns[cur + 1].id \notin FreeNops
    BY <1>1, <1>2, FreeNopsFacts
  <2>2. \A k \in 1..cur + 1 : k \in 1..cur \/ k = cur + 1
    BY <1>2
  <2> QED
    BY <1>2, <2>1, <2>2
<1>5. cur + 1 <= Len(tb.insns)
  BY <1>1, <1>2, IndexFacts
<1>6. Progress'
  BY <1>1, <1>3, <1>4, <1>5 DEF IndInv, Progress
<1>7. TypeOK'
  BY <1>1, <1>2, <1>3 DEF IndInv, TypeOK
<1> QED
  BY <1>1, <1>2, <1>3, <1>6, <1>7 DEF IndInv

LEMMA NopsDoneInv ==
    ASSUME IndInv, NopsDone
    PROVE  IndInv'
<1>1. /\ pc = "nops"
      /\ ~ NopsWanted \/ cur = Len(tb.insns)
      /\ pc' = IF "tail" \in passes THEN "tail0" ELSE "bne"
      /\ tb' = tb /\ cur' = cur /\ SameInputs
  BY DEF NopsDone, SameInputs
<1>2. /\ block \in Blocks /\ tb \in TBType /\ cur \in Nat /\ Faithful(tb)
      /\ DOMAIN block.code \ IdsOf(tb) \subseteq FreeNops
      /\ \A k \in 1..cur : tb.insns[k].id \notin FreeNops
  BY <1>1 DEF IndInv, TypeOK, Progress
<1>3. /\ FreeNops' = FreeNops /\ Removable' = Removable
      /\ IdsOf(tb)' = IdsOf(tb')
      /\ Faithful(tb)' <=> Faithful(tb')
      /\ block' = block /\ passes' = passes
  BY <1>1, InputsStay DEF SameInputs
<1>4. IdsOf(tb) = DOMAIN block.code \ FreeNops
  <2>1. IdsOf(tb) \subseteq DOMAIN block.code
    BY <1>2 DEF Faithful, PartOf, IdsOf
  <2>2. ASSUME NEW k \in DOMAIN tb.insns
        PROVE  tb.insns[k].id \notin FreeNops
    <3>1. CASE ~ NopsWanted
      BY <1>2, <3>1, FreeNopsFacts
    <3>2. CASE cur = Len(tb.insns)
      <4>1. k \in 1..cur
        BY <1>2, <3>2, IndexFacts
      <4> QED
        BY <1>2, <4>1
    <3> QED
      BY <1>1, <3>1, <3>2
  <2>3. IdsOf(tb) \cap FreeNops = {}
    BY <2>2 DEF IdsOf
  <2> QED
    BY <1>2, <2>1, <2>3
<1>5. CASE "tail" \in passes
  <2>1. pc' = "tail0"
    BY <1>1, <1>5
  <2> QED
    BY <1>1, <1>2, <1>3, <1>4, <1>5, <2>1 DEF IndInv, TypeOK, Progress
<1>6. CASE "tail" \notin passes
  <2>1. pc' = "bne"
    BY <1>1, <1>6
  <2>2. Removable = FreeNops
    BY <1>6 DEF Removable, OwnTail
  <2> QED
    BY <1>1, <1>2, <1>3, <1>4, <2>1, <2>2 DEF IndInv, TypeOK, Progress
<1> QED
  BY <1>5, <1>6

-----------------------------------------------------------------------------
(* RemoveTailVistor.                                                       *)

(* The loop of remove_tail_of deletes the tail of jump d and nothing else. *)
LEMMA TailCut ==
    ASSUME IndInv, NEW d \in Jumps, block.linked[d]
    PROVE  /\ RemoveTailOf(d) \in TBType
           /\ Faithful(RemoveTailOf(d))
           /\ IdsOf(RemoveTailOf(d)) = IdsOf(tb) \ TailOf(d)
<1> DEFINE here == tb.target[d]
           n == Len(tb.insns)
           stop == IF d = 0 /\ tb.linked[1] THEN tb.target[1] ELSE n
           count == stop - here - 1
           first == block.target[d]
<1>1. block \in Blocks /\ tb \in TBType /\ Faithful(tb) /\ tb.linked = block.linked
  BY DEF IndInv, TypeOK, Faithful, TargetsStand
<1>2. /\ here \in Nat /\ here < n
      /\ tb.insns[here + 1].id = first + 1
      /\ n \in Nat /\ DOMAIN tb.insns = 1..n
      /\ first \in Nat
  BY <1>1, JumpIsB, IndexFacts, BlockFacts
<1>3. ASSUME NEW e \in Jumps, block.linked[e]
      PROVE  /\ tb.target[e] \in Nat /\ tb.target[e] < n
             /\ tb.insns[tb.target[e] + 1].id = block.target[e] + 1
             /\ block.target[e] \in Nat
  BY <1>1, <1>3, JumpIsB, BlockFacts
<1>4. \A k, m \in DOMAIN tb.insns :
        /\ tb.insns[k].id = tb.insns[m].id => k = m
        /\ tb.insns[k].id < tb.insns[m].id => k < m
        /\ k < m => tb.insns[k].id < tb.insns[m].id
  BY <1>1, IdsDiffer DEF Faithful, PartOf
<1>5. block.linked[0] /\ block.linked[1] =>
        block.target[0] < block.target[1] /\ tb.target[0] < tb.target[1]
  <2>1. SUFFICES ASSUME block.linked[0], block.linked[1]
                 PROVE  block.target[0] < block.target[1] /\ tb.target[0] < tb.target[1]
    OBVIOUS
  <2>2. block.target[0] < block.target[1]
    <3>1. WellFormedBlock(block)
      BY <1>1, BlockFacts
    <3> QED
      BY <2>1, <3>1 DEF WellFormedBlock
  <2>3. 0 \in Jumps /\ 1 \in Jumps
    BY DEF Jumps
  <2>4. /\ tb.target[0] \in Nat /\ tb.target[0] < n
        /\ tb.insns[tb.target[0] + 1].id = block.target[0] + 1
        /\ block.target[0] \in Nat
    BY <1>3, <2>1, <2>3
  <2>5. /\ tb.target[1] \in Nat /\ tb.target[1] < n
        /\ tb.insns[tb.target[1] + 1].id = block.target[1] + 1
        /\ block.target[1] \in Nat
    BY <1>3, <2>1, <2>3
  <2> HIDE DEF n
  <2>6. tb.target[0] + 1 \in DOMAIN tb.insns /\ tb.target[1] + 1 \in DOMAIN tb.insns
    <3>1. \A x \in Nat : x < n => x + 1 \in 1..n
      BY <1>2
    <3>2. DOMAIN tb.insns = 1..n
      BY <1>2
    <3> QED
      BY <2>4, <2>5, <3>1, <3>2
  <2>7. tb.insns[tb.target[0] + 1].id < tb.insns[tb.target[1] + 1].id
    BY <2>2, <2>4, <2>5
  <2> QED
    BY <1>4, <2>2, <2>4, <2>5, <2>6, <2>7
<1>6. stop \in Nat /\ here < stop /\ stop <= n
  <2>1. CASE d = 0 /\ tb.linked[1]
    <3>1. block.linked[0] /\ block.linked[1] /\ 1 \in Jumps
      BY <1>1, <2>1 DEF Jumps
    <3>2. tb.target[1] \in Nat /\ tb.target[1] < n /\ tb.target[0] < tb.target[1]
      BY <1>3, <1>5, <3>1
    <3> QED
      BY <1>2, <2>1, <3>2
  <2>2. CASE ~ (d = 0 /\ tb.linked[1])
    BY <1>2, <2>2
  <2> QED
    BY <2>1, <2>2
<1>7. /\ count \in Nat /\ here + 1 \in Nat
      /\ (here + 1) + count = stop
  <2> HIDE DEF here, stop, n
  <2> QED
    BY <1>2, <1>6
<1>8. RemoveTailOf(d) = DeleteRun(tb, here + 1, count)
  BY DEF RemoveTailOf, TailLength
<1>9. Cut(tb, here + 1, count, RemoveTailOf(d))
  <2>1. RelsApart(tb)
    BY <1>1, FaithfulApart
  <2>2. (here + 1) + count <= Len(tb.insns)
    BY <1>6, <1>7
  <2> HIDE DEF here, count
  <2> QED
    BY <1>1, <1>7, <1>8, <2>1, <2>2, DeleteRunCuts
<1>10. ASSUME NEW e \in Jumps, block.linked[e]
       PROVE  tb.target[e] < here + 1 \/ (here + 1) + count <= tb.target[e]
  <2>1. CASE e = d
    BY <1>2, <2>1
  <2>2. CASE e = 0 /\ d = 1
    <3>1. tb.target[0] < tb.target[1] /\ tb.target[0] \in Nat /\ tb.target[1] \in Nat
      BY <1>3, <1>5, <1>10, <2>2 DEF Jumps
    <3> QED
      BY <2>2, <3>1
  <2>3. CASE e = 1 /\ d = 0
    <3>1. stop = tb.target[1] /\ tb.target[1] \in Nat
      BY <1>1, <1>3, <1>10, <2>3
    <3> HIDE DEF stop, here, count
    <3> QED
      BY <1>7, <2>3, <3>1
  <2> QED
    BY <2>1, <2>2, <2>3 DEF Jumps
<1>11. /\ RemoveTailOf(d) \in TBType /\ Faithful(RemoveTailOf(d))
       /\ IdsOf(RemoveTailOf(d)) =
            IdsOf(tb) \ {tb.insns[k].id : k \in (here + 1) + 1..(here + 1) + count}
  <2>1. (here + 1) + count <= Len(tb.insns)
    BY <1>6, <1>7
  <2> HIDE DEF here, count
  <2> QED
    BY <1>1, <1>7, <1>9, <1>10, <2>1, CutKeepsFaithful
<1>12. ASSUME NEW k \in DOMAIN tb.insns
       PROVE  tb.insns[k].id \in TailOf(d) <=> here + 1 < k /\ k <= stop
  <2> DEFINE id == tb.insns[k].id
  <2>1. k \in Nat /\ id \in DOMAIN block.code /\ id \in Nat
    <3>1. id \in DOMAIN block.code
      BY <1>1, <1>12 DEF Faithful, PartOf
    <3> QED
      BY <1>1, <1>2, <3>1, BlockFacts
  <2>2. here + 1 \in DOMAIN tb.insns
    BY <1>2
  <2>3. first + 1 < id <=> here + 1 < k
    <3> HIDE DEF here, first
    <3>1. here + 1 < k => first + 1 < id
      BY <1>2, <1>4, <2>2
    <3>2. first + 1 < id => here + 1 < k
      BY <1>2, <1>4, <2>2
    <3> QED
      BY <3>1, <3>2
  <2>4. CASE d = 0 /\ block.linked[1]
    <3>1. /\ stop = tb.target[1] /\ tb.target[1] \in Nat
          /\ tb.insns[tb.target[1] + 1].id = block.target[1] + 1
          /\ tb.target[1] + 1 \in DOMAIN tb.insns
          /\ block.target[1] \in Nat
      BY <1>1, <1>2, <1>3, <2>4, SMTT(30) DEF Jumps
    <3>2. id < block.target[1] + 1 <=> k < tb.target[1] + 1
      <4>1. id < block.target[1] + 1 => k < tb.target[1] + 1
        BY <1>4, <3>1
      <4>2. k < tb.target[1] + 1 => id < block.target[1] + 1
        BY <1>4, <3>1
      <4> QED
        BY <4>1, <4>2
    <3>3. id \in TailOf(d) <=> id - 1 > first /\ id - 1 < block.target[1]
      BY <2>1, <2>4 DEF TailOf
    <3>5. first \in Nat
      BY <1>2
    <3>6. tb.insns[k].id = id
      OBVIOUS
    <3> HIDE DEF id, first, here, stop
    <3>7. id - 1 > first <=> first + 1 < id
      BY <2>1, <3>5
    <3>8. id - 1 < block.target[1] <=> id < block.target[1] + 1
      BY <2>1, <3>1
    <3>9. k < tb.target[1] + 1 <=> k <= stop
      BY <2>1, <3>1
    <3> QED
      BY <2>3, <3>2, <3>3, <3>6, <3>7, <3>8, <3>9
  <2>5. CASE ~ (d = 0 /\ block.linked[1])
    <3>1. stop = n
      BY <1>1, <2>5
    <3>2. id \in TailOf(d) <=> id - 1 > first
      BY <2>1, <2>5 DEF TailOf
    <3>3. k <= n
      BY <1>2
    <3> HIDE DEF id, first, here, stop, n
    <3> QED
      BY <1>2, <2>1, <2>3, <3>1, <3>2, <3>3 DEF id
  <2> QED
    BY <2>4, <2>5
<1>13. /\ \A k \in DOMAIN tb.insns :
            k \in (here + 1) + 1..(here + 1) + count <=> here + 1 < k /\ k <= stop
       /\ \A k \in (here + 1) + 1..(here + 1) + count : k \in DOMAIN tb.insns
  <2> HIDE DEF here, stop, count, n
  <2> QED
    BY <1>2, <1>6, <1>7
<1> HIDE DEF here, stop, count, first, n
<1>14. IdsOf(RemoveTailOf(d)) = IdsOf(tb) \ TailOf(d)
  <2>1. ASSUME NEW k \in DOMAIN tb.insns
        PROVE  tb.insns[k].id \in TailOf(d) <=>
                 tb.insns[k].id \in
                    {tb.insns[m].id : m \in (here + 1) + 1..(here + 1) + count}
    BY <1>4, <1>12, <1>13
  <2> QED
    BY <1>11, <2>1, ZenonT(40) DEF IdsOf
<1> QED
  BY <1>11, <1>14

LEMMA RemoveTailsInv ==
    ASSUME IndInv, RemoveTails
    PROVE  IndInv'
<1>1. PICK d \in Jumps, here \in {"tail0", "tail1"}, after \in {"tail1", "bne"} :
        /\ RemoveTail(d, here, after)
        /\ \/ d = 0 /\ here = "tail0" /\ after = "tail1"
           \/ d = 1 /\ here = "tail1" /\ after = "bne"
  BY DEF RemoveTails, Jumps
<1>2. pc = here /\ SameInputs /\ cur' = cur
  BY <1>1 DEF RemoveTail, SameInputs
<1>3. /\ block \in Blocks /\ tb \in TBType /\ Faithful(tb) /\ "tail" \in passes
      /\ pc = "tail0" => IdsOf(tb) = DOMAIN block.code \ FreeNops
      /\ pc = "tail1" => IdsOf(tb) = DOMAIN block.code \ (FreeNops \cup OwnTail(0))
  BY <1>1, <1>2 DEF IndInv, TypeOK, Progress
<1>4. /\ FreeNops' = FreeNops /\ Removable' = Removable
      /\ \A e \in Jumps : OwnTail(e)' = OwnTail(e)
      /\ IdsOf(tb)' = IdsOf(tb')
      /\ Faithful(tb)' <=> Faithful(tb')
      /\ block' = block /\ passes' = passes
  BY <1>2, InputsStay DEF SameInputs
<1>5. /\ pc' = after
      /\ tb' \in TBType /\ Faithful(tb')
      /\ IdsOf(tb') = IdsOf(tb) \ OwnTail(d)
  <2>1. CASE ~ block.known[d]
    <3>1. pc' = after /\ tb' = tb
      BY <1>1, <2>1 DEF RemoveTail
    <3>2. OwnTail(d) = {}
      BY <2>1 DEF OwnTail
    <3> QED
      BY <1>3, <3>1, <3>2
  <2>2. CASE block.known[d]
    <3>1. block.linked[d]
      <4>1. WellFormedBlock(block)
        BY <1>3, BlockFacts
      <4> QED
        BY <2>2, <4>1 DEF WellFormedBlock
    <3>2. IsB(tb.target[d])
      BY <1>3, <3>1, JumpIsB DEF IsB
    <3>3. pc' = after /\ tb' = RemoveTailOf(d)
      BY <1>1, <2>2, <3>2 DEF RemoveTail
    <3>4. OwnTail(d) = TailOf(d)
      BY <1>3, <2>2 DEF OwnTail
    <3>5. /\ RemoveTailOf(d) \in TBType /\ Faithful(RemoveTailOf(d))
          /\ IdsOf(RemoveTailOf(d)) = IdsOf(tb) \ TailOf(d)
      BY <3>1, TailCut
    <3> QED
      BY <3>3, <3>4, <3>5
  <2> QED
    BY <2>1, <2>2
<1>6. TypeOK'
  BY <1>1, <1>2, <1>4, <1>5 DEF IndInv, TypeOK
<1>7. Progress'
  <2>1. CASE d = 0
    <3>1. IdsOf(tb') = DOMAIN block.code \ (FreeNops \cup OwnTail(0)) /\ pc' = "tail1"
      BY <1>1, <1>2, <1>3, <1>5, <2>1
    <3>2. OwnTail(0)' = OwnTail(0)
      BY <1>4 DEF Jumps
    <3> QED
      BY <1>3, <1>4, <3>1, <3>2 DEF Progress
  <2>2. CASE d = 1
    <3>1. IdsOf(tb') = DOMAIN block.code \ Removable /\ pc' = "bne"
      BY <1>1, <1>2, <1>3, <1>5, <2>2 DEF Removable
    <3> QED
      BY <1>4, <3>1 DEF Progress
  <2> QED
    BY <1>1, <2>1, <2>2
<1> QED
  BY <1>4, <1>5, <1>6, <1>7 DEF IndInv

-----------------------------------------------------------------------------
(* FixBranchVistor.                                                        *)

(* The BNE that chooses between two jumps is never removed.                *)
LEMMA BneStays ==
    ASSUME IndInv, pc = "bne", block.linked[0], block.linked[1]
    PROVE  BNEs # {}
<1>1. /\ block \in Blocks /\ Faithful(tb)
      /\ IdsOf(tb) = DOMAIN block.code \ Removable
  BY DEF IndInv, TypeOK, Progress
<1>2. /\ block.target[0] < block.target[1]
      /\ \E k \in 1..block.target[0] : block.code[k] = "BNE"
  <2>1. WellFormedBlock(block)
    BY <1>1, BlockFacts
  <2> QED
    BY <2>1 DEF WellFormedBlock
<1>3. PICK k \in 1..block.target[0] : block.code[k] = "BNE"
  BY <1>2
<1>4. /\ block.target[0] \in Nat /\ block.target[1] \in Nat
      /\ block.target[1] < Len(block.code) /\ Len(block.code) \in Nat
      /\ DOMAIN block.code = 1..Len(block.code)
  BY <1>1, BlockFacts DEF Jumps
<1>5. k \in DOMAIN block.code
  BY <1>2, <1>4
<1>6. k \notin TailOf(0) /\ k \notin TailOf(1)
  BY <1>2, <1>4 DEF TailOf
<1>7. k \notin FreeNops
  BY <1>1, <1>3, FreeNopsFacts
<1>8. k \in IdsOf(tb)
  BY <1>1, <1>5, <1>6, <1>7 DEF Removable, OwnTail
<1>9. PICK m \in DOMAIN tb.insns : tb.insns[m].id = k
  BY <1>8 DEF IdsOf
<1>10. tb.insns[m].opc = "BNE"
  BY <1>1, <1>3, <1>9 DEF Faithful, PartOf
<1> QED
  BY <1>10 DEF BNEs

(* The steps of FixBranchVistor change distances only.                     *)
LEMMA FixInv ==
    ASSUME IndInv, SameInputs, tb' = tb, cur' = cur,
           pc \in {"bne", "b"}, pc' \in {"b", "done"}
    PROVE  IndInv'
<1>1. /\ block' = block /\ passes' = passes
      /\ Removable' = Removable /\ IdsOf(tb)' = IdsOf(tb')
      /\ Faithful(tb)' <=> Faithful(tb')
  BY InputsStay DEF SameInputs
<1>2. IdsOf(tb) = DOMAIN block.code \ Removable
  BY DEF IndInv, Progress
<1>3. TypeOK'
  BY <1>1 DEF IndInv, TypeOK
<1>4. Progress'
  BY <1>1, <1>2 DEF Progress
<1> QED
  BY <1>1, <1>3, <1>4 DEF IndInv

LEMMA FixBneInv ==
    ASSUME IndInv, FixBne
    PROVE  IndInv'
<1>1. tb.linked = block.linked
  BY DEF IndInv, Faithful, TargetsStand
<1>2. pc = "bne" /\ SameInputs /\ cur' = cur
  BY DEF FixBne, SameInputs
<1>3. tb.linked[0] /\ tb.linked[1] => BNEs # {}
  BY <1>1, <1>2, BneStays
<1>4. tb' = tb /\ pc' = "b"
  BY <1>3 DEF FixBne
<1> QED
  BY <1>2, <1>4, FixInv

LEMMA FixBInv ==
    ASSUME IndInv, FixB
    PROVE  IndInv'
<1>1. block \in Blocks /\ tb \in TBType /\ Faithful(tb) /\ tb.linked = block.linked
  BY DEF IndInv, TypeOK, Faithful, TargetsStand
<1>2. pc = "b" /\ SameInputs /\ cur' = cur
  BY DEF FixB, SameInputs
<1>3. \A d \in ToFix : IsB(tb.target[d])
  BY <1>1, JumpIsB DEF ToFix, IsB
<1>4. tb' = tb /\ pc' = "done"
  BY <1>3 DEF FixB
<1> QED
  BY <1>2, <1>4, FixInv

-----------------------------------------------------------------------------
(* Theorems.                                                               *)

(* Whatever the passes have done so far, the list is a part of the file's  *)
(* code in the file's order, relocations and recorded jumps are at their   *)
(* instructions, and just what the finished passes are to remove is gone.  *)
THEOREM Inductive == Spec => []IndInv
<1>1. IndInv /\ [Next]_vars => IndInv'
  <2> SUFFICES ASSUME IndInv, [Next]_vars
               PROVE  IndInv'
    OBVIOUS
  <2>1. CASE RemoveNop
    BY <2>1, RemoveNopInv
  <2>2. CASE KeepInsn
    BY <2>2, KeepInsnInv
  <2>3. CASE NopsDone
    BY <2>3, NopsDoneInv
  <2>4. CASE RemoveTails
    BY <2>4, RemoveTailsInv
  <2>5. CASE FixBne
    BY <2>5, FixBneInv
  <2>6. CASE FixB
    BY <2>6, FixBInv
  <2>7. CASE UNCHANGED vars
    <3>1. /\ SameInputs /\ pc' = pc /\ tb' = tb /\ cur' = cur /\ block' = block
          /\ passes' = passes
      BY <2>7 DEF vars, SameInputs
    <3>2. /\ FreeNops' = FreeNops /\ Removable' = Removable
          /\ OwnTail(0)' = OwnTail(0)
          /\ IdsOf(tb)' = IdsOf(tb)
          /\ Faithful(tb)' <=> Faithful(tb)
      BY <3>1, InputsStay DEF Jumps
    <3>3. TypeOK'
      BY <3>1 DEF IndInv, TypeOK
    <3>4. Progress'
      BY <3>1, <3>2 DEF IndInv, Progress
    <3> QED
      BY <3>2, <3>3, <3>4 DEF IndInv
  <2> QED
    BY <2>1, <2>2, <2>3, <2>4, <2>5, <2>6, <2>7 DEF Next
<1> QED
  BY <1>1, InitInv, PTL DEF Spec

(* No assertion of RemoveTailVistor and FixBranchVistor fails.             *)
THEOREM Safe == Spec => []NeverAborts
<1>1. IndInv => NeverAborts
  BY DEF IndInv, TypeOK, NeverAborts
<1> QED
  BY <1>1, Inductive, PTL

(* When the branches are repaired, exactly the nops that may go and the    *)
(* tails of the known jumps are gone.                                      *)
THEOREM Removed == Spec => []OnlyNopsAndTailsRemoved
<1>1. IndInv => OnlyNopsAndTailsRemoved
  BY DEF IndInv, Progress, OnlyNopsAndTailsRemoved, Ids
<1> QED
  BY <1>1, Inductive, PTL

(* A relocation is valid in the end exactly when all of its code is left.  *)
THEOREM Relocated == Spec => []RelsFollowTails
<1>1. ASSUME IndInv
      PROVE  RelsFollowTails
  <2>1. block \in Blocks /\ tb \in TBType /\ Faithful(tb)
    BY <1>1 DEF IndInv, TypeOK
  <2>2. SUFFICES ASSUME NEW j \in DOMAIN tb.rels
                 PROVE  tb.rels[j].valid <=>
                          {i + 1 : i \in {n \in 0..Len(block.code) - 1 :
                                            Covers(block.rels[j], n)}}
                            \subseteq Ids
    BY DEF RelsFollowTails
  <2> DEFINE own == block.rels[j].off
             slots == block.rels[j].slots
             code == {i + 1 : i \in {n \in 0..Len(block.code) - 1 : Covers(block.rels[j], n)}}
  <2>3. /\ j \in DOMAIN block.rels
        /\ tb.rels[j].valid => \A i \in 1..slots :
                /\ tb.rels[j].off + i \in DOMAIN tb.insns
                /\ tb.insns[tb.rels[j].off + i].id = own + i
        /\ ~ tb.rels[j].valid => \E i \in 1..slots : own + i \notin IdsOf(tb)
    BY <2>1 DEF Faithful, RelsStand
  <2>4. own \in Nat /\ slots \in Nat /\ own + slots <= Len(block.code) /\ Len(block.code) \in Nat
    BY <2>1, <2>3, BlockFacts
  <2>5. \A x : x \in code <=> \E i \in 1..slots : x = own + i
    <3>1. ASSUME NEW n \in 0..Len(block.code) - 1, Covers(block.rels[j], n)
          PROVE  (n + 1) - own \in 1..slots /\ n + 1 = own + ((n + 1) - own)
      BY <2>4, <3>1 DEF Covers
    <3>2. ASSUME NEW i \in 1..slots
          PROVE  /\ (own + i) - 1 \in 0..Len(block.code) - 1
                 /\ ((own + i) - 1) + 1 = own + i
                 /\ Covers(block.rels[j], (own + i) - 1)
      BY <2>4, SMTT(30) DEF Covers
    <3> HIDE DEF own, slots
    <3> QED
      BY <3>1, <3>2
  <2>6. Ids = IdsOf(tb)
    BY DEF Ids
  <2> HIDE DEF own, slots, code
  <2>7. tb.rels[j].valid => \A i \in 1..slots : own + i \in IdsOf(tb)
    BY <2>3 DEF IdsOf
  <2>8. tb.rels[j].valid <=> code \subseteq IdsOf(tb)
    <3>1. ASSUME tb.rels[j].valid
          PROVE  code \subseteq IdsOf(tb)
      BY <2>5, <2>7, <3>1
    <3>2. ASSUME ~ tb.rels[j].valid
          PROVE  ~ (code \subseteq IdsOf(tb))
      BY <2>3, <2>5, <3>2
    <3>3. tb.rels[j].valid \in BOOLEAN
      BY <2>1, <2>3, RelFacts DEF Faithful, RelsStand
    <3> QED
      BY <3>1, <3>2, <3>3
  <2> QED
    BY <2>6, <2>8 DEF code
<1>2. IndInv => RelsFollowTails
  BY <1>1
<1> QED
  BY <1>2, Inductive, PTL

-----------------------------------------------------------------------------
(* Where branches go.                                                      *)

LEMMA RegularFacts ==
    ASSUME block \in Blocks
    PROVE  /\ \A k \in DOMAIN block.code :
                /\ block.dest[k] \in Nat
                /\ block.code[k] = "BNE" =>
                    /\ block.linked[0] /\ block.linked[1] /\ block.dest[k] = block.target[1]
                    /\ \A m \in DOMAIN block.code : block.code[m] = "BNE" => m = k
                /\ block.code[k] = "B" =>
                    \/ \E d \in Jumps : block.linked[d] /\ k - 1 = block.target[d]
                    \/ \E j \in DOMAIN block.rels : Covers(block.rels[j], k - 1)
           /\ \A d \in Jumps : block.linked[d] =>
                ~ \E j \in DOMAIN block.rels : Covers(block.rels[j], block.target[d])
<1>1. RegularBranches(block)
  BY BranchesAssumption
<1>2. block.dest \in Seq(Nat) /\ Len(block.dest) = Len(block.code)
  BY BlockFacts DEF WellFormedBlock, BlockType
<1>3. ASSUME NEW k \in DOMAIN block.code
      PROVE  block.dest[k] \in Nat
  <2>1. k \in 1..Len(block.dest)
    BY <1>2, BlockFacts
  <2> QED
    BY <1>2, <2>1, ElementOfSeq
<1>4. ASSUME NEW k \in DOMAIN block.code, block.code[k] = "BNE"
      PROVE  /\ block.linked[0] /\ block.linked[1] /\ block.dest[k] = block.target[1]
             /\ \A m \in DOMAIN block.code : block.code[m] = "BNE" => m = k
  BY <1>1, <1>4 DEF RegularBranches
<1>5. ASSUME NEW k \in DOMAIN block.code, block.code[k] = "B"
      PROVE  \/ \E d \in Jumps : block.linked[d] /\ k - 1 = block.target[d]
             \/ \E j \in DOMAIN block.rels : Covers(block.rels[j], k - 1)
  BY <1>1, <1>5 DEF RegularBranches
<1>6. ASSUME NEW d \in Jumps, block.linked[d]
      PROVE  ~ \E j \in DOMAIN block.rels : Covers(block.rels[j], block.target[d])
  BY <1>1, <1>6 DEF RegularBranches
<1> QED
  BY <1>3, <1>4, <1>5, <1>6

(* The destination of a recorded jump.                                     *)
LEMMA JumpGoes ==
    ASSUME block \in Blocks, NEW d \in Jumps, block.linked[d]
    PROVE  LET i == block.target[d]
               loads == LoadsBehind(block, i)
           IN  /\ block.dest[i + 1] = IF loads = {} THEN i ELSE Closest(loads)
               /\ d = 0 /\ block.linked[1] /\ loads # {} => Closest(loads) < block.target[1]
<1>1. RegularBranches(block)
  BY BranchesAssumption
<1> QED
  BY <1>1 DEF RegularBranches

LEMMA ClosestFacts ==
    ASSUME NEW S \in SUBSET Nat, S # {}
    PROVE  Closest(S) \in S /\ \A y \in S : Closest(S) <= y
BY LeastNatural DEF Closest

(* The two successors are not both unknown and known.                      *)
LEMMA OneToFix ==
    ASSUME NEW d \in ToFix, NEW e \in ToFix
    PROVE  d = e
BY DEF ToFix, Jumps

LEMMA LoadsAfterFacts ==
    ASSUME tb \in TBType, NEW i
    PROVE  LoadsAfter(i) \in SUBSET Nat
BY RelFacts DEF LoadsAfter

LEMMA SameDistances ==
    ASSUME block' = block
    PROVE  Distances' = Distances
BY DEF Distances

LEMMA DistancesType ==
    ASSUME block \in Blocks
    PROVE  Distances \in [DOMAIN block.code -> Int]
<1>1. \A k \in DOMAIN block.code : block.dest[k] \in Nat /\ k \in Nat
  BY RegularFacts, BlockFacts
<1> QED
  BY <1>1 DEF Distances

(* A list has at most the one BNE of the file.                             *)
LEMMA OneBne ==
    ASSUME IndInv, NEW k \in DOMAIN tb.insns, tb.insns[k].opc = "BNE"
    PROVE  /\ tb.linked[0] /\ tb.linked[1]
           /\ block.dest[tb.insns[k].id] = block.target[1]
           /\ \A m \in DOMAIN tb.insns : tb.insns[m].opc = "BNE" => m = k
<1>1. /\ block \in Blocks /\ tb \in TBType /\ tb.linked = block.linked
      /\ PartOf(tb, block.code)
  BY DEF IndInv, TypeOK, Faithful, TargetsStand
<1>2. \A m \in DOMAIN tb.insns :
        tb.insns[m].id \in DOMAIN block.code /\ tb.insns[m].opc = block.code[tb.insns[m].id]
  BY <1>1 DEF PartOf
<1>3. /\ block.linked[0] /\ block.linked[1]
      /\ block.dest[tb.insns[k].id] = block.target[1]
      /\ \A m \in DOMAIN block.code : block.code[m] = "BNE" => m = tb.insns[k].id
  BY <1>1, <1>2, RegularFacts
<1>4. ASSUME NEW m \in DOMAIN tb.insns, tb.insns[m].opc = "BNE"
      PROVE  m = k
  <2>1. tb.insns[m].id = tb.insns[k].id
    BY <1>2, <1>3, <1>4
  <2> QED
    BY <1>1, <2>1, IdsDiffer
<1> QED
  BY <1>1, <1>3, <1>4

-----------------------------------------------------------------------------
(* The distances, step by step.                                            *)

LEMMA InitDistances == Init => DistancesInv
<1> SUFFICES ASSUME Init
             PROVE  DistancesInv
  OBVIOUS
<1>1. offs = Distances /\ block \in Blocks /\ pc = "nops"
  BY DEF Init, Distances
<1> QED
  BY <1>1, DistancesType DEF DistancesInv

LEMMA BeforeFixing ==
    ASSUME DistancesInv, SameInputs, offs' = offs,
           pc \in {"nops", "tail0", "tail1"}, pc' \in {"nops", "tail0", "tail1", "bne"}
    PROVE  DistancesInv'
<1>1. block' = block /\ Distances' = Distances
  BY SameDistances DEF SameInputs
<1> QED
  BY <1>1 DEF DistancesInv

LEMMA FixBneDistances ==
    ASSUME IndInv, DistancesInv, FixBne
    PROVE  DistancesInv'
<1>1. /\ pc = "bne" /\ SameInputs /\ block' = block
      /\ offs = Distances /\ offs \in [DOMAIN block.code -> Int]
  BY DEF FixBne, SameInputs, DistancesInv
<1>2. /\ block \in Blocks /\ tb \in TBType /\ PartOf(tb, block.code) /\ tb.linked = block.linked
  BY DEF IndInv, TypeOK, Faithful, TargetsStand
<1>3. \A k \in DOMAIN tb.insns : tb.insns[k].id \in DOMAIN block.code /\ k \in Nat
  BY <1>2, IndexFacts DEF PartOf
<1>4. Distances' = Distances
  BY <1>1, SameDistances
<1>5. CASE tb.linked[0] /\ tb.linked[1]
  <2> DEFINE last == CHOOSE k \in BNEs : \A m \in BNEs : m <= k
  <2>1. BNEs # {}
    BY <1>1, <1>2, <1>5, BneStays
  <2>2. last \in BNEs /\ \A m \in BNEs : m = last
    <3>1. PICK k \in DOMAIN tb.insns : tb.insns[k].opc = "BNE"
      BY <2>1 DEF BNEs
    <3>2. k \in BNEs /\ \A m \in BNEs : m = k
      BY <3>1, OneBne DEF BNEs
    <3>3. \A m \in BNEs : m <= k
      BY <1>3, <3>2 DEF BNEs
    <3> QED
      BY <3>2, <3>3
  <2>3. /\ offs' = [offs EXCEPT ![tb.insns[last].id] = tb.target[1] - (last - 1)]
        /\ pc' = "b" /\ tb' = tb
    BY <1>5, <2>1 DEF FixBne
  <2> HIDE DEF last
  <2>4. last \in DOMAIN tb.insns /\ tb.insns[last].opc = "BNE" /\ tb.target[1] \in Nat
    BY <1>2, <2>2, JumpFacts DEF BNEs, Jumps
  <2>5. offs' \in [DOMAIN block.code -> Int]
    <3>1. tb.target[1] - (last - 1) \in Int
      BY <1>3, <2>4
    <3> QED
      BY <1>1, <2>3, <3>1
  <2>6. ASSUME NEW k \in DOMAIN tb.insns
        PROVE  Sent(k)'
    <3>1. CASE tb.insns[k].opc = "BNE"
      <4>1. k = last
        BY <2>2, <3>1 DEF BNEs
      <4>2. offs'[tb.insns[k].id] = tb.target[1] - (k - 1)
        BY <1>1, <1>3, <2>3, <2>4, <4>1
      <4> QED
        BY <2>3, <3>1, <4>2 DEF Sent
    <3>2. CASE tb.insns[k].opc # "BNE"
      <4>1. tb.insns[k].id # tb.insns[last].id
        BY <1>2, <2>4, <3>2, IdsDiffer
      <4>2. offs'[tb.insns[k].id] = Distances[tb.insns[k].id]
        BY <1>1, <1>3, <2>3, <4>1
      <4> QED
        BY <1>4, <2>3, <3>2, <4>2 DEF Sent
    <3> QED
      BY <3>1, <3>2
  <2> QED
    BY <1>1, <2>3, <2>5, <2>6 DEF DistancesInv
<1>6. CASE ~ (tb.linked[0] /\ tb.linked[1])
  <2>1. offs' = offs /\ pc' = "b" /\ tb' = tb
    BY <1>6 DEF FixBne
  <2>2. ASSUME NEW k \in DOMAIN tb.insns
        PROVE  Sent(k)'
    <3>1. tb.insns[k].opc # "BNE"
      BY <1>6, OneBne
    <3> QED
      BY <1>1, <1>4, <2>1, <3>1 DEF Sent
  <2> QED
    BY <1>1, <2>1, <2>2 DEF DistancesInv
<1> QED
  BY <1>5, <1>6

LEMMA FixBDistances ==
    ASSUME IndInv, DistancesInv, FixB
    PROVE  DistancesInv'
<1>1. /\ pc = "b" /\ SameInputs /\ block' = block
      /\ offs \in [DOMAIN block.code -> Int]
      /\ \A k \in DOMAIN tb.insns : Sent(k)
  BY DEF FixB, SameInputs, DistancesInv
<1>2. /\ block \in Blocks /\ tb \in TBType /\ Faithful(tb) /\ PartOf(tb, block.code)
      /\ tb.linked = block.linked
  BY DEF IndInv, TypeOK, Faithful, TargetsStand
<1>3. \A k \in DOMAIN tb.insns : tb.insns[k].id \in DOMAIN block.code /\ k \in Nat
  BY <1>2, IndexFacts DEF PartOf
<1>4. Distances' = Distances
  BY <1>1, SameDistances
<1>5. tb' = tb /\ pc' = "done"
  <2>1. \A d \in ToFix : IsB(tb.target[d])
    BY <1>2, JumpIsB DEF ToFix, IsB
  <2> QED
    BY <2>1 DEF FixB
<1>6. ToFix' = ToFix /\ \A i : LoadsAfter(i)' = LoadsAfter(i)
  BY <1>1, <1>5 DEF ToFix, LoadsAfter
<1>7. \A k \in DOMAIN tb.insns :
        offs[tb.insns[k].id] = IF tb.insns[k].opc = "BNE" THEN tb.target[1] - (k - 1)
                               ELSE Distances[tb.insns[k].id]
  BY <1>1 DEF Sent
<1>8. CASE ToFix = {}
  <2>1. offs' = offs
    BY <1>8 DEF FixB
  <2>2. ASSUME NEW k \in DOMAIN tb.insns
        PROVE  Sent(k)'
    BY <1>4, <1>5, <1>6, <1>7, <1>8, <2>1 DEF Sent
  <2> QED
    BY <1>1, <1>5, <2>1, <2>2 DEF DistancesInv
<1>9. CASE ToFix # {}
  <2>1. PICK d \in ToFix :
          /\ IsB(tb.target[d])
          /\ offs' = IF LoadsAfter(tb.target[d]) = {} THEN offs
                     ELSE [offs EXCEPT ![tb.insns[tb.target[d] + 1].id] =
                                Closest(LoadsAfter(tb.target[d])) - tb.target[d]]
    BY <1>5, <1>9 DEF FixB, Aborts
  <2> DEFINE i == tb.target[d]
             loads == LoadsAfter(i)
  <2>2. /\ i \in Nat /\ i + 1 \in DOMAIN tb.insns
        /\ tb.insns[i + 1].opc = "B"
    <3>1. d \in Jumps /\ block.linked[d]
      BY <1>2 DEF ToFix
    <3>2. i \in Nat /\ i < Len(tb.insns) /\ tb.insns[i + 1].opc = "B"
      BY <1>2, <3>1, JumpIsB
    <3> QED
      BY <1>2, <3>2, IndexFacts
  <2>3. \A e \in ToFix : e = d
    BY OneToFix
  <2>4. loads # {} => Closest(loads) \in Nat
    BY <1>2, LoadsAfterFacts, ClosestFacts
  <2> HIDE DEF i
  <2>5. offs' \in [DOMAIN block.code -> Int]
    <3>1. loads # {} => Closest(loads) - i \in Int
      BY <2>2, <2>4
    <3> QED
      BY <1>1, <2>1, <3>1 DEF i
  <2>6. ASSUME NEW k \in DOMAIN tb.insns
        PROVE  Sent(k)'
    <3>1. CASE k = i + 1
      <4>1. k - 1 = i
        BY <2>2, <3>1
      <4>2. CASE loads = {}
        <5>1. offs'[tb.insns[k].id] = Distances[tb.insns[k].id]
          BY <1>7, <2>1, <2>2, <3>1, <4>2 DEF i
        <5> QED
          BY <1>4, <1>5, <1>6, <2>2, <3>1, <4>1, <4>2, <5>1 DEF Sent
      <4>3. CASE loads # {}
        <5>1. offs'[tb.insns[k].id] = Closest(loads) - i
          BY <1>1, <1>3, <2>1, <3>1, <4>3 DEF i
        <5>2. \E e \in ToFix : i = tb.target[e]
          BY DEF i
        <5> QED
          BY <1>5, <1>6, <2>2, <3>1, <4>1, <4>3, <5>1, <5>2 DEF Sent
      <4> QED
        BY <4>2, <4>3
    <3>2. CASE k # i + 1
      <4>1. k - 1 # i
        BY <1>3, <2>2, <3>2
      <4>2. tb.insns[k].id # tb.insns[i + 1].id
        BY <1>2, <2>2, <3>2, IdsDiffer
      <4>3. offs'[tb.insns[k].id] = offs[tb.insns[k].id]
        BY <1>1, <1>3, <2>1, <4>2 DEF i
      <4>4. ~ \E e \in ToFix : k - 1 = tb.target[e]
        BY <2>3, <4>1 DEF i
      <4> QED
        BY <1>4, <1>5, <1>6, <1>7, <4>3, <4>4 DEF Sent
    <3> QED
      BY <3>1, <3>2
  <2> QED
    BY <1>1, <1>5, <2>5, <2>6 DEF DistancesInv
<1> QED
  BY <1>8, <1>9

(* Until FixBranchVistor runs, every branch has the distance of the file;  *)
(* then just the BNE and the one jump it is to fix get another.            *)
THEOREM Distanced == Spec => []DistancesInv
<1>1. IndInv /\ DistancesInv /\ [Next]_vars => DistancesInv'
  <2> SUFFICES ASSUME IndInv, DistancesInv, [Next]_vars
               PROVE  DistancesInv'
    OBVIOUS
  <2>1. CASE RemoveNop \/ KeepInsn
    <3>1. SameInputs /\ offs' = offs /\ pc = "nops" /\ pc' = pc
      BY <2>1 DEF RemoveNop, KeepInsn, SameInputs
    <3> QED
      BY <3>1, BeforeFixing
  <2>2. CASE NopsDone
    <3>1. SameInputs /\ offs' = offs /\ pc = "nops" /\ pc' \in {"tail0", "bne"}
      BY <2>2 DEF NopsDone, SameInputs
    <3> QED
      BY <3>1, BeforeFixing
  <2>3. CASE RemoveTails
    <3>1. /\ SameInputs /\ offs' = offs /\ pc \in {"tail0", "tail1"}
          /\ pc' \in {"tail1", "bne", "aborted"}
      BY <2>3 DEF RemoveTails, RemoveTail, Aborts, SameInputs
    <3>2. pc' # "aborted"
      <4>1. IndInv'
        BY <2>3, RemoveTailsInv
      <4> QED
        BY <4>1 DEF IndInv, TypeOK
    <3> QED
      BY <3>1, <3>2, BeforeFixing
  <2>4. CASE FixBne
    BY <2>4, FixBneDistances
  <2>5. CASE FixB
    BY <2>5, FixBDistances
  <2>6. CASE UNCHANGED vars
    <3>1. pc' = pc /\ offs' = offs /\ tb' = tb /\ block' = block
      BY <2>6 DEF vars
    <3>2. Distances' = Distances
      BY <3>1, SameDistances
    <3>3. ASSUME NEW k \in DOMAIN tb.insns
          PROVE  Sent(k)' <=> Sent(k)
      BY <3>1, <3>2 DEF Sent, ToFix, LoadsAfter
    <3> QED
      BY <3>1, <3>2, <3>3 DEF DistancesInv
  <2> QED
    BY <2>1, <2>2, <2>3, <2>4, <2>5, <2>6 DEF Next
<1> QED
  BY <1>1, InitDistances, Inductive, PTL DEF Spec

-----------------------------------------------------------------------------
(* Where the branches of the finished block lead.                          *)

(* If nothing is gone, everything is where it was.                         *)
LEMMA NothingGone ==
    ASSUME block \in Blocks, NEW t \in TBType, PartOf(t, block.code), IdsOf(t) = DOMAIN block.code
    PROVE  \A k \in DOMAIN block.code : k \in DOMAIN t.insns /\ t.insns[k].id = k
<1>1. /\ Len(block.code) \in Nat /\ DOMAIN block.code = 1..Len(block.code)
      /\ Len(t.insns) \in Nat /\ DOMAIN t.insns = 1..Len(t.insns)
  BY BlockFacts, IndexFacts
<1>2. \A k \in DOMAIN t.insns : t.insns[k].id \in DOMAIN block.code
  BY DEF PartOf
<1> DEFINE T == {n \in Nat : \A k \in 1..n : k \in DOMAIN block.code =>
                                k \in DOMAIN t.insns /\ t.insns[k].id = k}
<1>3. 0 \in T
  OBVIOUS
<1>4. ASSUME NEW n \in T
      PROVE  n + 1 \in T
  <2>1. /\ n \in Nat
        /\ \A k \in 1..n : k \in DOMAIN block.code =>
                                k \in DOMAIN t.insns /\ t.insns[k].id = k
    OBVIOUS
  <2>2. SUFFICES ASSUME n + 1 \in DOMAIN block.code
                 PROVE  n + 1 \in DOMAIN t.insns /\ t.insns[n + 1].id = n + 1
    <3>1. \A k \in 1..n + 1 : k \in 1..n \/ k = n + 1
      BY <2>1
    <3> QED
      BY <2>1, <3>1
  <2> HIDE DEF T
  <2>3. PICK m \in DOMAIN t.insns : t.insns[m].id = n + 1
    BY <2>2 DEF IdsOf
  <2>4. \A k \in 1..n : k \in DOMAIN block.code
    BY <1>1, <2>1, <2>2
  <2>5. m \in Nat /\ ~ (m \in 1..n)
    <3>1. m \in 1..n => t.insns[m].id = m
      BY <2>1, <2>4
    <3>2. n + 1 \notin 1..n
      BY <2>1
    <3> QED
      BY <1>1, <2>3, <3>1, <3>2
  <2>6. m >= n + 1 /\ n + 1 \in DOMAIN t.insns
    BY <1>1, <2>1, <2>3, <2>5
  <2>7. ~ (m > n + 1)
    <3>1. SUFFICES ASSUME m > n + 1
                   PROVE  FALSE
      OBVIOUS
    <3> DEFINE q == t.insns[n + 1].id
    <3>2. q < n + 1
      BY <2>3, <2>6, <3>1 DEF PartOf
    <3>3. q \in DOMAIN block.code
      BY <1>2, <2>6
    <3> HIDE DEF q
    <3>4. q \in 1..n
      BY <1>1, <2>1, <3>2, <3>3
    <3>5. q \in DOMAIN t.insns /\ t.insns[q].id = t.insns[n + 1].id
      BY <2>1, <3>3, <3>4 DEF q
    <3>6. q = n + 1
      BY <2>6, <3>5, IdsDiffer
    <3> QED
      BY <2>1, <3>4, <3>6
  <2>8. m = n + 1
    BY <2>1, <2>5, <2>6, <2>7
  <2> QED
    BY <2>3, <2>8
<1>5. T = Nat
  <2>1. T \in SUBSET Nat
    OBVIOUS
  <2> HIDE DEF T
  <2> QED
    BY <1>3, <1>4, <2>1, NatInduct
<1>6. SUFFICES ASSUME NEW k \in DOMAIN block.code
               PROVE  k \in DOMAIN t.insns /\ t.insns[k].id = k
  OBVIOUS
<1>7. k \in Nat /\ k \in 1..k
  BY <1>1
<1> QED
  BY <1>5, <1>7

(* The loads behind a jump whose successor is unknown are those of the     *)
(* file, as far as the first of them goes.                                 *)
LEMMA LoadStays ==
    ASSUME IndInv, pc = "done", NEW d \in ToFix
    PROVE  LET mine == LoadsBehind(block, block.target[d])
               now  == LoadsAfter(tb.target[d])
           IN  /\ mine = {} => now = {}
               /\ mine # {} => /\ now # {}
                               /\ Closest(now) + 1 \in DOMAIN tb.insns
                               /\ tb.insns[Closest(now) + 1].id = Closest(mine) + 1
<1>1. /\ block \in Blocks /\ tb \in TBType /\ Faithful(tb) /\ PartOf(tb, block.code)
      /\ tb.linked = block.linked
      /\ IdsOf(tb) = DOMAIN block.code \ Removable
      /\ DOMAIN tb.rels = DOMAIN block.rels
  BY DEF IndInv, TypeOK, Progress, Faithful, TargetsStand, RelsStand
<1>2. d \in Jumps /\ block.linked[d] /\ ~ block.known[d]
  BY <1>1 DEF ToFix
<1> DEFINE mine == LoadsBehind(block, block.target[d])
           now == LoadsAfter(tb.target[d])
           i == tb.target[d]
<1>3. /\ i \in Nat /\ block.target[d] \in Nat
      /\ i + 1 \in DOMAIN tb.insns
      /\ tb.insns[i + 1].id = block.target[d] + 1
  <2>1. /\ i \in Nat /\ i < Len(tb.insns)
        /\ tb.insns[i + 1].id = block.target[d] + 1
    BY <1>1, <1>2, JumpIsB
  <2>2. i + 1 \in DOMAIN tb.insns
    BY <1>1, <2>1, IndexFacts
  <2> QED
    BY <1>1, <1>2, <2>1, <2>2, BlockFacts
<1>4. ASSUME NEW j \in DOMAIN block.rels
      PROVE  /\ tb.rels[j].kind = block.rels[j].kind
             /\ tb.rels[j].off \in Nat /\ block.rels[j].off \in Nat
             /\ block.rels[j].slots \in Nat \ {0}
             /\ block.rels[j].off + block.rels[j].slots <= Len(block.code)
             /\ tb.rels[j].valid \in BOOLEAN
             /\ tb.rels[j].valid =>
                    /\ tb.rels[j].off + 1 \in DOMAIN tb.insns
                    /\ tb.insns[tb.rels[j].off + 1].id = block.rels[j].off + 1
             /\ ~ tb.rels[j].valid =>
                    \E x \in 1..block.rels[j].slots :
                        block.rels[j].off + x \notin IdsOf(tb)
  <2>1. /\ block.rels[j].off \in Nat /\ block.rels[j].slots \in Nat \ {0}
        /\ block.rels[j].off + block.rels[j].slots <= Len(block.code)
    BY <1>1, BlockFacts
  <2>2. tb.rels[j].off \in Nat /\ tb.rels[j].valid \in BOOLEAN
    BY <1>1, RelFacts
  <2>3. 1 \in 1..block.rels[j].slots
    BY <2>1
  <2> QED
    BY <1>1, <2>1, <2>2, <2>3 DEF Faithful, RelsStand
<1>5. \A k, m \in DOMAIN tb.insns :
        /\ tb.insns[k].id < tb.insns[m].id => k < m
        /\ k < m => tb.insns[k].id < tb.insns[m].id
        /\ tb.insns[k].id = tb.insns[m].id => k = m
  BY <1>1, IdsDiffer DEF PartOf
(* A load is behind the jump exactly if it was so in the file.             *)
<1>6. ASSUME NEW j \in DOMAIN block.rels, tb.rels[j].valid
      PROVE  i < tb.rels[j].off <=> block.target[d] < block.rels[j].off
  <2>1. /\ tb.rels[j].off + 1 \in DOMAIN tb.insns
        /\ tb.insns[tb.rels[j].off + 1].id = block.rels[j].off + 1
        /\ tb.rels[j].off \in Nat /\ block.rels[j].off \in Nat
    BY <1>4, <1>6
  <2>2. i + 1 < tb.rels[j].off + 1 <=> block.target[d] + 1 < block.rels[j].off + 1
    <3> HIDE DEF i
    <3>1. i + 1 < tb.rels[j].off + 1 => block.target[d] + 1 < block.rels[j].off + 1
      BY <1>3, <1>5, <2>1
    <3>2. block.target[d] + 1 < block.rels[j].off + 1 => i + 1 < tb.rels[j].off + 1
      BY <1>3, <1>5, <2>1
    <3> QED
      BY <3>1, <3>2
  <2> HIDE DEF i
  <2> QED
    BY <1>3, <2>1, <2>2
<1>7. ASSUME NEW x \in now
      PROVE  \E j \in DOMAIN block.rels :
                /\ tb.rels[j].valid /\ tb.rels[j].off = x
                /\ block.rels[j].off \in mine
  <2>1. PICK j \in DOMAIN tb.rels :
          /\ tb.rels[j].valid /\ tb.rels[j].kind = "LOAD_TB_ADDR"
          /\ i < tb.rels[j].off /\ tb.rels[j].off = x
    BY <1>7 DEF LoadsAfter
  <2>2. block.rels[j].kind = "LOAD_TB_ADDR" /\ block.target[d] < block.rels[j].off
    BY <1>1, <1>4, <1>6, <2>1
  <2> QED
    BY <1>1, <2>1, <2>2 DEF LoadsBehind
<1>8. CASE mine = {}
  BY <1>7, <1>8
<1>9. CASE mine # {}
  <2>1. mine \in SUBSET Nat
    BY <1>4 DEF LoadsBehind
  <2>2. Closest(mine) \in mine /\ \A y \in mine : Closest(mine) <= y
    BY <1>9, <2>1, ClosestFacts
  <2>3. PICK j \in DOMAIN block.rels :
          /\ block.rels[j].kind = "LOAD_TB_ADDR"
          /\ block.target[d] < block.rels[j].off
          /\ block.rels[j].off = Closest(mine)
    BY <2>2 DEF LoadsBehind
  <2> DEFINE off == block.rels[j].off
             slots == block.rels[j].slots
  <2>4. off \in Nat /\ slots \in Nat \ {0} /\ off + slots <= Len(block.code)
        /\ Len(block.code) \in Nat /\ DOMAIN block.code = 1..Len(block.code)
    BY <1>1, <1>4, BlockFacts
  <2>5. ASSUME NEW x \in 1..slots
        PROVE  off + x \in DOMAIN block.code \ Removable
    <3>1. off + x \in DOMAIN block.code /\ off + x \in Nat
      BY <2>4
    <3>2. off + x \notin FreeNops
      <4>1. Covers(block.rels[j], (off + x) - 1)
        BY <2>4 DEF Covers
      <4>2. Decoded(block).rels = block.rels /\ block.rels[j].valid
        BY <1>1, DecodedFacts, BlockFacts
      <4>3. InRel(Decoded(block), (off + x) - 1)
        BY <4>1, <4>2 DEF InRel, ValidAt
      <4> QED
        BY <1>1, <4>3, FreeNopsFacts
    <3>3. ASSUME NEW e \in Jumps
          PROVE  off + x \notin OwnTail(e)
      <4>1. CASE e = d
        BY <1>2, <4>1 DEF OwnTail
      <4>2. CASE e = 0 /\ d = 1
        <5>1. CASE ~ block.known[0]
          BY <4>2, <5>1 DEF OwnTail
        <5>2. CASE block.known[0]
          <6>1. ~ ((off + x) - 1 < block.target[1])
            <7>1. block.target[1] < off
              BY <2>3, <4>2
            <7> HIDE DEF off, slots
            <7> QED
              BY <1>3, <2>4, <4>2, <7>1
          <6>2. block.linked[1]
            BY <1>2, <4>2
          <6> QED
            BY <4>2, <6>1, <6>2 DEF OwnTail, TailOf
        <5> QED
          BY <5>1, <5>2
      <4>3. CASE e = 1 /\ d = 0
        <5>1. CASE ~ block.known[1]
          BY <4>3, <5>1 DEF OwnTail
        <5>2. CASE block.known[1]
          <6>1. block.linked[1]
            <7>1. WellFormedBlock(block)
              BY <1>1, BlockFacts
            <7> QED
              BY <5>2, <7>1 DEF WellFormedBlock, Jumps
          <6>2. off < block.target[1] /\ block.target[1] \in Nat
            <7>1. Closest(mine) < block.target[1]
              BY <1>1, <1>2, <1>9, <4>3, <6>1, JumpGoes
            <7>2. block.target[1] \in Nat
              BY <1>1, BlockFacts DEF Jumps
            <7> QED
              BY <2>3, <7>1, <7>2
          <6>3. off + slots <= block.target[1]
            <7>1. ~ Covers(block.rels[j], block.target[1])
              BY <1>1, <6>1, RegularFacts DEF Jumps
            <7> QED
              BY <2>4, <6>2, <7>1 DEF Covers
          <6>4. ~ ((off + x) - 1 > block.target[1])
            <7> HIDE DEF off, slots
            <7> QED
              BY <2>4, <6>2, <6>3
          <6> QED
            BY <4>3, <6>4 DEF OwnTail, TailOf
        <5> QED
          BY <5>1, <5>2
      <4> QED
        BY <1>2, <4>1, <4>2, <4>3 DEF Jumps
    <3> QED
      BY <3>1, <3>2, <3>3 DEF Removable, Jumps
  <2>6. tb.rels[j].valid
    BY <1>1, <1>4, <2>5
  <2> DEFINE at == tb.rels[j].off
  <2>7. at \in now
    <3>1. i < tb.rels[j].off /\ tb.rels[j].kind = "LOAD_TB_ADDR"
      BY <1>4, <1>6, <2>3, <2>6
    <3> QED
      BY <1>1, <2>6, <3>1 DEF LoadsAfter
  <2>8. at \in Nat /\ at + 1 \in DOMAIN tb.insns /\ tb.insns[at + 1].id = off + 1
    BY <1>4, <2>6
  <2>9. now \in SUBSET Nat
    BY <1>1, LoadsAfterFacts
  <2>10. Closest(now) \in now /\ \A y \in now : Closest(now) <= y
    BY <2>7, <2>9, ClosestFacts
  <2>11. Closest(now) = at
    <3>1. PICK k \in DOMAIN block.rels :
            /\ tb.rels[k].valid /\ tb.rels[k].off = Closest(now)
            /\ block.rels[k].off \in mine
      BY <1>7, <2>10
    <3>2. off <= block.rels[k].off
      BY <2>2, <2>3, <3>1
    <3>3. /\ Closest(now) \in Nat /\ Closest(now) + 1 \in DOMAIN tb.insns
          /\ tb.insns[Closest(now) + 1].id = block.rels[k].off + 1
          /\ block.rels[k].off \in Nat
      BY <1>4, <3>1
    <3> HIDE DEF at, off, now, mine, slots
    <3>4. ~ (Closest(now) + 1 < at + 1)
      <4>1. Closest(now) + 1 < at + 1 => block.rels[k].off + 1 < off + 1
        BY <1>5, <2>8, <3>3
      <4> QED
        BY <2>4, <3>2, <3>3, <4>1
    <3>5. Closest(now) <= at
      BY <2>7, <2>10
    <3> QED
      BY <2>8, <3>3, <3>4, <3>5
  <2> QED
    BY <1>9, <2>3, <2>7, <2>8, <2>11
<1> QED
  BY <1>8, <1>9

(* Without the removal of nops, a B that the loader does not patch is a    *)
(* recorded jump.                                                          *)
LEMMA UnpatchedIsJump ==
    ASSUME IndInv, pc = "done", "nops" \notin passes,
           NEW k \in DOMAIN tb.insns, tb.insns[k].opc = "B", ~ InRel(tb, k - 1)
    PROVE  \E d \in Jumps : /\ block.linked[d]
                            /\ k - 1 = tb.target[d]
                            /\ tb.insns[k].id = block.target[d] + 1
<1> DEFINE id == tb.insns[k].id
<1>1. /\ block \in Blocks /\ tb \in TBType /\ Faithful(tb) /\ PartOf(tb, block.code)
      /\ IdsOf(tb) = DOMAIN block.code \ Removable
      /\ DOMAIN tb.rels = DOMAIN block.rels
  BY DEF IndInv, TypeOK, Progress, Faithful, RelsStand
<1>2. /\ id \in DOMAIN block.code /\ block.code[id] = "B" /\ id \in Nat /\ k \in Nat
      /\ id \in IdsOf(tb)
  <2>1. id \in DOMAIN block.code /\ block.code[id] = "B" /\ id \in IdsOf(tb)
    BY <1>1 DEF PartOf, IdsOf
  <2> QED
    BY <1>1, <2>1, BlockFacts, IndexFacts
<1>3. FreeNops = {}
  BY DEF FreeNops, NopsWanted
<1>4. ASSUME NEW j \in DOMAIN block.rels, Covers(block.rels[j], id - 1)
      PROVE  FALSE
  <2> DEFINE off == block.rels[j].off
             slots == block.rels[j].slots
  <2>1. /\ off \in Nat /\ slots \in Nat /\ off + slots <= Len(block.code)
        /\ Len(block.code) \in Nat /\ DOMAIN block.code = 1..Len(block.code)
    BY <1>1, BlockFacts
  <2>2. /\ tb.rels[j].valid => \A i \in 1..slots :
              /\ tb.rels[j].off + i \in DOMAIN tb.insns
              /\ tb.insns[tb.rels[j].off + i].id = off + i
        /\ ~ tb.rels[j].valid => \E i \in 1..slots : off + i \notin IdsOf(tb)
        /\ tb.rels[j].slots = slots /\ tb.rels[j].off \in Nat
    <3>1. tb.rels[j].off \in Nat
      BY <1>1, RelFacts
    <3> QED
      BY <1>1, <3>1 DEF Faithful, RelsStand
  <2>3. id - off \in 1..slots /\ off + (id - off) = id
    BY <1>2, <1>4, <2>1, SMTT(30) DEF Covers
  <2>4. ~ tb.rels[j].valid
    <3>1. SUFFICES ASSUME tb.rels[j].valid
                   PROVE  FALSE
      OBVIOUS
    <3>2. tb.rels[j].off + (id - off) \in DOMAIN tb.insns
          /\ tb.insns[tb.rels[j].off + (id - off)].id = id
      BY <2>2, <2>3, <3>1
    <3>3. tb.rels[j].off + (id - off) = k
      BY <1>1, <3>2, IdsDiffer
    <3>4. Covers(tb.rels[j], k - 1)
      <4>1. tb.rels[j].off \in Nat /\ tb.rels[j].slots = slots
        BY <2>2
      <4>2. id - off \in 1..slots /\ id - off \in Int
        BY <1>2, <2>1, <2>3
      <4> DEFINE x == id - off
                 a == tb.rels[j].off
      <4> HIDE DEF id, off, slots, x, a
      <4>3. x \in 1..slots /\ a + x = k /\ a \in Nat /\ slots \in Nat
        BY <2>1, <3>3, <4>1, <4>2 DEF x, a
      <4>4. a <= k - 1 /\ k - 1 < a + slots
        BY <4>3
      <4> QED
        BY <4>1, <4>4 DEF Covers, a
    <3> QED
      BY <1>1, <3>1, <3>4 DEF InRel, ValidAt
  <2>5. PICK i \in 1..slots : off + i \notin IdsOf(tb)
    BY <2>2, <2>4
  <2>6. off + i \in DOMAIN block.code /\ i \in Nat
    BY <2>1
  <2>7. PICK e \in Jumps : off + i \in OwnTail(e)
    BY <1>1, <1>3, <2>5, <2>6 DEF Removable, Jumps
  <2>8. /\ "tail" \in passes /\ block.known[e]
        /\ (off + i) - 1 > block.target[e]
        /\ e = 0 /\ block.linked[1] => (off + i) - 1 < block.target[1]
    BY <2>7 DEF OwnTail, TailOf
  <2>9. block.linked[e] /\ block.target[e] \in Nat
    <3>1. WellFormedBlock(block)
      BY <1>1, BlockFacts
    <3> QED
      BY <1>1, <2>8, <3>1, BlockFacts DEF WellFormedBlock
  <2>10. ~ Covers(block.rels[j], block.target[e])
    BY <1>1, <2>9, RegularFacts
  <2>11. id \notin OwnTail(e)
    BY <1>1, <1>2 DEF Removable, Jumps
  <2>12. id - 1 <= block.target[e] \/ (e = 0 /\ block.linked[1] /\ ~ (id - 1 < block.target[1]))
    BY <1>2, <2>8, <2>9, <2>11 DEF OwnTail, TailOf
  <2> HIDE DEF id, off, slots
  <2>13. CASE id - 1 <= block.target[e]
    <3>1. off <= block.target[e] /\ block.target[e] < off + slots
      BY <1>2, <2>1, <2>3, <2>6, <2>8, <2>9, <2>13, SMTT(30)
    <3> QED
      BY <2>10, <3>1 DEF Covers, off, slots
  <2>14. CASE e = 0 /\ block.linked[1] /\ ~ (id - 1 < block.target[1])
    <3>1. block.target[1] \in Nat /\ ~ Covers(block.rels[j], block.target[1])
      BY <1>1, <2>14, RegularFacts, BlockFacts DEF Jumps
    <3>2. off <= block.target[1] /\ block.target[1] < off + slots
      BY <1>2, <2>1, <2>3, <2>5, <2>6, <2>8, <2>14, <3>1, SMTT(30)
    <3> QED
      BY <3>1, <3>2 DEF Covers, off, slots
  <2> QED
    BY <2>12, <2>13, <2>14
<1>5. PICK d \in Jumps : block.linked[d] /\ id - 1 = block.target[d]
  BY <1>1, <1>2, <1>4, RegularFacts
<1>6. /\ tb.target[d] \in Nat /\ tb.target[d] + 1 \in DOMAIN tb.insns
      /\ tb.insns[tb.target[d] + 1].id = block.target[d] + 1
  <2>1. /\ tb.target[d] \in Nat /\ tb.target[d] < Len(tb.insns)
        /\ tb.insns[tb.target[d] + 1].id = block.target[d] + 1
    BY <1>1, <1>5, JumpIsB
  <2> QED
    BY <1>1, <2>1, IndexFacts
<1>7. id = block.target[d] + 1
  BY <1>2, <1>5
<1>8. k = tb.target[d] + 1
  BY <1>1, <1>6, <1>7, IdsDiffer
<1> QED
  BY <1>2, <1>5, <1>6, <1>7, <1>8

(* Every repaired branch goes where it went, in the finished block.        *)
LEMMA RepairedLands ==
    ASSUME IndInv, DistancesInv, pc = "done",
           NEW k \in DOMAIN tb.insns, Repaired(k),
           block.dest[tb.insns[k].id] + 1 \in Ids
    PROVE  Lands(k, block.dest[tb.insns[k].id] + 1)
<1> DEFINE id == tb.insns[k].id
           to == block.dest[id] + 1
<1>1. /\ block \in Blocks /\ tb \in TBType /\ Faithful(tb) /\ PartOf(tb, block.code)
      /\ tb.linked = block.linked
      /\ IdsOf(tb) = DOMAIN block.code \ Removable
  BY DEF IndInv, TypeOK, Progress, Faithful, TargetsStand
<1>2. /\ id \in DOMAIN block.code /\ tb.insns[k].opc = block.code[id]
      /\ k \in Nat /\ id \in Nat /\ block.dest[id] \in Nat
  <2>1. id \in DOMAIN block.code /\ tb.insns[k].opc = block.code[id]
    BY <1>1 DEF PartOf
  <2> QED
    BY <1>1, <2>1, BlockFacts, IndexFacts, RegularFacts
<1>3. Sent(k)
  BY DEF DistancesInv
<1>4. SUFFICES /\ k + offs[id] \in DOMAIN tb.insns
               /\ tb.insns[k + offs[id]].id = to
  BY DEF Lands
<1>5. Distances[id] = block.dest[id] - (id - 1)
  BY <1>2 DEF Distances
<1>6. CASE tb.insns[k].opc = "BNE"
  <2>1. /\ tb.linked[0] /\ tb.linked[1] /\ block.dest[id] = block.target[1]
    BY <1>6, OneBne
  <2>2. /\ tb.target[1] \in Nat /\ tb.target[1] + 1 \in DOMAIN tb.insns
        /\ tb.insns[tb.target[1] + 1].id = block.target[1] + 1
    <3>1. /\ tb.target[1] \in Nat /\ tb.target[1] < Len(tb.insns)
          /\ tb.insns[tb.target[1] + 1].id = block.target[1] + 1
      BY <1>1, <2>1, JumpIsB DEF Jumps
    <3> QED
      BY <1>1, <3>1, IndexFacts
  <2>3. offs[id] = tb.target[1] - (k - 1)
    BY <1>3, <1>6 DEF Sent
  <2>4. k + offs[id] = tb.target[1] + 1
    BY <1>2, <2>2, <2>3
  <2> QED
    BY <2>1, <2>2, <2>4
<1>7. ASSUME tb.insns[k].opc = "B", NEW d \in Jumps, block.linked[d],
             k - 1 = tb.target[d], id = block.target[d] + 1,
             "nops" \in passes => d \in ToFix
      PROVE  /\ k + offs[id] \in DOMAIN tb.insns
             /\ tb.insns[k + offs[id]].id = to
  <2> DEFINE mine == LoadsBehind(block, block.target[d])
             now == LoadsAfter(k - 1)
  <2>1. block.target[d] \in Nat
    BY <1>1, <1>7, BlockFacts
  <2>2. /\ block.dest[id] = IF mine = {} THEN block.target[d] ELSE Closest(mine)
        /\ d = 0 /\ block.linked[1] /\ mine # {} => Closest(mine) < block.target[1]
    BY <1>1, <1>7, JumpGoes
  <2>3. CASE d \in ToFix
    <3>1. /\ mine = {} => now = {}
          /\ mine # {} => /\ now # {}
                          /\ Closest(now) + 1 \in DOMAIN tb.insns
                          /\ tb.insns[Closest(now) + 1].id = Closest(mine) + 1
      BY <1>7, <2>3, LoadStays
    <3>2. CASE mine = {}
      <4>1. offs[id] = Distances[id]
        BY <1>3, <1>7, <3>1, <3>2 DEF Sent
      <4>2. offs[id] = 0 /\ to = id
        BY <1>2, <1>5, <1>7, <2>1, <2>2, <3>2, <4>1
      <4>3. k + offs[id] = k
        BY <1>2, <4>2
      <4> QED
        BY <4>2, <4>3
    <3>3. CASE mine # {}
      <4>1. offs[id] = Closest(now) - (k - 1)
        BY <1>3, <1>7, <2>3, <3>1, <3>3 DEF Sent
      <4>2. Closest(now) \in Nat
        BY <1>1, <3>1, <3>3, LoadsAfterFacts, ClosestFacts
      <4>3. k + offs[id] = Closest(now) + 1
        BY <1>2, <4>1, <4>2
      <4> QED
        BY <2>2, <3>1, <3>3, <4>3
    <3> QED
      BY <3>2, <3>3
  <2>4. CASE d \notin ToFix
    <3>1. offs[id] = Distances[id]
      <4>1. ASSUME NEW e \in ToFix, k - 1 = tb.target[e]
            PROVE  FALSE
        <5>1. e \in Jumps /\ block.linked[e]
          BY <1>1 DEF ToFix
        <5>2. block.target[e] \in Nat /\ tb.insns[tb.target[e] + 1].id = block.target[e] + 1
          BY <1>1, <5>1, JumpIsB, BlockFacts
        <5>3. tb.target[e] + 1 = k
          BY <1>2, <4>1
        <5>4. block.target[e] = block.target[d]
          BY <1>7, <2>1, <5>2, <5>3
        <5>5. e # d
          BY <2>4
        <5>6. block.linked[0] /\ block.linked[1] /\ block.target[0] = block.target[1]
          BY <1>7, <5>1, <5>4, <5>5 DEF Jumps
        <5>7. WellFormedBlock(block)
          BY <1>1, BlockFacts
        <5>8. block.target[0] < block.target[1]
          BY <5>6, <5>7 DEF WellFormedBlock
        <5> QED
          BY <2>1, <5>2, <5>6, <5>8, <1>7, <5>1 DEF Jumps
      <4> QED
        BY <1>3, <1>7, <4>1 DEF Sent
    <3>2. "nops" \notin passes /\ FreeNops = {}
      BY <1>7, <2>4 DEF FreeNops, NopsWanted
    <3>3. CASE Removable = {}
      <4>1. IdsOf(tb) = DOMAIN block.code
        BY <1>1, <3>3
      <4>2. \A m \in DOMAIN block.code : m \in DOMAIN tb.insns /\ tb.insns[m].id = m
        BY <1>1, <4>1, NothingGone
      <4>3. k = id
        BY <1>1, <1>2, <4>2, IdsDiffer
      <4>4. k + offs[id] = to
        BY <1>2, <1>5, <3>1, <4>3
      <4>5. to \in DOMAIN block.code
        BY <4>1 DEF Ids
      <4> QED
        BY <4>2, <4>4, <4>5
    <3>4. CASE Removable # {}
      <4>1. PICK e \in Jumps : "tail" \in passes /\ block.known[e]
        BY <3>2, <3>4 DEF Removable, OwnTail, Jumps
      <4>2. block.known[d]
        <5>1. CASE e = d
          BY <4>1, <5>1
        <5>2. CASE e # d
          <6>1. e = 1 - d
            BY <5>2 DEF Jumps
          <6>2. block.known[1 - d]
            BY <4>1, <6>1
          <6> QED
            BY <1>1, <1>7, <2>4, <6>2 DEF ToFix
        <5> QED
          BY <5>1, <5>2
      <4>3. CASE mine = {}
        <5>1. offs[id] = 0 /\ to = id
          BY <1>2, <1>5, <1>7, <2>1, <2>2, <3>1, <4>3
        <5>2. k + offs[id] = k
          BY <1>2, <5>1
        <5> QED
          BY <5>1, <5>2
      <4>4. CASE mine # {}
        <5>1. mine \in SUBSET Nat
          <6>1. \A j \in DOMAIN block.rels : block.rels[j].off \in Nat
            BY <1>1, BlockFacts
          <6> QED
            BY <6>1 DEF LoadsBehind
        <5>2. Closest(mine) \in mine
          BY <4>4, <5>1, ClosestFacts
        <5>3. Closest(mine) \in Nat /\ block.target[d] < Closest(mine)
          BY <5>1, <5>2 DEF LoadsBehind
        <5>4. to - 1 = Closest(mine) /\ to \in DOMAIN block.code
          <6>1. to \in DOMAIN block.code
            BY <1>1 DEF Ids
          <6>2. to = Closest(mine) + 1
            BY <2>2, <4>4
          <6> QED
            BY <5>3, <6>1, <6>2
        <5>5. to \in TailOf(d)
          BY <2>1, <2>2, <4>4, <5>3, <5>4 DEF TailOf
        <5>6. to \in OwnTail(d)
          BY <4>1, <4>2, <5>5 DEF OwnTail
        <5>7. to \in Removable
          BY <5>6 DEF Removable, Jumps
        <5> QED
          BY <1>1, <5>7 DEF Ids
      <4> QED
        BY <4>3, <4>4
    <3> QED
      BY <3>3, <3>4
  <2> QED
    BY <2>3, <2>4
<1>8. CASE tb.insns[k].opc # "BNE"
  <2>1. /\ tb.insns[k].opc = "B" /\ ~ InRel(tb, k - 1)
        /\ "nops" \in passes => \E d \in ToFix : k - 1 = tb.target[d]
    BY <1>8 DEF Repaired
  <2>2. CASE "nops" \in passes
    <3>1. PICK d \in ToFix : k - 1 = tb.target[d]
      BY <2>1, <2>2
    <3>2. d \in Jumps /\ block.linked[d]
      BY <1>1 DEF ToFix
    <3>3. tb.target[d] + 1 = k
      BY <1>2, <3>1
    <3>4. id = block.target[d] + 1
      BY <1>1, <3>2, <3>3, JumpIsB
    <3> QED
      BY <1>7, <2>1, <3>1, <3>2, <3>4
  <2>3. CASE "nops" \notin passes
    <3>1. PICK d \in Jumps : /\ block.linked[d] /\ k - 1 = tb.target[d]
                             /\ id = block.target[d] + 1
      BY <2>1, <2>3, UnpatchedIsJump
    <3> QED
      BY <1>7, <2>1, <2>3, <3>1
  <2> QED
    BY <2>2, <2>3
<1> QED
  BY <1>6, <1>8

(* After the last pass, the branches that FixBranchVistor is responsible   *)
(* for go to the instruction they went to in the file, if it is still      *)
(* there, however much has been deleted in between.                        *)
THEOREM Landing == Spec => []DestinationsKept
<1>1. IndInv /\ DistancesInv => DestinationsKept
  BY RepairedLands DEF DestinationsKept
<1> QED
  BY <1>1, Inductive, Distanced, PTL

=============================================================================
