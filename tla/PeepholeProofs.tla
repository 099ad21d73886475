--------------------------- MODULE PeepholeProofs ---------------------------
(***************************************************************************)
(* The peephole passes, proved for every block: those over loads of        *)
(* constants for every width of the immediates, those that merge runs of   *)
(* pushes and pops for every limit.                                        *)
(*                                                                         *)
(* In order: what the machine does with an instruction, and with a load    *)
(* that nothing has patched; that a deletion leaves the block fitting what *)
(* it was decoded from; that the addi.d put for a load leaves what the     *)
(* load left, and the rest of the block runs as before; and the inductive  *)
(* invariant, whose core is that const_set, at the node a pass is at, says *)
(* the truth about the registers there.                                    *)
(*                                                                         *)
(* Then the merging: the parts of a run; a machine whose base is behind by *)
(* the addi.d deleted so far, which the growing offsets make up for; one   *)
(* round of the merging and all of them; that the code ahead of a pass is  *)
(* that of the file; and the inductive invariant, whose core is where a    *)
(* pass stands: its index is its node's, or one short behind a long run.   *)
(***************************************************************************)
EXTENDS ConstLoads, AddiMerge, TBOpsProofs, FiniteSetTheorems

-----------------------------------------------------------------------------
(* Numbers.                                                                *)

(* A power of two is a natural number, and not zero.                       *)
LEMMA PowerOfTwo == \A n \in Nat : 2^n \in Nat /\ 2^n > 0
<1> SUFFICES ASSUME NEW n \in Nat PROVE 2^n \in Nat /\ 2^n > 0
  OBVIOUS
<1>1. IsFiniteSet(1..n) /\ Cardinality(1..n) = n
  BY FS_Interval
<1>2. IsFiniteSet(SUBSET (1..n)) /\ Cardinality(SUBSET (1..n)) = 2^n
  BY <1>1, FS_SUBSET
<1>3. 2^n \in Nat
  BY <1>2, FS_CardinalityType
<1>4. SUBSET (1..n) # {}
  OBVIOUS
<1>5. 2^n # 0
  BY <1>2, <1>4, FS_EmptySet
<1> QED
  BY <1>3, <1>5

LEMMA Widths ==
    /\ 2^OriBits \in Nat /\ 2^OriBits > 0
    /\ 2^LowBits \in Nat /\ 2^LowBits > 0
    /\ 0 \in Regs /\ Regs \subseteq Nat
BY PowerOfTwo, MachineAssumption

LEMMA Remainders ==
    \A p \in Nat : p > 0 =>
        /\ \A x \in Int : (x * p) % p = 0 /\ x * p \in Int /\ x % p \in 0..p - 1
        /\ \A x \in 0..p - 1 : x % p = x
OBVIOUS

(* The slots of a relocation behind index i.                               *)
LEMMA SlotsBehind ==
    \A f, n, w, i \in Nat : \A y \in 0..n - 1 : f + n <= w /\ i < f =>
        f + y + 1 \in 1..w /\ f + y + 1 > i + 1 /\ (f + y + 1) - 1 = (f - 1) + y + 1
OBVIOUS

-----------------------------------------------------------------------------
(* The machine.                                                            *)

Start == [regs |-> [r \in Regs |-> Before(r)], stores |-> <<>>]

(* The states of a run, one from the other.                                *)
LEMMA StatesUnfold ==
    ASSUME NEW insns, Len(insns) \in Nat, NEW rels, NEW placed
    PROVE  /\ States(insns, rels, placed)[0] = Start
           /\ \A k \in 1..Len(insns) :
                States(insns, rels, placed)[k] =
                    Executed(States(insns, rels, placed)[k - 1], insns[k], Patched(rels, k - 1, placed))
<1> DEFINE E(s, k) == Executed(s, insns[k], Patched(rels, k - 1, placed))
           G(f, n) == [k \in 0..n |-> IF k = 0 THEN Start ELSE E(f[k - 1], k)]
           T == {n \in Nat : \E f : f = G(f, n)}
           state == CHOOSE f : f = G(f, Len(insns))
<1>1. States(insns, rels, placed) = state
  BY DEF States, Start
<1> HIDE DEF E
<1>2. 0 \in T
  <2>1. [k \in 0..0 |-> Start] = G([k \in 0..0 |-> Start], 0)
    OBVIOUS
  <2> QED
    BY <2>1
<1>3. ASSUME NEW n \in T
      PROVE  n + 1 \in T
  <2>1. PICK f : f = G(f, n)
    OBVIOUS
  <2> DEFINE g == [k \in 0..n + 1 |-> IF k = n + 1 THEN E(f[n], n + 1) ELSE f[k]]
  <2>2. ASSUME NEW k \in 0..n + 1
        PROVE  g[k] = IF k = 0 THEN Start ELSE E(g[k - 1], k)
    <3>1. CASE k = n + 1
      <4>1. k # 0 /\ k - 1 = n /\ n \in 0..n + 1 /\ n # n + 1
        BY <3>1
      <4> QED
        BY <3>1, <4>1
    <3>2. CASE k = 0
      BY <3>2, <2>1
    <3>3. CASE k # 0 /\ k # n + 1
      <4>1. k \in 0..n /\ k - 1 \in 0..n + 1 /\ k - 1 # n + 1
        BY <3>3
      <4> QED
        BY <3>3, <4>1, <2>1
    <3> QED
      BY <3>1, <3>2, <3>3
  <2>3. g = G(g, n + 1)
    <3> HIDE DEF g
    <3>1. DOMAIN g = 0..n + 1 /\ g = [k \in DOMAIN g |-> g[k]]
      BY DEF g
    <3> QED
      BY <3>1, <2>2
  <2>4. n + 1 \in Nat
    OBVIOUS
  <2>5. \E h : h = G(h, n + 1)
    <3> HIDE DEF g
    <3> QED
      BY <2>3, Zenon
  <2> QED
    BY <2>4, <2>5
<1>4. Len(insns) \in T
  <2> HIDE DEF T
  <2> QED
    BY <1>2, <1>3, NatInduct DEF T
<1>5. state = G(state, Len(insns))
  BY <1>4
<1>6. state[0] = Start /\ \A k \in 1..Len(insns) : state[k] = E(state[k - 1], k)
  <2> HIDE DEF state
  <2> QED
    BY <1>5
<1> QED
  BY <1>1, <1>6 DEF E

(* A state is a pair of registers and stores.                              *)
IsState(s) == s = [regs |-> [r \in Regs |-> s.regs[r]], stores |-> s.stores]

(* One register of it changed.                                             *)
Put(s, d, v) ==
    [regs |-> IF d = 0 THEN s.regs ELSE [s.regs EXCEPT ![d] = v], stores |-> s.stores]

(* What Put changes and what it leaves.                                    *)
LEMMA PutFacts ==
    ASSUME NEW s, IsState(s), NEW d \in Regs, NEW v
    PROVE  /\ IsState(Put(s, d, v))
           /\ d # 0 => Put(s, d, v).regs[d] = v
           /\ \A r \in Regs : r # d => Put(s, d, v).regs[r] = s.regs[r]
           /\ \A w : Put(Put(s, d, v), d, w) = Put(s, d, w)
<1> DEFINE R == s.regs
<1>1. R = [r \in Regs |-> R[r]] /\ s.stores = s.stores
  BY DEF IsState
<1> HIDE DEF R
<1>2. [R EXCEPT ![d] = v] = [r \in Regs |-> IF r = d THEN v ELSE R[r]]
  BY <1>1
<1>3. Put(s, d, v) = [regs |-> IF d = 0 THEN R ELSE [R EXCEPT ![d] = v], stores |-> s.stores]
  BY Zenon DEF Put, R
<1>4. Put(s, d, v).regs = IF d = 0 THEN R ELSE [R EXCEPT ![d] = v]
  BY <1>3
<1>5. Put(s, d, v).stores = s.stores
  BY <1>3
<1>6. \A r \in Regs : r # d => Put(s, d, v).regs[r] = R[r]
  BY <1>2, <1>4
<1>7. d # 0 => Put(s, d, v).regs[d] = v
  BY <1>2, <1>4
<1>8. Put(s, d, v).regs = [r \in Regs |-> Put(s, d, v).regs[r]]
  BY <1>1, <1>2, <1>4
<1>9. IsState(Put(s, d, v))
  BY <1>3, <1>4, <1>5, <1>8, Zenon DEF IsState
<1>10. ASSUME NEW w PROVE Put(Put(s, d, v), d, w) = Put(s, d, w)
  <2>1. [[R EXCEPT ![d] = v] EXCEPT ![d] = w] = [R EXCEPT ![d] = w]
    BY <1>1
  <2>2. Put(Put(s, d, v), d, w) =
            [regs |-> IF d = 0 THEN Put(s, d, v).regs ELSE [Put(s, d, v).regs EXCEPT ![d] = w],
             stores |-> Put(s, d, v).stores]
    BY Zenon DEF Put
  <2>3. Put(s, d, w) = [regs |-> IF d = 0 THEN R ELSE [R EXCEPT ![d] = w], stores |-> s.stores]
    BY Zenon DEF Put, R
  <2>4. CASE d = 0
    BY <2>2, <2>3, <2>4, <1>4, <1>5, Zenon
  <2>5. CASE d # 0
    BY <2>1, <2>2, <2>3, <2>5, <1>4, <1>5, Zenon
  <2> QED
    BY <2>4, <2>5
<1> QED
  BY <1>6, <1>7, <1>9, <1>10 DEF R

(* An instruction writes one register, and none if that is register 0.     *)
LEMMA ExecutedFacts ==
    ASSUME NEW s, IsState(s), NEW insn, insn.dst \in Regs, NEW patched
    PROVE  /\ IsState(Executed(s, insn, patched))
           /\ \A r \in Regs : r # insn.dst \/ r = 0 =>
                Executed(s, insn, patched).regs[r] = s.regs[r]
           /\ insn.opc # "ST_D" => Executed(s, insn, patched) =
                                    Put(s, insn.dst, Result(insn, s, patched))
<1> DEFINE v == Result(insn, s, patched)
           e == Executed(s, insn, patched)
           st == IF insn.opc = "ST_D"
                 THEN Append(s.stores, <<Away(s.regs[insn.src], insn.imm), s.regs[insn.dst]>>)
                 ELSE s.stores
           p == Put(s, insn.dst, v)
<1> DEFINE X == IF insn.dst = 0 THEN s.regs ELSE [s.regs EXCEPT ![insn.dst] = v]
<1>1. e = [regs |-> X, stores |-> st]
  BY Zenon DEF Executed
<1>2. p = [regs |-> X, stores |-> s.stores]
  BY Zenon DEF Put
<1>0. insn.opc # "ST_D" => st = s.stores
  OBVIOUS
<1>6. insn.dst = 0 => X = s.regs
  OBVIOUS
<1> HIDE DEF X, e, p, st
<1>11. p.regs = X
  BY <1>2
<1>3. e = [regs |-> p.regs, stores |-> st]
  BY <1>1, <1>11, Zenon
<1>4. insn.opc # "ST_D" => e = p
  BY <1>0, <1>1, <1>2, Zenon
<1>5. IsState(p) /\ \A r \in Regs : r # insn.dst => p.regs[r] = s.regs[r]
  BY PutFacts DEF p
<1> HIDE DEF v
<1>7. p.regs = [r \in Regs |-> p.regs[r]]
  BY <1>5 DEF IsState
<1>8. e.regs = p.regs /\ e.stores = st
  BY <1>3
<1>9. IsState(e)
  BY <1>3, <1>7, <1>8, Zenon DEF IsState
<1>10. \A r \in Regs : r # insn.dst \/ r = 0 => e.regs[r] = s.regs[r]
  BY <1>5, <1>6, <1>8, <1>11
<1> QED
  BY <1>4, <1>9, <1>10 DEF e, p, v

(* An instruction as the list of a block has it.                           *)
CodeType == [id : Nat, opc : Opcodes, dst : Regs, src : Regs, imm : Int]

LEMMA CodeFacts ==
    ASSUME NEW insns \in Seq(CodeType)
    PROVE  /\ Len(insns) \in Nat /\ DOMAIN insns = 1..Len(insns)
           /\ \A k \in 1..Len(insns) :
                /\ insns[k] \in CodeType /\ insns[k].opc \in Opcodes /\ insns[k].id \in Nat
                /\ insns[k].dst \in Regs /\ insns[k].src \in Regs /\ insns[k].imm \in Int
<1>1. Len(insns) \in Nat /\ DOMAIN insns = 1..Len(insns)
  BY LenProperties
<1>2. \A k \in 1..Len(insns) : insns[k] \in CodeType
  BY ElementOfSeq
<1>3. \A c \in CodeType : /\ c.opc \in Opcodes /\ c.id \in Nat
                          /\ c.dst \in Regs /\ c.src \in Regs /\ c.imm \in Int
  BY DEF CodeType
<1> HIDE DEF CodeType
<1> QED
  BY <1>1, <1>2, <1>3

(* Every state of a run is one.                                            *)
LEMMA StatesAreStates ==
    ASSUME NEW insns \in Seq(CodeType), NEW rels, NEW placed
    PROVE  \A k \in 0..Len(insns) : IsState(States(insns, rels, placed)[k])
<1> DEFINE S == States(insns, rels, placed)
           T == {n \in Nat : n <= Len(insns) => IsState(S[n])}
<1>1. Len(insns) \in Nat /\ \A k \in 1..Len(insns) : insns[k].dst \in Regs
  BY CodeFacts
<1>2. S[0] = Start /\ \A k \in 1..Len(insns) : S[k] = Executed(S[k - 1], insns[k], Patched(rels, k - 1, placed))
  BY <1>1, StatesUnfold
<1>3. IsState(Start)
  BY DEF IsState, Start
<1> HIDE DEF S
<1>4. 0 \in T
  BY <1>2, <1>3
<1>5. ASSUME NEW n \in T PROVE n + 1 \in T
  <2>1. CASE n + 1 <= Len(insns)
    <3>1. n + 1 \in 1..Len(insns) /\ (n + 1) - 1 = n /\ IsState(S[n])
      BY <1>1, <2>1
    <3>2. S[n + 1] = Executed(S[n], insns[n + 1], Patched(rels, n, placed)) /\ insns[n + 1].dst \in Regs
      BY <1>1, <1>2, <3>1
    <3>3. IsState(S[n + 1])
      BY <3>1, <3>2, ExecutedFacts
    <3> QED
      BY <3>3
  <2> QED
    BY <1>1, <2>1
<1>6. T = Nat
  <2> HIDE DEF T
  <2> QED
    BY <1>4, <1>5, NatInduct DEF T
<1> QED
  BY <1>1, <1>6 DEF S

(* Two blocks that begin alike run alike.                                  *)
Begins(a, rels, b, others, placed, n) ==
    /\ n <= Len(a) /\ n <= Len(b)
    /\ \A k \in 1..n : b[k] = a[k]
    /\ \A k \in 1..n : Patched(others, k - 1, placed) = Patched(rels, k - 1, placed)

LEMMA SamePrefix ==
    ASSUME NEW a \in Seq(CodeType), NEW b \in Seq(CodeType), NEW rels, NEW others,
           NEW placed, NEW n \in Nat, Begins(a, rels, b, others, placed, n)
    PROVE  States(b, others, placed)[n] = States(a, rels, placed)[n]
<1> DEFINE S == States(a, rels, placed)
           R == States(b, others, placed)
           T == {m \in Nat : m <= n => R[m] = S[m]}
<1>0. /\ n <= Len(a) /\ n <= Len(b)
      /\ \A k \in 1..n : b[k] = a[k]
      /\ \A k \in 1..n : Patched(others, k - 1, placed) = Patched(rels, k - 1, placed)
  BY DEF Begins
<1>1. Len(a) \in Nat /\ Len(b) \in Nat
  BY CodeFacts
<1>2. S[0] = Start /\ \A k \in 1..Len(a) : S[k] = Executed(S[k - 1], a[k], Patched(rels, k - 1, placed))
  BY <1>1, StatesUnfold
<1>3. R[0] = Start /\ \A k \in 1..Len(b) : R[k] = Executed(R[k - 1], b[k], Patched(others, k - 1, placed))
  BY <1>1, StatesUnfold
<1> HIDE DEF S, R
<1>4. 0 \in T
  BY <1>2, <1>3
<1>5. ASSUME NEW m \in T PROVE m + 1 \in T
  <2>1. CASE m + 1 <= n
    <3>1. m + 1 \in 1..Len(a) /\ m + 1 \in 1..Len(b) /\ m + 1 \in 1..n /\ (m + 1) - 1 = m /\ R[m] = S[m]
      BY <1>0, <1>1, <2>1
    <3>2. S[m + 1] = Executed(S[m], a[m + 1], Patched(rels, m, placed))
      BY <1>2, <3>1
    <3>3. R[m + 1] = Executed(S[m], a[m + 1], Patched(others, m, placed))
      BY <1>0, <1>3, <3>1
    <3>4. Patched(others, m, placed) = Patched(rels, m, placed)
      BY <1>0, <3>1
    <3>5. R[m + 1] = S[m + 1]
      BY <3>2, <3>3, <3>4
    <3> QED
      BY <3>5
  <2> QED
    BY <2>1
<1>6. T = Nat
  <2> HIDE DEF T
  <2> QED
    BY <1>4, <1>5, NatInduct DEF T
<1> QED
  BY <1>6 DEF S, R

(* Two blocks that go on alike from the same state, the second d           *)
(* instructions nearer, end in the same state.                             *)
Alike(a, rels, b, others, placed, n, d, l) ==
    /\ n <= l /\ l <= Len(b) /\ l + d <= Len(a)
    /\ States(b, others, placed)[n] = States(a, rels, placed)[n + d]
    /\ \A k \in n + 1..l : b[k] = a[k + d]
    /\ \A k \in n + 1..l : Patched(others, k - 1, placed) = Patched(rels, (k + d) - 1, placed)

LEMMA SameSuffix ==
    ASSUME NEW a \in Seq(CodeType), NEW b \in Seq(CodeType), NEW rels, NEW others,
           NEW placed, NEW n \in Nat, NEW d \in Nat, NEW l \in Nat,
           Alike(a, rels, b, others, placed, n, d, l)
    PROVE  States(b, others, placed)[l] = States(a, rels, placed)[l + d]
<1> DEFINE S == States(a, rels, placed)
           R == States(b, others, placed)
           T == {m \in Nat : n + m <= l => R[n + m] = S[(n + m) + d]}
<1>0. /\ n <= l /\ l <= Len(b) /\ l + d <= Len(a)
      /\ States(b, others, placed)[n] = States(a, rels, placed)[n + d]
      /\ \A k \in n + 1..l : b[k] = a[k + d]
      /\ \A k \in n + 1..l : Patched(others, k - 1, placed) = Patched(rels, (k + d) - 1, placed)
  BY DEF Alike
<1>1. Len(a) \in Nat /\ Len(b) \in Nat
  BY CodeFacts
<1>2. \A k \in 1..Len(a) : S[k] = Executed(S[k - 1], a[k], Patched(rels, k - 1, placed))
  BY <1>1, StatesUnfold
<1>3. \A k \in 1..Len(b) : R[k] = Executed(R[k - 1], b[k], Patched(others, k - 1, placed))
  BY <1>1, StatesUnfold
<1> HIDE DEF S, R
<1>4. 0 \in T
  <2>1. R[n] = S[n + d]
    BY <1>0 DEF S, R
  <2>2. n + 0 = n
    OBVIOUS
  <2> QED
    BY <2>1, <2>2
<1>5. ASSUME NEW m \in T PROVE m + 1 \in T
  <2> DEFINE k == (n + m) + 1
  <2>1. CASE k <= l
    <3>1. /\ k \in 1..Len(b) /\ k - 1 = n + m /\ k + d \in 1..Len(a) /\ k \in n + 1..l
          /\ (k + d) - 1 = (n + m) + d /\ R[n + m] = S[(n + m) + d]
      BY <1>0, <1>1, <2>1
    <3> HIDE DEF k
    <3>2. S[k + d] = Executed(S[(n + m) + d], a[k + d], Patched(rels, (k + d) - 1, placed))
      BY <1>2, <3>1
    <3>3. R[k] = Executed(S[(n + m) + d], a[k + d], Patched(others, k - 1, placed))
      BY <1>0, <1>3, <3>1
    <3>4. Patched(others, k - 1, placed) = Patched(rels, (k + d) - 1, placed)
      BY <1>0, <3>1
    <3>5. R[k] = S[k + d]
      BY <3>2, <3>3, <3>4
    <3>6. n + (m + 1) = k
      BY DEF k
    <3> QED
      BY <3>5, <3>6
  <2>2. n + (m + 1) = k
    OBVIOUS
  <2> QED
    BY <2>1, <2>2
<1>6. T = Nat
  <2> HIDE DEF T
  <2> QED
    BY <1>4, <1>5, NatInduct DEF T
<1>7. l - n \in T /\ n + (l - n) = l
  <2>1. l - n \in Nat /\ n + (l - n) = l
    BY <1>0
  <2> HIDE DEF T
  <2> QED
    BY <2>1, <1>6
<1> QED
  BY <1>7 DEF S, R

-----------------------------------------------------------------------------
(* What the instructions of a load leave, where nothing is patched.        *)

(* The four instructions, with what they need known.                       *)
LEMMA Lu12iExecuted ==
    ASSUME NEW s, IsState(s), NEW insn \in CodeType, insn.opc = "LU12I_W"
    PROVE  Executed(s, insn, {}) = Put(s, insn.dst, Known(insn.imm * 2^OriBits))
<1>1. insn.dst \in Regs
  BY DEF CodeType
<1>2. Result(insn, s, {}) = Known(insn.imm * 2^OriBits)
  BY Zenon DEF Result
<1> QED
  BY <1>1, <1>2, ExecutedFacts

LEMMA OriExecuted ==
    ASSUME NEW s, IsState(s), NEW insn \in CodeType, insn.opc = "ORI",
           NEW x \in Int, s.regs[insn.src] = Known(x), x % 2^OriBits = 0
    PROVE  Executed(s, insn, {}) = Put(s, insn.dst, Known(x + insn.imm))
<1>1. insn.dst \in Regs
  BY DEF CodeType
<1>2. IsKnown(Known(x)) /\ Known(x).plus = x /\ Away(Known(x), insn.imm) = Known(x + insn.imm)
  BY DEF IsKnown, Known, Away
<1>3. Result(insn, s, {}) = Known(x + insn.imm)
  BY <1>2 DEF Result
<1> QED
  BY <1>1, <1>3, ExecutedFacts

LEMMA Lu32iExecuted ==
    ASSUME NEW s, IsState(s), NEW insn \in CodeType, insn.opc = "LU32I_D",
           NEW x \in Int, s.regs[insn.dst] = Known(x)
    PROVE  Executed(s, insn, {}) = Put(s, insn.dst, Known((x % 2^LowBits) + insn.imm * 2^LowBits))
<1>1. insn.dst \in Regs
  BY DEF CodeType
<1>2. IsKnown(Known(x)) /\ Known(x).plus = x
  BY DEF IsKnown, Known
<1>3. Result(insn, s, {}) = Known((x % 2^LowBits) + insn.imm * 2^LowBits)
  BY <1>2 DEF Result
<1> QED
  BY <1>1, <1>3, ExecutedFacts

LEMMA AddiExecuted ==
    ASSUME NEW s, IsState(s), NEW insn \in CodeType, insn.opc = "ADDI_D",
           NEW x \in Int, s.regs[insn.src] = Known(x)
    PROVE  Executed(s, insn, {}) = Put(s, insn.dst, Known(x + insn.imm))
<1>1. insn.dst \in Regs
  BY DEF CodeType
<1>2. Away(Known(x), insn.imm) = Known(x + insn.imm)
  BY DEF Known, Away
<1>3. Result(insn, s, {}) = Known(x + insn.imm)
  BY <1>2 DEF Result
<1> QED
  BY <1>1, <1>3, ExecutedFacts

(* A load of count instructions from position n on, as the code recognises *)
(* it.                                                                     *)
LoadAt(insns, n, count) ==
    /\ n + count - 1 <= Len(insns)
    /\ insns[n].opc = "LU12I_W"
    /\ insns[n + 1].opc = "ORI"
    /\ insns[n + 1].dst = insns[n].dst
    /\ insns[n + 1].src = insns[n].dst
    /\ count = 3 => /\ insns[n + 2].opc = "LU32I_D"
                    /\ insns[n + 2].dst = insns[n].dst

(* The immediates of ori are what decoding extracts.                       *)
OriUnsigned(insns) ==
    \A k \in 1..Len(insns) : insns[k].opc = "ORI" => insns[k].imm \in 0..2^OriBits - 1

(* What the code computes for a load is a number.                          *)
LEMMA LoadedIsInt ==
    ASSUME NEW insns \in Seq(CodeType), NEW n \in Nat \ {0}, NEW count \in {2, 3},
           LoadAt(insns, n, count)
    PROVE  Loaded(insns, n, count) \in Int
<1> DEFINE P == 2^OriBits
           Q == 2^LowBits
<1>1. P \in Nat /\ P > 0 /\ Q \in Nat /\ Q > 0
  BY Widths
<1> HIDE DEF P, Q
<1>2. insns[n].imm \in Int /\ insns[n + 1].imm \in Int /\ (count = 3 => insns[n + 2].imm \in Int)
  <2>1. Len(insns) \in Nat /\ \A k \in 1..Len(insns) : insns[k].imm \in Int
    BY CodeFacts
  <2>2. n \in 1..Len(insns) /\ n + 1 \in 1..Len(insns) /\ (count = 3 => n + 2 \in 1..Len(insns))
    BY <2>1 DEF LoadAt
  <2> QED
    BY <2>1, <2>2
<1>3. \A x, y \in Int : x * P + (y % P) \in Int
  BY <1>1, Remainders
<1>4. \A x, y \in Int : (x % Q) + y * Q \in Int
  BY <1>1, Remainders
<1> DEFINE low == insns[n].imm * P + (insns[n + 1].imm % P)
<1>5. low \in Int
  BY <1>2, <1>3
<1>6. Loaded(insns, n, count) = IF count = 3 THEN (low % Q) + insns[n + 2].imm * Q ELSE low
  BY Zenon DEF Loaded, Ori, Lu12i, Lu32i, P, Q
<1> HIDE DEF low
<1> QED
  BY <1>2, <1>4, <1>5, <1>6

Untouched(rels, placed, n, count) ==
    \A k \in n - 1..n + count - 2 : Patched(rels, k, placed) = {}

(* After a load that nothing has patched, its register holds the value the *)
(* code computes, and that is all that has changed.                        *)
LEMMA LoadExecuted ==
    ASSUME NEW insns \in Seq(CodeType), NEW rels, NEW placed,
           NEW n \in Nat \ {0}, NEW count \in {2, 3}, LoadAt(insns, n, count),
           OriUnsigned(insns), Untouched(rels, placed, n, count)
    PROVE  States(insns, rels, placed)[n + count - 1] =
                Put(States(insns, rels, placed)[n - 1], insns[n].dst,
                    Known(Loaded(insns, n, count)))
<1> DEFINE S == States(insns, rels, placed)
           P == 2^OriBits
           Q == 2^LowBits
           d == insns[n].dst
           x == insns[n].imm * P
           low == x + (insns[n + 1].imm % P)
           all == (low % Q) + insns[n + 2].imm * Q
<1>1. P \in Nat /\ P > 0 /\ Q \in Nat /\ Q > 0
  BY Widths
<1>2. /\ Len(insns) \in Nat /\ d \in Regs /\ insns[n].imm \in Int /\ insns[n + 1].imm \in Int
      /\ insns[n] \in CodeType /\ insns[n + 1] \in CodeType
      /\ count = 3 => insns[n + 2] \in CodeType
      /\ n \in 1..Len(insns) /\ n + 1 \in 1..Len(insns) /\ n - 1 \in 0..Len(insns)
      /\ count = 3 => n + 2 \in 1..Len(insns)
  <2>1. Len(insns) \in Nat
    BY CodeFacts
  <2>2. /\ n \in 1..Len(insns) /\ n + 1 \in 1..Len(insns) /\ n - 1 \in 0..Len(insns)
        /\ count = 3 => n + 2 \in 1..Len(insns)
    BY <2>1 DEF LoadAt
  <2> QED
    BY <2>1, <2>2, CodeFacts
<1>3. insns[n + 1].imm % P = insns[n + 1].imm
  <2> HIDE DEF P
  <2>1. insns[n + 1].imm \in 0..P - 1
    BY <1>2 DEF OriUnsigned, LoadAt, P
  <2> QED
    BY <2>1, <1>1, Remainders
<1>4. x \in Int /\ x % P = 0
  <2> HIDE DEF P
  <2>1. \A y \in Int : y * P \in Int /\ (y * P) % P = 0
    BY <1>1, Remainders
  <2> QED
    BY <2>1, <1>2
<1>5. Loaded(insns, n, count) = IF count = 3 THEN all ELSE low
  BY Zenon DEF Loaded, Ori, Lu12i, Lu32i
<1> HIDE DEF P, Q
<1>6. low \in Int
  BY <1>2, <1>3, <1>4
<1> HIDE DEF x
<1>7. /\ S[n] = Executed(S[n - 1], insns[n], {})
      /\ S[n + 1] = Executed(S[n], insns[n + 1], {})
      /\ count = 3 => S[n + 2] = Executed(S[n + 1], insns[n + 2], {})
  <2>1. \A k \in 1..Len(insns) : S[k] = Executed(S[k - 1], insns[k], Patched(rels, k - 1, placed))
    BY <1>2, StatesUnfold
  <2> HIDE DEF S
  <2>2. /\ n - 1 \in n - 1..n + count - 2 /\ (n + 1) - 1 = n /\ n \in n - 1..n + count - 2
        /\ count = 3 => (n + 2) - 1 = n + 1 /\ n + 1 \in n - 1..n + count - 2
    OBVIOUS
  <2>3. /\ Patched(rels, n - 1, placed) = {} /\ Patched(rels, n, placed) = {}
        /\ count = 3 => Patched(rels, n + 1, placed) = {}
    BY <2>2 DEF Untouched
  <2>4. S[n] = Executed(S[n - 1], insns[n], {})
    BY <2>1, <2>3, <1>2
  <2>5. S[n + 1] = Executed(S[n], insns[n + 1], {})
    BY <2>1, <2>2, <2>3, <1>2
  <2>6. count = 3 => S[n + 2] = Executed(S[n + 1], insns[n + 2], {})
    BY <2>1, <2>2, <2>3, <1>2
  <2> QED
    BY <2>4, <2>5, <2>6
<1>8. IsState(S[n - 1])
  BY <1>2, StatesAreStates
<1> HIDE DEF S, low, all
<1>9. S[n] = Put(S[n - 1], d, Known(x)) /\ IsState(S[n])
  <2>1. insns[n].opc = "LU12I_W"
    BY DEF LoadAt
  <2>2. S[n] = Put(S[n - 1], d, Known(x))
    BY <2>1, <1>2, <1>7, <1>8, Lu12iExecuted DEF x, P
  <2> QED
    BY <2>2, <1>2, <1>8, PutFacts
<1>10. S[n + 1] = Put(S[n - 1], d, Known(low))
  <2>1. insns[n + 1].opc = "ORI" /\ insns[n + 1].dst = d /\ insns[n + 1].src = d
    BY DEF LoadAt
  <2>2. CASE d = 0
    <3>1. S[n + 1] = Put(S[n], d, Result(insns[n + 1], S[n], {}))
      BY <1>2, <1>7, <1>9, <2>1, ExecutedFacts
    <3>2. S[n + 1] = Put(S[n - 1], d, Result(insns[n + 1], S[n], {}))
      BY <3>1, <1>2, <1>8, <1>9, PutFacts
    <3> QED
      BY <3>2, <2>2 DEF Put
  <2>3. CASE d # 0
    <3>1. S[n].regs[d] = Known(x)
      BY <2>3, <1>2, <1>8, <1>9, PutFacts
    <3>2. x % 2^OriBits = 0
      BY <1>4 DEF P
    <3>3. S[n].regs[insns[n + 1].src] = Known(x)
      BY <3>1, <2>1
    <3>4. S[n + 1] = Put(S[n], d, Known(x + insns[n + 1].imm))
      <4> HIDE DEF d
      <4>1. Executed(S[n], insns[n + 1], {}) = Put(S[n], insns[n + 1].dst, Known(x + insns[n + 1].imm))
        BY <3>2, <3>3, <2>1, <1>2, <1>4, <1>9, OriExecuted
      <4> QED
        BY <4>1, <1>7, <2>1
    <3>5. x + insns[n + 1].imm = low
      BY <1>3 DEF low
    <3> QED
      BY <3>4, <3>5, <1>2, <1>8, <1>9, PutFacts
  <2> QED
    BY <2>2, <2>3
<1>11. IsState(S[n + 1])
  BY <1>2, <1>8, <1>10, PutFacts
<1>12. count = 3 => S[n + 2] = Put(S[n - 1], d, Known(all))
  <2> SUFFICES ASSUME count = 3 PROVE S[n + 2] = Put(S[n - 1], d, Known(all))
    OBVIOUS
  <2>1. insns[n + 2].opc = "LU32I_D" /\ insns[n + 2].dst = d
    BY DEF LoadAt
  <2>2. CASE d = 0
    <3>1. S[n + 2] = Put(S[n + 1], d, Result(insns[n + 2], S[n + 1], {}))
      BY <1>2, <1>7, <1>11, <2>1, ExecutedFacts
    <3>2. S[n + 2] = Put(S[n - 1], d, Result(insns[n + 2], S[n + 1], {}))
      BY <3>1, <1>2, <1>8, <1>10, PutFacts
    <3> QED
      BY <3>2, <2>2 DEF Put
  <2>3. CASE d # 0
    <3>1. S[n + 1].regs[d] = Known(low)
      BY <2>3, <1>2, <1>8, <1>10, PutFacts
    <3>2. S[n + 1].regs[insns[n + 2].dst] = Known(low)
      BY <3>1, <2>1
    <3>3. S[n + 2] = Put(S[n + 1], d, Known(all))
      <4>1. Executed(S[n + 1], insns[n + 2], {}) =
                Put(S[n + 1], insns[n + 2].dst, Known((low % 2^LowBits) + insns[n + 2].imm * 2^LowBits))
        BY <3>2, <2>1, <1>2, <1>6, <1>11, Lu32iExecuted
      <4> QED
        BY <4>1, <1>7, <2>1 DEF all, Q
    <3> QED
      BY <3>3, <1>2, <1>8, <1>10, PutFacts
  <2> QED
    BY <2>2, <2>3
<1>13. CASE count = 3
  BY <1>5, <1>12, <1>13 DEF S
<1>14. CASE count = 2
  <2>1. n + count - 1 = n + 1
    BY <1>14
  <2> QED
    BY <2>1, <1>5, <1>10, <1>14 DEF S
<1> QED
  BY <1>13, <1>14

-----------------------------------------------------------------------------
(* The block and what it was decoded from.                                 *)

ObjectType ==
    [insns    : Seq(CodeType),
     branches : [BranchClasses -> Seq(BranchType)],
     rels     : Seq(RelType),
     linked   : [Jumps -> BOOLEAN],
     target   : [Jumps -> Nat]]

(* The branches of the list are those of the file, under their identity.   *)
OwnBranches(t, blk) ==
    \A k \in 1..Len(t.insns) :
        /\ t.insns[k].id \in 1..Len(blk.code)
        /\ \A c \in BranchClasses :
            t.insns[k].opc = c <=> blk.code[t.insns[k].id].opc = c

IdsDistinct(t) ==
    \A k, m \in 1..Len(t.insns) : t.insns[k].id = t.insns[m].id => k = m

(* A valid relocation is over the instructions it was emitted for, of an   *)
(* invalid one an instruction is missing.                                  *)
RelOn(t, blk, j) ==
    /\ t.rels[j].slots = blk.rels[j].slots
    /\ t.rels[j].valid =>
        /\ t.rels[j].off + t.rels[j].slots <= Len(t.insns)
        /\ \A s \in 0..t.rels[j].slots - 1 :
            t.insns[t.rels[j].off + s + 1].id = blk.rels[j].off + s + 1
    /\ ~ t.rels[j].valid =>
        \E s \in 0..blk.rels[j].slots - 1 :
            \A k \in 1..Len(t.insns) : t.insns[k].id # blk.rels[j].off + s + 1

RelsOn(t, blk) ==
    /\ DOMAIN t.rels = DOMAIN blk.rels
    /\ \A j \in DOMAIN blk.rels : RelOn(t, blk, j)

JumpsOn(t, blk) ==
    /\ t.linked = blk.linked
    /\ \A d \in Jumps : t.linked[d] =>
        /\ t.target[d] < Len(t.insns)
        /\ t.insns[t.target[d] + 1].id = blk.target[d] + 1

BranchesOn(t, blk) ==
    \A c \in BranchClasses : \A e \in DOMAIN t.branches[c] :
        /\ t.branches[c][e].off < Len(t.insns)
        /\ t.insns[t.branches[c][e].off + 1].id = t.branches[c][e].insn
        /\ blk.code[t.branches[c][e].insn].opc = c

Fit(t, blk) ==
    /\ t \in ObjectType
    /\ OwnBranches(t, blk)
    /\ IdsDistinct(t)
    /\ RelsOn(t, blk)
    /\ JumpsOn(t, blk)
    /\ BranchesOn(t, blk)

LEMMA ObjectFacts ==
    ASSUME NEW t \in ObjectType
    PROVE  /\ t.insns \in Seq(CodeType) /\ Len(t.insns) \in Nat /\ DOMAIN t.insns = 1..Len(t.insns)
           /\ \A j \in DOMAIN t.rels :
                /\ t.rels[j] \in RelType /\ t.rels[j].off \in Nat
                /\ t.rels[j].slots \in Nat \ {0} /\ t.rels[j].valid \in BOOLEAN
           /\ \A d \in Jumps : t.target[d] \in Nat
           /\ \A c \in BranchClasses :
                /\ t.branches[c] \in Seq(BranchType)
                /\ \A e \in DOMAIN t.branches[c] :
                    t.branches[c][e] \in BranchType /\ t.branches[c][e].off \in Nat
<1>1. /\ t.insns \in Seq(CodeType) /\ t.rels \in Seq(RelType) /\ t.target \in [Jumps -> Nat]
      /\ t.branches \in [BranchClasses -> Seq(BranchType)]
  BY DEF ObjectType
<1>2. Len(t.insns) \in Nat /\ DOMAIN t.insns = 1..Len(t.insns)
  BY <1>1, LenProperties
<1>3. ASSUME NEW j \in DOMAIN t.rels
      PROVE  /\ t.rels[j] \in RelType /\ t.rels[j].off \in Nat
             /\ t.rels[j].slots \in Nat \ {0} /\ t.rels[j].valid \in BOOLEAN
  <2>1. t.rels[j] \in RelType
    BY <1>1, LenProperties, ElementOfSeq
  <2> QED
    BY <2>1, EntryTypes
<1>4. ASSUME NEW c \in BranchClasses, NEW e \in DOMAIN t.branches[c]
      PROVE  t.branches[c][e] \in BranchType /\ t.branches[c][e].off \in Nat
  <2>1. t.branches[c] \in Seq(BranchType)
    BY <1>1
  <2>2. t.branches[c][e] \in BranchType
    BY <2>1, LenProperties, ElementOfSeq
  <2> QED
    BY <2>2, EntryTypes
<1> QED
  BY <1>1, <1>2, <1>3, <1>4

(* No instruction is under two valid relocations.                          *)
LEMMA OneRelAt ==
    ASSUME NEW blk, WellFormedBlock(blk), NEW t, Fit(t, blk), NEW i \in Nat,
           NEW j \in DOMAIN t.rels, NEW k \in DOMAIN t.rels,
           ValidAt(t, j, i), ValidAt(t, k, i)
    PROVE  j = k
<1>1. t \in ObjectType /\ DOMAIN t.rels = DOMAIN blk.rels
      /\ RelOn(t, blk, j) /\ RelOn(t, blk, k)
  BY DEF Fit, RelsOn
<1>2. /\ t.rels[j].off \in Nat /\ t.rels[j].slots \in Nat \ {0}
      /\ t.rels[k].off \in Nat /\ t.rels[k].slots \in Nat \ {0}
      /\ Len(t.insns) \in Nat
  BY <1>1, ObjectFacts
<1>3. /\ t.rels[j].valid /\ t.rels[j].off <= i /\ i < t.rels[j].off + t.rels[j].slots
      /\ t.rels[k].valid /\ t.rels[k].off <= i /\ i < t.rels[k].off + t.rels[k].slots
  BY DEF ValidAt, Covers
<1>4. i + 1 \in 1..Len(t.insns)
  <2>1. t.rels[j].off + t.rels[j].slots <= Len(t.insns)
    BY <1>1, <1>3 DEF RelOn
  <2> QED
    BY <2>1, <1>2, <1>3
<1> DEFINE id == t.insns[i + 1].id
<1>5. id \in 1..Len(blk.code)
  BY <1>4 DEF Fit, OwnBranches
<1>6. blk.rels \in Seq(RelType) /\ Len(blk.code) \in Nat
  <2>1. blk.code \in Seq(MachineInsn) /\ blk.rels \in Seq(RelType)
    BY DEF WellFormedBlock, BlockType
  <2> QED
    BY <2>1, LenProperties
<1>7. /\ blk.rels[j].off \in Nat /\ blk.rels[k].off \in Nat
      /\ blk.rels[j].slots = t.rels[j].slots /\ blk.rels[k].slots = t.rels[k].slots
  <2>1. blk.rels[j] \in RelType /\ blk.rels[k] \in RelType
    BY <1>1, <1>6, LenProperties, ElementOfSeq
  <2> QED
    BY <2>1, <1>1, EntryTypes DEF RelOn
<1>8. id = blk.rels[j].off + (i - t.rels[j].off) + 1
  <2>1. i - t.rels[j].off \in 0..t.rels[j].slots - 1 /\ t.rels[j].off + (i - t.rels[j].off) + 1 = i + 1
    BY <1>2, <1>3, SMTT(30)
  <2> QED
    BY <2>1, <1>1, <1>3 DEF RelOn
<1>9. id = blk.rels[k].off + (i - t.rels[k].off) + 1
  <2>1. i - t.rels[k].off \in 0..t.rels[k].slots - 1 /\ t.rels[k].off + (i - t.rels[k].off) + 1 = i + 1
    BY <1>2, <1>3, SMTT(30)
  <2> QED
    BY <2>1, <1>1, <1>3 DEF RelOn
<1> HIDE DEF id
<1>10. id - 1 \in 0..Len(blk.code) - 1
  BY <1>5, <1>6
<1>13. \A o, f \in Nat : \A m \in Nat \ {0} : f <= i /\ i < f + m =>
            o <= (o + (i - f) + 1) - 1 /\ (o + (i - f) + 1) - 1 < o + m
  OBVIOUS
<1>11. Covers(blk.rels[j], id - 1)
  <2>1. blk.rels[j].off <= id - 1 /\ id - 1 < blk.rels[j].off + t.rels[j].slots
    BY <1>2, <1>3, <1>7, <1>8, <1>13
  <2> QED
    BY <2>1, <1>7, Zenon DEF Covers
<1>12. Covers(blk.rels[k], id - 1)
  <2>1. blk.rels[k].off <= id - 1 /\ id - 1 < blk.rels[k].off + t.rels[k].slots
    BY <1>2, <1>3, <1>7, <1>9, <1>13
  <2> QED
    BY <2>1, <1>7, Zenon DEF Covers
<1> QED
  BY <1>1, <1>10, <1>11, <1>12 DEF WellFormedBlock

(* What one deletion of an instruction that is no branch does to each      *)
(* field.                                                                  *)
Deleted(t, i, u) ==
    /\ u \in ObjectType
    /\ Len(u.insns) = Len(t.insns) - 1
    /\ \A k \in 1..Len(t.insns) - 1 :
        u.insns[k] = IF k <= i THEN t.insns[k] ELSE t.insns[k + 1]
    /\ DOMAIN u.rels = DOMAIN t.rels
    /\ \A j \in DOMAIN t.rels :
        /\ u.rels[j].slots = t.rels[j].slots
        /\ u.rels[j].valid <=> t.rels[j].valid /\ ~ ValidAt(t, j, i)
        /\ u.rels[j].valid =>
            u.rels[j].off = IF i < t.rels[j].off THEN t.rels[j].off - 1 ELSE t.rels[j].off
    /\ u.linked = t.linked
    /\ \A d \in Jumps :
        u.target[d] = IF t.linked[d] /\ t.target[d] > i THEN t.target[d] - 1 ELSE t.target[d]
    /\ \A c \in BranchClasses :
        /\ DOMAIN u.branches[c] = DOMAIN t.branches[c]
        /\ \A e \in DOMAIN t.branches[c] :
            /\ u.branches[c][e].insn = t.branches[c][e].insn
            /\ u.branches[c][e].off = IF t.branches[c][e].off > i
                                      THEN t.branches[c][e].off - 1 ELSE t.branches[c][e].off

(* Deleting as the code does it is deleting in this sense.                 *)
LEMMA DeletionFields ==
    ASSUME NEW blk, WellFormedBlock(blk), NEW t, Fit(t, blk),
           NEW i \in 0..Len(t.insns) - 1, t.insns[i + 1].opc \notin BranchClasses,
           NEW u, u = DeleteIthInsnAlongWithRel(t, i + 1, i)
    PROVE  Deleted(t, i, u)
<1> DEFINE v == InvalidateRelAt(t, i)
<1>0. t \in ObjectType
  BY DEF Fit
<1>1. /\ t.insns \in Seq(CodeType) /\ Len(t.insns) \in Nat /\ i \in Nat
      /\ i + 1 \in 1..Len(t.insns)
      /\ \A j \in DOMAIN t.rels :
            /\ t.rels[j] \in RelType /\ t.rels[j].off \in Nat
            /\ t.rels[j].slots \in Nat \ {0} /\ t.rels[j].valid \in BOOLEAN
      /\ \A d \in Jumps : t.target[d] \in Nat
  BY <1>0, ObjectFacts
<1>2. /\ v.insns = t.insns /\ v.branches = t.branches /\ v.linked = t.linked /\ v.target = t.target
      /\ v.rels = [j \in DOMAIN t.rels |->
                    [t.rels[j] EXCEPT !.valid = @ /\ ~ FirstRelAt(t, j, i)]]
  <2> DEFINE R == [j \in DOMAIN t.rels |->
                    [t.rels[j] EXCEPT !.valid = @ /\ ~ FirstRelAt(t, j, i)]]
  <2>1. v = [t EXCEPT !.rels = R]
    BY Zenon DEF InvalidateRelAt
  <2> HIDE DEF R, v
  <2>2. /\ v.insns = t.insns /\ v.branches = t.branches /\ v.linked = t.linked /\ v.target = t.target
        /\ v.rels = R
    BY <2>1, <1>0 DEF ObjectType
  <2> QED
    BY <2>2 DEF R
<1>13. \E R : v = [t EXCEPT !.rels = R]
  BY Zenon DEF InvalidateRelAt
<1>3. u = RemoveInsn(v, i + 1, i)
  BY DEF DeleteIthInsnAlongWithRel
<1> HIDE DEF v
<1>4. /\ u.insns = RemoveAt(t.insns, i + 1)
      /\ u.branches = DropBranch(t.branches, t.insns[i + 1], i)
      /\ u.rels = RelsAfterRemove(v.rels, i)
      /\ u.linked = t.linked
      /\ u.target = [d \in Jumps |-> IF t.linked[d] /\ t.target[d] > i
                                     THEN t.target[d] - 1 ELSE t.target[d]]
  <2> DEFINE B == DropBranch(v.branches, v.insns[i + 1], i)
             N == RemoveAt(v.insns, i + 1)
             R == RelsAfterRemove(v.rels, i)
             G == [d \in Jumps |-> IF v.linked[d] /\ v.target[d] > i
                                   THEN v.target[d] - 1 ELSE v.target[d]]
  <2>1. u = [v EXCEPT !.insns = N, !.branches = B, !.rels = R, !.target = G]
    BY <1>3 DEF RemoveInsn
  <2>2. PICK R0 : v = [t EXCEPT !.rels = R0]
    BY <1>13
  <2> HIDE DEF B, N, R, G
  <2>3. /\ u.insns = N /\ u.branches = B /\ u.rels = R /\ u.linked = v.linked /\ u.target = G
    BY <2>1, <2>2, <1>0 DEF ObjectType
  <2> QED
    BY <2>3, <1>2 DEF B, N, R, G
<1>14. ASSUME NEW N \in Seq(CodeType), NEW B \in [BranchClasses -> Seq(BranchType)],
              NEW R \in Seq(RelType), NEW G \in [Jumps -> Nat], NEW R0
       PROVE  [[t EXCEPT !.rels = R0] EXCEPT !.insns = N, !.branches = B, !.rels = R, !.target = G]
                \in ObjectType
  BY <1>0 DEF ObjectType
<1>15. \E R0 : u = [[t EXCEPT !.rels = R0] EXCEPT !.insns = u.insns, !.branches = u.branches,
                                                !.rels = u.rels, !.target = u.target]
  <2> DEFINE B == DropBranch(v.branches, v.insns[i + 1], i)
             N == RemoveAt(v.insns, i + 1)
             R == RelsAfterRemove(v.rels, i)
             G == [d \in Jumps |-> IF v.linked[d] /\ v.target[d] > i
                                   THEN v.target[d] - 1 ELSE v.target[d]]
  <2>1. u = [v EXCEPT !.insns = N, !.branches = B, !.rels = R, !.target = G]
    BY <1>3 DEF RemoveInsn
  <2>2. PICK R0 : v = [t EXCEPT !.rels = R0]
    BY <1>13
  <2> HIDE DEF B, N, R, G
  <2>3. /\ u.insns = N /\ u.branches = B /\ u.rels = R /\ u.target = G
    BY <2>1, <2>2, <1>0 DEF ObjectType
  <2> QED
    BY <2>1, <2>2, <2>3, Zenon
<1>5. /\ u.insns \in Seq(CodeType)
      /\ Len(u.insns) = Len(t.insns) - 1
      /\ \A k \in 1..Len(t.insns) - 1 :
            u.insns[k] = IF k <= i THEN t.insns[k] ELSE t.insns[k + 1]
  <2>1. /\ RemoveAt(t.insns, i + 1) \in Seq(CodeType)
        /\ Len(RemoveAt(t.insns, i + 1)) = Len(t.insns) - 1
        /\ \A k \in 1..Len(t.insns) - 1 :
            RemoveAt(t.insns, i + 1)[k] = IF k < i + 1 THEN t.insns[k] ELSE t.insns[k + 1]
    BY <1>1, RemoveAtProperties
  <2>2. \A k \in 1..Len(t.insns) - 1 : k < i + 1 <=> k <= i
    BY <1>1
  <2> QED
    BY <1>4, <2>1, <2>2
<1>6. ASSUME NEW j \in DOMAIN t.rels
      PROVE  /\ u.rels[j] \in RelType
             /\ u.rels[j].slots = t.rels[j].slots
             /\ u.rels[j].valid <=> t.rels[j].valid /\ ~ ValidAt(t, j, i)
             /\ u.rels[j].valid =>
                u.rels[j].off = IF i < t.rels[j].off THEN t.rels[j].off - 1 ELSE t.rels[j].off
  <2> DEFINE r == t.rels[j]
             w == v.rels[j]
             still == r.valid /\ ~ FirstRelAt(t, j, i)
  <2>1. still \in BOOLEAN /\ (still <=> r.valid /\ ~ ValidAt(t, j, i))
    <3>1. ASSUME ValidAt(t, j, i) PROVE FirstRelAt(t, j, i)
      <4>1. \A k \in DOMAIN t.rels : ValidAt(t, k, i) => j = k
        BY <1>1, <3>1, OneRelAt
      <4>2. \A k \in DOMAIN t.rels : k < j => k # j
        <5>1. t.rels \in Seq(RelType)
          BY <1>0 DEF ObjectType
        <5>2. DOMAIN t.rels \subseteq Nat
          BY <5>1, LenProperties
        <5> QED
          BY <5>2
      <4> QED
        BY <3>1, <4>1, <4>2 DEF FirstRelAt
    <3> QED
      BY <3>1, <1>1 DEF FirstRelAt
  <2>2. w = [r EXCEPT !.valid = still]
    BY <1>2
  <2>3. r \in RelType /\ r.off \in Nat
    BY <1>1
  <2> HIDE DEF still, r
  <2>4. w \in RelType /\ w.off = r.off /\ w.slots = r.slots /\ w.valid = still
    BY <2>1, <2>2, <2>3, SMTT(30) DEF RelType
  <2>5. u.rels[j] = IF w.valid /\ i < w.off THEN [w EXCEPT !.off = @ - 1] ELSE w
    BY <1>2, <1>4 DEF RelsAfterRemove
  <2> HIDE DEF w
  <2>6. CASE w.valid /\ i < w.off
    <3>1. w.off - 1 \in Nat /\ u.rels[j] = [w EXCEPT !.off = w.off - 1]
      BY <2>3, <2>4, <2>5, <2>6, <1>1
    <3>2. /\ u.rels[j] \in RelType /\ u.rels[j].off = w.off - 1
          /\ u.rels[j].slots = w.slots /\ u.rels[j].valid = w.valid
      BY <3>1, <2>4 DEF RelType
    <3> QED
      BY <3>2, <2>1, <2>4, <2>6 DEF r
  <2>7. CASE ~ (w.valid /\ i < w.off)
    BY <2>1, <2>4, <2>5, <2>7 DEF r
  <2> QED
    BY <2>6, <2>7
<1>7. DOMAIN u.rels = DOMAIN t.rels /\ u.rels \in Seq(RelType)
  <2>1. t.rels \in Seq(RelType)
    BY <1>0 DEF ObjectType
  <2>2. Len(t.rels) \in Nat /\ DOMAIN t.rels = 1..Len(t.rels)
    BY <2>1, LenProperties
  <2>3. DOMAIN u.rels = DOMAIN t.rels /\ u.rels = [j \in DOMAIN t.rels |-> u.rels[j]]
    BY <1>2, <1>4 DEF RelsAfterRemove
  <2>4. u.rels \in [1..Len(t.rels) -> RelType]
    BY <2>2, <2>3, <1>6
  <2> QED
    BY <2>2, <2>3, <2>4, FcnIsSeq
<1>8. u.linked \in [Jumps -> BOOLEAN] /\ u.target \in [Jumps -> Nat]
  <2>1. t.linked \in [Jumps -> BOOLEAN]
    BY <1>0 DEF ObjectType
  <2>2. \A d \in Jumps : (IF t.linked[d] /\ t.target[d] > i THEN t.target[d] - 1 ELSE t.target[d]) \in Nat
    BY <1>1
  <2> QED
    BY <2>1, <2>2, <1>4
<1>9. \A d \in Jumps :
        u.target[d] = IF t.linked[d] /\ t.target[d] > i THEN t.target[d] - 1 ELSE t.target[d]
  BY <1>4
<1>10. ASSUME NEW c \in BranchClasses
       PROVE  /\ u.branches[c] \in Seq(BranchType)
              /\ DOMAIN u.branches[c] = DOMAIN t.branches[c]
              /\ \A e \in DOMAIN t.branches[c] :
                    /\ u.branches[c][e].insn = t.branches[c][e].insn
                    /\ u.branches[c][e].off = IF t.branches[c][e].off > i
                                              THEN t.branches[c][e].off - 1
                                              ELSE t.branches[c][e].off
  <2> DEFINE b == t.branches[c]
  <2>1. b \in Seq(BranchType) /\ t.insns[i + 1].opc # c
    BY <1>0 DEF ObjectType
  <2>2. u.branches[c] = ShiftDown(b, i)
    BY <2>1, <1>4 DEF DropBranch
  <2> HIDE DEF b
  <2>3. u.branches[c] = [k \in DOMAIN b |-> Moved(b[k], i)]
    BY <2>2 DEF ShiftDown, Moved
  <2>4. Len(b) \in Nat /\ DOMAIN b = 1..Len(b) /\ \A k \in DOMAIN b : b[k] \in BranchType
    BY <2>1, LenProperties, ElementOfSeq
  <2>5. \A k \in DOMAIN b : /\ b[k].off \in Nat /\ Moved(b[k], i).insn = b[k].insn
                            /\ Moved(b[k], i).off = IF b[k].off > i THEN b[k].off - 1 ELSE b[k].off
    BY <2>4, <1>1, MovedFacts
  <2>6. \A k \in DOMAIN b : Moved(b[k], i) \in BranchType
    <3> SUFFICES ASSUME NEW k \in DOMAIN b PROVE Moved(b[k], i) \in BranchType
      OBVIOUS
    <3>1. b[k] \in BranchType
      BY <2>4
    <3>2. \A x \in BranchType : x.off \in Nat /\ Moved(x, i) \in BranchType
      <4> SUFFICES ASSUME NEW x \in BranchType PROVE x.off \in Nat /\ Moved(x, i) \in BranchType
        OBVIOUS
      <4>1. x.off \in Nat /\ (IF x.off > i THEN x.off - 1 ELSE x.off) \in Nat
        BY <1>1 DEF BranchType
      <4>2. Moved(x, i) = [x EXCEPT !.off = IF x.off > i THEN x.off - 1 ELSE x.off]
        BY DEF Moved
      <4> QED
        BY <4>1, <4>2, EntryTypes
    <3> QED
      BY <3>1, <3>2
  <2>7. u.branches[c] \in [1..Len(b) -> BranchType]
    BY <2>3, <2>4, <2>6
  <2> QED
    BY <2>3, <2>4, <2>5, <2>7, FcnIsSeq DEF b
<1>11. u.branches \in [BranchClasses -> Seq(BranchType)]
  <2>1. u.branches = [c \in BranchClasses |-> u.branches[c]]
    BY <1>4 DEF DropBranch
  <2> QED
    BY <2>1, <1>10
<1>12. u \in ObjectType
  <2>1. PICK R0 : u = [[t EXCEPT !.rels = R0] EXCEPT !.insns = u.insns, !.branches = u.branches,
                                                    !.rels = u.rels, !.target = u.target]
    BY <1>15
  <2>2. [[t EXCEPT !.rels = R0] EXCEPT !.insns = u.insns, !.branches = u.branches,
                                       !.rels = u.rels, !.target = u.target] \in ObjectType
    BY <1>5, <1>7, <1>8, <1>11, <1>14
  <2> QED
    BY <2>1, <2>2, Zenon
<1> QED
  BY <1>4, <1>5, <1>6, <1>7, <1>9, <1>10, <1>12 DEF Deleted

(* Where an instruction is found after the deletion, and where one was     *)
(* before it.                                                              *)
LEMMA PlacesAfter ==
    ASSUME NEW t \in ObjectType, NEW i \in 0..Len(t.insns) - 1, NEW u, Deleted(t, i, u)
    PROVE  /\ \A k \in 1..Len(t.insns) : k <= i =>
                k \in 1..Len(u.insns) /\ u.insns[k] = t.insns[k]
           /\ \A k \in 1..Len(t.insns) : k > i + 1 =>
                k - 1 \in 1..Len(u.insns) /\ u.insns[k - 1] = t.insns[k]
           /\ \A k \in 1..Len(u.insns) : k <= i =>
                k \in 1..Len(t.insns) /\ u.insns[k] = t.insns[k]
           /\ \A k \in 1..Len(u.insns) : k > i =>
                k + 1 \in 1..Len(t.insns) /\ u.insns[k] = t.insns[k + 1]
<1>1. /\ Len(t.insns) \in Nat /\ i \in Nat /\ i < Len(t.insns)
      /\ Len(u.insns) = Len(t.insns) - 1
      /\ \A k \in 1..Len(t.insns) - 1 :
            u.insns[k] = IF k <= i THEN t.insns[k] ELSE t.insns[k + 1]
  BY ObjectFacts DEF Deleted
<1>2. ASSUME NEW k \in 1..Len(t.insns), k > i + 1
      PROVE  k - 1 \in 1..Len(u.insns) /\ u.insns[k - 1] = t.insns[k]
  <2>1. k - 1 \in 1..Len(t.insns) - 1 /\ ~ (k - 1 <= i) /\ (k - 1) + 1 = k
    BY <1>1, <1>2
  <2> QED
    BY <2>1, <1>1
<1>3. \A k \in 1..Len(t.insns) : k <= i => k \in 1..Len(u.insns) /\ u.insns[k] = t.insns[k]
  BY <1>1
<1>4. \A k \in 1..Len(u.insns) : k <= i => k \in 1..Len(t.insns) /\ u.insns[k] = t.insns[k]
  BY <1>1
<1>5. \A k \in 1..Len(u.insns) : k > i => k + 1 \in 1..Len(t.insns) /\ u.insns[k] = t.insns[k + 1]
  BY <1>1
<1> QED
  BY <1>2, <1>3, <1>4, <1>5

(* An instruction of the shorter list comes from the longer one, two from  *)
(* two, and none from the deleted place.                                   *)
LEMMA ComesFrom ==
    ASSUME NEW t \in ObjectType, NEW i \in 0..Len(t.insns) - 1, NEW u, Deleted(t, i, u)
    PROVE  \E g \in [1..Len(u.insns) -> 1..Len(t.insns)] :
                /\ \A k \in 1..Len(u.insns) : u.insns[k] = t.insns[g[k]] /\ g[k] # i + 1
                /\ \A k, m \in 1..Len(u.insns) : g[k] = g[m] => k = m
<1> DEFINE g == [k \in 1..Len(u.insns) |-> IF k <= i THEN k ELSE k + 1]
<1>1. Len(t.insns) \in Nat /\ i \in Nat /\ Len(u.insns) = Len(t.insns) - 1
  BY ObjectFacts DEF Deleted
<1>2. \A k \in 1..Len(u.insns) : g[k] \in 1..Len(t.insns) /\ g[k] # i + 1 /\ u.insns[k] = t.insns[g[k]]
  <2> SUFFICES ASSUME NEW k \in 1..Len(u.insns)
               PROVE  g[k] \in 1..Len(t.insns) /\ g[k] # i + 1 /\ u.insns[k] = t.insns[g[k]]
    OBVIOUS
  <2>1. g[k] = IF k <= i THEN k ELSE k + 1
    OBVIOUS
  <2>2. /\ k <= i => k \in 1..Len(t.insns) /\ u.insns[k] = t.insns[k]
        /\ k > i => k + 1 \in 1..Len(t.insns) /\ u.insns[k] = t.insns[k + 1]
    BY PlacesAfter
  <2> HIDE DEF g
  <2> QED
    BY <2>1, <2>2, <1>1
<1>3. \A k, m \in 1..Len(u.insns) : g[k] = g[m] => k = m
  BY <1>1
<1> QED
  BY <1>2, <1>3

LEMMA DeletedFits ==
    ASSUME NEW blk, WellFormedBlock(blk), NEW t, Fit(t, blk),
           NEW i \in 0..Len(t.insns) - 1, t.insns[i + 1].opc \notin BranchClasses,
           NEW u, Deleted(t, i, u)
    PROVE  Fit(u, blk)
<1>0. t \in ObjectType /\ u \in ObjectType
  BY DEF Fit, Deleted
<1>1. /\ Len(t.insns) \in Nat /\ i \in Nat /\ i < Len(t.insns) /\ i + 1 \in 1..Len(t.insns)
      /\ Len(u.insns) = Len(t.insns) - 1
      /\ \A j \in DOMAIN t.rels : t.rels[j].off \in Nat /\ t.rels[j].slots \in Nat \ {0}
      /\ \A d \in Jumps : t.target[d] \in Nat
      /\ \A c \in BranchClasses : \A e \in DOMAIN t.branches[c] : t.branches[c][e].off \in Nat
  BY <1>0, ObjectFacts DEF Deleted
<1>2. PICK g \in [1..Len(u.insns) -> 1..Len(t.insns)] :
            /\ \A k \in 1..Len(u.insns) : u.insns[k] = t.insns[g[k]] /\ g[k] # i + 1
            /\ \A k, m \in 1..Len(u.insns) : g[k] = g[m] => k = m
  BY <1>0, ComesFrom
<1>8. \A k \in 1..Len(u.insns) :
        g[k] \in 1..Len(t.insns) /\ g[k] # i + 1 /\ u.insns[k] = t.insns[g[k]]
  BY <1>2
<1>9. \A x, y \in 1..Len(t.insns) : t.insns[x].id = t.insns[y].id => x = y
  BY DEF Fit, IdsDistinct
<1>3. OwnBranches(u, blk)
  <2>1. \A x \in 1..Len(t.insns) :
            /\ t.insns[x].id \in 1..Len(blk.code)
            /\ \A c \in BranchClasses : t.insns[x].opc = c <=> blk.code[t.insns[x].id].opc = c
    BY DEF Fit, OwnBranches
  <2> SUFFICES ASSUME NEW k \in 1..Len(u.insns)
               PROVE  /\ u.insns[k].id \in 1..Len(blk.code)
                      /\ \A c \in BranchClasses :
                            u.insns[k].opc = c <=> blk.code[u.insns[k].id].opc = c
    BY DEF OwnBranches
  <2>2. PICK x \in 1..Len(t.insns) : u.insns[k] = t.insns[x]
    BY <1>8
  <2> QED
    BY <2>1, <2>2
<1>4. IdsDistinct(u)
  <2> SUFFICES ASSUME NEW k \in 1..Len(u.insns), NEW m \in 1..Len(u.insns),
                      u.insns[k].id = u.insns[m].id
               PROVE  k = m
    BY DEF IdsDistinct
  <2>1. t.insns[g[k]].id = t.insns[g[m]].id
    BY <1>8
  <2>2. g[k] = g[m]
    BY <2>1, <1>8, <1>9, Zenon
  <2> QED
    BY <2>2, <1>2
<1>5. RelsOn(u, blk)
  <2>1. DOMAIN u.rels = DOMAIN blk.rels /\ DOMAIN t.rels = DOMAIN blk.rels
    BY DEF Deleted, Fit, RelsOn
  <2>2. SUFFICES ASSUME NEW j \in DOMAIN t.rels PROVE RelOn(u, blk, j)
    BY <2>1 DEF RelsOn
  <2> DEFINE f == t.rels[j].off
             n == t.rels[j].slots
             o == blk.rels[j].off
  <2>3. /\ u.rels[j].slots = n
        /\ u.rels[j].valid <=> t.rels[j].valid /\ ~ ValidAt(t, j, i)
        /\ u.rels[j].valid => u.rels[j].off = IF i < f THEN f - 1 ELSE f
    BY DEF Deleted
  <2>4. /\ n = blk.rels[j].slots
        /\ t.rels[j].valid => /\ f + n <= Len(t.insns)
                              /\ \A s \in 0..n - 1 : t.insns[f + s + 1].id = o + s + 1
        /\ ~ t.rels[j].valid => \E s \in 0..n - 1 : \A k \in 1..Len(t.insns) : t.insns[k].id # o + s + 1
    BY <2>1 DEF Fit, RelsOn, RelOn
  <2>5. f \in Nat /\ n \in Nat \ {0}
    BY <1>1
  <2>6. ValidAt(t, j, i) <=> t.rels[j].valid /\ f <= i /\ i < f + n
    BY DEF ValidAt, Covers
  <2> HIDE DEF f, n, o
  <2>7. u.rels[j].valid =>
            /\ u.rels[j].off + n <= Len(u.insns)
            /\ \A s \in 0..n - 1 : u.insns[u.rels[j].off + s + 1].id = o + s + 1
    <3> SUFFICES ASSUME u.rels[j].valid
                 PROVE  /\ u.rels[j].off + n <= Len(u.insns)
                        /\ \A s \in 0..n - 1 : u.insns[u.rels[j].off + s + 1].id = o + s + 1
      OBVIOUS
    <3>1. t.rels[j].valid /\ (i < f \/ f + n <= i) /\ f + n <= Len(t.insns)
      BY <2>3, <2>4, <2>5, <2>6, <1>1
    <3>2. CASE i < f
      <4>1. u.rels[j].off = f - 1 /\ (f - 1) + n <= Len(u.insns)
        BY <3>1, <3>2, <2>3, <2>5, <1>1
      <4>2. ASSUME NEW s \in 0..n - 1 PROVE u.insns[(f - 1) + s + 1].id = o + s + 1
        <5>1. f + s + 1 \in 1..Len(t.insns) /\ f + s + 1 > i + 1 /\ (f + s + 1) - 1 = (f - 1) + s + 1
          <6>1. f \in Nat /\ n \in Nat /\ i \in Nat /\ Len(t.insns) \in Nat
            BY <2>5, <1>1
          <6> QED
            BY <6>1, <3>1, <3>2, SlotsBehind
        <5>2. u.insns[(f + s + 1) - 1] = t.insns[f + s + 1]
          <6> DEFINE r == f + s + 1
          <6>1. r \in 1..Len(t.insns) /\ r > i + 1
            BY <5>1
          <6> HIDE DEF r
          <6>2. u.insns[r - 1] = t.insns[r]
            BY <6>1, <1>0, PlacesAfter
          <6> QED
            BY <6>2 DEF r
        <5> QED
          BY <5>1, <5>2, <3>1, <2>4
      <4> QED
        BY <4>1, <4>2
    <3>3. CASE f + n <= i
      <4>1. u.rels[j].off = f /\ f + n <= Len(u.insns)
        BY <3>1, <3>3, <2>3, <2>5, <1>1
      <4>2. ASSUME NEW s \in 0..n - 1 PROVE u.insns[f + s + 1].id = o + s + 1
        <5>1. f + s + 1 \in 1..Len(t.insns) /\ f + s + 1 <= i
          BY <3>1, <3>3, <2>5, <1>1
        <5>2. u.insns[f + s + 1] = t.insns[f + s + 1]
          BY <5>1, <1>0, PlacesAfter
        <5> QED
          BY <5>2, <3>1, <2>4
      <4> QED
        BY <4>1, <4>2
    <3> QED
      BY <3>1, <3>2, <3>3
  <2>8. ~ u.rels[j].valid =>
            \E s \in 0..n - 1 : \A k \in 1..Len(u.insns) : u.insns[k].id # o + s + 1
    <3>1. CASE ~ t.rels[j].valid
      <4>1. PICK s \in 0..n - 1 : \A x \in 1..Len(t.insns) : t.insns[x].id # o + s + 1
        BY <3>1, <2>4
      <4>2. \A k \in 1..Len(u.insns) : u.insns[k].id # o + s + 1
        BY <4>1, <1>8, Zenon
      <4> QED
        BY <4>2
    <3>2. CASE t.rels[j].valid /\ ValidAt(t, j, i)
      <4> DEFINE s == i - f
      <4>1. s \in 0..n - 1 /\ f + s + 1 = i + 1
        BY <3>2, <2>5, <2>6, <1>1
      <4>2. t.insns[i + 1].id = o + s + 1
        BY <4>1, <3>2, <2>4
      <4> HIDE DEF s
      <4>3. \A k \in 1..Len(u.insns) : u.insns[k].id # o + s + 1
        <5> SUFFICES ASSUME NEW k \in 1..Len(u.insns), u.insns[k].id = o + s + 1 PROVE FALSE
          OBVIOUS
        <5>1. t.insns[g[k]].id = t.insns[i + 1].id
          BY <4>2, <1>8
        <5>2. g[k] = i + 1
          BY <5>1, <1>1, <1>8, <1>9, Zenon
        <5> QED
          BY <5>2, <1>8
      <4> QED
        BY <4>1, <4>3
    <3> QED
      BY <3>1, <3>2, <2>3
  <2> QED
    BY <2>3, <2>4, <2>7, <2>8 DEF RelOn, n, o
<1>6. JumpsOn(u, blk)
  <2>1. u.linked = blk.linked /\ u.linked = t.linked
    BY DEF Deleted, Fit, JumpsOn
  <2>2. ASSUME NEW d \in Jumps, t.linked[d]
        PROVE  u.target[d] < Len(u.insns) /\ u.insns[u.target[d] + 1].id = blk.target[d] + 1
    <3> DEFINE x == t.target[d]
    <3>1. x \in Nat /\ x < Len(t.insns) /\ t.insns[x + 1].id = blk.target[d] + 1
      BY <1>1, <2>2 DEF Fit, JumpsOn
    <3>2. u.target[d] = IF x > i THEN x - 1 ELSE x
      BY <2>2 DEF Deleted
    <3>3. blk.linked[d]
      BY <2>1, <2>2
    <3> HIDE DEF x
    <3>4. x # i
      <4> SUFFICES ASSUME x = i PROVE FALSE
        OBVIOUS
      <4>1. t.insns[i + 1].opc # "B" /\ t.insns[i + 1].id = blk.target[d] + 1
        BY <3>1 DEF BranchClasses
      <4>2. blk.code[t.insns[i + 1].id].opc # "B"
        BY <4>1, <1>1 DEF Fit, OwnBranches, BranchClasses
      <4>3. blk.code[blk.target[d] + 1].opc = "B"
        BY <3>3 DEF WellFormedBlock
      <4> QED
        BY <4>1, <4>2, <4>3
    <3>5. CASE x > i
      <4>1. x + 1 \in 1..Len(t.insns) /\ x + 1 > i + 1 /\ (x + 1) - 1 = (x - 1) + 1
            /\ x - 1 < Len(u.insns)
        BY <3>1, <3>5, <1>1
      <4>2. u.insns[(x + 1) - 1] = t.insns[x + 1]
        BY <4>1, <1>0, PlacesAfter
      <4> QED
        BY <4>1, <4>2, <3>1, <3>2, <3>5
    <3>6. CASE x < i
      <4>1. x + 1 \in 1..Len(t.insns) /\ x + 1 <= i /\ x < Len(u.insns) /\ ~ (x > i)
        BY <3>1, <3>6, <1>1
      <4>2. u.insns[x + 1] = t.insns[x + 1]
        BY <4>1, <1>0, PlacesAfter
      <4> QED
        BY <4>1, <4>2, <3>1, <3>2
    <3> QED
      BY <3>1, <3>4, <3>5, <3>6, <1>1
  <2> QED
    BY <2>1, <2>2 DEF JumpsOn
<1>7. BranchesOn(u, blk)
  <2> SUFFICES ASSUME NEW c \in BranchClasses, NEW e \in DOMAIN u.branches[c]
               PROVE  /\ u.branches[c][e].off < Len(u.insns)
                      /\ u.insns[u.branches[c][e].off + 1].id = u.branches[c][e].insn
                      /\ blk.code[u.branches[c][e].insn].opc = c
    BY DEF BranchesOn
  <2> DEFINE x == t.branches[c][e].off
             y == t.branches[c][e].insn
  <2>1. e \in DOMAIN t.branches[c]
    BY DEF Deleted
  <2>2. u.branches[c][e].insn = y /\ u.branches[c][e].off = IF x > i THEN x - 1 ELSE x
    BY <2>1 DEF Deleted
  <2>3. x \in Nat /\ x < Len(t.insns) /\ t.insns[x + 1].id = y /\ blk.code[y].opc = c
    BY <2>1, <1>1 DEF Fit, BranchesOn
  <2> HIDE DEF x, y
  <2>4. x # i
    BY <2>3, <1>1 DEF Fit, OwnBranches
  <2>5. CASE x > i
    <3>1. x + 1 \in 1..Len(t.insns) /\ x + 1 > i + 1 /\ (x + 1) - 1 = (x - 1) + 1
          /\ x - 1 < Len(u.insns)
      BY <2>3, <2>5, <1>1
    <3>2. u.insns[(x + 1) - 1] = t.insns[x + 1]
      BY <3>1, <1>0, PlacesAfter
    <3> QED
      BY <3>1, <3>2, <2>2, <2>3, <2>5
  <2>6. CASE x < i
    <3>1. x + 1 \in 1..Len(t.insns) /\ x + 1 <= i /\ x < Len(u.insns) /\ ~ (x > i)
      BY <2>3, <2>6, <1>1
    <3>2. u.insns[x + 1] = t.insns[x + 1]
      BY <3>1, <1>0, PlacesAfter
    <3> QED
      BY <3>1, <3>2, <2>2, <2>3
  <2> QED
    BY <2>3, <2>4, <2>5, <2>6, <1>1
<1> QED
  BY <1>0, <1>3, <1>4, <1>5, <1>6, <1>7 DEF Fit

(* Where no relocation is given up, each instruction is patched as before. *)
LEMMA PatchedAfter ==
    ASSUME NEW t \in ObjectType, NEW i \in Nat, NEW u, Deleted(t, i, u), ~ InRel(t, i),
           NEW m \in Nat, NEW placed
    PROVE  Patched(u.rels, m, placed) = Patched(t.rels, IF m < i THEN m ELSE m + 1, placed)
<1> DEFINE p == IF m < i THEN m ELSE m + 1
<1>1. DOMAIN u.rels = DOMAIN t.rels
  BY DEF Deleted
<1>2. ASSUME NEW j \in DOMAIN t.rels
      PROVE  u.rels[j].valid /\ Covers(u.rels[j], m) <=> t.rels[j].valid /\ Covers(t.rels[j], p)
  <2> DEFINE f == t.rels[j].off
             n == t.rels[j].slots
             x == u.rels[j].off
  <2>1. f \in Nat /\ n \in Nat \ {0}
    BY ObjectFacts
  <2>2. ~ ValidAt(t, j, i)
    BY DEF InRel
  <2>3. /\ u.rels[j].slots = n
        /\ u.rels[j].valid <=> t.rels[j].valid
        /\ u.rels[j].valid => x = IF i < f THEN f - 1 ELSE f
    BY <2>2 DEF Deleted
  <2>4. t.rels[j].valid => ~ (f <= i /\ i < f + n)
    BY <2>2 DEF ValidAt, Covers
  <2>5. Covers(u.rels[j], m) <=> x <= m /\ m < x + n
    BY <2>3 DEF Covers
  <2>6. Covers(t.rels[j], p) <=> f <= p /\ p < f + n
    BY DEF Covers
  <2> HIDE DEF f, n, x
  <2>7. t.rels[j].valid => (x <= m /\ m < x + n <=> f <= p /\ p < f + n)
    BY <2>1, <2>3, <2>4
  <2> QED
    BY <2>3, <2>5, <2>6, <2>7
<1> HIDE DEF p
<1>3. Patched(u.rels, m, placed) = Patched(t.rels, p, placed)
  BY <1>1, <1>2 DEF Patched
<1> QED
  BY <1>3 DEF p

(* A block v is t without d instructions behind position n, and the        *)
(* relocations that are left patch what they patched.                      *)
Shorter(t, n, d, v) ==
    /\ Len(v.insns) = Len(t.insns) - d
    /\ \A k \in 1..n : v.insns[k] = t.insns[k]
    /\ \A k \in n + 1..Len(v.insns) : v.insns[k] = t.insns[k + d]

SamePatches(t, n, d, v) ==
    \A m \in Nat : \A placed : Patched(v.rels, m, placed) =
                                Patched(t.rels, IF m < n THEN m ELSE m + d, placed)

LEMMA OneDeletion ==
    ASSUME NEW blk, WellFormedBlock(blk), NEW t, Fit(t, blk), NEW n \in Nat, n < Len(t.insns),
           t.insns[n + 1].opc \notin BranchClasses,
           NEW u, u = DeleteIthInsnAlongWithRel(t, n + 1, n)
    PROVE  /\ Fit(u, blk) /\ Shorter(t, n, 1, u)
           /\ ~ InRel(t, n) => SamePatches(t, n, 1, u)
           /\ \A k \in Nat : k > n /\ ~ InRel(t, n) /\ ~ InRel(t, k) => ~ InRel(u, k - 1)
<1>0. t \in ObjectType /\ Len(t.insns) \in Nat
  BY ObjectFacts DEF Fit
<1>1. n \in 0..Len(t.insns) - 1
  BY <1>0
<1>2. Deleted(t, n, u)
  BY <1>1, DeletionFields
<1>3. Fit(u, blk)
  BY <1>1, <1>2, DeletedFits
<1>4. Shorter(t, n, 1, u)
  <2>1. /\ Len(u.insns) = Len(t.insns) - 1
        /\ \A k \in 1..Len(t.insns) - 1 :
            u.insns[k] = IF k <= n THEN t.insns[k] ELSE t.insns[k + 1]
    BY <1>2 DEF Deleted
  <2>2. ASSUME NEW k \in 1..n PROVE u.insns[k] = t.insns[k]
    <3>1. k \in 1..Len(t.insns) - 1 /\ k <= n
      BY <1>0
    <3> QED
      BY <2>1, <3>1
  <2>3. ASSUME NEW k \in n + 1..Len(u.insns) PROVE u.insns[k] = t.insns[k + 1]
    <3>1. k \in 1..Len(t.insns) - 1 /\ ~ (k <= n)
      BY <1>0, <2>1
    <3> QED
      BY <2>1, <3>1
  <2> QED
    BY <2>1, <2>2, <2>3, Zenon DEF Shorter
<1>5. ~ InRel(t, n) => SamePatches(t, n, 1, u)
  <2> SUFFICES ASSUME ~ InRel(t, n), NEW m \in Nat, NEW placed
               PROVE  Patched(u.rels, m, placed) =
                        Patched(t.rels, IF m < n THEN m ELSE m + 1, placed)
    BY DEF SamePatches
  <2> QED
    BY <1>0, <1>2, PatchedAfter
<1>6. ASSUME NEW k \in Nat, k > n, ~ InRel(t, n), ~ InRel(t, k)
      PROVE  ~ InRel(u, k - 1)
  <2>1. k - 1 \in Nat /\ ~ (k - 1 < n) /\ (k - 1) + 1 = k
    BY <1>6
  <2>2. Patched(u.rels, k - 1, TRUE) = Patched(t.rels, k, TRUE)
    <3>1. Patched(u.rels, k - 1, TRUE) =
            Patched(t.rels, IF k - 1 < n THEN k - 1 ELSE (k - 1) + 1, TRUE)
      BY <1>5, <1>6, <2>1 DEF SamePatches
    <3> QED
      BY <3>1, <2>1
  <2>3. Patched(t.rels, k, TRUE) = {}
    BY <1>6 DEF Patched, InRel, ValidAt
  <2> QED
    BY <2>2, <2>3, Zenon DEF Patched, InRel, ValidAt
<1> QED
  BY <1>3, <1>4, <1>5, <1>6

LEMMA LoadDeleted ==
    ASSUME NEW blk, WellFormedBlock(blk), NEW t, Fit(t, blk), NEW n \in Nat \ {0},
           NEW count \in {2, 3}, LoadAt(t.insns, n, count),
           NEW v, v = DeleteRun(t, n, count - 1)
    PROVE  /\ Fit(v, blk)
           /\ Shorter(t, n, count - 1, v)
           /\ (\A k \in n..n + count - 2 : ~ InRel(t, k)) => SamePatches(t, n, count - 1, v)
<1>0. t \in ObjectType /\ Len(t.insns) \in Nat /\ count - 1 \in Nat
  BY ObjectFacts DEF Fit
<1>1. PICK f : Iterates(f, t, n, count - 1) /\ v = f[count - 1]
  BY <1>0, DeleteRunUnfold
<1>2. f[0] = t /\ \A k \in 1..count - 1 : f[k] = DeleteIthInsnAlongWithRel(f[k - 1], n + 1, n)
  BY <1>1 DEF Iterates
<1>3. f[1] = DeleteIthInsnAlongWithRel(t, n + 1, n)
  <2>1. 1 \in 1..count - 1 /\ 1 - 1 = 0
    OBVIOUS
  <2> QED
    BY <2>1, <1>2
<1>4. n < Len(t.insns) /\ t.insns[n + 1].opc \notin BranchClasses
  BY <1>0 DEF LoadAt, BranchClasses
<1> DEFINE u == f[1]
<1>5. /\ Fit(u, blk) /\ Shorter(t, n, 1, u)
      /\ ~ InRel(t, n) => SamePatches(t, n, 1, u)
      /\ \A k \in Nat : k > n /\ ~ InRel(t, n) /\ ~ InRel(t, k) => ~ InRel(u, k - 1)
  BY <1>3, <1>4, OneDeletion
<1>6. CASE count = 2
  <2>1. count - 1 = 1 /\ v = u /\ n \in n..n + count - 2
    BY <1>1, <1>6
  <2> HIDE DEF u
  <2> QED
    BY <2>1, <1>5
<1>7. CASE count = 3
  <2>1. count - 1 = 2 /\ v = f[2] /\ 2 \in 1..count - 1 /\ 2 - 1 = 1
    BY <1>1, <1>7
  <2>2. v = DeleteIthInsnAlongWithRel(u, n + 1, n)
    BY <2>1, <1>2
  <2> HIDE DEF u
  <2>3. u \in ObjectType /\ Len(u.insns) \in Nat
    BY <1>5, ObjectFacts DEF Fit
  <2>4. n + 2 <= Len(t.insns) /\ t.insns[n + 2].opc = "LU32I_D"
    BY <1>7, <1>0 DEF LoadAt
  <2>5. /\ Len(u.insns) = Len(t.insns) - 1
        /\ \A k \in 1..n : u.insns[k] = t.insns[k]
        /\ \A k \in n + 1..Len(u.insns) : u.insns[k] = t.insns[k + 1]
    BY <1>5 DEF Shorter
  <2>6. n < Len(u.insns) /\ u.insns[n + 1].opc \notin BranchClasses
    <3>1. n + 1 \in n + 1..Len(u.insns) /\ (n + 1) + 1 = n + 2 /\ n < Len(u.insns)
      BY <2>4, <2>5, <1>0
    <3>2. u.insns[n + 1] = t.insns[n + 2]
      BY <3>1, <2>5
    <3> QED
      BY <3>1, <3>2, <2>4 DEF BranchClasses
  <2>7. /\ Fit(v, blk) /\ Shorter(u, n, 1, v)
        /\ ~ InRel(u, n) => SamePatches(u, n, 1, v)
    BY <1>5, <2>2, <2>6, OneDeletion
  <2>8. Shorter(t, n, 2, v)
    <3>1. /\ Len(v.insns) = Len(u.insns) - 1
          /\ \A k \in 1..n : v.insns[k] = u.insns[k]
          /\ \A k \in n + 1..Len(v.insns) : v.insns[k] = u.insns[k + 1]
      BY <2>7 DEF Shorter
    <3>2. Len(v.insns) = Len(t.insns) - 2
      BY <3>1, <2>5, <1>0
    <3>3. \A k \in 1..n : v.insns[k] = t.insns[k]
      BY <3>1, <2>5
    <3>4. ASSUME NEW k \in n + 1..Len(v.insns) PROVE v.insns[k] = t.insns[k + 2]
      <4>1. k + 1 \in n + 1..Len(u.insns) /\ (k + 1) + 1 = k + 2
        BY <3>1, <2>3
      <4> QED
        BY <4>1, <3>1, <2>5
    <3> QED
      BY <3>2, <3>3, <3>4 DEF Shorter
  <2>9. ASSUME \A k \in n..n + count - 2 : ~ InRel(t, k) PROVE SamePatches(t, n, 2, v)
    <3>1. n \in n..n + count - 2 /\ n + 1 \in n..n + count - 2 /\ n + 1 > n /\ (n + 1) - 1 = n /\ n + 1 \in Nat
      BY <1>7
    <3>2. ~ InRel(t, n) /\ ~ InRel(t, n + 1)
      BY <2>9, <3>1
    <3>3. ~ InRel(u, n)
      BY <3>1, <3>2, <1>5
    <3>4. SamePatches(t, n, 1, u) /\ SamePatches(u, n, 1, v)
      BY <3>2, <3>3, <1>5, <2>7
    <3> SUFFICES ASSUME NEW m \in Nat, NEW placed
                 PROVE  Patched(v.rels, m, placed) =
                            Patched(t.rels, IF m < n THEN m ELSE m + 2, placed)
      BY DEF SamePatches
    <3> DEFINE k == IF m < n THEN m ELSE m + 1
    <3>5. Patched(v.rels, m, placed) = Patched(u.rels, k, placed)
      BY <3>4 DEF SamePatches
    <3>6. k \in Nat /\ (IF k < n THEN k ELSE k + 1) = (IF m < n THEN m ELSE m + 2)
      OBVIOUS
    <3> HIDE DEF k
    <3>7. Patched(u.rels, k, placed) = Patched(t.rels, IF k < n THEN k ELSE k + 1, placed)
      BY <3>4, <3>6 DEF SamePatches
    <3> QED
      BY <3>5, <3>6, <3>7
  <2> QED
    BY <2>1, <2>7, <2>8, <2>9
<1> QED
  BY <1>6, <1>7

(* The substitution of a load by an addi.d.                                *)
Substituted(t, n, count, src, diff, u) ==
    u = [DeleteRun(t, n, count - 1) EXCEPT
            !.insns[n] = [@ EXCEPT !.opc = "ADDI_D", !.src = src, !.imm = diff]]

Replaced(t, n, count, src, diff, u) ==
    /\ Len(u.insns) = Len(t.insns) - (count - 1)
    /\ \A k \in 1..n - 1 : u.insns[k] = t.insns[k]
    /\ /\ u.insns[n].opc = "ADDI_D" /\ u.insns[n].src = src /\ u.insns[n].imm = diff
       /\ u.insns[n].dst = t.insns[n].dst
    /\ \A k \in n + 1..Len(u.insns) : u.insns[k] = t.insns[k + (count - 1)]
    /\ (\A k \in n..n + count - 2 : ~ InRel(t, k)) => SamePatches(t, n, count - 1, u)

LEMMA LoadReplaced ==
    ASSUME NEW blk, WellFormedBlock(blk), NEW t, Fit(t, blk), NEW n \in Nat \ {0},
           NEW count \in {2, 3}, LoadAt(t.insns, n, count),
           NEW src \in Regs, NEW diff \in Int, NEW u,
           Substituted(t, n, count, src, diff, u)
    PROVE  Fit(u, blk) /\ Replaced(t, n, count, src, diff, u)
<1> DEFINE d == count - 1
           v == DeleteRun(t, n, d)
           new == [v.insns[n] EXCEPT !.opc = "ADDI_D", !.src = src, !.imm = diff]
<1>1. /\ Fit(v, blk) /\ Shorter(t, n, d, v)
      /\ (\A k \in n..n + count - 2 : ~ InRel(t, k)) => SamePatches(t, n, d, v)
  BY LoadDeleted
<1>2. u = [v EXCEPT !.insns = [v.insns EXCEPT ![n] = new]]
  BY Zenon DEF Substituted
<1>3. t \in ObjectType /\ Len(t.insns) \in Nat /\ t.insns[n].opc = "LU12I_W" /\ n + d <= Len(t.insns)
  <2>1. t \in ObjectType
    BY DEF Fit
  <2> QED
    BY <2>1, ObjectFacts DEF LoadAt
<1> HIDE DEF v
<1>4. v \in ObjectType
  BY <1>1 DEF Fit
<1>5. /\ v.insns \in Seq(CodeType) /\ Len(v.insns) \in Nat /\ DOMAIN v.insns = 1..Len(v.insns)
  BY <1>4, ObjectFacts
<1>6. /\ Len(v.insns) = Len(t.insns) - d /\ n \in 1..Len(v.insns)
      /\ \A k \in 1..n : v.insns[k] = t.insns[k]
      /\ \A k \in n + 1..Len(v.insns) : v.insns[k] = t.insns[k + d]
  BY <1>1, <1>3 DEF Shorter
<1>7. v.insns[n] \in CodeType /\ v.insns[n] = t.insns[n]
  BY <1>5, <1>6, CodeFacts
<1>8. /\ new \in CodeType /\ new.opc = "ADDI_D" /\ new.src = src /\ new.imm = diff
      /\ new.dst = v.insns[n].dst /\ new.id = v.insns[n].id
  BY <1>7 DEF CodeType, Opcodes
<1> HIDE DEF new
<1>9. /\ u.branches = v.branches /\ u.rels = v.rels /\ u.linked = v.linked /\ u.target = v.target
      /\ u.insns = [v.insns EXCEPT ![n] = new]
  BY <1>2, <1>4 DEF ObjectType
<1>10. /\ u.insns \in Seq(CodeType) /\ Len(u.insns) = Len(v.insns)
       /\ u.insns[n] = new
       /\ \A k \in 1..Len(v.insns) : k # n => u.insns[k] = v.insns[k]
  <2> DEFINE s == v.insns
             q == u.insns
  <2>1. s \in Seq(CodeType) /\ n \in 1..Len(s) /\ new \in CodeType /\ q = [s EXCEPT ![n] = new]
    BY <1>5, <1>6, <1>8, <1>9
  <2> HIDE DEF s, q
  <2>2. q \in Seq(CodeType) /\ Len(q) = Len(s)
    BY <2>1, ExceptSeq
  <2>3. q[n] = new /\ \A k \in 1..Len(s) : k # n => q[k] = s[k]
    BY <2>1, LenProperties
  <2> QED
    BY <2>2, <2>3 DEF s, q
<1>11. \A k \in 1..Len(v.insns) : u.insns[k].id = v.insns[k].id
  BY <1>8, <1>10
<1>12. \A k \in 1..Len(v.insns) : \A c \in BranchClasses : u.insns[k].opc = c <=> v.insns[k].opc = c
  BY <1>3, <1>7, <1>8, <1>10 DEF BranchClasses
<1>13. u \in ObjectType
  BY <1>2, <1>4, <1>9, <1>10 DEF ObjectType
<1>14. OwnBranches(u, blk)
  <2> SUFFICES ASSUME NEW k \in 1..Len(u.insns)
               PROVE  /\ u.insns[k].id \in 1..Len(blk.code)
                      /\ \A c \in BranchClasses :
                            u.insns[k].opc = c <=> blk.code[u.insns[k].id].opc = c
    BY DEF OwnBranches
  <2>1. k \in 1..Len(v.insns) /\ u.insns[k].id = v.insns[k].id
    BY <1>10, <1>11
  <2>2. \A c \in BranchClasses : u.insns[k].opc = c <=> v.insns[k].opc = c
    BY <2>1, <1>12
  <2>3. /\ v.insns[k].id \in 1..Len(blk.code)
        /\ \A c \in BranchClasses : v.insns[k].opc = c <=> blk.code[v.insns[k].id].opc = c
    BY <2>1, <1>1 DEF Fit, OwnBranches
  <2> QED
    BY <2>1, <2>2, <2>3
<1>15. IdsDistinct(u)
  <2>1. IdsDistinct(v)
    BY <1>1 DEF Fit
  <2> QED
    BY <2>1, <1>10, <1>11 DEF IdsDistinct
<1>16. RelsOn(u, blk)
  <2>1. RelsOn(v, blk)
    BY <1>1 DEF Fit
  <2>2. SUFFICES ASSUME NEW j \in DOMAIN blk.rels PROVE RelOn(u, blk, j)
    BY <2>1, <1>9 DEF RelsOn
  <2>3. RelOn(v, blk, j) /\ j \in DOMAIN v.rels
    BY <2>1 DEF RelsOn
  <2>4. v.rels[j].off \in Nat /\ v.rels[j].slots \in Nat \ {0}
    BY <1>4, <2>3, ObjectFacts
  <2>5. ASSUME v.rels[j].valid, NEW s \in 0..v.rels[j].slots - 1
        PROVE  u.insns[v.rels[j].off + s + 1].id = blk.rels[j].off + s + 1
    <3>1. v.rels[j].off + v.rels[j].slots <= Len(v.insns)
      BY <2>3, <2>5 DEF RelOn
    <3>2. v.rels[j].off + s + 1 \in 1..Len(v.insns)
      <4>1. \A f, m, z \in Nat : \A g \in Int : g \in 0..m - 1 /\ f + m <= z => f + g + 1 \in 1..z
        OBVIOUS
      <4>2. s \in Int /\ v.rels[j].slots \in Nat
        BY <2>4
      <4> QED
        BY <3>1, <2>4, <4>1, <4>2, <1>5
    <3>3. v.insns[v.rels[j].off + s + 1].id = blk.rels[j].off + s + 1
      BY <2>3, <2>5 DEF RelOn
    <3> QED
      BY <3>2, <3>3, <1>11
  <2>6. ASSUME ~ v.rels[j].valid
        PROVE  \E s \in 0..blk.rels[j].slots - 1 :
                    \A k \in 1..Len(u.insns) : u.insns[k].id # blk.rels[j].off + s + 1
    <3>1. PICK s \in 0..blk.rels[j].slots - 1 :
                \A k \in 1..Len(v.insns) : v.insns[k].id # blk.rels[j].off + s + 1
      BY <2>3, <2>6 DEF RelOn
    <3>2. \A k \in 1..Len(u.insns) : u.insns[k].id # blk.rels[j].off + s + 1
      BY <3>1, <1>10, <1>11
    <3> QED
      BY <3>2
  <2> QED
    BY <2>3, <2>5, <2>6, <1>9, <1>10 DEF RelOn
<1>17. JumpsOn(u, blk)
  <2>1. JumpsOn(v, blk) /\ \A d1 \in Jumps : v.target[d1] \in Nat
    BY <1>1, <1>4, ObjectFacts DEF Fit
  <2>2. \A x \in Nat : x < Len(v.insns) => x + 1 \in 1..Len(v.insns)
    BY <1>5
  <2>3. u.linked = blk.linked
    BY <2>1, <1>9 DEF JumpsOn
  <2>4. ASSUME NEW j \in Jumps, u.linked[j]
        PROVE  u.target[j] < Len(u.insns) /\ u.insns[u.target[j] + 1].id = blk.target[j] + 1
    <3>1. v.linked[j] /\ u.target[j] = v.target[j]
      BY <2>4, <1>9
    <3>2. v.target[j] < Len(v.insns) /\ v.insns[v.target[j] + 1].id = blk.target[j] + 1
      BY <2>1, <3>1 DEF JumpsOn
    <3>3. v.target[j] + 1 \in 1..Len(v.insns)
      BY <2>1, <2>2, <3>2
    <3> QED
      BY <3>1, <3>2, <3>3, <1>10, <1>11
  <2> QED
    BY <2>3, <2>4 DEF JumpsOn
<1>18. BranchesOn(u, blk)
  <2> SUFFICES ASSUME NEW c \in BranchClasses, NEW e \in DOMAIN u.branches[c]
               PROVE  /\ u.branches[c][e].off < Len(u.insns)
                      /\ u.insns[u.branches[c][e].off + 1].id = u.branches[c][e].insn
                      /\ blk.code[u.branches[c][e].insn].opc = c
    BY DEF BranchesOn
  <2> DEFINE x == v.branches[c][e].off
  <2>1. e \in DOMAIN v.branches[c] /\ u.branches[c][e] = v.branches[c][e]
    BY <1>9
  <2>2. /\ x < Len(v.insns) /\ v.insns[x + 1].id = v.branches[c][e].insn
        /\ blk.code[v.branches[c][e].insn].opc = c
    <3>1. BranchesOn(v, blk)
      BY <1>1 DEF Fit
    <3> QED
      BY <2>1, <3>1 DEF BranchesOn
  <2>3. x \in Nat
    BY <2>1, <1>4, ObjectFacts
  <2>4. u.branches[c][e].off = x
    BY <2>1
  <2> HIDE DEF x
  <2>5. x + 1 \in 1..Len(v.insns)
    BY <2>2, <2>3, <1>5
  <2> QED
    BY <2>1, <2>2, <2>4, <2>5, <1>10, <1>11
<1>19. Fit(u, blk)
  BY <1>13, <1>14, <1>15, <1>16, <1>17, <1>18 DEF Fit
<1>20. (\A k \in n..n + count - 2 : ~ InRel(t, k)) => SamePatches(t, n, d, u)
  BY <1>1, <1>9 DEF SamePatches
<1>21. \A k \in 1..n - 1 : u.insns[k] = t.insns[k]
  <2> SUFFICES ASSUME NEW k \in 1..n - 1 PROVE u.insns[k] = t.insns[k]
    OBVIOUS
  <2>1. k \in 1..Len(v.insns) /\ k # n /\ k \in 1..n
    BY <1>6, <1>5
  <2> QED
    BY <2>1, <1>6, <1>10
<1>22. \A k \in n + 1..Len(u.insns) : u.insns[k] = t.insns[k + d]
  <2> SUFFICES ASSUME NEW k \in n + 1..Len(u.insns) PROVE u.insns[k] = t.insns[k + d]
    OBVIOUS
  <2>1. k \in 1..Len(v.insns) /\ k # n /\ k \in n + 1..Len(v.insns)
    BY <1>10, <1>5
  <2> QED
    BY <2>1, <1>6, <1>10
<1>23. Len(u.insns) = Len(t.insns) - d
  BY <1>6, <1>10
<1>24. /\ u.insns[n].opc = "ADDI_D" /\ u.insns[n].src = src /\ u.insns[n].imm = diff
       /\ u.insns[n].dst = t.insns[n].dst
  BY <1>7, <1>8, <1>10
<1> QED
  BY <1>19, <1>20, <1>21, <1>22, <1>23, <1>24, Zenon DEF Replaced, d

-----------------------------------------------------------------------------
(* The straight part.                                                      *)

IsStraight(insns, l) ==
    /\ l \in 0..Len(insns)
    /\ \A k \in 1..l : insns[k].opc \notin BranchClasses
    /\ l < Len(insns) => insns[l + 1].opc \in BranchClasses

LEMMA Straight ==
    ASSUME NEW insns \in Seq(CodeType)
    PROVE  /\ IsStraight(insns, StraightLength(insns))
           /\ \A l : IsStraight(insns, l) => StraightLength(insns) = l
<1> DEFINE T == {k \in DOMAIN insns : insns[k].opc \in BranchClasses}
           first == CHOOSE k \in T : \A m \in T : k <= m
<1>1. Len(insns) \in Nat /\ DOMAIN insns = 1..Len(insns)
  BY CodeFacts
<1>2. StraightLength(insns) = IF T = {} THEN Len(insns) ELSE first - 1
  BY DEF StraightLength
<1>3. \A k \in 1..Len(insns) : insns[k].opc \in BranchClasses <=> k \in T
  BY <1>1
<1>4. T \subseteq 1..Len(insns)
  BY <1>1
<1>5. T # {} => first \in T /\ \A m \in T : first <= m
  <2> SUFFICES ASSUME T # {} PROVE first \in T /\ \A m \in T : first <= m
    OBVIOUS
  <2>1. T \in SUBSET Nat
    BY <1>4
  <2> HIDE DEF T
  <2>2. \E k \in T : \A m \in T : k <= m
    BY <2>1, LeastNatural
  <2> QED
    BY <2>2
<1> HIDE DEF T, first
<1>6. IsStraight(insns, StraightLength(insns))
  <2>1. CASE T = {}
    BY <2>1, <1>1, <1>2, <1>3 DEF IsStraight
  <2>2. CASE T # {}
    <3>1. first \in 1..Len(insns) /\ StraightLength(insns) = first - 1 /\ (first - 1) + 1 = first
      <4>1. first \in 1..Len(insns)
        BY <2>2, <1>4, <1>5
      <4>2. StraightLength(insns) = first - 1
        BY <2>2, <1>2
      <4> QED
        BY <4>1, <4>2, <1>1
    <3>2. \A k \in 1..first - 1 : insns[k].opc \notin BranchClasses
      <4> SUFFICES ASSUME NEW k \in 1..first - 1, k \in T PROVE FALSE
        BY <1>1, <1>3, <3>1
      <4> QED
        BY <2>2, <1>5, <3>1
    <3>3. insns[first].opc \in BranchClasses
      BY <2>2, <1>3, <1>5, <3>1
    <3> QED
      BY <3>1, <3>2, <3>3, <1>1 DEF IsStraight
  <2> QED
    BY <2>1, <2>2
<1>7. ASSUME NEW l, IsStraight(insns, l) PROVE StraightLength(insns) = l
  <2> DEFINE s == StraightLength(insns)
  <2>1. /\ s \in 0..Len(insns) /\ l \in 0..Len(insns)
        /\ \A k \in 1..s : insns[k].opc \notin BranchClasses
        /\ \A k \in 1..l : insns[k].opc \notin BranchClasses
        /\ s < Len(insns) => insns[s + 1].opc \in BranchClasses
        /\ l < Len(insns) => insns[l + 1].opc \in BranchClasses
    BY <1>6, <1>7 DEF IsStraight
  <2> HIDE DEF s
  <2>2. ~ (s < l)
    <3> SUFFICES ASSUME s < l PROVE FALSE
      OBVIOUS
    <3>1. s + 1 \in 1..l /\ s < Len(insns)
      BY <2>1, <1>1
    <3> QED
      BY <3>1, <2>1
  <2>3. ~ (l < s)
    <3> SUFFICES ASSUME l < s PROVE FALSE
      OBVIOUS
    <3>1. l + 1 \in 1..s /\ l < Len(insns)
      BY <2>1, <1>1
    <3> QED
      BY <3>1, <2>1
  <2> QED
    BY <2>1, <2>2, <2>3, <1>1 DEF s
<1> QED
  BY <1>6, <1>7

LEMMA SubSeqIsFcn ==
    ASSUME NEW S, NEW s \in Seq(S), NEW l \in 0..Len(s)
    PROVE  SubSeq(s, l + 1, Len(s)) = [k \in 1..Len(s) - l |-> s[l + k]]
<1>1. Len(s) \in Nat
  BY LenProperties
<1>2. PICK q : q = SubSeq(s, l + 1, Len(s))
  OBVIOUS
<1>3. /\ q \in Seq(S)
      /\ Len(q) = Len(s) - l
      /\ \A k \in 1..Len(s) - l : q[k] = s[l + k]
  <2> DEFINE f == l + 1
             e == Len(s)
  <2>1. f \in 1..e + 1 /\ e \in f - 1..e
    BY <1>1
  <2>2. \A k \in 1..e - l : f + k - 1 = l + k
    BY <1>1
  <2>3. (IF f <= e THEN e - f + 1 ELSE 0) = e - l
    BY <1>1
  <2> QED
    <3>1. \A k \in f..e : s[k] \in S
      BY <1>1, ElementOfSeq
    <3>2. q = SubSeq(s, f, e) /\ f \in Int /\ e \in Int
      BY <1>1, <1>2
    <3> HIDE DEF f, e
    <3>3. /\ q \in Seq(S)
          /\ Len(q) = IF f <= e THEN e - f + 1 ELSE 0
          /\ \A k \in 1..e - f + 1 : q[k] = s[f + k - 1]
      BY <3>1, <3>2, SubSeqProperties
    <3>4. e - f + 1 = e - l
      BY <1>1 DEF e, f
    <3> QED
      BY <2>2, <2>3, <3>3, <3>4 DEF e
<1>4. DOMAIN q = 1..Len(s) - l /\ q = [k \in DOMAIN q |-> q[k]]
  BY <1>1, <1>3, LenProperties
<1> QED
  BY <1>2, <1>3, <1>4

(* Block b goes on behind position n as block a does d instructions later. *)
GoesOn(a, rels, b, others, placed, n, d) ==
    /\ \A k \in n + 1..Len(b) : b[k] = a[k + d]
    /\ \A k \in Nat : k >= n => Patched(others, k, placed) = Patched(rels, k + d, placed)

(* Two blocks that go on alike where neither has had a branch have their   *)
(* first branch at the same instruction, and the same behind it.           *)
LEMMA SameBehind ==
    ASSUME NEW a \in Seq(CodeType), NEW b \in Seq(CodeType), NEW n \in Nat, NEW d \in Nat,
           n + d <= Len(a), Len(b) = Len(a) - d,
           \A k \in 1..n + d : a[k].opc \notin BranchClasses,
           \A k \in 1..n : b[k].opc \notin BranchClasses,
           \A k \in n + 1..Len(b) : b[k] = a[k + d]
    PROVE  /\ StraightLength(a) \in 0..Len(a) /\ n <= StraightLength(b)
           /\ StraightLength(b) \in 0..Len(b) /\ StraightLength(b) + d = StraightLength(a)
           /\ Behind(b) = Behind(a)
<1>1. Len(a) \in Nat /\ Len(b) \in Nat
  BY CodeFacts
<1>2. PICK la : la = StraightLength(a)
  OBVIOUS
<1>3. /\ la \in 0..Len(a)
      /\ \A k \in 1..la : a[k].opc \notin BranchClasses
      /\ la < Len(a) => a[la + 1].opc \in BranchClasses
  BY <1>2, Straight DEF IsStraight
<1>4. la >= n + d
  <2> SUFFICES ASSUME la < n + d PROVE FALSE
    BY <1>3
  <2>1. la + 1 \in 1..n + d /\ la < Len(a)
    BY <1>1, <1>3
  <2> QED
    BY <2>1, <1>3
<1>5. PICK lb : lb = la - d
  OBVIOUS
<1>6. lb \in Nat /\ n <= lb /\ lb <= Len(b) /\ lb + d = la /\ lb \in 0..Len(b)
  BY <1>1, <1>3, <1>4, <1>5
<1>12. Len(a) - la = Len(b) - lb
  BY <1>1, <1>3, <1>5
<1>7. StraightLength(b) = lb
  <2>1. \A k \in 1..lb : b[k].opc \notin BranchClasses
    <3> SUFFICES ASSUME NEW k \in 1..lb PROVE b[k].opc \notin BranchClasses
      OBVIOUS
    <3>1. CASE k <= n
      BY <3>1
    <3>2. CASE k > n
      <4>1. k \in n + 1..Len(b) /\ k + d \in 1..la
        BY <3>2, <1>1, <1>6
      <4>2. b[k] = a[k + d]
        BY <4>1
      <4> QED
        BY <4>1, <4>2, <1>3
    <3> QED
      BY <3>1, <3>2
  <2>2. lb < Len(b) => b[lb + 1].opc \in BranchClasses
    <3> SUFFICES ASSUME lb < Len(b) PROVE b[lb + 1].opc \in BranchClasses
      OBVIOUS
    <3>1. lb + 1 \in n + 1..Len(b) /\ (lb + 1) + d = la + 1 /\ la < Len(a)
      BY <1>1, <1>3, <1>6
    <3>2. b[lb + 1] = a[(lb + 1) + d]
      BY <3>1, Zenon
    <3> QED
      BY <3>1, <3>2, <1>3, Zenon
  <2>3. IsStraight(b, lb)
    BY <2>1, <2>2, <1>6 DEF IsStraight
  <2> QED
    BY <2>3, Straight
<1>8. Behind(b) = Behind(a)
  <2> DEFINE A == Behind(a)
             B == Behind(b)
  <2>1. A = SubSeq(a, la + 1, Len(a)) /\ B = SubSeq(b, lb + 1, Len(b))
    BY <1>2, <1>7 DEF Behind
  <2>2. /\ A = [k \in 1..Len(a) - la |-> a[la + k]]
        /\ B = [k \in 1..Len(b) - lb |-> b[lb + k]]
    <3>1. /\ SubSeq(a, la + 1, Len(a)) = [k \in 1..Len(a) - la |-> a[la + k]]
          /\ SubSeq(b, lb + 1, Len(b)) = [k \in 1..Len(b) - lb |-> b[lb + k]]
      BY <1>1, <1>3, <1>6, SubSeqIsFcn
    <3> QED
      BY <2>1, <3>1
  <2>3. Len(a) - la = Len(b) - lb
    BY <1>12
  <2>4. \A k \in 1..Len(a) - la : b[lb + k] = a[la + k]
    <3> SUFFICES ASSUME NEW k \in 1..Len(a) - la PROVE b[lb + k] = a[la + k]
      OBVIOUS
    <3>1. lb + k \in n + 1..Len(b) /\ (lb + k) + d = la + k
      BY <1>1, <1>3, <1>6
    <3>2. b[lb + k] = a[(lb + k) + d]
      BY <3>1, Zenon
    <3> QED
      BY <3>1, <3>2
  <2> HIDE DEF A, B
  <2> QED
    BY <2>2, <2>3, <2>4 DEF A, B
<1> QED
  BY <1>2, <1>3, <1>6, <1>7, <1>8

(* Two blocks that have, without a branch so far, come to the same state,  *)
(* and go on alike, the second d instructions nearer.                      *)
LEMMA SameRun ==
    ASSUME NEW a \in Seq(CodeType), NEW b \in Seq(CodeType), NEW rels, NEW others,
           NEW placed, NEW n \in Nat, NEW d \in Nat,
           n + d <= Len(a), Len(b) = Len(a) - d,
           \A k \in 1..n + d : a[k].opc \notin BranchClasses,
           \A k \in 1..n : b[k].opc \notin BranchClasses,
           States(b, others, placed)[n] = States(a, rels, placed)[n + d],
           GoesOn(a, rels, b, others, placed, n, d)
    PROVE  Run(b, others, placed) = Run(a, rels, placed) /\ Behind(b) = Behind(a)
<1>1. Len(a) \in Nat /\ Len(b) \in Nat
  BY CodeFacts
<1>2. PICK la : la = StraightLength(a)
  OBVIOUS
<1>3. PICK lb : lb = StraightLength(b)
  OBVIOUS
<1>4. \A k \in n + 1..Len(b) : b[k] = a[k + d]
  BY Zenon DEF GoesOn
<1>5. la \in 0..Len(a) /\ n <= lb /\ lb \in 0..Len(b) /\ lb + d = la /\ Behind(b) = Behind(a)
  BY <1>2, <1>3, <1>4, SameBehind
<1>6. lb \in Nat /\ lb <= Len(b)
  BY <1>1, <1>5
<1>7. Run(b, others, placed) = Run(a, rels, placed)
  <2>1. \A k \in n + 1..lb : b[k] = a[k + d]
    <3>1. \A k \in n + 1..lb : k \in n + 1..Len(b)
      BY <1>1, <1>6
    <3> QED
      BY <3>1, Zenon DEF GoesOn
  <2>2. \A k \in n + 1..lb : Patched(others, k - 1, placed) = Patched(rels, (k + d) - 1, placed)
    <3> SUFFICES ASSUME NEW k \in n + 1..lb
                 PROVE  Patched(others, k - 1, placed) = Patched(rels, (k + d) - 1, placed)
      OBVIOUS
    <3>1. k - 1 \in Nat /\ k - 1 >= n /\ (k - 1) + d = (k + d) - 1
      BY <1>5, <1>6
    <3>2. Patched(others, k - 1, placed) = Patched(rels, (k - 1) + d, placed)
      BY <3>1, Zenon DEF GoesOn
    <3> QED
      BY <3>1, <3>2
  <2>3. lb + d <= Len(a)
    BY <1>5
  <2>4. States(b, others, placed)[lb] = States(a, rels, placed)[lb + d]
    <3>1. lb \in Nat /\ n <= lb /\ lb <= Len(b)
      BY <1>5, <1>6
    <3>2. Alike(a, rels, b, others, placed, n, d, lb)
      BY <2>1, <2>2, <2>3, <3>1, Zenon DEF Alike
    <3> QED
      BY <3>1, <3>2, SameSuffix
  <2> QED
    BY <2>4, <1>2, <1>3, <1>5 DEF Run
<1> QED
  BY <1>5, <1>7

(* Nothing is patched where relocated constants are where they were, and   *)
(* else not what no valid relocation covers.                               *)
LEMMA Unpatched ==
    /\ \A rels, i : Patched(rels, i, FALSE) = {}
    /\ \A t, i, placed : ~ InRel(t, i) => Patched(t.rels, i, placed) = {}
BY DEF Patched, InRel, ValidAt

NoBranchUpTo(insns, n) == \A k \in 1..n : insns[k].opc \notin BranchClasses

(* The addi.d leaves what the load it replaces left, and from there on the *)
(* block goes on as before.                                                *)
LEMMA ReplacementRuns ==
    ASSUME NEW blk, WellFormedBlock(blk), NEW t, Fit(t, blk), OriUnsigned(t.insns),
           NEW n \in Nat \ {0}, NoBranchUpTo(t.insns, n - 1),
           NEW count \in {2, 3}, LoadAt(t.insns, n, count),
           NEW src \in Regs, NEW x \in Int, NEW u,
           Substituted(t, n, count, src, Loaded(t.insns, n, count) - x, u),
           NEW placed \in BOOLEAN,
           placed => \A k \in n - 1..n + count - 2 : ~ InRel(t, k),
           States(t.insns, t.rels, placed)[n - 1].regs[src] = Known(x)
    PROVE  /\ Run(u.insns, u.rels, placed) = Run(t.insns, t.rels, placed)
           /\ Behind(u.insns) = Behind(t.insns)
           /\ States(u.insns, u.rels, placed)[n] =
                Put(States(t.insns, t.rels, placed)[n - 1], t.insns[n].dst,
                    Known(Loaded(t.insns, n, count)))
<1> DEFINE a == t.insns
           b == u.insns
           d == count - 1
           all == Loaded(a, n, count)
           diff == all - x
           S == States(a, t.rels, placed)
           R == States(b, u.rels, placed)
<1>1. t \in ObjectType /\ a \in Seq(CodeType) /\ Len(a) \in Nat /\ d \in Nat
  <2>1. t \in ObjectType
    BY DEF Fit
  <2> QED
    BY <2>1, ObjectFacts
<1>2. all \in Int /\ diff \in Int /\ x + diff = all
  <2>1. all \in Int
    BY <1>1, LoadedIsInt
  <2> HIDE DEF all
  <2> QED
    BY <2>1
<1>3. /\ Fit(u, blk)
      /\ Len(b) = Len(a) - d
      /\ \A k \in 1..n - 1 : b[k] = a[k]
      /\ b[n].opc = "ADDI_D" /\ b[n].src = src /\ b[n].imm = diff /\ b[n].dst = a[n].dst
      /\ \A k \in n + 1..Len(b) : b[k] = a[k + d]
      /\ (\A k \in n..n + count - 2 : ~ InRel(t, k)) => SamePatches(t, n, d, u)
  <2>1. Substituted(t, n, count, src, diff, u)
    OBVIOUS
  <2> HIDE DEF diff, all
  <2>2. Fit(u, blk) /\ Replaced(t, n, count, src, diff, u)
    BY <2>1, <1>2, LoadReplaced
  <2> QED
    BY <2>2, Zenon DEF Replaced
<1>4. u \in ObjectType /\ b \in Seq(CodeType) /\ Len(b) \in Nat
  <2>1. u \in ObjectType
    BY <1>3 DEF Fit
  <2> QED
    BY <2>1, ObjectFacts
<1>5. /\ n \in 1..Len(b) /\ n + d <= Len(a) /\ n - 1 \in Nat /\ n + count - 1 = n + d
      /\ n - 1 <= Len(a) /\ n - 1 <= Len(b)
      /\ n \in 1..Len(a) /\ n + 1 \in 1..Len(a) /\ (count = 3 => n + 2 \in 1..Len(a))
  <2>1. n + count - 1 <= Len(a)
    BY DEF LoadAt
  <2> HIDE DEF a, b, S, R, all, diff
  <2>2. Len(b) = Len(a) - (count - 1)
    BY <1>3
  <2> QED
    BY <2>1, <2>2, <1>1, <1>4
<1>6. a[n].dst \in Regs /\ b[n] \in CodeType
  BY <1>1, <1>4, <1>5, CodeFacts
<1>7. \A k \in n - 1..n + count - 2 : Patched(t.rels, k, placed) = {}
  <2>1. CASE placed
    BY <2>1, Unpatched
  <2>2. CASE ~ placed
    <3>1. placed = FALSE
      BY <2>2
    <3> QED
      BY <3>1, Unpatched
  <2> QED
    BY <2>1, <2>2
<1>8. \A m \in Nat : Patched(u.rels, m, placed) = Patched(t.rels, IF m < n THEN m ELSE m + d, placed)
  <2>1. CASE placed
    <3>1. \A k \in n..n + count - 2 : ~ InRel(t, k)
      <4>1. \A k \in n..n + count - 2 : k \in n - 1..n + count - 2
        OBVIOUS
      <4> QED
        BY <2>1, <4>1
    <3>2. SamePatches(t, n, d, u)
      BY <1>3, <3>1
    <3> QED
      BY <3>2 DEF SamePatches
  <2>2. CASE ~ placed
    <3>1. placed = FALSE
      BY <2>2
    <3> QED
      BY <3>1, Unpatched
  <2> QED
    BY <2>1, <2>2
<1>9. S[n + d] = Put(S[n - 1], a[n].dst, Known(all))
  <2>1. States(a, t.rels, placed)[n + count - 1] = Put(S[n - 1], a[n].dst, Known(all))
    <3>1. Untouched(t.rels, placed, n, count)
      BY <1>7 DEF Untouched
    <3> QED
      BY <3>1, <1>1, LoadExecuted
  <2> QED
    BY <2>1, <1>5
<1>10. R[n - 1] = S[n - 1]
  <2>1. \A k \in 1..n - 1 : Patched(u.rels, k - 1, placed) = Patched(t.rels, k - 1, placed)
    <3> SUFFICES ASSUME NEW k \in 1..n - 1
                 PROVE  Patched(u.rels, k - 1, placed) = Patched(t.rels, k - 1, placed)
      OBVIOUS
    <3>1. k - 1 \in Nat /\ k - 1 < n
      OBVIOUS
    <3> QED
      BY <3>1, <1>8
  <2>2. Begins(a, t.rels, b, u.rels, placed, n - 1)
    BY <2>1, <1>3, <1>5, Zenon DEF Begins
  <2> QED
    BY <2>2, <1>1, <1>4, <1>5, SamePrefix
<1>11. R[n] = Put(S[n - 1], a[n].dst, Known(all))
  <2>1. R[n] = Executed(R[n - 1], b[n], Patched(u.rels, n - 1, placed))
    BY <1>4, <1>5, StatesUnfold
  <2>2. Patched(u.rels, n - 1, placed) = {}
    <3>1. n - 1 < n /\ n - 1 \in n - 1..n + count - 2
      OBVIOUS
    <3>2. Patched(u.rels, n - 1, placed) = Patched(t.rels, n - 1, placed)
      BY <3>1, <1>5, <1>8
    <3> QED
      BY <3>1, <3>2, <1>7
  <2>3. IsState(S[n - 1])
    <3>1. n - 1 \in 0..Len(a)
      BY <1>1, <1>5
    <3> QED
      BY <3>1, <1>1, StatesAreStates
  <2>4. S[n - 1].regs[b[n].src] = Known(x)
    BY <1>3
  <2> DEFINE s == S[n - 1]
  <2> HIDE DEF S, R, a, b, all, diff
  <2>5. Executed(s, b[n], {}) = Put(s, b[n].dst, Known(x + b[n].imm))
    BY <2>3, <2>4, <1>3, <1>6, AddiExecuted
  <2> QED
    BY <2>1, <2>2, <2>5, <1>2, <1>3, <1>10
<1>12. GoesOn(a, t.rels, b, u.rels, placed, n, d)
  <2>1. \A k \in Nat : k >= n => Patched(u.rels, k, placed) = Patched(t.rels, k + d, placed)
    <3> SUFFICES ASSUME NEW k \in Nat, k >= n
                 PROVE  Patched(u.rels, k, placed) = Patched(t.rels, k + d, placed)
      OBVIOUS
    <3>1. ~ (k < n)
      OBVIOUS
    <3> QED
      BY <3>1, <1>8
  <2> QED
    BY <2>1, <1>3, Zenon DEF GoesOn
<1>13. \A k \in 1..n + d : a[k].opc \notin BranchClasses
  <2> SUFFICES ASSUME NEW k \in 1..n + d PROVE a[k].opc \notin BranchClasses
    OBVIOUS
  <2>1. CASE k \in 1..n - 1
    BY <2>1 DEF NoBranchUpTo
  <2>2. CASE k = n
    BY <2>2 DEF LoadAt, BranchClasses
  <2>3. CASE k = n + 1
    BY <2>3 DEF LoadAt, BranchClasses
  <2>4. CASE k = n + 2 /\ count = 3
    BY <2>4 DEF LoadAt, BranchClasses
  <2> QED
    BY <2>1, <2>2, <2>3, <2>4
<1>14. \A k \in 1..n : b[k].opc \notin BranchClasses
  <2> SUFFICES ASSUME NEW k \in 1..n PROVE b[k].opc \notin BranchClasses
    OBVIOUS
  <2>1. CASE k \in 1..n - 1
    BY <2>1, <1>3 DEF NoBranchUpTo
  <2>2. CASE k = n
    BY <2>2, <1>3 DEF BranchClasses
  <2> QED
    BY <2>1, <2>2
<1>15. R[n] = S[n + d]
  BY <1>9, <1>11
<1>16. Run(b, u.rels, placed) = Run(a, t.rels, placed) /\ Behind(b) = Behind(a)
  <2> HIDE DEF a, b, d
  <2> QED
    BY <1>1, <1>3, <1>4, <1>5, <1>12, <1>13, <1>14, <1>15, SameRun
<1> QED
  BY <1>11, <1>16

-----------------------------------------------------------------------------
(* The block as it is decoded.                                             *)

(* The entries of br are for branches among the first m of insns, each     *)
(* class under its own, and a class without an entry has no branch there.  *)
EntriesUpTo(br, insns, m) ==
    /\ br \in [BranchClasses -> Seq(BranchType)]
    /\ \A c \in BranchClasses : \A e \in DOMAIN br[c] :
        /\ br[c][e].off < m
        /\ insns[br[c][e].off + 1].id = br[c][e].insn
        /\ insns[br[c][e].off + 1].opc = c
    /\ \A c \in BranchClasses : \A k \in 1..m : insns[k].opc = c => br[c] # <<>>

LEMMA EntriesGoOn ==
    ASSUME NEW insns \in Seq(CodeType), NEW m \in Nat, m + 1 \in 1..Len(insns),
           NEW br, EntriesUpTo(br, insns, m)
    PROVE  EntriesUpTo(AddBranch(br, insns[m + 1], m), insns, m + 1)
<1> DEFINE insn == insns[m + 1]
           new == [insn |-> insn.id, off |-> m]
           bs == AddBranch(br, insn, m)
<1>1. insn.id \in Nat /\ new \in BranchType /\ new.off = m /\ new.insn = insn.id
  <2>1. insn.id \in Nat
    BY CodeFacts
  <2> QED
    BY <2>1 DEF BranchType
<1> HIDE DEF new
<1>2. br \in [BranchClasses -> Seq(BranchType)]
  BY DEF EntriesUpTo
<1>3. \A c \in BranchClasses : bs[c] = IF insn.opc = c THEN Append(br[c], new) ELSE br[c]
  BY DEF AddBranch, new
<1>4. bs \in [BranchClasses -> Seq(BranchType)]
  <2>1. \A c \in BranchClasses : Append(br[c], new) \in Seq(BranchType)
    BY <1>1, <1>2, AppendProperties
  <2> QED
    BY <1>2, <2>1 DEF AddBranch, new
<1> HIDE DEF insn, bs
<1>5. ASSUME NEW c \in BranchClasses, NEW e \in DOMAIN bs[c]
      PROVE  /\ bs[c][e].off < m + 1
             /\ insns[bs[c][e].off + 1].id = bs[c][e].insn
             /\ insns[bs[c][e].off + 1].opc = c
  <2>1. /\ br[c] \in Seq(BranchType) /\ Len(br[c]) \in Nat /\ DOMAIN br[c] = 1..Len(br[c])
        /\ \A x \in 1..Len(br[c]) : br[c][x].off \in Nat
    <3>1. br[c] \in Seq(BranchType)
      BY <1>2
    <3>2. Len(br[c]) \in Nat /\ DOMAIN br[c] = 1..Len(br[c]) /\ \A x \in 1..Len(br[c]) : br[c][x] \in BranchType
      BY <3>1, LenProperties, ElementOfSeq
    <3> QED
      BY <3>1, <3>2, EntryTypes
  <2>2. ASSUME NEW x \in 1..Len(br[c])
        PROVE  /\ br[c][x].off < m + 1
               /\ insns[br[c][x].off + 1].id = br[c][x].insn
               /\ insns[br[c][x].off + 1].opc = c
    <3>1. /\ br[c][x].off < m
          /\ insns[br[c][x].off + 1].id = br[c][x].insn
          /\ insns[br[c][x].off + 1].opc = c
      BY <2>1, <2>2 DEF EntriesUpTo
    <3> QED
      BY <2>1, <3>1
  <2>3. CASE insn.opc # c
    BY <1>3, <2>1, <2>2, <2>3
  <2>4. CASE insn.opc = c
    <3>1. bs[c] = Append(br[c], new)
      BY <1>3, <2>4
    <3>2. /\ DOMAIN bs[c] = 1..Len(br[c]) + 1
          /\ \A x \in 1..Len(br[c]) : bs[c][x] = br[c][x]
          /\ bs[c][Len(br[c]) + 1] = new
      BY <3>1, <2>1, <1>1, AppendProperties, LenProperties
    <3>3. CASE e \in 1..Len(br[c])
      BY <2>2, <3>2, <3>3
    <3>4. CASE e = Len(br[c]) + 1
      BY <1>1, <2>4, <3>2, <3>4 DEF insn
    <3> QED
      BY <2>1, <3>2, <3>3, <3>4
  <2> QED
    BY <2>3, <2>4
<1>6. ASSUME NEW c \in BranchClasses, NEW k \in 1..m + 1, insns[k].opc = c
      PROVE  bs[c] # <<>>
  <2>1. br[c] \in Seq(BranchType)
    BY <1>2
  <2>2. Append(br[c], new) # <<>>
    BY <1>1, <2>1, AppendProperties
  <2>3. CASE insn.opc = c
    BY <1>3, <2>2, <2>3
  <2>4. CASE insn.opc # c
    <3>1. k \in 1..m
      BY <1>6, <2>4 DEF insn
    <3> QED
      BY <3>1, <1>3, <1>6, <2>4 DEF EntriesUpTo
  <2> QED
    BY <2>3, <2>4
<1> QED
  BY <1>4, <1>5, <1>6 DEF EntriesUpTo, bs, insn

LEMMA DecodedEntries ==
    ASSUME NEW insns \in Seq(CodeType)
    PROVE  EntriesUpTo(AddBranches([c \in BranchClasses |-> <<>>], insns, 0), insns, Len(insns))
<1> DEFINE none == [c \in BranchClasses |-> <<>>]
<1>1. Len(insns) \in Nat
  BY CodeFacts
<1>2. PICK f : /\ Adds(f, none, insns, 0)
               /\ AddBranches(none, insns, 0) = f[Len(insns)]
  BY <1>1, AddBranchesUnfold
<1>3. f[0] = none /\ \A k \in 1..Len(insns) : f[k] = AddBranch(f[k - 1], insns[k], 0 + k - 1)
  BY <1>1, <1>2 DEF Adds
<1>4. EntriesUpTo(none, insns, 0)
  <2>1. <<>> \in Seq(BranchType) /\ DOMAIN <<>> = {}
    OBVIOUS
  <2>2. none \in [BranchClasses -> Seq(BranchType)]
    BY <2>1
  <2>3. \A c \in BranchClasses : DOMAIN none[c] = {}
    BY <2>1
  <2> HIDE DEF none
  <2> QED
    BY <2>2, <2>3 DEF EntriesUpTo
<1> HIDE DEF none
<1> DEFINE T == {m \in Nat : m <= Len(insns) => EntriesUpTo(f[m], insns, m)}
<1>5. 0 \in T
  BY <1>3, <1>4
<1>6. ASSUME NEW m \in T PROVE m + 1 \in T
  <2>1. m + 1 \in Nat /\ m \in Nat
    OBVIOUS
  <2>2. CASE m + 1 <= Len(insns)
    <3>1. m + 1 \in 1..Len(insns) /\ (m + 1) - 1 = m /\ 0 + (m + 1) - 1 = m /\ EntriesUpTo(f[m], insns, m)
      BY <2>2, <1>1
    <3>2. f[m + 1] = AddBranch(f[m], insns[m + 1], m)
      BY <1>3, <3>1
    <3>3. EntriesUpTo(f[m + 1], insns, m + 1)
      BY <2>1, <3>1, <3>2, EntriesGoOn
    <3> QED
      BY <2>1, <3>3
  <2> QED
    BY <2>1, <2>2
<1>7. T = Nat
  <2> HIDE DEF T
  <2> QED
    BY <1>5, <1>6, NatInduct DEF T
<1> QED
  BY <1>1, <1>2, <1>7 DEF none

NoOther(insns) == \A k \in 1..Len(insns) : insns[k].opc # "OTHER"

LEMMA DecodedFits ==
    ASSUME NEW blk, WellFormedBlock(blk), NEW t, t = Decoded(blk)
    PROVE  /\ Fit(t, blk)
           /\ OriUnsigned(t.insns)
           /\ PipeholeOptAvailable(t) => NoOther(t.insns)
<1> DEFINE n == Len(blk.code)
           q == t.insns
           br == AddBranches([c \in BranchClasses |-> <<>>], q, 0)
<1>1. /\ blk.code \in Seq(MachineInsn) /\ blk.rels \in Seq(RelType)
      /\ blk.linked \in [Jumps -> BOOLEAN] /\ blk.target \in [Jumps -> Nat]
  BY DEF WellFormedBlock, BlockType
<1>2. n \in Nat /\ DOMAIN blk.code = 1..n /\ \A k \in 1..n : blk.code[k] \in MachineInsn
  BY <1>1, LenProperties, ElementOfSeq
<1>3. /\ q = [k \in 1..n |-> [id  |-> k, opc |-> blk.code[k].opc, dst |-> blk.code[k].dst,
                              src |-> blk.code[k].src, imm |-> blk.code[k].imm]]
      /\ t = [insns |-> q, branches |-> br, rels |-> blk.rels,
              linked |-> blk.linked, target |-> blk.target]
  BY <1>2 DEF Decoded
<1> HIDE DEF n, br, q
<1>4. /\ t.branches = br /\ t.rels = blk.rels /\ t.linked = blk.linked /\ t.target = blk.target
      /\ t.insns = q
  BY <1>3
<1>5. \A k \in 1..n : q[k] \in CodeType /\ q[k].id = k /\ q[k].opc = blk.code[k].opc
                        /\ q[k].imm = blk.code[k].imm
  BY <1>2, <1>3 DEF CodeType, MachineInsn
<1>6. q \in Seq(CodeType) /\ Len(q) = n
  <2>1. q \in [1..n -> CodeType]
    BY <1>3, <1>5
  <2> QED
    BY <2>1, <1>2, FcnIsSeq
<1>7. EntriesUpTo(br, q, n)
  BY <1>6, DecodedEntries DEF br
<1>8. t \in ObjectType
  BY <1>1, <1>3, <1>6, <1>7 DEF ObjectType, EntriesUpTo
<1>9. OwnBranches(t, blk) /\ IdsDistinct(t)
  BY <1>2, <1>4, <1>5, <1>6 DEF OwnBranches, IdsDistinct, n
<1>10. RelsOn(t, blk)
  <2> SUFFICES ASSUME NEW j \in DOMAIN blk.rels PROVE RelOn(t, blk, j)
    BY <1>4 DEF RelsOn
  <2> DEFINE f == blk.rels[j].off
             m == blk.rels[j].slots
  <2>1. f \in Nat /\ m \in Nat \ {0}
    BY <1>1, ElementOfSeq, LenProperties, EntryTypes
  <2>2. blk.rels[j].valid /\ f + m <= n
    BY DEF WellFormedBlock, n
  <2>3. \A s \in 0..m - 1 : q[f + s + 1].id = f + s + 1
    <3> HIDE DEF f, m
    <3> SUFFICES ASSUME NEW s \in 0..m - 1 PROVE q[f + s + 1].id = f + s + 1
      OBVIOUS
    <3>1. f + s + 1 \in 1..n
      BY <2>1, <2>2, <1>2
    <3> QED
      BY <3>1, <1>5
  <2> QED
    BY <2>2, <2>3, <1>4, <1>6 DEF RelOn
<1>11. JumpsOn(t, blk)
  <2> SUFFICES ASSUME NEW d \in Jumps, blk.linked[d]
               PROVE  blk.target[d] < n /\ q[blk.target[d] + 1].id = blk.target[d] + 1
    BY <1>4, <1>6 DEF JumpsOn
  <2>1. blk.target[d] < n /\ blk.target[d] \in Nat
    BY <1>1 DEF WellFormedBlock, n
  <2>2. blk.target[d] + 1 \in 1..n
    BY <2>1, <1>2, SMTT(30)
  <2> QED
    BY <2>1, <2>2, <1>5
<1>12. BranchesOn(t, blk)
  <2> SUFFICES ASSUME NEW c \in BranchClasses, NEW e \in DOMAIN br[c]
               PROVE  /\ br[c][e].off < n
                      /\ q[br[c][e].off + 1].id = br[c][e].insn
                      /\ blk.code[br[c][e].insn].opc = c
    BY <1>4, <1>6 DEF BranchesOn
  <2>1. /\ br[c][e].off < n
        /\ q[br[c][e].off + 1].id = br[c][e].insn
        /\ q[br[c][e].off + 1].opc = c
    BY <1>7 DEF EntriesUpTo
  <2>2. br[c][e].off \in Nat
    <3>1. br[c] \in Seq(BranchType)
      BY <1>7 DEF EntriesUpTo
    <3> QED
      BY <3>1, LenProperties, ElementOfSeq, EntryTypes
  <2>3. br[c][e].off + 1 \in 1..n
    BY <2>1, <2>2, <1>2
  <2>4. /\ q[br[c][e].off + 1].id = br[c][e].off + 1
        /\ q[br[c][e].off + 1].opc = blk.code[br[c][e].off + 1].opc
    BY <2>3, <1>5
  <2> QED
    BY <2>1, <2>4, ZenonT(40)
<1>13. OriUnsigned(t.insns)
  BY <1>4, <1>5, <1>6 DEF OriUnsigned, WellFormedBlock, n
<1>14. PipeholeOptAvailable(t) => NoOther(t.insns)
  <2> SUFFICES ASSUME PipeholeOptAvailable(t), NEW k \in 1..n, q[k].opc = "OTHER" PROVE FALSE
    BY <1>4, <1>6 DEF NoOther
  <2>1. br["OTHER"] = <<>>
    BY <1>4 DEF PipeholeOptAvailable
  <2>2. "OTHER" \in BranchClasses
    BY DEF BranchClasses
  <2> QED
    BY <2>1, <2>2, <1>7 DEF EntriesUpTo
<1> QED
  BY <1>8, <1>9, <1>10, <1>11, <1>12, <1>13, <1>14 DEF Fit

(* What fits is anchored.                                                  *)
LEMMA FitIsAnchored ==
    ASSUME NEW blk, WellFormedBlock(blk), NEW t, Fit(t, blk)
    PROVE  Anchored(t, blk)
<1>1. t \in ObjectType /\ OwnBranches(t, blk) /\ RelsOn(t, blk) /\ JumpsOn(t, blk) /\ BranchesOn(t, blk)
  BY DEF Fit
<1>2. /\ Len(t.insns) \in Nat /\ DOMAIN t.insns = 1..Len(t.insns)
      /\ \A j \in DOMAIN t.rels : t.rels[j].off \in Nat /\ t.rels[j].slots \in Nat \ {0}
      /\ \A d \in Jumps : t.target[d] \in Nat
      /\ \A c \in BranchClasses : \A e \in DOMAIN t.branches[c] : t.branches[c][e].off \in Nat
  BY <1>1, ObjectFacts
<1>3. \A x \in Nat : x < Len(t.insns) => IdAt(t, x + 1) = t.insns[x + 1].id
  BY <1>2 DEF IdAt
<1>4. ASSUME NEW j \in DOMAIN t.rels
      PROVE  LET under == {blk.rels[j].off + k : k \in 1..blk.rels[j].slots} IN
             IF t.rels[j].valid
             THEN \A k \in 1..t.rels[j].slots :
                    IdAt(t, t.rels[j].off + k) = blk.rels[j].off + k
             ELSE \E id \in under : \A k \in DOMAIN t.insns : t.insns[k].id # id
  <2> DEFINE f == t.rels[j].off
             m == t.rels[j].slots
             g == blk.rels[j].off
  <2>1. f \in Nat /\ m \in Nat \ {0}
    BY <1>2
  <2>2. j \in DOMAIN blk.rels /\ RelOn(t, blk, j)
    BY <1>1 DEF RelsOn
  <2>3. g \in Nat /\ blk.rels[j].slots = m
    <3>1. blk.rels \in Seq(RelType)
      BY DEF WellFormedBlock, BlockType
    <3>2. blk.rels[j] \in RelType
      BY <3>1, <2>2, ElementOfSeq, LenProperties
    <3> QED
      BY <3>2, <2>2, EntryTypes DEF RelOn
  <2>4. CASE t.rels[j].valid
    <3>1. f + m <= Len(t.insns) /\ \A s \in 0..m - 1 : t.insns[f + s + 1].id = g + s + 1
      BY <2>2, <2>4 DEF RelOn
    <3>2. ASSUME NEW k \in 1..m PROVE IdAt(t, f + k) = g + k
      <4> HIDE DEF f, m, g
      <4>1. k - 1 \in 0..m - 1 /\ f + (k - 1) + 1 = f + k /\ g + (k - 1) + 1 = g + k
            /\ f + k - 1 \in Nat /\ f + k - 1 < Len(t.insns) /\ (f + k - 1) + 1 = f + k
        BY <2>1, <2>3, <3>1, <1>2
      <4>2. t.insns[f + (k - 1) + 1].id = g + (k - 1) + 1
        BY <3>1, <4>1
      <4>3. IdAt(t, (f + k - 1) + 1) = t.insns[(f + k - 1) + 1].id
        BY <1>3, <4>1
      <4> QED
        BY <4>1, <4>2, <4>3
    <3> QED
      BY <2>4, <3>2
  <2>5. CASE ~ t.rels[j].valid
    <3>1. PICK s \in 0..blk.rels[j].slots - 1 :
                \A k \in 1..Len(t.insns) : t.insns[k].id # g + s + 1
      BY <2>2, <2>5 DEF RelOn
    <3> HIDE DEF f, m, g
    <3>2. s + 1 \in 1..blk.rels[j].slots /\ g + (s + 1) = g + s + 1
      BY <2>1, <2>3
    <3>3. \A k \in DOMAIN t.insns : t.insns[k].id # g + (s + 1)
      BY <3>1, <3>2, <1>2
    <3> QED
      BY <2>5, <3>2, <3>3 DEF g
  <2> QED
    BY <2>4, <2>5
<1>5. ASSUME NEW d \in Jumps, t.linked[d]
      PROVE  IdAt(t, t.target[d] + 1) = blk.target[d] + 1
  BY <1>1, <1>2, <1>3, <1>5 DEF JumpsOn
<1>6. ASSUME NEW c \in BranchClasses, NEW e \in DOMAIN t.branches[c]
      PROVE  IdAt(t, t.branches[c][e].off + 1) = t.branches[c][e].insn
  BY <1>1, <1>2, <1>3 DEF BranchesOn
<1> QED
  BY <1>4, <1>5, <1>6 DEF Anchored

-----------------------------------------------------------------------------
(* What the code believes.                                                 *)

ConstType(set) ==
    DOMAIN set \subseteq Regs \ {0} /\ \A r \in DOMAIN set : set[r] \in Int

(* The registers are in state s what set says.                             *)
Holds(s, set) == \A r \in DOMAIN set : s.regs[r] = Known(set[r])

LEMMA SetConstHolds ==
    ASSUME NEW s, IsState(s), NEW set, ConstType(set), Holds(s, set),
           NEW d \in Regs, NEW x \in Int
    PROVE  ConstType(SetConst(set, d, x)) /\ Holds(Put(s, d, Known(x)), SetConst(set, d, x))
<1>1. CASE d = 0
  <2>1. SetConst(set, d, x) = set
    BY <1>1 DEF SetConst
  <2>2. \A r \in Regs : r # 0 => Put(s, d, Known(x)).regs[r] = s.regs[r]
    <3>1. \A r \in Regs : r # d => Put(s, d, Known(x)).regs[r] = s.regs[r]
      BY PutFacts
    <3> QED
      BY <3>1, <1>1
  <2> QED
    BY <2>1, <2>2 DEF Holds, ConstType
<1>2. CASE d # 0
  <2> DEFINE p == Put(s, d, Known(x))
  <2>0. PICK new : new = SetConst(set, d, x)
    OBVIOUS
  <2>1. /\ DOMAIN new = DOMAIN set \cup {d}
        /\ \A r \in DOMAIN set \cup {d} : new[r] = IF r = d THEN x ELSE set[r]
    BY <1>2, <2>0 DEF SetConst
  <2>2. p.regs[d] = Known(x) /\ \A r \in Regs : r # d => p.regs[r] = s.regs[r]
    BY <1>2, PutFacts
  <2> HIDE DEF p
  <2>3. ConstType(new)
    BY <2>1, <1>2 DEF ConstType
  <2>4. Holds(p, new)
    BY <2>1, <2>2 DEF Holds, ConstType
  <2> QED
    BY <2>0, <2>3, <2>4 DEF p
<1> QED
  BY <1>1, <1>2

LEMMA KillHolds ==
    ASSUME NEW s, IsState(s), NEW set, ConstType(set), Holds(s, set),
           NEW insn \in CodeType, NEW patched
    PROVE  /\ ConstType(Kill(set, insn.dst))
           /\ Holds(Executed(s, insn, patched), Kill(set, insn.dst))
<1> DEFINE e == Executed(s, insn, patched)
           d == insn.dst
<1>1. d \in Regs
  BY DEF CodeType
<1>2. \A r \in Regs : r # d => e.regs[r] = s.regs[r]
  BY <1>1, ExecutedFacts
<1> HIDE DEF e, d
<1>3. ConstType(Kill(set, d)) /\ Holds(e, Kill(set, d))
  BY <1>2 DEF Kill, ConstType, Holds
<1> QED
  BY <1>3 DEF e, d

(* What the tests of the code mean.                                        *)
LEMMA ScopeFacts ==
    ASSUME tb \in ObjectType, NEW n \in Nat \ {0}, NEW count \in {2, 3}, cur = n - 1,
           ~ InScopeOfRel(cur, count)
    PROVE  \A k \in n - 1..n + count - 2 : ~ InRel(tb, k)
<1> SUFFICES ASSUME NEW k \in n - 1..n + count - 2, NEW j \in DOMAIN tb.rels, ValidAt(tb, j, k)
             PROVE  FALSE
  BY DEF InRel
<1> DEFINE f == tb.rels[j].off
           m == tb.rels[j].slots
<1>1. f \in Nat /\ m \in Nat \ {0}
  BY ObjectFacts
<1>2. tb.rels[j].valid /\ f <= k /\ k < f + m
  BY DEF ValidAt, Covers
<1>3. ~ (cur + count > f /\ f + m > cur)
  BY <1>2 DEF InScopeOfRel
<1> HIDE DEF f, m
<1> QED
  BY <1>1, <1>2, <1>3

LEMMA PatternIsLoad == IsPattern => LoadAt(tb.insns, node, pass)
BY DEF IsPattern, LoadAt, Insn

LEMMA SubstituteFacts ==
    ASSUME NEW src, NEW diff, cur = node - 1, node \in Nat, pass \in {2, 3}
    PROVE  Substituted(tb, node, pass, src, diff, Substitute(src, diff))
<1>1. cur + 1 = node
  OBVIOUS
<1> QED
  BY <1>1, Zenon DEF Substituted, Substitute, DeleteRun

-----------------------------------------------------------------------------
(* The inductive invariant.                                                *)

TypeInv ==
    /\ block \in Blocks
    /\ pass \in {2, 3}
    /\ pc \in {"visit", "opt", "done"}
    /\ exposed \in BOOLEAN
    /\ node \in Nat \ {0} /\ cur = node - 1
    /\ Fit(tb, block)
    /\ OriUnsigned(tb.insns)
    /\ ConstType(const)

(* Up to its node a pass has met no branch, and visit is entered again     *)
(* with nothing known, or where it ends.                                   *)
Place ==
    /\ NoOther(tb.insns)
    /\ NoBranchUpTo(tb.insns, node - 1)
    /\ node <= Len(tb.insns) + 1
    /\ pc = "visit" => const = <<>> \/ AtEnd \/ Branch

Kept(placed) ==
    Run(tb.insns, tb.rels, placed) = Run(Decoded(block).insns, Decoded(block).rels, placed)

(* What const_set says is so when control is at the node.                  *)
Believed(placed) == Holds(States(tb.insns, tb.rels, placed)[node - 1], const)

Inv ==
    /\ TypeInv
    /\ pc # "done" => Place
    /\ Behind(tb.insns) = Behind(Decoded(block).insns)
    /\ \A placed \in BOOLEAN : (placed => ~ exposed) =>
        Kept(placed) /\ (pc # "done" => Believed(placed))

LEMMA InvFacts ==
    ASSUME TypeInv
    PROVE  /\ WellFormedBlock(block)
           /\ tb \in ObjectType /\ tb.insns \in Seq(CodeType) /\ Len(tb.insns) \in Nat
           /\ node \in Nat /\ node - 1 \in Nat
<1>1. tb \in ObjectType
  BY DEF TypeInv, Fit
<1> QED
  BY <1>1, ObjectFacts, BlocksAssumption DEF TypeInv

(* A load that has been recognised, and that only where nothing moves the  *)
(* relocated constants may be covered by a relocation.                     *)
LEMMA LoadLearned ==
    ASSUME TypeInv, Place, IsPattern,
           NEW set, set = SetConst(const, Insn.dst, Loaded(tb.insns, node, pass))
    PROVE  /\ ConstType(set)
           /\ NoBranchUpTo(tb.insns, node + pass - 1)
           /\ node + pass <= Len(tb.insns) + 1 /\ node + pass \in Nat \ {0}
           /\ \A placed \in BOOLEAN :
                Believed(placed) /\ (placed => ~ InScopeOfRel(cur, pass)) =>
                    Holds(States(tb.insns, tb.rels, placed)[node + pass - 1], set)
<1> DEFINE a == tb.insns
           x == Loaded(a, node, pass)
<1>1. /\ tb \in ObjectType /\ a \in Seq(CodeType) /\ Len(a) \in Nat
      /\ node \in Nat \ {0} /\ node - 1 \in Nat /\ pass \in {2, 3} /\ cur = node - 1
      /\ OriUnsigned(a) /\ ConstType(const)
  BY InvFacts DEF TypeInv
<1>2. LoadAt(a, node, pass)
  BY PatternIsLoad
<1>3. node + pass - 1 <= Len(a) /\ node \in 1..Len(a) /\ node - 1 \in 0..Len(a)
  <2>1. node + pass - 1 <= Len(a)
    BY <1>2 DEF LoadAt
  <2> QED
    BY <2>1, <1>1
<1>4. x \in Int
  BY <1>1, <1>2, LoadedIsInt
<1>5. Insn.dst \in Regs /\ Insn = a[node]
  BY <1>1, <1>3, CodeFacts DEF Insn
<1>6. ConstType(set)
  <2>1. Holds([regs |-> [r \in Regs |-> IF r \in DOMAIN const THEN Known(const[r]) ELSE 0],
               stores |-> <<>>], const)
    BY <1>1 DEF Holds, ConstType
  <2>2. IsState([regs |-> [r \in Regs |-> IF r \in DOMAIN const THEN Known(const[r]) ELSE 0],
                 stores |-> <<>>])
    BY DEF IsState
  <2> QED
    BY <2>1, <2>2, <1>1, <1>4, <1>5, SetConstHolds
<1>7. NoBranchUpTo(a, node + pass - 1)
  <2> SUFFICES ASSUME NEW k \in 1..node + pass - 1 PROVE a[k].opc \notin BranchClasses
    BY DEF NoBranchUpTo
  <2>1. CASE k \in 1..node - 1
    BY <2>1 DEF NoBranchUpTo, Place
  <2>2. CASE k = node
    BY <2>2, <1>2 DEF LoadAt, BranchClasses
  <2>3. CASE k = node + 1
    BY <2>3, <1>2 DEF LoadAt, BranchClasses
  <2>4. CASE k = node + 2 /\ pass = 3
    BY <2>4, <1>2 DEF LoadAt, BranchClasses
  <2> QED
    BY <2>1, <2>2, <2>3, <2>4, <1>1
<1>8. ASSUME NEW placed \in BOOLEAN, Believed(placed), placed => ~ InScopeOfRel(cur, pass)
      PROVE  Holds(States(a, tb.rels, placed)[node + pass - 1], set)
  <2>1. Untouched(tb.rels, placed, node, pass)
    <3>1. CASE placed
      <4>1. \A k \in node - 1..node + pass - 2 : ~ InRel(tb, k)
        BY <1>1, <1>8, <3>1, ScopeFacts
      <4> QED
        BY <4>1, Unpatched DEF Untouched
    <3>2. CASE ~ placed
      <4>1. placed = FALSE
        BY <3>2
      <4> QED
        BY <4>1, Unpatched DEF Untouched
    <3> QED
      BY <3>1, <3>2
  <2> DEFINE s == States(a, tb.rels, placed)[node - 1]
  <2>2. States(a, tb.rels, placed)[node + pass - 1] = Put(s, a[node].dst, Known(x))
    BY <1>1, <1>2, <2>1, LoadExecuted
  <2>3. IsState(s)
    BY <1>1, <1>3, StatesAreStates
  <2>4. Holds(s, const)
    BY <1>8 DEF Believed
  <2> HIDE DEF s, x
  <2>5. Holds(Put(s, Insn.dst, Known(x)), SetConst(const, Insn.dst, x))
    BY <2>3, <2>4, <1>1, <1>4, <1>5, SetConstHolds
  <2> QED
    BY <2>2, <2>5, <1>5 DEF x
<1> QED
  <2>1. node + pass <= Len(a) + 1 /\ node + pass \in Nat \ {0}
    <3> HIDE DEF a, x
    <3> QED
      BY <1>1, <1>3
  <2> QED
    BY <2>1, <1>6, <1>7, <1>8

(* The instructions of a block with a load replaced are an addi.d and      *)
(* those the block had.                                                    *)
LEMMA ReplacedCode ==
    ASSUME NEW t, Len(t.insns) \in Nat, NEW n \in Nat \ {0}, NEW count \in {2, 3},
           n + count - 1 <= Len(t.insns),
           NEW src, NEW diff, NEW u, Replaced(t, n, count, src, diff, u)
    PROVE  /\ n \in 1..Len(u.insns)
           /\ \A k \in 1..Len(u.insns) : \/ k = n /\ u.insns[k].opc = "ADDI_D"
                                         \/ \E m \in 1..Len(t.insns) : u.insns[k] = t.insns[m]
<1>1. /\ Len(u.insns) = Len(t.insns) - (count - 1)
      /\ \A k \in 1..n - 1 : u.insns[k] = t.insns[k]
      /\ u.insns[n].opc = "ADDI_D"
      /\ \A k \in n + 1..Len(u.insns) : u.insns[k] = t.insns[k + (count - 1)]
  BY DEF Replaced
<1>2. ASSUME NEW k \in 1..Len(u.insns), k # n
      PROVE  \E m \in 1..Len(t.insns) : u.insns[k] = t.insns[m]
  <2>1. CASE k < n
    <3>1. k \in 1..n - 1 /\ k \in 1..Len(t.insns)
      BY <1>1, <2>1
    <3> QED
      BY <3>1, <1>1
  <2>2. CASE k > n
    <3>1. k \in n + 1..Len(u.insns) /\ k + (count - 1) \in 1..Len(t.insns)
      BY <1>1, <2>2
    <3> QED
      BY <3>1, <1>1
  <2> QED
    BY <1>2, <2>1, <2>2
<1>3. n \in 1..Len(u.insns)
  BY <1>1
<1> QED
  BY <1>1, <1>2, <1>3

LEMMA LoadGivenUp ==
    ASSUME TypeInv, Place, IsPattern,
           NEW imm, imm = Loaded(tb.insns, node, pass), NEW src \in Sources(imm),
           NEW u, u = Substitute(src, imm - const[src]),
           NEW set, set = SetConst(const, Insn.dst, imm), Believed(FALSE)
    PROVE  /\ Fit(u, block) /\ OriUnsigned(u.insns) /\ NoOther(u.insns)
           /\ NoBranchUpTo(u.insns, node) /\ node + 1 <= Len(u.insns) + 1
           /\ ConstType(set)
           /\ Behind(u.insns) = Behind(tb.insns)
           /\ \A placed \in BOOLEAN :
                Believed(placed) /\ (placed => ~ InScopeOfRel(cur, pass)) =>
                    /\ Run(u.insns, u.rels, placed) = Run(tb.insns, tb.rels, placed)
                    /\ Holds(States(u.insns, u.rels, placed)[node], set)
<1> DEFINE a == tb.insns
           x == const[src]
<1>1. /\ WellFormedBlock(block) /\ tb \in ObjectType /\ a \in Seq(CodeType) /\ Len(a) \in Nat
      /\ node \in Nat \ {0} /\ node - 1 \in Nat /\ pass \in {2, 3} /\ cur = node - 1
      /\ OriUnsigned(a) /\ ConstType(const) /\ Fit(tb, block)
  BY InvFacts DEF TypeInv
<1>2. LoadAt(a, node, pass)
  BY PatternIsLoad
<1>3. node + pass - 1 <= Len(a) /\ node \in 1..Len(a) /\ node - 1 \in 0..Len(a)
  <2>1. node + pass - 1 <= Len(a)
    BY <1>2 DEF LoadAt
  <2> QED
    BY <2>1, <1>1
<1>4. imm \in Int
  BY <1>1, <1>2, LoadedIsInt
<1>5. Insn.dst \in Regs /\ Insn = a[node]
  BY <1>1, <1>3, CodeFacts DEF Insn
<1>6. src \in DOMAIN const /\ src \in Regs /\ x \in Int
  BY <1>1 DEF Sources, ConstType
<1>7. imm - x \in Int
  <2> HIDE DEF x
  <2> QED
    BY <1>4, <1>6
<1>8. Substituted(tb, node, pass, src, imm - x, u)
  BY <1>1, SubstituteFacts
<1> HIDE DEF x
<1>9. Fit(u, block) /\ Replaced(tb, node, pass, src, imm - x, u)
  BY <1>1, <1>2, <1>6, <1>7, <1>8, LoadReplaced
<1>10. /\ node \in 1..Len(u.insns)
       /\ \A k \in 1..Len(u.insns) : \/ k = node /\ u.insns[k].opc = "ADDI_D"
                                     \/ \E m \in 1..Len(a) : u.insns[k] = a[m]
  BY <1>1, <1>3, <1>9, ReplacedCode
<1>11. OriUnsigned(u.insns) /\ NoOther(u.insns)
  <2>1. OriUnsigned(u.insns)
    BY <1>1, <1>10, SMTT(30) DEF OriUnsigned
  <2>2. NoOther(u.insns)
    BY <1>10 DEF NoOther, Place
  <2> QED
    BY <2>1, <2>2
<1>12. NoBranchUpTo(u.insns, node)
  <2> SUFFICES ASSUME NEW k \in 1..node PROVE u.insns[k].opc \notin BranchClasses
    BY DEF NoBranchUpTo
  <2>1. CASE k = node
    BY <2>1, <1>9 DEF Replaced, BranchClasses
  <2>2. CASE k \in 1..node - 1
    BY <2>2, <1>9 DEF Replaced, NoBranchUpTo, Place
  <2> QED
    BY <2>1, <2>2, <1>1
<1>13. ASSUME NEW placed \in BOOLEAN, Believed(placed), placed => ~ InScopeOfRel(cur, pass)
       PROVE  /\ Run(u.insns, u.rels, placed) = Run(a, tb.rels, placed)
              /\ Behind(u.insns) = Behind(a)
              /\ Holds(States(u.insns, u.rels, placed)[node], set)
  <2> DEFINE s == States(a, tb.rels, placed)[node - 1]
  <2>1. placed => \A k \in node - 1..node + pass - 2 : ~ InRel(tb, k)
    BY <1>1, <1>13, ScopeFacts
  <2>2. s.regs[src] = Known(x)
    BY <1>6, <1>13 DEF Believed, Holds, x
  <2>3. NoBranchUpTo(a, node - 1)
    BY DEF Place
  <2>4. Substituted(tb, node, pass, src, Loaded(a, node, pass) - x, u)
    BY <1>8
  <2>5. /\ Run(u.insns, u.rels, placed) = Run(a, tb.rels, placed)
        /\ Behind(u.insns) = Behind(a)
        /\ States(u.insns, u.rels, placed)[node] =
                Put(s, a[node].dst, Known(Loaded(a, node, pass)))
    BY <1>1, <1>2, <1>6, <2>1, <2>2, <2>3, <2>4, ReplacementRuns
  <2>6. IsState(s) /\ Holds(s, const)
    BY <1>1, <1>3, <1>13, StatesAreStates DEF Believed
  <2> HIDE DEF s
  <2>7. Holds(Put(s, Insn.dst, Known(imm)), set)
    BY <2>6, <1>1, <1>4, <1>5, SetConstHolds
  <2> QED
    BY <2>5, <2>7, <1>5
<1>14. ConstType(set)
  BY LoadLearned
<1>15. Behind(u.insns) = Behind(a)
  BY <1>13
<1>16. node + 1 <= Len(u.insns) + 1
  BY <1>1, <1>10
<1> QED
  BY <1>9, <1>11, <1>12, <1>13, <1>14, <1>15, <1>16

LEMMA InitInv == Init => Inv
<1> SUFFICES ASSUME Init PROVE Inv
  OBVIOUS
<1>1. /\ block \in Blocks /\ pass \in {2, 3} /\ tb = Decoded(block) /\ node = 1 /\ cur = 0
      /\ const = <<>> /\ exposed = FALSE /\ pc \in {"visit", "done"}
      /\ pc # "done" => PipeholeOptAvailable(tb)
  BY DEF Init
<1>2. WellFormedBlock(block)
  BY <1>1, BlocksAssumption
<1>3. Fit(tb, block) /\ OriUnsigned(tb.insns) /\ (pc # "done" => NoOther(tb.insns))
  BY <1>1, <1>2, DecodedFits
<1>4. DOMAIN const = {}
  BY <1>1
<1>5. TypeInv
  <2>1. ConstType(const)
    BY <1>4 DEF ConstType
  <2>2. /\ node \in Nat \ {0} /\ cur = node - 1 /\ pc \in {"visit", "opt", "done"}
        /\ pass \in {2, 3} /\ exposed \in BOOLEAN
    <3>1. node = 1 /\ cur = 0
      BY <1>1
    <3>2. node \in Nat \ {0} /\ cur = node - 1
      BY <3>1
    <3>3. pc \in {"visit", "opt", "done"} /\ pass \in {2, 3}
      BY <1>1
    <3>4. exposed \in BOOLEAN
      BY <1>1
    <3> QED
      BY <3>2, <3>3, <3>4, Zenon
  <2> QED
    BY <2>1, <2>2, <1>1, <1>3, Zenon DEF TypeInv
<1>6. Len(tb.insns) \in Nat
  BY <1>5, InvFacts
<1>7. pc # "done" => Place
  <2>1. NoBranchUpTo(tb.insns, node - 1) /\ node <= Len(tb.insns) + 1
    BY <1>1, <1>6 DEF NoBranchUpTo
  <2> QED
    BY <2>1, <1>1, <1>3 DEF Place
<1>8. \A placed : Believed(placed) /\ Kept(placed)
  BY <1>1, <1>4 DEF Believed, Holds, Kept
<1> QED
  BY <1>1, <1>5, <1>7, <1>8 DEF Inv

(* What stays so while the block does.                                     *)
LEMMA SameBlock ==
    ASSUME Inv, UNCHANGED <<block, tb>>, exposed' = (exposed \/ exposed')
    PROVE  /\ Behind(tb.insns)' = Behind(Decoded(block).insns)'
           /\ \A placed \in BOOLEAN : (placed => ~ exposed') => Kept(placed)'
<1>1. tb' = tb /\ block' = block
  OBVIOUS
<1>2. \A placed \in BOOLEAN : (placed => ~ exposed') => (placed => ~ exposed)
  OBVIOUS
<1>3. \A placed \in BOOLEAN : (placed => ~ exposed) => Kept(placed)
  BY DEF Inv
<1>4. \A placed : Kept(placed)' <=> Kept(placed)
  BY <1>1 DEF Kept
<1> QED
  BY <1>1, <1>2, <1>3, <1>4 DEF Inv

(* A pass has its first load.                                              *)
LEMMA FirstLoadInv == Inv /\ FirstLoad => Inv'
<1> SUFFICES ASSUME Inv, FirstLoad PROVE Inv'
  OBVIOUS
<1> DEFINE set == SetConst(const, Insn.dst, Loaded(tb.insns, node, pass))
<1>1. /\ tb' = tb /\ block' = block /\ pass' = pass /\ pc' = "opt" /\ pc # "done"
      /\ IsPattern /\ const' = set /\ node' = node + pass /\ cur' = cur + pass
  BY DEF FirstLoad
<1>2. /\ exposed' \in BOOLEAN /\ exposed' = (exposed \/ exposed')
      /\ ~ exposed' => ~ exposed /\ ~ InScopeOfRel(cur, pass)
  BY DEF FirstLoad, Inv, TypeInv
<1>3. TypeInv /\ Place
  BY <1>1 DEF Inv
<1>4. /\ ConstType(set)
      /\ NoBranchUpTo(tb.insns, node + pass - 1)
      /\ node + pass <= Len(tb.insns) + 1 /\ node + pass \in Nat \ {0}
      /\ \A placed \in BOOLEAN :
            Believed(placed) /\ (placed => ~ InScopeOfRel(cur, pass)) =>
                Holds(States(tb.insns, tb.rels, placed)[node + pass - 1], set)
  BY <1>1, <1>3, LoadLearned
<1> HIDE DEF set
<1>5. node' - 1 = node + pass - 1 /\ cur' = node' - 1
  BY <1>1, <1>3 DEF TypeInv
<1>6. TypeInv'
  BY <1>1, <1>2, <1>3, <1>4, <1>5 DEF TypeInv
<1>7. Place'
  BY <1>1, <1>3, <1>4, <1>5 DEF Place
<1>8. ASSUME NEW placed \in BOOLEAN, placed => ~ exposed'
      PROVE  Believed(placed)'
  <2>1. Believed(placed)
    BY <1>1, <1>2, <1>8 DEF Inv
  <2>2. Holds(States(tb.insns, tb.rels, placed)[node + pass - 1], set)
    BY <2>1, <1>2, <1>4, <1>8
  <2> QED
    BY <2>2, <1>1, <1>5 DEF Believed
<1>9. /\ Behind(tb.insns)' = Behind(Decoded(block).insns)'
      /\ \A placed \in BOOLEAN : (placed => ~ exposed') => Kept(placed)'
  BY <1>1, <1>2, SameBlock
<1> QED
  BY <1>6, <1>7, <1>8, <1>9 DEF Inv

LEMMA LearnLoadInv == Inv /\ LearnLoad => Inv'
<1> SUFFICES ASSUME Inv, LearnLoad PROVE Inv'
  OBVIOUS
<1> DEFINE set == SetConst(const, Insn.dst, Loaded(tb.insns, node, pass))
<1>1. /\ tb' = tb /\ block' = block /\ pass' = pass /\ pc' = "opt" /\ pc # "done"
      /\ IsPattern /\ const' = set /\ node' = node + pass /\ cur' = cur + pass
  BY DEF LearnLoad, Replaceable
<1>2. /\ exposed' \in BOOLEAN /\ exposed' = (exposed \/ exposed')
      /\ ~ exposed' => ~ exposed /\ ~ InScopeOfRel(cur, pass)
  BY DEF LearnLoad, Replaceable, Inv, TypeInv
<1>3. TypeInv /\ Place
  BY <1>1 DEF Inv
<1>4. /\ ConstType(set)
      /\ NoBranchUpTo(tb.insns, node + pass - 1)
      /\ node + pass <= Len(tb.insns) + 1 /\ node + pass \in Nat \ {0}
      /\ \A placed \in BOOLEAN :
            Believed(placed) /\ (placed => ~ InScopeOfRel(cur, pass)) =>
                Holds(States(tb.insns, tb.rels, placed)[node + pass - 1], set)
  BY <1>1, <1>3, LoadLearned
<1> HIDE DEF set
<1>5. node' - 1 = node + pass - 1 /\ cur' = node' - 1
  BY <1>1, <1>3 DEF TypeInv
<1>6. TypeInv'
  BY <1>1, <1>2, <1>3, <1>4, <1>5 DEF TypeInv
<1>7. Place'
  BY <1>1, <1>3, <1>4, <1>5 DEF Place
<1>8. ASSUME NEW placed \in BOOLEAN, placed => ~ exposed'
      PROVE  Believed(placed)'
  <2>1. Believed(placed)
    BY <1>1, <1>2, <1>8 DEF Inv
  <2>2. Holds(States(tb.insns, tb.rels, placed)[node + pass - 1], set)
    BY <2>1, <1>2, <1>4, <1>8
  <2> QED
    BY <2>2, <1>1, <1>5 DEF Believed
<1>9. /\ Behind(tb.insns)' = Behind(Decoded(block).insns)'
      /\ \A placed \in BOOLEAN : (placed => ~ exposed') => Kept(placed)'
  BY <1>1, <1>2, SameBlock
<1> QED
  BY <1>6, <1>7, <1>8, <1>9 DEF Inv

LEMMA ReplaceLoadInv == Inv /\ ReplaceLoad => Inv'
<1> SUFFICES ASSUME Inv, ReplaceLoad PROVE Inv'
  OBVIOUS
<1>0. PICK imm : imm = Loaded(tb.insns, node, pass)
  OBVIOUS
<1>1. PICK src : /\ src \in Sources(imm)
                 /\ tb' = Substitute(src, imm - const[src])
  <2> DEFINE low == CHOOSE r \in Sources(imm) : \A s \in Sources(imm) : r <= s
  <2>1. Sources(imm) # {} /\ tb' = Substitute(low, imm - const[low])
    BY <1>0 DEF ReplaceLoad
  <2>2. Sources(imm) \in SUBSET Nat
    <3>1. DOMAIN const \subseteq Nat
      BY Widths DEF Inv, TypeInv, ConstType
    <3> QED
      BY <3>1 DEF Sources
  <2>3. low \in Sources(imm)
    BY <2>1, <2>2, LeastNatural
  <2> HIDE DEF low
  <2> QED
    BY <2>1, <2>3
<1>2. /\ block' = block /\ pass' = pass /\ pc' = "opt" /\ pc = "opt"
      /\ IsPattern /\ const' = SetConst(const, Insn.dst, imm)
      /\ node' = node + 1 /\ cur' = cur + 1
  BY <1>0 DEF ReplaceLoad, Replaceable
<1>3. /\ exposed' \in BOOLEAN
      /\ ~ exposed' => ~ exposed /\ ~ InScopeOfRel(cur, pass)
  BY DEF ReplaceLoad, Replaceable, Inv, TypeInv
<1>4. TypeInv /\ Place /\ Believed(FALSE)
  BY <1>2 DEF Inv
<1>5. PICK u : u = tb'
  OBVIOUS
<1>6. PICK set : set = SetConst(const, Insn.dst, imm)
  OBVIOUS
<1>7. /\ Fit(u, block) /\ OriUnsigned(u.insns) /\ NoOther(u.insns)
      /\ NoBranchUpTo(u.insns, node) /\ node + 1 <= Len(u.insns) + 1
      /\ ConstType(set)
      /\ Behind(u.insns) = Behind(tb.insns)
      /\ \A placed \in BOOLEAN :
            Believed(placed) /\ (placed => ~ InScopeOfRel(cur, pass)) =>
                /\ Run(u.insns, u.rels, placed) = Run(tb.insns, tb.rels, placed)
                /\ Holds(States(u.insns, u.rels, placed)[node], set)
  BY <1>0, <1>1, <1>2, <1>4, <1>5, <1>6, LoadGivenUp
<1>8. node' - 1 = node /\ cur' = node' - 1 /\ node' \in Nat \ {0} /\ const' = set
  BY <1>2, <1>4, <1>6 DEF TypeInv
<1>9. TypeInv'
  BY <1>2, <1>3, <1>4, <1>5, <1>7, <1>8 DEF TypeInv
<1>10. Place'
  BY <1>2, <1>5, <1>7, <1>8 DEF Place
<1>11. ASSUME NEW placed \in BOOLEAN, placed => ~ exposed'
       PROVE  Kept(placed)' /\ Believed(placed)'
  <2>1. Kept(placed) /\ Believed(placed)
    BY <1>2, <1>3, <1>11 DEF Inv
  <2>2. /\ Run(u.insns, u.rels, placed) = Run(tb.insns, tb.rels, placed)
        /\ Holds(States(u.insns, u.rels, placed)[node], set)
    BY <2>1, <1>3, <1>7, <1>11
  <2>3. Kept(placed)'
    BY <2>1, <2>2, <1>2, <1>5 DEF Kept
  <2>4. Believed(placed)'
    BY <2>2, <1>5, <1>8 DEF Believed
  <2> QED
    BY <2>3, <2>4
<1>12. Behind(tb.insns)' = Behind(Decoded(block).insns)'
  <2>1. Behind(tb.insns) = Behind(Decoded(block).insns)
    BY DEF Inv
  <2> QED
    BY <2>1, <1>2, <1>5, <1>7
<1> QED
  BY <1>9, <1>10, <1>11, <1>12 DEF Inv

(* What no pass looks for ends no straight part.                           *)
LEMMA NotABranch ==
    ASSUME TypeInv, Place, ~ AtEnd, ~ Branch
    PROVE  /\ NoBranchUpTo(tb.insns, node) /\ node \in 1..Len(tb.insns)
           /\ Insn = tb.insns[node] /\ Insn \in CodeType
<1>1. /\ Len(tb.insns) \in Nat /\ node \in Nat \ {0} /\ tb.insns \in Seq(CodeType)
  BY InvFacts DEF TypeInv
<1>2. node \in 1..Len(tb.insns)
  BY <1>1 DEF AtEnd
<1>3. tb.insns[node].opc \notin BranchClasses
  BY <1>2 DEF Branch, Insn, BranchClasses, Place, NoOther
<1>4. NoBranchUpTo(tb.insns, node)
  <2> SUFFICES ASSUME NEW k \in 1..node PROVE tb.insns[k].opc \notin BranchClasses
    BY DEF NoBranchUpTo
  <2>1. CASE k \in 1..node - 1
    BY <2>1 DEF NoBranchUpTo, Place
  <2>2. CASE k = node
    BY <2>2, <1>3
  <2> QED
    BY <2>1, <2>2, <1>1
<1> QED
  BY <1>1, <1>2, <1>4, CodeFacts DEF Insn

LEMMA VisitStepInv == Inv /\ VisitStep => Inv'
<1> SUFFICES ASSUME Inv, VisitStep PROVE Inv'
  OBVIOUS
<1>1. /\ block' = block /\ pass' = pass /\ pc' = pc /\ tb' = tb /\ const' = const
      /\ exposed' = exposed /\ pc = "visit" /\ ~ AtEnd /\ ~ Branch
      /\ node' = node + 1 /\ cur' = cur + 1
  BY DEF VisitStep
<1>2. TypeInv /\ Place /\ const = <<>>
  BY <1>1 DEF Inv, Place
<1>3. /\ NoBranchUpTo(tb.insns, node) /\ node \in 1..Len(tb.insns)
  BY <1>1, <1>2, NotABranch
<1>4. node' - 1 = node /\ cur' = node' - 1 /\ node' \in Nat \ {0} /\ node' <= Len(tb.insns) + 1
  BY <1>1, <1>2, <1>3, InvFacts DEF TypeInv
<1>5. TypeInv'
  BY <1>1, <1>2, <1>4 DEF TypeInv
<1>6. Place'
  BY <1>1, <1>2, <1>3, <1>4 DEF Place
<1>7. \A placed : Believed(placed)'
  <2>1. DOMAIN const' = {}
    BY <1>1, <1>2
  <2> QED
    BY <2>1 DEF Believed, Holds
<1>8. /\ Behind(tb.insns)' = Behind(Decoded(block).insns)'
      /\ \A placed \in BOOLEAN : (placed => ~ exposed') => Kept(placed)'
  BY <1>1, <1>2, SameBlock DEF TypeInv
<1> QED
  BY <1>5, <1>6, <1>7, <1>8 DEF Inv

LEMMA VisitDoneInv == Inv /\ VisitDone => Inv'
<1> SUFFICES ASSUME Inv, VisitDone PROVE Inv'
  OBVIOUS
<1>1. block' = block /\ tb' = tb /\ exposed' = exposed /\ pc = "visit"
  BY DEF VisitDone
<1>2. TypeInv /\ Place
  BY <1>1 DEF Inv
<1>3. /\ Behind(tb.insns)' = Behind(Decoded(block).insns)'
      /\ \A placed \in BOOLEAN : (placed => ~ exposed') => Kept(placed)'
  BY <1>1, <1>2, SameBlock DEF TypeInv
<1>4. CASE pass = 3
  <2>1. pass' = 2 /\ node' = 1 /\ cur' = 0 /\ const' = <<>> /\ pc' = pc
    BY <1>4 DEF VisitDone
  <2>2. DOMAIN const' = {}
    BY <2>1
  <2>3. TypeInv'
    BY <2>1, <2>2, <1>1, <1>2 DEF TypeInv, ConstType
  <2>4. Place'
    <3>1. Len(tb.insns) \in Nat
      BY <1>2, InvFacts
    <3>2. node' <= Len(tb'.insns) + 1 /\ NoBranchUpTo(tb'.insns, node' - 1) /\ NoOther(tb'.insns)
      BY <3>1, <2>1, <1>1, <1>2 DEF NoBranchUpTo, Place
    <3> QED
      BY <3>2, <2>1 DEF Place
  <2>5. \A placed : Believed(placed)'
    BY <2>2 DEF Believed, Holds
  <2> QED
    BY <2>3, <2>4, <2>5, <1>3 DEF Inv
<1>5. CASE pass # 3
  <2>1. pc' = "done" /\ pass' = pass /\ node' = node /\ cur' = cur /\ const' = const
    BY <1>5 DEF VisitDone
  <2>2. TypeInv'
    BY <2>1, <1>1, <1>2 DEF TypeInv
  <2> QED
    BY <2>1, <2>2, <1>3 DEF Inv
<1> QED
  BY <1>4, <1>5

LEMMA OptStepInv == Inv /\ OptStep => Inv'
<1> SUFFICES ASSUME Inv, OptStep PROVE Inv'
  OBVIOUS
<1>1. /\ block' = block /\ pass' = pass /\ tb' = tb /\ exposed' = exposed
      /\ pc = "opt" /\ ~ AtEnd /\ ~ Branch
      /\ const' = Kill(const, Insn.dst) /\ node' = node + 1 /\ cur' = cur + 1
      /\ pc' \in {"visit", "opt"} /\ (pc' = "visit" => const' = <<>>)
  BY DEF OptStep
<1>2. TypeInv /\ Place
  BY <1>1 DEF Inv
<1>3. /\ NoBranchUpTo(tb.insns, node) /\ node \in 1..Len(tb.insns)
      /\ Insn = tb.insns[node] /\ Insn \in CodeType
  BY <1>1, <1>2, NotABranch
<1>4. /\ node' - 1 = node /\ cur' = node' - 1 /\ node' \in Nat \ {0} /\ node' <= Len(tb.insns) + 1
      /\ tb.insns \in Seq(CodeType) /\ Len(tb.insns) \in Nat /\ node - 1 \in 0..Len(tb.insns)
  BY <1>1, <1>2, <1>3, InvFacts DEF TypeInv
<1>5. ASSUME NEW placed \in BOOLEAN, Believed(placed)
      PROVE  ConstType(Kill(const, Insn.dst)) /\ Believed(placed)'
  <2> DEFINE s == States(tb.insns, tb.rels, placed)[node - 1]
             e == States(tb.insns, tb.rels, placed)[node]
  <2>1. e = Executed(s, Insn, Patched(tb.rels, node - 1, placed))
    BY <1>3, <1>4, StatesUnfold
  <2>2. IsState(s) /\ Holds(s, const) /\ ConstType(const)
    BY <1>2, <1>4, <1>5, StatesAreStates DEF Believed, TypeInv
  <2> HIDE DEF s, e
  <2>3. ConstType(Kill(const, Insn.dst)) /\ Holds(e, Kill(const, Insn.dst))
    BY <2>1, <2>2, <1>3, KillHolds
  <2>4. Believed(placed)'
    BY <2>3, <1>1, <1>4 DEF Believed, e
  <2> QED
    BY <2>3, <2>4
<1>6. \A placed \in BOOLEAN : (placed => ~ exposed) => Believed(placed)
  BY <1>1 DEF Inv
<1>7. TypeInv'
  <2>1. Believed(FALSE)
    BY <1>6
  <2>2. ConstType(Kill(const, Insn.dst))
    BY <2>1, <1>5
  <2> QED
    BY <2>2, <1>1, <1>2, <1>4 DEF TypeInv
<1>8. Place'
  BY <1>1, <1>2, <1>3, <1>4 DEF Place
<1>9. /\ Behind(tb.insns)' = Behind(Decoded(block).insns)'
      /\ \A placed \in BOOLEAN : (placed => ~ exposed') => Kept(placed)'
  BY <1>1, <1>2, SameBlock DEF TypeInv
<1> QED
  BY <1>1, <1>5, <1>6, <1>7, <1>8, <1>9 DEF Inv

LEMMA OptReturnInv == Inv /\ OptReturn => Inv'
<1> SUFFICES ASSUME Inv, OptReturn PROVE Inv'
  OBVIOUS
<1>1. /\ block' = block /\ pass' = pass /\ tb' = tb /\ exposed' = exposed /\ const' = const
      /\ node' = node /\ cur' = cur /\ pc = "opt" /\ pc' = "visit" /\ (AtEnd \/ Branch)
  BY DEF OptReturn
<1>2. TypeInv /\ Place
  BY <1>1 DEF Inv
<1>3. TypeInv' /\ Place'
  BY <1>1, <1>2 DEF TypeInv, Place, AtEnd, Branch, Insn
<1>4. /\ Behind(tb.insns)' = Behind(Decoded(block).insns)'
      /\ \A placed \in BOOLEAN : (placed => ~ exposed') => Kept(placed)'
  BY <1>1, <1>2, SameBlock DEF TypeInv
<1>5. \A placed \in BOOLEAN : (placed => ~ exposed') => Believed(placed)'
  BY <1>1 DEF Inv, Believed
<1> QED
  BY <1>3, <1>4, <1>5 DEF Inv

LEMMA StutterInv == Inv /\ UNCHANGED vars => Inv'
BY DEF Inv, vars, TypeInv, Place, Kept, Believed, AtEnd, Branch, Insn

LEMMA AlwaysInv == Spec => []Inv
<1>1. Inv /\ [Next]_vars => Inv'
  <2> SUFFICES ASSUME Inv, [Next]_vars PROVE Inv'
    OBVIOUS
  <2>1. CASE UNCHANGED vars
    BY <2>1, StutterInv
  <2> QED
    BY <2>1, FirstLoadInv, VisitStepInv, VisitDoneInv, ReplaceLoadInv, LearnLoadInv,
       OptStepInv, OptReturnInv DEF Next
<1> QED
  BY <1>1, InitInv, PTL DEF Spec

-----------------------------------------------------------------------------
(* The theorems.                                                           *)

(* In every block, the node a pass is at and the index it counts agree     *)
(* after every substitution, and what the file recorded about instructions *)
(* is still about them.                                                    *)
THEOREM AlwaysInStep == Spec => []InStep
<1>1. Inv => InStep
  <2> SUFFICES ASSUME Inv PROVE InStep
    OBVIOUS
  <2>1. TypeInv
    BY DEF Inv
  <2> QED
    BY <2>1, InvFacts, FitIsAnchored DEF TypeInv, InStep
<1> QED
  BY <1>1, AlwaysInv, PTL

(* Whatever has been replaced, every register and every store is what it   *)
(* was with the block as the file holds it: ConstRegSet is right about     *)
(* each register it says anything about, in every block, for immediates of *)
(* every width.                                                            *)
THEOREM AlwaysRegistersKept == Spec => []RegistersKept
<1>1. Inv => RegistersKept
  BY DEF Inv, Kept, RegistersKept
<1> QED
  BY <1>1, AlwaysInv, PTL

(* The same wherever the loader places the relocated constants, as long as *)
(* no relocated load has been taken for a constant.                        *)
THEOREM AlwaysKeptWhereverPlaced == Spec => []KeptWhereverPlaced
<1>1. Inv => KeptWhereverPlaced
  BY DEF Inv, Kept, KeptWhereverPlaced
<1> QED
  BY <1>1, AlwaysInv, PTL

-----------------------------------------------------------------------------
(* Merging: the parts of a run.                                            *)

(* The remainder of a number below twice the divisor.                      *)
LEMMA Remainder ==
    \A p \in Nat : p > 0 => \A x \in 0..2 * p - 1 : x % p = IF x < p THEN x ELSE x - p
OBVIOUS

(* Which access of its part the m-th of a run is.                          *)
LEMMA InPartFacts ==
    ASSUME NEW limit \in Nat \ {0}, NEW m \in Nat \ {0}
    PROVE  /\ InPart(m, limit) \in 1..limit
           /\ m <= limit => InPart(m, limit) = m
           /\ m > limit /\ m <= 2 * limit => InPart(m, limit) = m - limit
<1>1. (m - 1) % limit \in 0..limit - 1
  BY Remainders
<1>2. m <= 2 * limit => (m - 1) % limit = IF m - 1 < limit THEN m - 1 ELSE m - 1 - limit
  <2> SUFFICES ASSUME m <= 2 * limit
               PROVE  (m - 1) % limit = IF m - 1 < limit THEN m - 1 ELSE m - 1 - limit
    OBVIOUS
  <2>1. m - 1 \in 0..2 * limit - 1
    OBVIOUS
  <2> QED
    BY <2>1, Remainder
<1>3. PICK r \in Int : r = (m - 1) % limit
  BY <1>1
<1>4. InPart(m, limit) = r + 1
  BY <1>3 DEF InPart
<1> QED
  BY <1>1, <1>2, <1>3, <1>4

(* The parts of a run of total accesses are no longer than limit; where    *)
(* two are enough, one ends with the run and one at the limit.             *)
LEMMA PartLengthFacts ==
    ASSUME NEW limit \in Nat \ {0}, NEW total \in Nat, NEW m \in 1..total
    PROVE  /\ PartLength(m, total, limit) \in 1..limit
           /\ total <= 2 * limit =>
                /\ m < total /\ m # limit => InPart(m, limit) # PartLength(m, total, limit)
                /\ m = total \/ m = limit => InPart(m, limit) = PartLength(m, total, limit)
<1>0. m \in Nat \ {0} /\ m <= total
  OBVIOUS
<1>1. PICK k : k = InPart(m, limit)
  OBVIOUS
<1>2. /\ k \in 1..limit
      /\ m <= limit => k = m
      /\ m > limit /\ m <= 2 * limit => k = m - limit
  BY <1>0, <1>1, InPartFacts
<1>6. k <= m
  BY <1>0, <1>2
<1>3. PICK n : n = PartLength(m, total, limit)
  OBVIOUS
<1>4. n = IF total - (m - k) < limit THEN total - (m - k) ELSE limit
  BY <1>1, <1>3 DEF PartLength
<1>5. n \in 1..limit
  BY <1>0, <1>2, <1>4
<1> QED
  BY <1>0, <1>1, <1>2, <1>3, <1>4, <1>5

-----------------------------------------------------------------------------
(* Runs.                                                                   *)

(* What RunLength chooses: so many pairs on the base follow each other,    *)
(* and no pair on it follows them.                                         *)
LEMMA RunLengthFacts ==
    ASSUME NEW insns, Len(insns) \in Nat, NEW n \in Nat \ {0}, NEW opc,
           NEW c, c = RunLength(insns, n, opc)
    PROVE  /\ c \in 0..Len(insns)
           /\ \A k \in 0..c - 1 :
                IsPair(insns, n + 2 * k, opc) /\ insns[n + 2 * k].src = insns[n].src
           /\ ~ (IsPair(insns, n + 2 * c, opc) /\ insns[n + 2 * c].src = insns[n].src)
<1> DEFINE Q(k) == IsPair(insns, n + 2 * k, opc) /\ insns[n + 2 * k].src = insns[n].src
           T == {k \in Nat : ~ Q(k)}
           P(x) == (\A k \in 0..x - 1 : Q(k)) /\ ~ Q(x)
<1>1. Len(insns) \in T
  <2>1. ~ (n + 2 * Len(insns) < Len(insns))
    OBVIOUS
  <2> QED
    BY <2>1, Zenon DEF IsPair
<1>2. PICK x \in T : \A y \in T : x <= y
  <2>1. T \subseteq Nat /\ T # {}
    BY <1>1
  <2> HIDE DEF T
  <2> QED
    BY <2>1, LeastNatural
<1>3. x \in 0..Len(insns) /\ P(x)
  <2>1. x \in Nat /\ x <= Len(insns) /\ ~ Q(x)
    BY <1>1, <1>2
  <2>2. \A k \in 0..x - 1 : k \in Nat /\ ~ (x <= k)
    BY <2>1
  <2> HIDE DEF Q
  <2>3. \A k \in 0..x - 1 : Q(k)
    BY <1>2, <2>2
  <2> QED
    BY <2>1, <2>3
<1>4. c = CHOOSE y \in 0..Len(insns) : P(y)
  BY Zenon DEF RunLength
<1> HIDE DEF P
<1>5. c \in 0..Len(insns) /\ P(c)
  BY <1>3, <1>4
<1> QED
  BY <1>5 DEF P

(* And only that number is chosen.                                         *)
LEMMA RunLengthIs ==
    ASSUME NEW insns, Len(insns) \in Nat, NEW n \in Nat \ {0}, NEW opc, NEW c \in Nat,
           \A k \in 0..c - 1 :
                IsPair(insns, n + 2 * k, opc) /\ insns[n + 2 * k].src = insns[n].src,
           ~ (IsPair(insns, n + 2 * c, opc) /\ insns[n + 2 * c].src = insns[n].src)
    PROVE  RunLength(insns, n, opc) = c
<1> DEFINE Q(k) == IsPair(insns, n + 2 * k, opc) /\ insns[n + 2 * k].src = insns[n].src
<1>1. PICK x : x = RunLength(insns, n, opc)
  OBVIOUS
<1>2. x \in 0..Len(insns) /\ (\A k \in 0..x - 1 : Q(k)) /\ ~ Q(x)
  BY <1>1, RunLengthFacts
<1>3. (\A k \in 0..c - 1 : Q(k)) /\ ~ Q(c)
  OBVIOUS
<1> HIDE DEF Q
<1>4. ~ (x < c) /\ ~ (c < x)
  BY <1>2, <1>3
<1> QED
  BY <1>1, <1>2, <1>4

(* What comes after a pair of a run is a run shorter by it.                *)
LEMMA RunGoesOn ==
    ASSUME NEW insns, Len(insns) \in Nat, NEW n \in Nat \ {0}, NEW opc,
           NEW k \in Nat, k < RunLength(insns, n, opc)
    PROVE  RunLength(insns, n + 2 * k, opc) = RunLength(insns, n, opc) - k
<1>1. PICK c : c = RunLength(insns, n, opc)
  OBVIOUS
<1> DEFINE S == insns[n].src
           Q(x) == IsPair(insns, x, opc) /\ insns[x].src = S
<1>2. c \in 0..Len(insns) /\ (\A x \in 0..c - 1 : Q(n + 2 * x)) /\ ~ Q(n + 2 * c)
  BY <1>1, RunLengthFacts
<1> HIDE DEF Q
<1>3. k \in 0..c - 1 /\ c - k \in Nat /\ n + 2 * k \in Nat \ {0}
  BY <1>1, <1>2
<1>4. \A x \in 0..(c - k) - 1 : Q((n + 2 * k) + 2 * x)
  <2> SUFFICES ASSUME NEW x \in 0..(c - k) - 1 PROVE Q((n + 2 * k) + 2 * x)
    OBVIOUS
  <2>1. k + x \in 0..c - 1 /\ n + 2 * (k + x) = (n + 2 * k) + 2 * x
    BY <1>2, <1>3
  <2> QED
    BY <2>1, <1>2
<1>5. ~ Q((n + 2 * k) + 2 * (c - k))
  <2>1. n + 2 * c = (n + 2 * k) + 2 * (c - k)
    BY <1>2, <1>3
  <2> QED
    BY <2>1, <1>2
<1>6. insns[n + 2 * k].src = S
  BY <1>2, <1>3 DEF Q
<1> HIDE DEF S
<1>7. RunLength(insns, n + 2 * k, opc) = c - k
  <2> DEFINE p == n + 2 * k
             e == c - k
  <2>1. p \in Nat \ {0} /\ e \in Nat
    BY <1>3
  <2>2. /\ \A x \in 0..e - 1 : IsPair(insns, p + 2 * x, opc) /\ insns[p + 2 * x].src = insns[p].src
        /\ ~ (IsPair(insns, p + 2 * e, opc) /\ insns[p + 2 * e].src = insns[p].src)
    BY <1>4, <1>5, <1>6 DEF Q
  <2> HIDE DEF p, e
  <2>3. RunLength(insns, p, opc) = e
    BY <2>1, <2>2, RunLengthIs
  <2> QED
    BY <2>3 DEF p, e
<1> QED
  BY <1>1, <1>7

-----------------------------------------------------------------------------
(* Values, and a machine whose base is behind.                             *)

IsValue(v) == v = [of |-> v.of, plus |-> v.plus] /\ v.plus \in Int

HasValues(s) == IsState(s) /\ \A r \in Regs : IsValue(s.regs[r])

(* The values the machine makes are values, and moves of one add up.       *)
LEMMA ValueFacts ==
    /\ \A n \in Int : IsValue(Known(n))
    /\ \A name : IsValue(Unknown(name))
    /\ \A v : IsValue(v) => /\ Away(v, 0) = v
                            /\ \A n \in Int : IsValue(Away(v, n))
                            /\ \A n, m \in Int : Away(Away(v, n), m) = Away(v, n + m)
<1>1. \A v : \A n \in Int : IsValue(v) => Away(v, n) = [of |-> v.of, plus |-> v.plus + n]
  <2> SUFFICES ASSUME NEW v, NEW n \in Int, IsValue(v)
               PROVE  Away(v, n) = [of |-> v.of, plus |-> v.plus + n]
    OBVIOUS
  <2>1. PICK o, p : v = [of |-> o, plus |-> p] /\ v.of = o /\ v.plus = p
    BY Zenon DEF IsValue
  <2> QED
    BY <2>1 DEF Away
<1>2. \A o : \A p \in Int : IsValue([of |-> o, plus |-> p])
  BY DEF IsValue
<1>3. \A n \in Int : IsValue(Known(n))
  BY <1>2 DEF Known
<1>4. \A name : IsValue(Unknown(name))
  BY <1>2 DEF Unknown
<1>5. ASSUME NEW v, IsValue(v)
      PROVE  /\ Away(v, 0) = v
             /\ \A n \in Int : IsValue(Away(v, n))
             /\ \A n, m \in Int : Away(Away(v, n), m) = Away(v, n + m)
  <2>1. v.plus \in Int /\ v = [of |-> v.of, plus |-> v.plus]
    BY <1>5 DEF IsValue
  <2>2. Away(v, 0) = v
    <3>1. Away(v, 0) = [of |-> v.of, plus |-> v.plus + 0]
      BY <1>1, <1>5
    <3>2. v.plus + 0 = v.plus
      BY <2>1
    <3> QED
      BY <2>1, <3>1, <3>2, Zenon
  <2>3. \A n \in Int : v.plus + n \in Int /\ Away(v, n) = [of |-> v.of, plus |-> v.plus + n]
    BY <1>1, <1>5, <2>1
  <2>4. \A n \in Int : IsValue(Away(v, n))
    BY <2>3, <1>2
  <2>5. ASSUME NEW n \in Int, NEW m \in Int PROVE Away(Away(v, n), m) = Away(v, n + m)
    <3>1. Away(v, n).of = v.of /\ Away(v, n).plus = v.plus + n
      BY <2>3
    <3>2. Away(Away(v, n), m) = [of |-> Away(v, n).of, plus |-> Away(v, n).plus + m]
      BY <1>1, <2>4
    <3>3. Away(v, n + m) = [of |-> v.of, plus |-> v.plus + (n + m)]
      BY <2>3
    <3>4. (v.plus + n) + m = v.plus + (n + m)
      BY <2>1
    <3> QED
      BY <3>1, <3>2, <3>3, <3>4, Zenon
  <2> QED
    BY <2>2, <2>4, <2>5
<1> QED
  BY <1>3, <1>4, <1>5

(* An instruction leaves a value.                                          *)
LEMMA ResultIsValue ==
    ASSUME NEW s, HasValues(s), NEW insn \in CodeType, NEW patched
    PROVE  IsValue(Result(insn, s, patched))
<1> DEFINE src == s.regs[insn.src]
           dst == s.regs[insn.dst]
<1>1. insn.src \in Regs /\ insn.dst \in Regs /\ insn.imm \in Int
  BY DEF CodeType
<1>2. IsValue(src) /\ IsValue(dst) /\ dst.plus \in Int
  BY <1>1 DEF HasValues, IsValue
<1>3. /\ insn.imm * 2^OriBits \in Int
      /\ (dst.plus % 2^LowBits) + insn.imm * 2^LowBits \in Int
  <2>1. PICK p, q \in Nat : p = 2^OriBits /\ q = 2^LowBits /\ p > 0 /\ q > 0
    BY Widths
  <2>2. insn.imm * p \in Int /\ insn.imm * q \in Int /\ dst.plus % q \in Int
    BY <2>1, <1>1, <1>2, Remainders
  <2>3. (dst.plus % q) + insn.imm * q \in Int
    BY <2>2
  <2> QED
    BY <2>1, <2>2, <2>3
<1>4. /\ IsValue(Known(insn.imm * 2^OriBits))
      /\ IsValue(Known((dst.plus % 2^LowBits) + insn.imm * 2^LowBits))
      /\ \A j : IsValue(Placed(j))
      /\ \A id, v : IsValue(Made(id, v))
      /\ \A addr, n : IsValue(Held(addr, n))
      /\ IsValue(Away(src, insn.imm))
  BY <1>1, <1>2, <1>3, ValueFacts DEF Placed, Made, Held
<1> HIDE DEF src, dst
<1>5. Result(insn, s, patched) \in
        {Placed(CHOOSE j \in patched : TRUE), dst, Known(insn.imm * 2^OriBits), Away(src, insn.imm),
         Known((dst.plus % 2^LowBits) + insn.imm * 2^LowBits), Made(insn.id, dst),
         Held(Away(src, insn.imm), Len(s.stores)), Made(insn.id, src)}
  BY Zenon DEF Result, src, dst
<1> QED
  BY <1>2, <1>4, <1>5

(* What an instruction does, where all registers hold values.              *)
LEMMA ExecutedValues ==
    ASSUME NEW s, HasValues(s), NEW insn \in CodeType, NEW patched
    PROVE  /\ HasValues(Executed(s, insn, patched))
           /\ insn.dst # 0 => Executed(s, insn, patched).regs[insn.dst] = Result(insn, s, patched)
           /\ \A r \in Regs : r # insn.dst \/ r = 0 =>
                Executed(s, insn, patched).regs[r] = s.regs[r]
           /\ Executed(s, insn, patched).stores =
                IF insn.opc = "ST_D"
                THEN Append(s.stores, <<Away(s.regs[insn.src], insn.imm), s.regs[insn.dst]>>)
                ELSE s.stores
<1> DEFINE e == Executed(s, insn, patched)
           v == Result(insn, s, patched)
           R == s.regs
           d == insn.dst
           X == IF d = 0 THEN R ELSE [R EXCEPT ![d] = v]
           Y == IF insn.opc = "ST_D"
                THEN Append(s.stores, <<Away(s.regs[insn.src], insn.imm), s.regs[insn.dst]>>)
                ELSE s.stores
<1>1. d \in Regs /\ IsState(s) /\ \A r \in Regs : IsValue(R[r])
  BY DEF CodeType, HasValues
<1>2. IsValue(v)
  BY ResultIsValue
<1>3. e = [regs |-> X, stores |-> Y]
  BY Zenon DEF Executed
<1>4. IsState(e)
  BY <1>1, ExecutedFacts
<1>5. DOMAIN R = Regs
  <2>1. s = [regs |-> [r \in Regs |-> R[r]], stores |-> s.stores]
    BY <1>1, Zenon DEF IsState
  <2>2. DOMAIN s.regs = Regs
    <3> DEFINE F == [r \in Regs |-> R[r]]
    <3>1. s = [regs |-> F, stores |-> s.stores] /\ DOMAIN F = Regs
      BY <2>1
    <3> HIDE DEF F
    <3>2. s.regs = F
      BY <3>1, SMT
    <3> QED
      BY <3>1, <3>2
  <2> QED
    BY <2>2
<1> HIDE DEF e, v, R, d, Y
<1>6. /\ e.regs = X /\ e.stores = Y
  BY <1>3
<1>7. d # 0 => e.regs[d] = v
  BY <1>1, <1>5, <1>6
<1>8. \A r \in Regs : r # d \/ r = 0 => e.regs[r] = R[r]
  BY <1>5, <1>6
<1>9. \A r \in Regs : IsValue(e.regs[r])
  <2> SUFFICES ASSUME NEW r \in Regs PROVE IsValue(e.regs[r])
    OBVIOUS
  <2>1. CASE r # d
    BY <2>1, <1>1, <1>8
  <2>2. CASE r = d /\ d # 0
    BY <2>2, <1>2, <1>7
  <2>3. CASE r = d /\ d = 0
    BY <2>3, <1>1, <1>6
  <2> QED
    BY <2>1, <2>2, <2>3
<1> QED
  BY <1>4, <1>6, <1>7, <1>8, <1>9 DEF HasValues, e, v, R, d, Y

(* They hold values all along.                                             *)
LEMMA StatesHaveValues ==
    ASSUME NEW insns \in Seq(CodeType), NEW rels, NEW placed
    PROVE  \A k \in 0..Len(insns) : HasValues(States(insns, rels, placed)[k])
<1> DEFINE S == States(insns, rels, placed)
           T == {n \in Nat : n <= Len(insns) => HasValues(S[n])}
<1>1. Len(insns) \in Nat /\ \A k \in 1..Len(insns) : insns[k] \in CodeType
  BY CodeFacts
<1>2. S[0] = Start /\ \A k \in 1..Len(insns) : S[k] = Executed(S[k - 1], insns[k], Patched(rels, k - 1, placed))
  BY <1>1, StatesUnfold
<1>3. HasValues(Start)
  <2>1. IsState(Start) /\ \A r \in Regs : Start.regs[r] = Before(r)
    BY DEF IsState, Start
  <2>2. \A r : IsValue(Before(r))
    <3>1. IsValue(Known(0)) /\ \A name : IsValue(Unknown(name))
      BY ValueFacts
    <3> QED
      BY <3>1, Zenon DEF Before
  <2> QED
    BY <2>1, <2>2 DEF HasValues
<1> HIDE DEF S
<1>4. 0 \in T
  BY <1>2, <1>3
<1>5. ASSUME NEW n \in T PROVE n + 1 \in T
  <2>1. CASE n + 1 <= Len(insns)
    <3>1. n + 1 \in 1..Len(insns) /\ (n + 1) - 1 = n /\ HasValues(S[n])
      BY <1>1, <2>1
    <3>2. S[n + 1] = Executed(S[n], insns[n + 1], Patched(rels, n, placed)) /\ insns[n + 1] \in CodeType
      BY <1>1, <1>2, <3>1
    <3>3. HasValues(Executed(S[n], insns[n + 1], Patched(rels, n, placed)))
      BY <3>1, <3>2, ExecutedValues
    <3>4. HasValues(S[n + 1])
      BY <3>2, <3>3, Zenon
    <3> QED
      BY <3>4, <1>1
  <2> QED
    BY <1>1, <2>1
<1>6. T = Nat
  <2> HIDE DEF T
  <2> QED
    BY <1>4, <1>5, NatInduct DEF T
<1> QED
  BY <1>1, <1>6 DEF S

(* State y is state x but that its register b is q short.                  *)
BehindBy(y, x, b, q) ==
    /\ HasValues(y) /\ HasValues(x)
    /\ y.stores = x.stores
    /\ \A r \in Regs : r # b => y.regs[r] = x.regs[r]
    /\ Away(y.regs[b], q) = x.regs[b]

(* A state that is nothing short is the state itself.                      *)
LEMMA NotBehind ==
    ASSUME NEW y, NEW x, NEW b \in Regs
    PROVE  /\ BehindBy(y, x, b, 0) => y = x
           /\ HasValues(x) => BehindBy(x, x, b, 0)
<1>1. HasValues(x) => BehindBy(x, x, b, 0)
  BY ValueFacts DEF HasValues, BehindBy
<1>2. ASSUME BehindBy(y, x, b, 0) PROVE y = x
  <2>1. \A r \in Regs : y.regs[r] = x.regs[r]
    BY <1>2, ValueFacts DEF HasValues, BehindBy
  <2>2. /\ y = [regs |-> [r \in Regs |-> y.regs[r]], stores |-> y.stores]
        /\ x = [regs |-> [r \in Regs |-> x.regs[r]], stores |-> x.stores]
        /\ y.stores = x.stores
    BY <1>2, Zenon DEF HasValues, BehindBy, IsState
  <2>3. [r \in Regs |-> y.regs[r]] = [r \in Regs |-> x.regs[r]]
    BY <2>1
  <2> QED
    BY <2>2, <2>3, Zenon
<1> QED
  BY <1>1, <1>2

(* An access from a base that is q short, with an offset that is q more,   *)
(* is the access from the base.                                            *)
LEMMA AccessBehind ==
    ASSUME NEW y, NEW x, NEW b \in Regs, b # 0, NEW q \in Int, BehindBy(y, x, b, q),
           NEW e \in CodeType, NEW f \in CodeType, e.opc \in {"ST_D", "LD_D"},
           f.opc = e.opc, f.dst = e.dst, f.src = e.src, f.imm = e.imm + q,
           e.src = b, e.dst # b \/ q = 0
    PROVE  BehindBy(Executed(y, f, {}), Executed(x, e, {}), b, q)
<1> DEFINE X == Executed(x, e, {})
           Y == Executed(y, f, {})
           d == e.dst
           rx == Result(e, x, {})
           ry == Result(f, y, {})
           sx == IF e.opc = "ST_D" THEN Append(x.stores, <<Away(x.regs[b], e.imm), x.regs[d]>>) ELSE x.stores
           sy == IF e.opc = "ST_D" THEN Append(y.stores, <<Away(y.regs[b], f.imm), y.regs[d]>>) ELSE y.stores
<1>1. /\ HasValues(X) /\ HasValues(Y)
      /\ d # 0 => X.regs[d] = rx /\ Y.regs[d] = ry
      /\ \A r \in Regs : r # d \/ r = 0 => X.regs[r] = x.regs[r] /\ Y.regs[r] = y.regs[r]
      /\ X.stores = sx /\ Y.stores = sy
  BY ExecutedValues DEF BehindBy
<1>2. /\ d \in Regs /\ e.imm \in Int
      /\ IsValue(y.regs[b]) /\ Away(y.regs[b], q) = x.regs[b]
      /\ \A r \in Regs : r # b => y.regs[r] = x.regs[r]
      /\ y.stores = x.stores
  BY DEF BehindBy, HasValues, CodeType
<1>3. Away(y.regs[b], f.imm) = Away(x.regs[b], e.imm)
  <2>1. q + e.imm = f.imm
    BY <1>2
  <2>2. Away(Away(y.regs[b], q), e.imm) = Away(y.regs[b], q + e.imm)
    BY <1>2, ValueFacts, ZenonT(40)
  <2> QED
    BY <2>1, <2>2, <1>2
<1>4. y.regs[d] = x.regs[d]
  BY <1>2, ValueFacts
<1>5. sx = sy
  BY <1>2, <1>3, <1>4, Zenon
<1>6. rx = ry
  <2>1. CASE e.opc = "ST_D"
    <3>1. rx = x.regs[d] /\ ry = y.regs[d]
      BY <2>1 DEF Result
    <3> QED
      BY <3>1, <1>4
  <2>2. CASE e.opc = "LD_D"
    <3>1. rx = Held(Away(x.regs[b], e.imm), Len(x.stores)) /\ ry = Held(Away(y.regs[b], f.imm), Len(y.stores))
      BY <2>2 DEF Result
    <3> QED
      BY <3>1, <1>2, <1>3
  <2> QED
    BY <2>1, <2>2
<1> HIDE DEF X, Y, rx, ry, sx, sy
<1>7. \A r \in Regs : r # b => Y.regs[r] = X.regs[r]
  <2> SUFFICES ASSUME NEW r \in Regs, r # b PROVE Y.regs[r] = X.regs[r]
    OBVIOUS
  <2>1. CASE r # d \/ r = 0
    BY <2>1, <1>1, <1>2
  <2>2. CASE r = d /\ d # 0
    BY <2>2, <1>1, <1>6
  <2> QED
    BY <2>1, <2>2
<1>8. Away(Y.regs[b], q) = X.regs[b]
  <2>1. CASE d # b
    BY <2>1, <1>1, <1>2
  <2>2. CASE d = b
    <3>1. q = 0 /\ X.regs[b] = rx /\ Y.regs[b] = ry
      BY <2>2, <1>1
    <3>2. IsValue(Y.regs[b])
      BY <1>1 DEF HasValues
    <3> QED
      BY <3>1, <3>2, <1>6, ValueFacts
  <2> QED
    BY <2>1, <2>2
<1>9. X.stores = Y.stores
  BY <1>1, <1>5
<1> QED
  BY <1>1, <1>7, <1>8, <1>9 DEF BehindBy, X, Y

(* The step of the base left out, and all of them made up for.             *)
LEMMA StepBehind ==
    ASSUME NEW y, NEW x, NEW b \in Regs, b # 0, NEW q \in Int, BehindBy(y, x, b, q),
           NEW e \in CodeType, e.opc = "ADDI_D", e.dst = b, e.src = b
    PROVE  /\ BehindBy(y, Executed(x, e, {}), b, q + e.imm)
           /\ \A f \in CodeType :
                f.opc = "ADDI_D" /\ f.dst = b /\ f.src = b /\ f.imm = q + e.imm
                    => BehindBy(Executed(y, f, {}), Executed(x, e, {}), b, 0)
<1> DEFINE X == Executed(x, e, {})
<1>1. /\ e.imm \in Int /\ HasValues(x) /\ HasValues(y) /\ IsValue(y.regs[b])
      /\ Away(y.regs[b], q) = x.regs[b] /\ y.stores = x.stores
      /\ \A r \in Regs : r # b => y.regs[r] = x.regs[r]
  BY DEF BehindBy, HasValues, CodeType
<1>2. Away(y.regs[b], q + e.imm) = Away(x.regs[b], e.imm)
  <2>1. Away(Away(y.regs[b], q), e.imm) = Away(y.regs[b], q + e.imm)
    BY <1>1, ValueFacts, ZenonT(40)
  <2> QED
    BY <2>1, <1>1
<1>3. ASSUME NEW s, HasValues(s), NEW f \in CodeType, f.opc = "ADDI_D", f.dst = b, f.src = b
      PROVE  /\ HasValues(Executed(s, f, {}))
             /\ Executed(s, f, {}).regs[b] = Away(s.regs[b], f.imm)
             /\ \A r \in Regs : r # b => Executed(s, f, {}).regs[r] = s.regs[r]
             /\ Executed(s, f, {}).stores = s.stores
  <2> DEFINE E == Executed(s, f, {})
  <2>1. Result(f, s, {}) = Away(s.regs[b], f.imm)
    BY <1>3 DEF Result
  <2>2. /\ HasValues(E)
        /\ f.dst # 0 => E.regs[f.dst] = Result(f, s, {})
        /\ \A r \in Regs : r # f.dst \/ r = 0 => E.regs[r] = s.regs[r]
        /\ E.stores = IF f.opc = "ST_D"
                      THEN Append(s.stores, <<Away(s.regs[f.src], f.imm), s.regs[f.dst]>>)
                      ELSE s.stores
    BY <1>3, ExecutedValues, ZenonT(40)
  <2> HIDE DEF E
  <2>3. E.regs[b] = Away(s.regs[b], f.imm) /\ E.stores = s.stores
    BY <2>1, <2>2, <1>3
  <2>4. \A r \in Regs : r # b => E.regs[r] = s.regs[r]
    BY <2>2, <1>3
  <2> QED
    BY <2>2, <2>3, <2>4 DEF E
<1>4. /\ HasValues(X) /\ X.regs[b] = Away(x.regs[b], e.imm) /\ X.stores = x.stores
      /\ \A r \in Regs : r # b => X.regs[r] = x.regs[r]
  BY <1>1, <1>3
<1> HIDE DEF X
<1>5. BehindBy(y, X, b, q + e.imm)
  BY <1>1, <1>2, <1>4 DEF BehindBy
<1>6. ASSUME NEW f \in CodeType, f.opc = "ADDI_D", f.dst = b, f.src = b, f.imm = q + e.imm
      PROVE  BehindBy(Executed(y, f, {}), X, b, 0)
  <2> DEFINE Y == Executed(y, f, {})
  <2>1. /\ HasValues(Y) /\ Y.regs[b] = Away(y.regs[b], f.imm) /\ Y.stores = y.stores
        /\ \A r \in Regs : r # b => Y.regs[r] = y.regs[r]
    BY <1>1, <1>3, <1>6
  <2> HIDE DEF Y
  <2>2. Y.regs[b] = X.regs[b]
    BY <2>1, <1>2, <1>4, <1>6
  <2>3. Away(Y.regs[b], 0) = X.regs[b]
    BY <2>1, <2>2, ValueFacts DEF HasValues
  <2>4. Y.stores = X.stores /\ \A r \in Regs : r # b => Y.regs[r] = X.regs[r]
    BY <2>1, <1>1, <1>4
  <2> QED
    BY <2>1, <2>3, <2>4, <1>4 DEF BehindBy, Y
<1> QED
  BY <1>5, <1>6 DEF X

(* One instruction replaced by another that is a branch of no other class. *)
LEMMA InsnPut ==
    ASSUME NEW v, NEW blk, Fit(v, blk), NEW n \in 1..Len(v.insns), NEW new \in CodeType,
           new.id = v.insns[n].id,
           \A c \in BranchClasses : new.opc = c <=> v.insns[n].opc = c,
           NEW u, u = [v EXCEPT !.insns = [v.insns EXCEPT ![n] = new]]
    PROVE  /\ Fit(u, blk)
           /\ Len(u.insns) = Len(v.insns) /\ u.insns[n] = new
           /\ \A k \in 1..Len(v.insns) : k # n => u.insns[k] = v.insns[k]
           /\ u.rels = v.rels
<1>1. Fit(v, blk)
  OBVIOUS
<1>4. v \in ObjectType
  BY DEF Fit
<1>5. /\ v.insns \in Seq(CodeType) /\ Len(v.insns) \in Nat /\ DOMAIN v.insns = 1..Len(v.insns)
  BY <1>4, ObjectFacts
<1>9. /\ u.branches = v.branches /\ u.rels = v.rels /\ u.linked = v.linked /\ u.target = v.target
      /\ u.insns = [v.insns EXCEPT ![n] = new]
  BY <1>4 DEF ObjectType
<1>10. /\ u.insns \in Seq(CodeType) /\ Len(u.insns) = Len(v.insns)
       /\ u.insns[n] = new
       /\ \A k \in 1..Len(v.insns) : k # n => u.insns[k] = v.insns[k]
  <2> DEFINE s == v.insns
             q == u.insns
  <2>1. s \in Seq(CodeType) /\ n \in 1..Len(s) /\ new \in CodeType /\ q = [s EXCEPT ![n] = new]
    BY <1>5, <1>9
  <2> HIDE DEF s, q
  <2>2. q \in Seq(CodeType) /\ Len(q) = Len(s)
    BY <2>1, ExceptSeq
  <2>3. q[n] = new /\ \A k \in 1..Len(s) : k # n => q[k] = s[k]
    BY <2>1, LenProperties
  <2> QED
    BY <2>2, <2>3 DEF s, q
<1>11. \A k \in 1..Len(v.insns) : u.insns[k].id = v.insns[k].id
  BY <1>10
<1>12. \A k \in 1..Len(v.insns) : \A c \in BranchClasses : u.insns[k].opc = c <=> v.insns[k].opc = c
  BY <1>10
<1>13. u \in ObjectType
  BY <1>4, <1>9, <1>10 DEF ObjectType
<1>14. OwnBranches(u, blk)
  <2> SUFFICES ASSUME NEW k \in 1..Len(u.insns)
               PROVE  /\ u.insns[k].id \in 1..Len(blk.code)
                      /\ \A c \in BranchClasses :
                            u.insns[k].opc = c <=> blk.code[u.insns[k].id].opc = c
    BY DEF OwnBranches
  <2>1. k \in 1..Len(v.insns) /\ u.insns[k].id = v.insns[k].id
    BY <1>10, <1>11
  <2>2. \A c \in BranchClasses : u.insns[k].opc = c <=> v.insns[k].opc = c
    BY <2>1, <1>12
  <2>3. /\ v.insns[k].id \in 1..Len(blk.code)
        /\ \A c \in BranchClasses : v.insns[k].opc = c <=> blk.code[v.insns[k].id].opc = c
    BY <2>1, <1>1 DEF Fit, OwnBranches
  <2> QED
    BY <2>1, <2>2, <2>3
<1>15. IdsDistinct(u)
  <2>1. IdsDistinct(v)
    BY <1>1 DEF Fit
  <2> QED
    BY <2>1, <1>10, <1>11 DEF IdsDistinct
<1>16. RelsOn(u, blk)
  <2>1. RelsOn(v, blk)
    BY <1>1 DEF Fit
  <2>2. SUFFICES ASSUME NEW j \in DOMAIN blk.rels PROVE RelOn(u, blk, j)
    BY <2>1, <1>9 DEF RelsOn
  <2>3. RelOn(v, blk, j) /\ j \in DOMAIN v.rels
    BY <2>1 DEF RelsOn
  <2>4. v.rels[j].off \in Nat /\ v.rels[j].slots \in Nat \ {0}
    BY <1>4, <2>3, ObjectFacts
  <2>5. ASSUME v.rels[j].valid, NEW s \in 0..v.rels[j].slots - 1
        PROVE  u.insns[v.rels[j].off + s + 1].id = blk.rels[j].off + s + 1
    <3>1. v.rels[j].off + v.rels[j].slots <= Len(v.insns)
      BY <2>3, <2>5 DEF RelOn
    <3>2. v.rels[j].off + s + 1 \in 1..Len(v.insns)
      <4>1. \A f, m, z \in Nat : \A g \in Int : g \in 0..m - 1 /\ f + m <= z => f + g + 1 \in 1..z
        OBVIOUS
      <4>2. s \in Int /\ v.rels[j].slots \in Nat
        BY <2>4
      <4> QED
        BY <3>1, <2>4, <4>1, <4>2, <1>5
    <3>3. v.insns[v.rels[j].off + s + 1].id = blk.rels[j].off + s + 1
      BY <2>3, <2>5 DEF RelOn
    <3> QED
      BY <3>2, <3>3, <1>11
  <2>6. ASSUME ~ v.rels[j].valid
        PROVE  \E s \in 0..blk.rels[j].slots - 1 :
                    \A k \in 1..Len(u.insns) : u.insns[k].id # blk.rels[j].off + s + 1
    <3>1. PICK s \in 0..blk.rels[j].slots - 1 :
                \A k \in 1..Len(v.insns) : v.insns[k].id # blk.rels[j].off + s + 1
      BY <2>3, <2>6 DEF RelOn
    <3>2. \A k \in 1..Len(u.insns) : u.insns[k].id # blk.rels[j].off + s + 1
      BY <3>1, <1>10, <1>11
    <3> QED
      BY <3>2
  <2> QED
    BY <2>3, <2>5, <2>6, <1>9, <1>10 DEF RelOn
<1>17. JumpsOn(u, blk)
  <2>1. JumpsOn(v, blk) /\ \A d1 \in Jumps : v.target[d1] \in Nat
    BY <1>1, <1>4, ObjectFacts DEF Fit
  <2>2. \A x \in Nat : x < Len(v.insns) => x + 1 \in 1..Len(v.insns)
    BY <1>5
  <2>3. u.linked = blk.linked
    BY <2>1, <1>9 DEF JumpsOn
  <2>4. ASSUME NEW j \in Jumps, u.linked[j]
        PROVE  u.target[j] < Len(u.insns) /\ u.insns[u.target[j] + 1].id = blk.target[j] + 1
    <3>1. v.linked[j] /\ u.target[j] = v.target[j]
      BY <2>4, <1>9
    <3>2. v.target[j] < Len(v.insns) /\ v.insns[v.target[j] + 1].id = blk.target[j] + 1
      BY <2>1, <3>1 DEF JumpsOn
    <3>3. v.target[j] + 1 \in 1..Len(v.insns)
      BY <2>1, <2>2, <3>2
    <3> QED
      BY <3>1, <3>2, <3>3, <1>10, <1>11
  <2> QED
    BY <2>3, <2>4 DEF JumpsOn
<1>18. BranchesOn(u, blk)
  <2> SUFFICES ASSUME NEW c \in BranchClasses, NEW e \in DOMAIN u.branches[c]
               PROVE  /\ u.branches[c][e].off < Len(u.insns)
                      /\ u.insns[u.branches[c][e].off + 1].id = u.branches[c][e].insn
                      /\ blk.code[u.branches[c][e].insn].opc = c
    BY DEF BranchesOn
  <2> DEFINE x == v.branches[c][e].off
  <2>1. e \in DOMAIN v.branches[c] /\ u.branches[c][e] = v.branches[c][e]
    BY <1>9
  <2>2. /\ x < Len(v.insns) /\ v.insns[x + 1].id = v.branches[c][e].insn
        /\ blk.code[v.branches[c][e].insn].opc = c
    <3>1. BranchesOn(v, blk)
      BY <1>1 DEF Fit
    <3> QED
      BY <2>1, <3>1 DEF BranchesOn
  <2>3. x \in Nat
    BY <2>1, <1>4, ObjectFacts
  <2>4. u.branches[c][e].off = x
    BY <2>1
  <2> HIDE DEF x
  <2>5. x + 1 \in 1..Len(v.insns)
    BY <2>2, <2>3, <1>5
  <2> QED
    BY <2>1, <2>2, <2>4, <2>5, <1>10, <1>11
<1>19. Fit(u, blk)
  BY <1>13, <1>14, <1>15, <1>16, <1>17, <1>18 DEF Fit
<1> QED
  BY <1>9, <1>10, <1>19

(* The immediate alone is put.                                             *)
WithImm(t, p, x) == [t EXCEPT !.insns[p].imm = x]

(* Block u is t but for the immediate at position p.                       *)
ImmPut(t, p, x, u) ==
    /\ Len(u.insns) = Len(t.insns) /\ u.rels = t.rels
    /\ u.insns[p] = [t.insns[p] EXCEPT !.imm = x]
    /\ \A k \in 1..Len(t.insns) : k # p => u.insns[k] = t.insns[k]

(* A new offset or step, written into an instruction of no branch class,   *)
(* leaves the block fitting.                                               *)
LEMMA WithImmFits ==
    ASSUME NEW t, NEW blk, Fit(t, blk), NEW p \in 1..Len(t.insns), NEW x \in Int,
           NEW u, u = WithImm(t, p, x)
    PROVE  Fit(u, blk) /\ ImmPut(t, p, x, u)
<1> DEFINE new == [t.insns[p] EXCEPT !.imm = x]
<1>1. t.insns[p] \in CodeType
  BY ObjectFacts, CodeFacts DEF Fit
<1>2. new \in CodeType /\ new.id = t.insns[p].id /\ new.opc = t.insns[p].opc
  BY <1>1 DEF CodeType
<1>3. u = [t EXCEPT !.insns = [t.insns EXCEPT ![p] = new]]
  BY Zenon DEF WithImm
<1> HIDE DEF new
<1>4. /\ Fit(u, blk)
      /\ Len(u.insns) = Len(t.insns) /\ u.insns[p] = new
      /\ \A k \in 1..Len(t.insns) : k # p => u.insns[k] = t.insns[k]
      /\ u.rels = t.rels
  <2>1. \A c \in BranchClasses : new.opc = c <=> t.insns[p].opc = c
    BY <1>2
  <2> QED
    BY <1>2, <1>3, <2>1, InsnPut
<1> QED
  BY <1>4 DEF ImmPut, new

(* No branch and no valid relocation at index i and behind it up to index  *)
(* n - 1: there a deletion may be told the wrong index.                    *)
PlainFrom(t, i, n) ==
    /\ \A k \in i..n - 1 : ~ InRel(t, k)
    /\ \A k \in i + 1..n : t.insns[k].opc \notin BranchClasses

(* Where only plain instructions lie between the index and the node, a     *)
(* deletion with the index is the deletion with the place of the node:     *)
(* nothing is recorded between the two.                                    *)
LEMMA IndexMayLag ==
    ASSUME NEW blk, WellFormedBlock(blk), NEW t, Fit(t, blk), NEW n \in 1..Len(t.insns),
           NEW i \in 0..n - 1, PlainFrom(t, i, n)
    PROVE  RemoveInsn(t, n, i) = RemoveInsn(t, n, n - 1)
<1>0. t \in ObjectType /\ Len(t.insns) \in Nat /\ n \in Nat /\ i \in Nat /\ i <= n - 1
  BY ObjectFacts DEF Fit
<1>1. \A x \in Nat : x > i /\ ~ (x > n - 1) => x + 1 \in i + 1..n /\ x \in i..n - 1 /\ x + 1 \in 1..Len(t.insns)
  BY <1>0
<1>2. \A x \in Nat : x > n - 1 => x > i
  BY <1>0
<1>3. \A c \in BranchClasses : t.insns[n].opc # c
  <2>1. n \in i + 1..n
    BY <1>0
  <2> QED
    BY <2>1 DEF PlainFrom
<1>4. ASSUME NEW c \in BranchClasses, NEW e \in DOMAIN t.branches[c]
      PROVE  t.branches[c][e].off > i <=> t.branches[c][e].off > n - 1
  <2> DEFINE x == t.branches[c][e].off
  <2>1. /\ x \in Nat /\ t.insns[x + 1].id = t.branches[c][e].insn
        /\ blk.code[t.branches[c][e].insn].opc = c
    BY <1>0, ObjectFacts DEF Fit, BranchesOn
  <2> HIDE DEF x
  <2>2. SUFFICES ASSUME x > i, ~ (x > n - 1) PROVE FALSE
    BY <1>2, <2>1 DEF x
  <2>3. x + 1 \in i + 1..n /\ x + 1 \in 1..Len(t.insns)
    BY <1>1, <2>1, <2>2
  <2>4. t.insns[x + 1].opc = c
    BY <2>1, <2>3 DEF Fit, OwnBranches
  <2> QED
    BY <2>3, <2>4 DEF PlainFrom
<1>5. DropBranch(t.branches, t.insns[n], i) = DropBranch(t.branches, t.insns[n], n - 1)
  <2>1. \A c \in BranchClasses : ShiftDown(t.branches[c], i) = ShiftDown(t.branches[c], n - 1)
    BY <1>4 DEF ShiftDown
  <2> QED
    BY <1>3, <2>1 DEF DropBranch
<1>6. ASSUME NEW j \in DOMAIN t.rels, t.rels[j].valid
      PROVE  i < t.rels[j].off <=> n - 1 < t.rels[j].off
  <2> DEFINE x == t.rels[j].off
             s == t.rels[j].slots
  <2>1. x \in Nat /\ s \in Nat \ {0}
    BY <1>0, ObjectFacts
  <2>2. \A k : x <= k /\ k < x + s => InRel(t, k)
    BY <1>6 DEF InRel, ValidAt, Covers
  <2> HIDE DEF x, s
  <2>3. SUFFICES ASSUME i < x, ~ (n - 1 < x) PROVE FALSE
    BY <1>0, <2>1 DEF x
  <2>4. x \in i..n - 1 /\ x <= x /\ x < x + s
    BY <2>1, <2>3, <1>0
  <2> QED
    BY <2>2, <2>4 DEF PlainFrom
<1>7. RelsAfterRemove(t.rels, i) = RelsAfterRemove(t.rels, n - 1)
  BY <1>6 DEF RelsAfterRemove
<1>8. ASSUME NEW d \in Jumps, t.linked[d]
      PROVE  t.target[d] > i <=> t.target[d] > n - 1
  <2> DEFINE x == t.target[d]
  <2>1. /\ x \in Nat /\ t.insns[x + 1].id = blk.target[d] + 1 /\ blk.linked[d]
    BY <1>0, <1>8, ObjectFacts DEF Fit, JumpsOn
  <2>2. blk.code[blk.target[d] + 1].opc = "B"
    BY <2>1 DEF WellFormedBlock
  <2> HIDE DEF x
  <2>3. SUFFICES ASSUME x > i, ~ (x > n - 1) PROVE FALSE
    BY <1>2, <2>1 DEF x
  <2>4. x + 1 \in i + 1..n /\ x + 1 \in 1..Len(t.insns)
    BY <1>1, <2>1, <2>3
  <2>5. t.insns[x + 1].opc = "B"
    BY <2>1, <2>2, <2>4 DEF Fit, OwnBranches, BranchClasses
  <2> QED
    BY <2>4, <2>5 DEF PlainFrom, BranchClasses
<1>9. [d \in Jumps |-> IF t.linked[d] /\ t.target[d] > i THEN t.target[d] - 1 ELSE t.target[d]] =
      [d \in Jumps |-> IF t.linked[d] /\ t.target[d] > n - 1 THEN t.target[d] - 1 ELSE t.target[d]]
  BY <1>8
<1> QED
  BY <1>5, <1>7, <1>9, Zenon DEF RemoveInsn

(* So delete_ith_insn deletes there as told the right index, and as if it  *)
(* had no relocation to look for.                                          *)
LEMMA DeletedNearby ==
    ASSUME NEW blk, WellFormedBlock(blk), NEW t, Fit(t, blk), NEW n \in 1..Len(t.insns),
           NEW i \in 0..n - 1, PlainFrom(t, i, n),
           NEW u, u = DeleteIthInsn(t, n, i)
    PROVE  Fit(u, blk) /\ Shorter(t, n - 1, 1, u) /\ SamePatches(t, n - 1, 1, u) /\ u # t
<1>0. t \in ObjectType /\ Len(t.insns) \in Nat /\ n \in Nat /\ i \in Nat /\ i <= n - 1
  BY ObjectFacts DEF Fit
<1>1. ~ InRel(t, i) /\ ~ InRel(t, n - 1) /\ t.insns[n].opc \notin BranchClasses
  <2>1. i \in i..n - 1 /\ n - 1 \in i..n - 1 /\ n \in i + 1..n
    BY <1>0
  <2> QED
    BY <2>1 DEF PlainFrom
<1>2. u = RemoveInsn(t, n, n - 1)
  BY <1>1, IndexMayLag DEF DeleteIthInsn
<1>3. InvalidateRelAt(t, n - 1) = t
  <2>1. \A j \in DOMAIN t.rels : ~ FirstRelAt(t, j, n - 1)
    BY <1>1 DEF FirstRelAt, InRel
  <2>2. \A j \in DOMAIN t.rels :
            [t.rels[j] EXCEPT !.valid = @ /\ ~ FirstRelAt(t, j, n - 1)] = t.rels[j]
    <3> SUFFICES ASSUME NEW j \in DOMAIN t.rels
                 PROVE  [t.rels[j] EXCEPT !.valid = @ /\ ~ FirstRelAt(t, j, n - 1)] = t.rels[j]
      OBVIOUS
    <3>1. t.rels[j] \in RelType /\ ~ FirstRelAt(t, j, n - 1)
      BY <1>0, <2>1, ObjectFacts
    <3>2. (t.rels[j].valid /\ ~ FirstRelAt(t, j, n - 1)) = t.rels[j].valid
      BY <3>1 DEF RelType
    <3> QED
      BY <3>1, <3>2 DEF RelType
  <2>3. [j \in DOMAIN t.rels |-> [t.rels[j] EXCEPT !.valid = @ /\ ~ FirstRelAt(t, j, n - 1)]] = t.rels
    <3>1. t.rels = [j \in DOMAIN t.rels |-> t.rels[j]]
      BY <1>0, LenProperties DEF ObjectType
    <3> QED
      BY <2>2, <3>1
  <2>4. [t EXCEPT !.rels = t.rels] = t
    BY <1>0 DEF ObjectType
  <2> QED
    BY <2>3, <2>4, Zenon DEF InvalidateRelAt
<1>4. u = DeleteIthInsnAlongWithRel(t, (n - 1) + 1, n - 1)
  <2>1. (n - 1) + 1 = n
    BY <1>0
  <2> QED
    BY <1>2, <1>3, <2>1 DEF DeleteIthInsnAlongWithRel
<1>5. Fit(u, blk) /\ Shorter(t, n - 1, 1, u) /\ SamePatches(t, n - 1, 1, u)
  <2> DEFINE m == n - 1
  <2>1. m \in Nat /\ m < Len(t.insns) /\ m + 1 = n
    BY <1>0
  <2>2. t.insns[m + 1].opc \notin BranchClasses /\ ~ InRel(t, m)
    BY <1>1, <2>1
  <2>3. u = DeleteIthInsnAlongWithRel(t, m + 1, m)
    BY <1>4
  <2> HIDE DEF m
  <2>4. Fit(u, blk) /\ Shorter(t, m, 1, u) /\ SamePatches(t, m, 1, u)
    BY <2>1, <2>2, <2>3, OneDeletion
  <2> QED
    BY <2>4 DEF m
<1>6. u # t
  BY <1>0, <1>5 DEF Shorter
<1> QED
  BY <1>5, <1>6

(* What a valid relocation covers has the identity that the relocation of  *)
(* the file covers.                                                        *)
LEMMA CoveredById ==
    ASSUME NEW blk, WellFormedBlock(blk), NEW t, Fit(t, blk), NEW i \in Nat, InRel(t, i)
    PROVE  \E j \in DOMAIN blk.rels : Covers(blk.rels[j], t.insns[i + 1].id - 1)
<1>1. PICK j \in DOMAIN t.rels : ValidAt(t, j, i)
  BY DEF InRel
<1>2. j \in DOMAIN blk.rels /\ RelOn(t, blk, j) /\ t \in ObjectType
  BY <1>1 DEF Fit, RelsOn
<1> DEFINE f == t.rels[j].off
           s == t.rels[j].slots
           o == blk.rels[j].off
<1>3. f \in Nat /\ s \in Nat /\ f <= i /\ i < f + s /\ t.rels[j].valid
  BY <1>1, <1>2, ObjectFacts DEF ValidAt, Covers
<1>4. blk.rels[j].slots = s /\ \A y \in 0..s - 1 : t.insns[f + y + 1].id = o + y + 1
  BY <1>2, <1>3 DEF RelOn
<1> HIDE DEF f, s
<1>5. PICK y \in 0..s - 1 : f + y + 1 = i + 1
  <2>1. i - f \in 0..s - 1 /\ f + (i - f) + 1 = i + 1
    BY <1>3
  <2> QED
    BY <2>1
<1>6. t.insns[i + 1].id = o + y + 1
  BY <1>4, <1>5, Zenon
<1>7. o \in Int => o <= (o + y + 1) - 1 /\ (o + y + 1) - 1 < o + s
  BY <1>3, <1>5
<1>8. o \in Int
  <2>1. blk.rels \in Seq(RelType)
    BY DEF WellFormedBlock, BlockType
  <2>2. blk.rels[j] \in RelType
    BY <1>2, <2>1, LenProperties, ElementOfSeq
  <2> QED
    BY <2>2, EntryTypes
<1> QED
  BY <1>2, <1>4, <1>6, <1>7, <1>8 DEF Covers

-----------------------------------------------------------------------------
(* The instructions a pass has ahead of it and those of the file.          *)

Accesses == {"ST_D", "LD_D"}

(* St_Addi_Vistor changes immediates of st.d and of an addi.d behind one,  *)
(* and may have deleted such an addi.d.                                    *)
Changed(code, x) ==
    \/ code[x].opc = "ST_D"
    \/ x > 1 /\ code[x - 1].opc = "ST_D" /\ code[x].opc = "ADDI_D"

GoneBehind(code, x) == code[x].opc = "ST_D" /\ code[x + 1].opc = "ADDI_D"

(* One instruction as in the file, or as the earlier pass has left it.     *)
AsInFile(insn, code, opc) ==
    /\ insn.id \in 1..Len(code)
    /\ insn.opc = code[insn.id].opc
    /\ insn.dst = code[insn.id].dst
    /\ insn.src = code[insn.id].src
    /\ insn.imm = code[insn.id].imm \/ (opc = "LD_D" /\ Changed(code, insn.id))

NextInFile(x, y, code, opc) ==
    y = x + 1 \/ (opc = "LD_D" /\ y = x + 2 /\ GoneBehind(code, x))

(* From position n on the list goes along with the code of the file up to  *)
(* its end.                                                                *)
Follows(insns, n, code, opc) ==
    /\ \A k \in n..Len(insns) : AsInFile(insns[k], code, opc)
    /\ \A k \in n..Len(insns) - 1 : NextInFile(insns[k].id, insns[k + 1].id, code, opc)
    /\ n <= Len(insns) => insns[Len(insns)].id = Len(code)

(* Where the code ahead is that of the file, a pair is a pair of the file. *)
LEMMA FollowsPair ==
    ASSUME NEW insns, Len(insns) \in Nat, NEW code, Len(code) \in Nat, NEW opc \in Accesses,
           NEW n \in Nat \ {0}, Follows(insns, n, code, opc), NEW k \in n..Len(insns),
           NEW x, x = insns[k].id
    PROVE  /\ x \in 1..Len(code) /\ insns[k].src = code[x].src
           /\ IsPair(insns, k, opc) <=> IsPair(code, x, opc)
           /\ IsPair(insns, k, opc) =>
                /\ k + 1 <= Len(insns) /\ insns[k + 1].id = x + 1
                /\ k + 2 <= Len(insns) <=> x + 2 <= Len(code)
                /\ k + 2 <= Len(insns) => insns[k + 2].id = x + 2
<1>1. AsInFile(insns[k], code, opc) /\ x \in 1..Len(code)
  BY DEF Follows, AsInFile
<1>2. k < Len(insns) =>
        /\ AsInFile(insns[k + 1], code, opc)
        /\ NextInFile(x, insns[k + 1].id, code, opc)
  <2>1. k < Len(insns) => k + 1 \in n..Len(insns) /\ k \in n..Len(insns) - 1
    OBVIOUS
  <2> QED
    BY <2>1 DEF Follows
<1>3. k + 1 < Len(insns) => NextInFile(insns[k + 1].id, insns[k + 2].id, code, opc)
  <2>1. k + 1 < Len(insns) => k + 1 \in n..Len(insns) - 1 /\ (k + 1) + 1 = k + 2
    OBVIOUS
  <2> QED
    BY <2>1 DEF Follows
<1>4. insns[Len(insns)].id = Len(code)
  BY DEF Follows
<1>5. k < Len(insns) /\ code[x].opc = opc => insns[k + 1].id = x + 1
  BY <1>2 DEF NextInFile, GoneBehind, Accesses
<1>6. code[x].opc = opc => insns[k].imm = code[x].imm
  BY <1>1 DEF AsInFile, Changed
<1>7. k < Len(insns) /\ code[x].opc = opc /\ code[x + 1].opc = "ADDI_D" =>
        insns[k + 1].imm = code[x + 1].imm
  <2> SUFFICES ASSUME k < Len(insns), code[x].opc = opc, code[x + 1].opc = "ADDI_D"
               PROVE  insns[k + 1].imm = code[x + 1].imm
    OBVIOUS
  <2>1. insns[k + 1].id = x + 1 /\ AsInFile(insns[k + 1], code, opc)
    BY <1>2, <1>5
  <2>2. opc = "LD_D" => ~ Changed(code, x + 1)
    <3>1. (x + 1) - 1 = x
      BY <1>1
    <3> QED
      BY <3>1 DEF Changed
  <2> QED
    BY <2>1, <2>2 DEF AsInFile
<1>8. /\ insns[k].opc = code[x].opc /\ insns[k].src = code[x].src
      /\ k < Len(insns) /\ code[x].opc = opc =>
            /\ x + 1 \in 1..Len(code)
            /\ insns[k + 1].opc = code[x + 1].opc
            /\ insns[k + 1].dst = code[x + 1].dst
            /\ insns[k + 1].src = code[x + 1].src
  BY <1>1, <1>2, <1>5 DEF AsInFile
<1>9. k = Len(insns) => x = Len(code)
  BY <1>4
<1>10. k < Len(insns) /\ code[x].opc = opc => x < Len(code)
  BY <1>1, <1>8
<1>11. IsPair(insns, k, opc) <=> IsPair(code, x, opc)
  <2>1. IsPair(insns, k, opc) => IsPair(code, x, opc)
    BY <1>6, <1>7, <1>8, <1>10 DEF IsPair
  <2>2. IsPair(code, x, opc) => k < Len(insns)
    BY <1>1, <1>9 DEF IsPair
  <2>3. IsPair(code, x, opc) => IsPair(insns, k, opc)
    BY <2>2, <1>6, <1>7, <1>8 DEF IsPair
  <2> QED
    BY <2>1, <2>3
<1>12. ASSUME IsPair(insns, k, opc)
       PROVE  /\ k + 1 <= Len(insns) /\ insns[k + 1].id = x + 1
              /\ k + 2 <= Len(insns) <=> x + 2 <= Len(code)
              /\ k + 2 <= Len(insns) => insns[k + 2].id = x + 2
  <2>1. k < Len(insns) /\ code[x].opc = opc /\ code[x + 1].opc = "ADDI_D"
    BY <1>11, <1>12 DEF IsPair
  <2>2. insns[k + 1].id = x + 1
    BY <2>1, <1>5
  <2>3. k + 2 <= Len(insns) => insns[k + 2].id = (x + 1) + 1
    BY <2>1, <2>2, <1>3 DEF NextInFile, GoneBehind
  <2>4. k + 2 <= Len(insns) => x + 2 <= Len(code)
    <3>1. k + 2 <= Len(insns) => k + 2 \in n..Len(insns)
      OBVIOUS
    <3>2. k + 2 <= Len(insns) => insns[k + 2].id \in 1..Len(code)
      BY <3>1 DEF Follows, AsInFile
    <3> QED
      BY <3>2, <2>3, <1>1
  <2>5. ~ (k + 2 <= Len(insns)) => ~ (x + 2 <= Len(code))
    <3>1. ~ (k + 2 <= Len(insns)) => k + 1 = Len(insns)
      BY <2>1
    <3>2. ~ (k + 2 <= Len(insns)) => x + 1 = Len(code)
      BY <3>1, <2>2, <1>4
    <3> QED
      BY <3>2, <1>1
  <2> QED
    BY <2>1, <2>2, <2>3, <2>4, <2>5, <1>1, SMTT(30)
<1> QED
  BY <1>1, <1>8, <1>11, <1>12

(* A run in the list is a run in the file, and as long.                    *)
LEMMA FollowsRun ==
    ASSUME NEW insns, Len(insns) \in Nat, NEW code, Len(code) \in Nat, NEW opc \in Accesses,
           NEW n \in Nat \ {0}, Follows(insns, n, code, opc), n <= Len(insns),
           NEW x, x = insns[n].id, NEW c, c = RunLength(insns, n, opc)
    PROVE  /\ x \in 1..Len(code) /\ c \in Nat /\ RunLength(code, x, opc) = c
           /\ \A j \in 0..c - 1 :
                /\ IsPair(insns, n + 2 * j, opc) /\ insns[n + 2 * j].src = insns[n].src
                /\ n + 2 * j + 1 <= Len(insns)
                /\ insns[n + 2 * j].id = x + 2 * j /\ insns[n + 2 * j + 1].id = x + 2 * j + 1
           /\ n + 2 * c <= Len(insns) <=> x + 2 * c <= Len(code)
           /\ n + 2 * c <= Len(insns) => insns[n + 2 * c].id = x + 2 * c
<1> DEFINE Along(j) == /\ n + 2 * j <= Len(insns) <=> x + 2 * j <= Len(code)
                       /\ n + 2 * j <= Len(insns) => insns[n + 2 * j].id = x + 2 * j
           T == {j \in Nat : j <= c => Along(j)}
<1>1. /\ c \in 0..Len(insns)
      /\ \A k \in 0..c - 1 :
            IsPair(insns, n + 2 * k, opc) /\ insns[n + 2 * k].src = insns[n].src
      /\ ~ (IsPair(insns, n + 2 * c, opc) /\ insns[n + 2 * c].src = insns[n].src)
  BY RunLengthFacts
<1>2. n \in n..Len(insns) /\ x \in 1..Len(code) /\ insns[n].src = code[x].src
  <2>1. n \in n..Len(insns)
    OBVIOUS
  <2> QED
    BY <2>1, FollowsPair
<1>3. 0 \in T
  BY <1>2
<1>4. ASSUME NEW j \in 0..c - 1, Along(j)
      PROVE  /\ n + 2 * j + 1 <= Len(insns) /\ insns[n + 2 * j].id = x + 2 * j
             /\ insns[n + 2 * j + 1].id = x + 2 * j + 1
             /\ Along(j + 1) /\ IsPair(code, x + 2 * j, opc)
             /\ code[x + 2 * j].src = insns[n + 2 * j].src
  <2> DEFINE k == n + 2 * j
             y == x + 2 * j
  <2>1. IsPair(insns, k, opc)
    BY <1>1
  <2>2. k < Len(insns) /\ k \in n..Len(insns)
    BY <2>1, <1>1 DEF IsPair
  <2>3. insns[k].id = y
    BY <2>2, <1>4
  <2>4. /\ IsPair(code, y, opc) /\ insns[k].src = code[y].src
        /\ k + 1 <= Len(insns) /\ insns[k + 1].id = y + 1
        /\ k + 2 <= Len(insns) <=> y + 2 <= Len(code)
        /\ k + 2 <= Len(insns) => insns[k + 2].id = y + 2
    <3> HIDE DEF k, y, T, Along
    <3>1. /\ y \in 1..Len(code) /\ insns[k].src = code[y].src
          /\ IsPair(insns, k, opc) <=> IsPair(code, y, opc)
          /\ IsPair(insns, k, opc) =>
                /\ k + 1 <= Len(insns) /\ insns[k + 1].id = y + 1
                /\ k + 2 <= Len(insns) <=> y + 2 <= Len(code)
                /\ k + 2 <= Len(insns) => insns[k + 2].id = y + 2
      BY <2>2, <2>3, FollowsPair
    <3> QED
      BY <2>1, <3>1, Zenon
  <2>5. n + 2 * (j + 1) = k + 2 /\ x + 2 * (j + 1) = y + 2
    <3>1. n \in Int /\ x \in Int /\ j \in Int
      BY <1>1, <1>2
    <3> QED
      BY ONLY <3>1 DEF k, y
  <2> QED
    BY <2>3, <2>4, <2>5
<1>5. T = Nat
  <2>1. ASSUME NEW j \in T PROVE j + 1 \in T
    <3>1. j + 1 <= c => j \in 0..c - 1 /\ Along(j)
      BY <1>1
    <3> HIDE DEF Along
    <3> QED
      BY <3>1, <1>4
  <2> HIDE DEF T
  <2> QED
    BY <2>1, <1>3, NatInduct DEF T
<1>6. \A j \in 0..c : Along(j)
  <2> SUFFICES ASSUME NEW j \in 0..c PROVE Along(j)
    OBVIOUS
  <2>1. j \in Nat /\ j <= c
    BY <1>1
  <2>2. j \in T
    BY <1>5, <2>1, Zenon
  <2> QED
    BY <2>1, <2>2, Zenon
<1>7. \A j \in 0..c - 1 :
        /\ n + 2 * j + 1 <= Len(insns) /\ insns[n + 2 * j].id = x + 2 * j
        /\ insns[n + 2 * j + 1].id = x + 2 * j + 1
        /\ IsPair(code, x + 2 * j, opc) /\ code[x + 2 * j].src = insns[n + 2 * j].src
  <2>1. \A j \in 0..c - 1 : j \in 0..c
    BY <1>1
  <2> HIDE DEF Along
  <2> QED
    BY <2>1, <1>4, <1>6
<1>8. Along(c)
  <2>1. c \in 0..c
    BY <1>1
  <2> HIDE DEF Along
  <2> QED
    BY <2>1, <1>6
<1>9. RunLength(code, x, opc) = c
  <2>1. \A j \in 0..c - 1 : IsPair(code, x + 2 * j, opc) /\ code[x + 2 * j].src = code[x].src
    BY <1>1, <1>2, <1>7
  <2>2. ~ (IsPair(code, x + 2 * c, opc) /\ code[x + 2 * c].src = code[x].src)
    <3> SUFFICES ASSUME IsPair(code, x + 2 * c, opc), code[x + 2 * c].src = code[x].src
                 PROVE  FALSE
      OBVIOUS
    <3> DEFINE k == n + 2 * c
               y == x + 2 * c
    <3>1. y < Len(code)
      BY DEF IsPair
    <3>2. k <= Len(insns) /\ insns[k].id = y
      BY <3>1, <1>1, <1>2, <1>8
    <3>3. k \in n..Len(insns)
      BY <3>2, <1>1, SMTT(30)
    <3>4. IsPair(insns, k, opc) /\ insns[k].src = code[y].src
      <4>1. IsPair(code, y, opc)
        OBVIOUS
      <4> HIDE DEF k, y
      <4> QED
        BY <4>1, <3>2, <3>3, FollowsPair
    <3> QED
      BY <3>4, <1>1, <1>2
  <2>3. x \in Nat \ {0} /\ c \in Nat
    BY <1>1, <1>2
  <2> QED
    <3> HIDE DEF Along, T
    <3>1. Len(code) \in Nat
      OBVIOUS
    <3> QED
      BY ONLY <2>1, <2>2, <2>3, <3>1, RunLengthIs
<1> QED
  BY <1>1, <1>2, <1>7, <1>8, <1>9

(* Further on it follows still.                                            *)
LEMMA FollowsOn ==
    ASSUME NEW a, Len(a) \in Nat, NEW b, Len(b) \in Nat, NEW code, NEW opc,
           NEW n \in Nat \ {0}, Follows(a, n, code, opc),
           NEW m \in Nat \ {0}, NEW d \in Nat, n <= m + d, Len(b) = Len(a) - d,
           \A k \in m..Len(b) : b[k] = a[k + d]
    PROVE  Follows(b, m, code, opc)
<1>1. \A k \in m..Len(b) : k + d \in n..Len(a)
  OBVIOUS
<1>2. \A k \in m..Len(b) - 1 : /\ k + d \in n..Len(a) - 1 /\ (k + 1) + d = (k + d) + 1
                               /\ k \in m..Len(b) /\ k + 1 \in m..Len(b)
  OBVIOUS
<1>3. \A k \in m..Len(b) : AsInFile(b[k], code, opc)
  BY <1>1 DEF Follows
<1>4. \A k \in m..Len(b) - 1 : NextInFile(b[k].id, b[k + 1].id, code, opc)
  <2> SUFFICES ASSUME NEW k \in m..Len(b) - 1 PROVE NextInFile(b[k].id, b[k + 1].id, code, opc)
    OBVIOUS
  <2>1. b[k] = a[k + d] /\ b[k + 1] = a[(k + d) + 1]
    BY <1>2
  <2>2. NextInFile(a[k + d].id, a[(k + d) + 1].id, code, opc)
    BY <1>2 DEF Follows
  <2> QED
    BY <2>1, <2>2
<1>5. m <= Len(b) => b[Len(b)].id = Len(code)
  <2>1. m <= Len(b) => Len(b) \in m..Len(b) /\ Len(b) + d = Len(a) /\ n <= Len(a)
    OBVIOUS
  <2> QED
    BY <2>1 DEF Follows
<1> QED
  BY <1>3, <1>4, <1>5 DEF Follows

(* The edits of St_Addi_Vistor are those the pass after it reckons with.   *)
LEMMA FollowsPut ==
    ASSUME NEW a, Len(a) \in Nat, NEW code, Follows(a, 1, code, "LD_D"),
           NEW b, Len(b) = Len(a),
           \A k \in 1..Len(a) : \/ b[k] = a[k]
                                 \/ /\ b[k].id = a[k].id /\ b[k].opc = a[k].opc
                                    /\ b[k].dst = a[k].dst /\ b[k].src = a[k].src
                                    /\ Changed(code, a[k].id)
    PROVE  Follows(b, 1, code, "LD_D")
<1>1. \A k \in 1..Len(a) : b[k].id = a[k].id
  OBVIOUS
<1>2. \A k \in 1..Len(a) : AsInFile(b[k], code, "LD_D")
  <2> SUFFICES ASSUME NEW k \in 1..Len(a) PROVE AsInFile(b[k], code, "LD_D")
    OBVIOUS
  <2>1. AsInFile(a[k], code, "LD_D")
    BY DEF Follows
  <2> QED
    BY <2>1 DEF AsInFile
<1>3. \A k \in 1..Len(a) - 1 : NextInFile(b[k].id, b[k + 1].id, code, "LD_D")
  <2>1. \A k \in 1..Len(a) - 1 : k \in 1..Len(a) /\ k + 1 \in 1..Len(a)
    OBVIOUS
  <2> QED
    BY <2>1, <1>1 DEF Follows
<1>4. 1 <= Len(a) => b[Len(a)].id = Len(code)
  BY <1>1 DEF Follows
<1> QED
  BY <1>2, <1>3, <1>4 DEF Follows

(* What the first pass deletes does not disturb the code for the second:   *)
(* an addi.d behind a push begins no pop and ends none.                    *)
LEMMA FollowsDeleted ==
    ASSUME NEW a, Len(a) \in Nat, NEW code, Follows(a, 1, code, "LD_D"),
           NEW p \in 2..Len(a) - 1, a[p].id = a[p - 1].id + 1, a[p + 1].id = a[p].id + 1,
           a[p - 1].opc = "ST_D", a[p].opc = "ADDI_D",
           NEW b, Len(b) = Len(a) - 1, \A k \in 1..p - 1 : b[k] = a[k],
           \A k \in p..Len(b) : b[k] = a[k + 1]
    PROVE  Follows(b, 1, code, "LD_D")
<1>1. \A k \in 1..Len(a) : AsInFile(a[k], code, "LD_D")
  BY DEF Follows
<1>2. \A k \in 1..Len(a) - 1 : NextInFile(a[k].id, a[k + 1].id, code, "LD_D")
  BY DEF Follows
<1>3. \A k \in 1..Len(b) : IF k < p THEN b[k] = a[k] ELSE b[k] = a[k + 1]
  OBVIOUS
<1>4. \A k \in 1..Len(b) : AsInFile(b[k], code, "LD_D")
  <2>1. \A k \in 1..Len(b) : k \in 1..Len(a) /\ k + 1 \in 1..Len(a)
    OBVIOUS
  <2> QED
    BY <2>1, <1>1, <1>3
<1>5. ASSUME NEW k \in 1..Len(b) - 1
      PROVE  NextInFile(b[k].id, b[k + 1].id, code, "LD_D")
  <2>1. CASE k + 1 < p
    <3>1. b[k] = a[k] /\ b[k + 1] = a[k + 1] /\ k \in 1..Len(a) - 1
      BY <2>1, <1>3
    <3> QED
      BY <3>1, <1>2
  <2>2. CASE k + 1 = p
    <3>1. b[k] = a[p - 1] /\ b[k + 1] = a[p + 1]
      <4>1. k = p - 1 /\ k \in 1..Len(b) /\ k < p /\ k + 1 \in 1..Len(b) /\ ~ (k + 1 < p)
        BY <2>2
      <4>2. b[k] = a[k] /\ b[k + 1] = a[(k + 1) + 1]
        BY <4>1, <1>3
      <4> QED
        BY <4>1, <4>2, <2>2
    <3> DEFINE y == a[p - 1].id
    <3>2. AsInFile(a[p - 1], code, "LD_D") /\ AsInFile(a[p], code, "LD_D") /\ a[p].id = y + 1
      <4>1. p - 1 \in 1..Len(a) /\ p \in 1..Len(a)
        OBVIOUS
      <4> QED
        BY <4>1, <1>1
    <3>3. y \in Nat /\ code[y].opc = "ST_D" /\ code[y + 1].opc = "ADDI_D"
      <4>1. y \in 1..Len(code) /\ a[p - 1].opc = code[y].opc /\ a[p].opc = code[y + 1].opc
        BY <3>2, Zenon DEF AsInFile
      <4> QED
        BY <4>1, SMTT(30)
    <3>4. a[p + 1].id = y + 2
      BY <3>3
    <3> QED
      BY <3>1, <3>3, <3>4 DEF NextInFile, GoneBehind
  <2>3. CASE k >= p
    <3>1. b[k] = a[k + 1] /\ b[k + 1] = a[(k + 1) + 1] /\ k + 1 \in 1..Len(a) - 1
      <4>1. k \in 1..Len(b) /\ ~ (k < p) /\ k + 1 \in 1..Len(b) /\ ~ (k + 1 < p)
        BY <2>3
      <4> QED
        BY <4>1, <1>3
    <3> QED
      BY <3>1, <1>2
  <2> QED
    BY <2>1, <2>2, <2>3
<1>6. b[Len(b)].id = Len(code)
  <2>1. Len(b) \in p..Len(b) /\ Len(b) + 1 = Len(a) /\ 1 <= Len(a)
    OBVIOUS
  <2> QED
    BY <2>1 DEF Follows
<1> QED
  BY <1>4, <1>5, <1>6 DEF Follows

(* A decoded block is the code of the file.                                *)
LEMMA DecodedFollows ==
    ASSUME NEW blk, WellFormedBlock(blk), NEW opc
    PROVE  Follows(Decoded(blk).insns, 1, blk.code, opc)
<1> DEFINE insns == Decoded(blk).insns
<1>1. Len(blk.code) \in Nat /\ DOMAIN blk.code = 1..Len(blk.code)
  <2>1. blk.code \in Seq(MachineInsn)
    BY DEF WellFormedBlock, BlockType
  <2> QED
    BY <2>1, LenProperties
<1>2. insns = [k \in 1..Len(blk.code) |->
                [id  |-> k, opc |-> blk.code[k].opc, dst |-> blk.code[k].dst,
                 src |-> blk.code[k].src, imm |-> blk.code[k].imm]]
  BY <1>1 DEF Decoded
<1> HIDE DEF insns
<1>3. Len(insns) = Len(blk.code)
  BY <1>1, <1>2, SMTT(30)
<1>4. \A k \in 1..Len(insns) : insns[k].id = k /\ AsInFile(insns[k], blk.code, opc)
  BY <1>2, <1>3, ZenonT(40) DEF AsInFile
<1>5. \A k \in 1..Len(insns) - 1 : NextInFile(insns[k].id, insns[k + 1].id, blk.code, opc)
  <2>1. \A k \in 1..Len(insns) - 1 : k \in 1..Len(insns) /\ k + 1 \in 1..Len(insns)
    BY <1>1, <1>3
  <2>2. \A k \in 1..Len(insns) - 1 : insns[k].id = k /\ insns[k + 1].id = k + 1
    BY <2>1, <1>4
  <2> QED
    BY <2>2 DEF NextInFile
<1>6. 1 <= Len(insns) => insns[Len(insns)].id = Len(blk.code)
  BY <1>1, <1>3, <1>4
<1> QED
  BY <1>4, <1>5, <1>6 DEF Follows, insns

-----------------------------------------------------------------------------
(* One round of opt_sequence_of_st_addi or opt_sequence_of_ld_addi.        *)

(* The rounds of a run, one from the other.                                *)
LEMMA MergedIs ==
    ASSUME NEW total \in Nat, NEW opc
    PROVE  \E s : /\ s[0] = [tb |-> tb, node |-> node, index |-> cur]
                  /\ \A m \in 1..total : s[m] = MergeOne(s[m - 1], m, total, opc)
                  /\ s[total] = Merged(total, opc)
<1> DEFINE First == [tb |-> tb, node |-> node, index |-> cur]
           E(s, m) == MergeOne(s, m, total, opc)
           G(f, n) == [m \in 0..n |-> IF m = 0 THEN First ELSE E(f[m - 1], m)]
           T == {n \in Nat : \E f : f = G(f, n)}
           merged == CHOOSE f : f = G(f, total)
<1>1. Merged(total, opc) = merged[total]
  BY DEF Merged
<1> HIDE DEF E, First
<1>2. 0 \in T
  <2>1. [m \in 0..0 |-> First] = G([m \in 0..0 |-> First], 0)
    OBVIOUS
  <2> QED
    BY <2>1
<1>3. ASSUME NEW n \in T
      PROVE  n + 1 \in T
  <2>1. PICK f : f = G(f, n)
    OBVIOUS
  <2> DEFINE g == [m \in 0..n + 1 |-> IF m = n + 1 THEN E(f[n], n + 1) ELSE f[m]]
  <2>2. ASSUME NEW m \in 0..n + 1
        PROVE  g[m] = IF m = 0 THEN First ELSE E(g[m - 1], m)
    <3>1. CASE m = n + 1
      <4>1. m # 0 /\ m - 1 = n /\ n \in 0..n + 1 /\ n # n + 1
        BY <3>1
      <4> QED
        BY <3>1, <4>1
    <3>2. CASE m = 0
      BY <3>2, <2>1
    <3>3. CASE m # 0 /\ m # n + 1
      <4>1. m \in 0..n /\ m - 1 \in 0..n + 1 /\ m - 1 # n + 1
        BY <3>3
      <4> QED
        BY <3>3, <4>1, <2>1
    <3> QED
      BY <3>1, <3>2, <3>3
  <2>3. g = G(g, n + 1)
    <3> HIDE DEF g
    <3>1. DOMAIN g = 0..n + 1 /\ g = [m \in DOMAIN g |-> g[m]]
      BY DEF g
    <3> QED
      BY <3>1, <2>2
  <2>4. n + 1 \in Nat
    OBVIOUS
  <2>5. \E h : h = G(h, n + 1)
    <3> HIDE DEF g
    <3> QED
      BY <2>3, Zenon
  <2> QED
    BY <2>4, <2>5
<1>4. total \in T
  <2> HIDE DEF T
  <2> QED
    BY <1>2, <1>3, NatInduct DEF T
<1>5. merged = G(merged, total)
  BY <1>4
<1>6. merged[0] = First /\ \A m \in 1..total : merged[m] = E(merged[m - 1], m)
  <2> HIDE DEF merged
  <2> QED
    BY <1>5
<1> QED
  <2> HIDE DEF merged
  <2> QED
    BY <1>1, <1>6 DEF E, First

(* State u of the loop is s after a round that has given the access the    *)
(* immediate x and its addi.d the immediate y, or deleted g = 1.           *)
Edited(s, u, x, y, g) ==
    /\ u = [tb |-> u.tb, node |-> s.node + 2 - g, index |-> s.index + g]
    /\ Len(u.tb.insns) = Len(s.tb.insns) - g
    /\ \A k \in 1..s.node - 1 : u.tb.insns[k] = s.tb.insns[k]
    /\ u.tb.insns[s.node] = [s.tb.insns[s.node] EXCEPT !.imm = x]
    /\ g = 0 => u.tb.insns[s.node + 1] = [s.tb.insns[s.node + 1] EXCEPT !.imm = y]
    /\ \A k \in s.node + 2 - g..Len(u.tb.insns) : u.tb.insns[k] = s.tb.insns[k + g]
    /\ \A i \in Nat : \A placed :
        Patched(u.tb.rels, i, placed) =
            Patched(s.tb.rels, IF g = 0 \/ i < s.node THEN i ELSE i + 1, placed)

ImmOf(m, opc) == Offset(opc) + (InPart(m, Limit[opc]) - 1) * Step(opc)

EndsPart(m, total, opc) == InPart(m, Limit[opc]) = PartLength(m, total, Limit[opc])

GoneIn(m, total, opc) == IF EndsPart(m, total, opc) THEN 0 ELSE 1

(* The limits, and what is computed with them.                             *)
LEMMA StepFacts ==
    ASSUME NEW opc \in Accesses, NEW total \in Nat, NEW m \in 1..total
    PROVE  /\ Limit[opc] \in Nat \ {0} /\ opc \in {"ST_D", "LD_D"}
           /\ Step(opc) \in {-1, 1} /\ Offset(opc) \in {-1, 0}
           /\ ImmOf(m, opc) \in Int /\ PartLength(m, total, Limit[opc]) * Step(opc) \in Int
<1>1. Limit[opc] \in Nat \ {0}
  BY LimitAssumption DEF Accesses
<1>2. Step(opc) \in {-1, 1} /\ Offset(opc) \in {-1, 0}
  BY DEF Step, Offset
<1>3. InPart(m, Limit[opc]) \in Nat /\ PartLength(m, total, Limit[opc]) \in Nat
  <2> DEFINE lim == Limit[opc]
  <2>1. lim \in Nat \ {0} /\ m \in Nat \ {0}
    BY <1>1
  <2> HIDE DEF lim
  <2>2. InPart(m, lim) \in 1..lim /\ PartLength(m, total, lim) \in 1..lim
    BY <2>1, InPartFacts, PartLengthFacts
  <2>3. InPart(m, lim) \in Nat /\ PartLength(m, total, lim) \in Nat
    BY <2>1, <2>2
  <2> QED
    BY <2>3 DEF lim
<1>4. PICK a, b, st, off \in Int : /\ a = InPart(m, Limit[opc]) /\ b = PartLength(m, total, Limit[opc])
                                  /\ st = Step(opc) /\ off = Offset(opc)
  BY <1>2, <1>3
<1>5. ImmOf(m, opc) = off + (a - 1) * st
  BY <1>4 DEF ImmOf
<1>6. st \in {-1, 1} => (a - 1) * st \in Int /\ b * st \in Int
  BY <1>4
<1> QED
  BY <1>1, <1>2, <1>4, <1>5, <1>6 DEF Accesses

(* What a round does to the block, when its index lags behind the node by  *)
(* instructions nothing is recorded of.                                    *)
LEMMA RoundEdits ==
    ASSUME NEW blk, WellFormedBlock(blk), NEW opc \in Accesses,
           NEW total \in Nat, NEW m \in 1..total, NEW s, Fit(s.tb, blk),
           s = [tb |-> s.tb, node |-> s.node, index |-> s.index],
           s.node \in Nat \ {0}, s.node < Len(s.tb.insns),
           s.index + 1 \in 0..s.node, PlainFrom(s.tb, s.index + 1, s.node + 1),
           s.index \in Int, NEW u, u = MergeOne(s, m, total, opc)
    PROVE  /\ Fit(u.tb, blk)
           /\ Edited(s, u, ImmOf(m, opc), PartLength(m, total, Limit[opc]) * Step(opc),
                     GoneIn(m, total, opc))
<1> DEFINE n == s.node
           x == ImmOf(m, opc)
           y == PartLength(m, total, Limit[opc]) * Step(opc)
           moved == WithImm(s.tb, n, x)
           last == WithImm(moved, n + 1, y)
           less == DeleteIthInsn(moved, n + 1, s.index + 1)
           z == IF less = moved THEN n + 2 ELSE n + 1
<1>0. x \in Int /\ y \in Int
  BY StepFacts
<1>1. u = IF EndsPart(m, total, opc)
          THEN [s EXCEPT !.tb = last, !.node = @ + 2]
          ELSE [tb |-> less, node |-> z, index |-> s.index + 1]
  BY Zenon DEF MergeOne, EndsPart, PartMax, WithImm, ImmOf
<1> HIDE DEF x, y, last, less, z
<1>2. Len(s.tb.insns) \in Nat /\ n \in 1..Len(s.tb.insns) /\ n + 1 \in 1..Len(s.tb.insns) /\ n # n + 1
  BY ObjectFacts DEF Fit
<1>3. Fit(moved, blk) /\ ImmPut(s.tb, n, x, moved)
  <2> HIDE DEF n, moved
  <2> QED
    BY <1>0, <1>2, WithImmFits DEF moved
<1> HIDE DEF moved
<1>4. /\ Len(moved.insns) = Len(s.tb.insns) /\ moved.rels = s.tb.rels
      /\ moved.insns[n] = [s.tb.insns[n] EXCEPT !.imm = x]
      /\ \A k \in 1..Len(s.tb.insns) : k # n => moved.insns[k] = s.tb.insns[k]
  BY <1>3 DEF ImmPut
<1>5. CASE EndsPart(m, total, opc)
  <2>1. u = [tb |-> last, node |-> n + 2, index |-> s.index]
    BY <1>1, <1>5
  <2>2. Fit(last, blk) /\ ImmPut(moved, n + 1, y, last)
    <3> DEFINE p == n + 1
    <3>1. p \in 1..Len(moved.insns) /\ last = WithImm(moved, p, y)
      BY <1>2, <1>4 DEF last
    <3> HIDE DEF p
    <3> QED
      BY <3>1, <1>0, <1>3, WithImmFits DEF p
  <2>3. /\ Len(last.insns) = Len(s.tb.insns) /\ last.rels = s.tb.rels
        /\ last.insns[n + 1] = [s.tb.insns[n + 1] EXCEPT !.imm = y]
        /\ last.insns[n] = [s.tb.insns[n] EXCEPT !.imm = x]
        /\ \A k \in 1..Len(s.tb.insns) : k # n /\ k # n + 1 => last.insns[k] = s.tb.insns[k]
    BY <1>2, <1>4, <2>2 DEF ImmPut
  <2>4. \A k \in 1..n - 1 : last.insns[k] = s.tb.insns[k]
    <3>1. \A k \in 1..n - 1 : k \in 1..Len(s.tb.insns) /\ k # n /\ k # n + 1
      BY <1>2
    <3> QED
      BY <3>1, <2>3
  <2>5. \A k \in n + 2 - 0..Len(last.insns) : last.insns[k] = s.tb.insns[k + 0]
    <3>1. \A k \in n + 2 - 0..Len(last.insns) :
                k \in 1..Len(s.tb.insns) /\ k # n /\ k # n + 1 /\ k + 0 = k
      BY <1>2, <2>3
    <3> QED
      BY <3>1, <2>3
  <2>6. GoneIn(m, total, opc) = 0
    BY <1>5 DEF GoneIn
  <2>7. u.tb = last /\ u.node = n + 2 - 0 /\ u.index = s.index + 0
    BY <2>1, <1>2
  <2>8. Edited(s, u, x, y, 0)
    <3>1. u = [tb |-> u.tb, node |-> s.node + 2 - 0, index |-> s.index + 0]
      BY <2>1, <2>7
    <3>2. Len(u.tb.insns) = Len(s.tb.insns) - 0
      BY <1>2, <2>3, <2>7
    <3> QED
      BY <3>1, <3>2, <2>3, <2>4, <2>5, <2>7, Zenon DEF Edited
  <2> QED
    BY <2>2, <2>6, <2>7, <2>8 DEF x, y
<1>6. CASE ~ EndsPart(m, total, opc)
  <2>1. Fit(less, blk) /\ Shorter(moved, n, 1, less) /\ SamePatches(moved, n, 1, less) /\ less # moved
    <3> DEFINE p == n + 1
               i == s.index + 1
    <3>1. p \in 1..Len(moved.insns) /\ i \in 0..p - 1 /\ p - 1 = n
      BY <1>2, <1>4
    <3>2. PlainFrom(moved, i, p)
      <4>1. \A k : InRel(moved, k) <=> InRel(s.tb, k)
        BY <1>4 DEF InRel, ValidAt
      <4>2. ASSUME NEW k \in i + 1..p PROVE moved.insns[k].opc = s.tb.insns[k].opc
        <5>1. k \in 1..Len(s.tb.insns)
          BY <1>2, <3>1
        <5>2. s.tb.insns[n] \in CodeType
          BY <1>2, ObjectFacts, CodeFacts DEF Fit
        <5> QED
          BY <5>1, <5>2, <1>4 DEF CodeType
      <4> QED
        BY <4>1, <4>2 DEF PlainFrom
    <3>3. less = DeleteIthInsn(moved, p, i)
      BY DEF less
    <3> HIDE DEF p, i
    <3>4. Fit(less, blk) /\ Shorter(moved, p - 1, 1, less) /\ SamePatches(moved, p - 1, 1, less) /\ less # moved
      BY <3>1, <3>2, <3>3, <1>3, DeletedNearby
    <3> QED
      BY <3>1, <3>4
  <2>2. u = [tb |-> less, node |-> n + 1, index |-> s.index + 1]
    BY <1>1, <1>6, <2>1 DEF z
  <2>3. u.tb = less /\ u = [tb |-> u.tb, node |-> n + 2 - 1, index |-> s.index + 1]
    <3>1. n + 2 - 1 = n + 1
      BY <1>2
    <3> QED
      BY <2>2, <3>1
  <2>4. /\ Len(less.insns) = Len(s.tb.insns) - 1
        /\ \A k \in 1..n : less.insns[k] = moved.insns[k]
        /\ \A k \in n + 1..Len(less.insns) : less.insns[k] = moved.insns[k + 1]
    BY <1>4, <2>1 DEF Shorter
  <2>5. \A k \in 1..n - 1 : less.insns[k] = s.tb.insns[k]
    <3>1. \A k \in 1..n - 1 : k \in 1..Len(s.tb.insns) /\ k # n /\ k \in 1..n
      BY <1>2
    <3> QED
      BY <3>1, <2>4, <1>4
  <2>6. less.insns[n] = [s.tb.insns[n] EXCEPT !.imm = x]
    <3>1. n \in 1..n
      BY <1>2
    <3> QED
      BY <3>1, <2>4, <1>4
  <2>7. \A k \in n + 2 - 1..Len(less.insns) : less.insns[k] = s.tb.insns[k + 1]
    <3>1. \A k \in n + 2 - 1..Len(less.insns) :
                k \in n + 1..Len(less.insns) /\ k + 1 \in 1..Len(s.tb.insns) /\ k + 1 # n
      BY <1>2, <2>4
    <3> QED
      BY <3>1, <2>4, <1>4
  <2>8. \A i \in Nat : \A placed :
            Patched(less.rels, i, placed) =
                Patched(s.tb.rels, IF 1 = 0 \/ i < s.node THEN i ELSE i + 1, placed)
    BY <2>1, <1>4 DEF SamePatches
  <2>9. Edited(s, u, x, y, 1)
    BY <2>3, <2>4, <2>5, <2>6, <2>7, <2>8 DEF Edited
  <2> QED
    BY <2>1, <2>3, <2>9, <1>6 DEF GoneIn, x, y
<1> QED
  BY <1>5, <1>6

(* A run of total pairs from position n on, at an index that lags at most  *)
(* one behind, and that only if one addi.d is enough.                      *)
PairAt(t, p, b, opc) ==
    /\ IsPair(t.insns, p, opc) /\ t.insns[p].src = b
    /\ ~ InRel(t, p - 1) /\ ~ InRel(t, p)

Meets(t, blk, n, c, opc, total) ==
    /\ Fit(t, blk)
    /\ n \in Nat \ {0} /\ c \in Int /\ opc \in Accesses /\ total \in Nat
    /\ n + 2 * total - 1 <= Len(t.insns)
    /\ \A j \in 0..total - 1 : PairAt(t, n + 2 * j, t.insns[n].src, opc)
    /\ total <= 2 * Limit[opc]
    /\ n - 1 - c \in {0, 1}
    /\ n - 1 - c = 1 => total <= Limit[opc]

(* How many parts have ended after m rounds, each with an addi.d left.     *)
Ends(m, total, opc) ==
    (IF Limit[opc] <= m /\ Limit[opc] < total THEN 1 ELSE 0) + (IF m = total THEN 1 ELSE 0)

(* How many addi.d are kept up to a round: those of the parts that ended.  *)
LEMMA EndsFacts ==
    ASSUME NEW opc \in Accesses, NEW total \in Nat, total <= 2 * Limit[opc], NEW m \in 1..total
    PROVE  /\ Ends(m - 1, total, opc) \in Nat /\ Ends(m - 1, total, opc) <= m - 1
           /\ GoneIn(m, total, opc) \in {0, 1}
           /\ GoneIn(m, total, opc) = 1 <=> m # total /\ m # Limit[opc]
           /\ Ends(m, total, opc) = Ends(m - 1, total, opc) + 1 - GoneIn(m, total, opc)
<1>1. PICK lim \in Nat \ {0} : lim = Limit[opc]
  BY StepFacts
<1>2. EndsPart(m, total, opc) <=> m = total \/ m = lim
  <2>1. m # total => m < total
    OBVIOUS
  <2> QED
    BY <1>1, <2>1, PartLengthFacts DEF EndsPart
<1>3. GoneIn(m, total, opc) = IF m = total \/ m = lim THEN 0 ELSE 1
  BY <1>2 DEF GoneIn
<1>4. /\ Ends(m - 1, total, opc) = (IF lim <= m - 1 /\ lim < total THEN 1 ELSE 0) + 0
      /\ Ends(m, total, opc) = (IF lim <= m /\ lim < total THEN 1 ELSE 0) + (IF m = total THEN 1 ELSE 0)
  <2>1. m - 1 # total
    OBVIOUS
  <2> QED
    BY <1>1, <2>1 DEF Ends
<1> QED
  BY <1>1, <1>3, <1>4

(* The block after m rounds, of which d have deleted an addi.d: before the *)
(* run and behind the access the loop is at nothing has changed but its    *)
(* place, and between there is neither a branch nor a relocation.          *)
RoundBlock(s, m, t, blk, n, c, opc, total) ==
    LET d == m - Ends(m, total, opc) IN
    /\ Fit(s.tb, blk)
    /\ s = [tb |-> s.tb, node |-> n + m + Ends(m, total, opc), index |-> c + d]
    /\ Len(s.tb.insns) = Len(t.insns) - d
    /\ \A k \in 1..n - 1 : s.tb.insns[k] = t.insns[k]
    /\ \A k \in n..s.node - 1 : s.tb.insns[k].opc \notin BranchClasses
    /\ \A k \in s.node..Len(s.tb.insns) : s.tb.insns[k] = t.insns[k + d]
    /\ \A i \in Nat : \A placed :
        /\ i < n - 1 => Patched(s.tb.rels, i, placed) = Patched(t.rels, i, placed)
        /\ n - 1 <= i /\ i < s.node - 1 => Patched(s.tb.rels, i, placed) = {}
        /\ s.node - 1 <= i => Patched(s.tb.rels, i, placed) = Patched(t.rels, i + d, placed)

(* An instruction is patched when a relocation covers it, and only then.   *)
LEMMA PatchedInRel ==
    /\ \A t, i : InRel(t, i) <=> Patched(t.rels, i, TRUE) # {}
    /\ \A t, i, placed : ~ InRel(t, i) => Patched(t.rels, i, placed) = {}
BY Zenon DEF Patched, InRel, ValidAt

(* The places of a round, in numbers: p is the position of the access, w   *)
(* the length of the list.                                                 *)
LEMMA RoundPlaces ==
    ASSUME NEW n \in Nat \ {0}, NEW total \in Nat, NEW m \in 1..total, NEW e \in Nat, e <= m - 1,
           NEW d \in Int, d = m - 1 - e, NEW len \in Nat, n + 2 * total - 1 <= len,
           NEW p \in Int, p = n + (m - 1) + e, NEW w \in Int, w = len - d
    PROVE  /\ d \in Nat /\ p \in Nat \ {0} /\ w \in Nat
           /\ p = n + m - 1 + e /\ p + d = n + 2 * (m - 1)
           /\ p < w /\ p + d + 1 <= len
           /\ p \in p..w /\ p + 1 \in p..w /\ (p + 1) + d = p + d + 1
           /\ p + d \in 1..len /\ p + d + 1 \in 1..len
           /\ m - 1 \in 0..total - 1
OBVIOUS

(* The pair a round is about.                                              *)
RoundAt(s, m, t, n, c, opc, e, d, p) ==
    /\ e \in Nat /\ d \in Nat /\ p \in Nat \ {0} /\ p = n + m - 1 + e
    /\ p + d = n + 2 * (m - 1) /\ s.index = c + d
    /\ p < Len(s.tb.insns) /\ p + d + 1 <= Len(t.insns)
    /\ s.tb.insns[p] = t.insns[p + d]
    /\ s.tb.insns[p + 1] = t.insns[p + d + 1]
    /\ PairAt(t, p + d, t.insns[n].src, opc)
    /\ t.insns[p + d] \in CodeType /\ t.insns[p + d + 1] \in CodeType

(* The pair a round meets is the pair of the block the run was found in.   *)
LEMMA RoundPair ==
    ASSUME NEW t, NEW blk, NEW n, NEW c, NEW opc, NEW total, Meets(t, blk, n, c, opc, total),
           NEW m \in 1..total, NEW s, RoundBlock(s, m - 1, t, blk, n, c, opc, total),
           NEW e, e = Ends(m - 1, total, opc), NEW d, d = m - 1 - e, NEW p, p = s.node
    PROVE  RoundAt(s, m, t, n, c, opc, e, d, p)
<1>1. /\ n \in Nat \ {0} /\ total \in Nat /\ n + 2 * total - 1 <= Len(t.insns) /\ Len(t.insns) \in Nat
      /\ t.insns \in Seq(CodeType) /\ opc \in Accesses /\ c \in Int /\ total <= 2 * Limit[opc]
  BY ObjectFacts DEF Meets, Fit
<1>2. e \in Nat /\ e <= m - 1
  BY <1>1, EndsFacts
<1>3. /\ p = n + (m - 1) + e /\ s.index = c + d /\ Len(s.tb.insns) = Len(t.insns) - d
      /\ \A k \in p..Len(s.tb.insns) : s.tb.insns[k] = t.insns[k + d]
  <2>1. s = [tb |-> s.tb, node |-> n + (m - 1) + e, index |-> c + d]
    BY DEF RoundBlock
  <2>2. s.node = n + (m - 1) + e /\ s.index = c + d
    BY <2>1
  <2>3. /\ Len(s.tb.insns) = Len(t.insns) - d
        /\ \A k \in p..Len(s.tb.insns) : s.tb.insns[k] = t.insns[k + d]
    BY Zenon DEF RoundBlock
  <2> QED
    BY <2>2, <2>3
<1>4. /\ d \in Nat /\ p \in Nat \ {0} /\ Len(s.tb.insns) \in Nat
      /\ p = n + m - 1 + e /\ p + d = n + 2 * (m - 1)
      /\ p < Len(s.tb.insns) /\ p + d + 1 <= Len(t.insns)
      /\ p \in p..Len(s.tb.insns) /\ p + 1 \in p..Len(s.tb.insns) /\ (p + 1) + d = p + d + 1
      /\ p + d \in 1..Len(t.insns) /\ p + d + 1 \in 1..Len(t.insns)
      /\ m - 1 \in 0..total - 1
  <2> DEFINE len == Len(t.insns)
             w == Len(s.tb.insns)
  <2>1. len \in Nat /\ n + 2 * total - 1 <= len /\ p = n + (m - 1) + e /\ w = len - d
    BY <1>1, <1>3
  <2>0. m \in Int /\ e \in Int /\ n \in Int
    BY <1>1, <1>2
  <2> HIDE DEF len, w
  <2>3. d \in Int /\ p \in Int /\ w \in Int /\ d = m - 1 - e
    BY <2>0, <2>1
  <2>2. /\ d \in Nat /\ p \in Nat \ {0} /\ w \in Nat
        /\ p = n + m - 1 + e /\ p + d = n + 2 * (m - 1)
        /\ p < w /\ p + d + 1 <= len
        /\ p \in p..w /\ p + 1 \in p..w /\ (p + 1) + d = p + d + 1
        /\ p + d \in 1..len /\ p + d + 1 \in 1..len
        /\ m - 1 \in 0..total - 1
    BY ONLY <1>1, <1>2, <2>1, <2>3, m \in 1..total, RoundPlaces
  <2> QED
    BY <2>2 DEF len, w
<1>6. s.tb.insns[p] = t.insns[p + d] /\ s.tb.insns[p + 1] = t.insns[p + d + 1]
  BY <1>3, <1>4
<1>7. PairAt(t, p + d, t.insns[n].src, opc)
  <2>1. PairAt(t, n + 2 * (m - 1), t.insns[n].src, opc)
    BY <1>4, Zenon DEF Meets
  <2> QED
    BY <2>1, <1>4
<1>8. t.insns[p + d] \in CodeType /\ t.insns[p + d + 1] \in CodeType
  BY <1>1, <1>4, CodeFacts
<1> QED
  BY <1>2, <1>3, <1>4, <1>6, <1>7, <1>8, Zenon DEF RoundAt

(* The places before and after a round, in numbers: g is what the round    *)
(* deletes, w what is deleted with it, q the next node.                    *)
LEMMA RoundNumbers ==
    ASSUME NEW n \in Nat \ {0}, NEW m \in Nat \ {0}, NEW e \in Nat, NEW d \in Nat, d = m - 1 - e,
           NEW p \in Nat \ {0}, p = n + m - 1 + e, NEW c \in Int, n - 1 - c \in {0, 1},
           NEW g \in {0, 1}, NEW f \in Int, f = e + 1 - g, NEW q \in Int, q = p + 2 - g,
           NEW w \in Int, w = d + g, NEW len \in Nat, NEW ls \in Int, ls = len - d,
           NEW lu \in Int, lu = ls - g
    PROVE  /\ c + d + 1 \in 0..p /\ c + d \in Int
           /\ q = n + m + f /\ w = m - f /\ (c + d) + g = c + w /\ lu = len - w
           /\ q - 1 + w = p + d + 1
           /\ \A i \in c + d + 1..p : i \in Nat /\ n - 1 <= i /\ (i < p - 1 \/ i = p - 1 \/ i = p)
           /\ \A k \in c + d + 1 + 1..p + 1 : k \in n..p - 1 \/ k = p \/ k = p + 1
           /\ \A k \in n..q - 1 :
                (k \in n..p - 1 /\ k \in 1..p - 1) \/ k = p \/ (k = p + 1 /\ g = 0)
           /\ \A k \in 1..n - 1 : k \in 1..p - 1
           /\ \A k \in q..lu : k + g \in p..ls /\ (k + g) + d = k + w
           /\ \A i \in Nat :
                /\ i = p - 1 => i < p /\ p - 1 <= i /\ i + d = p + d - 1
                /\ i = p => p - 1 <= i /\ i + d = p + d
                /\ i < p - 1 => i < p
                /\ i < n - 1 => i < p
                /\ i < q - 1 => i < p - 1 \/ i = p - 1 \/ (i = p /\ g = 0)
                /\ q - 1 <= i /\ g = 0 => p - 1 <= i /\ i + d = i + w
                /\ q - 1 <= i /\ g = 1 =>
                    ~ (i < p) /\ p - 1 <= i + 1 /\ i + 1 \in Nat /\ (i + 1) + d = i + w
OBVIOUS

(* A round leaves behind it what the next one needs.                       *)
LEMMA RoundGoesOn ==
    ASSUME NEW t, NEW blk, WellFormedBlock(blk), NEW n, NEW c, NEW opc, NEW total,
           Meets(t, blk, n, c, opc, total),
           NEW m \in 1..total, NEW s, RoundBlock(s, m - 1, t, blk, n, c, opc, total),
           NEW u, u = MergeOne(s, m, total, opc)
    PROVE  /\ Edited(s, u, ImmOf(m, opc), PartLength(m, total, Limit[opc]) * Step(opc),
                     GoneIn(m, total, opc))
           /\ RoundBlock(u, m, t, blk, n, c, opc, total)
<1>1. PICK e : e = Ends(m - 1, total, opc)
  OBVIOUS
<1>2. PICK d : d = m - 1 - e
  OBVIOUS
<1>3. PICK p : p = s.node
  OBVIOUS
<1>4. PICK g : g = GoneIn(m, total, opc)
  OBVIOUS
<1>5. PICK f : f = Ends(m, total, opc)
  OBVIOUS
<1>6. /\ n \in Nat \ {0} /\ total \in Nat /\ n + 2 * total - 1 <= Len(t.insns) /\ Len(t.insns) \in Nat
      /\ opc \in Accesses /\ c \in Int /\ total <= 2 * Limit[opc] /\ Fit(t, blk)
      /\ n - 1 - c \in {0, 1}
  BY ObjectFacts DEF Meets, Fit
<1>30. PICK q, w : q = p + 2 - g /\ w = d + g
  OBVIOUS
<1>31. PICK ls, lu : ls = Len(s.tb.insns) /\ lu = Len(s.tb.insns) - g
  OBVIOUS
<1>7. /\ e \in Nat /\ d \in Nat /\ p \in Nat \ {0} /\ p = n + m - 1 + e
      /\ p + d = n + 2 * (m - 1) /\ s.index = c + d
      /\ p < Len(s.tb.insns) /\ p + d + 1 <= Len(t.insns)
      /\ s.tb.insns[p] = t.insns[p + d] /\ s.tb.insns[p + 1] = t.insns[p + d + 1]
      /\ PairAt(t, p + d, t.insns[n].src, opc)
      /\ t.insns[p + d] \in CodeType /\ t.insns[p + d + 1] \in CodeType
  <2>1. RoundAt(s, m, t, n, c, opc, e, d, p)
    BY <1>1, <1>2, <1>3, RoundPair
  <2> QED
    BY <2>1 DEF RoundAt
<1>8. g \in {0, 1} /\ f = e + 1 - g /\ (g = 1 <=> m # total /\ m # Limit[opc])
  BY <1>1, <1>4, <1>5, <1>6, EndsFacts
<1>9. /\ Fit(s.tb, blk)
      /\ s = [tb |-> s.tb, node |-> p, index |-> c + d]
      /\ Len(s.tb.insns) = Len(t.insns) - d
      /\ \A k \in 1..n - 1 : s.tb.insns[k] = t.insns[k]
      /\ \A k \in n..p - 1 : s.tb.insns[k].opc \notin BranchClasses
      /\ \A k \in p..Len(s.tb.insns) : s.tb.insns[k] = t.insns[k + d]
      /\ \A i \in Nat : \A placed :
            /\ i < n - 1 => Patched(s.tb.rels, i, placed) = Patched(t.rels, i, placed)
            /\ n - 1 <= i /\ i < p - 1 => Patched(s.tb.rels, i, placed) = {}
            /\ p - 1 <= i => Patched(s.tb.rels, i, placed) = Patched(t.rels, i + d, placed)
  <2>1. s = [tb |-> s.tb, node |-> n + (m - 1) + e, index |-> c + d]
    BY <1>1, <1>2 DEF RoundBlock
  <2>2. s = [tb |-> s.tb, node |-> s.node, index |-> c + d]
    BY <2>1
  <2> QED
    BY <2>2, <1>1, <1>2, <1>3, Zenon DEF RoundBlock
<1>32. m \in Nat \ {0}
  BY <1>6
<1>33. /\ q \in Int /\ w \in Int /\ f \in Int /\ ls \in Int /\ lu \in Int
       /\ ls = Len(t.insns) - d /\ lu = ls - g
  <2>1. ls = Len(t.insns) - d /\ lu = ls - g
    BY <1>9, <1>31
  <2>2. e \in Nat /\ d \in Nat /\ p \in Nat \ {0} /\ Len(t.insns) \in Nat
    BY <1>6, <1>7
  <2> QED
    BY ONLY <2>1, <2>2, <1>8, <1>30
<1>34. /\ c + d + 1 \in 0..p /\ c + d \in Int
       /\ q = n + m + f /\ w = m - f /\ (c + d) + g = c + w /\ lu = Len(t.insns) - w
       /\ q - 1 + w = p + d + 1
       /\ \A i \in c + d + 1..p : i \in Nat /\ n - 1 <= i /\ (i < p - 1 \/ i = p - 1 \/ i = p)
       /\ \A k \in c + d + 1 + 1..p + 1 : k \in n..p - 1 \/ k = p \/ k = p + 1
       /\ \A k \in n..q - 1 :
                (k \in n..p - 1 /\ k \in 1..p - 1) \/ k = p \/ (k = p + 1 /\ g = 0)
       /\ \A k \in 1..n - 1 : k \in 1..p - 1
       /\ \A k \in q..lu : k + g \in p..ls /\ (k + g) + d = k + w
       /\ \A i \in Nat :
            /\ i = p - 1 => i < p /\ p - 1 <= i /\ i + d = p + d - 1
            /\ i = p => p - 1 <= i /\ i + d = p + d
            /\ i < p - 1 => i < p
            /\ i < n - 1 => i < p
            /\ i < q - 1 => i < p - 1 \/ i = p - 1 \/ (i = p /\ g = 0)
            /\ q - 1 <= i /\ g = 0 => p - 1 <= i /\ i + d = i + w
            /\ q - 1 <= i /\ g = 1 =>
                ~ (i < p) /\ p - 1 <= i + 1 /\ i + 1 \in Nat /\ (i + 1) + d = i + w
  <2> DEFINE len == Len(t.insns)
  <2>1. n \in Nat \ {0} /\ c \in Int /\ n - 1 - c \in {0, 1} /\ len \in Nat
    BY <1>6
  <2>2. e \in Nat /\ d \in Nat /\ p \in Nat \ {0} /\ p = n + m - 1 + e
    BY <1>7
  <2>3. ls = len - d /\ lu = ls - g
    BY <1>33
  <2> HIDE DEF len
  <2>4. /\ c + d + 1 \in 0..p /\ c + d \in Int
        /\ q = n + m + f /\ w = m - f /\ (c + d) + g = c + w /\ lu = len - w
        /\ q - 1 + w = p + d + 1
        /\ \A i \in c + d + 1..p : i \in Nat /\ n - 1 <= i /\ (i < p - 1 \/ i = p - 1 \/ i = p)
        /\ \A k \in c + d + 1 + 1..p + 1 : k \in n..p - 1 \/ k = p \/ k = p + 1
        /\ \A k \in n..q - 1 :
                (k \in n..p - 1 /\ k \in 1..p - 1) \/ k = p \/ (k = p + 1 /\ g = 0)
        /\ \A k \in 1..n - 1 : k \in 1..p - 1
        /\ \A k \in q..lu : k + g \in p..ls /\ (k + g) + d = k + w
        /\ \A i \in Nat :
             /\ i = p - 1 => i < p /\ p - 1 <= i /\ i + d = p + d - 1
             /\ i = p => p - 1 <= i /\ i + d = p + d
             /\ i < p - 1 => i < p
             /\ i < n - 1 => i < p
             /\ i < q - 1 => i < p - 1 \/ i = p - 1 \/ (i = p /\ g = 0)
             /\ q - 1 <= i /\ g = 0 => p - 1 <= i /\ i + d = i + w
             /\ q - 1 <= i /\ g = 1 =>
                 ~ (i < p) /\ p - 1 <= i + 1 /\ i + 1 \in Nat /\ (i + 1) + d = i + w
    BY <2>1, <2>2, <2>3, <1>2, <1>8, <1>30, <1>32, <1>33, RoundNumbers
  <2> QED
    BY <2>4 DEF len
<1>35. s.index = c + d
  BY <1>7
<1>10. /\ s.tb.insns[p].opc = opc /\ s.tb.insns[p + 1].opc = "ADDI_D"
       /\ ~ InRel(t, p + d - 1) /\ ~ InRel(t, p + d)
  BY <1>7 DEF PairAt, IsPair
<1>11. s.index + 1 \in 0..p /\ s.index \in Int
  BY <1>34, <1>35
<1>12. PlainFrom(s.tb, s.index + 1, p + 1)
  <2>1. ASSUME NEW i \in c + d + 1..p PROVE ~ InRel(s.tb, i)
    <3>1. i \in Nat /\ n - 1 <= i /\ (i < p - 1 \/ i = p - 1 \/ i = p)
      BY <1>34, Zenon
    <3>2. CASE i < p - 1
      <4>1. Patched(s.tb.rels, i, TRUE) = {}
        BY <3>1, <3>2, <1>9
      <4> QED
        BY <4>1, PatchedInRel
    <3>3. CASE i = p - 1
      <4>1. p - 1 <= i /\ i + d = p + d - 1
        BY <3>1, <3>3, <1>34
      <4>2. Patched(s.tb.rels, i, TRUE) = Patched(t.rels, p + d - 1, TRUE)
        BY <4>1, <3>1, <1>9
      <4> QED
        BY <4>2, <1>10, PatchedInRel
    <3>4. CASE i = p
      <4>1. p - 1 <= i /\ i + d = p + d
        BY <3>1, <3>4, <1>34
      <4>2. Patched(s.tb.rels, i, TRUE) = Patched(t.rels, p + d, TRUE)
        BY <4>1, <3>1, <1>9
      <4> QED
        BY <4>2, <1>10, PatchedInRel
    <3> QED
      BY <3>1, <3>2, <3>3, <3>4
  <2>2. ASSUME NEW k \in c + d + 1 + 1..p + 1 PROVE s.tb.insns[k].opc \notin BranchClasses
    <3>1. k \in n..p - 1 \/ k = p \/ k = p + 1
      BY <1>34
    <3> QED
      BY <3>1, <1>6, <1>9, <1>10 DEF BranchClasses, Accesses
  <2>3. (p + 1) - 1 = p
    BY <1>7
  <2> QED
    BY <2>1, <2>2, <2>3, <1>35 DEF PlainFrom
<1>13. /\ Fit(u.tb, blk)
       /\ Edited(s, u, ImmOf(m, opc), PartLength(m, total, Limit[opc]) * Step(opc), g)
  BY <1>3, <1>4, <1>6, <1>7, <1>9, <1>11, <1>12, RoundEdits
<1>14. /\ u = [tb |-> u.tb, node |-> q, index |-> (c + d) + g]
       /\ Len(u.tb.insns) = Len(s.tb.insns) - g
       /\ \A k \in 1..p - 1 : u.tb.insns[k] = s.tb.insns[k]
       /\ u.tb.insns[p].opc = opc
       /\ g = 0 => u.tb.insns[p + 1].opc = "ADDI_D"
       /\ \A k \in q..Len(u.tb.insns) : u.tb.insns[k] = s.tb.insns[k + g]
       /\ \A i \in Nat : \A placed :
            Patched(u.tb.rels, i, placed) =
                Patched(s.tb.rels, IF g = 0 \/ i < p THEN i ELSE i + 1, placed)
  <2>1. s.index = c + d
    BY <1>7
  <2>2. s.tb.insns[p] \in CodeType /\ s.tb.insns[p + 1] \in CodeType
    BY <1>7
  <2>3. /\ u.tb.insns[p] = [s.tb.insns[p] EXCEPT !.imm = ImmOf(m, opc)]
        /\ g = 0 => u.tb.insns[p + 1] =
                        [s.tb.insns[p + 1] EXCEPT !.imm = PartLength(m, total, Limit[opc]) * Step(opc)]
    BY <1>3, <1>13, Zenon DEF Edited
  <2>4. u.tb.insns[p].opc = opc /\ (g = 0 => u.tb.insns[p + 1].opc = "ADDI_D")
    BY <2>2, <2>3, <1>10 DEF CodeType
  <2> QED
    BY <1>3, <1>13, <1>30, <2>1, <2>4, Zenon DEF Edited
<1>16. u.node = q /\ u = [tb |-> u.tb, node |-> n + m + f, index |-> c + (m - f)]
  BY <1>14, <1>34
<1>17. Len(u.tb.insns) = lu /\ lu = Len(t.insns) - w /\ Len(s.tb.insns) = ls
  BY <1>14, <1>31, <1>34
<1>18. \A k \in 1..n - 1 : u.tb.insns[k] = t.insns[k]
  <2>1. \A k \in 1..n - 1 : k \in 1..p - 1
    BY <1>34
  <2> QED
    BY <2>1, <1>9, <1>14
<1>19. \A k \in n..q - 1 : u.tb.insns[k].opc \notin BranchClasses
  <2> SUFFICES ASSUME NEW k \in n..q - 1 PROVE u.tb.insns[k].opc \notin BranchClasses
    OBVIOUS
  <2>1. \/ k \in n..p - 1 /\ k \in 1..p - 1
        \/ k = p
        \/ k = p + 1 /\ g = 0
    BY <1>34
  <2> QED
    BY <2>1, <1>6, <1>9, <1>14 DEF BranchClasses, Accesses
<1>20. \A k \in q..Len(u.tb.insns) : u.tb.insns[k] = t.insns[k + w]
  <2> SUFFICES ASSUME NEW k \in q..Len(u.tb.insns) PROVE u.tb.insns[k] = t.insns[k + w]
    OBVIOUS
  <2>1. k \in q..lu /\ k + g \in p..Len(s.tb.insns) /\ (k + g) + d = k + w
    BY <1>17, <1>34
  <2>2. u.tb.insns[k] = s.tb.insns[k + g]
    BY <1>14
  <2>3. s.tb.insns[k + g] = t.insns[(k + g) + d]
    BY <2>1, <1>9
  <2> QED
    BY <2>1, <2>2, <2>3
<1>21. ASSUME NEW i \in Nat, NEW placed
       PROVE  /\ i < n - 1 => Patched(u.tb.rels, i, placed) = Patched(t.rels, i, placed)
              /\ n - 1 <= i /\ i < q - 1 => Patched(u.tb.rels, i, placed) = {}
              /\ q - 1 <= i => Patched(u.tb.rels, i, placed) = Patched(t.rels, i + w, placed)
  <2> DEFINE P(k) == Patched(s.tb.rels, k, placed)
             R(k) == Patched(t.rels, k, placed)
             U == Patched(u.tb.rels, i, placed)
  <2>1. U = P(IF g = 0 \/ i < p THEN i ELSE i + 1)
    BY <1>14
  <2>2. \A k \in Nat : /\ k < n - 1 => P(k) = R(k)
                       /\ n - 1 <= k /\ k < p - 1 => P(k) = {}
                       /\ p - 1 <= k => P(k) = R(k + d)
    BY <1>9
  <2>3. R(p + d - 1) = {} /\ R(p + d) = {}
    BY <1>10, PatchedInRel
  <2> HIDE DEF P, R, U
  <2>4. i < n - 1 => U = R(i)
    <3>1. i < n - 1 => i < p
      BY <1>34
    <3> QED
      BY <3>1, <2>1, <2>2
  <2>5. n - 1 <= i /\ i < q - 1 => U = {}
    <3> SUFFICES ASSUME n - 1 <= i, i < q - 1 PROVE U = {}
      OBVIOUS
    <3>1. i < p - 1 \/ i = p - 1 \/ (i = p /\ g = 0)
      BY <1>34
    <3>2. CASE i < p - 1
      <4>1. i < p
        BY <3>2, <1>34
      <4> QED
        BY <3>2, <4>1, <2>1, <2>2
    <3>3. CASE i = p - 1
      <4>1. i < p /\ p - 1 <= i /\ i + d = p + d - 1
        BY <3>3, <1>34
      <4> QED
        BY <4>1, <2>1, <2>2, <2>3
    <3>4. CASE i = p /\ g = 0
      <4>1. p - 1 <= i /\ i + d = p + d
        BY <3>4, <1>34
      <4> QED
        BY <3>4, <4>1, <2>1, <2>2, <2>3
    <3> QED
      BY <3>1, <3>2, <3>3, <3>4
  <2>6. q - 1 <= i => U = R(i + w)
    <3> SUFFICES ASSUME q - 1 <= i PROVE U = R(i + w)
      OBVIOUS
    <3>1. CASE g = 0
      <4>1. p - 1 <= i /\ i + d = i + w
        BY <3>1, <1>34
      <4> QED
        BY <3>1, <4>1, <2>1, <2>2
    <3>2. CASE g = 1
      <4>1. ~ (i < p) /\ p - 1 <= i + 1 /\ i + 1 \in Nat /\ (i + 1) + d = i + w
        BY <3>2, <1>34
      <4> QED
        BY <3>2, <4>1, <2>1, <2>2
    <3> QED
      BY <3>1, <3>2, <1>8
  <2> QED
    BY <2>4, <2>5, <2>6 DEF U, R
<1>22. RoundBlock(u, m, t, blk, n, c, opc, total)
  <2>1. w = m - f /\ f = Ends(m, total, opc)
    BY <1>5, <1>34
  <2> QED
    BY <2>1, <1>13, <1>16, <1>17, <1>18, <1>19, <1>20, <1>21, Zenon DEF RoundBlock
<1> QED
  BY <1>4, <1>13, <1>22

(* What the base is short of after m rounds.                               *)
Short(m, total, opc) ==
    IF m = total THEN 0 ELSE (InPart(m + 1, Limit[opc]) - 1) * Step(opc)

(* By how much the base is short in a round: exactly what its offset makes *)
(* up for, and nothing when the round keeps its addi.d.                    *)
LEMMA ShortFacts ==
    ASSUME NEW opc \in Accesses, NEW total \in Nat, total <= 2 * Limit[opc], NEW m \in 1..total,
           NEW q, q = Short(m - 1, total, opc)
    PROVE  /\ q \in Int /\ ImmOf(m, opc) = Offset(opc) + q
           /\ m = 1 => q = 0
           /\ GoneIn(m, total, opc) = 1 => Short(m, total, opc) = q + Step(opc)
           /\ GoneIn(m, total, opc) = 0 =>
                /\ Short(m, total, opc) = 0
                /\ PartLength(m, total, Limit[opc]) * Step(opc) = q + Step(opc)
<1>1. PICK lim \in Nat \ {0} : lim = Limit[opc]
  BY StepFacts
<1>2. PICK st \in {-1, 1} : st = Step(opc)
  BY StepFacts
<1>3. PICK k : k = InPart(m, lim)
  OBVIOUS
<1>4. /\ k \in 1..lim
      /\ m <= lim => k = m
      /\ m > lim /\ m <= 2 * lim => k = m - lim
  <2>1. m \in Nat \ {0}
    OBVIOUS
  <2> QED
    BY <1>3, <2>1, InPartFacts
<1>5. PICK z : z = InPart(m + 1, lim)
  OBVIOUS
<1>6. /\ z \in 1..lim
      /\ m + 1 <= lim => z = m + 1
      /\ m + 1 > lim /\ m + 1 <= 2 * lim => z = (m + 1) - lim
  <2> DEFINE y == m + 1
  <2>1. y \in Nat \ {0}
    OBVIOUS
  <2> HIDE DEF y
  <2>2. /\ InPart(y, lim) \in 1..lim
        /\ y <= lim => InPart(y, lim) = y
        /\ y > lim /\ y <= 2 * lim => InPart(y, lim) = y - lim
    BY <2>1, InPartFacts
  <2> QED
    BY <1>5, <2>2 DEF y
<1>7. q = (k - 1) * st
  <2>1. m - 1 # total /\ (m - 1) + 1 = m
    OBVIOUS
  <2> QED
    BY <2>1, <1>1, <1>2, <1>3 DEF Short
<1>8. (k - 1) * st + st = k * st /\ (k - 1) * st \in Int /\ (k = 1 => (k - 1) * st = 0)
  BY <1>1, <1>4
<1>9. Short(m, total, opc) = IF m = total THEN 0 ELSE (z - 1) * st
  BY <1>1, <1>2, <1>5 DEF Short
<1>10. GoneIn(m, total, opc) = 1 <=> m # total /\ m # lim
  BY <1>1, EndsFacts
<1>11. ImmOf(m, opc) = Offset(opc) + q
  BY <1>1, <1>2, <1>3, <1>7 DEF ImmOf
<1>12. m = 1 => q = 0
  BY <1>1, <1>4, <1>7, <1>8
<1>13. GoneIn(m, total, opc) = 1 => Short(m, total, opc) = q + st
  <2>1. m # total /\ m # lim => z = k + 1
    BY <1>1, <1>4, <1>6
  <2>2. m # total /\ m # lim => (z - 1) * st = k * st
    BY <2>1, <1>1, <1>4
  <2> QED
    BY <2>2, <1>7, <1>8, <1>9, <1>10
<1>14. GoneIn(m, total, opc) = 0 =>
        Short(m, total, opc) = 0 /\ PartLength(m, total, Limit[opc]) * st = q + st
  <2> SUFFICES ASSUME GoneIn(m, total, opc) = 0
               PROVE  Short(m, total, opc) = 0 /\ PartLength(m, total, Limit[opc]) * st = q + st
    OBVIOUS
  <2>1. PartLength(m, total, Limit[opc]) = k
    BY <1>1, <1>3 DEF GoneIn, EndsPart
  <2>2. m = total \/ m = lim
    BY <1>10
  <2>3. m # total /\ m = lim => z = 1
    BY <1>1, <1>6
  <2>4. z = 1 => (z - 1) * st = 0
    OBVIOUS
  <2> QED
    BY <2>1, <2>2, <2>3, <2>4, <1>7, <1>8, <1>9
<1> QED
  BY <1>2, <1>7, <1>8, <1>11, <1>12, <1>13, <1>14

(* With the base what it is short of, the registers and stores are those   *)
(* of the block before.                                                    *)
RoundRuns(s, m, t, n, opc, total, placed) ==
    BehindBy(States(s.tb.insns, s.tb.rels, placed)[s.node - 1],
             States(t.insns, t.rels, placed)[n - 1 + 2 * m],
             t.insns[n].src, Short(m, total, opc))

(* The places of a round that the registers are looked at.                 *)
LEMMA RunPlaces ==
    ASSUME NEW p \in Nat \ {0}, NEW d \in Nat, NEW a \in Int, a = p + d,
           NEW ls \in Nat, p < ls, NEW lt \in Nat, a + 1 <= lt,
           NEW g \in {0, 1}, NEW lu \in Nat, lu = ls - g
    PROVE  /\ p - 1 \in Nat /\ p \in Nat /\ p - 1 < p /\ p - 1 <= p - 1 /\ p - 1 <= p
           /\ (p - 1) + d = a - 1
           /\ a \in 1..lt /\ a + 1 \in 1..lt /\ (a + 1) - 1 = a
           /\ p \in 1..lu /\ p - 1 <= ls /\ p - 1 <= lu
           /\ g = 0 => p + 1 \in 1..lu
           /\ (p + 1) - 1 = p
           /\ \A k \in 1..p - 1 : k - 1 \in Nat /\ k - 1 < p
OBVIOUS

(* The machine after a round: as it was after the pair, but for the base,  *)
(* which is short by the addi.d deleted since the part began.              *)
LEMMA RoundRunsOn ==
    ASSUME NEW t, NEW blk, WellFormedBlock(blk), NEW n, NEW c, NEW opc, NEW total,
           Meets(t, blk, n, c, opc, total), t.insns[n].src # 0,
           NEW m \in 1..total, m > 1 => t.insns[n + 2 * (m - 1)].dst # t.insns[n].src,
           NEW s, RoundBlock(s, m - 1, t, blk, n, c, opc, total),
           NEW u, u = MergeOne(s, m, total, opc),
           NEW placed, RoundRuns(s, m - 1, t, n, opc, total, placed)
    PROVE  RoundRuns(u, m, t, n, opc, total, placed)
<1>1. PICK e : e = Ends(m - 1, total, opc)
  OBVIOUS
<1>2. PICK d : d = m - 1 - e
  OBVIOUS
<1>3. PICK p : p = s.node
  OBVIOUS
<1>4. PICK g : g = GoneIn(m, total, opc)
  OBVIOUS
<1>5. PICK q : q = Short(m - 1, total, opc)
  OBVIOUS
<1>6. PICK b : b = t.insns[n].src
  OBVIOUS
<1>7. PICK a : a = p + d
  OBVIOUS
<1>8. /\ n \in Nat \ {0} /\ total \in Nat /\ Len(t.insns) \in Nat /\ t.insns \in Seq(CodeType)
      /\ opc \in Accesses /\ total <= 2 * Limit[opc] /\ Fit(t, blk)
  BY ObjectFacts DEF Meets, Fit
<1>9. /\ d \in Nat /\ p \in Nat \ {0} /\ a = n + 2 * (m - 1)
      /\ p < Len(s.tb.insns) /\ a + 1 <= Len(t.insns)
      /\ s.tb.insns[p] = t.insns[a] /\ s.tb.insns[p + 1] = t.insns[a + 1]
      /\ PairAt(t, a, b, opc)
      /\ t.insns[a] \in CodeType /\ t.insns[a + 1] \in CodeType
  <2>1. RoundAt(s, m, t, n, c, opc, e, d, p)
    BY <1>1, <1>2, <1>3, RoundPair
  <2>2. p + d + 1 = a + 1
    BY <1>7
  <2> QED
    BY <2>1, <2>2, <1>6, <1>7 DEF RoundAt
<1>10. /\ t.insns[a].opc = opc /\ t.insns[a].imm = Offset(opc) /\ t.insns[a].src = b
       /\ t.insns[a + 1].opc = "ADDI_D" /\ t.insns[a + 1].imm = Step(opc)
       /\ t.insns[a + 1].dst = b /\ t.insns[a + 1].src = b
       /\ ~ InRel(t, a - 1) /\ ~ InRel(t, a)
  BY <1>9 DEF PairAt, IsPair
<1>11. b \in Regs /\ b # 0
  BY <1>6, <1>9, <1>10 DEF CodeType
<1>12. /\ Edited(s, u, ImmOf(m, opc), PartLength(m, total, Limit[opc]) * Step(opc), g)
       /\ RoundBlock(u, m, t, blk, n, c, opc, total)
  BY <1>4, RoundGoesOn
<1>13. /\ s.tb.insns \in Seq(CodeType) /\ u.tb.insns \in Seq(CodeType)
       /\ Len(s.tb.insns) \in Nat /\ Len(u.tb.insns) \in Nat
  <2>1. Fit(s.tb, blk) /\ Fit(u.tb, blk)
    BY <1>12 DEF RoundBlock
  <2> QED
    BY <2>1, ObjectFacts DEF Fit
<1>14. g \in {0, 1}
  BY <1>4, <1>8, EndsFacts
<1>15. /\ u = [tb |-> u.tb, node |-> p + 2 - g, index |-> s.index + g]
       /\ Len(u.tb.insns) = Len(s.tb.insns) - g
       /\ \A k \in 1..p - 1 : u.tb.insns[k] = s.tb.insns[k]
       /\ u.tb.insns[p] = [t.insns[a] EXCEPT !.imm = ImmOf(m, opc)]
       /\ g = 0 => u.tb.insns[p + 1] =
                [t.insns[a + 1] EXCEPT !.imm = PartLength(m, total, Limit[opc]) * Step(opc)]
       /\ \A i \in Nat :
            Patched(u.tb.rels, i, placed) =
                Patched(s.tb.rels, IF g = 0 \/ i < p THEN i ELSE i + 1, placed)
  BY <1>3, <1>9, <1>12, Zenon DEF Edited
<1>16. u.node = p + 2 - g
  BY <1>15
<1>40. /\ p - 1 \in Nat /\ p \in Nat /\ p - 1 < p /\ p - 1 <= p - 1 /\ p - 1 <= p
       /\ (p - 1) + d = a - 1
       /\ a \in 1..Len(t.insns) /\ a + 1 \in 1..Len(t.insns) /\ (a + 1) - 1 = a
       /\ p \in 1..Len(u.tb.insns) /\ p - 1 <= Len(s.tb.insns) /\ p - 1 <= Len(u.tb.insns)
       /\ g = 0 => p + 1 \in 1..Len(u.tb.insns)
       /\ (p + 1) - 1 = p
       /\ \A k \in 1..p - 1 : k - 1 \in Nat /\ k - 1 < p
  <2> DEFINE ls == Len(s.tb.insns)
             lt == Len(t.insns)
             lu == Len(u.tb.insns)
  <2>1. p \in Nat \ {0} /\ d \in Nat /\ p < ls /\ a + 1 <= lt
    BY <1>9
  <2>2. ls \in Nat /\ lu \in Nat /\ lt \in Nat
    BY <1>8, <1>13
  <2>3. lu = ls - g
    BY <1>15
  <2> HIDE DEF ls, lt, lu
  <2>4. a \in Int
    BY <1>7, <2>1
  <2>5. /\ p - 1 \in Nat /\ p \in Nat /\ p - 1 < p /\ p - 1 <= p - 1 /\ p - 1 <= p
        /\ (p - 1) + d = a - 1
        /\ a \in 1..lt /\ a + 1 \in 1..lt /\ (a + 1) - 1 = a
        /\ p \in 1..lu /\ p - 1 <= ls /\ p - 1 <= lu
        /\ g = 0 => p + 1 \in 1..lu
        /\ (p + 1) - 1 = p
        /\ \A k \in 1..p - 1 : k - 1 \in Nat /\ k - 1 < p
    BY ONLY <1>7, <1>14, <2>1, <2>2, <2>3, <2>4, RunPlaces
  <2> QED
    BY <2>5 DEF ls, lt, lu
<1>17. /\ Patched(t.rels, a - 1, placed) = {} /\ Patched(t.rels, a, placed) = {}
       /\ Patched(s.tb.rels, p - 1, placed) = {} /\ Patched(s.tb.rels, p, placed) = {}
  <2>1. Patched(t.rels, a - 1, placed) = {} /\ Patched(t.rels, a, placed) = {}
    BY <1>10, PatchedInRel
  <2>2. \A i \in Nat : p - 1 <= i => Patched(s.tb.rels, i, placed) = Patched(t.rels, i + d, placed)
    BY <1>1, <1>2, <1>3, Zenon DEF RoundBlock
  <2>3. p - 1 \in Nat /\ p \in Nat /\ p - 1 <= p - 1 /\ p - 1 <= p /\ (p - 1) + d = a - 1
    BY <1>40
  <2> QED
    BY <2>1, <2>2, <2>3, <1>7
<1> DEFINE X(k) == States(t.insns, t.rels, placed)[k]
           Z(k) == States(s.tb.insns, s.tb.rels, placed)[k]
           Y(k) == States(u.tb.insns, u.tb.rels, placed)[k]
<1>18. BehindBy(Z(p - 1), X(a - 1), b, q)
  <2>1. n - 1 + 2 * (m - 1) = a - 1
    BY <1>8, <1>9
  <2> QED
    BY <2>1, <1>3, <1>5, <1>6 DEF RoundRuns
<1>19. Y(p - 1) = Z(p - 1)
  <2> DEFINE o == p - 1
  <2>1. o \in Nat /\ o <= Len(s.tb.insns) /\ o <= Len(u.tb.insns)
    BY <1>40
  <2>2. \A k \in 1..o : Patched(u.tb.rels, k - 1, placed) = Patched(s.tb.rels, k - 1, placed)
    <3> SUFFICES ASSUME NEW k \in 1..o
                 PROVE  Patched(u.tb.rels, k - 1, placed) = Patched(s.tb.rels, k - 1, placed)
      OBVIOUS
    <3>1. k - 1 \in Nat /\ k - 1 < p
      BY <1>40
    <3> QED
      BY <3>1, <1>15
  <2>3. \A k \in 1..o : u.tb.insns[k] = s.tb.insns[k]
    BY <1>15
  <2> HIDE DEF o
  <2>4. Begins(s.tb.insns, s.tb.rels, u.tb.insns, u.tb.rels, placed, o)
    BY <2>1, <2>2, <2>3 DEF Begins
  <2>5. States(u.tb.insns, u.tb.rels, placed)[o] = States(s.tb.insns, s.tb.rels, placed)[o]
    BY <2>1, <2>4, <1>13, SamePrefix
  <2> QED
    BY <2>5 DEF o
<1>20. /\ X(a) = Executed(X(a - 1), t.insns[a], {})
       /\ X(a + 1) = Executed(X(a), t.insns[a + 1], {})
  <2>1. a \in 1..Len(t.insns) /\ a + 1 \in 1..Len(t.insns) /\ (a + 1) - 1 = a
    BY <1>40
  <2>2. \A k \in 1..Len(t.insns) :
            X(k) = Executed(X(k - 1), t.insns[k], Patched(t.rels, k - 1, placed))
    BY <1>8, StatesUnfold
  <2> HIDE DEF X
  <2> QED
    BY <2>1, <2>2, <1>17
<1>21. Y(p) = Executed(Y(p - 1), u.tb.insns[p], {})
  <2>1. p \in 1..Len(u.tb.insns) /\ p - 1 \in Nat /\ p - 1 < p
    BY <1>40
  <2>2. Y(p) = Executed(Y(p - 1), u.tb.insns[p], Patched(u.tb.rels, p - 1, placed))
    BY <2>1, <1>13, StatesUnfold
  <2>3. Patched(u.tb.rels, p - 1, placed) = {}
    BY <2>1, <1>15, <1>17
  <2> QED
    BY <2>2, <2>3
<1>22. g = 0 => Y(p + 1) = Executed(Y(p), u.tb.insns[p + 1], {})
  <2> SUFFICES ASSUME g = 0 PROVE Y(p + 1) = Executed(Y(p), u.tb.insns[p + 1], {})
    OBVIOUS
  <2>1. p + 1 \in 1..Len(u.tb.insns) /\ (p + 1) - 1 = p /\ p \in Nat
    BY <1>40
  <2>2. Y(p + 1) = Executed(Y((p + 1) - 1), u.tb.insns[p + 1], Patched(u.tb.rels, (p + 1) - 1, placed))
    BY <2>1, <1>13, StatesUnfold
  <2>3. Patched(u.tb.rels, p, placed) = {}
    BY <2>1, <1>15, <1>17
  <2> QED
    BY <2>1, <2>2, <2>3
<1>23. /\ q \in Int /\ ImmOf(m, opc) = Offset(opc) + q
       /\ m = 1 => q = 0
       /\ g = 1 => Short(m, total, opc) = q + Step(opc)
       /\ g = 0 => /\ Short(m, total, opc) = 0
                   /\ PartLength(m, total, Limit[opc]) * Step(opc) = q + Step(opc)
  BY <1>4, <1>5, <1>8, ShortFacts
<1> HIDE DEF X, Y, Z
<1>24. ImmOf(m, opc) \in Int /\ PartLength(m, total, Limit[opc]) * Step(opc) \in Int
  BY <1>8, StepFacts
<1>25. BehindBy(Y(p), X(a), b, q)
  <2> DEFINE f == u.tb.insns[p]
             x == t.insns[a]
  <2>1. f = [x EXCEPT !.imm = ImmOf(m, opc)] /\ x \in CodeType
    BY <1>9, <1>15
  <2>2. /\ x.opc = opc /\ x.imm = Offset(opc) /\ x.src = b
    BY <1>10
  <2>3. x.dst # b \/ q = 0
    <3>1. m = 1 \/ m > 1
      BY <1>8
    <3> QED
      BY <3>1, <1>6, <1>9, <1>23
  <2> HIDE DEF f, x
  <2>4. f \in CodeType /\ f.opc = x.opc /\ f.dst = x.dst /\ f.src = x.src /\ f.imm = x.imm + q
    BY <2>1, <2>2, <1>23, <1>24 DEF CodeType
  <2>5. BehindBy(Executed(Z(p - 1), f, {}), Executed(X(a - 1), x, {}), b, q)
    BY <2>1, <2>2, <2>3, <2>4, <1>8, <1>11, <1>18, <1>23, AccessBehind DEF Accesses
  <2> QED
    BY <2>5, <1>19, <1>20, <1>21 DEF f, x
<1>26. /\ BehindBy(Y(p), X(a + 1), b, q + Step(opc))
       /\ g = 0 => BehindBy(Y(p + 1), X(a + 1), b, 0)
  <2> DEFINE f == u.tb.insns[p + 1]
             x == t.insns[a + 1]
  <2>1. x \in CodeType /\ x.opc = "ADDI_D" /\ x.dst = b /\ x.src = b /\ x.imm = Step(opc)
    BY <1>9, <1>10
  <2>2. g = 0 => f = [x EXCEPT !.imm = PartLength(m, total, Limit[opc]) * Step(opc)]
    BY <1>15
  <2>6. X(a + 1) = Executed(X(a), x, {}) /\ (g = 0 => Y(p + 1) = Executed(Y(p), f, {}))
    BY <1>20, <1>22
  <2> HIDE DEF f, x
  <2>3. g = 0 => f \in CodeType /\ f.opc = "ADDI_D" /\ f.dst = b /\ f.src = b /\ f.imm = q + x.imm
    BY <2>1, <2>2, <1>23, <1>24 DEF CodeType
  <2>4. /\ BehindBy(Y(p), Executed(X(a), x, {}), b, q + x.imm)
        /\ \A h \in CodeType :
            h.opc = "ADDI_D" /\ h.dst = b /\ h.src = b /\ h.imm = q + x.imm
                => BehindBy(Executed(Y(p), h, {}), Executed(X(a), x, {}), b, 0)
    BY <2>1, <1>11, <1>23, <1>25, StepBehind
  <2> QED
    BY <2>1, <2>3, <2>4, <2>6
<1>27. n - 1 + 2 * m = a + 1
  BY <1>8, <1>9
<1>28. CASE g = 1
  <2>1. u.node - 1 = p
    BY <1>28, <1>9, <1>16
  <2> QED
    BY <2>1, <1>28, <1>6, <1>23, <1>26, <1>27 DEF RoundRuns, X, Y
<1>29. CASE g = 0
  <2>1. u.node - 1 = p + 1
    BY <1>29, <1>9, <1>16
  <2> QED
    BY <2>1, <1>29, <1>6, <1>23, <1>26, <1>27 DEF RoundRuns, X, Y
<1> QED
  BY <1>14, <1>28, <1>29

(* The whole list goes along with the code of the file, from its first     *)
(* instruction on.                                                         *)
FollowsAll(insns, code) ==
    /\ Follows(insns, 1, code, "LD_D")
    /\ 0 < Len(insns) => insns[1].id = 1

(* A round of the first pass leaves the code as the second must find it.   *)
LEMMA RoundFollows ==
    ASSUME NEW t, NEW blk, WellFormedBlock(blk), NEW n, NEW c, NEW opc, opc = "ST_D", NEW total,
           Meets(t, blk, n, c, opc, total), Follows(t.insns, n, blk.code, opc),
           NEW m \in 1..total, NEW s, RoundBlock(s, m - 1, t, blk, n, c, opc, total),
           FollowsAll(s.tb.insns, blk.code),
           NEW u, u = MergeOne(s, m, total, opc)
    PROVE  FollowsAll(u.tb.insns, blk.code)
<1>1. PICK e : e = Ends(m - 1, total, opc)
  OBVIOUS
<1>2. PICK d : d = m - 1 - e
  OBVIOUS
<1>3. PICK p : p = s.node
  OBVIOUS
<1>4. PICK g : g = GoneIn(m, total, opc)
  OBVIOUS
<1>5. PICK a : a = p + d
  OBVIOUS
<1>6. PICK len \in Nat : len = Len(s.tb.insns)
  BY ObjectFacts DEF RoundBlock, Fit
<1>7. /\ n \in Nat \ {0} /\ total \in Nat /\ Len(t.insns) \in Nat /\ n + 2 * total - 1 <= Len(t.insns)
      /\ opc \in Accesses /\ total <= 2 * Limit[opc] /\ s.tb.insns \in Seq(CodeType)
      /\ Len(blk.code) \in Nat
  <2>1. Len(blk.code) \in Nat
    <3>1. blk.code \in Seq(MachineInsn)
      BY DEF WellFormedBlock, BlockType
    <3> QED
      BY <3>1, LenProperties
  <2>2. s.tb.insns \in Seq(CodeType)
    BY ObjectFacts DEF RoundBlock, Fit
  <2> QED
    BY <2>1, <2>2, ObjectFacts DEF Meets, Fit
<1>8. /\ d \in Nat /\ p \in Nat \ {0} /\ a = n + 2 * (m - 1) /\ p < len
      /\ s.tb.insns[p] = t.insns[a] /\ s.tb.insns[p + 1] = t.insns[a + 1]
      /\ PairAt(t, a, t.insns[n].src, opc)
  <2>1. RoundAt(s, m, t, n, c, opc, e, d, p)
    BY <1>1, <1>2, <1>3, RoundPair
  <2>2. p + d + 1 = a + 1
    BY <1>5
  <2> QED
    BY <2>1, <2>2, <1>5, <1>6 DEF RoundAt
<1>9. Edited(s, u, ImmOf(m, opc), PartLength(m, total, Limit[opc]) * Step(opc), g)
  BY <1>4, RoundGoesOn
<1>10. g \in {0, 1} /\ (g = 1 => m # total)
  BY <1>4, <1>7, EndsFacts
<1>11. /\ Len(u.tb.insns) = len - g
       /\ \A k \in 1..p - 1 : u.tb.insns[k] = s.tb.insns[k]
       /\ u.tb.insns[p] = [s.tb.insns[p] EXCEPT !.imm = ImmOf(m, opc)]
       /\ g = 0 => u.tb.insns[p + 1] =
                [s.tb.insns[p + 1] EXCEPT !.imm = PartLength(m, total, Limit[opc]) * Step(opc)]
       /\ \A k \in p + 2 - g..Len(u.tb.insns) : u.tb.insns[k] = s.tb.insns[k + g]
  BY <1>3, <1>6, <1>9, Zenon DEF Edited
<1>12. /\ s.tb.insns[p] \in CodeType /\ s.tb.insns[p + 1] \in CodeType
       /\ s.tb.insns[p].opc = "ST_D" /\ s.tb.insns[p + 1].opc = "ADDI_D"
  <2>1. p \in 1..Len(s.tb.insns) /\ p + 1 \in 1..Len(s.tb.insns)
    BY <1>6, <1>8
  <2>2. s.tb.insns[p].opc = "ST_D" /\ s.tb.insns[p + 1].opc = "ADDI_D"
    BY <1>8 DEF PairAt, IsPair
  <2> QED
    BY <2>1, <2>2, <1>7, CodeFacts
<1>13. /\ a \in n..Len(t.insns) /\ a + 2 = n + 2 * m
       /\ (g = 1 => p + 2 <= len /\ a + 2 <= Len(t.insns) /\ p + 2 \in p..len /\ (p + 2) + d = a + 2)
  <2>1. len = Len(t.insns) - d
    BY <1>1, <1>2, <1>6 DEF RoundBlock
  <2> DEFINE lt == Len(t.insns)
  <2>2. lt \in Nat /\ n + 2 * total - 1 <= lt /\ len = lt - d
    BY <1>7, <2>1
  <2>3. n \in Nat \ {0} /\ total \in Nat /\ d \in Nat /\ p \in Nat /\ a = n + 2 * (m - 1)
    BY <1>7, <1>8
  <2> HIDE DEF lt
  <2>4. m <= total /\ m \in Nat \ {0}
    BY <2>3
  <2>5. g = 1 => m + 1 <= total
    BY <1>10, <2>3, <2>4
  <2>6. /\ a \in n..lt /\ a + 2 = n + 2 * m
        /\ (g = 1 => p + 2 <= len /\ a + 2 <= lt /\ p + 2 \in p..len /\ (p + 2) + d = a + 2)
    BY ONLY <1>5, <1>6, <2>2, <2>3, <2>4, <2>5
  <2> QED
    BY <2>6 DEF lt
<1>14. PICK x : x = t.insns[a].id
  OBVIOUS
<1>15. /\ x \in 1..Len(blk.code) /\ t.insns[a + 1].id = x + 1
       /\ a + 2 <= Len(t.insns) => t.insns[a + 2].id = x + 2
  <2>1. IsPair(t.insns, a, opc)
    BY <1>8 DEF PairAt
  <2> QED
    <3>1. /\ a \in n..Len(t.insns) /\ n \in Nat \ {0} /\ Len(t.insns) \in Nat /\ Len(blk.code) \in Nat
          /\ opc \in Accesses
      BY <1>7, <1>13
    <3> DEFINE insns == t.insns
               code == blk.code
    <3>2. /\ IsPair(insns, a, opc) /\ Follows(insns, n, code, opc) /\ x = insns[a].id
          /\ a \in n..Len(insns) /\ Len(insns) \in Nat /\ Len(code) \in Nat
      BY <2>1, <3>1, <1>14
    <3> HIDE DEF insns, code
    <3>3. /\ x \in 1..Len(code)
          /\ IsPair(insns, a, opc) =>
                /\ a + 1 <= Len(insns) /\ insns[a + 1].id = x + 1
                /\ a + 2 <= Len(insns) <=> x + 2 <= Len(code)
                /\ a + 2 <= Len(insns) => insns[a + 2].id = x + 2
      BY ONLY <3>1, <3>2, FollowsPair
    <3> QED
      BY <3>2, <3>3 DEF insns, code
<1>16. /\ s.tb.insns[p].id = x /\ s.tb.insns[p + 1].id = x + 1
       /\ g = 1 => s.tb.insns[p + 2].id = x + 2
  <2>1. \A k \in p..len : s.tb.insns[k] = t.insns[k + d]
    BY <1>1, <1>2, <1>3, <1>6, Zenon DEF RoundBlock
  <2> QED
    BY <2>1, <1>8, <1>13, <1>14, <1>15
<1>17. Changed(blk.code, x) /\ Changed(blk.code, x + 1)
  <2>1. p \in 1..len /\ p + 1 \in 1..len
    BY <1>6, <1>8
  <2>2. AsInFile(s.tb.insns[p], blk.code, "LD_D") /\ AsInFile(s.tb.insns[p + 1], blk.code, "LD_D")
    BY <2>1, <1>6 DEF FollowsAll, Follows
  <2>3. blk.code[x].opc = "ST_D" /\ blk.code[x + 1].opc = "ADDI_D"
    BY <2>2, <1>12, <1>16 DEF AsInFile
  <2>4. x + 1 > 1 /\ (x + 1) - 1 = x
    BY <1>7, <1>15
  <2> QED
    BY <2>3, <2>4 DEF Changed
<1> DEFINE A == s.tb.insns
           B == u.tb.insns
           im == ImmOf(m, opc)
           id == PartLength(m, total, Limit[opc]) * Step(opc)
<1>18. /\ Len(A) = len /\ Follows(A, 1, blk.code, "LD_D") /\ (0 < Len(A) => A[1].id = 1)
       /\ Len(B) = len - g
       /\ A[p] \in CodeType /\ A[p + 1] \in CodeType
       /\ A[p].id = x /\ A[p + 1].id = x + 1
       /\ A[p].opc = "ST_D" /\ A[p + 1].opc = "ADDI_D"
       /\ g = 1 => A[p + 2].id = x + 2
       /\ \A k \in 1..p - 1 : B[k] = A[k]
       /\ B[p] = [A[p] EXCEPT !.imm = im]
       /\ g = 0 => B[p + 1] = [A[p + 1] EXCEPT !.imm = id]
       /\ \A k \in p + 2 - g..Len(B) : B[k] = A[k + g]
  BY <1>6, <1>11, <1>12, <1>16 DEF FollowsAll
<1> HIDE DEF A, B, im, id
<1>19. /\ B[p].id = x /\ B[p].opc = A[p].opc /\ B[p].dst = A[p].dst /\ B[p].src = A[p].src
       /\ g = 0 => /\ B[p + 1].id = A[p + 1].id /\ B[p + 1].opc = A[p + 1].opc
                   /\ B[p + 1].dst = A[p + 1].dst /\ B[p + 1].src = A[p + 1].src
  BY <1>18 DEF CodeType
<1>20. CASE g = 0
  <2>1. \A k \in 1..len : k \in 1..p - 1 \/ k = p \/ k = p + 1 \/ (k \in p + 2 - g..len - g /\ k + g = k)
    BY <1>8, <1>20
  <2>2. \A k \in 1..len : \/ B[k] = A[k]
                          \/ /\ B[k].id = A[k].id /\ B[k].opc = A[k].opc
                             /\ B[k].dst = A[k].dst /\ B[k].src = A[k].src
                             /\ Changed(blk.code, A[k].id)
    <3> SUFFICES ASSUME NEW k \in 1..len
                 PROVE  \/ B[k] = A[k]
                        \/ /\ B[k].id = A[k].id /\ B[k].opc = A[k].opc
                           /\ B[k].dst = A[k].dst /\ B[k].src = A[k].src
                           /\ Changed(blk.code, A[k].id)
      OBVIOUS
    <3>1. CASE k \in 1..p - 1
      BY <3>1, <1>18
    <3>2. CASE k = p
      BY <3>2, <1>17, <1>18, <1>19
    <3>3. CASE k = p + 1
      BY <3>3, <1>17, <1>18, <1>19, <1>20
    <3>4. CASE k \in p + 2 - g..len - g /\ k + g = k
      BY <3>4, <1>18
    <3> QED
      BY <2>1, <3>1, <3>2, <3>3, <3>4
  <2>3. Len(A) \in Nat /\ Len(B) = Len(A)
    BY <1>6, <1>18, <1>20
  <2>4. Follows(B, 1, blk.code, "LD_D")
    BY <2>2, <2>3, <1>18, FollowsPut
  <2>5. B[1].id = 1
    <3>1. 1 \in 1..len /\ 0 < len
      BY <1>6, <1>8, SMTT(30)
    <3> QED
      BY <3>1, <2>2, <1>18
  <2> QED
    BY <2>4, <2>5 DEF FollowsAll, B
<1>21. CASE g = 1
  <2> DEFINE C == [k \in 1..len |-> IF k = p THEN B[p] ELSE A[k]]
  <2>1. Len(C) = len /\ \A k \in 1..len : C[k] = IF k = p THEN B[p] ELSE A[k]
    BY <1>6
  <2> HIDE DEF C
  <2>0. p \in Nat \ {0} /\ p + 2 <= len /\ len \in Nat
    BY <1>6, <1>8, <1>13, <1>21
  <2>2. p \in 1..len /\ p + 1 \in 2..len - 1 /\ p + 1 \in 1..len /\ p + 2 \in 1..len /\ p + 1 # p /\ p + 2 # p
        /\ (p + 1) - 1 = p /\ (p + 1) + 1 = p + 2
    BY ONLY <2>0
  <2>3. Follows(C, 1, blk.code, "LD_D")
    <3>1. \A k \in 1..len : \/ C[k] = A[k]
                            \/ /\ C[k].id = A[k].id /\ C[k].opc = A[k].opc
                               /\ C[k].dst = A[k].dst /\ C[k].src = A[k].src
                               /\ Changed(blk.code, A[k].id)
      BY <2>1, <1>17, <1>18, <1>19
    <3> QED
      BY <3>1, <2>1, <1>6, <1>18, FollowsPut
  <2>4. C[p] = B[p] /\ C[p + 1] = A[p + 1] /\ C[p + 2] = A[p + 2]
    BY <2>1, <2>2
  <2>5. Len(B) = Len(C) - 1 /\ Len(C) \in Nat
    BY <2>1, <1>6, <1>18, <1>21
  <2>6. \A k \in 1..(p + 1) - 1 : B[k] = C[k]
    <3>1. \A k \in 1..(p + 1) - 1 : k \in 1..len /\ (k = p \/ (k \in 1..p - 1 /\ k # p))
      BY <1>6, <1>8
    <3> QED
      BY <3>1, <2>1, <1>18
  <2>7. \A k \in p + 1..Len(B) : B[k] = C[k + 1]
    <3>1. \A k \in p + 1..Len(B) : k \in p + 2 - g..Len(B) /\ k + 1 \in 1..len /\ k + 1 # p /\ k + g = k + 1
      <4>1. Len(B) = len - 1
        BY <1>18, <1>21
      <4> QED
        BY ONLY <2>0, <4>1, <1>21
    <3> QED
      BY <3>1, <2>1, <1>18
  <2>8. (x + 1) + 1 = x + 2
    BY <1>7, <1>15
  <2>9. C[p].id = x /\ C[p].opc = "ST_D" /\ C[p + 1].id = x + 1 /\ C[p + 1].opc = "ADDI_D" /\ C[p + 2].id = x + 2
    BY <2>4, <1>18, <1>19, <1>21
  <2>10. Follows(B, 1, blk.code, "LD_D")
    <3> DEFINE h == p + 1
    <3>1. /\ h \in 2..Len(C) - 1 /\ C[h].id = C[h - 1].id + 1 /\ C[h + 1].id = C[h].id + 1
          /\ C[h - 1].opc = "ST_D" /\ C[h].opc = "ADDI_D"
          /\ \A k \in 1..h - 1 : B[k] = C[k]
          /\ \A k \in h..Len(B) : B[k] = C[k + 1]
      BY <2>1, <2>2, <2>6, <2>7, <2>8, <2>9
    <3> HIDE DEF h
    <3> QED
      BY <3>1, <2>3, <2>5, FollowsDeleted
  <2>11. B[1].id = 1
    <3>1. 1 \in 1..p - 1 \/ p = 1
      BY <1>8
    <3>2. 0 < len
      BY <1>6, <1>8
    <3> QED
      BY <3>1, <3>2, <1>18, <1>19
  <2> QED
    BY <2>10, <2>11 DEF FollowsAll, B
<1> QED
  BY <1>10, <1>20, <1>21

-----------------------------------------------------------------------------
(* A whole run.                                                            *)

(* What holds at first and is handed on by every round holds after each.   *)
LEMMA UpTo ==
    ASSUME NEW total \in Nat, NEW S, 0 \in S, \A m \in 1..total : m - 1 \in S => m \in S
    PROVE  \A m \in 0..total : m \in S
<1> DEFINE T == {m \in Nat : m <= total => m \in S}
<1>1. 0 \in T
  OBVIOUS
<1>2. \A m \in T : m + 1 \in T
  <2> SUFFICES ASSUME NEW m \in T, m + 1 <= total PROVE m + 1 \in S
    OBVIOUS
  <2>1. m \in S /\ m + 1 \in 1..total /\ (m + 1) - 1 = m
    OBVIOUS
  <2> QED
    BY <2>1
<1>3. T = Nat
  <2> HIDE DEF T
  <2> QED
    BY <1>1, <1>2, NatInduct DEF T
<1> QED
  BY <1>3

(* The states of the loop, round by round.                                 *)
Rounds(s, t, n, c, opc, total) ==
    /\ s[0] = [tb |-> t, node |-> n, index |-> c]
    /\ \A m \in 1..total : s[m] = MergeOne(s[m - 1], m, total, opc)

(* What the first round meets.                                             *)
LEMMA FirstRound ==
    ASSUME NEW t, NEW blk, NEW n, NEW c, NEW opc, NEW total, total > 0,
           Meets(t, blk, n, c, opc, total),
           NEW s, s = [tb |-> t, node |-> n, index |-> c]
    PROVE  /\ RoundBlock(s, 0, t, blk, n, c, opc, total)
           /\ Short(0, total, opc) = 0 /\ Ends(0, total, opc) = 0
<1>1. /\ n \in Nat \ {0} /\ c \in Int /\ opc \in Accesses /\ total \in Nat /\ Fit(t, blk)
      /\ Len(t.insns) \in Nat
  BY ObjectFacts DEF Meets, Fit
<1>2. 1 \in 1..total
  BY <1>1
<1>3. PICK lim \in Nat \ {0} : lim = Limit[opc]
  BY <1>1, <1>2, StepFacts
<1>4. Ends(0, total, opc) = 0
  BY <1>1, <1>3 DEF Ends
<1>5. 0 - Ends(0, total, opc) = 0 /\ n + 0 + Ends(0, total, opc) = n /\ c + 0 = c
      /\ Len(t.insns) - 0 = Len(t.insns)
  BY <1>1, <1>4
<1>6. s.tb = t /\ s.node = n
  OBVIOUS
<1>7. \A k \in n..n - 1 : FALSE
  BY <1>1
<1>8. \A i \in Nat : ~ (n - 1 <= i /\ i < n - 1) /\ i + 0 = i
  BY <1>1
<1>9. \A k \in n..Len(t.insns) : k + 0 = k
  BY <1>1
<1>10. RoundBlock(s, 0, t, blk, n, c, opc, total)
  BY <1>1, <1>5, <1>6, <1>7, <1>8, <1>9 DEF RoundBlock
<1>11. Short(0, total, opc) = 0
  <2>1. 0 # total /\ 0 + 1 = 1 /\ InPart(1, lim) = 1
    <3>1. 1 \in Nat \ {0} /\ 1 <= lim /\ 0 # total
      OBVIOUS
    <3> QED
      BY ONLY <3>1, lim \in Nat \ {0}, InPartFacts
  <2>2. Step(opc) \in {-1, 1}
    BY <1>1, <1>2, StepFacts
  <2>3. (1 - 1) * Step(opc) = 0
    BY <2>2
  <2> QED
    BY <2>1, <2>3, <1>3 DEF Short
<1> QED
  BY <1>4, <1>10, <1>11

(* The rounds of a run, and what they leave of the block,                  *)
LEMMA AllRounds ==
    ASSUME NEW t, NEW blk, WellFormedBlock(blk), NEW n, NEW c, NEW opc, NEW total, total > 0,
           Meets(t, blk, n, c, opc, total), NEW s, Rounds(s, t, n, c, opc, total)
    PROVE  \A m \in 0..total : RoundBlock(s[m], m, t, blk, n, c, opc, total)
<1> DEFINE P(m) == RoundBlock(s[m], m, t, blk, n, c, opc, total)
           S == {m \in 0..total : P(m)}
<1>1. total \in Nat
  BY DEF Meets
<1>2. P(0)
  BY FirstRound DEF Rounds
<1>3. ASSUME NEW m \in 1..total, P(m - 1) PROVE P(m)
  <2>1. s[m] = MergeOne(s[m - 1], m, total, opc)
    BY DEF Rounds
  <2> QED
    BY <2>1, <1>3, RoundGoesOn
<1> HIDE DEF P
<1>4. 0 \in S /\ \A m \in 1..total : m - 1 \in S => m \in S
  BY <1>1, <1>2, <1>3
<1>5. \A m \in 0..total : m \in S
  <2> HIDE DEF S
  <2> QED
    BY <1>1, <1>4, UpTo
<1> QED
  BY <1>5 DEF P

(* of the code for the second pass,                                        *)
LEMMA AllRoundsFollow ==
    ASSUME NEW t, NEW blk, WellFormedBlock(blk), NEW n, NEW c, NEW opc, opc = "ST_D", NEW total, total > 0,
           Meets(t, blk, n, c, opc, total), NEW s, Rounds(s, t, n, c, opc, total),
           Follows(t.insns, n, blk.code, opc), FollowsAll(t.insns, blk.code)
    PROVE  FollowsAll(s[total].tb.insns, blk.code)
<1> DEFINE P(m) == FollowsAll(s[m].tb.insns, blk.code)
           S == {m \in 0..total : P(m)}
<1>1. total \in Nat /\ total \in 0..total
  BY DEF Meets
<1>2. P(0)
  BY DEF Rounds
<1>3. ASSUME NEW m \in 1..total, P(m - 1) PROVE P(m)
  <2>1. s[m] = MergeOne(s[m - 1], m, total, opc)
    BY DEF Rounds
  <2>2. m - 1 \in 0..total
    BY <1>1
  <2>3. RoundBlock(s[m - 1], m - 1, t, blk, n, c, opc, total)
    BY <2>2, AllRounds
  <2> QED
    BY <2>1, <2>3, <1>3, RoundFollows
<1> HIDE DEF P
<1>4. 0 \in S /\ \A m \in 1..total : m - 1 \in S => m \in S
  BY <1>1, <1>2, <1>3
<1>5. \A m \in 0..total : m \in S
  <2> HIDE DEF S
  <2> QED
    BY <1>1, <1>4, UpTo
<1> QED
  BY <1>1, <1>5 DEF P

(* No access of the run but the first has its base as its data.            *)
BaseIsNoData(t, n, total) ==
    \A m \in 1..total : m > 1 => t.insns[n + 2 * (m - 1)].dst # t.insns[n].src

(* Behind the run the registers and stores are those of the block before.  *)
RunsLike(u, t, n, total, placed) ==
    States(u.tb.insns, u.tb.rels, placed)[u.node - 1] =
        States(t.insns, t.rels, placed)[n - 1 + 2 * total]

(* and of the machine, which in the end is short of nothing.               *)
LEMMA AllRoundsRun ==
    ASSUME NEW t, NEW blk, WellFormedBlock(blk), NEW n, NEW c, NEW opc, NEW total, total > 0,
           Meets(t, blk, n, c, opc, total), NEW s, Rounds(s, t, n, c, opc, total),
           t.insns[n].src # 0, BaseIsNoData(t, n, total), NEW placed
    PROVE  RunsLike(s[total], t, n, total, placed)
<1> DEFINE P(m) == RoundRuns(s[m], m, t, n, opc, total, placed)
           S == {m \in 0..total : P(m)}
<1>1. total \in Nat /\ total \in 0..total /\ n \in Nat \ {0} /\ Len(t.insns) \in Nat
      /\ t.insns \in Seq(CodeType) /\ n + 2 * total - 1 <= Len(t.insns)
  BY ObjectFacts DEF Meets, Fit
<1>2. n \in 1..Len(t.insns) /\ n - 1 \in 0..Len(t.insns) /\ n - 1 + 2 * 0 = n - 1
  BY <1>1
<1>3. t.insns[n].src \in Regs
  BY <1>1, <1>2, CodeFacts DEF CodeType
<1>4. P(0)
  <2>1. s[0].tb = t /\ s[0].node = n /\ Short(0, total, opc) = 0
    <3>1. s[0] = [tb |-> t, node |-> n, index |-> c]
      BY DEF Rounds
    <3> QED
      BY <3>1, FirstRound
  <2>2. HasValues(States(t.insns, t.rels, placed)[n - 1])
    BY <1>1, <1>2, StatesHaveValues
  <2>3. BehindBy(States(t.insns, t.rels, placed)[n - 1], States(t.insns, t.rels, placed)[n - 1],
                 t.insns[n].src, 0)
    BY <2>2, <1>3, NotBehind
  <2> QED
    BY <2>1, <2>3, <1>2 DEF RoundRuns
<1>5. ASSUME NEW m \in 1..total, P(m - 1) PROVE P(m)
  <2>1. s[m] = MergeOne(s[m - 1], m, total, opc)
    BY DEF Rounds
  <2>2. m - 1 \in 0..total
    BY <1>1
  <2>3. RoundBlock(s[m - 1], m - 1, t, blk, n, c, opc, total)
    BY <2>2, AllRounds
  <2>4. m > 1 => t.insns[n + 2 * (m - 1)].dst # t.insns[n].src
    BY DEF BaseIsNoData
  <2> QED
    BY <2>1, <2>3, <2>4, <1>5, RoundRunsOn
<1> HIDE DEF P
<1>6. 0 \in S /\ \A m \in 1..total : m - 1 \in S => m \in S
  BY <1>1, <1>4, <1>5
<1>7. \A m \in 0..total : m \in S
  <2> HIDE DEF S
  <2> QED
    BY <1>1, <1>6, UpTo
<1>8. RoundRuns(s[total], total, t, n, opc, total, placed)
  BY <1>1, <1>7 DEF P
<1>9. Short(total, total, opc) = 0
  BY DEF Short
<1> QED
  BY <1>3, <1>8, <1>9, NotBehind DEF RoundRuns, RunsLike

(* What Merged makes of a run of total pairs at the node: u is the state   *)
(* after it, d of its addi.d are gone.                                     *)
RunMerged(u, total, d) ==
    /\ Fit(u.tb, block)
    /\ u.node \in Nat \ {0} /\ d \in Nat
    /\ u.node = node + total + (IF Limit[pass] < total THEN 2 ELSE 1)
    /\ u.node + d = node + 2 * total
    /\ Len(u.tb.insns) = Len(tb.insns) - d /\ u.node <= Len(u.tb.insns) + 1
    /\ \A k \in u.node..Len(u.tb.insns) : u.tb.insns[k] = tb.insns[k + d]
    /\ NoBranchUpTo(u.tb.insns, u.node - 1)
    /\ Behind(u.tb.insns) = Behind(tb.insns)

RunsAsBefore(u) ==
    \A placed : Run(u.tb.insns, u.tb.rels, placed) = Run(tb.insns, tb.rels, placed)

(* The same of a step of visit that merges a run.                          *)
LEMMA AfterRun ==
    ASSUME WellFormedBlock(block), NEW total, total > 0,
           Meets(tb, block, node, cur, pass, total), NoBranchUpTo(tb.insns, node - 1),
           NEW u, u = Merged(total, pass)
    PROVE  /\ \E d : RunMerged(u, total, d)
           /\ tb.insns[node].src # 0 /\ BaseIsNoData(tb, node, total) => RunsAsBefore(u)
           /\ pass = "ST_D" /\ Follows(tb.insns, node, block.code, pass) /\ FollowsAll(tb.insns, block.code)
                => FollowsAll(u.tb.insns, block.code)
<1>1. /\ node \in Nat \ {0} /\ cur \in Int /\ pass \in Accesses /\ total \in Nat /\ Fit(tb, block)
      /\ Len(tb.insns) \in Nat /\ tb.insns \in Seq(CodeType)
      /\ node + 2 * total - 1 <= Len(tb.insns) /\ total <= 2 * Limit[pass]
  BY ObjectFacts DEF Meets, Fit
<1>2. PICK s : Rounds(s, tb, node, cur, pass, total) /\ s[total] = u
  <2>1. \E s : /\ s[0] = [tb |-> tb, node |-> node, index |-> cur]
               /\ \A m \in 1..total : s[m] = MergeOne(s[m - 1], m, total, pass)
               /\ s[total] = Merged(total, pass)
    BY <1>1, MergedIs
  <2> QED
    BY <2>1 DEF Rounds
<1>3. RoundBlock(u, total, tb, block, node, cur, pass, total)
  <2>1. total \in 0..total
    BY <1>1
  <2> QED
    BY <2>1, <1>2, AllRounds
<1>4. PICK e : e = Ends(total, total, pass)
  OBVIOUS
<1>5. PICK d : d = total - e
  OBVIOUS
<1>6. PICK q : q = u.node
  OBVIOUS
<1>7. PICK lim \in Nat \ {0} : lim = Limit[pass]
  <2>1. 1 \in 1..total
    BY <1>1
  <2> QED
    BY <2>1, <1>1, StepFacts
<1>8. e = IF lim < total THEN 2 ELSE 1
  BY <1>1, <1>4, <1>7 DEF Ends
<1>9. /\ Fit(u.tb, block) /\ q = node + total + e /\ Len(u.tb.insns) = Len(tb.insns) - d
      /\ \A k \in 1..node - 1 : u.tb.insns[k] = tb.insns[k]
      /\ \A k \in node..q - 1 : u.tb.insns[k].opc \notin BranchClasses
      /\ \A k \in q..Len(u.tb.insns) : u.tb.insns[k] = tb.insns[k + d]
      /\ \A i \in Nat : \A placed :
            q - 1 <= i => Patched(u.tb.rels, i, placed) = Patched(tb.rels, i + d, placed)
  <2>1. u.node = node + total + e
    <3>1. u = [tb |-> u.tb, node |-> node + total + e, index |-> cur + d]
      BY <1>3, <1>4, <1>5, Zenon DEF RoundBlock
    <3> QED
      BY <3>1
  <2> QED
    BY <2>1, <1>3, <1>4, <1>5, <1>6, Zenon DEF RoundBlock
<1> DEFINE len == Len(tb.insns)
           w == Len(u.tb.insns)
<1>10. len \in Nat /\ w = len - d /\ node + 2 * total - 1 <= len /\ q = node + total + e
       /\ node \in Nat \ {0} /\ total \in Nat /\ total > 0
  BY <1>1, <1>9
<1> HIDE DEF len, w
<1>11. /\ q \in Nat \ {0} /\ d \in Nat /\ q + d = node + 2 * total /\ q <= w + 1 /\ w \in Nat
       /\ (q - 1) + d = node - 1 + 2 * total /\ q - 1 \in Nat /\ (q - 1) + d <= len
       /\ (q - 1) + 1 = q
       /\ \A k \in 1..q - 1 : k \in 1..node - 1 \/ k \in node..q - 1
  BY <1>5, <1>8, <1>10
<1>12. NoBranchUpTo(u.tb.insns, q - 1)
  <2> SUFFICES ASSUME NEW k \in 1..q - 1 PROVE u.tb.insns[k].opc \notin BranchClasses
    BY DEF NoBranchUpTo
  <2>1. CASE k \in 1..node - 1
    BY <2>1, <1>9 DEF NoBranchUpTo
  <2>2. CASE k \in node..q - 1
    BY <2>2, <1>9
  <2> QED
    BY <2>1, <2>2, <1>11
<1>13. \A k \in 1..(q - 1) + d : tb.insns[k].opc \notin BranchClasses
  <2> SUFFICES ASSUME NEW k \in 1..node - 1 + 2 * total PROVE tb.insns[k].opc \notin BranchClasses
    BY <1>11
  <2>1. CASE k \in 1..node - 1
    BY <2>1 DEF NoBranchUpTo
  <2>2. CASE k \notin 1..node - 1
    <3>1. PICK j \in 0..total - 1 : k = node + 2 * j \/ k = node + 2 * j + 1
      <4> DEFINE h == (k - node) \div 2
      <4>1. k - node \in 0..2 * total - 1
        BY <2>2, <1>1
      <4>2. \A x \in 0..2 * total - 1 : x \div 2 \in 0..total - 1 /\ (x = 2 * (x \div 2) \/ x = 2 * (x \div 2) + 1)
        BY <1>1, SMTT(30)
      <4>3. h \in 0..total - 1 /\ (k - node = 2 * h \/ k - node = 2 * h + 1)
        BY <4>1, <4>2
      <4> HIDE DEF h
      <4>4. k = node + 2 * h \/ k = node + 2 * h + 1
        BY <4>3, <1>1
      <4> QED
        BY <4>3, <4>4
    <3>2. PairAt(tb, node + 2 * j, tb.insns[node].src, pass)
      BY DEF Meets
    <3>3. tb.insns[node + 2 * j].opc = pass /\ tb.insns[node + 2 * j + 1].opc = "ADDI_D"
      BY <3>2 DEF PairAt, IsPair
    <3> QED
      BY <3>1, <3>3, <1>1 DEF BranchClasses, Accesses
  <2> QED
    BY <2>1, <2>2
<1>14. u.tb.insns \in Seq(CodeType)
  BY <1>9, ObjectFacts DEF Fit
<1>15. \A k \in (q - 1) + 1..Len(u.tb.insns) : u.tb.insns[k] = tb.insns[k + d]
  BY <1>9, <1>11
<1>16. Behind(u.tb.insns) = Behind(tb.insns)
  <2> DEFINE n == q - 1
  <2>1. /\ n \in Nat /\ n + d <= Len(tb.insns) /\ Len(u.tb.insns) = Len(tb.insns) - d
        /\ \A k \in 1..n + d : tb.insns[k].opc \notin BranchClasses
        /\ \A k \in 1..n : u.tb.insns[k].opc \notin BranchClasses
        /\ \A k \in n + 1..Len(u.tb.insns) : u.tb.insns[k] = tb.insns[k + d]
    BY <1>9, <1>11, <1>12, <1>13, <1>15 DEF len, NoBranchUpTo
  <2> HIDE DEF n
  <2> QED
    BY <2>1, <1>1, <1>11, <1>14, SameBehind
<1>17. RunMerged(u, total, d)
  <2>1. q = node + total + (IF Limit[pass] < total THEN 2 ELSE 1)
    BY <1>7, <1>8, <1>9
  <2> QED
    BY <2>1, <1>6, <1>9, <1>11, <1>12, <1>16 DEF RunMerged, w
<1>18. ASSUME tb.insns[node].src # 0, BaseIsNoData(tb, node, total) PROVE RunsAsBefore(u)
  <2> SUFFICES ASSUME NEW placed
               PROVE  Run(u.tb.insns, u.tb.rels, placed) = Run(tb.insns, tb.rels, placed)
    BY DEF RunsAsBefore
  <2> DEFINE n == q - 1
  <2>1. States(u.tb.insns, u.tb.rels, placed)[n] = States(tb.insns, tb.rels, placed)[n + d]
    <3>1. RunsLike(s[total], tb, node, total, placed)
      BY <1>2, <1>18, AllRoundsRun
    <3> QED
      BY <3>1, <1>2, <1>6, <1>11 DEF RunsLike
  <2>2. GoesOn(tb.insns, tb.rels, u.tb.insns, u.tb.rels, placed, n, d)
    <3>1. \A k \in Nat : k >= n => Patched(u.tb.rels, k, placed) = Patched(tb.rels, k + d, placed)
      <4>1. \A k \in Nat : k >= n => n <= k
        BY <1>11
      <4> QED
        BY <4>1, <1>9
    <3> QED
      BY <3>1, <1>15 DEF GoesOn
  <2>3. /\ n \in Nat /\ n + d <= Len(tb.insns) /\ Len(u.tb.insns) = Len(tb.insns) - d
        /\ \A k \in 1..n + d : tb.insns[k].opc \notin BranchClasses
        /\ \A k \in 1..n : u.tb.insns[k].opc \notin BranchClasses
    BY <1>9, <1>11, <1>12, <1>13 DEF len, NoBranchUpTo
  <2> DEFINE a == tb.insns
             b == u.tb.insns
             rels == tb.rels
             others == u.tb.rels
  <2>4. /\ a \in Seq(CodeType) /\ b \in Seq(CodeType) /\ n \in Nat /\ d \in Nat
        /\ n + d <= Len(a) /\ Len(b) = Len(a) - d
        /\ \A k \in 1..n + d : a[k].opc \notin BranchClasses
        /\ \A k \in 1..n : b[k].opc \notin BranchClasses
        /\ States(b, others, placed)[n] = States(a, rels, placed)[n + d]
        /\ GoesOn(a, rels, b, others, placed, n, d)
    BY <2>1, <2>2, <2>3, <1>1, <1>11, <1>14
  <2> HIDE DEF n, a, b, rels, others
  <2>5. Run(b, others, placed) = Run(a, rels, placed) /\ Behind(b) = Behind(a)
    BY ONLY <2>4, SameRun, Zenon
  <2> QED
    BY <2>5 DEF a, b, rels, others
<1>19. ASSUME pass = "ST_D", Follows(tb.insns, node, block.code, pass), FollowsAll(tb.insns, block.code)
       PROVE  FollowsAll(u.tb.insns, block.code)
  BY <1>2, <1>19, AllRoundsFollow
<1> QED
  BY <1>17, <1>18, <1>19

-----------------------------------------------------------------------------
(* Immediates stay in their fields whatever the block and its relocations. *)

HasShape(t) ==
    t = [insns |-> t.insns, branches |-> t.branches, rels |-> t.rels,
         linked |-> t.linked, target |-> t.target]

Field == -Limit["ST_D"]..Limit["LD_D"]

InField(insns, code) ==
    /\ insns \in Seq(CodeType)
    /\ \A k \in 1..Len(insns) :
        /\ insns[k].id \in 1..Len(code)
        /\ insns[k].imm \in {code[insns[k].id].imm} \cup Field

(* No offset and no step leaves its field: each counts the accesses of one *)
(* part.                                                                   *)
LEMMA ImmsInField ==
    ASSUME NEW opc \in Accesses, NEW total \in Nat, NEW m \in 1..total
    PROVE  /\ ImmOf(m, opc) \in Field
           /\ PartLength(m, total, Limit[opc]) * Step(opc) \in Field
           /\ Field \subseteq Int
<1>1. PICK a, b \in Nat \ {0} : a = Limit["ST_D"] /\ b = Limit["LD_D"]
  BY LimitAssumption
<1>2. PICK lim \in Nat \ {0} : lim = Limit[opc]
  BY StepFacts
<1>3. PICK k : k = InPart(m, lim)
  OBVIOUS
<1>4. PICK count : count = PartLength(m, total, lim)
  OBVIOUS
<1>5. k \in 1..lim /\ count \in 1..lim
  <2>1. m \in Nat \ {0}
    OBVIOUS
  <2> QED
    BY <1>3, <1>4, <2>1, InPartFacts, PartLengthFacts
<1>6. Field = -a..b
  BY <1>1 DEF Field
<1>7. CASE opc = "ST_D"
  <2>1. lim = a /\ Offset(opc) = -1 /\ Step(opc) = -1
    BY <1>1, <1>2, <1>7 DEF Offset, Step
  <2>2. ImmOf(m, opc) = -1 + (k - 1) * (-1)
    BY <2>1, <1>2, <1>3 DEF ImmOf
  <2>3. -1 + (k - 1) * (-1) \in -a..b /\ count * (-1) \in -a..b
    BY <1>1, <1>5, <2>1
  <2> QED
    BY <1>1, <1>2, <1>4, <1>6, <2>1, <2>2, <2>3
<1>8. CASE opc = "LD_D"
  <2>1. lim = b /\ Offset(opc) = 0 /\ Step(opc) = 1
    BY <1>1, <1>2, <1>8 DEF Offset, Step
  <2>2. ImmOf(m, opc) = 0 + (k - 1) * 1
    BY <2>1, <1>2, <1>3 DEF ImmOf
  <2>3. 0 + (k - 1) * 1 \in -a..b /\ count * 1 \in -a..b
    BY <1>1, <1>5, <2>1
  <2> QED
    BY <1>1, <1>2, <1>4, <1>6, <2>1, <2>2, <2>3
<1> QED
  BY <1>7, <1>8 DEF Accesses

(* The fields of a block, after an edit of an offset                       *)
LEMMA WithImmInField ==
    ASSUME NEW t, HasShape(t), NEW code, InField(t.insns, code), Field \subseteq Int,
           NEW p \in 1..Len(t.insns), NEW x \in Field, NEW u, u = WithImm(t, p, x)
    PROVE  HasShape(u) /\ InField(u.insns, code) /\ Len(u.insns) = Len(t.insns)
<1> DEFINE a == t.insns
           new == [a[p] EXCEPT !.imm = x]
           b == [a EXCEPT ![p] = new]
<1>1. a \in Seq(CodeType) /\ Len(a) \in Nat /\ DOMAIN a = 1..Len(a) /\ p \in DOMAIN a
  BY CodeFacts DEF InField
<1>2. u = [insns |-> b, branches |-> t.branches, rels |-> t.rels, linked |-> t.linked, target |-> t.target]
  BY DEF HasShape, WithImm
<1>3. HasShape(u) /\ u.insns = b
  BY <1>2 DEF HasShape
<1>4. /\ new \in CodeType /\ new.id = a[p].id /\ new.imm = x
  <2>1. a[p] \in CodeType /\ x \in Int
    BY <1>1, CodeFacts
  <2> QED
    BY <2>1 DEF CodeType
<1> HIDE DEF new
<1>5. b \in Seq(CodeType) /\ Len(b) = Len(a)
  BY <1>1, <1>4, ExceptSeq
<1>6. \A k \in 1..Len(a) : b[k] = IF k = p THEN new ELSE a[k]
  BY <1>1
<1> HIDE DEF b
<1>7. \A k \in 1..Len(a) : a[k].id \in 1..Len(code) /\ a[k].imm \in {code[a[k].id].imm} \cup Field
  BY DEF InField
<1>8. InField(b, code)
  BY <1>4, <1>5, <1>6, <1>7 DEF InField
<1> QED
  BY <1>3, <1>5, <1>8

(* and after a deletion,                                                   *)
LEMMA DeletedInField ==
    ASSUME NEW t, HasShape(t), NEW code, InField(t.insns, code),
           NEW p \in 1..Len(t.insns), NEW i, NEW u, u = DeleteIthInsn(t, p, i)
    PROVE  /\ HasShape(u) /\ InField(u.insns, code)
           /\ u = t \/ (u # t /\ Len(u.insns) = Len(t.insns) - 1)
<1> DEFINE a == t.insns
           b == RemoveAt(a, p)
<1>1. a \in Seq(CodeType) /\ Len(a) \in Nat
  BY CodeFacts DEF InField
<1>2. /\ b \in Seq(CodeType) /\ Len(b) = Len(a) - 1
      /\ \A k \in 1..Len(a) - 1 : b[k] = IF k < p THEN a[k] ELSE a[k + 1]
  BY <1>1, RemoveAtProperties
<1> HIDE DEF b
<1>3. InField(b, code)
  <2>1. \A k \in 1..Len(a) - 1 : k \in 1..Len(a) /\ k + 1 \in 1..Len(a)
    BY <1>1
  <2>2. \A k \in 1..Len(a) : a[k].id \in 1..Len(code) /\ a[k].imm \in {code[a[k].id].imm} \cup Field
    BY DEF InField
  <2> QED
    BY <1>2, <2>1, <2>2 DEF InField
<1>4. CASE InRel(t, i)
  BY <1>4 DEF DeleteIthInsn
<1>5. CASE ~ InRel(t, i)
  <2>1. u = RemoveInsn(t, p, i)
    BY <1>5 DEF DeleteIthInsn
  <2>2. HasShape(u) /\ u.insns = b
    BY <2>1 DEF HasShape, RemoveInsn, b
  <2>3. Len(u.insns) = Len(t.insns) - 1
    BY <2>2, <1>2
  <2>4. u # t
    BY <1>1, <2>3
  <2> QED
    BY <2>2, <2>3, <2>4, <1>3
<1> QED
  BY <1>4, <1>5

(* After m rounds, deletions refused or not, the loop is at the access     *)
(* that comes then.                                                        *)
RoundTyped(s, m, t, n, code) ==
    /\ s = [tb |-> s.tb, node |-> s.node, index |-> s.index]
    /\ HasShape(s.tb) /\ InField(s.tb.insns, code)
    /\ s.node \in Nat \ {0}
    /\ s.node + (Len(t.insns) - Len(s.tb.insns)) = n + 2 * m

(* and so after a round,                                                   *)
LEMMA RoundKeepsType ==
    ASSUME NEW t, Len(t.insns) \in Nat, NEW n \in Nat \ {0}, NEW code, NEW opc \in Accesses, NEW total \in Nat,
           n + 2 * total - 1 <= Len(t.insns), NEW m \in 1..total,
           NEW s, RoundTyped(s, m - 1, t, n, code), NEW u, u = MergeOne(s, m, total, opc)
    PROVE  RoundTyped(u, m, t, n, code)
<1> DEFINE p == s.node
           x == ImmOf(m, opc)
           y == PartLength(m, total, Limit[opc]) * Step(opc)
           moved == WithImm(s.tb, p, x)
           last == WithImm(moved, p + 1, y)
           less == DeleteIthInsn(moved, p + 1, s.index + 1)
           z == IF less = moved THEN p + 2 ELSE p + 1
           w == Len(s.tb.insns)
           lt == Len(t.insns)
<1>1. x \in Field /\ y \in Field /\ Field \subseteq Int
  BY ImmsInField
<1>2. u = IF EndsPart(m, total, opc)
          THEN [s EXCEPT !.tb = last, !.node = @ + 2]
          ELSE [tb |-> less, node |-> z, index |-> s.index + 1]
  BY Zenon DEF MergeOne, EndsPart, PartMax, WithImm, ImmOf
<1> HIDE DEF x, y, last, less, z
<1>3. /\ s = [tb |-> s.tb, node |-> s.node, index |-> s.index]
      /\ HasShape(s.tb) /\ InField(s.tb.insns, code)
      /\ p \in Nat \ {0} /\ p + (lt - w) = n + 2 * (m - 1) /\ w \in Nat /\ lt \in Nat
  BY CodeFacts DEF RoundTyped, InField
<1> HIDE DEF p, w, lt, moved
<1>4. p \in 1..w /\ p + 1 \in 1..w
  <2>1. n + 2 * total - 1 <= lt /\ m <= total
    BY DEF lt
  <2> QED
    BY ONLY <1>3, <2>1, n \in Nat \ {0}, total \in Nat, m \in 1..total
<1>5. HasShape(moved) /\ InField(moved.insns, code) /\ Len(moved.insns) = w
  <2> DEFINE v == s.tb
  <2>1. /\ p \in 1..Len(v.insns) /\ moved = WithImm(v, p, x)
        /\ HasShape(v) /\ InField(v.insns, code)
    BY <1>3, <1>4 DEF w, moved
  <2> HIDE DEF v
  <2>2. HasShape(moved) /\ InField(moved.insns, code) /\ Len(moved.insns) = Len(v.insns)
    BY ONLY <2>1, <1>1, WithImmInField
  <2> QED
    BY <2>2 DEF w, v
<1>6. CASE EndsPart(m, total, opc)
  <2>1. u = [tb |-> last, node |-> p + 2, index |-> s.index]
    BY <1>2, <1>3, <1>6 DEF p
  <2>2. HasShape(last) /\ InField(last.insns, code) /\ Len(last.insns) = w
    <3> DEFINE q == p + 1
    <3>1. q \in 1..Len(moved.insns) /\ last = WithImm(moved, q, y)
      BY <1>4, <1>5 DEF last
    <3> HIDE DEF q
    <3> QED
      BY <3>1, <1>1, <1>5, WithImmInField
  <2>3. p + 2 \in Nat \ {0} /\ (p + 2) + (lt - w) = n + 2 * m
    BY ONLY <1>3, n \in Nat \ {0}, m \in 1..total, total \in Nat
  <2>4. u.tb = last /\ u.node = p + 2 /\ u.index = s.index
    BY <2>1
  <2> QED
    BY <2>1, <2>2, <2>3, <2>4 DEF RoundTyped, lt
<1>7. CASE ~ EndsPart(m, total, opc)
  <2>1. u = [tb |-> less, node |-> z, index |-> s.index + 1]
    BY <1>2, <1>7
  <2>2. /\ HasShape(less) /\ InField(less.insns, code)
        /\ less = moved \/ (less # moved /\ Len(less.insns) = w - 1)
    <3> DEFINE q == p + 1
               i == s.index + 1
    <3>1. q \in 1..Len(moved.insns) /\ less = DeleteIthInsn(moved, q, i)
      BY <1>4, <1>5 DEF less
    <3> HIDE DEF q, i
    <3>2. /\ HasShape(less) /\ InField(less.insns, code)
          /\ less = moved \/ (less # moved /\ Len(less.insns) = Len(moved.insns) - 1)
      BY ONLY <3>1, <1>5, DeletedInField
    <3> QED
      BY <3>2, <1>5
  <2>3. z \in Nat \ {0} /\ z + (lt - Len(less.insns)) = n + 2 * m
    <3>1. CASE less = moved
      <4>1. z = p + 2 /\ Len(less.insns) = w
        BY <3>1, <1>5 DEF z
      <4>2. p + 2 \in Nat \ {0} /\ (p + 2) + (lt - w) = n + 2 * m
        BY ONLY <1>3, n \in Nat \ {0}, m \in 1..total, total \in Nat
      <4> QED
        BY <4>1, <4>2
    <3>2. CASE less # moved
      <4>1. z = p + 1 /\ Len(less.insns) = w - 1
        BY <3>2, <2>2 DEF z
      <4>2. p + 1 \in Nat \ {0} /\ (p + 1) + (lt - (w - 1)) = n + 2 * m
        BY ONLY <1>3, n \in Nat \ {0}, m \in 1..total, total \in Nat
      <4> QED
        BY <4>1, <4>2
    <3> QED
      BY <3>1, <3>2
  <2>4. u.tb = less /\ u.node = z /\ u.index = s.index + 1
    BY <2>1
  <2> QED
    BY <2>1, <2>2, <2>3, <2>4 DEF RoundTyped, lt
<1> QED
  BY <1>6, <1>7

(* and after a run.                                                        *)
LEMMA MergedType ==
    ASSUME HasShape(tb), NEW code, InField(tb.insns, code), node \in Nat \ {0}, pass \in Accesses,
           NEW total \in Nat, node + 2 * total - 1 <= Len(tb.insns),
           NEW u, u = Merged(total, pass)
    PROVE  HasShape(u.tb) /\ InField(u.tb.insns, code) /\ u.node \in Nat \ {0}
<1>1. Len(tb.insns) \in Nat
  BY CodeFacts DEF InField
<1>2. PICK s : /\ s[0] = [tb |-> tb, node |-> node, index |-> cur]
               /\ \A m \in 1..total : s[m] = MergeOne(s[m - 1], m, total, pass)
               /\ s[total] = Merged(total, pass)
  BY MergedIs
<1> DEFINE P(m) == RoundTyped(s[m], m, tb, node, code)
           S == {m \in 0..total : P(m)}
<1>3. P(0)
  <2>1. s[0].tb = tb /\ s[0].node = node /\ s[0] = [tb |-> s[0].tb, node |-> s[0].node, index |-> s[0].index]
    BY <1>2
  <2>2. node + (Len(tb.insns) - Len(tb.insns)) = node + 2 * 0
    BY <1>1
  <2> QED
    BY <2>1, <2>2 DEF RoundTyped
<1>4. ASSUME NEW m \in 1..total, P(m - 1) PROVE P(m)
  <2>1. s[m] = MergeOne(s[m - 1], m, total, pass)
    BY <1>2
  <2> QED
    BY <2>1, <1>1, <1>4, RoundKeepsType
<1> HIDE DEF P
<1>5. 0 \in S /\ \A m \in 1..total : m - 1 \in S => m \in S
  BY <1>3, <1>4
<1>6. \A m \in 0..total : m \in S
  <2> HIDE DEF S
  <2> QED
    BY <1>5, UpTo
<1>7. P(total)
  BY <1>6
<1> QED
  BY <1>2, <1>7 DEF P, RoundTyped

-----------------------------------------------------------------------------
(* Where a pass stands.                                                    *)

(* Identities grow along the list.                                         *)
LEMMA FollowsGrows ==
    ASSUME NEW insns, Len(insns) \in Nat, NEW code, Len(code) \in Nat, NEW opc,
           NEW n \in Nat \ {0}, Follows(insns, n, code, opc), NEW k \in n..Len(insns)
    PROVE  \A m \in n..Len(insns) : k < m => insns[k].id < insns[m].id
<1> DEFINE S == {d \in 0..Len(insns) - k : d > 0 => insns[k].id < insns[k + d].id}
           w == Len(insns) - k
<1>1. w \in Nat /\ 0 \in S
  OBVIOUS
<1>2. \A j \in n..Len(insns) : insns[j].id \in Nat
  BY DEF Follows, AsInFile
<1>3. ASSUME NEW d \in 1..w, d - 1 \in S PROVE d \in S
  <2> DEFINE j == k + (d - 1)
  <2>1. j \in n..Len(insns) - 1 /\ j \in n..Len(insns) /\ j + 1 \in n..Len(insns) /\ j + 1 = k + d
    BY <1>1
  <2>2. NextInFile(insns[j].id, insns[j + 1].id, code, opc)
    BY <2>1 DEF Follows
  <2>3. insns[j].id \in Nat /\ insns[k].id \in Nat
    BY <1>2, <2>1
  <2>4. insns[j].id < insns[j + 1].id
    <3> DEFINE x == insns[j].id
               y == insns[j + 1].id
    <3>1. x \in Nat /\ (y = x + 1 \/ y = x + 2)
      BY <2>2, <2>3 DEF NextInFile
    <3> HIDE DEF x, y
    <3>2. x < y
      BY <3>1
    <3> QED
      BY <3>2 DEF x, y
  <2>5. d - 1 > 0 => insns[k].id < insns[j].id
    BY <1>3
  <2>6. d - 1 = 0 => insns[k].id = insns[j].id
    BY <1>1
  <2>7. insns[j + 1].id \in Nat
    BY <1>2, <2>1
  <2>8. insns[k].id < insns[j + 1].id
    <3> DEFINE x == insns[j].id
               y == insns[j + 1].id
               z == insns[k].id
    <3>1. x \in Nat /\ y \in Nat /\ z \in Nat /\ x < y /\ (d - 1 > 0 => z < x) /\ (d - 1 = 0 => z = x)
      BY <2>3, <2>4, <2>5, <2>6, <2>7
    <3>2. d \in Nat /\ d > 0
      BY <1>1
    <3> HIDE DEF x, y, z
    <3>3. z < y
      BY <3>1, <3>2
    <3> QED
      BY <3>3 DEF y, z
  <2> QED
    BY <2>1, <2>8
<1>4. \A d \in 0..w : d \in S
  <2> HIDE DEF S, w
  <2> QED
    BY <1>1, <1>3, UpTo
<1> SUFFICES ASSUME NEW m \in n..Len(insns), k < m PROVE insns[k].id < insns[m].id
  OBVIOUS
<1>5. m - k \in 0..w /\ m - k > 0 /\ k + (m - k) = m
  OBVIOUS
<1>6. m - k \in S
  BY <1>4, <1>5
<1> QED
  BY <1>5, <1>6

(* Behind a run no longer run begins in it, nor behind what is no pair.    *)
LEMMA BehindRun ==
    ASSUME NEW code, Len(code) \in Nat, NEW opc \in Accesses, NEW x \in Nat \ {0},
           NEW c, c = RunLength(code, x, opc), c > 0
    PROVE  /\ RunLength(code, x + 2 * c - 2, opc) = 1
           /\ RunLength(code, x + 2 * c - 1, opc) = 0
<1>1. /\ c \in 0..Len(code)
      /\ \A k \in 0..c - 1 : IsPair(code, x + 2 * k, opc) /\ code[x + 2 * k].src = code[x].src
  BY RunLengthFacts
<1>2. RunLength(code, x + 2 * (c - 1), opc) = c - (c - 1)
  <2> DEFINE k == c - 1
  <2>1. k \in Nat /\ k < RunLength(code, x, opc)
    BY <1>1
  <2> HIDE DEF k
  <2>2. RunLength(code, x + 2 * k, opc) = RunLength(code, x, opc) - k
    BY <2>1, RunGoesOn
  <2> QED
    BY <2>2 DEF k
<1>3. c - (c - 1) = 1 /\ x + 2 * (c - 1) = x + 2 * c - 2 /\ c - 1 \in 0..c - 1
      /\ (x + 2 * (c - 1)) + 1 = x + 2 * c - 1 /\ x + 2 * c - 1 \in Nat \ {0}
  BY <1>1
<1>4. code[x + 2 * c - 1].opc = "ADDI_D"
  <2>1. IsPair(code, x + 2 * (c - 1), opc)
    BY <1>1, <1>3
  <2> QED
    BY <2>1, <1>3 DEF IsPair
<1>5. RunLength(code, x + 2 * c - 1, opc) = 0
  <2> DEFINE y == x + 2 * c - 1
  <2>1. y \in Nat \ {0} /\ code[y].opc = "ADDI_D"
    BY <1>3, <1>4
  <2> HIDE DEF y
  <2> QED
    <3>1. y + 2 * 0 = y /\ \A k \in 0..0 - 1 : FALSE
      BY <2>1
    <3>2. ~ IsPair(code, y, opc)
      BY <2>1 DEF IsPair, Accesses
    <3>3. RunLength(code, y, opc) = 0
      BY <2>1, <3>1, <3>2, RunLengthIs
    <3> QED
      BY <3>3 DEF y
<1> QED
  BY <1>2, <1>3, <1>5

(* Where there is no pair, there is no run.                                *)
LEMMA NoPairNoRun ==
    ASSUME NEW code, Len(code) \in Nat, NEW opc, NEW x \in Nat \ {0}, ~ IsPair(code, x, opc)
    PROVE  RunLength(code, x, opc) = 0
<1>1. x + 2 * 0 = x /\ \A k \in 0..0 - 1 : FALSE
  OBVIOUS
<1> QED
  BY <1>1, RunLengthIs

(* A pass is at position n of block t, at index c; what it has met, no run *)
(* begins with.  Where the index lags behind, a long run has been met.     *)
Stands(t, n, c, opc) ==
    /\ Follows(t.insns, n, block.code, opc)
    /\ n <= Len(t.insns) + 1
    /\ NoBranchUpTo(t.insns, n - 1)
    /\ n <= Len(t.insns) =>
        t.insns[n].id - 1 \notin Runs(opc) /\ t.insns[n].id - 2 \notin Runs(opc)
    /\ n - 1 - c \in {0, 1}
    /\ n - 1 - c = 1 =>
        \E x \in Starts(opc) : Exceeds(opc, x) /\ \A k \in n..Len(t.insns) : x < t.insns[k].id

(* The run at the node is one of the file, x its place there.              *)
Ahead(total, x) ==
    /\ x \in 1..Len(block.code) /\ total \in Nat /\ RunLength(block.code, x, pass) = total
    /\ \A j \in 0..total - 1 :
        /\ IsPair(tb.insns, node + 2 * j, pass) /\ tb.insns[node + 2 * j].src = tb.insns[node].src
        /\ node + 2 * j + 1 <= Len(tb.insns)
        /\ tb.insns[node + 2 * j].id = x + 2 * j /\ tb.insns[node + 2 * j + 1].id = x + 2 * j + 1
    /\ node + 2 * total <= Len(tb.insns) => tb.insns[node + 2 * total].id = x + 2 * total

(* A run of the block is a run of the file.                                *)
LEMMA RunAhead ==
    ASSUME WellFormedBlock(block), Fit(tb, block), pass \in Accesses, node \in Nat \ {0},
           Follows(tb.insns, node, block.code, pass), node <= Len(tb.insns),
           NEW total, total = RunLength(tb.insns, node, pass), NEW x, x = tb.insns[node].id
    PROVE  Ahead(total, x)
<1>1. Len(tb.insns) \in Nat /\ Len(block.code) \in Nat
  <2>1. block.code \in Seq(MachineInsn)
    BY DEF WellFormedBlock, BlockType
  <2> QED
    BY <2>1, LenProperties, ObjectFacts DEF Fit
<1> DEFINE insns == tb.insns
           code == block.code
           n == node
<1>2. /\ Len(insns) \in Nat /\ Len(code) \in Nat /\ pass \in Accesses /\ n \in Nat \ {0}
      /\ Follows(insns, n, code, pass) /\ n <= Len(insns)
      /\ x = insns[n].id /\ total = RunLength(insns, n, pass)
  BY <1>1
<1> HIDE DEF insns, code, n
<1>3. /\ x \in 1..Len(code) /\ total \in Nat /\ RunLength(code, x, pass) = total
      /\ \A j \in 0..total - 1 :
          /\ IsPair(insns, n + 2 * j, pass) /\ insns[n + 2 * j].src = insns[n].src
          /\ n + 2 * j + 1 <= Len(insns)
          /\ insns[n + 2 * j].id = x + 2 * j /\ insns[n + 2 * j + 1].id = x + 2 * j + 1
      /\ n + 2 * total <= Len(insns) <=> x + 2 * total <= Len(code)
      /\ n + 2 * total <= Len(insns) => insns[n + 2 * total].id = x + 2 * total
  BY ONLY <1>2, FollowsRun
<1> QED
  BY <1>3 DEF insns, code, n, Ahead

(* A run that visit meets has what the rounds need: it starts no further   *)
(* in than a run of the file does, and nothing is recorded of it.          *)
LEMMA RunMet ==
    ASSUME WellFormedBlock(block), RunsNotRelocated, OneLongRun, Fit(tb, block),
           pass \in Accesses, node \in Nat \ {0}, cur \in Int, Stands(tb, node, cur, pass),
           node <= Len(tb.insns), NEW total, total = RunLength(tb.insns, node, pass), total > 1,
           NEW x, x = tb.insns[node].id
    PROVE  /\ Meets(tb, block, node, cur, pass, total)
           /\ x \in Starts(pass) /\ RunLength(block.code, x, pass) = total
           /\ BaseNotZero => tb.insns[node].src # 0
           /\ BaseNotData => BaseIsNoData(tb, node, total)
<1>1. /\ tb.insns \in Seq(CodeType) /\ Len(tb.insns) \in Nat /\ Len(block.code) \in Nat
      /\ DOMAIN block.code = 1..Len(block.code)
  <2>1. block.code \in Seq(MachineInsn)
    BY DEF WellFormedBlock, BlockType
  <2> QED
    BY <2>1, LenProperties, ObjectFacts DEF Fit
<1> DEFINE insns == tb.insns
           code == block.code
           n == node
<1>2. Follows(insns, n, code, pass)
  BY DEF Stands
<1>3. /\ x \in 1..Len(code) /\ total \in Nat /\ RunLength(code, x, pass) = total
      /\ \A j \in 0..total - 1 :
            /\ IsPair(insns, n + 2 * j, pass) /\ insns[n + 2 * j].src = insns[n].src
            /\ n + 2 * j + 1 <= Len(insns)
            /\ insns[n + 2 * j].id = x + 2 * j /\ insns[n + 2 * j + 1].id = x + 2 * j + 1
  BY <1>2, RunAhead DEF Ahead
<1>4. x \in Runs(pass)
  BY <1>1, <1>3 DEF Runs
<1>5. x \in Starts(pass)
  BY <1>4 DEF Stands, Starts
<1>6. total <= 2 * Limit[pass] /\ \A y \in Starts(pass) : Exceeds(pass, x) /\ Exceeds(pass, y) => x = y
  BY <1>3, <1>5 DEF OneLongRun, Accesses
<1>7. n - 1 - cur = 1 => total <= Limit[pass]
  <2> SUFFICES ASSUME n - 1 - cur = 1 PROVE total <= Limit[pass]
    OBVIOUS
  <2>1. PICK y \in Starts(pass) : Exceeds(pass, y) /\ \A k \in n..Len(insns) : y < insns[k].id
    BY DEF Stands
  <2>2. y < x
    <3>1. n \in n..Len(insns)
      BY <1>1
    <3> QED
      BY <2>1, <3>1
  <2>3. y \in Nat
    BY <1>1 DEF Starts, Runs
  <2>4. y # x
    BY <2>2, <2>3, <1>3
  <2>5. ~ Exceeds(pass, x)
    BY <2>1, <2>4, <1>6
  <2>6. Limit[pass] \in Nat
    BY LimitAssumption DEF Accesses
  <2> QED
    BY <2>5, <2>6, <1>3 DEF Exceeds
<1>8. \A j \in 0..total - 1 : x + 2 * j \in Pairs(pass, x)
  BY <1>3 DEF Pairs
<1>9. ASSUME NEW j \in 0..total - 1 PROVE PairAt(tb, n + 2 * j, insns[n].src, pass)
  <2>1. x + 2 * j \in Pairs(pass, x)
    BY <1>8
  <2> DEFINE m == x + 2 * j
             p == n + 2 * j
  <2>2. \A r \in DOMAIN block.rels : ~ Covers(block.rels[r], m - 1) /\ ~ Covers(block.rels[r], m)
    BY <2>1, <1>4 DEF RunsNotRelocated, Accesses
  <2>3. /\ IsPair(insns, p, pass) /\ insns[p].src = insns[n].src
        /\ insns[p].id = m /\ insns[p + 1].id = m + 1
    BY <1>3
  <2>4. p - 1 \in Nat /\ p \in Nat /\ (p - 1) + 1 = p /\ (m + 1) - 1 = m
    BY <1>3
  <2> HIDE DEF m, p
  <2>5. ~ InRel(tb, p - 1)
    <3> SUFFICES ASSUME InRel(tb, p - 1) PROVE FALSE
      OBVIOUS
    <3> DEFINE i == p - 1
    <3>1. i \in Nat /\ InRel(tb, i) /\ insns[i + 1].id = m
      BY <2>3, <2>4
    <3> HIDE DEF i
    <3>2. \E r \in DOMAIN block.rels : Covers(block.rels[r], insns[i + 1].id - 1)
      BY <3>1, CoveredById
    <3> QED
      BY <3>1, <3>2, <2>2
  <2>6. ~ InRel(tb, p)
    <3> SUFFICES ASSUME InRel(tb, p) PROVE FALSE
      OBVIOUS
    <3>1. \E r \in DOMAIN block.rels : Covers(block.rels[r], insns[p + 1].id - 1)
      BY <2>4, CoveredById
    <3> QED
      BY <3>1, <2>2, <2>3, <2>4
  <2> QED
    BY <2>3, <2>5, <2>6 DEF PairAt, p
<1>10. n + 2 * total - 1 <= Len(insns)
  <2>1. total - 1 \in 0..total - 1 /\ n + 2 * (total - 1) + 1 = n + 2 * total - 1
    BY <1>3, SMTT(30)
  <2>2. n + 2 * (total - 1) + 1 <= Len(insns)
    BY <2>1, <1>3
  <2> QED
    BY <2>1, <2>2
<1>11. Meets(tb, block, node, cur, pass, total)
  BY <1>3, <1>6, <1>7, <1>9, <1>10 DEF Meets, Stands
<1>12. \A k \in n..Len(insns) : AsInFile(insns[k], code, pass)
  BY <1>2 DEF Follows
<1>13. BaseNotZero => insns[n].src # 0
  <2>1. insns[n].src = code[x].src
    BY <1>1, <1>12 DEF AsInFile
  <2> QED
    BY <2>1, <1>4 DEF BaseNotZero, Accesses
<1>14. ASSUME BaseNotData PROVE BaseIsNoData(tb, node, total)
  <2> SUFFICES ASSUME NEW m \in 1..total, m > 1
               PROVE  insns[n + 2 * (m - 1)].dst # insns[n].src
    BY DEF BaseIsNoData
  <2> DEFINE j == m - 1
             y == x + 2 * j
             p == n + 2 * j
  <2>1. j \in 0..total - 1 /\ y # x /\ p \in n..Len(insns)
    <3>1. j \in 0..total - 1 /\ y # x /\ p \in Nat /\ n <= p
      BY <1>3, SMTT(30)
    <3>2. p + 1 <= Len(insns)
      BY <3>1, <1>3
    <3> QED
      BY <3>1, <3>2, <1>1
  <2>2. code[y].dst # code[y].src
    BY <2>1, <1>4, <1>8, <1>14 DEF BaseNotData, Accesses
  <2>3. insns[p].id = y /\ insns[p].src = insns[n].src
    BY <2>1, <1>3
  <2>4. insns[p].dst = code[y].dst /\ insns[p].src = code[y].src
    <3> HIDE DEF p, y
    <3> QED
      BY <2>1, <2>3, <1>12 DEF AsInFile
  <2> QED
    BY <2>2, <2>3, <2>4
<1> QED
  BY <1>3, <1>5, <1>11, <1>13, <1>14

-----------------------------------------------------------------------------
(* The inductive invariant.                                                *)

MergeType ==
    /\ block \in Blocks /\ pass \in {"ST_D", "LD_D", "done"}
    /\ node \in Nat \ {0} /\ cur \in Int
    /\ HasShape(tb) /\ InField(tb.insns, block.code)

MergePlace ==
    /\ Stands(tb, node, cur, pass)
    /\ pass = "ST_D" => FollowsAll(tb.insns, block.code)

Good == RunsNotRelocated /\ OneLongRun

MergeKept ==
    /\ Fit(tb, block)
    /\ Behind(tb.insns) = Behind(Decoded(block).insns)
    /\ BaseNotData /\ BaseNotZero => \A placed : Kept(placed)

MergeInv ==
    /\ MergeType
    /\ pass = "done" => node = 1 /\ cur = 0
    /\ Good => MergeKept /\ (pass # "done" => MergePlace)

(* What a decoded block looks like to a pass.                              *)
LEMMA DecodedIs ==
    ASSUME NEW blk, WellFormedBlock(blk), NEW t, t = Decoded(blk)
    PROVE  /\ HasShape(t) /\ InField(t.insns, blk.code)
           /\ FollowsAll(t.insns, blk.code)
           /\ Len(t.insns) = Len(blk.code)
           /\ \A k \in 1..Len(t.insns) : t.insns[k].id = k /\ t.insns[k].opc = blk.code[k].opc
<1> DEFINE n == Len(blk.code)
           q == t.insns
<1>1. blk.code \in Seq(MachineInsn) /\ n \in Nat /\ DOMAIN blk.code = 1..n
  <2>1. blk.code \in Seq(MachineInsn)
    BY DEF WellFormedBlock, BlockType
  <2> QED
    BY <2>1, LenProperties
<1>2. q = [k \in 1..n |-> [id  |-> k, opc |-> blk.code[k].opc, dst |-> blk.code[k].dst,
                           src |-> blk.code[k].src, imm |-> blk.code[k].imm]]
  BY <1>1 DEF Decoded
<1>3. HasShape(t)
  BY DEF HasShape, Decoded
<1>4. q \in Seq(CodeType)
  BY DecodedFits, ObjectFacts DEF Fit
<1> HIDE DEF n, q
<1>5. Len(q) = n
  BY <1>1, <1>2
<1>6. \A k \in 1..n : q[k].id = k /\ q[k].opc = blk.code[k].opc /\ q[k].imm = blk.code[k].imm
  BY <1>2
<1>7. InField(q, blk.code)
  BY <1>4, <1>5, <1>6 DEF InField, n
<1>8. FollowsAll(q, blk.code)
  <2>1. Follows(q, 1, blk.code, "LD_D")
    BY DecodedFollows DEF q
  <2>2. 0 < Len(q) => q[1].id = 1
    BY <1>1, <1>5, <1>6
  <2> QED
    BY <2>1, <2>2 DEF FollowsAll
<1> QED
  BY <1>3, <1>5, <1>6, <1>7, <1>8 DEF q, n

(* No run begins before the code.                                          *)
LEMMA NoRunBefore ==
    ASSUME WellFormedBlock(block)
    PROVE  \A opc : /\ 0 \notin Runs(opc) /\ -1 \notin Runs(opc)
                    /\ \A x \in Runs(opc) : x \in Nat /\ RunLength(block.code, x, opc) > 1
<1>1. block.code \in Seq(MachineInsn)
  BY DEF WellFormedBlock, BlockType
<1>2. DOMAIN block.code = 1..Len(block.code) /\ Len(block.code) \in Nat
  BY <1>1, LenProperties
<1>3. \A k \in 1..Len(block.code) : k \in Nat /\ k # 0 /\ k # -1
  BY <1>2
<1> QED
  BY <1>2, <1>3 DEF Runs

(* At the first instruction, with the index of the first.                  *)
LEMMA StandsAtFirst ==
    ASSUME WellFormedBlock(block), NEW t, Len(t.insns) \in Nat, NEW opc,
           Follows(t.insns, 1, block.code, opc), 0 < Len(t.insns) => t.insns[1].id = 1
    PROVE  Stands(t, 1, 0, opc)
<1>1. 1 <= Len(t.insns) => t.insns[1].id - 1 = 0 /\ t.insns[1].id - 2 = -1
  <2>1. 1 <= Len(t.insns) => t.insns[1].id = 1
    OBVIOUS
  <2>2. 1 - 1 = 0 /\ 1 - 2 = -1
    OBVIOUS
  <2> QED
    BY <2>1, <2>2
<1>2. 1 <= Len(t.insns) + 1 /\ \A k \in 1..1 - 1 : FALSE
  OBVIOUS
<1>3. 1 - 1 - 0 = 0 /\ 0 \in {0, 1} /\ 0 # 1
  OBVIOUS
<1> QED
  BY <1>1, <1>2, <1>3, NoRunBefore DEF Stands, NoBranchUpTo

(* The invariant holds when the first pass begins.                         *)
LEMMA InitMerge == AddiInit => MergeInv
<1> SUFFICES ASSUME AddiInit PROVE MergeInv
  OBVIOUS
<1>1. /\ block \in Blocks /\ pass \in {"ST_D", "LD_D"} /\ tb = Decoded(block) /\ node = 1 /\ cur = 0
      /\ WellFormedBlock(block)
  BY BlocksAssumption DEF AddiInit
<1>2. /\ HasShape(tb) /\ InField(tb.insns, block.code) /\ FollowsAll(tb.insns, block.code)
  BY <1>1, DecodedIs
<1>3. Fit(tb, block)
  BY <1>1, DecodedFits
<1>4. Follows(tb.insns, 1, block.code, pass)
  BY <1>1, DecodedFollows
<1>5. Len(tb.insns) \in Nat
  BY <1>3, ObjectFacts DEF Fit
<1>6. Stands(tb, 1, 0, pass)
  BY <1>1, <1>2, <1>4, <1>5, StandsAtFirst DEF FollowsAll
<1>7. MergeType
  <2>1. 1 \in Nat \ {0} /\ 0 \in Int
    OBVIOUS
  <2> QED
    BY <2>1, <1>1, <1>2 DEF MergeType
<1>8. MergeKept
  BY <1>1, <1>3 DEF MergeKept, Kept
<1>9. MergePlace
  BY <1>1, <1>2, <1>6 DEF MergePlace
<1>10. pass # "done"
  BY <1>1
<1> QED
  BY <1>7, <1>8, <1>9, <1>10 DEF MergeInv

(* What is said of the block of the file alone.                            *)
LEMMA SameFile ==
    ASSUME block' = block
    PROVE  /\ Good' <=> Good
           /\ BaseNotData' <=> BaseNotData
           /\ BaseNotZero' <=> BaseNotZero
           /\ \A opc : Runs(opc)' = Runs(opc) /\ Starts(opc)' = Starts(opc)
           /\ \A opc, x : Exceeds(opc, x)' <=> Exceeds(opc, x)
<1>1. \A opc : Runs(opc)' = Runs(opc)
  BY DEF Runs
<1>2. \A opc : Starts(opc)' = Starts(opc)
  BY <1>1 DEF Starts
<1>3. \A opc, x : Exceeds(opc, x)' <=> Exceeds(opc, x)
  BY DEF Exceeds
<1>4. \A opc, x : Pairs(opc, x)' = Pairs(opc, x)
  BY DEF Pairs
<1>5. RunsNotRelocated' <=> RunsNotRelocated
  BY <1>1, <1>4 DEF RunsNotRelocated
<1>6. OneLongRun' <=> OneLongRun
  BY <1>2, <1>3 DEF OneLongRun
<1>7. BaseNotData' <=> BaseNotData
  BY <1>1, <1>4 DEF BaseNotData
<1>8. BaseNotZero' <=> BaseNotZero
  BY <1>1 DEF BaseNotZero
<1> QED
  BY <1>1, <1>2, <1>3, <1>5, <1>6, <1>7, <1>8 DEF Good

(* Where a pass stands is said of block and of the file alone.             *)
LEMMA StandsThen ==
    ASSUME block' = block, Stands(tb', node', cur', pass')
    PROVE  Stands(tb, node, cur, pass)'
BY SameFile DEF Stands

(* What a step of visit begins with.                                       *)
VisitAt(x, total) ==
    /\ WellFormedBlock(block) /\ tb.insns \in Seq(CodeType)
    /\ Len(tb.insns) \in Nat /\ Len(block.code) \in Nat
    /\ pass \in Accesses /\ node \in Nat \ {0} /\ cur \in Int
    /\ node <= Len(tb.insns) /\ tb.insns[node].opc \notin {"B", "BNE"}
    /\ x = tb.insns[node].id /\ total = RunLength(tb.insns, node, pass)

(* What the invariant says at the node of a step.                          *)
LEMMA VisitBegins ==
    ASSUME MergeInv, Visited, ~ VisitEnds, NEW x, x = tb.insns[node].id,
           NEW total, total = RunLength(tb.insns, node, pass)
    PROVE  /\ VisitAt(x, total)
           /\ Good => MergeKept /\ MergePlace /\ Ahead(total, x)
           /\ Good => tb.insns[node].opc \notin BranchClasses
<1>1. /\ MergeType /\ pass \in Accesses /\ WellFormedBlock(block)
      /\ PipeholeOptAvailable(Decoded(block))
  BY BlocksAssumption DEF MergeInv, MergeType, Visited, Accesses
<1>2. tb.insns \in Seq(CodeType) /\ Len(tb.insns) \in Nat /\ Len(block.code) \in Nat
  <2>1. block.code \in Seq(MachineInsn)
    BY <1>1 DEF WellFormedBlock, BlockType
  <2>2. tb.insns \in Seq(CodeType)
    BY <1>1 DEF MergeType, InField
  <2> QED
    BY <2>1, <2>2, LenProperties
<1>3. node \in Nat \ {0} /\ cur \in Int
  BY <1>1 DEF MergeType
<1>4. node <= Len(tb.insns) /\ tb.insns[node].opc \notin {"B", "BNE"}
  BY <1>2, <1>3 DEF VisitEnds
<1>5. VisitAt(x, total)
  BY <1>1, <1>2, <1>3, <1>4 DEF VisitAt
<1>6. ASSUME Good
      PROVE  /\ MergeKept /\ MergePlace /\ Ahead(total, x)
             /\ tb.insns[node].opc \notin BranchClasses
  <2>1. MergeKept /\ MergePlace
    BY <1>1, <1>6 DEF MergeInv, Accesses
  <2>2. Follows(tb.insns, node, block.code, pass)
    BY <2>1 DEF MergePlace, Stands
  <2>3. Ahead(total, x)
    BY <2>1, <2>2, <1>1, <1>3, <1>4, RunAhead DEF MergeKept
  <2>4. AsInFile(tb.insns[node], block.code, pass)
    <3>1. node \in node..Len(tb.insns)
      BY <1>2, <1>3, <1>4
    <3> QED
      BY <3>1, <2>2 DEF Follows
  <2>5. block.code[x].opc # "OTHER"
    <3> DEFINE d == Decoded(block).insns
    <3>1. NoOther(d) /\ Len(d) = Len(block.code) /\ \A k \in 1..Len(d) : d[k].opc = block.code[k].opc
      BY <1>1, DecodedFits, DecodedIs
    <3>2. x \in 1..Len(block.code)
      BY <2>3 DEF Ahead
    <3> HIDE DEF d
    <3> QED
      BY <3>1, <3>2 DEF NoOther
  <2> QED
    BY <2>1, <2>3, <2>4, <2>5, <1>4 DEF AsInFile, BranchClasses
<1> QED
  BY <1>5, <1>6

(* One instruction further on without a branch.                            *)
LEMMA BranchFreeOn ==
    ASSUME NEW insns, NEW n \in Nat \ {0}, NoBranchUpTo(insns, n - 1), insns[n].opc \notin BranchClasses
    PROVE  NoBranchUpTo(insns, (n + 1) - 1)
<1>1. \A k \in 1..(n + 1) - 1 : k \in 1..n - 1 \/ k = n
  OBVIOUS
<1> QED
  BY <1>1 DEF NoBranchUpTo

(* An instruction that begins no pair is passed over.                      *)
LEMMA PassInsnInv == MergeInv /\ PassInsn => MergeInv'
<1> SUFFICES ASSUME MergeInv, PassInsn PROVE MergeInv'
  OBVIOUS
<1>1. /\ Visited /\ ~ VisitEnds /\ RunLength(tb.insns, node, pass) = 0
      /\ node' = node + 1 /\ cur' = cur + 1 /\ block' = block /\ pass' = pass /\ tb' = tb
  BY DEF PassInsn
<1>2. PICK x : x = tb.insns[node].id
  OBVIOUS
<1>3. /\ VisitAt(x, 0)
      /\ Good => MergeKept /\ MergePlace /\ Ahead(0, x)
      /\ Good => tb.insns[node].opc \notin BranchClasses
  BY <1>1, <1>2, VisitBegins
<1>4. /\ Len(tb.insns) \in Nat /\ Len(block.code) \in Nat /\ node \in Nat \ {0} /\ cur \in Int
      /\ node <= Len(tb.insns) /\ pass \in Accesses
  BY <1>3 DEF VisitAt
<1>5. MergeType'
  <2>1. node + 1 \in Nat \ {0} /\ cur + 1 \in Int
    BY <1>4
  <2> QED
    BY <2>1, <1>1 DEF MergeInv, MergeType
<1>6. ASSUME Good PROVE Stands(tb, node + 1, cur + 1, pass) /\ MergeKept
  <2>1. MergeKept /\ Stands(tb, node, cur, pass) /\ Ahead(0, x)
    BY <1>3, <1>6 DEF MergePlace
  <2>2. Follows(tb.insns, node + 1, block.code, pass)
    <3> DEFINE m == node + 1
    <3>1. m \in Nat \ {0} /\ node <= m + 0 /\ Len(tb.insns) = Len(tb.insns) - 0 /\ 0 \in Nat
          /\ \A k \in m..Len(tb.insns) : k + 0 = k
      BY <1>4
    <3>2. Follows(tb.insns, node, block.code, pass)
      BY <2>1 DEF Stands
    <3> HIDE DEF m
    <3>3. Follows(tb.insns, m, block.code, pass)
      BY <3>1, <3>2, <1>4, FollowsOn
    <3> QED
      BY <3>3 DEF m
  <2>3. NoBranchUpTo(tb.insns, (node + 1) - 1)
    BY <2>1, <1>3, <1>4, <1>6, BranchFreeOn DEF Stands
  <2>4. ASSUME node + 1 <= Len(tb.insns)
        PROVE  tb.insns[node + 1].id - 1 \notin Runs(pass) /\ tb.insns[node + 1].id - 2 \notin Runs(pass)
    <3>1. PICK y : y = tb.insns[node + 1].id
      OBVIOUS
    <3>2. node \in node..Len(tb.insns) - 1
      BY <1>4, <2>4
    <3>3. NextInFile(x, y, block.code, pass)
      BY <2>1, <3>1, <3>2, <1>2 DEF Stands, Follows
    <3>4. /\ x \in 1..Len(block.code) /\ RunLength(block.code, x, pass) = 0
      BY <2>1 DEF Ahead
    <3>5. x \notin Runs(pass)
      BY <3>4 DEF Runs
    <3>6. x - 1 \notin Runs(pass)
      BY <2>1, <1>2, <1>4 DEF Stands
    <3>7. CASE y = x + 1
      <4>1. y - 1 = x /\ y - 2 = x - 1
        BY <3>4, <3>7
      <4> QED
        BY <4>1, <3>1, <3>5, <3>6
    <3>8. CASE pass = "LD_D" /\ y = x + 2 /\ GoneBehind(block.code, x)
      <4>1. y - 1 = x + 1 /\ y - 2 = x /\ x + 1 \in Nat \ {0}
        BY <3>4, <3>8
      <4>2. ~ IsPair(block.code, x + 1, pass)
        BY <3>8 DEF IsPair, GoneBehind
      <4>3. RunLength(block.code, x + 1, pass) = 0
        BY <4>1, <4>2, <1>4, NoPairNoRun
      <4>4. x + 1 \notin Runs(pass)
        BY <4>3 DEF Runs
      <4> QED
        BY <4>1, <4>4, <3>1, <3>5
    <3> QED
      BY <3>3, <3>7, <3>8 DEF NextInFile
  <2>5. /\ (node + 1) - 1 - (cur + 1) = node - 1 - cur /\ node + 1 <= Len(tb.insns) + 1
        /\ \A k \in node + 1..Len(tb.insns) : k \in node..Len(tb.insns)
    BY <1>4
  <2> QED
    BY <2>1, <2>2, <2>3, <2>4, <2>5 DEF Stands
<1>7. pass # "done"
  BY <1>4 DEF Accesses
<1>8. Good => Stands(tb, node, cur, pass)'
  BY <1>1, <1>6, StandsThen
<1>9. Good => (MergeKept /\ MergePlace)'
  <2>1. Good => MergeKept'
    BY <1>1, <1>6, SameFile DEF MergeKept, Kept
  <2>2. Good => MergePlace'
    BY <1>1, <1>3, <1>8 DEF MergePlace
  <2> QED
    BY <2>1, <2>2
<1> QED
  BY <1>1, <1>5, <1>7, <1>9, SameFile DEF MergeInv

(* A single pair is passed over: neither of its instructions begins a run. *)
LEMMA PassPairInv == MergeInv /\ PassPair => MergeInv'
<1> SUFFICES ASSUME MergeInv, PassPair PROVE MergeInv'
  OBVIOUS
<1>1. /\ Visited /\ ~ VisitEnds /\ RunLength(tb.insns, node, pass) = 1
      /\ node' = node + 2 /\ cur' = cur + 2 /\ block' = block /\ pass' = pass /\ tb' = tb
  BY DEF PassPair
<1>2. PICK x : x = tb.insns[node].id
  OBVIOUS
<1>3. /\ VisitAt(x, 1)
      /\ Good => MergeKept /\ MergePlace /\ Ahead(1, x)
      /\ Good => tb.insns[node].opc \notin BranchClasses
  BY <1>1, <1>2, VisitBegins
<1>4. /\ Len(tb.insns) \in Nat /\ Len(block.code) \in Nat /\ node \in Nat \ {0} /\ cur \in Int
      /\ node <= Len(tb.insns) /\ pass \in Accesses
  BY <1>3 DEF VisitAt
<1>5. MergeType'
  <2>1. node + 2 \in Nat \ {0} /\ cur + 2 \in Int
    BY <1>4
  <2> QED
    BY <2>1, <1>1 DEF MergeInv, MergeType
<1>6. ASSUME Good PROVE Stands(tb, node + 2, cur + 2, pass) /\ MergeKept
  <2>1. MergeKept /\ Stands(tb, node, cur, pass) /\ Ahead(1, x)
    BY <1>3, <1>6 DEF MergePlace
  <2>0. /\ IsPair(tb.insns, node, pass) /\ node + 1 <= Len(tb.insns)
        /\ x \in 1..Len(block.code) /\ RunLength(block.code, x, pass) = 1
        /\ node + 2 <= Len(tb.insns) => tb.insns[node + 2].id = x + 2
    <3>1. 0 \in 0..1 - 1 /\ node + 2 * 0 = node /\ node + 2 * 0 + 1 = node + 1
          /\ node + 2 * 1 = node + 2
      BY <1>4
    <3>2. x \in 1..Len(block.code) => x + 2 * 1 = x + 2
      OBVIOUS
    <3> QED
      BY <3>1, <3>2, <2>1 DEF Ahead
  <2>2. Follows(tb.insns, node + 2, block.code, pass)
    <3> DEFINE m == node + 2
    <3>1. m \in Nat \ {0} /\ node <= m + 0 /\ Len(tb.insns) = Len(tb.insns) - 0 /\ 0 \in Nat
          /\ \A k \in m..Len(tb.insns) : k + 0 = k
      BY <1>4
    <3>2. Follows(tb.insns, node, block.code, pass)
      BY <2>1 DEF Stands
    <3> HIDE DEF m
    <3>3. Follows(tb.insns, m, block.code, pass)
      BY <3>1, <3>2, <1>4, FollowsOn
    <3> QED
      BY <3>3 DEF m
  <2>3. NoBranchUpTo(tb.insns, (node + 2) - 1)
    <3>1. NoBranchUpTo(tb.insns, (node + 1) - 1)
      BY <2>1, <1>3, <1>4, <1>6, BranchFreeOn DEF Stands
    <3>2. tb.insns[node + 1].opc \notin BranchClasses
      BY <2>0 DEF IsPair, BranchClasses
    <3>3. node + 1 \in Nat \ {0} /\ (node + 1) + 1 = node + 2
      BY <1>4
    <3> QED
      BY <3>1, <3>2, <3>3, BranchFreeOn
  <2>4. ASSUME node + 2 <= Len(tb.insns)
        PROVE  tb.insns[node + 2].id - 1 \notin Runs(pass) /\ tb.insns[node + 2].id - 2 \notin Runs(pass)
    <3>1. /\ tb.insns[node + 2].id = x + 2 /\ x \in Nat \ {0} /\ (x + 2) - 1 = x + 2 * 1 - 1
          /\ (x + 2) - 2 = x + 2 * 1 - 2 /\ 1 > 0
      BY <2>0, <2>4, <1>4
    <3>2. /\ RunLength(block.code, x + 2 * 1 - 2, pass) = 1
          /\ RunLength(block.code, x + 2 * 1 - 1, pass) = 0
      BY ONLY <2>0, <3>1, <1>4, BehindRun
    <3> QED
      BY <3>1, <3>2 DEF Runs
  <2>5. /\ (node + 2) - 1 - (cur + 2) = node - 1 - cur /\ node + 2 <= Len(tb.insns) + 1
        /\ \A k \in node + 2..Len(tb.insns) : k \in node..Len(tb.insns)
    <3>1. node + 1 <= Len(tb.insns) /\ Len(tb.insns) \in Nat /\ node \in Nat \ {0} /\ cur \in Int
      BY <1>4, <2>0
    <3> QED
      BY ONLY <3>1
  <2> QED
    BY <2>1, <2>2, <2>3, <2>4, <2>5 DEF Stands
<1>7. pass # "done"
  BY <1>4 DEF Accesses
<1>8. Good => Stands(tb, node, cur, pass)'
  BY <1>1, <1>6, StandsThen
<1>9. Good => (MergeKept /\ MergePlace)'
  <2>1. Good => MergeKept'
    BY <1>1, <1>6, SameFile DEF MergeKept, Kept
  <2>2. Good => MergePlace'
    BY <1>1, <1>3, <1>8 DEF MergePlace
  <2> QED
    BY <2>1, <2>2
<1> QED
  BY <1>1, <1>5, <1>7, <1>9, SameFile DEF MergeInv

(* Behind a merged run the pass stands as it should: a run of more than    *)
(* one addi.d lets the index lag, and then is the long one.                *)
LEMMA StandsBehindRun ==
    ASSUME Good, NEW x, NEW total, total > 1, VisitAt(x, total), Ahead(total, x),
           Stands(tb, node, cur, pass), x \in Starts(pass), RunLength(block.code, x, pass) = total,
           node - 1 - cur = 1 => total <= Limit[pass],
           NEW u, NEW d, RunMerged(u, total, d)
    PROVE  Stands(u.tb, u.node, cur + total + 1, pass)
<1> DEFINE t == u.tb
           q == u.node
           len == Len(tb.insns)
           w == Len(t.insns)
           lim == Limit[pass]
<1>1. /\ len \in Nat /\ Len(block.code) \in Nat /\ node \in Nat \ {0} /\ cur \in Int
      /\ node <= len /\ pass \in Accesses /\ total \in Nat /\ x \in 1..Len(block.code)
  BY DEF VisitAt, Ahead
<1>2. lim \in Nat \ {0}
  BY <1>1, LimitAssumption DEF Accesses
<1>3. /\ q \in Nat \ {0} /\ d \in Nat /\ q = node + total + (IF lim < total THEN 2 ELSE 1)
      /\ q + d = node + 2 * total /\ w = len - d /\ q <= w + 1
      /\ \A k \in q..w : t.insns[k] = tb.insns[k + d]
      /\ NoBranchUpTo(t.insns, q - 1)
  BY Zenon DEF RunMerged
<1>4. Stands(tb, node, cur, pass)
  OBVIOUS
<1>5. Follows(tb.insns, node, block.code, pass)
  BY <1>4 DEF Stands
<1> HIDE DEF q, len, w, lim, t
<1>16. /\ len \in Nat /\ node \in Nat \ {0} /\ cur \in Int /\ total \in Nat /\ total > 1
       /\ lim \in Nat \ {0} /\ q \in Nat \ {0} /\ d \in Nat
       /\ q = node + total + (IF lim < total THEN 2 ELSE 1)
       /\ q + d = node + 2 * total /\ w = len - d /\ q <= w + 1
  BY <1>1, <1>2, <1>3
<1>6. w \in Nat
  BY ONLY <1>16
<1>7. Follows(t.insns, q, block.code, pass)
  <2> DEFINE a == tb.insns
             b == t.insns
             code == block.code
  <2>1. /\ Len(a) \in Nat /\ Len(b) \in Nat /\ Len(b) = Len(a) - d
        /\ \A k \in q..Len(b) : b[k] = a[k + d]
        /\ Follows(a, node, code, pass)
    BY <1>1, <1>3, <1>5, <1>6 DEF len, w
  <2>2. q \in Nat \ {0} /\ d \in Nat /\ node <= q + d /\ node \in Nat \ {0}
    BY <1>1, <1>3
  <2> HIDE DEF a, b, code
  <2>3. Follows(b, q, code, pass)
    BY ONLY <2>1, <2>2, FollowsOn
  <2> QED
    BY <2>3 DEF b, code
<1>8. \A k \in q..w : k + d \in node..len /\ k + d > node /\ t.insns[k] = tb.insns[k + d]
  <2>1. \A k \in q..w : k + d \in node..len /\ k + d > node
    BY ONLY <1>16, <1>6
  <2> QED
    BY <2>1, <1>3
<1>9. ASSUME q <= w
      PROVE  t.insns[q].id - 1 \notin Runs(pass) /\ t.insns[q].id - 2 \notin Runs(pass)
  <2>1. q \in q..w /\ q + d = node + 2 * total /\ node + 2 * total <= len
    BY <1>1, <1>3, <1>6, <1>9
  <2>2. t.insns[q].id = x + 2 * total
    BY <2>1, <1>3 DEF Ahead, len
  <2>3. /\ x \in Nat \ {0} /\ total > 0 /\ total = RunLength(block.code, x, pass)
        /\ Len(block.code) \in Nat /\ pass \in Accesses
    BY <1>1
  <2>4. /\ RunLength(block.code, x + 2 * total - 2, pass) = 1
        /\ RunLength(block.code, x + 2 * total - 1, pass) = 0
    BY ONLY <2>3, BehindRun
  <2>5. /\ ~ (RunLength(block.code, x + 2 * total - 1, pass) > 1)
        /\ ~ (RunLength(block.code, x + 2 * total - 2, pass) > 1)
    BY ONLY <2>4
  <2>6. (x + 2 * total) - 1 \notin Runs(pass) /\ (x + 2 * total) - 2 \notin Runs(pass)
    <3>1. \A y : y \in Runs(pass) => RunLength(block.code, y, pass) > 1
      BY DEF Runs
    <3>2. /\ (x + 2 * total) - 1 = x + 2 * total - 1
          /\ (x + 2 * total) - 2 = x + 2 * total - 2
      <4>1. x \in Nat /\ total \in Nat
        BY <1>16, <2>3
      <4> QED
        BY ONLY <4>1
    <3>3. x + 2 * total - 1 \notin Runs(pass) /\ x + 2 * total - 2 \notin Runs(pass)
      BY <3>1, <2>5
    <3> QED
      BY <3>2, <3>3
  <2> QED
    BY <2>2, <2>6
<1> DEFINE lag == node - 1 - cur
           then == q - 1 - (cur + total + 1)
<1>10. lag \in {0, 1} /\ (lag = 1 => total <= lim)
  BY <1>4 DEF Stands, lim
<1>11. then = lag + (IF lim < total THEN 1 ELSE 0)
  BY ONLY <1>16 DEF then, lag
<1> HIDE DEF lag, then
<1>12. then \in {0, 1} /\ (then = 1 => lag = 1 \/ lim < total)
  BY <1>1, <1>2, <1>10, <1>11
<1>13. ASSUME then = 1
       PROVE  \E y \in Starts(pass) : Exceeds(pass, y) /\ \A k \in q..w : y < t.insns[k].id
  <2>1. CASE lag = 1
    <3>1. PICK y \in Starts(pass) : Exceeds(pass, y) /\ \A k \in node..len : y < tb.insns[k].id
      BY <2>1, <1>4 DEF Stands, lag, len
    <3>2. \A k \in q..w : y < t.insns[k].id
      BY <3>1, <1>8
    <3> QED
      BY <3>1, <3>2
  <2>2. CASE lim < total
    <3>1. Exceeds(pass, x)
      BY <2>2, <1>1, <1>2 DEF Exceeds, lim
    <3>2. \A k \in node..len : node < k => tb.insns[node].id < tb.insns[k].id
      <4> DEFINE a == tb.insns
                 code == block.code
      <4>1. /\ Len(a) \in Nat /\ Len(code) \in Nat /\ node \in Nat \ {0}
            /\ Follows(a, node, code, pass) /\ node \in node..Len(a)
        BY <1>1, <1>5 DEF len
      <4> HIDE DEF a, code
      <4>2. \A k \in node..Len(a) : node < k => a[node].id < a[k].id
        BY ONLY <4>1, FollowsGrows
      <4> QED
        BY <4>2 DEF a, len
    <3>3. \A k \in q..w : x < t.insns[k].id
      <4> SUFFICES ASSUME NEW k \in q..w PROVE x < t.insns[k].id
        OBVIOUS
      <4>1. k + d \in node..len /\ node < k + d /\ t.insns[k] = tb.insns[k + d]
        BY <1>1, <1>3, <1>8
      <4>2. x = tb.insns[node].id
        BY DEF VisitAt
      <4> QED
        BY <4>1, <4>2, <3>2
    <3> QED
      BY <3>1, <3>3
  <2> QED
    BY <2>1, <2>2, <1>12, <1>13
<1> QED
  BY <1>3, <1>7, <1>9, <1>12, <1>13 DEF Stands, then, w, q, t

(* A run is merged.                                                        *)
LEMMA MergeRunInv == MergeInv /\ MergeRun => MergeInv'
<1> SUFFICES ASSUME MergeInv, MergeRun PROVE MergeInv'
  OBVIOUS
<1>1. PICK total : total = RunLength(tb.insns, node, pass)
  OBVIOUS
<1>2. PICK u : u = Merged(total, pass)
  OBVIOUS
<1>3. /\ Visited /\ ~ VisitEnds /\ total > 1
      /\ node' = u.node /\ cur' = cur + total + 1 /\ block' = block /\ pass' = pass /\ tb' = u.tb
  BY <1>1, <1>2, Zenon DEF MergeRun
<1>4. PICK x : x = tb.insns[node].id
  OBVIOUS
<1>5. /\ VisitAt(x, total)
      /\ Good => MergeKept /\ MergePlace /\ Ahead(total, x)
  BY <1>1, <1>3, <1>4, VisitBegins
<1>6. /\ WellFormedBlock(block)
      /\ Len(tb.insns) \in Nat /\ Len(block.code) \in Nat /\ node \in Nat \ {0} /\ cur \in Int
      /\ node <= Len(tb.insns) /\ pass \in Accesses
  BY <1>5 DEF VisitAt
<1>7. /\ total \in Nat /\ node + 2 * total - 1 <= Len(tb.insns)
  <2>1. /\ total \in 0..Len(tb.insns)
        /\ \A k \in 0..total - 1 : IsPair(tb.insns, node + 2 * k, pass)
    <3> DEFINE insns == tb.insns
    <3>1. Len(insns) \in Nat /\ node \in Nat \ {0} /\ total = RunLength(insns, node, pass)
      BY <1>1, <1>6
    <3> HIDE DEF insns
    <3>2. /\ total \in 0..Len(insns)
          /\ \A k \in 0..total - 1 :
                IsPair(insns, node + 2 * k, pass) /\ insns[node + 2 * k].src = insns[node].src
          /\ ~ (IsPair(insns, node + 2 * total, pass) /\ insns[node + 2 * total].src = insns[node].src)
      BY ONLY <3>1, RunLengthFacts
    <3> QED
      BY <3>2 DEF insns
  <2>2. total - 1 \in 0..total - 1 /\ total \in Nat
    BY <1>3, <1>6, <2>1
  <2>3. node + 2 * (total - 1) < Len(tb.insns)
    BY <2>1, <2>2 DEF IsPair
  <2> QED
    BY <2>2, <2>3, <1>6
<1>8. MergeType'
  <2>1. HasShape(u.tb) /\ InField(u.tb.insns, block.code) /\ u.node \in Nat \ {0}
    <3> DEFINE code == block.code
    <3>1. HasShape(tb) /\ InField(tb.insns, code)
      BY DEF MergeInv, MergeType
    <3> HIDE DEF code
    <3>2. HasShape(u.tb) /\ InField(u.tb.insns, code) /\ u.node \in Nat \ {0}
      BY <3>1, <1>2, <1>6, <1>7, MergedType
    <3> QED
      BY <3>2 DEF code
  <2>2. cur + total + 1 \in Int
    BY <1>6, <1>7
  <2> QED
    BY <2>1, <2>2, <1>3 DEF MergeInv, MergeType
<1>9. pass # "done"
  BY <1>6 DEF Accesses
<1>10. ASSUME Good
       PROVE  /\ Fit(u.tb, block) /\ Behind(u.tb.insns) = Behind(Decoded(block).insns)
              /\ BaseNotData /\ BaseNotZero => RunsAsBefore(u) /\ \A placed : Kept(placed)
              /\ Stands(u.tb, u.node, cur + total + 1, pass)
              /\ pass = "ST_D" => FollowsAll(u.tb.insns, block.code)
  <2>1. MergeKept /\ Stands(tb, node, cur, pass) /\ Ahead(total, x)
        /\ (pass = "ST_D" => FollowsAll(tb.insns, block.code))
    BY <1>5, <1>10 DEF MergePlace
  <2>2. /\ Meets(tb, block, node, cur, pass, total)
        /\ x \in Starts(pass) /\ RunLength(block.code, x, pass) = total
        /\ BaseNotZero => tb.insns[node].src # 0
        /\ BaseNotData => BaseIsNoData(tb, node, total)
    BY <2>1, <1>1, <1>3, <1>4, <1>6, <1>10, RunMet DEF MergeKept, Good
  <2>3. NoBranchUpTo(tb.insns, node - 1) /\ Follows(tb.insns, node, block.code, pass)
    BY <2>1 DEF Stands
  <2>4. /\ \E d : RunMerged(u, total, d)
        /\ tb.insns[node].src # 0 /\ BaseIsNoData(tb, node, total) => RunsAsBefore(u)
        /\ pass = "ST_D" /\ Follows(tb.insns, node, block.code, pass) /\ FollowsAll(tb.insns, block.code)
            => FollowsAll(u.tb.insns, block.code)
    <3>1. total > 0
      BY <1>3, <1>7
    <3> QED
      BY <3>1, <2>2, <2>3, <1>2, <1>6, AfterRun
  <2>5. PICK d : RunMerged(u, total, d)
    BY <2>4
  <2>6. Stands(u.tb, u.node, cur + total + 1, pass)
    <3>1. node - 1 - cur = 1 => total <= Limit[pass]
      BY <2>2 DEF Meets
    <3> QED
      BY <3>1, <2>1, <2>2, <2>5, <1>3, <1>5, <1>10, StandsBehindRun
  <2>7. Fit(u.tb, block) /\ Behind(u.tb.insns) = Behind(Decoded(block).insns)
    BY <2>1, <2>5 DEF RunMerged, MergeKept
  <2>8. BaseNotData /\ BaseNotZero => RunsAsBefore(u) /\ \A placed : Kept(placed)
    BY <2>1, <2>2, <2>4 DEF MergeKept
  <2> QED
    BY <2>1, <2>3, <2>4, <2>6, <2>7, <2>8
<1>11. Good => MergeKept'
  <2>1. ASSUME Good, BaseNotData, BaseNotZero, NEW placed PROVE Kept(placed)'
    <3>1. RunsAsBefore(u) /\ Kept(placed)
      BY <2>1, <1>10
    <3> QED
      BY <3>1, <1>3 DEF Kept, RunsAsBefore
  <2> QED
    BY <2>1, <1>3, <1>10, SameFile DEF MergeKept
<1>12. Good => MergePlace'
  <2>1. Good => Stands(tb, node, cur, pass)'
    BY <1>3, <1>10, StandsThen
  <2> QED
    BY <2>1, <1>3, <1>10 DEF MergePlace
<1> QED
  BY <1>3, <1>8, <1>9, <1>11, <1>12, SameFile DEF MergeInv

(* The first pass hands on to the second, which begins at the first node.  *)
LEMMA PassDoneInv == MergeInv /\ PassDone => MergeInv'
<1> SUFFICES ASSUME MergeInv, PassDone PROVE MergeInv'
  OBVIOUS
<1>1. /\ pass # "done" /\ pass' = (IF pass = "ST_D" THEN "LD_D" ELSE "done")
      /\ node' = 1 /\ cur' = 0 /\ block' = block /\ tb' = tb
  BY DEF PassDone
<1>2. MergeType /\ WellFormedBlock(block)
  BY BlocksAssumption DEF MergeInv, MergeType
<1>3. MergeType'
  <2>1. 1 \in Nat \ {0} /\ 0 \in Int
    OBVIOUS
  <2> QED
    BY <2>1, <1>1, <1>2 DEF MergeType
<1>4. Good => MergeKept /\ MergePlace
  BY <1>1 DEF MergeInv
<1>5. Good => MergeKept'
  BY <1>1, <1>4, SameFile DEF MergeKept, Kept
<1>6. Good /\ pass' # "done" => MergePlace'
  <2> SUFFICES ASSUME Good, pass' # "done" PROVE MergePlace'
    OBVIOUS
  <2>1. pass = "ST_D" /\ pass' = "LD_D"
    BY <1>1
  <2>2. FollowsAll(tb.insns, block.code)
    BY <2>1, <1>4 DEF MergePlace
  <2>3. Len(tb.insns) \in Nat
    BY <1>2, CodeFacts DEF MergeType, InField
  <2>4. Stands(tb, 1, 0, "LD_D")
    BY <2>2, <2>3, <1>2, StandsAtFirst DEF FollowsAll
  <2>5. Stands(tb, node, cur, pass)'
    BY <2>1, <2>4, <1>1, StandsThen
  <2> QED
    BY <2>1, <2>5 DEF MergePlace
<1> QED
  BY <1>1, <1>3, <1>5, <1>6, SameFile DEF MergeInv

(* The invariant speaks of the state alone.                                *)
LEMMA StutterMerge == MergeInv /\ UNCHANGED addiVars => MergeInv'
<1> SUFFICES ASSUME MergeInv, UNCHANGED addiVars PROVE MergeInv'
  OBVIOUS
<1>1. block' = block /\ pass' = pass /\ tb' = tb /\ node' = node /\ cur' = cur
  BY DEF addiVars
<1>2. MergeType'
  BY <1>1 DEF MergeInv, MergeType
<1>3. Good => MergeKept'
  BY <1>1, SameFile DEF MergeInv, MergeKept, Kept
<1>4. Good /\ pass # "done" => MergePlace'
  <2>1. Good /\ pass # "done" => Stands(tb, node, cur, pass)'
    BY <1>1, StandsThen DEF MergeInv, MergePlace
  <2> QED
    BY <2>1, <1>1 DEF MergeInv, MergePlace
<1> QED
  BY <1>1, <1>2, <1>3, <1>4, SameFile DEF MergeInv

(* The invariant holds in every state the two passes reach.                *)
LEMMA AlwaysMergeInv == AddiSpec => []MergeInv
<1>1. MergeInv /\ [AddiNext]_addiVars => MergeInv'
  BY MergeRunInv, PassPairInv, PassInsnInv, PassDoneInv, StutterMerge DEF AddiNext
<1> QED
  BY <1>1, InitMerge, PTL DEF AddiSpec

-----------------------------------------------------------------------------
(* The theorems.                                                           *)

(* visit counts the instructions it passes in a variable beside its node,  *)
(* and hands both to the merging (St_Addi_Vistor.cpp:37, :45): for every   *)
(* block without a run longer than the limit, and none relocated, the two  *)
(* agree at every round.                                                   *)
THEOREM AlwaysCountInStep == AddiSpec => []CountInStep
<1>1. MergeInv => CountInStep
  <2> SUFFICES ASSUME MergeInv, RunsNotRelocated, NoLongRun PROVE cur = node - 1
    BY DEF CountInStep
  <2>1. \A opc \in Accesses : \A x \in Starts(opc) :
            x \in Runs(opc) /\ ~ Exceeds(opc, x)
    BY DEF NoLongRun, Starts, Accesses
  <2>2. OneLongRun
    <3> SUFFICES ASSUME NEW opc \in Accesses, NEW x \in Starts(opc)
                 PROVE  /\ RunLength(block.code, x, opc) <= 2 * Limit[opc]
                        /\ \A m \in Starts(opc) : Exceeds(opc, x) /\ Exceeds(opc, m) => x = m
      BY DEF OneLongRun, Accesses
    <3>1. Len(block.code) \in Nat /\ DOMAIN block.code = 1..Len(block.code)
      <4>1. block.code \in Seq(MachineInsn)
        BY BlocksAssumption DEF MergeInv, MergeType, WellFormedBlock, BlockType
      <4> QED
        BY <4>1, LenProperties
    <3>2. RunLength(block.code, x, opc) \in Nat
      <4> DEFINE code == block.code
      <4>1. Len(code) \in Nat /\ x \in Nat \ {0}
        BY <3>1 DEF Starts, Runs
      <4> HIDE DEF code
      <4>2. RunLength(code, x, opc) \in 0..Len(code)
        BY <4>1, RunLengthFacts
      <4>3. RunLength(code, x, opc) \in Nat
        BY <4>1, <4>2
      <4> QED
        BY <4>3 DEF code
    <3>3. Limit[opc] \in Nat
      BY LimitAssumption DEF Accesses
    <3>4. ~ (RunLength(block.code, x, opc) > Limit[opc])
      BY <2>1 DEF Exceeds
    <3>5. RunLength(block.code, x, opc) <= 2 * Limit[opc]
      BY <3>2, <3>3, <3>4
    <3> QED
      BY <3>5, <2>1
  <2>3. node \in Nat /\ cur \in Int
    BY DEF MergeInv, MergeType
  <2>4. CASE pass = "done"
    BY <2>4 DEF MergeInv
  <2>5. CASE pass # "done"
    <3>1. Stands(tb, node, cur, pass) /\ pass \in Accesses
      BY <2>2, <2>5 DEF MergeInv, MergePlace, Good, MergeType, Accesses
    <3>2. node - 1 - cur # 1
      BY <3>1, <2>1 DEF Stands
    <3>3. node - 1 - cur = 0
      BY <3>1, <3>2 DEF Stands
    <3> QED
      BY <3>3, <2>3
  <2> QED
    BY <2>4, <2>5
<1> QED
  BY <1>1, AlwaysMergeInv, PTL

(* With a run of up to twice the limit, too, the deletions of              *)
(* opt_sequence_of_st_addi and opt_sequence_of_ld_addi leave every         *)
(* relocation and every recorded jump on its instruction, and the code     *)
(* from the first branch on as it was.                                     *)
THEOREM AlwaysNothingElseMoved == AddiSpec => []NothingElseMoved
<1>1. MergeInv => NothingElseMoved
  <2> SUFFICES ASSUME MergeInv, RunsNotRelocated, OneLongRun
               PROVE  Anchored(tb, block) /\ Behind(tb.insns) = Behind(Decoded(block).insns)
    BY DEF NothingElseMoved
  <2>1. MergeKept
    BY DEF MergeInv, Good
  <2>2. WellFormedBlock(block)
    BY BlocksAssumption DEF MergeInv, MergeType
  <2> QED
    BY <2>1, <2>2, FitIsAnchored DEF MergeKept
<1> QED
  BY <1>1, AlwaysMergeInv, PTL

(* After every round of visit the block leaves in the registers, and       *)
(* stores, what the block of the file does: the offsets and the merged     *)
(* addi.d make up for every addi.d deleted, whatever the limit; and no     *)
(* immediate leaves its field.                                             *)
THEOREM AlwaysMachineKept == AddiSpec => []MachineKept
<1>1. MergeInv => MachineKept
  <2> SUFFICES ASSUME MergeInv PROVE MachineKept
    OBVIOUS
  <2>1. BaseNotData /\ BaseNotZero /\ RunsNotRelocated /\ OneLongRun => \A placed \in BOOLEAN : Kept(placed)
    BY DEF MergeInv, Good, MergeKept
  <2>2. \A k \in DOMAIN tb.insns :
            tb.insns[k].imm \in {block.code[tb.insns[k].id].imm} \cup Field
    BY LenProperties DEF MergeInv, MergeType, InField
  <2> QED
    BY <2>1, <2>2 DEF MachineKept, Kept, Field
<1> QED
  BY <1>1, AlwaysMergeInv, PTL

=============================================================================
