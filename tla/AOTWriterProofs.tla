--------------------------- MODULE AOTWriterProofs --------------------------
(***************************************************************************)
(* Whatever the file, and whatever the sizes: no object the writers write  *)
(* overlaps another or lies past the buffer (NothingOverwritten), and the  *)
(* reader, following the places in the header and the tables, gets back    *)
(* every segment, name, TB and code (ReadsBackBlocks) and every TB's own   *)
(* relocations (ReadsBackRels).  And the bytes nobody sets are exactly     *)
(* those behind the names and the padding of the segments' entries         *)
(* (OnlyGapsLeft).                                                         *)
(*                                                                         *)
(* Two invariants.  WInv says where the five cursors are and that each     *)
(* area ends where the next begins; Wrote says exactly which object lies   *)
(* where, and which number the next relocation has.                        *)
(***************************************************************************)
EXTENDS AOTWriter, TBOpsProofs, FiniteSetTheorems

-----------------------------------------------------------------------------
(* Sums.                                                                   *)

(* The products below are of numbers and sizes.                            *)
LEMMA Products ==
    ASSUME NEW x \in Nat, NEW y \in Nat, NEW z \in Nat
    PROVE  /\ x * z \in Nat
           /\ (x + y) * z = x * z + y * z
           /\ (x + 1) * z = x * z + z
           /\ x <= y => x * z <= y * z
<1>1. \A a, b \in Nat : a * b \in Nat /\ (a + 1) * b = a * b + b
  OBVIOUS
<1>2. \A a, b \in Nat : (a + b) * z = a * z + b * z
  OBVIOUS
<1>3. ASSUME x <= y
      PROVE  x * z <= y * z
  <2>1. y - x \in Nat /\ y = x + (y - x)
    BY <1>3
  <2>2. y * z = x * z + (y - x) * z /\ (y - x) * z \in Nat /\ x * z \in Nat
    BY <1>1, <1>2, <2>1
  <2>3. \A a, b, c \in Nat : a = b + c => b <= a
    OBVIOUS
  <2>4. y * z \in Nat
    BY <1>1
  <2> QED
    BY <2>2, <2>3, <2>4
<1> QED
  BY <1>1, <1>2, <1>3

(* The running sum is what the recursion says.                             *)
LEMMA SumsUnfold ==
    ASSUME NEW q \in Seq(Nat), NEW f, f = Sums(q)
    PROVE  f[0] = 0 /\ \A n \in 1..Len(q) : f[n] = f[n - 1] + q[n]
<1> DEFINE G(g, n) == [i \in 0..n |-> IF i = 0 THEN 0 ELSE g[i - 1] + q[i]]
           T   == {n \in Nat : \E g : g = G(g, n)}
           sum == CHOOSE g : g = G(g, Len(q))
<1>1. f = sum /\ Len(q) \in Nat
  BY LenProperties DEF Sums
<1>2. 0 \in T
  <2>1. [i \in 0..0 |-> 0] = G([i \in 0..0 |-> 0], 0)
    OBVIOUS
  <2> QED
    BY <2>1
<1>3. ASSUME NEW n \in T
      PROVE  n + 1 \in T
  <2>1. PICK g : g = G(g, n)
    OBVIOUS
  <2> DEFINE h == [i \in 0..n + 1 |-> IF i = n + 1 THEN g[n] + q[n + 1] ELSE g[i]]
  <2>2. ASSUME NEW i \in 0..n + 1
        PROVE  h[i] = IF i = 0 THEN 0 ELSE h[i - 1] + q[i]
    <3>1. CASE i = n + 1
      <4>1. i # 0 /\ i - 1 = n /\ n \in 0..n + 1 /\ n # n + 1
        BY <3>1
      <4> QED
        BY <3>1, <4>1
    <3>2. CASE i = 0
      BY <3>2, <2>1
    <3>3. CASE i # 0 /\ i # n + 1
      <4>1. i \in 0..n /\ i - 1 \in 0..n + 1 /\ i - 1 # n + 1
        BY <3>3
      <4> QED
        BY <3>3, <4>1, <2>1
    <3> QED
      BY <3>1, <3>2, <3>3
  <2>3. h = G(h, n + 1)
    <3> HIDE DEF h
    <3>1. DOMAIN h = 0..n + 1 /\ h = [i \in DOMAIN h |-> h[i]]
      BY DEF h
    <3> QED
      BY <3>1, <2>2
  <2>4. n + 1 \in Nat
    OBVIOUS
  <2>5. \E g2 : g2 = G(g2, n + 1)
    <3> HIDE DEF h
    <3> QED
      BY <2>3, Zenon
  <2> QED
    BY <2>4, <2>5
<1>4. Len(q) \in T
  <2>1. T \in SUBSET Nat
    OBVIOUS
  <2> HIDE DEF T
  <2> QED
    BY <1>1, <1>2, <1>3, <2>1, NatInduct
<1>5. sum = G(sum, Len(q))
  BY <1>4
<1> HIDE DEF sum
<1>6. sum[0] = 0 /\ \A n \in 1..Len(q) : sum[n] = sum[n - 1] + q[n]
  BY <1>1, <1>5
<1> QED
  BY <1>1, <1>6

LEMMA SumsFacts ==
    ASSUME NEW q \in Seq(Nat), NEW f, f = Sums(q)
    PROVE  /\ f[0] = 0
           /\ \A n \in 0..Len(q) : f[n] \in Nat
           /\ \A n \in 0..Len(q) - 1 : f[n + 1] = f[n] + q[n + 1]
           /\ \A m, n \in 0..Len(q) : m <= n => f[m] <= f[n]
<1> DEFINE T == {n \in Nat : n <= Len(q) =>
                    f[n] \in Nat /\ \A m \in 0..n : f[m] \in Nat /\ f[m] <= f[n]}
<1>1. Len(q) \in Nat /\ \A n \in 1..Len(q) : q[n] \in Nat
  BY LenProperties, ElementOfSeq
<1>2. f[0] = 0
  BY SumsUnfold
<1>3. ASSUME NEW n \in 0..Len(q) - 1
      PROVE  f[n + 1] = f[n] + q[n + 1]
  <2>1. n + 1 \in 1..Len(q) /\ (n + 1) - 1 = n
    BY <1>1
  <2>2. f[n + 1] = f[(n + 1) - 1] + q[n + 1]
    BY <2>1, SumsUnfold
  <2> QED
    BY <2>1, <2>2
<1>4. 0 \in T
  BY <1>2
<1>5. ASSUME NEW n \in T
      PROVE  n + 1 \in T
  <2>1. SUFFICES ASSUME n + 1 <= Len(q)
                 PROVE  /\ f[n + 1] \in Nat
                        /\ \A m \in 0..n + 1 : f[m] \in Nat /\ f[m] <= f[n + 1]
    OBVIOUS
  <2>2. n \in 0..Len(q) - 1 /\ n <= Len(q) /\ n + 1 \in 1..Len(q)
    BY <1>1, <2>1
  <2>3. f[n] \in Nat /\ q[n + 1] \in Nat /\ f[n + 1] = f[n] + q[n + 1]
    BY <1>1, <1>3, <2>2
  <2>4. \A m \in 0..n : f[m] \in Nat /\ f[m] <= f[n]
    BY <2>2
  <2> QED
    BY <2>3, <2>4
<1>6. T = Nat
  <2>1. T \in SUBSET Nat
    OBVIOUS
  <2> HIDE DEF T
  <2> QED
    BY <1>4, <1>5, <2>1, NatInduct
<1>7. \A n \in 0..Len(q) : n \in Nat /\ n <= Len(q)
  BY <1>1
<1>8. \A n \in 0..Len(q) : f[n] \in Nat /\ \A m \in 0..n : f[m] <= f[n]
  BY <1>6, <1>7
<1>9. \A m, n \in 0..Len(q) : m <= n => m \in 0..n
  BY <1>1
<1> QED
  BY <1>2, <1>3, <1>8, <1>9

Linear(x, c, r, t, u, v, w) ==
    \A i \in 1..Len(x) : x[i] = u + c[i] + r[i] * v + t[i] * w

LinearSum(x, c, r, t, u, v, w, n) ==
    Sums(x)[n] = n * u + Sums(c)[n] + Sums(r)[n] * v + Sums(t)[n] * w

(* A sum of sizes, each linear in other numbers, is linear in their sums.  *)
LEMMA SumsLinear ==
    ASSUME NEW x \in Seq(Nat), NEW c \in Seq(Nat), NEW r \in Seq(Nat), NEW t \in Seq(Nat),
           Len(c) = Len(x), Len(r) = Len(x), Len(t) = Len(x),
           NEW u \in Nat, NEW v \in Nat, NEW w \in Nat,
           Linear(x, c, r, t, u, v, w),
           NEW n \in 0..Len(x)
    PROVE  LinearSum(x, c, r, t, u, v, w, n)
<1> DEFINE X == Sums(x)
           C == Sums(c)
           R == Sums(r)
           F == Sums(t)
           T == {i \in Nat : i <= Len(x) => X[i] = i * u + C[i] + R[i] * v + F[i] * w}
<1>1. /\ X[0] = 0 /\ \A i \in 0..Len(x) - 1 : X[i + 1] = X[i] + x[i + 1]
      /\ C[0] = 0 /\ \A i \in 0..Len(x) - 1 : C[i + 1] = C[i] + c[i + 1]
      /\ R[0] = 0 /\ \A i \in 0..Len(x) - 1 : R[i + 1] = R[i] + r[i + 1]
      /\ F[0] = 0 /\ \A i \in 0..Len(x) - 1 : F[i + 1] = F[i] + t[i + 1]
  <2>1. X[0] = 0 /\ \A i \in 0..Len(x) - 1 : X[i + 1] = X[i] + x[i + 1]
    BY SumsFacts
  <2>2. C[0] = 0 /\ \A i \in 0..Len(x) - 1 : C[i + 1] = C[i] + c[i + 1]
    BY SumsFacts
  <2>3. R[0] = 0 /\ \A i \in 0..Len(x) - 1 : R[i + 1] = R[i] + r[i + 1]
    BY SumsFacts
  <2>4. F[0] = 0 /\ \A i \in 0..Len(x) - 1 : F[i + 1] = F[i] + t[i + 1]
    BY SumsFacts
  <2> QED
    BY <2>1, <2>2, <2>3, <2>4
<1>2. \A i \in 0..Len(x) : C[i] \in Nat /\ R[i] \in Nat /\ F[i] \in Nat
  BY SumsFacts
<1>3. /\ Len(x) \in Nat
      /\ \A i \in 1..Len(x) : c[i] \in Nat /\ r[i] \in Nat /\ t[i] \in Nat
  BY LenProperties, ElementOfSeq
<1> HIDE DEF X, C, R, F
<1>4. 0 \in T
  <2>1. 0 * u = 0 /\ 0 * v = 0 /\ 0 * w = 0 /\ 0 + 0 + 0 + 0 = 0
    OBVIOUS
  <2> QED
    BY <1>1, <2>1
<1>5. ASSUME NEW i \in T
      PROVE  i + 1 \in T
  <2>1. SUFFICES ASSUME i + 1 <= Len(x)
                 PROVE  X[i + 1] = (i + 1) * u + C[i + 1] + R[i + 1] * v + F[i + 1] * w
    OBVIOUS
  <2>2. i \in Nat /\ i \in 0..Len(x) - 1 /\ i \in 0..Len(x) /\ i <= Len(x) /\ i + 1 \in 1..Len(x)
    BY <1>3, <2>1
  <2>3. /\ X[i] = i * u + C[i] + R[i] * v + F[i] * w
        /\ X[i + 1] = X[i] + x[i + 1]
        /\ x[i + 1] = u + c[i + 1] + r[i + 1] * v + t[i + 1] * w
        /\ C[i + 1] = C[i] + c[i + 1]
        /\ R[i + 1] = R[i] + r[i + 1]
        /\ F[i + 1] = F[i] + t[i + 1]
    BY <1>1, <2>2 DEF Linear
  <2>4. /\ C[i] \in Nat /\ R[i] \in Nat /\ F[i] \in Nat
        /\ c[i + 1] \in Nat /\ r[i + 1] \in Nat /\ t[i + 1] \in Nat
    BY <1>2, <1>3, <2>2
  <2>5. /\ (i + 1) * u = i * u + u
        /\ R[i + 1] * v = R[i] * v + r[i + 1] * v
        /\ F[i + 1] * w = F[i] * w + t[i + 1] * w
    <3>1. (i + 1) * u = i * u + u
      BY <2>2, Products
    <3> DEFINE y == r[i + 1]  z == t[i + 1]  g == R[i]  h == F[i]
    <3>0. y \in Nat /\ z \in Nat /\ g \in Nat /\ h \in Nat
      BY <2>4
    <3> HIDE DEF y, z, g, h, T
    <3>2. (g + y) * v = g * v + y * v
      BY <3>0, Products
    <3>3. (h + z) * w = h * w + z * w
      BY <3>0, Products
    <3> USE DEF y, z, g, h
    <3> QED
      BY <2>3, <3>1, <3>2, <3>3
  <2>6. /\ i * u \in Nat /\ R[i] * v \in Nat /\ r[i + 1] * v \in Nat
        /\ F[i] * w \in Nat /\ t[i + 1] * w \in Nat
    BY <2>2, <2>4, Products
  <2> DEFINE iu == i * u  Rv == R[i] * v  rv == r[i + 1] * v
             Fw == F[i] * w  tw == t[i + 1] * w
  <2>7. /\ X[i] = iu + C[i] + Rv + Fw
        /\ X[i + 1] = X[i] + (u + c[i + 1] + rv + tw)
        /\ (i + 1) * u = iu + u
        /\ C[i + 1] = C[i] + c[i + 1]
        /\ R[i + 1] * v = Rv + rv
        /\ F[i + 1] * w = Fw + tw
    BY <2>3, <2>5
  <2>8. iu \in Nat /\ Rv \in Nat /\ rv \in Nat /\ Fw \in Nat /\ tw \in Nat
    BY <2>6
  <2> HIDE DEF iu, Rv, rv, Fw, tw, T
  <2>9. X[i + 1] = (iu + u) + (C[i] + c[i + 1]) + (Rv + rv) + (Fw + tw)
    <3> DEFINE e == C[i]  f == c[i + 1]
    <3>1. e \in Nat /\ f \in Nat /\ X[i + 1] = (iu + e + Rv + Fw) + (u + f + rv + tw)
      BY <2>4, <2>7
    <3> HIDE DEF e, f
    <3>2. (iu + e + Rv + Fw) + (u + f + rv + tw)
            = (iu + u) + (e + f) + (Rv + rv) + (Fw + tw)
      BY <2>8, <3>1
    <3> QED
      BY <3>1, <3>2 DEF e, f
  <2> QED
    BY <2>7, <2>9
<1>6. T = Nat
  <2>1. T \in SUBSET Nat
    OBVIOUS
  <2> HIDE DEF T
  <2> QED
    BY <1>4, <1>5, <2>1, NatInduct
<1>7. n \in Nat /\ n <= Len(x)
  BY <1>3
<1> QED
  BY <1>6, <1>7 DEF X, C, R, F, LinearSum

-----------------------------------------------------------------------------
(* The numbers of a file.                                                  *)

ValidUpTo(f, rels) ==
    /\ f[0] = <<>>
    /\ \A n \in 1..Len(rels) : f[n] = IF rels[n] THEN Append(f[n - 1], n) ELSE f[n - 1]

LEMMA ValidUnfold ==
    ASSUME NEW tb \in TBShape
    PROVE  \E f : ValidUpTo(f, tb.rels) /\ ValidRels(tb) = f[Len(tb.rels)]
<1> DEFINE rels == tb.rels
           F(g, i) == IF rels[i] THEN Append(g[i - 1], i) ELSE g[i - 1]
           G(g, n) == [i \in 0..n |-> IF i = 0 THEN <<>> ELSE F(g, i)]
           T     == {n \in Nat : \E g : g = G(g, n)}
           valid == CHOOSE g : g = G(g, Len(rels))
<1>1. ValidRels(tb) = valid[Len(rels)] /\ Len(rels) \in Nat
  <2>1. Len(rels) \in Nat
    BY LenProperties DEF TBShape
  <2> QED
    BY <2>1 DEF ValidRels
<1>2. 0 \in T
  <2>1. [i \in 0..0 |-> <<>>] = G([i \in 0..0 |-> <<>>], 0)
    OBVIOUS
  <2> QED
    BY <2>1
<1>3. ASSUME NEW n \in T
      PROVE  n + 1 \in T
  <2>1. PICK g : g = G(g, n)
    OBVIOUS
  <2> DEFINE h == [i \in 0..n + 1 |-> IF i = n + 1 THEN F(g, n + 1) ELSE g[i]]
  <2>2. ASSUME NEW i \in 0..n + 1
        PROVE  h[i] = IF i = 0 THEN <<>> ELSE F(h, i)
    <3>1. CASE i = n + 1
      <4>1. i # 0 /\ i - 1 = n /\ n \in 0..n + 1 /\ n # n + 1
        BY <3>1
      <4> QED
        BY <3>1, <4>1
    <3>2. CASE i = 0
      BY <3>2, <2>1
    <3>3. CASE i # 0 /\ i # n + 1
      <4>1. i \in 0..n /\ i - 1 \in 0..n + 1 /\ i - 1 # n + 1
        BY <3>3
      <4> QED
        BY <3>3, <4>1, <2>1
    <3> QED
      BY <3>1, <3>2, <3>3
  <2>3. h = G(h, n + 1)
    <3> HIDE DEF h
    <3>1. DOMAIN h = 0..n + 1 /\ h = [i \in DOMAIN h |-> h[i]]
      BY DEF h
    <3> QED
      BY <3>1, <2>2
  <2>4. n + 1 \in Nat
    OBVIOUS
  <2>5. \E g2 : g2 = G(g2, n + 1)
    <3> HIDE DEF h
    <3> QED
      BY <2>3, Zenon
  <2> QED
    BY <2>4, <2>5
<1>4. Len(rels) \in T
  <2>1. T \in SUBSET Nat
    OBVIOUS
  <2> HIDE DEF T
  <2> QED
    BY <1>1, <1>2, <1>3, <2>1, NatInduct
<1>5. valid = G(valid, Len(rels))
  BY <1>4
<1> HIDE DEF valid
<1>6. ValidUpTo(valid, rels)
  <2>1. valid[0] = <<>>
    BY <1>1, <1>5
  <2>2. ASSUME NEW n \in 1..Len(rels)
        PROVE  valid[n] = F(valid, n)
    <3>1. n \in 0..Len(rels) /\ n # 0
      BY <1>1, <2>2
    <3> HIDE DEF F
    <3> QED
      BY <1>5, <3>1
  <2> QED
    BY <2>1, <2>2 DEF ValidUpTo
<1> QED
  BY <1>1, <1>6

LEMMA ValidRelsType ==
    ASSUME NEW tb \in TBShape
    PROVE  ValidRels(tb) \in Seq(1..Len(tb.rels))
<1>1. PICK f : ValidUpTo(f, tb.rels) /\ ValidRels(tb) = f[Len(tb.rels)]
  BY ValidUnfold
<1>2. Len(tb.rels) \in Nat
  BY LenProperties DEF TBShape
<1> DEFINE S == 1..Len(tb.rels)
           T == {n \in Nat : n <= Len(tb.rels) => f[n] \in Seq(S)}
<1>3. 0 \in T
  <2>1. <<>> \in Seq(S)
    BY EmptySeq
  <2> QED
    BY <1>1, <2>1 DEF ValidUpTo
<1>4. ASSUME NEW n \in T
      PROVE  n + 1 \in T
  <2>1. SUFFICES ASSUME n + 1 <= Len(tb.rels)
                 PROVE  f[n + 1] \in Seq(S)
    OBVIOUS
  <2>2. n + 1 \in S /\ n + 1 \in 1..Len(tb.rels) /\ (n + 1) - 1 = n /\ f[n] \in Seq(S)
    BY <1>2, <2>1
  <2>3. f[n + 1] = IF tb.rels[n + 1] THEN Append(f[n], n + 1) ELSE f[n]
    BY <1>1, <2>2 DEF ValidUpTo
  <2> HIDE DEF S
  <2>4. Append(f[n], n + 1) \in Seq(S)
    BY <2>2, AppendProperties
  <2> QED
    BY <2>2, <2>3, <2>4
<1>5. T = Nat
  <2>1. T \in SUBSET Nat
    OBVIOUS
  <2> HIDE DEF T
  <2> QED
    BY <1>3, <1>4, <2>1, NatInduct
<1> QED
  BY <1>1, <1>2, <1>5

LEMMA TBNumbers ==
    ASSUME NEW tb \in TBShape
    PROVE  tb.insns \in Nat /\ HowManyRel(tb) \in Nat /\ HowManyCode(tb) \in Nat
<1>1. HowManyRel(tb) \in Nat
  BY ValidRelsType, LenProperties DEF HowManyRel
<1>2. tb.insns \in Nat /\ InsnSize \in Nat
  BY SizesAssumption DEF TBShape
<1>3. tb.insns * InsnSize \in Nat
  BY <1>2, Products
<1> QED
  BY <1>1, <1>2, <1>3 DEF HowManyCode

(* Per TB of a segment and per segment of the file.                        *)
RelsOf(seg)  == [j \in DOMAIN seg |-> HowManyRel(seg[j])]
CodeOf(seg)  == [j \in DOMAIN seg |-> HowManyCode(seg[j])]
BytesOf(seg) == [j \in DOMAIN seg |-> TBBytes(seg[j])]

TBsOfAll(f)   == [j \in DOMAIN f |-> Len(f[j])]
RelsOfAll(f)  == [j \in DOMAIN f |-> SegRels(f[j])]
CodeOfAll(f)  == [j \in DOMAIN f |-> SegCode(f[j])]
BytesOfAll(f) == [j \in DOMAIN f |-> SegBytes(f[j])]

LEMMA SegNumbers ==
    ASSUME NEW seg \in Seq(TBShape)
    PROVE  /\ Len(seg) \in Nat
           /\ RelsOf(seg) \in Seq(Nat) /\ Len(RelsOf(seg)) = Len(seg)
           /\ CodeOf(seg) \in Seq(Nat) /\ Len(CodeOf(seg)) = Len(seg)
           /\ SegRels(seg) = Sums(RelsOf(seg))[Len(seg)] /\ SegRels(seg) \in Nat
           /\ SegCode(seg) = Sums(CodeOf(seg))[Len(seg)] /\ SegCode(seg) \in Nat
           /\ SegBytes(seg) \in Nat
           /\ SegBytes(seg) = (SegmentSize + NameSize)
                                + SegCode(seg) + SegRels(seg) * RelSize + Len(seg) * TBSize
<1>1. Len(seg) \in Nat /\ DOMAIN seg = 1..Len(seg) /\ \A j \in DOMAIN seg : seg[j] \in TBShape
  BY LenProperties, ElementOfSeq
<1>2. /\ RelSize \in Nat /\ TBSize \in Nat /\ SegmentSize \in Nat /\ NameSize \in Nat
      /\ 0 \in Nat
  BY SizesAssumption
<1>3. \A j \in DOMAIN seg : HowManyRel(seg[j]) \in Nat /\ HowManyCode(seg[j]) \in Nat
  BY <1>1, TBNumbers
<1>4. /\ RelsOf(seg) \in [1..Len(seg) -> Nat] /\ CodeOf(seg) \in [1..Len(seg) -> Nat]
  BY <1>1, <1>3 DEF RelsOf, CodeOf
<1>5. /\ RelsOf(seg) \in Seq(Nat) /\ Len(RelsOf(seg)) = Len(seg)
      /\ CodeOf(seg) \in Seq(Nat) /\ Len(CodeOf(seg)) = Len(seg)
  BY <1>1, <1>4, FcnIsSeq
<1>6. ASSUME NEW j \in DOMAIN seg
      PROVE  /\ TBBytes(seg[j]) = TBSize + CodeOf(seg)[j] + RelsOf(seg)[j] * RelSize
                                    + RelsOf(seg)[j] * 0
             /\ TBBytes(seg[j]) \in Nat
  <2> DEFINE c == HowManyCode(seg[j])
             r == HowManyRel(seg[j])
  <2>1. TBBytes(seg[j]) = TBSize + c + r * RelSize /\ CodeOf(seg)[j] = c /\ RelsOf(seg)[j] = r
    BY DEF TBBytes, HowManyCode, CodeOf, RelsOf
  <2>2. c \in Nat /\ r \in Nat
    BY <1>3
  <2> HIDE DEF c, r
  <2>3. r * RelSize \in Nat /\ r * 0 = 0
    BY <1>2, <2>2, Products
  <2> DEFINE p == r * RelSize
  <2>4. p \in Nat
    BY <2>3
  <2> HIDE DEF p
  <2>5. TBSize + c + p = TBSize + c + p + 0 /\ TBSize + c + p \in Nat
    BY <1>2, <2>2, <2>4
  <2> QED
    BY <2>1, <2>3, <2>5 DEF p
<1>7. BytesOf(seg) \in [1..Len(seg) -> Nat]
  BY <1>1, <1>6 DEF BytesOf
<1>8. BytesOf(seg) \in Seq(Nat) /\ Len(BytesOf(seg)) = Len(seg)
  BY <1>1, <1>7, FcnIsSeq
<1> DEFINE n == Len(seg)
           X == Sums(BytesOf(seg))[n]
           C == Sums(CodeOf(seg))[n]
           R == Sums(RelsOf(seg))[n]
<1>9. n \in 0..n
  BY <1>1
<1>10. X = n * TBSize + C + R * RelSize + R * 0
  <2>1. Linear(BytesOf(seg), CodeOf(seg), RelsOf(seg), RelsOf(seg), TBSize, RelSize, 0)
    BY <1>1, <1>6, <1>8 DEF BytesOf, Linear
  <2>2. n \in 0..Len(BytesOf(seg))
    BY <1>8, <1>9
  <2>3. /\ Len(CodeOf(seg)) = Len(BytesOf(seg))
        /\ Len(RelsOf(seg)) = Len(BytesOf(seg))
    BY <1>5, <1>8
  <2> HIDE DEF n
  <2>4. LinearSum(BytesOf(seg), CodeOf(seg), RelsOf(seg), RelsOf(seg), TBSize, RelSize, 0, n)
    BY <1>2, <1>5, <1>8, <2>1, <2>2, <2>3, SumsLinear
  <2> QED
    BY <2>4 DEF LinearSum
<1>11. C \in Nat /\ R \in Nat /\ X \in Nat
  BY <1>5, <1>8, <1>9, SumsFacts
<1>12. SegRels(seg) = R /\ SegCode(seg) = C /\ SegBytes(seg) = SegmentSize + NameSize + X
  BY DEF SegRels, SegCode, SegBytes, SumOver, RelsOf, CodeOf, BytesOf
<1> HIDE DEF X, C, R
<1>13. /\ SegBytes(seg) \in Nat
       /\ SegBytes(seg) = (SegmentSize + NameSize) + C + R * RelSize + n * TBSize
  <2> DEFINE a == n * TBSize
             b == R * RelSize
  <2>1. a \in Nat /\ b \in Nat /\ R * 0 = 0
    BY <1>1, <1>2, <1>11, Products
  <2>2. X = a + C + b + 0
    BY <1>10, <2>1
  <2> HIDE DEF a, b
  <2>3. /\ SegmentSize + NameSize + X \in Nat
        /\ SegmentSize + NameSize + X = (SegmentSize + NameSize) + C + b + a
    BY <1>2, <1>11, <2>1, <2>2
  <2> QED
    BY <1>12, <2>3 DEF a, b
<1> QED
  BY <1>1, <1>5, <1>11, <1>12, <1>13 DEF R, C

(* How many TBs and relocations, and how many bytes of code, the first i   *)
(* segments have, and the first j TBs of segment i.                        *)
TBsTo(i)     == Sums(TBsOfAll(file))[i]
RelsTo(i)    == Sums(RelsOfAll(file))[i]
CodeTo(i)    == Sums(CodeOfAll(file))[i]
RelsIn(i, j) == Sums(RelsOf(file[i]))[j]
CodeIn(i, j) == Sums(CodeOf(file[i]))[j]

LEMMA FileNumbers ==
    ASSUME file \in Seq(Seq(TBShape))
    PROVE  /\ Len(file) \in Nat /\ DOMAIN file = 1..Len(file)
           /\ \A i \in 1..Len(file) : file[i] \in Seq(TBShape) /\ Len(file[i]) \in Nat
           /\ TBsOfAll(file) \in Seq(Nat) /\ Len(TBsOfAll(file)) = Len(file)
           /\ RelsOfAll(file) \in Seq(Nat) /\ Len(RelsOfAll(file)) = Len(file)
           /\ CodeOfAll(file) \in Seq(Nat) /\ Len(CodeOfAll(file)) = Len(file)
           /\ SumOver(Len, file) = TBsTo(Len(file))
           /\ SumOver(SegRels, file) = RelsTo(Len(file))
           /\ FileBytes(file) = HeaderSize + (Len(file) * (SegmentSize + NameSize)
                                  + CodeTo(Len(file)) + RelsTo(Len(file)) * RelSize
                                  + TBsTo(Len(file)) * TBSize)
<1>1. Len(file) \in Nat /\ DOMAIN file = 1..Len(file)
      /\ \A i \in DOMAIN file : file[i] \in Seq(TBShape)
  BY LenProperties, ElementOfSeq
<1>2. \A i \in DOMAIN file : /\ Len(file[i]) \in Nat /\ SegRels(file[i]) \in Nat
                             /\ SegCode(file[i]) \in Nat /\ SegBytes(file[i]) \in Nat
  BY <1>1, SegNumbers
<1>3. /\ TBsOfAll(file) \in [1..Len(file) -> Nat] /\ RelsOfAll(file) \in [1..Len(file) -> Nat]
      /\ CodeOfAll(file) \in [1..Len(file) -> Nat] /\ BytesOfAll(file) \in [1..Len(file) -> Nat]
  BY <1>1, <1>2 DEF TBsOfAll, RelsOfAll, CodeOfAll, BytesOfAll
<1>4. TBsOfAll(file) \in Seq(Nat) /\ Len(TBsOfAll(file)) = Len(file)
  BY <1>1, <1>3, FcnIsSeq
<1>5. RelsOfAll(file) \in Seq(Nat) /\ Len(RelsOfAll(file)) = Len(file)
  BY <1>1, <1>3, FcnIsSeq
<1>6. CodeOfAll(file) \in Seq(Nat) /\ Len(CodeOfAll(file)) = Len(file)
  BY <1>1, <1>3, FcnIsSeq
<1>7. BytesOfAll(file) \in Seq(Nat) /\ Len(BytesOfAll(file)) = Len(file)
  BY <1>1, <1>3, FcnIsSeq
<1>8. /\ SumOver(Len, file) = TBsTo(Len(file))
      /\ SumOver(SegRels, file) = RelsTo(Len(file))
      /\ FileBytes(file) = HeaderSize + Sums(BytesOfAll(file))[Len(file)]
  BY DEF SumOver, FileBytes, TBsTo, RelsTo, TBsOfAll, RelsOfAll, BytesOfAll
<1>9. /\ RelSize \in Nat /\ TBSize \in Nat /\ SegmentSize + NameSize \in Nat
  BY SizesAssumption
<1>10. Linear(BytesOfAll(file), CodeOfAll(file), RelsOfAll(file), TBsOfAll(file),
              SegmentSize + NameSize, RelSize, TBSize)
  BY <1>1, <1>7, SegNumbers DEF TBsOfAll, RelsOfAll, CodeOfAll, BytesOfAll, Linear
<1>11. Len(file) \in 0..Len(BytesOfAll(file))
  BY <1>1, <1>7
<1>12. Sums(BytesOfAll(file))[Len(file)]
         = Len(file) * (SegmentSize + NameSize) + CodeTo(Len(file))
             + RelsTo(Len(file)) * RelSize + TBsTo(Len(file)) * TBSize
  <2>1. LinearSum(BytesOfAll(file), CodeOfAll(file), RelsOfAll(file), TBsOfAll(file),
                  SegmentSize + NameSize, RelSize, TBSize, Len(file))
    BY <1>4, <1>5, <1>6, <1>7, <1>9, <1>10, <1>11, SumsLinear
  <2> QED
    BY <2>1 DEF LinearSum, CodeTo, RelsTo, TBsTo
<1> QED
  BY <1>1, <1>2, <1>4, <1>5, <1>6, <1>8, <1>12

-----------------------------------------------------------------------------
(* The areas of the buffer.                                                *)

AllAreas == Areas \cup {"header"}

TBTab   == Names + Len(file) * NameSize
RelTab  == TBTab + TBsTo(Len(file)) * TBSize
CodeTab == RelTab + RelsTo(Len(file)) * RelSize
Limit   == CodeTab + CodeTo(Len(file))

(* Where an area begins and ends.                                          *)
Base(a) == CASE a = "header"  -> 0
             [] a = "segment" -> HeaderSize
             [] a = "name"    -> Names
             [] a = "tb"      -> TBTab
             [] a = "rel"     -> RelTab
             [] a = "code"    -> CodeTab

Top(a) == CASE a = "header"  -> HeaderSize
            [] a = "segment" -> Names
            [] a = "name"    -> TBTab
            [] a = "tb"      -> RelTab
            [] a = "rel"     -> CodeTab
            [] a = "code"    -> Limit

LEMMA AreaNames ==
    /\ AllAreas = {"header", "segment", "name", "tb", "rel", "code"}
    /\ Base("header") = 0 /\ Base("segment") = HeaderSize /\ Base("name") = Names
    /\ Base("tb") = TBTab /\ Base("rel") = RelTab /\ Base("code") = CodeTab
    /\ Top("header") = HeaderSize /\ Top("segment") = Names /\ Top("name") = TBTab
    /\ Top("tb") = RelTab /\ Top("rel") = CodeTab /\ Top("code") = Limit
BY DEF AllAreas, Areas, Base, Top

(* The numbers of the file at an index.                                    *)
LEMMA ToFacts ==
    ASSUME file \in Seq(Seq(TBShape))
    PROVE  /\ Len(file) \in Nat
           /\ TBsTo(0) = 0 /\ RelsTo(0) = 0 /\ CodeTo(0) = 0
           /\ \A i \in 0..Len(file) : /\ TBsTo(i) \in Nat /\ TBsTo(i) <= TBsTo(Len(file))
                                      /\ RelsTo(i) \in Nat /\ RelsTo(i) <= RelsTo(Len(file))
                                      /\ CodeTo(i) \in Nat /\ CodeTo(i) <= CodeTo(Len(file))
           /\ \A i \in 1..Len(file) : /\ TBsTo(i) = TBsTo(i - 1) + Len(file[i])
                                      /\ RelsTo(i) = RelsTo(i - 1) + SegRels(file[i])
                                      /\ CodeTo(i) = CodeTo(i - 1) + SegCode(file[i])
<1>1. /\ Len(file) \in Nat /\ DOMAIN file = 1..Len(file)
      /\ TBsOfAll(file) \in Seq(Nat) /\ Len(TBsOfAll(file)) = Len(file)
      /\ RelsOfAll(file) \in Seq(Nat) /\ Len(RelsOfAll(file)) = Len(file)
      /\ CodeOfAll(file) \in Seq(Nat) /\ Len(CodeOfAll(file)) = Len(file)
  BY FileNumbers
<1>2. /\ TBsTo(0) = 0
      /\ \A i \in 0..Len(file) : TBsTo(i) \in Nat
      /\ \A i \in 0..Len(file) - 1 : TBsTo(i + 1) = TBsTo(i) + TBsOfAll(file)[i + 1]
      /\ \A i, j \in 0..Len(file) : i <= j => TBsTo(i) <= TBsTo(j)
  BY <1>1, SumsFacts DEF TBsTo
<1>3. /\ RelsTo(0) = 0
      /\ \A i \in 0..Len(file) : RelsTo(i) \in Nat
      /\ \A i \in 0..Len(file) - 1 : RelsTo(i + 1) = RelsTo(i) + RelsOfAll(file)[i + 1]
      /\ \A i, j \in 0..Len(file) : i <= j => RelsTo(i) <= RelsTo(j)
  BY <1>1, SumsFacts DEF RelsTo
<1>4. /\ CodeTo(0) = 0
      /\ \A i \in 0..Len(file) : CodeTo(i) \in Nat
      /\ \A i \in 0..Len(file) - 1 : CodeTo(i + 1) = CodeTo(i) + CodeOfAll(file)[i + 1]
      /\ \A i, j \in 0..Len(file) : i <= j => CodeTo(i) <= CodeTo(j)
  BY <1>1, SumsFacts DEF CodeTo
<1>5. /\ Len(file) \in 0..Len(file) /\ \A i \in 0..Len(file) : i <= Len(file)
      /\ \A i \in 1..Len(file) : i - 1 \in 0..Len(file) - 1 /\ (i - 1) + 1 = i
  BY <1>1
<1>6. \A i \in 1..Len(file) : /\ TBsOfAll(file)[i] = Len(file[i])
                              /\ RelsOfAll(file)[i] = SegRels(file[i])
                              /\ CodeOfAll(file)[i] = SegCode(file[i])
  BY <1>1 DEF TBsOfAll, RelsOfAll, CodeOfAll
<1>7. ASSUME NEW i \in 0..Len(file)
      PROVE  /\ TBsTo(i) \in Nat /\ TBsTo(i) <= TBsTo(Len(file))
             /\ RelsTo(i) \in Nat /\ RelsTo(i) <= RelsTo(Len(file))
             /\ CodeTo(i) \in Nat /\ CodeTo(i) <= CodeTo(Len(file))
  <2>1. TBsTo(i) \in Nat /\ TBsTo(i) <= TBsTo(Len(file))
    BY <1>2, <1>5, <1>7
  <2>2. RelsTo(i) \in Nat /\ RelsTo(i) <= RelsTo(Len(file))
    BY <1>3, <1>5, <1>7
  <2>3. CodeTo(i) \in Nat /\ CodeTo(i) <= CodeTo(Len(file))
    BY <1>4, <1>5, <1>7
  <2> QED
    BY <2>1, <2>2, <2>3
<1>8. ASSUME NEW i \in 1..Len(file)
      PROVE  /\ TBsTo(i) = TBsTo(i - 1) + Len(file[i])
             /\ RelsTo(i) = RelsTo(i - 1) + SegRels(file[i])
             /\ CodeTo(i) = CodeTo(i - 1) + SegCode(file[i])
  <2>0. i - 1 \in 0..Len(file) - 1 /\ (i - 1) + 1 = i
    BY <1>5, <1>8
  <2>1. TBsTo((i - 1) + 1) = TBsTo(i - 1) + TBsOfAll(file)[(i - 1) + 1]
    BY <1>2, <2>0
  <2>2. RelsTo((i - 1) + 1) = RelsTo(i - 1) + RelsOfAll(file)[(i - 1) + 1]
    BY <1>3, <2>0
  <2>3. CodeTo((i - 1) + 1) = CodeTo(i - 1) + CodeOfAll(file)[(i - 1) + 1]
    BY <1>4, <2>0
  <2> QED
    BY <1>6, <1>8, <2>0, <2>1, <2>2, <2>3
<1> QED
  BY <1>1, <1>2, <1>3, <1>4, <1>7, <1>8

LEMMA InFacts ==
    ASSUME file \in Seq(Seq(TBShape)), NEW i \in 1..Len(file)
    PROVE  /\ Len(file[i]) \in Nat
           /\ RelsIn(i, 0) = 0 /\ CodeIn(i, 0) = 0
           /\ RelsIn(i, Len(file[i])) = SegRels(file[i])
           /\ CodeIn(i, Len(file[i])) = SegCode(file[i])
           /\ SegRels(file[i]) \in Nat /\ SegCode(file[i]) \in Nat
           /\ \A j \in 0..Len(file[i]) :
                /\ RelsIn(i, j) \in Nat /\ RelsIn(i, j) <= SegRels(file[i])
                /\ CodeIn(i, j) \in Nat /\ CodeIn(i, j) <= SegCode(file[i])
           /\ \A j \in 1..Len(file[i]) :
                /\ file[i][j] \in TBShape
                /\ RelsIn(i, j) = RelsIn(i, j - 1) + HowManyRel(file[i][j])
                /\ CodeIn(i, j) = CodeIn(i, j - 1) + HowManyCode(file[i][j])
<1> DEFINE seg == file[i]
<1>1. seg \in Seq(TBShape)
  BY FileNumbers
<1>2. /\ Len(seg) \in Nat /\ DOMAIN seg = 1..Len(seg)
      /\ \A j \in 1..Len(seg) : seg[j] \in TBShape
  BY <1>1, LenProperties, ElementOfSeq
<1>3. /\ RelsOf(seg) \in Seq(Nat) /\ Len(RelsOf(seg)) = Len(seg)
      /\ CodeOf(seg) \in Seq(Nat) /\ Len(CodeOf(seg)) = Len(seg)
      /\ RelsIn(i, Len(seg)) = SegRels(seg) /\ SegRels(seg) \in Nat
      /\ CodeIn(i, Len(seg)) = SegCode(seg) /\ SegCode(seg) \in Nat
  BY <1>1, SegNumbers DEF RelsIn, CodeIn
<1>4. /\ RelsIn(i, 0) = 0
      /\ \A j \in 0..Len(seg) : RelsIn(i, j) \in Nat
      /\ \A j \in 0..Len(seg) - 1 : RelsIn(i, j + 1) = RelsIn(i, j) + RelsOf(seg)[j + 1]
      /\ \A j, m \in 0..Len(seg) : j <= m => RelsIn(i, j) <= RelsIn(i, m)
  BY <1>3, SumsFacts DEF RelsIn
<1>5. /\ CodeIn(i, 0) = 0
      /\ \A j \in 0..Len(seg) : CodeIn(i, j) \in Nat
      /\ \A j \in 0..Len(seg) - 1 : CodeIn(i, j + 1) = CodeIn(i, j) + CodeOf(seg)[j + 1]
      /\ \A j, m \in 0..Len(seg) : j <= m => CodeIn(i, j) <= CodeIn(i, m)
  BY <1>3, SumsFacts DEF CodeIn
<1>6. /\ Len(seg) \in 0..Len(seg) /\ \A j \in 0..Len(seg) : j <= Len(seg)
      /\ \A j \in 1..Len(seg) : j - 1 \in 0..Len(seg) - 1 /\ (j - 1) + 1 = j
  BY <1>2
<1>7. \A j \in 1..Len(seg) : /\ RelsOf(seg)[j] = HowManyRel(seg[j])
                             /\ CodeOf(seg)[j] = HowManyCode(seg[j])
  BY <1>2 DEF RelsOf, CodeOf
<1> HIDE DEF seg
<1>8. ASSUME NEW j \in 0..Len(seg)
      PROVE  /\ RelsIn(i, j) \in Nat /\ RelsIn(i, j) <= SegRels(seg)
             /\ CodeIn(i, j) \in Nat /\ CodeIn(i, j) <= SegCode(seg)
  <2>1. RelsIn(i, j) \in Nat /\ RelsIn(i, j) <= RelsIn(i, Len(seg))
    BY <1>4, <1>6, <1>8
  <2>2. CodeIn(i, j) \in Nat /\ CodeIn(i, j) <= CodeIn(i, Len(seg))
    BY <1>5, <1>6, <1>8
  <2> QED
    BY <1>3, <2>1, <2>2
<1>9. ASSUME NEW j \in 1..Len(seg)
      PROVE  /\ seg[j] \in TBShape
             /\ RelsIn(i, j) = RelsIn(i, j - 1) + HowManyRel(seg[j])
             /\ CodeIn(i, j) = CodeIn(i, j - 1) + HowManyCode(seg[j])
  <2>0. j - 1 \in 0..Len(seg) - 1 /\ (j - 1) + 1 = j
    BY <1>6, <1>9
  <2>1. RelsIn(i, (j - 1) + 1) = RelsIn(i, j - 1) + RelsOf(seg)[(j - 1) + 1]
    BY <1>4, <2>0
  <2>2. CodeIn(i, (j - 1) + 1) = CodeIn(i, j - 1) + CodeOf(seg)[(j - 1) + 1]
    BY <1>5, <2>0
  <2> QED
    BY <1>2, <1>7, <1>9, <2>0, <2>1, <2>2
<1> QED
  BY <1>2, <1>3, <1>4, <1>5, <1>8, <1>9 DEF seg

(* Each area is where the one before it ends, and the last one ends with   *)
(* the buffer.                                                             *)
LEMMA Layout ==
    ASSUME file \in Seq(Seq(TBShape))
    PROVE  /\ \A a \in AllAreas : Base(a) \in Nat /\ Top(a) \in Nat /\ Base(a) <= Top(a)
           /\ HeaderSize <= Names /\ Names <= TBTab /\ TBTab <= RelTab
           /\ RelTab <= CodeTab /\ CodeTab <= Limit
           /\ Limit = FileBytes(file)
<1> DEFINE n  == Len(file)
           a1 == n * SegmentSize
           a2 == n * NameSize
           a3 == TBsTo(n) * TBSize
           a4 == RelsTo(n) * RelSize
           a5 == CodeTo(n)
<1>1. /\ HeaderSize \in Nat /\ SegmentSize \in Nat /\ NameSize \in Nat /\ TBSize \in Nat
      /\ RelSize \in Nat /\ n \in Nat /\ n \in 0..n
  <2>1. /\ HeaderSize \in Nat /\ SegmentSize \in Nat /\ NameSize \in Nat /\ TBSize \in Nat
        /\ RelSize \in Nat
    BY SizesAssumption
  <2>2. n \in Nat
    BY FileNumbers
  <2> HIDE DEF n
  <2> QED
    BY <2>1, <2>2
<1>2. TBsTo(n) \in Nat /\ RelsTo(n) \in Nat /\ a5 \in Nat
  BY <1>1, ToFacts
<1>3. a1 \in Nat /\ a2 \in Nat /\ a3 \in Nat /\ a4 \in Nat
  BY <1>1, <1>2, Products
<1>4. n * (SegmentSize + NameSize) = a1 + a2
  <2>1. \A x, y, z \in Nat : x * (y + z) = x * y + x * z
    OBVIOUS
  <2> QED
    BY <1>1, <2>1
<1>5. FileBytes(file) = HeaderSize + ((a1 + a2) + a5 + a4 + a3)
  BY <1>4, FileNumbers
<1>6. /\ Names = HeaderSize + a1 /\ TBTab = Names + a2 /\ RelTab = TBTab + a3
      /\ CodeTab = RelTab + a4 /\ Limit = CodeTab + a5
  BY DEF Names, TBTab, RelTab, CodeTab, Limit
<1> HIDE DEF a1, a2, a3, a4, a5, n
<1>7. /\ Names \in Nat /\ TBTab \in Nat /\ RelTab \in Nat /\ CodeTab \in Nat /\ Limit \in Nat
      /\ HeaderSize <= Names /\ Names <= TBTab /\ TBTab <= RelTab
      /\ RelTab <= CodeTab /\ CodeTab <= Limit /\ 0 <= HeaderSize
  BY <1>1, <1>2, <1>3, <1>6
<1>8. Limit = FileBytes(file)
  BY <1>1, <1>2, <1>3, <1>5, <1>6
<1>9. \A a \in AllAreas : Base(a) \in Nat /\ Top(a) \in Nat /\ Base(a) <= Top(a)
  BY <1>1, <1>7, AreaNames
<1> QED
  BY <1>7, <1>8, <1>9

(* The objects so far: in each area one behind the other, up to fill.      *)
Apart(o, p) == o.at + o.size <= p.at \/ p.at + p.size <= o.at

Laid(objects, fill) ==
    /\ \A o \in objects : /\ o.area \in AllAreas /\ o.at \in Nat /\ o.size \in Nat
                          /\ Base(o.area) <= o.at /\ o.at + o.size <= fill[o.area]
    /\ \A o, p \in objects : o # p /\ o.area = p.area => Apart(o, p)

(* What lies between two states of fill.                                   *)
Added(objects, fill, filled) ==
    /\ \A a \in AllAreas : Base(a) <= fill[a] /\ fill[a] <= filled[a]
    /\ \A o \in objects : /\ o.area \in AllAreas /\ o.at \in Nat /\ o.size \in Nat
                          /\ fill[o.area] <= o.at /\ o.at + o.size <= filled[o.area]
    /\ \A o, p \in objects : o # p /\ o.area = p.area => Apart(o, p)

LEMMA LaidGrows ==
    ASSUME file \in Seq(Seq(TBShape)),
           NEW fill \in [AllAreas -> Nat], NEW filled \in [AllAreas -> Nat],
           NEW W, NEW N, Laid(W, fill), Added(N, fill, filled)
    PROVE  Laid(W \cup N, filled)
<1>1. \A a \in AllAreas : /\ Base(a) \in Nat /\ fill[a] \in Nat /\ filled[a] \in Nat
                          /\ Base(a) <= fill[a] /\ fill[a] <= filled[a]
  BY Layout DEF Added
<1>2. ASSUME NEW o \in W
      PROVE  /\ o.area \in AllAreas /\ o.at \in Nat /\ o.size \in Nat
             /\ Base(o.area) <= o.at /\ o.at + o.size <= fill[o.area]
             /\ o.at + o.size <= filled[o.area]
  <2>1. /\ o.area \in AllAreas /\ o.at \in Nat /\ o.size \in Nat
        /\ Base(o.area) <= o.at /\ o.at + o.size <= fill[o.area]
    BY DEF Laid
  <2>2. fill[o.area] \in Nat /\ filled[o.area] \in Nat /\ fill[o.area] <= filled[o.area]
    BY <1>1, <2>1
  <2> QED
    BY <2>1, <2>2
<1>3. ASSUME NEW o \in N
      PROVE  /\ o.area \in AllAreas /\ o.at \in Nat /\ o.size \in Nat
             /\ Base(o.area) <= o.at /\ fill[o.area] <= o.at
             /\ o.at + o.size <= filled[o.area]
  <2>1. /\ o.area \in AllAreas /\ o.at \in Nat /\ o.size \in Nat
        /\ fill[o.area] <= o.at /\ o.at + o.size <= filled[o.area]
    BY DEF Added
  <2>2. fill[o.area] \in Nat /\ Base(o.area) \in Nat /\ Base(o.area) <= fill[o.area]
    BY <1>1, <2>1
  <2> QED
    BY <2>1, <2>2
<1>4. ASSUME NEW o \in W, NEW p \in N, o.area = p.area
      PROVE  o.at + o.size <= p.at
  <2>1. o.at \in Nat /\ o.size \in Nat /\ o.at + o.size <= fill[o.area] /\ fill[o.area] \in Nat
    BY <1>1, <1>2
  <2>2. p.at \in Nat /\ fill[o.area] <= p.at
    BY <1>3, <1>4
  <2> QED
    BY <2>1, <2>2
<1>5. \A o, p \in W \cup N : o # p /\ o.area = p.area => Apart(o, p)
  BY <1>4 DEF Laid, Added, Apart
<1> QED
  BY <1>2, <1>3, <1>5 DEF Laid

(* How far each area is filled, with the cursors at c and l.               *)
FillAt(p, c, l) ==
    [a \in AllAreas |->
        CASE a = "header"  -> HeaderSize
          [] a = "segment" -> IF p = "tbs" THEN c[a] + SegmentSize ELSE c[a]
          [] a = "name"    -> c[a]
          [] OTHER         -> IF p = "names" THEN Base(a)
                              ELSE IF p = "tbs" THEN l[a] ELSE c[a]]

Fill == FillAt(pc, cursor, local)

(* A step keeps the file, and with it the areas.                           *)
LEMMA SameFile ==
    ASSUME file' = file
    PROVE  /\ Names' = Names /\ TBTab' = TBTab /\ RelTab' = RelTab /\ CodeTab' = CodeTab
           /\ \A a : Base(a)' = Base(a)
           /\ Fill' = FillAt(pc', cursor', local')
           /\ Laid(written', FillAt(pc', cursor', local')) => Laid(written, Fill)'
<1>1. TBsTo(Len(file))' = TBsTo(Len(file)) /\ RelsTo(Len(file))' = RelsTo(Len(file))
  BY DEF TBsTo, RelsTo
<1>2. Names' = Names /\ TBTab' = TBTab /\ RelTab' = RelTab /\ CodeTab' = CodeTab
  BY <1>1 DEF Names, TBTab, RelTab, CodeTab
<1>3. \A a : Base(a)' = Base(a)
  BY <1>2 DEF Base
<1>4. Fill' = FillAt(pc', cursor', local')
  BY <1>3 DEF Fill, FillAt
<1>5. Laid(written', FillAt(pc', cursor', local')) => Laid(written, Fill)'
  BY <1>3, <1>4 DEF Laid
<1> QED
  BY <1>2, <1>3, <1>4, <1>5

-----------------------------------------------------------------------------
(* The cursors.                                                            *)

(* Where the cursors are when d segments are written, and TBWriter's when  *)
(* j TBs of segment i are.                                                 *)
CursorAt(c, d) ==
    /\ c["segment"] = HeaderSize + d * SegmentSize
    /\ c["name"] = TBTab
    /\ c["tb"] = TBTab + TBsTo(d) * TBSize
    /\ c["rel"] = RelTab + RelsTo(d) * RelSize
    /\ c["code"] = CodeTab + CodeTo(d)

LocalAt(l, c, i, j) ==
    /\ l["tb"] = c["tb"] + j * TBSize
    /\ l["rel"] = c["rel"] + RelsIn(i, j) * RelSize
    /\ l["code"] = c["code"] + CodeIn(i, j)

Done == IF pc = "done" THEN Len(file) ELSE s - 1

Places ==
    /\ file \in Seq(Seq(TBShape))
    /\ pc \in {"names", "segment", "tbs", "done"}
    /\ s \in 1..Len(file)
    /\ cursor \in [Areas -> Nat]
    /\ local \in [TBAreas -> Nat]
    /\ pc = "names" => /\ cursor["segment"] = HeaderSize
                       /\ cursor["name"] = Names + (s - 1) * NameSize
    /\ pc # "names" => CursorAt(cursor, Done)
    /\ pc = "tbs" => k \in 1..Len(file[s]) + 1 /\ LocalAt(local, cursor, s, k - 1)

(* The inductive invariant: the cursors are where the numbers of the file  *)
(* say, and the objects lie behind them.                                   *)
WInv == Places /\ Laid(written, Fill)

LEMMA SamePlaces ==
    ASSUME file' = file
    PROVE  /\ CursorAt(cursor', Done') => CursorAt(cursor, Done)'
           /\ LocalAt(local', cursor', s', k' - 1) => LocalAt(local, cursor, s, k - 1)'
<1>1. CursorAt(cursor', Done') => CursorAt(cursor, Done)'
  BY SameFile DEF CursorAt, TBsTo, RelsTo, CodeTo
<1>2. LocalAt(local', cursor', s', k' - 1) => LocalAt(local, cursor, s, k - 1)'
  BY DEF LocalAt, RelsIn, CodeIn
<1> QED
  BY <1>1, <1>2

LEMMA SizesAreNat ==
    /\ HeaderSize \in Nat /\ SegmentSize \in Nat /\ NameSize \in Nat
    /\ TBSize \in Nat /\ RelSize \in Nat /\ InsnSize \in Nat
    /\ SegmentData \in Nat /\ SegmentData <= SegmentSize
<1>1. /\ HeaderSize \in Nat /\ SegmentSize \in Nat /\ NameSize \in Nat
      /\ TBSize \in Nat /\ RelSize \in Nat /\ InsnSize \in Nat
      /\ SegmentData \in 1..SegmentSize
  BY SizesAssumption
<1> QED
  BY <1>1

TBsFilled(f, p, c, l) ==
    \A a \in TBAreas : f[a] = IF p = "names" THEN Base(a)
                             ELSE IF p = "tbs" THEN l[a] ELSE c[a]

LEMMA FillValues ==
    ASSUME file \in Seq(Seq(TBShape)),
           NEW c \in [Areas -> Nat], NEW l \in [TBAreas -> Nat], NEW p
    PROVE  /\ FillAt(p, c, l) \in [AllAreas -> Nat]
           /\ FillAt(p, c, l)["header"] = HeaderSize
           /\ FillAt(p, c, l)["segment"]
                = IF p = "tbs" THEN c["segment"] + SegmentSize ELSE c["segment"]
           /\ FillAt(p, c, l)["name"] = c["name"]
           /\ TBsFilled(FillAt(p, c, l), p, c, l)
<1> DEFINE f(a) == CASE a = "header"  -> HeaderSize
                     [] a = "segment" -> IF p = "tbs" THEN c[a] + SegmentSize ELSE c[a]
                     [] a = "name"    -> c[a]
                     [] OTHER         -> IF p = "names" THEN Base(a)
                                         ELSE IF p = "tbs" THEN l[a] ELSE c[a]
           F == [a \in AllAreas |-> f(a)]
<1>1. FillAt(p, c, l) = F
  BY DEF FillAt
<1>2. AllAreas = {"header", "segment", "name"} \cup TBAreas /\ TBAreas \subseteq Areas
      /\ "segment" \in Areas /\ "name" \in Areas
  BY DEF AllAreas, Areas, TBAreas
<1>3. \A a \in TBAreas : a # "header" /\ a # "segment" /\ a # "name"
  BY DEF TBAreas
<1>4. /\ f("header") = HeaderSize
      /\ f("segment") = IF p = "tbs" THEN c["segment"] + SegmentSize ELSE c["segment"]
      /\ f("name") = c["name"]
  OBVIOUS
<1>5. \A a \in TBAreas : f(a) = IF p = "names" THEN Base(a) ELSE IF p = "tbs" THEN l[a] ELSE c[a]
  BY <1>3
<1> HIDE DEF f
<1>6. \A a \in AllAreas : Base(a) \in Nat
  BY Layout
<1>7. \A a \in TBAreas : f(a) \in Nat
  BY <1>2, <1>5, <1>6
<1>8. f("header") \in Nat /\ f("segment") \in Nat /\ f("name") \in Nat
  BY <1>2, <1>4, SizesAreNat
<1>9. \A a \in AllAreas : f(a) \in Nat
  BY <1>2, <1>7, <1>8
<1>10. F \in [AllAreas -> Nat] /\ \A a \in AllAreas : F[a] = f(a)
  BY <1>9
<1> HIDE DEF F
<1>11. TBsFilled(F, p, c, l)
  BY <1>2, <1>5, <1>10 DEF TBsFilled
<1> QED
  BY <1>1, <1>2, <1>4, <1>10, <1>11

(* A cursor at a number of objects stays between the ends of its area.     *)
LEMMA Between ==
    ASSUME NEW base \in Nat, NEW m \in Nat, NEW n \in Nat, m <= n, NEW z \in Nat
    PROVE  base <= base + m * z /\ base + m * z <= base + n * z /\ base + m * z \in Nat
<1> DEFINE x == m * z
           y == n * z
<1>1. x \in Nat /\ y \in Nat /\ x <= y
  BY Products
<1> HIDE DEF x, y
<1>2. base <= base + x /\ base + x <= base + y /\ base + x \in Nat
  BY <1>1
<1> QED
  BY <1>2 DEF x, y

LEMMA CursorBounds ==
    ASSUME file \in Seq(Seq(TBShape)), NEW c, NEW d \in 0..Len(file), CursorAt(c, d)
    PROVE  /\ HeaderSize <= c["segment"] /\ c["segment"] <= Names
           /\ c["name"] = TBTab
           /\ \A a \in TBAreas : Base(a) <= c[a] /\ c[a] <= Top(a)
<1> DEFINE n == Len(file)
<1>1. n \in Nat /\ d \in Nat /\ d <= n /\ n \in 0..n
  BY ToFacts
<1>2. /\ TBsTo(d) \in Nat /\ TBsTo(n) \in Nat /\ TBsTo(d) <= TBsTo(n)
      /\ RelsTo(d) \in Nat /\ RelsTo(n) \in Nat /\ RelsTo(d) <= RelsTo(n)
      /\ CodeTo(d) \in Nat /\ CodeTo(n) \in Nat /\ CodeTo(d) <= CodeTo(n)
  BY <1>1, ToFacts
<1>3. \A a \in AllAreas : Base(a) \in Nat
  BY Layout
<1>4. TBTab \in Nat /\ RelTab \in Nat /\ CodeTab \in Nat
  BY <1>3, AreaNames
<1>5. HeaderSize <= c["segment"] /\ c["segment"] <= Names
  <2>1. HeaderSize <= HeaderSize + d * SegmentSize
        /\ HeaderSize + d * SegmentSize <= HeaderSize + n * SegmentSize
    BY <1>1, SizesAreNat, Between
  <2> QED
    BY <2>1 DEF CursorAt, Names
<1>6. TBTab <= c["tb"] /\ c["tb"] <= RelTab
  <2>1. TBTab <= TBTab + TBsTo(d) * TBSize
        /\ TBTab + TBsTo(d) * TBSize <= TBTab + TBsTo(n) * TBSize
    BY <1>2, <1>4, SizesAreNat, Between
  <2> QED
    BY <2>1 DEF CursorAt, RelTab
<1>7. RelTab <= c["rel"] /\ c["rel"] <= CodeTab
  <2>1. RelTab <= RelTab + RelsTo(d) * RelSize
        /\ RelTab + RelsTo(d) * RelSize <= RelTab + RelsTo(n) * RelSize
    BY <1>2, <1>4, SizesAreNat, Between
  <2> QED
    BY <2>1 DEF CursorAt, CodeTab
<1>8. CodeTab <= c["code"] /\ c["code"] <= Limit
  <2>1. c["code"] = CodeTab + CodeTo(d) /\ Limit = CodeTab + CodeTo(n)
    BY DEF CursorAt, Limit
  <2> HIDE DEF n
  <2> QED
    BY <1>2, <1>4, <2>1
<1>9. \A a \in TBAreas : Base(a) <= c[a] /\ c[a] <= Top(a)
  BY <1>6, <1>7, <1>8, AreaNames DEF TBAreas
<1> QED
  BY <1>5, <1>9 DEF CursorAt

(* While segment d + 1 is written.                                         *)
LEMMA LocalBounds ==
    ASSUME file \in Seq(Seq(TBShape)), NEW c \in [Areas -> Nat], NEW l,
           NEW d \in 0..Len(file) - 1, CursorAt(c, d),
           NEW j \in 0..Len(file[d + 1]), LocalAt(l, c, d + 1, j)
    PROVE  /\ c["segment"] + SegmentSize <= Names
           /\ \A a \in TBAreas : Base(a) <= l[a] /\ l[a] <= Top(a)
<1> DEFINE n == Len(file)
           i == d + 1
<1>1. n \in Nat /\ d \in Nat /\ i \in 1..n /\ i \in 0..n /\ i - 1 = d /\ d \in 0..n
  BY ToFacts
<1>2. /\ TBsTo(i) = TBsTo(d) + Len(file[i]) /\ TBsTo(d) \in Nat
      /\ RelsTo(i) = RelsTo(d) + SegRels(file[i]) /\ RelsTo(d) \in Nat
      /\ CodeTo(i) = CodeTo(d) + SegCode(file[i]) /\ CodeTo(d) \in Nat
      /\ TBsTo(i) <= TBsTo(n) /\ RelsTo(i) <= RelsTo(n) /\ CodeTo(i) <= CodeTo(n)
      /\ TBsTo(n) \in Nat /\ RelsTo(n) \in Nat /\ CodeTo(n) \in Nat
  <2>1. n \in 0..n
    BY <1>1
  <2>2. /\ TBsTo(i) = TBsTo(i - 1) + Len(file[i])
        /\ RelsTo(i) = RelsTo(i - 1) + SegRels(file[i])
        /\ CodeTo(i) = CodeTo(i - 1) + SegCode(file[i])
    BY <1>1, ToFacts
  <2>3. /\ TBsTo(i) <= TBsTo(n) /\ RelsTo(i) <= RelsTo(n) /\ CodeTo(i) <= CodeTo(n)
        /\ TBsTo(n) \in Nat /\ RelsTo(n) \in Nat /\ CodeTo(n) \in Nat
        /\ TBsTo(d) \in Nat /\ RelsTo(d) \in Nat /\ CodeTo(d) \in Nat
    BY <1>1, <2>1, ToFacts
  <2> HIDE DEF i, n
  <2> QED
    BY <1>1, <2>2, <2>3
<1>3. /\ Len(file[i]) \in Nat /\ j \in 0..Len(file[i])
      /\ RelsIn(i, j) \in Nat /\ RelsIn(i, j) <= SegRels(file[i]) /\ SegRels(file[i]) \in Nat
      /\ CodeIn(i, j) \in Nat /\ CodeIn(i, j) <= SegCode(file[i]) /\ SegCode(file[i]) \in Nat
  BY <1>1, InFacts
<1>4. TBTab \in Nat /\ RelTab \in Nat /\ CodeTab \in Nat
  BY Layout, AreaNames
<1> HIDE DEF i, n
<1> DEFINE tbs == TBsTo(d) + j
           rels == RelsTo(d) + RelsIn(i, j)
<1>5. tbs \in Nat /\ tbs <= TBsTo(n) /\ rels \in Nat /\ rels <= RelsTo(n)
  <2>1. \A x, y, z, t \in Nat : y <= z /\ x + z <= t => x + y \in Nat /\ x + y <= t
    OBVIOUS
  <2>2. j \in Nat /\ j <= Len(file[i])
    BY <1>3
  <2>3. TBsTo(d) + Len(file[i]) <= TBsTo(n)
    BY <1>2
  <2>4. RelsTo(d) + SegRels(file[i]) <= RelsTo(n)
    BY <1>2
  <2>5. TBsTo(d) + j \in Nat /\ TBsTo(d) + j <= TBsTo(n)
    BY <1>2, <1>3, <2>1, <2>2, <2>3
  <2>6. RelsTo(d) + RelsIn(i, j) \in Nat /\ RelsTo(d) + RelsIn(i, j) <= RelsTo(n)
    BY <1>2, <1>3, <2>1, <2>4
  <2> QED
    BY <2>5, <2>6
<1>6. l["tb"] = TBTab + tbs * TBSize /\ l["rel"] = RelTab + rels * RelSize
  <2>1. /\ l["tb"] = (TBTab + TBsTo(d) * TBSize) + j * TBSize
        /\ l["rel"] = (RelTab + RelsTo(d) * RelSize) + RelsIn(i, j) * RelSize
    BY DEF LocalAt, CursorAt, i
  <2>2. tbs * TBSize = TBsTo(d) * TBSize + j * TBSize
    BY <1>2, <1>3, SizesAreNat, Products, SMTT(30)
  <2>3. rels * RelSize = RelsTo(d) * RelSize + RelsIn(i, j) * RelSize
    BY <1>2, <1>3, SizesAreNat, Products
  <2>4. /\ TBsTo(d) * TBSize \in Nat /\ j * TBSize \in Nat
        /\ RelsTo(d) * RelSize \in Nat /\ RelsIn(i, j) * RelSize \in Nat
    <3>1. \A x, y \in Nat : x * y \in Nat
      OBVIOUS
    <3>2. j \in Nat
      BY <1>3
    <3> QED
      BY <3>1, <3>2, <1>2, <1>3, SizesAreNat, Zenon
  <2>5. \A x, y, z \in Nat : (x + y) + z = x + (y + z)
    OBVIOUS
  <2> HIDE DEF tbs, rels
  <2> QED
    BY <1>4, <2>1, <2>2, <2>3, <2>4, <2>5, SMTT(30)
<1> HIDE DEF tbs, rels
<1>7. TBTab <= l["tb"] /\ l["tb"] <= RelTab
  <2>1. TBTab <= TBTab + tbs * TBSize /\ TBTab + tbs * TBSize <= TBTab + TBsTo(n) * TBSize
    BY <1>2, <1>4, <1>5, SizesAreNat, Between
  <2> QED
    BY <1>6, <2>1 DEF RelTab, n
<1>8. RelTab <= l["rel"] /\ l["rel"] <= CodeTab
  <2>1. RelTab <= RelTab + rels * RelSize /\ RelTab + rels * RelSize <= RelTab + RelsTo(n) * RelSize
    BY <1>2, <1>4, <1>5, SizesAreNat, Between
  <2> QED
    BY <1>6, <2>1 DEF CodeTab, n
<1>9. CodeTab <= l["code"] /\ l["code"] <= Limit
  <2>1. l["code"] = (CodeTab + CodeTo(d)) + CodeIn(i, j) /\ Limit = CodeTab + CodeTo(n)
    BY DEF LocalAt, CursorAt, Limit, i, n
  <2>2. \A x, y, z, t, u \in Nat :
            y <= z /\ x + z <= t => u <= (u + x) + y /\ (u + x) + y <= u + t
    OBVIOUS
  <2>3. CodeTo(d) + SegCode(file[i]) <= CodeTo(n)
    BY <1>2
  <2>4. /\ CodeTo(d) \in Nat /\ CodeTo(n) \in Nat /\ CodeTab \in Nat
        /\ CodeIn(i, j) \in Nat /\ SegCode(file[i]) \in Nat /\ CodeIn(i, j) <= SegCode(file[i])
    BY <1>2, <1>3, <1>4
  <2>5. /\ CodeTab <= (CodeTab + CodeTo(d)) + CodeIn(i, j)
        /\ (CodeTab + CodeTo(d)) + CodeIn(i, j) <= CodeTab + CodeTo(n)
    BY <2>2, <2>3, <2>4, Zenon
  <2> QED
    BY <2>1, <2>5
<1>10. c["segment"] + SegmentSize <= Names
  <2>1. c["segment"] = HeaderSize + d * SegmentSize /\ Names = HeaderSize + n * SegmentSize
    BY DEF CursorAt, Names, n
  <2>2. (d + 1) * SegmentSize = d * SegmentSize + SegmentSize
    BY <1>1, SizesAreNat, Products
  <2>3. HeaderSize + i * SegmentSize <= HeaderSize + n * SegmentSize
    <3>1. i \in Nat /\ i <= n
      BY <1>1
    <3> QED
      BY <1>1, <3>1, SizesAreNat, Between
  <2>4. d * SegmentSize \in Nat
    BY <1>1, SizesAreNat, Products
  <2>5. \A x, y, z \in Nat : (x + y) + z = x + (y + z)
    OBVIOUS
  <2> QED
    BY <2>1, <2>2, <2>3, <2>4, <2>5, SizesAreNat DEF i
<1>11. \A a \in TBAreas : Base(a) <= l[a] /\ l[a] <= Top(a)
  BY <1>7, <1>8, <1>9, AreaNames DEF TBAreas
<1> QED
  BY <1>10, <1>11

(* No area is filled past its end.                                         *)
LEMMA FillBounds ==
    ASSUME Places
    PROVE  /\ Fill \in [AllAreas -> Nat]
           /\ \A a \in AllAreas : Base(a) <= Fill[a] /\ Fill[a] <= Top(a)
<1>1. /\ file \in Seq(Seq(TBShape)) /\ cursor \in [Areas -> Nat] /\ local \in [TBAreas -> Nat]
      /\ pc \in {"names", "segment", "tbs", "done"} /\ s \in 1..Len(file)
  BY DEF Places
<1>2. /\ Fill \in [AllAreas -> Nat]
      /\ Fill["header"] = HeaderSize
      /\ Fill["segment"] = IF pc = "tbs" THEN cursor["segment"] + SegmentSize
                           ELSE cursor["segment"]
      /\ Fill["name"] = cursor["name"]
      /\ \A a \in TBAreas : Fill[a] = IF pc = "names" THEN Base(a)
                                      ELSE IF pc = "tbs" THEN local[a] ELSE cursor[a]
  <2> DEFINE F == FillAt(pc, cursor, local)
  <2>1. F \in [AllAreas -> Nat]
    BY <1>1, FillValues
  <2>2. F["header"] = HeaderSize /\ F["name"] = cursor["name"]
    BY <1>1, FillValues
  <2>3. F["segment"] = IF pc = "tbs" THEN cursor["segment"] + SegmentSize ELSE cursor["segment"]
    BY <1>1, FillValues
  <2>4. TBsFilled(F, pc, cursor, local)
    BY <1>1, FillValues
  <2> HIDE DEF F
  <2> QED
    BY <2>1, <2>2, <2>3, <2>4 DEF Fill, F, TBsFilled
<1>3. /\ \A a \in AllAreas : Base(a) \in Nat /\ Top(a) \in Nat /\ Base(a) <= Top(a)
      /\ HeaderSize <= Names /\ Names <= TBTab /\ Len(file) \in Nat
      /\ TBAreas \subseteq AllAreas /\ AllAreas = {"header", "segment", "name"} \cup TBAreas
  BY <1>1, Layout, ToFacts DEF AllAreas, Areas, TBAreas
<1>4. Names \in Nat /\ TBTab \in Nat
  BY <1>3, AreaNames
<1>5. CASE pc = "names"
  <2>1. cursor["segment"] = HeaderSize /\ cursor["name"] = Names + (s - 1) * NameSize
    BY <1>5 DEF Places
  <2>2. Names <= cursor["name"] /\ cursor["name"] <= TBTab
    <3>1. s - 1 \in Nat /\ s - 1 <= Len(file)
      BY <1>1, <1>3
    <3>2. Names <= Names + (s - 1) * NameSize
          /\ Names + (s - 1) * NameSize <= Names + Len(file) * NameSize
      BY <1>3, <1>4, <3>1, SizesAreNat, Between
    <3> QED
      BY <2>1, <3>2 DEF TBTab
  <2>3. \A a \in TBAreas : Base(a) <= Fill[a] /\ Fill[a] <= Top(a)
    BY <1>2, <1>3, <1>5
  <2> QED
    BY <1>2, <1>3, <1>5, <2>1, <2>2, <2>3, AreaNames, SizesAreNat
<1>6. CASE pc = "segment" \/ pc = "done"
  <2>1. CursorAt(cursor, Done) /\ Done \in 0..Len(file)
    BY <1>1, <1>3, <1>6 DEF Places, Done
  <2>2. /\ HeaderSize <= cursor["segment"] /\ cursor["segment"] <= Names
        /\ cursor["name"] = TBTab
        /\ \A a \in TBAreas : Base(a) <= cursor[a] /\ cursor[a] <= Top(a)
    BY <1>1, <2>1, CursorBounds
  <2>3. pc # "names" /\ pc # "tbs"
    BY <1>6
  <2>4. \A a \in TBAreas : Base(a) <= Fill[a] /\ Fill[a] <= Top(a)
    BY <1>2, <2>2, <2>3
  <2> QED
    BY <1>2, <1>3, <1>4, <2>2, <2>3, <2>4, AreaNames, SizesAreNat
<1>7. CASE pc = "tbs"
  <2>1. /\ CursorAt(cursor, s - 1) /\ k \in 1..Len(file[s]) + 1
        /\ LocalAt(local, cursor, s, k - 1)
    BY <1>7 DEF Places, Done
  <2> DEFINE d == s - 1
             j == k - 1
  <2>2. d \in 0..Len(file) - 1 /\ d \in 0..Len(file) /\ d + 1 = s
    BY <1>1, <1>3
  <2>3. j \in 0..Len(file[s])
    <3>1. Len(file[s]) \in Nat
      BY <1>1, InFacts
    <3> QED
      BY <2>1, <3>1
  <2>4. CursorAt(cursor, d) /\ LocalAt(local, cursor, d + 1, j) /\ j \in 0..Len(file[d + 1])
    BY <2>1, <2>2, <2>3
  <2> HIDE DEF d, j
  <2>5. /\ HeaderSize <= cursor["segment"] /\ cursor["name"] = TBTab
    BY <1>1, <2>2, <2>4, CursorBounds
  <2>6. /\ cursor["segment"] + SegmentSize <= Names
        /\ \A a \in TBAreas : Base(a) <= local[a] /\ local[a] <= Top(a)
    BY <1>1, <2>2, <2>4, LocalBounds
  <2>7. \A a \in TBAreas : Base(a) <= Fill[a] /\ Fill[a] <= Top(a)
    BY <1>2, <1>7, <2>6
  <2>8. cursor["segment"] \in Nat /\ HeaderSize <= cursor["segment"] + SegmentSize
    <3>1. cursor["segment"] \in Nat
      BY <1>1 DEF Areas
    <3> QED
      BY <2>5, <3>1, SizesAreNat
  <2> QED
    BY <1>2, <1>3, <1>4, <1>7, <2>5, <2>6, <2>7, <2>8, AreaNames, SizesAreNat
<1> QED
  BY <1>1, <1>5, <1>6, <1>7

(* Two different objects of different areas are apart, since each area     *)
(* ends before the next.                                                   *)
(* One of two areas ends before the other begins.                          *)
LEMMA AreasApart ==
    ASSUME file \in Seq(Seq(TBShape)), NEW a \in AllAreas, NEW b \in AllAreas, a # b
    PROVE  Top(a) <= Base(b) \/ Top(b) <= Base(a)
<1>1. /\ HeaderSize <= Names /\ Names <= TBTab /\ TBTab <= RelTab
      /\ RelTab <= CodeTab /\ CodeTab <= Limit
  BY Layout
<1>2. /\ HeaderSize \in Nat /\ Names \in Nat /\ TBTab \in Nat /\ RelTab \in Nat
      /\ CodeTab \in Nat /\ Limit \in Nat
  BY Layout, AreaNames
<1>3. Names <= RelTab /\ Names <= CodeTab /\ TBTab <= CodeTab
      /\ HeaderSize <= TBTab /\ HeaderSize <= RelTab /\ HeaderSize <= CodeTab
  BY <1>1, <1>2
<1>4. CASE a = "header"
  BY <1>1, <1>2, <1>3, <1>4, AreaNames
<1>5. CASE a = "segment"
  BY <1>1, <1>2, <1>3, <1>5, AreaNames
<1>6. CASE a = "name"
  BY <1>1, <1>2, <1>3, <1>6, AreaNames
<1>7. CASE a = "tb"
  BY <1>1, <1>2, <1>3, <1>7, AreaNames
<1>8. CASE a = "rel"
  BY <1>1, <1>2, <1>3, <1>8, AreaNames
<1>9. CASE a = "code"
  BY <1>1, <1>2, <1>3, <1>9, AreaNames
<1> QED
  BY <1>4, <1>5, <1>6, <1>7, <1>8, <1>9, AreaNames

LEMMA LaidApart ==
    ASSUME file \in Seq(Seq(TBShape)), NEW fill \in [AllAreas -> Nat],
           \A a \in AllAreas : fill[a] <= Top(a),
           NEW W, Laid(W, fill)
    PROVE  \A o \in W : /\ o.at + o.size <= FileBytes(file)
                        /\ \A p \in W \ {o} : o.at + o.size <= p.at \/ p.at + p.size <= o.at
<1>1. /\ \A a \in AllAreas : Base(a) \in Nat /\ Top(a) \in Nat
      /\ HeaderSize <= Names /\ Names <= TBTab /\ TBTab <= RelTab
      /\ RelTab <= CodeTab /\ CodeTab <= Limit /\ Limit = FileBytes(file)
  BY Layout
<1>2. /\ HeaderSize \in Nat /\ Names \in Nat /\ TBTab \in Nat /\ RelTab \in Nat
      /\ CodeTab \in Nat /\ Limit \in Nat
  BY <1>1, AreaNames
<1>3. \A o \in W : /\ o.area \in AllAreas /\ o.at \in Nat /\ o.size \in Nat
                   /\ Base(o.area) <= o.at /\ o.at + o.size <= Top(o.area)
                   /\ Base(o.area) \in Nat /\ Top(o.area) \in Nat
  <2>1. ASSUME NEW o \in W
        PROVE  /\ o.area \in AllAreas /\ o.at \in Nat /\ o.size \in Nat
               /\ Base(o.area) <= o.at /\ o.at + o.size <= Top(o.area)
               /\ Base(o.area) \in Nat /\ Top(o.area) \in Nat
    <3>1. /\ o.area \in AllAreas /\ o.at \in Nat /\ o.size \in Nat
          /\ Base(o.area) <= o.at /\ o.at + o.size <= fill[o.area]
      BY DEF Laid
    <3>2. fill[o.area] \in Nat /\ Top(o.area) \in Nat /\ fill[o.area] <= Top(o.area)
          /\ Base(o.area) \in Nat
      BY <1>1, <3>1
    <3> QED
      BY <3>1, <3>2
  <2> QED
    BY <2>1
<1>4. ASSUME NEW a \in AllAreas
      PROVE  Top(a) <= FileBytes(file)
  BY <1>1, <1>2, <1>4, AreaNames, SMTT(30)
<1>5. \A a, b \in AllAreas : a # b => Top(a) <= Base(b) \/ Top(b) <= Base(a)
  BY AreasApart
<1>6. ASSUME NEW o \in W
      PROVE  o.at + o.size <= FileBytes(file)
  <2>1. o.at + o.size \in Nat /\ o.at + o.size <= Top(o.area) /\ Top(o.area) <= FileBytes(file)
    BY <1>3, <1>4
  <2> QED
    BY <1>1, <1>2, <1>3, <2>1
<1>7. ASSUME NEW o \in W, NEW p \in W \ {o}
      PROVE  o.at + o.size <= p.at \/ p.at + p.size <= o.at
  <2>1. CASE o.area = p.area
    BY <1>7, <2>1 DEF Laid, Apart
  <2>2. CASE o.area # p.area
    <3>1. Top(o.area) <= Base(p.area) \/ Top(p.area) <= Base(o.area)
      BY <1>3, <1>5, <2>2
    <3>2. /\ o.at \in Nat /\ o.size \in Nat /\ p.at \in Nat /\ p.size \in Nat
          /\ Base(o.area) \in Nat /\ Top(o.area) \in Nat /\ Base(p.area) \in Nat /\ Top(p.area) \in Nat
          /\ Base(o.area) <= o.at /\ o.at + o.size <= Top(o.area)
          /\ Base(p.area) <= p.at /\ p.at + p.size <= Top(p.area)
      BY <1>3
    <3> QED
      BY <3>1, <3>2
  <2> QED
    BY <2>1, <2>2
<1> QED
  BY <1>6, <1>7

-----------------------------------------------------------------------------
(* The steps.                                                              *)

LEMMA StepLaid ==
    ASSUME WInv, file' = file, cursor' \in [Areas -> Nat], local' \in [TBAreas -> Nat],
           NEW N, written' = written \cup N,
           Added(N, Fill, FillAt(pc', cursor', local'))
    PROVE  Laid(written, Fill)'
<1>1. file \in Seq(Seq(TBShape)) /\ Laid(written, Fill) /\ Places
  BY DEF WInv, Places
<1>2. Fill \in [AllAreas -> Nat]
  BY <1>1, FillBounds
<1> DEFINE filled == FillAt(pc', cursor', local')
<1>3. filled \in [AllAreas -> Nat]
  BY <1>1, FillValues
<1>4. Added(N, Fill, filled)
  OBVIOUS
<1> HIDE DEF filled
<1>5. Laid(written \cup N, filled)
  BY <1>1, <1>2, <1>3, <1>4, LaidGrows
<1> QED
  BY <1>5, SameFile DEF filled

(* What Added asks, area by area.                                          *)
LEMMA AddedWhen ==
    ASSUME WInv, NEW N, NEW filled,
           Fill["header"] <= filled["header"], Fill["segment"] <= filled["segment"],
           Fill["name"] <= filled["name"], \A a \in TBAreas : Fill[a] <= filled[a],
           \A o \in N : /\ o.area \in AllAreas /\ o.at \in Nat /\ o.size \in Nat
                        /\ Fill[o.area] <= o.at /\ o.at + o.size <= filled[o.area],
           \A o, p \in N : o # p /\ o.area = p.area => Apart(o, p)
    PROVE  Added(N, Fill, filled)
<1>1. \A a \in AllAreas : Base(a) <= Fill[a]
  BY FillBounds DEF WInv
<1>2. \A a \in AllAreas : Fill[a] <= filled[a]
  BY DEF AllAreas, Areas, TBAreas
<1> QED
  BY <1>1, <1>2 DEF Added

LEMMA ObjectFields ==
    \A area, at, size, of, fields :
        LET o == Object(area, at, size, of, fields)
        IN  o.area = area /\ o.at = at /\ o.size = size /\ o.of = of
BY DEF Object

LEMMA InitHolds ==
    ASSUME Init
    PROVE  WInv
<1>1. /\ file \in Seq(Seq(TBShape)) /\ Len(file) \in Nat \ {0}
      /\ pc = "names" /\ s = 1
  <2>1. file \in Seq(Seq(TBShape)) /\ file # <<>>
    <3>1. PICK f \in Files : file = f.segs
      BY DEF Init
    <3> QED
      BY <3>1, FilesAssumption
  <2>2. Len(file) \in Nat /\ Len(file) # 0
    BY <2>1, LenProperties, EmptySeq
  <2> QED
    BY <2>1, <2>2 DEF Init
<1>2. Names \in Nat /\ \A a \in AllAreas : Base(a) \in Nat
  BY <1>1, Layout, AreaNames
<1>3. /\ cursor \in [Areas -> Nat] /\ local \in [TBAreas -> Nat]
      /\ cursor["segment"] = HeaderSize /\ cursor["name"] = Names
  <2>1. cursor = [a \in Areas |-> IF a = "segment" THEN HeaderSize ELSE Names]
    BY DEF Init, Names
  <2>2. local = [a \in TBAreas |-> 0]
    BY DEF Init
  <2>3. "segment" \in Areas /\ "name" \in Areas /\ "name" # "segment"
    BY DEF Areas
  <2> QED
    BY <1>2, <2>1, <2>2, <2>3, SizesAreNat
<1>4. Names + (1 - 1) * NameSize = Names
  BY <1>2, SizesAreNat
<1>5. Places
  BY <1>1, <1>3, <1>4 DEF Places
<1>6. Fill["header"] = HeaderSize
  BY <1>1, <1>3, FillValues DEF Fill
<1>7. Laid(written, Fill)
  <2> DEFINE o == Object("header", 0, HeaderSize, <<>>, <<>>)
  <2>1. written = {o}
    BY DEF Init
  <2>2. o.area = "header" /\ o.at = 0 /\ o.size = HeaderSize
    BY ObjectFields
  <2> HIDE DEF o
  <2>3. 0 + HeaderSize <= HeaderSize /\ 0 <= 0
    BY SizesAreNat
  <2> QED
    BY <1>6, <2>1, <2>2, <2>3, AreaNames, SizesAreNat DEF Laid
<1> QED
  BY <1>5, <1>7 DEF WInv

(* What the invariant says of Fill, with its types.                        *)
LEMMA Now ==
    ASSUME WInv
    PROVE  /\ file \in Seq(Seq(TBShape)) /\ Len(file) \in Nat /\ s \in 1..Len(file)
           /\ cursor \in [Areas -> Nat] /\ local \in [TBAreas -> Nat]
           /\ cursor["segment"] \in Nat /\ cursor["name"] \in Nat
           /\ \A a \in TBAreas : local[a] \in Nat /\ cursor[a] \in Nat /\ Base(a) \in Nat
           /\ Fill["header"] = HeaderSize
           /\ Fill["segment"] = IF pc = "tbs" THEN cursor["segment"] + SegmentSize
                                ELSE cursor["segment"]
           /\ Fill["name"] = cursor["name"]
           /\ TBsFilled(Fill, pc, cursor, local)
<1>1. /\ file \in Seq(Seq(TBShape)) /\ s \in 1..Len(file)
      /\ cursor \in [Areas -> Nat] /\ local \in [TBAreas -> Nat]
  BY DEF WInv, Places
<1>2. Len(file) \in Nat
  BY <1>1, ToFacts
<1>3. /\ cursor["segment"] \in Nat /\ cursor["name"] \in Nat
      /\ \A a \in TBAreas : local[a] \in Nat /\ cursor[a] \in Nat /\ a \in AllAreas
  BY <1>1 DEF Areas, TBAreas, AllAreas
<1>4. \A a \in TBAreas : Base(a) \in Nat
  BY <1>1, <1>3, Layout
<1>5. /\ Fill["header"] = HeaderSize
      /\ Fill["name"] = cursor["name"]
  BY <1>1, FillValues DEF Fill
<1>6. Fill["segment"] = IF pc = "tbs" THEN cursor["segment"] + SegmentSize
                        ELSE cursor["segment"]
  BY <1>1, FillValues DEF Fill
<1>7. TBsFilled(Fill, pc, cursor, local)
  BY <1>1, FillValues DEF Fill
<1> QED
  BY <1>1, <1>2, <1>3, <1>4, <1>5, <1>6, <1>7

(* Likewise of the state a step leads to.                                  *)
LEMMA Then ==
    ASSUME file \in Seq(Seq(TBShape)),
           cursor' \in [Areas -> Nat], local' \in [TBAreas -> Nat],
           NEW filled, filled = FillAt(pc', cursor', local')
    PROVE  /\ filled["header"] = HeaderSize
           /\ filled["segment"] = IF pc' = "tbs" THEN cursor'["segment"] + SegmentSize
                                  ELSE cursor'["segment"]
           /\ filled["name"] = cursor'["name"]
           /\ TBsFilled(filled, pc', cursor', local')
<1>1. /\ filled["header"] = HeaderSize
      /\ filled["name"] = cursor'["name"]
  BY FillValues
<1>2. filled["segment"] = IF pc' = "tbs" THEN cursor'["segment"] + SegmentSize
                          ELSE cursor'["segment"]
  BY FillValues
<1>3. TBsFilled(filled, pc', cursor', local')
  BY FillValues
<1> QED
  BY <1>1, <1>2, <1>3

(* A name and its NUL fit into its area.                                   *)
NamesFit == names \in [1..Len(file) -> 0..NameSize - 1]

LEMMA NamesAlwaysFit == Spec => []NamesFit
<1>1. Init => NamesFit
  BY FilesAssumption DEF Init, NamesFit
<1>2. NamesFit /\ [Next]_vars => NamesFit'
  BY DEF NamesFit, Next, vars, WriteName, WriteSegment, WriteTB, EndSegment
<1> QED
  BY <1>1, <1>2, PTL DEF Spec

LEMMA NameFits ==
    ASSUME NamesFit, NEW i \in 1..Len(file)
    PROVE  names[i] \in Nat /\ names[i] + 1 \in Nat /\ names[i] + 1 <= NameSize
<1>1. names[i] \in 0..NameSize - 1
  BY DEF NamesFit
<1> QED
  BY <1>1, SizesAreNat

LEMMA NameKeeps ==
    ASSUME WInv, NamesFit, WriteName
    PROVE  WInv'
<1> DEFINE n == Len(file)
           o == Object("name", cursor["name"], names[s] + 1, <<s>>, <<>>)
           filled == FillAt(pc', cursor', local')
<1>1. /\ file \in Seq(Seq(TBShape)) /\ n \in Nat /\ s \in 1..n
      /\ cursor \in [Areas -> Nat] /\ local \in [TBAreas -> Nat]
      /\ cursor["segment"] \in Nat /\ cursor["name"] \in Nat
      /\ \A a \in TBAreas : Base(a) \in Nat
  BY Now
<1>2. /\ pc = "names" /\ file' = file /\ local' = local /\ written' = written \cup {o}
  BY DEF WriteName
<1>3. cursor["segment"] = HeaderSize /\ cursor["name"] = Names + (s - 1) * NameSize
  BY <1>2 DEF WInv, Places
<1>4. Names \in Nat /\ TBTab \in Nat /\ RelTab \in Nat /\ CodeTab \in Nat
  BY <1>1, Layout, AreaNames
<1>5. cursor["name"] + NameSize = Names + s * NameSize
  <2>1. s - 1 \in Nat /\ (s - 1) + 1 = s
    BY <1>1
  <2>2. s * NameSize = (s - 1) * NameSize + NameSize /\ (s - 1) * NameSize \in Nat
    <3> DEFINE x == s - 1
    <3>1. (x + 1) * NameSize = x * NameSize + NameSize /\ x * NameSize \in Nat
      BY <2>1, SizesAreNat, Products
    <3> QED
      BY <2>1, <3>1
  <2>3. \A x, y, z \in Nat : (x + y) + z = x + (y + z)
    OBVIOUS
  <2> QED
    BY <1>3, <1>4, <2>2, <2>3, SizesAreNat
<1>6. CASE s < n
  <2>1. /\ s' = s + 1 /\ pc' = "names"
        /\ cursor' = [cursor EXCEPT !["name"] = @ + NameSize]
    BY <1>2, <1>6 DEF WriteName
  <2>2. "name" \in Areas /\ "segment" \in Areas /\ "segment" # "name"
    BY DEF Areas
  <2>3. /\ cursor' \in [Areas -> Nat] /\ local' \in [TBAreas -> Nat]
        /\ cursor'["name"] = cursor["name"] + NameSize
        /\ cursor'["segment"] = cursor["segment"]
    BY <1>1, <1>2, <2>1, <2>2, SizesAreNat
  <2>4. s + 1 \in 1..n /\ (s + 1) - 1 = s
    BY <1>1, <1>6
  <2>5. Places'
    <3>1. /\ file' \in Seq(Seq(TBShape)) /\ pc' = "names" /\ s' \in 1..Len(file')
          /\ cursor'["segment"] = HeaderSize /\ cursor'["name"] = Names' + (s' - 1) * NameSize
      BY <1>1, <1>2, <1>3, <1>5, <2>1, <2>3, <2>4, SameFile
    <3> QED
      BY <2>3, <3>1 DEF Places
  <2>6. Added({o}, Fill, filled)
    <3>1. /\ Fill["header"] = HeaderSize /\ Fill["segment"] = cursor["segment"]
          /\ Fill["name"] = cursor["name"] /\ TBsFilled(Fill, pc, cursor, local)
      BY <1>2, Now
    <3>2. /\ filled["header"] = HeaderSize /\ filled["segment"] = cursor'["segment"]
          /\ filled["name"] = cursor'["name"] /\ TBsFilled(filled, pc', cursor', local')
      BY <1>1, <2>1, <2>3, Then
    <3> HIDE DEF filled
    <3>3. \A a \in TBAreas : Fill[a] = Base(a) /\ filled[a] = Base(a)
      BY <1>2, <2>1, <3>1, <3>2 DEF TBsFilled
    <3>4. /\ o.area = "name" /\ o.at = cursor["name"] /\ o.size \in Nat
          /\ o.size <= NameSize
      BY <1>1, NameFits, ObjectFields
    <3> HIDE DEF o
    <3>5. cursor["name"] <= cursor["name"] + NameSize
      BY <1>1, SizesAreNat
    <3>6. \A x \in Nat : x <= x
      OBVIOUS
    <3>8. /\ Fill["header"] <= filled["header"] /\ Fill["segment"] <= filled["segment"]
          /\ Fill["name"] <= filled["name"] /\ cursor["name"] + NameSize <= filled["name"]
      BY <1>1, <2>3, <3>1, <3>2, <3>5, <3>6, SizesAreNat
    <3>9. \A a \in TBAreas : Fill[a] <= filled[a]
      BY <1>1, <3>3, <3>6
    <3>10. \A x \in {o} : /\ x.area \in AllAreas /\ x.at \in Nat /\ x.size \in Nat
                           /\ Fill[x.area] <= x.at /\ x.at + x.size <= filled[x.area]
      <4>1. o.at + o.size <= cursor["name"] + NameSize /\ filled["name"] \in Nat
        BY <1>1, <2>3, <3>2, <3>4, SizesAreNat
      <4>2. o.at + o.size <= filled["name"]
        BY <1>1, <3>4, <3>8, <4>1, SizesAreNat
      <4> QED
        BY <1>1, <3>1, <3>4, <3>6, <4>2, AreaNames
    <3>11. \A x, y \in {o} : x # y /\ x.area = y.area => Apart(x, y)
      OBVIOUS
    <3> QED
      BY <3>8, <3>9, <3>10, <3>11, AddedWhen
  <2> HIDE DEF o, filled
  <2> QED
    BY <1>2, <2>3, <2>5, <2>6, StepLaid DEF WInv, filled
<1>7. CASE ~ (s < n)
  <2> DEFINE tb   == cursor["name"] + NameSize
             rel  == tb + SumOver(Len, file) * TBSize
             code == rel + SumOver(SegRels, file) * RelSize
  <2>1. /\ s' = 1 /\ pc' = "segment"
        /\ cursor' = [cursor EXCEPT !["name"] = tb, !["tb"] = tb, !["rel"] = rel, !["code"] = code]
    BY <1>2, <1>7 DEF WriteName
  <2>2. tb = TBTab
    <3>1. s = n
      BY <1>1, <1>7
    <3> QED
      BY <1>5, <3>1 DEF TBTab
  <2>3. rel = RelTab /\ code = CodeTab
    <3>1. SumOver(Len, file) = TBsTo(n) /\ SumOver(SegRels, file) = RelsTo(n)
      BY <1>1, FileNumbers
    <3> QED
      BY <2>2, <3>1 DEF RelTab, CodeTab
  <2> HIDE DEF tb, rel, code
  <2>4. /\ "name" \in Areas /\ "segment" \in Areas /\ "tb" \in Areas /\ "rel" \in Areas
        /\ "code" \in Areas
    BY DEF Areas
  <2>5. /\ cursor' \in [Areas -> Nat] /\ local' \in [TBAreas -> Nat]
        /\ cursor'["name"] = TBTab /\ cursor'["segment"] = HeaderSize
        /\ cursor'["tb"] = TBTab /\ cursor'["rel"] = RelTab /\ cursor'["code"] = CodeTab
    BY <1>1, <1>2, <1>3, <1>4, <2>1, <2>2, <2>3, <2>4
  <2>6. CursorAt(cursor', 0)
    <3>1. TBsTo(0) = 0 /\ RelsTo(0) = 0 /\ CodeTo(0) = 0
      BY <1>1, ToFacts
    <3>2. \A x, y \in Nat : x + 0 * y = x /\ x + 0 = x
      OBVIOUS
    <3> QED
      BY <1>4, <2>5, <3>1, <3>2, SizesAreNat DEF CursorAt
  <2>7. Places'
    <3>1. Done' = 0 /\ s' \in 1..Len(file') /\ pc' = "segment"
      BY <1>1, <1>2, <2>1 DEF Done
    <3>2. CursorAt(cursor, Done)'
      BY <1>2, <2>6, <3>1, SamePlaces
    <3> QED
      BY <1>1, <1>2, <2>5, <3>1, <3>2 DEF Places
  <2>8. Added({o}, Fill, filled)
    <3>1. /\ Fill["header"] = HeaderSize /\ Fill["segment"] = cursor["segment"]
          /\ Fill["name"] = cursor["name"] /\ TBsFilled(Fill, pc, cursor, local)
      BY <1>2, Now
    <3>2. /\ filled["header"] = HeaderSize /\ filled["segment"] = cursor'["segment"]
          /\ filled["name"] = cursor'["name"] /\ TBsFilled(filled, pc', cursor', local')
      BY <1>1, <2>1, <2>5, Then
    <3> HIDE DEF filled
    <3>3. \A a \in TBAreas : Fill[a] = Base(a) /\ filled[a] = Base(a)
      BY <1>2, <2>1, <2>5, <3>1, <3>2, AreaNames DEF TBsFilled, TBAreas
    <3>4. /\ o.area = "name" /\ o.at = cursor["name"] /\ o.size \in Nat
          /\ o.size <= NameSize
      BY <1>1, NameFits, ObjectFields
    <3> HIDE DEF o
    <3>5. cursor["name"] <= cursor["name"] + NameSize /\ cursor["name"] + NameSize = TBTab
      BY <1>1, <2>2, SizesAreNat DEF tb
    <3>6. \A x \in Nat : x <= x
      OBVIOUS
    <3>7. cursor["name"] <= TBTab
      BY <3>5
    <3>8. /\ Fill["header"] <= filled["header"] /\ Fill["segment"] <= filled["segment"]
          /\ Fill["name"] <= filled["name"] /\ cursor["name"] + NameSize <= filled["name"]
      BY <1>1, <1>3, <2>5, <3>1, <3>2, <3>5, <3>6, <3>7, SizesAreNat
    <3>9. \A a \in TBAreas : Fill[a] <= filled[a]
      BY <1>1, <3>3, <3>6
    <3>10. \A x \in {o} : /\ x.area \in AllAreas /\ x.at \in Nat /\ x.size \in Nat
                           /\ Fill[x.area] <= x.at /\ x.at + x.size <= filled[x.area]
      <4>1. o.at + o.size <= cursor["name"] + NameSize /\ filled["name"] \in Nat
        BY <1>1, <1>4, <2>5, <3>2, <3>4, SizesAreNat
      <4>2. o.at + o.size <= filled["name"]
        BY <1>1, <3>4, <3>8, <4>1, SizesAreNat
      <4> QED
        BY <1>1, <3>1, <3>4, <3>6, <4>2, AreaNames
    <3>11. \A x, y \in {o} : x # y /\ x.area = y.area => Apart(x, y)
      OBVIOUS
    <3> QED
      BY <3>8, <3>9, <3>10, <3>11, AddedWhen
  <2> HIDE DEF o, filled
  <2> QED
    BY <1>2, <2>5, <2>7, <2>8, StepLaid DEF WInv, filled
<1> QED
  BY <1>6, <1>7

LEMMA SegmentKeeps ==
    ASSUME WInv, WriteSegment
    PROVE  WInv'
<1> DEFINE fields == [name |-> NameAt(s),
                      tbs |-> cursor["tb"], num |-> Len(file[s])]
           o == Object("segment", cursor["segment"], SegmentData, <<s>>, fields)
           filled == FillAt(pc', cursor', local')
<1>1. /\ file \in Seq(Seq(TBShape)) /\ Len(file) \in Nat /\ s \in 1..Len(file)
      /\ cursor \in [Areas -> Nat] /\ local \in [TBAreas -> Nat]
      /\ cursor["segment"] \in Nat /\ cursor["name"] \in Nat
      /\ \A a \in TBAreas : cursor[a] \in Nat
  BY Now
<1>2. /\ pc = "segment" /\ pc' = "tbs" /\ file' = file /\ cursor' = cursor /\ s' = s /\ k' = 1
      /\ local' = [a \in TBAreas |-> cursor[a]] /\ written' = written \cup {o}
  BY DEF WriteSegment
<1>3. /\ cursor' \in [Areas -> Nat] /\ local' \in [TBAreas -> Nat]
      /\ \A a \in TBAreas : local'[a] = cursor[a]
  BY <1>1, <1>2
<1>4. Places'
  <2>1. CursorAt(cursor, Done) /\ Done = s - 1
    BY <1>2 DEF WInv, Places, Done
  <2>2. Done' = s - 1
    BY <1>2 DEF Done
  <2>3. CursorAt(cursor, Done)'
    <3>1. CursorAt(cursor', Done')
      BY <1>2, <2>1, <2>2
    <3> QED
      BY <1>2, <3>1, SamePlaces
  <2>4. RelsIn(s, 0) = 0 /\ CodeIn(s, 0) = 0 /\ Len(file[s]) \in Nat
    BY <1>1, InFacts
  <2>5. LocalAt(local', cursor', s, 0)
    <3>1. "tb" \in TBAreas /\ "rel" \in TBAreas /\ "code" \in TBAreas
      BY DEF TBAreas
    <3>2. \A x, y \in Nat : x + 0 * y = x /\ x + 0 = x
      OBVIOUS
    <3> QED
      BY <1>1, <1>2, <1>3, <2>4, <3>1, <3>2, SizesAreNat DEF LocalAt
  <2>6. LocalAt(local, cursor, s, k - 1)'
    <3>1. k' - 1 = 0
      BY <1>2
    <3>2. LocalAt(local', cursor', s', k' - 1)
      BY <1>2, <2>5, <3>1
    <3> QED
      BY <1>2, <3>2, SamePlaces
  <2>7. 1 \in 1..Len(file[s]) + 1
    BY <2>4
  <2> QED
    BY <1>1, <1>2, <1>3, <2>3, <2>6, <2>7 DEF Places
<1>5. Added({o}, Fill, filled)
  <2>1. /\ Fill["header"] = HeaderSize /\ Fill["segment"] = cursor["segment"]
        /\ Fill["name"] = cursor["name"] /\ TBsFilled(Fill, pc, cursor, local)
    BY <1>2, Now
  <2>2. /\ filled["header"] = HeaderSize /\ filled["segment"] = cursor["segment"] + SegmentSize
        /\ filled["name"] = cursor["name"] /\ TBsFilled(filled, pc', cursor', local')
    BY <1>1, <1>2, <1>3, Then
  <2> HIDE DEF filled
  <2>3. \A a \in TBAreas : Fill[a] = cursor[a] /\ filled[a] = cursor[a]
    BY <1>2, <1>3, <2>1, <2>2 DEF TBsFilled
  <2>4. o.area = "segment" /\ o.at = cursor["segment"] /\ o.size = SegmentData
    BY ObjectFields
  <2> HIDE DEF o
  <2>5. /\ cursor["segment"] <= cursor["segment"] + SegmentSize
        /\ cursor["segment"] + SegmentData <= cursor["segment"] + SegmentSize
    BY <1>1, SizesAreNat
  <2>6. \A x \in Nat : x <= x
    OBVIOUS
  <2>7. cursor["segment"] + SegmentSize \in Nat
    BY <1>1, SizesAreNat
  <2>8. /\ Fill["header"] <= filled["header"] /\ Fill["segment"] <= filled["segment"]
        /\ Fill["name"] <= filled["name"]
    BY <1>1, <2>1, <2>2, <2>5, <2>6, SizesAreNat
  <2>9. \A a \in TBAreas : Fill[a] <= filled[a]
    BY <1>1, <2>3, <2>6
  <2>10. \A x \in {o} : /\ x.area \in AllAreas /\ x.at \in Nat /\ x.size \in Nat
                        /\ Fill[x.area] <= x.at /\ x.at + x.size <= filled[x.area]
    BY <1>1, <2>1, <2>2, <2>4, <2>5, <2>6, <2>7, AreaNames, SizesAreNat
  <2>11. \A x, y \in {o} : x # y /\ x.area = y.area => Apart(x, y)
    OBVIOUS
  <2> QED
    BY <2>8, <2>9, <2>10, <2>11, AddedWhen
<1> HIDE DEF o, filled
<1> QED
  BY <1>2, <1>3, <1>4, <1>5, StepLaid DEF WInv, filled

LEMMA EndKeeps ==
    ASSUME WInv, EndSegment
    PROVE  WInv'
<1> DEFINE n == Len(file)
           seg == file[s]
           filled == FillAt(pc', cursor', local')
<1>1. /\ file \in Seq(Seq(TBShape)) /\ n \in Nat /\ s \in 1..n
      /\ cursor \in [Areas -> Nat] /\ local \in [TBAreas -> Nat]
      /\ cursor["segment"] \in Nat /\ cursor["name"] \in Nat
      /\ \A a \in TBAreas : cursor[a] \in Nat
  BY Now
<1>2. /\ pc = "tbs" /\ pc' \in {"segment", "done"} /\ file' = file /\ local' = local
      /\ cursor' = PassSegment(cursor, seg) /\ written' = written
      /\ s' \in 1..n /\ Done' = s
  <2>1. /\ pc = "tbs" /\ file' = file /\ local' = local
        /\ cursor' = PassSegment(cursor, seg) /\ written' = written
    BY DEF EndSegment
  <2>2. CASE s < n
    <3>1. s' = s + 1 /\ pc' = "segment"
      BY <2>2 DEF EndSegment
    <3>2. s + 1 \in 1..n /\ (s + 1) - 1 = s
      BY <1>1, <2>2
    <3> QED
      BY <2>1, <3>1, <3>2 DEF Done
  <2>3. CASE ~ (s < n)
    <3>1. s' = s /\ pc' = "done" /\ s = n
      BY <1>1, <2>3 DEF EndSegment
    <3> QED
      BY <1>1, <2>1, <3>1 DEF Done
  <2> QED
    BY <2>2, <2>3
<1>3. k > Len(seg) /\ k \in 1..Len(seg) + 1 /\ CursorAt(cursor, s - 1)
      /\ LocalAt(local, cursor, s, k - 1)
  BY <1>2 DEF WInv, Places, Done, EndSegment
<1>4. /\ Len(seg) \in Nat /\ SegRels(seg) \in Nat /\ SegCode(seg) \in Nat
      /\ RelsIn(s, Len(seg)) = SegRels(seg) /\ CodeIn(s, Len(seg)) = SegCode(seg)
  BY <1>1, InFacts
<1>5. k - 1 = Len(seg)
  <2> HIDE DEF seg
  <2> QED
    BY <1>3, <1>4
<1> HIDE DEF seg
<1>6. /\ Len(seg) * TBSize \in Nat /\ SegRels(seg) * RelSize \in Nat
  BY <1>4, SizesAreNat, Products
<1>7. /\ cursor' \in [Areas -> Nat] /\ local' \in [TBAreas -> Nat]
      /\ cursor'["segment"] = cursor["segment"] + SegmentSize
      /\ cursor'["name"] = cursor["name"]
      /\ cursor'["tb"] = cursor["tb"] + Len(seg) * TBSize
      /\ cursor'["rel"] = cursor["rel"] + SegRels(seg) * RelSize
      /\ cursor'["code"] = cursor["code"] + SegCode(seg)
  <2> DEFINE a == Len(seg) * TBSize
             b == SegRels(seg) * RelSize
             c == SegCode(seg)
  <2>1. a \in Nat /\ b \in Nat /\ c \in Nat
    BY <1>4, <1>6
  <2>2. cursor' = [cursor EXCEPT !["segment"] = @ + SegmentSize, !["tb"] = @ + a,
                                 !["rel"] = @ + b, !["code"] = @ + c]
    BY <1>2 DEF PassSegment
  <2> HIDE DEF a, b, c
  <2>3. /\ "name" \in Areas /\ "segment" \in Areas /\ "tb" \in Areas /\ "rel" \in Areas
        /\ "code" \in Areas
    BY DEF Areas
  <2>4. /\ cursor["segment"] + SegmentSize \in Nat /\ cursor["tb"] + a \in Nat
        /\ cursor["rel"] + b \in Nat /\ cursor["code"] + c \in Nat
    <3>1. \A x, y \in Nat : x + y \in Nat
      OBVIOUS
    <3>2. cursor["tb"] \in Nat /\ cursor["rel"] \in Nat /\ cursor["code"] \in Nat
      BY <1>1, <2>3
    <3> QED
      BY <1>1, <2>1, <3>1, <3>2, SizesAreNat
  <2>5. cursor' \in [Areas -> Nat]
    BY <1>1, <2>2, <2>4
  <2> QED
    BY <1>1, <1>2, <2>2, <2>3, <2>5 DEF a, b, c
<1>8. local["tb"] = cursor'["tb"] /\ local["rel"] = cursor'["rel"] /\ local["code"] = cursor'["code"]
  BY <1>3, <1>4, <1>5, <1>7 DEF LocalAt
<1>9. CursorAt(cursor', s)
  <2> DEFINE d == s - 1
  <2>1. d \in Nat /\ d \in 0..n /\ d + 1 = s
    BY <1>1
  <2>2. /\ TBsTo(d) \in Nat /\ RelsTo(d) \in Nat /\ CodeTo(d) \in Nat
    BY <1>1, <2>1, ToFacts
  <2>3. /\ TBsTo(s) = TBsTo(d) + Len(seg) /\ RelsTo(s) = RelsTo(d) + SegRels(seg)
        /\ CodeTo(s) = CodeTo(d) + SegCode(seg)
    BY <1>1, ToFacts DEF seg
  <2>4. CursorAt(cursor, d)
    BY <1>3
  <2> HIDE DEF d
  <2>5. TBTab \in Nat /\ RelTab \in Nat /\ CodeTab \in Nat
    BY <1>1, Layout, AreaNames
  <2>6. \A x, y, z \in Nat : (x + y) + z = x + (y + z)
    OBVIOUS
  <2>7. cursor'["segment"] = HeaderSize + s * SegmentSize
    <3>1. (d + 1) * SegmentSize = d * SegmentSize + SegmentSize /\ d * SegmentSize \in Nat
      BY <2>1, SizesAreNat, Products
    <3>2. cursor["segment"] = HeaderSize + d * SegmentSize
      BY <2>4 DEF CursorAt
    <3>3. (HeaderSize + d * SegmentSize) + SegmentSize = HeaderSize + (d * SegmentSize + SegmentSize)
      BY <2>6, <3>1, SizesAreNat
    <3> QED
      BY <1>7, <2>1, <3>1, <3>2, <3>3
  <2>8. cursor'["tb"] = TBTab + TBsTo(s) * TBSize
    <3>1. (TBsTo(d) + Len(seg)) * TBSize = TBsTo(d) * TBSize + Len(seg) * TBSize
          /\ TBsTo(d) * TBSize \in Nat
      BY <1>4, <2>2, SizesAreNat, Products
    <3>2. cursor["tb"] = TBTab + TBsTo(d) * TBSize
      BY <2>4 DEF CursorAt
    <3>3. (TBTab + TBsTo(d) * TBSize) + Len(seg) * TBSize = TBTab + (TBsTo(d) * TBSize + Len(seg) * TBSize)
      BY <1>6, <2>5, <2>6, <3>1
    <3> QED
      BY <1>7, <2>3, <3>1, <3>2, <3>3
  <2>9. cursor'["rel"] = RelTab + RelsTo(s) * RelSize
    <3>1. (RelsTo(d) + SegRels(seg)) * RelSize = RelsTo(d) * RelSize + SegRels(seg) * RelSize
          /\ RelsTo(d) * RelSize \in Nat
      BY <1>4, <2>2, SizesAreNat, Products
    <3>2. cursor["rel"] = RelTab + RelsTo(d) * RelSize
      BY <2>4 DEF CursorAt
    <3>3. (RelTab + RelsTo(d) * RelSize) + SegRels(seg) * RelSize
            = RelTab + (RelsTo(d) * RelSize + SegRels(seg) * RelSize)
      BY <1>6, <2>5, <2>6, <3>1
    <3> QED
      BY <1>7, <2>3, <3>1, <3>2, <3>3
  <2>10. cursor'["code"] = CodeTab + CodeTo(s)
    <3>1. cursor["code"] = CodeTab + CodeTo(d)
      BY <2>4 DEF CursorAt
    <3>2. (CodeTab + CodeTo(d)) + SegCode(seg) = CodeTab + (CodeTo(d) + SegCode(seg))
      BY <1>4, <2>2, <2>5, <2>6
    <3> QED
      BY <1>7, <2>3, <3>1, <3>2
  <2>11. cursor'["name"] = TBTab
    BY <1>7, <2>4 DEF CursorAt
  <2> QED
    BY <2>7, <2>8, <2>9, <2>10, <2>11 DEF CursorAt
<1>10. Places'
  <2>1. CursorAt(cursor, Done)'
    BY <1>2, <1>9, SamePlaces
  <2>2. pc' # "names" /\ pc' # "tbs"
    BY <1>2
  <2> QED
    BY <1>1, <1>2, <1>7, <2>1, <2>2 DEF Places
<1>11. Added({}, Fill, filled)
  <2>1. /\ Fill["header"] = HeaderSize /\ Fill["segment"] = cursor["segment"] + SegmentSize
        /\ Fill["name"] = cursor["name"] /\ TBsFilled(Fill, pc, cursor, local)
    BY <1>2, Now
  <2>2. /\ filled["header"] = HeaderSize /\ filled["segment"] = cursor'["segment"]
        /\ filled["name"] = cursor'["name"] /\ TBsFilled(filled, pc', cursor', local')
    <3>1. pc' # "tbs"
      BY <1>2
    <3> QED
      BY <1>1, <1>7, <3>1, Then
  <2> HIDE DEF filled
  <2>3. \A a \in TBAreas : Fill[a] = cursor'[a] /\ filled[a] = cursor'[a]
    BY <1>2, <1>8, <2>1, <2>2 DEF TBsFilled, TBAreas
  <2>4. \A a \in TBAreas : cursor'[a] \in Nat
    BY <1>7 DEF TBAreas, Areas
  <2>5. \A x \in Nat : x <= x
    OBVIOUS
  <2>6. cursor["segment"] + SegmentSize \in Nat
    BY <1>1, SizesAreNat
  <2>7. /\ Fill["header"] <= filled["header"] /\ Fill["segment"] <= filled["segment"]
        /\ Fill["name"] <= filled["name"]
    BY <1>1, <1>7, <2>1, <2>2, <2>5, <2>6, SizesAreNat
  <2>8. \A a \in TBAreas : Fill[a] <= filled[a]
    BY <2>3, <2>4, <2>5
  <2> QED
    BY <2>7, <2>8, AddedWhen
<1>12. written' = written \cup {}
  BY <1>2
<1> HIDE DEF filled
<1> QED
  BY <1>2, <1>7, <1>10, <1>11, <1>12, StepLaid DEF WInv, filled

LEMMA TBKeeps ==
    ASSUME WInv, WriteTB
    PROVE  WInv'
<1> DEFINE tb    == file[s][k]
           valid == ValidRels(tb)
           m     == HowManyRel(tb)
           code  == HowManyCode(tb)
           range == RelRange(relCurIndex, Len(valid))
           oTB   == Object("tb", local["tb"], TBSize, <<s, k>>,
                           [code |-> local["code"], size |-> code,
                            start |-> range.start, end |-> range.end])
           oCode == Object("code", local["code"], code, <<s, k>>, <<>>)
           oRel(j) == Object("rel", local["rel"] + (j - 1) * RelSize, RelSize,
                             <<s, k, valid[j]>>, <<>>)
           N     == {oTB} \cup {oCode} \cup {oRel(j) : j \in 1..m}
           filled == FillAt(pc', cursor', local')
<1>1. /\ file \in Seq(Seq(TBShape)) /\ s \in 1..Len(file)
      /\ cursor \in [Areas -> Nat] /\ local \in [TBAreas -> Nat]
      /\ cursor["segment"] \in Nat /\ cursor["name"] \in Nat
      /\ \A a \in TBAreas : local[a] \in Nat
  BY Now
<1>2. "tb" \in TBAreas /\ "rel" \in TBAreas /\ "code" \in TBAreas
  BY DEF TBAreas
<1>3. local["tb"] \in Nat /\ local["rel"] \in Nat /\ local["code"] \in Nat
  BY <1>1, <1>2
<1>4. /\ k \in 1..Len(file[s]) + 1 /\ k <= Len(file[s]) /\ Len(file[s]) \in Nat
      /\ CursorAt(cursor, s - 1) /\ LocalAt(local, cursor, s, k - 1)
      /\ pc = "tbs"
  BY <1>1, InFacts DEF WInv, Places, Done, WriteTB
<1>5. /\ k \in 1..Len(file[s]) /\ k - 1 \in 0..Len(file[s]) /\ k - 1 \in Nat
      /\ (k - 1) + 1 = k /\ (k + 1) - 1 = k /\ k + 1 \in 1..Len(file[s]) + 1
  BY <1>4
<1>6. /\ tb \in TBShape
      /\ RelsIn(s, k) = RelsIn(s, k - 1) + m
      /\ CodeIn(s, k) = CodeIn(s, k - 1) + code
      /\ RelsIn(s, k - 1) \in Nat /\ CodeIn(s, k - 1) \in Nat
  <2>1. tb \in TBShape /\ RelsIn(s, k) = RelsIn(s, k - 1) + m
        /\ CodeIn(s, k) = CodeIn(s, k - 1) + code
    BY <1>1, <1>5, InFacts
  <2>2. RelsIn(s, k - 1) \in Nat /\ CodeIn(s, k - 1) \in Nat
    BY <1>1, <1>5, InFacts
  <2> QED
    BY <2>1, <2>2
<1>7. m \in Nat /\ code \in Nat /\ DOMAIN valid = 1..m
  <2>1. valid \in Seq(1..Len(tb.rels)) /\ m = Len(valid)
    BY <1>6, ValidRelsType DEF HowManyRel
  <2> HIDE DEF valid, m, code
  <2>2. DOMAIN valid = 1..m
    BY <2>1, LenProperties
  <2> QED
    BY <1>6, <2>2, TBNumbers DEF m, code
<1>8. /\ pc' = pc /\ file' = file /\ s' = s /\ cursor' = cursor /\ k' = k + 1
      /\ local' = PassTB(local, tb)
      /\ written' = written \cup N
  <2>1. /\ pc' = pc /\ file' = file /\ s' = s /\ cursor' = cursor /\ k' = k + 1
        /\ local' = PassTB(local, tb)
    BY DEF WriteTB
  <2>2. written' = written \cup {oTB} \cup {oCode} \cup {oRel(j) : j \in DOMAIN valid}
    BY DEF WriteTB
  <2> HIDE DEF oTB, oCode, oRel, valid, m
  <2> QED
    BY <1>7, <2>1, <2>2
<1> HIDE DEF tb, m, code, valid, range
<1>9. m * RelSize \in Nat
  BY <1>7, SizesAreNat, Products
<1>10. /\ local' \in [TBAreas -> Nat] /\ cursor' \in [Areas -> Nat]
       /\ local'["tb"] = local["tb"] + TBSize
       /\ local'["rel"] = local["rel"] + m * RelSize
       /\ local'["code"] = local["code"] + code
  <2> DEFINE b == m * RelSize
  <2>1. local' = [local EXCEPT !["tb"] = @ + TBSize, !["code"] = @ + code, !["rel"] = @ + b]
    BY <1>8 DEF PassTB, m, code
  <2>2. b \in Nat
    BY <1>9
  <2> HIDE DEF b
  <2>3. local["tb"] + TBSize \in Nat /\ local["rel"] + b \in Nat /\ local["code"] + code \in Nat
    BY <1>3, <1>7, <2>2, SizesAreNat, SMTT(30)
  <2>4. local' \in [TBAreas -> Nat]
    BY <1>1, <2>1, <2>3
  <2> QED
    BY <1>1, <1>2, <1>8, <2>1, <2>4 DEF b
<1>11. LocalAt(local', cursor, s, k)
  <2> DEFINE j == k - 1
  <2>1. j \in Nat /\ j + 1 = k /\ LocalAt(local, cursor, s, j)
        /\ RelsIn(s, k) = RelsIn(s, j) + m /\ CodeIn(s, k) = CodeIn(s, j) + code
        /\ RelsIn(s, j) \in Nat /\ CodeIn(s, j) \in Nat
    BY <1>4, <1>5, <1>6
  <2> HIDE DEF j
  <2>2. \A x, y, z \in Nat : (x + y) + z = x + (y + z)
    OBVIOUS
  <2>3. cursor["tb"] \in Nat /\ cursor["rel"] \in Nat /\ cursor["code"] \in Nat
    BY <1>1 DEF Areas
  <2>4. local'["tb"] = cursor["tb"] + k * TBSize
    <3>1. (j + 1) * TBSize = j * TBSize + TBSize /\ j * TBSize \in Nat
      BY <2>1, SizesAreNat, Products
    <3>2. local["tb"] = cursor["tb"] + j * TBSize
      BY <2>1 DEF LocalAt
    <3>3. (cursor["tb"] + j * TBSize) + TBSize = cursor["tb"] + (j * TBSize + TBSize)
      BY <2>2, <2>3, <3>1, SizesAreNat
    <3> QED
      BY <1>10, <2>1, <3>1, <3>2, <3>3
  <2>5. local'["rel"] = cursor["rel"] + RelsIn(s, k) * RelSize
    <3>1. (RelsIn(s, j) + m) * RelSize = RelsIn(s, j) * RelSize + m * RelSize
          /\ RelsIn(s, j) * RelSize \in Nat
      BY <1>7, <2>1, SizesAreNat, Products
    <3>2. local["rel"] = cursor["rel"] + RelsIn(s, j) * RelSize
      BY <2>1 DEF LocalAt
    <3>3. (cursor["rel"] + RelsIn(s, j) * RelSize) + m * RelSize
            = cursor["rel"] + (RelsIn(s, j) * RelSize + m * RelSize)
      BY <1>9, <2>2, <2>3, <3>1
    <3> QED
      BY <1>10, <2>1, <3>1, <3>2, <3>3
  <2>6. local'["code"] = cursor["code"] + CodeIn(s, k)
    <3>1. local["code"] = cursor["code"] + CodeIn(s, j)
      BY <2>1 DEF LocalAt
    <3>2. (cursor["code"] + CodeIn(s, j)) + code = cursor["code"] + (CodeIn(s, j) + code)
      BY <1>7, <2>1, <2>2, <2>3
    <3> QED
      BY <1>10, <2>1, <3>1, <3>2
  <2> QED
    BY <2>4, <2>5, <2>6 DEF LocalAt
<1>12. Places'
  <2>1. Done = s - 1 /\ Done' = s - 1
    BY <1>4, <1>8 DEF Done
  <2>2. CursorAt(cursor, Done)'
    BY <1>4, <1>8, <2>1, SamePlaces
  <2>3. LocalAt(local, cursor, s, k - 1)'
    <3>1. LocalAt(local', cursor', s', k' - 1)
      BY <1>5, <1>8, <1>11
    <3> QED
      BY <1>8, <3>1, SamePlaces
  <2>4. k' \in 1..Len(file'[s']) + 1 /\ pc' = "tbs"
    BY <1>4, <1>5, <1>8
  <2> QED
    BY <1>1, <1>8, <1>10, <2>2, <2>3, <2>4 DEF Places
<1>13. Added(N, Fill, filled)
  <2>1. /\ Fill["header"] = HeaderSize /\ Fill["segment"] = cursor["segment"] + SegmentSize
        /\ Fill["name"] = cursor["name"] /\ TBsFilled(Fill, pc, cursor, local)
    BY <1>4, Now
  <2>2. /\ filled["header"] = HeaderSize /\ filled["segment"] = cursor["segment"] + SegmentSize
        /\ filled["name"] = cursor["name"] /\ TBsFilled(filled, pc', cursor', local')
    BY <1>1, <1>4, <1>8, <1>10, Then
  <2> HIDE DEF filled
  <2>3. \A a \in TBAreas : Fill[a] = local[a] /\ filled[a] = local'[a]
    BY <1>4, <1>8, <2>1, <2>2 DEF TBsFilled
  <2>4. /\ oTB.area = "tb" /\ oTB.at = local["tb"] /\ oTB.size = TBSize
        /\ oCode.area = "code" /\ oCode.at = local["code"] /\ oCode.size = code
    BY ObjectFields
  <2>5. \A j : oRel(j).area = "rel" /\ oRel(j).at = local["rel"] + (j - 1) * RelSize
               /\ oRel(j).size = RelSize
    BY ObjectFields
  <2> HIDE DEF oTB, oCode, oRel
  <2>6. /\ local["tb"] <= local'["tb"] /\ local["rel"] <= local'["rel"]
        /\ local["code"] <= local'["code"]
    <3>1. \A x, y \in Nat : x <= x + y
      OBVIOUS
    <3> QED
      BY <1>3, <1>7, <1>9, <1>10, <3>1, SizesAreNat
  <2>7. /\ Fill["header"] <= filled["header"] /\ Fill["segment"] <= filled["segment"]
        /\ Fill["name"] <= filled["name"]
    <3>1. \A x \in Nat : x <= x
      OBVIOUS
    <3>2. cursor["segment"] + SegmentSize \in Nat
      BY <1>1, SizesAreNat
    <3> QED
      BY <1>1, <2>1, <2>2, <3>1, <3>2, SizesAreNat
  <2>8. \A a \in TBAreas : Fill[a] <= filled[a]
    BY <2>3, <2>6 DEF TBAreas
  <2>9. ASSUME NEW j \in 1..m
        PROVE  /\ oRel(j).at \in Nat /\ local["rel"] <= oRel(j).at
               /\ oRel(j).at + RelSize = local["rel"] + j * RelSize
               /\ oRel(j).at + RelSize <= local'["rel"]
               /\ j * RelSize \in Nat
    <3> DEFINE i == j - 1
    <3>1. i \in Nat /\ i + 1 = j /\ j \in Nat /\ j <= m /\ i <= m
      BY <1>7
    <3>2. oRel(j).at = local["rel"] + i * RelSize
      BY <2>5
    <3> HIDE DEF i
    <3>3. local["rel"] + j * RelSize <= local["rel"] + m * RelSize
      BY <1>3, <1>7, <3>1, SizesAreNat, Between
    <3>4. local["rel"] <= local["rel"] + i * RelSize /\ local["rel"] + i * RelSize \in Nat
      BY <1>3, <1>7, <3>1, SizesAreNat, Between
    <3>5. (i + 1) * RelSize = i * RelSize + RelSize /\ i * RelSize \in Nat /\ j * RelSize \in Nat
      BY <3>1, SizesAreNat, Products
    <3>6. \A x, y, z \in Nat : (x + y) + z = x + (y + z)
      OBVIOUS
    <3>7. (local["rel"] + i * RelSize) + RelSize = local["rel"] + (i * RelSize + RelSize)
      BY <1>3, <3>5, <3>6, SizesAreNat
    <3> QED
      BY <1>10, <3>1, <3>2, <3>3, <3>4, <3>5, <3>7
  <2>10. ASSUME NEW x \in N
         PROVE  /\ x.area \in AllAreas /\ x.at \in Nat /\ x.size \in Nat
                /\ Fill[x.area] <= x.at /\ x.at + x.size <= filled[x.area]
    <3>0. \A y \in Nat : y <= y
      OBVIOUS
    <3>1. CASE x = oTB
      BY <1>2, <1>3, <1>10, <2>3, <2>4, <3>0, <3>1, AreaNames, SizesAreNat
    <3>2. CASE x = oCode
      BY <1>2, <1>3, <1>7, <1>10, <2>3, <2>4, <3>0, <3>2, AreaNames
    <3>3. ASSUME NEW j \in 1..m, x = oRel(j)
          PROVE  /\ x.area \in AllAreas /\ x.at \in Nat /\ x.size \in Nat
                 /\ Fill[x.area] <= x.at /\ x.at + x.size <= filled[x.area]
      BY <1>2, <2>3, <2>5, <2>9, <3>3, AreaNames, SizesAreNat
    <3> QED
      BY <3>1, <3>2, <3>3
  <2>11. ASSUME NEW i \in 1..m, NEW j \in 1..m, i # j
         PROVE  Apart(oRel(i), oRel(j))
    <3>1. ASSUME NEW a \in 1..m, NEW b \in 1..m, a < b
          PROVE  oRel(a).at + RelSize <= oRel(b).at
      <4> DEFINE c == b - 1
      <4>1. c \in Nat /\ a \in Nat /\ a <= c
        BY <1>7, <3>1
      <4>2. oRel(b).at = local["rel"] + c * RelSize
        BY <2>5
      <4> HIDE DEF c
      <4>3. local["rel"] + a * RelSize <= local["rel"] + c * RelSize
        BY <1>3, <4>1, SizesAreNat, Between
      <4> QED
        BY <2>9, <4>2, <4>3
    <3>2. i < j \/ j < i
      BY <1>7, <2>11
    <3> QED
      BY <2>5, <3>1, <3>2 DEF Apart
  <2>12. \A x, y \in N : x # y /\ x.area = y.area => Apart(x, y)
    <3>1. ASSUME NEW x \in N, NEW y \in N, x # y, x.area = y.area
          PROVE  Apart(x, y)
      <4>1. CASE x = oTB \/ y = oTB
        BY <2>4, <2>5, <3>1, <4>1
      <4>2. CASE x = oCode \/ y = oCode
        BY <2>4, <2>5, <3>1, <4>2
      <4>3. CASE x # oTB /\ y # oTB /\ x # oCode /\ y # oCode
        <5>1. PICK i \in 1..m : x = oRel(i)
          BY <4>3
        <5>2. PICK j \in 1..m : y = oRel(j)
          BY <4>3
        <5> QED
          BY <2>11, <3>1, <5>1, <5>2
      <4> QED
        BY <4>1, <4>2, <4>3
    <3> QED
      BY <3>1
  <2> HIDE DEF N
  <2> QED
    BY <2>7, <2>8, <2>10, <2>12, AddedWhen
<1> HIDE DEF N, filled
<1> QED
  BY <1>8, <1>10, <1>12, <1>13, StepLaid DEF WInv, filled

LEMMA StutterKeeps ==
    ASSUME WInv, UNCHANGED vars
    PROVE  WInv'
<1>1. /\ file' = file /\ pc' = pc /\ s' = s /\ k' = k /\ written' = written
      /\ cursor' = cursor /\ local' = local
  BY DEF vars
<1>2. CursorAt(cursor, Done) => CursorAt(cursor, Done)'
  <2>1. Done' = Done
    BY <1>1 DEF Done
  <2> QED
    BY <1>1, <2>1, SamePlaces
<1>3. LocalAt(local, cursor, s, k - 1) => LocalAt(local, cursor, s, k - 1)'
  BY <1>1, SamePlaces
<1>4. Places'
  BY <1>1, <1>2, <1>3, SameFile DEF WInv, Places
<1>5. Laid(written, Fill)'
  BY <1>1, SameFile DEF WInv, Fill
<1> QED
  BY <1>4, <1>5 DEF WInv

(* The invariant holds of every state the writers reach: the five cursors  *)
(* are at all times where the numbers of the file say.                     *)
THEOREM Inductive == Spec => []WInv
<1>1. Init => WInv
  BY InitHolds
<1>2. WInv /\ NamesFit /\ [Next]_vars => WInv'
  <2> SUFFICES ASSUME WInv, NamesFit, [Next]_vars
               PROVE  WInv'
    OBVIOUS
  <2>1. CASE WriteName
    BY <2>1, NameKeeps
  <2>2. CASE WriteSegment
    BY <2>2, SegmentKeeps
  <2>3. CASE WriteTB
    BY <2>3, TBKeeps
  <2>4. CASE EndSegment
    BY <2>4, EndKeeps
  <2>5. CASE UNCHANGED vars
    BY <2>5, StutterKeeps
  <2> QED
    BY <2>1, <2>2, <2>3, <2>4, <2>5 DEF Next
<1> QED
  BY <1>1, <1>2, NamesAlwaysFit, PTL DEF Spec

(* Whatever the file and the sizes, no object AOTFileWriter, SegmentsWriter *)
(* and TBWriter write overlaps another, and none lies past the buffer of    *)
(* how_many_bytes bytes.                                                    *)
THEOREM Safe == Spec => []NothingOverwritten
<1>1. WInv => NothingOverwritten
  <2> SUFFICES ASSUME WInv
               PROVE  NothingOverwritten
    OBVIOUS
  <2>1. file \in Seq(Seq(TBShape)) /\ Places /\ Laid(written, Fill)
    BY DEF WInv, Places
  <2>2. Fill \in [AllAreas -> Nat] /\ \A a \in AllAreas : Fill[a] <= Top(a)
    BY <2>1, FillBounds
  <2>3. \A o \in written :
            /\ o.at + o.size <= FileBytes(file)
            /\ \A p \in written \ {o} : o.at + o.size <= p.at \/ p.at + p.size <= o.at
    BY <2>1, <2>2, LaidApart
  <2> QED
    BY <2>3 DEF NothingOverwritten
<1> QED
  BY <1>1, Inductive, PTL

-----------------------------------------------------------------------------
(* What is written where.                                                  *)

TBsAt(i)       == TBTab + TBsTo(i - 1) * TBSize
TBAt(i, j)     == TBsAt(i) + (j - 1) * TBSize
CodeAt(i, j)   == (CodeTab + CodeTo(i - 1)) + CodeIn(i, j - 1)
RelIndex(i, j) == RelsTo(i - 1) + RelsIn(i, j - 1)

NameObj(i) == Object("name", NameAt(i), names[i] + 1, <<i>>, <<>>)

SegObj(i) == Object("segment", SegAt(i), SegmentData, <<i>>,
                    [name |-> NameAt(i), tbs |-> TBsAt(i), num |-> Len(file[i])])

TBObj(i, j) == Object("tb", TBAt(i, j), TBSize, <<i, j>>,
                      [code |-> CodeAt(i, j), size |-> HowManyCode(file[i][j]),
                       start |-> RelIndex(i, j),
                       end |-> RelIndex(i, j) + HowManyRel(file[i][j]) - 1])

CodeObj(i, j) == Object("code", CodeAt(i, j), HowManyCode(file[i][j]), <<i, j>>, <<>>)

RelObj(i, j, p) == Object("rel", RelTab + (RelIndex(i, j) + (p - 1)) * RelSize, RelSize,
                          <<i, j, ValidRels(file[i][j])[p]>>, <<>>)

(* The names and segment entries written, and the TBs.                     *)
NamesDone == IF pc = "names" THEN s - 1 ELSE Len(file)
SegsDone  == CASE pc = "names" -> 0 [] pc = "tbs" -> s [] OTHER -> Done
TBDone(i, j) == /\ i \in 1..Len(file) /\ j \in 1..Len(file[i]) /\ pc # "names"
                /\ i <= Done \/ (pc = "tbs" /\ i = s /\ j < k)

NamesIn == \A i \in 1..NamesDone : NameObj(i) \in written

SegsIn ==
    /\ \A i \in 1..SegsDone : SegObj(i) \in written
    /\ \A o \in written : o.area = "segment" => \E i \in 1..SegsDone : o = SegObj(i)

TBsIn ==
    /\ \A i, j : TBDone(i, j) =>
            /\ TBObj(i, j) \in written
            /\ CodeObj(i, j) \in written
            /\ \A p \in 1..HowManyRel(file[i][j]) : RelObj(i, j, p) \in written
    /\ \A o \in written : o.area = "tb" => \E i, j : TBDone(i, j) /\ o = TBObj(i, j)

Numbered ==
    /\ header \in [segtab : Nat, segnum : Nat, reltable : Int, relnum : Int]
    /\ header.segtab = HeaderSize /\ header.segnum = Len(file)
    /\ relCurIndex = IF pc = "names" THEN 0
                     ELSE IF pc = "tbs" THEN RelIndex(s, k) ELSE RelsTo(Done)
    /\ relCurIndex > 0 => header.reltable = RelTab
    /\ pc = "done" => header.relnum = relCurIndex

(* The inductive invariant of what the reader relies on.                   *)
Wrote == Places /\ NamesIn /\ SegsIn /\ TBsIn /\ Numbered

LEMMA SameObjects ==
    ASSUME file' = file, names' = names, NEW i, NEW j, NEW p
    PROVE  /\ NameObj(i)' = NameObj(i) /\ SegObj(i)' = SegObj(i) /\ TBObj(i, j)' = TBObj(i, j)
           /\ CodeObj(i, j)' = CodeObj(i, j) /\ RelObj(i, j, p)' = RelObj(i, j, p)
           /\ RelIndex(i, j)' = RelIndex(i, j) /\ RelsTo(i)' = RelsTo(i)
<1>1. /\ Names' = Names /\ TBTab' = TBTab /\ RelTab' = RelTab /\ CodeTab' = CodeTab
  BY SameFile
<1>2. /\ RelsTo(i)' = RelsTo(i) /\ RelsTo(i - 1)' = RelsTo(i - 1)
      /\ TBsTo(i - 1)' = TBsTo(i - 1) /\ CodeTo(i - 1)' = CodeTo(i - 1)
      /\ RelsIn(i, j - 1)' = RelsIn(i, j - 1) /\ CodeIn(i, j - 1)' = CodeIn(i, j - 1)
  BY DEF RelsTo, TBsTo, CodeTo, RelsIn, CodeIn
<1>3. /\ NameAt(i)' = NameAt(i) /\ TBsAt(i)' = TBsAt(i) /\ TBAt(i, j)' = TBAt(i, j)
      /\ CodeAt(i, j)' = CodeAt(i, j) /\ RelIndex(i, j)' = RelIndex(i, j)
      /\ SegAt(i)' = SegAt(i)
  BY <1>1, <1>2 DEF NameAt, SegAt, TBsAt, TBAt, CodeAt, RelIndex
<1>4. NameObj(i)' = NameObj(i) /\ SegObj(i)' = SegObj(i)
  BY <1>3 DEF NameObj, SegObj
<1>5. TBObj(i, j)' = TBObj(i, j) /\ CodeObj(i, j)' = CodeObj(i, j)
  BY <1>3 DEF TBObj, CodeObj
<1>6. RelObj(i, j, p)' = RelObj(i, j, p)
  BY <1>1, <1>3 DEF RelObj
<1> QED
  BY <1>2, <1>3, <1>4, <1>5, <1>6

(* A step that adds N to what is written.                                  *)
Writes(N) ==
    /\ written' = written \cup N
    /\ \A i \in 1..NamesDone' : i \in 1..NamesDone \/ NameObj(i) \in N
    /\ \A i \in 1..SegsDone' : i \in 1..SegsDone \/ SegObj(i) \in N
    /\ \A i \in 1..SegsDone : i \in 1..SegsDone'
    /\ \A o \in N : o.area = "segment" => \E i \in 1..SegsDone' : o = SegObj(i)
    /\ \A i, j : TBDone(i, j)' =>
            TBDone(i, j) \/ /\ TBObj(i, j) \in N /\ CodeObj(i, j) \in N
                            /\ \A p \in 1..HowManyRel(file[i][j]) : RelObj(i, j, p) \in N
    /\ \A i, j : TBDone(i, j) => TBDone(i, j)'
    /\ \A o \in N : o.area = "tb" => \E i, j : TBDone(i, j)' /\ o = TBObj(i, j)

LEMMA WroteGrows ==
    ASSUME Wrote, file' = file, names' = names, NEW N, Writes(N)
    PROVE  NamesIn' /\ SegsIn' /\ TBsIn'
<1>1. NamesIn /\ SegsIn /\ TBsIn
  BY DEF Wrote
<1>2. NamesIn'
  <2>1. ASSUME NEW i \in 1..NamesDone'
        PROVE  NameObj(i)' \in written'
    BY <1>1, <2>1, SameObjects DEF NamesIn, Writes
  <2> QED
    BY <2>1 DEF NamesIn
<1>3. SegsIn'
  <2>1. ASSUME NEW i \in 1..SegsDone'
        PROVE  SegObj(i)' \in written'
    BY <1>1, <2>1, SameObjects DEF SegsIn, Writes
  <2>2. ASSUME NEW o \in written', o.area = "segment"
        PROVE  \E i \in 1..SegsDone' : o = SegObj(i)'
    <3>1. \A i : SegObj(i)' = SegObj(i)
      BY SameObjects
    <3>2. \E i \in 1..SegsDone' : o = SegObj(i)
      BY <1>1, <2>2 DEF SegsIn, Writes
    <3> QED
      BY <3>1, <3>2
  <2> QED
    BY <2>1, <2>2 DEF SegsIn
<1>4. TBsIn'
  <2>1. ASSUME NEW i, NEW j, TBDone(i, j)'
        PROVE  /\ TBObj(i, j)' \in written'
               /\ CodeObj(i, j)' \in written'
               /\ \A p \in 1..HowManyRel(file[i][j]) : RelObj(i, j, p)' \in written'
    <3>1. /\ TBObj(i, j)' = TBObj(i, j) /\ CodeObj(i, j)' = CodeObj(i, j)
          /\ \A p : RelObj(i, j, p)' = RelObj(i, j, p)
      BY SameObjects
    <3>2. CASE TBDone(i, j)
      BY <1>1, <3>1, <3>2 DEF TBsIn, Writes
    <3>3. CASE /\ TBObj(i, j) \in N /\ CodeObj(i, j) \in N
               /\ \A p \in 1..HowManyRel(file[i][j]) : RelObj(i, j, p) \in N
      BY <3>1, <3>3 DEF Writes
    <3> QED
      BY <2>1, <3>2, <3>3 DEF Writes
  <2>2. ASSUME NEW o \in written', o.area = "tb"
        PROVE  \E i, j : TBDone(i, j)' /\ o = TBObj(i, j)'
    <3>1. \A i, j : TBObj(i, j)' = TBObj(i, j)
      BY SameObjects
    <3>2. \E i, j : TBDone(i, j)' /\ o = TBObj(i, j)
      BY <1>1, <2>2 DEF TBsIn, Writes
    <3> QED
      BY <3>1, <3>2
  <2>3. \A i, j : HowManyRel(file[i][j])' = HowManyRel(file[i][j])
    BY DEF HowManyRel
  <2> QED
    BY <2>1, <2>2, <2>3 DEF TBsIn
<1> QED
  BY <1>2, <1>3, <1>4

LEMMA InitWrites ==
    ASSUME Init
    PROVE  Wrote
<1>1. Places
  BY InitHolds DEF WInv
<1>2. pc = "names" /\ s = 1 /\ Len(file) \in Nat
  BY <1>1, ToFacts DEF Init, Places
<1>3. NamesDone = 0 /\ SegsDone = 0 /\ \A i, j : ~ TBDone(i, j)
  BY <1>2 DEF NamesDone, SegsDone, TBDone
<1>4. \A o \in written : o.area = "header"
  <2> DEFINE h == Object("header", 0, HeaderSize, <<>>, <<>>)
  <2>1. h.area = "header"
    BY ObjectFields
  <2>2. written = {h}
    BY DEF Init
  <2> HIDE DEF h
  <2> QED
    BY <2>1, <2>2
<1>5. NamesIn /\ SegsIn /\ TBsIn
  <2>1. \A i \in 1..0 : FALSE
    OBVIOUS
  <2> QED
    BY <1>3, <1>4, <2>1 DEF NamesIn, SegsIn, TBsIn
<1>6. Numbered
  <2>1. header = [segtab |-> HeaderSize, segnum |-> Len(file), reltable |-> -1, relnum |-> -1]
    BY DEF Init, Unset
  <2>2. relCurIndex = 0 /\ ~ (0 > 0) /\ -1 \in Int
    BY DEF Init
  <2> QED
    BY <1>2, <2>1, <2>2, SizesAreNat DEF Numbered
<1> QED
  BY <1>1, <1>5, <1>6 DEF Wrote

LEMMA NameWrites ==
    ASSUME WInv, NamesFit, Wrote, WriteName
    PROVE  Wrote'
<1> DEFINE n == Len(file)
           o == Object("name", cursor["name"], names[s] + 1, <<s>>, <<>>)
<1>1. n \in Nat /\ s \in 1..n
  BY Now
<1>2. /\ pc = "names" /\ file' = file /\ names' = names /\ header' = header /\ relCurIndex' = relCurIndex
      /\ written' = written \cup {o}
  BY DEF WriteName
<1>3. o = NameObj(s)
  BY <1>2 DEF Places, Wrote, NameObj, NameAt
<1>4. o.area = "name"
  BY ObjectFields
<1> HIDE DEF o
<1>5. Places'
  BY NameKeeps DEF WInv
<1>6. /\ NamesDone = s - 1 /\ NamesDone' = s /\ SegsDone = 0 /\ SegsDone' = 0
      /\ \A i, j : ~ TBDone(i, j)
      /\ \A i, j : ~ TBDone(i, j)'
      /\ pc' = "names" \/ (pc' = "segment" /\ Done' = 0)
  <2>1. CASE s < n
    <3>1. s' = s + 1 /\ pc' = "names"
      BY <1>2, <2>1 DEF WriteName
    <3>2. (s + 1) - 1 = s
      BY <1>1
    <3> QED
      BY <1>2, <3>1, <3>2 DEF NamesDone, SegsDone, TBDone
  <2>2. CASE ~ (s < n)
    <3>1. s' = 1 /\ pc' = "segment"
      BY <1>2, <2>2 DEF WriteName
    <3>2. Done' = 0 /\ s = n /\ \A i \in 1..n : ~ (i <= 0)
      BY <1>1, <2>2, <3>1 DEF Done
    <3> QED
      BY <1>2, <3>1, <3>2 DEF NamesDone, SegsDone, TBDone
  <2> QED
    BY <2>1, <2>2
<1>7. NamesIn' /\ SegsIn' /\ TBsIn'
  <2>1. \A i \in 1..NamesDone' : i \in 1..NamesDone \/ NameObj(i) \in {o}
    <3>1. \A i \in 1..s : i \in 1..s - 1 \/ i = s
      BY <1>1
    <3> QED
      BY <1>3, <1>6, <3>1
  <2>2. \A i \in 1..SegsDone' : i \in 1..SegsDone \/ SegObj(i) \in {o}
    BY <1>6
  <2>3. \A i \in 1..SegsDone : i \in 1..SegsDone'
    BY <1>6
  <2>4. \A x \in {o} : x.area = "segment" => \E i \in 1..SegsDone' : x = SegObj(i)
    BY <1>4
  <2>5. \A x \in {o} : x.area = "tb" => \E i, j : TBDone(i, j)' /\ x = TBObj(i, j)
    BY <1>4
  <2>6. Writes({o})
    BY <1>2, <1>6, <2>1, <2>2, <2>3, <2>4, <2>5 DEF Writes
  <2> QED
    BY <1>2, <2>6, WroteGrows
<1>8. Numbered'
  <2>1. RelsTo(0)' = 0 /\ RelTab' = RelTab
    <3>1. RelsTo(0) = 0 /\ RelsTo(0)' = RelsTo(0)
      BY <1>2, ToFacts, SameObjects DEF Wrote, Places
    <3> QED
      BY <1>2, <3>1, SameFile
  <2>2. relCurIndex = 0
    BY <1>2 DEF Wrote, Numbered
  <2>3. /\ header \in [segtab : Nat, segnum : Nat, reltable : Int, relnum : Int]
        /\ header.segtab = HeaderSize /\ header.segnum = Len(file)
    BY DEF Wrote, Numbered
  <2>4. pc' # "names" => pc' = "segment" /\ RelsTo(Done)' = 0
    <3>1. ASSUME Done' = 0
          PROVE  RelsTo(Done)' = RelsTo(0)'
      BY <3>1 DEF RelsTo
    <3> QED
      BY <1>6, <2>1, <3>1
  <2> QED
    BY <1>2, <1>6, <2>2, <2>3, <2>4 DEF Numbered
<1> QED
  BY <1>5, <1>7, <1>8 DEF Wrote

LEMMA SegmentWrites ==
    ASSUME WInv, Wrote, WriteSegment
    PROVE  Wrote'
<1> DEFINE fields == [name |-> NameAt(s),
                      tbs |-> cursor["tb"], num |-> Len(file[s])]
           o == Object("segment", cursor["segment"], SegmentData, <<s>>, fields)
<1>1. Len(file) \in Nat /\ s \in 1..Len(file) /\ file \in Seq(Seq(TBShape))
  BY Now
<1>2. /\ pc = "segment" /\ pc' = "tbs" /\ s' = s /\ k' = 1 /\ file' = file /\ header' = header
      /\ names' = names /\ relCurIndex' = relCurIndex /\ written' = written \cup {o}
  BY DEF WriteSegment
<1>3. Done = s - 1 /\ Done' = s - 1 /\ CursorAt(cursor, s - 1)
  BY <1>2 DEF Done, Wrote, Places
<1>4. o = SegObj(s)
  BY <1>3 DEF SegObj, SegAt, NameAt, TBsAt, Names, CursorAt
<1>5. o.area = "segment"
  BY ObjectFields
<1> HIDE DEF o
<1>6. Places'
  BY SegmentKeeps DEF WInv
<1>7. NamesDone = Len(file) /\ NamesDone' = Len(file) /\ SegsDone = s - 1 /\ SegsDone' = s
  BY <1>2, <1>3 DEF NamesDone, SegsDone
<1>8. \A i, j : TBDone(i, j)' <=> TBDone(i, j)
  <2>1. \A j \in 1..Len(file[s]) : ~ (j < 1)
    BY <1>1, InFacts
  <2> QED
    BY <1>2, <1>3, <2>1 DEF TBDone
<1>9. NamesIn' /\ SegsIn' /\ TBsIn'
  <2>1. \A i \in 1..NamesDone' : i \in 1..NamesDone \/ NameObj(i) \in {o}
    BY <1>7
  <2>2. \A i \in 1..SegsDone' : i \in 1..SegsDone \/ SegObj(i) \in {o}
    <3>1. \A i \in 1..s : i \in 1..s - 1 \/ i = s
      BY <1>1
    <3> QED
      BY <1>4, <1>7, <3>1
  <2>3. \A i \in 1..SegsDone : i \in 1..SegsDone'
    <3>1. \A i \in 1..s - 1 : i \in 1..s
      BY <1>1
    <3> QED
      BY <1>7, <3>1
  <2>4. \A x \in {o} : x.area = "segment" => \E i \in 1..SegsDone' : x = SegObj(i)
    <3>1. s \in 1..s
      BY <1>1
    <3> QED
      BY <1>4, <1>7, <3>1
  <2>5. \A x \in {o} : x.area = "tb" => \E i, j : TBDone(i, j)' /\ x = TBObj(i, j)
    BY <1>5
  <2>6. Writes({o})
    BY <1>2, <1>8, <2>1, <2>2, <2>3, <2>4, <2>5 DEF Writes
  <2> QED
    BY <1>2, <2>6, WroteGrows
<1>10. Numbered'
  <2>1. RelIndex(s, 1) = RelsTo(s - 1)
    <3>1. s - 1 \in 0..Len(file) /\ 1 - 1 = 0
      BY <1>1
    <3>2. RelsTo(s - 1) \in Nat /\ RelsIn(s, 0) = 0
      BY <1>1, <3>1, ToFacts, InFacts
    <3>3. \A x \in Nat : x + 0 = x
      OBVIOUS
    <3> QED
      BY <3>1, <3>2, <3>3 DEF RelIndex
  <2>2. RelIndex(s, k)' = RelIndex(s, 1)
    BY <1>2 DEF RelIndex, RelsTo, RelsIn
  <2>3. RelTab' = RelTab
    BY <1>2, SameFile
  <2>4. /\ header \in [segtab : Nat, segnum : Nat, reltable : Int, relnum : Int]
        /\ header.segtab = HeaderSize /\ header.segnum = Len(file)
        /\ relCurIndex = RelsTo(s - 1)
        /\ relCurIndex > 0 => header.reltable = RelTab
    BY <1>2, <1>3 DEF Wrote, Numbered
  <2> QED
    BY <1>2, <2>1, <2>2, <2>3, <2>4 DEF Numbered
<1> QED
  BY <1>6, <1>9, <1>10 DEF Wrote

LEMMA EndWrites ==
    ASSUME WInv, Wrote, EndSegment
    PROVE  Wrote'
<1> DEFINE n == Len(file)
<1>1. n \in Nat /\ s \in 1..n /\ file \in Seq(Seq(TBShape))
  BY Now
<1>2. /\ pc = "tbs" /\ file' = file /\ names' = names /\ relCurIndex' = relCurIndex
      /\ header' = [header EXCEPT !.relnum = relCurIndex]
      /\ written' = written \cup {} /\ k > Len(file[s])
  BY DEF EndSegment
<1>3. pc' \in {"segment", "done"} /\ Done' = s /\ Done = s - 1
  <2>1. CASE s < n
    <3>1. s' = s + 1 /\ pc' = "segment"
      BY <2>1 DEF EndSegment
    <3>2. (s + 1) - 1 = s
      BY <1>1
    <3> QED
      BY <1>2, <3>1, <3>2 DEF Done
  <2>2. CASE ~ (s < n)
    <3>1. s' = s /\ pc' = "done"
      BY <2>2 DEF EndSegment
    <3>2. s = n
      BY <1>1, <2>2
    <3> QED
      BY <1>2, <3>1, <3>2 DEF Done
  <2> QED
    BY <2>1, <2>2
<1>4. /\ Len(file[s]) \in Nat /\ k \in 1..Len(file[s]) + 1
      /\ RelsIn(s, Len(file[s])) = SegRels(file[s])
  BY <1>1, <1>2, InFacts DEF Wrote, Places
<1>5. k - 1 = Len(file[s]) /\ \A j \in 1..Len(file[s]) : j < k
  BY <1>2, <1>4
<1>6. Places'
  BY EndKeeps DEF WInv
<1>7. NamesDone = n /\ NamesDone' = n /\ SegsDone = s /\ SegsDone' = s
  BY <1>2, <1>3 DEF NamesDone, SegsDone
<1>8. \A i, j : TBDone(i, j)' <=> TBDone(i, j)
  <2>1. \A i \in 1..n : i <= s <=> (i <= s - 1 \/ i = s)
    BY <1>1
  <2>2. \A i, j : TBDone(i, j) <=> i \in 1..n /\ j \in 1..Len(file[i]) /\ i <= s
    BY <1>2, <1>3, <1>5, <2>1 DEF TBDone
  <2>3. \A i, j : TBDone(i, j)' <=> i \in 1..n /\ j \in 1..Len(file[i]) /\ i <= s
    BY <1>2, <1>3 DEF TBDone
  <2> QED
    BY <2>2, <2>3
<1>9. NamesIn' /\ SegsIn' /\ TBsIn'
  <2>1. Writes({})
    BY <1>2, <1>7, <1>8 DEF Writes
  <2> QED
    BY <1>2, <2>1, WroteGrows
<1>10. Numbered'
  <2>1. RelIndex(s, k) = RelsTo(s)
    <3>1. RelsTo(s) = RelsTo(s - 1) + SegRels(file[s])
      BY <1>1, ToFacts
    <3> QED
      BY <1>4, <1>5, <3>1 DEF RelIndex
  <2>2. RelsTo(Done)' = RelsTo(s)
    BY <1>2, <1>3 DEF RelsTo
  <2>3. RelTab' = RelTab
    BY <1>2, SameFile
  <2>4. /\ header \in [segtab : Nat, segnum : Nat, reltable : Int, relnum : Int]
        /\ header.segtab = HeaderSize /\ header.segnum = Len(file)
        /\ relCurIndex = RelIndex(s, k)
        /\ relCurIndex > 0 => header.reltable = RelTab
    BY <1>2 DEF Wrote, Numbered
  <2>5. RelsTo(s) \in Nat
    <3>1. s \in 0..n
      BY <1>1
    <3> QED
      BY <1>1, <3>1, ToFacts
  <2>6. /\ header' \in [segtab : Nat, segnum : Nat, reltable : Int, relnum : Int]
        /\ header'.segtab = HeaderSize /\ header'.segnum = Len(file)
        /\ header'.reltable = header.reltable /\ header'.relnum = relCurIndex
    BY <1>2, <2>1, <2>4, <2>5
  <2> QED
    BY <1>2, <1>3, <2>1, <2>2, <2>3, <2>4, <2>6 DEF Numbered
<1> QED
  BY <1>6, <1>9, <1>10 DEF Wrote

(* The index of a TB's first relocation, and TBWriter's place in the table *)
(* of relocations.                                                         *)
LEMMA RelIndexFacts ==
    ASSUME file \in Seq(Seq(TBShape)), NEW i \in 1..Len(file), NEW j \in 1..Len(file[i])
    PROVE  /\ RelIndex(i, j) \in Nat
           /\ RelIndex(i, j + 1) = RelIndex(i, j) + HowManyRel(file[i][j])
           /\ HowManyRel(file[i][j]) \in Nat /\ file[i][j] \in TBShape
           /\ RelIndex(i, j) + HowManyRel(file[i][j]) <= RelsTo(i)
<1>1. /\ Len(file) \in Nat /\ Len(file[i]) \in Nat
  BY ToFacts, InFacts
<1>2. i - 1 \in 0..Len(file) /\ j - 1 \in 0..Len(file[i]) /\ j \in 0..Len(file[i]) /\ (j + 1) - 1 = j
  BY <1>1
<1>3. RelsTo(i - 1) \in Nat /\ RelsIn(i, j - 1) \in Nat /\ file[i][j] \in TBShape
  <2>1. RelsTo(i - 1) \in Nat
    BY <1>2, ToFacts
  <2>2. RelsIn(i, j - 1) \in Nat /\ file[i][j] \in TBShape
    BY <1>2, InFacts
  <2> QED
    BY <2>1, <2>2
<1>4. HowManyRel(file[i][j]) \in Nat
  BY <1>3, TBNumbers
<1>5. RelsIn(i, j) = RelsIn(i, j - 1) + HowManyRel(file[i][j])
  BY InFacts
<1>6. RelsIn(i, j) <= SegRels(file[i]) /\ SegRels(file[i]) \in Nat /\ RelsIn(i, j) \in Nat
  BY <1>2, InFacts
<1>7. RelsTo(i) = RelsTo(i - 1) + SegRels(file[i])
  BY ToFacts
<1> DEFINE a == RelsTo(i - 1)
           b == RelsIn(i, j - 1)
           c == HowManyRel(file[i][j])
           d == RelsIn(i, j)
           e == SegRels(file[i])
<1>8. a \in Nat /\ b \in Nat /\ c \in Nat /\ e \in Nat /\ d = b + c /\ d <= e
      /\ RelIndex(i, j) = a + b /\ RelIndex(i, j + 1) = a + d /\ RelsTo(i) = a + e
  BY <1>2, <1>3, <1>4, <1>5, <1>6, <1>7 DEF RelIndex
<1> HIDE DEF a, b, c, d, e
<1>9. /\ RelIndex(i, j) \in Nat /\ RelIndex(i, j + 1) = RelIndex(i, j) + c
      /\ RelIndex(i, j) + c <= RelsTo(i)
  BY <1>8
<1> QED
  BY <1>3, <1>4, <1>9 DEF c

LEMMA TBWrites ==
    ASSUME WInv, Wrote, WriteTB
    PROVE  Wrote'
<1> DEFINE tb    == file[s][k]
           valid == ValidRels(tb)
           m     == HowManyRel(tb)
           code  == HowManyCode(tb)
           range == RelRange(relCurIndex, Len(valid))
           oTB   == Object("tb", local["tb"], TBSize, <<s, k>>,
                           [code |-> local["code"], size |-> code,
                            start |-> range.start, end |-> range.end])
           oCode == Object("code", local["code"], code, <<s, k>>, <<>>)
           oRel(j) == Object("rel", local["rel"] + (j - 1) * RelSize, RelSize,
                             <<s, k, valid[j]>>, <<>>)
           N     == {oTB} \cup {oCode} \cup {oRel(j) : j \in 1..m}
<1>1. Len(file) \in Nat /\ s \in 1..Len(file) /\ file \in Seq(Seq(TBShape))
  BY Now
<1>2. /\ pc = "tbs" /\ k <= Len(file[s]) /\ k \in 1..Len(file[s]) + 1 /\ Len(file[s]) \in Nat
      /\ CursorAt(cursor, s - 1) /\ LocalAt(local, cursor, s, k - 1) /\ Done = s - 1
      /\ relCurIndex = RelIndex(s, k)
  BY <1>1, InFacts DEF Wrote, Places, Numbered, Done, WriteTB
<1>3. k \in 1..Len(file[s]) /\ (k + 1) - 1 = k
  BY <1>2
<1>4. /\ RelIndex(s, k) \in Nat /\ RelIndex(s, k + 1) = RelIndex(s, k) + m
      /\ m \in Nat /\ tb \in TBShape
  BY <1>1, <1>3, RelIndexFacts
<1>5. m = Len(valid) /\ DOMAIN valid = 1..m
  <2>1. valid \in Seq(1..Len(tb.rels)) /\ m = Len(valid)
    BY <1>4, ValidRelsType DEF HowManyRel
  <2> HIDE DEF valid, m
  <2> QED
    BY <2>1, LenProperties
<1>6. /\ pc' = pc /\ file' = file /\ names' = names /\ s' = s /\ k' = k + 1
      /\ relCurIndex' = relCurIndex + m
      /\ header' = [header EXCEPT !.reltable = IF relCurIndex = 0 /\ valid # <<>>
                                               THEN local["rel"] ELSE @]
      /\ written' = written \cup N
  <2>1. /\ pc' = pc /\ file' = file /\ names' = names /\ s' = s /\ k' = k + 1
        /\ relCurIndex' = relCurIndex + Len(valid)
        /\ header' = [header EXCEPT !.reltable = IF relCurIndex = 0 /\ valid # <<>>
                                                 THEN local["rel"] ELSE @]
    BY DEF WriteTB
  <2>2. written' = written \cup {oTB} \cup {oCode} \cup {oRel(j) : j \in DOMAIN valid}
    BY DEF WriteTB
  <2> HIDE DEF oTB, oCode, oRel, valid, m
  <2> QED
    BY <1>5, <2>1, <2>2
<1>7. local["tb"] = TBAt(s, k) /\ local["code"] = CodeAt(s, k)
  BY <1>2 DEF CursorAt, LocalAt, TBAt, TBsAt, CodeAt
<1>8. RelTab \in Nat /\ local["rel"] = RelTab + RelIndex(s, k) * RelSize
  <2> DEFINE a == RelsTo(s - 1)
             b == RelsIn(s, k - 1)
  <2>1. local["rel"] = (RelTab + a * RelSize) + b * RelSize
    BY <1>2 DEF CursorAt, LocalAt
  <2>2. a \in Nat /\ b \in Nat
    <3>1. s - 1 \in 0..Len(file) /\ k - 1 \in 0..Len(file[s])
      BY <1>1, <1>2
    <3>2. a \in Nat
      BY <1>1, <3>1, ToFacts
    <3>3. b \in Nat
      BY <1>1, <3>1, InFacts
    <3> QED
      BY <3>2, <3>3
  <2>3. RelIndex(s, k) = a + b
    BY DEF RelIndex
  <2>4. RelTab \in Nat
    BY <1>1, Layout, AreaNames
  <2> HIDE DEF a, b
  <2>5. (a + b) * RelSize = a * RelSize + b * RelSize /\ a * RelSize \in Nat
    BY <2>2, SizesAreNat, Products
  <2>6. b * RelSize \in Nat
    BY <2>2, SizesAreNat, Products
  <2>7. \A x, y, z \in Nat : (x + y) + z = x + (y + z)
    OBVIOUS
  <2> QED
    BY <2>1, <2>3, <2>4, <2>5, <2>6, <2>7
<1>9. oTB = TBObj(s, k) /\ oCode = CodeObj(s, k)
  <2>1. range.start = RelIndex(s, k) /\ range.end = RelIndex(s, k) + m - 1
    BY <1>2, <1>5 DEF RelRange
  <2> HIDE DEF range, valid, m
  <2> QED
    BY <1>7, <2>1 DEF TBObj, CodeObj, m
<1>10. \A j \in 1..m : oRel(j) = RelObj(s, k, j)
  <2>1. ASSUME NEW j \in 1..m
        PROVE  local["rel"] + (j - 1) * RelSize = RelTab + (RelIndex(s, k) + (j - 1)) * RelSize
    <3> DEFINE i == j - 1
               x == RelIndex(s, k)
    <3>1. i \in Nat /\ x \in Nat
      BY <1>4
    <3>2. local["rel"] = RelTab + x * RelSize
      BY <1>8
    <3> HIDE DEF i, x
    <3>3. (x + i) * RelSize = x * RelSize + i * RelSize /\ x * RelSize \in Nat
      BY <3>1, SizesAreNat, Products
    <3>4. i * RelSize \in Nat
      BY <3>1, SizesAreNat, Products
    <3>5. \A a, b, c \in Nat : (a + b) + c = a + (b + c)
      OBVIOUS
    <3>6. local["rel"] + i * RelSize = RelTab + (x + i) * RelSize
      BY <1>8, <3>2, <3>3, <3>4, <3>5
    <3> QED
      BY <3>6 DEF i, x
  <2> QED
    BY <2>1 DEF RelObj
<1>11. /\ oTB.area = "tb" /\ oCode.area = "code" /\ \A j : oRel(j).area = "rel"
  BY ObjectFields
<1> HIDE DEF oTB, oCode, oRel, valid, range
<1>12. Places'
  BY TBKeeps DEF WInv
<1>13. /\ NamesDone = Len(file) /\ NamesDone' = Len(file) /\ SegsDone = s /\ SegsDone' = s
       /\ Done' = s - 1
  BY <1>2, <1>6 DEF NamesDone, SegsDone, Done
<1>14. /\ \A i, j : TBDone(i, j) => TBDone(i, j)'
       /\ \A i, j : i = s /\ j = k => TBDone(i, j)'
       /\ \A i, j : TBDone(i, j)' => TBDone(i, j) \/ (i = s /\ j = k)
  <2>1. /\ k < k + 1 /\ \A j \in 1..Len(file[s]) : j < k => j < k + 1
        /\ \A j \in 1..Len(file[s]) : j < k + 1 => j < k \/ j = k
    BY <1>2
  <2>2. \A i, j : TBDone(i, j)' <=> /\ i \in 1..Len(file) /\ j \in 1..Len(file[i])
                                    /\ i <= s - 1 \/ (i = s /\ j < k + 1)
    BY <1>2, <1>6, <1>13 DEF TBDone
  <2>3. \A i, j : TBDone(i, j) <=> /\ i \in 1..Len(file) /\ j \in 1..Len(file[i])
                                   /\ i <= s - 1 \/ (i = s /\ j < k)
    BY <1>2 DEF TBDone
  <2> QED
    BY <1>1, <1>3, <2>1, <2>2, <2>3
<1>15. NamesIn' /\ SegsIn' /\ TBsIn'
  <2>1. \A o \in N : o.area # "segment"
    BY <1>11
  <2>2. \A i, j : TBDone(i, j)' =>
            TBDone(i, j) \/ /\ TBObj(i, j) \in N /\ CodeObj(i, j) \in N
                            /\ \A p \in 1..HowManyRel(file[i][j]) : RelObj(i, j, p) \in N
    <3>1. /\ TBObj(s, k) \in N /\ CodeObj(s, k) \in N
          /\ \A p \in 1..m : RelObj(s, k, p) \in N
      BY <1>9, <1>10
    <3> HIDE DEF N
    <3> QED
      BY <1>14, <3>1
  <2>3. \A o \in N : o.area = "tb" => \E i, j : TBDone(i, j)' /\ o = TBObj(i, j)
    <3>1. \A o \in N : o.area = "tb" => o = oTB
      BY <1>11
    <3> HIDE DEF N
    <3>2. ASSUME NEW o \in N, o.area = "tb", NEW i, NEW j, i = s, j = k
          PROVE  TBDone(i, j)' /\ o = TBObj(i, j)
      BY <1>9, <1>14, <3>1, <3>2
    <3> QED
      BY <3>2
  <2> HIDE DEF N
  <2>4. Writes(N)
    BY <1>6, <1>13, <1>14, <2>1, <2>2, <2>3 DEF Writes
  <2> QED
    BY <1>6, <2>4, WroteGrows
<1>16. Numbered'
  <2>1. /\ header \in [segtab : Nat, segnum : Nat, reltable : Int, relnum : Int]
        /\ header.segtab = HeaderSize /\ header.segnum = Len(file)
        /\ relCurIndex > 0 => header.reltable = RelTab
    BY DEF Wrote, Numbered
  <2>2. local["rel"] \in Int /\ (relCurIndex = 0 => local["rel"] = RelTab)
    <3>1. RelIndex(s, k) * RelSize \in Nat
      BY <1>4, SizesAreNat, Products
    <3>2. 0 * RelSize = 0 /\ RelTab + 0 = RelTab
      BY <1>8, SizesAreNat
    <3> QED
      BY <1>2, <1>8, <3>1, <3>2
  <2>3. /\ header' \in [segtab : Nat, segnum : Nat, reltable : Int, relnum : Int]
        /\ header'.segtab = HeaderSize /\ header'.segnum = Len(file)
        /\ header'.reltable = IF relCurIndex = 0 /\ valid # <<>> THEN local["rel"]
                              ELSE header.reltable
    BY <1>6, <2>1, <2>2
  <2>4. relCurIndex' > 0 => header'.reltable = RelTab
    <3>1. CASE relCurIndex = 0
      <4>1. m > 0 => valid # <<>>
        <5>1. Len(<<>>) = 0
          OBVIOUS
        <5> QED
          BY <1>5, <5>1
      <4>2. relCurIndex' = m
        BY <1>4, <1>6, <3>1
      <4> QED
        BY <2>2, <2>3, <3>1, <4>1, <4>2
    <3>2. CASE relCurIndex # 0
      <4>1. relCurIndex > 0
        BY <1>2, <1>4, <3>2
      <4> QED
        BY <2>1, <2>3, <3>2, <4>1
    <3> QED
      BY <3>1, <3>2
  <2>5. RelIndex(s, k)' = RelIndex(s, k + 1)
    BY <1>6 DEF RelIndex, RelsTo, RelsIn
  <2>6. relCurIndex' = RelIndex(s, k + 1)
    BY <1>2, <1>4, <1>6
  <2>7. RelTab' = RelTab
    BY <1>6, SameFile
  <2> QED
    BY <1>2, <1>6, <2>3, <2>4, <2>5, <2>6, <2>7 DEF Numbered
<1> QED
  BY <1>12, <1>15, <1>16 DEF Wrote

LEMMA StutterWrites ==
    ASSUME WInv, Wrote, UNCHANGED vars
    PROVE  Wrote'
<1>1. /\ file' = file /\ names' = names /\ pc' = pc /\ s' = s /\ k' = k /\ written' = written
      /\ header' = header /\ relCurIndex' = relCurIndex
  BY DEF vars
<1>2. Places'
  BY StutterKeeps DEF WInv
<1>3. Done' = Done
  BY <1>1 DEF Done
<1>4. NamesDone' = NamesDone /\ SegsDone' = SegsDone /\ \A i, j : TBDone(i, j)' <=> TBDone(i, j)
  BY <1>1, <1>3 DEF NamesDone, SegsDone, TBDone
<1>5. NamesIn' /\ SegsIn' /\ TBsIn'
  <2>1. Writes({})
    BY <1>1, <1>4 DEF Writes
  <2> QED
    BY <1>1, <2>1, WroteGrows
<1>6. Numbered'
  <2>1. RelIndex(s, k)' = RelIndex(s, k) /\ RelsTo(Done)' = RelsTo(Done) /\ RelTab' = RelTab
    BY <1>1, <1>3, SameFile DEF RelIndex, RelsTo, RelsIn
  <2> QED
    BY <1>1, <2>1 DEF Wrote, Numbered
<1> QED
  BY <1>2, <1>5, <1>6 DEF Wrote

LEMMA AlwaysWrote == Spec => []Wrote
<1>1. Init => Wrote
  BY InitWrites
<1>2. WInv /\ NamesFit /\ Wrote /\ [Next]_vars => Wrote'
  <2> SUFFICES ASSUME WInv, NamesFit, Wrote, [Next]_vars
               PROVE  Wrote'
    OBVIOUS
  <2>1. CASE WriteName
    BY <2>1, NameWrites
  <2>2. CASE WriteSegment
    BY <2>2, SegmentWrites
  <2>3. CASE WriteTB
    BY <2>3, TBWrites
  <2>4. CASE EndSegment
    BY <2>4, EndWrites
  <2>5. CASE UNCHANGED vars
    BY <2>5, StutterWrites
  <2> QED
    BY <2>1, <2>2, <2>3, <2>4, <2>5 DEF Next
<1> QED
  BY <1>1, <1>2, NamesAlwaysFit, Inductive, PTL DEF Spec

-----------------------------------------------------------------------------
(* What the reader finds.                                                  *)

LEMMA AtTheEnd ==
    ASSUME Wrote, pc = "done"
    PROVE  /\ file \in Seq(Seq(TBShape)) /\ Len(file) \in Nat
           /\ Done = Len(file) /\ NamesDone = Len(file) /\ SegsDone = Len(file)
           /\ \A i, j : TBDone(i, j) <=> i \in 1..Len(file) /\ j \in 1..Len(file[i])
<1>1. file \in Seq(Seq(TBShape)) /\ Len(file) \in Nat
  BY ToFacts DEF Wrote, Places
<1>2. Done = Len(file) /\ NamesDone = Len(file) /\ SegsDone = Len(file)
  BY DEF Done, NamesDone, SegsDone
<1>3. \A i \in 1..Len(file) : i <= Len(file)
  BY <1>1
<1>4. \A i, j : TBDone(i, j) <=> i \in 1..Len(file) /\ j \in 1..Len(file[i])
  BY <1>2, <1>3 DEF TBDone
<1> QED
  BY <1>1, <1>2, <1>4

LEMMA SegFields ==
    \A i : /\ SegObj(i).area = "segment" /\ SegObj(i).at = SegAt(i) /\ SegObj(i).of = <<i>>
           /\ SegObj(i).fields.name = NameAt(i) /\ SegObj(i).fields.tbs = TBsAt(i)
           /\ SegObj(i).fields.num = Len(file[i])
BY DEF SegObj, Object

LEMMA TBFields ==
    \A i, j : /\ TBObj(i, j).area = "tb" /\ TBObj(i, j).at = TBAt(i, j)
              /\ TBObj(i, j).of = <<i, j>>
              /\ TBObj(i, j).fields.code = CodeAt(i, j)
              /\ TBObj(i, j).fields.size = HowManyCode(file[i][j])
              /\ TBObj(i, j).fields.start = RelIndex(i, j)
              /\ TBObj(i, j).fields.end = RelIndex(i, j) + HowManyRel(file[i][j]) - 1
BY DEF TBObj, Object

LEMMA SegmentsAll ==
    ASSUME Wrote, pc = "done"
    PROVE  /\ SegmentsRead = {SegObj(i) : i \in 1..Len(file)}
           /\ Cardinality(SegmentsRead) = Len(file)
<1> DEFINE n == Len(file)
           S == {SegObj(i) : i \in 1..n}
           f == [i \in 1..n |-> SegObj(i)]
<1>1. n \in Nat /\ SegsDone = n /\ SegsIn
      /\ header.segtab = HeaderSize /\ header.segnum = n
  BY AtTheEnd DEF Wrote, Numbered
<1>2. ASSUME NEW o \in SegmentsRead
      PROVE  o \in S
  <2>1. o \in written /\ o.area = "segment"
    BY DEF SegmentsRead, Found
  <2> QED
    BY <1>1, <2>1 DEF SegsIn
<1>3. ASSUME NEW i \in 1..n
      PROVE  SegObj(i) \in SegmentsRead
  <2>1. SegObj(i) \in written
    BY <1>1, <1>3 DEF SegsIn
  <2>2. SegObj(i).area = "segment" /\ SegObj(i).at = header.segtab + (i - 1) * SegmentSize
    BY <1>1, SegFields DEF SegAt
  <2>3. i \in 1..header.segnum
    BY <1>1, <1>3
  <2> QED
    BY <2>1, <2>2, <2>3 DEF SegmentsRead, Found
<1>4. SegmentsRead = S
  BY <1>2, <1>3
<1>5. Cardinality(S) = n
  <2>1. f \in [1..n -> S]
    OBVIOUS
  <2>2. ASSUME NEW i \in 1..n, NEW j \in 1..n, f[i] = f[j]
        PROVE  i = j
    <3>1. <<i>> = <<j>>
      BY <2>2, SegFields
    <3> QED
      BY <3>1
  <2>3. \A o \in S : \E i \in 1..n : f[i] = o
    OBVIOUS
  <2> HIDE DEF f, S, n
  <2>4. f \in Bijection(1..n, S)
    BY <2>1, <2>2, <2>3 DEF Bijection, Injection, Surjection, IsInjective
  <2>5. ExistsBijection(1..n, S)
    BY <2>4 DEF ExistsBijection
  <2> QED
    BY <1>1, <2>5, FS_CountingElements
<1> QED
  BY <1>4, <1>5

LEMMA AppendOne == \A i \in Nat, j \in Nat : Append(<<i>>, j) = <<i, j>>
<1> SUFFICES ASSUME NEW i \in Nat, NEW j \in Nat
             PROVE  Append(<<i>>, j) = <<i, j>>
  OBVIOUS
<1>1. <<i>> \in Seq(Nat) /\ Len(<<i>>) = 1
  OBVIOUS
<1>2. <<i, j>> \in Seq(Nat) /\ Len(<<i, j>>) = 2 /\ <<i, j>>[1] = i /\ <<i, j>>[2] = j
  OBVIOUS
<1>3. /\ Append(<<i>>, j) \in Seq(Nat) /\ Len(Append(<<i>>, j)) = 2
      /\ Append(<<i>>, j)[1] = i /\ Append(<<i>>, j)[2] = j
  BY <1>1, AppendProperties
<1> DEFINE x == Append(<<i>>, j)
           y == <<i, j>>
<1>4. x \in Seq(Nat) /\ y \in Seq(Nat) /\ Len(x) = Len(y)
  BY <1>2, <1>3
<1>5. \A n \in 1..Len(x) : x[n] = y[n]
  <2>1. \A n \in 1..2 : n = 1 \/ n = 2
    OBVIOUS
  <2> QED
    BY <1>2, <1>3, <2>1
<1> HIDE DEF x, y
<1>6. x = y
  BY <1>4, <1>5, SeqEqual
<1> QED
  BY <1>6 DEF x, y

(* The reader finds every segment with its name, and every TB with its own *)
(* code, whatever the file and the sizes.                                  *)
THEOREM BlocksReadBack == Spec => []ReadsBackBlocks
<1>1. Wrote => ReadsBackBlocks
  <2> SUFFICES ASSUME Wrote, pc = "done"
               PROVE  /\ Cardinality(SegmentsRead) = Len(file)
                      /\ \A seg \in SegmentsRead :
                          /\ \E o \in Found("name", seg.fields.name) : o.of = seg.of
                          /\ \A j \in 1..seg.fields.num :
                              \E tb \in Found("tb", seg.fields.tbs + (j - 1) * TBSize) :
                                  /\ tb.of = Append(seg.of, j)
                                  /\ \E o \in Found("code", tb.fields.code) :
                                      o.of = tb.of /\ o.size = tb.fields.size
    BY DEF ReadsBackBlocks
  <2>1. NamesIn /\ TBsIn
    BY DEF Wrote
  <2>2. ASSUME NEW i \in 1..Len(file)
        PROVE  \E o \in Found("name", SegObj(i).fields.name) : o.of = SegObj(i).of
    <3>1. NameObj(i) \in written
      BY <2>1, AtTheEnd DEF NamesIn
    <3>2. NameObj(i).area = "name" /\ NameObj(i).at = NameAt(i) /\ NameObj(i).of = <<i>>
      BY DEF NameObj, Object
    <3> QED
      BY <3>1, <3>2, SegFields DEF Found
  <2>3. ASSUME NEW i \in 1..Len(file), NEW j \in 1..Len(file[i])
        PROVE  \E tb \in Found("tb", SegObj(i).fields.tbs + (j - 1) * TBSize) :
                   /\ tb.of = Append(SegObj(i).of, j)
                   /\ \E o \in Found("code", tb.fields.code) :
                       o.of = tb.of /\ o.size = tb.fields.size
    <3> DEFINE tb == TBObj(i, j)
               o  == CodeObj(i, j)
    <3>1. tb \in written /\ o \in written
      BY <2>1, AtTheEnd DEF TBsIn
    <3>2. tb \in Found("tb", SegObj(i).fields.tbs + (j - 1) * TBSize)
      BY <3>1, TBFields, SegFields DEF Found, TBAt
    <3>3. tb.of = Append(SegObj(i).of, j)
      <4>1. Append(<<i>>, j) = <<i, j>>
        BY AppendOne
      <4> QED
        BY <4>1, TBFields, SegFields
    <3>4. o.area = "code" /\ o.at = CodeAt(i, j) /\ o.of = <<i, j>>
          /\ o.size = HowManyCode(file[i][j])
      BY DEF CodeObj, Object
    <3> HIDE DEF o
    <3>5. o \in Found("code", tb.fields.code) /\ o.of = tb.of /\ o.size = tb.fields.size
      BY <3>1, <3>4, TBFields DEF Found
    <3> HIDE DEF tb
    <3> QED
      BY <3>2, <3>3, <3>5
  <2>4. ASSUME NEW seg \in SegmentsRead
        PROVE  /\ \E o \in Found("name", seg.fields.name) : o.of = seg.of
               /\ \A j \in 1..seg.fields.num :
                   \E tb \in Found("tb", seg.fields.tbs + (j - 1) * TBSize) :
                       /\ tb.of = Append(seg.of, j)
                       /\ \E o \in Found("code", tb.fields.code) :
                           o.of = tb.of /\ o.size = tb.fields.size
    <3>1. PICK i \in 1..Len(file) : seg = SegObj(i)
      BY SegmentsAll
    <3>2. seg.fields.num = Len(file[i])
      BY <3>1, SegFields
    <3> QED
      BY <2>2, <2>3, <3>1, <3>2
  <2> QED
    BY <2>4, SegmentsAll
<1> QED
  BY <1>1, AlwaysWrote, PTL

LEMMA AppendTwo == \A i \in Nat, j \in Nat, n \in Nat : Append(<<i, j>>, n) = <<i, j, n>>
<1> SUFFICES ASSUME NEW i \in Nat, NEW j \in Nat, NEW n \in Nat
             PROVE  Append(<<i, j>>, n) = <<i, j, n>>
  OBVIOUS
<1> DEFINE z == <<i, j>>
           x == Append(z, n)
           y == <<i, j, n>>
<1>1. z \in Seq(Nat) /\ Len(z) = 2 /\ z[1] = i /\ z[2] = j
  OBVIOUS
<1>2. y \in Seq(Nat) /\ Len(y) = 3 /\ y[1] = i /\ y[2] = j /\ y[3] = n
  OBVIOUS
<1> HIDE DEF z, y
<1>3. /\ x \in Seq(Nat) /\ Len(x) = 3 /\ x[1] = i /\ x[2] = j /\ x[3] = n
  <2>1. z \in Seq(Nat) /\ n \in Nat
    BY <1>1
  <2>2. x \in Seq(Nat)
    BY <2>1, AppendProperties
  <2>3. Len(x) = Len(z) + 1
    BY <2>1, AppendProperties
  <2>4. x[Len(z) + 1] = n
    BY <2>1, AppendProperties
  <2>5. \A m \in 1..Len(z) : x[m] = z[m]
    BY <2>1, AppendProperties
  <2>6. 1 \in 1..2 /\ 2 \in 1..2 /\ 2 + 1 = 3
    OBVIOUS
  <2> QED
    BY <1>1, <2>2, <2>3, <2>4, <2>5, <2>6
<1> HIDE DEF x
<1>4. \A m \in 1..Len(x) : x[m] = y[m]
  <2>1. \A m \in 1..3 : m = 1 \/ m = 2 \/ m = 3
    OBVIOUS
  <2> QED
    BY <1>2, <1>3, <2>1
<1>5. x = y
  BY <1>2, <1>3, <1>4, SeqEqual
<1> QED
  BY <1>5 DEF x, y, z

(* The relocations of an earlier TB have smaller indices.                  *)
LEMMA IndexGrows ==
    ASSUME file \in Seq(Seq(TBShape)),
           NEW i \in 1..Len(file), NEW j \in 1..Len(file[i]),
           NEW a \in 1..Len(file), NEW b \in 1..Len(file[a]),
           a < i \/ (a = i /\ b < j)
    PROVE  RelIndex(a, b) + HowManyRel(file[a][b]) <= RelIndex(i, j)
<1>1. Len(file) \in Nat /\ Len(file[i]) \in Nat
  BY ToFacts, InFacts
<1>2. /\ RelIndex(a, b) \in Nat /\ HowManyRel(file[a][b]) \in Nat
      /\ RelIndex(a, b) + HowManyRel(file[a][b]) <= RelsTo(a)
      /\ RelIndex(a, b + 1) = RelIndex(a, b) + HowManyRel(file[a][b])
      /\ RelIndex(i, j) \in Nat
  BY RelIndexFacts
<1>3. i - 1 \in 0..Len(file) /\ j - 1 \in 0..Len(file[i])
  BY <1>1
<1>4. RelsTo(i - 1) \in Nat /\ RelsIn(i, j - 1) \in Nat
  <2>1. RelsTo(i - 1) \in Nat
    BY <1>3, ToFacts
  <2>2. RelsIn(i, j - 1) \in Nat
    BY <1>3, InFacts
  <2> QED
    BY <2>1, <2>2
<1>5. CASE a < i
  <2>1. a \in 0..Len(file) /\ a <= i - 1
    BY <1>1, <1>5
  <2>2. RelsTo(a) <= RelsTo(i - 1) /\ RelsTo(a) \in Nat
    <3>1. RelsOfAll(file) \in Seq(Nat) /\ Len(RelsOfAll(file)) = Len(file)
      BY FileNumbers
    <3>2. \A x, y \in 0..Len(file) : x <= y => RelsTo(x) <= RelsTo(y)
      BY <3>1, SumsFacts DEF RelsTo
    <3>3. RelsTo(a) \in Nat
      BY <2>1, ToFacts
    <3> QED
      BY <1>3, <2>1, <3>2, <3>3
  <2>3. RelIndex(i, j) = RelsTo(i - 1) + RelsIn(i, j - 1)
    BY DEF RelIndex
  <2> QED
    BY <1>2, <1>4, <2>2, <2>3
<1>6. CASE a = i /\ b < j
  <2>1. b \in 0..Len(file[i]) /\ b <= j - 1 /\ (b + 1) - 1 = b
    BY <1>1, <1>6
  <2>2. RelsIn(i, b) <= RelsIn(i, j - 1) /\ RelsIn(i, b) \in Nat
    <3>1. file[i] \in Seq(TBShape)
      BY FileNumbers
    <3>2. RelsOf(file[i]) \in Seq(Nat) /\ Len(RelsOf(file[i])) = Len(file[i])
      BY <3>1, SegNumbers
    <3>3. \A x, y \in 0..Len(file[i]) : x <= y => RelsIn(i, x) <= RelsIn(i, y)
      BY <3>2, SumsFacts DEF RelsIn
    <3>4. RelsIn(i, b) \in Nat
      BY <2>1, InFacts
    <3> QED
      BY <1>3, <2>1, <3>3, <3>4
  <2>3. RelIndex(i, j) = RelsTo(i - 1) + RelsIn(i, j - 1)
        /\ RelIndex(a, b + 1) = RelsTo(i - 1) + RelsIn(i, b)
    BY <1>6, <2>1 DEF RelIndex
  <2> QED
    BY <1>2, <1>4, <2>2, <2>3
<1> QED
  BY <1>5, <1>6

(* A TB gets back exactly its valid relocations, in order, whatever the    *)
(* file and the sizes, if it or a TB before it has one.                    *)
THEOREM RelsReadBack == Spec => []ReadsBackRels
<1>1. Wrote => ReadsBackRels
  <2> SUFFICES ASSUME Wrote, pc = "done", NEW tb \in written, tb.area = "tb",
                      NEW q \in Earlier(tb.of), HowManyRel(file[q[1]][q[2]]) > 0
               PROVE  /\ Cardinality(RelsRead(tb)) = Len(ValidRels(file[tb.of[1]][tb.of[2]]))
                      /\ \A n \in RelsRead(tb) :
                          /\ n < header.relnum
                          /\ \E o \in Found("rel", header.reltable + n * RelSize) :
                              o.of = Append(tb.of, ValidRels(file[tb.of[1]][tb.of[2]])
                                                        [n - tb.fields.start + 1])
    BY DEF ReadsBackRels
  <2>1. TBsIn /\ Numbered /\ file \in Seq(Seq(TBShape)) /\ Len(file) \in Nat
    BY AtTheEnd DEF Wrote
  <2>2. PICK i \in 1..Len(file) : \E j \in 1..Len(file[i]) : tb = TBObj(i, j)
    BY <2>1, AtTheEnd DEF TBsIn
  <2>3. PICK j \in 1..Len(file[i]) : tb = TBObj(i, j)
    BY <2>2
  <2> DEFINE valid == ValidRels(file[i][j])
             m     == HowManyRel(file[i][j])
             first == RelIndex(i, j)
  <2>4. /\ tb.of = <<i, j>> /\ tb.of[1] = i /\ tb.of[2] = j
        /\ tb.fields.start = first /\ tb.fields.end = first + m - 1
    BY <2>3, TBFields
  <2>5. PICK o \in written : o.area = "tb" /\ q = o.of
    BY DEF Earlier
  <2>6. PICK a \in 1..Len(file) : \E b \in 1..Len(file[a]) : o = TBObj(a, b)
    BY <2>1, <2>5, AtTheEnd DEF TBsIn
  <2>7. PICK b \in 1..Len(file[a]) : o = TBObj(a, b)
    BY <2>6
  <2>8. q = <<a, b>> /\ q[1] = a /\ q[2] = b /\ HowManyRel(file[a][b]) > 0
    BY <2>5, <2>7, TBFields
  <2>9. a < i \/ (a = i /\ b <= j)
    BY <2>4, <2>8 DEF Earlier
  <2>10. /\ first \in Nat /\ m \in Nat /\ file[i][j] \in TBShape
         /\ first + m <= RelsTo(i)
         /\ RelIndex(a, b) \in Nat /\ HowManyRel(file[a][b]) \in Nat
    BY <2>1, RelIndexFacts
  <2>11. Len(file[i]) \in Nat
    BY <2>1, InFacts
  <2>12. first > 0 \/ m > 0
    <3>1. CASE a = i /\ b = j
      BY <2>8, <3>1
    <3>2. CASE a < i \/ (a = i /\ b < j)
      <4>1. RelIndex(a, b) + HowManyRel(file[a][b]) <= first
        BY <2>1, <3>2, IndexGrows
      <4> HIDE DEF first
      <4> QED
        BY <2>8, <2>10, <4>1
    <3>3. b = j \/ b < j \/ ~ (b <= j)
      BY <2>11
    <3> QED
      BY <2>9, <3>1, <3>2, <3>3
  <2>13. /\ valid \in Seq(1..Len(file[i][j].rels)) /\ Len(valid) = m
    BY <2>10, ValidRelsType DEF HowManyRel
  <2>14. \A p \in 1..m : valid[p] \in Nat
    <3>1. \A p \in 1..m : valid[p] \in 1..Len(file[i][j].rels)
      BY <2>13, ElementOfSeq
    <3>2. Len(file[i][j].rels) \in Nat
      BY <2>10, LenProperties DEF TBShape
    <3> HIDE DEF valid, m
    <3> QED
      BY <3>1, <3>2
  <2>15. TBDone(i, j) /\ \A p \in 1..m : RelObj(i, j, p) \in written
    BY <2>1, AtTheEnd DEF TBsIn
  <2>16. /\ header.relnum = RelsTo(Len(file))
         /\ RelsTo(Len(file)) > 0 => header.reltable = RelTab
    BY <2>1, AtTheEnd DEF Numbered
  <2>17. /\ RelsTo(i) <= RelsTo(Len(file)) /\ RelsTo(i) \in Nat /\ RelsTo(Len(file)) \in Nat
    <3>1. i \in 0..Len(file) /\ Len(file) \in 0..Len(file)
      BY <2>1
    <3> QED
      BY <2>1, <3>1, ToFacts
  <2> HIDE DEF first, m, valid
  <2>18. RelsRead(tb) = first..first + m - 1
    <3>1. Word(first) = first /\ Word(first + m - 1) = first + m - 1
      BY <2>10, <2>12 DEF Word
    <3> QED
      BY <2>4, <3>1 DEF RelsRead
  <2>19. Cardinality(RelsRead(tb)) = m
    <3>1. first \in Int /\ first + m - 1 \in Int
      BY <2>10
    <3> DEFINE last == first + m - 1
    <3>2. Cardinality(first..last) = IF first > last THEN 0 ELSE last - first + 1
      <4> HIDE DEF last
      <4> QED
        BY <3>1, FS_Interval DEF last
    <3> QED
      BY <2>10, <2>18, <3>2
  <2>20. ASSUME NEW n \in RelsRead(tb)
         PROVE  /\ n < header.relnum
                /\ \E x \in Found("rel", header.reltable + n * RelSize) :
                    x.of = Append(tb.of, valid[n - tb.fields.start + 1])
    <3> DEFINE p == n - first + 1
               x == RelObj(i, j, p)
    <3>1. n \in Nat /\ n < first + m /\ p \in 1..m /\ first + (p - 1) = n
      <4>1. n \in first..first + m - 1
        BY <2>18
      <4>2. first \in Nat /\ m \in Nat
        BY <2>10
      <4>3. n \in Nat /\ first <= n /\ n < first + m
        BY <4>1, <4>2
      <4> QED
        BY <4>2, <4>3
    <3>2. n < RelsTo(Len(file)) /\ RelsTo(Len(file)) > 0
      BY <2>10, <2>17, <3>1, SMTT(30)
    <3> HIDE DEF p
    <3>3. x \in written
      BY <2>15, <3>1
    <3>4. /\ x.area = "rel" /\ x.at = RelTab + n * RelSize
          /\ x.of = <<i, j, valid[p]>>
      BY <3>1 DEF RelObj, Object, first, valid
    <3> HIDE DEF x
    <3>5. x \in Found("rel", header.reltable + n * RelSize)
      BY <2>16, <3>2, <3>3, <3>4 DEF Found
    <3>6. x.of = Append(tb.of, valid[n - tb.fields.start + 1])
      <4>1. valid[p] \in Nat /\ i \in Nat /\ j \in Nat
        BY <2>14, <3>1
      <4>2. Append(<<i, j>>, valid[p]) = <<i, j, valid[p]>>
        BY <4>1, AppendTwo
      <4> QED
        BY <2>4, <3>4, <4>2 DEF p
    <3> QED
      BY <2>16, <3>2, <3>5, <3>6
  <2> QED
    BY <2>4, <2>13, <2>19, <2>20 DEF valid
<1> QED
  BY <1>1, AlwaysWrote, PTL

-----------------------------------------------------------------------------
(* Which bytes are left out.                                               *)

(* Between where a row of numbers begins and where it ends, each number    *)
(* lies between two neighbours of the row,                                 *)
LEMMA InStep ==
    ASSUME NEW n \in Nat, NEW f, \A i \in 0..n : f[i] \in Nat,
           NEW b \in Nat, f[0] <= b, b < f[n]
    PROVE  \E i \in 1..n : f[i - 1] <= b /\ b < f[i]
<1> DEFINE T == {i \in Nat : i <= n /\ b < f[i]}
<1>1. T \subseteq Nat /\ T # {}
  BY DEF T
<1>2. PICK x \in T : \A y \in T : x <= y
  <2> HIDE DEF T
  <2> QED
    BY <1>1, LeastNatural
<1>3. x \in Nat /\ x <= n /\ b < f[x]
  OBVIOUS
<1>4. x # 0
  <2>1. f[0] \in Nat
    OBVIOUS
  <2> QED
    BY <1>3, <2>1
<1>5. x \in 1..n /\ x - 1 \in Nat /\ x - 1 <= n /\ x - 1 \in 0..n /\ ~ (x <= x - 1)
  BY <1>3, <1>4
<1>6. ~ (b < f[x - 1])
  BY <1>2, <1>5
<1>7. f[x - 1] \in Nat
  BY <1>5
<1>8. f[x - 1] <= b
  BY <1>6, <1>7
<1> QED
  BY <1>3, <1>5, <1>8

(* and in a row of objects of one size in one of them.                     *)
LEMMA InRow ==
    ASSUME NEW n \in Nat, NEW z \in Nat, NEW base \in Nat, NEW b \in Nat,
           base <= b, b < base + n * z
    PROVE  \E i \in 1..n : base + (i - 1) * z <= b /\ b < (base + (i - 1) * z) + z
<1> DEFINE f == [i \in 0..n |-> base + i * z]
<1>1. \A i \in Nat : i * z \in Nat /\ (i + 1) * z = i * z + z
  BY Products
<1>2. \A i \in 0..n : f[i] = base + i * z /\ f[i] \in Nat
  <2> SUFFICES ASSUME NEW i \in 0..n PROVE f[i] = base + i * z /\ f[i] \in Nat
    OBVIOUS
  <2>1. i * z \in Nat
    BY <1>1
  <2>2. base + i * z \in Nat
    BY <2>1
  <2> QED
    BY <2>2
<1>3. f[0] = base
  <2>1. 0 * z = 0 /\ 0 \in 0..n /\ base + 0 = base
    OBVIOUS
  <2> QED
    BY <2>1, <1>2
<1>4. f[n] = base + n * z
  BY <1>2
<1> HIDE DEF f
<1>5. PICK i \in 1..n : f[i - 1] <= b /\ b < f[i]
  BY <1>2, <1>3, <1>4, InStep
<1>6. i - 1 \in 0..n /\ i \in 0..n /\ i - 1 \in Nat /\ (i - 1) + 1 = i
  OBVIOUS
<1>7. f[i - 1] = base + (i - 1) * z /\ f[i] = base + i * z
  BY <1>2, <1>6
<1>8. i * z = (i - 1) * z + z /\ (i - 1) * z \in Nat
  BY <1>1, <1>6
<1>9. base + i * z = (base + (i - 1) * z) + z
  <2> DEFINE x == (i - 1) * z
             y == i * z
  <2>1. x \in Nat /\ y = x + z
    BY <1>8
  <2> HIDE DEF x, y
  <2>2. base + y = (base + x) + z
    BY <2>1
  <2> QED
    BY <2>2 DEF x, y
<1> QED
  BY <1>5, <1>7, <1>9

(* and in one only.                                                        *)
LEMMA OnceInRow ==
    ASSUME NEW z \in Nat, NEW base \in Nat, NEW b \in Nat,
           NEW i \in Nat \ {0}, NEW j \in Nat \ {0},
           base + (i - 1) * z <= b, b < base + (i - 1) * z + z,
           base + (j - 1) * z <= b, b < base + (j - 1) * z + z
    PROVE  i = j
<1>1. ASSUME NEW x \in Nat, NEW y \in Nat, x < y,
             base + y * z <= b, b < base + x * z + z
      PROVE  FALSE
  <2>1. x * z \in Nat /\ y * z \in Nat /\ (x + 1) * z = x * z + z
    BY Products
  <2>2. x + 1 \in Nat /\ x + 1 <= y
    BY <1>1
  <2>3. (x + 1) * z <= y * z
    BY <2>2, Products
  <2> DEFINE u == x * z
             v == y * z
             w == (x + 1) * z
  <2>4. u \in Nat /\ v \in Nat /\ w = u + z /\ w <= v /\ base + v <= b /\ b < base + u + z
    BY <1>1, <2>1, <2>3
  <2> HIDE DEF u, v, w
  <2> QED
    BY <2>4
<1> DEFINE x == i - 1
           y == j - 1
<1>2. /\ x \in Nat /\ y \in Nat
      /\ base + x * z <= b /\ b < base + x * z + z
      /\ base + y * z <= b /\ b < base + y * z + z
  OBVIOUS
<1> HIDE DEF x, y
<1>3. ~ (x < y) /\ ~ (y < x)
  BY <1>1, <1>2
<1>4. x = y
  BY <1>2, <1>3
<1> QED
  BY <1>4 DEF x, y

(* A byte inside an object that has been written.                          *)
Written(b) == \E o \in written : o.at <= b /\ b < o.at + o.size

(* Where the areas are when all is written, all of it numbers.             *)
LEMMA AreaEnds ==
    ASSUME Wrote, pc = "done"
    PROVE  /\ file \in Seq(Seq(TBShape)) /\ Len(file) \in Nat
           /\ HeaderSize \in Nat /\ Names \in Nat /\ TBTab \in Nat /\ RelTab \in Nat
           /\ CodeTab \in Nat /\ Limit \in Nat /\ Limit = FileBytes(file)
<1>1. file \in Seq(Seq(TBShape)) /\ Len(file) \in Nat
  BY AtTheEnd
<1> QED
  BY <1>1, Layout, AreaNames, SizesAreNat

(* The segment's entries and the names, up to their ends.                  *)
LEMMA EntryWritten ==
    ASSUME Wrote, pc = "done", NEW b \in Nat, HeaderSize <= b, b < Names
    PROVE  \E i \in 1..Len(file) : Written(b) \/ b \in Padding(i)
<1>1. /\ Len(file) \in Nat /\ HeaderSize \in Nat
      /\ SegmentSize \in Nat /\ SegmentData \in Nat
  BY AreaEnds, SizesAreNat
<1>2. PICK i \in 1..Len(file) :
          /\ HeaderSize + (i - 1) * SegmentSize <= b
          /\ b < (HeaderSize + (i - 1) * SegmentSize) + SegmentSize
  BY <1>1, InRow DEF Names
<1>3. /\ SegAt(i) \in Nat /\ SegAt(i) <= b /\ b < SegAt(i) + SegmentSize
  <2>1. i - 1 \in Nat
    BY <1>1
  <2>2. HeaderSize + (i - 1) * SegmentSize \in Nat
    BY <1>1, <2>1, Between
  <2> QED
    BY <1>2, <2>2 DEF SegAt
<1>4. CASE b < SegAt(i) + SegmentData
  <2>1. SegObj(i) \in written
    BY AtTheEnd DEF Wrote, SegsIn
  <2>2. SegObj(i).at = SegAt(i) /\ SegObj(i).size = SegmentData
    BY DEF SegObj, Object
  <2>3. Written(b)
    BY <1>3, <1>4, <2>1, <2>2, Zenon DEF Written
  <2> QED
    BY <2>3
<1>5. CASE ~ (b < SegAt(i) + SegmentData)
  <2>1. b \in Padding(i)
    BY <1>1, <1>3, <1>5 DEF Padding
  <2> QED
    BY <2>1
<1> QED
  BY <1>4, <1>5

LEMMA NameWritten ==
    ASSUME Wrote, NamesFit, pc = "done", NEW b \in Nat, Names <= b, b < TBTab
    PROVE  \E i \in 1..Len(file) : Written(b) \/ b \in BehindName(i)
<1>1. Len(file) \in Nat /\ Names \in Nat /\ NameSize \in Nat
  BY AreaEnds, SizesAreNat
<1>2. PICK i \in 1..Len(file) :
          /\ Names + (i - 1) * NameSize <= b
          /\ b < (Names + (i - 1) * NameSize) + NameSize
  BY <1>1, InRow DEF TBTab
<1>3. /\ NameAt(i) \in Nat /\ NameAt(i) <= b /\ b < NameAt(i) + NameSize
  <2>1. i - 1 \in Nat
    BY <1>1
  <2>2. Names + (i - 1) * NameSize \in Nat
    BY <1>1, <2>1, Between
  <2> QED
    BY <1>2, <2>2 DEF NameAt
<1>4. names[i] \in Nat
  BY NameFits
<1>5. CASE b < NameAt(i) + (names[i] + 1)
  <2>1. NameObj(i) \in written
    BY AtTheEnd DEF Wrote, NamesIn
  <2>2. NameObj(i).at = NameAt(i) /\ NameObj(i).size = names[i] + 1
    BY DEF NameObj, Object
  <2>3. Written(b)
    BY <1>3, <1>5, <2>1, <2>2, Zenon DEF Written
  <2> QED
    BY <2>3
<1>6. CASE ~ (b < NameAt(i) + (names[i] + 1))
  <2>1. b \in BehindName(i)
    BY <1>1, <1>3, <1>4, <1>6 DEF BehindName
  <2> QED
    BY <2>1
<1> QED
  BY <1>5, <1>6

(* What else is known of the objects and of the header: the names are no   *)
(* more than that, and the table's place is unset while no relocation has  *)
(* been written.                                                           *)
NoMore ==
    /\ \A o \in written : o.area = "name" => \E i \in 1..Len(file) : o = NameObj(i)
    /\ relCurIndex = 0 => header.reltable = Unset

LEMMA SameNames ==
    ASSUME NoMore, file' = file, names' = names, NEW N, written' = written \cup N,
           \A o \in N : o.area = "name" => \E i \in 1..Len(file) : o = NameObj(i),
           relCurIndex' = 0 => header'.reltable = Unset
    PROVE  NoMore'
<1>1. \A i : NameObj(i)' = NameObj(i)
  BY SameObjects
<1>2. \A o \in written' : o.area = "name" => \E i \in 1..Len(file) : o = NameObj(i)
  BY DEF NoMore
<1> QED
  BY <1>1, <1>2 DEF NoMore, Unset

LEMMA AlwaysNoMore == Spec => []NoMore
<1>1. Init => NoMore
  <2> SUFFICES ASSUME Init
               PROVE  NoMore
    OBVIOUS
  <2> DEFINE h == Object("header", 0, HeaderSize, <<>>, <<>>)
  <2>1. written = {h} /\ h.area = "header"
    BY ObjectFields DEF Init
  <2> HIDE DEF h
  <2>2. header.reltable = Unset
    BY DEF Init
  <2> QED
    BY <2>1, <2>2 DEF NoMore
<1>2. WInv /\ Wrote /\ NoMore /\ [Next]_vars => NoMore'
  <2> SUFFICES ASSUME WInv, Wrote, NoMore, [Next]_vars
               PROVE  NoMore'
    OBVIOUS
  <2>1. CASE WriteName
    <3> DEFINE o == Object("name", cursor["name"], names[s] + 1, <<s>>, <<>>)
    <3>1. /\ pc = "names" /\ file' = file /\ names' = names /\ header' = header
          /\ relCurIndex' = relCurIndex /\ written' = written \cup {o}
      BY <2>1 DEF WriteName
    <3>2. o = NameObj(s) /\ s \in 1..Len(file)
      BY <3>1 DEF Places, Wrote, NameObj, NameAt
    <3> HIDE DEF o
    <3> DEFINE N == {o}
    <3>3. \A x \in N : x.area = "name" => \E i \in 1..Len(file) : x = NameObj(i)
      BY <3>2
    <3>4. relCurIndex' = 0 => header'.reltable = Unset
      BY <3>1 DEF NoMore
    <3>5. file' = file /\ names' = names /\ written' = written \cup N
      BY <3>1
    <3> HIDE DEF N
    <3> QED
      BY <3>3, <3>4, <3>5, SameNames
  <2>2. CASE WriteSegment
    <3> DEFINE o == Object("segment", cursor["segment"], SegmentData, <<s>>,
                           [name |-> NameAt(s), tbs |-> cursor["tb"], num |-> Len(file[s])])
    <3>1. /\ file' = file /\ names' = names /\ header' = header
          /\ relCurIndex' = relCurIndex /\ written' = written \cup {o}
      BY <2>2 DEF WriteSegment
    <3>2. o.area = "segment"
      BY ObjectFields
    <3> HIDE DEF o
    <3> QED
      BY <3>1, <3>2, SameNames DEF NoMore
  <2>3. CASE WriteTB
    <3> DEFINE tb     == file[s][k]
               valid  == ValidRels(tb)
               range  == RelRange(relCurIndex, Len(valid))
               entry  == Object("tb", local["tb"], TBSize, <<s, k>>,
                                [code |-> local["code"], size |-> HowManyCode(tb),
                                 start |-> range.start, end |-> range.end])
               code   == Object("code", local["code"], HowManyCode(tb), <<s, k>>, <<>>)
               rel(j) == Object("rel", local["rel"] + (j - 1) * RelSize, RelSize,
                                <<s, k, valid[j]>>, <<>>)
               N      == {entry} \cup {code} \cup {rel(j) : j \in DOMAIN valid}
    <3>1. /\ file' = file /\ names' = names /\ pc = "tbs" /\ k <= Len(file[s])
          /\ written' = written \cup {entry} \cup {code} \cup {rel(j) : j \in DOMAIN valid}
          /\ header' = [header EXCEPT !.reltable = IF relCurIndex = 0 /\ valid # <<>>
                                                   THEN local["rel"] ELSE @]
          /\ relCurIndex' = relCurIndex + Len(valid)
      BY <2>3 DEF WriteTB
    <3>2. entry.area = "tb" /\ code.area = "code" /\ \A j : rel(j).area = "rel"
      BY ObjectFields
    <3>3. relCurIndex \in Nat /\ valid \in Seq(1..Len(tb.rels))
      <4>1. /\ Len(file) \in Nat /\ s \in 1..Len(file) /\ file \in Seq(Seq(TBShape))
            /\ relCurIndex = RelIndex(s, k) /\ k \in 1..Len(file[s])
        <5>1. Len(file) \in Nat /\ s \in 1..Len(file) /\ file \in Seq(Seq(TBShape))
          BY Now
        <5>2. Len(file[s]) \in Nat
          BY <5>1, InFacts
        <5> QED
          BY <3>1, <5>1, <5>2 DEF Wrote, Places, Numbered
      <4>2. relCurIndex \in Nat /\ tb \in TBShape
        BY <4>1, RelIndexFacts
      <4> QED
        BY <4>2, ValidRelsType
    <3> HIDE DEF entry, code, rel, valid
    <3>4. Len(valid) \in Nat /\ (Len(valid) = 0 => valid = <<>>)
      BY <3>3, LenProperties, EmptySeq
    <3>5. \A o \in N : o.area # "name"
      BY <3>2
    <3>6. written' = written \cup N
      BY <3>1
    <3> HIDE DEF N
    <3>7. relCurIndex' = 0 => header'.reltable = Unset
      <4>1. relCurIndex' = 0 => relCurIndex = 0 /\ valid = <<>>
        BY <3>1, <3>3, <3>4
      <4>2. header \in [segtab : Nat, segnum : Nat, reltable : Int, relnum : Int]
        BY DEF Wrote, Numbered
      <4>3. valid = <<>> => header'.reltable = header.reltable
        BY <3>1, <4>2
      <4> QED
        BY <4>1, <4>3 DEF NoMore
    <3> QED
      BY <3>1, <3>5, <3>6, <3>7, SameNames
  <2>4. CASE EndSegment
    <3>1. /\ file' = file /\ names' = names /\ written' = written \cup {}
          /\ relCurIndex' = relCurIndex /\ header' = [header EXCEPT !.relnum = relCurIndex]
      BY <2>4 DEF EndSegment
    <3>2. header \in [segtab : Nat, segnum : Nat, reltable : Int, relnum : Int]
      BY DEF Wrote, Numbered
    <3>3. header'.reltable = header.reltable
      BY <3>1, <3>2
    <3> QED
      BY <3>1, <3>3, SameNames DEF NoMore
  <2>5. CASE UNCHANGED vars
    <3>1. /\ file' = file /\ names' = names /\ written' = written \cup {}
          /\ relCurIndex' = relCurIndex /\ header' = header
      BY <2>5 DEF vars
    <3> QED
      BY <3>1, SameNames DEF NoMore
  <2> QED
    BY <2>1, <2>2, <2>3, <2>4, <2>5 DEF Next
<1> QED
  BY <1>1, <1>2, Inductive, AlwaysWrote, PTL DEF Spec

(* An object lies in the area whose bytes it covers.                       *)
LEMMA CoversItsArea ==
    ASSUME WInv, NEW o \in written, NEW b \in Nat, o.at <= b, b < o.at + o.size,
           NEW a \in AllAreas, Base(a) <= b, b < Top(a)
    PROVE  o.area = a
<1>1. file \in Seq(Seq(TBShape)) /\ Places /\ Laid(written, Fill)
  BY DEF WInv, Places
<1>2. Fill \in [AllAreas -> Nat] /\ \A x \in AllAreas : Fill[x] <= Top(x)
  BY <1>1, FillBounds
<1>3. /\ o.area \in AllAreas /\ o.at \in Nat /\ o.size \in Nat
      /\ Base(o.area) <= o.at /\ o.at + o.size <= Fill[o.area]
  BY <1>1 DEF Laid
<1>4. /\ Base(o.area) \in Nat /\ Top(o.area) \in Nat /\ Base(a) \in Nat /\ Top(a) \in Nat
  BY <1>1, <1>3, Layout
<1>5. Fill[o.area] \in Nat /\ Fill[o.area] <= Top(o.area)
  BY <1>2, <1>3
<1>6. ~ (Top(o.area) <= Base(a)) /\ ~ (Top(a) <= Base(o.area))
  BY <1>3, <1>4, <1>5
<1> QED
  BY <1>1, <1>3, <1>6, AreasApart

(* No object covers the padding of a segment's entry,                      *)
LEMMA PaddingUntouched ==
    ASSUME WInv, Wrote, pc = "done", NEW i \in 1..Len(file), NEW b \in Padding(i)
    PROVE  b \in Nat /\ HeaderSize <= b /\ b < Names /\ ~ Written(b)
<1>1. /\ Len(file) \in Nat /\ HeaderSize \in Nat
      /\ SegmentSize \in Nat /\ SegmentData \in Nat /\ SegmentData <= SegmentSize
  BY AreaEnds, SizesAreNat
<1>2. i - 1 \in Nat /\ i \in Nat /\ i - 1 <= Len(file) /\ i <= Len(file) /\ (i - 1) + 1 = i
  BY <1>1
<1>3. /\ SegAt(i) \in Nat /\ HeaderSize <= SegAt(i)
      /\ SegAt(i) + SegmentSize <= Names /\ Names \in Nat
  <2>1. HeaderSize <= SegAt(i) /\ SegAt(i) \in Nat
    BY <1>1, <1>2, Between DEF SegAt
  <2>2. HeaderSize + i * SegmentSize <= Names
    BY <1>1, <1>2, Between DEF Names
  <2>3. i * SegmentSize = (i - 1) * SegmentSize + SegmentSize
    <3>1. ((i - 1) + 1) * SegmentSize = (i - 1) * SegmentSize + SegmentSize
      BY <1>1, <1>2, Products
    <3> QED
      BY <1>2, <3>1
  <2>4. (i - 1) * SegmentSize \in Nat
    BY <1>1, <1>2, Products
  <2> DEFINE x == (i - 1) * SegmentSize
             y == i * SegmentSize
  <2>5. x \in Nat /\ y = x + SegmentSize /\ SegAt(i) = HeaderSize + x /\ HeaderSize + y <= Names
    BY <2>2, <2>3, <2>4 DEF SegAt
  <2> HIDE DEF x, y
  <2>6. Names \in Nat
    BY AreaEnds
  <2> QED
    BY <1>1, <2>1, <2>5, <2>6
<1>4. /\ b \in Nat /\ HeaderSize <= b /\ b < Names
      /\ SegAt(i) + SegmentData <= b /\ SegAt(i) <= b /\ b < SegAt(i) + SegmentSize
  BY <1>1, <1>3 DEF Padding
<1>5. ASSUME NEW o \in written, o.at <= b, b < o.at + o.size
      PROVE  FALSE
  <2>1. o.area = "segment"
    BY <1>4, <1>5, CoversItsArea, AreaNames
  <2>2. PICK j \in 1..Len(file) : o = SegObj(j)
    BY <2>1, AtTheEnd DEF Wrote, SegsIn
  <2>3. SegAt(j) <= b /\ b < SegAt(j) + SegmentData
    BY <1>5, <2>2 DEF SegObj, Object
  <2>4. SegAt(j) \in Nat
    <3>1. j - 1 \in Nat
      BY <1>1
    <3> QED
      BY <1>1, <3>1, Between DEF SegAt
  <2>5. b < SegAt(j) + SegmentSize
    BY <1>1, <1>4, <2>3, <2>4
  <2>6. i \in Nat \ {0} /\ j \in Nat \ {0}
    BY <1>1
  <2>7. i = j
    BY <1>1, <1>4, <2>3, <2>5, <2>6, OnceInRow DEF SegAt
  <2>8. ~ (b < SegAt(i) + SegmentData)
    BY <1>1, <1>3, <1>4
  <2> QED
    BY <2>3, <2>7, <2>8
<1> QED
  BY <1>4, <1>5 DEF Written

(* or what is behind a name.                                               *)
LEMMA BehindUntouched ==
    ASSUME WInv, Wrote, NoMore, NamesFit, pc = "done",
           NEW i \in 1..Len(file), NEW b \in BehindName(i)
    PROVE  b \in Nat /\ Names <= b /\ b < TBTab /\ ~ Written(b)
<1>1. Len(file) \in Nat /\ Names \in Nat /\ NameSize \in Nat /\ TBTab \in Nat
  BY AreaEnds, SizesAreNat
<1>2. i - 1 \in Nat /\ i \in Nat /\ i - 1 <= Len(file) /\ i <= Len(file) /\ (i - 1) + 1 = i
  BY <1>1
<1>3. /\ NameAt(i) \in Nat /\ Names <= NameAt(i)
      /\ NameAt(i) + NameSize <= TBTab
  <2>1. Names <= NameAt(i) /\ NameAt(i) \in Nat
    BY <1>1, <1>2, Between DEF NameAt
  <2>2. Names + i * NameSize <= TBTab
    BY <1>1, <1>2, Between DEF TBTab
  <2>3. i * NameSize = (i - 1) * NameSize + NameSize
    <3>1. ((i - 1) + 1) * NameSize = (i - 1) * NameSize + NameSize
      BY <1>1, <1>2, Products
    <3> QED
      BY <1>2, <3>1
  <2>4. (i - 1) * NameSize \in Nat
    BY <1>1, <1>2, Products
  <2> DEFINE x == (i - 1) * NameSize
             y == i * NameSize
  <2>5. x \in Nat /\ y = x + NameSize /\ NameAt(i) = Names + x /\ Names + y <= TBTab
    BY <2>2, <2>3, <2>4 DEF NameAt
  <2> HIDE DEF x, y
  <2> QED
    BY <1>1, <2>1, <2>5
<1>4. \A j \in 1..Len(file) : names[j] \in Nat /\ names[j] + 1 <= NameSize
  BY NameFits
<1>5. /\ b \in Nat /\ Names <= b /\ b < TBTab
      /\ ~ (b < NameAt(i) + (names[i] + 1)) /\ NameAt(i) <= b /\ b < NameAt(i) + NameSize
  <2>1. names[i] \in Nat
    BY <1>4
  <2> QED
    BY <1>1, <1>3, <2>1 DEF BehindName
<1>6. ASSUME NEW o \in written, o.at <= b, b < o.at + o.size
      PROVE  FALSE
  <2>1. o.area = "name"
    BY <1>5, <1>6, CoversItsArea, AreaNames
  <2>2. PICK j \in 1..Len(file) : o = NameObj(j)
    BY <2>1 DEF NoMore
  <2>3. NameAt(j) <= b /\ b < NameAt(j) + (names[j] + 1)
    BY <1>6, <2>2 DEF NameObj, Object
  <2>4. NameAt(j) \in Nat /\ names[j] \in Nat /\ names[j] + 1 <= NameSize
    <3>1. j - 1 \in Nat
      BY <1>1
    <3>2. NameAt(j) \in Nat
      BY <1>1, <3>1, Between DEF NameAt
    <3> QED
      BY <1>4, <3>2
  <2>5. b < NameAt(j) + NameSize
    BY <1>1, <1>5, <2>3, <2>4
  <2>6. i \in Nat \ {0} /\ j \in Nat \ {0}
    BY <1>1
  <2>7. i = j
    BY <1>1, <1>5, <2>3, <2>5, <2>6, OnceInRow DEF NameAt
  <2> QED
    BY <1>5, <2>3, <2>7
<1> QED
  BY <1>5, <1>6 DEF Written

(* The TBs' entries.                                                       *)
LEMMA EntriesWritten ==
    ASSUME Wrote, pc = "done", NEW b \in Nat, TBTab <= b, b < RelTab
    PROVE  Written(b)
<1> DEFINE n == Len(file)
           f == [i \in 0..n |-> TBTab + TBsTo(i) * TBSize]
<1>1. file \in Seq(Seq(TBShape)) /\ n \in Nat /\ TBTab \in Nat /\ TBSize \in Nat
  BY AreaEnds, SizesAreNat
<1>2. /\ \A i \in 0..n : TBsTo(i) \in Nat
      /\ TBsTo(0) = 0
      /\ \A i \in 1..n : TBsTo(i) = TBsTo(i - 1) + Len(file[i]) /\ Len(file[i]) \in Nat
  BY <1>1, ToFacts, InFacts
<1>3. \A i \in 0..n : f[i] \in Nat /\ f[i] = TBTab + TBsTo(i) * TBSize
  BY <1>1, <1>2, Between
<1>4. f[0] = TBTab /\ f[n] = RelTab
  <2>1. 0 * TBSize = 0 /\ TBTab + 0 = TBTab /\ 0 \in 0..n /\ n \in 0..n
    BY <1>1
  <2> HIDE DEF f
  <2> QED
    BY <2>1, <1>2, <1>3 DEF RelTab
<1> HIDE DEF f, n
<1>5. PICK i \in 1..n : f[i - 1] <= b /\ b < f[i]
  BY <1>1, <1>3, <1>4, InStep
<1>6. i - 1 \in 0..n /\ i \in 0..n /\ i - 1 \in Nat
  BY <1>1
<1>7. f[i - 1] = TBsAt(i) /\ f[i] = TBTab + (TBsTo(i - 1) + Len(file[i])) * TBSize /\ TBsAt(i) \in Nat
  BY <1>2, <1>3, <1>6 DEF TBsAt
<1>8. f[i] = TBsAt(i) + Len(file[i]) * TBSize
  <2>1. TBsTo(i - 1) \in Nat /\ Len(file[i]) \in Nat
    BY <1>2, <1>6
  <2> DEFINE x == TBsTo(i - 1) * TBSize
             y == Len(file[i]) * TBSize
  <2>2. (TBsTo(i - 1) + Len(file[i])) * TBSize = x + y /\ x \in Nat /\ y \in Nat
    BY <2>1, <1>1, Products
  <2>3. f[i] = TBTab + (x + y) /\ TBsAt(i) = TBTab + x
    BY <2>2, <1>7 DEF TBsAt
  <2> HIDE DEF x, y
  <2>4. f[i] = TBsAt(i) + y
    BY <2>2, <2>3, <1>1
  <2> QED
    BY <2>4 DEF y
<1>9. PICK j \in 1..Len(file[i]) :
        /\ TBsAt(i) + (j - 1) * TBSize <= b
        /\ b < (TBsAt(i) + (j - 1) * TBSize) + TBSize
  BY <1>1, <1>2, <1>5, <1>7, <1>8, InRow
<1>10. TBObj(i, j) \in written
  BY <1>9, AtTheEnd DEF Wrote, TBsIn, n
<1>11. TBObj(i, j).at = TBsAt(i) + (j - 1) * TBSize /\ TBObj(i, j).size = TBSize
  BY DEF TBObj, TBAt, Object
<1> QED
  BY <1>9, <1>10, <1>11, Zenon DEF Written

(* The code.                                                               *)
LEMMA CodeWritten ==
    ASSUME Wrote, pc = "done", NEW b \in Nat, CodeTab <= b, b < Limit
    PROVE  Written(b)
<1> DEFINE n == Len(file)
           f == [i \in 0..n |-> CodeTab + CodeTo(i)]
<1>1. file \in Seq(Seq(TBShape)) /\ n \in Nat /\ CodeTab \in Nat
  BY AreaEnds
<1>2. /\ \A i \in 0..n : CodeTo(i) \in Nat
      /\ CodeTo(0) = 0
      /\ \A i \in 1..n : CodeTo(i) = CodeTo(i - 1) + SegCode(file[i]) /\ SegCode(file[i]) \in Nat
  BY <1>1, ToFacts, InFacts
<1>3. \A i \in 0..n : f[i] \in Nat /\ f[i] = CodeTab + CodeTo(i)
  BY <1>1, <1>2
<1>4. f[0] = CodeTab /\ f[n] = Limit
  <2>1. CodeTab + 0 = CodeTab /\ 0 \in 0..n /\ n \in 0..n
    BY <1>1
  <2> HIDE DEF f
  <2> QED
    BY <2>1, <1>2, <1>3 DEF Limit
<1> HIDE DEF f, n
<1>5. PICK i \in 1..n : f[i - 1] <= b /\ b < f[i]
  BY <1>1, <1>3, <1>4, InStep
<1>6. i - 1 \in 0..n /\ i \in 0..n /\ i \in 1..Len(file)
  BY <1>1 DEF n
<1> DEFINE m    == Len(file[i])
           base == CodeTab + CodeTo(i - 1)
           g    == [j \in 0..m |-> base + CodeIn(i, j)]
<1>7. /\ base \in Nat /\ f[i - 1] = base /\ f[i] = base + SegCode(file[i])
  <2>1. CodeTo(i - 1) \in Nat /\ SegCode(file[i]) \in Nat /\ CodeTo(i) = CodeTo(i - 1) + SegCode(file[i])
    BY <1>2, <1>6
  <2>2. f[i - 1] = CodeTab + CodeTo(i - 1) /\ f[i] = CodeTab + CodeTo(i)
    BY <1>3, <1>6
  <2> QED
    BY <1>1, <2>1, <2>2
<1>8. /\ m \in Nat /\ CodeIn(i, 0) = 0 /\ CodeIn(i, m) = SegCode(file[i])
      /\ \A j \in 0..m : CodeIn(i, j) \in Nat
      /\ \A j \in 1..m : /\ CodeIn(i, j) = CodeIn(i, j - 1) + HowManyCode(file[i][j])
                         /\ file[i][j] \in TBShape
  BY <1>1, <1>6, InFacts
<1> HIDE DEF base, m
<1>9. \A j \in 0..m : g[j] \in Nat /\ g[j] = base + CodeIn(i, j)
  BY <1>7, <1>8
<1>10. g[0] = f[i - 1] /\ g[m] = f[i]
  <2>1. base + 0 = base /\ 0 \in 0..m /\ m \in 0..m
    BY <1>7, <1>8
  <2> HIDE DEF g
  <2> QED
    BY <2>1, <1>7, <1>8, <1>9
<1> HIDE DEF g
<1>11. PICK j \in 1..m : g[j - 1] <= b /\ b < g[j]
  BY <1>5, <1>8, <1>9, <1>10, InStep
<1>12. j - 1 \in 0..m /\ j \in 0..m
  BY <1>8
<1>13. HowManyCode(file[i][j]) \in Nat
  BY <1>8, TBNumbers
<1>14. /\ g[j - 1] = base + CodeIn(i, j - 1)
       /\ g[j] = (base + CodeIn(i, j - 1)) + HowManyCode(file[i][j])
  <2>1. /\ CodeIn(i, j - 1) \in Nat /\ CodeIn(i, j) = CodeIn(i, j - 1) + HowManyCode(file[i][j])
    BY <1>8, <1>12
  <2>2. g[j - 1] = base + CodeIn(i, j - 1) /\ g[j] = base + CodeIn(i, j)
    BY <1>9, <1>12
  <2> QED
    BY <1>7, <1>13, <2>1, <2>2
<1>15. CodeObj(i, j) \in written
  BY <1>6, AtTheEnd DEF Wrote, TBsIn, m
<1>16. CodeObj(i, j).at = base + CodeIn(i, j - 1) /\ CodeObj(i, j).size = HowManyCode(file[i][j])
  BY DEF CodeObj, CodeAt, Object, base
<1> QED
  BY <1>11, <1>14, <1>15, <1>16, Zenon DEF Written

(* The relocations.                                                        *)
LEMMA RelsWritten ==
    ASSUME Wrote, pc = "done", NEW b \in Nat, RelTab <= b, b < CodeTab
    PROVE  Written(b)
<1> DEFINE n == Len(file)
           f == [i \in 0..n |-> RelTab + RelsTo(i) * RelSize]
<1>1. file \in Seq(Seq(TBShape)) /\ n \in Nat /\ RelTab \in Nat /\ RelSize \in Nat
  BY AreaEnds, SizesAreNat
<1>2. /\ \A i \in 0..n : RelsTo(i) \in Nat
      /\ RelsTo(0) = 0
      /\ \A i \in 1..n : RelsTo(i) = RelsTo(i - 1) + SegRels(file[i]) /\ SegRels(file[i]) \in Nat
  BY <1>1, ToFacts, InFacts
<1>3. \A i \in 0..n : f[i] \in Nat /\ f[i] = RelTab + RelsTo(i) * RelSize
  BY <1>1, <1>2, Between
<1>4. f[0] = RelTab /\ f[n] = CodeTab
  <2>1. 0 * RelSize = 0 /\ RelTab + 0 = RelTab /\ 0 \in 0..n /\ n \in 0..n
    BY <1>1
  <2> HIDE DEF f
  <2> QED
    BY <2>1, <1>2, <1>3 DEF CodeTab
<1> HIDE DEF f, n
<1>5. PICK i \in 1..n : f[i - 1] <= b /\ b < f[i]
  BY <1>1, <1>3, <1>4, InStep
<1>6. i - 1 \in 0..n /\ i \in 0..n /\ i \in 1..Len(file)
  BY <1>1 DEF n
<1> DEFINE m == Len(file[i])
           r == RelsTo(i - 1)
           g == [j \in 0..m |-> RelTab + (r + RelsIn(i, j)) * RelSize]
<1>7. /\ m \in Nat /\ RelsIn(i, 0) = 0 /\ RelsIn(i, m) = SegRels(file[i])
      /\ \A j \in 0..m : RelsIn(i, j) \in Nat
      /\ \A j \in 1..m : /\ RelsIn(i, j) = RelsIn(i, j - 1) + HowManyRel(file[i][j])
                         /\ file[i][j] \in TBShape
  BY <1>1, <1>6, InFacts
<1>8. r \in Nat /\ RelsTo(i) = r + SegRels(file[i])
  BY <1>2, <1>6
<1>9. f[i - 1] = RelTab + r * RelSize /\ f[i] = RelTab + (r + SegRels(file[i])) * RelSize
  BY <1>3, <1>6, <1>8
<1> HIDE DEF m, r
<1>10. \A j \in 0..m : g[j] \in Nat /\ g[j] = RelTab + (r + RelsIn(i, j)) * RelSize
  <2> SUFFICES ASSUME NEW j \in 0..m
               PROVE  g[j] \in Nat /\ g[j] = RelTab + (r + RelsIn(i, j)) * RelSize
    OBVIOUS
  <2> DEFINE y == r + RelsIn(i, j)
  <2>1. y \in Nat
    BY <1>7, <1>8
  <2>2. g[j] = RelTab + y * RelSize
    OBVIOUS
  <2> HIDE DEF g, y
  <2>3. RelTab + y * RelSize \in Nat
    BY <2>1, <1>1, Between
  <2> QED
    BY <2>2, <2>3 DEF y
<1>11. g[0] = f[i - 1] /\ g[m] = f[i]
  <2>1. r + 0 = r /\ 0 \in 0..m /\ m \in 0..m
    BY <1>7, <1>8
  <2> HIDE DEF g
  <2> QED
    BY <2>1, <1>7, <1>9, <1>10
<1> HIDE DEF g
<1>12. PICK j \in 1..m : g[j - 1] <= b /\ b < g[j]
  BY <1>5, <1>7, <1>10, <1>11, InStep
<1>13. j - 1 \in 0..m /\ j \in 0..m
  BY <1>7
<1> DEFINE x     == r + RelsIn(i, j - 1)
           count == HowManyRel(file[i][j])
<1>14. count \in Nat
  BY <1>7, TBNumbers
<1>15. x \in Nat /\ r + RelsIn(i, j) = x + count
  <2>1. RelsIn(i, j - 1) \in Nat /\ RelsIn(i, j) = RelsIn(i, j - 1) + count
    BY <1>7, <1>13
  <2> HIDE DEF count
  <2> QED
    BY <2>1, <1>8, <1>14
<1>16. x = RelIndex(i, j)
  BY DEF RelIndex, r
<1>17. g[j - 1] = RelTab + x * RelSize /\ g[j] = RelTab + (x + count) * RelSize
  <2>1. g[j - 1] = RelTab + (r + RelsIn(i, j - 1)) * RelSize
    BY <1>10, <1>13
  <2>2. g[j] = RelTab + (r + RelsIn(i, j)) * RelSize
    BY <1>10, <1>13
  <2> QED
    BY <2>1, <2>2, <1>15
<1> HIDE DEF x, count
<1> DEFINE base == RelTab + x * RelSize
<1>18. base \in Nat /\ g[j - 1] = base /\ g[j] = base + count * RelSize
  <2> DEFINE u == x * RelSize
             v == count * RelSize
  <2>1. (x + count) * RelSize = u + v /\ u \in Nat /\ v \in Nat
    BY <1>1, <1>14, <1>15, Products
  <2> HIDE DEF u, v
  <2>2. RelTab + (u + v) = (RelTab + u) + v /\ RelTab + u \in Nat
    BY <1>1, <2>1
  <2> QED
    BY <2>1, <2>2, <1>17 DEF u, v
<1> HIDE DEF base
<1>19. PICK p \in 1..count :
            base + (p - 1) * RelSize <= b /\ b < (base + (p - 1) * RelSize) + RelSize
  BY <1>1, <1>12, <1>14, <1>18, InRow
<1>20. RelObj(i, j, p) \in written
  BY <1>6, AtTheEnd DEF Wrote, TBsIn, m, count
<1>21. RelObj(i, j, p).at = RelTab + (x + (p - 1)) * RelSize /\ RelObj(i, j, p).size = RelSize
  BY <1>16 DEF RelObj, Object
<1>22. RelTab + (x + (p - 1)) * RelSize = base + (p - 1) * RelSize
  <2> DEFINE q == p - 1
             u == x * RelSize
             v == q * RelSize
  <2>1. q \in Nat
    BY <1>14
  <2> HIDE DEF q
  <2>2. (x + q) * RelSize = u + v /\ u \in Nat /\ v \in Nat
    BY <1>1, <1>15, <2>1, Products
  <2>3. base = RelTab + u
    BY DEF base
  <2> HIDE DEF u, v
  <2>4. RelTab + (u + v) = base + v
    BY <1>1, <2>2, <2>3
  <2> QED
    BY <2>2, <2>4 DEF q, v
<1> QED
  BY <1>19, <1>20, <1>21, <1>22, Zenon DEF Written

(* The header, which is written first.                                     *)
HeaderWritten == \E o \in written : o.at = 0 /\ o.size = HeaderSize

LEMMA AlwaysHeader == Spec => []HeaderWritten
<1>1. Init => HeaderWritten
  BY ObjectFields DEF Init, HeaderWritten
<1>2. HeaderWritten /\ [Next]_vars => HeaderWritten'
  <2> SUFFICES ASSUME HeaderWritten, [Next]_vars PROVE HeaderWritten'
    OBVIOUS
  <2>1. written \subseteq written'
    <3>1. CASE WriteName
      BY <3>1 DEF WriteName
    <3>2. CASE WriteSegment
      BY <3>2 DEF WriteSegment
    <3>3. CASE WriteTB
      BY <3>3 DEF WriteTB
    <3>4. CASE EndSegment
      BY <3>4 DEF EndSegment
    <3>5. CASE UNCHANGED vars
      BY <3>5 DEF vars
    <3> QED
      BY <3>1, <3>2, <3>3, <3>4, <3>5 DEF Next
  <2> QED
    BY <2>1 DEF HeaderWritten
<1> QED
  BY <1>1, <1>2, PTL DEF Spec

(* The header's fields at the end.                                         *)
LEMMA HeaderAtTheEnd ==
    ASSUME Wrote, NoMore, pc = "done", NEW field \in DOMAIN header
    PROVE  header[field] = Unset <=> field = "reltable" /\ SumOver(SegRels, file) = 0
<1>1. file \in Seq(Seq(TBShape)) /\ Len(file) \in Nat
  BY AtTheEnd
<1>2. /\ header \in [segtab : Nat, segnum : Nat, reltable : Int, relnum : Int]
      /\ relCurIndex = RelsTo(Len(file))
      /\ relCurIndex > 0 => header.reltable = RelTab
      /\ header.relnum = relCurIndex
  BY AtTheEnd DEF Wrote, Numbered
<1>3. RelsTo(Len(file)) \in Nat /\ RelTab \in Nat
  <2>1. Len(file) \in 0..Len(file)
    BY <1>1
  <2> QED
    BY <1>1, <2>1, ToFacts, AreaEnds
<1>4. SumOver(SegRels, file) = relCurIndex
  BY <1>1, <1>2, FileNumbers
<1>5. field \in {"segtab", "segnum", "reltable", "relnum"}
  BY <1>2
<1>6. CASE field = "reltable"
  <2>1. header[field] = header.reltable
    BY <1>6
  <2>2. CASE relCurIndex = 0
    BY <1>4, <1>6, <2>1, <2>2 DEF NoMore
  <2>3. CASE relCurIndex # 0
    <3>1. header.reltable = RelTab
      BY <1>2, <1>3, <2>3
    <3>2. \A x \in Nat : x # -1
      OBVIOUS
    <3> QED
      BY <1>3, <1>4, <2>1, <2>3, <3>1, <3>2 DEF Unset
  <2> QED
    BY <2>2, <2>3
<1>7. CASE field # "reltable"
  <2>1. header[field] \in Nat
    BY <1>2, <1>3, <1>5, <1>7
  <2>2. \A x \in Nat : x # -1
    OBVIOUS
  <2> QED
    BY <1>7, <2>1, <2>2 DEF Unset
<1> QED
  BY <1>6, <1>7

(* Whatever the file and the sizes: of the buffer the driver writes out,   *)
(* the writers set every byte but those behind a name's NUL in its area    *)
(* and the padding of the segments' entries, and every field of the header *)
(* but reltable_offset in a file without a valid relocation.  The areas    *)
(* end where the next one begins, the last one where how_many_bytes says,  *)
(* and the TBs, the relocations and the code each begin where the one      *)
(* before ended.                                                           *)
THEOREM GapsOnly == Spec => []OnlyGapsLeft
<1>1. WInv /\ NamesFit /\ Wrote /\ HeaderWritten /\ NoMore => OnlyGapsLeft
  <2> SUFFICES ASSUME WInv, NamesFit, Wrote, HeaderWritten, NoMore, pc = "done"
               PROVE  /\ Untouched = UNION {BehindName(i) \cup Padding(i) : i \in DOMAIN file}
                      /\ \A field \in DOMAIN header :
                            header[field] = Unset <=> field = "reltable" /\ SumOver(SegRels, file) = 0
    BY DEF OnlyGapsLeft
  <2>1. /\ HeaderSize \in Nat /\ Names \in Nat /\ TBTab \in Nat /\ RelTab \in Nat
        /\ CodeTab \in Nat /\ Limit \in Nat /\ Limit = FileBytes(file)
        /\ file \in Seq(Seq(TBShape))
    BY AreaEnds
  <2>2. Names <= TBTab /\ TBTab <= Limit /\ DOMAIN file = 1..Len(file)
    <3>1. Names <= TBTab /\ TBTab <= RelTab /\ RelTab <= CodeTab /\ CodeTab <= Limit
      BY <2>1, Layout
    <3>2. DOMAIN file = 1..Len(file)
      BY <2>1, FileNumbers
    <3>3. TBTab <= Limit
      BY <2>1, <3>1
    <3> QED
      BY <3>1, <3>2, <3>3
  <2>3. \A b : b \in Untouched <=> b \in 0..FileBytes(file) - 1 /\ ~ Written(b)
    BY DEF Untouched, Written
  <2>4. ASSUME NEW b \in Untouched
        PROVE  \E i \in DOMAIN file : b \in BehindName(i) \cup Padding(i)
    <3>1. b \in 0..FileBytes(file) - 1 /\ ~ Written(b)
      BY <2>3
    <3>2. b \in Nat /\ b < Limit
      BY <2>1, <3>1
    <3>3. CASE b < HeaderSize
      <4>1. PICK o \in written : o.at = 0 /\ o.size = HeaderSize
        BY DEF HeaderWritten
      <4>2. o.at <= b /\ b < o.at + o.size
        BY <2>1, <3>2, <3>3, <4>1
      <4> QED
        BY <3>1, <4>2 DEF Written
    <3>4. CASE HeaderSize <= b /\ b < Names
      BY <2>2, <3>1, <3>2, <3>4, EntryWritten
    <3>5. CASE Names <= b /\ b < TBTab
      BY <2>2, <3>1, <3>2, <3>5, NameWritten
    <3>6. CASE TBTab <= b /\ b < RelTab
      BY <3>1, <3>2, <3>6, EntriesWritten
    <3>7. CASE RelTab <= b /\ b < CodeTab
      BY <3>1, <3>2, <3>7, RelsWritten
    <3>8. CASE CodeTab <= b
      BY <3>1, <3>2, <3>8, CodeWritten
    <3> QED
      BY <2>1, <3>2, <3>3, <3>4, <3>5, <3>6, <3>7, <3>8
  <2>5. ASSUME NEW i \in DOMAIN file, NEW b \in BehindName(i) \cup Padding(i)
        PROVE  b \in Untouched
    <3>1. b \in Nat /\ b < TBTab /\ ~ Written(b)
      <4>1. CASE b \in BehindName(i)
        BY <2>2, <4>1, BehindUntouched
      <4>2. CASE b \in Padding(i)
        BY <2>1, <2>2, <4>2, PaddingUntouched
      <4> QED
        BY <4>1, <4>2
    <3>2. b \in 0..FileBytes(file) - 1
      BY <2>1, <2>2, <3>1
    <3> QED
      BY <2>3, <3>1, <3>2
  <2>6. Untouched = UNION {BehindName(i) \cup Padding(i) : i \in DOMAIN file}
    BY <2>4, <2>5
  <2> QED
    BY <2>6, HeaderAtTheEnd
<1> QED
  BY <1>1, Inductive, NamesAlwaysFit, AlwaysWrote, AlwaysHeader, AlwaysNoMore, PTL

=============================================================================
