---------------------------- MODULE TBEditProofs ----------------------------
(***************************************************************************)
(* What holds of the instruction list and of a block that is edited.       *)
(*                                                                         *)
(* First the list: the pointers of LinkList hold, whatever is done to it,  *)
(* a sequence with a cursor, so the list implements InsnList.              *)
(*                                                                         *)
(* Then TBEdit, for every block a file may hold: RelsAnchored and          *)
(* TargetsAnchored hold however the block is edited.  The inductive        *)
(* invariant adds that no two valid relocations overlap and that decoding  *)
(* fills the list in file order.  OnlyTouchedRelsGivenUp, an action        *)
(* property, follows.                                                      *)
(*                                                                         *)
(* Last a block that is only deleted from, as the passes do: the branch    *)
(* vectors list the branches of the instruction list, the flag computed    *)
(* after decoding does not go stale, and printing the block shows its      *)
(* relocations and its jumps for what they are.                            *)
(***************************************************************************)
EXTENDS LinkList, Printing, TBOpsProofs, FiniteSetTheorems

-----------------------------------------------------------------------------
(* A list and the sequence it stands for.                                  *)

(* The object at a place of the list: 0 is the sentinel before the first   *)
(* node, one more than the length the one behind the last.                 *)
ObjectAt(q, k) == IF k = 0 THEN HeadNode ELSE IF k = Len(q) + 1 THEN TailNode ELSE q[k]

(* The heap h holds the nodes of q, in this order, and the sentinels       *)
(* around them.                                                            *)
Links(h, q) ==
    /\ h \in [Objects -> [prev : Objects \cup {NullPtr}, next : Objects \cup {NullPtr}]]
    /\ q \in Seq(Nodes)
    /\ \A i, j \in 1..Len(q) : q[i] = q[j] => i = j
    /\ \A k \in 0..Len(q) : /\ h[ObjectAt(q, k)].next = ObjectAt(q, k + 1)
                            /\ h[ObjectAt(q, k + 1)].prev = ObjectAt(q, k)
    /\ h[HeadNode].prev = NullPtr
    /\ h[TailNode].next = NullPtr

LEMMA Sentinels ==
    /\ HeadNode # TailNode /\ HeadNode # NullPtr /\ TailNode # NullPtr
    /\ HeadNode \notin Nodes /\ TailNode \notin Nodes /\ NullPtr \notin Objects
    /\ HeadNode \in Objects /\ TailNode \in Objects /\ Nodes \subseteq Objects
    /\ MaxNodes \in Nat
<1>1. HeadNode # TailNode /\ HeadNode # NullPtr /\ TailNode # NullPtr
  <2>1. ASSUME NEW a, NEW b
        PROVE  Cardinality({a, b}) <= 2 /\ Cardinality({a, a, b}) <= 2
    <3>1. IsFiniteSet({}) /\ Cardinality({}) = 0
      BY FS_EmptySet
    <3>2. /\ IsFiniteSet({a}) /\ Cardinality({a}) = 1
      BY FS_Singleton
    <3>3. Cardinality({a} \cup {b}) = IF b \in {a} THEN Cardinality({a}) ELSE Cardinality({a}) + 1
      BY <3>2, FS_AddElement
    <3>4. {a, b} = {a} \cup {b} /\ {a, a, b} = {a} \cup {b}
      OBVIOUS
    <3> QED
      BY <3>2, <3>3, <3>4
  <2> QED
    <3>1. HeadNode = TailNode => {HeadNode, TailNode, NullPtr} = {HeadNode, NullPtr}
      OBVIOUS
    <3>2. HeadNode = NullPtr => {HeadNode, TailNode, NullPtr} = {HeadNode, TailNode}
      OBVIOUS
    <3>3. TailNode = NullPtr => {HeadNode, TailNode, NullPtr} = {HeadNode, TailNode}
      OBVIOUS
    <3>4. Cardinality({HeadNode, TailNode, NullPtr}) = 3
      BY SentinelsAssumption
    <3>5. ASSUME NEW a, NEW b, {HeadNode, TailNode, NullPtr} = {a, b} PROVE FALSE
      <4>1. Cardinality({a, b}) <= 2
        BY <2>1
      <4> QED
        BY <4>1, <3>4, <3>5
    <3> QED
      BY <3>1, <3>2, <3>3, <3>5
<1> QED
  BY <1>1, SentinelsAssumption, MaxNodesAssumption DEF Nodes, Objects

(* The objects of a list are different, and those between the sentinels    *)
(* are its nodes.                                                          *)
LEMMA ObjectsDiffer ==
    ASSUME NEW q \in Seq(Nodes), \A i, j \in 1..Len(q) : q[i] = q[j] => i = j
    PROVE  /\ Len(q) \in Nat
           /\ \A k \in 0..Len(q) + 1 : ObjectAt(q, k) \in Objects /\ ObjectAt(q, k) # NullPtr
           /\ \A k \in 1..Len(q) : ObjectAt(q, k) = q[k] /\ q[k] \in Nodes
           /\ \A i, j \in 0..Len(q) + 1 : ObjectAt(q, i) = ObjectAt(q, j) => i = j
           /\ ObjectAt(q, 0) = HeadNode /\ ObjectAt(q, Len(q) + 1) = TailNode
<1>0. Len(q) \in Nat
  BY LenProperties
<1>1. \A k \in 1..Len(q) : ObjectAt(q, k) = q[k] /\ q[k] \in Nodes
  BY <1>0, ElementOfSeq DEF ObjectAt
<1>2. ObjectAt(q, 0) = HeadNode /\ ObjectAt(q, Len(q) + 1) = TailNode
  BY <1>0 DEF ObjectAt
<1>3. \A k \in 0..Len(q) + 1 : k = 0 \/ k = Len(q) + 1 \/ k \in 1..Len(q)
  BY <1>0
<1>4. \A k \in 0..Len(q) + 1 : ObjectAt(q, k) \in Objects /\ ObjectAt(q, k) # NullPtr
  BY <1>1, <1>2, <1>3, Sentinels
<1>5. \A i, j \in 0..Len(q) + 1 : ObjectAt(q, i) = ObjectAt(q, j) => i = j
  BY <1>1, <1>2, <1>3, Sentinels
<1> QED
  BY <1>0, <1>1, <1>2, <1>4, <1>5

-----------------------------------------------------------------------------
(* What a walk meets.                                                      *)

(* A walk along a field meets the objects e says, if each leads to the     *)
(* next, the last to null, and those between the ends are the nodes of q.  *)
LEMMA WalkMeets ==
    ASSUME NEW q \in Seq(Nodes), Len(q) <= MaxNodes,
           NEW start, NEW field, NEW e, e[0] = start,
           \A k \in 1..Len(q) : e[k] = q[k],
           e[Len(q) + 1] \notin Nodes,
           \A k \in 0..Len(q) + 1 : e[k] # NullPtr,
           \A k \in 0..Len(q) : heap[e[k]][field] = e[k + 1],
           heap[e[Len(q) + 1]][field] = NullPtr
    PROVE  Walk(start, field) = q
<1> DEFINE F(g) == [k \in 0..MaxNodes + 1 |->
                      IF k = 0 THEN start
                      ELSE IF g[k - 1] = NullPtr THEN NullPtr ELSE heap[g[k - 1]][field]]
           step == CHOOSE g : g = F(g)
           met  == [k \in 0..MaxNodes + 1 |-> IF k <= Len(q) + 1 THEN e[k] ELSE NullPtr]
           Ends(n) == /\ \A k \in 1..n : step[k] \in Nodes
                      /\ n <= MaxNodes => step[n + 1] \notin Nodes
           length == CHOOSE n \in 0..MaxNodes + 1 : Ends(n)
<1>0. Len(q) \in Nat /\ MaxNodes \in Nat
  BY LenProperties, Sentinels
<1>1. met = F(met)
  <2>1. ASSUME NEW k \in 0..MaxNodes + 1
        PROVE  met[k] = IF k = 0 THEN start
                        ELSE IF met[k - 1] = NullPtr THEN NullPtr ELSE heap[met[k - 1]][field]
    <3>1. CASE k = 0
      BY <1>0, <3>1
    <3>2. CASE k \in 1..Len(q) + 1
      <4>1. /\ k - 1 \in 0..Len(q) /\ k - 1 \in 0..MaxNodes + 1 /\ (k - 1) + 1 = k
            /\ k <= Len(q) + 1 /\ k - 1 <= Len(q) + 1 /\ k # 0 /\ k - 1 \in 0..Len(q) + 1
        BY <1>0, <3>2
      <4>2. met[k] = e[k] /\ met[k - 1] = e[k - 1]
        BY <4>1
      <4>3. heap[e[k - 1]][field] = e[k] /\ e[k - 1] # NullPtr
        BY <4>1
      <4> QED
        BY <4>1, <4>2, <4>3
    <3>3. CASE k = Len(q) + 2
      <4>1. /\ k - 1 = Len(q) + 1 /\ k - 1 \in 0..MaxNodes + 1 /\ ~ (k <= Len(q) + 1)
            /\ k # 0 /\ k - 1 \in 0..Len(q) + 1
        BY <1>0, <3>3
      <4>2. met[k] = NullPtr /\ met[k - 1] = e[Len(q) + 1]
        BY <4>1
      <4> QED
        BY <4>1, <4>2
    <3>4. CASE k > Len(q) + 2
      <4>1. /\ k - 1 \in 0..MaxNodes + 1 /\ ~ (k <= Len(q) + 1) /\ ~ (k - 1 <= Len(q) + 1)
            /\ k # 0
        BY <1>0, <3>4
      <4>2. met[k] = NullPtr /\ met[k - 1] = NullPtr
        BY <4>1
      <4> QED
        BY <4>1, <4>2
    <3> QED
      BY <1>0, <3>1, <3>2, <3>3, <3>4
  <2>2. met = [k \in 0..MaxNodes + 1 |-> met[k]]
    OBVIOUS
  <2> HIDE DEF met
  <2> QED
    BY <2>1, <2>2
<1>2. step = F(step)
  <2> HIDE DEF met, F
  <2> QED
    BY <1>1, Zenon
<1>3. \A k \in 0..MaxNodes + 1 : step[k] = met[k]
  <2> HIDE DEF met, step
  <2> DEFINE T == {k \in Nat : k \in 0..MaxNodes + 1 => step[k] = met[k]}
  <2>1. 0 \in T
    <3>1. 0 \in 0..MaxNodes + 1
      BY <1>0
    <3>2. step[0] = start /\ met[0] = start
      BY <1>1, <1>2, <3>1
    <3> QED
      BY <3>2
  <2>2. ASSUME NEW n \in T
        PROVE  n + 1 \in T
    <3> SUFFICES ASSUME n + 1 \in 0..MaxNodes + 1 PROVE step[n + 1] = met[n + 1]
      OBVIOUS
    <3>1. n \in 0..MaxNodes + 1 /\ n + 1 # 0 /\ (n + 1) - 1 = n
      BY <1>0
    <3>2. step[n] = met[n]
      BY <3>1
    <3>3. /\ step[n + 1] = IF step[n] = NullPtr THEN NullPtr ELSE heap[step[n]][field]
          /\ met[n + 1] = IF met[n] = NullPtr THEN NullPtr ELSE heap[met[n]][field]
      BY <1>1, <1>2, <3>1
    <3> QED
      BY <3>2, <3>3
  <2>3. T = Nat
    <3>1. T \in SUBSET Nat
      OBVIOUS
    <3> HIDE DEF T
    <3> QED
      BY <2>1, <2>2, <3>1, NatInduct
  <2> QED
    BY <2>3, <1>0
<1>4. \A n \in 0..MaxNodes + 1 : Ends(n) <=> n = Len(q)
  <2>1. \A k \in 1..Len(q) : k \in 0..MaxNodes + 1 /\ step[k] = q[k] /\ q[k] \in Nodes
    <3> SUFFICES ASSUME NEW k \in 1..Len(q)
                 PROVE  k \in 0..MaxNodes + 1 /\ step[k] = q[k] /\ q[k] \in Nodes
      OBVIOUS
    <3>1. k \in 0..MaxNodes + 1 /\ k <= Len(q) + 1 /\ q[k] \in Nodes
      BY <1>0, ElementOfSeq
    <3>2. met[k] = e[k]
      BY <3>1
    <3> HIDE DEF met, step
    <3> QED
      BY <1>3, <3>1, <3>2
  <2>2. step[Len(q) + 1] \notin Nodes /\ Len(q) + 1 \in 0..MaxNodes + 1
    <3>1. Len(q) + 1 \in 0..MaxNodes + 1 /\ Len(q) + 1 <= Len(q) + 1
      BY <1>0
    <3>2. met[Len(q) + 1] = e[Len(q) + 1]
      BY <3>1
    <3> HIDE DEF met, step
    <3> QED
      BY <1>3, <3>1, <3>2
  <2> HIDE DEF met, step
  <2> SUFFICES ASSUME NEW n \in 0..MaxNodes + 1
               PROVE  Ends(n) <=> n = Len(q)
    OBVIOUS
  <2>3. CASE n = Len(q)
    BY <2>1, <2>2, <2>3
  <2>4. CASE n < Len(q)
    <3>1. n + 1 \in 1..Len(q) /\ n <= MaxNodes /\ n # Len(q)
      BY <2>4, <1>0
    <3> QED
      BY <3>1, <2>1
  <2>5. CASE n > Len(q)
    <3>1. Len(q) + 1 \in 1..n /\ n # Len(q)
      BY <2>5, <1>0
    <3> QED
      BY <3>1, <2>2
  <2> QED
    BY <2>3, <2>4, <2>5, <1>0
<1>5. length = Len(q)
  <2>1. Len(q) \in 0..MaxNodes + 1
    BY <1>0
  <2> HIDE DEF Ends
  <2> QED
    BY <1>4, <2>1
<1>6. Walk(start, field) = [k \in 1..length |-> step[k]]
  BY DEF Walk
<1>7. \A k \in 1..Len(q) : step[k] = q[k]
  <2> SUFFICES ASSUME NEW k \in 1..Len(q) PROVE step[k] = q[k]
    OBVIOUS
  <2>1. k \in 0..MaxNodes + 1 /\ k <= Len(q) + 1
    BY <1>0
  <2>2. met[k] = e[k]
    BY <2>1
  <2> HIDE DEF met, step
  <2> QED
    BY <1>3, <2>1, <2>2
<1>8. q = [k \in 1..Len(q) |-> q[k]]
  BY SeqDef
<1> HIDE DEF step, length
<1> QED
  BY <1>5, <1>6, <1>7, <1>8

-----------------------------------------------------------------------------
(* What the methods of ListNode do to a list.                              *)

(* Putting a node in behind the object at place p.                         *)
LEMMA PutIn ==
    ASSUME NEW h, NEW q, Links(h, q), NEW p \in 0..Len(q), NEW x \in Nodes,
           \A k \in 1..Len(q) : q[k] # x,
           NEW g \in [Objects -> [prev : Objects \cup {NullPtr}, next : Objects \cup {NullPtr}]],
           g[x].prev = ObjectAt(q, p), g[x].next = ObjectAt(q, p + 1),
           \A o \in Objects \ {x} :
              /\ g[o].prev = IF o = ObjectAt(q, p + 1) THEN x ELSE h[o].prev
              /\ g[o].next = IF o = ObjectAt(q, p) THEN x ELSE h[o].next
    PROVE  Links(g, InsertAt(q, p + 1, x))
<1> DEFINE r == InsertAt(q, p + 1, x)
<1>0. /\ q \in Seq(Nodes) /\ Len(q) \in Nat /\ p + 1 \in 1..Len(q) + 1
      /\ \A i, j \in 1..Len(q) : q[i] = q[j] => i = j
  BY LenProperties DEF Links
<1>1. /\ r \in Seq(Nodes) /\ Len(r) = Len(q) + 1
      /\ \A k \in 1..Len(q) + 1 : r[k] = IF k < p + 1 THEN q[k]
                                         ELSE IF k = p + 1 THEN x ELSE q[k - 1]
  <2>1. /\ InsertAt(q, p + 1, x) \in Seq(Nodes)
        /\ Len(InsertAt(q, p + 1, x)) = Len(q) + 1
        /\ \A k \in 1..Len(q) + 1 :
              InsertAt(q, p + 1, x)[k] = IF k < p + 1 THEN q[k]
                                         ELSE IF k = p + 1 THEN x ELSE q[k - 1]
    <3>1. ASSUME NEW n \in 1..Len(q) + 1
          PROVE  /\ InsertAt(q, n, x) \in Seq(Nodes)
                 /\ Len(InsertAt(q, n, x)) = Len(q) + 1
                 /\ \A k \in 1..Len(q) + 1 :
                       InsertAt(q, n, x)[k] = IF k < n THEN q[k]
                                              ELSE IF k = n THEN x ELSE q[k - 1]
      BY <1>0, InsertAtProperties
    <3> QED
      BY <1>0, <3>1
  <2> QED
    BY <2>1
<1> HIDE DEF r
<1>2. \A i, j \in 1..Len(r) : r[i] = r[j] => i = j
  <2> SUFFICES ASSUME NEW i \in 1..Len(r), NEW j \in 1..Len(r), i < j, r[i] = r[j]
               PROVE  FALSE
    BY <1>0, <1>1
  <2>1. /\ i < p + 1 => i \in 1..Len(q)
        /\ i > p + 1 => i - 1 \in 1..Len(q)
        /\ j < p + 1 => j \in 1..Len(q)
        /\ j > p + 1 => j - 1 \in 1..Len(q)
    BY <1>0, <1>1
  <2>2. CASE i < p + 1 /\ j < p + 1
    <3>1. r[i] = q[i] /\ r[j] = q[j] /\ i # j
      BY <2>2, <1>0, <1>1
    <3> QED
      BY <3>1, <2>1, <2>2, <1>0
  <2>3. CASE i < p + 1 /\ j = p + 1
    BY <2>1, <2>3, <1>0, <1>1
  <2>4. CASE i < p + 1 /\ j > p + 1
    <3>1. r[i] = q[i] /\ r[j] = q[j - 1] /\ i # j - 1
      BY <2>4, <1>0, <1>1
    <3> QED
      BY <3>1, <2>1, <2>4, <1>0
  <2>5. CASE i = p + 1 /\ j > p + 1
    BY <2>1, <2>5, <1>0, <1>1
  <2>6. CASE i > p + 1 /\ j > p + 1
    <3>1. r[i] = q[i - 1] /\ r[j] = q[j - 1] /\ i - 1 # j - 1
      BY <2>6, <1>0, <1>1
    <3> QED
      BY <3>1, <2>1, <2>6, <1>0
  <2> QED
    BY <2>2, <2>3, <2>4, <2>5, <2>6, <1>0
<1>3. \A k \in 0..Len(q) + 2 : ObjectAt(r, k) = IF k <= p THEN ObjectAt(q, k)
                                                ELSE IF k = p + 1 THEN x
                                                ELSE ObjectAt(q, k - 1)
  BY <1>0, <1>1 DEF ObjectAt
<1>4. /\ \A k \in 0..Len(q) + 1 : ObjectAt(q, k) \in Objects /\ ObjectAt(q, k) # x
      /\ \A i, j \in 0..Len(q) + 1 : ObjectAt(q, i) = ObjectAt(q, j) => i = j
      /\ ObjectAt(q, 0) = HeadNode /\ ObjectAt(q, Len(q) + 1) = TailNode
  <2>1. \A k \in 0..Len(q) + 1 : ObjectAt(q, k) # x
    BY <1>0, Sentinels DEF ObjectAt
  <2> QED
    BY <2>1, <1>0, ObjectsDiffer
<1>5. \A k \in 0..Len(q) : /\ h[ObjectAt(q, k)].next = ObjectAt(q, k + 1)
                           /\ h[ObjectAt(q, k + 1)].prev = ObjectAt(q, k)
  BY DEF Links
<1>6. \A k \in 0..Len(r) : g[ObjectAt(r, k)].next = ObjectAt(r, k + 1)
  <2> SUFFICES ASSUME NEW k \in 0..Len(r)
               PROVE  g[ObjectAt(r, k)].next = ObjectAt(r, k + 1)
    OBVIOUS
  <2>1. CASE k < p
    <3>1. k \in 0..Len(q) /\ k \in 0..Len(q) + 1 /\ k # p /\ k + 1 <= p /\ k <= p
          /\ k \in 0..Len(q) + 2 /\ k + 1 \in 0..Len(q) + 2 /\ p \in 0..Len(q) + 1
      BY <2>1, <1>0, <1>1
    <3>2. ObjectAt(r, k) = ObjectAt(q, k) /\ ObjectAt(r, k + 1) = ObjectAt(q, k + 1)
      BY <3>1, <1>3
    <3>3. g[ObjectAt(q, k)].next = h[ObjectAt(q, k)].next
      BY <3>1, <1>4
    <3> QED
      BY <3>1, <3>2, <3>3, <1>5
  <2>2. CASE k = p
    <3>1. k <= p /\ ~ (k + 1 <= p) /\ k + 1 = p + 1 /\ k \in 0..Len(q) + 1
          /\ k \in 0..Len(q) + 2 /\ k + 1 \in 0..Len(q) + 2
      BY <2>2, <1>0, <1>1
    <3>2. ObjectAt(r, k) = ObjectAt(q, p) /\ ObjectAt(r, k + 1) = x
      BY <3>1, <1>3, <2>2
    <3> QED
      BY <3>1, <3>2, <1>4
  <2>3. CASE k = p + 1
    <3>1. ~ (k <= p) /\ ~ (k + 1 <= p) /\ k + 1 # p + 1 /\ (k + 1) - 1 = p + 1
          /\ k \in 0..Len(q) + 2 /\ k + 1 \in 0..Len(q) + 2
      BY <2>3, <1>0, <1>1
    <3>2. ObjectAt(r, k) = x /\ ObjectAt(r, k + 1) = ObjectAt(q, p + 1)
      BY <3>1, <1>3, <2>3
    <3> QED
      BY <3>2
  <2>4. CASE k > p + 1
    <3>1. ~ (k <= p) /\ ~ (k + 1 <= p) /\ k # p + 1 /\ k + 1 # p + 1
          /\ (k + 1) - 1 = (k - 1) + 1 /\ k - 1 \in 0..Len(q) /\ k - 1 # p
          /\ k \in 0..Len(q) + 2 /\ k + 1 \in 0..Len(q) + 2 /\ p \in 0..Len(q) + 1
          /\ k - 1 \in 0..Len(q) + 1
      BY <2>4, <1>0, <1>1
    <3>2. ObjectAt(r, k) = ObjectAt(q, k - 1) /\ ObjectAt(r, k + 1) = ObjectAt(q, (k - 1) + 1)
      BY <3>1, <1>3
    <3>3. g[ObjectAt(q, k - 1)].next = h[ObjectAt(q, k - 1)].next
      BY <3>1, <1>4
    <3> QED
      BY <3>1, <3>2, <3>3, <1>5
  <2> QED
    BY <2>1, <2>2, <2>3, <2>4, <1>0, <1>1
<1>7. \A k \in 0..Len(r) : g[ObjectAt(r, k + 1)].prev = ObjectAt(r, k)
  <2> SUFFICES ASSUME NEW k \in 0..Len(r)
               PROVE  g[ObjectAt(r, k + 1)].prev = ObjectAt(r, k)
    OBVIOUS
  <2>1. CASE k < p
    <3>1. k \in 0..Len(q) /\ k + 1 \in 0..Len(q) + 1 /\ k + 1 # p + 1 /\ k + 1 <= p /\ k <= p
          /\ k \in 0..Len(q) + 2 /\ k + 1 \in 0..Len(q) + 2 /\ p + 1 \in 0..Len(q) + 1
      BY <2>1, <1>0, <1>1
    <3>2. ObjectAt(r, k) = ObjectAt(q, k) /\ ObjectAt(r, k + 1) = ObjectAt(q, k + 1)
      BY <3>1, <1>3
    <3>3. g[ObjectAt(q, k + 1)].prev = h[ObjectAt(q, k + 1)].prev
      BY <3>1, <1>4
    <3> QED
      BY <3>1, <3>2, <3>3, <1>5
  <2>2. CASE k = p
    <3>1. k <= p /\ ~ (k + 1 <= p) /\ k + 1 = p + 1 /\ k \in 0..Len(q) + 1
          /\ k \in 0..Len(q) + 2 /\ k + 1 \in 0..Len(q) + 2
      BY <2>2, <1>0, <1>1
    <3>2. ObjectAt(r, k) = ObjectAt(q, p) /\ ObjectAt(r, k + 1) = x
      BY <3>1, <1>3, <2>2
    <3> QED
      BY <3>1, <3>2
  <2>3. CASE k = p + 1
    <3>1. ~ (k <= p) /\ ~ (k + 1 <= p) /\ k + 1 # p + 1 /\ (k + 1) - 1 = p + 1
          /\ k \in 0..Len(q) + 2 /\ k + 1 \in 0..Len(q) + 2 /\ p + 1 \in 0..Len(q) + 1
      BY <2>3, <1>0, <1>1
    <3>2. ObjectAt(r, k) = x /\ ObjectAt(r, k + 1) = ObjectAt(q, p + 1)
      BY <3>1, <1>3, <2>3
    <3> QED
      BY <3>1, <3>2, <1>4
  <2>4. CASE k > p + 1
    <3>1. ~ (k <= p) /\ ~ (k + 1 <= p) /\ k # p + 1 /\ k + 1 # p + 1
          /\ (k + 1) - 1 = (k - 1) + 1 /\ k - 1 \in 0..Len(q) /\ (k - 1) + 1 # p + 1
          /\ k \in 0..Len(q) + 2 /\ k + 1 \in 0..Len(q) + 2 /\ p + 1 \in 0..Len(q) + 1
          /\ (k - 1) + 1 \in 0..Len(q) + 1
      BY <2>4, <1>0, <1>1
    <3>2. ObjectAt(r, k) = ObjectAt(q, k - 1) /\ ObjectAt(r, k + 1) = ObjectAt(q, (k - 1) + 1)
      BY <3>1, <1>3
    <3>3. g[ObjectAt(q, (k - 1) + 1)].prev = h[ObjectAt(q, (k - 1) + 1)].prev
      BY <3>1, <1>4
    <3> QED
      BY <3>1, <3>2, <3>3, <1>5
  <2> QED
    BY <2>1, <2>2, <2>3, <2>4, <1>0, <1>1
<1>8. g[HeadNode].prev = NullPtr /\ g[TailNode].next = NullPtr
  <2>1. 0 \in 0..Len(q) + 1 /\ p + 1 \in 0..Len(q) + 1 /\ 0 # p + 1
        /\ p \in 0..Len(q) + 1 /\ Len(q) + 1 \in 0..Len(q) + 1 /\ p # Len(q) + 1
    BY <1>0
  <2>2. HeadNode # ObjectAt(q, p + 1) /\ TailNode # ObjectAt(q, p)
    BY <2>1, <1>4
  <2>3. HeadNode \in Objects \ {x} /\ TailNode \in Objects \ {x}
    BY Sentinels
  <2>4. h[HeadNode].prev = NullPtr /\ h[TailNode].next = NullPtr
    BY DEF Links
  <2> QED
    BY <2>2, <2>3, <2>4
<1>9. Links(g, r)
  BY <1>1, <1>2, <1>6, <1>7, <1>8 DEF Links
<1> QED
  BY <1>9 DEF r

LEMMA InsertedAtNextLinks ==
    ASSUME NEW h, NEW q, Links(h, q), NEW p \in 0..Len(q), NEW x \in Nodes,
           \A k \in 1..Len(q) : q[k] # x
    PROVE  Links(InsertedAtNext(h, ObjectAt(q, p), x), InsertAt(q, p + 1, x))
<1> DEFINE this == ObjectAt(q, p)
           post == ObjectAt(q, p + 1)
           Both == Objects \cup {NullPtr}
           g    == InsertedAtNext(h, this, x)
<1>1. /\ q \in Seq(Nodes) /\ Len(q) \in Nat
      /\ \A i, j \in 1..Len(q) : q[i] = q[j] => i = j
      /\ p \in 0..Len(q) + 1 /\ p + 1 \in 0..Len(q) + 1 /\ p # p + 1
  BY LenProperties DEF Links
<1>2. /\ this \in Objects /\ post \in Objects /\ this # post
  BY <1>1, ObjectsDiffer
<1>3. this # x /\ post # x /\ x \in Objects
  <2>1. \A k \in 0..Len(q) + 1 : ObjectAt(q, k) # x
    BY <1>1, Sentinels DEF ObjectAt
  <2> QED
    BY <2>1, <1>1, Sentinels
<1>4. h[this].next = post /\ h \in [Objects -> [prev : Both, next : Both]]
  BY DEF Links
<1> HIDE DEF this, post
<1>5. /\ g \in [Objects -> [prev : Both, next : Both]]
      /\ g[x].prev = this /\ g[x].next = post
      /\ \A o \in Objects \ {x} :
            /\ g[o].prev = IF o = post THEN x ELSE h[o].prev
            /\ g[o].next = IF o = this THEN x ELSE h[o].next
  <2> DEFINE h1 == [h EXCEPT ![x].prev = this]
             h2 == [h1 EXCEPT ![x].next = h1[this].next]
             h3 == [h2 EXCEPT ![h2[this].next].prev = x]
             h4 == [h3 EXCEPT ![this].next = x]
  <2>1. /\ h1 \in [Objects -> [prev : Both, next : Both]]
        /\ h1[x].prev = this
        /\ \A o \in Objects \ {x} : h1[o] = h[o]
    BY <1>2, <1>3, <1>4
  <2>2. /\ h2 \in [Objects -> [prev : Both, next : Both]]
        /\ h2[x].prev = this /\ h2[x].next = post
        /\ \A o \in Objects \ {x} : h2[o] = h[o]
    <3> HIDE DEF h1
    <3> QED
      BY <2>1, <1>2, <1>3, <1>4
  <2>3. /\ h3 \in [Objects -> [prev : Both, next : Both]]
        /\ h3[x].prev = this /\ h3[x].next = post
        /\ \A o \in Objects \ {x} :
              /\ h3[o].prev = IF o = post THEN x ELSE h[o].prev
              /\ h3[o].next = h[o].next
    <3>1. h2[this].next = post
      <4> HIDE DEF h2
      <4> QED
        BY <2>2, <1>2, <1>3, <1>4
    <3> HIDE DEF h2
    <3> QED
      BY <3>1, <2>2, <1>2, <1>3, <1>4
  <2>4. /\ h4 \in [Objects -> [prev : Both, next : Both]]
        /\ h4[x].prev = this /\ h4[x].next = post
        /\ \A o \in Objects \ {x} :
              /\ h4[o].prev = IF o = post THEN x ELSE h[o].prev
              /\ h4[o].next = IF o = this THEN x ELSE h[o].next
    <3> HIDE DEF h3
    <3> QED
      BY <2>3, <1>2, <1>3, <1>4
  <2>5. g = h4
    BY DEF InsertedAtNext
  <2> HIDE DEF g, h4
  <2> QED
    BY <2>4, <2>5
<1>6. Links(g, InsertAt(q, p + 1, x))
  <2> HIDE DEF g
  <2> QED
    BY <1>5, PutIn DEF this, post
<1> QED
  BY <1>6 DEF this

LEMMA InsertedAtPrevLinks ==
    ASSUME NEW h, NEW q, Links(h, q), NEW p \in 0..Len(q), NEW x \in Nodes,
           \A k \in 1..Len(q) : q[k] # x
    PROVE  Links(InsertedAtPrev(h, ObjectAt(q, p + 1), x), InsertAt(q, p + 1, x))
<1> DEFINE this == ObjectAt(q, p + 1)
           prev == ObjectAt(q, p)
           Both == Objects \cup {NullPtr}
           g    == InsertedAtPrev(h, this, x)
<1>1. /\ q \in Seq(Nodes) /\ Len(q) \in Nat
      /\ \A i, j \in 1..Len(q) : q[i] = q[j] => i = j
      /\ p \in 0..Len(q) + 1 /\ p + 1 \in 0..Len(q) + 1 /\ p # p + 1
  BY LenProperties DEF Links
<1>2. /\ this \in Objects /\ prev \in Objects /\ this # prev
  BY <1>1, ObjectsDiffer
<1>3. this # x /\ prev # x /\ x \in Objects
  <2>1. \A k \in 0..Len(q) + 1 : ObjectAt(q, k) # x
    BY <1>1, Sentinels DEF ObjectAt
  <2> QED
    BY <2>1, <1>1, Sentinels
<1>4. h[this].prev = prev /\ h \in [Objects -> [prev : Both, next : Both]]
  BY DEF Links
<1> HIDE DEF this, prev
<1>5. /\ g \in [Objects -> [prev : Both, next : Both]]
      /\ g[x].prev = prev /\ g[x].next = this
      /\ \A o \in Objects \ {x} :
            /\ g[o].prev = IF o = this THEN x ELSE h[o].prev
            /\ g[o].next = IF o = prev THEN x ELSE h[o].next
  <2> DEFINE h1 == [h EXCEPT ![x].next = this]
             h2 == [h1 EXCEPT ![x].prev = h1[this].prev]
             h3 == [h2 EXCEPT ![h2[this].prev].next = x]
             h4 == [h3 EXCEPT ![this].prev = x]
  <2>1. /\ h1 \in [Objects -> [prev : Both, next : Both]]
        /\ h1[x].next = this
        /\ \A o \in Objects \ {x} : h1[o] = h[o]
    BY <1>2, <1>3, <1>4
  <2>2. /\ h2 \in [Objects -> [prev : Both, next : Both]]
        /\ h2[x].prev = prev /\ h2[x].next = this
        /\ \A o \in Objects \ {x} : h2[o] = h[o]
    <3> HIDE DEF h1
    <3> QED
      BY <2>1, <1>2, <1>3, <1>4
  <2>3. /\ h3 \in [Objects -> [prev : Both, next : Both]]
        /\ h3[x].prev = prev /\ h3[x].next = this
        /\ \A o \in Objects \ {x} :
              /\ h3[o].prev = h[o].prev
              /\ h3[o].next = IF o = prev THEN x ELSE h[o].next
    <3>1. h2[this].prev = prev
      <4> HIDE DEF h2
      <4> QED
        BY <2>2, <1>2, <1>3, <1>4
    <3> HIDE DEF h2
    <3> QED
      BY <3>1, <2>2, <1>2, <1>3, <1>4
  <2>4. /\ h4 \in [Objects -> [prev : Both, next : Both]]
        /\ h4[x].prev = prev /\ h4[x].next = this
        /\ \A o \in Objects \ {x} :
              /\ h4[o].prev = IF o = this THEN x ELSE h[o].prev
              /\ h4[o].next = IF o = prev THEN x ELSE h[o].next
    <3> HIDE DEF h3
    <3> QED
      BY <2>3, <1>2, <1>3, <1>4
  <2>5. g = h4
    BY DEF InsertedAtPrev
  <2> HIDE DEF g, h4
  <2> QED
    BY <2>4, <2>5
<1>6. Links(g, InsertAt(q, p + 1, x))
  <2> HIDE DEF g
  <2> QED
    BY <1>5, PutIn DEF this, prev
<1> QED
  BY <1>6 DEF this

(* Taking the node at place p out.                                         *)
LEMMA RemovedSelfLinks ==
    ASSUME NEW h, NEW q, Links(h, q), NEW p \in 1..Len(q)
    PROVE  Links(RemovedSelf(h, q[p]), RemoveAt(q, p))
<1> DEFINE this == q[p]
           prev == ObjectAt(q, p - 1)
           post == ObjectAt(q, p + 1)
           Both == Objects \cup {NullPtr}
           g    == RemovedSelf(h, this)
           r    == RemoveAt(q, p)
<1>0. /\ q \in Seq(Nodes) /\ Len(q) \in Nat
      /\ \A i, j \in 1..Len(q) : q[i] = q[j] => i = j
      /\ p - 1 \in 0..Len(q) + 1 /\ p + 1 \in 0..Len(q) + 1 /\ p \in 0..Len(q) + 1
      /\ p - 1 # p + 1 /\ p # p + 1 /\ p - 1 # p /\ (p - 1) + 1 = p
      /\ p - 1 \in 0..Len(q) /\ p \in 0..Len(q)
  BY LenProperties DEF Links
<1>1. /\ \A k \in 0..Len(q) + 1 : ObjectAt(q, k) \in Objects
      /\ \A i, j \in 0..Len(q) + 1 : ObjectAt(q, i) = ObjectAt(q, j) => i = j
      /\ ObjectAt(q, 0) = HeadNode /\ ObjectAt(q, Len(q) + 1) = TailNode
      /\ ObjectAt(q, p) = this
  BY <1>0, ObjectsDiffer
<1>2. /\ this \in Objects /\ prev \in Objects /\ post \in Objects
      /\ prev # this /\ post # this /\ prev # post
  BY <1>0, <1>1
<1>3. \A k \in 0..Len(q) : /\ h[ObjectAt(q, k)].next = ObjectAt(q, k + 1)
                           /\ h[ObjectAt(q, k + 1)].prev = ObjectAt(q, k)
  BY DEF Links
<1>4. /\ h[this].next = post /\ h[this].prev = prev
      /\ h \in [Objects -> [prev : Both, next : Both]]
  <2>1. h[ObjectAt(q, p)].next = ObjectAt(q, p + 1)
    BY <1>0, <1>3
  <2>2. h[ObjectAt(q, (p - 1) + 1)].prev = ObjectAt(q, p - 1)
    BY <1>0, <1>3
  <2> QED
    BY <2>1, <2>2, <1>0, <1>1 DEF Links
<1>5. /\ g \in [Objects -> [prev : Both, next : Both]]
      /\ \A o \in Objects \ {this} :
            /\ g[o].prev = IF o = post THEN prev ELSE h[o].prev
            /\ g[o].next = IF o = prev THEN post ELSE h[o].next
  <2> DEFINE h1 == [h EXCEPT ![h[this].prev].next = h[this].next]
             h2 == [h1 EXCEPT ![h1[this].next].prev = h1[this].prev]
             h3 == [h2 EXCEPT ![this] = [prev |-> NullPtr, next |-> NullPtr]]
  <2> HIDE DEF this, prev, post
  <2>1. /\ h1 \in [Objects -> [prev : Both, next : Both]]
        /\ h1[this] = h[this]
        /\ \A o \in Objects : /\ h1[o].prev = h[o].prev
                              /\ h1[o].next = IF o = prev THEN post ELSE h[o].next
    BY <1>2, <1>4
  <2>2. /\ h2 \in [Objects -> [prev : Both, next : Both]]
        /\ \A o \in Objects : /\ h2[o].prev = IF o = post THEN prev ELSE h[o].prev
                              /\ h2[o].next = IF o = prev THEN post ELSE h[o].next
    <3> HIDE DEF h1
    <3> QED
      BY <2>1, <1>2, <1>4
  <2>3. /\ h3 \in [Objects -> [prev : Both, next : Both]]
        /\ \A o \in Objects \ {this} : h3[o] = h2[o]
    <3> HIDE DEF h2
    <3> QED
      BY <2>2, <1>2
  <2>4. g = h3
    BY DEF RemovedSelf
  <2> HIDE DEF g, h2, h3
  <2> QED
    BY <2>2, <2>3, <2>4
<1>6. /\ r \in Seq(Nodes) /\ Len(r) = Len(q) - 1
      /\ \A k \in 1..Len(q) - 1 : r[k] = IF k < p THEN q[k] ELSE q[k + 1]
  <2>1. /\ RemoveAt(q, p) \in Seq(Nodes)
        /\ Len(RemoveAt(q, p)) = Len(q) - 1
        /\ \A k \in 1..Len(q) - 1 :
              RemoveAt(q, p)[k] = IF k < p THEN q[k] ELSE q[k + 1]
    <3> HIDE DEF r
    <3> QED
      BY <1>0, RemoveAtProperties
  <2> QED
    BY <2>1
<1> HIDE DEF r, g
<1>7. \A i, j \in 1..Len(r) : r[i] = r[j] => i = j
  <2> SUFFICES ASSUME NEW i \in 1..Len(r), NEW j \in 1..Len(r), i < j, r[i] = r[j]
               PROVE  FALSE
    BY <1>0, <1>6
  <2>1. /\ i \in 1..Len(q) - 1 /\ j \in 1..Len(q) - 1
        /\ i \in 1..Len(q) /\ i + 1 \in 1..Len(q) /\ j \in 1..Len(q) /\ j + 1 \in 1..Len(q)
        /\ i # j /\ i + 1 # j + 1 /\ i # j + 1
        /\ j < p => i < p
    BY <1>0, <1>6
  <2>2. CASE j < p
    <3>1. r[i] = q[i] /\ r[j] = q[j]
      BY <2>1, <2>2, <1>6
    <3> QED
      BY <3>1, <2>1, <1>0
  <2>3. CASE i < p /\ ~ (j < p)
    <3>1. r[i] = q[i] /\ r[j] = q[j + 1]
      BY <2>1, <2>3, <1>6
    <3> QED
      BY <3>1, <2>1, <1>0
  <2>4. CASE ~ (i < p)
    <3>1. r[i] = q[i + 1] /\ r[j] = q[j + 1]
      BY <2>1, <2>4, <1>6
    <3> QED
      BY <3>1, <2>1, <1>0
  <2> QED
    BY <2>2, <2>3, <2>4
<1>8. \A k \in 0..Len(q) : ObjectAt(r, k) = IF k < p THEN ObjectAt(q, k)
                                            ELSE ObjectAt(q, k + 1)
  BY <1>0, <1>6 DEF ObjectAt
<1>9. ASSUME NEW k \in 0..Len(r)
      PROVE  /\ g[ObjectAt(r, k)].next = ObjectAt(r, k + 1)
             /\ g[ObjectAt(r, k + 1)].prev = ObjectAt(r, k)
  <2>0. k \in 0..Len(q) /\ k + 1 \in 0..Len(q) /\ k \in Nat /\ k \in 0..Len(q) + 1
        /\ k + 1 \in 0..Len(q) + 1 /\ (k + 1) + 1 \in 0..Len(q) + 1
    BY <1>0, <1>6
  <2>1. CASE k + 1 < p
    <3>1. k < p /\ k # p - 1 /\ k + 1 # p + 1 /\ k # p /\ k + 1 # p
      BY <2>1, <2>0
    <3>2. ObjectAt(r, k) = ObjectAt(q, k) /\ ObjectAt(r, k + 1) = ObjectAt(q, k + 1)
      BY <3>1, <2>0, <2>1, <1>8
    <3>3. /\ ObjectAt(q, k) \in Objects \ {this} /\ ObjectAt(q, k) # prev
          /\ ObjectAt(q, k + 1) \in Objects \ {this} /\ ObjectAt(q, k + 1) # post
      BY <3>1, <2>0, <1>0, <1>1
    <3>4. h[ObjectAt(q, k)].next = ObjectAt(q, k + 1) /\ h[ObjectAt(q, k + 1)].prev = ObjectAt(q, k)
      BY <2>0, <1>3
    <3> HIDE DEF prev, post, this
    <3> QED
      BY <3>2, <3>3, <3>4, <1>5
  <2>2. CASE k + 1 = p
    <3>1. k < p /\ ~ (k + 1 < p) /\ k = p - 1
      BY <2>2, <2>0
    <3>2. ObjectAt(r, k) = prev /\ ObjectAt(r, k + 1) = post
      BY <3>1, <2>0, <2>2, <1>8
    <3> HIDE DEF prev, post, this
    <3> QED
      BY <3>2, <1>2, <1>5
  <2>3. CASE ~ (k < p)
    <3>1. ~ (k + 1 < p) /\ k + 1 # p - 1 /\ (k + 1) + 1 # p + 1 /\ k + 1 # p /\ (k + 1) + 1 # p
      BY <2>3, <2>0, <1>0
    <3>2. ObjectAt(r, k) = ObjectAt(q, k + 1) /\ ObjectAt(r, k + 1) = ObjectAt(q, (k + 1) + 1)
      BY <3>1, <2>0, <2>3, <1>8
    <3>3. /\ ObjectAt(q, k + 1) \in Objects \ {this} /\ ObjectAt(q, k + 1) # prev
          /\ ObjectAt(q, (k + 1) + 1) \in Objects \ {this} /\ ObjectAt(q, (k + 1) + 1) # post
      BY <3>1, <2>0, <1>0, <1>1
    <3>4. /\ h[ObjectAt(q, k + 1)].next = ObjectAt(q, (k + 1) + 1)
          /\ h[ObjectAt(q, (k + 1) + 1)].prev = ObjectAt(q, k + 1)
      BY <2>0, <1>3
    <3> HIDE DEF prev, post, this
    <3> QED
      BY <3>2, <3>3, <3>4, <1>5
  <2> QED
    BY <2>0, <2>1, <2>2, <2>3
<1>10. g[HeadNode].prev = NullPtr /\ g[TailNode].next = NullPtr
  <2>1. 0 \in 0..Len(q) + 1 /\ 0 # p + 1 /\ Len(q) + 1 \in 0..Len(q) + 1 /\ p - 1 # Len(q) + 1
        /\ 0 # p /\ p # Len(q) + 1
    BY <1>0
  <2>2. HeadNode # post /\ TailNode # prev /\ HeadNode # this /\ TailNode # this
    BY <2>1, <1>0, <1>1
  <2>3. h[HeadNode].prev = NullPtr /\ h[TailNode].next = NullPtr
    BY DEF Links
  <2> HIDE DEF prev, post, this
  <2> QED
    BY <2>2, <2>3, <1>5, Sentinels
<1>11. Links(g, r)
  BY <1>5, <1>6, <1>7, <1>9, <1>10 DEF Links
<1> QED
  BY <1>11 DEF g, r

-----------------------------------------------------------------------------
(* The list of a state.                                                    *)

(* The heap holds q, and the iterator is at place p of it.                 *)
Holds(q, p) ==
    /\ Links(heap, q)
    /\ new \in 0..MaxNodes
    /\ \A k \in 1..Len(q) : q[k] <= new
    /\ size = Len(q)
    /\ Len(q) <= new
    /\ p \in 0..Len(q) + 1
    /\ iter = ObjectAt(q, p)

ListInv == \E q, p : Holds(q, p)

(* A walk from either end meets q.                                         *)
LEMMA InOrderIs ==
    ASSUME NEW q, NEW p, Holds(q, p)
    PROVE  InOrder = q /\ Walk(TailNode, "prev") = Reverse(q)
<1>1. /\ q \in Seq(Nodes) /\ Len(q) \in Nat /\ Len(q) <= MaxNodes
      /\ \A i, j \in 1..Len(q) : q[i] = q[j] => i = j
  BY LenProperties, Sentinels DEF Holds, Links
<1>2. /\ \A k \in 0..Len(q) + 1 : ObjectAt(q, k) \in Objects /\ ObjectAt(q, k) # NullPtr
      /\ \A k \in 1..Len(q) : ObjectAt(q, k) = q[k] /\ q[k] \in Nodes
      /\ ObjectAt(q, 0) = HeadNode /\ ObjectAt(q, Len(q) + 1) = TailNode
  BY <1>1, ObjectsDiffer
<1>3. /\ \A k \in 0..Len(q) : /\ heap[ObjectAt(q, k)].next = ObjectAt(q, k + 1)
                              /\ heap[ObjectAt(q, k + 1)].prev = ObjectAt(q, k)
      /\ heap[HeadNode].prev = NullPtr /\ heap[TailNode].next = NullPtr
  BY DEF Holds, Links
<1>4. InOrder = q
  <2> DEFINE e == [k \in 0..Len(q) + 1 |-> ObjectAt(q, k)]
  <2>1. /\ e[0] = HeadNode /\ e[Len(q) + 1] = TailNode
        /\ \A k \in 1..Len(q) : e[k] = q[k]
        /\ \A k \in 0..Len(q) + 1 : e[k] # NullPtr
        /\ \A k \in 0..Len(q) : heap[e[k]]["next"] = e[k + 1]
    BY <1>1, <1>2, <1>3
  <2> HIDE DEF e
  <2>2. e[Len(q) + 1] \notin Nodes /\ heap[e[Len(q) + 1]]["next"] = NullPtr
    BY <1>3, <2>1, Sentinels
  <2>3. Walk(HeadNode, "next") = q
    BY <1>1, <2>1, <2>2, WalkMeets
  <2> QED
    BY <2>3 DEF InOrder
<1>5. Walk(TailNode, "prev") = Reverse(q)
  <2> DEFINE r == Reverse(q)
             e == [k \in 0..Len(q) + 1 |-> ObjectAt(q, (Len(q) + 1) - k)]
  <2>1. r = [k \in 1..Len(q) |-> q[(Len(q) - k) + 1]]
    BY DEF Reverse
  <2>2. r \in Seq(Nodes) /\ Len(r) = Len(q)
    <3>1. r \in [1..Len(q) -> Nodes]
      <4>1. \A k \in 1..Len(q) : (Len(q) - k) + 1 \in 1..Len(q)
        BY <1>1
      <4> HIDE DEF r
      <4> QED
        BY <1>2, <2>1, <4>1
    <3> HIDE DEF r
    <3> QED
      BY <3>1, <1>1, FcnIsSeq
  <2> HIDE DEF r
  <2>3. e[0] = TailNode /\ e[Len(q) + 1] = HeadNode
    <3>1. /\ 0 \in 0..Len(q) + 1 /\ (Len(q) + 1) - 0 = Len(q) + 1
          /\ Len(q) + 1 \in 0..Len(q) + 1 /\ (Len(q) + 1) - (Len(q) + 1) = 0
      BY <1>1
    <3> QED
      BY <3>1, <1>2
  <2>4. \A k \in 1..Len(q) : e[k] = r[k]
    <3> SUFFICES ASSUME NEW k \in 1..Len(q) PROVE e[k] = r[k]
      OBVIOUS
    <3>1. /\ (Len(q) + 1) - k = (Len(q) - k) + 1 /\ (Len(q) - k) + 1 \in 1..Len(q)
          /\ k \in 0..Len(q) + 1
      BY <1>1
    <3> QED
      BY <3>1, <2>1, <1>2
  <2>5. \A k \in 0..Len(q) + 1 : e[k] # NullPtr
    <3>1. \A k \in 0..Len(q) + 1 : (Len(q) + 1) - k \in 0..Len(q) + 1
      BY <1>1
    <3> QED
      BY <3>1, <1>2
  <2>6. \A k \in 0..Len(q) : heap[e[k]]["prev"] = e[k + 1]
    <3> SUFFICES ASSUME NEW k \in 0..Len(q) PROVE heap[e[k]]["prev"] = e[k + 1]
      OBVIOUS
    <3>1. /\ k \in 0..Len(q) + 1 /\ k + 1 \in 0..Len(q) + 1
          /\ (Len(q) + 1) - k = (Len(q) - k) + 1 /\ (Len(q) + 1) - (k + 1) = Len(q) - k
          /\ Len(q) - k \in 0..Len(q)
      BY <1>1
    <3>2. e[k] = ObjectAt(q, (Len(q) - k) + 1) /\ e[k + 1] = ObjectAt(q, Len(q) - k)
      BY <3>1
    <3> HIDE DEF e
    <3> QED
      BY <3>1, <3>2, <1>3
  <2> HIDE DEF e
  <2>7. e[Len(r) + 1] \notin Nodes /\ heap[e[Len(r) + 1]]["prev"] = NullPtr
    BY <1>3, <2>2, <2>3, Sentinels
  <2>8. Walk(TailNode, "prev") = r
    BY <1>1, <2>2, <2>3, <2>4, <2>5, <2>6, <2>7, WalkMeets
  <2> QED
    BY <2>8 DEF r
<1> QED
  BY <1>4, <1>5

LEMMA PlaceIs ==
    ASSUME NEW q, NEW p, Holds(q, p), NEW k \in 0..Len(q) + 1
    PROVE  Place(ObjectAt(q, k)) = k
<1>1. /\ q \in Seq(Nodes) /\ Len(q) \in Nat /\ DOMAIN q = 1..Len(q)
      /\ \A i, j \in 1..Len(q) : q[i] = q[j] => i = j
  BY LenProperties DEF Holds, Links
<1>2. InOrder = q
  BY InOrderIs
<1>3. CASE k = 0
  BY <1>3, <1>2 DEF Place, ObjectAt
<1>4. CASE k = Len(q) + 1
  BY <1>4, <1>1, <1>2, Sentinels DEF Place, ObjectAt
<1>5. CASE k \in 1..Len(q)
  <2>1. ObjectAt(q, k) = q[k] /\ q[k] # HeadNode /\ q[k] # TailNode
    BY <1>1, <1>5, ObjectsDiffer, Sentinels
  <2>2. (CHOOSE i \in DOMAIN q : q[i] = q[k]) = k
    BY <1>1, <1>5
  <2> QED
    BY <2>1, <2>2, <1>1, <1>2, <1>5 DEF Place
<1> QED
  BY <1>1, <1>3, <1>4, <1>5

LEMMA ListAt ==
    ASSUME NEW q, NEW p, Holds(q, p)
    PROVE  InOrder = q /\ Place(iter) = p
<1>1. p \in 0..Len(q) + 1 /\ iter = ObjectAt(q, p)
  BY DEF Holds
<1> QED
  BY <1>1, InOrderIs, PlaceIs

LEMMA ListNow == \A q, p : Holds(q, p) => InOrder = q /\ Place(iter) = p
BY ListAt

LEMMA ListThen == (\A q, p : Holds(q, p) => InOrder = q /\ Place(iter) = p)'
BY ListNow, PTL

-----------------------------------------------------------------------------
(* Steps.                                                                  *)

(* What InsnList says of a sequence q with its cursor at p: they become r  *)
(* and m.                                                                  *)
Follows(q, p, r, m) ==
    \/ \E x \in Nodes \ Range(q) : /\ r = InsertAt(q, 1, x)
                                   /\ m = IF p >= 1 THEN p + 1 ELSE p
    \/ \E x \in Nodes \ Range(q) : /\ r = InsertAt(q, Len(q) + 1, x)
                                   /\ m = IF p >= Len(q) + 1 THEN p + 1 ELSE p
    \/ /\ p <= Len(q)
       /\ \E x \in Nodes \ Range(q) : r = InsertAt(q, p + 1, x)
       /\ m = p + 1
    \/ p \in DOMAIN q /\ r = RemoveAt(q, p) /\ m = p
    \/ r = q /\ m = 1
    \/ r = q /\ p <= Len(q) /\ m = p + 1
    \/ r = q /\ p > 0 /\ m = p - 1
    \/ r = q /\ m \in DOMAIN q
    \/ r = q /\ m = p

(* InsnList's sequences are the ones of this module.                       *)
LEMMA SameOperators ==
    /\ \A f : List!Range(f) = Range(f)
    /\ \A f, i, x : List!InsertAt(f, i, x) = InsertAt(f, i, x)
    /\ \A f, i : List!RemoveAt(f, i) = RemoveAt(f, i)
<1>1. \A f : List!Range(f) = Range(f)
  BY DEF List!Range, Range
<1>2. \A f, i, x : List!InsertAt(f, i, x) = InsertAt(f, i, x)
  BY Zenon DEF List!InsertAt, InsertAt
<1>3. \A f, i : List!RemoveAt(f, i) = RemoveAt(f, i)
  BY Zenon DEF List!RemoveAt, RemoveAt
<1> QED
  BY <1>1, <1>2, <1>3

LEMMA FollowsIsNext ==
    ASSUME NEW q, NEW p, Holds(q, p), NEW r, NEW m, Holds(r, m)', Follows(q, p, r, m)
    PROVE  [List!Next]_<<InOrder, Place(iter)>>
<1>1. InOrder = q /\ Place(iter) = p
  BY ListNow
<1>2. InOrder' = r /\ Place(iter)' = m
  BY ListThen
<1>3. ASSUME NEW x \in Nodes \ Range(q)
      PROVE  /\ r = InsertAt(q, 1, x) /\ m = (IF p >= 1 THEN p + 1 ELSE p)
                => List!InsertFirst
             /\ r = InsertAt(q, Len(q) + 1, x) /\ m = (IF p >= Len(q) + 1 THEN p + 1 ELSE p)
                => List!InsertLast
             /\ p <= Len(q) /\ r = InsertAt(q, p + 1, x) /\ m = p + 1
                => List!InsertBehindCursor
  <2>0. x \in Nodes /\ x \notin Range(q)
    OBVIOUS
  <2>2. r = InsertAt(q, 1, x) /\ m = (IF p >= 1 THEN p + 1 ELSE p) => List!Insert(x, 1)
    BY <1>1, <1>2, <2>0, SameOperators, Zenon DEF List!Insert
  <2>3. r = InsertAt(q, Len(q) + 1, x) /\ m = (IF p >= Len(q) + 1 THEN p + 1 ELSE p)
        => List!Insert(x, Len(InOrder) + 1)
    BY <1>1, <1>2, <2>0, SameOperators, Zenon DEF List!Insert
  <2>4. p <= Len(q) /\ r = InsertAt(q, p + 1, x) /\ m = p + 1 => List!InsertBehindCursor
    <3>1. x \in Nodes \ List!Range(InOrder)
      BY <1>1, <2>0, SameOperators
    <3> QED
      BY <1>1, <1>2, <3>1, SameOperators, Zenon DEF List!InsertBehindCursor
  <2> QED
    BY <2>0, <2>2, <2>3, <2>4 DEF List!InsertFirst, List!InsertLast
<1> USE DEF List!Next, List!RemoveUnderCursor, List!Start, List!Forth, List!Back, List!GoTo
<1>4. CASE \E x \in Nodes \ Range(q) :
            \/ r = InsertAt(q, 1, x) /\ m = IF p >= 1 THEN p + 1 ELSE p
            \/ r = InsertAt(q, Len(q) + 1, x) /\ m = IF p >= Len(q) + 1 THEN p + 1 ELSE p
            \/ p <= Len(q) /\ r = InsertAt(q, p + 1, x) /\ m = p + 1
  BY <1>3, <1>4
<1>6. CASE p \in DOMAIN q /\ r = RemoveAt(q, p) /\ m = p
  BY <1>1, <1>2, <1>6, SameOperators, Zenon
<1>7. CASE r = q /\ m = 1
  BY <1>1, <1>2, <1>7, Zenon
<1>8. CASE r = q /\ p <= Len(q) /\ m = p + 1
  BY <1>1, <1>2, <1>8, Zenon
<1>9. CASE r = q /\ p > 0 /\ m = p - 1
  BY <1>1, <1>2, <1>9, Zenon
<1>10. CASE r = q /\ m \in DOMAIN q
  BY <1>1, <1>2, <1>10, Zenon
<1>11. CASE r = q /\ m = p
  BY <1>1, <1>2, <1>11, Zenon
<1> QED
  <2> HIDE DEF List!Next, List!RemoveUnderCursor, List!Start, List!Forth, List!Back, List!GoTo
  <2> QED
    BY <1>4, <1>6, <1>7, <1>8, <1>9, <1>10, <1>11, Zenon DEF Follows

(* What holds of a list is what the lemmas about sequences ask for.        *)
LEMMA HoldsFacts ==
    ASSUME NEW q, NEW p, Holds(q, p)
    PROVE  /\ q \in Seq(Nodes) /\ Len(q) \in Nat /\ DOMAIN q = 1..Len(q)
           /\ Len(q) <= new /\ new \in Nat /\ new <= MaxNodes /\ MaxNodes \in Nat
           /\ p \in 0..Len(q) + 1
           /\ \A k \in 1..Len(q) : q[k] \in Nodes /\ q[k] <= new
           /\ new < MaxNodes => new + 1 \in Nodes
           /\ \A k \in 1..Len(q) : q[k] # new + 1
           /\ new + 1 \notin Range(q)
<1>1. q \in Seq(Nodes) /\ Len(q) \in Nat /\ DOMAIN q = 1..Len(q)
  BY LenProperties DEF Holds, Links
<1>2. /\ Len(q) <= new /\ new \in Nat /\ new <= MaxNodes /\ MaxNodes \in Nat
      /\ p \in 0..Len(q) + 1
  BY Sentinels DEF Holds
<1>3. \A k \in 1..Len(q) : q[k] \in Nodes /\ q[k] <= new
  BY <1>1, ElementOfSeq DEF Holds
<1>4. \A k \in 1..Len(q) : q[k] # new + 1
  BY <1>2, <1>3 DEF Nodes
<1>5. new < MaxNodes => new + 1 \in Nodes
  BY <1>2 DEF Nodes
<1>6. new + 1 \notin Range(q)
  BY <1>1, <1>4 DEF Range
<1> QED
  BY <1>1, <1>2, <1>3, <1>4, <1>5, <1>6

(* A sequence with one more node, the newest.                              *)
LEMMA NodePutIn ==
    ASSUME NEW q, NEW p, Holds(q, p), new < MaxNodes,
           NEW n \in 1..Len(q) + 1, NEW r, r = InsertAt(q, n, new + 1)
    PROVE  /\ r \in Seq(Nodes) /\ Len(r) = Len(q) + 1
           /\ \A k \in 1..Len(r) : r[k] <= new + 1
           /\ \A k \in 0..Len(q) + 1 : k < n => ObjectAt(r, k) = ObjectAt(q, k)
           /\ \A k \in 0..Len(q) + 1 : k >= n => ObjectAt(r, k + 1) = ObjectAt(q, k)
           /\ ObjectAt(r, n) = new + 1
<1>0. /\ q \in Seq(Nodes) /\ Len(q) \in Nat /\ new + 1 \in Nodes /\ new \in Nat
      /\ \A k \in 1..Len(q) : q[k] \in Nodes /\ q[k] <= new
  BY HoldsFacts
<1>1. /\ r \in Seq(Nodes) /\ Len(r) = Len(q) + 1
      /\ \A k \in 1..Len(q) + 1 : r[k] = IF k < n THEN q[k]
                                         ELSE IF k = n THEN new + 1 ELSE q[k - 1]
  <2>1. \A x \in Nodes :
            /\ InsertAt(q, n, x) \in Seq(Nodes)
            /\ Len(InsertAt(q, n, x)) = Len(q) + 1
            /\ \A k \in 1..Len(q) + 1 :
                  InsertAt(q, n, x)[k] = IF k < n THEN q[k]
                                         ELSE IF k = n THEN x ELSE q[k - 1]
    BY <1>0, InsertAtProperties
  <2> QED
    BY <1>0, <2>1
<1>2. \A k \in 1..Len(r) : r[k] <= new + 1
  <2> SUFFICES ASSUME NEW k \in 1..Len(r) PROVE r[k] <= new + 1
    OBVIOUS
  <2>1. CASE k < n
    <3>1. k \in 1..Len(q) /\ r[k] = q[k]
      BY <2>1, <1>0, <1>1
    <3> QED
      BY <3>1, <1>0 DEF Nodes
  <2>2. CASE k = n
    BY <2>2, <1>0, <1>1
  <2>3. CASE k > n
    <3>1. k - 1 \in 1..Len(q) /\ r[k] = q[k - 1]
      BY <2>3, <1>0, <1>1
    <3> QED
      BY <3>1, <1>0 DEF Nodes
  <2> QED
    BY <2>1, <2>2, <2>3, <1>0
<1>3. \A k \in 0..Len(q) + 1 : k < n => ObjectAt(r, k) = ObjectAt(q, k)
  BY <1>0, <1>1 DEF ObjectAt
<1>4. \A k \in 0..Len(q) + 1 : k >= n => ObjectAt(r, k + 1) = ObjectAt(q, k)
  <2> SUFFICES ASSUME NEW k \in 0..Len(q) + 1, k >= n
               PROVE  ObjectAt(r, k + 1) = ObjectAt(q, k)
    OBVIOUS
  <2>1. k + 1 # 0 /\ k # 0 /\ (k + 1 = Len(r) + 1 <=> k = Len(q) + 1)
    <3>1. Len(r) = Len(q) + 1 /\ Len(q) \in Nat
      BY <1>0, <1>1
    <3>2. \A a, b, c \in Nat : b = c + 1 => (a + 1 = b + 1 <=> a = c + 1)
      OBVIOUS
    <3>3. k \in Nat /\ n \in Nat /\ n > 0 /\ Len(r) \in Nat
      BY <3>1
    <3>4. k + 1 = Len(r) + 1 <=> k = Len(q) + 1
      BY <3>1, <3>2, <3>3
    <3>5. k + 1 # 0 /\ k # 0
      BY <3>3
    <3> QED
      BY <3>4, <3>5
  <2>2. k # Len(q) + 1 => r[k + 1] = q[k]
    <3> SUFFICES ASSUME k # Len(q) + 1 PROVE r[k + 1] = q[k]
      OBVIOUS
    <3>1. k + 1 \in 1..Len(q) + 1 /\ ~ (k + 1 < n) /\ k + 1 # n /\ (k + 1) - 1 = k
      BY <1>0
    <3> QED
      BY <3>1, <1>1
  <2> QED
    BY <2>1, <2>2 DEF ObjectAt
<1>5. ObjectAt(r, n) = new + 1
  BY <1>0, <1>1 DEF ObjectAt
<1> QED
  BY <1>1, <1>2, <1>3, <1>4, <1>5

LEMMA InsertAtBeginStep ==
    ASSUME NEW q, NEW p, Holds(q, p), InsertAtBegin
    PROVE  \E r, m : Holds(r, m)' /\ Follows(q, p, r, m)
<1> PICK r : r = InsertAt(q, 1, new + 1)
  OBVIOUS
<1> DEFINE m == IF p >= 1 THEN p + 1 ELSE p
<1>0. /\ Links(heap, q) /\ size = Len(q) /\ iter = ObjectAt(q, p)
      /\ new' = new + 1 /\ size' = size + 1 /\ iter' = iter /\ new < MaxNodes
      /\ heap' = InsertedAtNext(heap, HeadNode, new + 1)
  BY DEF Holds, InsertAtBegin
<1>1. /\ Len(q) \in Nat /\ p \in 0..Len(q) + 1 /\ new + 1 \in Nodes /\ new \in Nat
      /\ \A k \in 1..Len(q) : q[k] # new + 1
      /\ new + 1 \notin Range(q) /\ Len(q) <= new /\ MaxNodes \in Nat
  BY <1>0, HoldsFacts
<1>2. 0 \in 0..Len(q) /\ ObjectAt(q, 0) = HeadNode /\ 0 + 1 = 1 /\ 1 \in 1..Len(q) + 1
  BY <1>1 DEF ObjectAt
<1>3. Links(heap', r)
  <2>1. Links(InsertedAtNext(heap, ObjectAt(q, 0), new + 1), InsertAt(q, 0 + 1, new + 1))
    BY <1>0, <1>1, <1>2, InsertedAtNextLinks
  <2> QED
    BY <2>1, <1>0, <1>2
<1>4. /\ Len(r) = Len(q) + 1
      /\ \A k \in 1..Len(r) : r[k] <= new + 1
      /\ \A k \in 0..Len(q) + 1 : k < 1 => ObjectAt(r, k) = ObjectAt(q, k)
      /\ \A k \in 0..Len(q) + 1 : k >= 1 => ObjectAt(r, k + 1) = ObjectAt(q, k)
  <2>1. r = InsertAt(q, 1, new + 1)
    OBVIOUS
  <2> QED
    BY <2>1, <1>0, <1>2, NodePutIn
<1>5. Follows(q, p, r, m)
  BY <1>1, Zenon DEF Follows
<1>6. m \in 0..Len(r) + 1 /\ iter' = ObjectAt(r, m)
  BY <1>0, <1>1, <1>4
<1>7. new' \in 0..MaxNodes /\ size' = Len(r) /\ Len(r) <= new'
      /\ \A k \in 1..Len(r) : r[k] <= new'
  BY <1>0, <1>1, <1>4
<1>8. Holds(r, m)'
  <2> HIDE DEF m
  <2> QED
    BY <1>3, <1>6, <1>7 DEF Holds
<1> QED
  BY <1>5, <1>8

LEMMA InsertAtTailStep ==
    ASSUME NEW q, NEW p, Holds(q, p), InsertAtTail
    PROVE  \E r, m : Holds(r, m)' /\ Follows(q, p, r, m)
<1> PICK r : r = InsertAt(q, Len(q) + 1, new + 1)
  OBVIOUS
<1> DEFINE m == IF p >= Len(q) + 1 THEN p + 1 ELSE p
<1>0. /\ Links(heap, q) /\ size = Len(q) /\ iter = ObjectAt(q, p)
      /\ new' = new + 1 /\ size' = size + 1 /\ iter' = iter /\ new < MaxNodes
      /\ heap' = InsertedAtPrev(heap, TailNode, new + 1)
  BY DEF Holds, InsertAtTail
<1>1. /\ Len(q) \in Nat /\ p \in 0..Len(q) + 1 /\ new + 1 \in Nodes /\ new \in Nat
      /\ \A k \in 1..Len(q) : q[k] # new + 1
      /\ new + 1 \notin Range(q) /\ Len(q) <= new /\ MaxNodes \in Nat
  BY <1>0, HoldsFacts
<1>2. Len(q) \in 0..Len(q) /\ ObjectAt(q, Len(q) + 1) = TailNode /\ Len(q) + 1 \in 1..Len(q) + 1
  BY <1>1 DEF ObjectAt
<1>3. Links(heap', r)
  <2>1. Links(InsertedAtPrev(heap, ObjectAt(q, Len(q) + 1), new + 1), InsertAt(q, Len(q) + 1, new + 1))
    BY <1>0, <1>1, <1>2, InsertedAtPrevLinks
  <2> QED
    BY <2>1, <1>0, <1>2
<1>4. /\ Len(r) = Len(q) + 1
      /\ \A k \in 1..Len(r) : r[k] <= new + 1
      /\ \A k \in 0..Len(q) + 1 : k < Len(q) + 1 => ObjectAt(r, k) = ObjectAt(q, k)
      /\ \A k \in 0..Len(q) + 1 : k >= Len(q) + 1 => ObjectAt(r, k + 1) = ObjectAt(q, k)
  <2>1. r = InsertAt(q, Len(q) + 1, new + 1)
    OBVIOUS
  <2> QED
    BY <2>1, <1>0, <1>2, NodePutIn
<1>5. Follows(q, p, r, m)
  BY <1>1, Zenon DEF Follows
<1>6. m \in 0..Len(r) + 1 /\ iter' = ObjectAt(r, m)
  BY <1>0, <1>1, <1>4
<1>7. new' \in 0..MaxNodes /\ size' = Len(r) /\ Len(r) <= new'
      /\ \A k \in 1..Len(r) : r[k] <= new'
  BY <1>0, <1>1, <1>4
<1>8. Holds(r, m)'
  <2> HIDE DEF m
  <2> QED
    BY <1>3, <1>6, <1>7 DEF Holds
<1> QED
  BY <1>5, <1>8

LEMMA InsertAfterStep ==
    ASSUME NEW q, NEW p, Holds(q, p), InsertAfter
    PROVE  \E r, m : Holds(r, m)' /\ Follows(q, p, r, m)
<1> PICK r : r = InsertAt(q, p + 1, new + 1)
  OBVIOUS
<1>0. /\ Links(heap, q) /\ size = Len(q) /\ iter = ObjectAt(q, p) /\ iter # TailNode
      /\ new' = new + 1 /\ size' = size + 1 /\ iter' = new + 1 /\ new < MaxNodes
      /\ heap' = InsertedAtNext(heap, iter, new + 1)
  BY DEF Holds, InsertAfter
<1>1. /\ Len(q) \in Nat /\ p \in 0..Len(q) + 1 /\ new + 1 \in Nodes /\ new \in Nat
      /\ \A k \in 1..Len(q) : q[k] # new + 1
      /\ new + 1 \notin Range(q) /\ Len(q) <= new /\ MaxNodes \in Nat
  BY <1>0, HoldsFacts
<1>2. p \in 0..Len(q) /\ p <= Len(q) /\ p + 1 \in 1..Len(q) + 1
  <2>1. p # Len(q) + 1
    BY <1>0, <1>1 DEF ObjectAt
  <2> QED
    BY <2>1, <1>1
<1>3. Links(heap', r)
  BY <1>0, <1>1, <1>2, InsertedAtNextLinks
<1>4. /\ Len(r) = Len(q) + 1
      /\ \A k \in 1..Len(r) : r[k] <= new + 1
      /\ ObjectAt(r, p + 1) = new + 1
  <2>1. r = InsertAt(q, p + 1, new + 1)
    OBVIOUS
  <2>2. \A n \in 1..Len(q) + 1 : r = InsertAt(q, n, new + 1) =>
            /\ Len(r) = Len(q) + 1
            /\ \A k \in 1..Len(r) : r[k] <= new + 1
            /\ ObjectAt(r, n) = new + 1
    BY <1>0, NodePutIn
  <2> QED
    BY <2>1, <2>2, <1>2
<1>5. Follows(q, p, r, p + 1)
  BY <1>1, <1>2, Zenon DEF Follows
<1>6. p + 1 \in 0..Len(r) + 1 /\ iter' = ObjectAt(r, p + 1)
  BY <1>0, <1>1, <1>2, <1>4
<1>7. new' \in 0..MaxNodes /\ size' = Len(r) /\ Len(r) <= new'
      /\ \A k \in 1..Len(r) : r[k] <= new'
  BY <1>0, <1>1, <1>4
<1>8. Holds(r, p + 1)'
  BY <1>3, <1>6, <1>7 DEF Holds
<1> QED
  BY <1>5, <1>8

LEMMA RemoveNodeStep ==
    ASSUME NEW q, NEW p, Holds(q, p), RemoveNode
    PROVE  \E r, m : Holds(r, m)' /\ Follows(q, p, r, m)
<1> DEFINE r == RemoveAt(q, p)
<1>0. /\ Links(heap, q) /\ size = Len(q) /\ iter = ObjectAt(q, p) /\ iter \in Nodes
      /\ new' = new /\ size' = size - 1 /\ iter' = heap[iter].next
      /\ heap' = RemovedSelf(heap, iter)
  BY DEF Holds, RemoveNode
<1>1. /\ q \in Seq(Nodes) /\ Len(q) \in Nat /\ p \in 0..Len(q) + 1 /\ new \in Nat
      /\ DOMAIN q = 1..Len(q) /\ Len(q) <= new /\ MaxNodes \in Nat /\ new <= MaxNodes
      /\ \A k \in 1..Len(q) : q[k] <= new
  BY HoldsFacts
<1>2. p \in 1..Len(q) /\ iter = q[p]
  BY <1>0, <1>1, Sentinels DEF ObjectAt
<1>3. Links(heap', r)
  BY <1>0, <1>2, RemovedSelfLinks
<1>4. /\ Len(r) = Len(q) - 1
      /\ \A k \in 1..Len(q) - 1 : r[k] = IF k < p THEN q[k] ELSE q[k + 1]
  BY <1>1, <1>2, RemoveAtProperties
<1>5. Follows(q, p, r, p)
  BY <1>1, <1>2, Zenon DEF Follows
<1> HIDE DEF r
<1>6. iter' = ObjectAt(q, p + 1)
  <2>1. p \in 0..Len(q)
    BY <1>1, <1>2
  <2> QED
    BY <2>1, <1>0 DEF Links
<1>7. p \in 0..Len(r) + 1 /\ ObjectAt(r, p) = ObjectAt(q, p + 1)
  <2>1. /\ p # 0 /\ p + 1 # 0 /\ (p = Len(r) + 1 <=> p + 1 = Len(q) + 1)
        /\ p \in 0..Len(r) + 1
    <3>1. Len(r) = Len(q) - 1 /\ Len(q) \in Nat /\ p \in 1..Len(q)
      BY <1>1, <1>2, <1>4
    <3> QED
      BY <3>1, SMTT(30)
  <2>2. p # Len(q) => r[p] = q[p + 1]
    <3> SUFFICES ASSUME p # Len(q) PROVE r[p] = q[p + 1]
      OBVIOUS
    <3>1. p \in 1..Len(q) - 1 /\ ~ (p < p)
      <4>1. Len(q) \in Nat /\ p \in 1..Len(q)
        BY <1>1, <1>2
      <4> QED
        BY <4>1
    <3>2. \A k \in 1..Len(q) - 1 : r[k] = IF k < p THEN q[k] ELSE q[k + 1]
      BY <1>4
    <3> QED
      BY <3>1, <3>2, Zenon
  <2> QED
    BY <2>1, <2>2, <1>1, <1>2 DEF ObjectAt
<1>8. new' \in 0..MaxNodes /\ size' = Len(r) /\ Len(r) <= new'
      /\ \A k \in 1..Len(r) : r[k] <= new'
  <2>1. \A k \in 1..Len(r) : r[k] <= new
    <3> SUFFICES ASSUME NEW k \in 1..Len(r) PROVE r[k] <= new
      OBVIOUS
    <3>1. k \in 1..Len(q) - 1 /\ k \in 1..Len(q) /\ k + 1 \in 1..Len(q)
      BY <1>1, <1>4
    <3>2. r[k] = q[k] \/ r[k] = q[k + 1]
      BY <3>1, <1>4
    <3> QED
      BY <3>1, <3>2, <1>1
  <2> QED
    BY <2>1, <1>0, <1>1, <1>4
<1>9. Holds(r, p)'
  BY <1>3, <1>6, <1>7, <1>8 DEF Holds
<1> QED
  BY <1>5, <1>9

(* Moving the iterator leaves the list alone.                              *)
LEMMA IteratorMoves ==
    ASSUME NEW q, NEW p, Holds(q, p), UNCHANGED <<heap, new, size>>,
           NEW m \in 0..Len(q) + 1, iter' = ObjectAt(q, m)
    PROVE  Holds(q, m)'
BY DEF Holds

(* get goes along next as often as it is told.                             *)
LEMMA GetStep ==
    ASSUME NEW q, NEW p, Holds(q, p), NEW i \in 0..MaxNodes - 1, Get(i)
    PROVE  \E r, m : Holds(r, m)' /\ Follows(q, p, r, m)
<1> DEFINE F(g) == [k \in 0..i |-> IF k = 0 THEN heap[HeadNode].next ELSE heap[g[k - 1]].next]
           go   == CHOOSE g : g = F(g)
           met  == [k \in 0..i |-> ObjectAt(q, k + 1)]
<1>0. i < size /\ iter' = go[i] /\ UNCHANGED <<heap, new, size>>
  BY DEF Get
<1>1. /\ Len(q) \in Nat /\ size = Len(q) /\ DOMAIN q = 1..Len(q) /\ i \in Nat /\ i < Len(q)
      /\ \A k \in 0..Len(q) : heap[ObjectAt(q, k)].next = ObjectAt(q, k + 1)
      /\ ObjectAt(q, 0) = HeadNode
  BY <1>0, HoldsFacts DEF Holds, Links, ObjectAt
<1>2. met = F(met)
  <2>1. ASSUME NEW k \in 0..i
        PROVE  met[k] = IF k = 0 THEN heap[HeadNode].next ELSE heap[met[k - 1]].next
    <3>1. CASE k = 0
      <4>1. 0 \in 0..Len(q) /\ 0 + 1 = 1
        BY <1>1
      <4>2. met[0] = ObjectAt(q, 0 + 1)
        BY <3>1
      <4> HIDE DEF met
      <4> QED
        BY <4>1, <4>2, <3>1, <1>1
    <3>2. CASE k # 0
      <4>1. k - 1 \in 0..i /\ (k - 1) + 1 = k /\ k \in 0..Len(q)
        BY <3>2, <1>1
      <4>2. met[k] = ObjectAt(q, k + 1) /\ met[k - 1] = ObjectAt(q, k)
        BY <4>1
      <4> HIDE DEF met
      <4> QED
        BY <4>1, <4>2, <3>2, <1>1
    <3> QED
      BY <3>1, <3>2
  <2>2. met = [k \in 0..i |-> met[k]]
    OBVIOUS
  <2> HIDE DEF met
  <2> QED
    BY <2>1, <2>2
<1>3. go = F(go)
  <2> HIDE DEF met, F
  <2> QED
    BY <1>2, Zenon
<1>4. go[i] = met[i]
  <2> HIDE DEF met, go
  <2> DEFINE T == {k \in Nat : k \in 0..i => go[k] = met[k]}
  <2>1. 0 \in T
    <3>1. 0 \in 0..i
      BY <1>1
    <3> QED
      BY <3>1, <1>2, <1>3
  <2>2. ASSUME NEW n \in T
        PROVE  n + 1 \in T
    <3> SUFFICES ASSUME n + 1 \in 0..i PROVE go[n + 1] = met[n + 1]
      OBVIOUS
    <3>1. n \in 0..i /\ n + 1 # 0 /\ (n + 1) - 1 = n
      BY <1>1
    <3>2. go[n + 1] = heap[go[n]].next /\ met[n + 1] = heap[met[n]].next
      BY <3>1, <1>2, <1>3
    <3> QED
      BY <3>1, <3>2
  <2>3. T = Nat
    <3>1. T \in SUBSET Nat
      OBVIOUS
    <3> HIDE DEF T
    <3> QED
      BY <2>1, <2>2, <3>1, NatInduct
  <2> QED
    BY <2>3, <1>1
<1>5. met[i] = ObjectAt(q, i + 1)
  BY <1>1
<1> HIDE DEF go, met
<1>6. i + 1 \in 0..Len(q) + 1 /\ i + 1 \in DOMAIN q
  BY <1>1
<1>7. Holds(q, i + 1)'
  BY <1>0, <1>4, <1>5, <1>6, IteratorMoves
<1>8. Follows(q, p, q, i + 1)
  BY <1>6 DEF Follows
<1> QED
  BY <1>7, <1>8

LEMMA MoveStep ==
    ASSUME NEW q, NEW p, Holds(q, p), Begin \/ Forward \/ Backward
    PROVE  \E r, m : Holds(r, m)' /\ Follows(q, p, r, m)
<1>1. /\ Len(q) \in Nat /\ p \in 0..Len(q) + 1 /\ iter = ObjectAt(q, p)
      /\ ObjectAt(q, 0) = HeadNode /\ ObjectAt(q, Len(q) + 1) = TailNode
      /\ \A k \in 0..Len(q) : /\ heap[ObjectAt(q, k)].next = ObjectAt(q, k + 1)
                              /\ heap[ObjectAt(q, k + 1)].prev = ObjectAt(q, k)
  BY HoldsFacts DEF Holds, Links, ObjectAt
<1>2. CASE Begin
  <2>1. iter' = ObjectAt(q, 0 + 1) /\ UNCHANGED <<heap, new, size>>
    <3>1. 0 \in 0..Len(q)
      BY <1>1
    <3> QED
      BY <3>1, <1>1, <1>2 DEF Begin
  <2>2. 1 \in 0..Len(q) + 1 /\ 0 + 1 = 1
    BY <1>1
  <2>3. Holds(q, 1)'
    BY <2>1, <2>2, IteratorMoves
  <2> QED
    BY <2>3 DEF Follows
<1>3. CASE Forward
  <2>1. p # Len(q) + 1
    BY <1>1, <1>3 DEF Forward
  <2>2. p \in 0..Len(q) /\ p <= Len(q) /\ p + 1 \in 0..Len(q) + 1
    BY <2>1, <1>1
  <2>3. iter' = ObjectAt(q, p + 1) /\ UNCHANGED <<heap, new, size>>
    BY <2>2, <1>1, <1>3 DEF Forward
  <2>4. Holds(q, p + 1)'
    BY <2>2, <2>3, IteratorMoves
  <2> QED
    BY <2>2, <2>4 DEF Follows
<1>4. CASE Backward
  <2>1. p # 0
    BY <1>1, <1>4 DEF Backward
  <2>2. p - 1 \in 0..Len(q) /\ p > 0 /\ p - 1 \in 0..Len(q) + 1 /\ (p - 1) + 1 = p
    BY <2>1, <1>1
  <2>3. iter' = ObjectAt(q, p - 1) /\ UNCHANGED <<heap, new, size>>
    BY <2>2, <1>1, <1>4 DEF Backward
  <2>4. Holds(q, p - 1)'
    BY <2>2, <2>3, IteratorMoves
  <2> QED
    BY <2>2, <2>4 DEF Follows
<1> QED
  BY <1>2, <1>3, <1>4

LEMMA ListStep ==
    ASSUME NEW q, NEW p, Holds(q, p), [ListNext]_listVars
    PROVE  \E r, m : Holds(r, m)' /\ Follows(q, p, r, m)
<1>1. CASE UNCHANGED listVars
  <2>1. Holds(q, p)'
    BY <1>1 DEF listVars, Holds
  <2> QED
    BY <2>1 DEF Follows
<1>2. CASE InsertAtBegin
  BY <1>2, InsertAtBeginStep
<1>3. CASE InsertAtTail
  BY <1>3, InsertAtTailStep
<1>4. CASE InsertAfter
  BY <1>4, InsertAfterStep
<1>5. CASE RemoveNode
  BY <1>5, RemoveNodeStep
<1>6. CASE Begin \/ Forward \/ Backward
  BY <1>6, MoveStep
<1>7. CASE \E i \in 0..MaxNodes - 1 : Get(i)
  BY <1>7, GetStep
<1> QED
  BY <1>1, <1>2, <1>3, <1>4, <1>5, <1>6, <1>7 DEF ListNext

LEMMA ListInitHolds == ListInit => Holds(<<>>, 1)
<1> SUFFICES ASSUME ListInit PROVE Holds(<<>>, 1)
  OBVIOUS
<1>1. <<>> \in Seq(Nodes) /\ Len(<<>>) = 0
  OBVIOUS
<1>2. ObjectAt(<<>>, 0) = HeadNode /\ ObjectAt(<<>>, 1) = TailNode /\ ObjectAt(<<>>, 0 + 1) = TailNode
  BY <1>1 DEF ObjectAt
<1>3. \A k \in 0..Len(<<>>) : k = 0
  BY <1>1
<1>4. Links(heap, <<>>)
  <2>1. heap \in [Objects -> [prev : Objects \cup {NullPtr}, next : Objects \cup {NullPtr}]]
    BY Sentinels DEF ListInit
  <2>2. /\ heap[HeadNode].next = TailNode /\ heap[TailNode].prev = HeadNode
        /\ heap[HeadNode].prev = NullPtr /\ heap[TailNode].next = NullPtr
    BY Sentinels DEF ListInit
  <2>3. \A i, j \in 1..Len(<<>>) : <<>>[i] = <<>>[j] => i = j
    BY <1>1
  <2>4. \A k \in 0..Len(<<>>) : /\ heap[ObjectAt(<<>>, k)].next = ObjectAt(<<>>, k + 1)
                                /\ heap[ObjectAt(<<>>, k + 1)].prev = ObjectAt(<<>>, k)
    BY <1>2, <1>3, <2>2
  <2> QED
    BY <1>1, <2>1, <2>2, <2>3, <2>4 DEF Links
<1>5. /\ new = 0 /\ size = Len(<<>>) /\ new \in 0..MaxNodes /\ Len(<<>>) <= new
      /\ \A k \in 1..Len(<<>>) : <<>>[k] <= new
      /\ 1 \in 0..Len(<<>>) + 1 /\ iter = TailNode
  BY <1>1, Sentinels DEF ListInit
<1> QED
  BY <1>2, <1>4, <1>5 DEF Holds

-----------------------------------------------------------------------------
(* Theorems.                                                               *)

(* Whatever the passes do with the methods of LinkList, the heap holds a   *)
(* doubly linked list, and the iterator is on it: no method leaves a       *)
(* pointer to a removed node, or a null one between the sentinels.         *)
THEOREM ListAlwaysLinked == ListSpec => []ListInv
<1>1. ListInit => ListInv
  BY ListInitHolds DEF ListInv
<1>2. ListInv /\ [ListNext]_listVars => ListInv'
  <2> SUFFICES ASSUME ListInv, [ListNext]_listVars PROVE ListInv'
    OBVIOUS
  <2>1. PICK q, p : Holds(q, p)
    BY DEF ListInv
  <2>2. \E r, m : Holds(r, m)'
    BY <2>1, ListStep
  <2> QED
    BY <2>2 DEF ListInv
<1> QED
  BY <1>1, <1>2, PTL DEF ListSpec

(* The list read backwards along prev is the list read forwards along      *)
(* next, whatever has been inserted and removed.                           *)
THEOREM AlwaysSameBackwards == ListSpec => []SameBackwards
<1>1. ListInv => SameBackwards
  BY InOrderIs DEF ListInv, SameBackwards
<1> QED
  BY <1>1, ListAlwaysLinked, PTL

(* size, which get and the counting loops trust, is how many nodes can be  *)
(* reached.                                                                *)
THEOREM SizeAlwaysCounts == ListSpec => []SizeCounts
<1>1. ListInv => SizeCounts
  <2> SUFFICES ASSUME ListInv PROVE SizeCounts
    OBVIOUS
  <2>1. PICK q, p : Holds(q, p)
    BY DEF ListInv
  <2>2. InOrder = q /\ size = Len(q)
    BY <2>1, InOrderIs DEF Holds
  <2> QED
    BY <2>2 DEF SizeCounts
<1> QED
  BY <1>1, ListAlwaysLinked, PTL

(* LinkList implements InsnList: every method does to the sequence and the *)
(* cursor what the models of the passes take it to do.                     *)
THEOREM ListImplements == ListSpec => IsList
<1>1. ListInit => List!Init
  <2> SUFFICES ASSUME ListInit PROVE List!Init
    OBVIOUS
  <2>1. InOrder = <<>> /\ Place(iter) = 1
    BY ListInitHolds, ListNow
  <2> QED
    BY <2>1 DEF List!Init
<1>2. ListInv /\ [ListNext]_listVars => [List!Next]_<<InOrder, Place(iter)>>
  <2> SUFFICES ASSUME ListInv, [ListNext]_listVars PROVE [List!Next]_<<InOrder, Place(iter)>>
    OBVIOUS
  <2>1. PICK q, p : Holds(q, p)
    BY DEF ListInv
  <2>2. PICK r, m : Holds(r, m)' /\ Follows(q, p, r, m)
    BY <2>1, ListStep
  <2> QED
    BY <2>1, <2>2, FollowsIsNext
<1> QED
  BY <1>1, <1>2, ListAlwaysLinked, PTL DEF ListSpec, IsList, List!Spec

-----------------------------------------------------------------------------
(* Facts about one deletion.                                               *)

LEMMA RemoveKeepsRels ==
    ASSUME NEW t, Sound(t), NEW i \in 0..Len(t.insns) - 1, ~ InRel(t, i),
           NEW u, u = RemoveInsn(t, i + 1, i),
           NEW j \in DOMAIN t.rels, t.rels[j].valid
    PROVE  RelAnchored(u, j)
<1> DEFINE rel == t.rels[j]
<1>0. /\ t \in TBType /\ Len(t.insns) \in Nat /\ i \in Nat
      /\ rel.off \in Nat /\ rel.slots \in Nat \ {0}
  <2>1. t \in TBType
    BY DEF Sound, Loaded
  <2>2. Len(t.insns) \in Nat /\ i \in Nat
    BY <2>1, IndexFacts
  <2> QED
    BY <2>1, <2>2, RelFacts
<1>1. ~ Covers(rel, i)
  BY DEF InRel, ValidAt
<1>2. /\ u.rels[j].slots = rel.slots
      /\ \/ i < rel.off /\ u.rels[j].off = rel.off - 1
         \/ rel.off + rel.slots <= i /\ u.rels[j].off = rel.off
  BY <1>0, <1>1, RelAfterRemove
<1>3. /\ Len(u.insns) = Len(t.insns) - 1
      /\ \A k \in 1..Len(t.insns) - 1 :
            u.insns[k] = IF k < i + 1 THEN t.insns[k] ELSE t.insns[k + 1]
  BY <1>0, RemoveInsnFields
<1>4. /\ rel.slots = block.rels[j].slots
      /\ rel.off + rel.slots <= Len(t.insns)
      /\ \A s \in 0..rel.slots - 1 :
            t.insns[rel.off + s + 1].id = block.rels[j].off + s + 1
  BY DEF Sound, AllRelsAnchored, RelAnchored
<1> HIDE DEF rel
<1>5. CASE i < rel.off /\ u.rels[j].off = rel.off - 1
  <2>1. (rel.off - 1) + rel.slots <= Len(t.insns) - 1
    BY <1>0, <1>4
  <2>2. ASSUME NEW s \in 0..rel.slots - 1
        PROVE  u.insns[(rel.off - 1) + s + 1].id = block.rels[j].off + s + 1
    <3>1. /\ (rel.off - 1) + s + 1 = rel.off + s
          /\ rel.off + s \in 1..Len(t.insns) - 1
          /\ ~ (rel.off + s < i + 1)
      <4>1. rel.off + rel.slots <= Len(t.insns)
        BY <1>4
      <4> QED
        BY <1>0, <1>5, <4>1
    <3>2. u.insns[rel.off + s] = t.insns[rel.off + s + 1]
      BY <1>3, <3>1
    <3> QED
      BY <1>4, <3>1, <3>2
  <2> QED
    BY <1>2, <1>3, <1>4, <1>5, <2>1, <2>2 DEF RelAnchored
<1>6. CASE rel.off + rel.slots <= i /\ u.rels[j].off = rel.off
  <2>1. rel.off + rel.slots <= Len(t.insns) - 1
    BY <1>0, <1>6
  <2>2. ASSUME NEW s \in 0..rel.slots - 1
        PROVE  u.insns[rel.off + s + 1].id = block.rels[j].off + s + 1
    <3>1. rel.off + s + 1 \in 1..Len(t.insns) - 1 /\ rel.off + s + 1 < i + 1
      BY <1>0, <1>6
    <3>2. u.insns[rel.off + s + 1] = t.insns[rel.off + s + 1]
      BY <1>3, <3>1
    <3> QED
      BY <1>4, <3>2
  <2> QED
    BY <1>2, <1>3, <1>4, <1>6, <2>1, <2>2 DEF RelAnchored
<1> QED
  BY <1>2, <1>5, <1>6

LEMMA RemoveKeepsTargets ==
    ASSUME NEW t, Sound(t), NEW i \in 0..Len(t.insns) - 1,
           NEW u, u = RemoveInsn(t, i + 1, i)
    PROVE  AllTargetsAnchored(u)
<1>0. t \in TBType /\ Len(t.insns) \in Nat /\ i \in Nat
  <2>1. t \in TBType
    BY DEF Sound, Loaded
  <2> QED
    BY <2>1, IndexFacts
<1>1. /\ u \in TBType
      /\ Len(u.insns) = Len(t.insns) - 1
      /\ \A k \in 1..Len(t.insns) - 1 :
            u.insns[k] = IF k < i + 1 THEN t.insns[k] ELSE t.insns[k + 1]
      /\ u.linked = t.linked
      /\ \A d \in Jumps :
            u.target[d] = IF t.linked[d] /\ t.target[d] > i
                          THEN t.target[d] - 1 ELSE t.target[d]
  BY <1>0, RemoveInsnFields
<1>2. DOMAIN t.insns = 1..Len(t.insns) /\ DOMAIN u.insns = 1..Len(t.insns) - 1
  BY <1>0, <1>1, LenProperties DEF TBType
<1>3. SUFFICES ASSUME NEW d \in Jumps, NEW k \in 1..Len(t.insns) - 1,
                      t.linked[d], u.insns[k].id = block.target[d] + 1
               PROVE  u.target[d] = k - 1
  BY <1>1, <1>2 DEF AllTargetsAnchored
<1>4. CASE k < i + 1
  <2>1. k \in 1..Len(t.insns) /\ t.insns[k].id = block.target[d] + 1
    BY <1>0, <1>1, <1>3, <1>4
  <2>2. t.target[d] = k - 1
    BY <1>2, <1>3, <2>1 DEF Sound, AllTargetsAnchored
  <2> QED
    BY <1>0, <1>1, <1>3, <1>4, <2>2
<1>5. CASE ~ (k < i + 1)
  <2>1. k + 1 \in 1..Len(t.insns) /\ t.insns[k + 1].id = block.target[d] + 1
    BY <1>0, <1>1, <1>3, <1>5
  <2>2. t.target[d] = (k + 1) - 1
    BY <1>2, <1>3, <2>1 DEF Sound, AllTargetsAnchored
  <2> QED
    BY <1>0, <1>1, <1>3, <1>5, <2>2
<1> QED
  BY <1>4, <1>5

(* Intervals [a, a + m) and [b, b + n) that do not hold i stay apart when  *)
(* what lies above i moves down.                                           *)
Apart(a, m, b, n) == a + m <= b \/ b + n <= a

MovedDown(a, m, i, x) ==
    \/ i < a /\ x = a - 1
    \/ a + m <= i /\ x = a

LEMMA ApartAfterMove ==
    \A a, b, i \in Nat : \A m, n \in Nat \ {0} : \A x, y :
        Apart(a, m, b, n) /\ MovedDown(a, m, i, x) /\ MovedDown(b, n, i, y)
            => Apart(x, m, y, n)
BY DEF Apart, MovedDown

(* Removing an instruction no valid relocation covers.                     *)
LEMMA RemoveKeepsSound ==
    ASSUME NEW t, Sound(t), NEW i \in 0..Len(t.insns) - 1, ~ InRel(t, i),
           NEW u, u = RemoveInsn(t, i + 1, i)
    PROVE  Sound(u)
<1>0. t \in TBType
  BY DEF Sound, Loaded
<1>1. /\ u \in TBType
      /\ u.linked = t.linked
      /\ DOMAIN u.rels = DOMAIN t.rels
  BY <1>0, RemoveInsnFields
<1>2. Loaded(u)
  BY <1>1 DEF Sound, Loaded
<1>3. \A j \in DOMAIN t.rels : u.rels[j].valid = t.rels[j].valid
  BY <1>0, RelAfterRemove
<1>4. AllRelsAnchored(u)
  BY <1>1, <1>3, RemoveKeepsRels DEF AllRelsAnchored
<1>5. RelsDisjoint(u)
  <2>1. SUFFICES ASSUME NEW j \in DOMAIN t.rels, NEW k \in DOMAIN t.rels,
                        j # k, t.rels[j].valid, t.rels[k].valid
                 PROVE  Disjoint(u.rels[j], u.rels[k])
    BY <1>1, <1>3 DEF RelsDisjoint
  <2>2. Disjoint(t.rels[j], t.rels[k])
    BY <2>1 DEF Sound, RelsDisjoint
  <2>3. ~ Covers(t.rels[j], i) /\ ~ Covers(t.rels[k], i)
    BY <2>1 DEF InRel, ValidAt
  <2>4. /\ u.rels[j].slots = t.rels[j].slots
        /\ MovedDown(t.rels[j].off, t.rels[j].slots, i, u.rels[j].off)
    BY <1>0, <2>1, <2>3, RelAfterRemove DEF MovedDown
  <2>5. /\ u.rels[k].slots = t.rels[k].slots
        /\ MovedDown(t.rels[k].off, t.rels[k].slots, i, u.rels[k].off)
    BY <1>0, <2>1, <2>3, RelAfterRemove DEF MovedDown
  <2>6. /\ t.rels[j].off \in Nat /\ t.rels[j].slots \in Nat \ {0}
        /\ t.rels[k].off \in Nat /\ t.rels[k].slots \in Nat \ {0}
        /\ i \in Nat
    BY <1>0, RelFacts, IndexFacts
  <2>7. Apart(t.rels[j].off, t.rels[j].slots, t.rels[k].off, t.rels[k].slots)
    BY <2>2 DEF Disjoint, Apart
  <2>8. Apart(u.rels[j].off, t.rels[j].slots, u.rels[k].off, t.rels[k].slots)
    BY <2>4, <2>5, <2>6, <2>7, ApartAfterMove
  <2> QED
    BY <2>4, <2>5, <2>8 DEF Disjoint, Apart
<1>6. AllTargetsAnchored(u)
  BY RemoveKeepsTargets
<1> QED
  BY <1>2, <1>4, <1>5, <1>6 DEF Sound

(* Invalidating the first relocation found over i leaves none over i.      *)
LEMMA InvalidateKeepsSound ==
    ASSUME NEW t, Sound(t), NEW i \in Nat, NEW u, u = InvalidateRelAt(t, i)
    PROVE  Sound(u) /\ ~ InRel(u, i) /\ Len(u.insns) = Len(t.insns)
<1>0. t \in TBType
  BY DEF Sound, Loaded
<1>1. /\ u \in TBType
      /\ DOMAIN u.rels = DOMAIN t.rels
      /\ \A j \in DOMAIN t.rels :
            u.rels[j] = [t.rels[j] EXCEPT !.valid = @ /\ ~ FirstRelAt(t, j, i)]
  BY <1>0, InvalidateRelAtType
<1>2. u.insns = t.insns /\ u.linked = t.linked /\ u.target = t.target
  BY <1>0 DEF InvalidateRelAt, TBType
<1>3. ASSUME NEW j \in DOMAIN t.rels
      PROVE  /\ u.rels[j].off = t.rels[j].off
             /\ u.rels[j].slots = t.rels[j].slots
             /\ u.rels[j].valid => t.rels[j].valid /\ ~ FirstRelAt(t, j, i)
  <2>1. t.rels[j] \in RelType
    BY <1>0, RelFacts
  <2> QED
    BY <1>1, <2>1 DEF RelType
<1>4. Loaded(u)
  BY <1>1, <1>2 DEF Sound, Loaded
<1>5. AllRelsAnchored(u)
  <2>1. SUFFICES ASSUME NEW j \in DOMAIN t.rels, u.rels[j].valid
                 PROVE  RelAnchored(u, j)
    BY <1>1 DEF AllRelsAnchored
  <2>2. RelAnchored(t, j)
    BY <1>3, <2>1 DEF Sound, AllRelsAnchored
  <2> QED
    BY <1>2, <1>3, <2>2 DEF RelAnchored
<1>6. RelsDisjoint(u)
  BY <1>1, <1>3 DEF Sound, RelsDisjoint, Disjoint
<1>7. AllTargetsAnchored(u)
  BY <1>2 DEF Sound, AllTargetsAnchored
<1>8. ~ InRel(u, i)
  <2>1. SUFFICES ASSUME NEW j \in DOMAIN t.rels, ValidAt(u, j, i)
                 PROVE  FALSE
    BY <1>1 DEF InRel
  <2>2. ValidAt(t, j, i) /\ ~ FirstRelAt(t, j, i)
    BY <1>3, <2>1 DEF ValidAt, Covers
  <2>3. PICK k \in DOMAIN t.rels : k < j /\ ValidAt(t, k, i)
    BY <2>2 DEF FirstRelAt
  <2>4. k # j
    BY <1>0, <2>3, LenProperties DEF TBType
  <2>5. Disjoint(t.rels[j], t.rels[k])
    BY <2>2, <2>3, <2>4 DEF Sound, RelsDisjoint, ValidAt
  <2>6. Covers(t.rels[j], i) /\ Covers(t.rels[k], i)
    BY <2>2, <2>3 DEF ValidAt
  <2>7. /\ t.rels[j].off \in Nat /\ t.rels[j].slots \in Nat \ {0}
        /\ t.rels[k].off \in Nat /\ t.rels[k].slots \in Nat \ {0}
    BY <1>0, RelFacts
  <2> QED
    BY <2>5, <2>6, <2>7 DEF Disjoint, Covers
<1> QED
  BY <1>2, <1>4, <1>5, <1>6, <1>7, <1>8 DEF Sound

-----------------------------------------------------------------------------
(* The deleting operations of class TB.                                    *)

LEMMA DeleteAlongKeepsSound ==
    ASSUME NEW t, Sound(t), NEW i \in 0..Len(t.insns) - 1,
           NEW u, u = DeleteIthInsnAlongWithRel(t, i + 1, i)
    PROVE  Sound(u) /\ Len(u.insns) = Len(t.insns) - 1
<1> DEFINE m == InvalidateRelAt(t, i)
<1>1. t \in TBType /\ Len(t.insns) \in Nat /\ i \in Nat
  <2>1. t \in TBType
    BY DEF Sound, Loaded
  <2> QED
    BY <2>1, IndexFacts
<1>2. Sound(m) /\ ~ InRel(m, i) /\ Len(m.insns) = Len(t.insns)
  BY <1>1, InvalidateKeepsSound
<1>3. u = RemoveInsn(m, i + 1, i)
  BY DEF DeleteIthInsnAlongWithRel
<1> HIDE DEF m
<1>4. m \in TBType /\ i \in 0..Len(m.insns) - 1
  BY <1>2 DEF Sound, Loaded
<1>5. Len(u.insns) = Len(m.insns) - 1
  BY <1>3, <1>4, RemoveInsnFields
<1> QED
  BY <1>2, <1>3, <1>4, <1>5, RemoveKeepsSound

LEMMA DeleteIthInsnKeepsSound ==
    ASSUME NEW t, Sound(t), NEW i \in 0..Len(t.insns) - 1
    PROVE  Sound(DeleteIthInsn(t, i + 1, i))
BY RemoveKeepsSound DEF DeleteIthInsn

(* A run of deletions that stays inside the block.                         *)
LEMMA DeleteRunKeepsSound ==
    ASSUME NEW t, Sound(t), NEW i \in Nat, NEW count \in Nat,
           i + count <= Len(t.insns)
    PROVE  Sound(DeleteRun(t, i, count))
<1>0. Len(t.insns) \in Nat
  BY IndexFacts DEF Sound, Loaded
<1>1. PICK f : Iterates(f, t, i, count) /\ DeleteRun(t, i, count) = f[count]
  BY DeleteRunUnfold
<1> DEFINE Good(k) == Sound(f[k]) /\ Len(f[k].insns) = Len(t.insns) - k
           T == {k \in Nat : k <= count => Good(k)}
<1>2. 0 \in T
  BY <1>0, <1>1 DEF Iterates
<1>3. ASSUME NEW k \in T
      PROVE  k + 1 \in T
  <2>1. k \in Nat /\ k + 1 \in Nat
    OBVIOUS
  <2>2. SUFFICES ASSUME k + 1 <= count
                 PROVE  Good(k + 1)
    BY <2>1
  <2>3. Good(k)
    BY <2>1, <2>2
  <2>4. i \in 0..Len(f[k].insns) - 1
    BY <1>0, <2>1, <2>2, <2>3
  <2>5. f[k + 1] = DeleteIthInsnAlongWithRel(f[k], i + 1, i)
    <3>1. k + 1 \in 1..count /\ (k + 1) - 1 = k
      BY <2>1, <2>2
    <3> QED
      BY <1>1, <3>1 DEF Iterates
  <2>6. Sound(f[k + 1]) /\ Len(f[k + 1].insns) = Len(f[k].insns) - 1
    BY <2>3, <2>4, <2>5, DeleteAlongKeepsSound
  <2> QED
    BY <1>0, <2>1, <2>3, <2>6
<1>4. count \in T
  <2> HIDE DEF T
  <2> QED
    BY <1>2, <1>3, NatInduct DEF T
<1> QED
  BY <1>1, <1>4

LEMMA DeleteIthRelKeepsSound ==
    ASSUME NEW t, Sound(t), NEW j \in DOMAIN t.rels
    PROVE  Sound(DeleteIthRel(t, j))
<1>1. CASE t.rels[j].valid
  <2>1. t.rels[j].off \in Nat /\ t.rels[j].slots \in Nat
    BY RelFacts DEF Sound, Loaded
  <2>2. t.rels[j].off + t.rels[j].slots <= Len(t.insns)
    BY <1>1 DEF Sound, AllRelsAnchored, RelAnchored
  <2> QED
    BY <1>1, <2>1, <2>2, DeleteRunKeepsSound DEF DeleteIthRel
<1>2. CASE ~ t.rels[j].valid
  BY <1>2 DEF DeleteIthRel
<1> QED
  BY <1>1, <1>2

-----------------------------------------------------------------------------
(* Inserting.                                                              *)

Inserted(t, at, insn, u) ==
    /\ u \in TBType
    /\ Len(u.insns) = Len(t.insns) + 1
    /\ \A k \in 1..Len(t.insns) + 1 :
        u.insns[k] = IF k < at + 1 THEN t.insns[k]
                     ELSE IF k = at + 1 THEN insn ELSE t.insns[k - 1]
    /\ u.linked = t.linked
    /\ DOMAIN u.rels = DOMAIN t.rels
    /\ \A j \in DOMAIN t.rels :
        u.rels[j] = IF t.rels[j].valid /\ t.rels[j].off >= at
                    THEN [t.rels[j] EXCEPT !.off = @ + 1] ELSE t.rels[j]
    /\ \A d \in Jumps :
        u.target[d] = IF t.linked[d] /\ t.target[d] >= at
                      THEN t.target[d] + 1 ELSE t.target[d]

LEMMA AddInsnFields ==
    ASSUME NEW t \in TBType, NEW at \in 0..Len(t.insns),
           NEW insn \in InsnType, NEW u, u = AddInsn(t, at, insn, at - 1)
    PROVE  Inserted(t, at, insn, u)
<1>1. /\ t.insns \in Seq(InsnType)
      /\ Len(t.insns) \in Nat
      /\ at \in Nat
      /\ at + 1 \in 1..Len(t.insns) + 1
      /\ at - 1 \in -1..Len(t.insns) - 1
      /\ (at - 1) + 1 = at
  BY LenProperties DEF TBType, InsnType
<1>2. u \in TBType
  BY <1>1, AddInsnType
<1>3. /\ u.insns = InsertAt(t.insns, at + 1, insn)
      /\ u.linked = t.linked
      /\ u.rels = RelsAfterAdd(t.rels, at)
      /\ u.target = [d \in Jumps |-> IF t.linked[d] /\ t.target[d] >= at
                                     THEN t.target[d] + 1 ELSE t.target[d]]
  BY <1>1 DEF AddInsn, TBType
<1>4. /\ Len(u.insns) = Len(t.insns) + 1
      /\ \A k \in 1..Len(t.insns) + 1 :
            u.insns[k] = IF k < at + 1 THEN t.insns[k]
                         ELSE IF k = at + 1 THEN insn ELSE t.insns[k - 1]
  <2> DEFINE old == t.insns
             now == u.insns
             n   == at + 1
  <2>1. old \in Seq(InsnType) /\ n \in 1..Len(old) + 1 /\ now = InsertAt(old, n, insn)
    BY <1>1, <1>3
  <2> HIDE DEF old, now, n
  <2>2. /\ Len(now) = Len(old) + 1
        /\ \A k \in 1..Len(old) + 1 :
            now[k] = IF k < n THEN old[k]
                     ELSE IF k = n THEN insn ELSE old[k - 1]
    BY <2>1, InsertAtProperties
  <2> QED
    BY <2>2, Zenon DEF old, now, n
<1>5. /\ DOMAIN u.rels = DOMAIN t.rels
      /\ \A j \in DOMAIN t.rels :
            u.rels[j] = IF t.rels[j].valid /\ t.rels[j].off >= at
                        THEN [t.rels[j] EXCEPT !.off = @ + 1] ELSE t.rels[j]
  BY <1>3 DEF RelsAfterAdd
<1>6. \A d \in Jumps :
        u.target[d] = IF t.linked[d] /\ t.target[d] >= at
                      THEN t.target[d] + 1 ELSE t.target[d]
  BY <1>3
<1> QED
  BY <1>2, <1>3, <1>4, <1>5, <1>6 DEF Inserted

MovedUp(a, m, at, x) ==
    \/ at <= a /\ x = a + 1
    \/ a + m <= at /\ x = a

LEMMA ApartAfterInsert ==
    \A a, b, at \in Nat : \A m, n \in Nat \ {0} : \A x, y :
        Apart(a, m, b, n) /\ MovedUp(a, m, at, x) /\ MovedUp(b, n, at, y)
            => Apart(x, m, y, n)
BY DEF Apart, MovedUp

(* Where a relocation not covering the inserted index stands afterwards.   *)
LEMMA RelAfterAdd ==
    ASSUME NEW t \in TBType, NEW at \in 0..Len(t.insns),
           NEW insn \in InsnType, NEW u, u = AddInsn(t, at, insn, at - 1),
           NEW j \in DOMAIN t.rels
    PROVE  /\ u.rels[j].valid = t.rels[j].valid
           /\ u.rels[j].slots = t.rels[j].slots
           /\ t.rels[j].valid /\ ~ Covers(t.rels[j], at) =>
                MovedUp(t.rels[j].off, t.rels[j].slots, at, u.rels[j].off)
<1>1. u.rels[j] = IF t.rels[j].valid /\ t.rels[j].off >= at
                  THEN [t.rels[j] EXCEPT !.off = @ + 1] ELSE t.rels[j]
  <2>1. Inserted(t, at, insn, u)
    BY AddInsnFields
  <2> QED
    BY <2>1 DEF Inserted
<1>2. at \in Nat
  OBVIOUS
<1>3. /\ t.rels[j].off \in Nat
      /\ t.rels[j].slots \in Nat \ {0}
      /\ [t.rels[j] EXCEPT !.off = @ + 1].off = t.rels[j].off + 1
      /\ [t.rels[j] EXCEPT !.off = @ + 1].slots = t.rels[j].slots
      /\ [t.rels[j] EXCEPT !.off = @ + 1].valid = t.rels[j].valid
  BY RelFacts
<1> QED
  <2>1. CASE t.rels[j].valid /\ t.rels[j].off >= at
    BY <1>1, <1>2, <1>3, <2>1 DEF MovedUp
  <2>2. CASE ~ (t.rels[j].valid /\ t.rels[j].off >= at)
    BY <1>1, <1>2, <1>3, <2>2 DEF Covers, MovedUp
  <2> QED
    BY <2>1, <2>2

LEMMA AddKeepsRels ==
    ASSUME NEW t, Sound(t), NEW at \in 0..Len(t.insns),
           NEW insn \in InsnType, NEW u, u = AddInsn(t, at, insn, at - 1),
           ~ InRel(t, at),
           NEW j \in DOMAIN t.rels, t.rels[j].valid
    PROVE  RelAnchored(u, j)
<1> DEFINE rel == t.rels[j]
<1>0. /\ t \in TBType /\ Len(t.insns) \in Nat /\ at \in Nat
      /\ rel.off \in Nat /\ rel.slots \in Nat \ {0}
  <2>1. t \in TBType
    BY DEF Sound, Loaded
  <2>2. Len(t.insns) \in Nat /\ at \in Nat
    BY <2>1, IndexFacts
  <2> QED
    BY <2>1, <2>2, RelFacts
<1>1. ~ Covers(rel, at)
  BY DEF InRel, ValidAt
<1>2. u.rels[j].slots = rel.slots /\ MovedUp(rel.off, rel.slots, at, u.rels[j].off)
  BY <1>0, <1>1, RelAfterAdd
<1>3. /\ Len(u.insns) = Len(t.insns) + 1
      /\ \A k \in 1..Len(t.insns) + 1 :
            u.insns[k] = IF k < at + 1 THEN t.insns[k]
                         ELSE IF k = at + 1 THEN insn ELSE t.insns[k - 1]
  <2>1. Inserted(t, at, insn, u)
    BY <1>0, AddInsnFields
  <2> QED
    BY <2>1 DEF Inserted
<1>4. /\ rel.slots = block.rels[j].slots
      /\ rel.off + rel.slots <= Len(t.insns)
      /\ \A s \in 0..rel.slots - 1 :
            t.insns[rel.off + s + 1].id = block.rels[j].off + s + 1
  BY DEF Sound, AllRelsAnchored, RelAnchored
<1> HIDE DEF rel
<1>5. CASE at <= rel.off /\ u.rels[j].off = rel.off + 1
  <2>1. (rel.off + 1) + rel.slots <= Len(t.insns) + 1
    BY <1>0, <1>4
  <2>2. ASSUME NEW s \in 0..rel.slots - 1
        PROVE  u.insns[(rel.off + 1) + s + 1].id = block.rels[j].off + s + 1
    <3>1. /\ (rel.off + 1) + s + 1 \in 1..Len(t.insns) + 1
          /\ ~ ((rel.off + 1) + s + 1 < at + 1)
          /\ (rel.off + 1) + s + 1 # at + 1
          /\ ((rel.off + 1) + s + 1) - 1 = rel.off + s + 1
      <4>1. rel.off + rel.slots <= Len(t.insns)
        BY <1>4
      <4>2. s \in Nat /\ s <= rel.slots - 1
        BY <1>0
      <4>3. /\ (rel.off + 1) + s + 1 \in Nat
            /\ 1 <= (rel.off + 1) + s + 1
            /\ (rel.off + 1) + s + 1 <= Len(t.insns) + 1
        BY <1>0, <4>1, <4>2, SMTT(30)
      <4>4. at + 1 < (rel.off + 1) + s + 1
        BY <1>0, <1>5, <4>2
      <4> QED
        BY <1>0, <4>2, <4>3, <4>4
    <3>2. u.insns[(rel.off + 1) + s + 1] = t.insns[rel.off + s + 1]
      BY <1>3, <3>1
    <3> QED
      BY <1>4, <3>2
  <2> QED
    BY <1>2, <1>3, <1>4, <1>5, <2>1, <2>2 DEF RelAnchored
<1>6. CASE rel.off + rel.slots <= at /\ u.rels[j].off = rel.off
  <2>1. rel.off + rel.slots <= Len(t.insns) + 1
    BY <1>0, <1>4
  <2>2. ASSUME NEW s \in 0..rel.slots - 1
        PROVE  u.insns[rel.off + s + 1].id = block.rels[j].off + s + 1
    <3>1. rel.off + s + 1 \in 1..Len(t.insns) + 1 /\ rel.off + s + 1 < at + 1
      <4>1. rel.off + rel.slots <= Len(t.insns)
        BY <1>4
      <4> QED
        BY <1>0, <1>6, <4>1, SMTT(30)
    <3>2. u.insns[rel.off + s + 1] = t.insns[rel.off + s + 1]
      BY <1>3, <3>1
    <3> QED
      BY <1>4, <3>2
  <2> QED
    BY <1>2, <1>3, <1>4, <1>6, <2>1, <2>2 DEF RelAnchored
<1> QED
  BY <1>2, <1>5, <1>6 DEF MovedUp

(* The inserted instruction is none the file knows.                        *)
LEMMA AddKeepsTargets ==
    ASSUME NEW t, Sound(t), NEW at \in 0..Len(t.insns),
           NEW insn \in InsnType, NEW u, u = AddInsn(t, at, insn, at - 1),
           \A d \in Jumps : t.linked[d] => insn.id # block.target[d] + 1
    PROVE  AllTargetsAnchored(u)
<1>0. t \in TBType /\ Len(t.insns) \in Nat /\ at \in Nat
  <2>1. t \in TBType
    BY DEF Sound, Loaded
  <2> QED
    BY <2>1, IndexFacts
<1>1. /\ u \in TBType
      /\ Len(u.insns) = Len(t.insns) + 1
      /\ \A k \in 1..Len(t.insns) + 1 :
            u.insns[k] = IF k < at + 1 THEN t.insns[k]
                         ELSE IF k = at + 1 THEN insn ELSE t.insns[k - 1]
      /\ u.linked = t.linked
      /\ \A d \in Jumps :
            u.target[d] = IF t.linked[d] /\ t.target[d] >= at
                          THEN t.target[d] + 1 ELSE t.target[d]
  <2>1. Inserted(t, at, insn, u)
    BY <1>0, AddInsnFields
  <2> QED
    BY <2>1 DEF Inserted
<1>2. DOMAIN t.insns = 1..Len(t.insns) /\ DOMAIN u.insns = 1..Len(t.insns) + 1
  BY <1>0, <1>1, LenProperties DEF TBType
<1>3. SUFFICES ASSUME NEW d \in Jumps, NEW k \in 1..Len(t.insns) + 1,
                      t.linked[d], u.insns[k].id = block.target[d] + 1
               PROVE  u.target[d] = k - 1
  BY <1>1, <1>2 DEF AllTargetsAnchored
<1>4. k # at + 1
  BY <1>0, <1>1, <1>3
<1>5. CASE k < at + 1
  <2>1. k \in 1..Len(t.insns) /\ t.insns[k].id = block.target[d] + 1
    <3>1. at <= Len(t.insns)
      BY <1>0
    <3> QED
      BY <1>0, <1>1, <1>3, <1>5, <3>1
  <2>2. t.target[d] = k - 1
    BY <1>2, <1>3, <2>1 DEF Sound, AllTargetsAnchored
  <2> QED
    BY <1>0, <1>1, <1>3, <1>5, <2>2
<1>6. CASE ~ (k < at + 1)
  <2>1. k - 1 \in 1..Len(t.insns) /\ t.insns[k - 1].id = block.target[d] + 1
    BY <1>0, <1>1, <1>3, <1>4, <1>6
  <2>2. t.target[d] = (k - 1) - 1
    BY <1>2, <1>3, <2>1 DEF Sound, AllTargetsAnchored
  <2> QED
    BY <1>0, <1>1, <1>3, <1>4, <1>6, <2>2, SMTT(30)
<1> QED
  BY <1>5, <1>6

LEMMA AddInsnKeepsSound ==
    ASSUME NEW t, Sound(t), NEW at \in 0..Len(t.insns),
           NEW insn \in InsnType, ~ InRel(t, at),
           NEW u, u = AddInsn(t, at, insn, at - 1),
           \A d \in Jumps : t.linked[d] => insn.id # block.target[d] + 1
    PROVE  Sound(u)
<1>0. t \in TBType
  BY DEF Sound, Loaded
<1>1. /\ u \in TBType
      /\ u.linked = t.linked
      /\ DOMAIN u.rels = DOMAIN t.rels
  <2>1. Inserted(t, at, insn, u)
    BY <1>0, AddInsnFields
  <2> QED
    BY <2>1 DEF Inserted
<1>2. Loaded(u)
  BY <1>1 DEF Sound, Loaded
<1>3. \A j \in DOMAIN t.rels : u.rels[j].valid = t.rels[j].valid
  BY <1>0, RelAfterAdd
<1>4. AllRelsAnchored(u)
  BY <1>1, <1>3, AddKeepsRels DEF AllRelsAnchored
<1>5. RelsDisjoint(u)
  <2>1. SUFFICES ASSUME NEW j \in DOMAIN t.rels, NEW k \in DOMAIN t.rels,
                        j # k, t.rels[j].valid, t.rels[k].valid
                 PROVE  Disjoint(u.rels[j], u.rels[k])
    BY <1>1, <1>3 DEF RelsDisjoint
  <2>2. Disjoint(t.rels[j], t.rels[k])
    BY <2>1 DEF Sound, RelsDisjoint
  <2>3. ~ Covers(t.rels[j], at) /\ ~ Covers(t.rels[k], at)
    BY <2>1 DEF InRel, ValidAt
  <2>4. /\ u.rels[j].slots = t.rels[j].slots
        /\ MovedUp(t.rels[j].off, t.rels[j].slots, at, u.rels[j].off)
    BY <1>0, <2>1, <2>3, RelAfterAdd
  <2>5. /\ u.rels[k].slots = t.rels[k].slots
        /\ MovedUp(t.rels[k].off, t.rels[k].slots, at, u.rels[k].off)
    BY <1>0, <2>1, <2>3, RelAfterAdd
  <2>6. /\ t.rels[j].off \in Nat /\ t.rels[j].slots \in Nat \ {0}
        /\ t.rels[k].off \in Nat /\ t.rels[k].slots \in Nat \ {0}
        /\ at \in Nat
    BY <1>0, RelFacts, IndexFacts
  <2>7. Apart(t.rels[j].off, t.rels[j].slots, t.rels[k].off, t.rels[k].slots)
    BY <2>2 DEF Disjoint, Apart
  <2>8. Apart(u.rels[j].off, t.rels[j].slots, u.rels[k].off, t.rels[k].slots)
    BY <2>4, <2>5, <2>6, <2>7, ApartAfterInsert
  <2> QED
    BY <2>4, <2>5, <2>8 DEF Disjoint, Apart
<1>6. AllTargetsAnchored(u)
  BY AddKeepsTargets
<1> QED
  BY <1>2, <1>4, <1>5, <1>6 DEF Sound

-----------------------------------------------------------------------------
(* The inductive invariant.                                                *)

LEMMA InitIndInv == Init => IndInv
<1> SUFFICES ASSUME Init PROVE IndInv
  OBVIOUS
<1>1. WellFormedBlock(block)
  BY BlocksAssumption DEF Init
<1>2. tb \in TBType
  <2>1. [c \in BranchClasses |-> <<>>] \in [BranchClasses -> Seq(BranchType)]
    BY EmptySeq
  <2>2. <<>> \in Seq([id : Nat, opc : OpClasses])
    BY EmptySeq
  <2>3. /\ block.rels \in Seq(RelType)
        /\ block.linked \in [Jumps -> BOOLEAN]
        /\ block.target \in [Jumps -> Nat]
    BY <1>1 DEF WellFormedBlock
  <2> QED
    BY <2>1, <2>2, <2>3 DEF Init, TBType
<1>3. TypeOK
  <2>1. phase \in {"decode", "edit", "exited"} /\ pipehole \in BOOLEAN
    BY DEF Init
  <2>2. added \in 0..MaxAdded
    BY MaxAddedAssumption DEF Init
  <2> QED
    BY <1>1, <1>2, <2>1, <2>2 DEF TypeOK
<1>4. Decoding(tb)
  <2>1. tb.insns = <<>> /\ tb.rels = block.rels /\ tb.linked = block.linked
        /\ tb.target = block.target
    BY DEF Init
  <2>2. Len(tb.insns) = 0 /\ DOMAIN tb.insns = {}
    BY <2>1
  <2>3. block.code \in Seq(OpClasses)
    BY <1>1 DEF WellFormedBlock
  <2>4. Len(block.code) \in Nat
    BY <2>3, LenProperties
  <2> QED
    BY <1>2, <2>1, <2>2, <2>4 DEF Decoding, Loaded
<1> QED
  BY <1>3, <1>4 DEF IndInv, Init

LEMMA DecodeInsnStep ==
    ASSUME IndInv, DecodeInsn
    PROVE  IndInv'
<1> DEFINE i    == Len(tb.insns)
           insn == [id |-> i + 1, opc |-> block.code[i + 1]]
<1>1. /\ tb \in TBType /\ i \in Nat /\ i < Len(block.code)
      /\ phase = "decode" /\ Decoding(tb) /\ TypeOK
  BY LenProperties DEF IndInv, TypeOK, DecodeInsn, TBType
<1>2. block.code \in Seq(OpClasses) /\ Len(block.code) \in Nat
  BY <1>1, LenProperties DEF TypeOK, WellFormedBlock
<1>3. insn \in InsnType
  <2>1. block.code[i + 1] \in OpClasses
    BY <1>1, <1>2, ElementOfSeq
  <2> QED
    BY <1>1, <2>1 DEF InsnType
<1>4. /\ tb' = [tb EXCEPT !.branches = AddBranch(@, insn, i),
                         !.insns    = Append(@, insn)]
      /\ UNCHANGED <<block, phase, pipehole, added>>
  BY DEF DecodeInsn
<1> HIDE DEF insn, i
<1>5. /\ tb.insns \in Seq(InsnType)
      /\ tb.branches \in [BranchClasses -> Seq(BranchType)]
  BY <1>1 DEF TBType, InsnType
<1>6. AddBranch(tb.branches, insn, i) \in [BranchClasses -> Seq(BranchType)]
  BY <1>1, <1>3, <1>5, AddBranchType
<1>7. /\ Append(tb.insns, insn) \in Seq(InsnType)
      /\ Len(Append(tb.insns, insn)) = i + 1
      /\ \A k \in 1..i : Append(tb.insns, insn)[k] = tb.insns[k]
      /\ Append(tb.insns, insn)[i + 1] = insn
  BY <1>3, <1>5, AppendProperties DEF i
<1>8. /\ tb' \in TBType
      /\ tb'.insns = Append(tb.insns, insn)
      /\ tb'.rels = tb.rels /\ tb'.linked = tb.linked /\ tb'.target = tb.target
  BY <1>1, <1>4, <1>6, <1>7 DEF TBType, InsnType
<1>9. TypeOK'
  BY <1>1, <1>4, <1>8 DEF TypeOK
<1>10. \A k \in DOMAIN tb'.insns : tb'.insns[k].id = k
  <2>1. DOMAIN tb'.insns = 1..i + 1 /\ DOMAIN tb.insns = 1..i
    BY <1>5, <1>7, <1>8, LenProperties DEF i
  <2>2. SUFFICES ASSUME NEW k \in 1..i + 1
                 PROVE  Append(tb.insns, insn)[k].id = k
    BY <1>8, <2>1
  <2>3. CASE k \in 1..i
    BY <1>1, <1>7, <2>1, <2>3 DEF Decoding
  <2>4. CASE k = i + 1
    BY <1>7, <2>4 DEF insn
  <2>5. i \in Nat
    BY <1>1
  <2>6. k \in 1..i \/ k = i + 1
    BY <2>5
  <2> QED
    BY <2>3, <2>4, <2>6
<1>11. Decoding(tb)'
  <2>1. Len(tb'.insns) <= Len(block'.code) /\ block' = block
    BY <1>1, <1>2, <1>4, <1>7, <1>8
  <2> QED
    BY <1>1, <1>8, <1>10, <2>1 DEF Decoding, Loaded
<1> QED
  BY <1>1, <1>4, <1>9, <1>11 DEF IndInv

(* A block whose code has just been decoded is as the file says.           *)
LEMMA DecodedIsSound ==
    ASSUME NEW t, Decoding(t), WellFormedBlock(block),
           Len(t.insns) = Len(block.code)
    PROVE  Sound(t)
<1>1. t \in TBType /\ t.rels = block.rels /\ t.target = block.target
  BY DEF Decoding, Loaded
<1>2. /\ Len(t.insns) \in Nat
      /\ DOMAIN t.insns = 1..Len(t.insns)
      /\ \A k \in DOMAIN t.insns : t.insns[k].id = k
  BY <1>1, IndexFacts DEF Decoding
<1>3. AllRelsAnchored(t)
  <2>1. SUFFICES ASSUME NEW j \in DOMAIN t.rels
                 PROVE  RelAnchored(t, j)
    BY DEF AllRelsAnchored
  <2> DEFINE off   == t.rels[j].off
             slots == t.rels[j].slots
  <2>2. off \in Nat /\ slots \in Nat /\ off + slots <= Len(t.insns)
    BY <1>1, RelFacts DEF WellFormedBlock
  <2> HIDE DEF off, slots
  <2>3. \A s \in 0..slots - 1 : off + s + 1 \in 1..Len(t.insns)
    BY <1>2, <2>2
  <2>4. \A s \in 0..slots - 1 : t.insns[off + s + 1].id = off + s + 1
    BY <1>2, <2>3
  <2> QED
    BY <1>1, <2>2, <2>4 DEF RelAnchored, off, slots
<1>4. RelsDisjoint(t)
  BY <1>1 DEF RelsDisjoint, WellFormedBlock
<1>5. AllTargetsAnchored(t)
  <2>1. SUFFICES ASSUME NEW d \in Jumps, NEW k \in DOMAIN t.insns,
                        t.insns[k].id = block.target[d] + 1
                 PROVE  t.target[d] = k - 1
    BY DEF AllTargetsAnchored
  <2>2. block.target[d] \in Nat
    BY DEF WellFormedBlock
  <2> QED
    BY <1>1, <1>2, <2>1, <2>2
<1> QED
  BY <1>3, <1>4, <1>5 DEF Sound, Decoding

LEMMA DecodeDoneStep ==
    ASSUME IndInv, DecodeDone
    PROVE  IndInv'
<1>1. /\ TypeOK /\ Decoding(tb) /\ WellFormedBlock(block)
      /\ Len(tb.insns) = Len(block.code)
      /\ phase' = "edit" /\ UNCHANGED <<block, tb, added>>
  BY DEF IndInv, TypeOK, DecodeDone
<1>2. Sound(tb)
  BY <1>1, DecodedIsSound
<1>3. Sound(tb)'
  BY <1>1, <1>2 DEF Sound, Loaded, AllRelsAnchored, RelAnchored,
                    RelsDisjoint, AllTargetsAnchored
<1>4. pipehole' \in BOOLEAN
  BY DEF DecodeDone, PipeholeOptAvailable
<1>5. TypeOK'
  BY <1>1, <1>4 DEF TypeOK
<1> QED
  BY <1>1, <1>3, <1>5 DEF IndInv

(* An editing step that leaves the block sound keeps the invariant.        *)
LEMMA EditStep ==
    ASSUME IndInv, phase # "decode", phase' \in {"edit", "exited"},
           added' \in 0..MaxAdded, UNCHANGED <<block, pipehole>>, Sound(tb')
    PROVE  IndInv'
<1>1. Sound(tb)'
  BY DEF Sound, Loaded, AllRelsAnchored, RelAnchored, RelsDisjoint,
         AllTargetsAnchored
<1>2. tb' \in TBType
  BY DEF Sound, Loaded
<1>3. TypeOK'
  BY <1>2 DEF IndInv, TypeOK
<1> QED
  BY <1>1, <1>3 DEF IndInv

LEMMA DeleteStep ==
    ASSUME IndInv, Delete
    PROVE  IndInv'
<1>1. /\ phase = "edit" /\ Sound(tb) /\ added \in 0..MaxAdded
      /\ UNCHANGED <<block, phase, pipehole, added>>
  BY DEF IndInv, TypeOK, Delete, DeleteInsn, DeleteInsnWithRel, DeleteRel
<1>2. ASSUME NEW i \in Indices, DeleteInsn(i)
      PROVE  Sound(tb')
  BY <1>1, <1>2, DeleteIthInsnKeepsSound DEF DeleteInsn, Indices
<1>3. ASSUME NEW i \in Indices, DeleteInsnWithRel(i)
      PROVE  Sound(tb')
  BY <1>1, <1>3, DeleteAlongKeepsSound DEF DeleteInsnWithRel, Indices
<1>4. ASSUME NEW j \in DOMAIN tb.rels, DeleteRel(j)
      PROVE  Sound(tb')
  BY <1>1, <1>4, DeleteIthRelKeepsSound DEF DeleteRel
<1>5. Sound(tb')
  BY <1>2, <1>3, <1>4 DEF Delete
<1> QED
  BY <1>1, <1>5, EditStep

LEMMA InsertStep ==
    ASSUME IndInv, Insert
    PROVE  IndInv'
<1>1. PICK index \in {-1} \cup Indices, opc \in OpClasses : InsertInsn(index, opc)
  BY DEF Insert
<1> DEFINE insn == [id |-> Len(block.code) + added + 1, opc |-> opc]
<1>2. /\ phase = "edit" /\ Sound(tb) /\ added \in 0..MaxAdded /\ added < MaxAdded
      /\ UNCHANGED <<block, pipehole>> /\ WellFormedBlock(block) /\ tb \in TBType
  BY <1>1 DEF IndInv, TypeOK, InsertInsn
<1>3. CASE InRel(tb, index + 1)
  <2>1. phase' = "exited" /\ UNCHANGED <<tb, added>>
    BY <1>1, <1>3 DEF InsertInsn
  <2> QED
    BY <1>2, <2>1, EditStep
<1>4. CASE ~ InRel(tb, index + 1)
  <2>1. /\ tb' = AddInsn(tb, index + 1, insn, index)
        /\ added' = added + 1 /\ phase' = phase
    BY <1>1, <1>4 DEF InsertInsn
  <2>2. added \in Nat /\ added' \in 0..MaxAdded
    BY <1>2, <2>1, MaxAddedAssumption
  <2>3. block.code \in Seq(OpClasses) /\ Len(block.code) \in Nat
    BY <1>2, LenProperties DEF WellFormedBlock
  <2>4. insn \in InsnType
    BY <2>2, <2>3 DEF InsnType
  <2>5. \A d \in Jumps : tb.linked[d] => insn.id # block.target[d] + 1
    <3>1. SUFFICES ASSUME NEW d \in Jumps, tb.linked[d]
                   PROVE  insn.id # block.target[d] + 1
      OBVIOUS
    <3>2. block.target[d] \in Nat /\ block.target[d] < Len(block.code)
      BY <1>2, <3>1 DEF WellFormedBlock, Sound, Loaded
    <3> QED
      BY <2>2, <2>3, <3>2
  <2> HIDE DEF insn
  <2>6. /\ index + 1 \in 0..Len(tb.insns)
        /\ (index + 1) - 1 = index
    <3>1. Len(tb.insns) \in Nat
      BY <1>2, IndexFacts
    <3>2. index \in -1..Len(tb.insns) - 1
      BY <3>1 DEF Indices
    <3> QED
      BY <3>1, <3>2
  <2>7. tb' = AddInsn(tb, index + 1, insn, (index + 1) - 1)
    BY <2>1, <2>6
  <2>8. Sound(tb')
    BY <1>2, <1>4, <2>4, <2>5, <2>6, <2>7, AddInsnKeepsSound
  <2> QED
    BY <1>2, <2>1, <2>2, <2>8, EditStep
<1> QED
  BY <1>3, <1>4

LEMMA NextIndInv == IndInv /\ [Next]_vars => IndInv'
<1> SUFFICES ASSUME IndInv, [Next]_vars PROVE IndInv'
  OBVIOUS
<1>1. CASE DecodeInsn
  BY <1>1, DecodeInsnStep
<1>2. CASE DecodeDone
  BY <1>2, DecodeDoneStep
<1>3. CASE Delete
  BY <1>3, DeleteStep
<1>4. CASE Insert
  BY <1>4, InsertStep
<1>5. CASE UNCHANGED vars
  BY <1>5 DEF vars, IndInv, TypeOK, Decoding, Sound, Loaded, AllRelsAnchored,
              RelAnchored, RelsDisjoint, AllTargetsAnchored
<1> QED
  BY <1>1, <1>2, <1>3, <1>4, <1>5 DEF Next, Load

LEMMA SpecIndInv == Spec => []IndInv
BY InitIndInv, NextIndInv, PTL DEF Spec

-----------------------------------------------------------------------------
(* The theorems.                                                           *)

(* The TB object keeps its shape: every recorded position stays a natural  *)
(* number, so no shift of an edit ever wraps below zero.                   *)
THEOREM TypeCorrect == Spec => []TypeOK
<1>1. IndInv => TypeOK
  BY DEF IndInv
<1> QED
  BY <1>1, SpecIndInv, PTL

(* Every valid relocation of a decoded block covers, after any sequence of *)
(* edits, exactly the instructions it was emitted for.                     *)
THEOREM RelsAlwaysAnchored == Spec => []RelsAnchored
<1>1. IndInv => RelsAnchored
  BY DEF IndInv, RelsAnchored, Sound
<1> QED
  BY <1>1, SpecIndInv, PTL

(* A recorded jump points at its branch while the branch is in the block.  *)
THEOREM TargetsAlwaysAnchored == Spec => []TargetsAnchored
<1>1. IndInv => TargetsAnchored
  <2> SUFFICES ASSUME IndInv PROVE AllTargetsAnchored(tb)
    BY DEF TargetsAnchored
  <2>1. CASE phase # "decode"
    BY <2>1 DEF IndInv, Sound
  <2>2. CASE phase = "decode"
    <3>1. Decoding(tb) /\ WellFormedBlock(block)
      BY <2>2 DEF IndInv, TypeOK
    <3>2. SUFFICES ASSUME NEW d \in Jumps, NEW k \in DOMAIN tb.insns,
                          tb.insns[k].id = block.target[d] + 1
                   PROVE  tb.target[d] = k - 1
      BY DEF AllTargetsAnchored
    <3>3. tb.insns[k].id = k /\ tb.target = block.target
      BY <3>1 DEF Decoding
    <3>4. block.target[d] \in Nat
      BY <3>1 DEF WellFormedBlock
    <3> QED
      BY <3>2, <3>3, <3>4
  <2> QED
    BY <2>1, <2>2
<1> QED
  BY <1>1, SpecIndInv, PTL

-----------------------------------------------------------------------------
(* No edit gives a relocation up without deleting an instruction it covers *)
(* (OnlyTouchedRelsGivenUp).  Of the action property an invariant is made: *)
(* a relocation that is no longer valid has lost, for good, one of the     *)
(* instructions it was emitted for.  That the instructions of a list have  *)
(* different identities makes "lost" follow from one removal.              *)

Gone(t, id) == \A m \in DOMAIN t.insns : t.insns[m].id # id

Lost(t, j) == \E s \in 0..block.rels[j].slots - 1 : Gone(t, block.rels[j].off + s + 1)

(* The identities of a list are different, and none is beyond bound.       *)
Identified(t, bound) ==
    /\ \A k \in DOMAIN t.insns : t.insns[k].id <= bound
    /\ \A k, m \in DOMAIN t.insns : t.insns[k].id = t.insns[m].id => k = m

Justified(t) == \A j \in DOMAIN t.rels : t.rels[j].valid \/ Lost(t, j)

-----------------------------------------------------------------------------
(* Deleting.                                                               *)

LEMMA IdsAfterRemove ==
    ASSUME NEW t \in TBType, NEW bound, Identified(t, bound),
           NEW i \in 0..Len(t.insns) - 1,
           NEW u, u = RemoveInsn(t, i + 1, i)
    PROVE  /\ Identified(u, bound)
           /\ \A id : Gone(t, id) => Gone(u, id)
           /\ Gone(u, t.insns[i + 1].id)
<1> DEFINE was(k) == IF k < i + 1 THEN k ELSE k + 1
<1>0. /\ Len(t.insns) \in Nat /\ i \in Nat
      /\ DOMAIN t.insns = 1..Len(t.insns)
  BY IndexFacts
<1>1. DOMAIN u.insns = 1..Len(t.insns) - 1
  <2>1. u \in TBType /\ Len(u.insns) = Len(t.insns) - 1
    BY RemoveInsnFields
  <2> QED
    BY <2>1, IndexFacts
<1>2. \A k \in DOMAIN u.insns : u.insns[k] = t.insns[was(k)]
  <2>1. \A k \in 1..Len(t.insns) - 1 :
            u.insns[k] = IF k < i + 1 THEN t.insns[k] ELSE t.insns[k + 1]
    BY RemoveInsnFields
  <2> QED
    BY <1>1, <2>1
<1>3. \A k \in DOMAIN u.insns :
        was(k) \in DOMAIN t.insns /\ was(k) # i + 1
  BY <1>0, <1>1
<1>4. \A k, m \in DOMAIN u.insns : was(k) = was(m) => k = m
  BY <1>0, <1>1
<1>5. i + 1 \in DOMAIN t.insns
  BY <1>0
<1> HIDE DEF was
<1> QED
  BY <1>2, <1>3, <1>4, <1>5 DEF Identified, Gone

LEMMA LostStaysLost ==
    ASSUME NEW t, NEW u, \A id : Gone(t, id) => Gone(u, id), NEW j, Lost(t, j)
    PROVE  Lost(u, j)
BY DEF Lost

LEMMA RemoveKeepsJustified ==
    ASSUME NEW t \in TBType, NEW bound, Identified(t, bound), Justified(t),
           NEW i \in 0..Len(t.insns) - 1
    PROVE  /\ Identified(RemoveInsn(t, i + 1, i), bound)
           /\ Justified(RemoveInsn(t, i + 1, i))
<1> DEFINE u == RemoveInsn(t, i + 1, i)
<1>1. Identified(u, bound) /\ \A id : Gone(t, id) => Gone(u, id)
  BY IdsAfterRemove
<1>2. /\ DOMAIN u.rels = DOMAIN t.rels
      /\ \A j \in DOMAIN t.rels : u.rels[j].valid = t.rels[j].valid
  BY RemoveInsnFields, RelAfterRemove
<1> HIDE DEF u
<1>3. Justified(u)
  BY <1>1, <1>2, LostStaysLost DEF Justified
<1> QED
  BY <1>1, <1>3 DEF u

LEMMA DeleteAlongKeepsJustified ==
    ASSUME NEW t, Sound(t), NEW bound, Identified(t, bound), Justified(t),
           NEW i \in 0..Len(t.insns) - 1
    PROVE  /\ Identified(DeleteIthInsnAlongWithRel(t, i + 1, i), bound)
           /\ Justified(DeleteIthInsnAlongWithRel(t, i + 1, i))
<1> DEFINE m == InvalidateRelAt(t, i)
           u == RemoveInsn(m, i + 1, i)
<1>0. t \in TBType /\ i \in Nat
  <2>1. t \in TBType
    BY DEF Sound, Loaded
  <2> QED
    BY <2>1, IndexFacts
<1>1. /\ m \in TBType /\ DOMAIN m.rels = DOMAIN t.rels
      /\ \A j \in DOMAIN t.rels :
            m.rels[j] = [t.rels[j] EXCEPT !.valid = @ /\ ~ FirstRelAt(t, j, i)]
  BY <1>0, InvalidateRelAtType
<1>2. m.insns = t.insns
  BY <1>0 DEF InvalidateRelAt, TBType
<1>3. DeleteIthInsnAlongWithRel(t, i + 1, i) = u
  BY DEF DeleteIthInsnAlongWithRel
<1>4. ASSUME NEW j \in DOMAIN t.rels, t.rels[j].valid, ~ m.rels[j].valid
      PROVE  Covers(t.rels[j], i)
  <2>1. t.rels[j] \in RelType /\ t.rels[j].valid \in BOOLEAN
    BY <1>0, RelFacts
  <2>2. FirstRelAt(t, j, i)
    BY <1>1, <1>4, <2>1 DEF RelType
  <2> QED
    BY <2>2 DEF FirstRelAt, ValidAt
<1> HIDE DEF m
<1>5. Identified(m, bound) /\ i \in 0..Len(m.insns) - 1
  BY <1>2 DEF Identified
<1>6. /\ Identified(u, bound)
      /\ \A id : Gone(m, id) => Gone(u, id)
      /\ Gone(u, m.insns[i + 1].id)
  BY <1>1, <1>5, IdsAfterRemove
<1>7. \A id : Gone(t, id) => Gone(m, id)
  BY <1>2 DEF Gone
<1>8. /\ DOMAIN u.rels = DOMAIN t.rels
      /\ \A j \in DOMAIN t.rels : u.rels[j].valid = m.rels[j].valid
  BY <1>1, <1>5, RemoveInsnFields, RelAfterRemove
<1> HIDE DEF u
<1>9. ASSUME NEW j \in DOMAIN t.rels, ~ u.rels[j].valid
      PROVE  Lost(u, j)
  <2>1. CASE ~ t.rels[j].valid
    BY <1>6, <1>7, <2>1, LostStaysLost DEF Justified
  <2>2. CASE t.rels[j].valid
    <3> DEFINE off == t.rels[j].off
               s   == i - off
    <3>1. Covers(t.rels[j], i)
      BY <1>4, <1>8, <1>9, <2>2
    <3>2. RelAnchored(t, j)
      BY <2>2 DEF Sound, AllRelsAnchored
    <3>3. off \in Nat /\ t.rels[j].slots \in Nat
      BY <1>0, RelFacts
    <3>4. s \in 0..t.rels[j].slots - 1 /\ off + s + 1 = i + 1
      BY <1>0, <3>1, <3>3 DEF Covers
    <3>5. /\ s \in 0..block.rels[j].slots - 1
          /\ t.insns[i + 1].id = block.rels[j].off + s + 1
      <4> HIDE DEF s, off
      <4>1. t.insns[off + s + 1].id = block.rels[j].off + s + 1
        BY <3>2, <3>4 DEF RelAnchored, off
      <4> QED
        BY <3>2, <3>4, <4>1 DEF RelAnchored
    <3>6. Gone(u, block.rels[j].off + s + 1)
      BY <1>2, <1>6, <3>5
    <3> HIDE DEF s
    <3> QED
      BY <3>5, <3>6 DEF Lost
  <2> QED
    BY <2>1, <2>2
<1>10. Justified(u)
  BY <1>8, <1>9 DEF Justified
<1> QED
  BY <1>3, <1>6, <1>10

LEMMA DeleteRunKeepsJustified ==
    ASSUME NEW t, Sound(t), NEW bound, Identified(t, bound), Justified(t),
           NEW i \in Nat, NEW count \in Nat, i + count <= Len(t.insns)
    PROVE  /\ Identified(DeleteRun(t, i, count), bound)
           /\ Justified(DeleteRun(t, i, count))
<1>0. Len(t.insns) \in Nat
  BY IndexFacts DEF Sound, Loaded
<1>1. PICK f : Iterates(f, t, i, count) /\ DeleteRun(t, i, count) = f[count]
  BY DeleteRunUnfold
<1> DEFINE Good(k) == /\ Sound(f[k]) /\ Len(f[k].insns) = Len(t.insns) - k
                      /\ Identified(f[k], bound) /\ Justified(f[k])
           T == {k \in Nat : k <= count => Good(k)}
<1>2. 0 \in T
  BY <1>0, <1>1 DEF Iterates
<1>3. ASSUME NEW k \in T
      PROVE  k + 1 \in T
  <2>1. k \in Nat /\ k + 1 \in Nat
    OBVIOUS
  <2>2. SUFFICES ASSUME k + 1 <= count
                 PROVE  Good(k + 1)
    BY <2>1
  <2>3. Good(k)
    BY <2>1, <2>2
  <2>4. i \in 0..Len(f[k].insns) - 1
    BY <1>0, <2>1, <2>2, <2>3
  <2>5. f[k + 1] = DeleteIthInsnAlongWithRel(f[k], i + 1, i)
    <3>1. k + 1 \in 1..count /\ (k + 1) - 1 = k
      BY <2>1, <2>2
    <3> QED
      BY <1>1, <3>1 DEF Iterates
  <2>6. Sound(f[k + 1]) /\ Len(f[k + 1].insns) = Len(f[k].insns) - 1
    BY <2>3, <2>4, <2>5, DeleteAlongKeepsSound
  <2>7. Identified(f[k + 1], bound) /\ Justified(f[k + 1])
    BY <2>3, <2>4, <2>5, DeleteAlongKeepsJustified
  <2> QED
    BY <1>0, <2>1, <2>3, <2>6, <2>7
<1>4. count \in T
  <2> HIDE DEF T
  <2> QED
    BY <1>2, <1>3, NatInduct DEF T
<1> QED
  BY <1>1, <1>4

-----------------------------------------------------------------------------
(* The invariant.                                                          *)

IdBound == Len(block.code) + added

GivenUpInv == IndInv /\ Identified(tb, IdBound) /\ Justified(tb)

LEMMA InitGivenUp == Init => GivenUpInv
<1> SUFFICES ASSUME Init PROVE Identified(tb, IdBound) /\ Justified(tb)
  BY InitIndInv DEF GivenUpInv
<1>1. tb.insns = <<>> /\ tb.rels = block.rels
  BY DEF Init
<1>2. \A j \in DOMAIN block.rels : block.rels[j].valid
  BY BlocksAssumption DEF Init, WellFormedBlock
<1> QED
  BY <1>1, <1>2 DEF Identified, Justified

LEMMA DecodeInsnJustified ==
    ASSUME GivenUpInv, DecodeInsn
    PROVE  Identified(tb, IdBound)' /\ Justified(tb)'
<1>1. IndInv' /\ phase' = "decode" /\ block' = block /\ added' = added
  BY DecodeInsnStep DEF GivenUpInv, DecodeInsn, IndInv
<1>2. /\ tb' \in TBType /\ tb'.rels = block.rels /\ Len(tb'.insns) <= Len(block.code)
      /\ \A k \in DOMAIN tb'.insns : tb'.insns[k].id = k
      /\ WellFormedBlock(block) /\ added \in 0..MaxAdded
  BY <1>1 DEF GivenUpInv, IndInv, TypeOK, Decoding
<1>3. /\ DOMAIN tb'.insns = 1..Len(tb'.insns) /\ Len(tb'.insns) \in Nat
      /\ Len(block.code) \in Nat /\ added \in Nat
  BY <1>2, IndexFacts, LenProperties, MaxAddedAssumption DEF WellFormedBlock
<1>4. Identified(tb, IdBound)'
  BY <1>1, <1>2, <1>3 DEF Identified, IdBound
<1>5. Justified(tb)'
  BY <1>2 DEF Justified, WellFormedBlock
<1> QED
  BY <1>4, <1>5

LEMMA DeleteJustified ==
    ASSUME GivenUpInv, Delete
    PROVE  Identified(tb', IdBound) /\ Justified(tb')
<1>1. /\ Sound(tb) /\ tb \in TBType /\ Identified(tb, IdBound) /\ Justified(tb)
  BY DEF GivenUpInv, IndInv, Sound, Loaded, Delete, DeleteInsn, DeleteInsnWithRel,
         DeleteRel
<1>2. ASSUME NEW i \in Indices, DeleteInsn(i)
      PROVE  Identified(tb', IdBound) /\ Justified(tb')
  BY <1>1, <1>2, RemoveKeepsJustified DEF DeleteInsn, DeleteIthInsn, Indices
<1>3. ASSUME NEW i \in Indices, DeleteInsnWithRel(i)
      PROVE  Identified(tb', IdBound) /\ Justified(tb')
  BY <1>1, <1>3, DeleteAlongKeepsJustified DEF DeleteInsnWithRel, Indices
<1>4. ASSUME NEW j \in DOMAIN tb.rels, DeleteRel(j)
      PROVE  Identified(tb', IdBound) /\ Justified(tb')
  <2>1. tb' = DeleteIthRel(tb, j)
    BY <1>4 DEF DeleteRel
  <2>2. CASE tb.rels[j].valid
    <3>1. tb.rels[j].off \in Nat /\ tb.rels[j].slots \in Nat
      BY <1>1, RelFacts
    <3>2. tb.rels[j].off + tb.rels[j].slots <= Len(tb.insns)
      BY <1>1, <2>2 DEF Sound, AllRelsAnchored, RelAnchored
    <3> QED
      BY <1>1, <2>1, <2>2, <3>1, <3>2, DeleteRunKeepsJustified DEF DeleteIthRel
  <2>3. CASE ~ tb.rels[j].valid
    BY <1>1, <2>1, <2>3 DEF DeleteIthRel
  <2> QED
    BY <2>2, <2>3
<1> QED
  BY <1>2, <1>3, <1>4 DEF Delete

(* The identity of an added instruction is beyond those of the block.      *)
LEMMA InsertJustified ==
    ASSUME GivenUpInv, Insert
    PROVE  Identified(tb, IdBound)' /\ Justified(tb)'
<1>1. PICK index \in {-1} \cup Indices, opc \in OpClasses : InsertInsn(index, opc)
  BY DEF Insert
<1> DEFINE at   == index + 1
           insn == [id |-> Len(block.code) + added + 1, opc |-> opc]
<1>2. /\ Sound(tb) /\ tb \in TBType /\ Identified(tb, IdBound) /\ Justified(tb)
      /\ WellFormedBlock(block) /\ added \in 0..MaxAdded /\ block' = block
  BY <1>1 DEF GivenUpInv, IndInv, TypeOK, InsertInsn
<1>3. CASE InRel(tb, at)
  <2>1. UNCHANGED <<block, tb, added>>
    BY <1>1, <1>2, <1>3 DEF InsertInsn
  <2> QED
    BY <1>2, <2>1 DEF Identified, IdBound, Justified, Lost, Gone
<1>4. CASE ~ InRel(tb, at)
  <2>1. tb' = AddInsn(tb, at, insn, index) /\ added' = added + 1
    BY <1>1, <1>4 DEF InsertInsn
  <2>2. added \in Nat /\ Len(block.code) \in Nat
    BY <1>2, LenProperties, MaxAddedAssumption DEF WellFormedBlock
  <2>3. insn \in InsnType
    BY <2>2 DEF InsnType
  <2> DEFINE n == Len(tb.insns)
             was(k) == IF k < at + 1 THEN k ELSE k - 1
  <2>4. /\ n \in Nat /\ DOMAIN tb.insns = 1..n /\ at \in 0..n /\ index = at - 1
    BY <1>2, IndexFacts DEF Indices
  <2> HIDE DEF insn, at
  <2>5. Inserted(tb, at, insn, tb')
    BY <1>2, <2>1, <2>3, <2>4, AddInsnFields
  <2>6. /\ DOMAIN tb'.insns = 1..n + 1
        /\ \A k \in 1..n + 1 : tb'.insns[k] = IF k < at + 1 THEN tb.insns[k]
                                              ELSE IF k = at + 1 THEN insn
                                              ELSE tb.insns[k - 1]
    BY <2>5, IndexFacts DEF Inserted
  <2>7. \A k \in DOMAIN tb'.insns :
            \/ k = at + 1 /\ tb'.insns[k] = insn
            \/ k # at + 1 /\ was(k) \in DOMAIN tb.insns /\ tb'.insns[k] = tb.insns[was(k)]
    BY <2>4, <2>6, SMTT(30)
  <2>8. \A k, m \in DOMAIN tb'.insns :
            k # at + 1 /\ m # at + 1 /\ was(k) = was(m) => k = m
    BY <2>4, <2>6
  <2>9. insn.id = Len(block.code) + added + 1 /\ IdBound' = Len(block.code) + added + 1
        /\ IdBound = Len(block.code) + added
    <3>1. insn.id = Len(block.code) + added + 1
      BY DEF insn
    <3>2. IdBound = Len(block.code) + added
      BY DEF IdBound
    <3>3. IdBound' = Len(block.code) + (added + 1)
      BY <1>2, <2>1 DEF IdBound
    <3>4. Len(block.code) + (added + 1) = Len(block.code) + added + 1
      <4>1. \A a, b \in Nat : a + (b + 1) = a + b + 1
        OBVIOUS
      <4> QED
        BY <2>2, <4>1, Zenon
    <3> QED
      BY <3>1, <3>2, <3>3, <3>4, Zenon
  <2>10. \A k \in DOMAIN tb.insns : tb.insns[k].id \in Nat /\ tb.insns[k].id <= IdBound
    <3>1. \A k \in DOMAIN tb.insns : tb.insns[k] \in InsnType
      BY <1>2, LenProperties, ElementOfSeq, ZenonT(40) DEF TBType, InsnType
    <3> QED
      BY <1>2, <3>1 DEF Identified, InsnType
  <2> HIDE DEF was
  <2>11. /\ \A k \in DOMAIN tb'.insns : tb'.insns[k].id <= IdBound'
         /\ \A k, m \in DOMAIN tb'.insns : tb'.insns[k].id = tb'.insns[m].id => k = m
    <3>1. \A k \in DOMAIN tb.insns :
            tb.insns[k].id <= IdBound' /\ tb.insns[k].id # insn.id
      BY <2>2, <2>9, <2>10
    <3>2. insn.id <= IdBound'
      BY <2>2, <2>9
    <3>3. \A k, m \in DOMAIN tb.insns : tb.insns[k].id = tb.insns[m].id => k = m
      BY <1>2 DEF Identified
    <3> QED
      BY <2>7, <2>8, <3>1, <3>2, <3>3
  <2>12. ASSUME NEW id \in Nat, id <= Len(block.code), Gone(tb, id)
         PROVE  Gone(tb', id)
    <3>1. insn.id # id
      BY <2>2, <2>9, <2>12
    <3> QED
      BY <2>7, <2>12, <3>1 DEF Gone
  <2>13. ASSUME NEW j \in DOMAIN tb'.rels
         PROVE  tb'.rels[j].valid \/ Lost(tb', j)
    <3>1. DOMAIN tb'.rels = DOMAIN tb.rels
      BY <2>5 DEF Inserted
    <3>2. tb'.rels[j].valid = tb.rels[j].valid
      BY <1>2, <2>1, <2>3, <2>4, <3>1, RelAfterAdd
    <3>3. CASE Lost(tb, j)
      <4>1. PICK s \in 0..block.rels[j].slots - 1 : Gone(tb, block.rels[j].off + s + 1)
        BY <3>3 DEF Lost
      <4>2. /\ block.rels[j].off \in Nat /\ block.rels[j].slots \in Nat
            /\ block.rels[j].off + block.rels[j].slots <= Len(block.code)
        <5>1. j \in DOMAIN block.rels
          BY <1>2, <3>1 DEF Sound, Loaded
        <5>2. block.rels[j] \in RelType
          BY <1>2, <5>1, LenProperties, ElementOfSeq DEF WellFormedBlock
        <5> QED
          BY <1>2, <5>1, <5>2 DEF WellFormedBlock, RelType
      <4>3. /\ block.rels[j].off + s + 1 \in Nat
            /\ block.rels[j].off + s + 1 <= Len(block.code)
        BY <2>2, <4>2, SMTT(30)
      <4> QED
        BY <2>12, <4>1, <4>3 DEF Lost
    <3> QED
      BY <1>2, <3>1, <3>2, <3>3 DEF Justified
  <2>14. Identified(tb, IdBound)'
    BY <2>11 DEF Identified
  <2>15. Justified(tb)'
    BY <1>2, <2>13 DEF Justified, Lost, Gone
  <2> QED
    BY <2>14, <2>15
<1> QED
  BY <1>3, <1>4

LEMMA NextGivenUp == GivenUpInv /\ [Next]_vars => GivenUpInv'
<1> SUFFICES ASSUME GivenUpInv, [Next]_vars PROVE GivenUpInv'
  OBVIOUS
<1>1. IndInv'
  BY NextIndInv DEF GivenUpInv
<1>2. Identified(tb, IdBound)' /\ Justified(tb)'
  <2>1. CASE DecodeInsn
    BY <2>1, DecodeInsnJustified
  <2>2. CASE Delete
    <3>1. block' = block /\ added' = added
      BY <2>2 DEF Delete, DeleteInsn, DeleteInsnWithRel, DeleteRel
    <3> QED
      BY <2>2, <3>1, DeleteJustified DEF Identified, IdBound, Justified, Lost, Gone
  <2>3. CASE Insert
    BY <2>3, InsertJustified
  <2>4. CASE DecodeDone \/ UNCHANGED vars
    <3>1. UNCHANGED <<block, tb, added>>
      BY <2>4 DEF DecodeDone, vars
    <3> QED
      BY <3>1 DEF GivenUpInv, Identified, IdBound, Justified, Lost, Gone
  <2> QED
    BY <2>1, <2>2, <2>3, <2>4 DEF Next, Load
<1> QED
  BY <1>1, <1>2 DEF GivenUpInv

LEMMA SlotInside ==
    \A off, slots, len, s \in Nat :
        s <= slots - 1 /\ off + slots <= len =>
            LET k == off + s + 1
            IN  k \in 1..len /\ off <= k - 1 /\ k - 1 < off + slots
OBVIOUS

(* What a step gives up has lost an instruction in that step.              *)
LEMMA GivenUpStep ==
    ASSUME GivenUpInv, GivenUpInv', [Next]_vars, NEW j \in RelsGivenUp
    PROVE  \E k \in DOMAIN tb.insns :
            /\ Covers(tb.rels[j], k - 1)
            /\ \A m \in DOMAIN tb.insns' : tb.insns'[m].id # tb.insns[k].id
<1>1. j \in DOMAIN tb.rels /\ tb.rels[j].valid /\ ~ tb'.rels[j].valid
  BY DEF RelsGivenUp
<1>2. phase # "decode"
  <2>1. SUFFICES ASSUME phase = "decode"
                 PROVE  tb'.rels[j].valid
    BY <1>1
  <2>2. tb'.rels = tb.rels
    <3>1. tb \in TBType
      BY DEF GivenUpInv, IndInv, TypeOK
    <3>2. CASE DecodeInsn
      BY <3>1, <3>2 DEF DecodeInsn, TBType
    <3>3. CASE DecodeDone \/ UNCHANGED vars
      BY <3>3 DEF DecodeDone, vars
    <3>4. ~ Delete /\ ~ Insert
      BY <2>1 DEF Delete, DeleteInsn, DeleteInsnWithRel, DeleteRel, Insert, InsertInsn
    <3> QED
      BY <3>2, <3>3, <3>4 DEF Next, Load
  <2> QED
    BY <1>1, <2>2
<1>3. Sound(tb) /\ tb \in TBType
  BY <1>2 DEF GivenUpInv, IndInv, Sound, Loaded
<1>4. RelAnchored(tb, j)
  BY <1>1, <1>3 DEF Sound, AllRelsAnchored
<1>5. j \in DOMAIN tb'.rels /\ block' = block
  <2>1. block' = block
    BY DEF Next, Load, DecodeInsn, DecodeDone, Delete, DeleteInsn, DeleteInsnWithRel,
           DeleteRel, Insert, InsertInsn, vars
  <2>2. phase' # "decode"
    BY <1>2 DEF Next, Load, DecodeInsn, DecodeDone, Delete, DeleteInsn,
                DeleteInsnWithRel, DeleteRel, Insert, InsertInsn, vars
  <2>3. DOMAIN tb'.rels = DOMAIN block'.rels
    BY <2>2 DEF GivenUpInv, IndInv, Sound, Loaded
  <2> QED
    BY <1>1, <1>3, <2>1, <2>3 DEF Sound, Loaded
<1>6. PICK s \in 0..block.rels[j].slots - 1 : Gone(tb', block.rels[j].off + s + 1)
  BY <1>1, <1>5 DEF GivenUpInv, Justified, Lost, Gone
<1> DEFINE k == tb.rels[j].off + s + 1
<1>7. /\ tb.rels[j].off \in Nat /\ tb.rels[j].slots \in Nat
      /\ tb.rels[j].slots = block.rels[j].slots
      /\ tb.rels[j].off + tb.rels[j].slots <= Len(tb.insns)
      /\ DOMAIN tb.insns = 1..Len(tb.insns) /\ Len(tb.insns) \in Nat
  BY <1>1, <1>3, <1>4, RelFacts, IndexFacts DEF RelAnchored
<1>8. k \in DOMAIN tb.insns /\ Covers(tb.rels[j], k - 1)
  <2>1. s \in Nat /\ s <= tb.rels[j].slots - 1
    BY <1>6, <1>7
  <2>2. /\ k \in 1..Len(tb.insns) /\ tb.rels[j].off <= k - 1
        /\ k - 1 < tb.rels[j].off + tb.rels[j].slots
    BY <1>7, <2>1, SlotInside
  <2> QED
    BY <1>7, <2>2 DEF Covers
<1>9. tb.insns[k].id = block.rels[j].off + s + 1
  BY <1>4, <1>6, <1>7 DEF RelAnchored
<1> HIDE DEF k
<1>10. \A m \in DOMAIN tb.insns' : tb.insns'[m].id # tb.insns[k].id
  BY <1>6, <1>9 DEF Gone
<1> QED
  BY <1>8, <1>10

(* No edit gives up a relocation unless it deletes an instruction that the *)
(* relocation covers.                                                      *)
THEOREM OnlyTouchedGivenUp == Spec => OnlyTouchedRelsGivenUp
<1>1. Spec => []GivenUpInv
  BY InitGivenUp, NextGivenUp, PTL DEF Spec
<1>2. GivenUpInv /\ GivenUpInv' /\ [Next]_vars
        => [\A j \in RelsGivenUp : \E k \in DOMAIN tb.insns :
                /\ Covers(tb.rels[j], k - 1)
                /\ \A m \in DOMAIN tb.insns' : tb.insns'[m].id # tb.insns[k].id]_vars
  BY GivenUpStep
<1> QED
  BY <1>1, <1>2, PTL DEF Spec, OnlyTouchedRelsGivenUp

-----------------------------------------------------------------------------
(* What a deletion keeps of a decoded block.                               *)

Kept(t) ==
    /\ Sound(t)
    /\ Justified(t)
    /\ AllBranchesIndexed(t)
    /\ PartOf(t, block.code)
    /\ \A j \in DOMAIN t.rels : t.rels[j].kind = block.rels[j].kind

LEMMA KeptFacts ==
    ASSUME NEW t, Kept(t)
    PROVE  t \in TBType /\ Len(t.insns) \in Nat
BY IndexFacts DEF Kept, Sound, Loaded

LEMMA BlockFacts ==
    ASSUME WellFormedBlock(block)
    PROVE  /\ Len(block.code) \in Nat /\ DOMAIN block.code = 1..Len(block.code)
           /\ \A j \in DOMAIN block.rels :
                /\ block.rels[j] \in RelType /\ block.rels[j].valid
                /\ block.rels[j].off \in Nat /\ block.rels[j].slots \in Nat \ {0}
                /\ block.rels[j].off + block.rels[j].slots <= Len(block.code)
           /\ \A d \in Jumps : block.linked[d] =>
                block.target[d] \in Nat /\ block.target[d] < Len(block.code)
<1>1. /\ block.code \in Seq(OpClasses) /\ block.rels \in Seq(RelType)
      /\ block.target \in [Jumps -> Nat]
  BY DEF WellFormedBlock
<1>2. \A j \in DOMAIN block.rels : block.rels[j] \in RelType
  BY <1>1, LenProperties, ElementOfSeq
<1> QED
  BY <1>1, <1>2, LenProperties, EntryTypes DEF WellFormedBlock

LEMMA PartIsIdentified ==
    ASSUME WellFormedBlock(block), NEW t \in TBType, PartOf(t, block.code)
    PROVE  Identified(t, Len(block.code))
<1>1. \A k \in DOMAIN t.insns : t.insns[k].id <= Len(block.code)
  BY BlockFacts DEF PartOf
<1>2. \A k, m \in DOMAIN t.insns : t.insns[k].id = t.insns[m].id => k = m
  BY IdsDiffer
<1> QED
  BY <1>1, <1>2 DEF Identified

LEMMA RemoveKeepsKinds ==
    ASSUME NEW t \in TBType, NEW i \in 0..Len(t.insns) - 1,
           NEW u, u = RemoveInsn(t, i + 1, i), NEW j \in DOMAIN t.rels
    PROVE  u.rels[j].kind = t.rels[j].kind
<1>1. u.rels[j] = IF t.rels[j].valid /\ i < t.rels[j].off
                  THEN [t.rels[j] EXCEPT !.off = @ - 1] ELSE t.rels[j]
  BY RemoveInsnFields
<1>2. t.rels[j] \in RelType
  BY RelFacts
<1>3. \A x : [t.rels[j] EXCEPT !.off = x].kind = t.rels[j].kind
  BY <1>2 DEF RelType
<1> QED
  BY <1>1, <1>3

LEMMA DeleteAlongKeepsKinds ==
    ASSUME NEW t \in TBType, NEW i \in 0..Len(t.insns) - 1,
           NEW u, u = DeleteIthInsnAlongWithRel(t, i + 1, i), NEW j \in DOMAIN t.rels
    PROVE  u.rels[j].kind = t.rels[j].kind
<1> DEFINE m == InvalidateRelAt(t, i)
<1>1. /\ m \in TBType /\ DOMAIN m.rels = DOMAIN t.rels
      /\ \A x \in DOMAIN t.rels :
            m.rels[x] = [t.rels[x] EXCEPT !.valid = @ /\ ~ FirstRelAt(t, x, i)]
  BY InvalidateRelAtType
<1>2. i \in 0..Len(m.insns) - 1
  BY DEF InvalidateRelAt, TBType
<1>3. u = RemoveInsn(m, i + 1, i)
  BY DEF DeleteIthInsnAlongWithRel
<1>4. m.rels[j].kind = t.rels[j].kind
  <2>1. t.rels[j] \in RelType
    BY RelFacts
  <2> QED
    BY <1>1, <2>1 DEF RelType
<1> HIDE DEF m
<1>5. u.rels[j].kind = m.rels[j].kind
  <2>1. j \in DOMAIN m.rels
    BY <1>1
  <2> QED
    BY <1>1, <1>2, <1>3, <2>1, RemoveKeepsKinds
<1> QED
  BY <1>4, <1>5

LEMMA RemoveKept ==
    ASSUME WellFormedBlock(block), NEW t, Kept(t),
           NEW i \in 0..Len(t.insns) - 1, ~ InRel(t, i),
           NEW u, u = RemoveInsn(t, i + 1, i)
    PROVE  Kept(u) /\ Without(t, i, 1, u)
<1>1. /\ t \in TBType /\ Sound(t) /\ Justified(t) /\ AllBranchesIndexed(t)
      /\ PartOf(t, block.code) /\ i \in Nat /\ i + 1 <= Len(t.insns)
  BY KeptFacts DEF Kept
<1>2. Without(t, i, 1, u)
  BY <1>1, RemoveIsWithout
<1>3. PartOf(u, block.code)
  BY <1>1, <1>2, WithoutIsPart
<1>4. Sound(u)
  BY <1>1, RemoveKeepsSound
<1>5. Identified(t, Len(block.code))
  BY <1>1, PartIsIdentified
<1>6. Justified(u)
  BY <1>1, <1>5, RemoveKeepsJustified
<1>7. \A j \in DOMAIN t.rels : u.rels[j].kind = block.rels[j].kind
  BY <1>1, RemoveKeepsKinds DEF Kept
<1> QED
  BY <1>1, <1>2, <1>3, <1>4, <1>6, <1>7 DEF Kept, Without

LEMMA DeleteAlongKept ==
    ASSUME WellFormedBlock(block), NEW t, Kept(t),
           NEW i \in 0..Len(t.insns) - 1,
           NEW u, u = DeleteIthInsnAlongWithRel(t, i + 1, i)
    PROVE  Kept(u) /\ Without(t, i, 1, u)
<1>1. /\ t \in TBType /\ Sound(t) /\ Justified(t) /\ AllBranchesIndexed(t)
      /\ PartOf(t, block.code) /\ i \in Nat /\ i + 1 <= Len(t.insns)
  BY KeptFacts DEF Kept
<1>2. Without(t, i, 1, u)
  <2>1. Len(t.insns) \in Nat
    BY KeptFacts
  <2>2. /\ u \in TBType
        /\ Len(u.insns) = Len(t.insns) - 1
        /\ \A k \in 1..Len(t.insns) - 1 :
             u.insns[k] = IF k < i + 1 THEN t.insns[k] ELSE t.insns[k + 1]
        /\ u.linked = t.linked
        /\ DOMAIN u.rels = DOMAIN t.rels
    BY <1>1, DeleteAlongFields
  <2>3. \A k \in 1..Len(t.insns) - 1 : k < i + 1 <=> k <= i
    BY <1>1, <2>1
  <2>4. AllBranchesIndexed(u)
    BY <1>1, DeleteAlongKeepsIndexed
  <2> QED
    BY <2>2, <2>3, <2>4 DEF Without
<1>3. PartOf(u, block.code)
  BY <1>1, <1>2, WithoutIsPart
<1>4. Sound(u)
  BY <1>1, DeleteAlongKeepsSound
<1>5. Identified(t, Len(block.code))
  BY <1>1, PartIsIdentified
<1>6. Justified(u)
  BY <1>1, <1>5, DeleteAlongKeepsJustified
<1>7. \A j \in DOMAIN t.rels : u.rels[j].kind = block.rels[j].kind
  BY <1>1, DeleteAlongKeepsKinds DEF Kept
<1> QED
  BY <1>1, <1>2, <1>3, <1>4, <1>6, <1>7 DEF Kept, Without

-----------------------------------------------------------------------------
(* The shape, while no branch has been deleted.                            *)

BranchesThere(t) ==
    \A k \in DOMAIN block.code : block.code[k] \in BranchClasses => k \in IdsOf(t)

Fresh(t, p) == BranchesThere(t) => (PipeholeOptAvailable(t) <=> p)

(* The recorded jumps and the epilogue relocations of t are at a B.        *)
AtBranches(t) ==
    /\ \A d \in Jumps : t.linked[d] =>
        t.target[d] + 1 \in DOMAIN t.insns /\ t.insns[t.target[d] + 1].opc = "B"
    /\ \A j \in DOMAIN t.rels : t.rels[j].kind = "B_EPILOGUE" =>
        /\ t.rels[j].valid /\ t.rels[j].slots = 1
        /\ t.rels[j].off + 1 \in DOMAIN t.insns /\ t.insns[t.rels[j].off + 1].opc = "B"

LEMMA ThereAtBranches ==
    ASSUME WellFormedBlock(block), RegularBranches(block),
           NEW t, Kept(t), BranchesThere(t)
    PROVE  AtBranches(t)
<1>1. /\ t \in TBType /\ Sound(t) /\ Justified(t) /\ PartOf(t, block.code)
      /\ t.linked = block.linked /\ DOMAIN t.rels = DOMAIN block.rels
      /\ DOMAIN t.insns = 1..Len(t.insns) /\ Len(t.insns) \in Nat
  BY KeptFacts, IndexFacts DEF Kept, Sound, Loaded
<1>2. ASSUME NEW x \in Nat, x < Len(block.code), block.code[x + 1] = "B"
      PROVE  \E k \in DOMAIN t.insns : t.insns[k].id = x + 1
  <2>1. x + 1 \in DOMAIN block.code /\ "B" \in BranchClasses
    BY <1>2, BlockFacts DEF BranchClasses
  <2>2. x + 1 \in IdsOf(t)
    BY <1>2, <2>1 DEF BranchesThere
  <2> QED
    BY <2>2 DEF IdsOf
<1>3. ASSUME NEW d \in Jumps, t.linked[d]
      PROVE  t.target[d] + 1 \in DOMAIN t.insns /\ t.insns[t.target[d] + 1].opc = "B"
  <2>1. /\ block.target[d] \in Nat /\ block.target[d] < Len(block.code)
        /\ block.code[block.target[d] + 1] = "B"
    BY <1>1, <1>3, BlockFacts DEF RegularBranches
  <2>2. PICK k \in DOMAIN t.insns : t.insns[k].id = block.target[d] + 1
    BY <1>2, <2>1
  <2>3. t.target[d] = k - 1
    BY <1>1, <1>3, <2>2 DEF Sound, AllTargetsAnchored
  <2>4. t.target[d] + 1 = k
    BY <1>1, <2>3
  <2>5. t.insns[k].opc = "B"
    BY <1>1, <2>1, <2>2 DEF PartOf
  <2> QED
    BY <2>4, <2>5
<1>4. ASSUME NEW j \in DOMAIN t.rels, t.rels[j].kind = "B_EPILOGUE"
      PROVE  /\ t.rels[j].valid /\ t.rels[j].slots = 1
             /\ t.rels[j].off + 1 \in DOMAIN t.insns
             /\ t.insns[t.rels[j].off + 1].opc = "B"
  <2>1. j \in DOMAIN block.rels /\ block.rels[j].kind = "B_EPILOGUE"
    BY <1>1, <1>4 DEF Kept
  <2>2. /\ block.rels[j].off \in Nat /\ block.rels[j].slots = 1
        /\ block.rels[j].off + block.rels[j].slots <= Len(block.code)
        /\ block.code[block.rels[j].off + 1] = "B"
    BY <2>1, BlockFacts DEF RegularBranches
  <2>3. block.rels[j].off < Len(block.code)
    BY <2>2, BlockFacts
  <2>4. PICK k \in DOMAIN t.insns : t.insns[k].id = block.rels[j].off + 1
    BY <1>2, <2>2, <2>3
  <2>5. t.rels[j].valid
    <3>1. SUFFICES ASSUME ~ t.rels[j].valid
                   PROVE  FALSE
      OBVIOUS
    <3>2. PICK s \in 0..block.rels[j].slots - 1 : Gone(t, block.rels[j].off + s + 1)
      BY <1>1, <3>1 DEF Justified, Lost
    <3>3. block.rels[j].off + s + 1 = block.rels[j].off + 1
      BY <2>2, <3>2
    <3> QED
      BY <2>4, <3>2, <3>3 DEF Gone
  <2>6. RelAnchored(t, j)
    BY <1>1, <2>5 DEF Sound, AllRelsAnchored
  <2>7. t.rels[j].slots = 1 /\ t.rels[j].off \in Nat
    BY <1>1, <2>2, <2>6, RelFacts DEF RelAnchored
  <2>8. t.rels[j].off + 1 \in DOMAIN t.insns
    BY <1>1, <2>6, <2>7 DEF RelAnchored
  <2>9. t.insns[t.rels[j].off + 1].id = block.rels[j].off + 1
    <3>1. 0 \in 0..t.rels[j].slots - 1
      BY <2>7
    <3>2. t.insns[t.rels[j].off + 0 + 1].id = block.rels[j].off + 0 + 1
      BY <2>6, <3>1 DEF RelAnchored
    <3>3. \A x \in Nat : x + 0 + 1 = x + 1
      OBVIOUS
    <3>4. t.rels[j].off + 0 + 1 = t.rels[j].off + 1
      BY <2>7, <3>3
    <3>5. block.rels[j].off + 0 + 1 = block.rels[j].off + 1
      BY <2>2, <3>3
    <3> QED
      BY <3>2, <3>4, <3>5
  <2>10. t.insns[t.rels[j].off + 1].opc = "B"
    BY <1>1, <2>2, <2>8, <2>9 DEF PartOf
  <2> QED
    BY <2>5, <2>7, <2>8, <2>10
<1> QED
  BY <1>3, <1>4 DEF AtBranches

(* Removing another instruction moves all that the shape is about alike.   *)
LEMMA RemoveClosesUp ==
    ASSUME NEW t \in TBType, AllBranchesIndexed(t), AtBranches(t),
           NEW i \in 0..Len(t.insns) - 1, t.insns[i + 1].opc \notin BranchClasses,
           NEW u, u = RemoveInsn(t, i + 1, i)
    PROVE  ClosedUp(t, u, i)
<1>1. i \in Nat /\ Len(t.insns) \in Nat
  BY IndexFacts
<1>2. /\ u.linked = t.linked /\ DOMAIN u.rels = DOMAIN t.rels
      /\ \A j \in DOMAIN t.rels :
            u.rels[j] = IF t.rels[j].valid /\ i < t.rels[j].off
                        THEN [t.rels[j] EXCEPT !.off = @ - 1] ELSE t.rels[j]
      /\ \A d \in Jumps :
            u.target[d] = IF t.linked[d] /\ t.target[d] > i
                          THEN t.target[d] - 1 ELSE t.target[d]
  BY RemoveInsnFields, SMTT(30)
<1>3. "B" \in BranchClasses
  BY DEF BranchClasses
<1>4. ASSUME NEW c \in BranchClasses
      PROVE  /\ Len(u.branches[c]) = Len(t.branches[c])
             /\ \A k \in 1..Len(t.branches[c]) :
                  Closed(t.branches[c][k].off, u.branches[c][k].off, i)
  <2> DEFINE v == t.branches[c]
             w == u.branches[c]
  <2>1. w = DropBranch(t.branches, t.insns[i + 1], i)[c]
    BY DEF RemoveInsn, TBType
  <2>2. BranchIndexed(t, c) /\ t.insns[i + 1].opc # c
    BY DEF AllBranchesIndexed
  <2>3. /\ DOMAIN w = 1..Len(w) /\ DOMAIN w = DOMAIN v /\ Len(w) = Len(v)
        /\ \A k \in DOMAIN v : v[k].off # i /\ w[k] = Moved(v[k], i)
    BY <2>1, <2>2, PassedVector
  <2>4. v \in Seq(BranchType) /\ \A k \in DOMAIN v : v[k] \in BranchType
    BY LenProperties, ElementOfSeq DEF TBType
  <2> HIDE DEF v, w
  <2>5. ASSUME NEW k \in 1..Len(v)
        PROVE  Closed(v[k].off, w[k].off, i)
    <3>1. k \in DOMAIN v
      BY <2>3
    <3> QED
      BY <1>1, <2>3, <2>4, <3>1, MovedFacts DEF Closed
  <2> QED
    BY <2>3, <2>5 DEF v, w
<1>5. ASSUME NEW d \in Jumps, t.linked[d]
      PROVE  Closed(t.target[d], u.target[d], i)
  <2>1. t.insns[t.target[d] + 1].opc = "B" /\ t.target[d] \in Nat
    BY <1>5 DEF AtBranches, TBType
  <2>2. t.target[d] # i
    BY <1>3, <2>1
  <2> QED
    BY <1>2, <1>5, <2>2 DEF Closed
<1>6. ASSUME NEW j \in DOMAIN t.rels
      PROVE  u.rels[j].kind = t.rels[j].kind
  BY RemoveKeepsKinds
<1>7. ASSUME NEW j \in DOMAIN t.rels, t.rels[j].kind = "B_EPILOGUE"
      PROVE  Closed(t.rels[j].off, u.rels[j].off, i)
  <2>1. /\ t.insns[t.rels[j].off + 1].opc = "B" /\ t.rels[j].valid /\ t.rels[j].off \in Nat
        /\ [t.rels[j] EXCEPT !.off = @ - 1].off = t.rels[j].off - 1
    BY <1>7, RelFacts DEF AtBranches
  <2>2. t.rels[j].off # i
    BY <1>3, <2>1
  <2>3. u.rels[j].off = IF i < t.rels[j].off THEN t.rels[j].off - 1 ELSE t.rels[j].off
    BY <1>2, <2>1
  <2> QED
    BY <1>1, <2>1, <2>2, <2>3 DEF Closed
<1> QED
  BY <1>2, <1>4, <1>5, <1>6, <1>7 DEF ClosedUp

LEMMA DeleteAlongClosesUp ==
    ASSUME NEW t \in TBType, AllBranchesIndexed(t), AtBranches(t),
           NEW i \in 0..Len(t.insns) - 1, t.insns[i + 1].opc \notin BranchClasses,
           NEW u, u = DeleteIthInsnAlongWithRel(t, i + 1, i)
    PROVE  ClosedUp(t, u, i)
<1> DEFINE m == InvalidateRelAt(t, i)
<1>1. /\ m \in TBType /\ DOMAIN m.rels = DOMAIN t.rels
      /\ \A j \in DOMAIN t.rels :
            m.rels[j] = [t.rels[j] EXCEPT !.valid = @ /\ ~ FirstRelAt(t, j, i)]
  BY InvalidateRelAtType
<1>2. /\ m.insns = t.insns /\ m.branches = t.branches /\ m.linked = t.linked
      /\ m.target = t.target
  BY DEF InvalidateRelAt, TBType
<1>3. u = RemoveInsn(m, i + 1, i)
  BY DEF DeleteIthInsnAlongWithRel
<1> HIDE DEF m
<1>4. ASSUME NEW j \in DOMAIN t.rels
      PROVE  /\ m.rels[j].kind = t.rels[j].kind /\ m.rels[j].off = t.rels[j].off
             /\ m.rels[j].slots = t.rels[j].slots
             /\ m.rels[j].valid <=> (t.rels[j].valid /\ ~ FirstRelAt(t, j, i))
  <2>1. t.rels[j] \in RelType
    BY RelFacts
  <2> QED
    BY <1>1, <2>1 DEF RelType
<1>5. AtBranches(m)
  <2>1. ASSUME NEW j \in DOMAIN t.rels, t.rels[j].kind = "B_EPILOGUE"
        PROVE  m.rels[j].valid
    <3>1. /\ t.rels[j].valid /\ t.rels[j].slots = 1 /\ t.rels[j].off \in Nat
          /\ t.insns[t.rels[j].off + 1].opc = "B"
      BY <2>1, RelFacts DEF AtBranches
    <3>2. t.rels[j].off # i
      BY <3>1 DEF BranchClasses
    <3>3. ~ Covers(t.rels[j], i)
      <4>1. i \in Nat
        BY IndexFacts
      <4> QED
        BY <3>1, <3>2, <4>1 DEF Covers
    <3> QED
      BY <1>4, <3>1, <3>3 DEF FirstRelAt, ValidAt
  <2> QED
    BY <1>1, <1>2, <1>4, <2>1 DEF AtBranches
<1>6. AllBranchesIndexed(m)
  BY <1>2, SameIndexed
<1>7. ClosedUp(m, u, i)
  BY <1>1, <1>2, <1>3, <1>5, <1>6, RemoveClosesUp
<1> QED
  BY <1>1, <1>2, <1>4, <1>7 DEF ClosedUp

(* A deletion that leaves all branches has left them before, and deleted   *)
(* something else.                                                         *)
LEMMA DeletesOther ==
    ASSUME NEW t \in TBType, PartOf(t, block.code),
           NEW i \in 0..Len(t.insns) - 1,
           NEW u, Without(t, i, 1, u), BranchesThere(u)
    PROVE  BranchesThere(t) /\ t.insns[i + 1].opc \notin BranchClasses
<1>1. i \in Nat /\ i + 1 <= Len(t.insns) /\ i + 1 \in DOMAIN t.insns
  BY IndexFacts
<1>2. IdsOf(u) = IdsOf(t) \ {t.insns[k].id : k \in i + 1..i + 1}
  BY <1>1, WithoutIsPart
<1>3. t.insns[i + 1].id \notin IdsOf(u)
  <2>1. i + 1 \in i + 1..i + 1
    BY <1>1
  <2> QED
    BY <1>2, <2>1
<1>4. /\ t.insns[i + 1].id \in DOMAIN block.code
      /\ t.insns[i + 1].opc = block.code[t.insns[i + 1].id]
  BY <1>1 DEF PartOf
<1> QED
  BY <1>2, <1>3, <1>4 DEF BranchesThere

LEMMA RemoveFresh ==
    ASSUME WellFormedBlock(block), RegularBranches(block), NEW t, Kept(t),
           NEW i \in 0..Len(t.insns) - 1, ~ InRel(t, i),
           NEW u, u = RemoveInsn(t, i + 1, i), NEW p, Fresh(t, p)
    PROVE  Kept(u) /\ Fresh(u, p)
<1>1. /\ t \in TBType /\ AllBranchesIndexed(t) /\ PartOf(t, block.code) /\ i \in Nat
  BY KeptFacts DEF Kept
<1>2. Kept(u) /\ Without(t, i, 1, u)
  BY RemoveKept
<1>3. ASSUME BranchesThere(u)
      PROVE  PipeholeOptAvailable(u) <=> p
  <2>1. BranchesThere(t) /\ t.insns[i + 1].opc \notin BranchClasses
    BY <1>1, <1>2, <1>3, DeletesOther
  <2>2. ClosedUp(t, u, i)
    BY <1>1, <2>1, ThereAtBranches, RemoveClosesUp
  <2>3. PipeholeOptAvailable(u) <=> PipeholeOptAvailable(t)
    BY <1>1, <1>2, <2>2, ClosedUpPipehole DEF Without
  <2> QED
    BY <2>1, <2>3 DEF Fresh
<1> QED
  BY <1>2, <1>3 DEF Fresh

LEMMA DeleteAlongFresh ==
    ASSUME WellFormedBlock(block), RegularBranches(block), NEW t, Kept(t),
           NEW i \in 0..Len(t.insns) - 1,
           NEW u, u = DeleteIthInsnAlongWithRel(t, i + 1, i), NEW p, Fresh(t, p)
    PROVE  Kept(u) /\ Fresh(u, p) /\ Len(u.insns) = Len(t.insns) - 1
<1>1. /\ t \in TBType /\ AllBranchesIndexed(t) /\ PartOf(t, block.code) /\ i \in Nat
  BY KeptFacts DEF Kept
<1>2. Kept(u) /\ Without(t, i, 1, u)
  BY DeleteAlongKept
<1>3. ASSUME BranchesThere(u)
      PROVE  PipeholeOptAvailable(u) <=> p
  <2>1. BranchesThere(t) /\ t.insns[i + 1].opc \notin BranchClasses
    BY <1>1, <1>2, <1>3, DeletesOther
  <2>2. ClosedUp(t, u, i)
    BY <1>1, <2>1, ThereAtBranches, DeleteAlongClosesUp
  <2>3. PipeholeOptAvailable(u) <=> PipeholeOptAvailable(t)
    BY <1>1, <1>2, <2>2, ClosedUpPipehole DEF Without
  <2> QED
    BY <2>1, <2>3 DEF Fresh
<1> QED
  BY <1>2, <1>3 DEF Fresh, Without

LEMMA DeleteRunFresh ==
    ASSUME WellFormedBlock(block), RegularBranches(block), NEW t, Kept(t),
           NEW i \in Nat, NEW count \in Nat, i + count <= Len(t.insns),
           NEW p, Fresh(t, p)
    PROVE  Kept(DeleteRun(t, i, count)) /\ Fresh(DeleteRun(t, i, count), p)
<1>0. Len(t.insns) \in Nat
  BY KeptFacts
<1>1. PICK f : Iterates(f, t, i, count) /\ DeleteRun(t, i, count) = f[count]
  BY DeleteRunUnfold
<1> DEFINE Good(k) == Kept(f[k]) /\ Fresh(f[k], p) /\ Len(f[k].insns) = Len(t.insns) - k
           T == {k \in Nat : k <= count => Good(k)}
<1>2. 0 \in T
  BY <1>0, <1>1 DEF Iterates
<1>3. ASSUME NEW k \in T
      PROVE  k + 1 \in T
  <2>1. k \in Nat /\ k + 1 \in Nat
    OBVIOUS
  <2>2. SUFFICES ASSUME k + 1 <= count
                 PROVE  Good(k + 1)
    BY <2>1
  <2>3. Good(k)
    BY <2>1, <2>2
  <2>4. i \in 0..Len(f[k].insns) - 1
    BY <1>0, <2>1, <2>2, <2>3
  <2>5. f[k + 1] = DeleteIthInsnAlongWithRel(f[k], i + 1, i)
    <3>1. k + 1 \in 1..count /\ (k + 1) - 1 = k
      BY <2>1, <2>2
    <3> QED
      BY <1>1, <3>1 DEF Iterates
  <2>6. /\ Kept(f[k + 1]) /\ Fresh(f[k + 1], p)
        /\ Len(f[k + 1].insns) = Len(f[k].insns) - 1
    BY <2>3, <2>4, <2>5, DeleteAlongFresh
  <2> QED
    BY <1>0, <2>1, <2>3, <2>6
<1>4. count \in T
  <2>1. T \in SUBSET Nat
    OBVIOUS
  <2> HIDE DEF T
  <2> QED
    BY <1>2, <1>3, <2>1, NatInduct
<1> QED
  BY <1>1, <1>4

-----------------------------------------------------------------------------
(* The deletions of class TB.                                              *)

LEMMA DeleteFresh ==
    ASSUME WellFormedBlock(block), RegularBranches(block),
           Kept(tb), Fresh(tb, pipehole), Delete
    PROVE  Kept(tb') /\ Fresh(tb', pipehole) /\ UNCHANGED <<block, phase, pipehole, added>>
<1>1. tb \in TBType /\ Sound(tb) /\ UNCHANGED <<block, phase, pipehole, added>>
  BY KeptFacts DEF Kept, Delete, DeleteInsn, DeleteInsnWithRel, DeleteRel
<1>2. ASSUME NEW i \in Indices, DeleteInsn(i)
      PROVE  Kept(tb') /\ Fresh(tb', pipehole)
  <2>1. tb' = IF InRel(tb, i) THEN tb ELSE RemoveInsn(tb, i + 1, i)
    BY <1>2 DEF DeleteInsn, DeleteIthInsn
  <2>2. CASE InRel(tb, i)
    BY <2>1, <2>2
  <2>3. CASE ~ InRel(tb, i)
    BY <2>1, <2>3, RemoveFresh DEF Indices
  <2> QED
    BY <2>2, <2>3
<1>3. ASSUME NEW i \in Indices, DeleteInsnWithRel(i)
      PROVE  Kept(tb') /\ Fresh(tb', pipehole)
  BY <1>3, DeleteAlongFresh DEF DeleteInsnWithRel, Indices
<1>4. ASSUME NEW j \in DOMAIN tb.rels, DeleteRel(j)
      PROVE  Kept(tb') /\ Fresh(tb', pipehole)
  <2>1. tb' = DeleteIthRel(tb, j)
    BY <1>4 DEF DeleteRel
  <2>2. CASE tb.rels[j].valid
    <3>1. tb.rels[j].off \in Nat /\ tb.rels[j].slots \in Nat
      BY <1>1, RelFacts
    <3>2. tb.rels[j].off + tb.rels[j].slots <= Len(tb.insns)
      BY <1>1, <2>2 DEF Sound, AllRelsAnchored, RelAnchored
    <3>3. tb' = DeleteRun(tb, tb.rels[j].off, tb.rels[j].slots)
      BY <2>1, <2>2 DEF DeleteIthRel
    <3> QED
      BY <3>1, <3>2, <3>3, DeleteRunFresh
  <2>3. CASE ~ tb.rels[j].valid
    BY <2>1, <2>3 DEF DeleteIthRel
  <2> QED
    BY <2>2, <2>3
<1> QED
  BY <1>1, <1>2, <1>3, <1>4 DEF Delete

-----------------------------------------------------------------------------
(* Decoding.                                                               *)

LEMMA DecodeKeepsIndexed ==
    ASSUME IndInv, AllBranchesIndexed(tb), PartOf(tb, block.code), DecodeInsn
    PROVE  /\ AllBranchesIndexed(tb') /\ PartOf(tb', block.code)
           /\ tb'.rels = tb.rels /\ UNCHANGED <<block, phase, pipehole, added>>
<1> DEFINE i    == Len(tb.insns)
           insn == [id |-> i + 1, opc |-> block.code[i + 1]]
<1>1. /\ tb \in TBType /\ i \in Nat /\ i < Len(block.code)
      /\ WellFormedBlock(block)
  BY IndexFacts DEF IndInv, TypeOK, DecodeInsn
<1>2. insn \in InsnType
  <2>1. block.code \in Seq(OpClasses) /\ Len(block.code) \in Nat
    BY <1>1, LenProperties DEF WellFormedBlock
  <2>2. block.code[i + 1] \in OpClasses
    BY <1>1, <2>1, ElementOfSeq
  <2> QED
    BY <1>1, <2>2 DEF InsnType
<1>3. tb' = [tb EXCEPT !.branches = AddBranch(@, insn, i),
                      !.insns    = Append(@, insn)]
  BY DEF DecodeInsn
<1>4. tb' \in TBType
  BY DecodeInsnStep DEF IndInv, TypeOK
<1> HIDE DEF insn
<1>5. tb'.insns = Append(tb.insns, insn) /\ tb'.branches = AddBranch(tb.branches, insn, i)
  BY <1>1, <1>3 DEF TBType
<1>9. tb'.rels = tb.rels
  BY <1>1, <1>3 DEF TBType
<1>6. ASSUME NEW c \in BranchClasses
      PROVE  BranchIndexed(tb', c)
  BY <1>1, <1>2, <1>4, <1>5, AddBranchKeepsIndexed DEF AllBranchesIndexed
<1>7. \A k \in DOMAIN tb.insns : tb.insns[k].id = k
  BY DEF DecodeInsn, IndInv, Decoding
<1>8. PartOf(tb', block.code)
  <2>1. /\ tb.insns \in Seq(InsnType) /\ i = Len(tb.insns) /\ i \in Nat
        /\ DOMAIN tb.insns = 1..i
        /\ DOMAIN block.code = 1..Len(block.code) /\ Len(block.code) \in Nat
    BY <1>1, IndexFacts, BlockFacts DEF TBType, InsnType
  <2>2. /\ DOMAIN tb'.insns = 1..i + 1
        /\ \A k \in 1..i : tb'.insns[k] = tb.insns[k]
        /\ tb'.insns[i + 1] = insn
    <3>1. /\ Len(Append(tb.insns, insn)) = i + 1
          /\ Append(tb.insns, insn) \in Seq(InsnType)
          /\ \A k \in 1..i : Append(tb.insns, insn)[k] = tb.insns[k]
          /\ Append(tb.insns, insn)[i + 1] = insn
      BY <1>2, <2>1, AppendProperties
    <3>2. DOMAIN Append(tb.insns, insn) = 1..i + 1
      BY <3>1, LenProperties
    <3> QED
      BY <1>5, <3>1, <3>2
  <2>3. insn.id = i + 1 /\ insn.opc = block.code[i + 1]
    BY DEF insn
  <2> HIDE DEF i
  <2>4. ASSUME NEW k \in 1..i + 1
        PROVE  tb'.insns[k].id = k /\ k \in DOMAIN block.code
               /\ tb'.insns[k].opc = block.code[k]
    <3>1. CASE k = i + 1
      BY <1>1, <2>1, <2>2, <2>3, <3>1
    <3>2. CASE k # i + 1
      <4>1. k \in 1..i
        BY <2>1, <3>2
      <4>2. tb.insns[k].id = k /\ tb.insns[k].opc = block.code[k] /\ k \in DOMAIN block.code
        BY <1>7, <2>1, <4>1 DEF PartOf
      <4> QED
        BY <2>2, <4>1, <4>2
    <3> QED
      BY <3>1, <3>2
  <2> QED
    BY <2>2, <2>4 DEF PartOf
<1> QED
  BY <1>6, <1>8, <1>9 DEF AllBranchesIndexed, DecodeInsn

-----------------------------------------------------------------------------
(* The passes.                                                             *)

PassesInv ==
    /\ GivenUpInv
    /\ RegularBranches(block)
    /\ AllBranchesIndexed(tb)
    /\ PartOf(tb, block.code)
    /\ \A j \in DOMAIN tb.rels : tb.rels[j].kind = block.rels[j].kind
    /\ phase # "decode" => Fresh(tb, pipehole)

LEMMA InitPassesInv == Init => PassesInv
<1> SUFFICES ASSUME Init PROVE PassesInv
  OBVIOUS
<1>1. /\ tb.insns = <<>> /\ \A c \in BranchClasses : tb.branches[c] = <<>>
      /\ tb.rels = block.rels /\ phase = "decode" /\ block \in Blocks
  BY DEF Init
<1>2. AllBranchesIndexed(tb) /\ PartOf(tb, block.code)
  BY <1>1 DEF AllBranchesIndexed, BranchIndexed, PartOf
<1> QED
  BY <1>1, <1>2, InitGivenUp, BranchesAssumption DEF PassesInv

LEMMA PassesKept ==
    ASSUME PassesInv, phase # "decode"
    PROVE  Kept(tb) /\ WellFormedBlock(block)
BY DEF PassesInv, GivenUpInv, IndInv, TypeOK, Kept

LEMMA NextPassesInv == PassesInv /\ [PassesNext]_vars => PassesInv'
<1> SUFFICES ASSUME PassesInv, [PassesNext]_vars PROVE PassesInv'
  OBVIOUS
<1>1. GivenUpInv'
  BY NextGivenUp DEF PassesInv, PassesNext, Next
<1>2. /\ RegularBranches(block')
      /\ AllBranchesIndexed(tb')
      /\ PartOf(tb', block'.code)
      /\ \A j \in DOMAIN tb'.rels : tb'.rels[j].kind = block'.rels[j].kind
      /\ phase' # "decode" => Fresh(tb', pipehole') /\ block' = block
  <2>1. CASE DecodeInsn
    <3>1. phase = "decode" /\ IndInv
      BY <2>1 DEF DecodeInsn, PassesInv, GivenUpInv
    <3>2. /\ AllBranchesIndexed(tb') /\ PartOf(tb', block.code)
          /\ tb'.rels = tb.rels /\ UNCHANGED <<block, phase, pipehole, added>>
      BY <2>1, <3>1, DecodeKeepsIndexed DEF PassesInv
    <3> QED
      BY <3>1, <3>2 DEF PassesInv
  <2>2. CASE DecodeDone
    <3>1. tb' = tb /\ block' = block /\ pipehole' = PipeholeOptAvailable(tb)
      BY <2>2 DEF DecodeDone
    <3>2. Fresh(tb', pipehole')
      BY <3>1 DEF Fresh
    <3> QED
      BY <3>1, <3>2 DEF PassesInv
  <2>3. CASE Delete
    <3>1. phase # "decode"
      BY <2>3 DEF Delete, DeleteInsn, DeleteInsnWithRel, DeleteRel
    <3>2. /\ Kept(tb') /\ Fresh(tb', pipehole)
          /\ UNCHANGED <<block, phase, pipehole, added>>
      BY <2>3, <3>1, PassesKept, DeleteFresh DEF PassesInv
    <3> QED
      BY <3>2 DEF Kept, PassesInv
  <2>4. CASE UNCHANGED vars
    BY <2>4 DEF vars, PassesInv
  <2> QED
    BY <2>1, <2>2, <2>3, <2>4 DEF PassesNext, Load
<1>3. AllBranchesIndexed(tb)' /\ RegularBranches(block)' /\ PartOf(tb, block.code)'
  BY <1>2 DEF AllBranchesIndexed, BranchIndexed, RegularBranches, PartOf
<1>4. (phase # "decode" => Fresh(tb, pipehole))'
  BY <1>2 DEF Fresh, BranchesThere, PipeholeOptAvailable
<1> QED
  BY <1>1, <1>2, <1>3, <1>4 DEF PassesInv

(* Whatever the passes delete, the three vectors list exactly the branches *)
(* of the list, in its order.                                              *)
THEOREM BranchesAlwaysIndexed == PassesSpec => []BranchesIndexed
<1>1. PassesSpec => []PassesInv
  BY InitPassesInv, NextPassesInv, PTL DEF PassesSpec
<1>2. PassesInv => BranchesIndexed
  BY DEF PassesInv, BranchesIndexed
<1> QED
  BY <1>1, <1>2, PTL

(* As many branches as in the code are all the branches of the code.       *)
LEMMA CountedThere ==
    ASSUME WellFormedBlock(block), NEW t \in TBType, PartOf(t, block.code),
           BranchCount([k \in DOMAIN t.insns |-> t.insns[k].opc]) = BranchCount(block.code)
    PROVE  BranchesThere(t)
<1> DEFINE opcs == [k \in DOMAIN t.insns |-> t.insns[k].opc]
           S    == {k \in DOMAIN opcs : opcs[k] \in BranchClasses}
           C    == {k \in DOMAIN block.code : block.code[k] \in BranchClasses}
           f    == [k \in S |-> t.insns[k].id]
<1>1. Cardinality(S) = Cardinality(C)
  BY DEF BranchCount
<1>2. \A k \in S : k \in DOMAIN t.insns /\ t.insns[k].opc \in BranchClasses
  OBVIOUS
<1>3. \A k, m \in DOMAIN t.insns : t.insns[k].id = t.insns[m].id => k = m
  BY IdsDiffer
<1>4. IsFiniteSet(C)
  <2>1. C \in SUBSET (1..Len(block.code)) /\ 1 \in Int /\ Len(block.code) \in Int
    BY BlockFacts
  <2>2. IsFiniteSet(1..Len(block.code))
    BY <2>1, FS_Interval
  <2> QED
    BY <2>1, <2>2, FS_Subset
<1> HIDE DEF opcs, S
<1>5. f \in [S -> C]
  BY <1>2 DEF PartOf
<1>6. \A k, m \in S : f[k] = f[m] => k = m
  BY <1>2, <1>3
<1>7. f \in Injection(S, C)
  BY <1>5, <1>6 DEF Injection, IsInjective
<1> HIDE DEF C, f
<1>8. f \in Surjection(S, C)
  BY <1>1, <1>4, <1>7, FS_Injection
<1>9. ASSUME NEW x \in C
      PROVE  x \in IdsOf(t)
  <2>1. \E k \in S : f[k] = x
    BY <1>8, <1>9 DEF Surjection
  <2>2. \A k \in S : f[k] = t.insns[k].id
    BY DEF f
  <2> QED
    BY <1>2, <2>1, <2>2 DEF IdsOf
<1> QED
  BY <1>9 DEF BranchesThere, C

(* The flag computed after decoding tells the shape of the block for as    *)
(* long as passes delete no branch.                                        *)
THEOREM FlagStaysFresh == PassesSpec => []PipeholeFresh
<1>1. PassesSpec => []PassesInv
  BY InitPassesInv, NextPassesInv, PTL DEF PassesSpec
<1>2. PassesInv => PipeholeFresh
  <2>1. SUFFICES ASSUME PassesInv, phase = "edit",
                        BranchCount([k \in DOMAIN tb.insns |-> tb.insns[k].opc])
                            = BranchCount(block.code)
                 PROVE  pipehole = PipeholeOptAvailable(tb)
    BY DEF PipeholeFresh
  <2>2. /\ WellFormedBlock(block) /\ tb \in TBType /\ PartOf(tb, block.code)
        /\ Fresh(tb, pipehole) /\ pipehole \in BOOLEAN
    BY <2>1 DEF PassesInv, GivenUpInv, IndInv, TypeOK
  <2>3. BranchesThere(tb)
    BY <2>1, <2>2, CountedThere
  <2>4. PipeholeOptAvailable(tb) <=> pipehole
    BY <2>2, <2>3 DEF Fresh
  <2>5. PipeholeOptAvailable(tb) \in BOOLEAN
    BY DEF PipeholeOptAvailable
  <2> QED
    BY <2>2, <2>4, <2>5
<1> QED
  BY <1>1, <1>2, PTL

-----------------------------------------------------------------------------
(* Printing.                                                               *)

(* Printing moves its three cursors and nothing else.                      *)
LEMMA PrintingOnlyLooks == [PrintNext]_<<vars, pvars>> => [PassesNext]_vars
BY DEF PrintNext, PrintStep, Start, PrintRel, PrintJump, PrintInsn, Finish

LEMMA ValidFromFacts ==
    ASSUME tb \in TBType, NEW j \in 1..Len(tb.rels) + 1, NEW x, x = ValidFrom(j)
    PROVE  /\ x \in j..Len(tb.rels) + 1
           /\ x <= Len(tb.rels) => tb.rels[x].valid
           /\ \A k \in j..x - 1 : ~ tb.rels[k].valid
<1> DEFINE n     == Len(tb.rels)
           ahead == {k \in j..n : tb.rels[k].valid}
<1>1. n \in Nat /\ j \in Nat /\ j <= n + 1
  <2>1. n \in Nat
    BY LenProperties DEF TBType
  <2> QED
    BY <2>1
<1>2. CASE ahead = {}
  <2>1. x = n + 1
    BY <1>2 DEF ValidFrom
  <2>2. \A k \in j..n : ~ tb.rels[k].valid
    BY <1>2
  <2> HIDE DEF n
  <2>3. x - 1 = n /\ x \in j..n + 1 /\ ~ (x <= n)
    BY <1>1, <2>1
  <2> QED
    BY <2>2, <2>3 DEF n
<1>3. CASE ahead # {}
  <2>1. ahead \in SUBSET Nat
    BY <1>1
  <2>2. Min(ahead) \in ahead /\ \A y \in ahead : Min(ahead) <= y
    BY <1>3, <2>1, LeastNatural DEF Min
  <2>3. x = Min(ahead)
    BY <1>3 DEF ValidFrom
  <2>4. x \in j..n /\ tb.rels[x].valid /\ \A y \in j..n : tb.rels[y].valid => x <= y
    BY <2>2, <2>3
  <2> HIDE DEF n
  <2>5. ASSUME NEW k \in j..x - 1
        PROVE  ~ tb.rels[k].valid
    <3>1. k \in j..n /\ ~ (x <= k)
      BY <1>1, <2>4
    <3> QED
      BY <2>4, <3>1
  <2>6. x \in j..n + 1
    BY <1>1, <2>4
  <2> QED
    BY <2>4, <2>5, <2>6 DEF n
<1> QED
  BY <1>2, <1>3

(* The items of one kind in the output o.                                  *)
Item == [kind : Kinds, ids : Seq(Nat)]

ItemsOf(o, kind) == {o[k].ids : k \in {m \in DOMAIN o : o[m].kind = kind}}

LEMMA AppendItem ==
    ASSUME NEW o \in Seq(Item), NEW e \in Item, NEW kind
    PROVE  /\ Append(o, e) \in Seq(Item)
           /\ ItemsOf(Append(o, e), kind)
                = ItemsOf(o, kind) \cup (IF e.kind = kind THEN {e.ids} ELSE {})
<1> DEFINE n == Len(o)
           q == Append(o, e)
<1>1. /\ n \in Nat /\ DOMAIN o = 1..n /\ q \in Seq(Item) /\ Len(q) = n + 1
      /\ \A k \in 1..n : q[k] = o[k]
      /\ q[n + 1] = e
  BY LenProperties, AppendProperties
<1>2. DOMAIN q = 1..n + 1
  BY <1>1, LenProperties
<1> HIDE DEF n, q
<1>3. DOMAIN q = DOMAIN o \cup {n + 1} /\ n + 1 \notin DOMAIN o
  BY <1>1, <1>2
<1>4. ItemsOf(q, kind) = ItemsOf(o, kind) \cup (IF e.kind = kind THEN {e.ids} ELSE {})
  BY <1>1, <1>3 DEF ItemsOf
<1> QED
  BY <1>1, <1>4 DEF q

(* The jumps are in the block, as JumpsShown supposes.                     *)
JumpsThere == \A d \in Jumps : tb.linked[d] => InBlock(block.target[d] + 1)

(* What is shown when the walk is at index n and at relocation r: the      *)
(* valid relocations before r, which are passed, and the jumps before n.   *)
RelsAt(n, r) ==
    \A j \in DOMAIN tb.rels : tb.rels[j].valid =>
        /\ j < r => tb.rels[j].off + tb.rels[j].slots <= n
        /\ ~ (j < r) => n <= tb.rels[j].off

RelItems(r) == {Emitted(j) : j \in {k \in DOMAIN tb.rels : tb.rels[k].valid /\ k < r}}

JumpItems(d, n) ==
    IF tb.linked[d] /\ tb.target[d] < n THEN {<<block.target[d] + 1>>} ELSE {}

Walked(o, n, r) ==
    /\ o \in Seq(Item) /\ n \in 0..Len(tb.insns) /\ r \in 1..Len(tb.rels) + 1
    /\ RelsInOrder => RelsAt(n, r) /\ ItemsOf(o, "rel") = RelItems(r)
    /\ JumpsThere => /\ ItemsOf(o, "false_branch") = JumpItems(0, n)
                     /\ ItemsOf(o, "true_branch") = JumpItems(1, n)

PrintInv ==
    /\ PassesInv
    /\ job \in {"none", "printing", "printed"}
    /\ job = "none" => next = 0 /\ out = <<>>
    /\ job # "none" =>
        /\ phase = "edit"
        /\ rel_cur <= Len(tb.rels) => tb.rels[rel_cur].valid
        /\ Walked(out, next, rel_cur)
    /\ job = "printed" => next = Len(tb.insns)

LEMMA InitPrintInv == PrintInit => PrintInv
BY InitPassesInv DEF PrintInit, PrintInv

(* Printing does not touch the block.                                      *)
LEMMA WalkedAfter ==
    ASSUME UNCHANGED <<tb, block>>, Walked(out', next', rel_cur')
    PROVE  Walked(out, next, rel_cur)'
<1> DEFINE o == out'  n == next'  r == rel_cur'
<1>1. RelsInOrder' <=> RelsInOrder
  BY DEF RelsInOrder
<1>2. RelsAt(next, rel_cur)' <=> RelsAt(n, r)
  BY DEF RelsAt
<1>3. \A k \in Kinds : ItemsOf(out, k)' = ItemsOf(o, k)
  BY DEF ItemsOf
<1>4. RelItems(rel_cur)' = RelItems(r)
  <2>1. \A j : Emitted(j)' = Emitted(j)
    BY DEF Emitted
  <2> QED
    BY <2>1 DEF RelItems
<1>5. \A d \in Jumps : JumpItems(d, next)' = JumpItems(d, n)
  BY DEF JumpItems
<1>6. JumpsThere' <=> JumpsThere
  BY DEF JumpsThere, InBlock, InRel, ValidAt, Covers
<1>7. ItemsOf(out, "rel")' = ItemsOf(o, "rel")
  BY <1>3 DEF Kinds
<1>8. /\ ItemsOf(out, "false_branch")' = ItemsOf(o, "false_branch")
      /\ ItemsOf(out, "true_branch")' = ItemsOf(o, "true_branch")
  BY <1>3 DEF Kinds
<1>9. JumpItems(0, next)' = JumpItems(0, n) /\ JumpItems(1, next)' = JumpItems(1, n)
  BY <1>5 DEF Jumps
<1> QED
  BY <1>1, <1>2, <1>4, <1>6, <1>7, <1>8, <1>9 DEF Walked

LEMMA EditFacts ==
    ASSUME PassesInv, phase = "edit"
    PROVE  /\ tb \in TBType /\ Sound(tb) /\ PartOf(tb, block.code) /\ WellFormedBlock(block)
           /\ Len(tb.insns) \in Nat /\ DOMAIN tb.insns = 1..Len(tb.insns)
           /\ Len(tb.rels) \in Nat /\ DOMAIN tb.rels = 1..Len(tb.rels)
           /\ DOMAIN tb.rels = DOMAIN block.rels
           /\ tb.linked = block.linked
           /\ \A k \in DOMAIN tb.insns : tb.insns[k].id \in Nat
<1>1. /\ tb \in TBType /\ Sound(tb) /\ PartOf(tb, block.code) /\ WellFormedBlock(block)
  BY PassesKept DEF Kept, Sound, Loaded
<1>2. \A k \in DOMAIN tb.insns : tb.insns[k].id \in Nat
  BY <1>1, BlockFacts DEF PartOf
<1> QED
  BY <1>1, <1>2, IndexFacts, LenProperties DEF TBType, Sound, Loaded

(* Deletions have left the relocations of a block in its order.            *)
LEMMA RelsInRow ==
    ASSUME PassesInv, phase = "edit", RelsInOrder,
           NEW j \in DOMAIN tb.rels, NEW k \in DOMAIN tb.rels, j < k,
           tb.rels[j].valid, tb.rels[k].valid
    PROVE  tb.rels[j].off + tb.rels[j].slots <= tb.rels[k].off
<1>1. /\ tb \in TBType /\ Sound(tb) /\ PartOf(tb, block.code) /\ WellFormedBlock(block)
      /\ DOMAIN tb.insns = 1..Len(tb.insns) /\ Len(tb.insns) \in Nat
      /\ DOMAIN tb.rels = DOMAIN block.rels /\ DOMAIN tb.rels = 1..Len(tb.rels)
  BY EditFacts
<1>2. ASSUME NEW m \in DOMAIN tb.rels, tb.rels[m].valid
      PROVE  /\ tb.rels[m].off \in Nat /\ tb.rels[m].slots \in Nat \ {0}
             /\ block.rels[m].off \in Nat
             /\ tb.rels[m].off + 1 \in DOMAIN tb.insns
             /\ tb.insns[tb.rels[m].off + 1].id = block.rels[m].off + 1
  <2>1. RelAnchored(tb, m)
    BY <1>1, <1>2 DEF Sound, AllRelsAnchored
  <2>2. /\ tb.rels[m].off \in Nat /\ tb.rels[m].slots \in Nat \ {0}
        /\ block.rels[m].off \in Nat
    BY <1>1, RelFacts, BlockFacts
  <2>3. tb.rels[m].off + 1 \in DOMAIN tb.insns /\ 0 \in 0..tb.rels[m].slots - 1
    <3>1. tb.rels[m].off + tb.rels[m].slots <= Len(tb.insns)
      BY <2>1 DEF RelAnchored
    <3>2. \A x \in Nat, y \in Nat \ {0}, z \in Nat :
            x + y <= z => x + 1 \in 1..z /\ 0 \in 0..y - 1
      OBVIOUS
    <3> QED
      BY <1>1, <2>2, <3>1, <3>2
  <2>4. tb.insns[tb.rels[m].off + 0 + 1].id = block.rels[m].off + 0 + 1
    BY <2>1, <2>3 DEF RelAnchored
  <2>5. \A x \in Nat : x + 0 + 1 = x + 1
    OBVIOUS
  <2>6. /\ tb.rels[m].off + 0 + 1 = tb.rels[m].off + 1
        /\ block.rels[m].off + 0 + 1 = block.rels[m].off + 1
    BY <2>2, <2>5
  <2> QED
    BY <2>2, <2>3, <2>4, <2>6
<1>3. block.rels[j].off < block.rels[k].off
  BY <1>1 DEF RelsInOrder
<1>4. tb.insns[tb.rels[j].off + 1].id < tb.insns[tb.rels[k].off + 1].id
  BY <1>2, <1>3
<1>5. tb.rels[j].off + 1 < tb.rels[k].off + 1
  BY <1>1, <1>2, <1>4, IdsDiffer
<1>6. Disjoint(tb.rels[j], tb.rels[k])
  <2>1. j # k
    BY <1>1
  <2> QED
    BY <1>1, <2>1 DEF Sound, RelsDisjoint
<1> QED
  BY <1>2, <1>5, <1>6 DEF Disjoint

(* A valid relocation is over the instructions it was emitted for.         *)
LEMMA RelInPlace ==
    ASSUME PassesInv, phase = "edit", NEW j \in DOMAIN tb.rels, tb.rels[j].valid
    PROVE  /\ tb.rels[j].off \in Nat /\ tb.rels[j].slots \in Nat \ {0}
           /\ tb.rels[j].off + tb.rels[j].slots <= Len(tb.insns)
           /\ [k \in 1..tb.rels[j].slots |-> tb.insns[tb.rels[j].off + k].id] = Emitted(j)
<1>1. tb \in TBType /\ Sound(tb) /\ WellFormedBlock(block) /\ DOMAIN tb.rels = DOMAIN block.rels
  BY EditFacts
<1>2. RelAnchored(tb, j)
  BY <1>1 DEF Sound, AllRelsAnchored
<1>3. /\ tb.rels[j].off \in Nat /\ tb.rels[j].slots \in Nat \ {0}
      /\ block.rels[j].off \in Nat
      /\ tb.rels[j].slots = block.rels[j].slots
      /\ tb.rels[j].off + tb.rels[j].slots <= Len(tb.insns)
  BY <1>1, <1>2, RelFacts, BlockFacts DEF RelAnchored
<1>4. ASSUME NEW k \in 1..tb.rels[j].slots
      PROVE  tb.insns[tb.rels[j].off + k].id = block.rels[j].off + k
  <2>1. k \in Nat /\ k - 1 \in 0..tb.rels[j].slots - 1
    BY <1>3
  <2>2. tb.insns[tb.rels[j].off + (k - 1) + 1].id = block.rels[j].off + (k - 1) + 1
    BY <1>2, <2>1 DEF RelAnchored
  <2>3. \A x, y \in Nat : x + (y - 1) + 1 = x + y
    OBVIOUS
  <2>4. /\ tb.rels[j].off + (k - 1) + 1 = tb.rels[j].off + k
        /\ block.rels[j].off + (k - 1) + 1 = block.rels[j].off + k
    BY <1>3, <2>1, <2>3
  <2> QED
    BY <2>2, <2>4
<1>5. [k \in 1..tb.rels[j].slots |-> tb.insns[tb.rels[j].off + k].id]
        = [k \in 1..tb.rels[j].slots |-> block.rels[j].off + k]
  BY <1>4
<1> QED
  BY <1>3, <1>5 DEF Emitted

(* A jump that is in the block is where the block says, outside relocations. *)
LEMMA JumpInPlace ==
    ASSUME PassesInv, phase = "edit", JumpsThere, NEW d \in Jumps, tb.linked[d]
    PROVE  /\ tb.target[d] \in Nat /\ tb.target[d] < Len(tb.insns)
           /\ tb.insns[tb.target[d] + 1].id = block.target[d] + 1
           /\ ~ InRel(tb, tb.target[d])
<1>1. /\ tb \in TBType /\ Sound(tb)
      /\ Len(tb.insns) \in Nat /\ DOMAIN tb.insns = 1..Len(tb.insns)
  BY EditFacts
<1>2. PICK k \in DOMAIN tb.insns : tb.insns[k].id = block.target[d] + 1 /\ ~ InRel(tb, k - 1)
  BY DEF JumpsThere, InBlock
<1>3. tb.target[d] = k - 1
  BY <1>1, <1>2 DEF Sound, AllTargetsAnchored
<1>4. k - 1 \in Nat /\ k - 1 < Len(tb.insns) /\ (k - 1) + 1 = k
  BY <1>1
<1> QED
  BY <1>2, <1>3, <1>4

LEMMA JumpsApart ==
    ASSUME PassesInv, phase = "edit", JumpsThere,
           NEW d \in Jumps, NEW e \in Jumps, d # e, tb.linked[d], tb.linked[e]
    PROVE  tb.target[d] # tb.target[e]
<1>1. /\ tb.insns[tb.target[d] + 1].id = block.target[d] + 1
      /\ tb.insns[tb.target[e] + 1].id = block.target[e] + 1
  BY JumpInPlace
<1>2. WellFormedBlock(block) /\ tb.linked = block.linked /\ RegularBranches(block)
  BY EditFacts DEF PassesInv
<1>3. block.target[d] # block.target[e]
  BY <1>2 DEF RegularBranches, Jumps
<1>4. block.target[d] \in Nat /\ block.target[e] \in Nat
  BY <1>2, BlockFacts
<1>5. block.target[d] + 1 # block.target[e] + 1
  BY <1>3, <1>4
<1> QED
  BY <1>1, <1>5

OneMoreShown(kind, ids) ==
    \A any : ItemsOf(out', any) = ItemsOf(out, any) \cup (IF kind = any THEN {ids} ELSE {})

(* One more item is shown and the walk is behind its instructions.         *)
LEMMA EmitFacts ==
    ASSUME PassesInv, phase = "edit", Walked(out, next, rel_cur),
           NEW kind \in Kinds, NEW count \in Nat \ {0}, Emit(kind, count),
           next + count <= Len(tb.insns),
           NEW ids, ids = [k \in 1..count |-> tb.insns[next + k].id]
    PROVE  /\ out' \in Seq(Item) /\ next' = next + count /\ next' \in 0..Len(tb.insns)
           /\ OneMoreShown(kind, ids)
<1> DEFINE item == [kind |-> kind, ids |-> ids]
<1>1. /\ Len(tb.insns) \in Nat /\ DOMAIN tb.insns = 1..Len(tb.insns)
      /\ \A k \in DOMAIN tb.insns : tb.insns[k].id \in Nat
  BY EditFacts
<1>2. next \in Nat /\ out \in Seq(Item)
  BY <1>1 DEF Walked
<1>3. ids \in [1..count -> Nat]
  <2>1. \A k \in 1..count : next + k \in DOMAIN tb.insns
    BY <1>1, <1>2
  <2> QED
    BY <1>1, <2>1
<1>4. ids \in Seq(Nat)
  BY <1>3, FcnIsSeq
<1>5. item \in Item /\ item.kind = kind /\ item.ids = ids
  BY <1>4 DEF Item
<1>6. out' = Append(out, item) /\ next' = next + count
  BY DEF Emit
<1> HIDE DEF item
<1>7. /\ out' \in Seq(Item)
      /\ OneMoreShown(kind, ids)
  <2>1. Append(out, item) \in Seq(Item)
    BY <1>2, <1>5, AppendItem
  <2>2. ASSUME NEW any
        PROVE  ItemsOf(Append(out, item), any)
                 = ItemsOf(out, any) \cup (IF item.kind = any THEN {item.ids} ELSE {})
    BY <1>2, <1>5, AppendItem
  <2> QED
    BY <1>5, <1>6, <2>1, <2>2 DEF OneMoreShown
<1>8. next + count \in 0..Len(tb.insns)
  BY <1>1, <1>2
<1> QED
  BY <1>6, <1>7, <1>8

(* Behind an item of one instruction outside relocations, the relocation   *)
(* to come is still to come.                                               *)
LEMMA RelsAtNext ==
    ASSUME PassesInv, phase = "edit", RelsInOrder, NEW n \in Nat,
           NEW r \in 1..Len(tb.rels) + 1, RelsAt(n, r),
           r <= Len(tb.rels) => tb.rels[r].valid /\ n # tb.rels[r].off
    PROVE  RelsAt(n + 1, r)
<1>1. Len(tb.rels) \in Nat /\ DOMAIN tb.rels = 1..Len(tb.rels)
  BY EditFacts
<1>2. SUFFICES ASSUME NEW j \in DOMAIN tb.rels, tb.rels[j].valid
               PROVE  /\ j < r => tb.rels[j].off + tb.rels[j].slots <= n + 1
                      /\ ~ (j < r) => n + 1 <= tb.rels[j].off
  BY DEF RelsAt
<1>3. tb.rels[j].off \in Nat /\ tb.rels[j].slots \in Nat \ {0}
  BY <1>2, RelInPlace
<1>4. /\ j < r => tb.rels[j].off + tb.rels[j].slots <= n
      /\ ~ (j < r) => n <= tb.rels[j].off
  BY <1>2 DEF RelsAt
<1>5. CASE j < r
  BY <1>3, <1>4, <1>5
<1>6. CASE ~ (j < r)
  <2>1. r \in DOMAIN tb.rels /\ r <= Len(tb.rels) /\ (r = j \/ r < j)
    BY <1>1, <1>6
  <2>2. tb.rels[r].valid /\ n # tb.rels[r].off /\ n <= tb.rels[r].off
    <3>1. ~ (r < r)
      BY <1>1
    <3> QED
      BY <2>1, <3>1 DEF RelsAt
  <2>3. tb.rels[r].off \in Nat /\ tb.rels[r].slots \in Nat \ {0}
    BY <2>1, <2>2, RelInPlace
  <2>4. r < j => tb.rels[r].off + tb.rels[r].slots <= tb.rels[j].off
    BY <1>2, <2>1, <2>2, RelsInRow
  <2>5. n + 1 <= tb.rels[r].off
    BY <2>2, <2>3
  <2>6. n + 1 <= tb.rels[j].off
    BY <1>3, <2>1, <2>3, <2>4, <2>5
  <2> QED
    BY <1>6, <2>6
<1> QED
  BY <1>5, <1>6

LEMMA JumpsBehind ==
    ASSUME PassesInv, phase = "edit", JumpsThere, NEW d \in Jumps,
           NEW n \in Nat, NEW m \in Nat, n <= m,
           tb.linked[d] => ~ (n <= tb.target[d] /\ tb.target[d] < m)
    PROVE  JumpItems(d, m) = JumpItems(d, n)
<1>1. tb.linked[d] => (tb.target[d] < m <=> tb.target[d] < n)
  <2>1. tb.linked[d] => tb.target[d] \in Nat
    BY JumpInPlace
  <2> QED
    BY <2>1
<1> QED
  BY <1>1 DEF JumpItems

(* A whole relocation is shown and the walk goes to the next valid one.    *)
LEMMA RelWalked ==
    ASSUME PassesInv, phase = "edit", Walked(out, next, rel_cur), More, AtRel,
           tb.rels[rel_cur].valid, Emit("rel", tb.rels[rel_cur].slots),
           rel_cur' = ValidFrom(rel_cur + 1)
    PROVE  /\ Walked(out', next', rel_cur')
           /\ rel_cur' <= Len(tb.rels) => tb.rels[rel_cur'].valid
<1> DEFINE r     == rel_cur
           off   == tb.rels[r].off
           slots == tb.rels[r].slots
           ids   == [k \in 1..slots |-> tb.insns[next + k].id]
<1>1. /\ tb \in TBType
      /\ Len(tb.rels) \in Nat /\ DOMAIN tb.rels = 1..Len(tb.rels)
      /\ Len(tb.insns) \in Nat
  BY EditFacts
<1>2. r \in DOMAIN tb.rels /\ r + 1 \in 1..Len(tb.rels) + 1 /\ next = off
  BY <1>1 DEF AtRel, Walked
<1>3. off \in Nat /\ slots \in Nat \ {0} /\ off + slots <= Len(tb.insns) /\ ids = Emitted(r)
  BY <1>2, RelInPlace
<1>4. /\ r' \in r + 1..Len(tb.rels) + 1
      /\ r' <= Len(tb.rels) => tb.rels[r'].valid
      /\ \A k \in r + 1..r' - 1 : ~ tb.rels[k].valid
  BY <1>1, <1>2, ValidFromFacts
<1>5. r' \in 1..Len(tb.rels) + 1
  BY <1>1, <1>2, <1>4
<1>6. "rel" \in Kinds /\ next + slots <= Len(tb.insns)
  BY <1>2, <1>3 DEF Kinds
<1>7. /\ out' \in Seq(Item) /\ next' = next + slots /\ next' \in 0..Len(tb.insns)
      /\ OneMoreShown("rel", ids)
  BY <1>3, <1>6, EmitFacts
<1> HIDE DEF ids
<1>8. ASSUME RelsInOrder
      PROVE  RelsAt(next', r') /\ ItemsOf(out', "rel") = RelItems(r')
  <2>1. RelsAt(next, r) /\ ItemsOf(out, "rel") = RelItems(r)
    BY <1>8 DEF Walked
  <2>2. ASSUME NEW j \in DOMAIN tb.rels, tb.rels[j].valid
        PROVE  (j < r' <=> (j < r \/ j = r)) /\ (~ (j < r') => r < j)
    BY <1>1, <1>2, <1>4, <2>2, SMTT(30)
  <2>3. ASSUME NEW j \in DOMAIN tb.rels, tb.rels[j].valid
        PROVE  /\ j < r' => tb.rels[j].off + tb.rels[j].slots <= next'
               /\ ~ (j < r') => next' <= tb.rels[j].off
    <3>1. tb.rels[j].off \in Nat /\ tb.rels[j].slots \in Nat \ {0}
      BY <2>3, RelInPlace
    <3>2. CASE j < r
      <4>1. tb.rels[j].off + tb.rels[j].slots <= next
        BY <2>1, <2>3, <3>2 DEF RelsAt
      <4> QED
        BY <1>2, <1>3, <1>7, <2>2, <2>3, <3>1, <3>2, <4>1, SMTT(30)
    <3>3. CASE j = r
      BY <1>2, <1>3, <1>7, <2>2, <2>3, <3>3
    <3>4. CASE ~ (j < r')
      <4>1. r < j
        BY <2>2, <2>3, <3>4
      <4>2. off + slots <= tb.rels[j].off
        BY <1>2, <1>8, <2>3, <4>1, RelsInRow
      <4> QED
        BY <1>2, <1>7, <3>4, <4>2
    <3> QED
      BY <2>2, <2>3, <3>2, <3>3, <3>4
  <2>4. RelItems(r') = RelItems(r) \cup {Emitted(r)}
    <3>1. {k \in DOMAIN tb.rels : tb.rels[k].valid /\ k < r'}
            = {k \in DOMAIN tb.rels : tb.rels[k].valid /\ k < r} \cup {r}
      BY <1>2, <2>2
    <3> HIDE DEF r
    <3> QED
      BY <3>1 DEF RelItems
  <2> QED
    BY <1>3, <1>7, <2>1, <2>3, <2>4 DEF RelsAt, OneMoreShown
<1>9. ASSUME JumpsThere, NEW d \in Jumps
      PROVE  JumpItems(d, next') = JumpItems(d, next)
  <2>1. ASSUME tb.linked[d]
        PROVE  ~ (next <= tb.target[d] /\ tb.target[d] < next')
    BY <1>2, <1>7, <1>9, <2>1, JumpInPlace DEF InRel, ValidAt, Covers
  <2>2. next \in Nat /\ next' \in Nat /\ next <= next'
    BY <1>2, <1>3, <1>7
  <2> QED
    BY <1>9, <2>1, <2>2, JumpsBehind
<1>10. /\ ItemsOf(out', "false_branch") = ItemsOf(out, "false_branch")
       /\ ItemsOf(out', "true_branch") = ItemsOf(out, "true_branch")
  BY <1>7 DEF OneMoreShown
<1>11. JumpsThere => /\ ItemsOf(out', "false_branch") = JumpItems(0, next')
                     /\ ItemsOf(out', "true_branch") = JumpItems(1, next')
  BY <1>9, <1>10 DEF Walked, Jumps
<1> QED
  BY <1>4, <1>5, <1>7, <1>8, <1>11 DEF Walked

(* One instruction outside relocations is shown.                           *)
LEMMA OneWalked ==
    ASSUME PassesInv, phase = "edit", Walked(out, next, rel_cur), More, ~ AtRel,
           rel_cur <= Len(tb.rels) => tb.rels[rel_cur].valid,
           NEW kind \in Kinds \ {"rel"}, Emit(kind, 1), UNCHANGED rel_cur,
           NEW d \in Jumps \cup {2},
           kind = (IF d = 0 THEN "false_branch" ELSE IF d = 1 THEN "true_branch" ELSE "insn"),
           d \in Jumps => AtJump(d),
           d = 2 => \A e \in Jumps : ~ AtJump(e)
    PROVE  Walked(out', next', rel_cur')
<1> DEFINE ids == [k \in 1..1 |-> tb.insns[next + k].id]
<1>1. /\ Len(tb.rels) \in Nat /\ DOMAIN tb.rels = 1..Len(tb.rels)
      /\ Len(tb.insns) \in Nat
  BY EditFacts
<1>2. next \in Nat /\ next + 1 <= Len(tb.insns) /\ 1 \in Nat \ {0}
  BY <1>1 DEF Walked, More
<1>3. kind \in Kinds /\ ids = [k \in 1..1 |-> tb.insns[next + k].id]
  OBVIOUS
<1> HIDE DEF ids
<1>4. /\ out' \in Seq(Item) /\ next' = next + 1 /\ next' \in 0..Len(tb.insns)
      /\ OneMoreShown(kind, ids)
  BY <1>2, <1>3, EmitFacts
<1>5. ASSUME RelsInOrder
      PROVE  RelsAt(next', rel_cur) /\ ItemsOf(out', "rel") = RelItems(rel_cur)
  <2>1. RelsAt(next, rel_cur) /\ ItemsOf(out, "rel") = RelItems(rel_cur)
    BY <1>5 DEF Walked
  <2>2. rel_cur \in 1..Len(tb.rels) + 1
    BY DEF Walked
  <2>3. rel_cur <= Len(tb.rels) => next # tb.rels[rel_cur].off
    BY DEF AtRel
  <2>4. RelsAt(next + 1, rel_cur)
    BY <1>2, <1>5, <2>1, <2>2, <2>3, RelsAtNext
  <2> QED
    BY <1>4, <2>1, <2>4 DEF OneMoreShown
<1>6. ASSUME JumpsThere, NEW e \in Jumps, e # d
      PROVE  JumpItems(e, next') = JumpItems(e, next)
  <2>1. ASSUME tb.linked[e]
        PROVE  tb.target[e] # next /\ tb.target[e] \in Nat
    <3>1. CASE d = 2
      BY <1>6, <2>1, <3>1, JumpInPlace DEF AtJump
    <3>2. CASE d \in Jumps
      BY <1>6, <2>1, <3>2, JumpInPlace, JumpsApart DEF AtJump
    <3> QED
      BY <3>1, <3>2
  <2>2. tb.linked[e] => ~ (next <= tb.target[e] /\ tb.target[e] < next + 1)
    BY <1>2, <2>1
  <2>3. next + 1 \in Nat /\ next <= next + 1
    BY <1>2
  <2>4. JumpItems(e, next + 1) = JumpItems(e, next)
    BY <1>2, <1>6, <2>2, <2>3, JumpsBehind
  <2> QED
    BY <1>4, <2>4
<1>7. ASSUME JumpsThere, d \in Jumps
      PROVE  JumpItems(d, next) = {} /\ JumpItems(d, next') = {ids}
  <2>1. tb.linked[d] /\ tb.target[d] = next /\ tb.insns[next + 1].id = block.target[d] + 1
    BY <1>7, JumpInPlace DEF AtJump
  <2>2. ~ (tb.target[d] < next) /\ tb.target[d] < next'
    BY <1>2, <1>4, <2>1
  <2>3. ids = <<block.target[d] + 1>>
    <3> DEFINE x == block.target[d] + 1
    <3>1. ids = [k \in 1..1 |-> x]
      BY <1>3, <2>1
    <3> HIDE DEF x
    <3>2. [k \in 1..1 |-> x] = <<x>>
      OBVIOUS
    <3> QED
      BY <3>1, <3>2 DEF x
  <2> QED
    BY <2>1, <2>2, <2>3 DEF JumpItems
<1>8. ASSUME JumpsThere
      PROVE  /\ ItemsOf(out', "false_branch") = JumpItems(0, next')
             /\ ItemsOf(out', "true_branch") = JumpItems(1, next')
  <2>1. /\ ItemsOf(out, "false_branch") = JumpItems(0, next)
        /\ ItemsOf(out, "true_branch") = JumpItems(1, next)
    BY <1>8 DEF Walked
  <2>2. 0 \in Jumps /\ 1 \in Jumps /\ 2 \notin Jumps
    BY DEF Jumps
  <2>3. CASE d = 0
    <3>1. /\ kind = "false_branch" /\ JumpItems(0, next) = {} /\ JumpItems(0, next') = {ids}
          /\ JumpItems(1, next') = JumpItems(1, next)
      BY <1>6, <1>7, <1>8, <2>2, <2>3
    <3>2. /\ ItemsOf(out', "false_branch") = ItemsOf(out, "false_branch") \cup {ids}
          /\ ItemsOf(out', "true_branch") = ItemsOf(out, "true_branch")
      BY <1>4, <3>1 DEF OneMoreShown
    <3> QED
      BY <2>1, <3>1, <3>2
  <2>4. CASE d = 1
    <3>1. /\ kind = "true_branch" /\ JumpItems(1, next) = {} /\ JumpItems(1, next') = {ids}
          /\ JumpItems(0, next') = JumpItems(0, next)
      BY <1>6, <1>7, <1>8, <2>2, <2>4
    <3>2. /\ ItemsOf(out', "true_branch") = ItemsOf(out, "true_branch") \cup {ids}
          /\ ItemsOf(out', "false_branch") = ItemsOf(out, "false_branch")
      BY <1>4, <3>1 DEF OneMoreShown
    <3> QED
      BY <2>1, <3>1, <3>2
  <2>5. CASE d = 2
    BY <1>4, <1>6, <1>8, <2>1, <2>2, <2>5, ZenonT(40) DEF OneMoreShown
  <2> QED
    BY <2>3, <2>4, <2>5 DEF Jumps
<1> QED
  BY <1>4, <1>5, <1>8 DEF Walked

(* The walk starts with nothing shown, at the first valid relocation.      *)
LEMMA StartWalked ==
    ASSUME PassesInv, phase = "edit", NEW r, r = ValidFrom(1)
    PROVE  Walked(<<>>, 0, r) /\ (r <= Len(tb.rels) => tb.rels[r].valid)
<1>1. /\ tb \in TBType
      /\ Len(tb.rels) \in Nat /\ DOMAIN tb.rels = 1..Len(tb.rels)
      /\ Len(tb.insns) \in Nat
  BY EditFacts
<1>2. /\ r \in 1..Len(tb.rels) + 1
      /\ r <= Len(tb.rels) => tb.rels[r].valid
      /\ \A k \in 1..r - 1 : ~ tb.rels[k].valid
  <2>1. 1 \in 1..Len(tb.rels) + 1
    BY <1>1
  <2> QED
    BY <1>1, <2>1, ValidFromFacts
<1>3. ASSUME NEW j \in DOMAIN tb.rels, tb.rels[j].valid
      PROVE  ~ (j < r) /\ 0 <= tb.rels[j].off
  <2>1. tb.rels[j].off \in Nat
    BY <1>3, RelInPlace
  <2>2. j < r => j \in 1..r - 1
    BY <1>1, <1>2
  <2> QED
    BY <1>2, <1>3, <2>1, <2>2
<1>4. RelsAt(0, r) /\ RelItems(r) = {}
  BY <1>3 DEF RelsAt, RelItems
<1>5. <<>> \in Seq(Item) /\ \A kind : ItemsOf(<<>>, kind) = {}
  BY EmptySeq DEF ItemsOf
<1>6. ASSUME JumpsThere, NEW d \in Jumps
      PROVE  JumpItems(d, 0) = {}
  <2>1. tb.linked[d] => tb.target[d] \in Nat
    BY <1>6, JumpInPlace
  <2>2. ~ (tb.linked[d] /\ tb.target[d] < 0)
    BY <2>1
  <2> QED
    BY <2>2 DEF JumpItems
<1>7. 0 \in 0..Len(tb.insns) /\ 0 \in Jumps /\ 1 \in Jumps
  BY <1>1 DEF Jumps
<1> QED
  BY <1>2, <1>4, <1>5, <1>6, <1>7 DEF Walked

LEMMA NextPrintInv == PrintInv /\ [PrintNext]_<<vars, pvars>> => PrintInv'
<1> SUFFICES ASSUME PrintInv, [PrintNext]_<<vars, pvars>> PROVE PrintInv'
  OBVIOUS
<1>1. PassesInv' /\ PassesInv
  BY PrintingOnlyLooks, NextPassesInv DEF PrintInv
<1>2. ASSUME UNCHANGED vars, phase = "edit", job' \in {"printing", "printed"},
             Walked(out', next', rel_cur'),
             rel_cur' <= Len(tb.rels) => tb.rels[rel_cur'].valid,
             job' = "printed" => next' = Len(tb.insns)
      PROVE  PrintInv'
  <2>1. UNCHANGED <<tb, block, phase>>
    BY <1>2 DEF vars
  <2>2. Walked(out, next, rel_cur)'
    BY <1>2, <2>1, WalkedAfter
  <2> QED
    BY <1>1, <1>2, <2>1, <2>2 DEF PrintInv
<1>3. CASE job = "none" /\ PassesNext /\ UNCHANGED pvars
  BY <1>1, <1>3 DEF PrintInv, pvars
<1>4. CASE Start
  <2>1. next = 0 /\ out = <<>>
    BY <1>4 DEF PrintInv, Start
  <2>2. UNCHANGED <<vars, next, out>> /\ phase = "edit" /\ job' = "printing"
        /\ rel_cur' = ValidFrom(1)
    BY <1>4 DEF Start
  <2>3. /\ Walked(<<>>, 0, rel_cur')
        /\ rel_cur' <= Len(tb.rels) => tb.rels[rel_cur'].valid
    BY <1>1, <2>2, StartWalked
  <2> QED
    BY <1>2, <2>1, <2>2, <2>3
<1>5. ASSUME job = "printing"
      PROVE  /\ phase = "edit" /\ Walked(out, next, rel_cur)
             /\ rel_cur <= Len(tb.rels) => tb.rels[rel_cur].valid
  BY <1>5 DEF PrintInv
<1>6. CASE PrintRel
  <2>1. job = "printing" /\ More /\ AtRel /\ UNCHANGED vars
    BY <1>6 DEF PrintRel, More
  <2>2. tb.rels[rel_cur].valid /\ next = tb.rels[rel_cur].off
    BY <1>5, <2>1 DEF AtRel
  <2>3. rel_cur \in DOMAIN tb.rels
    BY <1>1, <1>5, <2>1, EditFacts DEF Walked, AtRel
  <2>4. ~ (next + tb.rels[rel_cur].slots > Len(tb.insns))
    <3>1. /\ tb.rels[rel_cur].off \in Nat /\ tb.rels[rel_cur].slots \in Nat
          /\ tb.rels[rel_cur].off + tb.rels[rel_cur].slots <= Len(tb.insns)
          /\ Len(tb.insns) \in Nat
      BY <1>1, <1>5, <2>1, <2>2, <2>3, RelInPlace, EditFacts
    <3>2. \A x, y, z \in Nat : x + y <= z => ~ (x + y > z)
      OBVIOUS
    <3> QED
      BY <2>2, <3>1, <3>2
  <2>5. /\ Emit("rel", tb.rels[rel_cur].slots)
        /\ job' = job /\ rel_cur' = ValidFrom(rel_cur + 1)
    BY <1>6, <2>4 DEF PrintRel
  <2>6. /\ Walked(out', next', rel_cur')
        /\ rel_cur' <= Len(tb.rels) => tb.rels[rel_cur'].valid
    BY <1>1, <1>5, <2>1, <2>2, <2>5, RelWalked
  <2> QED
    BY <1>2, <1>5, <2>1, <2>5, <2>6
<1>7. ASSUME NEW d \in Jumps, PrintJump(d)
      PROVE  PrintInv'
  <2> DEFINE kind == IF d = 1 THEN "true_branch" ELSE "false_branch"
  <2>1. /\ job = "printing" /\ More /\ ~ AtRel /\ AtJump(d) /\ UNCHANGED vars
        /\ Emit(kind, 1) /\ job' = job /\ UNCHANGED rel_cur
    BY <1>7 DEF PrintJump, More
  <2>2. /\ kind \in Kinds \ {"rel"} /\ d \in Jumps \cup {2} /\ d # 2
        /\ kind = (IF d = 0 THEN "false_branch" ELSE IF d = 1 THEN "true_branch" ELSE "insn")
    BY DEF Jumps, Kinds
  <2> HIDE DEF kind
  <2>3. Walked(out', next', rel_cur')
    BY <1>1, <1>5, <2>1, <2>2, OneWalked
  <2> QED
    BY <1>2, <1>5, <2>1, <2>3
<1>8. CASE PrintInsn
  <2>1. /\ job = "printing" /\ More /\ ~ AtRel /\ UNCHANGED vars
        /\ \A e \in Jumps : ~ AtJump(e)
        /\ Emit("insn", 1) /\ job' = job /\ UNCHANGED rel_cur
    BY <1>8 DEF PrintInsn, More
  <2>2. "insn" \in Kinds \ {"rel"} /\ 2 \in Jumps \cup {2} /\ 2 \notin Jumps
    BY DEF Jumps, Kinds
  <2>3. Walked(out', next', rel_cur')
    BY <1>1, <1>5, <2>1, <2>2, OneWalked
  <2> QED
    BY <1>2, <1>5, <2>1, <2>3
<1>9. CASE Finish
  <2>1. /\ job = "printing" /\ job' = "printed" /\ next = Len(tb.insns)
        /\ UNCHANGED <<vars, rel_cur, next, out>>
    BY <1>9 DEF Finish
  <2> QED
    BY <1>2, <1>5, <2>1
<1>10. CASE UNCHANGED <<vars, pvars>>
  <2>1. UNCHANGED <<tb, block, phase, job, rel_cur, next, out>>
    BY <1>10 DEF vars, pvars
  <2>2. job # "none" => Walked(out, next, rel_cur)'
    BY <2>1, WalkedAfter DEF PrintInv
  <2> QED
    BY <1>1, <2>1, <2>2 DEF PrintInv
<1> QED
  BY <1>3, <1>4, <1>6, <1>7, <1>8, <1>9, <1>10 DEF PrintNext, PrintStep

LEMMA PrintSpecInv == PrintSpec => []PrintInv
BY InitPrintInv, NextPrintInv, PTL DEF PrintSpec

(* However a block has been edited, printing it never walks past the end   *)
(* of its list inside a relocation.                                        *)
THEOREM PrintingStaysInside == PrintSpec => []NeverPastEnd
<1>1. PrintInv => NeverPastEnd
  BY DEF PrintInv, NeverPastEnd
<1> QED
  BY <1>1, PrintSpecInv, PTL

(* At the end of the list every relocation that is still valid has been    *)
(* shown, around the instructions it was emitted for, and no other: the    *)
(* one cursor of the visitor meets them all, in the order of the file.     *)
THEOREM RelsAllShown == PrintSpec => []RelsShown
<1>1. PrintInv => RelsShown
  <2>1. SUFFICES ASSUME PrintInv, job = "printed", RelsInOrder
                 PROVE  Items("rel") = {Emitted(j) : j \in {k \in DOMAIN tb.rels : tb.rels[k].valid}}
    BY DEF RelsShown
  <2>2. /\ PassesInv /\ phase = "edit" /\ next = Len(tb.insns)
        /\ RelsAt(next, rel_cur) /\ ItemsOf(out, "rel") = RelItems(rel_cur)
    BY <2>1 DEF PrintInv, Walked
  <2>3. ASSUME NEW j \in DOMAIN tb.rels, tb.rels[j].valid
        PROVE  j < rel_cur
    <3>1. /\ tb.rels[j].off \in Nat /\ tb.rels[j].slots \in Nat \ {0}
          /\ tb.rels[j].off + tb.rels[j].slots <= Len(tb.insns) /\ Len(tb.insns) \in Nat
      BY <2>2, <2>3, RelInPlace, EditFacts
    <3>2. ~ (Len(tb.insns) <= tb.rels[j].off)
      BY <3>1
    <3> QED
      BY <2>2, <2>3, <3>2 DEF RelsAt
  <2>4. {k \in DOMAIN tb.rels : tb.rels[k].valid /\ k < rel_cur}
          = {k \in DOMAIN tb.rels : tb.rels[k].valid}
    BY <2>3
  <2> QED
    BY <2>2, <2>4 DEF RelItems, Items, ItemsOf
<1> QED
  BY <1>1, PrintSpecInv, PTL

(* As long as all recorded jumps of the block are in it and outside its    *)
(* relocations, each is shown as what it is and nothing else is.  With one *)
(* of them deleted nothing is claimed: its jmp_target_arg is left on       *)
(* another instruction.                                                    *)
THEOREM JumpsAllShown == PrintSpec => []JumpsShown
<1>1. PrintInv => JumpsShown
  <2>1. SUFFICES ASSUME PrintInv, job = "printed", JumpsThere
                 PROVE  /\ Items("false_branch")
                             = {<<block.target[d] + 1>> : d \in {e \in {0} : tb.linked[e]}}
                        /\ Items("true_branch")
                             = {<<block.target[d] + 1>> : d \in {e \in {1} : tb.linked[e]}}
    BY DEF JumpsShown, JumpsThere
  <2>2. /\ PassesInv /\ phase = "edit" /\ next = Len(tb.insns)
        /\ ItemsOf(out, "false_branch") = JumpItems(0, next)
        /\ ItemsOf(out, "true_branch") = JumpItems(1, next)
    BY <2>1 DEF PrintInv, Walked
  <2>3. ASSUME NEW d \in Jumps
        PROVE  JumpItems(d, next) = {<<block.target[e] + 1>> : e \in {f \in {d} : tb.linked[f]}}
    <3>1. tb.linked[d] => tb.target[d] < next
      BY <2>1, <2>2, <2>3, JumpInPlace
    <3> QED
      BY <3>1 DEF JumpItems
  <2>4. 0 \in Jumps /\ 1 \in Jumps
    BY DEF Jumps
  <2> QED
    BY <2>2, <2>3, <2>4 DEF Items, ItemsOf
<1> QED
  BY <1>1, PrintSpecInv, PTL

=============================================================================
