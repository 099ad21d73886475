---------------------------- MODULE LoadingProofs ---------------------------
(***************************************************************************)
(* Links lead exactly where the recorded jumps go, whatever the file       *)
(* (LinksExact), linking never meets a branch that is set already, and the *)
(* parents of a block are the links to it (ParentsAreLinks).               *)
(* The invariant says what x86AddrToTb answers while blocks are read and   *)
(* linked: for a full address the block built last there, and null only    *)
(* where no block has been built.                                          *)
(***************************************************************************)
EXTENDS Loading, FiniteSetTheorems, SequenceTheorems, TLAPS

(* The blocks behind, in the order of reading and of linking.              *)
Passed == {t \in TBs : t[1] < seg \/ (t[1] = seg /\ t[2] < place)}

(* The block that answers for an address, what every answer of the map is, *)
(* and a link as LinksExact wants it, with the file and the blocks built   *)
(* as parameters, to compare them before and after a step.                 *)
BlocksOf(f)     == UNION {{s} \X DOMAIN f[s].tbs : s \in DOMAIN f}
AddressIn(f, t) == f[t[1]].begin + f[t[1]].tbs[t[2]].offset
GoalIn(f, t, d) == f[t[1]].begin + f[t[1]].tbs[t[2]].to[d]

LastAt(f, b, t, addr) ==
    /\ t \in Range(b) /\ AddressIn(f, t) = addr
    /\ \A k, m \in DOMAIN b : b[m] = t /\ AddressIn(f, b[k]) = addr => k <= m

Answers(f, b, map) ==
    /\ \A a \in DOMAIN map : map[a] = NoTB \/ LastAt(f, b, map[a], a)
    /\ \A t \in Range(b) : At(map, AddressIn(f, t)) # NoTB

Exact(f, b, next, t, d) ==
    IF next = NoTB
    THEN d \notin f[t[1]].tbs[t[2]].linked \/ \A u \in BlocksOf(f) : AddressIn(f, u) # GoalIn(f, t, d)
    ELSE d \in f[t[1]].tbs[t[2]].linked /\ LastAt(f, b, next, GoalIn(f, t, d))

Settled(t) == \A d \in Jumps : Exact(file, built, branch[t][d], t, d)
Unset(t)   == \A d \in Jumps : branch[t][d] = NoTB

BranchType == [TBs -> [Jumps -> TBs \cup {NoTB}]]

LInv ==
    /\ file \in Seq(SegmentType)
    /\ seg \in Nat \ {0} /\ place \in Nat \ {0}
    /\ pc \in {"read", "link", "done", "error"}
    /\ built \in Seq(TBs)
    /\ branch \in BranchType
    /\ Answers(file, built, x86)
    /\ pc = "read" => Built = Passed /\ \A t \in TBs : Unset(t)
    /\ pc = "link" => /\ Built = TBs
                      /\ \A t \in Passed : Settled(t)
                      /\ \A t \in TBs \ Passed : Unset(t)
    /\ pc = "done" => \A t \in TBs : Settled(t)

-----------------------------------------------------------------------------
(* Blocks and addresses.                                                   *)

LEMMA FileFacts ==
    ASSUME file \in Seq(SegmentType)
    PROVE  /\ Len(file) \in Nat /\ DOMAIN file = 1..Len(file)
           /\ \A s \in DOMAIN file :
                /\ file[s].begin \in Nat
                /\ Len(file[s].tbs) \in Nat
                /\ DOMAIN file[s].tbs = 1..Len(file[s].tbs)
                /\ \A k \in DOMAIN file[s].tbs : file[s].tbs[k].offset \in Nat
<1>1. Len(file) \in Nat /\ DOMAIN file = 1..Len(file)
  BY LenProperties
<1>2. ASSUME NEW s \in DOMAIN file
      PROVE  /\ file[s].begin \in Nat
             /\ Len(file[s].tbs) \in Nat
             /\ DOMAIN file[s].tbs = 1..Len(file[s].tbs)
             /\ \A k \in DOMAIN file[s].tbs : file[s].tbs[k].offset \in Nat
  <2> DEFINE B == [offset : Nat, linked : SUBSET Jumps, to : [Jumps -> Nat]]
  <2>1. file[s] \in SegmentType
    BY <1>1, <1>2, ElementOfSeq
  <2>2. file[s].begin \in Nat /\ file[s].tbs \in Seq(B)
    BY <2>1 DEF SegmentType
  <2>3. Len(file[s].tbs) \in Nat /\ DOMAIN file[s].tbs = 1..Len(file[s].tbs)
    <3> HIDE DEF B
    <3> QED
      BY <2>2, LenProperties
  <2>4. \A k \in DOMAIN file[s].tbs : file[s].tbs[k] \in B
    <3> HIDE DEF B
    <3> QED
      BY <2>2, <2>3, ElementOfSeq
  <2> QED
    BY <2>2, <2>3, <2>4
<1> QED
  BY <1>1, <1>2

LEMMA Blocks ==
    ASSUME file \in Seq(SegmentType)
    PROVE  \A s, k : <<s, k>> \in TBs <=> s \in 1..Len(file) /\ k \in 1..Len(file[s].tbs)
BY FileFacts DEF TBs

LEMMA BlockIsPair ==
    ASSUME file \in Seq(SegmentType), NEW t \in TBs
    PROVE  /\ t = <<t[1], t[2]>> /\ t # NoTB
           /\ t[1] \in 1..Len(file) /\ t[2] \in 1..Len(file[t[1]].tbs)
           /\ Address(t) \in Nat
<1>1. PICK s \in DOMAIN file : t \in {s} \X DOMAIN file[s].tbs
  BY DEF TBs
<1>2. PICK k \in DOMAIN file[s].tbs : t = <<s, k>>
  BY <1>1
<1>3. t # NoTB
  <2>1. Len(<<s, k>>) = 2 /\ Len(<<>>) = 0
    OBVIOUS
  <2> QED
    BY <1>2, <2>1 DEF NoTB
<1>4. t[1] = s /\ t[2] = k
  BY <1>2
<1> QED
  BY <1>1, <1>2, <1>3, <1>4, FileFacts DEF Address, TB

LEMMA HereIsBlock ==
    ASSUME file \in Seq(SegmentType), seg \in Nat \ {0}, place \in Nat \ {0}, InSegment
    PROVE  Here \in TBs /\ Here \notin Passed /\ Here # NoTB
<1>1. Here \in TBs
  BY Blocks, FileFacts DEF Here, InSegment
<1>2. Here[1] = seg /\ Here[2] = place
  BY DEF Here
<1> QED
  BY <1>1, <1>2, BlockIsPair DEF Passed

(* operator[] changes no answer.                                           *)
LEMMA AskedAnswers ==
    ASSUME NEW map, NEW a
    PROVE  /\ DOMAIN Asked(map, a) = DOMAIN map \cup {a}
           /\ \A b : At(Asked(map, a), b) = At(map, b)
BY DEF Asked, Stored, At

LEMMA AskingKeepsAnswers ==
    ASSUME NEW f, NEW b, NEW map, Answers(f, b, map), NEW a
    PROVE  Answers(f, b, Asked(map, a))
<1>1. \A c \in DOMAIN Asked(map, a) : Asked(map, a)[c] = At(map, c)
  BY AskedAnswers DEF At
<1> QED
  BY <1>1, AskedAnswers DEF Answers, At

-----------------------------------------------------------------------------
(* Reading.                                                                *)

LEMMA BuildKeepsAnswers ==
    ASSUME NEW f, NEW S, NEW b \in Seq(S), NEW map, Answers(f, b, map),
           NEW h \in S, h \notin Range(b), h # NoTB
    PROVE  /\ Range(Append(b, h)) = Range(b) \cup {h}
           /\ Answers(f, Append(b, h), Stored(map, AddressIn(f, h), h))
<1> DEFINE n    == Len(b)
           addr == AddressIn(f, h)
           c    == Append(b, h)
           new  == Stored(map, addr, h)
<1>1. n \in Nat /\ DOMAIN b = 1..n
  BY LenProperties
<1>2. /\ DOMAIN c = 1..n + 1
      /\ \A k \in 1..n : c[k] = b[k]
      /\ c[n + 1] = h
  BY <1>1
<1> HIDE DEF c
<1>3. Range(c) = Range(b) \cup {h}
  BY <1>1, <1>2 DEF Range
<1>4. LastAt(f, c, h, addr)
  <2>1. \A m \in DOMAIN c : c[m] = h => m = n + 1
    BY <1>1, <1>2 DEF Range
  <2>2. \A k \in DOMAIN c : k <= n + 1
    BY <1>1, <1>2
  <2> QED
    BY <1>3, <2>1, <2>2 DEF LastAt
<1>5. ASSUME NEW a, a # addr, NEW t, LastAt(f, b, t, a)
      PROVE  LastAt(f, c, t, a)
  <2>1. t \in Range(c) /\ AddressIn(f, t) = a
    BY <1>3, <1>5 DEF LastAt
  <2>2. ASSUME NEW k \in DOMAIN c, NEW m \in DOMAIN c,
               c[m] = t, AddressIn(f, c[k]) = a
        PROVE  k <= m
    <3>1. c[k] # h /\ c[m] # h
      BY <1>5, <2>1, <2>2
    <3>2. k \in DOMAIN b /\ m \in DOMAIN b /\ c[k] = b[k] /\ c[m] = b[m]
      BY <1>1, <1>2, <3>1
    <3> QED
      BY <1>5, <2>2, <3>2 DEF LastAt
  <2> QED
    BY <2>1, <2>2 DEF LastAt
<1>6. /\ DOMAIN new = DOMAIN map \cup {addr}
      /\ \A a \in DOMAIN new : new[a] = IF a = addr THEN h ELSE map[a]
  BY DEF Stored
<1> HIDE DEF new
<1>7. \A a \in DOMAIN new : new[a] = NoTB \/ LastAt(f, c, new[a], a)
  <2> HIDE DEF addr
  <2> QED
    BY <1>4, <1>5, <1>6 DEF Answers
<1>8. \A t \in Range(c) : At(new, AddressIn(f, t)) # NoTB
  BY <1>3, <1>6 DEF Answers, At
<1>9. Answers(f, c, new)
  BY <1>7, <1>8 DEF Answers
<1> QED
  BY <1>3, <1>9 DEF c, new

-----------------------------------------------------------------------------
(* Linking.                                                                *)

(* The state of a link is a record of the four things it changes.          *)
LinkState(s) == s = [x86 |-> s.x86, branch |-> s.branch,
                     parents |-> s.parents, failed |-> s.failed]

LEMMA LinkedExact ==
    ASSUME Built = TBs, file \in Seq(SegmentType),
           NEW s, LinkState(s), ~ s.failed, Answers(file, built, s.x86), s.branch \in BranchType,
           NEW t \in TBs, NEW d \in Jumps, s.branch[t][d] = NoTB,
           NEW r, r = LinkedIfRecorded(s, t, d)
    PROVE  /\ LinkState(r) /\ Answers(file, built, r.x86) /\ r.branch \in BranchType
           /\ Exact(file, built, r.branch[t][d], t, d)
           /\ \A u \in TBs, e \in Jumps :
                u # t \/ e # d => r.branch[u][e] = s.branch[u][e]
           /\ ~ r.failed
<1> DEFINE goal == Goal(t, d)
           next == At(s.x86, goal)
           map  == Asked(s.x86, goal)
           linked == TB(t).linked
<1>1. /\ goal = GoalIn(file, t, d) /\ linked = file[t[1]].tbs[t[2]].linked
      /\ Range(built) = TBs /\ BlocksOf(file) = TBs
  BY DEF Goal, TB, GoalIn, Built, TBs, BlocksOf
<1>2. CASE d \notin linked
  BY <1>1, <1>2 DEF LinkedIfRecorded, Exact
<1>3. CASE d \in linked /\ next = NoTB
  <2>1. r = [s EXCEPT !.x86 = map]
    BY <1>3 DEF LinkedIfRecorded, Linked
  <2>2. /\ LinkState(r) /\ r.x86 = map /\ r.branch = s.branch
        /\ ~ r.failed
    BY <2>1 DEF LinkState
  <2>3. Answers(file, built, map)
    BY AskingKeepsAnswers
  <2>4. \A u \in TBs : AddressIn(file, u) # goal
    BY <1>1, <1>3 DEF Answers
  <2> QED
    BY <1>1, <1>3, <2>2, <2>3, <2>4 DEF Exact
<1>4. CASE d \in linked /\ next # NoTB
  <2> DEFINE b == [s.branch EXCEPT ![t][d] = next]
  <2>1. /\ LinkState(r) /\ r.x86 = map /\ r.branch = b
        /\ ~ r.failed
    <3> DEFINE ps  == [s.parents EXCEPT ![next] = Append(@, t)]
               bad == s.failed \/ s.branch[t][d] # NoTB
    <3>1. r = Linked(s, t, d)
      BY <1>4 DEF LinkedIfRecorded
    <3>2. r = [x86 |-> map, branch |-> b, parents |-> ps, failed |-> bad]
      BY <1>4, <3>1 DEF Linked
    <3>3. ~ bad
      OBVIOUS
    <3> HIDE DEF b, map, next, ps, bad
    <3>4. /\ r.x86 = map /\ r.branch = b /\ r.parents = ps
          /\ r.failed = bad
      BY <3>2
    <3> QED
      BY <3>2, <3>3, <3>4 DEF LinkState
  <2>2. Answers(file, built, map)
    BY AskingKeepsAnswers
  <2>3. LastAt(file, built, next, goal) /\ next \in TBs
    BY <1>1, <1>4 DEF Answers, At, LastAt
  <2>4. /\ b \in BranchType /\ b[t][d] = next
        /\ \A u \in TBs, e \in Jumps :
             u # t \/ e # d => b[u][e] = s.branch[u][e]
    <3> HIDE DEF next
    <3> QED
      BY <2>3 DEF BranchType
  <2> HIDE DEF b, next, goal, linked, map
  <2>5. Exact(file, built, next, t, d)
    BY <1>1, <1>4, <2>3 DEF Exact
  <2> QED
    BY <2>1, <2>2, <2>4, <2>5
<1> QED
  BY <1>2, <1>3, <1>4

(* One round of settle_all_tb.                                             *)
LEMMA SettleExact ==
    ASSUME LInv, SettleTB, NEW h \in TBs, h = Here, Unset(h)
    PROVE  /\ pc' = "link" /\ branch' \in BranchType
           /\ Answers(file, built, x86')
           /\ \A d \in Jumps : Exact(file, built, branch'[h][d], h, d)
           /\ \A u \in TBs \ {h} : branch'[u] = branch[u]
<1> DEFINE s0 == [x86 |-> x86, branch |-> branch, parents |-> parents, failed |-> FALSE]
           s1 == LinkedIfRecorded(s0, h, 1)
           s2 == LinkedIfRecorded(s1, h, 0)
<1>1. /\ pc = "link" /\ x86' = s2.x86 /\ branch' = s2.branch
      /\ pc' = IF s2.failed THEN "aborted" ELSE pc
  BY DEF SettleTB, LinkedBoth
<1>2. file \in Seq(SegmentType) /\ Built = TBs /\ 0 \in Jumps /\ 1 \in Jumps
  BY <1>1 DEF LInv, Jumps
<1>3. /\ LinkState(s0) /\ ~ s0.failed /\ s0.branch = branch
      /\ Answers(file, built, s0.x86) /\ s0.branch \in BranchType
  BY DEF LInv, LinkState
<1> HIDE DEF s0
<1>4. s0.branch[h][1] = NoTB /\ s0.branch[h][0] = NoTB
  BY <1>2, <1>3 DEF Unset
<1>5. /\ LinkState(s1) /\ Answers(file, built, s1.x86) /\ s1.branch \in BranchType
      /\ Exact(file, built, s1.branch[h][1], h, 1)
      /\ \A u \in TBs, e \in Jumps : u # h \/ e # 1 => s1.branch[u][e] = s0.branch[u][e]
      /\ ~ s1.failed
  BY <1>2, <1>3, <1>4, LinkedExact
<1> HIDE DEF s1
<1>6. s1.branch[h][0] = NoTB
  BY <1>2, <1>4, <1>5
<1>7. /\ Answers(file, built, s2.x86) /\ s2.branch \in BranchType
      /\ Exact(file, built, s2.branch[h][0], h, 0)
      /\ \A u \in TBs, e \in Jumps : u # h \/ e # 0 => s2.branch[u][e] = s1.branch[u][e]
      /\ ~ s2.failed
  BY <1>2, <1>5, <1>6, LinkedExact
<1> HIDE DEF s2
<1>8. s2.branch[h][1] = s1.branch[h][1]
  BY <1>2, <1>7
<1>9. \A d \in Jumps : Exact(file, built, s2.branch[h][d], h, d)
  BY <1>5, <1>7, <1>8 DEF Jumps
<1>10. ASSUME NEW u \in TBs \ {h}
       PROVE  s2.branch[u] = branch[u]
  <2>1. \A e \in Jumps : s2.branch[u][e] = branch[u][e]
    BY <1>3, <1>5, <1>7
  <2>2. s2.branch[u] \in [Jumps -> TBs \cup {NoTB}] /\ branch[u] \in [Jumps -> TBs \cup {NoTB}]
    BY <1>3, <1>7 DEF BranchType
  <2> QED
    BY <2>1, <2>2
<1> QED
  BY <1>1, <1>7, <1>9, <1>10

-----------------------------------------------------------------------------
(* The invariant.                                                          *)

LEMMA InitLInv ==
    ASSUME Init PROVE LInv
<1>1. /\ file \in Seq(SegmentType) /\ pc = "read" /\ seg = 1 /\ place = 1
      /\ x86 = <<>> /\ built = <<>>
      /\ branch = [t \in TBs |-> [d \in Jumps |-> NoTB]]
  BY FilesAssumption DEF Init
<1>2. Passed = {}
  <2>1. \A t \in TBs : t[1] \in Nat \ {0} /\ t[2] \in Nat \ {0}
    BY <1>1, BlockIsPair, FileFacts
  <2> QED
    BY <1>1, <2>1 DEF Passed
<1>3. Built = {} /\ built \in Seq(TBs)
  BY <1>1 DEF Built, Range
<1>4. Answers(file, built, x86)
  BY <1>1 DEF Answers, Range
<1>5. branch \in BranchType /\ \A t \in TBs : Unset(t)
  BY <1>1 DEF BranchType, Unset
<1> QED
  BY <1>1, <1>2, <1>3, <1>4, <1>5 DEF LInv

(* Passed after a block, and after a segment that has no more.             *)
LEMMA PassedHere ==
    ASSUME LInv, InSegment, file' = file, seg' = seg, place' = place + 1,
           NEW h, h = Here
    PROVE  Passed' = Passed \cup {h}
<1>1. TBs' = TBs
  BY DEF TBs
<1>2. file \in Seq(SegmentType) /\ seg \in Nat /\ place \in Nat /\ h \in TBs
  BY HereIsBlock DEF LInv
<1>3. h[1] = seg /\ h[2] = place
  BY DEF Here
<1>4. \A t \in TBs : t = <<t[1], t[2]>> /\ t[1] \in Nat /\ t[2] \in Nat
  BY <1>2, BlockIsPair, FileFacts
<1>5. \A t \in TBs : t[1] = seg /\ t[2] = place => t = h
  BY <1>4 DEF Here
<1>6. \A a, b \in Nat : a < b + 1 <=> a < b \/ a = b
  OBVIOUS
<1> QED
  BY <1>1, <1>2, <1>3, <1>4, <1>5, <1>6 DEF Passed

LEMMA PassedSegment ==
    ASSUME LInv, NextSegment
    PROVE  Passed' = Passed
<1>1. TBs' = TBs /\ seg' = seg + 1 /\ place' = 1 /\ seg \in 1..Len(file)
      /\ ~ place <= Len(file[seg].tbs)
  BY FileFacts DEF TBs, NextSegment, InSegment, LInv
<1>2. seg \in Nat /\ place \in Nat /\ Len(file[seg].tbs) \in Nat
  BY <1>1, FileFacts DEF LInv
<1>3. ASSUME NEW t \in TBs
      PROVE  t[1] < seg \/ (t[1] = seg /\ t[2] < place)
             <=> t[1] < seg + 1 \/ (t[1] = seg + 1 /\ t[2] < 1)
  <2>1. /\ t[1] \in Nat /\ t[2] \in Nat /\ 1 <= t[2]
        /\ t[1] = seg => t[2] <= Len(file[seg].tbs)
    BY BlockIsPair, FileFacts DEF LInv
  <2>2. t[1] = seg => t[2] < place
    BY <1>1, <1>2, <2>1
  <2> QED
    BY <1>2, <2>1, <2>2
<1>4. Passed' = {t \in TBs : t[1] < seg + 1 \/ (t[1] = seg + 1 /\ t[2] < 1)}
  BY <1>1 DEF Passed
<1> QED
  BY <1>3, <1>4, Zenon DEF Passed

LEMMA PassedAll ==
    ASSUME LInv, seg > Len(file)
    PROVE  Passed = TBs
<1>1. \A t \in TBs : t[1] \in Nat /\ t[1] <= Len(file)
  BY BlockIsPair, FileFacts DEF LInv
<1>2. Len(file) \in Nat /\ seg \in Nat
  BY FileFacts DEF LInv
<1> QED
  BY <1>1, <1>2 DEF Passed

LEMMA StepLInv ==
    ASSUME LInv, [Next]_vars PROVE LInv'
<1>1. file \in Seq(SegmentType) /\ seg \in Nat \ {0} /\ place \in Nat \ {0}
  BY DEF LInv
<1>2. CASE BuildTB
  <2>1. PICK h \in TBs : /\ h = Here
                         /\ h \notin Passed
                         /\ h # NoTB
    BY <1>1, <1>2, HereIsBlock DEF BuildTB
  <2>2. /\ file' = file /\ seg' = seg /\ place' = place + 1 /\ branch' = branch
        /\ pc = "read" /\ pc' = "read" /\ built' = Append(built, h)
        /\ TBs' = TBs /\ InSegment
    BY <1>2, <2>1 DEF BuildTB, TBs
  <2>3. Passed' = Passed \cup {h}
    BY <2>1, <2>2, PassedHere
  <2>4. Built = Passed /\ built \in Seq(TBs) /\ \A t \in TBs : Unset(t)
    BY <2>2 DEF LInv
  <2> DEFINE map == Asked(x86, Cut(Address(h)))
  <2>5. x86' = Stored(map, AddressIn(file, h), h)
    BY <1>2, <2>1 DEF BuildTB, Address, AddressIn, TB
  <2>6. Answers(file, built, map)
    BY AskingKeepsAnswers DEF LInv
  <2>7. h \notin Range(built)
    BY <2>1, <2>4 DEF Built
  <2> HIDE DEF map
  <2>8. Range(built') = Range(built) \cup {h} /\ Answers(file, built', x86')
    <3>1. built \in Seq(TBs) /\ h # NoTB
      BY <2>1, <2>4
    <3>2. /\ Range(Append(built, h)) = Range(built) \cup {h}
          /\ Answers(file, Append(built, h), Stored(map, AddressIn(file, h), h))
      BY <2>6, <2>7, <3>1, BuildKeepsAnswers, Zenon
    <3> QED
      BY <2>2, <2>5, <3>2
  <2>9. Built' = Passed' /\ built' \in Seq(TBs) /\ Answers(file', built', x86')
    BY <2>2, <2>3, <2>4, <2>8 DEF Built
  <2>10. branch' \in BranchType' /\ (\A t \in TBs : Unset(t))'
    BY <2>2, <2>4 DEF LInv, BranchType, Unset
  <2> QED
    BY <1>1, <2>2, <2>9, <2>10 DEF LInv
<1>3. CASE RefuseTB
  BY <1>3 DEF RefuseTB, LInv, BranchType, TBs
<1>4. CASE NextSegment
  <2>1. /\ file' = file /\ seg' = seg + 1 /\ place' = 1 /\ branch' = branch
        /\ x86' = x86 /\ built' = built /\ pc' = pc /\ pc \in {"read", "link"}
        /\ TBs' = TBs /\ Passed' = Passed
    BY <1>4, PassedSegment DEF NextSegment, TBs
  <2>2. Built' = Built /\ BranchType' = BranchType
    BY <2>1 DEF Built, BranchType
  <2>3. \A t : (Unset(t) => Unset(t)') /\ (Settled(t) => Settled(t)')
    BY <2>1 DEF Unset, Settled
  <2>4. seg' \in Nat \ {0} /\ place' \in Nat \ {0}
    BY <1>1, <2>1
  <2> QED
    BY <2>1, <2>2, <2>3, <2>4 DEF LInv
<1>5. CASE LastSegment
  <2>1. /\ file' = file /\ seg' = 1 /\ place' = 1 /\ branch' = branch
        /\ x86' = x86 /\ built' = built /\ TBs' = TBs
        /\ (pc = "read" /\ pc' = "link") \/ (pc = "link" /\ pc' = "done")
        /\ Passed = TBs
    BY <1>5, PassedAll DEF LastSegment, TBs
  <2>2. Built' = Built /\ BranchType' = BranchType
    BY <2>1 DEF Built, BranchType
  <2>3. \A t : (Unset(t) => Unset(t)') /\ (Settled(t) => Settled(t)')
    BY <2>1 DEF Unset, Settled
  <2>4. Passed' = {}
    <3>1. \A t \in TBs : t[1] \in Nat \ {0} /\ t[2] \in Nat \ {0}
      BY <1>1, BlockIsPair, FileFacts
    <3> QED
      BY <2>1, <3>1 DEF Passed
  <2>5. Built = TBs
    BY <2>1 DEF LInv
  <2> QED
    BY <2>1, <2>2, <2>3, <2>4, <2>5 DEF LInv
<1>6. CASE SettleTB
  <2>1. PICK h \in TBs : h = Here /\ h \notin Passed
    BY <1>1, <1>6, HereIsBlock DEF SettleTB
  <2>2. /\ file' = file /\ seg' = seg /\ place' = place + 1 /\ built' = built
        /\ pc = "link" /\ TBs' = TBs /\ InSegment
    BY <1>6 DEF SettleTB, TBs
  <2>3. Passed' = Passed \cup {h}
    BY <2>1, <2>2, PassedHere
  <2>4. Built = TBs /\ Built' = Built /\ BranchType' = BranchType
    BY <2>2 DEF LInv, Built, BranchType
  <2>5. Unset(h)
    BY <2>1, <2>2 DEF LInv
  <2>6. /\ pc' = "link" /\ branch' \in BranchType
        /\ Answers(file, built, x86')
        /\ \A d \in Jumps : Exact(file, built, branch'[h][d], h, d)
        /\ \A u \in TBs \ {h} : branch'[u] = branch[u]
    BY <1>6, <2>1, <2>5, SettleExact
  <2>7. \A t \in Passed' : Settled(t)'
    <3>1. Settled(h)'
      BY <2>2, <2>6 DEF Settled
    <3>2. \A t \in Passed : t \in TBs \ {h} /\ Settled(t)
      BY <2>1, <2>2 DEF LInv, Passed
    <3>3. \A t \in Passed : Settled(t)'
      BY <2>2, <2>6, <3>2 DEF Settled
    <3> QED
      BY <2>3, <3>1, <3>3
  <2>8. \A t \in TBs \ Passed' : Unset(t)'
    <3>1. \A t \in TBs \ Passed' : t \in TBs \ {h} /\ Unset(t)
      BY <2>2, <2>3 DEF LInv
    <3> QED
      BY <2>6, <3>1 DEF Unset
  <2>9. place' \in Nat \ {0}
    BY <1>1, <2>2
  <2> QED
    BY <1>1, <2>2, <2>4, <2>6, <2>7, <2>8, <2>9 DEF LInv
<1>7. CASE UNCHANGED vars
  BY <1>7 DEF vars, LInv, Passed, Settled, Unset, BranchType, TBs, Built
<1> QED
  BY <1>2, <1>3, <1>4, <1>5, <1>6, <1>7 DEF Next

LEMMA LInvLinksExact ==
    ASSUME LInv PROVE LinksExact
<1>1. \A t, d : TB(t).linked = file[t[1]].tbs[t[2]].linked /\ Goal(t, d) = GoalIn(file, t, d)
  BY DEF TB, Goal, GoalIn
<1>2. TBs = BlocksOf(file) /\ \A t : Address(t) = AddressIn(file, t)
  BY DEF TBs, BlocksOf, Address, AddressIn, TB
<1>3. \A t, a : IsAt(t, a) <=> LastAt(file, built, t, a)
  BY <1>2 DEF IsAt, LastAt, Built
<1> QED
  BY <1>1, <1>2, <1>3 DEF LInv, Settled, Exact, LinksExact

(* For every file: when linking is over, a link leads to the block built   *)
(* last exactly where the recorded jump goes, and is missing only if there *)
(* is none (TB_Link and settle_all_tb, aot_class.cpp:469-523).             *)
THEOREM LinksAlwaysExact == Spec => []LinksExact
<1>1. LInv /\ [Next]_vars => LInv'
  BY StepLInv
<1> QED
  BY InitLInv, <1>1, LInvLinksExact, PTL DEF Spec

(* The assertion of SetNextTB (aot_class.cpp:414, 419) does not fail: when *)
(* a block is settled, neither of its branches is set.                     *)
THEOREM LinkingNeverAborts == Spec => [](pc # "aborted")
<1>1. LInv /\ [Next]_vars => LInv'
  BY StepLInv
<1>2. LInv => pc # "aborted"
  BY DEF LInv
<1> QED
  BY InitLInv, <1>1, <1>2, PTL DEF Spec

-----------------------------------------------------------------------------
(* Parents and links are the same, counted.                                *)

LinksTo(b, u)   == {link \in TBs \X Jumps : b[link[1]][link[2]] = u}
JumpsTo(b, t, u) == {d \in Jumps : b[t][d] = u}
Places(q, t)    == {k \in DOMAIN q : q[k] = t}

Counted(p, b) ==
    /\ p \in [TBs -> Seq(TBs)]
    /\ \A u \in TBs :
        /\ IsFiniteSet(LinksTo(b, u)) /\ Len(p[u]) = Cardinality(LinksTo(b, u))
        /\ \A t \in TBs : Cardinality(Places(p[u], t)) = Cardinality(JumpsTo(b, t, u))

LEMMA PlacesAfterAppend ==
    ASSUME NEW S, NEW q \in Seq(S), NEW t \in S, NEW u \in S
    PROVE  /\ Append(q, t) \in Seq(S) /\ Len(Append(q, t)) = Len(q) + 1
           /\ u # t => Places(Append(q, t), u) = Places(q, u)
           /\ Cardinality(Places(q, t)) \in Nat
           /\ Cardinality(Places(Append(q, t), t)) = Cardinality(Places(q, t)) + 1
<1> DEFINE n == Len(q)
           a == Append(q, t)
<1>1. /\ n \in Nat /\ DOMAIN q = 1..n /\ a \in Seq(S) /\ Len(a) = n + 1
      /\ \A k \in 1..n : a[k] = q[k]
      /\ a[n + 1] = t
  BY LenProperties, AppendProperties
<1>2. DOMAIN a = 1..n + 1
  BY <1>1, LenProperties
<1> HIDE DEF n, a
<1>3. DOMAIN a = DOMAIN q \cup {n + 1} /\ n + 1 \notin DOMAIN q
  BY <1>1, <1>2
<1>4. u # t => Places(a, u) = Places(q, u)
  BY <1>1, <1>3 DEF Places
<1>5. Places(a, t) = Places(q, t) \cup {n + 1} /\ n + 1 \notin Places(q, t)
  BY <1>1, <1>3 DEF Places
<1>6. IsFiniteSet(Places(q, t))
  <2>1. 1 \in Int /\ n \in Int /\ Places(q, t) \in SUBSET (1..n)
    BY <1>1 DEF Places
  <2>2. IsFiniteSet(1..n)
    BY <2>1, FS_Interval
  <2> QED
    BY <2>1, <2>2, FS_Subset
<1>7. /\ Cardinality(Places(q, t)) \in Nat
      /\ Cardinality(Places(a, t)) = Cardinality(Places(q, t)) + 1
  BY <1>5, <1>6, FS_CardinalityType, FS_AddElement
<1> QED
  BY <1>1, <1>4, <1>7 DEF n, a

(* One more link: the block t is linked to next by its jump d.             *)
LEMMA LinkCounted ==
    ASSUME file \in Seq(SegmentType), NEW p, NEW b, Counted(p, b), b \in BranchType,
           NEW t \in TBs, NEW d \in Jumps, b[t][d] = NoTB, NEW next \in TBs,
           NEW c, c = [b EXCEPT ![t][d] = next],
           NEW q, q = [p EXCEPT ![next] = Append(@, t)]
    PROVE  Counted(q, c)
<1>1. /\ c \in BranchType /\ c[t][d] = next
      /\ \A u \in TBs, e \in Jumps : u # t \/ e # d => c[u][e] = b[u][e]
  BY DEF BranchType
<1>2. next # NoTB
  BY BlockIsPair
<1>3. /\ p \in [TBs -> Seq(TBs)] /\ p[next] \in Seq(TBs)
      /\ q[next] = Append(p[next], t) /\ \A u \in TBs \ {next} : q[u] = p[u]
  BY DEF Counted
<1>4. q \in [TBs -> Seq(TBs)]
  <2>1. Append(p[next], t) \in Seq(TBs)
    BY <1>3, AppendProperties
  <2> QED
    BY <1>3, <2>1
<1>5. ASSUME NEW u \in TBs
      PROVE  IsFiniteSet(LinksTo(c, u)) /\ Len(q[u]) = Cardinality(LinksTo(c, u))
  <2>1. IsFiniteSet(LinksTo(b, u)) /\ Len(p[u]) = Cardinality(LinksTo(b, u))
    BY DEF Counted
  <2>2. CASE u # next
    <3>1. LinksTo(c, u) = LinksTo(b, u)
      <4>1. \A x \in TBs, e \in Jumps : c[x][e] = u <=> b[x][e] = u
        <5>1. u # NoTB
          BY BlockIsPair
        <5> QED
          BY <1>1, <2>2, <5>1
      <4> QED
        BY <4>1 DEF LinksTo
    <3> QED
      BY <1>3, <2>1, <2>2, <3>1
  <2>3. CASE u = next
    <3>1. LinksTo(c, u) = LinksTo(b, u) \cup {<<t, d>>} /\ <<t, d>> \notin LinksTo(b, u)
      <4>1. \A x \in TBs, e \in Jumps :
              c[x][e] = u <=> (b[x][e] = u \/ (x = t /\ e = d))
        BY <1>1, <2>3
      <4>2. b[t][d] # u
        BY <1>2, <2>3
      <4> QED
        BY <4>1, <4>2 DEF LinksTo
    <3>2. /\ IsFiniteSet(LinksTo(c, u))
          /\ Cardinality(LinksTo(c, u)) = Cardinality(LinksTo(b, u)) + 1
      BY <2>1, <3>1, FS_AddElement, ZenonT(40)
    <3>3. Len(q[u]) = Len(p[u]) + 1
      BY <1>3, <2>3, AppendProperties
    <3> QED
      BY <2>1, <3>2, <3>3
  <2> QED
    BY <2>2, <2>3
<1>6. ASSUME NEW u \in TBs, NEW x \in TBs
      PROVE  Cardinality(Places(q[u], x)) = Cardinality(JumpsTo(c, x, u))
  <2>1. Cardinality(Places(p[u], x)) = Cardinality(JumpsTo(b, x, u))
    BY DEF Counted
  <2>2. CASE u # next
    <3>1. u # NoTB
      BY BlockIsPair
    <3>2. JumpsTo(c, x, u) = JumpsTo(b, x, u)
      BY <1>1, <2>2, <3>1 DEF JumpsTo
    <3> QED
      BY <1>3, <2>1, <2>2, <3>2
  <2>3. CASE u = next /\ x # t
    <3>1. JumpsTo(c, x, u) = JumpsTo(b, x, u)
      BY <1>1, <2>3 DEF JumpsTo
    <3>2. Places(q[u], x) = Places(p[u], x)
      BY <1>3, <2>3, PlacesAfterAppend
    <3> QED
      BY <2>1, <3>1, <3>2
  <2>4. CASE u = next /\ x = t
    <3>1. JumpsTo(c, x, u) = JumpsTo(b, x, u) \cup {d} /\ d \notin JumpsTo(b, x, u)
      BY <1>1, <1>2, <2>4 DEF JumpsTo
    <3>2. IsFiniteSet(JumpsTo(b, x, u))
      <4>1. 0 \in Int /\ 1 \in Int /\ JumpsTo(b, x, u) \in SUBSET (0..1)
        BY DEF JumpsTo, Jumps
      <4>2. IsFiniteSet(0..1)
        BY <4>1, FS_Interval
      <4> QED
        BY <4>1, <4>2, FS_Subset
    <3>3. Cardinality(JumpsTo(c, x, u)) = Cardinality(JumpsTo(b, x, u)) + 1
      BY <3>1, <3>2, FS_AddElement
    <3>4. Cardinality(Places(q[u], x)) = Cardinality(Places(p[u], x)) + 1
      BY <1>3, <2>4, PlacesAfterAppend
    <3> QED
      BY <2>1, <3>3, <3>4
  <2> QED
    BY <2>2, <2>3, <2>4
<1> QED
  BY <1>4, <1>5, <1>6 DEF Counted

LEMMA LinkedCounted ==
    ASSUME Built = TBs, file \in Seq(SegmentType),
           NEW s, LinkState(s), Answers(file, built, s.x86), s.branch \in BranchType,
           Counted(s.parents, s.branch),
           NEW t \in TBs, NEW d \in Jumps, s.branch[t][d] = NoTB,
           NEW r, r = LinkedIfRecorded(s, t, d)
    PROVE  Counted(r.parents, r.branch)
<1> DEFINE next == At(s.x86, Goal(t, d))
           map  == Asked(s.x86, Goal(t, d))
<1>1. CASE d \notin TB(t).linked
  BY <1>1 DEF LinkedIfRecorded
<1>2. CASE d \in TB(t).linked /\ next = NoTB
  <2>1. r = [s EXCEPT !.x86 = map]
    BY <1>2 DEF LinkedIfRecorded, Linked
  <2>2. r.branch = s.branch /\ r.parents = s.parents
    BY <2>1 DEF LinkState
  <2> QED
    BY <2>2
<1>3. CASE d \in TB(t).linked /\ next # NoTB
  <2> DEFINE b  == [s.branch EXCEPT ![t][d] = next]
             ps == [s.parents EXCEPT ![next] = Append(@, t)]
             bad == s.failed \/ s.branch[t][d] # NoTB
  <2>1. next \in TBs
    BY <1>3 DEF Answers, At, LastAt, Built
  <2>2. r = Linked(s, t, d)
    BY <1>3 DEF LinkedIfRecorded
  <2>3. r = [x86 |-> map, branch |-> b, parents |-> ps, failed |-> bad]
    BY <1>3, <2>2 DEF Linked
  <2> HIDE DEF map, next, bad
  <2>4. r.branch = b /\ r.parents = ps
    BY <2>3
  <2>5. Counted(ps, b)
    BY <2>1, LinkCounted
  <2> QED
    BY <2>4, <2>5
<1> QED
  BY <1>1, <1>2, <1>3

LEMMA SettleCounted ==
    ASSUME LInv, Counted(parents, branch), SettleTB, NEW h \in TBs, h = Here, Unset(h)
    PROVE  Counted(parents', branch')
<1> DEFINE s0 == [x86 |-> x86, branch |-> branch, parents |-> parents, failed |-> FALSE]
           s1 == LinkedIfRecorded(s0, h, 1)
           s2 == LinkedIfRecorded(s1, h, 0)
<1>1. pc = "link" /\ branch' = s2.branch /\ parents' = s2.parents
  BY DEF SettleTB, LinkedBoth
<1>2. file \in Seq(SegmentType) /\ Built = TBs /\ 0 \in Jumps /\ 1 \in Jumps
  BY <1>1 DEF LInv, Jumps
<1>3. /\ LinkState(s0) /\ ~ s0.failed /\ s0.branch = branch /\ s0.parents = parents
      /\ Answers(file, built, s0.x86) /\ s0.branch \in BranchType
  BY DEF LInv, LinkState
<1> HIDE DEF s0
<1>4. s0.branch[h][1] = NoTB /\ s0.branch[h][0] = NoTB
  BY <1>2, <1>3 DEF Unset
<1>5. /\ LinkState(s1) /\ Answers(file, built, s1.x86) /\ s1.branch \in BranchType
      /\ s1.branch[h][0] = s0.branch[h][0]
  BY <1>2, <1>3, <1>4, LinkedExact
<1>6. Counted(s1.parents, s1.branch)
  BY <1>2, <1>3, <1>4, LinkedCounted
<1> HIDE DEF s1
<1>7. s1.branch[h][0] = NoTB
  BY <1>4, <1>5
<1>8. Counted(s2.parents, s2.branch)
  BY <1>2, <1>5, <1>6, <1>7, LinkedCounted
<1> QED
  BY <1>1, <1>8

LEMMA InitCounted ==
    ASSUME Init PROVE Counted(parents, branch)
<1>1. /\ file \in Seq(SegmentType)
      /\ branch = [t \in TBs |-> [d \in Jumps |-> NoTB]] /\ parents = [t \in TBs |-> <<>>]
  BY FilesAssumption DEF Init
<1>2. parents \in [TBs -> Seq(TBs)] /\ \A u \in TBs : parents[u] = <<>>
  BY <1>1
<1>3. ASSUME NEW u \in TBs
      PROVE  /\ LinksTo(branch, u) = {} /\ Places(parents[u], u) = {}
             /\ \A t \in TBs : JumpsTo(branch, t, u) = {} /\ Places(parents[u], t) = {}
  <2>1. u # NoTB
    BY <1>1, BlockIsPair
  <2> QED
    BY <1>1, <1>2, <2>1 DEF LinksTo, Places, JumpsTo
<1>4. Len(<<>>) = 0 /\ IsFiniteSet({}) /\ Cardinality({}) = 0
  BY FS_EmptySet
<1> QED
  BY <1>2, <1>3, <1>4 DEF Counted

LEMMA StepCounted ==
    ASSUME LInv, Counted(parents, branch), [Next]_vars
    PROVE  Counted(parents, branch)'
<1>1. SUFFICES TBs' = TBs /\ Counted(parents', branch')
  BY DEF Counted, LinksTo, JumpsTo, Places
<1>2. file' = file
  BY DEF Next, BuildTB, RefuseTB, NextSegment, LastSegment, SettleTB, vars
<1>3. CASE SettleTB
  <2>1. PICK h \in TBs : h = Here /\ h \notin Passed
    BY <1>3, HereIsBlock DEF SettleTB, LInv
  <2>2. Unset(h)
    BY <1>3, <2>1 DEF SettleTB, LInv
  <2> QED
    BY <1>2, <1>3, <2>1, <2>2, SettleCounted DEF TBs
<1>4. CASE ~ SettleTB
  <2>1. UNCHANGED <<parents, branch>>
    BY <1>4 DEF Next, BuildTB, RefuseTB, NextSegment, LastSegment, vars
  <2> QED
    BY <1>2, <2>1 DEF TBs
<1> QED
  BY <1>3, <1>4

(* The parents of a block are the blocks linked to it, each as often as it *)
(* is (SetNextTB, aot_class.cpp:410-424), at any time while linking goes   *)
(* on: no link is without its parent, and no parent without its link.      *)
THEOREM ParentsAlwaysLinks == Spec => []ParentsAreLinks
<1>1. Init => LInv /\ Counted(parents, branch)
  BY InitLInv, InitCounted
<1>2. LInv /\ Counted(parents, branch) /\ [Next]_vars => LInv' /\ Counted(parents, branch)'
  BY StepLInv, StepCounted
<1>3. LInv /\ Counted(parents, branch) => ParentsAreLinks
  BY DEF LInv, Counted, ParentsAreLinks, LinksTo, JumpsTo, Places
<1> QED
  BY <1>1, <1>2, <1>3, PTL DEF Spec

=============================================================================
