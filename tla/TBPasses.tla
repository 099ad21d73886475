------------------------------ MODULE TBPasses ------------------------------
(***************************************************************************)
(* The passes that rearrange the end of one translation block: removing    *)
(* nops (RemoveNonVistor), removing what follows a jump whose block is     *)
(* known (RemoveTailVistor), and then making the branches reach where they *)
(* went before (FixBranchVistor).                                          *)
(*                                                                         *)
(* The driver decides which of the first two run; the third always does.   *)
(* The instruction at index i of the file has identity i + 1.              *)
(*                                                                         *)
(* A definition introduced as a slip is the one after it with a bug a      *)
(* programmer could make; nothing uses it.                                 *)
(***************************************************************************)
EXTENDS TBOps

CONSTANT Blocks   \* the blocks the passes may be given

(* A block of the file with its links: nops are the indices of nops,       *)
(* dest[i + 1] is the index the branch at index i jumps to, known[d] says  *)
(* that false_branch or true_branch is not null.                           *)
BlockType ==
    [code   : Seq(OpClasses),
     nops   : SUBSET Nat,
     dest   : Seq(Nat),
     rels   : Seq(RelType),
     linked : [Jumps -> BOOLEAN],
     target : [Jumps -> Nat],
     known  : [Jumps -> BOOLEAN]]

(* What the translator and the linking guarantee: relocations inside the   *)
(* code, no two on one instruction; a nop is no branch; a recorded jump is *)
(* a B; of two, the false one comes first, and a BNE in front of both      *)
(* chooses; only a recorded jump can have a known successor.               *)
WellFormedBlock(blk) ==
    LET n == Len(blk.code) IN
    /\ blk \in BlockType
    /\ Len(blk.dest) = n
    /\ \A i \in blk.nops : i < n /\ blk.code[i + 1] = "PLAIN"
    /\ \A j \in DOMAIN blk.rels :
        /\ blk.rels[j].valid /\ blk.rels[j].off + blk.rels[j].slots <= n
        /\ \A k \in DOMAIN blk.rels : j = k \/ Disjoint(blk.rels[j], blk.rels[k])
    /\ \A d \in Jumps :
        /\ blk.linked[d] => blk.target[d] < n /\ blk.code[blk.target[d] + 1] = "B"
        /\ blk.known[d] => blk.linked[d]
    /\ blk.linked[0] /\ blk.linked[1] =>
        /\ blk.target[0] < blk.target[1]
        /\ \E k \in 1..blk.target[0] : blk.code[k] = "BNE"

ASSUME BlocksAssumption == \A blk \in Blocks : WellFormedBlock(blk)

Closest(S) == CHOOSE x \in S : \A y \in S : x <= y

(* Where the loads behind index i start that fall back to the translator.  *)
LoadsBehind(blk, i) ==
    {blk.rels[j].off : j \in {k \in DOMAIN blk.rels :
        blk.rels[k].kind = "LOAD_TB_ADDR" /\ i < blk.rels[k].off}}

(* What fix_bne and __fix_b take for granted about where branches go: one  *)
(* BNE chooses between two jumps, and there is no other; a B is a recorded *)
(* jump or the loader patches it, not both; a recorded jump leads to the   *)
(* first load behind it, its own, or nowhere if it has none.               *)
RegularBranches(blk) ==
    LET jumps == {blk.target[d] : d \in {e \in Jumps : blk.linked[e]}}
        Patched(i) == \E j \in DOMAIN blk.rels : Covers(blk.rels[j], i)
    IN
    /\ \A k \in DOMAIN blk.code : blk.code[k] = "BNE" =>
        /\ blk.linked[0] /\ blk.linked[1] /\ blk.dest[k] = blk.target[1]
        /\ \A m \in DOMAIN blk.code : blk.code[m] = "BNE" => m = k
    /\ \A k \in DOMAIN blk.code : blk.code[k] = "B" => k - 1 \in jumps \/ Patched(k - 1)
    /\ \A i \in jumps : ~ Patched(i)
    /\ \A d \in Jumps : blk.linked[d] =>
        LET i == blk.target[d]
            loads == LoadsBehind(blk, i)
        IN  /\ blk.dest[i + 1] = IF loads = {} THEN i ELSE Closest(loads)
            /\ d = 0 /\ blk.linked[1] /\ loads # {} => Closest(loads) < blk.target[1]

ASSUME BranchesAssumption == \A blk \in Blocks : RegularBranches(blk)

VARIABLES
    block,   \* the block as the file holds it
    passes,  \* the optional passes the driver runs
    pc,      \* "nops", "tail0", "tail1", "bne", "b", "done" or "aborted"
    tb,      \* the TB object
    offs,    \* by identity, the distance the branch jumps
    cur,     \* the index RemoveNonVistor is at
    pipehole_available   \* computed once, when the block was decoded

vars == <<block, passes, pipehole_available, pc, tb, offs, cur>>

Decoded(blk) ==
    LET insns == [k \in DOMAIN blk.code |-> [id |-> k, opc |-> blk.code[k]]] IN
    [insns    |-> insns,
     branches |-> AddBranches([c \in BranchClasses |-> <<>>], insns, 0),
     rels     |-> blk.rels,
     linked   |-> blk.linked,
     target   |-> blk.target]

Init ==
    /\ block \in Blocks
    /\ passes \in SUBSET {"nops", "tail"}
    /\ tb = Decoded(block)
    /\ pipehole_available = PipeholeOptAvailable(tb)
    /\ offs = [k \in DOMAIN block.code |-> block.dest[k] - (k - 1)]
    /\ cur = 0
    /\ pc = "nops"

-----------------------------------------------------------------------------
(* RemoveNonVistor.                                                        *)

(* The pass looks only at blocks whose shape, when they were decoded, was  *)
(* one it knows.                                                           *)
NopsWanted == "nops" \in passes /\ pipehole_available

IsNop(i) == i < Len(tb.insns) /\ tb.insns[i + 1].id - 1 \in block.nops

(* A slip: a refused deletion is tried again.                              *)
RemoveNopAgain ==
    /\ pc = "nops"
    /\ NopsWanted
    /\ cur < Len(tb.insns)
    /\ IsNop(cur)
    /\ tb' = DeleteIthInsn(tb, cur + 1, cur)
    /\ UNCHANGED <<block, passes, pipehole_available, pc, offs, cur>>

(* A nop covered by a relocation stays, and the loop goes on behind it.    *)
RemoveNop ==
    /\ pc = "nops"
    /\ NopsWanted
    /\ cur < Len(tb.insns)
    /\ IsNop(cur)
    /\ tb' = DeleteIthInsn(tb, cur + 1, cur)
    /\ cur' = IF tb' = tb THEN cur + 1 ELSE cur
    /\ UNCHANGED <<block, passes, pipehole_available, pc, offs>>

KeepInsn ==
    /\ pc = "nops"
    /\ NopsWanted
    /\ cur < Len(tb.insns)
    /\ ~ IsNop(cur)
    /\ cur' = cur + 1
    /\ UNCHANGED <<block, passes, pipehole_available, pc, tb, offs>>

NopsDone ==
    /\ pc = "nops"
    /\ ~ NopsWanted \/ cur = Len(tb.insns)
    /\ pc' = IF "tail" \in passes THEN "tail0" ELSE "bne"
    /\ UNCHANGED <<block, passes, pipehole_available, tb, offs, cur>>

-----------------------------------------------------------------------------
(* RemoveTailVistor.                                                       *)

IsB(i) == i < Len(tb.insns) /\ tb.insns[i + 1].opc = "B"

(* A slip: the false tail ends with the true jump, not before it.          *)
TailLengthWithJump(d) ==
    (IF d = 0 /\ tb.linked[1] THEN tb.target[1] + 1 ELSE Len(tb.insns))
        - tb.target[d] - 1

(* How many instructions follow jump d and belong to it.                   *)
TailLength(d) ==
    (IF d = 0 /\ tb.linked[1] THEN tb.target[1] ELSE Len(tb.insns))
        - tb.target[d] - 1

(* Two slips: relocations outlive their code, and the index moves on while *)
(* the instructions move down.                                             *)
RemoveTailOfKeepRels(d) ==
    [DeleteRun(tb, tb.target[d] + 1, TailLength(d)) EXCEPT !.rels = tb.rels]

RemoveTailOfStepping(d) ==
    LET after[k \in 0..TailLength(d)] ==
            IF k = 0 THEN tb
            ELSE LET i == tb.target[d] + k IN
                 IF i < Len(after[k - 1].insns)
                 THEN DeleteIthInsnAlongWithRel(after[k - 1], i + 1, i)
                 ELSE after[k - 1]
    IN  after[TailLength(d)]

(* The deletion loop of remove_tail_of.                                    *)
RemoveTailOf(d) == DeleteRun(tb, tb.target[d] + 1, TailLength(d))

(* An assertion fails, or LinkList::get's does.                            *)
Aborts ==
    /\ pc' = "aborted"
    /\ UNCHANGED <<tb, offs>>

(* remove_tail_of for jump d; visit calls it for the false one first.      *)
RemoveTail(d, here, after) ==
    /\ pc = here
    /\ IF ~ block.known[d]
       THEN pc' = after /\ UNCHANGED <<tb, offs>>
       ELSE IF ~ IsB(tb.target[d])
       THEN Aborts
       ELSE tb' = RemoveTailOf(d) /\ pc' = after /\ UNCHANGED offs
    /\ UNCHANGED <<block, passes, pipehole_available, cur>>

RemoveTails == RemoveTail(0, "tail0", "tail1") \/ RemoveTail(1, "tail1", "bne")

-----------------------------------------------------------------------------
(* FixBranchVistor.                                                        *)

(* The offsets find_closest_LOAD_TB_ADDR_rel_entry compares.               *)
LoadsAfter(i) ==
    {tb.rels[j].off : j \in {k \in DOMAIN tb.rels :
        tb.rels[k].valid /\ tb.rels[k].kind = "LOAD_TB_ADDR" /\ i < tb.rels[k].off}}

BNEs == {k \in DOMAIN tb.insns : tb.insns[k].opc = "BNE"}

(* A slip: one short, counting from the instruction after the BNE.         *)
FixBneShort ==
    LET last == CHOOSE k \in BNEs : \A m \in BNEs : m <= k IN
    /\ pc = "bne"
    /\ IF tb.linked[0] /\ tb.linked[1]
       THEN IF BNEs = {} THEN Aborts
            ELSE /\ offs' = [offs EXCEPT ![tb.insns[last].id] = tb.target[1] - last]
                 /\ pc' = "b"
                 /\ UNCHANGED tb
       ELSE pc' = "b" /\ UNCHANGED <<tb, offs>>
    /\ UNCHANGED <<block, passes, pipehole_available, cur>>

(* fix_bne: the last BNE of the list jumps to the true jump.               *)
FixBne ==
    LET last == CHOOSE k \in BNEs : \A m \in BNEs : m <= k IN
    /\ pc = "bne"
    /\ IF tb.linked[0] /\ tb.linked[1]
       THEN IF BNEs = {} THEN Aborts
            ELSE /\ offs' = [offs EXCEPT ![tb.insns[last].id] = tb.target[1] - (last - 1)]
                 /\ pc' = "b"
                 /\ UNCHANGED tb
       ELSE pc' = "b" /\ UNCHANGED <<tb, offs>>
    /\ UNCHANGED <<block, passes, pipehole_available, cur>>

(* The jump fix_b fixes: the one without a known successor, in a block     *)
(* where the other one has one.                                            *)
ToFix == {d \in Jumps : tb.linked[d] /\ ~ block.known[d] /\ block.known[1 - d]}

(* __fix_b: the jump leads to the load that falls back to the translator.  *)
FixB ==
    /\ pc = "b"
    /\ IF ToFix = {} THEN pc' = "done" /\ UNCHANGED <<tb, offs>>
       ELSE \E d \in ToFix :
            LET i == tb.target[d] IN
            IF ~ IsB(i) THEN Aborts
            ELSE /\ offs' = IF LoadsAfter(i) = {} THEN offs
                            ELSE [offs EXCEPT ![tb.insns[i + 1].id] =
                                                Closest(LoadsAfter(i)) - i]
                 /\ pc' = "done"
                 /\ UNCHANGED tb
    /\ UNCHANGED <<block, passes, pipehole_available, cur>>

Next == RemoveNop \/ KeepInsn \/ NopsDone \/ RemoveTails \/ FixBne \/ FixB

(* One thread runs the passes to their end.                                *)
Spec == Init /\ [][Next]_vars /\ WF_vars(Next)

-----------------------------------------------------------------------------
(* Properties.                                                             *)

(* The assertions of RemoveTailVistor.cpp:21 and FixBranchVistor.cpp:25    *)
(* and 70 hold: the recorded jumps are found where the deletions of nops   *)
(* and of the other tail have left them.                                   *)
NeverAborts == pc # "aborted"

Ids == IdsOf(tb)

(* The instructions behind a known jump that are its own, and the nops no  *)
(* relocation covers, as the file has them.                                *)
TailOf(d) ==
    {k \in DOMAIN block.code :
        /\ k - 1 > block.target[d]
        /\ d = 0 /\ block.linked[1] => k - 1 < block.target[1]}

OwnTail(d) == IF "tail" \in passes /\ block.known[d] THEN TailOf(d) ELSE {}

FreeNops ==
    LET loaded == Decoded(block) IN
    IF NopsWanted THEN {i + 1 : i \in {n \in block.nops : ~ InRel(loaded, n)}} ELSE {}

Removable == FreeNops \cup OwnTail(0) \cup OwnTail(1)

(* Exactly the nops and the tails are gone, whatever the first pass moved  *)
(* before the second counts: the loops of RemoveTailVistor.cpp:29-33 count *)
(* from positions they shift while they run.                               *)
OnlyNopsAndTailsRemoved ==
    pc \in {"bne", "b", "done"} => Ids = DOMAIN block.code \ Removable

(* Every branch that no relocation patches goes where it went in the file, *)
(* if that instruction is still there: fix_bne and __fix_b repair what the *)
(* deletions in between have changed.  After a removal of nops only the    *)
(* jump that fix_b looks at is repaired.  A block none of whose successors *)
(* is known is skipped (FixBranchVistor.cpp:79-81), although fix_b has a   *)
(* case for it (39-44).                                                    *)
Lands(k, id) ==
    LET at == k + offs[tb.insns[k].id] IN
    at \in DOMAIN tb.insns /\ tb.insns[at].id = id

Repaired(k) ==
    \/ tb.insns[k].opc = "BNE"
    \/ /\ tb.insns[k].opc = "B"
       /\ ~ InRel(tb, k - 1)
       /\ "nops" \in passes => \E d \in ToFix : k - 1 = tb.target[d]

DestinationsKept ==
    pc = "done" =>
        LET ids == Ids IN
        \A k \in DOMAIN tb.insns :
            LET to == block.dest[tb.insns[k].id] + 1 IN
            (Repaired(k) /\ to \in ids) => Lands(k, to)

(* A relocation is written to the file exactly when all of its code is.    *)
RelsFollowTails ==
    pc = "done" =>
        LET ids == Ids IN
        \A j \in DOMAIN tb.rels :
            tb.rels[j].valid <=>
                {i + 1 : i \in {n \in 0..Len(block.code) - 1 : Covers(block.rels[j], n)}}
                    \subseteq ids

(* RemoveNonVistor gets past the nops it may not delete.                   *)
Terminates == <>(pc \in {"done", "aborted"})

-----------------------------------------------------------------------------
(* The inductive invariant.                                                *)

TypeOK ==
    /\ block \in Blocks
    /\ passes \in SUBSET {"nops", "tail"}
    /\ pc \in {"nops", "tail0", "tail1", "bne", "b", "done"}
    /\ tb \in TBType
    /\ cur \in Nat

(* A valid relocation stands at its own code; an invalid one has lost some *)
(* of it.                                                                  *)
RelsStand(t) ==
    /\ DOMAIN t.rels = DOMAIN block.rels
    /\ \A j \in DOMAIN block.rels :
        LET own == block.rels[j] IN
        /\ t.rels[j].kind = own.kind /\ t.rels[j].slots = own.slots
        /\ t.rels[j].valid => \A i \in 1..own.slots :
            /\ t.rels[j].off + i \in DOMAIN t.insns
            /\ t.insns[t.rels[j].off + i].id = own.off + i
        /\ ~ t.rels[j].valid => \E i \in 1..own.slots : own.off + i \notin IdsOf(t)

(* A recorded jump is where the block says it is.                          *)
TargetsStand(t) ==
    /\ t.linked = block.linked
    /\ \A d \in Jumps : block.linked[d] =>
        /\ t.target[d] + 1 \in DOMAIN t.insns
        /\ t.insns[t.target[d] + 1].id = block.target[d] + 1

Faithful(t) == PartOf(t, block.code) /\ RelsStand(t) /\ TargetsStand(t)

(* How far the removals are.                                               *)
Progress ==
    /\ pc = "nops" =>
        /\ cur <= Len(tb.insns)
        /\ \A j \in DOMAIN tb.rels : tb.rels[j].valid
        /\ DOMAIN block.code \ IdsOf(tb) \subseteq FreeNops
        /\ \A k \in 1..cur : tb.insns[k].id \notin FreeNops
    /\ pc \in {"tail0", "tail1"} => "tail" \in passes
    /\ pc = "tail0" => IdsOf(tb) = DOMAIN block.code \ FreeNops
    /\ pc = "tail1" => IdsOf(tb) = DOMAIN block.code \ (FreeNops \cup OwnTail(0))
    /\ pc \in {"bne", "b", "done"} => IdsOf(tb) = DOMAIN block.code \ Removable

IndInv == TypeOK /\ Faithful(tb) /\ Progress

(* By identity, the distances of the file.                                 *)
Distances == [k \in DOMAIN block.code |-> block.dest[k] - (k - 1)]

(* Branch k goes where FixBranchVistor is to send it: a BNE to the true    *)
(* jump, the jump without a known successor to its load.                   *)
Sent(k) ==
    LET insn  == tb.insns[k]
        i     == k - 1
        loads == LoadsAfter(i)
        fixed == pc = "done" /\ (\E d \in ToFix : i = tb.target[d]) /\ loads # {}
    IN  offs[insn.id] = IF insn.opc = "BNE" THEN tb.target[1] - i
                        ELSE IF fixed THEN Closest(loads) - i
                        ELSE Distances[insn.id]

DistancesInv ==
    /\ offs \in [DOMAIN block.code -> Int]
    /\ pc \in {"nops", "tail0", "tail1", "bne"} => offs = Distances
    /\ pc \in {"b", "done"} => \A k \in DOMAIN tb.insns : Sent(k)
=============================================================================
