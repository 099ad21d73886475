--------------------------- MODULE PeepholeBlocks ---------------------------
(***************************************************************************)
(* The blocks the peephole passes are given, with the operands they look   *)
(* at, where such a pass stands in its block, and what each of these       *)
(* passes must leave in order.                                             *)
(***************************************************************************)
EXTENDS Machine

CONSTANT Blocks   \* the blocks the passes may be given

VARIABLES
    block,   \* the block as the file holds it
    pass,    \* which pass is running
    tb,      \* the TB object
    node,    \* the position of the node the pass is at; behind the last: end()
    cur      \* the index it takes that node for

BlockType ==
    [code   : Seq(MachineInsn),
     rels   : Seq(RelType),
     linked : [Jumps -> BOOLEAN],
     target : [Jumps -> Nat]]

(* An ori has an immediate without sign, as decoding extracts it.          *)
(* Relocations lie inside the code, no two on one instruction, and a       *)
(* recorded jump is a B.                                                   *)
WellFormedBlock(blk) ==
    LET n == Len(blk.code) IN
    /\ blk \in BlockType
    /\ \A k \in 1..n : blk.code[k].opc = "ORI" => blk.code[k].imm \in 0..2^OriBits - 1
    /\ \A j \in DOMAIN blk.rels :
        blk.rels[j].valid /\ blk.rels[j].off + blk.rels[j].slots <= n
    /\ \A i \in 0..n - 1 : \A j, k \in DOMAIN blk.rels :
        Covers(blk.rels[j], i) /\ Covers(blk.rels[k], i) => j = k
    /\ \A d \in Jumps :
        blk.linked[d] => blk.target[d] < n /\ blk.code[blk.target[d] + 1].opc = "B"

ASSUME BlocksAssumption == \A blk \in Blocks : WellFormedBlock(blk)

Decoded(blk) ==
    LET insns == [k \in DOMAIN blk.code |->
                    [id  |-> k, opc |-> blk.code[k].opc, dst |-> blk.code[k].dst,
                     src |-> blk.code[k].src, imm |-> blk.code[k].imm]]
    IN  [insns    |-> insns,
         branches |-> AddBranches([c \in BranchClasses |-> <<>>], insns, 0),
         rels     |-> blk.rels,
         linked   |-> blk.linked,
         target   |-> blk.target]

(* The identity of the instruction at position n, 0 if there is none.      *)
IdAt(t, n) == IF n \in DOMAIN t.insns THEN t.insns[n].id ELSE 0

(* What blk recorded about its instructions still is about them: valid     *)
(* relocations, recorded jumps and the entries of the branch vectors are   *)
(* at their instructions, and a relocation is given up only with one of    *)
(* its instructions.                                                       *)
Anchored(t, blk) ==
    /\ \A j \in DOMAIN t.rels :
        LET under == {blk.rels[j].off + k : k \in 1..blk.rels[j].slots} IN
        IF t.rels[j].valid
        THEN \A k \in 1..t.rels[j].slots :
                IdAt(t, t.rels[j].off + k) = blk.rels[j].off + k
        ELSE \E id \in under : \A k \in DOMAIN t.insns : t.insns[k].id # id
    /\ \A d \in Jumps : t.linked[d] =>
        IdAt(t, t.target[d] + 1) = blk.target[d] + 1
    /\ \A c \in BranchClasses : \A k \in DOMAIN t.branches[c] :
        IdAt(t, t.branches[c][k].off + 1) = t.branches[c][k].insn

=============================================================================
