------------------------------- MODULE TBEdit -------------------------------
(***************************************************************************)
(* One translation block from its load to its last edit.                   *)
(*                                                                         *)
(* The block's relocations are attached first (TB_AddRels_Vistor), its     *)
(* code is then decoded instruction by instruction into the list and the   *)
(* branch vectors (DisassmbleVistor), its shape is tested once and         *)
(* remembered (pipehole_available), and from then on any pass may call any *)
(* editing operation of class TB in any order.                             *)
(*                                                                         *)
(* Instruction identities make the promises of the operations expressible: *)
(* the instruction decoded from code[k] has identity k for as long as it   *)
(* is in the list, and an added instruction gets an identity of its own.   *)
(***************************************************************************)
EXTENDS TBOps

CONSTANTS
    Blocks,    \* the blocks a file may hold, as read from it
    MaxAdded   \* bound on the instructions added to one block

(* What the translator guarantees of a block it wrote: relocations lie     *)
(* inside the code and share no instruction, recorded jumps are inside.    *)
WellFormedBlock(blk) ==
    /\ blk \in [code : Seq(OpClasses), rels : Seq(RelType),
                linked : [Jumps -> BOOLEAN], target : [Jumps -> Nat]]
    /\ \A j \in DOMAIN blk.rels :
        /\ blk.rels[j].valid
        /\ blk.rels[j].off + blk.rels[j].slots <= Len(blk.code)
    /\ \A j, k \in DOMAIN blk.rels : j = k \/ Disjoint(blk.rels[j], blk.rels[k])
    /\ \A d \in Jumps : blk.linked[d] => blk.target[d] < Len(blk.code)

ASSUME BlocksAssumption == \A blk \in Blocks : WellFormedBlock(blk)
ASSUME MaxAddedAssumption == MaxAdded \in Nat

VARIABLES
    block,     \* the block as the file holds it
    tb,        \* the TB object
    phase,     \* where its life is: "decode", "edit", or "exited"
    pipehole,  \* TB::pipehole_available
    added      \* how many instructions were added

vars == <<block, tb, phase, pipehole, added>>

-----------------------------------------------------------------------------
(* Loading.                                                                *)

Init ==
    /\ block \in Blocks
    /\ tb = [insns    |-> <<>>,
             branches |-> [c \in BranchClasses |-> <<>>],
             rels     |-> block.rels,
             linked   |-> block.linked,
             target   |-> block.target]
    /\ phase = "decode"
    /\ pipehole = FALSE
    /\ added = 0

(* One round of the loop of DisassmbleVistor::visit.                       *)
DecodeInsn ==
    LET i == Len(tb.insns) IN
    /\ phase = "decode"
    /\ i < Len(block.code)
    /\ LET insn == [id |-> i + 1, opc |-> block.code[i + 1]] IN
       tb' = [tb EXCEPT !.branches = AddBranch(@, insn, i),
                        !.insns    = Append(@, insn)]
    /\ UNCHANGED <<block, phase, pipehole, added>>

DecodeDone ==
    /\ phase = "decode"
    /\ Len(tb.insns) = Len(block.code)
    /\ pipehole' = PipeholeOptAvailable(tb)
    /\ phase' = "edit"
    /\ UNCHANGED <<block, tb, added>>

-----------------------------------------------------------------------------
(* Editing.                                                                *)

Indices == 0..Len(tb.insns) - 1

DeleteInsn(i) ==
    /\ phase = "edit"
    /\ tb' = DeleteIthInsn(tb, i + 1, i)
    /\ UNCHANGED <<block, phase, pipehole, added>>

DeleteInsnWithRel(i) ==
    /\ phase = "edit"
    /\ tb' = DeleteIthInsnAlongWithRel(tb, i + 1, i)
    /\ UNCHANGED <<block, phase, pipehole, added>>

DeleteRel(j) ==
    /\ phase = "edit"
    /\ tb' = DeleteIthRel(tb, j)
    /\ UNCHANGED <<block, phase, pipehole, added>>

(* TB::add_insn after the instruction of the given index, or at the head.  *)
(* add_insn_at_tail is the case of the last index.                         *)
InsertInsn(index, opc) ==
    /\ phase = "edit"
    /\ added < MaxAdded
    /\ LET insn == [id |-> Len(block.code) + added + 1, opc |-> opc] IN
       IF InRel(tb, index + 1)
       THEN /\ phase' = "exited"
            /\ UNCHANGED <<tb, added>>
       ELSE /\ tb' = AddInsn(tb, index + 1, insn, index)
            /\ added' = added + 1
            /\ UNCHANGED phase
    /\ UNCHANGED <<block, pipehole>>

Load == DecodeInsn \/ DecodeDone

Delete ==
    \/ \E i \in Indices : DeleteInsn(i) \/ DeleteInsnWithRel(i)
    \/ \E j \in DOMAIN tb.rels : DeleteRel(j)

Insert == \E index \in {-1} \cup Indices, opc \in OpClasses : InsertInsn(index, opc)

Next == Load \/ Delete \/ Insert

Spec == Init /\ [][Next]_vars

(* The passes of the repository delete, and splice whole blocks in; none   *)
(* of them calls add_insn.                                                 *)
PassesNext == Load \/ Delete

PassesSpec == Init /\ [][PassesNext]_vars

-----------------------------------------------------------------------------
(* Properties.                                                             *)

TypeOK ==
    /\ WellFormedBlock(block)
    /\ tb \in TBType
    /\ phase \in {"decode", "edit", "exited"}
    /\ pipehole \in BOOLEAN
    /\ added \in 0..MaxAdded

(* However a decoded block is edited, a relocation that is still valid is  *)
(* applied to the very instructions it was emitted for: the loader patches *)
(* tc_offset, so one missed shift (aot_class.cpp:85-91, 354-360, 391-397)  *)
(* corrupts an innocent instruction at load time.                          *)
RelAnchored(t, j) ==
    LET rel == t.rels[j]
        was == block.rels[j]
    IN  /\ rel.slots = was.slots
        /\ rel.off + rel.slots <= Len(t.insns)
        /\ \A s \in 0..rel.slots - 1 :
            t.insns[rel.off + s + 1].id = was.off + s + 1

AllRelsAnchored(t) == \A j \in DOMAIN t.rels : t.rels[j].valid => RelAnchored(t, j)

RelsAnchored == phase # "decode" => AllRelsAnchored(tb)

(* A recorded direct jump (jmp_target_arg) keeps pointing at the branch it *)
(* was recorded for as long as that branch is in the block: the loader     *)
(* rewrites the instruction it points at to link blocks.                   *)
AllTargetsAnchored(t) ==
    \A d \in Jumps : \A k \in DOMAIN t.insns :
        (t.linked[d] /\ t.insns[k].id = block.target[d] + 1)
            => t.target[d] = k - 1

TargetsAnchored == AllTargetsAnchored(tb)

(* The branch vectors list the branches of the list, at their indices.     *)
(* Holds of the passes, which only delete.                                 *)
BranchesIndexed == AllBranchesIndexed(tb)

(* pipehole_available is computed once, after decoding, and read before    *)
(* every later pass.  It does not go stale as long as every branch the     *)
(* block was loaded with is still there.                                   *)
BranchCount(opcs) == Cardinality({k \in DOMAIN opcs : opcs[k] \in BranchClasses})

PipeholeFresh ==
    (phase = "edit" /\ BranchCount([k \in DOMAIN tb.insns |-> tb.insns[k].opc])
                        = BranchCount(block.code))
        => pipehole = PipeholeOptAvailable(tb)

(* delete_ith_insn_alongwith_rel gives up at most one relocation, and only *)
(* the one that covered the deleted instruction; every other operation     *)
(* gives up none, except delete_ith_rel, which gives up the one named.     *)
RelsGivenUp == {j \in DOMAIN tb.rels : tb.rels[j].valid /\ ~ tb.rels[j].valid'}

OnlyTouchedRelsGivenUp ==
    [][\A j \in RelsGivenUp : \E k \in DOMAIN tb.insns :
            /\ Covers(tb.rels[j], k - 1)
            /\ \A m \in DOMAIN tb.insns' : tb.insns'[m].id # tb.insns[k].id]_vars

-----------------------------------------------------------------------------
(* The inductive invariant behind RelsAnchored and TargetsAnchored.        *)

(* No instruction is covered by two valid relocations: without it the      *)
(* break in delete_ith_insn_alongwith_rel would leave a valid relocation   *)
(* over a deleted instruction.                                             *)
RelsDisjoint(t) ==
    \A j, k \in DOMAIN t.rels :
        (j # k /\ t.rels[j].valid /\ t.rels[k].valid)
            => Disjoint(t.rels[j], t.rels[k])

Loaded(t) ==
    /\ t \in TBType
    /\ DOMAIN t.rels = DOMAIN block.rels
    /\ t.linked = block.linked

Sound(t) ==
    /\ Loaded(t)
    /\ AllRelsAnchored(t)
    /\ RelsDisjoint(t)
    /\ AllTargetsAnchored(t)

Decoding(t) ==
    /\ Loaded(t)
    /\ t.rels = block.rels
    /\ t.target = block.target
    /\ Len(t.insns) <= Len(block.code)
    /\ \A k \in DOMAIN t.insns : t.insns[k].id = k

IndInv ==
    /\ TypeOK
    /\ phase = "decode" => Decoding(tb)
    /\ phase # "decode" => Sound(tb)
=============================================================================
