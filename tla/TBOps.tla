------------------------------- MODULE TBOps -------------------------------
(***************************************************************************)
(* The disassembled translation block (class TB of lib/AOT_class) and its  *)
(* editing operations, as pure operators over a record.                    *)
(*                                                                         *)
(* A block holds the instruction list, three vectors that index its        *)
(* branches by position, the relocation entries with their validity bits,  *)
(* and the two direct jumps recorded by the translator (0 is the false or  *)
(* fall-through jump, 1 the true one).  Everything is positional, so every *)
(* edit has to shift everything else.                                      *)
(*                                                                         *)
(* A definition introduced as a slip is the one after it with a bug a      *)
(* programmer could make; nothing uses it.  A property that still held     *)
(* with the slip in place would say nothing about the code.                *)
(*                                                                         *)
(* Positions are counted in instructions: tc_offset and jmp_target_arg are *)
(* byte offsets in the source and always multiples of four.  An index is   *)
(* 0-based as in the source; the instruction at index i is insns[i + 1].   *)
(***************************************************************************)
EXTENDS Integers, SequencesExt

BranchClasses == {"B", "BNE", "OTHER"}
OpClasses     == BranchClasses \cup {"PLAIN"}
RelKinds      == {"B_EPILOGUE", "LOAD_TB_ADDR", "LOAD"}
Jumps         == {0, 1}

BranchType == [insn : Nat, off : Nat]
RelType    == [kind : RelKinds, off : Nat, slots : Nat \ {0}, valid : BOOLEAN]

(* class TB.  linked[d] says that jmp_reset_offsets[d] is not              *)
(* TB_JMP_RESET_OFFSET_INVALID; target[d] is jmp_target_arg[d].  An        *)
(* instruction carries its identity (the LoongArchInsInfo pointer).        *)
TBType ==
    [insns    : Seq([id : Nat, opc : OpClasses]),
     branches : [BranchClasses -> Seq(BranchType)],
     rels     : Seq(RelType),
     linked   : [Jumps -> BOOLEAN],
     target   : [Jumps -> Nat]]

-----------------------------------------------------------------------------
(* Relocation entries.                                                     *)

Covers(rel, i) == rel.off <= i /\ i < rel.off + rel.slots

(* rels[j] is valid and one of its slots is the instruction at index i.    *)
ValidAt(tb, j, i) == tb.rels[j].valid /\ Covers(tb.rels[j], i)

InRel(tb, i) == \E j \in DOMAIN tb.rels : ValidAt(tb, j, i)

Disjoint(r, s) == r.off + r.slots <= s.off \/ s.off + s.slots <= r.off

-----------------------------------------------------------------------------
(* The branch vectors.                                                     *)

(* check_and_add_branch_insn and __add_b_insn: a branch goes to the back   *)
(* of its vector, any other instruction to none.                           *)
AddBranch(branches, insn, i) ==
    [c \in BranchClasses |->
        IF insn.opc = c THEN Append(branches[c], [insn |-> insn.id, off |-> i])
                        ELSE branches[c]]

(* The branches found while insns is appended to a list of length base.    *)
(* The slip counts their places from the start of insns.                   *)
AddBranchesFromStart(branches, insns, base) ==
    LET added[k \in 0..Len(insns)] ==
            IF k = 0 THEN branches ELSE AddBranch(added[k - 1], insns[k], k - 1)
    IN  added[Len(insns)]

AddBranches(branches, insns, base) ==
    LET added[k \in 0..Len(insns)] ==
            IF k = 0 THEN branches ELSE AddBranch(added[k - 1], insns[k], base + k - 1)
    IN  added[Len(insns)]

EraseBranchAt(vector, i) == RemoveFirstMatch(vector, LAMBDA e : e.off = i)

ShiftDown(vector, i) ==
    [k \in DOMAIN vector |->
        [vector[k] EXCEPT !.off = IF @ > i THEN @ - 1 ELSE @]]

ShiftUp(vector, i) ==
    [k \in DOMAIN vector |->
        [vector[k] EXCEPT !.off = IF @ > i THEN @ + 1 ELSE @]]

(* A slip: only the vector of the B instructions forgets a deleted branch. *)
DropBranchOfB(branches, insn, i) ==
    [c \in BranchClasses |->
        ShiftDown(IF insn.opc = c /\ c = "B" THEN EraseBranchAt(branches[c], i)
                                             ELSE branches[c], i)]

DropBranch(branches, insn, i) ==
    [c \in BranchClasses |->
        ShiftDown(IF insn.opc = c THEN EraseBranchAt(branches[c], i)
                                  ELSE branches[c], i)]

-----------------------------------------------------------------------------
(* Deleting.                                                               *)

(* Two slips in the shift: one instruction late, and of every relocation   *)
(* at or above the index, valid or not.                                    *)
RelsAfterRemoveLate(rels, i) ==
    [j \in DOMAIN rels |->
        IF rels[j].valid /\ i + 1 < rels[j].off
        THEN [rels[j] EXCEPT !.off = @ - 1] ELSE rels[j]]

RelsAfterRemoveUnguarded(rels, i) ==
    [j \in DOMAIN rels |->
        IF i <= rels[j].off THEN [rels[j] EXCEPT !.off = @ - 1] ELSE rels[j]]

RelsAfterRemove(rels, i) ==
    [j \in DOMAIN rels |->
        IF rels[j].valid /\ i < rels[j].off
        THEN [rels[j] EXCEPT !.off = @ - 1] ELSE rels[j]]

(* A slip: the recorded jumps are not moved.                               *)
RemoveInsnKeepTargets(tb, n, i) ==
    [tb EXCEPT
        !.insns    = RemoveAt(@, n),
        !.branches = DropBranch(@, tb.insns[n], i),
        !.rels     = RelsAfterRemove(@, i)]

(* What both deletions do once they have decided to delete: the node at    *)
(* position n of the list goes, and everything recorded for an index above *)
(* i moves down.  The caller is trusted to pass the node of index i, that  *)
(* is n = i + 1.  The reset offsets are left alone.                        *)
RemoveInsn(tb, n, i) ==
    [tb EXCEPT
        !.insns    = RemoveAt(@, n),
        !.branches = DropBranch(@, tb.insns[n], i),
        !.rels     = RelsAfterRemove(@, i),
        !.target   = [d \in Jumps |->
                        IF tb.linked[d] /\ @[d] > i THEN @[d] - 1 ELSE @[d]]]

(* TB::delete_ith_insn refuses an instruction that a relocation covers.    *)
DeleteIthInsn(tb, n, i) == IF InRel(tb, i) THEN tb ELSE RemoveInsn(tb, n, i)

(* A slip: the slot after the last one counts as covered.                  *)
FirstRelAtOrBefore(tb, j, i) ==
    /\ tb.rels[j].valid
    /\ tb.rels[j].off <= i /\ i <= tb.rels[j].off + tb.rels[j].slots
    /\ \A k \in DOMAIN tb.rels : k < j => ~ ValidAt(tb, k, i)

(* The first loop of TB::delete_ith_insn_alongwith_rel: only the first     *)
(* relocation found to cover index i is invalidated.                       *)
FirstRelAt(tb, j, i) ==
    /\ ValidAt(tb, j, i)
    /\ \A k \in DOMAIN tb.rels : k < j => ~ ValidAt(tb, k, i)

InvalidateRelAt(tb, i) ==
    [tb EXCEPT !.rels =
        [j \in DOMAIN tb.rels |->
            [tb.rels[j] EXCEPT !.valid = @ /\ ~ FirstRelAt(tb, j, i)]]]

DeleteIthInsnAlongWithRel(tb, n, i) == RemoveInsn(InvalidateRelAt(tb, i), n, i)

(* The loops that delete count instructions in a row, each time the one    *)
(* that has moved to index i.                                              *)
DeleteRun(tb, i, count) ==
    LET after[k \in 0..count] ==
            IF k = 0 THEN tb
                     ELSE DeleteIthInsnAlongWithRel(after[k - 1], i + 1, i)
    IN  after[count]

(* TB::delete_ith_rel                                                      *)
DeleteIthRel(tb, j) ==
    IF tb.rels[j].valid THEN DeleteRun(tb, tb.rels[j].off, tb.rels[j].slots)
                        ELSE tb

-----------------------------------------------------------------------------
(* Adding.                                                                 *)

RelsAfterAdd(rels, at) ==
    [j \in DOMAIN rels |->
        IF rels[j].valid /\ rels[j].off >= at
        THEN [rels[j] EXCEPT !.off = @ + 1] ELSE rels[j]]

(* A slip: a recorded jump at the inserted index stays behind.             *)
AddInsnPastTarget(tb, p, insn, index) ==
    LET at == index + 1 IN
    [tb EXCEPT
        !.insns    = InsertAt(@, p + 1, insn),
        !.branches = AddBranch([c \in BranchClasses |-> ShiftUp(@[c], at)], insn, at),
        !.rels     = RelsAfterAdd(@, at),
        !.target   = [d \in Jumps |->
                        IF tb.linked[d] /\ @[d] > at THEN @[d] + 1 ELSE @[d]]]

(* TB::add_insn inserts after the node at position p (0 is the list's head *)
(* sentinel), which the caller says has the given index; an index of -1 is *)
(* 0xffffffff, and index + 1 wraps to 0.  It exits when InRel holds of the *)
(* inserted index.                                                         *)
AddInsn(tb, p, insn, index) ==
    LET at == index + 1 IN
    [tb EXCEPT
        !.insns    = InsertAt(@, p + 1, insn),
        !.branches = AddBranch([c \in BranchClasses |-> ShiftUp(@[c], at)], insn, at),
        !.rels     = RelsAfterAdd(@, at),
        !.target   = [d \in Jumps |->
                        IF tb.linked[d] /\ @[d] >= at THEN @[d] + 1 ELSE @[d]]]

-----------------------------------------------------------------------------
(* The shape the peephole passes ask for.                                  *)

(* An epilogue relocation is recorded at the branch's index.  The code     *)
(* does not look at the relocation's validity bit.                         *)
FallsBack(tb, b) ==
    \E j \in DOMAIN tb.rels :
        tb.rels[j].kind = "B_EPILOGUE" /\ tb.rels[j].off = b.off

(* The recorded jumps in the order the code compares them.                 *)
LinkedJumps(tb) ==
    LET IfLinked(d) == IF tb.linked[d] THEN <<d>> ELSE <<>>
    IN  IfLinked(0) \o IfLinked(1)

(* TB::pipehole_opt_available: the B instructions are exactly the recorded *)
(* jumps, in order, or each of them followed by its fall-back to the       *)
(* epilogue; a BNE chooses between two jumps; no other branch exists.      *)
PipeholeOptAvailable(tb) ==
    LET jumps == LinkedJumps(tb)
        n     == Len(jumps)
        b     == tb.branches["B"]
    IN  /\ tb.branches["OTHER"] = <<>>
        /\ Len(tb.branches["BNE"]) = IF n = 2 THEN 1 ELSE 0
        /\ \/ n = 0 /\ Len(b) = 1
           \/ /\ n > 0 /\ Len(b) = n
              /\ \A k \in 1..n : b[k].off = tb.target[jumps[k]]
           \/ /\ n > 0 /\ Len(b) = 2 * n
              /\ \A k \in 1..n : /\ b[2 * k - 1].off = tb.target[jumps[k]]
                                 /\ FallsBack(tb, b[2 * k])

-----------------------------------------------------------------------------
(* What every edit of a pass has to keep.                                  *)

(* A vector lists every branch of its class once, at the index it has in   *)
(* the list, in increasing order: pipehole_opt_available compares entries  *)
(* by their place in the vector.                                           *)
BranchIndexed(t, c) ==
    LET v == t.branches[c] IN
    /\ \A e \in DOMAIN v :
        /\ v[e].off < Len(t.insns)
        /\ t.insns[v[e].off + 1] = [id |-> v[e].insn, opc |-> c]
    /\ \A e, f \in DOMAIN v : e < f => v[e].off < v[f].off
    /\ \A k \in DOMAIN t.insns :
        t.insns[k].opc = c => \E e \in DOMAIN v : v[e].off = k - 1

AllBranchesIndexed(t) == \A c \in BranchClasses : BranchIndexed(t, c)

IdsOf(t) == {t.insns[k].id : k \in DOMAIN t.insns}

(* Where the instruction decoded from code[k] has identity k: the list is  *)
(* a part of the code, in the order of the code.                           *)
PartOf(t, code) ==
    /\ \A k \in DOMAIN t.insns :
        /\ t.insns[k].id \in DOMAIN code
        /\ t.insns[k].opc = code[t.insns[k].id]
    /\ \A k, m \in DOMAIN t.insns : k < m => t.insns[k].id < t.insns[m].id

=============================================================================
