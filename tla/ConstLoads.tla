----------------------------- MODULE ConstLoads -----------------------------
(***************************************************************************)
(* The passes that replace the load of a constant by one addi.d from a     *)
(* register that holds a constant close to it: Lu12i_Ori_Lu32i_Vistor for  *)
(* loads of three instructions, then Lu12i_Ori_Vistor for those of two, on *)
(* one block.  Both have the same two loops: visit looks for a first load, *)
(* and hands over to the opt function, which knows the registers that hold *)
(* constants (ConstRegSet) and gives back at a branch or when it knows     *)
(* none.                                                                   *)
(*                                                                         *)
(* What must not change is said with module Machine, whose narrow          *)
(* immediates the arithmetic here has as well.                             *)
(*                                                                         *)
(* A definition introduced as a slip is the one after it with a bug a      *)
(* programmer could make; nothing uses it.                                 *)
(***************************************************************************)
EXTENDS PeepholeBlocks

(* The pass is named by the number of instructions it replaces: 3 or 2.    *)
VARIABLES
    pc,        \* "visit" or "opt", the loop it is in, or "done"
    const,     \* const_set: the constants known, by register
    exposed    \* whether the code has taken a relocated load for a constant

vars == <<block, pass, pc, tb, node, cur, const, exposed>>

(* Either the driver runs both passes or only the second, and start leaves *)
(* out a block that pipehole_opt_available did not find to be of a shape   *)
(* it knows.                                                               *)
Init ==
    /\ block \in Blocks
    /\ pass \in {3, 2}
    /\ tb = Decoded(block)
    /\ pc = IF PipeholeOptAvailable(tb) THEN "visit" ELSE "done"
    /\ node = 1
    /\ cur = 0
    /\ const = <<>>
    /\ exposed = FALSE

-----------------------------------------------------------------------------
(* ConstRegSet.                                                            *)

SetConst(set, reg, imm) ==
    IF reg = 0 THEN set
               ELSE [r \in DOMAIN set \cup {reg} |-> IF r = reg THEN imm ELSE set[r]]

Kill(set, reg) == [r \in DOMAIN set \ {reg} |-> set[r]]

-----------------------------------------------------------------------------
(* Recognising and evaluating a load.                                      *)

AtEnd  == node > Len(tb.insns)
Insn   == tb.insns[node]
Branch == Insn.opc \in {"B", "BNE"}

(* is_lu12i_ori_pattern, is_lu12i_ori_lu32i_pattern                        *)
IsPattern ==
    /\ node + pass - 1 <= Len(tb.insns)
    /\ Insn.opc = "LU12I_W"
    /\ tb.insns[node + 1].opc = "ORI"
    /\ tb.insns[node + 1].dst = Insn.dst
    /\ tb.insns[node + 1].src = Insn.dst
    /\ pass = 3 => /\ tb.insns[node + 2].opc = "LU32I_D"
                   /\ tb.insns[node + 2].dst = Insn.dst

(* simulate_lu12i_w, simulate_ori on a value whose low bits are zero, and  *)
(* simulate_lu32i_d                                                        *)
Lu12i(si)      == si * 2^OriBits
Ori(reg, ui)   == reg + (ui % 2^OriBits)
Lu32i(reg, si) == (reg % 2^LowBits) + si * 2^LowBits

(* get_lu12i_ori_res, get_lu12i_ori_lu32i_res                              *)
Loaded(insns, at, count) ==
    LET low == Ori(Lu12i(insns[at].imm), insns[at + 1].imm)
    IN  IF count = 3 THEN Lu32i(low, insns[at + 2].imm) ELSE low

CanSubstituteWithAddi(diff) == -(2^(OriBits - 1)) <= diff /\ diff < 2^(OriBits - 1)

(* The registers an addi.d can start from, of which the loop takes the     *)
(* lowest.                                                                 *)
Sources(imm) == {r \in DOMAIN const : CanSubstituteWithAddi(imm - const[r])}

(* TB::in_scope_of_rel                                                     *)
InScopeOfRel(i, count) ==
    \E j \in DOMAIN tb.rels :
        LET rel == tb.rels[j] IN
        rel.valid /\ i + count > rel.off /\ rel.off + rel.slots > i

-----------------------------------------------------------------------------
(* The loop of visit.                                                      *)

(* A load the pass may begin with.  Neither visit asks whether a           *)
(* relocation covers it.                                                   *)
FirstLoad ==
    /\ pc = "visit"
    /\ ~ AtEnd /\ ~ Branch /\ IsPattern
    /\ const' = SetConst(const, Insn.dst, Loaded(tb.insns, node, pass))
    /\ exposed' = (exposed \/ InScopeOfRel(cur, pass))
    /\ node' = node + pass
    /\ cur' = cur + pass
    /\ pc' = "opt"
    /\ UNCHANGED <<block, pass, tb>>

VisitStep ==
    /\ pc = "visit"
    /\ ~ AtEnd /\ ~ Branch /\ ~ IsPattern
    /\ node' = node + 1
    /\ cur' = cur + 1
    /\ UNCHANGED <<block, pass, pc, tb, const, exposed>>

(* The pass is over; Lu12i_Ori_Vistor runs after Lu12i_Ori_Lu32i_Vistor.   *)
VisitDone ==
    /\ pc = "visit"
    /\ AtEnd \/ Branch
    /\ IF pass = 3
       THEN /\ pass' = 2 /\ node' = 1 /\ cur' = 0 /\ const' = <<>>
            /\ UNCHANGED pc
       ELSE /\ pc' = "done"
            /\ UNCHANGED <<pass, node, cur, const>>
    /\ UNCHANGED <<block, tb, exposed>>

-----------------------------------------------------------------------------
(* The loop of opt_lu12i_ori_parttern and opt_lu12i_ori_lu32i_pattern.     *)

(* A slip: the index moves on while the instructions move up to it.        *)
SubstituteStepping(src, diff) ==
    LET deleted[k \in 0..pass - 1] ==
            IF k = 0 THEN tb
                     ELSE DeleteIthInsnAlongWithRel(deleted[k - 1], node + 1, cur + k)
    IN  [deleted[pass - 1] EXCEPT
            !.insns[node] = [@ EXCEPT !.opc = "ADDI_D", !.src = src, !.imm = diff]]

(* substitue_with_addi_insn                                                *)
Substitute(src, diff) ==
    LET deleted[k \in 0..pass - 1] ==
            IF k = 0 THEN tb
                     ELSE DeleteIthInsnAlongWithRel(deleted[k - 1], node + 1, cur + 1)
    IN  [deleted[pass - 1] EXCEPT
            !.insns[node] = [@ EXCEPT !.opc = "ADDI_D", !.src = src, !.imm = diff]]

(* A slip: no relocation is looked for.                                    *)
ReplaceableAnywhere == IsPattern

(* Only Lu12i_Ori_Vistor leaves relocated loads alone.                     *)
Replaceable == IsPattern /\ (pass = 2 => ~ InScopeOfRel(cur, 2))

ReplaceLoad ==
    /\ pc = "opt"
    /\ ~ AtEnd /\ Replaceable
    /\ LET imm == Loaded(tb.insns, node, pass) IN
        /\ Sources(imm) # {}
        /\ LET src == CHOOSE r \in Sources(imm) : \A s \in Sources(imm) : r <= s
           IN  tb' = Substitute(src, imm - const[src])
        /\ const' = SetConst(const, Insn.dst, imm)
    /\ exposed' = (exposed \/ (pass = 3 /\ InScopeOfRel(cur, 3)))
    /\ node' = node + 1
    /\ cur' = cur + 1
    /\ UNCHANGED <<block, pass, pc>>

LearnLoad ==
    /\ pc = "opt"
    /\ ~ AtEnd /\ Replaceable
    /\ LET imm == Loaded(tb.insns, node, pass) IN
        /\ Sources(imm) = {}
        /\ const' = SetConst(const, Insn.dst, imm)
    /\ exposed' = (exposed \/ (pass = 3 /\ InScopeOfRel(cur, 3)))
    /\ node' = node + pass
    /\ cur' = cur + pass
    /\ UNCHANGED <<block, pass, pc, tb>>

(* A slip: what the instruction writes is still believed.                  *)
OptStepUnkilled ==
    /\ pc = "opt"
    /\ ~ AtEnd /\ ~ Replaceable /\ ~ Branch
    /\ node' = node + 1
    /\ cur' = cur + 1
    /\ UNCHANGED <<block, pass, pc, tb, const, exposed>>

OptStep ==
    /\ pc = "opt"
    /\ ~ AtEnd /\ ~ Replaceable /\ ~ Branch
    /\ const' = Kill(const, Insn.dst)
    /\ node' = node + 1
    /\ cur' = cur + 1
    /\ pc' = IF const' = <<>> THEN "visit" ELSE "opt"
    /\ UNCHANGED <<block, pass, tb, exposed>>

OptReturn ==
    /\ pc = "opt"
    /\ AtEnd \/ Branch
    /\ pc' = "visit"
    /\ UNCHANGED <<block, pass, tb, node, cur, const, exposed>>

Next ==
    \/ FirstLoad \/ VisitStep \/ VisitDone
    \/ ReplaceLoad \/ LearnLoad \/ OptStep \/ OptReturn

Spec == Init /\ [][Next]_vars

-----------------------------------------------------------------------------
(* Properties.                                                             *)

(* Whatever the pass has replaced so far, every register and every store   *)
(* is what it was with the block as the file holds it, and the code from   *)
(* the first branch on is untouched: the substitutions of                  *)
(* Lu12i_Ori_Vistor.cpp:41-51 rest on ConstRegSet being right about        *)
(* registers written many instructions before.                             *)
RegistersKept ==
    LET before == Decoded(block) IN
    /\ Run(tb.insns, tb.rels, FALSE) = Run(before.insns, before.rels, FALSE)
    /\ Behind(tb.insns) = Behind(before.insns)

(* The same when the loader has placed the block's relocated constants     *)
(* elsewhere, as long as no relocated load has been taken for a constant:  *)
(* what the test of Lu12i_Ori_Vistor.cpp:36 is for.  Line 88, and both     *)
(* loops of Lu12i_Ori_Lu32i_Vistor.cpp, do take them; then nothing is      *)
(* promised.                                                               *)
KeptWhereverPlaced ==
    LET before == Decoded(block) IN
    ~ exposed => Run(tb.insns, tb.rels, TRUE) = Run(before.insns, before.rels, TRUE)

(* The node the pass is at and the index it counts for it agree after      *)
(* every substitution, and so relocations and recorded jumps stay on their *)
(* instructions, and a relocation is given up only with one of its own     *)
(* (substitue_with_addi_insn deletes by node and by index).                *)
InStep == cur = node - 1 /\ Anchored(tb, block)

=============================================================================
