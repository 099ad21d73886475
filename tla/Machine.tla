------------------------------- MODULE Machine -------------------------------
(***************************************************************************)
(* What registers and memory hold after the straight part of a block, the  *)
(* instructions before its first branch.  This is the LoongArch machine    *)
(* and the loader, not the optimizer: it says what a peephole pass must    *)
(* leave as it was.                                                        *)
(*                                                                         *)
(* A value is a known number or a number away from something unknown, and  *)
(* unknown things are told apart by a sequence: what the register held     *)
(* before, what instruction id made of its operand, where the loader put   *)
(* what relocation j is about, what an address holds after so many stores. *)
(* Immediates are narrower than in the machine, but of the same relation:  *)
(* ori has OriBits bits (12), lu12i.w and ori together LowBits (32).       *)
(***************************************************************************)
EXTENDS TBOps

CONSTANTS
    Regs,      \* the registers, numbered from 0; register 0 is zero
    OriBits,   \* the width of ori's and addi.d's immediate
    LowBits    \* the width of what lu12i.w and ori load

ASSUME MachineAssumption ==
    /\ OriBits \in Nat \ {0}
    /\ LowBits \in Nat /\ LowBits >= OriBits
    /\ 0 \in Regs /\ Regs \subseteq Nat

Opcodes == {"LU12I_W", "ORI", "LU32I_D", "ADDI_D", "ST_D", "LD_D", "PLAIN",
            "B", "BNE", "OTHER"}

MachineInsn == [opc : Opcodes, dst : Regs, src : Regs, imm : Int]

Known(n)      == [of |-> <<>>, plus |-> n]
Unknown(name) == [of |-> name, plus |-> 0]

Before(reg)       == IF reg = 0 THEN Known(0) ELSE Unknown(<<1, reg>>)
Made(id, v)       == Unknown(<<2, id>> \o v.of \o <<v.plus>>)
Placed(j)         == Unknown(<<3, j>>)
Held(addr, after) == Unknown(<<4, after>> \o addr.of \o <<addr.plus>>)

IsKnown(v) == v.of = <<>>
Away(v, n) == [v EXCEPT !.plus = @ + n]

(* The relocations the instruction at index i is patched for: where the    *)
(* loader has placed things elsewhere, it has patched the loads that valid *)
(* relocations cover.                                                      *)
Patched(rels, i, placed) ==
    {j \in DOMAIN rels : placed /\ rels[j].valid /\ Covers(rels[j], i)}

(* What an instruction puts into its dst (a store has its data there, and  *)
(* leaves it alone).  The lu12i.w of a patched load here stands for the    *)
(* whole load.                                                             *)
Result(insn, s, patched) ==
    LET src == s.regs[insn.src]
        dst == s.regs[insn.dst]
    IN  IF patched # {}
        THEN IF insn.opc = "LU12I_W" THEN Placed(CHOOSE j \in patched : TRUE) ELSE dst
        ELSE CASE insn.opc = "LU12I_W" -> Known(insn.imm * 2^OriBits)
               [] insn.opc = "ORI" /\ IsKnown(src) /\ src.plus % 2^OriBits = 0 ->
                    Away(src, insn.imm)
               [] insn.opc = "LU32I_D" /\ IsKnown(dst) ->
                    Known((dst.plus % 2^LowBits) + insn.imm * 2^LowBits)
               [] insn.opc = "LU32I_D" /\ ~ IsKnown(dst) -> Made(insn.id, dst)
               [] insn.opc = "ADDI_D" -> Away(src, insn.imm)
               [] insn.opc = "ST_D" -> dst
               [] insn.opc = "LD_D" -> Held(Away(src, insn.imm), Len(s.stores))
               [] OTHER -> Made(insn.id, src)

Executed(s, insn, patched) ==
    [regs   |-> IF insn.dst = 0 THEN s.regs
                ELSE [s.regs EXCEPT ![insn.dst] = Result(insn, s, patched)],
     stores |-> IF insn.opc = "ST_D"
                THEN Append(s.stores, <<Away(s.regs[insn.src], insn.imm), s.regs[insn.dst]>>)
                ELSE s.stores]

(* The number of instructions before the first branch.                     *)
StraightLength(insns) ==
    LET branches == {k \in DOMAIN insns : insns[k].opc \in BranchClasses}
    IN  IF branches = {} THEN Len(insns)
        ELSE (CHOOSE k \in branches : \A m \in branches : k <= m) - 1

Behind(insns) == SubSeq(insns, StraightLength(insns) + 1, Len(insns))

(* Registers, and what was stored where, in order, when so many            *)
(* instructions have run; and when the straight part has.                  *)
States(insns, rels, placed) ==
    LET state[k \in 0..Len(insns)] ==
            IF k = 0 THEN [regs |-> [r \in Regs |-> Before(r)], stores |-> <<>>]
                     ELSE Executed(state[k - 1], insns[k], Patched(rels, k - 1, placed))
    IN  state

Run(insns, rels, placed) == States(insns, rels, placed)[StraightLength(insns)]

=============================================================================
