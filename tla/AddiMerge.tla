----------------------------- MODULE AddiMerge -----------------------------
(***************************************************************************)
(* The passes that merge a run of pushes (st.d with -8, addi.d -8) or pops *)
(* (ld.d with 0, addi.d 8) on one base register: the accesses get growing  *)
(* offsets and one addi.d at the end of the run moves the base.            *)
(* St_Addi_Vistor, then Ld_Addi_Vistor, on one block.                      *)
(*                                                                         *)
(* Immediates count words of eight bytes.  A definition introduced as a    *)
(* slip is the one after it with a bug a programmer could make; nothing    *)
(* uses it.                                                                *)
(***************************************************************************)
EXTENDS PeepholeBlocks

CONSTANT Limit   \* the longest run one addi.d is left for, by opcode

ASSUME LimitAssumption == Limit \in [{"ST_D", "LD_D"} -> Nat \ {0}]

(* The pass is named by the access it looks for, "ST_D" or "LD_D", and is  *)
(* "done" in the end.                                                      *)
addiVars == <<block, pass, tb, node, cur>>

AddiInit ==
    /\ block \in Blocks
    /\ pass \in {"ST_D", "LD_D"}
    /\ tb = Decoded(block)
    /\ node = 1
    /\ cur = 0

-----------------------------------------------------------------------------
(* Runs.                                                                   *)

(* The offset of an access in a run and the step of the base after it.     *)
Offset(opc) == IF opc = "ST_D" THEN -1 ELSE 0
Step(opc)   == IF opc = "ST_D" THEN -1 ELSE 1

(* is_st_addi_pattern, is_ld_addi_pattern: the access at position n, and   *)
(* the addi.d behind it that moves its base.  The data register is not     *)
(* looked at.                                                              *)
IsPair(insns, n, opc) ==
    /\ n < Len(insns)
    /\ insns[n].opc = opc
    /\ insns[n].imm = Offset(opc)
    /\ insns[n + 1].opc = "ADDI_D"
    /\ insns[n + 1].imm = Step(opc)
    /\ insns[n + 1].dst = insns[n].src
    /\ insns[n + 1].src = insns[n].src

(* How many pairs on one base follow each other from position n on.        *)
RunLength(insns, n, opc) ==
    CHOOSE c \in 0..Len(insns) :
        /\ \A k \in 0..c - 1 :
            IsPair(insns, n + 2 * k, opc) /\ insns[n + 2 * k].src = insns[n].src
        /\ ~ (IsPair(insns, n + 2 * c, opc) /\ insns[n + 2 * c].src = insns[n].src)

-----------------------------------------------------------------------------
(* opt_sequence_of_st_addi and opt_sequence_of_ld_addi.  The state of the  *)
(* loop is the block, the access it is at and the index it takes that for. *)

(* __MAX_ST_D, __MAX_LD_D                                                  *)
PartMax(opc) == Limit[opc]

(* The m-th access of a run of total is the k-th of its part of the run.   *)
InPart(m, limit)          == ((m - 1) % limit) + 1
PartLength(m, total, limit) ==
    LET start == m - InPart(m, limit) IN
    IF total - start < limit THEN total - start ELSE limit

(* A slip: the last addi.d of a part moves the base by one step.           *)
MergeOneStep(s, m, total, opc) ==
    LET k     == InPart(m, PartMax(opc))
        count == PartLength(m, total, PartMax(opc))
        moved == [s.tb EXCEPT !.insns[s.node].imm = Offset(opc) + (k - 1) * Step(opc)]
    IN  IF k = count
        THEN [s EXCEPT !.tb = moved, !.node = @ + 2]
        ELSE LET less == DeleteIthInsn(moved, s.node + 1, s.index + 1)
             IN  [tb    |-> less,
                  node  |-> IF less = moved THEN s.node + 2 ELSE s.node + 1,
                  index |-> s.index + 1]

(* One round: the access gets its offset; its addi.d becomes the one of    *)
(* the part, or is deleted, which delete_ith_insn may refuse.  A part      *)
(* begins with the index the one before it ended with.                     *)
MergeOne(s, m, total, opc) ==
    LET k     == InPart(m, PartMax(opc))
        count == PartLength(m, total, PartMax(opc))
        moved == [s.tb EXCEPT !.insns[s.node].imm = Offset(opc) + (k - 1) * Step(opc)]
    IN  IF k = count
        THEN [s EXCEPT !.tb = [moved EXCEPT !.insns[s.node + 1].imm = count * Step(opc)],
                       !.node = @ + 2]
        ELSE LET less == DeleteIthInsn(moved, s.node + 1, s.index + 1)
             IN  [tb    |-> less,
                  node  |-> IF less = moved THEN s.node + 2 ELSE s.node + 1,
                  index |-> s.index + 1]

(* A slip: visit has moved its index past the run already.                 *)
MergedAdvanced(total, opc) ==
    LET merged[m \in 0..total] ==
            IF m = 0 THEN [tb |-> tb, node |-> node, index |-> cur + total + 1]
                     ELSE MergeOne(merged[m - 1], m, total, opc)
    IN  merged[total]

Merged(total, opc) ==
    LET merged[m \in 0..total] ==
            IF m = 0 THEN [tb |-> tb, node |-> node, index |-> cur]
                     ELSE MergeOne(merged[m - 1], m, total, opc)
    IN  merged[total]

-----------------------------------------------------------------------------
(* The loop of visit, in one action for each of its ways.                  *)

VisitEnds == node > Len(tb.insns) \/ tb.insns[node].opc \in {"B", "BNE"}

(* start runs visit only on blocks of a known shape, as found when the     *)
(* block was decoded.                                                      *)
Visited == pass # "done" /\ PipeholeOptAvailable(Decoded(block))

(* A slip: the index moves on by the instructions there were.              *)
MergeRunCountingAll ==
    /\ Visited /\ ~ VisitEnds
    /\ LET total == RunLength(tb.insns, node, pass)
           after == Merged(total, pass)
       IN  /\ total > 1
           /\ tb' = after.tb
           /\ node' = after.node
           /\ cur' = cur + 2 * total
    /\ UNCHANGED <<block, pass>>

MergeRun ==
    /\ Visited /\ ~ VisitEnds
    /\ LET total == RunLength(tb.insns, node, pass)
           after == Merged(total, pass)
       IN  /\ total > 1
           /\ tb' = after.tb
           /\ node' = after.node
           /\ cur' = cur + total + 1
    /\ UNCHANGED <<block, pass>>

(* A single pair is passed over, another instruction too.                  *)
PassPair ==
    /\ Visited /\ ~ VisitEnds
    /\ RunLength(tb.insns, node, pass) = 1
    /\ node' = node + 2
    /\ cur' = cur + 2
    /\ UNCHANGED <<block, pass, tb>>

PassInsn ==
    /\ Visited /\ ~ VisitEnds
    /\ RunLength(tb.insns, node, pass) = 0
    /\ node' = node + 1
    /\ cur' = cur + 1
    /\ UNCHANGED <<block, pass, tb>>

(* Ld_Addi_Vistor runs after St_Addi_Vistor.                               *)
PassDone ==
    /\ pass # "done"
    /\ ~ Visited \/ VisitEnds
    /\ pass' = IF pass = "ST_D" THEN "LD_D" ELSE "done"
    /\ node' = 1
    /\ cur' = 0
    /\ UNCHANGED <<block, tb>>

AddiNext == MergeRun \/ PassPair \/ PassInsn \/ PassDone

AddiSpec == AddiInit /\ [][AddiNext]_addiVars

-----------------------------------------------------------------------------
(* Properties.                                                             *)

(* The positions of the block from which a pass finds a run to merge.      *)
Runs(opc) == {n \in DOMAIN block.code : RunLength(block.code, n, opc) > 1}

Pairs(opc, n) == {n + 2 * k : k \in 0..RunLength(block.code, n, opc) - 1}

(* No access of a run but the first has the base itself as its data.       *)
BaseNotData ==
    \A opc \in {"ST_D", "LD_D"} : \A n \in Runs(opc) : \A m \in Pairs(opc, n) \ {n} :
        block.code[m].dst # block.code[m].src

(* No instruction of a run is relocated.                                   *)
RunsNotRelocated ==
    \A opc \in {"ST_D", "LD_D"} : \A n \in Runs(opc) : \A m \in Pairs(opc, n) :
        \A j \in DOMAIN block.rels : ~ Covers(block.rels[j], m - 1) /\ ~ Covers(block.rels[j], m)

(* No run moves register 0, which stays zero.                              *)
BaseNotZero == \A opc \in {"ST_D", "LD_D"} : \A n \in Runs(opc) : block.code[n].src # 0

(* Where visit finds a run: not in the middle of another.                  *)
Starts(opc) == {n \in Runs(opc) : n - 2 \notin Runs(opc)}

Exceeds(opc, n) == RunLength(block.code, n, opc) > Limit[opc]

NoLongRun == \A opc \in {"ST_D", "LD_D"} : \A n \in Runs(opc) : ~ Exceeds(opc, n)

(* A pass finds at most one run that one addi.d is too few for, and two    *)
(* are enough for that.                                                    *)
OneLongRun ==
    \A opc \in {"ST_D", "LD_D"} : \A n \in Starts(opc) :
        /\ RunLength(block.code, n, opc) <= 2 * Limit[opc]
        /\ \A m \in Starts(opc) : Exceeds(opc, n) /\ Exceeds(opc, m) => n = m

(* After every round of visit the block leaves every register, and makes   *)
(* every store to the same place in the same order, as the block of the    *)
(* file: the offsets and the merged step of St_Addi_Vistor.cpp:25-42 make  *)
(* up for all addi.d deleted.  The patterns compare the base neither with  *)
(* the data register nor with register 0 (lines 5-14): a run that stores   *)
(* its base, or loads it, from its second access on is exempt, and one     *)
(* that moves register 0, and so is one with a relocation, whose addi.d    *)
(* stay although the offsets grow.  The index may lag one behind; two, and *)
(* it can meet a relocation in front of a later run.  However long a run,  *)
(* no immediate grows out of its field.                                    *)
MachineKept ==
    LET before == Decoded(block) IN
    /\ BaseNotData /\ BaseNotZero /\ RunsNotRelocated /\ OneLongRun =>
        \A placed \in BOOLEAN :
            Run(tb.insns, tb.rels, placed) = Run(before.insns, before.rels, placed)
    /\ \A k \in DOMAIN tb.insns :
        tb.insns[k].imm \in {block.code[tb.insns[k].id].imm} \cup -Limit["ST_D"]..Limit["LD_D"]

(* With one long run, too, relocations and recorded jumps stay on their    *)
(* instructions, and the code from the first branch on is untouched: the   *)
(* index the deletions are made at may be wrong behind a long run          *)
(* (St_Addi_Vistor.cpp:45 and 76), but never leaves the run.               *)
NothingElseMoved ==
    RunsNotRelocated /\ OneLongRun =>
    /\ Anchored(tb, block)
    /\ Behind(tb.insns) = Behind(Decoded(block).insns)

(* The node visit is at and the index it counts for it agree, as long as   *)
(* no run is longer than the limit and none is relocated.                  *)
CountInStep == RunsNotRelocated /\ NoLongRun => cur = node - 1

=============================================================================
