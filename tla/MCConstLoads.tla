---------------------------- MODULE MCConstLoads ----------------------------
(* Blocks put together from loads and other instructions, for TLC.  The    *)
(* immediate of ori has two bits, what lu12i.w and ori load has four, so   *)
(* an addi.d reaches two down and one up.                                  *)
EXTENDS ConstLoads

MCRegs == 0..2

Op(opc, dst, src, imm) == [opc |-> opc, dst |-> dst, src |-> src, imm |-> imm]

(* An item is some code and the slots of the relocation over it, or 0.     *)
Item(code, slots) == [code |-> code, slots |-> slots]

Low(r, si, ui) == <<Op("LU12I_W", r, 0, si), Op("ORI", r, r, ui)>>

(* Loads of 0, 4, 6 and -1, or of 4, 6 + 16, -1 and 15.                    *)
Pair(r, v)   == Low(r, v[1], v[2])
Triple(r, v) == Low(r, v[1], v[2]) \o <<Op("LU32I_D", r, 0, v[3])>>

PairValues   == {<<0, 0>>, <<1, 0>>, <<1, 2>>, <<-1, 3>>}
TripleValues == {<<1, 0, 0>>, <<1, 2, 1>>, <<-1, 3, -1>>, <<-1, 3, 0>>}

Loads ==
    {Item(Pair(r, v), 0) : r \in {1, 2}, v \in PairValues}
    \cup {Item(Pair(r, v), 2) : r \in {1, 2}, v \in {<<1, 0>>, <<1, 2>>}}
    \cup {Item(Triple(r, v), 0) : r \in {1, 2}, v \in TripleValues}
    \cup {Item(Triple(r, v), 3) : r \in {1, 2}, v \in {<<1, 0, 0>>, <<1, 2, 1>>}}

Others == {Item(Low(0, 1, 0), 0),
           Item(<<Op("LU12I_W", 1, 0, 1), Op("ORI", 2, 1, 2)>>, 0),
           Item(<<Op("PLAIN", 1, 2, 0)>>, 0),
           Item(<<Op("ST_D", 2, 1, 0)>>, 0)}

(* Other ends: a choice whose second way has a load that could be replaced *)
(* if one came straight to it; a branch of a kind that makes the passes    *)
(* leave the block alone.                                                  *)
Jump == <<Item(<<Op("B", 0, 0, 0)>>, 0)>>

Ends == {<<Item(<<Op("BNE", 0, 0, 0), Op("B", 0, 0, 0)>> \o Low(1, 1, 0)
                    \o <<Op("B", 0, 0, 0)>>, 0)>>,
         <<Item(<<Op("OTHER", 0, 0, 0)>> \o Low(1, 1, 0) \o <<Op("B", 0, 0, 0)>>, 0)>>}

Code(items) == FlattenSeq([n \in DOMAIN items |-> items[n].code])

BlockOf(items, end) ==
    LET all    == items \o end
        code   == Code(all)
        relocs == SelectSeq([n \in DOMAIN all |-> n], LAMBDA n : all[n].slots > 0)
        jumps  == SelectSeq([k \in DOMAIN code |-> k], LAMBDA k : code[k].opc = "B")
    IN  [code   |-> code,
         rels   |-> [j \in DOMAIN relocs |->
                        [kind  |-> "LOAD", valid |-> TRUE, slots |-> all[relocs[j]].slots,
                         off   |-> Len(Code(SubSeq(all, 1, relocs[j] - 1)))]],
         linked |-> [d \in Jumps |-> d < Len(jumps)],
         target |-> [d \in Jumps |-> IF d < Len(jumps) THEN jumps[d + 1] - 1 ELSE 0]]

Items == Loads \cup Others

MCBlocks == {BlockOf(<<a, b, c>>, Jump) : a, b \in Items, c \in Loads}
            \cup {BlockOf(<<a, b>>, end) : a \in Items, b \in Loads, end \in Ends}
=============================================================================
