---------------------------- MODULE MCAddiMerge ----------------------------
(* Blocks put together from pushes, pops and other instructions, for TLC.  *)
EXTENDS AddiMerge

MCRegs == 0..2

MCLimit == [opc \in {"ST_D", "LD_D"} |-> IF opc = "ST_D" THEN 3 ELSE 2]

Op(opc, dst, src, imm) == [opc |-> opc, dst |-> dst, src |-> src, imm |-> imm]

(* An item is some code and the slots of the relocation over its end, or   *)
(* 0.                                                                      *)
Item(code, slots) == [code |-> code, slots |-> slots]

Push(data, base) == <<Op("ST_D", data, base, -1), Op("ADDI_D", base, base, -1)>>
Pop(data, base)  == <<Op("LD_D", data, base, 0), Op("ADDI_D", base, base, 1)>>

Items == {Item(Push(2, 1), 0), Item(Push(1, 1), 0), Item(Push(0, 2), 0),
          Item(Push(2, 0), 0), Item(Push(2, 1), 1),
          Item(Pop(2, 1), 0), Item(Pop(1, 1), 0), Item(Pop(0, 2), 0), Item(Pop(2, 0), 0),
          Item(<<Op("LU12I_W", 2, 0, 1), Op("ORI", 2, 2, 1)>>, 2),
          Item(<<Op("PLAIN", 1, 2, 0)>>, 0),
          Item(<<Op("ST_D", 2, 1, -1)>>, 0), Item(<<Op("ADDI_D", 1, 1, 1)>>, 0)}

(* A run longer than twice the limit, between relocated loads.             *)
Long(pair, n) == <<Item(FlattenSeq([k \in 1..n |-> pair]), 0)>>

Load == Item(<<Op("LU12I_W", 2, 0, 1), Op("ORI", 2, 2, 1)>>, 2)

Jump   == <<Item(<<Op("B", 0, 0, 0)>>, 0)>>
Choice == <<Item(<<Op("BNE", 0, 0, 0), Op("B", 0, 0, 0)>> \o Push(2, 1) \o Push(2, 1)
                    \o <<Op("B", 0, 0, 0)>>, 0)>>
Other  == <<Item(<<Op("OTHER", 0, 0, 0)>> \o Push(2, 1) \o Push(2, 1)
                    \o <<Op("B", 0, 0, 0)>>, 0)>>

Code(items) == FlattenSeq([n \in DOMAIN items |-> items[n].code])

BlockOf(items) ==
    LET code   == Code(items)
        relocs == SelectSeq([n \in DOMAIN items |-> n], LAMBDA n : items[n].slots > 0)
        jumps  == SelectSeq([k \in DOMAIN code |-> k], LAMBDA k : code[k].opc = "B")
    IN  [code   |-> code,
         rels   |-> [j \in DOMAIN relocs |->
                        [kind  |-> "LOAD", valid |-> TRUE, slots |-> items[relocs[j]].slots,
                         off   |-> Len(Code(SubSeq(items, 1, relocs[j]))) - items[relocs[j]].slots]],
         linked |-> [d \in Jumps |-> d < Len(jumps)],
         target |-> [d \in Jumps |-> IF d < Len(jumps) THEN jumps[d + 1] - 1 ELSE 0]]

MCBlocks ==
    {BlockOf(items \o Jump) : items \in UNION {[1..n -> Items] : n \in 1..3}}
    \cup {BlockOf(items \o end) : items \in [1..2 -> Items], end \in {Choice, Other}}
    \cup {BlockOf(Long(p, m) \o between \o Long(q, n) \o <<Load>> \o Jump) :
            p \in {Push(2, 1), Pop(2, 1)}, q \in {Push(2, 1), Pop(2, 1)},
            m \in 4..8, n \in 2..5,
            between \in {<<Load>>, <<>>, <<Load, Item(<<Op("PLAIN", 2, 2, 0)>>, 0)>>}}
=============================================================================
