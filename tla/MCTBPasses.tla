----------------------------- MODULE MCTBPasses -----------------------------
(* Blocks put together from items, for TLC.  An item is one instruction or *)
(* a relocated sequence:                                                   *)
(*   "PLAIN", "NOP", "BNE"  by themselves                                  *)
(*   "FALSE", "TRUE"  the B of a recorded jump                             *)
(*   "LOAD"  a LOAD_TB_ADDR of two slots, the second a nop                 *)
(*   "EPI"  a B to the epilogue                                            *)
EXTENDS TBPasses

Size(item) == IF item = "LOAD" THEN 2 ELSE 1

(* The index the n-th item starts at.                                      *)
Start(items, n) == FoldLeft(LAMBDA acc, item : acc + Size(item), 0, SubSeq(items, 1, n - 1))

Places(items, item) == {n \in DOMAIN items : items[n] = item}

Opcodes(item) ==
    CASE item = "LOAD" -> <<"PLAIN", "PLAIN">>
      [] item = "BNE" -> <<"BNE">>
      [] item \in {"FALSE", "TRUE", "EPI"} -> <<"B">>
      [] OTHER -> <<"PLAIN">>

Codes(items) == FlattenSeq([n \in DOMAIN items |-> Opcodes(items[n])])

JumpItem == [d \in Jumps |-> IF d = 0 THEN "FALSE" ELSE "TRUE"]

(* A jump leads to the load behind it, if it has one, a BNE to the true    *)
(* jump.                                                                   *)
Destination(items, n) ==
    LET goal == IF items[n] = "BNE" THEN "TRUE" ELSE "LOAD"
        to   == {m \in Places(items, goal) : m > n}
    IN  IF items[n] \in {"BNE", "FALSE", "TRUE"} /\ to # {}
        THEN Start(items, Closest(to)) ELSE Start(items, n)

RelOf(items, n) ==
    [kind  |-> IF items[n] = "LOAD" THEN "LOAD_TB_ADDR" ELSE "B_EPILOGUE",
     off   |-> Start(items, n), slots |-> Size(items[n]), valid |-> TRUE]

BlockOf(items, known) ==
    LET linked == [d \in Jumps |-> Places(items, JumpItem[d]) # {}]
        relocs == SelectSeq([n \in DOMAIN items |-> n],
                            LAMBDA n : items[n] \in {"LOAD", "EPI"})
    IN  [code   |-> Codes(items),
         nops   |-> {Start(items, n) : n \in Places(items, "NOP")}
                    \cup {Start(items, n) + 1 : n \in Places(items, "LOAD")},
         dest   |-> FlattenSeq([n \in DOMAIN items |->
                        IF items[n] = "LOAD" THEN <<Start(items, n), Start(items, n) + 1>>
                                             ELSE <<Destination(items, n)>>]),
         rels   |-> [j \in DOMAIN relocs |-> RelOf(items, relocs[j])],
         linked |-> linked,
         target |-> [d \in Jumps |->
                        IF linked[d] THEN Start(items, Closest(Places(items, JumpItem[d])))
                                     ELSE 0],
         known  |-> [d \in Jumps |-> linked[d] /\ d \in known]]

Maybe(item) == {<<>>, <<item>>}

(* What may follow a jump that falls back to the translator.               *)
Tails == {n1 \o load \o n2 \o <<"EPI">> : n1, n2 \in Maybe("NOP"), load \in Maybe("LOAD")}

Heads == {<<>>, <<"NOP">>, <<"PLAIN">>}

(* Two jumps that both fall back in the same way, or not at all; one; none. *)
Doubles ==
    {h \o <<"BNE">> \o n \o <<"FALSE">> \o t \o <<"TRUE">> \o u :
        h \in Heads, n \in Maybe("NOP"),
        <<t, u>> \in {p \in Tails \X Tails :
                        ("LOAD" \in Range(p[1])) = ("LOAD" \in Range(p[2]))}
                     \cup {<<<<>>, <<>>>>}}

Singles == {h \o <<j>> \o t : h \in Heads, j \in {"FALSE", "TRUE"}, t \in Tails \cup {<<>>}}

Ends == {h \o n \o <<"EPI">> : h \in Heads, n \in Maybe("NOP")}

MCBlocks == {BlockOf(items, known) : items \in Doubles \cup Singles \cup Ends,
                                     known \in SUBSET Jumps}
=============================================================================
