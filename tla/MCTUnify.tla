------------------------------ MODULE MCTUnify ------------------------------
(* Every way three blocks can be linked, in one segment or two, for TLC.   *)
EXTENDS TUnify

Rel(kind, off, slots) == [kind |-> kind, off |-> off, slots |-> slots, valid |-> TRUE]

Block(code, rels, linked, target, next) ==
    [code |-> code, rels |-> rels,
     linked |-> [d \in Jumps |-> d \in linked],
     target |-> [d \in Jumps |-> IF d \in linked THEN target[d + 1] ELSE 0],
     next   |-> [d \in Jumps |-> IF d \in linked THEN next[d + 1] ELSE NoTB]]

(* A block that only leaves through the epilogue, or indirectly.           *)
Ends ==
    {Block(<<"PLAIN", "B">>, <<Rel("LOAD", 0, 1), Rel("B_EPILOGUE", 1, 1)>>, {}, <<>>, <<>>),
     Block(<<"PLAIN", "PLAIN", "OTHER">>, <<Rel("LOAD", 0, 2)>>, {}, <<>>, <<>>)}

(* A block with one jump, followed by the fall-back to the epilogue.       *)
Singles ==
    {Block(<<"PLAIN", "B", "PLAIN", "B">>,
           <<Rel("LOAD", 0, 1), Rel("LOAD_TB_ADDR", 2, 1), Rel("B_EPILOGUE", 3, 1)>>,
           {1}, <<0, 1>>, <<NoTB, u>>) : u \in TBs \cup {NoTB}}
    \cup
    {Block(<<"B", "B">>, <<Rel("B_EPILOGUE", 1, 1)>>, {0}, <<0, 0>>, <<u, NoTB>>) :
        u \in TBs \cup {NoTB}}

(* A block that chooses between two.                                       *)
Doubles ==
    {Block(<<"BNE", "B", "B">>, <<>>, {0, 1}, <<1, 2>>, <<u, v>>) :
        u \in TBs, v \in TBs \cup {NoTB}}

FileOf(b, segs, keys) ==
    [code   |-> [t \in TBs |-> b[t].code],   rels   |-> [t \in TBs |-> b[t].rels],
     linked |-> [t \in TBs |-> b[t].linked], target |-> [t \in TBs |-> b[t].target],
     next   |-> [t \in TBs |-> b[t].next],
     seg    |-> segs,
     key    |-> keys]

(* Two segments above 4 GiB may lie a multiple of 4 GiB apart: addresses   *)
(* cut to 32 bits then coincide.                                           *)
MCFiles ==
    {FileOf(b, <<1, 1, 1>>, <<1, 2, 3>>) : b \in [TBs -> Ends \cup Singles \cup Doubles]}
    \cup {FileOf(b, segs, keys) : b \in [TBs -> Ends \cup Singles],
                                segs \in {<<1, 1, 2>>, <<1, 2, 2>>},
                                keys \in {<<1, 2, 3>>, <<1, 2, 1>>}}
=============================================================================
