--------------------------- MODULE MCTBEditPasses ---------------------------
(* Blocks for TLC, of two kinds.  Those of the shapes                      *)
(* pipehole_opt_available tells apart: at most one BNE and two plain       *)
(* instructions; either every B that is no recorded jump is a fall-back to *)
(* the epilogue, or none is.  And those whose jumps and relocations edits  *)
(* bring next to one another: up to MaxPlain instructions around one or    *)
(* two B, up to two relocations in either order.                           *)
EXTENDS Printing

CONSTANTS MaxLen, MaxPlain

(* A recorded jump is a B; when there are two the false one comes first.   *)
JumpTables(code) ==
    LET at == {i \in 0..Len(code) - 1 : code[i + 1] = "B"} IN
    {jt \in [linked : [Jumps -> BOOLEAN], target : [Jumps -> at \cup {0}]] :
        /\ \A d \in Jumps : IF jt.linked[d] THEN jt.target[d] \in at
                                            ELSE jt.target[d] = 0
        /\ jt.linked[0] /\ jt.linked[1] => jt.target[0] < jt.target[1]}

MCBlock(code, jt, rels) ==
    [code |-> code, rels |-> rels, linked |-> jt.linked, target |-> jt.target]

-----------------------------------------------------------------------------

Codes == UNION {[1..n -> {"PLAIN", "B", "BNE"}] : n \in 1..MaxLen}

Occurrences(code, c) == Cardinality({k \in DOMAIN code : code[k] = c})

FallBacks(code, jt) ==
    LET back == {i \in 0..Len(code) - 1 :
                    /\ code[i + 1] = "B"
                    /\ \A d \in Jumps : ~ (jt.linked[d] /\ jt.target[d] = i)}
        rel(i) == [kind |-> "B_EPILOGUE", off |-> i, slots |-> 1, valid |-> TRUE]
        order  == SelectSeq([k \in DOMAIN code |-> k - 1], LAMBDA i : i \in back)
    IN  [k \in DOMAIN order |-> rel(order[k])]

ShapedBlocks ==
    LET shaped == {code \in Codes : /\ Occurrences(code, "BNE") <= 1
                                    /\ Occurrences(code, "PLAIN") <= 2}
    IN  UNION {UNION {{MCBlock(code, jt, rels) : rels \in {<<>>, FallBacks(code, jt)}} :
                        jt \in JumpTables(code)} : code \in shaped}

-----------------------------------------------------------------------------

JumpCodes ==
    UNION {{[k \in 1..a |-> "PLAIN"] \o s \o [k \in 1..b |-> "PLAIN"] :
                a \in 0..MaxPlain, b \in 0..MaxPlain} : s \in {<<"B">>, <<"B", "B">>}}

Loads(code) ==
    {rel \in [kind : {"LOAD"}, off : 0..Len(code) - 1, slots : 1..2, valid : {TRUE}] :
        rel.off + rel.slots <= Len(code)}

LoadTables(code) ==
    {<<>>} \cup {<<r>> : r \in Loads(code)}
           \cup {<<p[1], p[2]>> : p \in
                    {q \in Loads(code) \X Loads(code) : Disjoint(q[1], q[2])}}

RelocatedBlocks ==
    UNION {{MCBlock(code, jt, rels) : rels \in LoadTables(code), jt \in JumpTables(code)} :
                code \in JumpCodes}

MCBlocks == ShapedBlocks \cup RelocatedBlocks
=============================================================================
