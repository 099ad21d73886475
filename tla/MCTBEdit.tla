------------------------------ MODULE MCTBEdit ------------------------------
(* Every well-formed block of at most MaxLen instructions with at most two *)
(* relocations, for TLC.                                                   *)
EXTENDS TBEdit

CONSTANT MaxLen

Codes == UNION {[1..n -> OpClasses] : n \in 1..MaxLen}

Rels(code) ==
    {rel \in [kind : {"B_EPILOGUE", "LOAD"}, off : 0..Len(code) - 1,
              slots : 1..2, valid : {TRUE}] :
        /\ rel.off + rel.slots <= Len(code)
        /\ rel.kind = "B_EPILOGUE" =>
            rel.slots = 1 /\ code[rel.off + 1] = "B"}

RelTables(code) ==
    {<<>>} \cup {<<r>> : r \in Rels(code)}
           \cup {<<r[1], r[2]>> : r \in
                    {p \in Rels(code) \X Rels(code) : Disjoint(p[1], p[2])}}

(* A recorded jump is a B; when there are two the false one comes first.   *)
JumpTables(code) ==
    LET at == {i \in 0..Len(code) - 1 : code[i + 1] = "B"} IN
    {jt \in [linked : [Jumps -> BOOLEAN], target : [Jumps -> at \cup {0}]] :
        /\ \A d \in Jumps : IF jt.linked[d] THEN jt.target[d] \in at
                                            ELSE jt.target[d] = 0
        /\ jt.linked[0] /\ jt.linked[1] => jt.target[0] < jt.target[1]}

MCBlocks ==
    UNION {{[code |-> code, rels |-> rels, linked |-> jt.linked,
             target |-> jt.target] :
                rels \in RelTables(code), jt \in JumpTables(code)} :
            code \in Codes}
=============================================================================
