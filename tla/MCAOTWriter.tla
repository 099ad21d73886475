---------------------------- MODULE MCAOTWriter ----------------------------
(* Files of one or two segments of at most two TBs each, with every        *)
(* validity of at most two relocations, for TLC.  The sizes are small      *)
(* numbers that do not divide each other; names are empty, short, or fill  *)
(* their area.                                                             *)
EXTENDS AOTWriter

Shapes == {[insns |-> n, rels |-> r] : n \in {1, 2},
                r \in {<<>>, <<TRUE>>, <<FALSE>>, <<FALSE, TRUE>>, <<TRUE, TRUE>>}}

Segments == {<<>>} \cup {<<a>> : a \in Shapes} \cup {<<a, b>> : a, b \in Shapes}

MCFiles ==
    {[segs |-> <<a>>, names |-> <<n>>] : a \in Segments, n \in {0, 2, NameSize - 1}}
    \cup {[segs |-> <<a, b>>, names |-> <<2, NameSize - 1>>] : a, b \in Segments}
    \cup {[segs |-> <<a, b>>, names |-> <<NameSize - 1, 0>>] :
                a, b \in {q \in Segments : Len(q) < 2}}
=============================================================================
