----------------------------- MODULE MCLoading -----------------------------
(* Two segments of up to two blocks each, for TLC.  There are four cut     *)
(* addresses; a segment begins below them, two of them further up, or a    *)
(* whole Width away.                                                       *)
EXTENDS Loading

TBsOf == {[offset |-> o, linked |-> l, to |-> [d \in Jumps |-> to[d + 1]]] :
            o \in 0..1, l \in SUBSET Jumps, to \in {<<0, 1>>, <<2, 0>>, <<3, 3>>}}

Segments == {[begin |-> b, tbs |-> tbs] :
                b \in {0, 2, 4, 6}, tbs \in {<<t>> : t \in TBsOf}}

Pair(b) == {[begin |-> b, tbs |-> <<t, u>>] : t \in TBsOf, u \in TBsOf}

MCFiles == {<<s, t>> : s \in Segments, t \in Segments}
           \cup {<<s>> : s \in Pair(0) \cup Pair(4)}
           \cup {<<[begin |-> b, tbs |-> <<t, u>>], s>> :
                    b \in {0, 4}, s \in {x \in Segments : x.begin = 2},
                    t \in {x \in TBsOf : x.offset = 0}, u \in {x \in TBsOf : x.offset = 1}}
=============================================================================
