------------------------------ MODULE Inlining ------------------------------
(***************************************************************************)
(* What the unifier promises, without its walk, its sets and the tables of *)
(* a block: the only thing that happens to a program is that a block with  *)
(* one known successor, which itself goes nowhere, takes that successor's  *)
(* code in place of its jump and of whatever came behind it.               *)
(***************************************************************************)
EXTENDS Integers, Sequences

CONSTANT Blocks

VARIABLES
    program,  \* the blocks as given, and the segment of each
    running   \* the blocks as they would run now

vars == <<program, running>>

(* A block is its code and its recorded jumps, each with where it is and   *)
(* the block it goes to (none if that is not in Blocks).                   *)

Init == running = program.block

(* The code of a block of a later segment may not be there yet.  Nothing   *)
(* takes its place then.                                                   *)
CodeTaken(b, succ) ==
    {running[succ].code}
    \cup (IF program.seg[succ] > program.seg[b] THEN {<<>>} ELSE {})

Inline(b) ==
    \E jump \in running[b].jumps :
        /\ running[b].jumps = {jump}
        /\ jump.to \in Blocks
        /\ running[jump.to].jumps = {}
        /\ \E code \in CodeTaken(b, jump.to) :
            running' = [running EXCEPT ![b] =
                            [code  |-> SubSeq(@.code, 1, jump.at) \o code,
                             jumps |-> {}]]
        /\ UNCHANGED program

Next == \E b \in Blocks : Inline(b)

Spec == Init /\ [][Next]_vars

=============================================================================
