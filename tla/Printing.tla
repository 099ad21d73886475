------------------------------ MODULE Printing ------------------------------
(***************************************************************************)
(* DisassmblePrinterVistor::visit on one block, at any time of its life:   *)
(* the driver prints every block after it is loaded and again after the    *)
(* passes.  Three walks go side by side, over the instructions, over their *)
(* indices and over the relocations, of which invalid ones are skipped.    *)
(*                                                                         *)
(* What is printed is a sequence of items: an instruction by itself, the   *)
(* instructions of a relocation in brackets, or a recorded jump.           *)
(*                                                                         *)
(* A definition introduced as a slip is the one after it with a bug a      *)
(* programmer could make; nothing uses it.                                 *)
(***************************************************************************)
EXTENDS TBEdit, FiniteSetsExt

(* What jumps and epilogue relocations are of: a recorded jump is a B, no  *)
(* two are the same one, and falling back to the epilogue takes one B.     *)
RegularBranches(blk) ==
    /\ \A d \in Jumps : blk.linked[d] => blk.code[blk.target[d] + 1] = "B"
    /\ blk.linked[0] /\ blk.linked[1] => blk.target[0] # blk.target[1]
    /\ \A j \in DOMAIN blk.rels : blk.rels[j].kind = "B_EPILOGUE" =>
        blk.rels[j].slots = 1 /\ blk.code[blk.rels[j].off + 1] = "B"

ASSUME BranchesAssumption == \A blk \in Blocks : RegularBranches(blk)

VARIABLES
    job,      \* "none", "printing", "printed", or "crashed"
    rel_cur,  \* the relocation to come, as a position in tb.rels
    next,     \* the index of the instruction to come
    out       \* the items printed

pvars == <<job, rel_cur, next, out>>

Kinds == {"insn", "rel", "false_branch", "true_branch"}

PrintInit ==
    /\ Init
    /\ job = "none"
    /\ rel_cur = 1
    /\ next = 0
    /\ out = <<>>

(* A slip: the relocation after this one is the next, valid or not.        *)
ValidFromAny(j) == j

(* The loops over rels_valid: the first valid relocation from the j-th on. *)
ValidFrom(j) ==
    LET ahead == {k \in j..Len(tb.rels) : tb.rels[k].valid}
    IN  IF ahead = {} THEN Len(tb.rels) + 1 ELSE Min(ahead)

Start ==
    /\ job = "none" /\ phase = "edit"
    /\ job' = "printing"
    /\ rel_cur' = ValidFrom(1)
    /\ UNCHANGED <<next, out, vars>>

More == job = "printing" /\ next < Len(tb.insns)

AtRel == rel_cur <= Len(tb.rels) /\ next = tb.rels[rel_cur].off

(* A slip: whether there is such a jump is not looked at.                  *)
AtJumpAny(d) == next = tb.target[d]

AtJump(d) == tb.linked[d] /\ next = tb.target[d]

(* The next count instructions in one item.                                *)
Emit(kind, count) ==
    /\ out' = Append(out, [kind |-> kind,
                           ids  |-> [k \in 1..count |-> tb.insns[next + k].id]])
    /\ next' = next + count

(* A slip: the walk over the relocations stays where it is.                *)
PrintRelAgain ==
    /\ More
    /\ AtRel
    /\ IF next + tb.rels[rel_cur].slots > Len(tb.insns)
       THEN job' = "crashed" /\ UNCHANGED <<rel_cur, next, out>>
       ELSE /\ Emit("rel", tb.rels[rel_cur].slots)
            /\ UNCHANGED <<job, rel_cur>>
    /\ UNCHANGED vars

(* The list's tail holds no instruction: going past it dereferences a null *)
(* pointer.                                                                *)
PrintRel ==
    /\ More
    /\ AtRel
    /\ IF next + tb.rels[rel_cur].slots > Len(tb.insns)
       THEN job' = "crashed" /\ UNCHANGED <<rel_cur, next, out>>
       ELSE /\ Emit("rel", tb.rels[rel_cur].slots)
            /\ rel_cur' = ValidFrom(rel_cur + 1)
            /\ UNCHANGED job
    /\ UNCHANGED vars

PrintJump(d) ==
    /\ More
    /\ ~ AtRel
    /\ AtJump(d)
    /\ d = 1 => ~ AtJump(0)
    /\ Emit(IF d = 1 THEN "true_branch" ELSE "false_branch", 1)
    /\ UNCHANGED <<job, rel_cur, vars>>

PrintInsn ==
    /\ More
    /\ ~ AtRel
    /\ \A d \in Jumps : ~ AtJump(d)
    /\ Emit("insn", 1)
    /\ UNCHANGED <<job, rel_cur, vars>>

Finish ==
    /\ job = "printing"
    /\ next = Len(tb.insns)
    /\ job' = "printed"
    /\ UNCHANGED <<rel_cur, next, out, vars>>

PrintStep == Start \/ PrintRel \/ (\E d \in Jumps : PrintJump(d)) \/ PrintInsn \/ Finish

(* The visit runs on its own; nothing edits the block meanwhile.  Before   *)
(* it the passes may have deleted what they like.                          *)
PrintNext ==
    \/ job = "none" /\ PassesNext /\ UNCHANGED pvars
    \/ PrintStep

PrintSpec == PrintInit /\ [][PrintNext]_<<vars, pvars>>

-----------------------------------------------------------------------------
(* Properties.                                                             *)

(* The walk inside a relocation's brackets, which does not look for the    *)
(* end of the list (DisassemblePrintVistor.cpp:76-82), stays in the list   *)
(* whatever was deleted from the block before.                             *)
NeverPastEnd == job # "crashed"

(* The relocations of a file are in the order of the code they patch.      *)
RelsInOrder ==
    \A j, k \in DOMAIN block.rels : j < k => block.rels[j].off < block.rels[k].off

Items(kind) == {out[k].ids : k \in {m \in DOMAIN out : out[m].kind = kind}}

(* The ids the instructions of a relocation had in the file.               *)
Emitted(j) == [s \in 1..block.rels[j].slots |-> block.rels[j].off + s]

(* Every relocation still valid is shown, around the very instructions it  *)
(* was emitted for, and no other is: the single cursor over the            *)
(* relocations (DisassemblePrintVistor.cpp:63-87) never gets stuck on one  *)
(* that edits moved behind it or took away.                                *)
RelsShown ==
    job = "printed" /\ RelsInOrder =>
        Items("rel") = {Emitted(j) : j \in {k \in DOMAIN tb.rels : tb.rels[k].valid}}

(* The instruction is in the block, and outside relocations.               *)
InBlock(id) == \E k \in DOMAIN tb.insns : tb.insns[k].id = id /\ ~ InRel(tb, k - 1)

(* A recorded jump is shown as what it is, if the jumps of the block are   *)
(* all still there and outside relocations.  (If one is deleted its        *)
(* jmp_target_arg is left on the instruction behind it, which is then      *)
(* shown in its place.)                                                    *)
JumpsShown ==
    (job = "printed" /\ \A d \in Jumps : tb.linked[d] => InBlock(block.target[d] + 1)) =>
        /\ Items("false_branch") = {<<block.target[d] + 1>> : d \in {e \in {0} : tb.linked[e]}}
        /\ Items("true_branch")  = {<<block.target[d] + 1>> : d \in {e \in {1} : tb.linked[e]}}

=============================================================================
