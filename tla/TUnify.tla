------------------------------- MODULE TUnify -------------------------------
(***************************************************************************)
(* The translation-block unifier (TU_Vistor) as the driver runs it.        *)
(*                                                                         *)
(* The driver takes the segments of a file in order.  For each it links    *)
(* the segment's blocks to their successors (Segment::settle_all_tb),      *)
(* attaches their relocations, decodes their code, and then lets the       *)
(* unifier walk depth first from every block nobody jumps to.  A block     *)
(* whose only successor has no successor itself takes that successor's     *)
(* code in place of its jump.                                              *)
(*                                                                         *)
(* Links cross segments: the walk may enter blocks of an earlier segment,  *)
(* unified already, and blocks of a later one, not linked and not decoded. *)
(*                                                                         *)
(* A definition introduced as a slip is the one after it with a bug a      *)
(* programmer could make; nothing uses it.                                 *)
(***************************************************************************)
EXTENDS TBOps

CONSTANTS
    NumTBs,  \* how many blocks a file holds
    Files    \* the files the driver may be given

TBs  == 1..NumTBs   \* the blocks, in the order the file holds them
NoTB == 0           \* nullptr

(* A file as the constructors read it: seg[t] is the segment of block t,   *)
(* key[t] its x86_addr as TB stores it (cut to 32 bits), next[t][d] what   *)
(* x86AddrToTb holds at the address jump d goes to.                        *)
FileType ==
    [code   : [TBs -> Seq(OpClasses)],
     rels   : [TBs -> Seq(RelType)],
     linked : [TBs -> [Jumps -> BOOLEAN]],
     target : [TBs -> [Jumps -> Nat]],
     next   : [TBs -> [Jumps -> TBs \cup {NoTB}]],
     seg    : [TBs -> Nat \ {0}],
     key    : [TBs -> Nat]]

(* What the translator guarantees: relocations inside the code, no two on  *)
(* one instruction, a recorded jump is a B.  The blocks of a segment       *)
(* follow those of the one before.                                         *)
WellFormedFile(f) ==
    /\ f \in FileType
    /\ \A t \in TBs :
        /\ \A j \in DOMAIN f.rels[t] :
            /\ f.rels[t][j].valid
            /\ f.rels[t][j].off + f.rels[t][j].slots <= Len(f.code[t])
            /\ \A k \in DOMAIN f.rels[t] : j = k \/ Disjoint(f.rels[t][j], f.rels[t][k])
        /\ \A d \in Jumps : f.linked[t][d] =>
            f.target[t][d] < Len(f.code[t]) /\ f.code[t][f.target[t][d] + 1] = "B"
        /\ f.seg[t] = 1 \/ \E u \in 1..t - 1 : f.seg[u] \in {f.seg[t], f.seg[t] - 1}
        /\ \A u \in 1..t - 1 : f.seg[u] <= f.seg[t]

ASSUME NumTBsAssumption == NumTBs \in Nat \ {0}
ASSUME FilesAssumption == \A f \in Files : WellFormedFile(f)

VARIABLES
    file,      \* the file
    seg,       \* the segment the driver is at
    step,      \* what it does there: "prepare", "unify", "done", "aborted"
    tbs,       \* the TB objects
    branch,    \* false_branch (0) and true_branch (1) of each
    parented,  \* the blocks whose vector of parents is not empty
    entries,   \* entry_blocks from which the walk has not started yet
    stack,     \* the active calls of unify_one_successor, innermost last
    parents,   \* its two sets, of addresses
    finished

vars == <<file, seg, step, tbs, branch, parented, entries, stack, parents, finished>>

InOrder(T) ==
    LET upto[n \in 0..NumTBs] ==
            IF n = 0 THEN <<>>
            ELSE IF n \in T THEN Append(upto[n - 1], n) ELSE upto[n - 1]
    IN  upto[NumTBs]

BlocksOf(s) == {t \in TBs : file.seg[t] = s}

(* An identity for the k-th instruction of block t, kept when it is copied. *)
Id(t, k) == (k - 1) * NumTBs + t

(* What the constructor makes of block t.                                  *)
Constructed(t) ==
    [insns    |-> <<>>,
     branches |-> [c \in BranchClasses |-> <<>>],
     rels     |-> <<>>,
     linked   |-> file.linked[t],
     target   |-> file.target[t]]

Init ==
    /\ file \in Files
    /\ seg = 1
    /\ step = "prepare"
    /\ tbs = [t \in TBs |-> Constructed(t)]
    /\ branch = [t \in TBs |-> [d \in Jumps |-> NoTB]]
    /\ parented = {}
    /\ entries = <<>>
    /\ stack = <<>>
    /\ parents = {}
    /\ finished = {}

-----------------------------------------------------------------------------
(* Preparing a segment.                                                    *)

(* Segment::settle_all_tb and TB_Link: a recorded jump whose address is in *)
(* the map becomes a link.                                                 *)
Settled(t) ==
    [d \in Jumps |-> IF tbs[t].linked[d] THEN file.next[t][d] ELSE NoTB]

Code(t) ==
    [k \in DOMAIN file.code[t] |-> [id |-> Id(t, k), opc |-> file.code[t][k]]]

(* TB_AddRels_Vistor and DisassmbleVistor on block t.                      *)
Decoded(t) ==
    [tbs[t] EXCEPT !.rels     = file.rels[t],
                   !.insns    = Code(t),
                   !.branches = AddBranches(@, Code(t), 0)]

Prepare ==
    LET new    == BlocksOf(seg)
        linked == [t \in TBs |-> IF t \in new THEN Settled(t) ELSE branch[t]]
    IN  /\ step = "prepare"
        /\ branch' = linked
        /\ parented' = parented \cup
                {u \in TBs : \E t \in new, d \in Jumps : linked[t][d] = u}
        /\ tbs' = [t \in TBs |-> IF t \in new THEN Decoded(t) ELSE tbs[t]]
        /\ entries' = InOrder(new \ parented')
        /\ step' = "unify"
        /\ UNCHANGED <<file, seg, stack, parents, finished>>

-----------------------------------------------------------------------------
(* Unifying.                                                               *)

NoSuccessor(t) == \A d \in Jumps : ~ tbs[t].linked[d]

OnlyOneSuccessor(t) ==
    \E d \in Jumps : /\ tbs[t].linked[d]
                     /\ ~ tbs[t].linked[1 - d]
                     /\ branch[t][d] # NoTB

TheOnlyOneSuccessor(t) == IF branch[t][0] # NoTB THEN branch[t][0] ELSE branch[t][1]

(* A slip: the index of the other jump.                                    *)
OtherBranchInsnIndex(t) == tbs[t].target[IF tbs[t].linked[1] THEN 0 ELSE 1]

(* branch_insn_index of the jump that is recorded.                         *)
BranchInsnIndex(t) == tbs[t].target[IF tbs[t].linked[1] THEN 1 ELSE 0]

(* A slip: the copied relocations keep their offsets in src.               *)
CopiedRelsUnmoved(rels, start) ==
    LET upto[j \in 0..Len(rels)] ==
            IF j = 0 THEN <<>>
            ELSE IF rels[j].valid THEN Append(upto[j - 1], rels[j]) ELSE upto[j - 1]
    IN  upto[Len(rels)]

(* The valid relocations of a block copied to index start.                 *)
CopiedRels(rels, start) ==
    LET upto[j \in 0..Len(rels)] ==
            IF j = 0 THEN <<>>
            ELSE IF rels[j].valid
                 THEN Append(upto[j - 1], [rels[j] EXCEPT !.off = @ + start])
                 ELSE upto[j - 1]
    IN  upto[Len(rels)]

(* A slip, as in the lines commented out (TU_Vistor.cpp:46-51): what       *)
(* follows the jump stays.                                                 *)
UnifiedKeepTail(dst, src, start) ==
    LET head == DeleteRun(dst, start, 1)
    IN  [head EXCEPT
            !.rels     = @ \o CopiedRels(src.rels, start),
            !.insns    = SubSeq(@, 1, start) \o src.insns
                            \o SubSeq(@, start + 1, Len(@)),
            !.branches = AddBranches(@, src.insns, start),
            !.linked   = src.linked]

(* unify_srcblock_no_successor: everything of dst from its jump on is      *)
(* deleted, with the relocations on it, and src is copied there.           *)
Unified(dst, src, start) ==
    LET head == DeleteRun(dst, start, Len(dst.insns) - start)
    IN  [head EXCEPT
            !.rels     = @ \o CopiedRels(src.rels, start),
            !.insns    = @ \o src.insns,
            !.branches = AddBranches(@, src.insns, start),
            !.linked   = src.linked,
            !.target   = [d \in Jumps |-> IF src.linked[d] THEN start + src.target[d]
                                                           ELSE @[d]]]

(* The assertion before the deletion: the jump is a B.                     *)
JumpIsB(t) ==
    LET i == BranchInsnIndex(t) IN
    i < Len(tbs[t].insns) /\ tbs[t].insns[i + 1].opc = "B"

Top == stack[Len(stack)]
Pop == SubSeq(stack, 1, Len(stack) - 1)
Frame(t) == [tb |-> t, pc |-> "enter"]
Push(t, frames) == IF t = NoTB THEN frames ELSE Append(frames, Frame(t))
At(pc) == step = "unify" /\ stack # <<>> /\ Top.pc = pc

(* A slip: the blocks of the active calls are not remembered.              *)
SeenFinished(t) == file.key[t] \in finished

Seen(t) == file.key[t] \in parents \cup finished

(* A slip: the successor's branches are tested in place of its recorded    *)
(* jumps.                                                                  *)
CanUnifyUnlinked(t) ==
    OnlyOneSuccessor(t) /\ \A d \in Jumps : branch[TheOnlyOneSuccessor(t)][d] = NoTB

CanUnify(t) == OnlyOneSuccessor(t) /\ NoSuccessor(TheOnlyOneSuccessor(t))

(* The walk from the next entry block starts with empty sets.              *)
StartEntry ==
    /\ step = "unify"
    /\ stack = <<>>
    /\ entries # <<>>
    /\ stack' = <<Frame(Head(entries))>>
    /\ entries' = Tail(entries)
    /\ parents' = {}
    /\ finished' = {}
    /\ UNCHANGED <<file, seg, step, tbs, branch, parented>>

AlreadySeen ==
    /\ At("enter")
    /\ Seen(Top.tb)
    /\ stack' = Pop
    /\ UNCHANGED <<file, seg, step, tbs, branch, parented, entries, parents, finished>>

(* The call returns at once: the block enters neither set.                 *)
Unify ==
    LET t   == Top.tb
        src == TheOnlyOneSuccessor(t)
    IN  /\ At("enter")
        /\ ~ Seen(t)
        /\ CanUnify(t)
        /\ IF JumpIsB(t)
           THEN /\ tbs' = [tbs EXCEPT ![t] = Unified(@, tbs[src], BranchInsnIndex(t))]
                /\ branch' = [branch EXCEPT ![t] = branch[src]]
                /\ stack' = Pop
                /\ UNCHANGED step
           ELSE /\ step' = "aborted"
                /\ UNCHANGED <<tbs, branch, stack>>
        /\ UNCHANGED <<file, seg, parented, entries, parents, finished>>

Enter ==
    LET t == Top.tb IN
    /\ At("enter")
    /\ ~ Seen(t)
    /\ ~ CanUnify(t)
    /\ parents' = parents \cup {file.key[t]}
    /\ stack' = Append(Pop, [Top EXCEPT !.pc = "false"])
    /\ UNCHANGED <<file, seg, step, tbs, branch, parented, entries, finished>>

(* Two slips: a loop in place of the first if, and an else in place of the *)
(* second.                                                                 *)
VisitFalseAgain ==
    /\ At("false")
    /\ stack' = Push(branch[Top.tb][0], stack)
    /\ UNCHANGED <<file, seg, step, tbs, branch, parented, entries, parents, finished>>

VisitFalseOnly ==
    /\ At("false")
    /\ LET next == IF branch[Top.tb][0] = NoTB THEN "true" ELSE "leave" IN
       stack' = Push(branch[Top.tb][0], Append(Pop, [Top EXCEPT !.pc = next]))
    /\ UNCHANGED <<file, seg, step, tbs, branch, parented, entries, parents, finished>>

VisitFalse ==
    /\ At("false")
    /\ stack' = Push(branch[Top.tb][0], Append(Pop, [Top EXCEPT !.pc = "true"]))
    /\ UNCHANGED <<file, seg, step, tbs, branch, parented, entries, parents, finished>>

VisitTrue ==
    /\ At("true")
    /\ stack' = Push(branch[Top.tb][1], Append(Pop, [Top EXCEPT !.pc = "leave"]))
    /\ UNCHANGED <<file, seg, step, tbs, branch, parented, entries, parents, finished>>

Leave ==
    /\ At("leave")
    /\ parents' = parents \ {file.key[Top.tb]}
    /\ finished' = finished \cup {file.key[Top.tb]}
    /\ stack' = Pop
    /\ UNCHANGED <<file, seg, step, tbs, branch, parented, entries>>

NextSegment ==
    /\ step = "unify"
    /\ stack = <<>>
    /\ entries = <<>>
    /\ IF BlocksOf(seg + 1) = {}
       THEN step' = "done" /\ UNCHANGED seg
       ELSE step' = "prepare" /\ seg' = seg + 1
    /\ UNCHANGED <<file, tbs, branch, parented, entries, stack, parents, finished>>

Walk == AlreadySeen \/ Unify \/ Enter \/ VisitFalse \/ VisitTrue \/ Leave

Next == Prepare \/ StartEntry \/ Walk \/ NextSegment

(* One thread runs the driver to its end.                                  *)
Spec == Init /\ [][Next]_vars /\ WF_vars(Next)

-----------------------------------------------------------------------------
(* Properties.                                                             *)

(* A block as it runs: its instructions, and its only jump if the block    *)
(* that jump goes to is known (-1 if not).                                 *)
Running(ids, linked, target, next) ==
    LET only == {d \in Jumps : linked[d] /\ ~ linked[1 - d] /\ next[d] # NoTB}
    IN  [ids  |-> ids,
         jump |-> IF only = {} THEN -1 ELSE target[CHOOSE d \in only : TRUE],
         next |-> IF only = {} THEN NoTB ELSE next[CHOOSE d \in only : TRUE]]

FileIds(t)   == [k \in DOMAIN file.code[t] |-> Id(t, k)]
MemoryIds(t) == [k \in DOMAIN tbs[t].insns |-> tbs[t].insns[k].id]

InFile(t) == Running(FileIds(t), file.linked[t], file.target[t], file.next[t])

IsDecoded(t) == file.seg[t] < seg \/ (file.seg[t] = seg /\ step # "prepare")

InMemory(t) ==
    IF IsDecoded(t)
    THEN Running(MemoryIds(t), tbs[t].linked, tbs[t].target, branch[t])
    ELSE InFile(t)

(* The instructions run from the start of t while one block leads to one   *)
(* other.  NumTBs blocks reach the end of every chain that has one.        *)
Traces(view) ==
    LET run[n \in 0..NumTBs] ==
            [u \in TBs |->
                IF n = 0 THEN <<>>
                ELSE IF view[u].next = NoTB THEN view[u].ids
                ELSE SubSeq(view[u].ids, 1, view[u].jump) \o run[n - 1][view[u].next]]
    IN  run

Trace(view, t) == Traces(view)[NumTBs][t]

FileView   == [t \in TBs |-> InFile(t)]
MemoryView == [t \in TBs |-> InMemory(t)]

(* The block t leads to ends and lies in a later segment: what the walk    *)
(* attaches is still empty (driver.cpp:79-96), and t is cut short.         *)
MayBeCut(t) ==
    LET v == FileView[t].next
    IN  v # NoTB /\ file.seg[v] > file.seg[t] /\ \A d \in Jumps : ~ file.linked[v][d]

CutView ==
    [t \in TBs |->
        IF MayBeCut(t)
        THEN [ids |-> SubSeq(FileView[t].ids, 1, FileView[t].jump), jump |-> -1, next |-> NoTB]
        ELSE FileView[t]]

(* Unifying changes what no block runs: the instructions before the jump,  *)
(* then those of the successor, to the end of the chain.  All it ever      *)
(* loses is the code of the last block of a chain, where it lies in a      *)
(* later segment than the block that leads to it.                          *)
TracesKept ==
    LET before == FileView
        cut    == CutView
        now    == MemoryView
    IN  \A t \in TBs : Trace(now, t) \in {Trace(before, t), Trace(cut, t)}

(* A relocation follows the code it patches: in a unified block the valid  *)
(* relocations cover, whole and in order, the instructions the             *)
(* relocations of the file cover, and no relocation whose instructions are *)
(* all in the block is missing, its own or one that came with a successor. *)
(* They stay in the order of the code, if they are in the file: the driver *)
(* prints the block next, with one cursor for code and relocations         *)
(* (DisassemblePrintVistor.cpp:63-87).                                     *)
InOrderOfCode(rels) ==
    \A j, k \in DOMAIN rels :
        j < k /\ rels[j].valid /\ rels[k].valid => rels[j].off + rels[j].slots <= rels[k].off

Patched(ids, rel) == [kind |-> rel.kind, ids |-> SubSeq(ids, rel.off + 1, rel.off + rel.slots)]

(* What the valid relocations of a block with these instructions patch.    *)
PatchedBy(ids, rels) == {Patched(ids, rels[j]) : j \in {k \in DOMAIN rels : rels[k].valid}}

(* What the relocations of the file patch.                                 *)
Emitted ==
    LET before == FileView
    IN  UNION {{Patched(before[t].ids, file.rels[t][j]) : j \in DOMAIN file.rels[t]} : t \in TBs}

RelsInOrder ==
    (\A t \in TBs : InOrderOfCode(file.rels[t])) => \A t \in TBs : InOrderOfCode(tbs[t].rels)

RelsFollowCode ==
    LET now     == MemoryView
        emitted == Emitted
    IN  /\ RelsInOrder
        /\ \A t \in TBs :
            IsDecoded(t) =>
                PatchedBy(now[t].ids, tbs[t].rels)
                    = {p \in emitted : Range(p.ids) \subseteq Range(now[t].ids)}

(* A unified block's branch vectors list its own and the copied branches   *)
(* at their new places, in order (TU_Vistor.cpp:76-88).                    *)
BranchesIndexed == \A t \in TBs : AllBranchesIndexed(tbs[t])

(* Nothing else happens to a program than what Inlining allows: every step *)
(* of the driver, the walk and unify_srcblock_no_successor leaves all      *)
(* blocks as they run or inlines one successor that has no jump into one   *)
(* block (TU_Vistor.cpp:26-103).                                           *)
AsProgram(ids, linked, target, next) ==
    [code  |-> ids,
     jumps |-> {[at |-> target[d], to |-> next[d]] : d \in {e \in Jumps : linked[e]}}]

GivenBlock(t) == AsProgram(FileIds(t), file.linked[t], file.target[t], file.next[t])

RunningBlock(t) ==
    IF IsDecoded(t)
    THEN AsProgram(MemoryIds(t), tbs[t].linked, tbs[t].target, branch[t])
    ELSE GivenBlock(t)

Given    == [block |-> [t \in TBs |-> GivenBlock(t)], seg |-> file.seg]
AsItRuns == [t \in TBs |-> RunningBlock(t)]

Unifier == INSTANCE Inlining WITH Blocks <- TBs, program <- Given, running <- AsItRuns

OnlyInlines == Unifier!Spec

(* The assertion that the jump to be replaced is a B (TU_Vistor.cpp:59)    *)
(* never fails, however often the walk comes back to unified blocks.       *)
NeverAborts == step # "aborted"

(* The recursion is never deeper than the blocks are many, plus the call   *)
(* that finds its block seen: a cycle of blocks does not exhaust the C++   *)
(* stack.                                                                  *)
RecursionBounded == Len(stack) <= NumTBs + 1

(* The walk misses no opportunity the file shows: when a segment is done,  *)
(* a block that some entry block reaches inside the segment, and whose     *)
(* only successor ends there, has been unified.  Addresses that differ     *)
(* only above 32 bits defeat the walk's two sets (TU_Vistor.cpp:113).      *)
Goes(t, u) == \E d \in Jumps : file.linked[t][d] /\ file.next[t][d] = u

IsEntry(t) == \A u \in TBs : file.seg[u] <= file.seg[t] => ~ Goes(u, t)

ReachedFrom(e) ==
    LET reach[n \in 0..NumTBs] ==
            IF n = 0 THEN {e}
            ELSE reach[n - 1] \cup
                    {u \in BlocksOf(file.seg[e]) : \E t \in reach[n - 1] : Goes(t, u)}
    IN  reach[NumTBs]

EndsNext(t) ==
    LET s == InFile(t).next
    IN  s # NoTB /\ \A d \in Jumps : ~ file.linked[s][d]

NoneMissed(e) == \A t \in ReachedFrom(e) : EndsNext(t) => NoSuccessor(t)

NothingMissed ==
    (Cardinality(Range(file.key)) = NumTBs) =>
        \A e \in TBs : IsEntry(e) /\ (file.seg[e] < seg \/ step = "done") => NoneMissed(e)

(* The driver gets through every segment.                                  *)
Terminates == <>(step \in {"done", "aborted"})

-----------------------------------------------------------------------------
(* The inductive invariant behind the safety properties.                   *)

FrameType == [tb : TBs, pc : {"enter", "false", "true", "leave"}]

TypeOK ==
    /\ WellFormedFile(file)
    /\ seg \in Nat
    /\ step \in {"prepare", "unify", "done", "aborted"}
    /\ tbs \in [TBs -> TBType]
    /\ branch \in [TBs -> [Jumps -> TBs \cup {NoTB}]]
    /\ entries \in Seq(TBs)
    /\ stack \in Seq(FrameType)

(* Before it is decoded a block is what the constructor made of it.        *)
Unread(t) == tbs[t] = Constructed(t) /\ branch[t] = [d \in Jumps |-> NoTB]

(* A block with a recorded jump is still as it was decoded.                *)
AsRead(t) ==
    /\ tbs[t].insns  = Code(t)
    /\ tbs[t].rels   = file.rels[t]
    /\ tbs[t].linked = file.linked[t]
    /\ tbs[t].target = file.target[t]
    /\ \A d \in Jumps : tbs[t].linked[d] => branch[t][d] = file.next[t][d]

BlocksOK ==
    \A t \in TBs :
        /\ ~ IsDecoded(t) => Unread(t)
        /\ IsDecoded(t) /\ ~ NoSuccessor(t) => AsRead(t)
        /\ \A d \in Jumps : ~ tbs[t].linked[d] => branch[t][d] = NoTB

(* The calls below the innermost one have entered their blocks, and those  *)
(* blocks differ in their addresses.                                       *)
Entered(i) == stack[i].pc # "enter"

WalkOK ==
    /\ \A i \in DOMAIN stack :
        /\ i # Len(stack) => Entered(i)
        /\ Entered(i) => file.key[stack[i].tb] \in parents
    /\ \A i, j \in DOMAIN stack :
        i # j /\ Entered(i) /\ Entered(j)
            => file.key[stack[i].tb] # file.key[stack[j].tb]

IndInv == TypeOK /\ BlocksOK /\ BranchesIndexed /\ NeverAborts /\ WalkOK

(* What RelsFollowCode rests on.  The instructions of a block are its own, *)
(* as the file has them, and those of blocks that lead nowhere: a block    *)
(* never takes in one that has been given some of its code.                *)
OwnOrFinal ==
    \A t \in TBs : \A k \in DOMAIN tbs[t].insns :
        \E u \in TBs : /\ \E m \in DOMAIN file.code[u] : tbs[t].insns[k].id = Id(u, m)
                       /\ u = t \/ NoSuccessor(u)

RelsInside ==
    \A t \in TBs : \A j \in DOMAIN tbs[t].rels :
        tbs[t].rels[j].valid => tbs[t].rels[j].off + tbs[t].rels[j].slots <= Len(tbs[t].insns)

NoneMissing ==
    \A t \in TBs :
        PatchedBy(MemoryIds(t), tbs[t].rels)
            = {p \in Emitted : Range(p.ids) \subseteq Range(MemoryIds(t))}

RelsInv == OwnOrFinal /\ RelsInside /\ NoneMissing /\ RelsInOrder

(* What TracesKept rests on.  A block the walk has left without a          *)
(* successor runs to the end of its chain in the file.                     *)
Ending(view) ==
    LET within[n \in 0..NumTBs] ==
            IF n = 0 THEN {}
            ELSE {t \in TBs : view[t].next = NoTB \/ view[t].next \in within[n - 1]}
    IN  within

TracesInv ==
    \A t \in TBs : NoSuccessor(t) =>
        /\ t \in Ending(FileView)[NumTBs]
        /\ IsDecoded(t) => MemoryIds(t) \in {Trace(FileView, t), Trace(CutView, t)}

(* What NothingMissed rests on.  Where a block has no successor left, all  *)
(* blocks down its chain have none.                                        *)
EndsClosed == \A t, u \in TBs : NoSuccessor(t) /\ Goes(t, u) => NoSuccessor(u)

ParentedOK ==
    \A u \in TBs : u \in parented => \E t \in TBs : IsDecoded(t) /\ Goes(t, u)

SegmentOK ==
    /\ seg # 0
    /\ step \in {"prepare", "done"} => entries = <<>> /\ stack = <<>>
    /\ step = "done" => \A t \in TBs : file.seg[t] <= seg
    /\ \A i \in DOMAIN entries : entries[i] \in BlocksOf(seg)
    /\ stack # <<>> => stack[1].tb \in BlocksOf(seg)

(* The walk has been to a block, or need not go there.                     *)
Handled(t) == NoSuccessor(t) \/ file.key[t] \in parents \cup finished

(* The successor over jump d of the block of call i is handled, or is the  *)
(* block of the call above it.                                             *)
Tried(i, d) ==
    \A u \in BlocksOf(seg) :
        file.linked[stack[i].tb][d] /\ file.next[stack[i].tb][d] = u
            => Handled(u) \/ (i < Len(stack) /\ stack[i + 1].tb = u)

WalkSearches ==
    /\ parents \subseteq {file.key[stack[i].tb] : i \in {j \in DOMAIN stack : Entered(j)}}
    /\ \A t, u \in BlocksOf(seg) : file.key[t] \in finished /\ Goes(t, u) => Handled(u)
    /\ \A i \in DOMAIN stack :
        stack[i].tb \in BlocksOf(seg) =>
            /\ stack[i].pc \in {"true", "leave"} => Tried(i, 0)
            /\ stack[i].pc = "leave" => Tried(i, 1)
    /\ \A t \in BlocksOf(seg) :
        EndsNext(t) /\ file.key[t] \in parents \cup finished => NoSuccessor(t)

(* Every entry block decoded so far waits, is being searched, or is done.  *)
EntriesSearched ==
    \A e \in TBs :
        IsEntry(e) /\ IsDecoded(e) =>
            \/ e \in Range(entries)
            \/ stack # <<>> /\ stack[1].tb = e
            \/ NoneMissed(e)

MissInv ==
    /\ EndsClosed /\ ParentedOK /\ SegmentOK
    /\ (\A t, u \in TBs : file.key[t] = file.key[u] => t = u) =>
        /\ stack # <<>> => WalkSearches
        /\ EntriesSearched

=============================================================================
