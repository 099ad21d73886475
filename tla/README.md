# A verification project for AOT_OPT

AOT_OPT reads an AOT file written by the LATX binary translator (x86 guest,
LoongArch host), edits the translated code and writes the file back. It is one
sequential C++ program. What makes it hard is not concurrency but that almost
every piece of its state is positional: relocations, recorded jumps and branch
vectors name instructions by index or byte offset, and every deletion, insertion
or splice has to move all of them. The interesting behaviours are long sequences
of legal calls, state cached before an edit and read after it, a recursive walk
over a cyclic graph of blocks that it edits while it walks, and a writer and a
reader that must agree on offsets computed in different functions.

## 1. Inventory

| Part | Source | State | Operations | Modelled in |
|---|---|---|---|---|
| Translation block | `lib/AOT_class/aot_class.cpp`, `include/AOT_class/aot_class.hpp` (class `TB`) | instruction list, `b_insns`/`bne_insns`/`other_b_insns`, `rels`/`rels_valid`, `jmp_reset_offsets`/`jmp_target_arg`, `pipehole_available` | `delete_ith_insn`, `delete_ith_insn_alongwith_rel`, `delete_ith_rel`, `add_insn`, `pipehole_opt_available` | `TBOps`, `TBEdit` |
| Loading a block | `lib/Vistor/AddRelsVistor.cpp`, `lib/Vistor/DisassembleVistor.cpp` | fills a `TB` | attach relocations by index range, decode word by word | `TBEdit`, `TUnify`, `AOTWriter` |
| Linking | `Segment::settle_all_tb`, `TB_Link`, `SetNextTB`, the global map `x86AddrToTb` | `true_branch`, `false_branch`, `parents` | look up a jump's address, record link and parent | `Loading`, `TUnify` |
| Unifier | `lib/Vistor/TU_Vistor.cpp` | two sets of addresses per walk, the C++ stack | depth-first walk, `unify_srcblock_no_successor` | `TUnify`, `Inlining` |
| Writer | `lib/AOTFileWriter/*.cpp`, the `how_many_*` functions | five cursors, static `rel_cur_index` | header, segment table, names, TB table, relocations, code | `AOTWriter` |
| Reader | constructors of `AOT_File`, `Segment`, `TB` | file, segment and TB objects, `x86AddrToTb` | follow the offsets of the header and tables, register each block | `Loading`, `AOTWriter` (what it finds) |
| Driver | `tools/opt/driver.cpp` | none of its own | per segment: settle, attach, decode, unify, fix branches; then write | `TUnify` (loop) |
| Branch fixing | `lib/Vistor/FixBranchVistor.cpp` | branch operands | recompute `offs` of a B or BNE | `TBPasses` |
| Tail and nop removal | `RemoveTailVistor.cpp`, `RemoveNonVistor.cpp` | - | deletes through `TB` | `TBPasses` |
| Peephole passes | `Lu12i_Ori*`, `St_Addi`, `Ld_Addi`, `lib/ConstRegSet` | constants known per register | replace or merge instructions through `TB` | `ConstLoads`, `AddiMerge`, `Machine`; the values they store in `Codec` |
| List | `include/LinkList/linklist.hpp` | doubly linked nodes, `size` | insert, remove, get | `LinkList`, `InsnList` |
| Disassembler | `lib/Disassembler/disassembler.cpp`, `AssembleVistor.cpp` | the `LoongArchInsInfo` of each instruction | `decode`, `encode` | `Codec`, `CodecFormats`, `CodecOpcodes` |
| Printing, queries | `DisassemblePrintVistor.cpp`, `EntryBlockVistor.cpp` | three cursors per block | print a block, collect entry blocks | `Printing`, `Loading` (what an entry block is) |
| Old passes | `vistors.cpp`, `PeepHoleOPTVistor.cpp` | - | - | no: no CMake target builds them |

The parts interact by direct calls and shared objects. A pass visits the blocks
of a segment and calls the editing operations of each; the unifier reads one
block while it edits another; the writer reads what all of them left.

What makes each part correct:

- *Block.* A valid relocation covers the instructions it was emitted for, a
  recorded jump points at its branch, the branch vectors list the branches in
  order, and what was computed once about the block stays true.
- *Unifier.* Every block runs the same instructions as before; relocations and
  branches come along; no opportunity is missed; the recursion is bounded and
  the walk ends; the assertion on the replaced jump holds.
- *Writer and reader.* Nothing overlaps or leaves the buffer, the bytes left as
  they were allocated are known ones, and following the offsets finds each
  segment's name and each block's own code and relocations.
- *Passes.* Exactly the nops and tails go, and every branch that stays leads
  where it led before (`TBPasses`). Registers hold the same values after a
  peephole pass as before it (`ConstLoads`, `AddiMerge`).
- *Loading and linking.* A link leads exactly where the jump goes, and a block's
  parents are the blocks linked to it.
- *List.* It is a sequence, and a pass's iterator survives the removal under it.
- *Printing.* Everything is shown once, at its own instruction.
- *Disassembler.* Decoding and encoding, which share no table, undo each other,
  and an operand a pass changed is read back as it was meant.

The hazards are listed with their lines in `PROJECT.json`.

## 2. Modules

**`TBOps`** is the block as a record and the editing operations as pure
operators, one per function of `aot_class.cpp`. Positions are in instructions
(the source divides its byte offsets by four everywhere). The list is a sequence;
an instruction is its identity, standing for the `LoongArchInsInfo*`, and its
class: `B`, `BNE`, one of the other branches, or plain. Registers and immediates
do not matter to these operations. No operator is `RECURSIVE`, the delete loops
are a recursive function (`DeleteRun`), so the module can be proved about.

**`TBEdit`** is a block's life as a state machine: `Init` is the constructed
block with its relocations attached, `DecodeInsn` one round of the decode loop,
`DecodeDone` the end of `DisassmbleVistor::start` with its shape test, and then
one action per editing operation, in any order. `Spec` includes insertion;
`PassesSpec` has the deletions only, because no pass of the repository calls
`add_insn` (they splice into the list directly, which `TUnify` models). The
identity of an instruction lets the properties say which instruction an offset
was meant for.

**`TUnify`** is the driver's loop with linking, decoding and unifying. The file
is chosen in `Init`. `Prepare` is `settle_all_tb`, `TB_AddRels_Vistor` and
`DisassmbleVistor` on the current segment: no walk interleaves with them. The
recursion of `unify_one_successor` is an explicit stack, one frame per active
call, with one action for each point between calls: `AlreadySeen`, `Unify`,
`Enter`, `VisitFalse`, `VisitTrue`, `Leave`. `Unify` is the whole of
`unify_srcblock_no_successor`. Lines 90-102 of `TU_Vistor.cpp` copy the
successor's jumps; as the successor has none, they only invalidate. The sets
hold addresses cut to 32 bits (`key`), as `TB::x86_addr` is.
`FixBranchVistor`, which runs after the unifier, rewrites branch operands this
model does not have; it is in `TBPasses`.

**`TBPasses`** runs the passes that change the end of a block on one block:
`RemoveNonVistor`, then `RemoveTailVistor`, then `FixBranchVistor`. `Init`
chooses the block, which successors linking found, and which of the optional
passes run. The loop over nops has one action per iteration (`RemoveNop`,
`KeepInsn`, `NopsDone`); `RemoveTail` is one call of `remove_tail_of`, its
deletions included; `FixBne` and `FixB` are the two halves of `visit`. `offs` is
the operand `offs` of each instruction, relative as in the code, so a deletion
makes it wrong until it is fixed. A failing assertion leads to `"aborted"`.

**`Inlining`** is what the unifier promises, without walk, sets or tables: blocks
are code and jumps, and the only step takes a successor that goes nowhere into
the one block that goes to it. `TUnify` implements it (`OnlyInlines`), with the
blocks as they would run for `running`.

**`Loading`** is reading and linking: `BuildTB` is one constructor of `TB` with the
loop body of `Segment::Segment` around it, `RefuseTB` its call of `error`,
`SettleTB` one round of `settle_all_tb`. The map has full addresses, the blocks
keep them cut to `Width`, and every lookup by `operator[]` leaves a null entry
(`Asked`). Files are read whole, then linked; that segments are unified in
between is in `TUnify`.

**`Machine`**, **`PeepholeBlocks`**, **`ConstLoads`**, **`AddiMerge`** are the peephole
passes. `Machine` is not the repository's: it says what registers and stores hold
after the straight part of a block, with symbolic values, so that a pass may be
compared with the code it started from; `placed` is the loader having moved what
relocations are about. `PeepholeBlocks` has what the passes have in common: the block,
the pass that runs, its node and its index. `ConstLoads` is the two constant passes with
`ConstRegSet`, `AddiMerge` the two passes that merge pushes and pops; each has one
action for each way through its loops, and keeps the node and the index the code
counts for it apart. `exposed` is a ghost: it records that a relocated load has
been taken for a constant.

**`LinkList`** has the nodes and pointers of `linklist.hpp`; a removed node's
pointers are null. **`InsnList`** is a sequence with one cursor. `IsList` says the
first implements the second, under the refinement that walks the nodes from the
head: it justifies the sequences that every other module has for a list.

**`Printing`** extends `TBEdit`: at any moment of a block's life its visit may run,
one action per item shown. Its `PrintSpec`, which is `PassesSpec` with the printer,
is what the run of the passes checks.

**`AOTWriter`** is the write loops, with the size of each structure a constant.
An object written is its place, its size, what it is of, and the fields a reader
follows. Its size is what the code sets, not what the cursor passes: of a name its
characters and a NUL (`SegmentWriter.cpp:25-29`), of a segment's entry its members
without the padding behind them (`SegmentData`). The header's fields are a record of
their own, `Unset` until written. The driver's buffer has `FileBytes` bytes. `SegmentsRead`, `Found`,
`RelsRead` are what the reader does with the result; `Word` is the conversion
of `int32_t` to `u_int64_t`.

**`Codec`** is one instruction from the word read to the word written: `Decode`,
then whatever a pass makes of it (`FixBranch`, `StAddi`, `LdAddi`,
`SubstituteAddi`: what they store and in which instructions, with the passes'
limits), then `Encode`. The writer encodes every instruction, so an error in one
entry of a table would alter files no pass touched. A word and the value of an
operand are sets of bits. `CodecOpcodes` has the leaves of the tree of switches
in `decode` (opcode, format, and the bits of the word the switches have seen on
the way there) and the arrays `opc2bin` and `insn2format`; `CodecFormats` has,
for each of the hundred formats, where the extraction function takes each
operand and where the encoding function puts it. The order of the tests in
`decode` matters only where one pattern contains another (`Narrowest`). `opnds`,
the counts of registers, and the functions that print or tell which registers an
instruction needs are left out (section 5).

**`MCTBEdit`, `MCTBEditPasses`, `MCTUnify`, `MCTBPasses`, `MCAOTWriter`, `MCCodec`,
`MCConstLoads`, `MCAddiMerge`, `MCLoading`** give the constants their values for TLC. **`TBOpsProofs`**, **`TBEditProofs`**,
**`TUnifyProofs`**, **`TBPassesProofs`**, **`AOTWriterProofs`**,
**`PeepholeProofs`**, **`LoadingProofs`** and **`CodecProofs`** hold the proofs.

Each definition introduced as a *slip* is the definition after it with a
plausible bug; nothing uses it. `PROJECT.json` pairs every property with a slip
that breaks it.

### Assumptions about the input

`WellFormedBlock` and `WellFormedFile` say what the translator guarantees of a
file: relocations are inside the code and share no instruction, a recorded jump
is inside the code (for the unifier, at a B). `RelsDisjoint` is not decoration:
`delete_ith_insn_alongwith_rel` stops at the first covering relocation
(`aot_class.cpp:347`), which is right only if there is one.

In `TBPasses`, of two recorded jumps the false one comes first and a BNE chooses
between them, as `RemoveTailVistor.cpp:13` and `FixBranchVistor.cpp:78` take for
granted. `remove_tail_of` with the jumps in the other order would delete nothing
for the false one. `RegularBranches` says where branches go in a file, as
`fix_bne` and `__fix_b` presume: the one BNE to the true jump, a recorded jump to
the first load of a fall-back behind it (a jump without a fall-back has nowhere
of its own to go), and any other B is the loader's to patch. Only `Landing`
(section 4) needs it.

`Printing` has a weaker `RegularBranches`: a recorded jump is a B, the two are not
the same one, and a relocation that falls back to the epilogue is over one
instruction, a B. `pipehole_opt_available` looks for that relocation in the
vector of Bs (`aot_class.cpp:152-155`), and the printer shows one jump per
instruction. `FlagStaysFresh` and `JumpsAllShown` need it.

`PeepholeBlocks` says of operands only that an `ori` has an immediate without sign
within its bits, as `decode` extracts it: `simulate_ori` cuts the immediate to those
bits, the machine adds it as it is.

The operations trust their callers to pass the node of the index they name
(`n = i + 1`); the model makes the same calls.

## 3. Runs

All runs set `CHECK_DEADLOCK FALSE`: an edited block may have no more
instructions to edit, `add_insn` may exit, and all the others end.

| Run | Question | Instance |
|---|---|---|
| `tb_edit` | Do relocations and recorded jumps stay on their instructions whatever the sequence of edits? Does an edit give up only relocations it hits? | every code of 1 to 3 instructions over the four classes, up to two relocations of 1 or 2 slots, every recording of up to two jumps, 1 insertion |
| `tb_edit_passes` | Do branch vectors and `pipehole_available` stay right when passes delete? Is the block, printed at any time, shown whole and right? | codes of 1 to 6 instructions with at most one BNE and two plain ones, with or without fall-backs to the epilogue; codes of up to six with one or two jumps and up to two relocations in either order |
| `tu_unify` | Does unifying preserve what blocks run, with everything attached to it, and end? | three blocks; each ends, jumps once (with a fall-back before or after) or chooses between two; every successor, the block itself and an unknown one included; one segment, or two with or without colliding addresses |
| `tb_passes` | Are the right instructions removed, with their relocations, and do branches lead where they led? Do the assertions hold? | blocks of up to eleven items: plain, nop, BNE, false and true jump, a two-slot load, a B to the epilogue; nops before, between and behind the jumps and inside the load; every subset of known successors and of the optional passes |
| `aot_writer` | Do the writers stay in the buffer, which bytes do they leave unset, and can it be read back? | one or two segments of zero to two TBs, one or two instructions, every validity of up to two relocations; names empty, short, or filling their area; an entry padded by one byte; sizes are small numbers without a common divisor |
| `codec` | Do the decoder's and the encoder's tables agree, and do the passes' immediates survive? | all 1,237 opcodes, four patterns of operand bits each; words that are no instruction; the passes' limits and their neighbours, distances at the ends of 16 and 26 bits |
| `const_loads` | Do registers and stores come out as before when loads of constants become `addi.d`, wherever relocated things are placed? Do node and index stay in step? | three items: loads of two and three instructions in two registers, four values, with and without a relocation; loads of register 0 and between registers, other writes, a store; three ends |
| `addi_merge` | The same for merged pushes and pops, at and beyond the longest run one `addi.d` is left for | up to three items of pushes, pops, the base as data, relocated pairs and loads; two runs of 4 to 8 and 2 to 5 pairs with limits 3 and 2, between relocated loads |
| `link_list` | Do the pointers implement a sequence with a cursor? | five nodes, every sequence of operations |
| `loading` | Do links lead exactly where they should, are parents right, does linking never abort? | one or two segments of one or two blocks, begins below, beside and a `Width` (4) above each other; every set of recorded jumps |
| `loading_duplicates` | Is the check for blocks already in the map about blocks in the map? | the same; **violated** |
| `aot_writer_norels` | Is a TB without valid relocations read back without any? | that of `aot_writer`; **violated** |

Why the bounds are enough. Editing is local: a relocation, a jump or a branch
can be before, at, or after the edited index, and three instructions with
relocations of one and two slots give all these placements for two of them at
once; what deletion order can do is bounded by the number of instructions. One
insertion followed or preceded by deletions puts an added instruction in every
gap. The shapes `pipehole_opt_available` tells apart have up to four B, a BNE
and something between them. Three blocks give a chain whose middle is unified
first, a block reached along both branches, cycles of one, two and three, and,
in two segments, links in both directions. A block of `TBPasses` has a nop in every
place where its removal moves something else: a jump, a fall-back, a relocation
it may not break. Two TBs in two segments reach every
path of the write loops. In `Codec` every opcode is an initial state, so the
tables are checked whole; the words it starts from only sample the operands, which
is what the theorem of section 4 is for.

The peephole passes read a few instructions at a time and remember registers.
Three items give a constant known, something that changes it or not, and a load
that could start from it; the immediates of `ori` have two bits and those of
`lu12i.w` and `ori` together four, so that every difference at the edge of what
`addi.d` reaches occurs. Runs of pairs are cut into parts by limits 3 and 2 for
256 and 255: runs of up to two parts and a half are followed by a second run
and relocations on both sides. Five nodes are two inside a list with one new and
two removed. `Width` 4 puts two blocks of a segment in one cut address space.

The bounds `MaxAdded` and `MaxNodes` are the only ones that are in a guard; the
theorems hold for every value of `MaxAdded`.

*Fairness.* `TUnify` and `TBPasses` have `WF_vars(Next)`: one thread runs the
program, and nothing it calls blocks. The other modules state safety only.

What the runs show, beyond "no error":

- `PipeholeFresh` holds only while all branches the block was loaded with are
  still there. The code never recomputes the flag; the passes guarded by it
  must not delete branches.
- `TracesKept` says of every block that it runs what it ran, and states the one
  loss there is: the driver unifies a segment before it decodes the next
  (`driver.cpp:79-96`), so a block whose only successor lies in a *later* segment
  and ends there loses its jump and gets nothing in return. What runs from a block
  may therefore lack the last block of its chain (`CutView`), and nothing else: with
  the first alternative alone TLC finds the property violated.
- `NothingMissed` is about blocks an entry block reaches inside the segment, in
  files whose addresses differ in their low 32 bits. It is about what the file
  shows: in a chain A, B, C the walk visits A first, finds that B still has a
  successor and goes on to unify B with C; A then could be unified with B but
  is not visited again, and components that are only a cycle have no entry.
- `DestinationsKept` is about the branches the pass repairs: the BNE, and the one
  jump without a known successor. When nops are removed in a block none of whose
  successors is known, its jumps are not repaired: `fix_b` has a case for two of
  them (`FixBranchVistor.cpp:39-44`), but `visit` calls it only when exactly one
  successor is missing (79-81). With tail removal alone every branch keeps its
  destination.
- `Reread` has no premise for the immediates of `addi.d`, loads and stores: the
  limits 256 and 255 of the two passes are exactly what fits (256 for the loads
  would not). For branches it has one: `FixBranchVistor` does not look whether a
  distance fits.
- `OnlyInlines` is stronger than `TracesKept` about each step and weaker about
  the whole: it says no jump is lost or gained on the way. It lets a successor
  in a later segment contribute nothing, as `TracesKept` does.
- `KeptWhereverPlaced` holds until a relocated load enters the constant set. The
  test at `Lu12i_Ori_Vistor.cpp:36` keeps them out in the inner loop; the outer
  loop (line 88) and the three-instruction pass have no test. With main's file,
  where the passes are commented out, this cannot happen.
- `MachineKept` has four premises, each necessary: no run stores or loads its
  own base from the second pair on (the patterns do not compare data and base
  register), none moves register 0 (nor do they compare the base with it: its
  `addi.d` do nothing, the offsets made of them do; the proof needed this premise, and
  TLC shows a block of two such pushes without it), no pair of a run is relocated
  (`delete_ith_insn` then refuses an `addi.d` whose step is already in the offsets),
  and a pass meets at most one run that is too long for one `addi.d`, and none
  for two (`OneLongRun`): the index is then at most one behind the list. With two
  parts too many it is two behind, and may meet a relocation that is no part
  of the run.
- `CountInStep` of `AddiMerge` says where that lag comes from: with runs no longer
  than the limit, there is none.
- `LinksExact` holds although blocks keep cut addresses: linking adds up full ones.
- `loading_duplicates`: `TB`'s constructor asks the map for the cut address
  (`aot_class.cpp:112-124`), `Segment` registers the full one (447). Above 4 GiB
  a duplicate is not noticed, and a block is refused if a low one has the same
  cut address. Which of the two a counterexample shows depends on TLC's order.
- `RelsShown` needs relocations in the order of the code in the file;
  `RelsFollowCode` of `TUnify` has that unifying keeps that order.
- `JumpsShown` is about blocks that still have their jumps: a deleted jump's
  `jmp_target_arg` stays on the instruction behind it.
- `OnlyGapsLeft` says which bytes of the file nothing sets: in each name's area those
  behind the NUL, in each segment's entry the padding, and `reltable_offset` if no
  relocation is valid. The driver writes them out as `new char[]` left them
  (`driver.cpp:99-101`), so files written from the same input may differ there. The
  reader stops at the NUL and does not look at the others.
- `aot_writer_norels`: `handle_rels` sets out to mark a TB without valid
  relocation with the empty range (1, 0), under a TODO (`TBWriter.cpp:9-18`),
  but `any_valid` starts as `true`. Later TBs get an empty range anyway
  (start n, end n - 1); those before the first relocation of the file get
  (0, -1), which the reader widens to a loop to 2^64 - 1.

## 4. Proofs

`TBEditProofs` begins with the list that all other modules take for a sequence. For
any number of insertions it proves of `LinkList`

- `ListAlwaysLinked`: `ListSpec => []ListInv`
- `AlwaysSameBackwards`: `ListSpec => []SameBackwards`
- `SizeAlwaysCounts`: `ListSpec => []SizeCounts`
- `ListImplements`: `ListSpec => IsList`, that is, `LinkList` implements `InsnList`

`ListInv` says there are a sequence q and a place p that the pointers hold
(`Holds`): each next leads from one place of q to the following one and each prev
back (`Links`), the nodes of q are distinct and were allocated before `new`, `size` is the
length, and `iter` is the object at p. It is what neither property says alone: of a
list that is the same backwards one cannot tell where a node not on it points, and
an insertion behind such a node would not be one. The assignments of a method
are followed one by one (`InsertedAtNextLinks`, `InsertedAtPrevLinks`,
`RemovedSelfLinks`); in each of them the heap in between is not a list. `WalkMeets`,
by induction over the naturals, is that the walk from a sentinel meets q and
stops, so that q and p are what the refinement mapping reads (`ListNow`), and every
step changes them as one of `InsnList` does (`Follows`).

`TBEditProofs` then proves, for every set of well-formed blocks and every `MaxAdded`,

- `TypeCorrect`: `Spec => []TypeOK`
- `RelsAlwaysAnchored`: `Spec => []RelsAnchored`
- `TargetsAlwaysAnchored`: `Spec => []TargetsAnchored`

from `BlocksAssumption` and `MaxAddedAssumption` alone. Neither anchoring
property is inductive. The invariant is `IndInv`: the type, and

- while decoding (`Decoding`): relocations and targets are the block's own and
  the k-th instruction has identity k, so that anchoring holds when the last
  instruction is in;
- afterwards (`Sound`): all valid relocations are anchored and no two share an
  instruction, and all recorded jumps are anchored. Disjointness is needed for
  the deletion that gives up a relocation: with two valid ones over the deleted
  instruction one would survive without it. Both are preserved by `RemoveInsn`
  of an uncovered instruction and by `AddInsn` at an uncovered index, which
  `TBOpsProofs` proves from what the operations return.

`DeleteRun` is a recursive function; that its iterates are what the recursion
says, and that each is sound, is by induction over the naturals (`NatInduct`,
from the library's `NatInduction` in a form the provers can use).

`TBEditProofs` also proves `OnlyTouchedGivenUp`: `Spec => OnlyTouchedRelsGivenUp`. The
action property says a relocation is given up only by a step that deletes one of
its instructions. Its invariant is `GivenUpInv`, over `IndInv`: the identities of
the list are distinct and bounded by the number of instructions ever there, and a
relocation that is no longer valid has lost an instruction it was emitted for.
With distinct identities a removal loses exactly one, and what is lost does not
come back, because an insertion takes a fresh identity.

`CodecProofs` proves `UntouchedAsRead`: `TablesAgree => (Spec => []RoundTrip)`.
`TablesAgree` is a statement about 1,237 entries of constant tables: TLC evaluates
it, as `TablesAgreeHere` in the run `codec`, where every opcode is decoded. What
the proof adds is every word: whatever the operand bits, the pieces encoding puts
back are the pieces decoding took out, because pieces of an operand do not overlap
(`GatheredFromPiece`), sign and member width touch no bit of theirs
(`StoredFromPiece`), and tested bits and operands together are the word
(`Reassembled`). The invariant is `Untouched`: what an instruction no pass has
changed still is. Its only assumption is that words have 32 bits.

Also in `TBEditProofs` is what holds of a block that is only deleted from, as by the
passes, and of printing it after any such deletions:

- `BranchesAlwaysIndexed`: `PassesSpec => []BranchesIndexed`
- `FlagStaysFresh`: `PassesSpec => []PipeholeFresh`
- `PrintingStaysInside`: `PrintSpec => []NeverPastEnd`
- `RelsAllShown`: `PrintSpec => []RelsShown`
- `JumpsAllShown`: `PrintSpec => []JumpsShown`, which is about blocks whose recorded
  jumps are all still there

`BranchesIndexed` is inductive only together with `IndInv`: `delete_ith_rel` deletes
as many instructions as the relocation has slots, and that they are in the list
is that the relocation is anchored. Under one deletion, each vector becomes what
`IsDropped` says: the entry of the deleted index, if there is one, is gone, and
each other one is at its place in the same order, moved with its instruction.
That there is at most one such entry, so that the code may stop at the first, is
what the order in the vector is for. With `add_insn` the property would not hold:
it appends the new branch at the back.

`FlagStaysFresh` is about a flag computed once. `pipehole_opt_available` compares
places in the vectors with recorded jumps and epilogue relocations. As long as all
branches of the code are there (`BranchesThere`), no deletion touches a place
that is compared (`ThereAtBranches`): a jump and such a relocation are at a branch,
and a relocation is only given up with an instruction of its own. What is
behind the deleted instruction moves by one on both sides (`ClosedUp`), so all
comparisons come out as before (`ClosedUpPipehole`). The property speaks of the
number of branches, which is as good: the list has no instruction twice
(`CountedThere`).

Printing is a stuttering step of the passes (`PrintingOnlyLooks`). Its invariant is
`Walked`: at each moment the valid relocations before the cursor are behind the walk
and are just those shown, the others are still to come, and a jump is shown just
when it is behind the walk. A step keeps it because valid relocations stay in the
order of the file under deletions (`RelsInRow`), so the cursor can skip none, and
because a jump outside relocations is never inside brackets. `NeverPastEnd`
follows from anchoring: the slots of a valid relocation are in the list.

`TUnifyProofs` is about every number of blocks and every set of files that
`FilesAssumption` admits, loops and colliding addresses included:

- `Inductive`: `Spec => []IndInv`, and from it `Safe` (`NeverAborts`: the lookup and the
  assertion of `TU_Vistor.cpp:56-59`, the only ones of the walk; those of linking are
  `LinkingNeverAborts` below), `Indexed` (`BranchesIndexed`) and `Bounded`
  (`RecursionBounded`)
- `Refines`: `Spec => OnlyInlines`
- `Relocated`: `Spec => []RelsFollowCode`
- `TracesAlwaysKept`: `Spec => []TracesKept`
- `NoneOverlooked`: `Spec => []NothingMissed`

`IndInv` has what a block is at each stage. An unread block is what its constructor
made of it (a walk may enter one); a block with a recorded jump is as it was
decoded (`AsRead`), so its jump is a B of the file, which the assertion at
`TU_Vistor.cpp:59` asks. `WalkOK` is about the stack: all calls but the innermost
have entered their block, entered blocks have their address in the set, and no two
of them have the same. So the calls are at most one more than the blocks.

For `Refines`, `Unify` is shown to inline: the code in front of the jump stays, the
jump goes, the successor's code follows. Every other step leaves the blocks as
they would run. `Prepare` does so because `running` already shows an unread block
as decoding will make it.

`RelsFollowCode` needs `RelsInv`, above all `OwnOrFinal`: each instruction is the
block's own or of a block without successor. Without it nothing would exclude
that a block is given the same code twice, and a relocation of the first copy
would patch the second. `NoneMissing` says copying loses no relocation: one is
dropped only if some of its code is deleted, and a file's relocations are disjoint.
`TracesKept` needs `TracesInv`: a block without successor already ends where the
chain of the file ends (`Ending`). What is unified with it is one step before
it in the file, so its trace is its own code and then that of the successor: either
the whole one or the one `CutView` gives, whichever the successor runs. A successor
that is not decoded yet is in a later segment and, having no successor, is the last
of its chain; this is where a block becomes one that `CutView` cuts.
`RelsFollowCode` and `TracesKept` go over sequences built by recursive functions;
their inductions are over the naturals, as for `DeleteRun`.

`NothingMissed` needs `MissInv`, which says what a walk leaves behind. Where a
block has no successor, no block further down its chain has one (`EndsClosed`), so
what the walk does not enter holds nothing to unify. If no two addresses have the
same low 32 bits, the walk is a depth-first search (`WalkSearches`): the successors
of a finished block that are in the segment are `Handled` (visited, or without
successor), those of a block on the stack are so up to where its call has got
(`Tried`), and none of the blocks it has visited could still be unified. Each entry
waits, is searched, or has `NoneMissed` (`EntriesSearched`). When the first call
returns, the handled blocks are closed under the links of the segment; so they are
all that the entry reaches, by induction over the length of the path
(`ReachedWithin`), and none of them was missed (`SearchOver`).

`TBPassesProofs` is about every block `BlocksAssumption` admits, with any number of
nops and relocations anywhere, and all four combinations of passes:

- `Inductive`: `Spec => []IndInv`, and from it `Safe` (`NeverAborts`), `Removed`
  (`OnlyNopsAndTailsRemoved`) and `Relocated` (`RelsFollowTails`)
- `Distanced`: `Spec => []DistancesInv`
- `Landing`: `Spec => []DestinationsKept`, which uses `BranchesAssumption` too

`IndInv` is `Faithful` (the list is a part of the file's code in the file's order;
valid relocations and recorded jumps are at their instructions; an invalid
relocation has lost one) and `Progress` (which instructions are gone when each pass
starts, so that what remains to be removed is known). Every deletion in the
passes takes out a run of consecutive instructions: `Cut` says what a list is after
that, one lemma shows that a cut keeps `Faithful` (`CutIsPart`, `CutRels`), and each pass is
shown to make a cut and which (a nop, or a jump's `OwnTail`). That a tail ends where the code thinks it
does is where the order of the two jumps matters: after the false jump's tail is
gone, the true jump is still where `jmp_target_arg` says.

`DistancesInv` then says, of each instruction left, what its branch's operand is.
`DestinationsKept` follows because deletions keep order: the first load behind a
jump is still the first load behind it among those that are left.

TLC checked `IndInv`, `DistancesInv`, `RelsInv`, `TracesInv` and `MissInv` on the instances of
`tb_passes` and `tu_unify` before they were proved; now that they are theorems, no cfg has them.

`LoadingProofs` is about every list of segments, every `Width`, and addresses of any
size, from `FilesAssumption` alone:

- `LinksAlwaysExact`: `Spec => []LinksExact`
- `LinkingNeverAborts`: no branch is set twice, so `SetNextTB` asserts nothing false
- `ParentsAlwaysLinks`: `Spec => []ParentsAreLinks`

The invariant is `LInv`. `Answers` says what the map is at any time: every address
asked or stored has null or the block built last there, and no built block is at
an address that has null. Registering a block keeps it because a block is built
once (the built ones are those before `Here` in reading order, `Passed`), asking
keeps it because it changes no answer. Linking then goes through the blocks in
the same order: those passed are `Settled`, the others `Unset`. `Counted` says of
parents and links that they are the same in number, block by block; a jump
that is linked was `Unset`, so each link is one more and replaces none.

`PeepholeProofs` is about every set of blocks that `BlocksAssumption` admits and all
widths that `MachineAssumption` admits. Of `ConstLoads`:

- `AlwaysRegistersKept`: `Spec => []RegistersKept`
- `AlwaysKeptWhereverPlaced`: `Spec => []KeptWhereverPlaced`
- `AlwaysInStep`: `Spec => []InStep`

The invariant is `Inv`. Three of its parts are about the pass. `Fit`, in `TypeInv`,
says the block still fits what it was decoded from; what `TBOps` deletes with its
relocation keeps it (`DeletedFits`), and `InStep` follows (`FitIsAnchored`). `Place`
says no branch is behind the node in the block, so that what the pass has changed
is in the straight part, and that `visit` goes on with nothing known or at its end.
`Kept` is the two properties themselves.

The fourth, `Believed`, is why they hold: what `const_set` says of a register is
what the register holds in the state at the node, not only when the block runs
as it is but also, as long as nothing relocated was taken for a constant, when the
loader has placed it elsewhere. A load that no relocation covers leaves the value the
code computes (`LoadExecuted`), and a load that the test of `in_scope_of_rel` lets
pass is covered by none (`ScopeFacts`). An instruction that writes a register takes
it out of the set (`KillHolds`). Then an `addi.d` from a register of the set leaves
what the load would have left, and what comes after runs as before
(`ReplacementRuns`): the same instructions, from the same state (`SameRun`), patched
for the same relocations, since these have moved along.

Of `AddiMerge`, for all limits that `LimitAssumption` admits:

- `AlwaysMachineKept`: `AddiSpec => []MachineKept`
- `AlwaysNothingElseMoved`: `AddiSpec => []NothingElseMoved`
- `AlwaysCountInStep`: `AddiSpec => []CountInStep`

The invariant is `MergeInv`. `MergeType` keeps every immediate in its field: an offset
or a step counts the accesses of one part of a run (`ImmsInField`), however long the
run. `MergeKept` is what the pass has kept: the block still fits what it was decoded
from, the code from the first branch on is untouched, and registers and stores
come out as before. `MergePlace` is where the pass `Stands`, and says why it goes on
to do so:

- the code ahead is that of the file (`Follows`), so a run that visit finds is one of
  the file (`RunAhead`), and visit is not in the middle of one it has begun;
- no branch lies behind the node;
- the index is that of the node or one less, and one less only if the long run
  of this pass lies behind. So no other can lie ahead, and the lag stays one;
- the first pass leaves the code as the second must find it (`FollowsAll`): an
  `addi.d` it deletes stood behind a push and belonged to no pop.

A run is an induction over its rounds. The list, in a round, is that of the block
before less the `addi.d` of the rounds passed, but for those at the end of a part
(`RoundBlock`); an index that lags by one still deletes the right one, because
between the two there are only plain instructions of the run (`IndexMayLag`). And the
machine is where it was after as many pairs of the block before, but for the
base, which is `BehindBy` as many steps as were deleted since the part began
(`RoundRuns`): just what the offset of the next access makes up for, and what the
`addi.d` at the end of the part does (`ShortFacts`). The base must not be the data
of an access, nor register 0, for a base that is behind to show nowhere else.

`AOTWriterProofs` is about every file and all sizes of the structures, from
`SizesAssumption` and `FilesAssumption` alone:

- `Inductive`: `Spec => []WInv`, and from it `Safe` (`NothingOverwritten`)
- `BlocksReadBack`: `Spec => []ReadsBackBlocks`
- `RelsReadBack`: `Spec => []ReadsBackRels`
- `GapsOnly`: `Spec => []OnlyGapsLeft`

`WInv` says where the five cursors are at each moment: as far in their areas as the
names, segments, TBs, relocations and code written so far take (`Places`), each
area ending where the next begins (`Layout`). Objects never overlap because each lies
between the base of its area and the place its cursor has reached, and a step adds
only behind that place (`Laid`, `LaidGrows`). The last area ends at `FileBytes`,
which the code computes on its own, block by block: that the two agree is
that sums are linear (`SumsLinear`, by induction over the naturals).

The reader needs more: not only that nothing overlaps, but what is at the place it
follows. `Wrote` lists which object lies where, exactly, that nothing else is in the
areas of segments and TBs, and that the process-wide counter is at each TB the
number of valid relocations before it (`RelIndex`). `ReadsBackRels` is only claimed
of a TB that has a valid relocation or comes after one that has; without that the range is
0 to -1, which is the finding of `aot_writer_norels`.

`OnlyGapsLeft` is about the bytes, in both directions. The areas end where the next one
begins (`Layout`), and within an area a byte lies between two neighbouring places of
the row of objects (`InStep` of the module, `InRow`), whose object `Wrote` says is
there: so each byte is set, or in the rest of a name's area or of an entry. And what
is in those rests is not set by another: places in one row are apart
(`OnceInRow`), areas are apart (`AreasApart`), and each object ends where its name
(`NamesFit`) or its members do.

Only model-checked: `Reread` and `TablesAgreeHere` of `Codec`. Liveness
(`Terminates`) is out of the prover's reach. `TablesAgreeHere` compares tables of
constants, entry by entry.

## 5. Not modelled, and what is left

Not modelled:

- Of `disassembler.cpp`: the names of opcodes, `opnds` and the counts of
  registers, all functions that print an instruction, and the `gen_require`
  functions. They change no state; the last are used by `is_reg_killed`
  (`lib/Vistor/util.cpp:90`) only, which nothing calls.
- `DisassmblePrinterVistor::start(seg, entry)`, a breadth-first walk that prints;
  nothing calls it.
- `vistors.cpp` and `PeepHoleOPTVistor.cpp`, older copies that no CMake target builds.
- The passes inside the driver's loop. `TUnify` has the loop with what main calls
  up to the unifier; `TBPasses`, `ConstLoads` and `AddiMerge` take one block each.
  A unified block has no recorded jump left, so `FixBranchVistor` leaves it alone;
  one that was not unified is as it was decoded, which is the case of `TBPasses`
  without any removal.
- The loader of the written file, and so what the value of `jmp_reset_offsets`
  should be after an edit: it is not in the repository.

Left to prove: `Reread` of `Codec` for the values the passes store.
