------------------------------- MODULE Codec -------------------------------
(***************************************************************************)
(* One instruction on its way through the program: read as a word, decoded *)
(* into a LoongArchInsInfo, perhaps changed by a pass, and encoded again   *)
(* when the file is written (TBWriter::handle_assemble encodes every       *)
(* instruction, touched or not).                                           *)
(*                                                                         *)
(* decode() and encode() share no table: the one is a tree of switches and *)
(* an extraction function for each format, the other looks an opcode up in *)
(* opc2bin and insn2format and calls an encoding function.                 *)
(*                                                                         *)
(* A word, and the value of an operand, is the set of its bits that are    *)
(* one, so that | is union and masking is intersection.                    *)
(*                                                                         *)
(* A definition introduced as a slip is the one after it with a bug a      *)
(* programmer could make; nothing uses it.                                 *)
(***************************************************************************)
EXTENDS CodecFormats, CodecOpcodes

CONSTANTS
    Words,         \* the words of the file
    Counts,        \* how many pairs a run of stores or loads has
    Differences,   \* between a constant and one that is in a register
    Offsets,       \* distances of branches
    Registers      \* registers that hold a constant

Bit  == 0..31
Word == SUBSET Bit

ASSUME WordsAssumption == Words \subseteq Word

(* len bits from position start of the word are the operand's bits from    *)
(* position at.                                                            *)
PieceType   == [start : Bit, len : Bit, at : Bit]
OperandType == [pieces : SUBSET PieceType, length : Nat, signed : BOOLEAN]

-----------------------------------------------------------------------------
(* Decoding.                                                               *)

(* A slip: every unsigned member a u_int8_t.                               *)
WidthUniform(slot) == IF slot \in {"si", "offs"} THEN 32 ELSE 8

(* The operands LoongArchInsInfo keeps in more than eight bits.            *)
Width(slot) ==
    IF slot \in {"si", "offs"} THEN 32
    ELSE IF slot \in {"csr", "code", "level", "level_3", "hint", "ui", "imm2"} THEN 16
    ELSE 8

(* A number as its 32 bits.                                                *)
TwosComplement(n) == IF n >= 0 THEN Bits(n) ELSE Bit \ Bits(-n - 1)

Stored(slot, value) == {k \in value : k < Width(slot)}

Gathered(word, pieces) ==
    UNION {{p.at + (b - p.start) : b \in {c \in word : p.start <= c /\ c < p.start + p.len}}
           : p \in pieces}

(* extract32, sextract32, deposit32.                                       *)
Extract(word, operand) ==
    LET value == Gathered(word, operand.pieces) IN
    IF operand.signed /\ operand.length - 1 \in value
    THEN value \cup {k \in Bit : k >= operand.length}
    ELSE value

Opcodes == DOMAIN DecodeTree

Leaves == {DecodeTree[opc] : opc \in Opcodes}

Reached(word) ==
    {[format |-> format, bits |-> word \cap Tested[format]] : format \in DOMAIN Tested}
    \cap Leaves

(* Where one pattern contains another, as CSRXCHG contains CSRRD, decode() *)
(* tries the narrower one first.                                           *)
Narrowest(word) ==
    {leaf \in Reached(word) :
        \A other \in Reached(word) : Tested[other.format] \subseteq Tested[leaf.format]}

LeafOf(word) == CHOOSE leaf \in Narrowest(word) : TRUE

OpcodeOf(leaf) == CHOOSE opc \in Opcodes : DecodeTree[opc] = leaf

Operands(word, format) ==
    [slot \in DOMAIN Extracts[format] |->
        Stored(slot, Extract(word, Extracts[format][slot]))]

(* What DisassmbleVistor makes of a word.  OPC_INVALID is 0, the value     *)
(* memset leaves when decode() fails.                                      *)
Invalid(word) == [opc |-> "INVALID", origin |-> word, slots |-> <<>>]

Decoded(word) ==
    IF Narrowest(word) = {} THEN Invalid(word)
    ELSE [opc    |-> OpcodeOf(LeafOf(word)),
          origin |-> word,
          slots  |-> Operands(word, LeafOf(word).format)]

-----------------------------------------------------------------------------
(* Encoding.                                                               *)

(* encode32, encode32_muti_field: the operand's bits, masked and shifted.  *)
Placed(value, p) ==
    {p.start + (k - p.at) : k \in {j \in value : p.at <= j /\ j < p.at + p.len}}

PlacedOperands(slots, format) ==
    UNION {UNION {Placed(slots[slot], p) : p \in Encodes[format][slot]}
           : slot \in DOMAIN Encodes[format]}

Encoded(insn) ==
    IF insn.opc = "INVALID" THEN insn.origin
    ELSE Opc2bin[insn.opc] \cup PlacedOperands(insn.slots, Insn2format[insn.opc])

-----------------------------------------------------------------------------
VARIABLES
    pc,        \* "read", "held" or "written"
    word,      \* the word in the file
    insn,      \* the LoongArchInsInfo
    changed,   \* a pass has changed it
    out        \* the word written

vars == <<pc, word, insn, changed, out>>

Init ==
    /\ pc = "read"
    /\ word \in Words
    /\ insn = Invalid({})
    /\ changed = FALSE
    /\ out = {}

Decode ==
    /\ pc = "read"
    /\ insn' = Decoded(word)
    /\ pc' = "held"
    /\ UNCHANGED <<word, changed, out>>

Set(slot, n) ==
    /\ insn' = [insn EXCEPT !.slots[slot] = Stored(slot, TwosComplement(n))]
    /\ changed' = TRUE
    /\ UNCHANGED <<pc, word, out>>

(* FixBranchVistor computes the distance of a B or the BNE anew.           *)
FixBranch ==
    /\ pc = "held"
    /\ insn.opc \in {"B", "BNE"}
    /\ \E n \in Offsets : Set("offs", n)

Si(n) == insn.slots["si"] = TwosComplement(n)

MAX_ST_D == 256

(* A slip: the limit of the stores.                                        *)
MAX_LD_DOfStores == MAX_ST_D

MAX_LD_D == 255

(* St_Addi_Vistor: of a run of stores that each move their base down by 8, *)
(* the n-th store reaches 8n down, and the last addi.d moves the base.     *)
StAddi ==
    /\ pc = "held"
    /\ \/ insn.opc = "ST_D"
       \/ insn.opc = "ADDI_D" /\ insn.slots["dst_reg"] = insn.slots["srcs_regs_0"]
    /\ Si(-8)
    /\ \E n \in Counts : n <= MAX_ST_D /\ Set("si", n * (-8))

(* Ld_Addi_Vistor: the same of loads that each move their base up.         *)
LdAddi ==
    /\ pc = "held"
    /\ \E n \in Counts :
        /\ n <= MAX_LD_D
        /\ \/ insn.opc = "LD_D" /\ Si(0) /\ Set("si", (n - 1) * 8)
           \/ /\ insn.opc = "ADDI_D" /\ Si(8)
              /\ insn.slots["dst_reg"] = insn.slots["srcs_regs_0"]
              /\ Set("si", n * 8)

can_substitue_with_addi_insn(imm) == -2048 <= imm /\ imm <= 2047

Addi(dst_reg, src_reg, imm) ==
    [opc    |-> "ADDI_D",
     origin |-> {},
     slots  |-> [dst_reg |-> dst_reg, srcs_regs_0 |-> src_reg, si |-> imm]]

(* substitue_with_addi_insn: the lu12i.w that starts a constant becomes an *)
(* addi.d to a register that holds one nearby.                             *)
SubstituteAddi ==
    /\ pc = "held"
    /\ insn.opc = "LU12I_W"
    /\ \E imm \in Differences, i \in Registers :
        /\ can_substitue_with_addi_insn(imm)
        /\ insn' = Addi(insn.slots["dst_reg"], Bits(i), TwosComplement(imm))
    /\ changed' = TRUE
    /\ UNCHANGED <<pc, word, out>>

Encode ==
    /\ pc = "held"
    /\ out' = Encoded(insn)
    /\ pc' = "written"
    /\ UNCHANGED <<word, insn, changed>>

Next == Decode \/ FixBranch \/ StAddi \/ LdAddi \/ SubstituteAddi \/ Encode

Spec == Init /\ [][Next]_vars

-----------------------------------------------------------------------------
(* Properties.                                                             *)

(* An instruction no pass has changed is written as it was read, although  *)
(* it is rebuilt from the operands and other tables.                       *)
RoundTrip == pc = "written" /\ ~ changed => out = word

(* A value fits if the bits beyond the operand are what the reader adds.   *)
Fits(value, operand) ==
    LET low == {k \in value : k < operand.length} IN
    value = IF operand.signed /\ operand.length - 1 \in low
            THEN low \cup {k \in Bit : k >= operand.length} ELSE low

(* Whatever a pass made of the instruction is what the next reader of the *)
(* file decodes: neither an immediate nor its sign is cut off, or spills   *)
(* into the opcode or another operand.  Only the distance of a branch may  *)
(* be too large, FixBranchVistor does not look.                            *)
Reread ==
    pc = "written" /\ insn.opc \in Opcodes =>
        LET operands == Extracts[DecodeTree[insn.opc].format] IN
        ("offs" \in DOMAIN insn.slots => Fits(insn.slots["offs"], operands["offs"])) =>
            LET again == Decoded(out) IN
            again.opc = insn.opc /\ again.slots = insn.slots

(* The two sets of tables agree on an opcode: decode() looks at exactly    *)
(* the bits that are no operand, and encode() puts back what decode() took *)
(* out.                                                                    *)
OperandAgrees(slot, operand, pieces) ==
    /\ operand \in OperandType
    /\ operand.pieces = pieces
    /\ operand.length <= Width(slot)
    /\ \A p \in pieces :
        /\ p.start + p.len <= 32
        /\ p.at + p.len <= operand.length
        /\ \A q \in pieces : q = p \/ q.at + q.len <= p.at \/ p.at + p.len <= q.at

OperandBits(operand) == UNION {p.start..p.start + p.len - 1 : p \in operand.pieces}

OpcodeAgrees(opc) ==
    LET format == DecodeTree[opc].format IN
    /\ Insn2format[opc] = format
    /\ Opc2bin[opc] = DecodeTree[opc].bits
    /\ DOMAIN Encodes[format] = DOMAIN Extracts[format]
    /\ \A slot \in DOMAIN Extracts[format] :
        OperandAgrees(slot, Extracts[format][slot], Encodes[format][slot])
    /\ Bit = Tested[format] \cup UNION {OperandBits(Extracts[format][slot]) :
                                        slot \in DOMAIN Extracts[format]}

TablesAgree == \A opc \in Opcodes : OpcodeAgrees(opc)

(* The tables agree on the instruction at hand, and it is unambiguous.     *)
TablesAgreeHere ==
    /\ insn.opc \in Opcodes => OpcodeAgrees(insn.opc)
    /\ pc # "read" => (Narrowest(word) = {} <=> Reached(word) = {})
=============================================================================
