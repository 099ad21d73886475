---------------------------- MODULE CodecProofs ----------------------------
(* encode() undoes decode(), for every word and whatever the passes do,    *)
(* from what TLC checks of the tables opcode by opcode.                    *)
EXTENDS Codec, TLAPS

PieceBits(p) == p.start..p.start + p.len - 1

-----------------------------------------------------------------------------
(* The bits an operand has where a piece puts them are the word's bits     *)
(* where the piece takes them: no other piece puts any there.              *)
LEMMA GatheredFromPiece ==
    ASSUME NEW w \in Word, NEW slot, NEW operand, NEW p \in operand.pieces,
           OperandAgrees(slot, operand, operand.pieces),
           NEW j \in Int, p.at <= j, j < p.at + p.len
    PROVE  j \in Gathered(w, operand.pieces) <=> p.start + (j - p.at) \in w
<1>1. \A q \in operand.pieces : q.start \in Nat /\ q.len \in Nat /\ q.at \in Nat
    BY DEF OperandAgrees, OperandType, PieceType, Bit
<1>2. w \subseteq Int
    BY DEF Word, Bit
<1>3. ASSUME p.start + (j - p.at) \in w
      PROVE  j \in Gathered(w, operand.pieces)
    <2> DEFINE b == p.start + (j - p.at)
    <2>1. b \in {c \in w : p.start <= c /\ c < p.start + p.len}
        BY <1>1, <1>3
    <2>2. j = p.at + (b - p.start)
        BY <1>1
    <2> QED
        BY <2>1, <2>2 DEF Gathered
<1>4. ASSUME j \in Gathered(w, operand.pieces)
      PROVE  p.start + (j - p.at) \in w
    <2>1. PICK q \in operand.pieces :
            j \in {q.at + (b - q.start) :
                   b \in {c \in w : q.start <= c /\ c < q.start + q.len}}
        BY <1>4 DEF Gathered
    <2>2. PICK b \in w :
            q.start <= b /\ b < q.start + q.len /\ j = q.at + (b - q.start)
        BY <2>1
    <2>3. q.at <= j /\ j < q.at + q.len
        BY <1>1, <1>2, <2>2
    <2>4. q = p \/ q.at + q.len <= p.at \/ p.at + p.len <= q.at
        BY DEF OperandAgrees
    <2>5. q = p
        BY <1>1, <2>3, <2>4
    <2> QED
        BY <1>1, <1>2, <2>2, <2>5
<1> QED
    BY <1>3, <1>4

(* Neither the sign nor the width of the member touches those bits.        *)
LEMMA StoredFromPiece ==
    ASSUME NEW w \in Word, NEW slot, NEW operand, NEW p \in operand.pieces,
           OperandAgrees(slot, operand, operand.pieces),
           NEW j \in Int, p.at <= j, j < p.at + p.len
    PROVE  j \in Stored(slot, Extract(w, operand)) <=> p.start + (j - p.at) \in w
<1>1. /\ p.start \in Nat /\ p.len \in Nat /\ p.at \in Nat
      /\ operand.length \in Nat
      /\ p.at + p.len <= operand.length /\ operand.length <= Width(slot)
    BY DEF OperandAgrees, OperandType, PieceType, Bit
<1>2. Width(slot) \in Nat
    BY DEF Width
<1>3. j < operand.length /\ j < Width(slot)
    BY <1>1, <1>2
<1>4. j \notin {k \in Bit : k >= operand.length}
    BY <1>1, <1>3
<1>5. j \in Extract(w, operand) <=> j \in Gathered(w, operand.pieces)
    BY <1>4 DEF Extract
<1>6. j \in Stored(slot, Extract(w, operand)) <=> j \in Extract(w, operand)
    BY <1>3 DEF Stored
<1> QED
    BY <1>5, <1>6, GatheredFromPiece

(* encode32 puts back what extract32 took, and nothing else.               *)
LEMMA PlacedFromPiece ==
    ASSUME NEW w \in Word, NEW slot, NEW operand, NEW p \in operand.pieces,
           OperandAgrees(slot, operand, operand.pieces)
    PROVE  Placed(Stored(slot, Extract(w, operand)), p) = w \cap PieceBits(p)
<1> DEFINE value == Stored(slot, Extract(w, operand))
<1>1. p.start \in Nat /\ p.len \in Nat /\ p.at \in Nat
    BY DEF OperandAgrees, OperandType, PieceType, Bit
<1>2. value \subseteq Int
    <2>1. Gathered(w, operand.pieces) \subseteq Int
        <3>1. \A q \in operand.pieces : q.start \in Int /\ q.at \in Int
            BY DEF OperandAgrees, OperandType, PieceType, Bit
        <3>2. ASSUME NEW k \in Gathered(w, operand.pieces)
              PROVE  k \in Int
            <4>1. PICK q \in operand.pieces :
                    k \in {q.at + (b - q.start) :
                           b \in {c \in w : q.start <= c /\ c < q.start + q.len}}
                BY DEF Gathered
            <4>2. PICK b \in w : k = q.at + (b - q.start)
                BY <4>1
            <4> QED
                BY <3>1, <4>2 DEF Word, Bit
        <3> QED
            BY <3>2
    <2>2. Extract(w, operand) \subseteq Int
        BY <2>1 DEF Extract, Bit
    <2> QED
        BY <2>2 DEF Stored
<1>3. ASSUME NEW b \in Placed(value, p)
      PROVE  b \in w \cap PieceBits(p)
    <2>1. PICK j \in value : p.at <= j /\ j < p.at + p.len /\ b = p.start + (j - p.at)
        BY DEF Placed
    <2>2. j \in Int
        BY <1>2
    <2>3. b \in w
        BY <2>1, <2>2, StoredFromPiece
    <2>4. b \in PieceBits(p)
        BY <1>1, <2>1, <2>2 DEF PieceBits
    <2> QED
        BY <2>3, <2>4
<1>4. ASSUME NEW b \in w \cap PieceBits(p)
      PROVE  b \in Placed(value, p)
    <2> DEFINE j == p.at + (b - p.start)
    <2>1. b \in Int /\ p.start <= b /\ b < p.start + p.len
        BY <1>1 DEF PieceBits
    <2>2. j \in Int /\ p.at <= j /\ j < p.at + p.len /\ b = p.start + (j - p.at)
        BY <1>1, <2>1
    <2>3. j \in value
        BY <2>2, StoredFromPiece
    <2> QED
        BY <2>2, <2>3 DEF Placed
<1> QED
    BY <1>3, <1>4

(* All pieces of an operand together.                                      *)
LEMMA PlacedOperand ==
    ASSUME NEW w \in Word, NEW slot, NEW operand, NEW pieces,
           OperandAgrees(slot, operand, pieces)
    PROVE  UNION {Placed(Stored(slot, Extract(w, operand)), p) : p \in pieces}
           = w \cap OperandBits(operand)
<1>1. pieces = operand.pieces
    BY DEF OperandAgrees
<1>2. \A p \in operand.pieces :
        Placed(Stored(slot, Extract(w, operand)), p) = w \cap PieceBits(p)
    BY <1>1, PlacedFromPiece
<1>3. OperandBits(operand) = UNION {PieceBits(p) : p \in operand.pieces}
    BY DEF OperandBits, PieceBits
<1>4. UNION {Placed(Stored(slot, Extract(w, operand)), p) : p \in operand.pieces}
      = UNION {w \cap PieceBits(p) : p \in operand.pieces}
    BY <1>2
<1> QED
    BY <1>1, <1>3, <1>4
-----------------------------------------------------------------------------
(* A word decode() knows is the opcode's bits and its operands'.           *)
LEMMA LeafKnown ==
    ASSUME NEW w \in Word, Narrowest(w) # {}
    PROVE  LET opc == OpcodeOf(LeafOf(w)) IN
           /\ opc \in Opcodes
           /\ DecodeTree[opc].format = LeafOf(w).format
           /\ DecodeTree[opc].bits = w \cap Tested[LeafOf(w).format]
<1> DEFINE leaf == LeafOf(w)
           opc  == OpcodeOf(leaf)
<1>1. leaf \in Narrowest(w)
    BY DEF LeafOf
<1>2. leaf \in Reached(w)
    BY <1>1 DEF Narrowest
<1>3. leaf \in Leaves
    BY <1>2 DEF Reached
<1>4. leaf.bits = w \cap Tested[leaf.format]
    BY <1>2 DEF Reached
<1>5. \E o \in Opcodes : DecodeTree[o] = leaf
    BY <1>3 DEF Leaves
<1>6. opc \in Opcodes /\ DecodeTree[opc] = leaf
    BY <1>5 DEF OpcodeOf
<1> QED
    BY <1>4, <1>6

LEMMA OperandsPlaced ==
    ASSUME NEW w \in Word, NEW opc, OpcodeAgrees(opc),
           NEW format, format = DecodeTree[opc].format
    PROVE  PlacedOperands(Operands(w, format), format)
           = w \cap UNION {OperandBits(Extracts[format][slot]) :
                           slot \in DOMAIN Extracts[format]}
<1> DEFINE Slots == DOMAIN Extracts[format]
           At(slot) == UNION {Placed(Operands(w, format)[slot], p) : p \in Encodes[format][slot]}
<1>1. /\ DOMAIN Encodes[format] = Slots
      /\ \A slot \in Slots :
            OperandAgrees(slot, Extracts[format][slot], Encodes[format][slot])
    BY DEF OpcodeAgrees
<1>2. ASSUME NEW slot \in Slots
      PROVE  At(slot) = w \cap OperandBits(Extracts[format][slot])
    <2>1. Operands(w, format)[slot] = Stored(slot, Extract(w, Extracts[format][slot]))
        BY DEF Operands
    <2> QED
        BY <1>1, <2>1, PlacedOperand
<1>3. PlacedOperands(Operands(w, format), format) = UNION {At(slot) : slot \in Slots}
    BY <1>1 DEF PlacedOperands
<1> HIDE DEF At, Slots
<1>4. UNION {At(slot) : slot \in Slots}
      = UNION {w \cap OperandBits(Extracts[format][slot]) : slot \in Slots}
    BY <1>2
<1>5. UNION {w \cap OperandBits(Extracts[format][slot]) : slot \in Slots}
      = w \cap UNION {OperandBits(Extracts[format][slot]) : slot \in Slots}
    OBVIOUS
<1> QED
    BY <1>3, <1>4, <1>5 DEF Slots

LEMMA Reassembled ==
    ASSUME TablesAgree, NEW w \in Word
    PROVE  Encoded(Decoded(w)) = w
<1>1. CASE Narrowest(w) = {}
    BY <1>1 DEF Encoded, Decoded, Invalid
<1>2. CASE Narrowest(w) # {}
    <2> DEFINE opc    == OpcodeOf(LeafOf(w))
               format == LeafOf(w).format
               rest   == UNION {OperandBits(Extracts[format][slot]) :
                                slot \in DOMAIN Extracts[format]}
    <2>1. /\ opc \in Opcodes
          /\ DecodeTree[opc].format = format
          /\ DecodeTree[opc].bits = w \cap Tested[format]
        BY <1>2, LeafKnown
    <2>2. OpcodeAgrees(opc)
        BY <2>1 DEF TablesAgree
    <2>3. /\ Insn2format[opc] = format
          /\ Opc2bin[opc] = w \cap Tested[format]
          /\ Bit = Tested[format] \cup rest
        BY <2>1, <2>2 DEF OpcodeAgrees
    <2>4. PlacedOperands(Operands(w, format), format) = w \cap rest
        BY <2>1, <2>2, OperandsPlaced
    <2>5. w = (w \cap Tested[format]) \cup (w \cap rest)
        BY <2>3 DEF Word
    <2>6. Decoded(w) = [opc |-> opc, origin |-> w, slots |-> Operands(w, format)]
        BY <1>2 DEF Decoded
    <2> HIDE DEF opc, format, rest
    <2>7. CASE opc = "INVALID"
        BY <2>6, <2>7 DEF Encoded
    <2>8. CASE opc # "INVALID"
        BY <2>3, <2>4, <2>5, <2>6, <2>8 DEF Encoded
    <2> QED
        BY <2>7, <2>8
<1> QED
    BY <1>1, <1>2

-----------------------------------------------------------------------------
(* What an instruction no pass has changed still is.                       *)
Untouched ==
    /\ word \in Word
    /\ pc = "held" /\ ~ changed => insn = Decoded(word)
    /\ pc = "written" /\ ~ changed => out = word

LEMMA UntouchedInit == Init => Untouched
<1> QED
    BY WordsAssumption DEF Init, Untouched

LEMMA UntouchedNext == TablesAgree /\ Untouched /\ [Next]_vars => Untouched'
<1> SUFFICES ASSUME TablesAgree, Untouched, [Next]_vars
             PROVE  Untouched'
    OBVIOUS
<1>1. CASE Decode
    BY <1>1 DEF Decode, Untouched
<1>2. CASE FixBranch
    BY <1>2 DEF FixBranch, Set, Untouched
<1>3. CASE StAddi
    BY <1>3 DEF StAddi, Set, Untouched
<1>4. CASE LdAddi
    BY <1>4 DEF LdAddi, Set, Untouched
<1>5. CASE SubstituteAddi
    BY <1>5 DEF SubstituteAddi, Untouched
<1>6. CASE Encode
    <2>1. word \in Word
        BY DEF Untouched
    <2>2. ASSUME ~ changed
          PROVE  out' = word
        <3>1. insn = Decoded(word)
            BY <1>6, <2>2 DEF Encode, Untouched
        <3> QED
            BY <1>6, <2>1, <3>1, Reassembled DEF Encode
    <2> QED
        BY <1>6, <2>1, <2>2 DEF Encode, Untouched
<1>7. CASE UNCHANGED vars
    BY <1>7 DEF vars, Untouched
<1> QED
    BY <1>1, <1>2, <1>3, <1>4, <1>5, <1>6, <1>7 DEF Next

(* If the tables agree, which the runs check of each opcode, then in every *)
(* file every instruction the passes leave alone, known or not, is written *)
(* as it was read.                                                         *)
THEOREM UntouchedAsRead == TablesAgree => (Spec => []RoundTrip)
<1> SUFFICES ASSUME TablesAgree
             PROVE  Spec => []RoundTrip
    OBVIOUS
<1>1. Init => Untouched
    BY UntouchedInit
<1>2. Untouched /\ [Next]_vars => Untouched'
    BY UntouchedNext
<1>3. Untouched => RoundTrip
    BY DEF Untouched, RoundTrip
<1> QED
    BY <1>1, <1>2, <1>3, PTL DEF Spec
=============================================================================
