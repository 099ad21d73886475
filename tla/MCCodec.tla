------------------------------ MODULE MCCodec ------------------------------
(* For every opcode the word without operands, the word with all their     *)
(* bits, and words that tell neighbouring bits and operands apart; the     *)
(* loads, stores and additions the passes look for; and words that are no  *)
(* instruction.                                                            *)
EXTENDS Codec

Combs == {{}, Bit, {b \in Bit : b % 2 = 0}, {b \in Bit : b % 3 = 0}}

OfOpcode(opc) ==
    {DecodeTree[opc].bits \cup (comb \ Tested[DecodeTree[opc].format]) : comb \in Combs}

(* si is at bit 10; the other operands are register 4.                     *)
WithSi(opc, n) ==
    DecodeTree[opc].bits \cup {2, 7} \cup {b + 10 : b \in TwosComplement(n) \cap 0..11}

Pushes == {WithSi("ST_D", -8), WithSi("ADDI_D", -8)}
Pops   == {WithSi("LD_D", 0), WithSi("ADDI_D", 8)}

NoInstructions == {{}, Bit, {31}, {30, 5, 0}}

MCWords == NoInstructions \cup Pushes \cup Pops \cup UNION {OfOpcode(opc) : opc \in Opcodes}

(* The passes' limits and their neighbours.                                *)
MCCounts == {1, 2, 254, 255, 256, 257}

MCDifferences == {-2049, -2048, -1, 0, 1, 2047, 2048}

(* The ends of the 16 bits of a bne and of the 26 of a b.                  *)
MCOffsets ==
    {-2^25 - 1, -2^25, -2^15 - 1, -2^15, -1, 2, 2^15 - 1, 2^15, 2^25 - 1, 2^25}

MCRegisters == {1, 21, 31}
=============================================================================
