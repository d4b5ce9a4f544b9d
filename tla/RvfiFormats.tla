----------------------------- MODULE RvfiFormats -----------------------------
(***************************************************************************)
(* The instruction formats of insns/generate.py: the wires into which a    *)
(* generated instruction model cuts the word rvfi_insn.                    *)
(*                                                                         *)
(* A word is split into [up, hi, lo]: the bits above 32, 31..16 and 15..0. *)
(* Encodings have their true widths; data is scaled: a byte has BYTE bits  *)
(* and a register LANES bytes (4 or 8), so that 31:0 is WORD bits.         *)
(* Immediates are integers until they meet data.                           *)
(***************************************************************************)
EXTENDS Integers, Sequences

CONSTANTS
  BYTE,    \* bits of a byte, 8 in the code
  LANES    \* `RISCV_FORMAL_XLEN/8

XLEN == BYTE * LANES
WORD == 4 * BYTE

ASSUME FormatsAssumption == BYTE \in Nat \ {0} /\ LANES \in {4, 8}

-----------------------------------------------------------------------------
\* Bits h..l of a word, as a number and as a vector of their value and width;
\* the concatenation of two vectors, the first on top; a vector as a signed
\* number.
Field(w, h, l) ==
  IF l >= 16 THEN (w.hi \div 2^(l - 16)) % 2^(h - l + 1)
  ELSE IF h < 16 THEN (w.lo \div 2^l) % 2^(h - l + 1)
  ELSE w.lo \div 2^l + (w.hi % 2^(h - 15)) * 2^(16 - l)

Slice(w, h, l) == [v |-> Field(w, h, l), n |-> h - l + 1]
x ++ y == [v |-> x.v * 2^y.n + y.v, n |-> x.n + y.n]

SignedAt(v, n) == IF v >= 2^(n - 1) THEN v - 2^n ELSE v
SignedVec(x) == SignedAt(x.v, x.n)

\* A number as a register holds it, and a register read as a signed number.
Wrap(v) == v % 2^XLEN
Signed(v) == SignedAt(v, XLEN)
Msb(n) == 2^(n - 1)
Ones(n) == 2^n - 1

\* The values of a vector of n bits, of rvfi_insn, and of a register.
Vector(n) == 0 .. Ones(n)
InsnWords == [up : Nat, hi : Vector(16), lo : Vector(16)]
Data == Vector(XLEN)

-----------------------------------------------------------------------------
\* Instruction formats.
Padded32(w) == w.up /= 0
Padded16(w) == w.up /= 0 \/ w.hi /= 0

FormatR(w) ==
  [padding |-> Padded32(w), funct7 |-> Field(w, 31, 25), rs2 |-> Field(w, 24, 20),
   rs1 |-> Field(w, 19, 15), funct3 |-> Field(w, 14, 12), rd |-> Field(w, 11, 7),
   opcode |-> Field(w, 6, 0)]
FormatI(w) ==
  [padding |-> Padded32(w), imm |-> SignedVec(Slice(w, 31, 20)),
   rs1 |-> Field(w, 19, 15), funct3 |-> Field(w, 14, 12), rd |-> Field(w, 11, 7),
   opcode |-> Field(w, 6, 0)]
FormatIShift(w) ==
  [padding |-> Padded32(w), funct6 |-> Field(w, 31, 26), shamt |-> Field(w, 25, 20),
   rs1 |-> Field(w, 19, 15), funct3 |-> Field(w, 14, 12), rd |-> Field(w, 11, 7),
   opcode |-> Field(w, 6, 0)]
FormatS(w) ==
  [padding |-> Padded32(w), imm |-> SignedVec(Slice(w, 31, 25) ++ Slice(w, 11, 7)),
   rs2 |-> Field(w, 24, 20), rs1 |-> Field(w, 19, 15), funct3 |-> Field(w, 14, 12),
   opcode |-> Field(w, 6, 0)]
FormatSb(w) ==
  [padding |-> Padded32(w),
   imm |-> 2 * SignedVec(Slice(w, 31, 31) ++ Slice(w, 7, 7) ++ Slice(w, 30, 25)
                         ++ Slice(w, 11, 8)),
   rs2 |-> Field(w, 24, 20), rs1 |-> Field(w, 19, 15), funct3 |-> Field(w, 14, 12),
   opcode |-> Field(w, 6, 0)]
FormatU(w) ==
  [padding |-> Padded32(w), imm |-> 2^12 * SignedVec(Slice(w, 31, 12)),
   rd |-> Field(w, 11, 7), opcode |-> Field(w, 6, 0)]
FormatUj(w) ==
  [padding |-> Padded32(w),
   imm |-> 2 * SignedVec(Slice(w, 31, 31) ++ Slice(w, 19, 12) ++ Slice(w, 20, 20)
                         ++ Slice(w, 30, 21)),
   rd |-> Field(w, 11, 7), opcode |-> Field(w, 6, 0)]

\* The three-bit register fields of compressed words name x8 to x15.
Prime(w, h, l) == 8 + Field(w, h, l)

FormatCr(w) ==
  [padding |-> Padded16(w), funct4 |-> Field(w, 15, 12), rs1_rd |-> Field(w, 11, 7),
   rs2 |-> Field(w, 6, 2), opcode |-> Field(w, 1, 0)]
FormatCi(w) ==
  [padding |-> Padded16(w), imm |-> SignedVec(Slice(w, 12, 12) ++ Slice(w, 6, 2)),
   funct3 |-> Field(w, 15, 13), rs1_rd |-> Field(w, 11, 7), opcode |-> Field(w, 1, 0)]
FormatCiSp(w) ==
  [FormatCi(w) EXCEPT !.imm = 2^4 *
    SignedVec(Slice(w, 12, 12) ++ Slice(w, 4, 3) ++ Slice(w, 5, 5) ++ Slice(w, 2, 2)
              ++ Slice(w, 6, 6))]
FormatCiLui(w) ==
  [FormatCi(w) EXCEPT !.imm = 2^12 * SignedVec(Slice(w, 12, 12) ++ Slice(w, 6, 2))]
FormatCiSri(w) ==
  [padding |-> Padded16(w), shamt |-> (Slice(w, 12, 12) ++ Slice(w, 6, 2)).v,
   funct3 |-> Field(w, 15, 13), funct2 |-> Field(w, 11, 10),
   rs1_rd |-> Prime(w, 9, 7), opcode |-> Field(w, 1, 0)]
FormatCiSli(w) ==
  [padding |-> Padded16(w), shamt |-> (Slice(w, 12, 12) ++ Slice(w, 6, 2)).v,
   funct3 |-> Field(w, 15, 13), rs1_rd |-> Field(w, 11, 7), opcode |-> Field(w, 1, 0)]
FormatCiAndi(w) ==
  [padding |-> Padded16(w), imm |-> SignedVec(Slice(w, 12, 12) ++ Slice(w, 6, 2)),
   funct3 |-> Field(w, 15, 13), funct2 |-> Field(w, 11, 10),
   rs1_rd |-> Prime(w, 9, 7), opcode |-> Field(w, 1, 0)]
FormatCiLsp(w, numbytes) ==
  [padding |-> Padded16(w),
   imm |-> IF numbytes = 4 THEN 4 * (Slice(w, 3, 2) ++ Slice(w, 12, 12)
                                     ++ Slice(w, 6, 4)).v
           ELSE 8 * (Slice(w, 4, 2) ++ Slice(w, 12, 12) ++ Slice(w, 6, 5)).v,
   funct3 |-> Field(w, 15, 13), rd |-> Field(w, 11, 7), opcode |-> Field(w, 1, 0)]

\* The offset of the CL and CS formats.
OffsetCl(w, numbytes) ==
  IF numbytes = 4 THEN 4 * (Slice(w, 5, 5) ++ Slice(w, 12, 10) ++ Slice(w, 6, 6)).v
  ELSE 8 * (Slice(w, 6, 5) ++ Slice(w, 12, 10)).v
FormatCl(w, numbytes) ==
  [padding |-> Padded16(w), imm |-> OffsetCl(w, numbytes), funct3 |-> Field(w, 15, 13),
   rs1 |-> Prime(w, 9, 7), rd |-> Prime(w, 4, 2), opcode |-> Field(w, 1, 0)]
FormatCs(w, numbytes) ==
  [padding |-> Padded16(w), imm |-> OffsetCl(w, numbytes), funct3 |-> Field(w, 15, 13),
   rs1 |-> Prime(w, 9, 7), rs2 |-> Prime(w, 4, 2), opcode |-> Field(w, 1, 0)]
FormatCss(w, numbytes) ==
  [padding |-> Padded16(w),
   imm |-> IF numbytes = 4 THEN 4 * (Slice(w, 8, 7) ++ Slice(w, 12, 9)).v
           ELSE 8 * (Slice(w, 9, 7) ++ Slice(w, 12, 10)).v,
   funct3 |-> Field(w, 15, 13), rs2 |-> Field(w, 6, 2), opcode |-> Field(w, 1, 0)]
FormatCsAlu(w) ==
  [padding |-> Padded16(w), funct6 |-> Field(w, 15, 10), funct2 |-> Field(w, 6, 5),
   rs1_rd |-> Prime(w, 9, 7), rs2 |-> Prime(w, 4, 2), opcode |-> Field(w, 1, 0)]
FormatCiw(w) ==
  [padding |-> Padded16(w),
   imm |-> 4 * (Slice(w, 10, 7) ++ Slice(w, 12, 11) ++ Slice(w, 5, 5)
                ++ Slice(w, 6, 6)).v,
   funct3 |-> Field(w, 15, 13), rd |-> Prime(w, 4, 2), opcode |-> Field(w, 1, 0)]

\* Mutated: bits 6:5 and 4:3 of the offset change places.
FormatCbSwapped(w) ==
  [padding |-> Padded16(w),
   imm |-> 2 * SignedVec(Slice(w, 12, 12) ++ Slice(w, 4, 3) ++ Slice(w, 2, 2)
                         ++ Slice(w, 11, 10) ++ Slice(w, 6, 5)),
   funct3 |-> Field(w, 15, 13), rs1 |-> Prime(w, 9, 7), opcode |-> Field(w, 1, 0)]

FormatCb(w) ==
  [padding |-> Padded16(w),
   imm |-> 2 * SignedVec(Slice(w, 12, 12) ++ Slice(w, 6, 5) ++ Slice(w, 2, 2)
                         ++ Slice(w, 11, 10) ++ Slice(w, 4, 3)),
   funct3 |-> Field(w, 15, 13), rs1 |-> Prime(w, 9, 7), opcode |-> Field(w, 1, 0)]
FormatCj(w) ==
  [padding |-> Padded16(w),
   imm |-> 2 * SignedVec(Slice(w, 12, 12) ++ Slice(w, 8, 8) ++ Slice(w, 10, 10)
                         ++ Slice(w, 9, 9) ++ Slice(w, 6, 6) ++ Slice(w, 7, 7)
                         ++ Slice(w, 2, 2) ++ Slice(w, 11, 11) ++ Slice(w, 5, 3)),
   funct3 |-> Field(w, 15, 13), opcode |-> Field(w, 1, 0)]

=============================================================================
