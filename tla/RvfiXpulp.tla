------------------------------ MODULE RvfiXpulp ------------------------------
(***************************************************************************)
(* The instruction models that insns/generate_xpulp.py writes for the      *)
(* CORE-V instructions of CV32E40P v1.8.2 (rv32ix), after those of the     *)
(* base ISA (RvfiInsns), which it repeats with the hardware loop.          *)
(*                                                                         *)
(* An instruction is <<generator, row>>, row being the arguments that the  *)
(* ISA database gives the generator.  To the inputs come rs3_rdata,        *)
(* is_hwlp and hwlp_start, to the outputs rs3_addr, post_rd_addr and       *)
(* post_rd_wdata.  Bits 31, 15 and 7 of data are those of a word, a half   *)
(* and a byte of BYTE bits; shift amounts stay below XLEN.                 *)
(***************************************************************************)
EXTENDS RvfiInsns
LOCAL INSTANCE FiniteSetsExt

HALF == 2 * BYTE
CV0 == \b0001011
CV1 == \b0101011
CV2 == \b1011011
CV3 == \b1111011

Least(a, b) == IF a < b THEN a ELSE b
Inverted(v) == Ones(XLEN) - v

-----------------------------------------------------------------------------
\* Instruction formats.
FormatPs(w) ==
  [padding |-> Padded32(w), imm |-> SignedVec(Slice(w, 31, 25) ++ Slice(w, 11, 7)),
   funct7 |-> Field(w, 31, 25), rs2 |-> Field(w, 24, 20), rs1 |-> Field(w, 19, 15),
   funct3 |-> Field(w, 14, 12), rs3 |-> Field(w, 11, 7), opcode |-> Field(w, 6, 0)]
FormatPl(w) ==
  [padding |-> Padded32(w), imm |-> SignedVec(Slice(w, 31, 20)),
   funct7 |-> Field(w, 31, 25), rs2 |-> Field(w, 24, 20), rs1 |-> Field(w, 19, 15),
   funct3 |-> Field(w, 14, 12), rd |-> Field(w, 11, 7), opcode |-> Field(w, 6, 0)]
FormatPb(w) ==
  [padding |-> Padded32(w),
   imm12 |-> 2 * SignedVec(Slice(w, 31, 31) ++ Slice(w, 7, 7) ++ Slice(w, 30, 25)
                           ++ Slice(w, 11, 8)),
   imm5 |-> SignedVec(Slice(w, 24, 20)), rs1 |-> Field(w, 19, 15),
   funct3 |-> Field(w, 14, 12), opcode |-> Field(w, 6, 0)]
FormatGenAluN(w) ==
  [padding |-> Padded32(w), funct2 |-> Field(w, 31, 30), ls3 |-> Field(w, 29, 25),
   rs2 |-> Field(w, 24, 20), rs1 |-> Field(w, 19, 15), funct3 |-> Field(w, 14, 12),
   rd |-> Field(w, 11, 7), opcode |-> Field(w, 6, 0)]
FormatCvBitMan(w) ==
  [padding |-> Padded32(w), funct2 |-> Field(w, 31, 30), ls3 |-> Field(w, 29, 25),
   ls2 |-> Field(w, 24, 20), rs1 |-> Field(w, 19, 15), funct3 |-> Field(w, 14, 12),
   rd |-> Field(w, 11, 7), opcode |-> Field(w, 6, 0)]
FormatCvGenAluNr(w) ==
  [padding |-> Padded32(w), funct7 |-> Field(w, 31, 25), rs2 |-> Field(w, 24, 20),
   rs1 |-> Field(w, 19, 15), funct3 |-> Field(w, 14, 12), rd |-> Field(w, 11, 7),
   opcode |-> Field(w, 6, 0)]
FormatSimd(w) ==
  [padding |-> Padded32(w), funct5 |-> Field(w, 31, 27), funct1 |-> Field(w, 26, 26),
   rs2 |-> Field(w, 24, 20), rs1 |-> Field(w, 19, 15), funct3 |-> Field(w, 14, 12),
   rd |-> Field(w, 11, 7), opcode |-> Field(w, 6, 0)]

-----------------------------------------------------------------------------
\* header: the outputs of a model that does not know the word; nobody looks at
\* what the code makes of the others then.
Blank(i) ==
  [valid |-> FALSE, trap |-> ~MisaOk(i, {"X"}), rs1_addr |-> 0, rs2_addr |-> 0,
   rs3_addr |-> 0, rd_addr |-> 0, rd_wdata |-> 0, pc_wdata |-> 0,
   mem_addr |-> 0, mem_rmask |-> 0, mem_wmask |-> 0, mem_wdata |-> 0,
   post_rd_addr |-> 0, post_rd_wdata |-> 0]

\* assign_pc_wdata: the last instruction of a hardware loop jumps to its start.
PcWdata(i) == IF i.is_hwlp THEN i.hwlp_start ELSE Next4(i)

\* What the generators have in common: an instruction that puts result in rd.
\* The third source is always the register in the field of rd.
Computes(i, f, known, sources, result) ==
  IF ~(i.valid /\ ~f.padding /\ known) THEN Blank(i)
  ELSE [Blank(i) EXCEPT
         !.valid = TRUE, !.rs1_addr = f.rs1,
         !.rs2_addr = IF "rs2" \in sources THEN f.rs2 ELSE 0,
         !.rs3_addr = IF "rs3" \in sources THEN f.rd ELSE 0,
         !.rd_addr = f.rd, !.rd_wdata = RdWdata(f.rd, result),
         !.pc_wdata = PcWdata(i)]

-----------------------------------------------------------------------------
\* Loads and stores.  funct3 011 says that the offset is a register; then bit 2
\* of funct7 says that the address is indexed, without post-increment.
RegForm(f) == f.funct3 % 4 = 3
Indexed(f) == RegForm(f) /\ (f.funct7 \div 4) % 2 = 1
RegFunct7(f, high, numbytes) ==
  RegForm(f) => /\ f.funct7 \div 8 = high
                /\ f.funct7 % 4 = (CASE numbytes = 1 -> 0 [] numbytes = 2 -> 1
                                     [] numbytes = 4 -> 2)

\* The base register after the access, and the address of the access.
Increment(i, f, op2) == Wrap(i.rs1_rdata + op2)
\* Mutated: a post-incrementing access uses the incremented address.
AddressAfter(i, f, op2) == Increment(i, f, op2)
Address(i, f, op2) == IF Indexed(f) THEN Increment(i, f, op2) ELSE i.rs1_rdata

PostIncrements(i, f, op2, out) ==
  LET post_rd == IF Indexed(f) THEN 0 ELSE f.rs1
  IN  [out EXCEPT !.rs1_addr = f.rs1, !.post_rd_addr = post_rd,
                  !.post_rd_wdata = RdWdata(post_rd, Increment(i, f, op2)),
                  !.pc_wdata = PcWdata(i)]

\* <<funct3, bytes, signed>>
CvLoads ==
  [cv_lb |-> <<0, 1, TRUE>>, cv_lh |-> <<1, 2, TRUE>>, cv_lw |-> <<2, 4, TRUE>>,
   cv_lbu |-> <<4, 1, FALSE>>, cv_lhu |-> <<5, 2, FALSE>>]
InsnCvL(row, i) ==
  LET f == FormatPl(i.insn)
      op2 == IF RegForm(f) THEN i.rs2_rdata ELSE Wrap(f.imm)
      funct3_valid == \/ f.funct3 = 3 /\ f.opcode = CV1
                      \/ f.funct3 = row[1] /\ f.opcode = CV0
      known == i.valid /\ ~f.padding /\ funct3_valid
                 /\ RegFunct7(f, IF row[3] THEN 0 ELSE 1, row[2])
      out == [Blank(i) EXCEPT !.valid = TRUE, !.rd_addr = f.rd,
                              !.rs2_addr = IF RegForm(f) THEN f.rs2 ELSE 0]
  IN  IF ~known THEN Blank(i)
      ELSE Loads(i, PostIncrements(i, f, op2, out), Address(i, f, op2), row[2], row[3])

\* <<funct3, bytes>>
CvStores == [cv_sb |-> <<0, 1>>, cv_sh |-> <<1, 2>>, cv_sw |-> <<2, 4>>]
InsnCvS(row, i) ==
  LET f == FormatPs(i.insn)
      op2 == IF RegForm(f) THEN i.rs3_rdata ELSE Wrap(f.imm)
      known == i.valid /\ ~f.padding /\ f.funct3 \in {3, row[1]} /\ f.opcode = CV1
                 /\ RegFunct7(f, 2, row[2])
      out == [Blank(i) EXCEPT !.valid = TRUE, !.rs2_addr = f.rs2,
                              !.rs3_addr = IF RegForm(f) THEN f.rs3 ELSE 0]
  IN  IF ~known THEN Blank(i)
      ELSE Stores(i, PostIncrements(i, f, op2, out), Address(i, f, op2), row[2])

-----------------------------------------------------------------------------
\* Bit manipulation: the field of rs1 from ls2 to ls2 + ls3.
\* Mutated: the sign of a field over the top of the register is looked for at
\* its uncapped position, which wraps.
BitFieldUncapped(kind, i, ls2, ls3) ==
  LET mask_sh == Shl(XLEN, Ones(Least(ls3 + 1, XLEN)), ls2)
      extracted == Shr(XLEN, And(XLEN, i.rs1_rdata, mask_sh), ls2)
      sext == IF Bit(And(XLEN, i.rs1_rdata, mask_sh), (ls2 + ls3) % XLEN)
              THEN Shl(XLEN, Ones(XLEN), ls3 + 1) ELSE 0
  IN  IF kind = "extractu" THEN extracted ELSE Or(XLEN, extracted, sext)
BitField(kind, i, ls2, ls3) ==
  LET mask == Ones(Least(ls3 + 1, XLEN))
      mask_sh == Shl(XLEN, mask, ls2)
      rs1 == i.rs1_rdata
      inside == And(XLEN, rs1, mask_sh)
      extracted == Shr(XLEN, inside, ls2)
      msb_pos == Least(ls2 + ls3, XLEN - 1)
      sext == IF Bit(inside, msb_pos)
              THEN Shl(XLEN, Ones(XLEN), msb_pos - ls2 + 1) ELSE 0
  IN  CASE kind = "extract" -> Or(XLEN, extracted, sext)
        [] kind = "extractu" -> extracted
        [] kind = "insert" -> Or(XLEN, And(XLEN, i.rs3_rdata, Inverted(mask_sh)),
                                Shl(XLEN, And(XLEN, rs1, mask), ls2))
        [] kind = "bclr" -> And(XLEN, rs1, Inverted(mask_sh))
        [] kind = "bset" -> Or(XLEN, rs1, mask_sh)
\* Mutated: an insert does not name the register that it inserts into.
FieldSourcesNone(kind) == {}
FieldSources(kind) == IF kind = "insert" THEN {"rs3"} ELSE {}

\* <<funct2, funct3>>
BitMan1 ==
  [extract |-> <<0, 0>>, extractu |-> <<1, 0>>, insert |-> <<2, 0>>,
   bclr |-> <<0, 1>>, bset |-> <<1, 1>>]
InsnCvBitMan1(kind, i) ==
  LET f == FormatCvBitMan(i.insn)
  IN  Computes(i, f, /\ f.funct2 = BitMan1[kind][1] /\ f.funct3 = BitMan1[kind][2]
                     /\ f.opcode = CV2,
               FieldSources(kind), BitField(kind, i, f.ls2, f.ls3))

\* funct7; the amounts are the lowest bits of rs2.
BitMan2 ==
  [extract |-> \b0011000, extractu |-> \b0011001, insert |-> \b0011010,
   bclr |-> \b0011100, bset |-> \b0011101]
Ls2(i) == i.rs2_rdata % XLEN
Ls3(i) == (i.rs2_rdata \div XLEN) % XLEN
KnownCv1(f, funct7) == f.funct7 = funct7 /\ f.funct3 = 3 /\ f.opcode = CV1
InsnCvBitMan2(kind, i) ==
  LET f == FormatR(i.insn)
  IN  Computes(i, f, KnownCv1(f, BitMan2[kind]), {"rs2"} \cup FieldSources(kind),
               BitField(kind, i, Ls2(i), Ls3(i)))

\* Groups of n bits in the opposite order; three bits leave the top bits zero.
Reversed(v, n) ==
  MapThenSumSet(LAMBDA k : ((v \div 2^(XLEN - n * (k + 1))) % 2^n) * 2^(n * k),
                0 .. XLEN \div n - 1)
InsnCvBitrev(i) ==
  LET f == FormatCvBitMan(i.insn)
  IN  Computes(i, f, /\ f.funct2 = 3 /\ f.ls3 \in 0 .. 2 /\ f.funct3 = 1
                     /\ f.opcode = CV2,
               {}, Reversed(Shl(XLEN, i.rs1_rdata, f.ls2), f.ls3 + 1))

InsnCvRor(i) ==
  LET f == FormatR(i.insn)
      shamt == Ls2(i)
  IN  Computes(i, f, KnownCv1(f, \b0100000), {"rs2"},
               Or(XLEN, Shl(XLEN, i.rs1_rdata, XLEN - shamt), Shr(XLEN, i.rs1_rdata, shamt)))

\* funct7
BitMan3 ==
  [ff1 |-> \b0100001, fl1 |-> \b0100010, clb |-> \b0100011, cnt |-> \b0100100]
CountBits(kind, v) ==
  LET ones == {k \in 0 .. XLEN - 1 : Bit(v, k)}
  IN  CASE kind = "ff1" -> IF ones = {} THEN XLEN ELSE Min(ones)
        [] kind = "fl1" -> IF ones = {} THEN XLEN ELSE Max(ones)
        [] kind = "cnt" -> Cardinality(ones)
        [] kind = "clb" ->
             IF ones = {} THEN 0
             ELSE Cardinality({k \in 1 .. XLEN - 1 :
                    \A j \in k .. XLEN - 1 : Bit(v, j) = Bit(v, j - 1)})
InsnCvBitMan3(kind, i) ==
  LET f == FormatR(i.insn)
  IN  Computes(i, f, f.rs2 = 0 /\ KnownCv1(f, BitMan3[kind]), {},
               CountBits(kind, i.rs1_rdata))

-----------------------------------------------------------------------------
\* General ALU.  <<funct7, of rs1 alone>>
GenAlu ==
  [abs |-> <<\b0101000, TRUE>>, slet |-> <<\b0101001, FALSE>>,
   sletu |-> <<\b0101010, FALSE>>, min |-> <<\b0101011, FALSE>>,
   minu |-> <<\b0101100, FALSE>>, max |-> <<\b0101101, FALSE>>,
   maxu |-> <<\b0101110, FALSE>>, exths |-> <<\b0110000, TRUE>>,
   exthz |-> <<\b0110001, TRUE>>, extbs |-> <<\b0110010, TRUE>>,
   extbz |-> <<\b0110011, TRUE>>]
GenAluResult(op, a, b) ==
  CASE op = "abs" -> IF Signed(a) < 0 THEN Wrap(-a) ELSE a
    [] op = "slet" -> Bool(Signed(a) <= Signed(b))
    [] op = "sletu" -> Bool(a <= b)
    [] op = "min" -> IF Signed(a) < Signed(b) THEN a ELSE b
    [] op = "minu" -> IF a < b THEN a ELSE b
    [] op = "max" -> IF Signed(a) < Signed(b) THEN b ELSE a
    [] op = "maxu" -> IF a < b THEN b ELSE a
    [] op = "exths" -> SignExtend(a % 2^HALF, HALF)
    [] op = "exthz" -> a % 2^HALF
    [] op = "extbs" -> SignExtend(a % 2^BYTE, BYTE)
    [] op = "extbz" -> a % 2^BYTE
InsnCvGenAlu(op, i) ==
  LET f == FormatR(i.insn)
      alone == GenAlu[op][2]
  IN  Computes(i, f, (alone => f.rs2 = 0) /\ KnownCv1(f, GenAlu[op][1]),
               IF alone THEN {} ELSE {"rs2"},
               GenAluResult(op, i.rs1_rdata, i.rs2_rdata))

\* <<funct7, unsigned, bound in rs2>>; the bounds are signed numbers.
Clips ==
  [clip |-> <<\b0111000, FALSE, FALSE>>, clipu |-> <<\b0111001, TRUE, FALSE>>,
   clipr |-> <<\b0111010, FALSE, TRUE>>, clipur |-> <<\b0111011, TRUE, TRUE>>]
\* Mutated: the immediate bound counts one bit more.
UpperBoundWide(r, i, ls2) ==
  IF r THEN i.rs2_rdata % Msb(XLEN) ELSE 2^ls2 - 1
UpperBound(r, i, ls2) ==
  IF r THEN i.rs2_rdata % Msb(XLEN) ELSE IF ls2 = 0 THEN 0 ELSE 2^(ls2 - 1) - 1
Clipped(row, i, ls2) ==
  LET compg == UpperBound(row[3], i, ls2)
      compl == IF row[2] THEN 0 ELSE -(compg + 1)
      rs1 == Signed(i.rs1_rdata)
  IN  Wrap(IF rs1 <= compl THEN compl ELSE IF rs1 >= compg THEN compg ELSE rs1)
InsnCvClip(op, i) ==
  LET f == FormatR(i.insn)
  IN  Computes(i, f, KnownCv1(f, Clips[op][1]), IF Clips[op][3] THEN {"rs2"} ELSE {},
               Clipped(Clips[op], i, f.rs2))

\* Add and subtract, then round (R) and shift; u is unsigned.
Round(n) == IF n = 0 THEN 0 ELSE 2^(n - 1)
Normalized(u, v, n) == IF u THEN Shr(XLEN, Wrap(v), n) ELSE Sra(XLEN, Wrap(v), n)
Norms == [sub : BOOLEAN, R : BOOLEAN, u : BOOLEAN]

InsnCvGenAluN(op, i) ==
  LET f == FormatGenAluN(i.insn)
      v == IF op.sub THEN i.rs1_rdata - i.rs2_rdata ELSE i.rs1_rdata + i.rs2_rdata
  IN  Computes(i, f, /\ f.funct2 = 2 * Bool(op.R) + Bool(op.u)
                     /\ f.funct3 = 2 + Bool(op.sub) /\ f.opcode = CV2,
               {"rs2"},
               Normalized(op.u, v + (IF op.R THEN Round(f.ls3) ELSE 0), f.ls3))

InsnCvGenAluNr(op, i) ==
  LET f == FormatCvGenAluNr(i.insn)
      n == Ls2(i)
      v == IF op.sub THEN i.rs3_rdata - i.rs1_rdata ELSE i.rs1_rdata + i.rs3_rdata
  IN  Computes(i, f, KnownCv1(f, 64 + 4 * Bool(op.sub) + 2 * Bool(op.R) + Bool(op.u)),
               {"rs2", "rs3"}, Normalized(op.u, v + (IF op.R THEN Round(n) ELSE 0), n))

\* Immediate branches, <<funct3, condition>>; a branch that is taken leaves the
\* hardware loop.
CvBranches == [cv_beqimm |-> <<6, "eq">>, cv_bneimm |-> <<7, "ne">>]

\* Mutated: the hardware loop goes before the branch.
NextPcLoops(i, cond, target) ==
  IF i.is_hwlp THEN i.hwlp_start ELSE IF cond THEN target ELSE Next4(i)

NextPc(i, cond, target) == IF cond THEN target ELSE PcWdata(i)
InsnCvB(row, i) ==
  LET f == FormatPb(i.insn)
      cond == Cond(row[2], i.rs1_rdata, Wrap(f.imm5))
      next_pc == NextPc(i, cond, Wrap(i.pc_rdata + f.imm12))
      known == i.valid /\ ~f.padding /\ f.funct3 = row[1] /\ f.opcode = CV0
  IN  IF ~known THEN Blank(i)
      ELSE [Blank(i) EXCEPT !.valid = TRUE, !.rs1_addr = f.rs1, !.pc_wdata = next_pc,
                            !.trap = @ \/ JumpTraps(i, next_pc)]

-----------------------------------------------------------------------------
\* Multiply and accumulate.  The halves of registers: the upper ones (h),
\* accumulating (ac); altops are the low 16 bits of the masks.
Macs == [u : BOOLEAN, h : BOOLEAN, R : BOOLEAN, ac : BOOLEAN]
Altops == "ALTOPS"
MacMask(op) ==
  IF op.R THEN (IF op.u THEN 57655 ELSE 58856) ELSE (IF op.u THEN 1598 ELSE 16311)
HalfOf(op, v) ==
  LET half == IF op.h THEN v \div 2^HALF ELSE v % 2^HALF
  IN  IF op.u THEN half ELSE SignedAt(half, HALF)
Mac16(op, i, ls3) ==
  LET op1 == HalfOf(op, i.rs1_rdata)
      op2 == HalfOf(op, i.rs2_rdata)
      sum == op1 * op2 + i.rs3_rdata + (IF op.R THEN Round(ls3) ELSE 0)
  IN  IF Altops \in i.def
      THEN Xor(XLEN, Shr(XLEN, And(XLEN, Wrap(op1 + op2), i.rs3_rdata), ls3), MacMask(op))
      ELSE Normalized(op.u, sum, ls3)
InsnCvMac16(op, i) ==
  LET f == FormatGenAluN(i.insn)
  IN  Computes(i, f, /\ f.funct2 = 2 * Bool(op.R) + Bool(op.h)
                     /\ f.funct3 = 4 + 2 * Bool(op.ac) + Bool(op.u) /\ f.opcode = CV2,
               {"rs2"} \cup (IF op.ac THEN {"rs3"} ELSE {}), Mac16(op, i, f.ls3))

\* <<funct7, operation>>
Macs32 == [mac |-> <<\b1001000, "add">>, msu |-> <<\b1001001, "sub">>]
InsnCvMac32(op, i) ==
  LET f == FormatR(i.insn)
      Plus(a, b) == Alu(Macs32[op][2], XLEN, a, b)
  IN  Computes(i, f, KnownCv1(f, Macs32[op][1]), {"rs2", "rs3"},
               IF Altops \in i.def
               THEN Xor(XLEN, Or(XLEN, Plus(i.rs1_rdata, i.rs2_rdata), i.rs3_rdata), 1598)
               ELSE Plus(i.rs3_rdata, Alu("mul", XLEN, i.rs1_rdata, i.rs2_rdata)))

-----------------------------------------------------------------------------
\* Vectors of two halves or of four bytes: lane k of n bits, and the register
\* that holds the lanes res.
Width(half) == IF half THEN HALF ELSE BYTE
LanesOf(half) == IF half THEN {0, 1} ELSE 0 .. 3
Lane(v, half, k) == (v \div 2^(Width(half) * k)) % 2^Width(half)
Join(half, res) ==
  MapThenSumSet(LAMBDA k : res[k] * 2^(Width(half) * k), LanesOf(half))

\* The second operand is a vector, its first lane (sc) or an immediate (sci).
Forms == {"v", "sc", "sci"}
FormFunct3(form, half) ==
  (CASE form = "v" -> 0 [] form = "sc" -> 4 [] form = "sci" -> 6) + Bool(~half)
Imm6(w) == (Slice(w, 24, 20) ++ Slice(w, 25, 25)).v
Op2(i, form, half, imms, k) ==
  CASE form = "v" -> Lane(i.rs2_rdata, half, k)
    [] form = "sc" -> Lane(i.rs2_rdata, half, 0)
    [] form = "sci" ->
         (IF imms THEN SignedAt(Imm6(i.insn), 6) ELSE Imm6(i.insn)) % 2^Width(half)
SimdSources(form) == IF form = "sci" THEN {} ELSE {"rs2"}
KnownCv3(f, funct5, funct1, funct3) ==
  /\ f.funct5 = funct5 /\ f.funct1 = funct1 /\ f.funct3 = funct3 /\ f.opcode = CV3

\* <<funct5, funct1, signed immediates>>
SimdOps ==
  [add |-> <<0, 0, TRUE>>, sub |-> <<1, 0, TRUE>>, avg |-> <<2, 0, TRUE>>,
   avgu |-> <<3, 0, FALSE>>, min |-> <<4, 0, TRUE>>, minu |-> <<5, 0, FALSE>>,
   max |-> <<6, 0, TRUE>>, maxu |-> <<7, 0, FALSE>>, srl |-> <<8, 0, FALSE>>,
   sra |-> <<9, 0, FALSE>>, sll |-> <<10, 0, FALSE>>, or |-> <<11, 0, TRUE>>,
   xor |-> <<12, 0, TRUE>>, and |-> <<13, 0, TRUE>>, abs |-> <<14, 0, FALSE>>,
   cmpeq |-> <<0, 1, TRUE>>, cmpne |-> <<1, 1, TRUE>>, cmpgt |-> <<2, 1, TRUE>>,
   cmpge |-> <<3, 1, TRUE>>, cmplt |-> <<4, 1, TRUE>>, cmple |-> <<5, 1, TRUE>>,
   cmpgtu |-> <<6, 1, FALSE>>, cmpgeu |-> <<7, 1, FALSE>>,
   cmpltu |-> <<8, 1, FALSE>>, cmpleu |-> <<9, 1, FALSE>>]
SimdInsns == ((DOMAIN SimdOps \ {"abs"}) \X Forms \X BOOLEAN) \cup ({"abs"} \X {"v"} \X BOOLEAN)

SimdShifts == {"srl", "sra", "sll"}
Compare(op, a, b) ==
  CASE op \in {"cmpeq"} -> a = b
    [] op = "cmpne" -> a /= b
    [] op \in {"cmpgt", "cmpgtu"} -> a > b
    [] op \in {"cmpge", "cmpgeu"} -> a >= b
    [] op \in {"cmplt", "cmpltu"} -> a < b
    [] op \in {"cmple", "cmpleu"} -> a <= b
SignedCompares == {"cmpeq", "cmpne", "cmpgt", "cmpge", "cmplt", "cmple"}
\* One lane of n bits.  The sum of avg and avgu is cut to a lane before it is
\* halved.
SimdLane(op, n, a, b) ==
  CASE op \in {"add", "sub", "or", "xor", "and"} -> Alu(op, n, a, b)
    [] op \in SimdShifts -> Alu(op, n, a, b % n)
    [] op = "avg" -> Sra(n, Alu("add", n, a, b), 1)
    [] op = "avgu" -> Alu("add", n, a, b) \div 2
    [] op = "min" -> IF SignedAt(a, n) < SignedAt(b, n) THEN a ELSE b
    [] op = "minu" -> IF a < b THEN a ELSE b
    [] op = "max" -> IF SignedAt(a, n) > SignedAt(b, n) THEN a ELSE b
    [] op = "maxu" -> IF a > b THEN a ELSE b
    [] op = "abs" -> IF SignedAt(a, n) < 0 THEN (-a) % 2^n ELSE a
    [] op \in SignedCompares ->
         IF Compare(op, SignedAt(a, n), SignedAt(b, n)) THEN Ones(n) ELSE 0
    [] OTHER -> IF Compare(op, a, b) THEN Ones(n) ELSE 0

\* Bits that the encoding fixes besides the fields of the format.
SimdFlag(op, form, half, w) ==
  IF form = "sci" THEN op \in SimdShifts => Imm6(w) < (IF half THEN 16 ELSE 8)
  ELSE IF op = "abs" THEN Field(w, 25, 20) = 0
  ELSE Field(w, 25, 25) = 0
InsnCvSimdAlu(row, i) ==
  LET f == FormatSimd(i.insn)
      op == row[1]
      form == row[2]
      half == row[3]
      res == [k \in LanesOf(half) |->
                SimdLane(op, Width(half), Lane(i.rs1_rdata, half, k),
                         Op2(i, form, half, SimdOps[op][3], k))]
  IN  Computes(i, f, /\ SimdFlag(op, form, half, i.insn)
                     /\ KnownCv3(f, SimdOps[op][1], SimdOps[op][2], FormFunct3(form, half)),
               SimdSources(form), Join(half, res))

\* Lanes in and out of a vector, funct3.
ExtIns == [extract |-> 0, extractu |-> 2, insert |-> 4]
InsnCvSimdExtIns(row, i) ==
  LET f == FormatSimd(i.insn)
      kind == row[1]
      half == row[2]
      sel == IF half THEN Field(i.insn, 25, 25)
             ELSE (Slice(i.insn, 20, 20) ++ Slice(i.insn, 25, 25)).v
      flag == Field(i.insn, 24, IF half THEN 20 ELSE 21) = 0
      selected == Lane(i.rs1_rdata, half, sel)
      inserted == [k \in LanesOf(half) |-> IF k = sel THEN Lane(i.rs1_rdata, half, 0)
                                           ELSE Lane(i.rs3_rdata, half, k)]
  IN  Computes(i, f, flag /\ KnownCv3(f, 23, 0, ExtIns[kind] + Bool(~half)),
               FieldSources(kind),
               CASE kind = "extract" -> SignExtend(selected, Width(half))
                 [] kind = "extractu" -> selected
                 [] kind = "insert" -> Join(half, inserted))

\* Dot products, <<funct5, second factor signed, first factor signed, accumulates>>
Dots ==
  [dotup |-> <<16, FALSE, FALSE, FALSE>>, dotusp |-> <<17, TRUE, FALSE, FALSE>>,
   dotsp |-> <<18, TRUE, TRUE, FALSE>>, sdotup |-> <<19, FALSE, FALSE, TRUE>>,
   sdotusp |-> <<20, TRUE, FALSE, TRUE>>, sdotsp |-> <<21, TRUE, TRUE, TRUE>>]
Factor(s, v, half) == IF s THEN SignedAt(v, Width(half)) ELSE v
\* Mutated: all products of bytes are unsigned.
DotUnsigned(op, i, form, half) ==
  Wrap(MapThenSumSet(LAMBDA k : Lane(i.rs1_rdata, half, k)
                                * Op2(i, form, half, Dots[op][2], k), LanesOf(half)))
Dot(op, i, form, half) ==
  LET row == Dots[op]
      Op(k) == Op2(i, form, half, row[2], k)
      Product(k) == Factor(row[3], Lane(i.rs1_rdata, half, k), half)
                      * Factor(row[2], Op(k), half)
  IN  IF Altops \in i.def
      THEN Xor(XLEN, Xor(XLEN, Wrap(i.rs1_rdata + Join(half, [k \in LanesOf(half) |-> Op(k)])),
                         i.rs3_rdata), 16311)
      ELSE Wrap(SumFunction([k \in LanesOf(half) |-> Product(k)])
                  + (IF row[4] THEN i.rs3_rdata ELSE 0))
InsnCvSimdDot(row, i) ==
  LET f == FormatSimd(i.insn)
      op == row[1]
      form == row[2]
      half == row[3]
  IN  Computes(i, f, /\ form /= "sci" => Field(i.insn, 25, 25) = 0
                     /\ KnownCv3(f, Dots[op][1], 0, FormFunct3(form, half)),
               SimdSources(form) \cup (IF Dots[op][4] THEN {"rs3"} ELSE {}),
               Dot(op, i, form, half))

\* Shuffles, <<funct5, funct3, half, immediate, source of the top byte, of two
\* vectors>>
Shuffles ==
  [shuffle_h |-> <<24, 0, TRUE, FALSE, 0, FALSE>>,
   shuffle_sci_h |-> <<24, 6, TRUE, TRUE, 0, FALSE>>,
   shuffle_b |-> <<24, 1, FALSE, FALSE, 0, FALSE>>,
   shuffleI0_sci_b |-> <<24, 7, FALSE, TRUE, 0, FALSE>>,
   shuffleI1_sci_b |-> <<25, 7, FALSE, TRUE, 1, FALSE>>,
   shuffleI2_sci_b |-> <<26, 7, FALSE, TRUE, 2, FALSE>>,
   shuffleI3_sci_b |-> <<27, 7, FALSE, TRUE, 3, FALSE>>,
   shuffle2_h |-> <<28, 0, TRUE, FALSE, 0, TRUE>>,
   shuffle2_b |-> <<28, 1, FALSE, FALSE, 0, TRUE>>]
InsnCvSimdShu(op, i) ==
  LET f == FormatSimd(i.insn)
      row == Shuffles[op]
      half == row[3]
      sci == row[4]
      n == IF half THEN 2 ELSE 4
      Control(k) == Lane(i.rs2_rdata, half, k)
      Pos(k) == IF ~sci THEN Control(k) % n
                ELSE IF half THEN (Imm6(i.insn) \div 2^k) % 2
                ELSE IF k = 3 THEN row[5] ELSE (Imm6(i.insn) \div 4^k) % 4
      From(k) == IF row[6] /\ (Control(k) \div n) % 2 = 0 THEN i.rs3_rdata ELSE i.rs1_rdata
      flag == IF sci THEN half => Field(i.insn, 24, 21) = 0
              ELSE Field(i.insn, 25, 25) = 0
  IN  Computes(i, f, flag /\ KnownCv3(f, row[1], 0, row[2]),
               (IF sci THEN {} ELSE {"rs2"}) \cup (IF row[6] THEN {"rs3"} ELSE {}),
               Join(half, [k \in LanesOf(half) |-> Lane(From(k), half, Pos(k))]))

\* Packs, <<funct5, funct3, half, upper lanes>>
Packs ==
  [pack |-> <<30, 0, TRUE, FALSE>>, pack_h |-> <<30, 0, TRUE, TRUE>>,
   packhi_b |-> <<31, 1, FALSE, TRUE>>, packlo_b |-> <<31, 1, FALSE, FALSE>>]
\* Mutated: packs do not look at bit 25.
InsnCvSimdPackLoose(op, i) ==
  LET f == FormatSimd(i.insn)
      row == Packs[op]
  IN  Computes(i, f, KnownCv3(f, row[1], 0, row[2]), {"rs2", "rs3"}, i.rs1_rdata)
InsnCvSimdPack(op, i) ==
  LET f == FormatSimd(i.insn)
      row == Packs[op]
      half == row[3]
      pos == Bool(row[4])
      res == IF half
             THEN <<Lane(i.rs2_rdata, half, pos), Lane(i.rs1_rdata, half, pos)>>
             ELSE <<Lane(i.rs2_rdata, half, 0), Lane(i.rs1_rdata, half, 0)>>
      bytes == [k \in LanesOf(FALSE) |->
                  IF k \div 2 = pos THEN res[1 + (k % 2)] ELSE Lane(i.rs3_rdata, FALSE, k)]
  IN  Computes(i, f, /\ Field(i.insn, 25, 25) = Bool(row[4])
                     /\ KnownCv3(f, row[1], 0, row[2]),
               {"rs2"} \cup (IF half THEN {} ELSE {"rs3"}),
               IF half THEN Join(half, [k \in {0, 1} |-> res[1 + k]])
               ELSE Join(FALSE, bytes))

-----------------------------------------------------------------------------
\* Complex numbers, the real part in the lower half.
Re(v) == v % 2^HALF
Im(v) == v \div 2^HALF
Complex(re, im) == re + im * 2^HALF
Part(v) == SignedAt(v, HALF)

\* The imaginary part of a product (im) or the real one, divided by 2^div; the
\* other half is kept from rd.
CplxMuls == [im : BOOLEAN, div : 0 .. 3]
CplxProduct(im, a, b) ==
  IF im THEN Part(Re(a)) * Part(Im(b)) + Part(Im(a)) * Part(Re(b))
  ELSE Part(Re(a)) * Part(Re(b)) - Part(Im(a)) * Part(Im(b))
CplxMul(op, i) ==
  LET product == Wrap(CplxProduct(op.im, i.rs1_rdata, i.rs2_rdata))
      part == Sra(XLEN, product, HALF - 1 + op.div) % 2^HALF
      sum == Alu(IF op.im THEN "sub" ELSE "add", XLEN, i.rs1_rdata, i.rs2_rdata)
  IN  IF Altops \in i.def
      THEN Xor(XLEN, Or(XLEN, sum, i.rs3_rdata), IF op.im THEN 57655 ELSE 58856)
      ELSE IF op.im THEN Complex(Re(i.rs3_rdata), part)
      ELSE Complex(part, Im(i.rs3_rdata))
InsnCvCplxmul(op, i) ==
  LET f == FormatSimd(i.insn)
  IN  Computes(i, f, /\ Field(i.insn, 25, 25) = Bool(op.im)
                     /\ KnownCv3(f, 10, 1, 2 * op.div),
               {"rs2", "rs3"}, CplxMul(op, i))

InsnCvCplxconj(i) ==
  LET f == FormatSimd(i.insn)
  IN  Computes(i, f, Field(i.insn, 25, 20) = 0 /\ KnownCv3(f, 11, 1, 0), {},
               Complex(Re(i.rs1_rdata), (-Im(i.rs1_rdata)) % 2^HALF))

\* Sums and differences, the latter also times -j (rot), divided by 2^div.
CplxAdds == ({"rot"} \X (0 .. 3)) \cup ({"add", "sub"} \X (1 .. 3))
CplxAddFunct5(op) == CASE op = "rot" -> 12 [] op = "add" -> 13 [] op = "sub" -> 14
InsnCvCplxaddsub(row, i) ==
  LET f == FormatSimd(i.insn)
      a == i.rs1_rdata
      b == i.rs2_rdata
      Half(x, y) == Alu(IF row[1] = "add" THEN "add" ELSE "sub", HALF, x, y)
      res_re == IF row[1] = "rot" THEN Half(Im(a), Im(b)) ELSE Half(Re(a), Re(b))
      res_im == IF row[1] = "rot" THEN Half(Re(b), Re(a)) ELSE Half(Im(a), Im(b))
  IN  Computes(i, f, /\ Field(i.insn, 25, 25) = 0
                     /\ KnownCv3(f, CplxAddFunct5(row[1]), 1, 2 * row[2]),
               {"rs2"}, Complex(Sra(HALF, res_re, row[2]), Sra(HALF, res_im, row[2])))

-----------------------------------------------------------------------------
\* The base ISA with hardware loops: whatever would go to the next instruction
\* goes to the start of the loop, a branch that is not taken included.
Jumps == {"jal", "jalr"} \cup DOMAIN CJumps \cup DOMAIN CRegJumps
Taken(n, i) ==
  CASE n \in DOMAIN Branches -> Cond(Branches[n][2], i.rs1_rdata, i.rs2_rdata)
    [] n \in DOMAIN CBranches -> Cond(CBranches[n][2], i.rs1_rdata, 0)
    [] OTHER -> n \in Jumps
Loops(n, i, out) ==
  IF ~i.is_hwlp \/ Taken(n, i) THEN out
  ELSE [out EXCEPT
          !.pc_wdata = i.hwlp_start,
          !.trap = CASE n \in DOMAIN Branches -> ~MisaOk(i, {}) \/ JumpTraps(i, i.hwlp_start)
                     [] n \in DOMAIN CBranches -> ~MisaOk(i, C) \/ i.hwlp_start % 2 /= 0
                     [] OTHER -> @]
\* A model of the base ISA leaves the outputs for CORE-V alone.
Extended(out) ==
  [valid |-> out.valid, trap |-> out.trap, rs1_addr |-> out.rs1_addr,
   rs2_addr |-> out.rs2_addr, rs3_addr |-> 0, rd_addr |-> out.rd_addr,
   rd_wdata |-> out.rd_wdata, pc_wdata |-> out.pc_wdata, mem_addr |-> out.mem_addr,
   mem_rmask |-> out.mem_rmask, mem_wmask |-> out.mem_wmask,
   mem_wdata |-> out.mem_wdata, post_rd_addr |-> 0, post_rd_wdata |-> 0]
InsnBase(n, i) == Loops(n, i, Extended(Insn(n, i)))

\* The ISA database of rv32imcx (without c: rv32imx).
Tagged(gen, rows) == {gen} \X rows
CvInsns ==
  Tagged("l", DOMAIN CvLoads) \cup Tagged("s", DOMAIN CvStores)
    \cup Tagged("bit_man_1", DOMAIN BitMan1) \cup Tagged("bitrev", {"cv_bitrev"})
    \cup Tagged("bit_man_2", DOMAIN BitMan2) \cup Tagged("ror", {"cv_ror"})
    \cup Tagged("bit_man_3", DOMAIN BitMan3) \cup Tagged("gen_alu", DOMAIN GenAlu)
    \cup Tagged("clip", DOMAIN Clips) \cup Tagged("gen_alu_N", Norms)
    \cup Tagged("gen_alu_Nr", Norms) \cup Tagged("b", DOMAIN CvBranches)
    \cup Tagged("mac16", Macs) \cup Tagged("mac32", DOMAIN Macs32)
    \cup Tagged("simd_alu", SimdInsns) \cup Tagged("ext_ins", (DOMAIN ExtIns) \X BOOLEAN)
    \cup Tagged("dot", (DOMAIN Dots) \X Forms \X BOOLEAN)
    \cup Tagged("shu", DOMAIN Shuffles) \cup Tagged("pack", DOMAIN Packs)
    \cup Tagged("cplxmul", CplxMuls) \cup Tagged("cplxconj", {"cv_cplxconj"})
    \cup Tagged("cplxaddsub", CplxAdds)
XIsaOf(parts) == Tagged("base", IsaOf(parts)) \cup CvInsns

XInsn(n, i) ==
  LET row == n[2]
  IN  CASE n[1] = "base" -> InsnBase(row, i)
        [] n[1] = "l" -> InsnCvL(CvLoads[row], i)
        [] n[1] = "s" -> InsnCvS(CvStores[row], i)
        [] n[1] = "bit_man_1" -> InsnCvBitMan1(row, i)
        [] n[1] = "bitrev" -> InsnCvBitrev(i)
        [] n[1] = "bit_man_2" -> InsnCvBitMan2(row, i)
        [] n[1] = "ror" -> InsnCvRor(i)
        [] n[1] = "bit_man_3" -> InsnCvBitMan3(row, i)
        [] n[1] = "gen_alu" -> InsnCvGenAlu(row, i)
        [] n[1] = "clip" -> InsnCvClip(row, i)
        [] n[1] = "gen_alu_N" -> InsnCvGenAluN(row, i)
        [] n[1] = "gen_alu_Nr" -> InsnCvGenAluNr(row, i)
        [] n[1] = "b" -> InsnCvB(CvBranches[row], i)
        [] n[1] = "mac16" -> InsnCvMac16(row, i)
        [] n[1] = "mac32" -> InsnCvMac32(row, i)
        [] n[1] = "simd_alu" -> InsnCvSimdAlu(row, i)
        [] n[1] = "ext_ins" -> InsnCvSimdExtIns(row, i)
        [] n[1] = "dot" -> InsnCvSimdDot(row, i)
        [] n[1] = "shu" -> InsnCvSimdShu(row, i)
        [] n[1] = "pack" -> InsnCvSimdPack(row, i)
        [] n[1] = "cplxmul" -> InsnCvCplxmul(row, i)
        [] n[1] = "cplxconj" -> InsnCvCplxconj(i)
        [] n[1] = "cplxaddsub" -> InsnCvCplxaddsub(row, i)

=============================================================================
