------------------------------ MODULE RvfiInsns ------------------------------
(***************************************************************************)
(* The instruction models that insns/generate.py writes, one Verilog       *)
(* module per instruction (rvfi_insn_<name>), and the isa_<isa>.v modules  *)
(* that join them: from what RVFI says of a retired instruction they       *)
(* compute whether they know the word (valid) and everything the           *)
(* instruction should have done.                                           *)
(*                                                                         *)
(* i is what the inputs of a module carry; i.def are the macros that the   *)
(* configuration defines, i.misa the extensions enabled in the misa CSR,   *)
(* i.undef what the tools make of an undefined vector such as x % 0.       *)
(***************************************************************************)
EXTENDS RvfiFormats, FiniteSets, TLC

\* misa_check.
MisaOk(i, mask) == "CSR_MISA" \in i.def => mask \subseteq i.misa
Ialign16(i) ==
  IF "CSR_MISA" \in i.def THEN "C" \in i.misa ELSE "COMPRESSED" \in i.def

\* Mutated: jumps to halfwords never trap.
JumpTrapsOdd(i, pc) == pc % 2 /= 0

JumpTraps(i, pc) == pc % (IF Ialign16(i) THEN 2 ELSE 4) /= 0

\* header and footer: what the outputs are unless a generator assigns them.
Default(i, mask) ==
  [valid |-> FALSE, trap |-> ~MisaOk(i, mask), rs1_addr |-> 0, rs2_addr |-> 0,
   rd_addr |-> 0, rd_wdata |-> 0, pc_wdata |-> 0,
   mem_addr |-> 0, mem_rmask |-> 0, mem_wmask |-> 0, mem_wdata |-> 0]

Known32(i, f, opcode) == i.valid /\ ~f.padding /\ f.opcode = opcode
Known16(i, f, opcode) == i.valid /\ ~f.padding /\ f.opcode = opcode
RdWdata(rd, result) == IF rd = 0 THEN 0 ELSE result
Next4(i) == Wrap(i.pc_rdata + 4)
Next2(i) == Wrap(i.pc_rdata + 2)

-----------------------------------------------------------------------------
\* The expressions of the tables, on numbers of n bits.
Shl(n, a, b) == IF b >= n THEN 0 ELSE (a * 2^b) % 2^n
Shr(n, a, b) == IF b >= n THEN 0 ELSE a \div 2^b
Sra(n, a, b) == (SignedAt(a, n) \div 2^(IF b >= n THEN n ELSE b)) % 2^n
Bool(p) == IF p THEN 1 ELSE 0

\* The bits of two vectors of n bits combined one by one.
Bit(v, k) == (v \div 2^k) % 2 = 1
Bitwise(Op(_, _), n, a, b) ==
  LET below[k \in 0 .. n] ==
        IF k = 0 THEN 0
        ELSE below[k - 1] + 2^(k - 1) * Bool(Op(Bit(a, k - 1), Bit(b, k - 1)))
  IN  below[n]
And(n, a, b) == Bitwise(LAMBDA p, q : p /\ q, n, a, b)
Or(n, a, b) == Bitwise(LAMBDA p, q : p \/ q, n, a, b)
Xor(n, a, b) == Bitwise(LAMBDA p, q : p /= q, n, a, b)

\* The upper half of the product of two numbers of n bits; the last operator
\* takes the sign of a apart, the product being too wide for a TLC integer.
MulHigh(n, a, b) == ((a * b) \div 2^n) % 2^n
MulHighU(n, a, b) ==
  (MulHigh(n, SignedAt(a, n), b) + (IF a >= Msb(n) THEN b ELSE 0)) % 2^n

Cond(op, a, b) ==
  CASE op = "eq" -> a = b
    [] op = "ne" -> a /= b
    [] op = "lt" -> Signed(a) < Signed(b)
    [] op = "ge" -> Signed(a) >= Signed(b)
    [] op = "ltu" -> a < b
    [] op = "geu" -> a >= b

\* In div and rem the branches before the last one of ?: are unsigned, which
\* makes the whole expression unsigned in spite of $signed.
Quotient(n, a, b) ==
  IF b = 0 THEN Ones(n)
  ELSE IF a = Msb(n) /\ b = Ones(n) THEN Msb(n)
  ELSE a \div b

\* Mutated: division by zero leaves no remainder.
RemainderZero(n, a, b) == IF b = 0 THEN 0 ELSE a % b

Remainder(n, a, b) ==
  IF b = 0 THEN a
  ELSE IF a = Msb(n) /\ b = Ones(n) THEN 0
  ELSE a % b

Alu(op, n, a, b) ==
  CASE op = "add" -> (a + b) % 2^n
    [] op = "sub" -> (a - b) % 2^n
    [] op = "sll" -> Shl(n, a, b)
    [] op = "srl" -> Shr(n, a, b)
    [] op = "sra" -> Sra(n, a, b)
    [] op = "slt" -> Bool(SignedAt(a, n) < SignedAt(b, n))
    [] op = "sltu" -> Bool(a < b)
    [] op = "xor" -> Xor(n, a, b)
    [] op = "or" -> Or(n, a, b)
    [] op = "and" -> And(n, a, b)
    [] op = "mul" -> (SignedAt(a, n) * SignedAt(b, n)) % 2^n
    [] op = "mulh" -> MulHigh(n, SignedAt(a, n), SignedAt(b, n))
    [] op = "mulhsu" -> MulHigh(n, SignedAt(a, n), b)
    [] op = "mulhu" -> MulHighU(n, a, b)
    [] op = "div" -> Quotient(n, a, b)
    [] op = "divu" -> IF b = 0 THEN Ones(n) ELSE a \div b
    [] op = "rem" -> Remainder(n, a, b)
    [] op = "remu" -> IF b = 0 THEN a ELSE a % b

\* Bits 31:0, and their sign extension to a register.
Low(a) == a % 2^WORD
SignExtend(v, n) == Wrap(SignedAt(v, n))

\* The operations of RV64 on words.  The corner cases of divw, remw and remuw
\* look at whole registers; dividing by a zero word is then undefined.
AluW(op, a, b, undef) ==
  LET word ==
        CASE op = "div" ->
               IF Low(b) = 0 THEN Ones(WORD)
               ELSE IF a = Msb(WORD) /\ b = Ones(WORD) THEN Msb(WORD)
               ELSE Low(a) \div Low(b)
          [] op \in {"rem", "remu"} ->
               IF b = 0 THEN Low(a)
               ELSE IF op = "rem" /\ a = Msb(WORD) /\ b = Ones(WORD) THEN 0
               ELSE IF Low(b) = 0 THEN Low(undef)
               ELSE Low(a) % Low(b)
          [] OTHER -> Alu(op, WORD, Low(a), Low(b))
  IN  SignExtend(word, WORD)

Operate(op, wmode, i, a, b) ==
  IF wmode THEN AluW(op, a, b, i.undef) ELSE Alu(op, XLEN, a, b)

\* `RISCV_FORMAL_ALTOPS: add or subtract, then exclusive-or (the low 16 bits
\* of the masks).
AltOps ==
  [mul |-> <<"add", 1598>>, mulh |-> <<"add", 16311>>, mulhsu |-> <<"sub", 57655>>,
   mulhu |-> <<"add", 58856>>, div |-> <<"sub", 10732>>, divu |-> <<"sub", 64880>>,
   rem |-> <<"sub", 36773>>, remu |-> <<"sub", 53473>>]
AltOp(op, n, a, b) ==
  Xor(n, Alu(AltOps[op][1], n, a % 2^n, b % 2^n), AltOps[op][2])

-----------------------------------------------------------------------------
\* Memory access, with and without `RISCV_FORMAL_ALIGNED_MEM: the address of
\* the access, and how far it is from mem_addr.
Aligned(i) == "ALIGNED_MEM" \in i.def
MemAddr(i, addr) == IF Aligned(i) THEN addr - (addr % LANES) ELSE addr
Offset(i, addr) == IF Aligned(i) THEN addr % LANES ELSE 0
MemMask(i, addr, numbytes) == (Ones(numbytes) * 2^Offset(i, addr)) % 2^LANES
AccessTraps(i, addr, numbytes) == Aligned(i) /\ addr % numbytes /= 0

\* Mutated: the data is not shifted to the lanes of the address.
StoresUnshifted(i, out, addr, numbytes) ==
  [out EXCEPT
    !.trap = @ \/ AccessTraps(i, addr, numbytes),
    !.mem_addr = MemAddr(i, addr), !.mem_wmask = MemMask(i, addr, numbytes),
    !.mem_wdata = i.rs2_rdata]

\* What a load and a store add to the outputs out.
Loads(i, out, addr, numbytes, signext) ==
  LET bits == BYTE * numbytes
      result == Shr(XLEN, i.mem_rdata, BYTE * Offset(i, addr)) % 2^bits
  IN  [out EXCEPT
        !.trap = @ \/ AccessTraps(i, addr, numbytes),
        !.mem_addr = MemAddr(i, addr), !.mem_rmask = MemMask(i, addr, numbytes),
        !.rd_wdata = RdWdata(out.rd_addr, IF signext THEN SignExtend(result, bits)
                                          ELSE result)]
Stores(i, out, addr, numbytes) ==
  [out EXCEPT
    !.trap = @ \/ AccessTraps(i, addr, numbytes),
    !.mem_addr = MemAddr(i, addr), !.mem_wmask = MemMask(i, addr, numbytes),
    !.mem_wdata = Shl(XLEN, i.rs2_rdata, BYTE * Offset(i, addr))]

-----------------------------------------------------------------------------
\* The base ISA: the generators, each after the table of its instructions.
InsnLui(i) ==
  LET f == FormatU(i.insn)
  IN  [Default(i, {}) EXCEPT
        !.valid = Known32(i, f, \b0110111), !.rd_addr = f.rd,
        !.rd_wdata = RdWdata(f.rd, Wrap(f.imm)), !.pc_wdata = Next4(i)]

InsnAuipc(i) ==
  LET f == FormatU(i.insn)
  IN  [Default(i, {}) EXCEPT
        !.valid = Known32(i, f, \b0010111), !.rd_addr = f.rd,
        !.rd_wdata = RdWdata(f.rd, Wrap(i.pc_rdata + f.imm)), !.pc_wdata = Next4(i)]

InsnJal(i) ==
  LET f == FormatUj(i.insn)
      next_pc == Wrap(i.pc_rdata + f.imm)
  IN  [Default(i, {}) EXCEPT
        !.valid = Known32(i, f, \b1101111), !.rd_addr = f.rd,
        !.rd_wdata = RdWdata(f.rd, Next4(i)), !.pc_wdata = next_pc,
        !.trap = @ \/ JumpTraps(i, next_pc)]

InsnJalr(i) ==
  LET f == FormatI(i.insn)
      target == Wrap(i.rs1_rdata + f.imm)
      next_pc == target - (target % 2)
  IN  [Default(i, {}) EXCEPT
        !.valid = Known32(i, f, \b1100111) /\ f.funct3 = 0,
        !.rs1_addr = f.rs1, !.rd_addr = f.rd,
        !.rd_wdata = RdWdata(f.rd, Next4(i)), !.pc_wdata = next_pc,
        !.trap = @ \/ JumpTraps(i, next_pc)]

\* <<funct3, condition>>
Branches ==
  [beq |-> <<0, "eq">>, bne |-> <<1, "ne">>, blt |-> <<4, "lt">>,
   bge |-> <<5, "ge">>, bltu |-> <<6, "ltu">>, bgeu |-> <<7, "geu">>]
InsnB(row, i) ==
  LET f == FormatSb(i.insn)
      taken == Cond(row[2], i.rs1_rdata, i.rs2_rdata)
      next_pc == IF taken THEN Wrap(i.pc_rdata + f.imm) ELSE Next4(i)
  IN  [Default(i, {}) EXCEPT
        !.valid = Known32(i, f, \b1100011) /\ f.funct3 = row[1],
        !.rs1_addr = f.rs1, !.rs2_addr = f.rs2,
        !.pc_wdata = next_pc, !.trap = @ \/ JumpTraps(i, next_pc)]

\* <<funct3, bytes, signed>>
LoadInsns ==
  [lb |-> <<0, 1, TRUE>>, lh |-> <<1, 2, TRUE>>, lw |-> <<2, 4, TRUE>>,
   lbu |-> <<4, 1, FALSE>>, lhu |-> <<5, 2, FALSE>>]
LoadInsns64 == [lwu |-> <<6, 4, FALSE>>, ld |-> <<3, 8, TRUE>>]
\* Without aligned accesses the bits above the word are not looked at.
InsnL(row, i) ==
  LET f == FormatI(i.insn)
      g == [f EXCEPT !.padding = @ /\ Aligned(i)]
      out == [Default(i, {}) EXCEPT
               !.valid = Known32(i, g, \b0000011) /\ f.funct3 = row[1],
               !.rs1_addr = f.rs1, !.rd_addr = f.rd, !.pc_wdata = Next4(i)]
  IN  Loads(i, out, Wrap(i.rs1_rdata + f.imm), row[2], row[3])

\* <<funct3, bytes>>
StoreInsns == [sb |-> <<0, 1>>, sh |-> <<1, 2>>, sw |-> <<2, 4>>]
StoreInsns64 == [sd |-> <<3, 8>>]
InsnS(row, i) ==
  LET f == FormatS(i.insn)
      out == [Default(i, {}) EXCEPT
               !.valid = Known32(i, f, \b0100011) /\ f.funct3 = row[1],
               !.rs1_addr = f.rs1, !.rs2_addr = f.rs2, !.pc_wdata = Next4(i)]
  IN  Stores(i, out, Wrap(i.rs1_rdata + f.imm), row[2])

\* <<funct3, operation>>; wmode is set for the operations on words.
ImmInsns ==
  [addi |-> <<0, "add">>, slti |-> <<2, "slt">>,
   sltiu |-> <<3, "sltu">>, xori |-> <<4, "xor">>,
   ori |-> <<6, "or">>, andi |-> <<7, "and">>]
ImmInsns64 == [addiw |-> <<0, "add">>]
InsnImm(row, wmode, i) ==
  LET f == FormatI(i.insn)
      opcode == IF wmode THEN \b0011011 ELSE \b0010011
  IN  [Default(i, {}) EXCEPT
        !.valid = Known32(i, f, opcode) /\ f.funct3 = row[1],
        !.rs1_addr = f.rs1, !.rd_addr = f.rd, !.pc_wdata = Next4(i),
        !.rd_wdata = RdWdata(f.rd, Operate(row[2], wmode, i, i.rs1_rdata, Wrap(f.imm)))]

\* <<funct6, funct3, operation>>
ShiftInsns ==
  [slli |-> <<0, 1, "sll">>, srli |-> <<0, 5, "srl">>,
   srai |-> <<16, 5, "sra">>]
ShiftInsns64 ==
  [slliw |-> <<0, 1, "sll">>, srliw |-> <<0, 5, "srl">>,
   sraiw |-> <<16, 5, "sra">>]
InsnShimm(row, wmode, i) ==
  LET f == FormatIShift(i.insn)
      opcode == IF wmode THEN \b0011011 ELSE \b0010011
  IN  [Default(i, {}) EXCEPT
        !.valid = /\ Known32(i, f, opcode) /\ f.funct6 = row[1] /\ f.funct3 = row[2]
                  /\ f.shamt < 32 \/ (LANES = 8 /\ ~wmode),
        !.rs1_addr = f.rs1, !.rd_addr = f.rd, !.pc_wdata = Next4(i),
        !.rd_wdata = RdWdata(f.rd, Operate(row[3], wmode, i, i.rs1_rdata, f.shamt))]

\* <<funct7, funct3, operation>>; the M instructions have funct7 1.
AluInsns ==
  [add |-> <<0, 0, "add">>, sub |-> <<32, 0, "sub">>,
   sll |-> <<0, 1, "sll">>, slt |-> <<0, 2, "slt">>,
   sltu |-> <<0, 3, "sltu">>, xor |-> <<0, 4, "xor">>,
   srl |-> <<0, 5, "srl">>, sra |-> <<32, 5, "sra">>,
   or |-> <<0, 6, "or">>, and |-> <<0, 7, "and">>]
AluInsns64 ==
  [addw |-> <<0, 0, "add">>, subw |-> <<32, 0, "sub">>,
   sllw |-> <<0, 1, "sll">>, srlw |-> <<0, 5, "srl">>,
   sraw |-> <<32, 5, "sra">>]
MulInsns ==
  [mul |-> <<1, 0, "mul">>, mulh |-> <<1, 1, "mulh">>,
   mulhsu |-> <<1, 2, "mulhsu">>, mulhu |-> <<1, 3, "mulhu">>,
   div |-> <<1, 4, "div">>, divu |-> <<1, 5, "divu">>,
   rem |-> <<1, 6, "rem">>, remu |-> <<1, 7, "remu">>]
MulInsns64 ==
  [mulw |-> <<1, 0, "mul">>, divw |-> <<1, 4, "div">>,
   divuw |-> <<1, 5, "divu">>, remw |-> <<1, 6, "rem">>,
   remuw |-> <<1, 7, "remu">>]

\* The low bits of rs2 that a shift looks at.
Shamt(wmode, b) == b % (IF wmode THEN WORD ELSE XLEN)
AluResult(row, wmode, i) ==
  LET a == i.rs1_rdata
      b == i.rs2_rdata
      altop == AltOp(row[3], IF wmode THEN WORD ELSE XLEN, a, b)
  IN  IF row[1] = 1 /\ "ALTOPS" \in i.def
      THEN IF wmode THEN SignExtend(altop, WORD) ELSE altop
      ELSE Operate(row[3], wmode, i, a,
                   IF row[3] \in {"sll", "srl", "sra"} THEN Shamt(wmode, b) ELSE b)
InsnAlu(row, wmode, i) ==
  LET f == FormatR(i.insn)
      opcode == IF wmode THEN \b0111011 ELSE \b0110011
  IN  [Default(i, IF row[1] = 1 THEN {"M"} ELSE {}) EXCEPT
        !.valid = /\ Known32(i, f, opcode) /\ f.funct7 = row[1] /\ f.funct3 = row[2],
        !.rs1_addr = f.rs1, !.rs2_addr = f.rs2, !.rd_addr = f.rd,
        !.pc_wdata = Next4(i), !.rd_wdata = RdWdata(f.rd, AluResult(row, wmode, i))]

-----------------------------------------------------------------------------
\* The compressed ISA.
C == {"C"}

InsnCAddi4spn(i) ==
  LET f == FormatCiw(i.insn)
  IN  [Default(i, C) EXCEPT
        !.valid = Known16(i, f, 0) /\ f.funct3 = 0 /\ f.imm /= 0,
        !.rs1_addr = 2, !.rd_addr = f.rd, !.pc_wdata = Next2(i),
        !.rd_wdata = RdWdata(f.rd, Wrap(i.rs1_rdata + f.imm))]

\* <<funct3, bytes, signed>>
CLoads == [c_lw |-> <<2, 4, TRUE>>]
CLoads64 == [c_ld |-> <<3, 8, TRUE>>]
InsnCL(row, i) ==
  LET f == FormatCl(i.insn, row[2])
      out == [Default(i, C) EXCEPT
               !.valid = Known16(i, f, 0) /\ f.funct3 = row[1],
               !.rs1_addr = f.rs1, !.rd_addr = f.rd, !.pc_wdata = Next2(i)]
  IN  Loads(i, out, Wrap(i.rs1_rdata + f.imm), row[2], row[3])

\* <<funct3, bytes>>
CStores == [c_sw |-> <<6, 4>>]
CStores64 == [c_sd |-> <<7, 8>>]
InsnCS(row, i) ==
  LET f == FormatCs(i.insn, row[2])
      out == [Default(i, C) EXCEPT
               !.valid = Known16(i, f, 0) /\ f.funct3 = row[1],
               !.rs1_addr = f.rs1, !.rs2_addr = f.rs2, !.pc_wdata = Next2(i)]
  IN  Stores(i, out, Wrap(i.rs1_rdata + f.imm), row[2])

InsnCAddi(wmode, i) ==
  LET f == FormatCi(i.insn)
  IN  [Default(i, C) EXCEPT
        !.valid = /\ Known16(i, f, 1)
                  /\ IF wmode THEN f.funct3 = 1 /\ f.rs1_rd /= 0 ELSE f.funct3 = 0,
        !.rs1_addr = f.rs1_rd, !.rd_addr = f.rs1_rd, !.pc_wdata = Next2(i),
        !.rd_wdata = RdWdata(f.rs1_rd, Operate("add", wmode, i, i.rs1_rdata, Wrap(f.imm)))]

\* <<funct3, links>>
CJumps == [c_jal |-> <<1, TRUE>>, c_j |-> <<5, FALSE>>]
InsnCJal(row, i) ==
  LET f == FormatCj(i.insn)
  IN  [Default(i, C) EXCEPT
        !.valid = Known16(i, f, 1) /\ f.funct3 = row[1],
        !.rd_addr = IF row[2] THEN 1 ELSE 0,
        !.rd_wdata = IF row[2] THEN Next2(i) ELSE 0,
        !.pc_wdata = Wrap(i.pc_rdata + f.imm)]

InsnCLi(i) ==
  LET f == FormatCi(i.insn)
  IN  [Default(i, C) EXCEPT
        !.valid = Known16(i, f, 1) /\ f.funct3 = 2, !.rd_addr = f.rs1_rd,
        !.rd_wdata = RdWdata(f.rs1_rd, Wrap(f.imm)), !.pc_wdata = Next2(i)]

InsnCAddi16sp(i) ==
  LET f == FormatCiSp(i.insn)
  IN  [Default(i, C) EXCEPT
        !.valid = Known16(i, f, 1) /\ f.funct3 = 3 /\ f.rs1_rd = 2 /\ f.imm /= 0,
        !.rs1_addr = f.rs1_rd, !.rd_addr = f.rs1_rd, !.pc_wdata = Next2(i),
        !.rd_wdata = RdWdata(f.rs1_rd, Wrap(i.rs1_rdata + f.imm))]

\* Mutated: c.lui of the stack pointer, which is c.addi16sp.
InsnCLuiSp(i) ==
  LET f == FormatCiLui(i.insn)
  IN  [Default(i, C) EXCEPT
        !.valid = Known16(i, f, 1) /\ f.funct3 = 3 /\ f.imm /= 0, !.rd_addr = f.rs1_rd,
        !.rd_wdata = RdWdata(f.rs1_rd, Wrap(f.imm)), !.pc_wdata = Next2(i)]
InsnCLui(i) ==
  LET f == FormatCiLui(i.insn)
  IN  [Default(i, C) EXCEPT
        !.valid = Known16(i, f, 1) /\ f.funct3 = 3 /\ f.rs1_rd /= 2 /\ f.imm /= 0,
        !.rd_addr = f.rs1_rd,
        !.rd_wdata = RdWdata(f.rs1_rd, Wrap(f.imm)), !.pc_wdata = Next2(i)]

\* <<funct2, operation>>
CRightShifts == [c_srli |-> <<0, "srl">>, c_srai |-> <<1, "sra">>]
InsnCSri(row, i) ==
  LET f == FormatCiSri(i.insn)
  IN  [Default(i, C) EXCEPT
        !.valid = /\ Known16(i, f, 1) /\ f.funct3 = 4 /\ f.funct2 = row[1]
                  /\ f.shamt < 32 \/ LANES = 8,
        !.rs1_addr = f.rs1_rd, !.rd_addr = f.rs1_rd, !.pc_wdata = Next2(i),
        !.rd_wdata = RdWdata(f.rs1_rd, Alu(row[2], XLEN, i.rs1_rdata, f.shamt))]

InsnCAndi(i) ==
  LET f == FormatCiAndi(i.insn)
  IN  [Default(i, C) EXCEPT
        !.valid = Known16(i, f, 1) /\ f.funct3 = 4 /\ f.funct2 = 2,
        !.rs1_addr = f.rs1_rd, !.rd_addr = f.rs1_rd, !.pc_wdata = Next2(i),
        !.rd_wdata = RdWdata(f.rs1_rd, And(XLEN, i.rs1_rdata, Wrap(f.imm)))]

\* <<funct6, funct2, operation>>
CAlus ==
  [c_sub |-> <<35, 0, "sub">>, c_xor |-> <<35, 1, "xor">>,
   c_or |-> <<35, 2, "or">>, c_and |-> <<35, 3, "and">>]
CAlus64 == [c_subw |-> <<39, 0, "sub">>, c_addw |-> <<39, 1, "add">>]
InsnCAlu(row, wmode, i) ==
  LET f == FormatCsAlu(i.insn)
  IN  [Default(i, C) EXCEPT
        !.valid = Known16(i, f, 1) /\ f.funct6 = row[1] /\ f.funct2 = row[2],
        !.rs1_addr = f.rs1_rd, !.rs2_addr = f.rs2, !.rd_addr = f.rs1_rd,
        !.pc_wdata = Next2(i),
        !.rd_wdata = RdWdata(f.rs1_rd, Operate(row[3], wmode, i, i.rs1_rdata, i.rs2_rdata))]

\* <<funct3, condition>>
CBranches == [c_beqz |-> <<6, "eq">>, c_bnez |-> <<7, "ne">>]
InsnCB(row, i) ==
  LET f == FormatCb(i.insn)
      next_pc == IF Cond(row[2], i.rs1_rdata, 0) THEN Wrap(i.pc_rdata + f.imm)
                 ELSE Next2(i)
  IN  [Default(i, C) EXCEPT
        !.valid = Known16(i, f, 1) /\ f.funct3 = row[1], !.rs1_addr = f.rs1,
        !.pc_wdata = next_pc, !.trap = @ \/ next_pc % 2 /= 0]

InsnCSli(i) ==
  LET f == FormatCiSli(i.insn)
  IN  [Default(i, C) EXCEPT
        !.valid = Known16(i, f, 2) /\ f.funct3 = 0 /\ (f.shamt < 32 \/ LANES = 8),
        !.rs1_addr = f.rs1_rd, !.rd_addr = f.rs1_rd, !.pc_wdata = Next2(i),
        !.rd_wdata = RdWdata(f.rs1_rd, Shl(XLEN, i.rs1_rdata, f.shamt))]

CSpLoads == [c_lwsp |-> <<2, 4, TRUE>>]
CSpLoads64 == [c_ldsp |-> <<3, 8, TRUE>>]
InsnCLsp(row, i) ==
  LET f == FormatCiLsp(i.insn, row[2])
      out == [Default(i, C) EXCEPT
               !.valid = Known16(i, f, 2) /\ f.funct3 = row[1] /\ f.rd /= 0,
               !.rs1_addr = 2, !.rd_addr = f.rd, !.pc_wdata = Next2(i)]
  IN  Loads(i, out, Wrap(i.rs1_rdata + f.imm), row[2], row[3])

CSpStores == [c_swsp |-> <<6, 4>>]
CSpStores64 == [c_sdsp |-> <<7, 8>>]
InsnCSsp(row, i) ==
  LET f == FormatCss(i.insn, row[2])
      out == [Default(i, C) EXCEPT
               !.valid = Known16(i, f, 2) /\ f.funct3 = row[1],
               !.rs1_addr = 2, !.rs2_addr = f.rs2, !.pc_wdata = Next2(i)]
  IN  Stores(i, out, Wrap(i.rs1_rdata + f.imm), row[2])

\* <<funct4, links>>
CRegJumps == [c_jr |-> <<8, FALSE>>, c_jalr |-> <<9, TRUE>>]
InsnCJalr(row, i) ==
  LET f == FormatCr(i.insn)
      next_pc == i.rs1_rdata - (i.rs1_rdata % 2)
  IN  [Default(i, C) EXCEPT
        !.valid = Known16(i, f, 2) /\ f.funct4 = row[1] /\ f.rs1_rd /= 0 /\ f.rs2 = 0,
        !.rs1_addr = f.rs1_rd,
        !.rd_addr = IF row[2] THEN 1 ELSE 0,
        !.rd_wdata = IF row[2] THEN Next2(i) ELSE 0,
        !.pc_wdata = next_pc, !.trap = @ \/ next_pc % 2 /= 0]

\* <<funct4, adds>>
CMoves == [c_mv |-> <<8, FALSE>>, c_add |-> <<9, TRUE>>]
InsnCMvadd(row, i) ==
  LET f == FormatCr(i.insn)
      result == IF row[2] THEN Wrap(i.rs1_rdata + i.rs2_rdata) ELSE i.rs2_rdata
  IN  [Default(i, C) EXCEPT
        !.valid = Known16(i, f, 2) /\ f.funct4 = row[1] /\ f.rs2 /= 0,
        !.rs1_addr = IF row[2] THEN f.rs1_rd ELSE 0, !.rs2_addr = f.rs2,
        !.rd_addr = f.rs1_rd, !.rd_wdata = RdWdata(f.rs1_rd, result),
        !.pc_wdata = Next2(i)]

-----------------------------------------------------------------------------
\* The ISA database: the instructions a part of the ISA adds, and an ISA
\* joined from all parts of its subsets.  c_jal is c_addiw on RV64.
Adds32(part) ==
  CASE part = "I" -> {"lui", "auipc", "jal", "jalr"} \cup DOMAIN Branches
                     \cup DOMAIN LoadInsns \cup DOMAIN StoreInsns
                     \cup DOMAIN ImmInsns \cup DOMAIN ShiftInsns \cup DOMAIN AluInsns
    [] part = "M" -> DOMAIN MulInsns
    [] part = "C" -> {"c_addi4spn", "c_addi", "c_li", "c_addi16sp", "c_lui", "c_andi",
                      "c_slli"}
                     \cup DOMAIN CLoads \cup DOMAIN CStores \cup DOMAIN CJumps
                     \cup DOMAIN CRightShifts \cup DOMAIN CAlus \cup DOMAIN CBranches
                     \cup DOMAIN CSpLoads \cup DOMAIN CSpStores
                     \cup DOMAIN CRegJumps \cup DOMAIN CMoves
Adds64(part) ==
  CASE part = "I" -> DOMAIN LoadInsns64 \cup DOMAIN StoreInsns64 \cup DOMAIN ImmInsns64
                     \cup DOMAIN ShiftInsns64 \cup DOMAIN AluInsns64
    [] part = "M" -> DOMAIN MulInsns64
    [] part = "C" -> {"c_addiw"} \cup DOMAIN CAlus64 \cup DOMAIN CLoads64
                     \cup DOMAIN CStores64 \cup DOMAIN CSpLoads64 \cup DOMAIN CSpStores64

IsaOf(parts) ==
  LET added32 == UNION {Adds32(p) : p \in parts}
  IN  IF LANES = 4 THEN added32
      ELSE (added32 \cup UNION {Adds64(p) : p \in parts}) \ {"c_jal"}

\* The module of an instruction.
Insn(n, i) ==
  CASE n = "lui" -> InsnLui(i)
    [] n = "auipc" -> InsnAuipc(i)
    [] n = "jal" -> InsnJal(i)
    [] n = "jalr" -> InsnJalr(i)
    [] n \in DOMAIN Branches -> InsnB(Branches[n], i)
    [] n \in DOMAIN LoadInsns -> InsnL(LoadInsns[n], i)
    [] n \in DOMAIN LoadInsns64 -> InsnL(LoadInsns64[n], i)
    [] n \in DOMAIN StoreInsns -> InsnS(StoreInsns[n], i)
    [] n \in DOMAIN StoreInsns64 -> InsnS(StoreInsns64[n], i)
    [] n \in DOMAIN ImmInsns -> InsnImm(ImmInsns[n], FALSE, i)
    [] n \in DOMAIN ImmInsns64 -> InsnImm(ImmInsns64[n], TRUE, i)
    [] n \in DOMAIN ShiftInsns -> InsnShimm(ShiftInsns[n], FALSE, i)
    [] n \in DOMAIN ShiftInsns64 -> InsnShimm(ShiftInsns64[n], TRUE, i)
    [] n \in DOMAIN AluInsns -> InsnAlu(AluInsns[n], FALSE, i)
    [] n \in DOMAIN AluInsns64 -> InsnAlu(AluInsns64[n], TRUE, i)
    [] n \in DOMAIN MulInsns -> InsnAlu(MulInsns[n], FALSE, i)
    [] n \in DOMAIN MulInsns64 -> InsnAlu(MulInsns64[n], TRUE, i)
    [] n = "c_addi4spn" -> InsnCAddi4spn(i)
    [] n \in DOMAIN CLoads -> InsnCL(CLoads[n], i)
    [] n \in DOMAIN CLoads64 -> InsnCL(CLoads64[n], i)
    [] n \in DOMAIN CStores -> InsnCS(CStores[n], i)
    [] n \in DOMAIN CStores64 -> InsnCS(CStores64[n], i)
    [] n \in {"c_addi", "c_addiw"} -> InsnCAddi(n = "c_addiw", i)
    [] n \in DOMAIN CJumps -> InsnCJal(CJumps[n], i)
    [] n = "c_li" -> InsnCLi(i)
    [] n = "c_addi16sp" -> InsnCAddi16sp(i)
    [] n = "c_lui" -> InsnCLui(i)
    [] n \in DOMAIN CRightShifts -> InsnCSri(CRightShifts[n], i)
    [] n = "c_andi" -> InsnCAndi(i)
    [] n \in DOMAIN CAlus -> InsnCAlu(CAlus[n], FALSE, i)
    [] n \in DOMAIN CAlus64 -> InsnCAlu(CAlus64[n], TRUE, i)
    [] n \in DOMAIN CBranches -> InsnCB(CBranches[n], i)
    [] n = "c_slli" -> InsnCSli(i)
    [] n \in DOMAIN CSpLoads -> InsnCLsp(CSpLoads[n], i)
    [] n \in DOMAIN CSpLoads64 -> InsnCLsp(CSpLoads64[n], i)
    [] n \in DOMAIN CSpStores -> InsnCSsp(CSpStores[n], i)
    [] n \in DOMAIN CSpStores64 -> InsnCSsp(CSpStores64[n], i)
    [] n \in DOMAIN CRegJumps -> InsnCJalr(CRegJumps[n], i)
    [] n \in DOMAIN CMoves -> InsnCMvadd(CMoves[n], i)

=============================================================================
