----------------------------- MODULE RvfiXpulpIsa -----------------------------
(***************************************************************************)
(* The instruction checks of a core with the CORE-V instructions: the core *)
(* retires one of Words with one of Operands, and every instruction model  *)
(* of the ISA looks at it.  The model gets the data of a source register   *)
(* from checks/rvfi_insn_check.sv, which gives zero for a source that the  *)
(* model does not name.                                                    *)
(*                                                                         *)
(* X marks the counterparts of the definitions of RvfiIsa.                 *)
(***************************************************************************)
EXTENDS RvfiXpulp

CONSTANTS
  XWords,     \* values of rvfi_insn
  XOperands,  \* [pc_rdata, rs1_rdata, rs2_rdata, rs3_rdata, mem_rdata, undef,
             \*  is_hwlp, hwlp_start]
  XConfigs    \* sets of macros

VARIABLES
  xin,    \* what the channel shows
  xspecs  \* the models with spec_valid, and their outputs

xvars == <<xin, xspecs>>

-----------------------------------------------------------------------------
\* rs1_rdata_or_zero, rs2_rdata_or_zero and rs3_rdata_or_zero.
Gate(i, s) ==
  LET OrZero(addr, rdata) == IF addr /= 0 THEN rdata ELSE 0
  IN  [i EXCEPT !.rs1_rdata = OrZero(s.rs1_addr, @), !.rs2_rdata = OrZero(s.rs2_addr, @),
                !.rs3_rdata = OrZero(s.rs3_addr, @)]
XParts(def) == IF "COMPRESSED" \in def THEN {"I", "M", "C"} ELSE {"I", "M"}
\* The models that know the word, and what they make of the gated operands.
XSpecs(i) ==
  LET known == [n \in XIsaOf(XParts(i.def)) |-> XInsn(n, i)]
  IN  [n \in {m \in DOMAIN known : known[m].valid} |-> XInsn(n, Gate(i, known[n]))]

\* The ports of the module have the widths of rvfi_insn and of a register.
XInputsTyped ==
  /\ XWords \subseteq InsnWords
  /\ XOperands \subseteq [pc_rdata : Data, rs1_rdata : Data, rs2_rdata : Data,
                         rs3_rdata : Data, mem_rdata : Data, undef : Data,
                         is_hwlp : BOOLEAN, hwlp_start : Data]

XInputs(valid, w, o, def) ==
  [valid |-> valid, insn |-> w, def |-> def, misa |-> {}, pc_rdata |-> o.pc_rdata,
   rs1_rdata |-> o.rs1_rdata, rs2_rdata |-> o.rs2_rdata, rs3_rdata |-> o.rs3_rdata,
   mem_rdata |-> o.mem_rdata, undef |-> o.undef, is_hwlp |-> o.is_hwlp,
   hwlp_start |-> o.hwlp_start]

\* The channel retires a word, or it is idle, with anything on its other
\* signals.
XDrive(i) ==
  /\ i.valid = ~xin.valid
  /\ xin' = i
  /\ xspecs' = XSpecs(i)

XInit ==
  /\ \E w \in XWords, o \in XOperands, def \in XConfigs : xin = XInputs(FALSE, w, o, def)
  /\ xspecs = <<>>

XNext ==
  \E valid \in BOOLEAN, w \in XWords, o \in XOperands : XDrive(XInputs(valid, w, o, xin.def))

XSpec == XInit /\ [][XNext]_xvars

-----------------------------------------------------------------------------
\* No word is known to two instructions of rv32imcx.  The CORE-V encodings
\* share four opcodes, and many are told apart by single bits outside of the
\* fields of their format.
XUniqueDecode == Cardinality(DOMAIN xspecs) <= 1

\* A model that looks at the data of a register names the register: else the
\* check would compare a core with a result computed from zero.  Products that
\* do not accumulate add rs3_rdata on purpose, knowing that it is zero.
OperandsDeclared ==
  LET Zeroed(r) ==
        CASE r = 0 -> xin
          [] r = 1 -> [xin EXCEPT !.rs1_rdata = 0]
          [] r = 2 -> [xin EXCEPT !.rs2_rdata = 0]
          [] r = 3 -> [xin EXCEPT !.rs3_rdata = 0]
      Named(s) == <<s.rs1_addr, s.rs2_addr, s.rs3_addr>>
      InWord == <<Field(xin.insn, 19, 15), Field(xin.insn, 24, 20), Field(xin.insn, 11, 7)>>
      Adds(n) == \/ n[1] = "mac16" /\ ~n[2].ac
                 \/ n[1] = "dot" /\ Altops \in xin.def
      Declared(n, out) ==
        \A r \in 1 .. 3 :
          Named(xspecs[n])[r] = 0 /\ InWord[r] /= 0 /\ ~(r = 3 /\ Adds(n)) =>
            out[r] = out[0]
  IN  \A n \in DOMAIN xspecs : Declared(n, [r \in 0 .. 3 |-> XInsn(n, Zeroed(r))])

\* At the end of a hardware loop, what would go on to the next instruction goes
\* to the start of the loop, and jumps and taken branches go where they go.  Only
\* of a branch to the next instruction it does not matter whether it is taken.
HardwareLoop ==
  LET next == {Next4(xin), Next2(xin)}
      Base(n, names) == n[1] = "base" /\ n[2] \in names
      Target(n) ==
        Wrap(xin.pc_rdata + (CASE n[1] = "b" -> FormatPb(xin.insn).imm12
                              [] Base(n, DOMAIN Branches) -> FormatSb(xin.insn).imm
                              [] Base(n, DOMAIN CBranches) -> FormatCb(xin.insn).imm
                              [] OTHER -> 0))
      Pc(n) == [hwlp \in BOOLEAN |-> XInsn(n, [xin EXCEPT !.is_hwlp = hwlp]).pc_wdata]
      Loop(n, pc) ==
        IF Base(n, Jumps) \/ pc[FALSE] \notin next THEN pc[TRUE] = pc[FALSE]
        ELSE \/ pc[TRUE] = xin.hwlp_start
             \/ Target(n) \in next /\ pc[TRUE] = pc[FALSE]
  IN  \A n \in DOMAIN xspecs : Loop(n, Pc(n))

\* The bytes that an access touches, and what it stores there.
XTouched(addr, mask) == {Wrap(addr + k) : k \in {j \in 0 .. LANES - 1 : Bit(mask, j)}}
XStored(s) ==
  [a \in XTouched(s.mem_addr, s.mem_wmask) |->
     Lane(s.mem_wdata, FALSE, Wrap(a - s.mem_addr))]

\* What the generators of loads and stores make of i.
Access(n, i) ==
  IF n[1] = "l" THEN InsnCvL(CvLoads[n[2]], i) ELSE InsnCvS(CvStores[n[2]], i)

\* The accesses of a loop with post-increment walk through memory: the second
\* one does what an indexed access from the first base does, and with an
\* immediate the base moves as with a register that holds it.
PostIncrementWalks ==
  LET f == FormatPl(xin.insn)
      bit27 == 2^11 * Field(xin.insn, 27, 27)
      Post == [xin EXCEPT !.insn.hi = @ - bit27]
      ByRegister == [xin EXCEPT !.insn.hi = @ - bit27 + 2^11]
      Imm(n) == IF n[1] = "l" THEN f.imm ELSE FormatPs(xin.insn).imm
      Walks(s, x) ==
        /\ s.trap = x.trap
        /\ XTouched(s.mem_addr, s.mem_rmask + s.mem_wmask)
             = XTouched(x.mem_addr, x.mem_rmask + x.mem_wmask)
        /\ XStored(s) = XStored(x)
        /\ s.rd_wdata = x.rd_wdata /\ x.post_rd_wdata = 0
      Follows(n) ==
        \A first \in {Access(n, Post)}, indexed \in {Access(n, ByRegister)} :
        \A second \in {Access(n, [Post EXCEPT !.rs1_rdata = first.post_rd_wdata])} :
          Walks(second, indexed)
  IN  \A n \in {m \in DOMAIN xspecs : m[1] \in {"l", "s"}} :
        IF RegForm(f) THEN f.rs1 /= 0 => Follows(n)
        ELSE /\ xspecs[n].rs1_addr = xspecs[n].post_rd_addr
             /\ f.rs1 /= 0 => xspecs[n].post_rd_wdata = Wrap(xin.rs1_rdata + Imm(n))

\* The manual's definition of bit manipulation, bit by bit: a field that reaches
\* over the top of the register ends there.
BitsExact ==
  \A n \in {m \in DOMAIN xspecs : m[1] \in {"bit_man_1", "bit_man_2", "bitrev", "ror"}} :
    LET f == FormatCvBitMan(xin.insn)
        i == Gate(xin, xspecs[n])
        byReg == n[1] \in {"bit_man_2", "ror"}
        ls2 == IF byReg THEN i.rs2_rdata % XLEN ELSE f.ls2
        ls3 == IF byReg THEN (i.rs2_rdata \div XLEN) % XLEN ELSE f.ls3
        Rs1(k) == k \in 0 .. XLEN - 1 /\ Bit(i.rs1_rdata, k)
        inside == {k \in 0 .. XLEN - 1 : ls2 <= k /\ k <= ls2 + ls3}
        top == CHOOSE k \in inside : \A j \in inside : j <= k
        g == f.ls3 + 1
        Expected(k) ==
          CASE n[1] = "ror" -> Rs1((k + ls2) % XLEN)
            [] n[1] = "bitrev" ->
                 k < g * (XLEN \div g) /\ Rs1(XLEN - g - g * (k \div g) + (k % g) - ls2)
            [] n[2] = "extract" -> IF k + ls2 \in inside THEN Rs1(k + ls2) ELSE Rs1(top)
            [] n[2] = "extractu" -> k + ls2 \in inside /\ Rs1(k + ls2)
            [] n[2] = "insert" -> IF k \in inside THEN Rs1(k - ls2) ELSE Bit(i.rs3_rdata, k)
            [] n[2] = "bclr" -> k \notin inside /\ Rs1(k)
            [] n[2] = "bset" -> k \in inside \/ Rs1(k)
    IN  xspecs[n].rd_addr /= 0 =>
          \A k \in 0 .. XLEN - 1 : Bit(xspecs[n].rd_wdata, k) = Expected(k)

\* The numbers x and y in a lane of n bits: what vectors make of them.
LaneOrder(n, x, y) ==
  LET S(op) == SimdLane(op, n, x, y)
      Holds(op) == S(op) = Ones(n)
      less == Signed(SignExtend(x, n)) < Signed(SignExtend(y, n))
  IN  /\ Holds("cmplt") <=> less
      /\ Holds("cmpltu") <=> x < y
      /\ Holds("cmpge") <=> ~less
      /\ Holds("cmpgeu") <=> ~(x < y)
      /\ Holds("cmpgt") <=> ~(less \/ Holds("cmpeq"))
      /\ Holds("cmple") <=> ~Holds("cmpgt")
      /\ Holds("cmpgtu") <=> ~(x < y \/ Holds("cmpeq"))
      /\ Holds("cmpleu") <=> ~Holds("cmpgtu")
      /\ Holds("cmpne") <=> ~Holds("cmpeq")
      /\ S("min") = (IF less THEN x ELSE y) /\ S("min") + S("max") = x + y
      /\ S("minu") = (IF x < y THEN x ELSE y) /\ S("minu") + S("maxu") = x + y
      /\ S("abs") = S("max") \/ x + S("abs") = 2^n \/ S("abs") = x

\* One order of signed and one of unsigned numbers: comparisons, minima, maxima
\* and bounds of words and of the lanes of vectors tell the same story of the
\* operands of an instruction.
OneOrder ==
  xin.valid =>
    LET a == xin.rs1_rdata
        b == xin.rs2_rdata
        G(op, x, y) == GenAluResult(op, x, y)
        Clip(op, x, amount) == Clipped(Clips[op], [xin EXCEPT !.rs2_rdata = x], amount)
        bound == b % Msb(XLEN)
        Bounded(min, max, low) == G(min, G(max, a, Wrap(low)), bound)
    IN  /\ G("min", a, b) + G("max", a, b) = a + b
        /\ G("minu", a, b) + G("maxu", a, b) = a + b
        /\ G("slet", a, b) = Bool(G("min", a, b) = a)
        /\ G("sletu", a, b) = Bool(G("minu", a, b) = a)
        /\ G("slet", a, b) + Alu("slt", XLEN, b, a) = 1
        /\ Clip("clipr", b, 0) = Bounded("min", "max", -(bound + 1))
        /\ Clip("clipur", b, 0) = Bounded("min", "max", 0)
        /\ \A ls2 \in 1 .. XLEN - 1 :
             /\ Clip("clip", 0, ls2) = Clip("clipr", 2^(ls2 - 1) - 1, 0)
             /\ Clip("clipu", 0, ls2) = Clip("clipur", 2^(ls2 - 1) - 1, 0)
        /\ Clip("clip", 0, 0) = Clip("clipr", 0, 0)
        /\ \A half \in BOOLEAN : \A k \in LanesOf(half) :
             LaneOrder(Width(half), Lane(a, half, k), Lane(b, half, k))

\* Products of halves: what four generators make of the operands agrees.
\* A dot product is the sum of the products of the halves, the parts of a
\* complex product are sums of the same products, and bytes multiply like words.
Products ==
  xin.valid =>
    LET i == [xin EXCEPT !.def = @ \ {Altops}, !.rs3_rdata = 0]
        a == i.rs1_rdata
        b == i.rs2_rdata
        M(u, h) == Mac16([u |-> u, h |-> h, R |-> FALSE, ac |-> FALSE], i, 0)
        crossed == [i EXCEPT !.rs2_rdata = Complex(Im(b), Re(b))]
        Crossed(h) == Mac16([u |-> FALSE, h |-> h, R |-> FALSE, ac |-> FALSE], crossed, 0)
        ByteOf(v, k, s) ==
          LET x == Lane(v, FALSE, k)
          IN  IF s THEN SignExtend(x, BYTE) ELSE x
        Bytes(s1, s2) ==
          LET P(k) == Alu("mul", XLEN, ByteOf(a, k, s1), ByteOf(b, k, s2))
          IN  Wrap(P(0) + P(1) + P(2) + P(3))
        Shifted(v, div) == Sra(XLEN, v, HALF - 1 + div) % 2^HALF
    IN  /\ Dot("dotsp", i, "v", TRUE) = Wrap(M(FALSE, FALSE) + M(FALSE, TRUE))
        /\ Dot("dotup", i, "v", TRUE) = Wrap(M(TRUE, FALSE) + M(TRUE, TRUE))
        /\ Dot("dotsp", i, "v", FALSE) = Bytes(TRUE, TRUE)
        /\ Dot("dotusp", i, "v", FALSE) = Bytes(FALSE, TRUE)
        /\ Dot("dotup", i, "v", FALSE) = Bytes(FALSE, FALSE)
        /\ \A half \in BOOLEAN : \A op \in {"up", "usp", "sp"} :
             Dot("sdot" \o op, xin, "v", half) =
               IF Altops \in xin.def THEN Dot("dot" \o op, xin, "v", half)
               ELSE Wrap(Dot("dot" \o op, xin, "v", half) + xin.rs3_rdata)
        /\ \A div \in 0 .. 3 :
             /\ Re(CplxMul([im |-> FALSE, div |-> div], i))
                  = Shifted(Wrap(M(FALSE, FALSE) - M(FALSE, TRUE)), div)
             /\ Im(CplxMul([im |-> TRUE, div |-> div], i))
                  = Shifted(Wrap(Crossed(FALSE) + Crossed(TRUE)), div)

=============================================================================
