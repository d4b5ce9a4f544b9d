------------------------------- MODULE RvfiIsa -------------------------------
(***************************************************************************)
(* The isa_<isa>.v module of an ISA: all its instruction models look at    *)
(* what a core retires, and the outputs of the one that knows the word     *)
(* become those of the module.  The core retires any of Words with any     *)
(* of Operands, in a configuration that defines one of Configs.            *)
(***************************************************************************)
EXTENDS RvfiInsns

CONSTANTS
  Words,     \* values of rvfi_insn
  Operands,  \* [pc_rdata, rs1_rdata, rs2_rdata, mem_rdata, undef]
  Configs    \* sets of macros

Misas == {{}, {"M"}, {"C", "M"}}

VARIABLES
  in,     \* the inputs of the module
  specs,  \* the instruction models with spec_valid, and their outputs
  spec    \* the outputs of the module

vars == <<in, specs, spec>>

-----------------------------------------------------------------------------
\* checks/genchecks.py defines COMPRESSED for an ISA with c.
Parts(def) == IF "COMPRESSED" \in def THEN {"I", "M", "C"} ELSE {"I", "M"}

Hits(outputs) == [n \in {m \in DOMAIN outputs : outputs[m].valid} |-> outputs[n]]
Specs(i) == Hits([n \in IsaOf(Parts(i.def)) |-> Insn(n, i)])

NoSpec == [Default([def |-> {}], {}) EXCEPT !.trap = FALSE]

\* Of the models that know the word the code takes the first by name.
Mux(known) == IF known = <<>> THEN {NoSpec} ELSE {known[n] : n \in DOMAIN known}

\* The ports of the module have the widths of rvfi_insn and of a register.
InputsTyped ==
  /\ Words \subseteq InsnWords
  /\ Operands \subseteq [pc_rdata : Data, rs1_rdata : Data, rs2_rdata : Data,
                         mem_rdata : Data, undef : Data]

Inputs(valid, w, o, def, misa) ==
  [valid |-> valid, insn |-> w, def |-> def, misa |-> misa, pc_rdata |-> o.pc_rdata,
   rs1_rdata |-> o.rs1_rdata, rs2_rdata |-> o.rs2_rdata, mem_rdata |-> o.mem_rdata,
   undef |-> o.undef]

\* The channel retires a word, or it is idle, with anything on its other
\* signals.
Drive(i) ==
  /\ i.valid = ~in.valid
  /\ in' = i
  /\ specs' = Specs(i)
  /\ spec' \in Mux(specs')

Init ==
  /\ \E w \in Words, o \in Operands, def \in Configs : in = Inputs(FALSE, w, o, def, {})
  /\ specs = <<>>
  /\ spec = NoSpec

MisasOf(def) == IF "CSR_MISA" \in def THEN Misas ELSE {{}}
Next ==
  \E valid \in BOOLEAN, w \in Words, o \in Operands, misa \in MisasOf(in.def) :
    Drive(Inputs(valid, w, o, in.def, misa))

Spec == Init /\ [][Next]_vars

-----------------------------------------------------------------------------
\* No word is known to two instructions of an ISA, so the order in which the
\* code asks them does not matter.  The compressed encodings overlap but for
\* side conditions (a zero immediate, x0, x2), spread over many generators.
UniqueDecode == Cardinality(DOMAIN specs) <= 1

\* What docs/rvfi.md asks of a retired instruction holds of every model: x0 is
\* written with zero; a jump from an aligned pc that does not trap ends at an
\* aligned pc; memory is either read or written, and with ALIGNED_MEM within
\* one aligned register width, which a trap leaves without a hole.
Selected(mask) == {k \in 0 .. LANES - 1 : Bit(mask, k)}
Legal(i, s) ==
  LET align == IF Ialign16(i) THEN 2 ELSE 4
      mask == s.mem_rmask + s.mem_wmask
  IN  /\ s.rd_addr = 0 => s.rd_wdata = 0
      /\ ~s.trap /\ i.pc_rdata % align = 0 => s.pc_wdata % align = 0
      /\ s.mem_rmask = 0 \/ s.mem_wmask = 0
      /\ mask /= 0 /\ ~s.trap => Cardinality(Selected(mask)) \in {1, 2, 4, 8}
      /\ Aligned(i) => s.mem_addr % LANES = 0
SpecLegal == \A n \in DOMAIN specs : Legal(in, specs[n])

\* Byte k of a register.
ByteOf(v, k) == (v \div 2^(BYTE * k)) % 2^BYTE
\* The addresses that a mask selects, and the bytes stored there.
Touched(addr, mask) ==
  {Wrap(addr + k) : k \in Selected(mask)}
Stored(s) ==
  [a \in Touched(s.mem_addr, s.mem_wmask) |-> ByteOf(s.mem_wdata, Wrap(a - s.mem_addr))]

SameAccess(a, u) ==
  /\ a.rd_wdata = u.rd_wdata
  /\ Touched(a.mem_addr, a.mem_rmask) = Touched(u.mem_addr, u.mem_rmask)
  /\ Stored(a) = Stored(u)

\* The models written for ALIGNED_MEM and without it mean the same access: if
\* it does not trap, the two touch the same bytes of memory, store the same
\* values there and load the same register value from the same memory.
AlignedAgree ==
  LET With == -1
      \* Without ALIGNED_MEM, memory is read from k bytes further up.
      Access(k) ==
        IF k = With THEN [in EXCEPT !.def = @ \cup {"ALIGNED_MEM"}]
        ELSE [in EXCEPT !.def = @ \ {"ALIGNED_MEM"}, !.mem_rdata = Shr(XLEN, @, BYTE * k)]
      Agree(out) ==
        out[With].trap \/ SameAccess(out[With], out[out[0].mem_addr - out[With].mem_addr])
  IN  \A n \in {m \in DOMAIN specs : specs[m].mem_rmask + specs[m].mem_wmask /= 0} :
        Agree([k \in {With} \cup 0 .. LANES - 1 |-> Insn(n, Access(k))])

\* The product of two registers, by halves of them: <<upper, lower>>.
Product(a, b) ==
  LET h == 2^(XLEN \div 2)
      low == (a % h) * (b % h)
      mid == (a \div h) * (b % h) + (low \div h)
      mid2 == (a % h) * (b \div h) + (mid % h)
  IN  <<(a \div h) * (b \div h) + (mid \div h) + (mid2 \div h),
        (mid2 % h) * h + (low % h)>>

\* The halves of a product fit together whatever the signs of the factors, and
\* a quotient and its remainder give the dividend back, also in the corners:
\* division by zero, and of the most negative number by -1.
Arithmetic ==
  LET a == in.rs1_rdata
      b == in.rs2_rdata
      Of(n) == AluResult(MulInsns[n], FALSE, [in EXCEPT !.def = @ \ {"ALTOPS"}])
      Corrected(p) == Wrap(Product(a, b)[1] - p)
      Neg(x) == x >= Msb(XLEN)
  IN  /\ Of("mul") = Product(a, b)[2]
      /\ Of("mulhu") = Product(a, b)[1]
      /\ Of("mulhsu") = Corrected(IF Neg(a) THEN b ELSE 0)
      /\ Of("mulh") = Corrected((IF Neg(a) THEN b ELSE 0) + (IF Neg(b) THEN a ELSE 0))
      /\ \A d \in {<<"div", "rem">>, <<"divu", "remu">>} :
           Wrap(Product(Of(d[1]), b)[2] + Of(d[2])) = a
      /\ b /= 0 => Of("remu") < b

\* Where the manual puts the bits of an immediate: its lowest and its highest
\* bit, and the bits h..l of the word with the position of bit l.
ManualImm ==
  [I |-> <<0, 11, {<<31, 20, 0>>}>>, S |-> <<0, 11, {<<31, 25, 5>>, <<11, 7, 0>>}>>,
   B |-> <<1, 12, {<<31, 31, 12>>, <<30, 25, 5>>, <<11, 8, 1>>, <<7, 7, 11>>}>>,
   U |-> <<12, 31, {<<31, 12, 12>>}>>,
   J |-> <<1, 20, {<<31, 31, 20>>, <<30, 21, 1>>, <<20, 20, 11>>, <<19, 12, 12>>}>>,
   CI |-> <<0, 5, {<<12, 12, 5>>, <<6, 2, 0>>}>>,
   CILUI |-> <<12, 17, {<<12, 12, 17>>, <<6, 2, 12>>}>>,
   CISP |-> <<4, 9, {<<12, 12, 9>>, <<6, 6, 4>>, <<5, 5, 6>>, <<4, 3, 7>>, <<2, 2, 5>>}>>,
   CJ |-> <<1, 11, {<<12, 12, 11>>, <<11, 11, 4>>, <<10, 9, 8>>, <<8, 8, 10>>,
                    <<7, 7, 6>>, <<6, 6, 7>>, <<5, 3, 1>>, <<2, 2, 5>>}>>,
   CB |-> <<1, 8, {<<12, 12, 8>>, <<11, 10, 3>>, <<6, 5, 6>>, <<4, 3, 1>>, <<2, 2, 5>>}>>,
   CIW |-> <<2, 9, {<<12, 11, 4>>, <<10, 7, 6>>, <<6, 6, 2>>, <<5, 5, 3>>}>>,
   CLSP4 |-> <<2, 7, {<<12, 12, 5>>, <<6, 4, 2>>, <<3, 2, 6>>}>>,
   CLSP8 |-> <<3, 8, {<<12, 12, 5>>, <<6, 5, 3>>, <<4, 2, 6>>}>>,
   CSSP4 |-> <<2, 7, {<<12, 9, 2>>, <<8, 7, 6>>}>>,
   CSSP8 |-> <<3, 8, {<<12, 10, 3>>, <<9, 7, 6>>}>>,
   CL4 |-> <<2, 6, {<<12, 10, 3>>, <<6, 6, 2>>, <<5, 5, 6>>}>>,
   CL8 |-> <<3, 7, {<<12, 10, 3>>, <<6, 5, 6>>}>>]
Unsigned == {"CIW", "CLSP4", "CLSP8", "CSSP4", "CSSP8", "CL4", "CL8"}

\* Bits h..l of w are in imm from position p on; imm has its bits from low to
\* high, and high counts negative if imm is signed.
Placed(imm, w, h, l, p) == (imm \div 2^p) % 2^(h - l + 1) = Field(w, h, l)
Spans(imm, low, high, signed) ==
  /\ imm % 2^low = 0
  /\ (imm \div 2^low) \div 2^(high - low) \in IF signed THEN {-1, 0} ELSE {0, 1}

\* imm is the number that the manual reads from w.
ByManual(format, imm, w) ==
  LET row == ManualImm[format]
  IN  /\ Spans(imm, row[1], row[2], format \notin Unsigned)
      /\ \A s \in row[3] : Placed(imm, w, s[1], s[2], s[3])

\* Every format reads the immediate whose bits the manual scatters over the
\* word: each bit at its place, the sign of it, and its scale.
Immediates ==
  LET w == in.insn
  IN  /\ ByManual("I", FormatI(w).imm, w) /\ ByManual("S", FormatS(w).imm, w)
      /\ ByManual("B", FormatSb(w).imm, w) /\ ByManual("U", FormatU(w).imm, w)
      /\ ByManual("J", FormatUj(w).imm, w) /\ ByManual("CI", FormatCi(w).imm, w)
      /\ ByManual("CISP", FormatCiSp(w).imm, w)
      /\ ByManual("CILUI", FormatCiLui(w).imm, w)
      /\ ByManual("CI", FormatCiAndi(w).imm, w)
      /\ ByManual("CJ", FormatCj(w).imm, w) /\ ByManual("CB", FormatCb(w).imm, w)
      /\ ByManual("CIW", FormatCiw(w).imm, w)
      /\ ByManual("CLSP4", FormatCiLsp(w, 4).imm, w)
      /\ ByManual("CLSP8", FormatCiLsp(w, 8).imm, w)
      /\ ByManual("CSSP4", FormatCss(w, 4).imm, w)
      /\ ByManual("CSSP8", FormatCss(w, 8).imm, w)
      /\ ByManual("CL4", FormatCl(w, 4).imm, w) /\ ByManual("CL8", FormatCl(w, 8).imm, w)
      /\ ByManual("CL4", FormatCs(w, 4).imm, w) /\ ByManual("CL8", FormatCs(w, 8).imm, w)

=============================================================================
