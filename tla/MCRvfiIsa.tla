------------------------------ MODULE MCRvfiIsa ------------------------------
(***************************************************************************)
(* Model-checking instance of the instruction models, with registers of    *)
(* 16 bits: of RvfiIsa for rv32imc with bytes of 4 bits, beside it for     *)
(* rv64imc with bytes of 2 bits, and of RvfiXpulpIsa (MCRvfiXpulpIsa).  A  *)
(* behaviour is one of either.  Many words retire with one operand, and    *)
(* some of every instruction with many operands and configurations.        *)
(***************************************************************************)
EXTENDS RvfiIsa, MCRvfiXpulpIsa

VARIABLES
  isa,                   \* the models that run, constant
  in64, specs64, spec64

Opcodes32 == {\b0110111, \b0010111, \b1101111, \b1100111, \b1100011, \b0000011,
              \b0100011, \b0010011, \b0110011, \b0011011, \b0111011}
MCWords ==
  {[Word(f7, 5, 9, f3, rd, op) EXCEPT !.up = up] :
    up \in {0, 1}, f7 \in {0, 1, 32, 66}, f3 \in 0 .. 7, rd \in {0, 21}, op \in Opcodes32}
  \cup {Half(f3, b, r, q, op) :
    f3 \in 0 .. 7, b \in {0, 1}, r \in {0, 2, 13, 24}, q \in {0, 5, 26}, op \in 0 .. 2}
FewWords ==
  {Word(f7, 5, 9, f3, 21, op) : f7 \in {0, 32}, f3 \in 0 .. 7, op \in Opcodes32}
  \cup {Word(1, 5, 9, f3, 21, op) : f3 \in 0 .. 7, op \in {\b0110011, \b0111011}}
  \cup {Half(f3, 0, 13, 26, op) : f3 \in 0 .. 7, op \in 0 .. 2}

Operand(pc, a, b) ==
  [pc_rdata |-> pc, rs1_rdata |-> a, rs2_rdata |-> b, mem_rdata |-> 36721, undef |-> 7]
\* The last two are sign-extended words on RV64.
MCOperands ==
  {Operand(4, a, b) : a \in {0, 3, 32768}, b \in {0, 2, 65535}}
  \cup {Operand(65534, 32767, 40000), Operand(2, 65535, 1), Operand(8, 65408, 65535)}
FewOperands == {Operand(4, 3, 3), Operand(2, 65535, 40001)}
One == Operand(4, 21845, 2)

Plain == {"ALIGNED_MEM", "COMPRESSED"}
MCConfigs == {Plain, {}, {"COMPRESSED", "ALTOPS"}, Plain \cup {"CSR_MISA"}}

R64 == INSTANCE RvfiIsa WITH BYTE <- 2, LANES <- 8,
         in <- in64, specs <- specs64, spec <- spec64

ASSUME PortsTyped == InputsTyped /\ R64!InputsTyped /\ XInputsTyped

Quiet(def) == Inputs(FALSE, Word(0, 0, 0, 0, 0, 0), One, def, {})
MCInit ==
  /\ isa \in {"rv32imc", "rv64imc", "rv32imcx"}
  /\ \E def \in Configs : in = Quiet(def)
  /\ specs = <<>> /\ spec = NoSpec
  /\ in64 = in /\ specs64 = specs /\ spec64 = spec
  /\ MCXInit
  \* the models that do not run start in one state each
  /\ isa = "rv32imcx" => in = Quiet(Plain)
  /\ isa /= "rv32imcx" => xin = XQuiet(CHOOSE def \in XConfigs : TRUE)

\* The instructions that may retire, on a channel that shows i.
Retired(def) ==
  {Inputs(TRUE, w, One, def, {}) : w \in IF def \in {Plain, {}} THEN Words ELSE {}}
  \cup {Inputs(TRUE, w, o, def, {}) :
          w \in FewWords, o \in IF def = Plain THEN Operands ELSE {}}
  \cup {Inputs(TRUE, w, o, def, misa) :
          w \in FewWords, o \in FewOperands, misa \in MisasOf(def)}
Follow(i) == IF i.valid THEN {Quiet(i.def)} ELSE Retired(i.def)

MCNext ==
  \/ isa = "rv32imc" /\ (\E i \in Follow(in) : Drive(i))
     /\ UNCHANGED <<isa, in64, specs64, spec64, xvars>>
  \/ isa = "rv64imc" /\ (\E i \in Follow(in64) : R64!Drive(i))
     /\ UNCHANGED <<isa, vars, xvars>>
  \/ isa = "rv32imcx" /\ MCXNext
     /\ UNCHANGED <<isa, vars, in64, specs64, spec64>>

MCSpec == MCInit /\ [][MCNext]_<<isa, vars, in64, specs64, spec64, xvars>>

\* What holds of rv32imc holds of rv64imc, where c.jal gives its word to c.addiw
\* and accesses have up to eight bytes; and on both widths the models for
\* ALIGNED_MEM and without it mean the same access.
BothWidths == AlignedAgree /\ R64!AlignedAgree /\ R64!UniqueDecode /\ R64!SpecLegal

=============================================================================
