--------------------------- MODULE MCRvfiXpulpIsa ---------------------------
(***************************************************************************)
(* Model-checking instance of RvfiXpulpIsa with bytes of 4 bits.  Every    *)
(* encoding that the four custom opcodes have room for retires once, with  *)
(* some values of the fields that are operands; a word of most             *)
(* instructions retires with many operands.                                *)
(***************************************************************************)
EXTENDS RvfiXpulpIsa

Word(f7, rs2, rs1, f3, rd, op) ==
  [up |-> 0, hi |-> 512 * f7 + 16 * rs2 + rs1 \div 2,
   lo |-> 32768 * (rs1 % 2) + 4096 * f3 + 128 * rd + op]
Half(f3, b12, r, q, op) ==
  [up |-> 0, hi |-> 0, lo |-> 8192 * f3 + 4096 * b12 + 128 * r + 4 * q + op]

Funct3 == 0 .. 7
Custom ==
  {Word(f7, rs2, 9, f3, 21, CV3) :
     f7 \in 0 .. 127, rs2 \in {0, 5}, f3 \in Funct3}
  \cup {Word(f7, rs2, 9, 3, 21, CV1) : f7 \in 0 .. 127, rs2 \in {0, 5}}
  \cup {Word(f7, 5, 9, f3, 21, CV1) : f7 \in {0, 20, 127}, f3 \in Funct3}
  \cup {Word(f7, 27, 9, f3, 21, CV3) :
     f7 \in {0, 1, 7, 17, 67, 98}, f3 \in Funct3}
  \cup {Word(32 * f2 + ls3, ls2, 9, f3, 21, CV2) :
     f2 \in 0 .. 3, ls3 \in {0, 1, 2, 3, 9}, ls2 \in {0, 5, 12}, f3 \in Funct3}
  \cup {Word(f7, rs2, 9, f3, 21, CV0) :
     f7 \in {0, 9, 127}, rs2 \in {0, 5, 30}, f3 \in Funct3}
  \cup {Word(0, 5, 9, 3, 0, CV1), Word(4, 5, 0, 3, 21, CV1),
        [Word(24, 5, 9, 3, 21, CV1) EXCEPT !.up = 1]}
Base ==
  {Word(f7, 5, 9, f3, 21, op) : f7 \in {1, 32}, f3 \in Funct3,
     op \in {\b0110111, \b1101111, \b1100111, \b1100011, \b0000011, \b0100011, \b0110011}}
  \cup {Half(f3, 0, 13, q, op) : f3 \in Funct3, q \in {0, 26}, op \in 0 .. 2}
  \* To the next instruction: jal, bne and cv.bneimm.
  \cup {Word(0, 4, 0, 0, 21, \b1101111), Word(0, 5, 9, 1, 4, \b1100011),
        Word(0, 30, 9, 7, 4, CV0)}
\* One word or more of every generator.
Few ==
  {Word(f7, 5, 9, 3, 21, CV1) :
     f7 \in {0, 1, 2, 4, 9, 16, 17, 18, 20, 24, 26, 32, 40, 43, 60, 68, 72}}
  \cup {Word(32 * f2 + 9, 5, 9, f3, 21, CV2) : f2 \in 0 .. 3, f3 \in Funct3}
  \cup {Word(4 * f5, 5, 9, f3, 21, CV3) :
     f5 \in {2, 4, 9, 16, 17, 20, 24, 28, 30}, f3 \in {0, 1}}
  \cup {Word(127, 30, 9, f3, 21, CV0) : f3 \in {0, 6}}

XOperand(a, b, c, hwlp) ==
  [pc_rdata |-> 64, rs1_rdata |-> a, rs2_rdata |-> b, rs3_rdata |-> c,
   mem_rdata |-> 36721, undef |-> 7, is_hwlp |-> hwlp, hwlp_start |-> 32]
XOne == XOperand(43817, 5, 21930, TRUE)
Many ==
  {XOperand(a, b, c, FALSE) :
     a \in {0, 1, 32767, 32768, 65534, 40961}, b \in {0, 33023, 32896, 65535, 177},
     c \in {21930}}
MCXConfigs ==
  {{"COMPRESSED", "CUSTOM_ISA"}, {"CUSTOM_ISA", "ALIGNED_MEM", "ALTOPS"}}
MCXWords == Custom \cup Base
MCXOperands == Many \cup {XOne}

XQuiet(def) == XInputs(FALSE, Word(0, 0, 0, 0, 0, 0), XOne, def)
MCXInit == (\E def \in MCXConfigs : xin = XQuiet(def)) /\ xspecs = <<>>
XRetired(def) ==
  {XInputs(TRUE, w, XOne, def) : w \in IF "COMPRESSED" \in def THEN MCXWords ELSE Few \cup Base}
  \cup {XInputs(TRUE, w, o, def) : w \in Few, o \in Many}
MCXNext == \E i \in IF xin.valid THEN {XQuiet(xin.def)} ELSE XRetired(xin.def) : XDrive(i)

=============================================================================
