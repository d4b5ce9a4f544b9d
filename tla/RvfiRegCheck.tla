---------------------------- MODULE RvfiRegCheck ----------------------------
(***************************************************************************)
(* checks/rvfi_reg_check.sv: an instruction must read from a register what *)
(* the older instructions wrote to it.  The solver picks the instruction   *)
(* (insn_order) and the register; the checker follows the writes to that   *)
(* register as they retire and looks at the instruction in the check       *)
(* cycle.  The core is arbitrary: instructions may retire in any order.    *)
(*                                                                         *)
(* The source operands are rs1 and rs2; the variant for custom ISAs, which *)
(* adds rs3 and a second destination, is left out.                         *)
(* The last three variables are history, for the properties only.           *)
(***************************************************************************)
EXTENDS RvfiTestbench

CONSTANTS
  Orders,    \* rvfi_order values
  Regs,      \* register numbers
  Values,    \* register values
  Operands,  \* the source operands, rs1 and rs2
  NoInsn     \* what a channel carries when its valid bit is low

Insn == [order : Orders, trap : BOOLEAN, rd : Regs, wdata : Values,
         addr : [Operands -> Regs], rdata : [Operands -> Values]]
Inputs == [Channels -> Insn \cup {NoInsn}]

RegCheckAssumption ==
  /\ Orders \subseteq Nat
  /\ NoInsn \notin Insn /\ NoInsn \notin Orders \X Values

VARIABLES
  insn_order,        \* the instruction under check, constant
  register_index,    \* the register under check, constant
  register_shadow,   \* the value the instruction should read
  register_written,  \* such a value is known
  failed,            \* an assertion has failed
  newest,            \* <<order, value>> of the youngest older write, or NoInsn
  disordered,        \* writes to the register did not retire in program order
  stale              \* the instruction read something else than newest

checker == <<insn_order, register_index, register_shadow, register_written, failed>>
history == <<newest, disordered, stale>>
vars == <<cycle, checker, history>>

-----------------------------------------------------------------------------
Valid(in) == {c \in Channels : in[c] /= NoInsn}
Last(cs) == CHOOSE c \in cs : \A d \in cs : d <= c

\* The channels the loops run over: in the check cycle only the lower ones
\* come before the instruction.
Looked(in) == {c \in Valid(in) : check => c < ChannelIdx}

\* Mutated: the instruction's own write counts.
WritersUpTo(in) ==
  {c \in Looked(in) : /\ ~in[c].trap
                      /\ in[c].order <= insn_order
                      /\ in[c].rd = register_index}

Writers(in) ==
  {c \in Looked(in) : /\ ~in[c].trap
                      /\ in[c].order < insn_order
                      /\ in[c].rd = register_index}

NextShadow(in) ==
  IF Writers(in) = {} THEN register_shadow ELSE in[Last(Writers(in))].wdata

\* The assumptions of the check cycle.
Assumed(in) ==
  check => ChannelIdx \in Valid(in) /\ in[ChannelIdx].order = insn_order

\* Some operand of the checked instruction names the register but is not v.
Differs(in, v) ==
  \E op \in Operands :
    in[ChannelIdx].addr[op] = register_index /\ in[ChannelIdx].rdata[op] /= v

\* History: the youngest of the older writes that have retired by now, and
\* whether these retired in program order.
OlderWrites(in) ==
  {<<in[c].order, c>> :
     c \in {d \in Looked(in) : /\ in[d].rd = register_index /\ ~in[d].trap
                              /\ in[d].order < insn_order}}
NextNewest(in) ==
  LET seen == {<<w[1], in[w[2]].wdata>> : w \in OlderWrites(in)}
              \cup ({newest} \ {NoInsn})
  IN  IF seen = {} THEN NoInsn ELSE CHOOSE w \in seen : \A x \in seen : x[1] <= w[1]
Disorder(in) ==
  \E w \in OlderWrites(in) :
    \/ newest /= NoInsn /\ w[1] <= newest[1]
    \/ \E x \in OlderWrites(in) : x[2] < w[2] /\ w[1] <= x[1]

Remember(in) ==
  /\ newest' = NextNewest(in)
  /\ disordered' = (disordered \/ Disorder(in))
  /\ stale' = (stale \/ (check /\ newest' /= NoInsn /\ Differs(in, newest'[2])))

\* A clock edge in the reset phase.
InReset ==
  /\ reset
  /\ register_shadow' = 0
  /\ register_written' = FALSE
  /\ UNCHANGED <<insn_order, register_index, failed, history>>

\* A clock edge after it.
Edge(in) ==
  /\ ~reset
  /\ Assumed(in)
  /\ register_shadow' = NextShadow(in)
  /\ register_written' = (register_written \/ Writers(in) /= {})
  /\ failed' = (failed \/ (check /\ register_written' /\ Differs(in, register_shadow')))
  /\ UNCHANGED <<insn_order, register_index>>
  /\ Remember(in)

Init ==
  /\ TbInit
  /\ insn_order \in Orders
  /\ register_index \in Regs
  /\ register_shadow = 0
  /\ register_written = FALSE
  /\ failed = FALSE
  /\ newest = NoInsn
  /\ disordered = FALSE
  /\ stale = FALSE

\* The property is about one check: nothing follows the check cycle.
Next ==
  /\ cycle <= CheckCycle
  /\ Tick
  /\ InReset \/ \E in \in Inputs : Edge(in)

Spec == Init /\ [][Next]_vars

-----------------------------------------------------------------------------
\* The check is exact for a core that retires the writes to one register in
\* program order: it fails exactly when the instruction did not read what the
\* youngest older write that has retired left in the register.
VerdictExact == ~disordered => (failed <=> stale)

=============================================================================
