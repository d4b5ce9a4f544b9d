--------------------------- MODULE RvfiShadowRegs ---------------------------
(***************************************************************************)
(* The register consistency check of the RVFI monitor (option -R leaves it *)
(* out): every instruction must read what the instructions before it, in   *)
(* program order, last wrote.  An instruction on a lower channel of the    *)
(* same clock edge forwards its result; all others are remembered in the   *)
(* shadow registers, which start out unknown except for x0.                *)
(*                                                                         *)
(* ro, the parameter of most operators, is what the reorder buffer shows   *)
(* at a clock edge; the core behind it is arbitrary.                       *)
(***************************************************************************)
EXTENDS Integers

CONSTANTS
  NRet,     \* channels
  Regs,     \* register numbers, 0 is the zero register
  Values,   \* register values, 0 among them
  NoInsn,   \* what a channel carries when its valid bit is low
  Unknown   \* the value of a register nothing has been learnt about

Channels == 0 .. NRet - 1
Operands == {"rs1", "rs2"}
Insn == [addr : [Operands -> Regs], rdata : [Operands -> Values],
         rd : Regs, wdata : Values]
Inputs == [Channels -> Insn \cup {NoInsn}]

\* Of the constants; the modules that instantiate this one assume it.
ShadowRegsAssumption ==
  /\ NRet \in Nat \ {0}
  /\ 0 \in Regs /\ 0 \in Values
  /\ NoInsn \notin Insn /\ Unknown \notin Values

VARIABLES
  shadow_xregs_valid,  \* the registers whose value is known
  shadow_xregs,        \* their values
  errcode_r,           \* errcode_r[c]: the error found on channel c, 0 for none
  written,             \* history: what the program last wrote to a register
  stale                \* history: the channels that read something else

vars == <<shadow_xregs_valid, shadow_xregs, errcode_r, written, stale>>

-----------------------------------------------------------------------------
\* Error codes, without the hundreds that name the channel.
Rs1Mismatch == 31
Rs2Mismatch == 32

Valid(ro) == {c \in Channels : ro[c] /= NoInsn}
Last(cs) == CHOOSE c \in cs : \A d \in cs : d <= c
First(cs) == CHOOSE c \in cs : \A d \in cs : c <= d

\* The valid channels that write register r, and those of them below c.
Writers(ro, r) == {c \in Valid(ro) : ro[c].rd = r}
Forwarders(ro, c, r) == {i \in Writers(ro, r) : i < c}

\* Mutated: the first of the lower channels wins.
SeesFirst(ro, c, r) ==
  IF Forwarders(ro, c, r) = {} THEN shadow_xregs[r]
  ELSE ro[First(Forwarders(ro, c, r))].wdata

\* What channel c sees of register r: the highest lower channel that writes it,
\* or else the shadow registers.
Sees(ro, c, r) ==
  IF Forwarders(ro, c, r) = {} THEN shadow_xregs[r]
  ELSE ro[Last(Forwarders(ro, c, r))].wdata
Known(ro, c, r) == Forwarders(ro, c, r) /= {} \/ r \in shadow_xregs_valid

Wrong(ro, c, op) ==
  LET r == ro[c].addr[op]
  IN  Known(ro, c, r) /\ Sees(ro, c, r) /= ro[c].rdata[op]

\* rs2 is looked at last and wins.
Error(ro, c) ==
  IF Wrong(ro, c, "rs2") THEN Rs2Mismatch
  ELSE IF Wrong(ro, c, "rs1") THEN Rs1Mismatch
  ELSE 0

\* The last channel that writes a register sets its shadow.
NextXreg(ro, r) ==
  IF Writers(ro, r) = {} THEN shadow_xregs[r]
  ELSE ro[Last(Writers(ro, r))].wdata

\* Program order: the registers after the first n channels of ro have been
\* executed one after the other.
Executed(ro) ==
  LET regs[n \in 0 .. NRet] ==
        IF n = 0 THEN written
        ELSE IF ro[n - 1] = NoInsn THEN regs[n - 1]
        ELSE [regs[n - 1] EXCEPT ![ro[n - 1].rd] = ro[n - 1].wdata]
  IN  regs

\* An operand of channel c is not what the program last wrote there.
ReadsStale(ro, c) ==
  \E op \in Operands :
    Executed(ro)[c][ro[c].addr[op]] \notin {Unknown, ro[c].rdata[op]}

\* A clock edge with reset low.
Check(ro) ==
  /\ errcode_r' = [c \in Channels |-> IF c \in Valid(ro) THEN Error(ro, c) ELSE 0]
  /\ shadow_xregs_valid' = shadow_xregs_valid \cup {ro[c].rd : c \in Valid(ro)}
  /\ shadow_xregs' = [r \in Regs |-> NextXreg(ro, r)]
  /\ written' = Executed(ro)[NRet]
  /\ stale' = {c \in Valid(ro) : ReadsStale(ro, c)}

\* A clock edge with reset high: only x0 is known, the others keep their value.
Reset ==
  /\ errcode_r' = [c \in Channels |-> 0]
  /\ shadow_xregs_valid' = {0}
  /\ shadow_xregs' = [shadow_xregs EXCEPT ![0] = 0]
  /\ written' = [r \in Regs |-> IF r = 0 THEN 0 ELSE Unknown]
  /\ stale' = {}

\* After the first reset; the registers but x0 power up with anything.
Init ==
  /\ shadow_xregs_valid = {0}
  /\ shadow_xregs \in [Regs -> Values] /\ shadow_xregs[0] = 0
  /\ errcode_r = [c \in Channels |-> 0]
  /\ written = [r \in Regs |-> IF r = 0 THEN 0 ELSE Unknown]
  /\ stale = {}

Next == Reset \/ \E ro \in Inputs : Check(ro)

Spec == Init /\ [][Next]_vars

-----------------------------------------------------------------------------
\* The verdict does not depend on how the program is spread over channels and
\* clock edges: a channel reports an error exactly when one of its operands is
\* not what the program last wrote to that register, and never about a register
\* nothing has been learnt about since the reset.
VerdictExact == \A c \in Channels : errcode_r[c] /= 0 <=> c \in stale

=============================================================================
