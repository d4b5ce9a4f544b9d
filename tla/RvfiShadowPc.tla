---------------------------- MODULE RvfiShadowPc ----------------------------
(***************************************************************************)
(* The pc consistency check of the RVFI monitor (option -P leaves it out): *)
(* every instruction must start where its predecessor in program order     *)
(* said it would.  The predecessor is the instruction on a lower channel   *)
(* of the same clock edge, or the one remembered in the shadow registers.  *)
(*                                                                         *)
(* ro is what the reorder buffer shows; the core behind it is arbitrary.   *)
(***************************************************************************)
EXTENDS Integers

CONSTANTS
  NRet,     \* channels
  Pcs,      \* program counter values
  NoInsn    \* what a channel carries when its valid bit is low

Channels == 0 .. NRet - 1
Insn == [pc : Pcs, npc : Pcs, intr : BOOLEAN, trap : BOOLEAN]
\* What an instruction says of its successor.
Outcomes == [npc : Pcs, trap : BOOLEAN]
Inputs == [Channels -> Insn \cup {NoInsn}]

\* Of the constants; the modules that instantiate this one assume it.
ShadowPcAssumption ==
  /\ NRet \in Nat \ {0}
  /\ NoInsn \notin Insn /\ NoInsn \notin Outcomes

VARIABLES
  ro,              \* ro[c]: the instruction on reordered channel c, or NoInsn
  shadow_pc_valid, \* shadow_pc is to be compared
  shadow_pc_trap,  \* the instruction before trapped
  shadow_pc,       \* its next pc
  errcode_p,       \* errcode_p[c]: the error found on channel c, 0 for none
  prev             \* history: outcome of the last instruction since the reset

vars == <<ro, shadow_pc_valid, shadow_pc_trap, shadow_pc, errcode_p, prev>>

-----------------------------------------------------------------------------
\* Error codes, without the hundreds that name the channel.
PcMismatch == 30
IntrExpected == 33

Valid == {c \in Channels : ro[c] /= NoInsn}
Below(c) == {i \in Valid : i < c}
Last(cs) == CHOOSE c \in cs : \A d \in cs : d <= c

\* The shadow registers as channel c sees them: the lower channels come first.
\* The code looks at the trap bit of channel c itself here, not at that of the
\* lower channel.
ShadowValid(c) == IF Below(c) = {} THEN shadow_pc_valid ELSE ~ro[c].trap
ShadowTrap(c) == IF Below(c) = {} THEN shadow_pc_trap ELSE ro[c].trap

\* Mutated: the lower channels are not looked at.
ShadowRdataRegister(c) == shadow_pc

ShadowRdata(c) == IF Below(c) = {} THEN shadow_pc ELSE ro[Last(Below(c))].npc

\* Mutated: the pc is compared whether or not a trap handler starts.
ErrorDespiteIntr(c) ==
  IF ShadowValid(c) /\ ShadowTrap(c) /\ ~ro[c].intr THEN IntrExpected
  ELSE IF ShadowValid(c) /\ ShadowRdata(c) /= ro[c].pc THEN PcMismatch
  ELSE 0

\* Mutated: a code of the register check is reported.
ErrorOfRs1(c) ==
  IF ShadowValid(c) /\ ShadowRdata(c) /= ro[c].pc /\ ~ro[c].intr THEN 31 ELSE 0

\* The later of two assignments to the error register wins.
Error(c) ==
  IF ShadowValid(c) /\ ShadowTrap(c) /\ ~ro[c].intr THEN IntrExpected
  ELSE IF ShadowValid(c) /\ ShadowRdata(c) /= ro[c].pc /\ ~ro[c].intr
  THEN PcMismatch
  ELSE 0

Outcome(i) == [npc |-> i.npc, trap |-> i.trap]

\* A clock edge with reset low: the last valid channel sets the registers.
Check ==
  /\ errcode_p' = [c \in Channels |-> IF c \in Valid THEN Error(c) ELSE 0]
  /\ IF Valid = {}
     THEN UNCHANGED <<shadow_pc_valid, shadow_pc_trap, shadow_pc, prev>>
     ELSE LET last == ro[Last(Valid)]
          IN  /\ shadow_pc_valid' = ~last.trap
              /\ shadow_pc_trap' = last.trap
              /\ shadow_pc' = last.npc
              /\ prev' = Outcome(last)

\* A clock edge with reset high: shadow_pc itself is not cleared.
Reset ==
  /\ errcode_p' = [c \in Channels |-> 0]
  /\ shadow_pc_valid' = FALSE
  /\ shadow_pc_trap' = FALSE
  /\ UNCHANGED shadow_pc
  /\ prev' = NoInsn

Init ==
  /\ ro \in Inputs
  /\ shadow_pc_valid = FALSE
  /\ shadow_pc_trap = FALSE
  /\ shadow_pc \in Pcs
  /\ errcode_p = [c \in Channels |-> 0]
  /\ prev = NoInsn

Next == (Reset \/ Check) /\ ro' \in Inputs

Spec == Init /\ [][Next]_vars

-----------------------------------------------------------------------------
\* The types of the registers and ports.
TypeOK ==
  /\ ro \in Inputs
  /\ shadow_pc_valid \in BOOLEAN
  /\ shadow_pc_trap \in BOOLEAN
  /\ shadow_pc \in Pcs
  /\ errcode_p \in [Channels -> {0, PcMismatch, IntrExpected}]
  /\ prev \in Outcomes \cup {NoInsn}

\* The outcome of the instruction before channel c in program order.
Predecessor(c) == IF Below(c) = {} THEN prev ELSE Outcome(ro[Last(Below(c))])

\* What RVFI asks: outside of trap handlers' first instructions, an instruction
\* starts at the next pc of its predecessor, and a trap leads to a handler.
Mismatch(c) ==
  /\ Predecessor(c) /= NoInsn
  /\ ~ro[c].intr
  /\ ~Predecessor(c).trap /\ Predecessor(c).npc /= ro[c].pc
LostTrap(c) ==
  /\ Predecessor(c) /= NoInsn
  /\ ~ro[c].intr
  /\ Predecessor(c).trap

\* A wrong pc after an instruction that did not trap is reported, on whatever
\* channel it retires, unless the instruction itself traps on a channel that
\* has a predecessor in the same clock edge.
MismatchReported ==
  [][Check => \A c \in Valid :
       Mismatch(c) /\ (Below(c) = {} \/ ~ro[c].trap) => errcode_p'[c] /= 0]_vars

\* No false alarm: an error is reported only of an instruction whose pc is
\* wrong, or that follows a trap without being marked as a handler's first.
NoFalseAlarm ==
  [][\A c \in Valid : errcode_p'[c] /= 0 => Mismatch(c) \/ LostTrap(c)]_vars

\* The message of error 33, "expected intr after trap", and docs/rvfi.md: an
\* instruction that follows a trap without rvfi_intr is reported.
LostTrapReported ==
  [][Check => \A c \in Valid : LostTrap(c) => errcode_p'[c] /= 0]_vars

\* The message of error 30, "mismatch with shadow pc": every wrong pc after an
\* instruction that did not trap is reported.
EveryMismatchReported ==
  [][Check => \A c \in Valid : Mismatch(c) => errcode_p'[c] /= 0]_vars

=============================================================================
