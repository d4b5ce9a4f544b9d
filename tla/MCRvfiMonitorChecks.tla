-------------------------- MODULE MCRvfiMonitorChecks --------------------------
(***************************************************************************)
(* Model-checking instance of the parts of the monitor, each by itself and *)
(* on inputs of its own: the reorder buffer behind an arbitrary core, the  *)
(* pc check and the register check on whatever the reordered channels      *)
(* show, and the instruction check, next to its formal counterparts, on    *)
(* one channel.  RvfiMonitor puts them together.                           *)
(***************************************************************************)
EXTENDS RvfiRob

CONSTANTS
  MaxCursor,                        \* bound: no clock edge but a reset from there on
  Pcs, NoInsn,                      \* of the pc check
  RegNRet, Regs, Values, Unknown,   \* of the register check
  InsnOperands, Lanes, Bytes, Addrs, Causes   \* of the instruction check

VARIABLES
  part,                             \* the part that runs, constant
  ro, shadow_pc_valid, shadow_pc_trap, shadow_pc, errcode_p, prev,
  shadow_xregs_valid, shadow_xregs, errcode_r, written, stale,
  ignore_mem, ch, judged, errcode_i

PcCheck == INSTANCE RvfiShadowPc
RegCheck == INSTANCE MCRvfiShadowRegs WITH NRet <- RegNRet
InsnCheck == INSTANCE MCRvfiInsnCheck WITH Operands <- InsnOperands, errcode <- errcode_i

pcVars == <<ro, shadow_pc_valid, shadow_pc_trap, shadow_pc, errcode_p, prev>>
regVars == <<shadow_xregs_valid, shadow_xregs, errcode_r, written, stale>>
insnVars == <<ignore_mem, ch, judged, errcode_i>>

ASSUME MonitorChecksAssumption ==
  /\ PcCheck!ShadowPcAssumption
  /\ RegCheck!ShadowRegsAssumption
  /\ InsnCheck!InsnCheckAssumption

\* The memory array may power up with anything.
AnyContents == [Slots -> Packet]

MCInit ==
  /\ part \in {"rob", "pc", "regs", "insn"}
  /\ Init /\ PcCheck!Init /\ RegCheck!Init /\ InsnCheck!Init
  \* the parts that do not run start in one state each
  /\ part /= "rob" => buffer = CHOOSE b \in PowerUp : TRUE
  /\ part /= "pc" =>
       ro = [c \in Channels |-> NoInsn] /\ shadow_pc = CHOOSE p \in Pcs : TRUE
  /\ part /= "regs" => shadow_xregs = [r \in Regs |-> 0]
  /\ part /= "insn" => ~ignore_mem

RobNext == Reset \/ (cursor < MaxCursor /\ \E in \in Inputs : Step(in))

MCNext ==
  /\ UNCHANGED part
  /\ \/ part = "rob" /\ RobNext /\ UNCHANGED <<pcVars, regVars, insnVars>>
     \/ part = "pc" /\ PcCheck!Next /\ UNCHANGED <<vars, regVars, insnVars>>
     \/ part = "regs" /\ RegCheck!MCNext /\ UNCHANGED <<vars, pcVars, insnVars>>
     \/ part = "insn" /\ InsnCheck!MCNext /\ UNCHANGED <<vars, pcVars, regVars>>

MCSpec == MCInit /\ [][MCNext]_<<part, vars, pcVars, regVars, insnVars>>

\* Stated and explained in the modules of the checks; what is asked of the
\* reorder buffer is in RvfiRob.
MismatchReported == PcCheck!MismatchReported
NoFalseAlarm == PcCheck!NoFalseAlarm
RegVerdictExact == RegCheck!VerdictExact
AcceptedIsRight == InsnCheck!AcceptedIsRight
MonitorCatches == InsnCheck!MonitorCatches
MonitorJustified == InsnCheck!MonitorJustified
FaultCause == InsnCheck!FaultCause
=============================================================================
