----------------------------- MODULE RvfiMonitor -----------------------------
(***************************************************************************)
(* The whole monitor of monitor/generate.py on a core that obeys RVFI: the *)
(* instruction checks on the channels, the reorder buffer behind them, the *)
(* pc and register checks behind that, and the errcode output that joins   *)
(* the error registers of all of them.                                     *)
(*                                                                         *)
(* The core runs a fixed program, one instruction per order, and retires   *)
(* it as RvfiRobCore lets it.  One action is one clock edge of all parts;  *)
(* each part reads the registers of the part before it as they were.       *)
(***************************************************************************)
EXTENDS RvfiRobCore

CONSTANTS
  Programs,  \* the programs, each a function from orders to Data
  Pcs,       \* program counter values
  Regs,      \* register numbers
  Values,    \* register values
  NoInsn,    \* what a reordered channel carries when its valid bit is low
  Unknown    \* the value of a register nothing has been learnt about

\* What a packet carries; insn_error is what the instruction check finds.
ASSUME MonitorAssumption ==
  /\ Programs \subseteq [Orders -> Data]
  /\ \A d \in Data :
       /\ d.pc \in Pcs /\ d.npc \in Pcs /\ d.intr \in BOOLEAN /\ d.trap \in BOOLEAN
       /\ d.addr \in [{"rs1", "rs2"} -> Regs] /\ d.rdata \in [{"rs1", "rs2"} -> Values]
       /\ d.rd \in Regs /\ d.wdata \in Values
       /\ d.insn_error \in 0 .. 27
  /\ 0 \in Regs /\ 0 \in Values
  /\ NoInsn \notin [pc : Pcs, npc : Pcs, intr : BOOLEAN, trap : BOOLEAN]
  /\ NoInsn \notin [addr : [{"rs1", "rs2"} -> Regs], rdata : [{"rs1", "rs2"} -> Values],
                    rd : Regs, wdata : Values]

VARIABLES
  program,                                             \* constant
  ch_errcode,                                          \* of the instruction checks
  shadow_pc_valid, shadow_pc_trap, shadow_pc, errcode_p, prev,         \* pc check
  shadow_xregs_valid, shadow_xregs, errcode_r, written, stale,   \* register check
  monitor_errcode,                                     \* the errcode output
  reported                                             \* history: its values so far

pcVars == <<shadow_pc_valid, shadow_pc_trap, shadow_pc, errcode_p, prev>>
regVars == <<shadow_xregs_valid, shadow_xregs, errcode_r, written, stale>>
monitorVars == <<vars, program, ch_errcode, pcVars, regVars, monitor_errcode, reported>>

-----------------------------------------------------------------------------
\* The fields that the reordered channels hand to the two checks.
PcPort(p) == [pc |-> p.data.pc, npc |-> p.data.npc,
              intr |-> p.data.intr, trap |-> p.data.trap]
RegPort(p) == [addr |-> p.data.addr, rdata |-> p.data.rdata,
               rd |-> p.data.rd, wdata |-> p.data.wdata]
Ro(c, port) == IF out[c] = NoPacket THEN NoInsn ELSE port

PcCheck ==
  INSTANCE RvfiShadowPc WITH ro <- [c \in Channels |-> Ro(c, PcPort(out[c]))]
RegCheck == INSTANCE RvfiShadowRegs

\* Error codes name their channel in the hundreds.
Named(codes) ==
  [c \in Channels |-> IF codes[c] = 0 THEN 0 ELSE 100 * (c + 1) + codes[c]]

InsnErrors(in) ==
  Named([c \in Channels |-> IF in[c] = NoPacket THEN 0 ELSE in[c].data.insn_error])

\* Mutated: no test for zero.
LastRegister(registers) == registers[Len(registers)]

\* Of the error registers that are not zero the last one of the text wins.
JoinErrors(registers) ==
  LET raised == {i \in DOMAIN registers : registers[i] /= 0}
  IN  IF raised = {} THEN 0 ELSE registers[Last(raised)]

ByChannel(codes) == [i \in 1 .. NRet |-> codes[i - 1]]
ErrorRegisters ==
  ByChannel(ch_errcode) \o <<1000 * errcode>>
    \o ByChannel(Named(errcode_p)) \o ByChannel(Named(errcode_r))

\* A clock edge with reset low, the core driving `in`.
MonitorStep(in) ==
  /\ CoreStep(in)
  /\ ch_errcode' = InsnErrors(in)
  /\ PcCheck!Check
  /\ RegCheck!Check([c \in Channels |-> Ro(c, RegPort(out[c]))])
  /\ monitor_errcode' = JoinErrors(ErrorRegisters)
  /\ reported' = reported \cup ({monitor_errcode'} \ {0})
  /\ UNCHANGED program

\* What the core can drive: instructions of its program.
ProgramInputs ==
  [Channels -> {[order |-> o, data |-> program[o]] : o \in Orders} \cup {NoPacket}]

MonitorInit ==
  /\ Init
  /\ program \in Programs
  /\ ch_errcode = [c \in Channels |-> 0]
  /\ PcCheck!Init /\ RegCheck!Init
  /\ monitor_errcode = 0 /\ reported = {}

MonitorNext == \E in \in ProgramInputs : MonitorStep(in)

\* The clock keeps ticking and the oldest instruction retires in the end.
MonitorRetiresOldest ==
  \E in \in ProgramInputs : Oldest(Retired) \in DrivenOrders(in) /\ MonitorStep(in)
MonitorFairness ==
  WF_monitorVars(MonitorNext) /\ WF_monitorVars(MonitorRetiresOldest)

MonitorSpec == MonitorInit /\ [][MonitorNext]_monitorVars /\ MonitorFairness

-----------------------------------------------------------------------------
\* What can be wrong with an instruction of the program.
WrongPc(o) ==
  /\ o - 1 \in Orders /\ ~program[o].intr
  /\ ~program[o - 1].trap /\ program[o - 1].npc /= program[o].pc
NoHandler(o) == o - 1 \in Orders /\ ~program[o].intr /\ program[o - 1].trap
Source(o, r) ==
  {w \in Orders : w < o /\ program[w].rd = r
                  /\ \A x \in w + 1 .. o - 1 : x \in Orders => program[x].rd /= r}
StaleRead(o) ==
  \E op \in RegCheck!Operands : LET r == program[o].addr[op] IN
    \/ r /= 0 /\ \E w \in Source(o, r) : program[w].wdata /= program[o].rdata[op]
    \/ r = 0 /\ program[o].rdata[op] /= 0
WritesZero(o) == program[o].rd = 0 /\ program[o].wdata /= 0
Faulty(o) ==
  \/ WrongPc(o) \/ NoHandler(o) \/ StaleRead(o) \/ WritesZero(o)
  \/ program[o].insn_error /= 0

\* However the core spreads and reorders the program over channels and clock
\* edges, the monitor stays silent until an instruction has retired that is
\* wrong by the program alone.
MonitorSilent == reported /= {} => \E o \in Retired : Faulty(o)

\* And an instruction that is wrong raises errcode in the end: every packet
\* leaves the buffer, and the error is not lost on the way, though those of
\* other parts in the same clock edge may hide it.  The errors the pc check
\* cannot see (RvfiShadowPc: after a trap, and of an instruction that traps)
\* are left out, and to the register check x0 is a register like the others,
\* which holds what an instruction says that it has written there.
NotLastWritten(o) ==
  \E op \in RegCheck!Operands : LET r == program[o].addr[op] IN
    \/ \E w \in Source(o, r) : program[w].wdata /= program[o].rdata[op]
    \/ r = 0 /\ Source(o, r) = {} /\ program[o].rdata[op] /= 0
Reportable(o) ==
  \/ program[o].insn_error /= 0
  \/ NotLastWritten(o)
  \/ WrongPc(o) /\ ~program[o].trap
FaultReported == (\E o \in Retired : Reportable(o)) ~> reported /= {}

=============================================================================
