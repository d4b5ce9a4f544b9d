---------------------------- MODULE RvfiTestbench ----------------------------
(***************************************************************************)
(* checks/rvfi_testbench.sv: the saturating cycle counter that holds a     *)
(* checker in reset, and raises its trig and check inputs for one cycle.   *)
(* The modules of the checkers extend this one; each of their steps is a   *)
(* clock edge and counts the cycle.                                        *)
(***************************************************************************)
EXTENDS Integers

CONSTANTS
  NRet,         \* RISCV_FORMAL_NRET, the number of RVFI channels
  ChannelIdx,   \* RISCV_FORMAL_CHANNEL_IDX, the channel under check
  ResetCycles,  \* RISCV_FORMAL_RESET_CYCLES
  TrigCycle,    \* RISCV_FORMAL_TRIG_CYCLE, for the checkers that have a trig
  CheckCycle,   \* RISCV_FORMAL_CHECK_CYCLE
  CycleMax      \* where the counter saturates: 255 in the code

Channels == 0 .. NRet - 1

\* Of the constants; MCRvfiFormalChecks assumes it of its jobs.
TestbenchAssumption ==
  /\ NRet \in Nat \ {0}
  /\ ChannelIdx \in Channels
  /\ ResetCycles \in Nat
  /\ TrigCycle \in ResetCycles .. CheckCycle
  /\ CheckCycle \in ResetCycles .. CycleMax - 1
  /\ CycleMax \in Nat

VARIABLE cycle

reset == cycle < ResetCycles
trig == cycle = TrigCycle
check == cycle = CheckCycle

\* The test bench is reset in the initial state only.
TbInit == cycle = 0

Tick == cycle' = IF cycle = CycleMax THEN CycleMax ELSE cycle + 1

=============================================================================
