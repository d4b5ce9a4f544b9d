-------------------------- MODULE MCRvfiFormalChecks --------------------------
(***************************************************************************)
(* Model-checking instance of the formal checks.  genchecks.py generates   *)
(* one job per check, which it names in `RISCV_FORMAL_CHECKER; here a run  *)
(* is the job of one checker, or of the group of checkers that one module  *)
(* models.  The jobs share the test bench and its constants.               *)
(***************************************************************************)
EXTENDS RvfiDataflow

CONSTANTS
  ChannelIdx, ResetCycles, TrigCycle, CheckCycle, CycleMax,  \* of the test bench
  Regs, Operands,        \* of the register check
  Pcs,                   \* of the pc checks
  NBus, MaxBus,          \* of the i/o checks
  CsrValues, TopBit      \* of the CSR checks

VARIABLES
  checker,               \* RISCV_FORMAL_CHECKER, constant
  cycle, insn_order,
  register_index, reg_shadow, reg_written, value_failed, newest, disordered, stale,
  kind, found, retire_failed, seen,
  older, fwd_pc, fwd_valid, bwd_pc, bwd_valid, fwd_failed, bwd_failed,
  said, began, again, borrowed,
  io, io_retired, io_found, prev, bus_current, bus_seq_seen, io_failed, order_failed,
  bus, io_overtaken, late,
  csr_kind, rdata_shadow, wdata_shadow, rsval_shadow, csr_written,
  csr_read_shadowed, csr_mode_rw, csr_failed, latest, wrote, gap, judged

Reg == INSTANCE RvfiRegCheck
         WITH register_shadow <- reg_shadow, register_written <- reg_written,
              failed <- value_failed
Order == INSTANCE RvfiOrderChecks WITH failed <- retire_failed
Pc == INSTANCE RvfiPcChecks
Io == INSTANCE RvfiIoOrder
        WITH retired <- io_retired, found_non_causal <- io_found,
             causal_failed <- io_failed, overtaken <- io_overtaken
Csr == INSTANCE RvfiCsrChecks WITH kind <- csr_kind

ASSUME FormalChecksAssumption ==
  /\ Reg!TestbenchAssumption /\ Reg!RegCheckAssumption
  /\ Pc!PcChecksAssumption /\ Io!IoOrderAssumption

\* What belongs to which job.
dataVars == <<program, retired, register_shadow, register_written,
              found_non_causal, reg_failed, causal_failed, overtaken>>
benchVars == <<cycle, insn_order>>
regVars == <<register_index, reg_shadow, reg_written, value_failed,
             newest, disordered, stale>>
orderVars == <<kind, found, retire_failed, seen>>
pcVars == <<older, fwd_pc, fwd_valid, bwd_pc, bwd_valid, fwd_failed, bwd_failed,
            said, began, again, borrowed>>
ioVars == <<io, io_retired, io_found, prev, bus_current, bus_seq_seen, io_failed,
            order_failed, bus, io_overtaken, late>>
csrVars == <<csr_kind, rdata_shadow, wdata_shadow, rsval_shadow, csr_written,
             csr_read_shadowed, csr_mode_rw, csr_failed, latest, wrote, gap, judged>>

\* The jobs that do not run start in one state each.
Some(S) == CHOOSE x \in S : TRUE
MCInit ==
  /\ checker \in {"dataflow", "reg", "order", "pc", "io", "csr"}
  /\ IF checker = "dataflow" THEN program \in Programs ELSE program = Some(Programs)
  /\ Init
  /\ Reg!Init
  /\ checker \in {"reg", "order"} \/ insn_order = Some(Orders)
  /\ checker = "reg" \/ register_index = Some(Regs)
  /\ Order!Init
  /\ checker = "order" \/ kind = "unique"
  /\ Pc!Init
  /\ checker = "pc" \/ <<older, fwd_pc, bwd_pc>> = <<Some(Orders), Some(Pcs), Some(Pcs)>>
  /\ Io!Init
  /\ checker = "io" \/ io = {}
  /\ Csr!Init
  /\ checker = "csr" \/ csr_kind = "any"

MCNext ==
  /\ UNCHANGED checker
  /\ \/ /\ checker = "dataflow" /\ Next
        /\ UNCHANGED <<benchVars, regVars, orderVars, pcVars, ioVars, csrVars>>
     \/ /\ checker = "reg" /\ Reg!Next
        /\ UNCHANGED <<dataVars, orderVars, pcVars, ioVars, csrVars>>
     \/ /\ checker = "order" /\ Order!Next
        /\ UNCHANGED <<dataVars, regVars, pcVars, ioVars, csrVars>>
     \/ /\ checker = "pc" /\ Pc!Next
        /\ UNCHANGED <<dataVars, benchVars, regVars, orderVars, ioVars, csrVars>>
     \/ /\ checker = "io" /\ Io!Next
        /\ UNCHANGED <<dataVars, benchVars, regVars, orderVars, pcVars, csrVars>>
     \/ /\ checker = "csr" /\ Csr!Next
        /\ UNCHANGED <<dataVars, insn_order, regVars, orderVars, pcVars, ioVars>>

MCSpec ==
  MCInit /\ [][MCNext]_<<checker, dataVars, benchVars, regVars, orderVars, pcVars,
                         ioVars, csrVars>>

\* Stated and explained in the modules of the checks.
RegVerdictExact == Reg!VerdictExact
UniqueExact == Order!UniqueExact
ProgressExact == Order!ProgressExact
FwdSound == Pc!FwdSound
BwdSound == Pc!BwdSound
PairCovered == Pc!PairCovered
IoReachesBusInOrder == Io!IoReachesBusInOrder
OrderedIoAccepted == Io!OrderedIoAccepted
CsrVerdictExact == Csr!CsrVerdictExact
=============================================================================
