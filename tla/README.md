# TLA+ models of riscv-formal

riscv-formal checks RISC-V processors. A core brings out the RISC-V Formal
Interface (RVFI): on each of `NRET` channels, a valid bit and, with it, one
retired instruction (its order in the program, pcs, registers read and written,
memory accesses, trap/intr/halt bits). Two families of checkers look at this
interface:

- **formal checks** (`checks/*.sv`): one small always-block per property. A
  test bench holds it in reset for some cycles and raises `check` in one later
  cycle; a bounded model checker tries every core behaviour up to there.
  `checks/genchecks.py` generates one job per check and channel.
- **the monitor** (`monitor/generate.py`): a Verilog module that runs beside the
  core in simulation or on an FPGA and raises `errcode`.

What makes them hard is order. Instructions may retire several per clock edge,
and out of program order; a checker sees an arbitrary core from an arbitrary
point on, must find every fault of its kind and must not blame a correct core.
The models here are about that.

## Inventory

| Part | State | Operations | What makes it correct |
|---|---|---|---|
| Monitor: reorder buffer (`<prefix>_rob`, `monitor/generate.py` 513-580) | memory array, valid bits, 64-bit cursor, output registers, errcode | clock edge: file the packets of the input channels by the low bits of their order, drain up to `NRET` consecutive ones; reset | the output is the program in order, or an error; nothing is lost silently; no error for a core that stays in its window; packets leave |
| Monitor: pc check (343-420) | shadow pc, its valid and trap bits, error registers | clock edge, reset | every wrong pc is reported, nothing else |
| Monitor: register check (422-499) | 32 shadow registers with valid bits, error registers | clock edge, reset | exactly the stale reads are reported, however the program is spread over channels |
| Monitor: instruction check and errcode (195-285, 501-510) | one error register per channel, errcode | clock edge | it judges an instruction as the formal check does; an error of any part reaches errcode |
| Test bench (`rvfi_testbench.sv`) | 8-bit saturating cycle counter | clock edge | reset, trig and check at their cycles |
| `reg` check | shadow value of one register, written bit | clock edge, reset | an instruction reads what older ones wrote |
| `pc_fwd`, `pc_bwd` checks | expected pc, valid bit | clock edge, reset | consecutive instructions fit, in either order of retirement |
| `causal` check | found_non_causal | clock edge, reset | no younger reader before a write |
| `causal_mem`, `causal_io` checks | the same for memory and i/o | clock edge, reset | the same |
| `unique`, `liveness`, `hang` checks | one bit each | clock edge, reset | no order twice, no order missing |
| `insn`, `ill`, `fault` checks | none | judge the instruction of the check cycle | the instruction does what the ISA says |
| CSR checks (`csrw`, `csrc_*`, `csr_ill`) | shadow value, written bit | clock edge, reset | a CSR reads as its kind promises |
| `imem`, `dmem` checks | shadow word, written bytes | clock edge, reset | memory reads see memory writes |
| Bus checks (`bus_*`) | shadow words, pending accesses | clock edge, reset | the bus traffic and the retired instructions agree |
| Bus observers (`bus/`) | FIFO stages, AXI request queues | handshakes | each bus transaction is reported once, in order |
| `genchecks.py` | configuration sections, sets of checks | read the configuration, look up depths, filters and assumptions, write jobs | a job for every check that is asked for, each about its own check |
| Instruction models (`insns/`) | none | combinational | no word has two models; each computes what the ISA manual says |
| NERV AXI cache (`cores/nerv/axi_cache`) | direct-mapped write-back cache, request registers | hit, miss, write-back, fence, fault | reads see writes; every stall ends |

The core drives the channels; nothing flows back to it. In the monitor the
input channels feed the instruction check and the reorder buffer; the output of
the buffer feeds the pc and register checks; all error registers feed `errcode`.
Formal checks run one at a time, but what they are worth shows when they are
taken together: a core that passes *all* of them is to be right.

Vendored or generated, and out of scope: the cores (VeeR EL2, CV32E40P,
PicoRV32, SERV, VexRiscv, Rocket, Risc-X) with their scripts and wrappers,
`insns/*.v`, `checks/rvfi_macros*.vh`, `checks/original_checks` (older copies of
`checks`), `jgproject`.

## Modules

| Module | Models | How it corresponds |
|---|---|---|
| `RvfiRob` | the reorder buffer | `Step` is one clock edge with reset low: `Drains(k)` is the loop with `continue_flag` (the number `k` of packets that leave is determined by it), `NextBuffer`, `NextValid`, `NextErrcode` are the non-blocking assignments with the last one winning. `Reset` is an edge with reset high. Inputs are arbitrary. The memory array powers up with any contents. |
| `RvfiRobCore` | the buffer behind a core that obeys RVFI | `Obeys` restricts the inputs: no order twice, at most `Window - 1` orders ahead of the oldest instruction that has not retired |
| `InOrderStream` | abstract specification | what the buffer promises: packets go in in any order and come out as 0, 1, 2, ..., as soon as they can |
| `RvfiMonitor` | the whole monitor | extends `RvfiRobCore` and instantiates the pc and register checks on the outputs of the buffer; `MonitorStep` is one clock edge of all parts, each reading the old registers of the part before it; `JoinErrors` is the `errcode` block |
| `RvfiShadowPc` | the pc check of the monitor | `Check` is an edge with reset low; `ShadowValid`, `ShadowTrap`, `ShadowRdata` are the `always @*` views of each channel |
| `RvfiShadowRegs` | the register check of the monitor | the same shape; `Sees` and `Known` are the views, `Executed` (history) runs the channels one after the other |
| `RvfiInsnCheck` | everything that looks at one instruction: `rvfi_insn_check.sv`, `rvfi_ill_check.sv`, `rvfi_fault_check.sv`, the instruction check of the monitor | the `...Accepted` operators are the assertions of a check, `Errors` the calls of `handle_error`, `Place` their order in the text |
| `RvfiTestbench` | `rvfi_testbench.sv` | `cycle`, `reset`, `trig`, `check` |
| `RvfiRegCheck` | `rvfi_reg_check.sv` with the test bench | `Edge` with `check` false or true; the `assume` statements are guards, a failing `assert` sets `failed` |
| `RvfiPcChecks` | `rvfi_pc_fwd_check.sv`, `rvfi_pc_bwd_check.sv` | both checks of one pair of instructions on all channels at once (see below) |
| `RvfiDataflow` | `rvfi_reg_check.sv` and `rvfi_causal_check.sv` composed | the checks of all instructions of a program, for one register |
| `RvfiOrderChecks` | `rvfi_unique_check.sv`, `rvfi_liveness_check.sv`, `rvfi_hang_check.sv` | one job each, with the test bench; `kind` names the checker |
| `RvfiIoOrder` | `rvfi_bus_dmem_io_order_check.sv` and `rvfi_causal_io_check.sv` composed | the i/o instructions of a program retire on the channels while their accesses appear on the buses |
| `RvfiCsrChecks` | `rvfi_csrc_{inc,upcnt,any,const,zero}_check.sv` | `Remember` before the check cycle, `Judge` in it |
| `RvfiFormats`, `RvfiInsns`, `RvfiIsa` | `insns/generate.py` | one operator per generator (`insn_b` is `InsnB`) and one table per group of calls; `IsaOf` is the inheritance of ISAs; `Drive` puts an instruction on the inputs of `rvfi_isa_<isa>` |
| `RvfiXpulp`, `RvfiXpulpIsa` | `insns/generate_xpulp.py`, the `cv.*` instructions | the same, with an X before names that `RvfiIsa` has, too; `Gate` is the zeroing of undeclared operands in `rvfi_insn_check.sv`, through which a core meets the models |
| `GenChecks` | `checks/genchecks.py`, `checks/genchecks_jg.py` | a step is one call of `check_insn` or `check_cons`; `hargs` and `csrs` are the globals of these names |
| `RvfiMonitorProof`, `RvfiMonitorChecksProof`, `RvfiFormalChecksProof`, `RvfiIsaProof`, `RvfiXpulpIsaProof`, `RvfiInsnsProof`, `GenChecksProof`, `RvfiOrderTheorems` | | proofs, and the lemmas they share |
| `MC*.tla`, `*.cfg` | | instances for TLC |

*Abstraction.* In the checkers, words, pcs and register values are members of
small sets; only their equality (for CSRs: order) matters there. Orders are
natural numbers (64 bits wide in the code; no run comes near the limit). Error
codes of the pc and register checks keep their kind; `RvfiMonitor` adds the
channel. `$display` and `assert(0)` of the monitor follow the error registers and
are left out.

In the instruction models data is the point: words are cut into their fields bit
by bit, registers have `XLEN` bits with modular arithmetic, and memory lanes are
explicit. TLC's integers have 32 bits, so a *byte* has `BYTE` bits, 4 with four
lanes (rv32) and 2 with eight (rv64): registers of 16 bits that keep the number
of lanes of the real ones. All widths in the code are multiples of `XLEN` or of
a byte, or belong to the instruction word, which is not scaled. `SignedAt` is
`$signed`; Verilog's rule that one unsigned operand makes an expression unsigned
is applied where the code runs into it (see below).

In `GenChecks` a check name is a record of its parts and a regular expression
the set of parts that it accepts. The numbers of a `[depth]` line are a sequence
of any length; each check takes its own from its places in it (`Positions`).
`crashed` is a traceback: of the assertion that an instruction check has one
number (line 354), of a place that the list does not have (612-620), of a cover
check without a `[cover]` section, or of a directory or file of the JasperGold
variant. Tracebacks over a line that cannot be read at all (a number that is
none, an expression that does not compile, a filter without its sign) are left
out.

*Checks side by side.* The solver picks `insn_order` freely, `genchecks.py`
generates a check for every channel, and the check cycle is a parameter. In
`RvfiPcChecks`, `RvfiDataflow` and `RvfiIoOrder` each check therefore judges its
instruction in the cycle in which it retires, looking only at the channels below
its own in that cycle and at all channels before: what all checks of this kind
with all depths establish together. `RvfiRegCheck`, `RvfiOrderChecks` and
`RvfiCsrChecks` have the cycle counter and one check cycle instead, as one job
has.

*History.* Variables marked as history record what an observer of the ports has
seen. No other variable depends on them.

## Runs

| Run | Bounds | Shows |
|---|---|---|
| `monitor` | window 2, 2 channels, depth 8, orders 0..8, 37 programs of 9 instructions | `TypeOK` of the reorder buffer. `NeverFlagged`: the depth `2 * (Window + NRet - 1)`, the smallest for this core, is 6; 8 is the next power of two. `RefinesStream`: the buffer implements `InOrderStream`. `MonitorSilent`: no error while only right instructions have retired. `FaultReported`: a wrong one raises `errcode` in the end. The programs are the right one, and those with one or two neighbouring instructions wrong in pc, operand, x0 (as a source or as the destination) or the instruction itself, with traps and handlers among them; 9 orders wrap the ring once. |
| `monitor_checks` | Reorder buffer: depth 2, 2 channels, orders 0..2, 2 payloads, cursor up to 3, resets, any power-up contents. Pc check: 2 channels, 2 pcs. Register check: 3 channels, 2 registers, 2 values. Instruction check: 1 channel, 2 lanes, 2 byte values, 2 addresses | The parts of the monitor, each alone under arbitrary inputs (`part`): `InOrderDelivery`, `NoSilentLoss`, `LateIsCaught`: order 2 shares a slot with order 0, so overruns, wrap-around, repeated and backward orders and two channels in one slot all occur, and `RobNext` stops at cursor 3, after one wrap; `MismatchReported`, `NoFalseAlarm`; `RegVerdictExact` (three channels are needed for two lower ones to write a register the third reads); `AcceptedIsRight`, `MonitorCatches`, `MonitorJustified`, `FaultCause` relate what the formal check accepts, what the monitor reports and what the instruction did. |
| `lost_trap`, `every_mismatch` (violated) | 1 and 2 channels | findings 1, 2 |
| `formal_checks` | 2 channels; registers: all programs of 3 instructions; one job: reset, trigger in cycle 2, check in cycle 4; pcs: orders 0..2, 2 pcs; i/o: 3 instructions, 2 buses, 4 accesses; CSRs: 3 values | The formal checkers, one run for each group: `StaleReadCaught` and `RegAlarmJustified` (register and causal checks together), `RegVerdictExact`, `UniqueExact`, `ProgressExact`, `FwdSound`, `BwdSound`, `PairCovered`, `IoReachesBusInOrder` and `OrderedIoAccepted` (i/o causality and bus order together), `CsrVerdictExact`. Three instructions are two writes and a read, in every order and on one or two edges; cycles 2 to 4 give room before, in, between and after trigger and check. |
| `bwd_intr`, `csr_inc` (violated) | 2 channels; 1 channel | findings 3, 4 |
| `insns` | rv32imc and rv64imc: about 2000 words, 15 sets of operands, four configurations and the misa values that differ. rv32imcx: all encodings of the four custom opcodes | One ISA in each behaviour (`isa`). `UniqueDecode`, `SpecLegal`, `Arithmetic`, `Immediates` of rv32imc; `BothWidths` asks the first two of rv64imc and `AlignedAgree` of both (the immediates do not depend on the width). The words run through every opcode, `funct3` and the `funct7` that decide, with zero and other registers; operands are the corners of sign and width. Of rv32imcx `XUniqueDecode`, `OperandsDeclared`, `HardwareLoop`, `PostIncrementWalks`, `BitsExact`, `OneOrder`, `Products`: properties that relate several generators, or a generator to the manual's definition bit by bit. |
| `gen_checks` | 2 channels, up to 2 groups, or 3 with one of them twice, one instruction, two CSRs with tests, one illegal CSR in one or two lines, all pairs of 14 `[depth]` lines, filters, assumptions, with and without `[cover]` | `OwnArguments`: no job contains what an earlier call left behind, and each number of a line is where it belongs. `AllAskedFor`: exactly the checks the file asks for, and what makes the scripts fail instead. Two lines are what one needs for an order; the patterns name a kind, a kind on one channel, one check, or many, with the right number of numbers, too few or too many. |
| `gen_assume`, `gen_depth`, `gen_illegal` (violated) | the same | findings 5 to 7 |

`CHECK_DEADLOCK FALSE` where a run ends by construction: no order is left, the
check cycle has passed, the cursor has reached its bound, or the script has ended.

*Fairness.* Only `monitor` has a liveness property, `FaultReported`. Its
specification (`MonitorFairness`) says that the clock keeps ticking and that the
oldest instruction of the core retires in the end. The first is what a clock
does; the second is a property of a core that does not hang, which the `hang` and
`liveness` checks are for, not the monitor.

## Findings

1. `monitor/generate.py:411`: error 33, "expected intr after trap", needs
   `shadow_pc_valid` and `shadow_pc_trap`, which are set to opposite values. It
   is never reported (`lost_trap`).
2. `monitor/generate.py:388`: the view of channel `chidx` takes the trap bit of
   `chidx`, not of the lower channel it follows; a wrong pc goes unreported if
   the instruction traps (`every_mismatch`).
3. `checks/rvfi_pc_bwd_check.sv:47`: `rvfi_intr` is read from the channel under
   check instead of the channel of the younger instruction (`bwd_intr`).
4. `checks/rvfi_csrc_inc_check.sv:79`: `csr_written` is cleared in every cycle, so
   a write excuses a decrease only if it retires in the cycle before the check
   (`csr_inc`).
5. `checks/genchecks.py:783`: an `[assume]` statement with a plain pattern goes to
   the checks that do *not* match it; the manual says the opposite (`gen_assume`).
6. `checks/genchecks.py:301`: of several `[depth]` lines that match a check the last
   one counts; `docs/procedure.md:57-59` says the more specific one, so `insn_ch1 20`
   before `insn 10` should give 20 on channel 1 and gives 10 (`gen_depth`).
   `SpecificDepth` asks only for what the manual says with an example: a name
   with a channel is more specific than one without. The other part of the
   property, `DocumentedNumbers`, fails for `fault 10 20`: the check takes the
   first number as the depth and always resets for one cycle (line 799), while
   `docs/procedure.md:225` says that the first is the cycles of the reset and the
   second the depth. `Taken` is what the code takes and `Expects` what the manual
   says; they differ in this check alone.
7. `checks/genchecks.py:343`: the name of a `csr_ill` check has the address of its
   `[illegal_csrs]` line, not the modes, so of two lines for one address, or of one
   line and an address that the generator adds by itself (195-201), only one is
   tested, and `genchecks_jg.py` ends with a traceback. `docs/procedure.md:442-443`
   promises every line (`gen_illegal`). `IllegalLinesTested` proves that this is
   the only way to lose one.

The models show more of the code that no run is about; a run would only repeat it:

- `insns/generate.py:1181`, `1188`: in `div` and `rem` the other arms of the `?:`
  are unsigned, which makes the quotient of two `$signed` operands unsigned, too.
  `Quotient` and `Remainder` compute it that way, and `Arithmetic` asks only for
  what holds of both readings.
- `checks/genchecks.py:354`, `612`: a `[depth]` line such as `.* 20`, which names
  checks of both loops, ends both scripts with a traceback, since `check_insn`
  insists on one number and most calls of `check_cons` take two; so does a line
  with wrong numbers for a check that `[filter-checks]` disables. `Cause` of
  `AllAskedFor` names the case. `check == "cover"` (631) does not see the group,
  so the cover check of a group runs as `bmc`, which does not look at its cover
  statements. Two tests of one kind for one CSR write one
  file, one over the other; a CSR without tests asks for a checker
  `rvfi_csrc_check.sv` that does not exist.
- `checks/rvfi_reg_check.sv:58`: of several older writes the one that retired last
  counts, so a core that retires two writes to a register out of order fails;
  `RegVerdictExact` and `RegAlarmJustified` except this case by history variables.
  `checks/rvfi_causal_check.sv:43` counts every younger reader as dependent, also
  when a write between the two gave it its value.
- `checks/rvfi_csrc_inc_check.sv`: of a decrease after a write the check sees only
  what falls below both the old value and the one written (`CsrVerdictExact` says which).
- The monitor compares `rd`, `pc_wdata` and memory of trapping instructions, and
  judges instructions that fault; the formal check looks at neither.
- `insns/generate_xpulp.py:3698-3724`: the joined module does not connect the
  hardware-loop and post-increment ports of the models; with `ALTOPS`, products
  that do not accumulate add `rs3_rdata`, which the check has zeroed.

## Proofs

All for every value of the constants, so for every depth, number of channels,
program and set of values, from the assumptions the modules state.

- `RvfiMonitorProof`, first the buffer alone: `TypeCorrect`, `InOrder`, `NothingLost`,
  `LateCaught`, for arbitrary inputs (`RobAssumption` only). The invariant adds to the
  properties what the ring itself looks like: an entry that is marked valid was
  presented since the reset (so a stale entry of the array is never read), and the
  output is as long as the cursor says.
- `RvfiMonitorProof`, the buffer behind a core: `NoFalseAlarm`, `ImplementsStream`.
  Behind a core that obeys RVFI and has a window of `Window` orders, a buffer of `2 *
  (Window + NRet - 1)` slots or more never reports an error and implements
  `InOrderStream` (the depth need not be a power of two for that). The invariant counts:
  the buffer holds at most `Window + NRet - 1` packets, for at an edge at which it does
  not hand on `NRet` of them it has caught up with the oldest missing order
  (`StopsAtMissing`), and only a window of orders is ahead of that one (`SizeInWindow`).
  So all orders in the buffer and those that arrive are less than `Depth` apart
  (`WithinBuffer`), and have slots of their own (`SameSlot`).
- `RvfiMonitorProof`, the whole monitor: `MonitorCorrect`, `MonitorObeys`, `Silent`. The
  whole monitor stays silent until an instruction that is wrong has retired.
  `MonitorInv` says that the output channels carry the `k` instructions before the
  cursor (`Carries`) and that the pc and shadow registers are what instruction `cursor -
  k` of the program finds (`PcAt`, `RegsAt`), so that whatever a check reports is wrong
  by the program alone (`PcErrorIsFault` and its like). `MonitorObeys` is the refinement
  that lets the monitor use the theorems about the buffer.
- `RvfiMonitorChecksProof`, the checks of the monitor one by one.
  *Pc check*: `TypeCorrect`, `Reported`, `NoFalseAlarms`. The invariant `ShadowInv`
  relates the three registers to the last instruction: without an instruction
  since the reset the comparison is off; otherwise the registers are its outcome.
  *Register check*: `RegVerdict`. `RegInv`: a shadow register is valid when the
  program has written the register since the reset, and holds what it wrote
  last. The history executes the channels one after the other by a recursive
  function; its values are taken from `LoopValues`, and what a channel sees of a
  register is compared with them channel by channel (`SeesProgram`).
  *Instruction check*: `Accepted`, `Catches`, `Justified`, `Cause`. The invariant is
  simple (`errcode` judges the instruction of the cycle before); the work is that two
  comparisons, written lane by lane in different forms, agree.
- `RvfiFormalChecksProof`, the formal checks that judge in one check cycle.
  `Unique`, `Progress`: what has been seen was seen between the reset and now, and
  no verdict comes before the check cycle (`BenchInv`); `UniqueInv` tells the
  triggering instruction from every other retirement of its order. `CsrVerdict`:
  the checks that remember reads hold the latest access (`ReadKnown`), the others
  the latest write (`WriteKnown`). `RegVerdict`: before the check cycle the shadow
  holds what the youngest older write left, unless two writes were out of order
  (`RegInv`); at the check cycle the loop over the lower channels is a `Loop`, whose
  last writer decides.
- `RvfiFormalChecksProof`, the formal checks of pairs. `NoFwdAlarm`, `NoBwdAlarm`,
  `Covered`: while nothing repeats, the registers of each check are what the one
  instruction that has retired said (`OlderKnown`, `YoungerKnown`); one lemma for
  each way in which the two can retire at an edge. `IoInOrder`, `IoAccepted`: the
  order checks know every pair of neighbours on the bus (`BusKnown`), the causal
  checks of which instructions a younger one has retired (`YoungerIoKnown`), and until
  one of them fails `prev` is the youngest that has (`PrevKnown`); so the
  instruction that retires next is the neighbour that the order check asks for.
- `RvfiFormalChecksProof`, the register and causal checks of a program: `Complete`,
  `Justified`. `StaleReadCaught` is not inductive: it says nothing of instructions that
  have not retired. `Inv` does: the register check of an open instruction holds the
  value of an older write that only writes it overtook retired after (`Knows`), the
  causal check of an open write is set once a younger reader has retired, and a pair
  that retired in the wrong order is in `overtaken`. A stale read then fails its own
  check if its source retired first (`ShadowIsSource`), and the check of the source if
  not (`EarlyReaderFails`).
- `RvfiIsaProof`, the instruction models of `insns/generate.py`, for every word, every
  operands, both register widths, any width of a byte, any set of macros and misa.
  `UniqueDecodeAlways`: `Decoded(w)` reads from the word the instruction it may be,
  field by field as the manual does; it has at most one member (`DecodedOnce`), and a
  model that reports `spec_valid` is that one (`Decoding`, one case for each
  generator), though its guard is spread over the generator and its row.
  `ImmediatesAlways`: one lemma for each format. The immediate is the weighted sum of
  the fields that the wires concatenate, less the weight of the sign; dividing it by
  the weight of each bit range of the manual gives the field back.
  `SpecLegalAlways`: `Legal` has a part for the register, one for the pc and one for
  memory. The pc keeps its alignment because a register is a multiple of four bits
  wide (`WrapAlign`), a compressed instruction because only an ISA with `COMPRESSED` has
  it (`CInsnsHaveC`), a jump because it traps otherwise; a mask that does not trap
  has as many lanes as the access has bytes, all within the register (`MaskLanes`).
  `ArithmeticAlways`: long multiplication by halves gives the product
  (`LongMultiplication`), a sign takes the other factor off the upper half
  (`ShiftedFactors`, `SignedProducts`), and each corner of a division gives the dividend
  back (`Division`); the bits of the width enter only as `2^XLEN`, the square of an
  integer (`HalfWidth`).
- `RvfiXpulpIsaProof`, the same for `insns/generate_xpulp.py`. `UniqueDecodeAlways`: the
  four custom opcodes and their fields give the generator of a word (`ByRegisters` and
  its like), every model but those of the base ISA is known only to words of its
  generator (`XDecoding`), and within a generator the fields single out a row
  (`LoadsOnce`, `PacksOnce`, `NamedOnce`). The models of the base ISA keep their guards
  (`BaseDecoding`), so `DecodedOnce` does for them.
  `OneOrderAlways`: the signed value of a word or of a lane is a number of its own
  (`SignedRange`), which wrapping to a wider register keeps (`SignedWrap`,
  `WrapSigned`), so the comparisons follow it (`WordOrder`, `LaneOperations`); the bound
  of a clip, read from a register or taken from `ls2` as a power of two, lies in the
  range of both orders (`BoundedWord`, `ClipsOrder`).
  `HardwareLoopAlways`: one case for each generator gives the pc of what does not branch
  (`SequentialPc` for the base ISA, `CvPc` for CORE-V), which the flag of the loop
  replaces (`BasePc`); jumps and taken branches have a pc without it (`JumpPc`,
  `BranchPc`).
  `OperandsDeclaredAlways`: two inputs that differ only in registers (`Alike`) get the
  same source addresses from a model, and the same outputs if they agree on the
  registers it names and on those whose number in the word is zero (`Agree`); one
  case for each generator (`BaseSources`, `CvSources`), and for the base ISA that the
  condition of a branch, on which the pc of a loop depends, agrees too
  (`TakenSources`). So the zero of the gate and that of the property make no
  difference.
  `PostIncrementWalksAlways`: the bit that makes an access indexed is bit 2 of `funct7`
  and leaves every other field alone (`Bit27`), so the access from the incremented base
  and the indexed one have the same address, and with it the same mask, data and trap
  (`LoadWalks`, `StoreWalks`, `WalkFollows`); with an immediate the base moves by it
  because a sum does not depend on where it wraps (`WrapSum`, `ImmediateBase`).
- `RvfiInsnsProof`: the lemmas about the generators that both use: the decoding of the
  base ISA, the arithmetic of the M extension.
- `GenChecksProof`: `OwnArgumentsAlways`, `AllAskedForAlways`,
  `IllegalLinesTested`, for every set of config files that `IsConfig` admits. The
  first half says what the calls of a group are: the sequences that the loops
  build list `InsnSet` and `ConsSet`, no name twice if nothing comes twice in the
  file (`InsnCallsAre`, `ConsCallsAre`), and the lookups find the last `[depth]`
  line and the first `[filter-checks]` line that match (`DepthOf`, `FilterOf`).
  `ArgsInv` keeps `hargs` complete, so that a call that goes on to write its job
  has filled in every entry the job takes (`Filled`), whatever earlier calls left.
  `AskInv` divides the checks that are asked for into those written, those in
  hand and those of a later group or loop (`Later`), does the same with the checks
  whose numbers do not fit, none of which a script survives (`MisfitIs` relates the
  places of the numbers to their count), and says what else may be written: counters
  that `check_cons` has added, which come too late for the first group (`CsrsInv`)
  and are `Extras` of the others. From both follows that a line or test alone in its
  address or kind has its job (`LineTested`, `TestTested`), and with it
  `IllegalLinesTested`: finding 7 needs two lines for one address.
- `RvfiOrderTheorems`: a non-empty bounded set of numbers has a greatest element,
  by well-founded induction; induction over a range, for a property given as a set
  (`RangeInduction`); and that a loop which carries a value through a bounded number of
  iterations has its values (`LoopValues`). With the last two the recursive functions
  over channels can be reasoned about without the library's induction theorems.

The proofs about instances (`Order!`, `Csr!`, `Reg!`, `Pc!`, `Io!` of
`MCRvfiFormalChecks`; `PcCheck!`, `RegCheck!`,
`InsnCheck!` of `MCRvfiMonitorChecks`) use the
assumptions of the instantiated modules, which the two MC modules state as the
ASSUMEs `FormalChecksAssumption` and `MonitorChecksAssumption`. They say that counts
are numbers, that sets of values are not empty and that `NoInsn` and its like are
none of the values; the cycle of the check comes after the reset. `MonitorAssumption`
says the same of the fields of the monitor's programs. `GenChecksAssumption` says
that no line of `isa_<isa>.txt` comes twice, and `IsConfig` what the scripts have
read by the time they begin to generate: sets of CSRs and of illegal CSRs, tests of
a known kind (any other has no checker), only for declared CSRs, an hpm test only
for an event, and no group called `None`. TLC checks that the config files of the
instance are of this kind (`ConfigsAssumption`).

The first attempt at `Silent` failed: with an instruction that says it wrote x0, and
does so without an instruction error, the shadow register of x0 changes, and the
next correct read of x0 is reported. TLC shows it with one more program. Such an
instruction is itself wrong, so `Faulty` names it (`WritesZero`), the instance has
programs of this kind, and `FaultReported` states what is reported after it
(`NotLastWritten`).

The proof of `AllAskedFor` first needed that no group and no illegal address comes
twice. The code asks for neither: `groups` is a list that is split off a line, and
`illegal_csrs` a set of triples. Without the two assumptions, checks are still
written whenever they are asked for, but not once each, and the JasperGold variant
has two more reasons to end with a traceback; this is how the lost line of
`[illegal_csrs]` turned up. When the numbers of `[depth]` became lists, the causes of
a traceback had to name disabled checks, too, and the counters' checks of later
groups, which no line of `[csrs]` names.

The theorems of `RvfiIsaProof` and `RvfiXpulpIsaProof` have the hypothesis `InputsTyped`
(`XInputsTyped`): words and operands fit the ports of the module. TLC checks it of the instances
(`PortsTyped` of `MCRvfiIsa`). `IsaInv` and `XIsaInv` say so of the
inputs (`OnPorts`), and that the outputs looked at are those of the models that know the
word; `XIsaInv` adds that the models got the gated operands (`GatedOutputs`).
So that they can be reasoned about, `RvfiInsns` defines its bitwise operators itself, by
a recursive function over the bits, and `Dot` in `RvfiXpulp` sums a function of the lanes.

The proof of `HardwareLoop` refuted its first form, which told jumps and taken
branches from other instructions by where they go: a jump, or a branch that is taken, to the
next instruction looks like the others but does not go to the start of the loop. TLC shows
it with three more words; the property now names the jumps and excepts such a branch.

Only model-checked: `FaultReported` (liveness, out of the prover's reach);
`AlignedAgree` of the base ISA, which relates shifts of data and masks by symbolic
amounts lane by lane (powers with a symbolic exponent, of which the prover knows only
what `PowerSum` says); of the `cv.*` instructions `BitsExact` and `Products`, which
speak of the bits of a register one by one and of sums over lanes.

## Not modelled, and the plan

In this order:

1. The bus observers (`bus/`): the FIFO stages refine a FIFO, the AXI observer
   reports each transaction once.
2. The memory and bus checks that compare the words of one address
   (`rvfi_dmem_check.sv` and its relatives). They store and compare the data of
   channel 0 for every channel; the configurations of the repository have one.
3. `csrw` and `csr_ill`, the bit-wise checks of one CSR instruction, and the
   custom-ISA operands (`rs3`, `post_rd`) of the register check.
4. The data cache of the NERV example and its bus: reads see writes, every stall ends.

Left out of modelled parts: the unbounded mode of the test bench, in which `trig`
and `check` are free inputs; buffer depth 0 (wiring) and depths that are no power
of two (not supported by the code); the PMA map and the read mask of misa in the
instruction checks; `RISCV_FORMAL_CSRC_MASK`; several accesses of one i/o
instruction. Of the instruction models: the `p.*` instructions of
`generate_xpulp.py` (1288-1984, 3240-3400; an older encoding of the `cv.*` ones),
`insn_amo`, which nothing calls, and rv64 with the extension. Of the generators:
options, verbatim sections, what a `csr_spec` adds, the makefile, and the
tracebacks over lines that cannot be read.

Not planned: macro generators and helper scripts (formatting), cores and their
wrappers, tests (they compare the models with Spike and riscv-tests, for rv32ic
and rv32i only).
