---------------------------- MODULE RvfiInsnCheck ----------------------------
(***************************************************************************)
(* Who looks at a single retired instruction: the formal checks            *)
(* rvfi_insn_check.sv, rvfi_ill_check.sv and rvfi_fault_check.sv, and the  *)
(* instruction check of the monitor, all against the same instruction      *)
(* model.                                                                  *)
(*                                                                         *)
(* A channel carries what the core says (rvfi) and what the model says     *)
(* (spec, or NoInsn for a word that it does not know).  The formal checks  *)
(* judge at once, the monitor one clock edge later in errcode.             *)
(* `RISCV_FORMAL_MEM_FAULT and `RISCV_FORMAL_CSR_MCAUSE are defined.       *)
(***************************************************************************)
EXTENDS Integers

CONSTANTS
  Operands,  \* the source operands: "rs1", "rs2"
  Regs,      \* register numbers, 0 among them
  Values,    \* register and pc values, 0 among them
  Lanes,     \* the byte lanes of a word, at most 0 to 7
  Bytes,     \* byte values
  Addrs,     \* memory addresses, up to `rvformal_addr_eq
  Causes,    \* mcause values
  NoInsn     \* nothing on the channel; a word without a model

Spec0 == [trap : BOOLEAN, rs_addr : [Operands -> Regs],
          rd_addr : Regs, rd_wdata : Values, pc_wdata : Values,
          mem_addr : Addrs, mem_rmask : SUBSET Lanes, mem_wmask : SUBSET Lanes,
          mem_wdata : [Lanes -> Bytes]]
Rvfi == [trap : BOOLEAN, zero : BOOLEAN,
         rs_addr : [Operands -> Regs], rs_rdata : [Operands -> Values],
         rd_addr : Regs, rd_wdata : Values, pc_wdata : Values,
         mem_addr : Addrs, mem_rmask : SUBSET Lanes, mem_wmask : SUBSET Lanes,
         mem_rdata : [Lanes -> Bytes], mem_wdata : [Lanes -> Bytes],
         mem_fault : BOOLEAN, fault_rmask : SUBSET Lanes, fault_wmask : SUBSET Lanes,
         mcause : Causes, mcause_wmask : BOOLEAN] \* all bits of csr_mcause_wmask, or not
\* pc_ok: the pc is a valid address in executable memory; mem_ok: so is the
\* address of the access in memory of the right kind.
Retired == [rvfi : Rvfi, spec : Spec0 \cup {NoInsn}, pc_ok : BOOLEAN, mem_ok : BOOLEAN]

\* Of the constants; the modules that instantiate this one assume it.
InsnCheckAssumption ==
  /\ Lanes \subseteq 0 .. 7
  /\ NoInsn \notin Retired /\ NoInsn \notin Spec0

VARIABLES
  ignore_mem,  \* option -M of the monitor, constant
  ch,          \* the instruction on the channel, or NoInsn
  judged,      \* the instruction that errcode is about, or NoInsn
  errcode      \* ch<n>_errcode, without the hundreds that name the channel

vars == <<ignore_mem, ch, judged, errcode>>

-----------------------------------------------------------------------------
\* What the checks ask of an instruction that cannot execute.
NoEffect(r) == r.trap /\ r.rd_addr = 0 /\ r.rd_wdata = 0 /\ r.mem_wmask = {}

\* The instruction check: mem_access_fault and the cause of the first branch.
Faults(i) ==
  \/ ~i.pc_ok
  \/ i.rvfi.mem_fault
  \/ ~i.mem_ok /\ (i.spec.mem_rmask /= {} \/ i.spec.mem_wmask /= {})

FaultAccepted(r, s) ==
  /\ NoEffect(r)
  /\ r.mem_fault =>
       /\ r.mem_rmask = {}
       /\ s.mem_wmask /= {} \/ s.mem_rmask /= {}
       /\ s.mem_addr = r.mem_addr
       /\ r.fault_wmask = s.mem_wmask
       /\ s.mem_rmask \subseteq r.fault_rmask

\* Mutated: a byte written in excess need not be a byte read.
LanesWrittenFreely(r, s) ==
  /\ \A l \in s.mem_wmask : l \in r.mem_wmask /\ s.mem_wdata[l] = r.mem_wdata[l]
  /\ s.mem_rmask \subseteq r.mem_rmask

\* The loop over the bytes: a core may write more than it should, but only
\* what it has read there.
LanesAccepted(r, s) ==
  /\ \A l \in s.mem_wmask : l \in r.mem_wmask /\ s.mem_wdata[l] = r.mem_wdata[l]
  /\ \A l \in r.mem_wmask \ s.mem_wmask :
       l \in r.mem_rmask /\ r.mem_rdata[l] = r.mem_wdata[l]
  /\ s.mem_rmask \subseteq r.mem_rmask

ExecutionAccepted(r, s) ==
  /\ \A op \in Operands : s.rs_addr[op] /= 0 => s.rs_addr[op] = r.rs_addr[op]
  /\ s.rd_addr = r.rd_addr /\ s.rd_wdata = r.rd_wdata
  /\ s.pc_wdata = r.pc_wdata
  /\ s.mem_wmask /= {} \/ s.mem_rmask /= {} => s.mem_addr = r.mem_addr
  /\ LanesAccepted(r, s)

ZeroReads(r) == \A op \in Operands : r.rs_addr[op] = 0 => r.rs_rdata[op] = 0

\* rvfi_insn_check: it assumes spec_valid.
InsnAccepted(i) ==
  i.spec /= NoInsn =>
    IF Faults(i) THEN FaultAccepted(i.rvfi, i.spec)
    ELSE /\ ZeroReads(i.rvfi)
         /\ ~i.spec.trap => ExecutionAccepted(i.rvfi, i.spec)
         /\ i.spec.trap = i.rvfi.trap

\* rvfi_ill_check: it assumes the word 0.
IllAccepted(i) == i.rvfi.zero => NoEffect(i.rvfi)

\* Mutated: reads are looked at before writes.
CauseOfReadsFirst(r) ==
  IF r.fault_rmask /= {} THEN 5 ELSE IF r.fault_wmask /= {} THEN 7 ELSE 1

\* rvfi_fault_check: a fault of neither kind is one of the fetch.
CauseOf(r) ==
  IF r.fault_wmask /= {} THEN 7 ELSE IF r.fault_rmask /= {} THEN 5 ELSE 1

FaultCheckAccepted(i) ==
  LET r == i.rvfi
  IN  IF r.mem_fault
      THEN /\ NoEffect(r)
           /\ r.zero <=> (r.fault_rmask = {} /\ r.fault_wmask = {})
           /\ r.mcause_wmask /\ r.mcause = CauseOf(r)
      ELSE r.fault_rmask = {} /\ r.fault_wmask = {}

-----------------------------------------------------------------------------
\* The monitor: the errors it finds, by number.  Error 8 and those of the
\* bytes come before error 7 in the text, the later assignment wins.
WmaskError == 8
ReadError(l) == 10 + l
WriteError(l) == 20 + l

\* Mutated: missing bytes of a read are not noticed.
MemErrorsOfWrites(r, s) ==
  UNION {IF r.mem_wmask /= s.mem_wmask THEN {WmaskError} ELSE {},
         {WriteError(l) : l \in {m \in r.mem_wmask : r.mem_wdata[m] /= s.mem_wdata[m]}},
         IF r.mem_addr /= s.mem_addr /\ (r.mem_wmask /= {} \/ r.mem_rmask /= {})
         THEN {7} ELSE {}}

MemErrors(r, s) ==
  UNION {IF r.mem_wmask /= s.mem_wmask THEN {WmaskError} ELSE {},
         {ReadError(l) : l \in s.mem_rmask \ r.mem_rmask},
         {WriteError(l) : l \in {m \in r.mem_wmask : r.mem_wdata[m] /= s.mem_wdata[m]}},
         IF r.mem_addr /= s.mem_addr /\ (r.mem_wmask /= {} \/ r.mem_rmask /= {})
         THEN {7} ELSE {}}

OperandError(op) == IF op = "rs1" THEN 2 ELSE 3

\* Mutated: operands that the instruction does not read are compared, too.
AllOperandErrors(r, s) ==
  {OperandError(op) : op \in {o \in Operands : r.rs_addr[o] /= s.rs_addr[o]}}

OperandErrors(r, s) ==
  {OperandError(op) : op \in {o \in Operands :
     r.rs_addr[o] /= s.rs_addr[o] /\ s.rs_addr[o] /= 0}}

RdErrors(r, s) ==
  (IF r.rd_addr /= s.rd_addr THEN {4} ELSE {}) \cup
  (IF r.rd_wdata /= s.rd_wdata /\ (ignore_mem => s.mem_rmask = {}) THEN {5} ELSE {})

Errors(i) ==
  LET r == i.rvfi
      s == i.spec
  IN  IF s = NoInsn THEN {}
      ELSE UNION {IF r.trap /= s.trap THEN {1} ELSE {},
                  OperandErrors(r, s), RdErrors(r, s),
                  IF r.pc_wdata /= s.pc_wdata THEN {6} ELSE {},
                  IF ignore_mem THEN {} ELSE MemErrors(r, s)}

\* The place of an error in the text.
Place(e) == IF e < 7 THEN e ELSE IF e = 7 THEN 1000
            ELSE IF e = WmaskError THEN 7
            ELSE IF e < 20 THEN 8 + 2 * (e - 10) ELSE 9 + 2 * (e - 20)
Reported(errors) ==
  IF errors = {} THEN 0
  ELSE CHOOSE e \in errors : \A f \in errors : Place(f) <= Place(e)

\* A clock edge: the monitor judges what is on the channel, which then
\* carries `next`.
Clock(next) ==
  /\ errcode' = IF ch = NoInsn THEN 0 ELSE Reported(Errors(ch))
  /\ judged' = ch
  /\ ch' = next
  /\ UNCHANGED ignore_mem

Init ==
  /\ ignore_mem \in BOOLEAN
  /\ ch = NoInsn /\ judged = NoInsn
  /\ errcode = 0

Next == \E next \in Retired \cup {NoInsn} : Clock(next)

Spec == Init /\ [][Next]_vars

-----------------------------------------------------------------------------
\* What writes to memory leave changed: the bytes whose value before, where the
\* core reports it, was another.
NetWrites(r, addr, mask, data) ==
  {<<addr, l, data[l]>> : l \in {m \in mask :
     ~(addr = r.mem_addr /\ m \in r.mem_rmask /\ r.mem_rdata[m] = data[m])}}

\* An instruction that the instruction check accepts and that neither faults
\* nor traps leaves registers, pc and memory as the model says, whatever it
\* reports to have read or rewritten besides, and its loaded bytes were read
\* from the right place.
Executes(i) == i.spec /= NoInsn /\ ~Faults(i) /\ ~i.spec.trap
AcceptedIsRight ==
  ch /= NoInsn /\ Executes(ch) /\ InsnAccepted(ch) =>
    LET r == ch.rvfi
        s == ch.spec
    IN  /\ ~r.trap
        /\ <<r.rd_addr, r.rd_wdata, r.pc_wdata>> = <<s.rd_addr, s.rd_wdata, s.pc_wdata>>
        /\ NetWrites(r, r.mem_addr, r.mem_wmask, r.mem_wdata)
             = NetWrites(r, s.mem_addr, s.mem_wmask, s.mem_wdata)
        /\ s.mem_rmask /= {} => s.mem_addr = r.mem_addr /\ s.mem_rmask \subseteq r.mem_rmask

\* The monitor without -M is as strict as the formal check: what it lets pass
\* of an instruction that does not fault, the check accepts (reads of x0
\* apart, at which the monitor does not look).
MonitorCatches ==
  judged /= NoInsn /\ errcode = 0 /\ ~ignore_mem
    /\ ~Faults(judged) /\ ZeroReads(judged.rvfi) => InsnAccepted(judged)

\* And no stricter, with or without -M: it reports of an instruction that
\* executes what the check rejects, or accesses that the instruction does not
\* make.
OtherAccesses(i) ==
  i.rvfi.mem_wmask /= i.spec.mem_wmask \/ ~(i.rvfi.mem_rmask \subseteq i.spec.mem_rmask)
MonitorJustified ==
  errcode /= 0 /\ Executes(judged) =>
    ~InsnAccepted(judged) \/ (~ignore_mem /\ OtherAccesses(judged))

\* The instruction check and the fault check together pin the cause that a
\* faulting load or store writes to the whole of mcause, though the fault
\* check does not know the instruction, and the core may report more bytes
\* than it needs.
FaultCause ==
  ch /= NoInsn /\ ch.rvfi.mem_fault /\ ch.spec /= NoInsn
    /\ InsnAccepted(ch) /\ FaultCheckAccepted(ch) =>
    /\ ~ch.rvfi.zero /\ ch.rvfi.mcause_wmask
    /\ ch.rvfi.mcause = IF ch.spec.mem_wmask /= {} THEN 7 ELSE 5

=============================================================================
