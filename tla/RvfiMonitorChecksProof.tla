------------------------ MODULE RvfiMonitorChecksProof ------------------------
(***************************************************************************)
(* Proofs about the three checks that the monitor makes of every           *)
(* instruction, for every number of channels and every set of registers,   *)
(* values, addresses and byte lanes.                                       *)
(***************************************************************************)
EXTENDS MCRvfiMonitorChecks, TLAPS, RvfiOrderTheorems

-----------------------------------------------------------------------------
(***************************************************************************)
(* The instruction check.                                                  *)
(***************************************************************************)
\* What the monitor reports is about the instruction before.
InsnInv ==
  /\ ignore_mem \in BOOLEAN
  /\ ch \in InsnCheck!Retired \cup {NoInsn}
  /\ judged \in InsnCheck!Retired \cup {NoInsn}
  /\ errcode_i = IF judged = NoInsn THEN 0 ELSE InsnCheck!Reported(InsnCheck!Errors(judged))

LEMMA InsnInvInductive == InsnCheck!Spec => []InsnInv
<1>1. InsnCheck!Init => InsnInv
  BY DEF InsnCheck!Init, InsnInv
<1>2. InsnInv /\ [InsnCheck!Next]_InsnCheck!vars => InsnInv'
  <2> SUFFICES ASSUME InsnInv, [InsnCheck!Next]_InsnCheck!vars PROVE InsnInv'
    OBVIOUS
  <2>1. CASE UNCHANGED InsnCheck!vars
    BY <2>1 DEF InsnInv, InsnCheck!vars, InsnCheck!Errors, InsnCheck!RdErrors
  <2>2. ASSUME NEW next \in InsnCheck!Retired \cup {NoInsn}, InsnCheck!Clock(next)
        PROVE  InsnInv'
    <3>1. ignore_mem' = ignore_mem /\ judged' = ch /\ ch' = next
      BY <2>2 DEF InsnCheck!Clock
    <3>2. errcode_i' = IF judged' = NoInsn THEN 0
                     ELSE InsnCheck!Reported(InsnCheck!Errors(judged))'
      BY <2>2, <3>1 DEF InsnCheck!Clock, InsnCheck!Errors, InsnCheck!RdErrors
    <3> QED BY <3>1, <3>2 DEF InsnInv
  <2> QED BY <2>1, <2>2 DEF InsnCheck!Next
<1> QED BY <1>1, <1>2, PTL DEF InsnCheck!Spec

\* The types of what is on the channel.
LEMMA RetiredTypes ==
  ASSUME NEW i \in InsnCheck!Retired
  PROVE  /\ i /= NoInsn /\ NoInsn \notin InsnCheck!Spec0
         /\ i.rvfi \in InsnCheck!Rvfi
         /\ i.spec \in InsnCheck!Spec0 \cup {NoInsn}
         /\ Lanes \subseteq 0 .. 7
BY MonitorChecksAssumption DEF InsnCheck!InsnCheckAssumption, InsnCheck!Retired

\* Every error has a number of its own, none of them 0, and a place.
ErrorCodes == 1 .. 30
LEMMA ErrorsAreCodes ==
  ASSUME NEW i \in InsnCheck!Retired
  PROVE  InsnCheck!Errors(i) \subseteq ErrorCodes
<1> DEFINE r == i.rvfi
           s == i.spec
<1>1. CASE s = NoInsn
  BY <1>1 DEF InsnCheck!Errors
<1>2. CASE s /= NoInsn
  <2>1. r \in InsnCheck!Rvfi /\ s \in InsnCheck!Spec0 /\ Lanes \subseteq 0 .. 7
    BY <1>2, RetiredTypes
  <2>2. r.mem_wmask \subseteq Lanes /\ s.mem_rmask \subseteq Lanes
    BY <2>1 DEF InsnCheck!Rvfi, InsnCheck!Spec0
  <2> HIDE DEF r, s
  <2>3. InsnCheck!OperandErrors(r, s) \subseteq ErrorCodes
    BY DEF InsnCheck!OperandErrors, InsnCheck!OperandError, ErrorCodes
  <2>4. InsnCheck!RdErrors(r, s) \subseteq ErrorCodes
    <3>1. 4 \in ErrorCodes /\ 5 \in ErrorCodes
      BY DEF ErrorCodes
    <3> QED BY <3>1 DEF InsnCheck!RdErrors
  <2>5. InsnCheck!MemErrors(r, s) \subseteq ErrorCodes
    <3>1. \A l \in Lanes : 10 + l \in ErrorCodes /\ 20 + l \in ErrorCodes
      BY <2>1 DEF ErrorCodes
    <3>2. 7 \in ErrorCodes /\ 8 \in ErrorCodes
      BY DEF ErrorCodes
    <3>3. SUFFICES ASSUME NEW e \in InsnCheck!MemErrors(r, s) PROVE e \in ErrorCodes
      OBVIOUS
    <3> QED
      BY <2>2, <3>1, <3>2
      DEF InsnCheck!MemErrors, InsnCheck!WmaskError, InsnCheck!ReadError,
          InsnCheck!WriteError
  <2>6. InsnCheck!Errors(i)
          = UNION {IF r.trap /= s.trap THEN {1} ELSE {},
                   InsnCheck!OperandErrors(r, s), InsnCheck!RdErrors(r, s),
                   IF r.pc_wdata /= s.pc_wdata THEN {6} ELSE {},
                   IF ignore_mem THEN {} ELSE InsnCheck!MemErrors(r, s)}
    BY <1>2 DEF InsnCheck!Errors, r, s
  <2>7. 1 \in ErrorCodes /\ 6 \in ErrorCodes
    BY DEF ErrorCodes
  <2> QED BY <2>3, <2>4, <2>5, <2>6, <2>7
<1> QED BY <1>1, <1>2

\* One of the errors found is reported.
LEMMA ReportedIsError ==
  ASSUME NEW errors, errors \subseteq ErrorCodes, errors /= {}
  PROVE  InsnCheck!Reported(errors) \in errors
<1> DEFINE places == {InsnCheck!Place(e) : e \in errors}
           N == 1001
<1>1. N \in Nat /\ \A e \in errors : InsnCheck!Place(e) \in 0 .. N - 1
  BY DEF InsnCheck!Place, InsnCheck!WmaskError, ErrorCodes
<1>2. places \subseteq 0 .. N - 1 /\ places /= {}
  BY <1>1
<1>3. \E p \in places : \A q \in places : q <= p
  <2> HIDE DEF places, N
  <2> QED BY <1>1, <1>2, GreatestElement
<1>4. \E e \in errors : \A f \in errors : InsnCheck!Place(f) <= InsnCheck!Place(e)
  BY <1>3
<1> QED BY <1>4 DEF InsnCheck!Reported

\* So errcode tells whether there is an error.
LEMMA ErrcodeTells ==
  ASSUME InsnInv, judged /= NoInsn
  PROVE  errcode_i = 0 <=> InsnCheck!Errors(judged) = {}
<1>1. InsnCheck!Errors(judged) \subseteq ErrorCodes
  BY ErrorsAreCodes DEF InsnInv
<1>2. 0 \notin ErrorCodes
  BY DEF ErrorCodes
<1>3. errcode_i = InsnCheck!Reported(InsnCheck!Errors(judged))
  BY DEF InsnInv
<1>4. InsnCheck!Errors(judged) = {} => errcode_i = 0
  BY <1>3 DEF InsnCheck!Reported
<1> QED BY <1>1, <1>2, <1>3, <1>4, ReportedIsError

\* No error means that the core agrees with the model but for reads in excess.
Agrees(r, s) ==
  /\ r.trap = s.trap
  /\ \A op \in InsnOperands : s.rs_addr[op] /= 0 => r.rs_addr[op] = s.rs_addr[op]
  /\ r.rd_addr = s.rd_addr /\ r.pc_wdata = s.pc_wdata
  /\ ~ignore_mem \/ s.mem_rmask = {} => r.rd_wdata = s.rd_wdata
AgreesOnMemory(r, s) ==
  /\ r.mem_wmask = s.mem_wmask /\ s.mem_rmask \subseteq r.mem_rmask
  /\ \A l \in r.mem_wmask : r.mem_wdata[l] = s.mem_wdata[l]
  /\ r.mem_wmask /= {} \/ r.mem_rmask /= {} => r.mem_addr = s.mem_addr

LEMMA NoErrors ==
  ASSUME InsnInv, NEW i \in InsnCheck!Retired, i.spec /= NoInsn
  PROVE  InsnCheck!Errors(i) = {}
           <=> /\ Agrees(i.rvfi, i.spec)
               /\ ~ignore_mem => AgreesOnMemory(i.rvfi, i.spec)
<1> DEFINE r == i.rvfi
           s == i.spec
<1>1. InsnCheck!Errors(i) = {} <=>
        /\ r.trap = s.trap /\ r.pc_wdata = s.pc_wdata
        /\ InsnCheck!OperandErrors(r, s) = {} /\ InsnCheck!RdErrors(r, s) = {}
        /\ ~ignore_mem => InsnCheck!MemErrors(r, s) = {}
  <2>1. InsnCheck!Errors(i)
          = UNION {IF r.trap /= s.trap THEN {1} ELSE {},
                   InsnCheck!OperandErrors(r, s), InsnCheck!RdErrors(r, s),
                   IF r.pc_wdata /= s.pc_wdata THEN {6} ELSE {},
                   IF ignore_mem THEN {} ELSE InsnCheck!MemErrors(r, s)}
    BY DEF InsnCheck!Errors
  <2> HIDE DEF r, s
  <2> QED BY <2>1
<1> HIDE DEF r, s
<1>2. InsnCheck!OperandErrors(r, s) = {} <=>
        \A op \in InsnOperands : s.rs_addr[op] /= 0 => r.rs_addr[op] = s.rs_addr[op]
  BY DEF InsnCheck!OperandErrors
<1>3. InsnCheck!RdErrors(r, s) = {} <=>
        /\ r.rd_addr = s.rd_addr
        /\ ~ignore_mem \/ s.mem_rmask = {} => r.rd_wdata = s.rd_wdata
  BY DEF InsnCheck!RdErrors
<1>4. InsnCheck!MemErrors(r, s) = {} <=> AgreesOnMemory(r, s)
  <2>1. InsnCheck!MemErrors(r, s) = {} <=>
          /\ r.mem_wmask = s.mem_wmask
          /\ s.mem_rmask \ r.mem_rmask = {}
          /\ {m \in r.mem_wmask : r.mem_wdata[m] /= s.mem_wdata[m]} = {}
          /\ ~(r.mem_addr /= s.mem_addr /\ (r.mem_wmask /= {} \/ r.mem_rmask /= {}))
    BY DEF InsnCheck!MemErrors
  <2> QED BY <2>1 DEF AgreesOnMemory
<1> QED BY <1>1, <1>2, <1>3, <1>4 DEF Agrees, r, s

\* An accepted instruction that executes leaves what the model says.
THEOREM Accepted == InsnCheck!Spec => []AcceptedIsRight
<1>1. InsnInv => AcceptedIsRight
  <2> SUFFICES ASSUME InsnInv, ch /= NoInsn, InsnCheck!Executes(ch),
                      InsnCheck!InsnAccepted(ch)
               PROVE  InsnCheck!AcceptedIsRight
    BY DEF AcceptedIsRight, InsnCheck!AcceptedIsRight
  <2> DEFINE r == ch.rvfi
             s == ch.spec
             own == InsnCheck!NetWrites(r, r.mem_addr, r.mem_wmask, r.mem_wdata)
             model == InsnCheck!NetWrites(r, s.mem_addr, s.mem_wmask, s.mem_wdata)
  <2>1. ~r.trap /\ InsnCheck!ExecutionAccepted(r, s)
    <3>1. ch \in InsnCheck!Retired /\ ch.spec /= NoInsn
      BY DEF InsnInv, InsnCheck!Executes
    <3>2. r.trap \in BOOLEAN /\ s.trap \in BOOLEAN
      BY <3>1, RetiredTypes DEF InsnCheck!Rvfi, InsnCheck!Spec0
    <3> QED BY <3>1, <3>2 DEF InsnCheck!Executes, InsnCheck!InsnAccepted
  <2> HIDE DEF r, s
  <2>2. InsnCheck!LanesAccepted(r, s)
    BY <2>1 DEF InsnCheck!ExecutionAccepted
  <2>3. s.mem_wmask /= {} \/ s.mem_rmask /= {} => s.mem_addr = r.mem_addr
    BY <2>1 DEF InsnCheck!ExecutionAccepted
  <2>4. ASSUME NEW l \in s.mem_wmask
        PROVE  /\ l \in r.mem_wmask /\ s.mem_wdata[l] = r.mem_wdata[l]
               /\ s.mem_addr = r.mem_addr
    BY <2>2, <2>3 DEF InsnCheck!LanesAccepted
  <2>5. own \subseteq model
    <3> SUFFICES ASSUME NEW l \in r.mem_wmask,
                        ~(l \in r.mem_rmask /\ r.mem_rdata[l] = r.mem_wdata[l])
                 PROVE  <<r.mem_addr, l, r.mem_wdata[l]>> \in model
      BY DEF InsnCheck!NetWrites
    <3>1. l \in s.mem_wmask
      BY <2>2 DEF InsnCheck!LanesAccepted
    <3> QED BY <3>1, <2>4 DEF InsnCheck!NetWrites
  <2>6. model \subseteq own
    BY <2>4 DEF InsnCheck!NetWrites
  <2>7. own = model
    BY <2>5, <2>6
  <2> HIDE DEF own, model
  <2>8. /\ <<r.rd_addr, r.rd_wdata, r.pc_wdata>> = <<s.rd_addr, s.rd_wdata, s.pc_wdata>>
        /\ s.mem_rmask /= {} => s.mem_addr = r.mem_addr /\ s.mem_rmask \subseteq r.mem_rmask
    BY <2>1, <2>2, <2>3 DEF InsnCheck!ExecutionAccepted, InsnCheck!LanesAccepted
  <2> QED BY <2>1, <2>7, <2>8 DEF InsnCheck!AcceptedIsRight, r, s, own, model
<1> QED BY <1>1, InsnInvInductive, PTL

\* The monitor is as strict as the formal check.
THEOREM Catches == InsnCheck!Spec => []MonitorCatches
<1>1. InsnInv => MonitorCatches
  <2> SUFFICES ASSUME InsnInv, judged /= NoInsn, errcode_i = 0, ~ignore_mem,
                      ~InsnCheck!Faults(judged), InsnCheck!ZeroReads(judged.rvfi),
                      judged.spec /= NoInsn
               PROVE  InsnCheck!InsnAccepted(judged)
    BY DEF MonitorCatches, InsnCheck!MonitorCatches, InsnCheck!InsnAccepted
  <2> DEFINE r == judged.rvfi
             s == judged.spec
  <2>1. judged \in InsnCheck!Retired
    BY DEF InsnInv
  <2>2. Agrees(r, s) /\ AgreesOnMemory(r, s)
    BY <2>1, ErrcodeTells, NoErrors
  <2> HIDE DEF r, s
  <2>3. InsnCheck!ExecutionAccepted(r, s)
    BY <2>2 DEF Agrees, AgreesOnMemory, InsnCheck!ExecutionAccepted,
                InsnCheck!LanesAccepted
  <2>4. s.trap = r.trap
    BY <2>2 DEF Agrees
  <2> QED BY <2>3, <2>4 DEF InsnCheck!InsnAccepted, r, s
<1> QED BY <1>1, InsnInvInductive, PTL

\* And no stricter.
THEOREM Justified == InsnCheck!Spec => []MonitorJustified
<1>1. InsnInv => MonitorJustified
  <2> SUFFICES ASSUME InsnInv, errcode_i /= 0, InsnCheck!Executes(judged),
                      InsnCheck!InsnAccepted(judged),
                      ignore_mem \/ ~InsnCheck!OtherAccesses(judged)
               PROVE  FALSE
    BY DEF MonitorJustified, InsnCheck!MonitorJustified
  <2> DEFINE r == judged.rvfi
             s == judged.spec
  <2>1. judged /= NoInsn /\ judged \in InsnCheck!Retired /\ s /= NoInsn
    BY DEF InsnInv, InsnCheck!Executes
  <2>2. r.trap \in BOOLEAN /\ s.trap \in BOOLEAN
    BY <2>1, RetiredTypes DEF InsnCheck!Rvfi, InsnCheck!Spec0
  <2>3. s.trap = r.trap /\ InsnCheck!ExecutionAccepted(r, s)
    BY <2>1, <2>2 DEF InsnCheck!Executes, InsnCheck!InsnAccepted
  <2>4. ignore_mem \/ (r.mem_wmask = s.mem_wmask /\ r.mem_rmask \subseteq s.mem_rmask)
    BY DEF InsnCheck!OtherAccesses
  <2>5. InsnCheck!Errors(judged) /= {}
    BY <2>1, ErrcodeTells
  <2>6. ~(Agrees(r, s) /\ (~ignore_mem => AgreesOnMemory(r, s)))
    BY <2>1, <2>5, NoErrors
  <2> HIDE DEF r, s
  <2>7. Agrees(r, s)
    BY <2>3 DEF Agrees, InsnCheck!ExecutionAccepted
  <2>8. ~ignore_mem => AgreesOnMemory(r, s)
    BY <2>3, <2>4
    DEF AgreesOnMemory, InsnCheck!ExecutionAccepted, InsnCheck!LanesAccepted
  <2> QED BY <2>6, <2>7, <2>8
<1> QED BY <1>1, InsnInvInductive, PTL

\* The checks of an instruction and of faults pin the cause together.
THEOREM Cause == InsnCheck!Spec => []FaultCause
<1>1. FaultCause
  <2> SUFFICES ASSUME ch.rvfi.mem_fault, ch.spec /= NoInsn,
                      InsnCheck!InsnAccepted(ch), InsnCheck!FaultCheckAccepted(ch)
               PROVE  /\ ~ch.rvfi.zero /\ ch.rvfi.mcause_wmask
                      /\ ch.rvfi.mcause = IF ch.spec.mem_wmask /= {} THEN 7 ELSE 5
    BY DEF FaultCause, InsnCheck!FaultCause
  <2> DEFINE r == ch.rvfi
             s == ch.spec
  <2>1. InsnCheck!FaultAccepted(r, s)
    BY DEF InsnCheck!InsnAccepted, InsnCheck!Faults
  <2>2. /\ r.zero <=> (r.fault_rmask = {} /\ r.fault_wmask = {})
        /\ r.mcause_wmask /\ r.mcause = InsnCheck!CauseOf(r)
    BY DEF InsnCheck!FaultCheckAccepted
  <2>3. r.mem_fault
    OBVIOUS
  <2> HIDE DEF r, s
  <2>4. ~r.zero /\ r.mcause_wmask /\ r.mcause = IF s.mem_wmask /= {} THEN 7 ELSE 5
    BY <2>1, <2>2, <2>3 DEF InsnCheck!FaultAccepted, InsnCheck!CauseOf
  <2> QED BY <2>4 DEF r, s
<1> QED BY <1>1, PTL

-----------------------------------------------------------------------------
(***************************************************************************)
(* The pc check.                                                           *)
(***************************************************************************)
\* The shadow registers hold the outcome of the last instruction, if there has
\* been one since the reset.
ShadowInv ==
  /\ ro \in PcCheck!Inputs
  /\ prev \in PcCheck!Outcomes \cup {NoInsn}
  /\ prev = NoInsn => ~shadow_pc_valid
  /\ prev /= NoInsn => /\ shadow_pc_valid = ~prev.trap
                       /\ shadow_pc_trap = prev.trap
                       /\ shadow_pc = prev.npc

\* A non-empty set of channels has a last element.
LEMMA LastInSet ==
  ASSUME NEW cs, cs \subseteq PcCheck!Channels, cs /= {}
  PROVE  PcCheck!Last(cs) \in cs /\ \A d \in cs : d <= PcCheck!Last(cs)
<1>1. NRet \in Nat /\ cs \subseteq 0 .. NRet - 1
  BY MonitorChecksAssumption DEF PcCheck!ShadowPcAssumption, PcCheck!Channels
<1> QED BY <1>1, GreatestElement DEF PcCheck!Last

\* The last of some valid channels carries an instruction.
LEMMA LastInsn ==
  ASSUME ShadowInv, NEW cs, cs \subseteq PcCheck!Valid, cs /= {}
  PROVE  ro[PcCheck!Last(cs)] \in PcCheck!Insn
<1>1. cs \subseteq PcCheck!Channels
  BY DEF PcCheck!Valid
<1> QED BY <1>1, LastInSet DEF ShadowInv, PcCheck!Inputs, PcCheck!Valid

\* What an instruction leaves behind for its successor.
LEMMA OutcomeFacts ==
  ASSUME NEW i \in PcCheck!Insn
  PROVE  /\ PcCheck!Outcome(i) \in PcCheck!Outcomes /\ PcCheck!Outcome(i) /= NoInsn
         /\ PcCheck!Outcome(i).trap = i.trap /\ PcCheck!Outcome(i).npc = i.npc
         /\ i.trap \in BOOLEAN
BY MonitorChecksAssumption
   DEF PcCheck!ShadowPcAssumption, PcCheck!Outcome, PcCheck!Outcomes, PcCheck!Insn

LEMMA InitInv == PcCheck!Init => ShadowInv
BY DEF PcCheck!Init, ShadowInv

\* A clock edge keeps the shadow registers in step with the program.
LEMMA StepInv == ShadowInv /\ [PcCheck!Next]_PcCheck!vars => ShadowInv'
<1> SUFFICES ASSUME ShadowInv, [PcCheck!Next]_PcCheck!vars PROVE ShadowInv'
  OBVIOUS
<1>1. CASE PcCheck!Reset /\ ro' \in PcCheck!Inputs
  BY <1>1 DEF PcCheck!Reset, ShadowInv
<1>2. CASE PcCheck!Check /\ ro' \in PcCheck!Inputs
  <2>1. CASE PcCheck!Valid = {}
    BY <1>2, <2>1 DEF PcCheck!Check, ShadowInv
  <2>2. CASE PcCheck!Valid /= {}
    <3> DEFINE last == ro[PcCheck!Last(PcCheck!Valid)]
    <3>1. last \in PcCheck!Insn
      BY <2>2, LastInsn
    <3>2. /\ shadow_pc_valid' = ~last.trap
          /\ shadow_pc_trap' = last.trap
          /\ shadow_pc' = last.npc
          /\ prev' = PcCheck!Outcome(last)
      BY <1>2, <2>2 DEF PcCheck!Check
    <3>3. /\ prev' \in PcCheck!Outcomes /\ prev' /= NoInsn
          /\ prev'.trap = last.trap /\ prev'.npc = last.npc
      BY <3>1, <3>2, OutcomeFacts
    <3> QED BY <1>2, <3>2, <3>3, Zenon DEF ShadowInv
  <2> QED BY <2>1, <2>2
<1>3. CASE UNCHANGED PcCheck!vars
  BY <1>3 DEF PcCheck!vars, ShadowInv
<1> QED BY <1>1, <1>2, <1>3 DEF PcCheck!Next

\* What channel c sees when no lower channel is valid, and otherwise.
LEMMA Views ==
  ASSUME ShadowInv, NEW c \in PcCheck!Valid
  PROVE  /\ PcCheck!Below(c) = {} /\ PcCheck!Predecessor(c) = NoInsn => ~PcCheck!ShadowValid(c)
         /\ PcCheck!Below(c) = {} /\ PcCheck!Predecessor(c) /= NoInsn =>
              /\ PcCheck!ShadowValid(c) = ~PcCheck!Predecessor(c).trap
              /\ PcCheck!ShadowTrap(c) = PcCheck!Predecessor(c).trap
              /\ PcCheck!ShadowRdata(c) = PcCheck!Predecessor(c).npc
         /\ PcCheck!Below(c) /= {} =>
              /\ PcCheck!Predecessor(c) /= NoInsn
              /\ PcCheck!ShadowValid(c) = ~ro[c].trap
              /\ PcCheck!ShadowTrap(c) = ro[c].trap
              /\ PcCheck!ShadowRdata(c) = PcCheck!Predecessor(c).npc
<1>1. CASE PcCheck!Below(c) = {}
  BY <1>1 DEF ShadowInv, PcCheck!Predecessor, PcCheck!ShadowValid, PcCheck!ShadowTrap,
              PcCheck!ShadowRdata
<1>2. CASE PcCheck!Below(c) /= {}
  <2>1. ro[PcCheck!Last(PcCheck!Below(c))] \in PcCheck!Insn
    BY <1>2, LastInsn DEF PcCheck!Below
  <2> QED BY <1>2, <2>1, OutcomeFacts
          DEF PcCheck!Predecessor, PcCheck!ShadowValid, PcCheck!ShadowTrap, PcCheck!ShadowRdata
<1> QED BY <1>1, <1>2

\* The error of channel c, spelled out.
LEMMA ErrorCases ==
  ASSUME NEW c
  PROVE  PcCheck!Error(c) /= 0 <=>
           /\ PcCheck!ShadowValid(c) /\ ~ro[c].intr
           /\ PcCheck!ShadowTrap(c) \/ PcCheck!ShadowRdata(c) /= ro[c].pc
BY DEF PcCheck!Error, PcCheck!PcMismatch, PcCheck!IntrExpected

\* A wrong pc that is not hidden by a trap of its own instruction is an error.
LEMMA MismatchIsError ==
  ASSUME ShadowInv, NEW c \in PcCheck!Valid, PcCheck!Mismatch(c),
         PcCheck!Below(c) = {} \/ ~ro[c].trap
  PROVE  PcCheck!Error(c) /= 0
BY Views, ErrorCases DEF PcCheck!Mismatch

\* Whatever is an error is a wrong pc or an unmarked successor of a trap.
LEMMA ErrorIsFault ==
  ASSUME ShadowInv, NEW c \in PcCheck!Valid, PcCheck!Error(c) /= 0
  PROVE  PcCheck!Mismatch(c) \/ PcCheck!LostTrap(c)
<1>1. /\ PcCheck!ShadowValid(c) /\ ~ro[c].intr
      /\ PcCheck!ShadowTrap(c) \/ PcCheck!ShadowRdata(c) /= ro[c].pc
  BY ErrorCases
<1>2. PcCheck!Predecessor(c) /= NoInsn
  BY <1>1, Views
<1>3. CASE PcCheck!Predecessor(c).trap
  BY <1>1, <1>2, <1>3 DEF PcCheck!LostTrap
<1>4. CASE ~PcCheck!Predecessor(c).trap
  <2>1. PcCheck!ShadowRdata(c) = PcCheck!Predecessor(c).npc
    BY <1>2, Views
  <2>2. ~PcCheck!ShadowTrap(c)
    <3>1. CASE PcCheck!Below(c) = {}
      BY <1>2, <1>4, <3>1, Views
    <3>2. CASE PcCheck!Below(c) /= {}
      BY <1>1, <3>2, Views
    <3> QED BY <3>1, <3>2
  <2> QED BY <1>1, <1>2, <1>4, <2>1, <2>2 DEF PcCheck!Mismatch
<1> QED BY <1>3, <1>4

-----------------------------------------------------------------------------
\* The shadow registers follow the program.
THEOREM Invariance == PcCheck!Spec => []ShadowInv
BY InitInv, StepInv, PTL DEF PcCheck!Spec

\* The registers, error codes and history are well typed.
THEOREM TypeCorrect == PcCheck!Spec => []PcCheck!TypeOK
<1>1. PcCheck!Init => PcCheck!TypeOK
  BY DEF PcCheck!Init, PcCheck!TypeOK
<1>2. ShadowInv /\ PcCheck!TypeOK /\ [PcCheck!Next]_PcCheck!vars => PcCheck!TypeOK'
  <2> SUFFICES ASSUME ShadowInv, PcCheck!TypeOK, [PcCheck!Next]_PcCheck!vars PROVE PcCheck!TypeOK'
    OBVIOUS
  <2>1. CASE PcCheck!Reset /\ ro' \in PcCheck!Inputs
    BY <2>1 DEF PcCheck!Reset, PcCheck!TypeOK
  <2>2. CASE PcCheck!Check /\ ro' \in PcCheck!Inputs
    <3>1. \A c \in PcCheck!Channels :
            errcode_p'[c] \in {0, PcCheck!PcMismatch, PcCheck!IntrExpected}
      BY <2>2 DEF PcCheck!Check, PcCheck!Error
    <3>2. errcode_p' \in [PcCheck!Channels -> {0, PcCheck!PcMismatch, PcCheck!IntrExpected}]
      BY <2>2, <3>1 DEF PcCheck!Check
    <3>3. CASE PcCheck!Valid = {}
      BY <2>2, <3>2, <3>3 DEF PcCheck!Check, PcCheck!TypeOK
    <3>4. CASE PcCheck!Valid /= {}
      <4>1. ro[PcCheck!Last(PcCheck!Valid)] \in PcCheck!Insn
        BY <3>4, LastInsn
      <4>2. /\ shadow_pc_valid' = ~ro[PcCheck!Last(PcCheck!Valid)].trap
            /\ shadow_pc_trap' = ro[PcCheck!Last(PcCheck!Valid)].trap
            /\ shadow_pc' = ro[PcCheck!Last(PcCheck!Valid)].npc
            /\ prev' = PcCheck!Outcome(ro[PcCheck!Last(PcCheck!Valid)])
        BY <2>2, <3>4 DEF PcCheck!Check
      <4>3. /\ shadow_pc_valid' \in BOOLEAN /\ shadow_pc_trap' \in BOOLEAN
            /\ shadow_pc' \in Pcs /\ prev' \in PcCheck!Outcomes
        BY <4>1, <4>2 DEF PcCheck!Insn, PcCheck!Outcome, PcCheck!Outcomes
      <4> QED BY <2>2, <3>2, <4>3, Zenon DEF PcCheck!TypeOK
    <3> QED BY <3>3, <3>4
  <2>3. CASE UNCHANGED PcCheck!vars
    BY <2>3 DEF PcCheck!vars, PcCheck!TypeOK
  <2> QED BY <2>1, <2>2, <2>3 DEF PcCheck!Next
<1> QED BY <1>1, <1>2, Invariance, PTL DEF PcCheck!Spec

\* Every wrong pc is reported, but for the corner MismatchReported names.
THEOREM Reported == PcCheck!Spec => MismatchReported
<1>1. ShadowInv /\ [PcCheck!Next]_PcCheck!vars =>
        [PcCheck!Check => \A c \in PcCheck!Valid :
           PcCheck!Mismatch(c) /\ (PcCheck!Below(c) = {} \/ ~ro[c].trap)
             => errcode_p'[c] /= 0]_PcCheck!vars
  <2> SUFFICES ASSUME ShadowInv, PcCheck!Check, NEW c \in PcCheck!Valid, PcCheck!Mismatch(c),
                      PcCheck!Below(c) = {} \/ ~ro[c].trap
               PROVE  errcode_p'[c] /= 0
    OBVIOUS
  <2>1. errcode_p'[c] = PcCheck!Error(c)
    BY DEF PcCheck!Check, PcCheck!Valid
  <2> QED BY <2>1, MismatchIsError
<1> QED BY <1>1, Invariance, PTL DEF PcCheck!Spec, MismatchReported, PcCheck!MismatchReported

\* Nothing but a wrong pc or an unmarked successor of a trap is reported.
THEOREM NoFalseAlarms == PcCheck!Spec => NoFalseAlarm
<1>1. ShadowInv /\ [PcCheck!Next]_PcCheck!vars =>
        [\A c \in PcCheck!Valid :
           errcode_p'[c] /= 0 => PcCheck!Mismatch(c) \/ PcCheck!LostTrap(c)]_PcCheck!vars
  <2> SUFFICES ASSUME ShadowInv, PcCheck!Next, NEW c \in PcCheck!Valid, errcode_p'[c] /= 0
               PROVE  PcCheck!Mismatch(c) \/ PcCheck!LostTrap(c)
    OBVIOUS
  <2>1. c \in PcCheck!Channels
    BY DEF PcCheck!Valid
  <2>2. CASE PcCheck!Reset
    BY <2>1, <2>2 DEF PcCheck!Reset
  <2>3. CASE PcCheck!Check
    BY <2>1, <2>3, ErrorIsFault DEF PcCheck!Check
  <2> QED BY <2>2, <2>3 DEF PcCheck!Next
<1> QED BY <1>1, Invariance, PTL DEF PcCheck!Spec, NoFalseAlarm, PcCheck!NoFalseAlarm

-----------------------------------------------------------------------------
(***************************************************************************)
(* The register check.                                                     *)
(***************************************************************************)
\* The registers of the program, and those after each channel.
RegStates == [Regs -> Values \cup {Unknown}]
RegSteps(ro1) ==
  [n \in 1 .. RegNRet |->
     [w \in RegStates |-> IF ro1[n - 1] = NoInsn THEN w
                          ELSE [w EXCEPT ![ro1[n - 1].rd] = ro1[n - 1].wdata]]]

LEMMA RegConstants ==
  /\ RegNRet \in Nat \ {0} /\ 0 \in Regs /\ 0 \in Values
  /\ NoInsn \notin RegCheck!Insn /\ Unknown \notin Values
BY MonitorChecksAssumption DEF RegCheck!ShadowRegsAssumption

\* What a channel carries.
LEMMA RegInsnTypes ==
  ASSUME NEW in \in RegCheck!Inputs, NEW c \in RegCheck!Valid(in)
  PROVE  /\ c \in 0 .. RegNRet - 1 /\ in[c] \in RegCheck!Insn /\ in[c] /= NoInsn
         /\ in[c].rd \in Regs /\ in[c].wdata \in Values
         /\ \A op \in {"rs1", "rs2"} : /\ in[c].addr[op] \in Regs
                                     /\ in[c].rdata[op] \in Values
<1>1. c \in 0 .. RegNRet - 1 /\ in[c] \in RegCheck!Insn /\ in[c] /= NoInsn
  BY DEF RegCheck!Valid, RegCheck!Inputs, RegCheck!Channels
<1> QED BY <1>1 DEF RegCheck!Insn, RegCheck!Operands

\* A channel leaves well-typed registers.
LEMMA RegStepsTyped ==
  ASSUME NEW in \in RegCheck!Inputs
  PROVE  RegSteps(in) \in [1 .. RegNRet -> [RegStates -> RegStates]]
<1>1. ASSUME NEW n \in 1 .. RegNRet, NEW w \in RegStates
      PROVE  (IF in[n - 1] = NoInsn THEN w
              ELSE [w EXCEPT ![in[n - 1].rd] = in[n - 1].wdata]) \in RegStates
  <2>1. CASE in[n - 1] = NoInsn
    BY <2>1
  <2>2. CASE in[n - 1] /= NoInsn
    <3>1. n - 1 \in 0 .. RegNRet - 1
      BY RegConstants
    <3>2. n - 1 \in RegCheck!Valid(in)
      BY <2>2, <3>1 DEF RegCheck!Valid, RegCheck!Channels
    <3>3. in[n - 1].wdata \in Values
      BY <3>2, RegInsnTypes
    <3> QED BY <2>2, <3>3 DEF RegStates
  <2> QED BY <2>1, <2>2
<1> QED BY <1>1 DEF RegSteps

\* The registers after each channel are the values of a loop.
LEMMA ExecutedIsLoop ==
  ASSUME NEW in \in RegCheck!Inputs, written \in RegStates
  PROVE  /\ RegCheck!Executed(in)[0] = written
         /\ \A n \in 1 .. RegNRet :
              RegCheck!Executed(in)[n] =
                IF in[n - 1] = NoInsn THEN RegCheck!Executed(in)[n - 1]
                ELSE [RegCheck!Executed(in)[n - 1] EXCEPT ![in[n - 1].rd] = in[n - 1].wdata]
<1> DEFINE After(f) == [n \in 0 .. RegNRet |->
                         IF n = 0 THEN written
                         ELSE IF in[n - 1] = NoInsn THEN f[n - 1]
                         ELSE [f[n - 1] EXCEPT ![in[n - 1].rd] = in[n - 1].wdata]]
           regs == CHOOSE f : f = After(f)
<1>1. RegNRet \in Nat
  BY RegConstants
<1>2. PICK f \in [0 .. RegNRet -> RegStates] : Loop(f, RegNRet, written, RegSteps(in))
  BY <1>1, RegStepsTyped, LoopValues
<1>3. f = After(f)
  <2>1. \A n \in 0 .. RegNRet : f[n] = After(f)[n]
    <3> SUFFICES ASSUME NEW n \in 0 .. RegNRet PROVE f[n] = After(f)[n]
      OBVIOUS
    <3>1. CASE n = 0
      BY <1>2, <3>1 DEF Loop
    <3>2. CASE n /= 0
      <4>1. n \in 1 .. RegNRet /\ n - 1 \in 0 .. RegNRet
        BY <1>1, <3>2
      <4>2. f[n - 1] \in RegStates
        BY <4>1
      <4>3. f[n] = RegSteps(in)[n][f[n - 1]]
        BY <1>2, <4>1 DEF Loop
      <4>4. f[n] = IF in[n - 1] = NoInsn THEN f[n - 1]
                   ELSE [f[n - 1] EXCEPT ![in[n - 1].rd] = in[n - 1].wdata]
        BY <4>1, <4>2, <4>3 DEF RegSteps
      <4> QED BY <3>2, <4>4
    <3> QED BY <3>1, <3>2
  <2> QED BY <2>1
<1>4. regs = After(regs)
  <2> HIDE DEF After
  <2> QED BY <1>3
<1>5. RegCheck!Executed(in) = regs
  BY DEF RegCheck!Executed
<1> HIDE DEF regs
<1>6. regs[0] = written
  BY <1>1, <1>4
<1>7. ASSUME NEW n \in 1 .. RegNRet
      PROVE  regs[n] = IF in[n - 1] = NoInsn THEN regs[n - 1]
                       ELSE [regs[n - 1] EXCEPT ![in[n - 1].rd] = in[n - 1].wdata]
  <2>1. n \in 0 .. RegNRet /\ n /= 0
    BY <1>1
  <2>2. After(regs)[n] = IF in[n - 1] = NoInsn THEN regs[n - 1]
                        ELSE [regs[n - 1] EXCEPT ![in[n - 1].rd] = in[n - 1].wdata]
    BY <2>1
  <2>3. regs[n] = After(regs)[n]
    BY <1>4, Zenon
  <2> QED BY <2>2, <2>3
<1> QED BY <1>5, <1>6, <1>7

\* The last of several channels.
LEMMA LastRegChannel ==
  ASSUME NEW cs, cs \subseteq 0 .. RegNRet - 1, cs /= {}
  PROVE  RegCheck!Last(cs) \in cs /\ \A d \in cs : d <= RegCheck!Last(cs)
<1>1. \E c \in cs : \A d \in cs : d <= c
  BY RegConstants, GreatestElement
<1> QED BY <1>1 DEF RegCheck!Last

\* Nothing is forwarded to channel 0, and to a channel what is forwarded to the
\* one below it unless that one writes the register itself.
LEMMA ForwardersStep ==
  ASSUME NEW in \in RegCheck!Inputs, NEW r
  PROVE  /\ RegCheck!Forwarders(in, 0, r) = {}
         /\ \A n \in 1 .. RegNRet :
              IF n - 1 \in RegCheck!Writers(in, r)
              THEN /\ RegCheck!Forwarders(in, n, r) /= {}
                   /\ RegCheck!Last(RegCheck!Forwarders(in, n, r)) = n - 1
              ELSE RegCheck!Forwarders(in, n, r) = RegCheck!Forwarders(in, n - 1, r)
<1> DEFINE W == RegCheck!Writers(in, r)
<1>1. W \subseteq 0 .. RegNRet - 1 /\ RegNRet \in Nat
  BY RegConstants DEF RegCheck!Writers, RegCheck!Valid, RegCheck!Channels
<1>2. RegCheck!Forwarders(in, 0, r) = {i \in W : i < 0}
  BY DEF RegCheck!Forwarders
<1>3. RegCheck!Forwarders(in, 0, r) = {}
  <2>1. \A i \in W : ~(i < 0)
    <3> HIDE DEF W
    <3> QED BY <1>1
  <2> QED BY <1>2, <2>1
<1>4. ASSUME NEW n \in 1 .. RegNRet, n - 1 \in W
      PROVE  /\ RegCheck!Forwarders(in, n, r) /= {}
             /\ RegCheck!Last(RegCheck!Forwarders(in, n, r)) = n - 1
  <2> DEFINE cs == {i \in W : i < n}
  <2>1. n - 1 \in cs /\ cs \subseteq 0 .. RegNRet - 1 /\ \A d \in cs : d <= n - 1
    <3>1. n - 1 < n /\ \A d \in W : d < n => d <= n - 1
      <4> HIDE DEF W
      <4> QED BY <1>1
    <3> QED BY <1>1, <1>4, <3>1
  <2>2. RegCheck!Forwarders(in, n, r) = cs
    BY DEF RegCheck!Forwarders
  <2> HIDE DEF cs
  <2>3. RegCheck!Last(cs) \in cs /\ \A d \in cs : d <= RegCheck!Last(cs)
    BY <2>1, LastRegChannel
  <2>4. /\ RegCheck!Last(cs) \in 0 .. RegNRet - 1 /\ n - 1 <= RegCheck!Last(cs)
        /\ RegCheck!Last(cs) <= n - 1
    BY <2>1, <2>3
  <2>5. RegCheck!Last(cs) = n - 1
    BY <1>1, <2>4
  <2> QED BY <2>1, <2>2, <2>5
<1>5. ASSUME NEW n \in 1 .. RegNRet, n - 1 \notin W
      PROVE  RegCheck!Forwarders(in, n, r) = RegCheck!Forwarders(in, n - 1, r)
  <2>1. \A i \in W : i < n <=> i < n - 1
    <3> HIDE DEF W
    <3> QED BY <1>1, <1>5
  <2> QED BY <2>1 DEF RegCheck!Forwarders
<1> QED BY <1>3, <1>4, <1>5 DEF W

\* What a lower channel last wrote is what the program holds.
Ran(in, n, r) ==
  RegCheck!Executed(in)[n][r] =
    IF RegCheck!Forwarders(in, n, r) = {} THEN written[r]
    ELSE in[RegCheck!Last(RegCheck!Forwarders(in, n, r))].wdata

LEMMA ForwardingIsExecution ==
  ASSUME NEW in \in RegCheck!Inputs, written \in RegStates
  PROVE  \A n \in 0 .. RegNRet : /\ RegCheck!Executed(in)[n] \in RegStates
                                 /\ \A r \in Regs : Ran(in, n, r)
<1> DEFINE e == RegCheck!Executed(in)
           P == {n \in 0 .. RegNRet : e[n] \in RegStates /\ \A r \in Regs : Ran(in, n, r)}
<1>1. RegNRet \in Nat
  BY RegConstants
<1>2. 0 \in P
  <2>1. e[0] = written
    BY ExecutedIsLoop
  <2>2. \A r \in Regs : Ran(in, 0, r)
    BY <2>1, ForwardersStep DEF Ran
  <2> QED BY <1>1, <2>1, <2>2
<1>3. ASSUME NEW n \in 1 .. RegNRet, n - 1 \in P PROVE n \in P
  <2>1. n \in 0 .. RegNRet /\ n - 1 \in 0 .. RegNRet - 1
    BY <1>1
  <2>2. e[n - 1] \in RegStates /\ \A r \in Regs : Ran(in, n - 1, r)
    BY <1>3
  <2>3. e[n] = IF in[n - 1] = NoInsn THEN e[n - 1]
               ELSE [e[n - 1] EXCEPT ![in[n - 1].rd] = in[n - 1].wdata]
    BY ExecutedIsLoop
  <2>4. in[n - 1] = NoInsn \/ (n - 1 \in RegCheck!Valid(in) /\ in[n - 1] /= NoInsn)
    BY <2>1 DEF RegCheck!Valid, RegCheck!Channels
  <2>5. e[n] \in RegStates
    <3>1. CASE in[n - 1] = NoInsn
      BY <2>2, <2>3, <3>1
    <3>2. CASE in[n - 1] /= NoInsn
      <4>1. in[n - 1].wdata \in Values
        BY <2>4, <3>2, RegInsnTypes
      <4> HIDE DEF e, P
      <4> QED BY <2>2, <2>3, <3>2, <4>1 DEF RegStates
    <3> QED BY <3>1, <3>2
  <2>6. ASSUME NEW r \in Regs PROVE Ran(in, n, r)
    <3>1. CASE n - 1 \in RegCheck!Writers(in, r)
      <4>1. in[n - 1] /= NoInsn /\ in[n - 1].rd = r
        BY <3>1 DEF RegCheck!Writers, RegCheck!Valid
      <4>2. e[n] = [e[n - 1] EXCEPT ![r] = in[n - 1].wdata]
        BY <2>3, <4>1
      <4>3. e[n][r] = in[n - 1].wdata
        <5> HIDE DEF e, P
        <5> QED BY <2>2, <4>2 DEF RegStates
      <4> QED BY <3>1, <4>3, ForwardersStep DEF Ran
    <3>2. CASE n - 1 \notin RegCheck!Writers(in, r)
      <4>1. e[n][r] = e[n - 1][r]
        <5>1. CASE in[n - 1] = NoInsn
          BY <2>3, <5>1
        <5>2. CASE in[n - 1] /= NoInsn
          <6>1. in[n - 1].rd /= r
            BY <2>4, <3>2, <5>2 DEF RegCheck!Writers
          <6> HIDE DEF e, P
          <6> QED BY <2>2, <2>3, <5>2, <6>1 DEF RegStates
        <5> QED BY <5>1, <5>2
      <4>2. RegCheck!Forwarders(in, n, r) = RegCheck!Forwarders(in, n - 1, r)
        BY <3>2, ForwardersStep
      <4>3. Ran(in, n - 1, r)
        BY <2>2
      <4> QED BY <4>1, <4>2, <4>3 DEF Ran
    <3> QED BY <3>1, <3>2
  <2> QED BY <2>1, <2>5, <2>6
<1>4. \A n \in 0 .. RegNRet : n \in P
  <2> HIDE DEF P
  <2> QED BY <1>1, <1>2, <1>3, RangeInduction
<1> QED BY <1>4

\* The shadow registers hold what the program last wrote, where they are valid.
RegInv ==
  /\ written \in RegStates
  /\ shadow_xregs_valid = {r \in Regs : written[r] /= Unknown}
  /\ shadow_xregs \in [Regs -> Values]
  /\ \A r \in shadow_xregs_valid : shadow_xregs[r] = written[r]

\* What a channel is told of a register: the program's value where one is
\* known.
LEMMA SeesProgram ==
  ASSUME RegInv, NEW in \in RegCheck!Inputs, NEW n \in 0 .. RegNRet, NEW r \in Regs
  PROVE  /\ RegCheck!Known(in, n, r) <=> RegCheck!Executed(in)[n][r] /= Unknown
         /\ RegCheck!Known(in, n, r) =>
              RegCheck!Sees(in, n, r) = RegCheck!Executed(in)[n][r]
<1> DEFINE F == RegCheck!Forwarders(in, n, r)
<1>1. RegCheck!Executed(in)[n][r]
        = IF F = {} THEN written[r] ELSE in[RegCheck!Last(F)].wdata
  BY ForwardingIsExecution DEF RegInv, Ran
<1>2. CASE F = {}
  BY <1>1, <1>2 DEF RegCheck!Known, RegCheck!Sees, RegInv
<1>3. CASE F /= {}
  <2>1. F \subseteq RegCheck!Valid(in) /\ F \subseteq 0 .. RegNRet - 1
    BY RegInsnTypes DEF RegCheck!Forwarders, RegCheck!Writers
  <2>2. RegCheck!Last(F) \in RegCheck!Valid(in)
    <3> HIDE DEF F
    <3> QED BY <1>3, <2>1, LastRegChannel
  <2>3. in[RegCheck!Last(F)].wdata \in Values /\ Unknown \notin Values
    BY <2>2, RegInsnTypes, RegConstants
  <2> QED BY <1>1, <1>3, <2>3 DEF RegCheck!Known, RegCheck!Sees
<1> QED BY <1>2, <1>3

\* A channel reports an error just when it reads something stale.
LEMMA ErrorIsStale ==
  ASSUME RegInv, NEW in \in RegCheck!Inputs, NEW c \in RegCheck!Valid(in)
  PROVE  RegCheck!Error(in, c) /= 0 <=> RegCheck!ReadsStale(in, c)
<1>1. c \in 0 .. RegNRet
  BY RegInsnTypes, RegConstants
<1>2. \A op \in {"rs1", "rs2"} :
        RegCheck!Wrong(in, c, op)
          <=> RegCheck!Executed(in)[c][in[c].addr[op]] \notin {Unknown, in[c].rdata[op]}
  BY <1>1, SeesProgram, RegInsnTypes DEF RegCheck!Wrong
<1>3. RegCheck!Error(in, c) /= 0
        <=> RegCheck!Wrong(in, c, "rs1") \/ RegCheck!Wrong(in, c, "rs2")
  BY DEF RegCheck!Error, RegCheck!Rs1Mismatch, RegCheck!Rs2Mismatch
<1> QED BY <1>2, <1>3 DEF RegCheck!ReadsStale, RegCheck!Operands

\* The registers after a clock edge: what the last channel to write them left.
LEMMA WrittenAfter ==
  ASSUME RegInv, NEW in \in RegCheck!Inputs, RegCheck!Check(in)
  PROVE  /\ written' \in RegStates
         /\ \A r \in Regs : written'[r] = IF RegCheck!Writers(in, r) = {} THEN written[r]
                                          ELSE in[RegCheck!Last(RegCheck!Writers(in, r))].wdata
<1>1. RegNRet \in Nat /\ RegNRet \in 0 .. RegNRet
  BY RegConstants
<1>2. written' = RegCheck!Executed(in)[RegNRet]
  BY DEF RegCheck!Check
<1>3. /\ written' \in RegStates
      /\ \A r \in Regs : Ran(in, RegNRet, r)
  BY <1>1, <1>2, ForwardingIsExecution DEF RegInv
<1>4. \A r : RegCheck!Forwarders(in, RegNRet, r) = RegCheck!Writers(in, r)
  <2> SUFFICES ASSUME NEW r
               PROVE  RegCheck!Forwarders(in, RegNRet, r) = RegCheck!Writers(in, r)
    OBVIOUS
  <2>1. \A i \in RegCheck!Writers(in, r) : i < RegNRet
    BY <1>1 DEF RegCheck!Writers, RegCheck!Valid, RegCheck!Channels
  <2> QED BY <2>1 DEF RegCheck!Forwarders
<1> QED BY <1>2, <1>3, <1>4 DEF Ran

\* A clock edge keeps the shadow registers in step with the program.
LEMMA CheckRegInv ==
  ASSUME RegInv, NEW in \in RegCheck!Inputs, RegCheck!Check(in)
  PROVE  RegInv' /\ RegVerdictExact'
<1>1. ASSUME NEW r \in Regs, RegCheck!Writers(in, r) /= {}
      PROVE  /\ in[RegCheck!Last(RegCheck!Writers(in, r))].wdata \in Values
             /\ \E c \in RegCheck!Valid(in) : in[c].rd = r
  <2> DEFINE W == RegCheck!Writers(in, r)
  <2>1. W \subseteq RegCheck!Valid(in) /\ W \subseteq 0 .. RegNRet - 1 /\ W /= {}
    BY <1>1, RegInsnTypes DEF RegCheck!Writers
  <2>2. RegCheck!Last(W) \in W
    <3> HIDE DEF W
    <3> QED BY <2>1, LastRegChannel
  <2> QED BY <2>1, <2>2, RegInsnTypes DEF RegCheck!Writers
<1>2. ASSUME NEW c \in RegCheck!Valid(in)
      PROVE  in[c].rd \in Regs /\ RegCheck!Writers(in, in[c].rd) /= {}
  BY RegInsnTypes DEF RegCheck!Writers
<1>3. /\ shadow_xregs_valid' = shadow_xregs_valid \cup {in[c].rd : c \in RegCheck!Valid(in)}
      /\ shadow_xregs' = [r \in Regs |-> RegCheck!NextXreg(in, r)]
  BY DEF RegCheck!Check
<1>4. \A r \in Regs :
        /\ RegCheck!NextXreg(in, r) \in Values
        /\ RegCheck!NextXreg(in, r)
             = IF RegCheck!Writers(in, r) = {} THEN shadow_xregs[r] ELSE written'[r]
  BY <1>1, WrittenAfter DEF RegCheck!NextXreg, RegInv
<1>5. \A r \in Regs : written'[r] /= Unknown
        <=> RegCheck!Writers(in, r) /= {} \/ written[r] /= Unknown
  BY <1>1, WrittenAfter, RegConstants
<1>6. \A r : r \in shadow_xregs_valid'
        <=> r \in Regs /\ (RegCheck!Writers(in, r) /= {} \/ written[r] /= Unknown)
  BY <1>1, <1>2, <1>3 DEF RegInv
<1>7. shadow_xregs_valid' = {r \in Regs : written'[r] /= Unknown}
  BY <1>5, <1>6
<1>8. ASSUME NEW r \in shadow_xregs_valid' PROVE shadow_xregs'[r] = written'[r]
  <2>1. r \in Regs /\ shadow_xregs'[r] = RegCheck!NextXreg(in, r)
    BY <1>3, <1>6
  <2>2. CASE RegCheck!Writers(in, r) = {}
    <3>1. written[r] /= Unknown /\ written'[r] = written[r]
      BY <1>6, <2>1, <2>2, WrittenAfter
    <3> QED BY <1>4, <2>1, <2>2, <3>1 DEF RegInv
  <2>3. CASE RegCheck!Writers(in, r) /= {}
    BY <1>4, <2>1, <2>3
  <2> QED BY <2>2, <2>3
<1>9. RegInv'
  <2>1. shadow_xregs' \in [Regs -> Values]
    BY <1>3, <1>4
  <2> QED BY <1>7, <1>8, <2>1, WrittenAfter DEF RegInv, RegStates
<1>10. RegVerdictExact'
  <2> SUFFICES ASSUME NEW c \in RegCheck!Channels
               PROVE  errcode_r'[c] /= 0 <=> c \in stale'
    BY DEF RegVerdictExact, RegCheck!VerdictExact
  <2>1. /\ errcode_r'[c] = IF c \in RegCheck!Valid(in) THEN RegCheck!Error(in, c) ELSE 0
        /\ stale' = {d \in RegCheck!Valid(in) : RegCheck!ReadsStale(in, d)}
    BY DEF RegCheck!Check
  <2> QED BY <2>1, ErrorIsStale
<1> QED BY <1>9, <1>10

LEMMA ResetRegInv == ASSUME RegInv, RegCheck!Reset PROVE RegInv' /\ RegVerdictExact'
<1>1. /\ errcode_r' = [c \in RegCheck!Channels |-> 0]
      /\ shadow_xregs_valid' = {0}
      /\ shadow_xregs' = [shadow_xregs EXCEPT ![0] = 0]
      /\ written' = [r \in Regs |-> IF r = 0 THEN 0 ELSE Unknown]
      /\ stale' = {}
  BY DEF RegCheck!Reset
<1>2. 0 \in Regs /\ 0 \in Values /\ 0 /= Unknown
  BY RegConstants
<1>3. RegInv'
  BY <1>1, <1>2 DEF RegInv, RegStates
<1>4. RegVerdictExact'
  BY <1>1 DEF RegVerdictExact, RegCheck!VerdictExact
<1> QED BY <1>3, <1>4

\* The verdict on the registers does not depend on how the program is spread
\* over channels and clock edges.
THEOREM RegVerdict == RegCheck!Spec => []RegVerdictExact
<1>1. RegCheck!Init => RegInv /\ RegVerdictExact
  BY RegConstants
  DEF RegCheck!Init, RegInv, RegStates, RegVerdictExact, RegCheck!VerdictExact
<1>2. RegInv /\ RegVerdictExact /\ [RegCheck!Next]_RegCheck!vars
        => RegInv' /\ RegVerdictExact'
  <2> SUFFICES ASSUME RegInv, RegVerdictExact, [RegCheck!Next]_RegCheck!vars
               PROVE  RegInv' /\ RegVerdictExact'
    OBVIOUS
  <2>1. CASE UNCHANGED RegCheck!vars
    BY <2>1 DEF RegCheck!vars, RegInv, RegVerdictExact, RegCheck!VerdictExact
  <2>2. CASE RegCheck!Next
    BY <2>2, CheckRegInv, ResetRegInv DEF RegCheck!Next
  <2> QED BY <2>1, <2>2
<1> QED BY <1>1, <1>2, PTL DEF RegCheck!Spec

=============================================================================
