--------------------------- MODULE MCRvfiInsnCheck ---------------------------
(***************************************************************************)
(* Model-checking instance of RvfiInsnCheck: what models say of arithmetic *)
(* instructions, loads and stores of one and of two bytes, and words       *)
(* without a model; a core that does so except in two respects, or in one  *)
(* where the address of the instruction or of the access is wrong.         *)
(***************************************************************************)
EXTENDS RvfiInsnCheck

Words == [Lanes -> Bytes]
Zeros == [l \in Lanes |-> 0]
Patterns == {Zeros, [Zeros EXCEPT ![0] = 1]}
Unread == [op \in Operands |-> 0]

\* The outputs of the models: rd and its value, then memory.
Alu == {[trap |-> t, rs_addr |-> a, rd_addr |-> rd, rd_wdata |-> IF rd = 0 THEN 0 ELSE 1,
         pc_wdata |-> 0, mem_addr |-> 0, mem_rmask |-> {}, mem_wmask |-> {},
         mem_wdata |-> Zeros] :
          t \in BOOLEAN, a \in {Unread, [Unread EXCEPT !["rs1"] = 1]}, rd \in Regs}
Loads == {[o EXCEPT !.mem_rmask = m] : o \in Alu, m \in SUBSET Lanes \ {{}}}
Stores == {[o EXCEPT !.mem_wmask = m, !.mem_wdata = d] :
             o \in {p \in Alu : p.rd_addr = 0}, m \in SUBSET Lanes \ {{}}, d \in Patterns}

\* A core that does what s says and reads bytes d, and one that faults.
Honest(s, d) ==
  [trap |-> s.trap, zero |-> FALSE, rs_addr |-> s.rs_addr, rs_rdata |-> s.rs_addr,
   rd_addr |-> s.rd_addr, rd_wdata |-> s.rd_wdata, pc_wdata |-> s.pc_wdata,
   mem_addr |-> s.mem_addr, mem_rmask |-> s.mem_rmask, mem_wmask |-> s.mem_wmask,
   mem_rdata |-> d, mem_wdata |-> s.mem_wdata,
   mem_fault |-> FALSE, fault_rmask |-> {}, fault_wmask |-> {}, mcause |-> 1,
   mcause_wmask |-> TRUE]
Faulting(s, cause) ==
  [Honest(s, Zeros) EXCEPT
     !.trap = TRUE, !.rd_addr = 0, !.rd_wdata = 0, !.mem_rmask = {}, !.mem_wmask = {},
     !.mem_fault = TRUE, !.fault_rmask = s.mem_rmask, !.fault_wmask = s.mem_wmask,
     !.mcause = cause]

\* Cores that differ from r in one respect.
Departures(r) ==
  UNION {{[r EXCEPT !.trap = ~@]}, {[r EXCEPT !.zero = ~@]},
         {[r EXCEPT !.rs_addr["rs1"] = 1 - @]}, {[r EXCEPT !.rs_rdata["rs1"] = 1 - @]},
         {[r EXCEPT !.rd_addr = 1 - @]}, {[r EXCEPT !.rd_wdata = 1 - @]},
         {[r EXCEPT !.pc_wdata = 1 - @]}, {[r EXCEPT !.mem_addr = 1 - @]},
         {[r EXCEPT !.mem_rmask = m] : m \in SUBSET Lanes},
         {[r EXCEPT !.mem_wmask = m] : m \in SUBSET Lanes},
         {[r EXCEPT !.mem_wdata = d] : d \in Words},
         {[r EXCEPT !.mem_fault = ~@]}, {[r EXCEPT !.mcause_wmask = ~@]},
         {[r EXCEPT !.fault_rmask = m] : m \in SUBSET Lanes},
         {[r EXCEPT !.fault_wmask = m] : m \in SUBSET Lanes}}

On(r, s, pc_ok, mem_ok) == [rvfi |-> r, spec |-> s, pc_ok |-> pc_ok, mem_ok |-> mem_ok]
Places == {<<TRUE, TRUE>>, <<FALSE, TRUE>>, <<TRUE, FALSE>>}

Cores(s) ==
  {Honest(s, d) : d \in IF s.mem_wmask = {} THEN {Zeros} ELSE Patterns}
  \cup {Faulting(s, c) : c \in Causes}

\* The channel is idle between two instructions.
Busy ==
  /\ ch = NoInsn /\ judged = NoInsn
  /\ \E s \in UNION {Alu, Loads, Stores}, p \in Places, known \in BOOLEAN :
     \E r \in Cores(s) : \E q \in Departures(r) :
     \E r2 \in IF p = <<TRUE, TRUE>> THEN Departures(q) ELSE {q} :
       /\ known \/ (p = <<TRUE, TRUE>> /\ s.rd_addr = 0)
       /\ Clock(On(r2, IF known THEN s ELSE NoInsn, p[1], p[2]))
Rest == (ch /= NoInsn \/ judged /= NoInsn) /\ Clock(NoInsn)

MCNext == Busy \/ Rest
=============================================================================
