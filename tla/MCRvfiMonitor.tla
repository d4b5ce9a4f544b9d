---------------------------- MODULE MCRvfiMonitor ----------------------------
(***************************************************************************)
(* Model-checking instance of RvfiMonitor.  The program increments a       *)
(* register and jumps between two pcs; the cores get one of its            *)
(* instructions wrong in one way, or two in a row, or none.                *)
(*                                                                         *)
(* The set of orders bounds the run; the memory array of the buffer powers *)
(* up full of one stale packet (what it holds does not matter, which       *)
(* MCRvfiMonitorChecks checks).                                            *)
(***************************************************************************)
EXTENDS RvfiMonitor

\* Instruction o as it should be: it reads what o - 1 wrote to x1.
Right(o) ==
  [pc |-> o % 2, npc |-> (o + 1) % 2, intr |-> FALSE, trap |-> FALSE,
   addr |-> [op \in {"rs1", "rs2"} |-> IF op = "rs1" THEN 1 ELSE 0],
   rdata |-> [op \in {"rs1", "rs2"} |-> IF op = "rs1" THEN (o + 1) % 2 ELSE 0],
   rd |-> 1, wdata |-> o % 2, insn_error |-> 0]

\* Ways to get it wrong; "trap" and "handler" are legal for a trap and its
\* handler.  After "zero", which writes x0, "read" is right to read an older x1.
Ways == {"pc", "read", "x0", "insn", "trap", "handler"}
Wrong(d, way) ==
  CASE way = "pc" -> [d EXCEPT !.pc = 1 - @]
    [] way = "read" -> [d EXCEPT !.rdata["rs1"] = 1 - @]
    [] way = "x0" -> [d EXCEPT !.rdata["rs2"] = 1]
    [] way = "zero" -> [d EXCEPT !.rd = 0, !.wdata = 1]
    [] way = "insn" -> [d EXCEPT !.insn_error = 5]
    [] way = "trap" -> [d EXCEPT !.trap = TRUE]
    [] way = "handler" -> [d EXCEPT !.pc = 1 - @, !.intr = TRUE]

Rights == [o \in Orders |-> Right(o)]
Errors == {"pc", "read", "insn"}
MCPrograms ==
  {Rights}
  \cup {[Rights EXCEPT ![o] = Wrong(@, w)] : o \in {1, 2, Depth} \cap Orders, w \in Ways}
  \cup {[Rights EXCEPT ![1] = Wrong(@, v), ![2] = Wrong(@, w)] : v \in Errors \cup {"zero"},
                                                           w \in Errors}
  \cup {[Rights EXCEPT ![1] = Wrong(@, "trap"), ![2] = Wrong(@, w)] : w \in Ways}
MCData == {f[o] : f \in MCPrograms, o \in Orders}

OneContents == {[s \in Slots |-> [order |-> 1, data |-> Right(1)]]}

\* The registers that reset leaves alone power up with 1.
MCInit == MonitorInit /\ shadow_pc = 1 /\ \A r \in Regs \ {0} : shadow_xregs[r] = 1
MCSpec == MCInit /\ [][MonitorNext]_monitorVars /\ MonitorFairness
=============================================================================
