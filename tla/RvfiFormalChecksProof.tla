----------------------- MODULE RvfiFormalChecksProof ------------------------
(***************************************************************************)
(* Proofs about the formal checks of the test bench, for every number of   *)
(* channels and buses, set of orders, pcs and values, and choice of reset, *)
(* trigger and check cycles.  First the checks that judge in one check     *)
(* cycle: uniqueness, liveness and hang, those that follow a CSR, and the  *)
(* register check.  Then those of two instructions that follow each other: *)
(* the forward and backward pc checks, and the checks that i/o accesses    *)
(* reach the bus in program order.  Last the register and causal checks of *)
(* all instructions of a program together.                                 *)
(***************************************************************************)
EXTENDS MCRvfiFormalChecks, TLAPS, RvfiOrderTheorems, SequenceTheorems

\* The jobs have the bench and its assumptions in common.
LEMMA BenchAssumptions ==
  /\ Reg!TestbenchAssumption /\ Reg!RegCheckAssumption
  /\ Order!TestbenchAssumption /\ Csr!TestbenchAssumption
BY FormalChecksAssumption
   DEF Reg!TestbenchAssumption, Order!TestbenchAssumption, Csr!TestbenchAssumption,
       Reg!Channels, Order!Channels, Csr!Channels

-----------------------------------------------------------------------------
(***************************************************************************)
(* The uniqueness, liveness and hang checks.                               *)
(***************************************************************************)
\* The instruction of the trigger cycle, as seen remembers it.
Triggered == <<insn_order, TrigCycle, ChannelIdx>>

\* The bench: what has been seen was seen after the reset and before this
\* cycle, and no verdict comes before the check cycle.
BenchInv ==
  /\ cycle \in 0 .. CheckCycle + 1
  /\ found \in BOOLEAN /\ retire_failed \in BOOLEAN
  /\ \A s \in seen : s[2] \in ResetCycles .. cycle - 1
  /\ ~Order!Judged => ~retire_failed

\* The uniqueness check tells the triggering instruction from all others.
UniqueInv ==
  kind = "unique" =>
    /\ cycle <= TrigCycle => (found <=> Order!Retirements(insn_order) /= {})
    /\ cycle > TrigCycle =>
         /\ Triggered \in seen
         /\ found <=> \E s \in Order!Retirements(insn_order) : s /= Triggered
    /\ Order!Judged => (retire_failed <=> found)

\* The liveness check has found every successor, the hang check everything
\* but what retires in the check cycle.
ProgressInv ==
  /\ kind = "liveness" =>
       /\ found <=> Order!Retirements(insn_order + 1) /= {}
       /\ Order!Judged => (retire_failed <=> ~found)
  /\ kind = "hang" =>
       /\ ~Order!Judged => (found <=> seen /= {})
       /\ Order!Judged => (retire_failed <=> \A s \in seen : s[2] = CheckCycle)

OrderInv == BenchInv /\ UniqueInv /\ ProgressInv

-----------------------------------------------------------------------------
\* Nothing has been seen in the initial state.
LEMMA InitOrderInv == Order!TestbenchAssumption /\ Order!Init => OrderInv
<1> SUFFICES ASSUME Order!TestbenchAssumption, Order!Init PROVE OrderInv
  OBVIOUS
<1>1. /\ cycle = 0 /\ seen = {} /\ ~found /\ ~retire_failed
      /\ found \in BOOLEAN /\ retire_failed \in BOOLEAN
  BY DEF Order!Init, Order!TbInit
<1>2. ~Order!Judged /\ cycle \in 0 .. CheckCycle + 1 /\ ~(cycle > TrigCycle)
  BY <1>1 DEF Order!Judged, Order!TestbenchAssumption
<1>3. \A o : Order!Retirements(o) = {}
  BY <1>1 DEF Order!Retirements
<1> QED BY <1>1, <1>2, <1>3 DEF OrderInv, BenchInv, UniqueInv, ProgressInv

\* Time goes on up to the cycle after the check.
LEMMA TickInRange ==
  ASSUME Order!TestbenchAssumption, cycle \in 0 .. CheckCycle, Order!Tick
  PROVE  cycle' = cycle + 1 /\ cycle' \in 0 .. CheckCycle + 1
BY DEF Order!TestbenchAssumption, Order!Tick

\* A clock edge adds the channels that carry an order to its retirements.
LEMMA MoreRetirements ==
  ASSUME NEW in, NEW o, seen' = seen \cup {<<in[c].order, cycle,
         c>> : c \in Order!Valid(in)}
  PROVE  Order!Retirements(o)'
           = Order!Retirements(o) \cup {<<o, cycle, c>> : c \in Order!Carries(in, o)}
<1>1. \A c \in Order!Valid(in) : <<in[c].order, cycle, c>>[1] = in[c].order
  OBVIOUS
<1>2. \A s : s \in Order!Retirements(o)' <=> s \in seen' /\ s[1] = o
  BY DEF Order!Retirements
<1>3. \A s : s \in seen' <=>
        s \in seen \/ \E c \in Order!Valid(in) : s = <<in[c].order, cycle, c>>
  OBVIOUS
<1>4. \A s : s \in Order!Retirements(o)' <=>
        s \in Order!Retirements(o) \/ \E c \in Order!Carries(in, o) : s = <<o, cycle, c>>
  BY <1>1, <1>2, <1>3 DEF Order!Retirements, Order!Carries
<1> QED BY <1>4

\* In reset nothing is seen.
LEMMA ResetKeeps ==
  ASSUME Order!TestbenchAssumption, OrderInv, cycle <= CheckCycle, Order!Tick,
         UNCHANGED <<kind, insn_order>>, NEW in \in Order!Inputs, Order!InReset(in)
  PROVE  OrderInv'
<1>1. cycle' = cycle + 1 /\ cycle' \in 0 .. CheckCycle + 1 /\ cycle < ResetCycles
  BY TickInRange
  DEF OrderInv, BenchInv, Order!TestbenchAssumption, Order!InReset, Order!reset
<1>2. seen = {} /\ seen' = {}
  BY <1>1 DEF OrderInv, BenchInv, Order!TestbenchAssumption, Order!InReset
<1>3. ~found' /\ ~retire_failed' /\ found' \in BOOLEAN /\ retire_failed' \in BOOLEAN
  <2>1. ~Order!Judged
    BY <1>1 DEF OrderInv, BenchInv, Order!TestbenchAssumption, Order!Judged
  <2>2. ~retire_failed /\ retire_failed \in BOOLEAN
    BY <2>1 DEF OrderInv, BenchInv
  <2>3. found' = FALSE /\ retire_failed' = retire_failed
    BY DEF Order!InReset
  <2>4. ~found' /\ found' \in BOOLEAN
    BY <2>3
  <2>5. ~retire_failed' /\ retire_failed' \in BOOLEAN
    BY <2>2, <2>3, Zenon
  <2> QED BY <2>4, <2>5
<1>4. cycle' <= TrigCycle /\ ~Order!Judged'
  BY <1>1 DEF OrderInv, BenchInv, Order!TestbenchAssumption, Order!Judged
<1>5. BenchInv'
  BY <1>1, <1>2, <1>3, <1>4 DEF BenchInv
<1>6. \A o : Order!Retirements(o)' = {}
  BY <1>2 DEF Order!Retirements
<1>7. UniqueInv' /\ ProgressInv'
  BY <1>1, <1>2, <1>3, <1>4, <1>6 DEF UniqueInv, ProgressInv, Order!TestbenchAssumption
<1> QED BY <1>5, <1>7 DEF OrderInv

-----------------------------------------------------------------------------
\* What an edge after the reset does to the bench.
LEMMA EdgeBench ==
  ASSUME Order!TestbenchAssumption, OrderInv, cycle <= CheckCycle, Order!Tick,
         UNCHANGED <<kind, insn_order>>, NEW in \in Order!Inputs, Order!Edge(in)
  PROVE  /\ BenchInv'
         /\ cycle \in ResetCycles .. CheckCycle /\ cycle' = cycle + 1
         /\ Order!Judged' <=> cycle = CheckCycle
         /\ retire_failed' <=> cycle = CheckCycle /\ Order!Fails(in)
         /\ \A o : Order!Retirements(o)'
                     = Order!Retirements(o) \cup {<<o, cycle, c>> : c \in Order!Carries(in, o)}
<1>1. /\ cycle \in ResetCycles .. CheckCycle
      /\ cycle' = cycle + 1 /\ cycle' \in 0 .. CheckCycle + 1
  BY TickInRange
  DEF OrderInv, BenchInv, Order!TestbenchAssumption, Order!Edge, Order!reset
<1>2. (Order!Judged' <=> cycle = CheckCycle) /\ ~Order!Judged
  BY <1>1 DEF Order!Judged, Order!TestbenchAssumption
<1>3. ~retire_failed
  BY <1>2 DEF OrderInv, BenchInv
<1>4. retire_failed' <=> cycle = CheckCycle /\ Order!Fails(in)
  BY <1>3 DEF Order!Edge, Order!check
<1>5. found' \in BOOLEAN /\ retire_failed' \in BOOLEAN
  BY DEF Order!Edge
<1>6. \A s \in seen' : s[2] \in ResetCycles .. cycle' - 1
  <2> SUFFICES ASSUME NEW s \in seen' PROVE s[2] \in ResetCycles .. cycle' - 1
    OBVIOUS
  <2>1. CASE s \in seen
    BY <1>1, <2>1 DEF OrderInv, BenchInv, Order!TestbenchAssumption
  <2>2. CASE \E c \in Order!Valid(in) : s = <<in[c].order, cycle, c>>
    <3>1. s[2] = cycle
      BY <2>2
    <3> QED BY <1>1, <3>1 DEF Order!TestbenchAssumption
  <2> QED BY <2>1, <2>2 DEF Order!Edge
<1>7. BenchInv'
  BY <1>1, <1>2, <1>4, <1>5, <1>6 DEF BenchInv
<1>8. seen' = seen \cup {<<in[c].order, cycle, c>> : c \in Order!Valid(in)}
  BY DEF Order!Edge
<1> QED BY <1>1, <1>2, <1>4, <1>7, <1>8, MoreRetirements

\* An edge keeps the invariant of the uniqueness check.
LEMMA EdgeUnique ==
  ASSUME Order!TestbenchAssumption, OrderInv, cycle <= CheckCycle, Order!Tick,
         UNCHANGED <<kind, insn_order>>, NEW in \in Order!Inputs, Order!Edge(in),
         kind = "unique"
  PROVE  UniqueInv'
<1> DEFINE New == {<<insn_order, cycle, c>> : c \in Order!Carries(in, insn_order)}
<1>1. /\ cycle \in ResetCycles .. CheckCycle /\ cycle' = cycle + 1
      /\ Order!Judged' <=> cycle = CheckCycle
      /\ retire_failed' <=> cycle = CheckCycle /\ Order!Fails(in)
      /\ Order!Retirements(insn_order)' = Order!Retirements(insn_order) \cup New
  <2>1. Order!Retirements(insn_order)' = {s \in seen' : s[1] = insn_order}
    BY DEF Order!Retirements
  <2> QED BY EdgeBench, <2>1 DEF Order!Retirements
<1>2. found' <=> found \/ Order!Others(in) /= {}
  BY DEF Order!Edge, Order!Finds
<1>3. Order!Fails(in) <=> found'
  BY DEF Order!Fails, Order!Edge
<1>4. Order!Judged' => (retire_failed' <=> found')
  BY <1>1, <1>3
<1>5. CASE cycle < TrigCycle
  <2>1. Order!Others(in) = Order!Carries(in, insn_order)
    BY <1>1, <1>5 DEF Order!Others, Order!trig, Order!TestbenchAssumption
  <2>2. found <=> Order!Retirements(insn_order) /= {}
    BY <1>1, <1>5 DEF OrderInv, UniqueInv, Order!TestbenchAssumption
  <2>3. found' <=> Order!Retirements(insn_order)' /= {}
    BY <1>1, <1>2, <2>1, <2>2, ZenonT(120)
  <2>4. cycle' <= TrigCycle
    BY <1>1, <1>5 DEF Order!TestbenchAssumption
  <2>5. (found <=> Order!Retirements(insn_order) /= {})'
    BY <2>3 DEF Order!Retirements
  <2> QED BY <1>1, <1>4, <2>4, <2>5 DEF UniqueInv, Order!TestbenchAssumption
<1>6. CASE cycle = TrigCycle
  <2>1. ChannelIdx \in Order!Carries(in, insn_order)
    BY <1>6 DEF Order!Edge, Order!Assumed, Order!trig
  <2>2. Order!Others(in) = Order!Carries(in, insn_order) \ {ChannelIdx}
    BY <1>6 DEF Order!Others, Order!trig
  <2>3. found <=> Order!Retirements(insn_order) /= {}
    BY <1>1, <1>6 DEF OrderInv, UniqueInv, Order!TestbenchAssumption
  <2>4. Triggered \in New /\ Triggered \in Order!Retirements(insn_order)'
    BY <1>1, <1>6, <2>1 DEF Triggered
  <2>5. \A s \in Order!Retirements(insn_order) : s /= Triggered
    BY <1>1, <1>6
    DEF OrderInv, BenchInv, Order!Retirements, Triggered, Order!TestbenchAssumption
  <2>6. (\E s \in New : s /= Triggered) <=> Order!Others(in) /= {}
    <3>1. \A c : <<insn_order, cycle, c>> = Triggered <=> c = ChannelIdx
      BY <1>6 DEF Triggered
    <3> QED BY <2>2, <3>1
  <2>7. found' <=> \E s \in Order!Retirements(insn_order)' : s /= Triggered
    BY <1>1, <1>2, <2>3, <2>5, <2>6
  <2>8. cycle' > TrigCycle
    BY <1>1, <1>6 DEF Order!TestbenchAssumption
  <2>9. Triggered' = Triggered
    BY DEF Triggered
  <2>10. /\ (Triggered \in seen)'
         /\ (found <=> \E s \in Order!Retirements(insn_order) : s /= Triggered)'
    BY <2>4, <2>7, <2>9 DEF Order!Retirements
  <2> QED BY <1>1, <1>4, <1>6, <2>8, <2>10 DEF UniqueInv, Order!TestbenchAssumption
<1>7. CASE cycle > TrigCycle
  <2>1. Order!Others(in) = Order!Carries(in, insn_order)
    BY <1>1, <1>7 DEF Order!Others, Order!trig, Order!TestbenchAssumption
  <2>2. /\ Triggered \in seen
        /\ found <=> \E s \in Order!Retirements(insn_order) : s /= Triggered
    BY <1>7 DEF OrderInv, UniqueInv
  <2>3. \A s \in New : s /= Triggered
    BY <1>1, <1>7 DEF Triggered, Order!TestbenchAssumption
  <2>4. found' <=> \E s \in Order!Retirements(insn_order)' : s /= Triggered
    BY <1>1, <1>2, <2>1, <2>2, <2>3
  <2>5. Triggered' = Triggered /\ Triggered \in seen'
    BY <2>2 DEF Triggered, Order!Edge
  <2>6. cycle' > TrigCycle
    BY <1>1, <1>7 DEF Order!TestbenchAssumption
  <2>7. /\ (Triggered \in seen)'
        /\ (found <=> \E s \in Order!Retirements(insn_order) : s /= Triggered)'
    BY <2>4, <2>5 DEF Order!Retirements
  <2> QED BY <1>1, <1>4, <1>7, <2>6, <2>7 DEF UniqueInv, Order!TestbenchAssumption
<1> QED BY <1>1, <1>5, <1>6, <1>7 DEF Order!TestbenchAssumption

\* An edge keeps the invariant of the liveness and hang checks.
LEMMA EdgeProgress ==
  ASSUME Order!TestbenchAssumption, OrderInv, cycle <= CheckCycle, Order!Tick,
         UNCHANGED <<kind, insn_order>>, NEW in \in Order!Inputs, Order!Edge(in)
  PROVE  ProgressInv'
<1>1. /\ cycle \in ResetCycles .. CheckCycle /\ cycle' = cycle + 1
      /\ Order!Judged' <=> cycle = CheckCycle
      /\ retire_failed' <=> cycle = CheckCycle /\ Order!Fails(in)
  BY EdgeBench
<1>2. ASSUME kind = "liveness"
      PROVE  (found <=> Order!Retirements(insn_order + 1) /= {})'
  <2>1. Order!Retirements(insn_order + 1)' = Order!Retirements(insn_order + 1)
          \cup {<<insn_order + 1, cycle, c>> : c \in Order!Carries(in, insn_order + 1)}
    BY MoreRetirements DEF Order!Edge, Order!Retirements
  <2>2. found' <=> found \/ Order!Carries(in, insn_order + 1) /= {}
    BY <1>2 DEF Order!Edge, Order!Finds
  <2>3. found <=> Order!Retirements(insn_order + 1) /= {}
    BY <1>2 DEF OrderInv, ProgressInv
  <2> QED BY <2>1, <2>2, <2>3
<1>3. ASSUME kind = "liveness", Order!Judged'
      PROVE  retire_failed' <=> ~found'
  BY <1>1, <1>3 DEF Order!Fails, Order!Edge
<1>4. ASSUME kind = "hang", ~Order!Judged'
      PROVE  found' <=> seen' /= {}
  <2>1. found <=> seen /= {}
    BY <1>1, <1>4 DEF OrderInv, ProgressInv, Order!Judged, Order!TestbenchAssumption
  <2> QED BY <1>4, <2>1 DEF Order!Edge, Order!Finds
<1>5. ASSUME kind = "hang", Order!Judged'
      PROVE  retire_failed' <=> \A s \in seen' : s[2] = CheckCycle
  <2>1. found <=> seen /= {}
    BY <1>1, <1>5 DEF OrderInv, ProgressInv, Order!Judged, Order!TestbenchAssumption
  <2>2. retire_failed' <=> ~found
    BY <1>1, <1>5 DEF Order!Fails
  <2>3. \A s \in seen : s[2] /= CheckCycle
    BY <1>1 DEF OrderInv, BenchInv, Order!TestbenchAssumption
  <2>4. \A c \in Order!Valid(in) : <<in[c].order, cycle, c>>[2] = cycle
    OBVIOUS
  <2>5. seen' = seen \cup {<<in[c].order, cycle, c>> : c \in Order!Valid(in)}
    BY DEF Order!Edge
  <2> QED BY <1>1, <1>5, <2>1, <2>2, <2>3, <2>4, <2>5
<1> QED BY <1>1, <1>2, <1>3, <1>4, <1>5 DEF ProgressInv

\* So every step keeps the invariant.
LEMMA StepOrderInv ==
  ASSUME Order!TestbenchAssumption, OrderInv, [Order!Next]_Order!vars
  PROVE  OrderInv'
<1>1. CASE Order!Next
  <2>1. PICK in \in Order!Inputs : Order!InReset(in) \/ Order!Edge(in)
    BY <1>1 DEF Order!Next
  <2>2. cycle <= CheckCycle /\ Order!Tick /\ UNCHANGED <<kind, insn_order>>
    BY <1>1 DEF Order!Next
  <2>3. CASE Order!InReset(in)
    BY <2>2, <2>3, ResetKeeps
  <2>4. CASE Order!Edge(in)
    <3>1. BenchInv' /\ ProgressInv'
      BY <2>2, <2>4, EdgeBench, EdgeProgress
    <3>2. UniqueInv'
      <4>1. CASE kind = "unique"
        BY <2>2, <2>4, <4>1, EdgeUnique
      <4>2. CASE kind /= "unique"
        BY <2>2, <4>2 DEF UniqueInv
      <4> QED BY <4>1, <4>2
    <3> QED BY <3>1, <3>2 DEF OrderInv
  <2> QED BY <2>1, <2>3, <2>4
<1>2. CASE UNCHANGED Order!vars
  BY <1>2 DEF Order!vars, OrderInv, BenchInv, UniqueInv, ProgressInv,
              Order!Judged, Order!Retirements, Triggered
<1> QED BY <1>1, <1>2

-----------------------------------------------------------------------------
\* The uniqueness check fails exactly when the order of the instruction that
\* triggers it has retired more than once.
THEOREM Unique == Order!Spec => []UniqueExact
<1>1. OrderInv => UniqueExact
  <2> SUFFICES ASSUME OrderInv, kind = "unique", Order!Judged
               PROVE  retire_failed <=> \E s, t \in Order!Retirements(insn_order) : s /= t
    BY DEF UniqueExact, Order!UniqueExact
  <2>1. cycle > TrigCycle
    BY BenchAssumptions DEF Order!Judged, OrderInv, BenchInv, Order!TestbenchAssumption
  <2>2. /\ Triggered \in seen
        /\ retire_failed <=> \E s \in Order!Retirements(insn_order) : s /= Triggered
    BY <2>1 DEF OrderInv, UniqueInv
  <2>3. Triggered \in Order!Retirements(insn_order)
    BY <2>2 DEF Order!Retirements, Triggered
  <2> QED BY <2>2, <2>3
<1>2. Order!Init => OrderInv
  BY BenchAssumptions, InitOrderInv
<1>3. OrderInv /\ [Order!Next]_Order!vars => OrderInv'
  BY BenchAssumptions, StepOrderInv
<1> QED BY <1>1, <1>2, <1>3, PTL DEF Order!Spec

\* The liveness check fails exactly when the successor never retires, the hang
\* check when nothing retires before the check cycle.
THEOREM Progress == Order!Spec => []ProgressExact
<1>1. OrderInv => ProgressExact
  BY DEF OrderInv, ProgressInv, ProgressExact, Order!ProgressExact
<1>2. Order!Init => OrderInv
  BY BenchAssumptions, InitOrderInv
<1>3. OrderInv /\ [Order!Next]_Order!vars => OrderInv'
  BY BenchAssumptions, StepOrderInv
<1> QED BY <1>1, <1>2, <1>3, PTL DEF Order!Spec

-----------------------------------------------------------------------------
(***************************************************************************)
(* The checks that follow a CSR.                                           *)
(***************************************************************************)
\* The kinds of checks.
Kinds == {"inc", "upcnt", "any", "const", "zero"}

\* The checks that remember a read hold what the latest access read, and the
\* increment check what it wrote, if that was in the cycle before.
ReadKnown ==
  IF latest = NoInsn THEN csr_read_shadowed = FALSE
  ELSE /\ csr_read_shadowed = TRUE
       /\ rdata_shadow = latest.rdata
       /\ csr_kind = "upcnt" => latest.write = FALSE
       /\ csr_kind = "inc" /\ latest.write = FALSE => csr_written = FALSE
       /\ csr_kind = "inc" /\ latest.write = TRUE =>
            wdata_shadow = latest.wdata /\ (gap = FALSE => csr_written = TRUE)

\* The checks that remember a write hold the latest one.
WriteKnown ==
  IF wrote = NoInsn THEN csr_written = FALSE
  ELSE /\ csr_written = TRUE
       /\ rdata_shadow = wrote.rdata /\ wdata_shadow = wrote.wdata
       /\ rsval_shadow = wrote.rs /\ csr_mode_rw = wrote.rw

CsrKnown ==
  /\ csr_kind \in {"inc", "upcnt"} => ReadKnown
  /\ csr_kind \in {"any", "const", "zero"} => WriteKnown

\* Nothing is known in reset and nothing judged before the check cycle.
CsrInv ==
  /\ csr_kind \in Kinds
  /\ cycle \in 0 .. CheckCycle + 1
  /\ latest \in Csr!Access \cup {NoInsn} /\ wrote \in Csr!Access \cup {NoInsn}
  /\ gap \in BOOLEAN
  /\ cycle < ResetCycles => latest = NoInsn /\ wrote = NoInsn
  /\ cycle <= CheckCycle => judged = NoInsn /\ CsrKnown
  /\ Csr!CsrVerdictExact

-----------------------------------------------------------------------------
\* The fields of an access.
LEMMA AccessFields ==
  ASSUME NEW a \in Csr!Access
  PROVE  /\ a.read \in BOOLEAN /\ a.write \in BOOLEAN /\ a.rw \in BOOLEAN
         /\ a.read \/ a.write
BY DEF Csr!Access

\* Time goes on up to the cycle after the check.
LEMMA CsrTickInRange ==
  ASSUME Csr!TestbenchAssumption, cycle \in 0 .. CheckCycle, Csr!Tick
  PROVE  cycle' = cycle + 1 /\ cycle' \in 0 .. CheckCycle + 1
BY DEF Csr!TestbenchAssumption, Csr!Tick

\* Nothing is known in the initial state,
LEMMA InitCsrInv == Csr!TestbenchAssumption /\ Csr!Init => CsrInv
<1> SUFFICES ASSUME Csr!TestbenchAssumption, Csr!Init PROVE CsrInv
  OBVIOUS
<1>1. /\ cycle = 0 /\ csr_kind \in Kinds /\ gap = FALSE
      /\ csr_written = FALSE /\ csr_read_shadowed = FALSE
      /\ latest = NoInsn /\ wrote = NoInsn /\ judged = NoInsn
  BY DEF Csr!Init, Csr!TbInit, Kinds
<1>2. cycle \in 0 .. CheckCycle + 1
  BY <1>1 DEF Csr!TestbenchAssumption
<1> QED BY <1>1, <1>2 DEF CsrInv, CsrKnown, ReadKnown, WriteKnown, Csr!CsrVerdictExact

\* nor at an edge with reset high.
LEMMA ResetCsrInv ==
  ASSUME Csr!TestbenchAssumption, CsrInv, cycle <= CheckCycle, Csr!Tick,
         Csr!InReset, csr_kind' = csr_kind
  PROVE  CsrInv'
<1>1. cycle \in 0 .. CheckCycle /\ cycle < ResetCycles
  BY DEF CsrInv, Csr!InReset, Csr!reset, Csr!TestbenchAssumption
<1>2. cycle' \in 0 .. CheckCycle + 1
  BY <1>1, CsrTickInRange
<1>3. /\ latest = NoInsn /\ wrote = NoInsn /\ judged = NoInsn
      /\ csr_kind \in Kinds /\ gap \in BOOLEAN
  BY <1>1 DEF CsrInv
<1>4. /\ latest' = NoInsn /\ wrote' = NoInsn /\ judged' = NoInsn /\ gap' \in BOOLEAN
      /\ csr_written' = FALSE /\ csr_read_shadowed' = FALSE
  BY <1>3 DEF Csr!InReset
<1> QED BY <1>2, <1>3, <1>4
        DEF CsrInv, CsrKnown, ReadKnown, WriteKnown, Csr!CsrVerdictExact

\* An edge before the check cycle keeps what is known of the reads ...
LEMMA EdgeReadKnown ==
  ASSUME ReadKnown, csr_kind \in {"inc", "upcnt"}, csr_kind' = csr_kind,
         NEW a \in Csr!Access \cup {NoInsn}, Csr!Edge(a)
  PROVE  ReadKnown'
<1>1. /\ Csr!Assumed(a) /\ Csr!Remember(a) /\ ~Csr!check
      /\ latest' = IF a = NoInsn THEN latest ELSE a
  BY DEF Csr!Edge
<1>2. gap' = (a = NoInsn)
  BY DEF Csr!Edge
<1>3. CASE a = NoInsn
  <2>1. latest' = latest /\ gap' = TRUE /\ ~Csr!Remembers(a)
    BY <1>1, <1>2, <1>3 DEF Csr!Remembers, Csr!Reads
  <2>2. /\ csr_written' = (csr_written /\ csr_kind /= "inc")
        /\ UNCHANGED <<rdata_shadow, wdata_shadow, csr_read_shadowed>>
    BY <1>1, <2>1 DEF Csr!Remember
  <2> QED BY <2>1, <2>2 DEF ReadKnown
<1>4. CASE a /= NoInsn
  <2>1. a \in Csr!Access /\ a.read \in BOOLEAN /\ a.write \in BOOLEAN /\ (a.read \/ a.write)
    BY <1>4, AccessFields
  <2>2. csr_kind = "inc" => (Csr!Writes(a) => Csr!Reads(a))
    BY <1>1 DEF Csr!Assumed
  <2>3. csr_kind = "upcnt" => ~Csr!Writes(a)
    BY <1>1 DEF Csr!Assumed
  <2>4. Csr!Reads(a) /\ (csr_kind = "upcnt" => a.write = FALSE)
    BY <1>4, <2>1, <2>2, <2>3 DEF Csr!Reads, Csr!Writes
  <2>5. a.read = TRUE /\ Csr!Remembers(a)
    BY <2>1, <2>4 DEF Csr!Reads, Csr!Remembers
  <2>6. /\ rdata_shadow' = a.rdata /\ csr_read_shadowed' = TRUE /\ csr_written' = a.write
        /\ wdata_shadow' = IF a.write THEN a.wdata ELSE wdata_shadow
    BY <1>1, <2>5 DEF Csr!Remember
  <2>7. latest' = a
    BY <1>1, <1>4
  <2> QED BY <1>4, <2>1, <2>4, <2>6, <2>7 DEF ReadKnown
<1> QED BY <1>3, <1>4

\* ... and of the writes.
LEMMA EdgeWriteKnown ==
  ASSUME WriteKnown, csr_kind \in {"any", "const", "zero"}, csr_kind' = csr_kind,
         NEW a \in Csr!Access \cup {NoInsn}, Csr!Edge(a)
  PROVE  WriteKnown'
<1>1. Csr!Remember(a) /\ wrote' = IF Csr!Writes(a) THEN a ELSE wrote
  BY DEF Csr!Edge
<1>2. Csr!Remembers(a) <=> Csr!Writes(a)
  BY DEF Csr!Remembers
<1>3. CASE ~Csr!Writes(a)
  <2>1. /\ csr_written' = (csr_written /\ csr_kind /= "inc") /\ wrote' = wrote
        /\ UNCHANGED <<rdata_shadow, wdata_shadow, rsval_shadow, csr_mode_rw>>
    BY <1>1, <1>2, <1>3 DEF Csr!Remember
  <2> QED BY <2>1 DEF WriteKnown
<1>4. CASE Csr!Writes(a)
  <2>1. a /= NoInsn /\ a \in Csr!Access /\ a.write = TRUE
    BY <1>4, AccessFields DEF Csr!Writes
  <2>2. /\ rdata_shadow' = a.rdata /\ wdata_shadow' = a.wdata /\ rsval_shadow' = a.rs
        /\ csr_mode_rw' = a.rw /\ csr_written' = TRUE /\ wrote' = a
    BY <1>1, <1>2, <1>4, <2>1 DEF Csr!Remember
  <2> QED BY <2>1, <2>2 DEF WriteKnown
<1> QED BY <1>3, <1>4

\* An edge before the check cycle keeps the invariant.
LEMMA EdgeCsrInv ==
  ASSUME Csr!TestbenchAssumption, CsrInv, cycle <= CheckCycle, Csr!Tick,
         csr_kind' = csr_kind,
         NEW a \in Csr!Access \cup {NoInsn}, Csr!Edge(a)
  PROVE  CsrInv'
<1>1. cycle \in 0 .. CheckCycle /\ ~(cycle < ResetCycles)
  BY DEF CsrInv, Csr!Edge, Csr!reset, Csr!TestbenchAssumption
<1>2. cycle' = cycle + 1 /\ cycle' \in 0 .. CheckCycle + 1
  BY <1>1, CsrTickInRange
<1>3. ~(cycle' < ResetCycles)
  BY <1>1, <1>2 DEF Csr!TestbenchAssumption
<1>4. judged' = NoInsn
  BY <1>1 DEF CsrInv, Csr!Edge
<1>5. CsrKnown'
  BY EdgeReadKnown, EdgeWriteKnown DEF CsrInv, CsrKnown
<1>6. /\ latest' \in Csr!Access \cup {NoInsn} /\ wrote' \in Csr!Access \cup {NoInsn}
      /\ gap' \in BOOLEAN /\ csr_kind' \in Kinds
  BY DEF CsrInv, Csr!Edge
<1> QED BY <1>2, <1>3, <1>4, <1>5, <1>6 DEF CsrInv, Csr!CsrVerdictExact

-----------------------------------------------------------------------------
\* The verdict of each check, from what it knows.
LEMMA CsrVerdictRight ==
  ASSUME CsrKnown, csr_kind \in Kinds, latest \in Csr!Access \cup {NoInsn},
         gap \in BOOLEAN,
         NEW a, Csr!Reads(a), Csr!check, Csr!Assumed(a), judged' = a.rdata,
         UNCHANGED <<csr_kind, latest, wrote, gap>>,
         csr_failed' = (Csr!Reads(a) /\ Csr!Fails(a)),
         csr_kind \in {"any", "const", "zero"} => wrote /= NoInsn
  PROVE  IF csr_kind = "inc" /\ latest.write
         THEN csr_failed' /\ ~gap => Csr!Broken'
         ELSE csr_failed' <=> Csr!Broken'
<1>1. csr_failed' <=> Csr!Fails(a)
  BY Zenon
<1>2. CASE csr_kind = "inc"
  <2>1. csr_read_shadowed = TRUE /\ latest /= NoInsn
    BY <1>2 DEF CsrKnown, ReadKnown, Csr!Assumed
  <2>2. latest.write \in BOOLEAN
    BY <2>1, AccessFields
  <2>3. Csr!Fails(a) <=> /\ a.rdata < latest.rdata
                         /\ csr_written => a.rdata < wdata_shadow
    BY <1>2, <2>1 DEF CsrKnown, ReadKnown, Csr!Fails
  <2>4. Csr!Broken' <=> a.rdata < Csr!Holds(latest)
    BY <1>2, <2>1 DEF Csr!Broken, Csr!Holds
  <2>5. CASE latest.write = TRUE
    <3>1. wdata_shadow = latest.wdata /\ (gap = FALSE => csr_written = TRUE)
      BY <1>2, <2>1, <2>5 DEF CsrKnown, ReadKnown
    <3>2. Csr!Broken' <=> a.rdata < latest.wdata
      BY <2>4, <2>5 DEF Csr!Holds
    <3> QED BY <1>1, <1>2, <2>3, <2>5, <3>1, <3>2
  <2>6. CASE latest.write = FALSE
    <3>1. csr_written = FALSE
      BY <1>2, <2>1, <2>6 DEF CsrKnown, ReadKnown
    <3>2. Csr!Broken' <=> a.rdata < latest.rdata
      BY <2>4, <2>6 DEF Csr!Holds
    <3> QED BY <1>1, <1>2, <2>3, <2>6, <3>1, <3>2
  <2> QED BY <2>2, <2>5, <2>6
<1>3. CASE csr_kind = "upcnt"
  <2>1. csr_read_shadowed = TRUE /\ latest /= NoInsn
    BY <1>3 DEF CsrKnown, ReadKnown, Csr!Assumed
  <2>2. rdata_shadow = latest.rdata /\ latest.write = FALSE
    BY <1>3, <2>1 DEF CsrKnown, ReadKnown
  <2>3. Csr!Fails(a) <=> a.rdata <= latest.rdata
    BY <1>3, <2>2 DEF Csr!Fails
  <2>4. Csr!Broken' <=> a.rdata <= latest.rdata
    BY <1>3, <2>1, <2>2 DEF Csr!Broken, Csr!Holds
  <2> QED BY <1>1, <1>3, <2>3, <2>4
<1>4. CASE csr_kind \in {"any", "const", "zero"}
  <2>1. /\ wrote /= NoInsn /\ csr_written = TRUE
        /\ rdata_shadow = wrote.rdata /\ wdata_shadow = wrote.wdata
        /\ rsval_shadow = wrote.rs /\ csr_mode_rw = wrote.rw
    BY <1>4 DEF CsrKnown, WriteKnown
  <2>2. Csr!Fails(a) <=> Csr!Broken'
    BY <1>4, <2>1 DEF Csr!Fails, Csr!Broken
  <2> QED BY <1>1, <1>4, <2>2
<1> QED BY <1>2, <1>3, <1>4 DEF Kinds

\* The check cycle keeps the invariant: its verdict is right.
LEMMA JudgeCsrInv ==
  ASSUME Csr!TestbenchAssumption, CsrInv, cycle <= CheckCycle, Csr!Tick,
         csr_kind' = csr_kind,
         NEW a \in Csr!Access \cup {NoInsn}, Csr!Judge(a)
  PROVE  CsrInv'
<1>1. cycle = CheckCycle /\ cycle \in 0 .. CheckCycle
  BY DEF CsrInv, Csr!Judge, Csr!check, Csr!TestbenchAssumption
<1>2. cycle' = cycle + 1 /\ cycle' \in 0 .. CheckCycle + 1
  BY <1>1, CsrTickInRange
<1>3. ~(cycle' < ResetCycles) /\ ~(cycle' <= CheckCycle)
  BY <1>1, <1>2 DEF Csr!TestbenchAssumption
<1>4. UNCHANGED <<csr_kind, latest, wrote, gap>>
  BY DEF Csr!Judge
<1>5. CsrKnown /\ csr_kind \in Kinds /\ gap \in BOOLEAN
      /\ latest \in Csr!Access \cup {NoInsn} /\ wrote \in Csr!Access \cup {NoInsn}
  BY <1>1 DEF CsrInv
<1>6. Csr!CsrVerdictExact'
  <2>1. CASE ~Csr!Reads(a)
    <3>1. judged' = NoInsn
      BY <2>1 DEF Csr!Judge
    <3> QED BY <3>1 DEF Csr!CsrVerdictExact
  <2>2. CASE Csr!Reads(a)
    <3>1. /\ judged' = a.rdata /\ Csr!check /\ Csr!Assumed(a)
          /\ csr_failed' = (Csr!Reads(a) /\ Csr!Fails(a))
      BY <2>2 DEF Csr!Judge
    <3>2. ASSUME csr_kind \in {"any", "const", "zero"} => wrote /= NoInsn
          PROVE  IF csr_kind = "inc" /\ latest.write
                 THEN csr_failed' /\ ~gap => Csr!Broken'
                 ELSE csr_failed' <=> Csr!Broken'
      BY <1>4, <1>5, <2>2, <3>1, <3>2, CsrVerdictRight
    <3> QED BY <1>4, <3>2 DEF Csr!CsrVerdictExact
  <2> QED BY <2>1, <2>2
<1> QED BY <1>2, <1>3, <1>4, <1>5, <1>6 DEF CsrInv

\* The invariant holds in every reachable state.
LEMMA CsrInvInductive == Csr!Spec => []CsrInv
<1>1. CsrInv /\ [Csr!Next]_Csr!vars => CsrInv'
  <2> SUFFICES ASSUME CsrInv, [Csr!Next]_Csr!vars PROVE CsrInv'
    OBVIOUS
  <2>1. CASE Csr!Next
    <3>1. cycle <= CheckCycle /\ Csr!Tick /\ csr_kind' = csr_kind
      BY <2>1 DEF Csr!Next
    <3>2. Csr!InReset \/ \E a \in Csr!Access \cup {NoInsn} : Csr!Edge(a) \/ Csr!Judge(a)
      BY <2>1 DEF Csr!Next
    <3> QED BY <3>1, <3>2, BenchAssumptions, ResetCsrInv, EdgeCsrInv, JudgeCsrInv
  <2>2. CASE UNCHANGED Csr!vars
    BY <2>2 DEF Csr!vars, Csr!shadows, CsrInv, CsrKnown, ReadKnown, WriteKnown,
                Csr!CsrVerdictExact, Csr!Broken
  <2> QED BY <2>1, <2>2
<1>2. Csr!Init => CsrInv
  BY BenchAssumptions, InitCsrInv
<1> QED BY <1>1, <1>2, PTL DEF Csr!Spec

\* Every CSR check (rvfi_csrc_*_check.sv) fails exactly when its promise about
\* the read of the check cycle is broken, with the exception of the increment
\* check after a write, for every set of values and choice of cycles.
THEOREM CsrVerdict == Csr!Spec => []CsrVerdictExact
<1>1. CsrInv => CsrVerdictExact
  BY DEF CsrInv, CsrVerdictExact
<1> QED BY <1>1, CsrInvInductive, PTL

-----------------------------------------------------------------------------
(***************************************************************************)
(* The register check.                                                     *)
(***************************************************************************)
\* What the history holds: the order and the value of a write.
Write == Orders \X Values

\* As long as the older writes retire in program order, the check holds the
\* youngest of them that has retired, and its verdict is that of the history.
RegInv ==
  /\ cycle \in Nat
  /\ reg_written \in BOOLEAN /\ disordered \in BOOLEAN
  /\ value_failed \in BOOLEAN /\ stale \in BOOLEAN
  /\ cycle < ResetCycles => newest = NoInsn
  /\ ~disordered =>
       /\ newest \in Write \cup {NoInsn}
       /\ reg_written <=> newest /= NoInsn
       /\ newest /= NoInsn => reg_shadow = newest[2]
       /\ value_failed <=> stale

\* NoInsn is no write.
LEMMA NoInsnIsNoWrite ==
  ASSUME NEW w \in Write
  PROVE  w[1] \in Nat /\ w /= NoInsn
<1>1. Orders \subseteq Nat /\ NoInsn \notin Orders \X Values
  BY BenchAssumptions DEF Reg!RegCheckAssumption
<1>2. w \in Orders \X Values
  BY DEF Write
<1>3. w /= NoInsn
  BY <1>1, <1>2
<1> QED BY <1>1, <1>2, <1>3

\* The last of several channels.
LEMMA LastRegChannel ==
  ASSUME NEW cs, cs \subseteq Reg!Channels, cs /= {}
  PROVE  /\ Reg!Last(cs) \in cs
         /\ \A d \in cs : d <= Reg!Last(cs)
<1>1. NRet \in Nat /\ cs \subseteq 0 .. NRet - 1
  BY BenchAssumptions DEF Reg!TestbenchAssumption, Reg!Channels
<1>2. \E c \in cs : \A d \in cs : d <= c
  BY <1>1, GreatestElement
<1> QED BY <1>2 DEF Reg!Last

\* What a channel carries that writes the register.
LEMMA WriterFields ==
  ASSUME NEW in \in Reg!Inputs, NEW c \in Reg!Writers(in)
  PROVE  /\ c \in Reg!Channels /\ c \in Int
         /\ in[c].order \in Orders /\ in[c].order \in Nat
         /\ in[c].wdata \in Values
<1>1. c \in Reg!Channels /\ in[c] /= NoInsn
  BY DEF Reg!Writers, Reg!Looked, Reg!Valid
<1>2. in[c] \in Reg!Insn
  BY <1>1 DEF Reg!Inputs
<1>3. in[c].order \in Orders /\ in[c].wdata \in Values
  BY <1>2 DEF Reg!Insn
<1>4. in[c].order \in Nat
  BY <1>3, BenchAssumptions DEF Reg!RegCheckAssumption
<1> QED BY <1>1, <1>3, <1>4 DEF Reg!Channels

\* The writes of an edge are those of the channels that the check follows.
LEMMA OlderWritesOf ==
  ASSUME NEW in
  PROVE  Reg!OlderWrites(in) = {<<in[c].order, c>> : c \in Reg!Writers(in)}
<1>1. Reg!Writers(in) = {d \in Reg!Looked(in) : /\ in[d].rd = register_index
                                                /\ ~in[d].trap
                                                /\ in[d].order < insn_order}
  BY DEF Reg!Writers
<1> QED BY <1>1 DEF Reg!OlderWrites

\* An edge without writes to the register.
LEMMA NewestKept ==
  ASSUME newest \in Write \cup {NoInsn}, NEW in, Reg!Writers(in) = {}
  PROVE  Reg!NextNewest(in) = newest
<1> DEFINE seenNow == {<<w[1], in[w[2]].wdata>> : w \in Reg!OlderWrites(in)}
                        \cup ({newest} \ {NoInsn})
<1>1. seenNow = {newest} \ {NoInsn}
  BY OlderWritesOf
<1>2. CASE newest = NoInsn
  BY <1>1, <1>2 DEF Reg!NextNewest
<1>3. CASE newest /= NoInsn
  <2>1. seenNow = {newest} /\ newest[1] \in Nat
    BY <1>1, <1>3, NoInsnIsNoWrite
  <2>2. (CHOOSE w \in {newest} : \A x \in {newest} : x[1] <= w[1]) = newest
    BY <2>1
  <2> QED BY <2>1, <2>2, Zenon DEF Reg!NextNewest
<1> QED BY <1>2, <1>3

\* An edge with writes to the register, in program order: the last channel has
\* the youngest one.
LEMMA NewestMoves ==
  ASSUME newest \in Write \cup {NoInsn}, NEW in \in Reg!Inputs,
         Reg!Writers(in) /= {}, ~Reg!Disorder(in)
  PROVE  /\ Reg!NextNewest(in) = <<in[Reg!Last(Reg!Writers(in))].order,
                                    in[Reg!Last(Reg!Writers(in))].wdata>>
         /\ Reg!NextNewest(in) \in Write
<1> DEFINE W == Reg!Writers(in)
           l == Reg!Last(W)
           seenNow == {<<w[1], in[w[2]].wdata>> : w \in Reg!OlderWrites(in)}
                        \cup ({newest} \ {NoInsn})
           m == <<in[l].order, in[l].wdata>>
<1>1. W \subseteq Reg!Channels
  BY DEF Reg!Writers, Reg!Looked, Reg!Valid
<1>2. l \in W /\ \A d \in W : d <= l
  BY <1>1, LastRegChannel
<1>3. \A c \in W : <<in[c].order, c>> \in Reg!OlderWrites(in)
  BY OlderWritesOf
<1>4. seenNow = {<<in[c].order, in[c].wdata>> : c \in W} \cup ({newest} \ {NoInsn})
  <2>1. \A x : x \in {<<w[1], in[w[2]].wdata>> : w \in Reg!OlderWrites(in)}
               <=> \E c \in W : x = <<in[c].order, in[c].wdata>>
    <3>1. ASSUME NEW w \in Reg!OlderWrites(in)
          PROVE  \E c \in W : <<w[1], in[w[2]].wdata>> = <<in[c].order, in[c].wdata>>
      <4>1. PICK c \in W : w = <<in[c].order, c>>
        BY OlderWritesOf
      <4> QED BY <4>1
    <3>2. ASSUME NEW c \in W
          PROVE  \E w \in Reg!OlderWrites(in) :
                   <<w[1], in[w[2]].wdata>> = <<in[c].order, in[c].wdata>>
      <4>1. <<in[c].order, c>> \in Reg!OlderWrites(in)
        BY <1>3
      <4> QED BY <4>1
    <3> HIDE DEF W
    <3> QED BY <3>1, <3>2
  <2> QED BY <2>1
<1>5. m \in seenNow
  BY <1>2, <1>4
<1>6. \A c \in W : c /= l => in[c].order < in[l].order
  <2> SUFFICES ASSUME NEW c \in W, c /= l PROVE in[c].order < in[l].order
    OBVIOUS
  <2>1. c < l
    BY <1>2, WriterFields
  <2>2. ~(<<in[l].order, l>>[1] <= <<in[c].order, c>>[1])
    BY <1>2, <1>3, <2>1 DEF Reg!Disorder
  <2> QED BY <1>2, <2>2, WriterFields
<1>7. newest /= NoInsn => newest[1] < in[l].order
  <2> SUFFICES ASSUME newest /= NoInsn PROVE newest[1] < in[l].order
    OBVIOUS
  <2>1. ~(<<in[l].order, l>>[1] <= newest[1])
    BY <1>2, <1>3 DEF Reg!Disorder
  <2> QED BY <1>2, <2>1, WriterFields, NoInsnIsNoWrite
<1>8. \A x \in seenNow : x /= m => x[1] < m[1]
  <2> SUFFICES ASSUME NEW x \in seenNow, x /= m PROVE x[1] < m[1]
    OBVIOUS
  <2>1. CASE \E c \in W : x = <<in[c].order, in[c].wdata>>
    BY <1>6, <2>1
  <2>2. CASE x = newest /\ newest /= NoInsn
    BY <1>7, <2>2
  <2> QED BY <1>4, <2>1, <2>2
<1>9. m[1] \in Nat /\ \A x \in seenNow : x[1] \in Int
  <2>1. m[1] \in Nat
    BY <1>2, WriterFields
  <2>2. \A x \in seenNow : x[1] \in Int
    <3>1. \A c \in W : <<in[c].order, in[c].wdata>>[1] \in Int
      BY WriterFields
    <3>2. newest /= NoInsn => newest[1] \in Int
      BY NoInsnIsNoWrite
    <3> QED BY <1>4, <3>1, <3>2
  <2> QED BY <2>1, <2>2
<1>10. (CHOOSE w \in seenNow : \A x \in seenNow : x[1] <= w[1]) = m
  <2> HIDE DEF seenNow, m
  <2>1. \A x \in seenNow : x[1] <= m[1]
    BY <1>8, <1>9
  <2>2. \A w \in seenNow : (\A x \in seenNow : x[1] <= w[1]) => w = m
    BY <1>5, <1>8, <1>9
  <2> QED BY <1>5, <2>1, <2>2
<1>11. Reg!NextNewest(in) = m
  <2>1. Reg!NextNewest(in) = IF seenNow = {} THEN NoInsn
                             ELSE CHOOSE w \in seenNow : \A x \in seenNow : x[1] <= w[1]
    BY DEF Reg!NextNewest
  <2> HIDE DEF seenNow, m
  <2> QED BY <1>5, <1>10, <2>1
<1>12. m \in Write
  BY <1>2, WriterFields DEF Write
<1> QED BY <1>11, <1>12

\* Nothing is known in the initial state,
LEMMA InitRegInv == Reg!Init => RegInv
<1> SUFFICES ASSUME Reg!Init PROVE RegInv
  OBVIOUS
<1>1. /\ cycle = 0 /\ newest = NoInsn /\ disordered = FALSE
      /\ reg_written = FALSE /\ value_failed = FALSE /\ stale = FALSE
  BY DEF Reg!Init, Reg!TbInit
<1> QED BY <1>1 DEF RegInv

\* nor at an edge with reset high.
LEMMA ResetRegInv ==
  ASSUME RegInv, Reg!Tick, Reg!InReset
  PROVE  RegInv'
<1>1. newest = NoInsn /\ newest' = NoInsn /\ disordered' = disordered
      /\ stale' = stale /\ value_failed' = value_failed
      /\ reg_written' = FALSE
  BY DEF RegInv, Reg!InReset, Reg!reset, Reg!history
<1>2. cycle' \in Nat
  BY BenchAssumptions DEF RegInv, Reg!Tick, Reg!TestbenchAssumption
<1> QED BY <1>1, <1>2 DEF RegInv

\* An edge after the reset keeps the shadow and the verdict in step with the
\* history, and forgets nothing.
LEMMA EdgeRegInv ==
  ASSUME RegInv, Reg!Tick, NEW in \in Reg!Inputs, Reg!Edge(in)
  PROVE  RegInv'
<1>1. cycle' \in Nat /\ ~(cycle' < ResetCycles)
  BY BenchAssumptions DEF RegInv, Reg!Tick, Reg!TestbenchAssumption, Reg!Edge, Reg!reset
<1>2. /\ reg_shadow' = Reg!NextShadow(in)
      /\ newest' = Reg!NextNewest(in)
  BY DEF Reg!Edge, Reg!Remember
<1>3. /\ reg_written' = (reg_written \/ Reg!Writers(in) /= {})
      /\ value_failed' = (value_failed \/ (Reg!check /\ reg_written'
                                            /\ Reg!Differs(in, reg_shadow')))
      /\ disordered' = (disordered \/ Reg!Disorder(in))
      /\ stale' = (stale \/ (Reg!check /\ newest' /= NoInsn
                              /\ Reg!Differs(in, newest'[2])))
  BY Zenon DEF Reg!Edge, Reg!Remember
<1>4. /\ reg_written' \in BOOLEAN /\ value_failed' \in BOOLEAN
      /\ disordered' \in BOOLEAN /\ stale' \in BOOLEAN
  BY <1>3, Zenon
<1>5. ASSUME ~disordered'
      PROVE  /\ newest' \in Write \cup {NoInsn}
             /\ reg_written' <=> newest' /= NoInsn
             /\ newest' /= NoInsn => reg_shadow' = newest'[2]
             /\ value_failed' <=> stale'
  <2>1. ~disordered /\ ~Reg!Disorder(in)
    BY <1>3, <1>5, Zenon
  <2>2. /\ newest \in Write \cup {NoInsn}
        /\ reg_written <=> newest /= NoInsn
        /\ newest /= NoInsn => reg_shadow = newest[2]
        /\ value_failed <=> stale
    BY <2>1 DEF RegInv
  <2>3. /\ newest' \in Write \cup {NoInsn}
        /\ reg_written' <=> newest' /= NoInsn
        /\ newest' /= NoInsn => reg_shadow' = newest'[2]
    <3>1. CASE Reg!Writers(in) = {}
      <4>1. newest' = newest /\ reg_shadow' = reg_shadow
        BY <1>2, <2>1, <2>2, <3>1, NewestKept DEF Reg!NextShadow
      <4>2. reg_written' <=> reg_written
        BY <1>3, <3>1
      <4> QED BY <2>2, <4>1, <4>2
    <3>2. CASE Reg!Writers(in) /= {}
      <4> DEFINE l == Reg!Last(Reg!Writers(in))
      <4>1. newest' = <<in[l].order, in[l].wdata>> /\ newest' \in Write
        BY <1>2, <2>1, <2>2, <3>2, NewestMoves
      <4>2. reg_shadow' = in[l].wdata
        BY <1>2, <3>2 DEF Reg!NextShadow
      <4>3. newest' /= NoInsn
        BY <4>1, NoInsnIsNoWrite
      <4>4. reg_written'
        BY <1>3, <3>2
      <4> QED BY <4>1, <4>2, <4>3, <4>4
    <3> QED BY <3>1, <3>2
  <2>4. (reg_written' /\ Reg!Differs(in, reg_shadow'))
          <=> (newest' /= NoInsn /\ Reg!Differs(in, newest'[2]))
    BY <2>3, Zenon
  <2> QED BY <1>3, <2>2, <2>3, <2>4, Zenon
<1> QED BY <1>1, <1>2, <1>4, <1>5 DEF RegInv

\* The register check (rvfi_reg_check.sv) is exact for every core that retires
\* the writes to one register in program order, for every number of channels
\* and choice of the channel, instruction and register under check.
THEOREM RegVerdict == Reg!Spec => []RegVerdictExact
<1>1. Reg!Init => RegInv
  BY InitRegInv
<1>2. RegInv /\ [Reg!Next]_Reg!vars => RegInv'
  <2> SUFFICES ASSUME RegInv, [Reg!Next]_Reg!vars PROVE RegInv'
    OBVIOUS
  <2>1. CASE Reg!Next
    BY <2>1, ResetRegInv, EdgeRegInv DEF Reg!Next
  <2>2. CASE UNCHANGED Reg!vars
    BY <2>2 DEF Reg!vars, Reg!checker, Reg!history, RegInv
  <2> QED BY <2>1, <2>2
<1>3. RegInv => RegVerdictExact
  BY DEF RegInv, RegVerdictExact, Reg!VerdictExact
<1> QED BY <1>1, <1>2, <1>3, PTL DEF Reg!Spec

-----------------------------------------------------------------------------
(***************************************************************************)
(* The pc checks.                                                          *)
(***************************************************************************)
\* The forward checks know what the older instruction said, once it has.
OlderKnown ==
  IF said = {} THEN fwd_valid = FALSE
  ELSE fwd_valid = TRUE /\ said = {[npc |-> fwd_pc]}

\* The backward checks know where the younger one began, and each channel its
\* rvfi_intr unless it has borrowed another one.
YoungerKnown ==
  IF began = {} THEN bwd_valid = [c \in Pc!Channels |-> FALSE]
  ELSE \E i \in BOOLEAN :
         /\ began = {[pc |-> bwd_pc, intr |-> i]}
         /\ ~borrowed => bwd_valid = [c \in Pc!Channels |-> ~i]

PcInv ==
  /\ older \in Nat
  /\ fwd_valid \in BOOLEAN /\ fwd_failed \in BOOLEAN /\ bwd_failed \in BOOLEAN
  /\ ~again => OlderKnown /\ YoungerKnown
  /\ Pc!FwdSound /\ Pc!BwdSound /\ Pc!PairCovered

-----------------------------------------------------------------------------
\* Nothing has retired in the initial state,
LEMMA InitPcInv == Pc!Init => PcInv
BY FormalChecksAssumption
   DEF Pc!PcChecksAssumption, Pc!Init, PcInv, OlderKnown, YoungerKnown,
       Pc!FwdSound, Pc!BwdSound, Pc!PairCovered, Pc!Broken

\* nor after a reset.
LEMMA ResetPcInv == PcInv /\ Pc!Reset => PcInv'
BY DEF Pc!Reset, PcInv, OlderKnown, YoungerKnown, Pc!FwdSound, Pc!BwdSound,
       Pc!PairCovered, Pc!Broken

\* An instruction that retires once in a cycle is on one channel.
LEMMA OneChannel ==
  ASSUME NEW cs, cs \subseteq Pc!Channels, cs /= {},
         ~(\E i, j \in cs : i /= j)
  PROVE  \E c \in Pc!Channels : cs = {c} /\ Pc!Last(cs) = c
<1>1. PICK c \in cs : cs = {c}
  OBVIOUS
<1>2. c \in Int
  BY DEF Pc!Channels
<1>3. Pc!Last(cs) = c
  BY <1>1, <1>2 DEF Pc!Last
<1> QED BY <1>1, <1>3

\* What a check sees of the lower channels when the other one is on channel o.
LEMMA OneBefore ==
  ASSUME NEW in, NEW order, NEW o \in Pc!Channels, Pc!Carries(in, order) = {o},
         NEW idx \in Pc!Channels
  PROVE  /\ o < idx => Pc!Before(in, order, idx) = {o} /\ Pc!Last(Pc!Before(in, order, idx)) = o
         /\ ~(o < idx) => Pc!Before(in, order, idx) = {}
<1>1. o \in Int
  BY DEF Pc!Channels
<1>2. Pc!Last({o}) = o
  BY <1>1 DEF Pc!Last
<1>3. Pc!Before(in, order, idx) = {c \in {o} : c < idx}
  BY DEF Pc!Before
<1> QED BY <1>2, <1>3

\* What a check sees of the lower channels when the other one does not retire.
LEMMA NoneBefore ==
  ASSUME NEW in, NEW order, Pc!Carries(in, order) = {}, NEW idx
  PROVE  Pc!Before(in, order, idx) = {}
BY DEF Pc!Before

\* An edge keeps the pair and the flags are Boolean.
LEMMA EdgeTyped ==
  ASSUME PcInv, NEW in \in Pc!Inputs, Pc!Edge(in)
  PROVE  /\ older' = older /\ Pc!younger' = Pc!younger
         /\ fwd_valid' \in BOOLEAN /\ fwd_failed' \in BOOLEAN /\ bwd_failed' \in BOOLEAN
<1>1. older' = older
  BY DEF Pc!Edge
<1>2. fwd_valid' = (fwd_valid \/ Pc!Carries(in, older) /= {})
  BY Zenon DEF Pc!Edge
<1>3. fwd_failed' = (fwd_failed \/ \E c \in Pc!Carries(in, Pc!younger) : Pc!FwdFails(in, c))
  BY Zenon DEF Pc!Edge
<1>4. bwd_failed' = (bwd_failed \/ \E c \in Pc!Carries(in, older) : Pc!BwdFails(in, c))
  BY Zenon DEF Pc!Edge
<1> QED BY <1>1, <1>2, <1>3, <1>4 DEF Pc!younger

\* An edge at which neither retires.
LEMMA QuietEdge ==
  ASSUME PcInv, NEW in \in Pc!Inputs, Pc!Edge(in),
         Pc!Carries(in, older) = {}, Pc!Carries(in, Pc!younger) = {}
  PROVE  PcInv'
<1>1. fwd_failed' = fwd_failed /\ bwd_failed' = bwd_failed /\ fwd_valid' = fwd_valid
  <2>1. /\ fwd_valid' = (fwd_valid \/ Pc!Carries(in, older) /= {})
        /\ fwd_failed' = (fwd_failed
                            \/ \E c \in Pc!Carries(in, Pc!younger) : Pc!FwdFails(in, c))
        /\ bwd_failed' = (bwd_failed \/ \E c \in Pc!Carries(in, older) : Pc!BwdFails(in, c))
    BY Zenon DEF Pc!Edge
  <2> QED BY <2>1 DEF PcInv
<1>2. fwd_pc' = fwd_pc /\ bwd_pc' = bwd_pc /\ said' = said /\ began' = began
  BY DEF Pc!Edge
<1>3. bwd_valid' = [c \in Pc!Channels |-> bwd_valid[c]]
  BY DEF Pc!Edge
<1>4. ~again' => ~again
  BY Zenon DEF Pc!Edge
<1>5. ~borrowed' => ~borrowed
  BY Zenon DEF Pc!Edge
<1>6. OlderKnown => OlderKnown'
  BY <1>1, <1>2 DEF OlderKnown
<1>7. YoungerKnown => YoungerKnown'
  BY <1>2, <1>3, <1>5 DEF YoungerKnown
<1>8. Pc!Broken' <=> Pc!Broken
  BY <1>2 DEF Pc!Broken
<1>9. Pc!FwdSound' /\ Pc!BwdSound' /\ Pc!PairCovered'
  BY <1>1, <1>4, <1>5, <1>8 DEF PcInv, Pc!FwdSound, Pc!BwdSound, Pc!PairCovered
<1> QED BY <1>4, <1>6, <1>7, <1>9, EdgeTyped DEF PcInv

\* An edge at which only the older one retires: the backward check of its
\* channel judges it if the younger one has retired.
LEMMA OlderEdge ==
  ASSUME PcInv, NEW in \in Pc!Inputs, Pc!Edge(in), ~again',
         NEW o \in Pc!Channels, Pc!Carries(in, older) = {o}, Pc!Carries(in, Pc!younger) = {}
  PROVE  PcInv'
<1>1. ~again /\ said = {}
  BY Zenon DEF Pc!Edge
<1>2. fwd_valid = FALSE /\ YoungerKnown
  BY <1>1 DEF PcInv, OlderKnown
<1>3. ~fwd_failed /\ (~borrowed => ~bwd_failed)
  BY <1>1 DEF PcInv, Pc!FwdSound, Pc!BwdSound, Pc!Broken
<1>4. ~fwd_failed'
  BY <1>3, Zenon DEF Pc!Edge
<1>5. bwd_failed' <=> bwd_failed \/ Pc!BwdFails(in, o)
  BY Zenon DEF Pc!Edge
<1>6. Pc!BwdFails(in, o) <=> bwd_valid[o] /\ bwd_pc /= in[o].npc
  BY NoneBefore DEF Pc!BwdFails, Pc!BwdKnows, Pc!BwdExpects
<1>7. said' = {[npc |-> in[o].npc]} /\ fwd_pc' = in[o].npc
  BY <1>1, OneChannel DEF Pc!Edge
<1>8. fwd_valid' = TRUE
  BY Zenon DEF Pc!Edge
<1>9. bwd_pc' = bwd_pc /\ began' = began
  BY DEF Pc!Edge
<1>10. bwd_valid' = [c \in Pc!Channels |-> bwd_valid[c]]
  BY DEF Pc!Edge
<1>11. ~borrowed' => ~borrowed
  BY Zenon DEF Pc!Edge
<1>12. OlderKnown' /\ YoungerKnown'
  BY <1>2, <1>7, <1>8, <1>9, <1>10, <1>11 DEF OlderKnown, YoungerKnown
<1>13. ~borrowed' => (bwd_failed' <=> Pc!Broken')
  <2>1. CASE began = {}
    BY <2>1, <1>2, <1>3, <1>5, <1>6, <1>7, <1>9, <1>11 DEF YoungerKnown, Pc!Broken
  <2>2. ASSUME began /= {}, ~borrowed' PROVE bwd_failed' <=> Pc!Broken'
    <3>1. PICK i \in BOOLEAN : /\ began = {[pc |-> bwd_pc, intr |-> i]}
                               /\ bwd_valid = [c \in Pc!Channels |-> ~i]
      BY <1>2, <1>11, <2>2 DEF YoungerKnown
    <3>2. bwd_failed' <=> ~i /\ bwd_pc /= in[o].npc
      BY <1>3, <1>5, <1>6, <1>11, <2>2, <3>1
    <3>3. Pc!Broken' <=> ~i /\ bwd_pc /= in[o].npc
      BY <1>7, <1>9, <3>1 DEF Pc!Broken
    <3> QED BY <3>2, <3>3
  <2> QED BY <2>1, <2>2
<1>14. Pc!FwdSound' /\ Pc!BwdSound' /\ Pc!PairCovered'
  BY <1>4, <1>13 DEF Pc!FwdSound, Pc!BwdSound, Pc!PairCovered
<1> QED BY <1>12, <1>14, EdgeTyped DEF PcInv

\* An edge at which only the younger one retires: the forward check of its
\* channel judges it if the older one has retired.
LEMMA YoungerEdge ==
  ASSUME PcInv, NEW in \in Pc!Inputs, Pc!Edge(in), ~again',
         NEW y \in Pc!Channels, Pc!Carries(in, older) = {}, Pc!Carries(in, Pc!younger) = {y}
  PROVE  PcInv'
<1>1. ~again /\ began = {}
  BY Zenon DEF Pc!Edge
<1>2. bwd_valid = [c \in Pc!Channels |-> FALSE] /\ OlderKnown
  BY <1>1 DEF PcInv, YoungerKnown
<1>3. ~fwd_failed /\ (~borrowed => ~bwd_failed)
  BY <1>1 DEF PcInv, Pc!FwdSound, Pc!BwdSound, Pc!Broken
<1>4. ~borrowed' => ~borrowed
  BY Zenon DEF Pc!Edge
<1>5. bwd_failed' <=> bwd_failed
  BY Zenon DEF Pc!Edge
<1>6. fwd_failed' <=> Pc!FwdFails(in, y)
  BY <1>3, Zenon DEF Pc!Edge
<1>7. Pc!FwdFails(in, y) <=> fwd_valid /\ ~in[y].intr /\ fwd_pc /= in[y].pc
  BY NoneBefore DEF Pc!FwdFails, Pc!FwdKnows, Pc!FwdExpects
<1>8. said' = said /\ fwd_pc' = fwd_pc
  BY DEF Pc!Edge
<1>9. fwd_valid' = fwd_valid
  <2>1. fwd_valid' = (fwd_valid \/ Pc!Carries(in, older) /= {})
    BY Zenon DEF Pc!Edge
  <2> QED BY <2>1 DEF PcInv
<1>10. began' = {[pc |-> in[y].pc, intr |-> in[y].intr]} /\ bwd_pc' = in[y].pc
  BY <1>1, OneChannel DEF Pc!Edge
<1>11. in[y].intr \in BOOLEAN
  BY DEF Pc!Inputs, Pc!Busy, Pc!Idle
<1>12. bwd_valid' = [c \in Pc!Channels |-> ~in[c].intr]
  BY DEF Pc!Edge, Pc!BwdIntr
<1>13. ~borrowed' => \A c \in Pc!Channels : in[c].intr = in[y].intr
  BY Zenon DEF Pc!Edge
<1>14. OlderKnown' /\ YoungerKnown'
  <2>1. OlderKnown'
    BY <1>2, <1>8, <1>9 DEF OlderKnown
  <2>2. ~borrowed' => bwd_valid' = [c \in Pc!Channels |-> ~in[y].intr]
    BY <1>12, <1>13
  <2>3. YoungerKnown'
    BY <1>10, <1>11, <2>2 DEF YoungerKnown
  <2> QED BY <2>1, <2>3
<1>15. fwd_failed' <=> Pc!Broken'
  <2>1. CASE said = {}
    BY <2>1, <1>2, <1>6, <1>7, <1>8 DEF OlderKnown, Pc!Broken
  <2>2. CASE said /= {}
    <3>1. fwd_valid = TRUE /\ said = {[npc |-> fwd_pc]}
      BY <2>2, <1>2 DEF OlderKnown
    <3>2. Pc!Broken' <=> ~in[y].intr /\ fwd_pc /= in[y].pc
      BY <3>1, <1>8, <1>10 DEF Pc!Broken
    <3> QED BY <3>1, <3>2, <1>6, <1>7
  <2> QED BY <2>1, <2>2
<1>16. Pc!FwdSound' /\ Pc!BwdSound' /\ Pc!PairCovered'
  BY <1>3, <1>4, <1>5, <1>15 DEF Pc!FwdSound, Pc!BwdSound, Pc!PairCovered
<1> QED BY <1>14, <1>16, EdgeTyped DEF PcInv

\* An edge at which both retire: the check of the upper channel judges, for it
\* sees the lower one in the same cycle and the other check knows nothing yet.
LEMMA PairEdge ==
  ASSUME PcInv, NEW in \in Pc!Inputs, Pc!Edge(in), ~again',
         NEW o \in Pc!Channels, Pc!Carries(in, older) = {o},
         NEW y \in Pc!Channels, Pc!Carries(in, Pc!younger) = {y}
  PROVE  PcInv'
<1>1. ~again /\ said = {} /\ began = {}
  BY Zenon DEF Pc!Edge
<1>2. fwd_valid = FALSE /\ bwd_valid = [c \in Pc!Channels |-> FALSE]
  BY <1>1 DEF PcInv, OlderKnown, YoungerKnown
<1>3. ~fwd_failed /\ (~borrowed => ~bwd_failed)
  BY <1>1 DEF PcInv, Pc!FwdSound, Pc!BwdSound, Pc!Broken
<1>4. ~borrowed' => ~borrowed
  BY Zenon DEF Pc!Edge
<1>5. bwd_failed' <=> bwd_failed \/ Pc!BwdFails(in, o)
  BY Zenon DEF Pc!Edge
<1>6. fwd_failed' <=> Pc!FwdFails(in, y)
  BY <1>3, Zenon DEF Pc!Edge
<1>7. said' = {[npc |-> in[o].npc]} /\ fwd_pc' = in[o].npc
  BY <1>1, OneChannel DEF Pc!Edge
<1>8. fwd_valid' = TRUE
  BY Zenon DEF Pc!Edge
<1>9. began' = {[pc |-> in[y].pc, intr |-> in[y].intr]} /\ bwd_pc' = in[y].pc
  BY <1>1, OneChannel DEF Pc!Edge
<1>10. in[y].intr \in BOOLEAN
  BY DEF Pc!Inputs, Pc!Busy, Pc!Idle
<1>11. bwd_valid' = [c \in Pc!Channels |-> ~in[c].intr]
  BY DEF Pc!Edge, Pc!BwdIntr
<1>12. ~borrowed' => \A c \in Pc!Channels : in[c].intr = in[y].intr
  BY Zenon DEF Pc!Edge
<1>13. OlderKnown' /\ YoungerKnown'
  <2>1. OlderKnown'
    BY <1>7, <1>8 DEF OlderKnown
  <2>2. ~borrowed' => bwd_valid' = [c \in Pc!Channels |-> ~in[y].intr]
    BY <1>11, <1>12
  <2>3. YoungerKnown'
    BY <1>9, <1>10, <2>2 DEF YoungerKnown
  <2> QED BY <2>1, <2>3
<1>14. Pc!Broken' <=> ~in[y].intr /\ in[o].npc /= in[y].pc
  BY <1>7, <1>9 DEF Pc!Broken
<1>15. o < y \/ y < o
  <2>1. in[o].order = older /\ in[y].order = Pc!younger
    BY DEF Pc!Carries
  <2>2. o /= y
    BY <2>1 DEF PcInv, Pc!younger
  <2> QED BY <2>2 DEF Pc!Channels
<1>16. CASE o < y
  <2>1. Pc!Before(in, older, y) = {o} /\ Pc!Last(Pc!Before(in, older, y)) = o
    BY <1>16, OneBefore
  <2>2. Pc!Before(in, Pc!younger, o) = {}
    BY <1>16, OneBefore DEF Pc!Channels
  <2>3. Pc!FwdFails(in, y) <=> ~in[y].intr /\ in[o].npc /= in[y].pc
    BY <2>1 DEF Pc!FwdFails, Pc!FwdKnows, Pc!FwdExpects
  <2>4. ~Pc!BwdFails(in, o)
    BY <1>2, <2>2 DEF Pc!BwdFails, Pc!BwdKnows
  <2>5. Pc!FwdSound' /\ Pc!BwdSound' /\ Pc!PairCovered'
    BY <1>3, <1>4, <1>5, <1>6, <1>14, <2>3, <2>4
    DEF Pc!FwdSound, Pc!BwdSound, Pc!PairCovered
  <2> QED BY <1>13, <2>5, EdgeTyped DEF PcInv
<1>17. CASE y < o
  <2>1. Pc!Before(in, Pc!younger, o) = {y} /\ Pc!Last(Pc!Before(in, Pc!younger, o)) = y
    BY <1>17, OneBefore
  <2>2. Pc!Before(in, older, y) = {}
    BY <1>17, OneBefore DEF Pc!Channels
  <2>3. Pc!BwdFails(in, o) <=> ~in[o].intr /\ in[y].pc /= in[o].npc
    BY <2>1 DEF Pc!BwdFails, Pc!BwdKnows, Pc!BwdExpects, Pc!BwdIntr
  <2>4. ~Pc!FwdFails(in, y)
    BY <1>2, <2>2 DEF Pc!FwdFails, Pc!FwdKnows
  <2>5. ~borrowed' => (bwd_failed' <=> Pc!Broken')
    BY <1>3, <1>4, <1>5, <1>12, <1>14, <2>3
  <2>6. Pc!FwdSound' /\ Pc!BwdSound' /\ Pc!PairCovered'
    BY <1>6, <2>4, <2>5 DEF Pc!FwdSound, Pc!BwdSound, Pc!PairCovered
  <2> QED BY <1>13, <2>6, EdgeTyped DEF PcInv
<1> QED BY <1>15, <1>16, <1>17

\* So every edge keeps the invariant.
LEMMA EdgePcInv ==
  ASSUME PcInv, NEW in \in Pc!Inputs, Pc!Edge(in)
  PROVE  PcInv'
<1>1. CASE again'
  BY <1>1, EdgeTyped DEF PcInv, Pc!FwdSound, Pc!BwdSound, Pc!PairCovered
<1>2. CASE ~again'
  <2>1. /\ Pc!Carries(in, older) \subseteq Pc!Channels
        /\ Pc!Carries(in, Pc!younger) \subseteq Pc!Channels
    BY DEF Pc!Carries
  <2>2. /\ ~(\E i, j \in Pc!Carries(in, older) : i /= j)
        /\ ~(\E i, j \in Pc!Carries(in, Pc!younger) : i /= j)
    BY <1>2, Zenon DEF Pc!Edge
  <2>3. Pc!Carries(in, older) = {} \/ \E o \in Pc!Channels : Pc!Carries(in, older) = {o}
    BY <2>1, <2>2, OneChannel
  <2>4. \/ Pc!Carries(in, Pc!younger) = {}
        \/ \E y \in Pc!Channels : Pc!Carries(in, Pc!younger) = {y}
    BY <2>1, <2>2, OneChannel
  <2> QED BY <1>2, <2>3, <2>4, QuietEdge, OlderEdge, YoungerEdge, PairEdge
<1> QED BY <1>1, <1>2

\* The invariant holds in every reachable state.
LEMMA PcInvInductive == Pc!Spec => []PcInv
<1>1. PcInv /\ [Pc!Next]_Pc!vars => PcInv'
  <2> SUFFICES ASSUME PcInv, [Pc!Next]_Pc!vars PROVE PcInv'
    OBVIOUS
  <2>1. CASE Pc!Next
    BY <2>1, ResetPcInv, EdgePcInv DEF Pc!Next
  <2>2. CASE UNCHANGED Pc!vars
    BY <2>2 DEF Pc!vars, PcInv, OlderKnown, YoungerKnown,
                Pc!FwdSound, Pc!BwdSound, Pc!PairCovered, Pc!Broken
  <2> QED BY <2>1, <2>2
<1> QED BY <1>1, InitPcInv, PTL DEF Pc!Spec

-----------------------------------------------------------------------------
\* The forward checks (rvfi_pc_fwd_check.sv) raise no false alarm, for every
\* number of channels and in whatever order the pair retires.
THEOREM NoFwdAlarm == Pc!Spec => []FwdSound
<1>1. PcInv => FwdSound
  BY DEF PcInv, FwdSound
<1> QED BY <1>1, PcInvInductive, PTL

\* The backward checks (rvfi_pc_bwd_check.sv) raise none, provided that the
\* rvfi_intr they borrow is that of the younger instruction.
THEOREM NoBwdAlarm == Pc!Spec => []BwdSound
<1>1. PcInv => BwdSound
  BY DEF PcInv, BwdSound
<1> QED BY <1>1, PcInvInductive, PTL

\* Under the same proviso the two kinds of checks together find every pair that
\* is broken, for every number of channels and order of retirement.
THEOREM Covered == Pc!Spec => []PairCovered
<1>1. PcInv => PairCovered
  BY DEF PcInv, PairCovered
<1> QED BY <1>1, PcInvInductive, PTL

-----------------------------------------------------------------------------
(***************************************************************************)
(* The i/o checks.                                                         *)
(***************************************************************************)
\* What has been handed to the checks so far.
IoTyped == io \subseteq Orders /\ io_retired \subseteq Orders /\ bus \in Seq(io)

\* The order checks know every pair of neighbours on the bus.
BusKnown ==
  /\ bus_current = IF bus = <<>> THEN NoInsn ELSE bus[Len(bus)]
  /\ bus_seq_seen = Io!Pairs(bus)

\* The causal checks know of which instructions younger i/o has retired.
YoungerIoKnown ==
  io_found = {o \in Orders : \E p \in io \cap io_retired : p > o}

\* Until a causal check fails, prev is the youngest i/o that has retired.
PrevKnown ==
  io_failed = {} =>
    /\ prev = NoInsn <=> io \cap io_retired = {}
    /\ prev /= NoInsn => prev \in io \cap io_retired
                         /\ \A p \in io \cap io_retired : p <= prev

\* What the history says of a core without fault.
OvertakenMeans ==
  ~io_overtaken => \A p \in io \cap io_retired, q \in io : q < p => q \in io_retired
LateMeans ==
  ~late => \A p \in io \cap io_retired : \E i \in 1 .. Len(bus) : bus[i] = p

IoInv ==
  /\ IoTyped /\ BusKnown /\ YoungerIoKnown /\ PrevKnown
  /\ OvertakenMeans /\ LateMeans
  /\ Io!IoReachesBusInOrder /\ Io!OrderedIoAccepted

\* The vectors that the channels and buses can carry.
IoInputs == [Io!Channels -> Orders \cup {NoInsn}]
BusInputs == [Io!BusChannels -> io \cup {NoInsn}]

-----------------------------------------------------------------------------
\* The accesses of one cycle are a sequence.
LEMMA PerformsSeq ==
  ASSUME IoTyped, NEW b \in BusInputs
  PROVE  Io!Performs(b) \in Seq(io)
<1>1. NBus \in Nat /\ NoInsn \notin io
  BY FormalChecksAssumption DEF Io!IoOrderAssumption, IoTyped
<1> DEFINE body == [n \in 1 .. NBus |->
                      [s \in Seq(io) |-> IF b[n - 1] = NoInsn THEN s
                                         ELSE Append(s, b[n - 1])]]
           Step(f) == [n \in 0 .. NBus |->
                         IF n = 0 THEN <<>>
                         ELSE IF b[n - 1] = NoInsn THEN f[n - 1]
                         ELSE Append(f[n - 1], b[n - 1])]
           upTo == CHOOSE f : f = Step(f)
<1>2. \A n \in 1 .. NBus : b[n - 1] = NoInsn \/ b[n - 1] \in io
  BY <1>1 DEF BusInputs, Io!BusChannels
<1>3. body \in [1 .. NBus -> [Seq(io) -> Seq(io)]]
  <2>1. ASSUME NEW n \in 1 .. NBus, NEW s \in Seq(io)
        PROVE  (IF b[n - 1] = NoInsn THEN s ELSE Append(s, b[n - 1])) \in Seq(io)
    BY <1>2
  <2> QED BY <2>1
<1>4. PICK f \in [0 .. NBus -> Seq(io)] :
        f[0] = <<>> /\ \A n \in 1 .. NBus : f[n] = body[n][f[n - 1]]
  <2> DEFINE S == Seq(io)
             empty == <<>>
  <2>1. empty \in S /\ body \in [1 .. NBus -> [S -> S]] /\ NBus \in Nat
    BY <1>1, <1>3
  <2> HIDE DEF body, S, empty
  <2>2. \E f \in [0 .. NBus -> S] : Loop(f, NBus, empty, body)
    BY <2>1, LoopValues
  <2> QED BY <2>2 DEF S, empty, Loop
<1>5. f = Step(f)
  <2>1. ASSUME NEW n \in 1 .. NBus
        PROVE  f[n] = IF b[n - 1] = NoInsn THEN f[n - 1] ELSE Append(f[n - 1], b[n - 1])
    <3>1. n - 1 \in 0 .. NBus
      BY <1>1
    <3>2. f[n - 1] \in Seq(io)
      BY <3>1
    <3> QED BY <1>4, <3>2
  <2>2. \A n \in 0 .. NBus : f[n] = Step(f)[n]
    <3> SUFFICES ASSUME NEW n \in 0 .. NBus PROVE f[n] = Step(f)[n]
      OBVIOUS
    <3>1. CASE n = 0
      BY <1>4, <3>1
    <3>2. CASE n /= 0
      <4>1. n \in 1 .. NBus
        BY <1>1, <3>2
      <4>2. Step(f)[n] = IF b[n - 1] = NoInsn THEN f[n - 1] ELSE Append(f[n - 1], b[n - 1])
        BY <3>2
      <4> QED BY <2>1, <4>1, <4>2
    <3> QED BY <3>1, <3>2
  <2> QED BY <2>2
<1>6. upTo = Step(upTo)
  <2> HIDE DEF Step
  <2> QED BY <1>5
<1>7. upTo \in [0 .. NBus -> Seq(io)]
  <2> DEFINE P == {n \in 0 .. NBus : upTo[n] \in Seq(io)}
  <2> HIDE DEF upTo
  <2>1. 0 \in P
    <3>1. upTo[0] = <<>>
      BY <1>1, <1>6
    <3> QED BY <1>1, <3>1
  <2>2. ASSUME NEW n \in 1 .. NBus, n - 1 \in P PROVE n \in P
    <3>1. n \in 0 .. NBus /\ n /= 0
      BY <1>1
    <3>2. Step(upTo)[n] = IF b[n - 1] = NoInsn THEN upTo[n - 1]
                          ELSE Append(upTo[n - 1], b[n - 1])
      BY <3>1
    <3>3. upTo[n] = Step(upTo)[n]
      BY <1>6, Zenon
    <3>4. upTo[n - 1] \in Seq(io)
      BY <2>2
    <3>5. upTo[n] \in Seq(io)
      BY <1>2, <3>2, <3>3, <3>4
    <3> QED BY <3>1, <3>5
  <2>3. \A n \in 0 .. NBus : n \in P
    <3> HIDE DEF P
    <3> QED BY <1>1, <2>1, <2>2, RangeInduction
  <2> QED BY <1>6, <2>3
<1>8. Io!Performs(b) = upTo[NBus]
  BY DEF Io!Performs
<1> HIDE DEF upTo
<1> QED BY <1>1, <1>7, <1>8

\* The neighbours in two sequences that are joined.
End(s) == IF s = <<>> THEN <<>> ELSE <<s[Len(s)]>>
LEMMA PairsOfJoin ==
  ASSUME NEW S, NEW s \in Seq(S), NEW t \in Seq(S)
  PROVE  Io!Pairs(s \o t) = Io!Pairs(s) \cup Io!Pairs(End(s) \o t)
<1>1. CASE s = <<>>
  <2>1. s \o t = t /\ End(s) \o t = t
    BY <1>1 DEF End
  <2>2. Io!Pairs(s) = {}
    BY <1>1 DEF Io!Pairs
  <2> QED BY <1>1, <2>1, <2>2
<1>2. CASE s /= <<>>
  <2> DEFINE u == <<s[Len(s)]>> \o t
             n == Len(s)
  <2>1. n \in Nat \ {0} /\ s[n] \in S
    BY <1>2
  <2>2. u \in Seq(S) /\ Len(u) = Len(t) + 1 /\ s \o t \in Seq(S) /\ Len(s \o t) = n + Len(t)
    BY <2>1
  <2>3. \A i \in 1 .. Len(t) : (s \o t)[n + i] = t[i] /\ u[i + 1] = t[i]
    BY <2>1
  <2>4. \A i \in 1 .. n : (s \o t)[i] = s[i]
    BY <2>1
  <2>5. u[1] = s[n]
    BY <2>1
  <2>6. \A i \in 1 .. Len(t) + 1 : u[i] = (s \o t)[n - 1 + i]
    <3> SUFFICES ASSUME NEW i \in 1 .. Len(t) + 1 PROVE u[i] = (s \o t)[n - 1 + i]
      OBVIOUS
    <3>1. CASE i = 1
      BY <2>1, <2>4, <2>5, <3>1
    <3>2. CASE i /= 1
      <4> DEFINE k == i - 1
      <4>1. k \in 1 .. Len(t) /\ i = k + 1 /\ n - 1 + i = n + k
        BY <2>1, <3>2
      <4> HIDE DEF k
      <4> QED BY <2>3, <4>1
    <3> QED BY <3>1, <3>2
  <2> DEFINE st == s \o t
  <2>7. /\ n = Len(s) /\ Len(t) \in Nat
        /\ Len(st) = n + Len(t) /\ Len(u) = Len(t) + 1
    BY <2>2
  <2>8. \A i \in 1 .. n : st[i] = s[i]
    BY <2>4
  <2>9. \A i \in 1 .. Len(t) + 1 : u[i] = st[n - 1 + i]
    BY <2>6
  <2> HIDE DEF u, st, n
  <2>10. ASSUME NEW i \in 1 .. Len(st) - 1
         PROVE  <<st[i], st[i + 1]>> \in Io!Pairs(s) \cup Io!Pairs(u)
    <3>1. CASE i < n
      <4>1. i \in 1 .. Len(s) - 1 /\ st[i] = s[i] /\ st[i + 1] = s[i + 1]
        BY <2>1, <2>7, <2>8, <3>1
      <4> QED BY <4>1 DEF Io!Pairs
    <3>2. CASE ~(i < n)
      <4> DEFINE j == i - n + 1
      <4>1. /\ j \in 1 .. Len(u) - 1 /\ j \in 1 .. Len(t) + 1 /\ j + 1 \in 1 .. Len(t) + 1
            /\ n - 1 + j = i /\ n - 1 + (j + 1) = i + 1
        BY <2>1, <2>7, <3>2
      <4> HIDE DEF j
      <4>2. u[j] = st[i] /\ u[j + 1] = st[i + 1]
        BY <2>9, <4>1
      <4> QED BY <4>1, <4>2 DEF Io!Pairs
    <3> QED BY <3>1, <3>2
  <2>11. ASSUME NEW i \in 1 .. Len(s) - 1
         PROVE  <<s[i], s[i + 1]>> \in Io!Pairs(st)
    <3>1. i \in 1 .. Len(st) - 1 /\ st[i] = s[i] /\ st[i + 1] = s[i + 1]
      BY <2>1, <2>7, <2>8
    <3> QED BY <3>1 DEF Io!Pairs
  <2>12. ASSUME NEW j \in 1 .. Len(u) - 1
         PROVE  <<u[j], u[j + 1]>> \in Io!Pairs(st)
    <3> DEFINE i == n - 1 + j
    <3>1. /\ i \in 1 .. Len(st) - 1 /\ n - 1 + (j + 1) = i + 1
          /\ j \in 1 .. Len(t) + 1 /\ j + 1 \in 1 .. Len(t) + 1
      BY <2>1, <2>7
    <3>2. u[j] = st[i] /\ u[j + 1] = st[i + 1]
      BY <2>9, <3>1
    <3> HIDE DEF i
    <3> QED BY <3>1, <3>2 DEF Io!Pairs
  <2>13. Io!Pairs(st) = Io!Pairs(s) \cup Io!Pairs(u)
    <3>1. Io!Pairs(st) \subseteq Io!Pairs(s) \cup Io!Pairs(u)
      <4> SUFFICES ASSUME NEW x \in Io!Pairs(st) PROVE x \in Io!Pairs(s) \cup Io!Pairs(u)
        OBVIOUS
      <4>1. PICK i \in 1 .. Len(st) - 1 : x = <<st[i], st[i + 1]>>
        BY DEF Io!Pairs
      <4> QED BY <2>10, <4>1
    <3>2. Io!Pairs(s) \subseteq Io!Pairs(st)
      <4> SUFFICES ASSUME NEW x \in Io!Pairs(s) PROVE x \in Io!Pairs(st)
        OBVIOUS
      <4>1. PICK i \in 1 .. Len(s) - 1 : x = <<s[i], s[i + 1]>>
        BY DEF Io!Pairs
      <4> QED BY <2>11, <4>1
    <3>3. Io!Pairs(u) \subseteq Io!Pairs(st)
      <4> SUFFICES ASSUME NEW x \in Io!Pairs(u) PROVE x \in Io!Pairs(st)
        OBVIOUS
      <4>1. PICK j \in 1 .. Len(u) - 1 : x = <<u[j], u[j + 1]>>
        BY DEF Io!Pairs
      <4> QED BY <2>12, <4>1
    <3> QED BY <3>1, <3>2, <3>3
  <2> QED BY <1>2, <2>13 DEF u, st, n, End
<1> QED BY <1>1, <1>2

-----------------------------------------------------------------------------
\* The last of several channels.
LEMMA LastIoChannel ==
  ASSUME NEW cs, cs \subseteq Io!Channels, cs /= {}
  PROVE  /\ Io!Last(cs) \in cs
         /\ \A d \in cs : d <= Io!Last(cs)
<1>1. NRet \in Nat /\ cs \subseteq 0 .. NRet - 1
  BY FormalChecksAssumption DEF Io!IoOrderAssumption, Io!Channels
<1>2. \E c \in cs : \A d \in cs : d <= c
  BY <1>1, GreatestElement
<1> QED BY <1>2 DEF Io!Last

\* What an i/o channel carries, and that no two carry the same.
LEMMA IoChannelFields ==
  ASSUME IoTyped, NEW in \in IoInputs, NEW b, Io!Edge(in, b)
  PROVE  /\ Io!IoChannels(in) \subseteq Io!Channels
         /\ \A c \in Io!IoChannels(in) :
              /\ in[c] \in io /\ in[c] \in Nat /\ in[c] /= NoInsn
              /\ in[c] \notin io_retired
              /\ Io!IoBelow(in, c) = {d \in Io!IoChannels(in) : d < c}
         /\ \A c, d \in Io!IoChannels(in) : c /= d => in[c] /= in[d]
<1>1. Orders \subseteq Nat /\ NoInsn \notin Orders
  BY FormalChecksAssumption DEF Io!IoOrderAssumption
<1>2. \A c \in Io!IoChannels(in) : c \in Io!Channels /\ c \in Io!Valid(in) /\ in[c] \in io
  BY DEF Io!IoChannels, Io!Valid
<1>3. \A c \in Io!IoChannels(in) : in[c] \notin io_retired
  BY <1>2 DEF Io!Edge, Io!Retires
<1>4. \A c, d \in Io!IoChannels(in) : c /= d => in[c] /= in[d]
  BY <1>2 DEF Io!Edge
<1> QED BY <1>1, <1>2, <1>3, <1>4 DEF IoTyped, Io!IoBelow

\* When no causal check fails at an edge, the i/o on its channels is younger
\* than what has retired, and younger than that on the channels below.
Ascends(in) ==
  \A c \in Io!IoChannels(in) :
    /\ \A p \in io \cap io_retired : p < in[c]
    /\ \A d \in Io!IoChannels(in) : d < c => in[d] < in[c]

LEMMA NoCausalFailure ==
  ASSUME IoTyped, YoungerIoKnown, NEW in \in IoInputs, NEW b, Io!Edge(in, b),
         Io!CausalFails(in) = {}
  PROVE  Ascends(in)
<1> SUFFICES ASSUME NEW c \in Io!IoChannels(in)
             PROVE  /\ \A p \in io \cap io_retired : p < in[c]
                    /\ \A d \in Io!IoChannels(in) : d < c => in[d] < in[c]
  BY DEF Ascends
<1>1. Orders \subseteq Nat
  BY FormalChecksAssumption DEF Io!IoOrderAssumption
<1>2. in[c] \notin io_found /\ ~\E e \in Io!IoBelow(in, c) : in[e] > in[c]
  BY DEF Io!CausalFails
<1>3. /\ in[c] \in io /\ in[c] \in Orders /\ in[c] \in Nat /\ in[c] \notin io_retired
      /\ Io!IoBelow(in, c) = {d \in Io!IoChannels(in) : d < c}
  BY IoChannelFields DEF IoTyped
<1>4. ASSUME NEW p \in io \cap io_retired PROVE p < in[c]
  <2>1. ~(p > in[c]) /\ p /= in[c]
    BY <1>2, <1>3 DEF YoungerIoKnown
  <2> QED BY <1>1, <1>3, <2>1 DEF IoTyped
<1>5. ASSUME NEW d \in Io!IoChannels(in), d < c PROVE in[d] < in[c]
  <2>1. ~(in[d] > in[c]) /\ d /= c
    BY <1>2, <1>3, <1>5, IoChannelFields DEF Io!Channels
  <2>2. in[d] /= in[c] /\ in[d] \in Nat
    BY <2>1, IoChannelFields
  <2> QED BY <1>3, <2>1, <2>2
<1> QED BY <1>4, <1>5

\* The i/o that has retired before an edge or on some of its channels, and the
\* last of it as the checks see it.
Gone(in, cs) == (io \cap io_retired) \cup {in[d] : d \in cs}
LastGone(in, cs) == IF cs = {} THEN prev ELSE in[Io!Last(cs)]

\* It is the youngest.
LEMMA LastIsYoungest ==
  ASSUME IoTyped, PrevKnown, io_failed = {}, NEW in \in IoInputs, NEW b, Io!Edge(in, b),
         Ascends(in), NEW cs, cs \subseteq Io!IoChannels(in)
  PROVE  /\ LastGone(in, cs) = NoInsn <=> Gone(in, cs) = {}
         /\ LastGone(in, cs) /= NoInsn =>
              /\ LastGone(in, cs) \in Gone(in, cs)
              /\ \A p \in Gone(in, cs) : p <= LastGone(in, cs)
<1>1. CASE cs = {}
  BY <1>1 DEF Gone, LastGone, PrevKnown
<1>2. CASE cs /= {}
  <2> DEFINE l == Io!Last(cs)
  <2>1. cs \subseteq Io!Channels
    BY IoChannelFields
  <2>2. l \in cs /\ \A d \in cs : d <= l
    BY <1>2, <2>1, LastIoChannel
  <2>3. in[l] \in Nat /\ in[l] /= NoInsn
    BY <2>2, IoChannelFields
  <2>4. \A p \in io \cap io_retired : p <= in[l]
    <3>1. Orders \subseteq Nat
      BY FormalChecksAssumption DEF Io!IoOrderAssumption
    <3>2. \A p \in io \cap io_retired : p < in[l]
      BY <2>2 DEF Ascends
    <3> QED BY <2>3, <3>1, <3>2 DEF IoTyped
  <2>5. ASSUME NEW d \in cs PROVE in[d] <= in[l]
    <3>1. d = l \/ d < l
      <4>1. d \in Int /\ l \in Int
        <5>1. NRet \in Nat /\ d \in Io!Channels /\ l \in Io!Channels
          BY <2>1, <2>2, FormalChecksAssumption DEF Io!IoOrderAssumption
        <5> HIDE DEF l
        <5> QED BY <5>1 DEF Io!Channels
      <4>2. d <= l
        BY <2>2
      <4> HIDE DEF l
      <4> QED BY <4>1, <4>2
    <3>2. CASE d = l
      BY <2>3, <3>2
    <3>3. CASE d < l
      <4>1. in[d] < in[l] /\ in[d] \in Nat
        BY <2>2, <3>3, IoChannelFields DEF Ascends
      <4> QED BY <2>3, <4>1
    <3> QED BY <3>1, <3>2, <3>3
  <2>6. LastGone(in, cs) = in[l] /\ in[l] \in Gone(in, cs)
    BY <1>2, <2>2 DEF LastGone, Gone
  <2>7. \A p \in Gone(in, cs) : p <= in[l]
    BY <2>4, <2>5 DEF Gone
  <2> HIDE DEF l
  <2> QED BY <2>3, <2>6, <2>7
<1> QED BY <1>1, <1>2

-----------------------------------------------------------------------------
\* The neighbours of a sequence stay neighbours when it grows.
LEMMA MorePairs ==
  ASSUME NEW S, NEW s \in Seq(S), NEW t \in Seq(S)
  PROVE  /\ Io!Pairs(s) \subseteq Io!Pairs(s \o t)
         /\ \A i \in 1 .. Len(s) : i \in 1 .. Len(s \o t) /\ (s \o t)[i] = s[i]
<1>1. Io!Pairs(s) \subseteq Io!Pairs(s \o t)
  BY PairsOfJoin
<1>2. /\ Len(s \o t) = Len(s) + Len(t) /\ Len(s) \in Nat /\ Len(t) \in Nat
      /\ \A i \in 1 .. Len(s) : (s \o t)[i] = s[i]
  OBVIOUS
<1>3. \A i \in 1 .. Len(s) : i \in 1 .. Len(s \o t)
  BY <1>2
<1> QED BY <1>1, <1>2, <1>3

\* What an edge does to the bus.
LEMMA BusEdge ==
  ASSUME IoTyped, BusKnown, NEW in \in IoInputs, NEW b \in BusInputs, Io!Edge(in, b)
  PROVE  /\ IoTyped' /\ BusKnown'
         /\ Io!Pairs(bus) \subseteq Io!Pairs(bus')
         /\ \A i \in 1 .. Len(bus) : i \in 1 .. Len(bus') /\ bus'[i] = bus[i]
<1> DEFINE P == Io!Performs(b)
<1>1. P \in Seq(io)
  BY PerformsSeq
<1>2. bus' = bus \o P /\ io' = io /\ bus \in Seq(io)
  BY DEF Io!Edge, IoTyped
<1>3. IoTyped'
  <2>1. io_retired' = io_retired \cup Io!Retires(in)
    BY DEF Io!Edge
  <2>2. Io!Retires(in) \subseteq Orders
    BY DEF Io!Retires, Io!Valid, IoInputs
  <2>3. bus' \in Seq(io)
    BY <1>1, <1>2
  <2> QED BY <1>2, <2>1, <2>2, <2>3 DEF IoTyped
<1>4. bus_current' = IF bus' = <<>> THEN NoInsn ELSE bus'[Len(bus')]
  <2>1. bus_current' = IF P = <<>> THEN bus_current ELSE P[Len(P)]
    BY DEF Io!Edge
  <2>2. CASE P = <<>>
    <3>1. bus' = bus
      BY <1>2, <2>2
    <3> QED BY <2>1, <2>2, <3>1 DEF BusKnown
  <2>3. CASE P /= <<>>
    <3>1. Len(P) \in Nat \ {0} /\ Len(bus) \in Nat
      BY <1>1, <1>2, <2>3
    <3>2. /\ Len(bus') = Len(bus) + Len(P) /\ bus' /= <<>>
          /\ bus'[Len(bus) + Len(P)] = P[Len(P)]
      BY <1>1, <1>2, <3>1
    <3> QED BY <2>1, <2>3, <3>2
  <2> QED BY <2>2, <2>3
<1>5. bus_seq_seen' = Io!Pairs(bus')
  <2>1. NoInsn \notin io
    BY FormalChecksAssumption DEF Io!IoOrderAssumption, IoTyped
  <2>2. bus /= <<>> => bus[Len(bus)] \in io
    BY <1>2
  <2>3. (IF bus_current = NoInsn THEN <<>> ELSE <<bus_current>>)
          = End(bus)
    BY <2>1, <2>2 DEF BusKnown, End
  <2>4. bus_seq_seen' = Io!Pairs(bus) \cup Io!Pairs(End(bus) \o P)
    BY <2>3 DEF Io!Edge, Io!NewPairs, BusKnown
  <2> HIDE DEF P
  <2> QED BY <1>1, <1>2, <2>4, PairsOfJoin
<1>6. /\ Io!Pairs(bus) \subseteq Io!Pairs(bus')
      /\ \A i \in 1 .. Len(bus) : i \in 1 .. Len(bus') /\ bus'[i] = bus[i]
  <2> HIDE DEF P
  <2> QED BY <1>1, <1>2, MorePairs
<1>7. BusKnown'
  BY <1>4, <1>5 DEF BusKnown
<1> QED BY <1>3, <1>6, <1>7

\* What an edge does to the rest.
LEMMA HistoryEdge ==
  ASSUME IoInv, NEW in \in IoInputs, NEW b \in BusInputs, Io!Edge(in, b)
  PROVE  YoungerIoKnown' /\ PrevKnown' /\ OvertakenMeans' /\ LateMeans'
<1>1. io' = io /\ io \cap io_retired' = Gone(in, Io!IoChannels(in))
  BY DEF Io!Edge, Io!Retires, Io!IoChannels, Gone
<1>2. YoungerIoKnown'
  <2>1. io_found' = io_found \cup {o \in Orders : \E c \in Io!IoChannels(in) : in[c] > o}
    BY DEF Io!Edge
  <2> QED BY <1>1, <2>1 DEF IoInv, YoungerIoKnown, Gone
<1>3. PrevKnown'
  <2> SUFFICES ASSUME io_failed' = {}
               PROVE  /\ prev' = NoInsn <=> io \cap io_retired' = {}
                      /\ prev' /= NoInsn => prev' \in io \cap io_retired'
                                            /\ \A p \in io \cap io_retired' : p <= prev'
    BY <1>1 DEF PrevKnown
  <2>1. io_failed = {} /\ Io!CausalFails(in) = {}
    BY DEF Io!Edge
  <2>2. Ascends(in)
    BY <2>1, NoCausalFailure DEF IoInv
  <2>3. prev' = LastGone(in, Io!IoChannels(in))
    BY DEF Io!Edge, LastGone
  <2> QED BY <1>1, <2>1, <2>2, <2>3, LastIsYoungest DEF IoInv
<1>4. OvertakenMeans'
  <2> SUFFICES ASSUME ~io_overtaken', NEW p \in io \cap io_retired', NEW q \in io, q < p
               PROVE  q \in io_retired'
    BY <1>1 DEF OvertakenMeans
  <2>1. /\ ~io_overtaken
        /\ ~\E c \in Io!IoChannels(in) : \E o \in io \ io_retired :
               o < in[c] /\ o \notin {in[d] : d \in Io!IoBelow(in, c)}
    BY Zenon DEF Io!Edge
  <2>2. CASE p \in io_retired
    BY <2>1, <2>2 DEF IoInv, OvertakenMeans, Io!Edge
  <2>3. CASE p \notin io_retired
    <3>1. PICK c \in Io!IoChannels(in) : p = in[c]
      BY <1>1, <2>3 DEF Gone
    <3>2. q \in io_retired \/ q \in {in[d] : d \in Io!IoBelow(in, c)}
      BY <2>1, <3>1
    <3>3. Io!IoBelow(in, c) \subseteq Io!IoChannels(in)
      BY DEF Io!IoBelow
    <3>4. q \in Gone(in, Io!IoChannels(in))
      BY <3>2, <3>3 DEF Gone
    <3> QED BY <1>1, <3>4
  <2> QED BY <2>2, <2>3
<1>5. LateMeans'
  <2> SUFFICES ASSUME ~late', NEW p \in io \cap io_retired'
               PROVE  \E i \in 1 .. Len(bus') : bus'[i] = p
    BY <1>1 DEF LateMeans
  <2>1. /\ ~late
        /\ ~\E c \in Io!IoChannels(in) : \A i \in 1 .. Len(bus') : bus'[i] /= in[c]
    BY Zenon DEF Io!Edge
  <2>2. CASE p \in io_retired
    <3>1. PICK i \in 1 .. Len(bus) : bus[i] = p
      BY <2>1, <2>2 DEF IoInv, LateMeans
    <3> QED BY <3>1, BusEdge DEF IoInv
  <2>3. CASE p \notin io_retired
    BY <1>1, <2>1, <2>3 DEF Gone
  <2> QED BY <2>2, <2>3
<1> QED BY <1>2, <1>3, <1>4, <1>5

\* When the checks stay silent, two neighbours of the program are neighbours on
\* the bus: the younger one has the older one before it, because nothing
\* between them retires between them.
LEMMA SilentEdge ==
  ASSUME IoInv, NEW in \in IoInputs, NEW b \in BusInputs, Io!Edge(in, b)
  PROVE  Io!IoReachesBusInOrder'
<1> SUFFICES ASSUME io_failed' = {}, order_failed' = {},
                    NEW o \in io \cap io_retired', NEW p \in io \cap io_retired',
                    Io!NextIo(o, p)
             PROVE  <<o, p>> \in Io!Pairs(bus')
  <2>1. io' = io
    BY DEF Io!Edge
  <2>2. \A o, p : Io!NextIo(o, p)' <=> Io!NextIo(o, p)
    BY <2>1 DEF Io!NextIo
  <2> QED BY <2>1, <2>2 DEF Io!IoReachesBusInOrder, Io!Silent
<1>1. /\ io_failed = {} /\ order_failed = {}
      /\ Io!CausalFails(in) = {} /\ Io!OrderFails(in) = {}
  BY DEF Io!Edge
<1>2. Ascends(in)
  BY <1>1, NoCausalFailure DEF IoInv
<1>3. io \cap io_retired' = Gone(in, Io!IoChannels(in))
  BY DEF Io!Edge, Io!Retires, Io!IoChannels, Gone
<1>4. o \in Nat /\ p \in Nat /\ o < p /\ \A q \in io : q <= o \/ q >= p
  BY FormalChecksAssumption DEF Io!IoOrderAssumption, IoInv, IoTyped, Io!NextIo
<1>5. CASE p \in io_retired
  <2>1. o \in io_retired
    BY <1>2, <1>3, <1>4, <1>5 DEF Gone, Ascends
  <2>2. <<o, p>> \in Io!Pairs(bus)
    BY <1>1, <1>5, <2>1 DEF IoInv, Io!IoReachesBusInOrder, Io!Silent
  <2> QED BY <2>2, BusEdge DEF IoInv
<1>6. CASE p \notin io_retired
  <2>1. PICK c \in Io!IoChannels(in) : p = in[c]
    BY <1>3, <1>6 DEF Gone
  <2> DEFINE cs == Io!IoBelow(in, c)
             q == LastGone(in, cs)
  <2>2. cs = {d \in Io!IoChannels(in) : d < c} /\ cs \subseteq Io!IoChannels(in)
    BY <2>1, IoChannelFields DEF IoInv
  <2>3. o \in Gone(in, cs)
    <3>1. CASE o \in io_retired
      BY <3>1 DEF Gone
    <3>2. CASE o \notin io_retired
      <4>1. PICK e \in Io!IoChannels(in) : o = in[e]
        BY <1>3, <3>2 DEF Gone
      <4>2. e \in Int /\ c \in Int
        BY IoChannelFields DEF IoInv, Io!Channels
      <4>3. ~(c < e) /\ c /= e
        BY <1>2, <1>4, <2>1, <4>1 DEF Ascends
      <4>4. e \in cs
        BY <2>2, <4>2, <4>3
      <4> QED BY <4>1, <4>4 DEF Gone
    <3> QED BY <3>1, <3>2
  <2>4. q /= NoInsn /\ q \in Gone(in, cs) /\ o <= q
    BY <1>1, <1>2, <2>2, <2>3, LastIsYoungest DEF IoInv
  <2>5. q \in io /\ q < p
    <3>1. CASE q \in io \cap io_retired
      BY <1>2, <2>1, <3>1 DEF Ascends
    <3>2. CASE q \in {in[d] : d \in cs}
      BY <1>2, <2>1, <2>2, <3>2, IoChannelFields DEF Ascends, IoInv
    <3> QED BY <2>4, <3>1, <3>2 DEF Gone
  <2>6. q \in Nat
    BY <2>5, FormalChecksAssumption DEF Io!IoOrderAssumption, IoInv, IoTyped
  <2>7. q = o
    <3> HIDE DEF q
    <3> QED BY <1>4, <2>4, <2>5, <2>6
  <2>8. q = Io!Previous(in, c)
    BY DEF LastGone, Io!Previous
  <2>9. <<q, p>> \in bus_seq_seen'
    BY <1>1, <2>1, <2>4, <2>8 DEF Io!OrderFails
  <2> QED BY <2>7, <2>9, BusEdge DEF IoInv, BusKnown
<1> QED BY <1>5, <1>6

\* A core that does everything in program order is never flagged.
LEMMA OrderedEdge ==
  ASSUME IoInv, NEW in \in IoInputs, NEW b \in BusInputs, Io!Edge(in, b)
  PROVE  Io!OrderedIoAccepted'
<1>1. io' = io
  BY DEF Io!Edge
<1>2. \A o, p : Io!NextIo(o, p)' <=> Io!NextIo(o, p)
  BY <1>1 DEF Io!NextIo
<1> SUFFICES ASSUME ~io_overtaken', ~late',
                    bus' /= <<>> => bus'[1] \in io /\ \A q \in io : bus'[1] <= q,
                    \A x \in Io!Pairs(bus') : Io!NextIo(x[1], x[2])
             PROVE  io_failed' = {} /\ order_failed' = {}
  BY <1>1, <1>2 DEF Io!OrderedIoAccepted, Io!Silent, Io!OrderedBus
<1>3. Orders \subseteq Nat /\ NoInsn \notin Orders /\ io \subseteq Orders
  BY FormalChecksAssumption DEF Io!IoOrderAssumption, IoInv, IoTyped
<1>4. io_failed = {} /\ order_failed = {}
  <2>1. ~io_overtaken /\ ~late
    BY Zenon DEF Io!Edge
  <2>2. \A x \in Io!Pairs(bus) : Io!NextIo(x[1], x[2])
    BY BusEdge DEF IoInv
  <2>3. bus /= <<>> => bus[1] \in io /\ \A q \in io : bus[1] <= q
    <3> SUFFICES ASSUME bus /= <<>>
                 PROVE  bus[1] \in io /\ \A q \in io : bus[1] <= q
      OBVIOUS
    <3>1. 1 \in 1 .. Len(bus)
      BY DEF IoInv, IoTyped
    <3>2. 1 \in 1 .. Len(bus') /\ bus'[1] = bus[1]
      BY <3>1, BusEdge DEF IoInv
    <3>3. bus' /= <<>>
      BY <3>2
    <3> QED BY <3>2, <3>3
  <2> QED BY <2>1, <2>2, <2>3 DEF IoInv, Io!OrderedIoAccepted, Io!Silent, Io!OrderedBus
<1>5. ~\E c \in Io!IoChannels(in) : \E o \in io \ io_retired :
         o < in[c] /\ o \notin {in[d] : d \in Io!IoBelow(in, c)}
  BY Zenon DEF Io!Edge
<1>6. Io!CausalFails(in) = {}
  <2> SUFFICES ASSUME NEW d \in Io!IoChannels(in)
               PROVE  in[d] \notin io_found /\ \A e \in Io!IoBelow(in, d) : ~(in[e] > in[d])
    BY DEF Io!CausalFails
  <2>1. /\ in[d] \in io /\ in[d] \in Nat /\ in[d] \notin io_retired
        /\ Io!IoBelow(in, d) = {e \in Io!IoChannels(in) : e < d}
    BY IoChannelFields DEF IoInv
  <2>2. in[d] \notin io_found
    <3> SUFFICES ASSUME NEW p \in io \cap io_retired, p > in[d] PROVE FALSE
      BY DEF IoInv, YoungerIoKnown
    <3>1. ~io_overtaken /\ p \in Nat
      BY <1>3, Zenon DEF Io!Edge
    <3>2. in[d] < p
      BY <1>3, <2>1
    <3> QED BY <2>1, <3>1, <3>2 DEF IoInv, OvertakenMeans
  <2>3. ASSUME NEW e \in Io!IoBelow(in, d), in[e] > in[d] PROVE FALSE
    <3>1. e \in Io!IoChannels(in) /\ e < d /\ e \in Int /\ d \in Int
      BY <2>1, IoChannelFields DEF IoInv, Io!Channels
    <3>2. in[d] < in[e]
      BY <2>1, <2>3, <3>1, IoChannelFields DEF IoInv
    <3>3. in[d] \in {in[x] : x \in Io!IoBelow(in, e)}
      BY <1>5, <2>1, <3>1, <3>2
    <3>4. PICK x \in Io!IoChannels(in) : x < e /\ in[d] = in[x]
      BY <3>1, <3>3, IoChannelFields DEF IoInv
    <3>5. x = d
      BY <3>4, IoChannelFields DEF IoInv
    <3> QED BY <3>1, <3>4, <3>5
  <2> QED BY <2>2, <2>3
<1>7. Ascends(in)
  BY <1>6, NoCausalFailure DEF IoInv
<1>8. Io!OrderFails(in) = {}
  <2> SUFFICES ASSUME NEW d \in Io!IoChannels(in), Io!Previous(in, d) /= NoInsn
               PROVE  <<Io!Previous(in, d), in[d]>> \in bus_seq_seen'
    BY DEF Io!OrderFails
  <2> DEFINE p == in[d]
             cs == Io!IoBelow(in, d)
             q == LastGone(in, cs)
  <2>1. /\ p \in io /\ p \in Nat /\ cs = {e \in Io!IoChannels(in) : e < d}
    BY IoChannelFields DEF IoInv
  <2>2. q = Io!Previous(in, d)
    BY DEF LastGone, Io!Previous
  <2>3. q \in Gone(in, cs) /\ \A r \in Gone(in, cs) : r <= q
    BY <1>4, <1>7, <2>1, <2>2, LastIsYoungest DEF IoInv
  <2>4. q \in io /\ q < p
    <3>1. CASE q \in io \cap io_retired
      BY <1>7, <3>1 DEF Ascends
    <3>2. CASE q \in {in[e] : e \in cs}
      BY <1>7, <2>1, <3>2, IoChannelFields DEF Ascends, IoInv
    <3> QED BY <2>3, <3>1, <3>2 DEF Gone
  <2>5. q \in Nat
    BY <1>3, <2>4
  <2> HIDE DEF q, p
  <2>6. \A r \in io : r <= q \/ r >= p
    <3> SUFFICES ASSUME NEW r \in io, ~(r >= p) PROVE r <= q
      OBVIOUS
    <3>1. r < p
      BY <1>3, <2>1
    <3>2. r \in io_retired \/ r \in {in[e] : e \in Io!IoBelow(in, d)}
      BY <1>5, <3>1 DEF p
    <3>3. r \in Gone(in, cs)
      BY <3>2 DEF Gone
    <3> QED BY <2>3, <3>3
  <2>7. PICK j \in 1 .. Len(bus') : bus'[j] = p
    <3>1. p \in io' \cap io_retired'
      BY <1>1, <2>1 DEF p, Io!Edge, Io!Retires, Io!IoChannels
    <3>2. LateMeans'
      BY HistoryEdge
    <3> QED BY <3>1, <3>2 DEF LateMeans
  <2>8. Len(bus') \in Nat /\ \A i \in 1 .. Len(bus') : bus'[i] \in io
    BY <1>1, BusEdge DEF IoInv, IoTyped
  <2>9. j /= 1
    <3>1. bus' /= <<>>
      BY <2>7
    <3>2. bus'[1] <= q
      BY <2>4, <3>1
    <3> QED BY <2>1, <2>4, <2>5, <2>7, <3>2
  <2> DEFINE i == j - 1
  <2>10. i \in 1 .. Len(bus') - 1 /\ i \in 1 .. Len(bus') /\ j = i + 1
    BY <2>7, <2>8, <2>9
  <2> HIDE DEF i
  <2>11. <<bus'[i], p>> \in Io!Pairs(bus')
    BY <2>7, <2>10 DEF Io!Pairs
  <2>12. Io!NextIo(bus'[i], p) /\ bus'[i] \in io
    BY <2>8, <2>10, <2>11
  <2>13. bus'[i] = q
    <3>1. bus'[i] < p /\ (q <= bus'[i] \/ q >= p) /\ (bus'[i] <= q \/ bus'[i] >= p)
      BY <2>4, <2>6, <2>12 DEF Io!NextIo
    <3>2. bus'[i] \in Nat
      BY <1>3, <2>12
    <3> QED BY <2>1, <2>4, <2>5, <3>1, <3>2
  <2>14. bus_seq_seen' = Io!Pairs(bus')
    BY BusEdge DEF IoInv, BusKnown
  <2> QED BY <2>2, <2>11, <2>13, <2>14 DEF p
<1> QED BY <1>4, <1>6, <1>8 DEF Io!Edge

-----------------------------------------------------------------------------
\* The invariant holds in every reachable state.
LEMMA IoInvInductive == Io!Spec => []IoInv
<1>1. Io!Init => IoInv
  <2> SUFFICES ASSUME Io!Init PROVE IoInv
    OBVIOUS
  <2>1. /\ io \subseteq Orders /\ io_retired = {} /\ io_found = {} /\ bus = <<>>
        /\ prev = NoInsn /\ bus_current = NoInsn /\ bus_seq_seen = {}
        /\ io_failed = {} /\ order_failed = {}
    BY DEF Io!Init
  <2>2. Io!Pairs(<<>>) = {}
    BY DEF Io!Pairs
  <2>3. IoTyped /\ BusKnown /\ YoungerIoKnown
    BY <2>1, <2>2 DEF IoTyped, BusKnown, YoungerIoKnown
  <2>4. PrevKnown /\ OvertakenMeans /\ LateMeans
    BY <2>1 DEF PrevKnown, OvertakenMeans, LateMeans
  <2>5. Io!IoReachesBusInOrder /\ Io!OrderedIoAccepted
    BY <2>1 DEF Io!IoReachesBusInOrder, Io!OrderedIoAccepted, Io!Silent
  <2> QED BY <2>3, <2>4, <2>5 DEF IoInv
<1>2. IoInv /\ [Io!Next]_Io!vars => IoInv'
  <2> SUFFICES ASSUME IoInv, [Io!Next]_Io!vars PROVE IoInv'
    OBVIOUS
  <2>1. CASE Io!Next
    <3>1. PICK in \in IoInputs, b \in BusInputs : Io!Edge(in, b)
      BY <2>1 DEF Io!Next, IoInputs, BusInputs
    <3>2. IoTyped' /\ BusKnown'
      BY <3>1, BusEdge DEF IoInv
    <3>3. YoungerIoKnown' /\ PrevKnown' /\ OvertakenMeans' /\ LateMeans'
      BY <3>1, HistoryEdge
    <3>4. Io!IoReachesBusInOrder' /\ Io!OrderedIoAccepted'
      BY <3>1, SilentEdge, OrderedEdge
    <3> QED BY <3>2, <3>3, <3>4 DEF IoInv
  <2>2. CASE UNCHANGED Io!vars
    BY <2>2 DEF Io!vars, Io!checks, IoInv, IoTyped, BusKnown, YoungerIoKnown, PrevKnown,
                OvertakenMeans, LateMeans, Io!IoReachesBusInOrder, Io!OrderedIoAccepted,
                Io!Silent, Io!OrderedBus, Io!NextIo
  <2> QED BY <2>1, <2>2
<1> QED BY <1>1, <1>2, PTL DEF Io!Spec

\* As long as rvfi_causal_io_check.sv and rvfi_bus_dmem_io_order_check.sv stay
\* silent, neighbours among the i/o instructions of the program are neighbours
\* on the bus once they have retired, for every number of channels and buses.
THEOREM IoInOrder == Io!Spec => []IoReachesBusInOrder
<1>1. IoInv => IoReachesBusInOrder
  BY DEF IoInv, IoReachesBusInOrder
<1> QED BY <1>1, IoInvInductive, PTL

\* And they stay silent for every core that makes its accesses in program order
\* in time and retires them in that order.
THEOREM IoAccepted == Io!Spec => []OrderedIoAccepted
<1>1. IoInv => OrderedIoAccepted
  BY DEF IoInv, OrderedIoAccepted
<1> QED BY <1>1, IoInvInductive, PTL

-----------------------------------------------------------------------------
(***************************************************************************)
(* The register and causal checks of a program, for every order in which it *)
(* retires.                                                                *)
(*                                                                         *)
(* The inductive invariant says what the checks of an instruction that has *)
(* not retired yet know of the instructions that have: its shadow register *)
(* holds the result of the older write that retired last, and its          *)
(* found_non_causal bit is set once a younger reader has retired.          *)
(***************************************************************************)
Vectors == [Channels -> Orders \cup {NoInsn}]

\* The older writes among the instructions gone.
Older(o, gone) == {w \in ProgramWriters \cap gone : w < o}

\* The register check of o knows the older writes among the instructions gone:
\* shadow is the result of one that no other one has retired after, unless
\* it was overtaken by that other one.
Knows(o, gone, shadow, written, passed) ==
  /\ written <=> Older(o, gone) /= {}
  /\ written => \E v \in Older(o, gone) :
       /\ shadow = program[v].wdata
       /\ \A x \in Older(o, gone) : x = v \/ x < v \/ <<x, v>> \in passed

ShadowInv ==
  \A o \in Orders \ retired :
    Knows(o, retired, register_shadow[o], o \in register_written, overtaken)
CausalInv ==
  \A w \in Orders \ retired : \A o \in retired :
    w < o /\ program[o].reads => w \in found_non_causal
OvertakenInv ==
  \A w \in Orders \ retired : \A o \in retired : w < o => <<o, w>> \in overtaken

Inv == retired \subseteq Orders /\ ShadowInv /\ CausalInv /\ OvertakenInv

-----------------------------------------------------------------------------
\* A non-empty set of channels has a last element.
LEMMA LastInSet ==
  ASSUME NEW cs, cs \subseteq Channels, cs /= {}
  PROVE  Last(cs) \in cs /\ \A d \in cs : d <= Last(cs)
<1>1. NRet \in Nat /\ cs \subseteq 0 .. NRet - 1
  BY DataflowAssumption DEF Channels
<1> QED BY <1>1, GreatestElement DEF Last

\* An instruction that has an older write has a source.
LEMMA SourceExists ==
  ASSUME NEW o \in Orders, NEW w \in ProgramWriters, w < o
  PROVE  Source(o) /= {}
<1> DEFINE S == {x \in ProgramWriters : x < o}
<1>1. o \in Nat /\ S \subseteq Nat /\ w \in S
  BY DataflowAssumption DEF ProgramWriters
<1>2. S \subseteq 0 .. o - 1 /\ S /= {}
  BY <1>1
<1>3. PICK v \in S : \A x \in S : x <= v
  BY <1>1, <1>2, GreatestElement
<1> QED BY <1>3 DEF Source

\* What one clock edge does, conjunct by conjunct.
LEMMA EdgeParts ==
  ASSUME NEW in \in Vectors, Edge(in)
  PROVE  /\ Retires(in) \cap retired = {}
         /\ \A c, d \in Valid(in) : in[c] = in[d] => c = d
         /\ \A c \in Valid(in) : c \in Channels /\ in[c] \in Orders
         /\ \A o \in Orders : register_shadow'[o] = NextShadow(in, o)
         /\ \A o \in Orders : o \in register_written' <=>
                                 o \in register_written \/ Writers(in, o) /= {}
         /\ \A o \in Orders : o \in found_non_causal' <=>
                                 o \in found_non_causal \/ EarlyReaders(in, o) /= {}
         /\ reg_failed' = reg_failed \cup RegFails(in)
         /\ causal_failed' = causal_failed \cup CausalFails(in)
         /\ retired' = retired \cup Retires(in)
         /\ overtaken \subseteq overtaken'
         /\ \A o, p \in Orders : Overtakes(in, o, p) => <<o, p>> \in overtaken'
         /\ program' = program
<1>1. \A c \in Valid(in) : c \in Channels /\ in[c] \in Orders
  BY DEF Vectors, Valid
<1>2. \A c, d \in Valid(in) : in[c] = in[d] => c = d
  BY DEF Edge
<1> QED BY <1>1, <1>2 DEF Edge

-----------------------------------------------------------------------------
\* The instructions a check of o has seen by the end of the cycle, or by the
\* time it judges o.
Seen(in, o) == retired \cup {in[c] : c \in Looked(in, o)}

\* A check that does not judge in this cycle sees all of it.
LEMMA SeesAll ==
  ASSUME NEW in \in Vectors, Edge(in), NEW o \in Orders, o \notin Retires(in)
  PROVE  Looked(in, o) = Valid(in) /\ Seen(in, o) = retired'
<1>1. Looked(in, o) = Valid(in)
  BY DEF Looked, Retires
<1> QED BY <1>1, EdgeParts DEF Seen, Retires

\* The register check keeps knowing the older writes, also those that retire
\* on lower channels in the cycle in which it judges.
LEMMA ShadowStep ==
  ASSUME Inv, NEW in \in Vectors, Edge(in), NEW o \in Orders \ retired
  PROVE  Knows(o, Seen(in, o), register_shadow'[o], o \in register_written', overtaken')
<1> DEFINE S == Seen(in, o)
           W == Writers(in, o)
<1>1. Knows(o, retired, register_shadow[o], o \in register_written, overtaken)
  BY DEF Inv, ShadowInv
<1>2. Older(o, S) = Older(o, retired) \cup {in[c] : c \in W}
  BY EdgeParts DEF Older, Seen, Writers, Looked, ProgramWriters
<1>3. overtaken \subseteq overtaken'
  BY EdgeParts
<1>4. o \in register_written' <=> o \in register_written \/ W /= {}
  BY EdgeParts
<1>5. register_shadow'[o] = NextShadow(in, o)
  BY EdgeParts
<1>6. CASE W = {}
  <2>1. Older(o, S) = Older(o, retired) /\ register_shadow'[o] = register_shadow[o]
    BY <1>2, <1>5, <1>6 DEF NextShadow
  <2> QED BY <1>1, <1>3, <1>4, <1>6, <2>1 DEF Knows
<1>7. CASE W /= {}
  <2>1. W \subseteq Channels /\ W \subseteq Valid(in)
    BY DEF Writers, Looked, Valid
  <2>2. Last(W) \in W /\ \A c \in W : c <= Last(W)
    BY <1>7, <2>1, LastInSet
  <2> DEFINE v == in[Last(W)]
  <2>3. v \in Older(o, S) /\ register_shadow'[o] = program[v].wdata
    BY <1>2, <1>5, <1>7, <2>2 DEF NextShadow
  <2>4. v \in Orders /\ v \in Retires(in) /\ v \notin retired
    BY <2>1, <2>2, EdgeParts DEF Retires
  <2>5. ASSUME NEW x \in Older(o, S)
        PROVE  x = v \/ x < v \/ <<x, v>> \in overtaken'
    <3>1. x \in Orders /\ x \in Nat /\ v \in Nat
      BY <2>4, <2>5, DataflowAssumption DEF Older, ProgramWriters
    <3>2. CASE x \in retired
      BY <1>3, <2>4, <3>1, <3>2 DEF Inv, OvertakenInv
    <3>3. CASE \E c \in W : x = in[c]
      <4>1. PICK c \in W : x = in[c]
        BY <3>3
      <4>2. CASE c = Last(W)
        BY <4>1, <4>2
      <4>3. CASE c < Last(W) /\ v < x
        <5>1. \A d \in Valid(in) : in[d] = v => c < d
          BY <2>1, <2>2, <4>3, EdgeParts
        <5>2. Overtakes(in, x, v)
          BY <2>1, <2>4, <4>1, <4>3, <5>1 DEF Overtakes
        <5> QED BY <2>4, <3>1, <5>2, EdgeParts
      <4>4. c \in Int /\ Last(W) \in Int /\ c <= Last(W)
        BY <2>1, <2>2, <4>1, DataflowAssumption DEF Channels
      <4> QED BY <3>1, <4>2, <4>3, <4>4
    <3>4. x \in retired \/ \E c \in W : x = in[c]
      BY <1>2, <2>5 DEF Older
    <3> QED BY <3>2, <3>3, <3>4
  <2> QED BY <1>4, <1>7, <2>3, <2>5 DEF Knows
<1> QED BY <1>6, <1>7

-----------------------------------------------------------------------------
\* Nothing has retired in the initial states.
LEMMA InitInv == Init => Inv
BY DEF Init, Inv, ShadowInv, CausalInv, OvertakenInv, Knows, Older

\* The conjuncts of the invariant, edge by edge.
LEMMA EdgeInv ==
  ASSUME Inv, NEW in \in Vectors, Edge(in)
  PROVE  Inv'
<1>1. retired' \subseteq Orders
  BY EdgeParts DEF Inv, Retires
<1>2. ProgramWriters' = ProgramWriters /\ program' = program
  BY EdgeParts DEF ProgramWriters
<1>3. \A o \in Orders \ retired' : o \notin retired /\ o \notin Retires(in)
  BY EdgeParts
<1>4. ShadowInv'
  <2>1. ASSUME NEW o \in Orders \ retired'
        PROVE  Knows(o, retired', register_shadow'[o], o \in register_written', overtaken')
    BY <1>3, <2>1, ShadowStep, SeesAll
  <2> QED BY <1>2, <2>1 DEF ShadowInv, Knows, Older
<1>5. CausalInv'
  <2>1. ASSUME NEW w \in Orders \ retired', NEW o \in retired',
               w < o, program[o].reads
        PROVE  w \in found_non_causal'
    <3>1. CASE o \in retired
      BY <1>3, <2>1, <3>1, EdgeParts DEF Inv, CausalInv
    <3>2. CASE o \in Retires(in)
      <4>1. PICK c \in Valid(in) : o = in[c]
        BY <3>2 DEF Retires
      <4>2. w \in Nat /\ o \in Nat
        BY <4>1, EdgeParts, DataflowAssumption
      <4>3. c \in EarlyReaders(in, w)
        BY <1>3, <2>1, <4>1, <4>2, SeesAll DEF EarlyReaders
      <4> QED BY <4>3, EdgeParts
    <3> QED BY <3>1, <3>2, EdgeParts
  <2> QED BY <1>2, <2>1 DEF CausalInv
<1>6. OvertakenInv'
  <2>1. ASSUME NEW w \in Orders \ retired', NEW o \in retired', w < o
        PROVE  <<o, w>> \in overtaken'
    <3>1. CASE o \in retired
      BY <1>3, <2>1, <3>1, EdgeParts DEF Inv, OvertakenInv
    <3>2. CASE o \in Retires(in)
      <4>1. PICK c \in Valid(in) : o = in[c]
        BY <3>2 DEF Retires
      <4>2. Overtakes(in, o, w)
        BY <1>3, <2>1, <4>1 DEF Overtakes, Retires
      <4> QED BY <1>1, <2>1, <4>2, EdgeParts
    <3> QED BY <3>1, <3>2, EdgeParts
  <2> QED BY <2>1 DEF OvertakenInv
<1> QED BY <1>1, <1>4, <1>5, <1>6 DEF Inv

\* A step that changes nothing.
LEMMA StutterInv == Inv /\ UNCHANGED vars => Inv'
BY DEF vars, checks, Inv, ShadowInv, CausalInv, OvertakenInv, Knows, Older, ProgramWriters

-----------------------------------------------------------------------------
\* Two sources of one instruction are the same.
LEMMA SourceUnique ==
  ASSUME NEW o, NEW v \in Source(o), NEW w \in Source(o)
  PROVE  v = w
BY DataflowAssumption DEF Source, ProgramWriters

\* A reader that judges after its source has been seen compares itself with it.
LEMMA ShadowIsSource ==
  ASSUME Inv, NEW in \in Vectors, Edge(in), WritesInOrder',
         NEW o \in Orders \ retired, NEW w \in Source(o), w \in Seen(in, o)
  PROVE  o \in register_written' /\ register_shadow'[o] = program[w].wdata
<1>1. w \in Older(o, Seen(in, o))
  BY DEF Older, Source
<1>2. Knows(o, Seen(in, o), register_shadow'[o], o \in register_written', overtaken')
  BY ShadowStep
<1>3. o \in register_written'
  BY <1>1, <1>2 DEF Knows
<1>4. PICK v \in Older(o, Seen(in, o)) :
        /\ register_shadow'[o] = program[v].wdata
        /\ w = v \/ w < v \/ <<w, v>> \in overtaken'
  BY <1>1, <1>2, <1>3 DEF Knows
<1>5. v \in ProgramWriters /\ w \in ProgramWriters /\ v <= w
  BY <1>4 DEF Older, Source
<1>6. <<w, v>> \notin overtaken'
  <2>1. ProgramWriters' = ProgramWriters
    BY EdgeParts DEF ProgramWriters
  <2> QED BY <1>5, <2>1 DEF WritesInOrder
<1>7. v \in Nat /\ w \in Nat
  BY <1>5, DataflowAssumption DEF ProgramWriters
<1> QED BY <1>3, <1>4, <1>5, <1>6, <1>7

\* The causal check of a write fails when it retires after a younger reader,
\* be it in a later cycle or on a higher channel.
LEMMA EarlyReaderFails ==
  ASSUME Inv, NEW in \in Vectors, Edge(in),
         NEW w \in Retires(in), program[w].writes,
         NEW o \in retired', program[o].reads, w < o, w \notin Seen(in, o)
  PROVE  w \in causal_failed'
<1>1. w \in Orders /\ w \notin retired
  BY EdgeParts DEF Retires
<1>2. w \in found_non_causal'
  <2>1. CASE o \in retired
    BY <1>1, <2>1, EdgeParts DEF Inv, CausalInv
  <2>2. CASE o \in Retires(in)
    <3>1. PICK e \in Valid(in) : o = in[e]
      BY <2>2 DEF Retires
    <3>2. PICK f \in Valid(in) : w = in[f]
      BY DEF Retires
    <3>3. w \in Nat /\ o \in Nat /\ e \in Int /\ f \in Int
      <4>1. e \in Channels /\ f \in Channels /\ o \in Orders
        BY <3>1, EdgeParts
      <4>2. e \in Int /\ f \in Int
        BY <4>1, DataflowAssumption DEF Channels
      <4> QED BY <1>1, <4>1, <4>2, DataflowAssumption
    <3>4. e < f
      <4>1. f \notin Looked(in, o)
        BY <3>2 DEF Seen
      <4>2. \A d \in Valid(in) : in[d] = o => d = e
        BY <3>1, EdgeParts
      <4>3. ~(f < e)
        BY <3>2, <4>1, <4>2 DEF Looked
      <4>4. f /= e
        BY <3>1, <3>2, <3>3
      <4> QED BY <3>3, <4>3, <4>4
    <3>5. e \in Looked(in, w)
      BY <3>1, <3>2, <3>4, EdgeParts DEF Looked
    <3>6. e \in EarlyReaders(in, w)
      BY <3>1, <3>3, <3>5 DEF EarlyReaders
    <3> QED BY <1>1, <3>6, EdgeParts
  <2> QED BY <2>1, <2>2, EdgeParts
<1> QED BY <1>2, EdgeParts DEF CausalFails

\* One clock edge keeps every stale read caught.
LEMMA EdgeCatches ==
  ASSUME Inv, StaleReadCaught, NEW in \in Vectors, Edge(in)
  PROVE  StaleReadCaught'
<1>1. program' = program /\ ProgramWriters' = ProgramWriters
  BY EdgeParts DEF ProgramWriters
<1>2. ASSUME WritesInOrder', NEW o \in retired', NEW w \in Source(o),
             program[o].reads, program[w].wdata /= program[o].rdata, w \in retired'
      PROVE  o \in reg_failed' \/ w \in causal_failed'
  <2>1. o \in Orders /\ w \in ProgramWriters /\ w < o /\ program[w].writes
    BY <1>2, EdgeInv DEF Inv, Source, ProgramWriters
  <2>2. WritesInOrder
    BY <1>1, <1>2, EdgeParts DEF WritesInOrder
  <2>3. Source(o) = {w}
    BY <1>2, SourceUnique
  <2>4. CASE o \in retired /\ w \in retired
    <3>1. Stale(o) /\ Source(o) \subseteq retired
      BY <1>2, <2>3, <2>4 DEF Stale
    <3>2. o \in reg_failed \/ Source(o) \subseteq causal_failed
      BY <2>2, <2>4, <3>1 DEF StaleReadCaught
    <3> QED BY <2>3, <3>2, EdgeParts
  <2>5. CASE o \notin retired /\ w \in Seen(in, o)
    <3>1. o \in register_written' /\ register_shadow'[o] = program[w].wdata
      BY <1>2, <2>1, <2>5, ShadowIsSource
    <3>2. o \in Retires(in)
      BY <1>2, <2>5, EdgeParts
    <3>3. o \in RegFails(in)
      BY <1>2, <3>1, <3>2 DEF RegFails
    <3> QED BY <3>3, EdgeParts
  <2>6. CASE w \notin retired /\ w \notin Seen(in, o)
    BY <1>2, <2>1, <2>6, EarlyReaderFails, EdgeParts
  <2>7. CASE w \notin retired /\ w \in Seen(in, o) /\ o \in retired
    <3>1. w \in Retires(in) /\ o \notin Retires(in)
      BY <1>2, <2>7, EdgeParts
    <3>2. w \in Orders /\ w \notin retired
      BY <2>1, <2>7 DEF ProgramWriters
    <3>3. w \in found_non_causal
      BY <1>2, <2>1, <2>7, <3>2 DEF Inv, CausalInv
    <3>4. w \in CausalFails(in)
      BY <2>1, <3>1, <3>2, <3>3, EdgeParts DEF CausalFails
    <3> QED BY <3>4, EdgeParts
  <2>8. w \in retired => w \in Seen(in, o)
    BY DEF Seen
  <2> QED BY <2>4, <2>5, <2>6, <2>7, <2>8
<1>3. ASSUME WritesInOrder', NEW o \in retired', Stale(o), Source(o) \subseteq retired'
      PROVE  o \in reg_failed' \/ Source(o) \subseteq causal_failed'
  <2>1. PICK w \in Source(o) : program[w].wdata /= program[o].rdata
    BY <1>3 DEF Stale
  <2>2. Source(o) = {w}
    BY <2>1, SourceUnique
  <2> QED BY <1>2, <1>3, <2>1, <2>2 DEF Stale
<1>4. \A o : Source(o)' = Source(o) /\ (Stale(o)' <=> Stale(o))
  BY <1>1 DEF Source, Stale
<1> QED BY <1>3, <1>4 DEF StaleReadCaught

\* One clock edge raises no register alarm without a reason.
LEMMA EdgeJustified ==
  ASSUME Inv, RegAlarmJustified, NEW in \in Vectors, Edge(in)
  PROVE  RegAlarmJustified'
<1>1. program' = program /\ ProgramWriters' = ProgramWriters
  BY EdgeParts DEF ProgramWriters
<1>2. \A o : Source(o)' = Source(o) /\ (Stale(o)' <=> Stale(o))
  BY <1>1 DEF Source, Stale
<1>3. \A o : ReadEarly(o) => ReadEarly(o)'
  BY <1>1, <1>2, EdgeParts DEF ReadEarly
<1>4. ASSUME WritesInOrder', NEW o \in RegFails(in)
      PROVE  Stale(o) \/ ReadEarly(o)'
  <2>1. /\ o \in Orders \ retired /\ o \in Retires(in) /\ program[o].reads
        /\ o \in register_written' /\ register_shadow'[o] /= program[o].rdata
    BY EdgeParts DEF RegFails, Retires
  <2>2. Older(o, Seen(in, o)) /= {}
    BY <2>1, ShadowStep DEF Knows
  <2>3. PICK w \in Source(o) : TRUE
    BY <2>1, <2>2, SourceExists DEF Older
  <2>4. CASE w \in Seen(in, o)
    BY <1>4, <2>1, <2>3, <2>4, ShadowIsSource DEF Stale
  <2>5. CASE w \notin Seen(in, o)
    <3>1. w \in Orders /\ w < o /\ w \notin retired
      BY <2>3, <2>5 DEF Source, ProgramWriters, Seen
    <3>2. PICK e \in Valid(in) : o = in[e]
      BY <2>1 DEF Retires
    <3>3. \A d \in Valid(in) : in[d] = w => e < d
      <4>1. TAKE d \in Valid(in)
      <4>2. HAVE in[d] = w
      <4>3. d \notin Looked(in, o) /\ d /= e
        BY <2>5, <3>1, <3>2, <4>2, DataflowAssumption DEF Seen
      <4>4. ~(d < e)
        BY <3>2, <4>3, EdgeParts DEF Looked
      <4> QED BY <4>3, <4>4, EdgeParts DEF Channels
    <3>4. Overtakes(in, o, w)
      BY <3>1, <3>2, <3>3 DEF Overtakes
    <3>5. <<o, w>> \in overtaken'
      BY <2>1, <3>1, <3>4, EdgeParts
    <3> QED BY <1>1, <1>2, <2>1, <2>3, <3>5 DEF ReadEarly
  <2> QED BY <2>4, <2>5
<1>5. WritesInOrder' => WritesInOrder
  BY <1>1, EdgeParts DEF WritesInOrder
<1>6. ASSUME WritesInOrder', NEW o \in reg_failed
      PROVE  Stale(o) \/ ReadEarly(o)'
  BY <1>3, <1>5, <1>6 DEF RegAlarmJustified
<1> QED BY <1>2, <1>4, <1>6, EdgeParts DEF RegAlarmJustified

-----------------------------------------------------------------------------
\* The invariant holds in every reachable state.
THEOREM Invariance == Spec => []Inv
<1>1. Inv /\ [Next]_vars => Inv'
  BY EdgeInv, StutterInv DEF Next, Vectors
<1> QED BY <1>1, InitInv, PTL DEF Spec

\* For cores that retire the writes to one register in program order, the
\* register and causal checks together catch every stale read.
THEOREM Complete == Spec => []StaleReadCaught
<1>1. Init => StaleReadCaught
  BY DEF Init, StaleReadCaught
<1>2. Inv /\ StaleReadCaught /\ [Next]_vars => StaleReadCaught'
  <2>1. UNCHANGED vars /\ StaleReadCaught => StaleReadCaught'
    BY DEF vars, checks, StaleReadCaught, WritesInOrder, Stale, Source, ProgramWriters
  <2> QED BY <2>1, EdgeCatches DEF Next, Vectors
<1> QED BY <1>1, <1>2, Invariance, PTL DEF Spec

\* For the same cores, a failing register check points at a stale read or at
\* one that came before the write it should have seen.
THEOREM Justified == Spec => []RegAlarmJustified
<1>1. Init => RegAlarmJustified
  BY DEF Init, RegAlarmJustified
<1>2. Inv /\ RegAlarmJustified /\ [Next]_vars => RegAlarmJustified'
  <2>1. UNCHANGED vars /\ RegAlarmJustified => RegAlarmJustified'
    BY DEF vars, checks, RegAlarmJustified, WritesInOrder, Stale, ReadEarly,
           Source, ProgramWriters
  <2> QED BY <2>1, EdgeJustified DEF Next, Vectors
<1> QED BY <1>1, <1>2, Invariance, PTL DEF Spec

=============================================================================
