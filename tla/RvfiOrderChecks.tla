---------------------------- MODULE RvfiOrderChecks ----------------------------
(***************************************************************************)
(* checks/rvfi_unique_check.sv, checks/rvfi_liveness_check.sv and          *)
(* checks/rvfi_hang_check.sv: no order retires twice, every instruction    *)
(* but a halting one has a successor, and the core retires something.      *)
(*                                                                         *)
(* Each run is one job: the kind of check (`RISCV_FORMAL_CHECKER) and the  *)
(* order that the solver picks are constant.  The core is arbitrary.       *)
(***************************************************************************)
EXTENDS RvfiTestbench

CONSTANTS
  Orders,  \* rvfi_order values
  NoInsn   \* what a channel carries when its valid bit is low

\* waits: WFI, or what `RISCV_FORMAL_WAITINSN names.
Insn == [order : Orders, halt : BOOLEAN, waits : BOOLEAN]
Inputs == [Channels -> Insn \cup {NoInsn}]

VARIABLES
  kind,        \* "unique", "liveness" or "hang"
  insn_order,  \* the instruction under check
  found,       \* found_other_insn, found_next_insn or okay
  failed,      \* an assertion has failed
  seen         \* history: the orders that have retired, with cycle and channel

vars == <<cycle, kind, insn_order, found, failed, seen>>

-----------------------------------------------------------------------------
Valid(in) == {c \in Channels : in[c] /= NoInsn}
Carries(in, order) == {c \in Valid(in) : in[c].order = order}

\* Mutated: the channel under check is never looked at.
OthersElsewhere(in) == Carries(in, insn_order) \ {ChannelIdx}

\* Other retirements of the order: in the trigger cycle the channel under
\* check has the instruction itself.
Others(in) == {c \in Carries(in, insn_order) : trig => c /= ChannelIdx}

\* Mutated: only what retires from the trigger on counts.
FindsAfterTrig(in) ==
  CASE kind = "unique" -> Others(in) /= {}
    [] kind = "liveness" -> cycle >= TrigCycle /\ Carries(in, insn_order + 1) /= {}
    [] kind = "hang" -> Valid(in) /= {}

Finds(in) ==
  CASE kind = "unique" -> Others(in) /= {}
    [] kind = "liveness" -> Carries(in, insn_order + 1) /= {}
    [] kind = "hang" -> Valid(in) /= {}

\* The assumptions of the trigger cycle, and those of the hang check, which
\* hold in every cycle.
Assumed(in) ==
  /\ trig /\ kind \in {"unique", "liveness"} =>
       /\ ChannelIdx \in Carries(in, insn_order)
       /\ kind = "liveness" => ~in[ChannelIdx].halt
  /\ kind = "hang" => \A c \in Valid(in) : ~in[c].halt /\ ~in[c].waits

\* The assertion of the check cycle.  okay is assigned with <=, so the hang
\* check sees its old value.
Fails(in) ==
  CASE kind = "unique" -> found \/ Finds(in)
    [] kind = "liveness" -> ~(found \/ Finds(in))
    [] kind = "hang" -> ~found

\* A clock edge in the reset phase and one after it.
InReset(in) ==
  /\ reset
  /\ kind = "hang" => Assumed(in)
  /\ found' = FALSE
  /\ UNCHANGED <<failed, seen>>

Edge(in) ==
  /\ ~reset
  /\ Assumed(in)
  /\ found' = (found \/ Finds(in))
  /\ failed' = (failed \/ (check /\ Fails(in)))
  /\ seen' = seen \cup {<<in[c].order, cycle, c>> : c \in Valid(in)}

Init ==
  /\ TbInit
  /\ kind \in {"unique", "liveness", "hang"}
  /\ insn_order \in Orders
  /\ found = FALSE
  /\ failed = FALSE
  /\ seen = {}

\* The property is about one check: nothing follows the check cycle.
Next ==
  /\ cycle <= CheckCycle
  /\ Tick
  /\ \E in \in Inputs : InReset(in) \/ Edge(in)
  /\ UNCHANGED <<kind, insn_order>>

Spec == Init /\ [][Next]_vars

-----------------------------------------------------------------------------
Judged == cycle > CheckCycle
Retirements(order) == {s \in seen : s[1] = order}

\* The uniqueness check fails exactly when the instruction of the trigger cycle
\* has retired more than once between reset and check, before or after the
\* trigger or with it, on whatever channels.
UniqueExact ==
  kind = "unique" /\ Judged =>
    (failed <=> \E s, t \in Retirements(insn_order) : s /= t)

\* The liveness check fails exactly when the successor of the instruction has
\* not retired at all, neither after the instruction nor before it; the hang
\* check when the last cycle before the check has come and nothing has retired.
ProgressExact ==
  Judged =>
    /\ kind = "liveness" => (failed <=> Retirements(insn_order + 1) = {})
    /\ kind = "hang" => (failed <=> \A s \in seen : s[2] = CheckCycle)

=============================================================================
