----------------------------- MODULE RvfiPcChecks -----------------------------
(***************************************************************************)
(* checks/rvfi_pc_fwd_check.sv and checks/rvfi_pc_bwd_check.sv: of two     *)
(* consecutive instructions the younger one must start where the older one *)
(* said.  Cores may retire the two in either order: the forward check      *)
(* looks at the younger one when it retires last, the backward check at    *)
(* the older one when it retires last.                                     *)
(*                                                                         *)
(* The solver picks the pair (older, older + 1).  genchecks.py generates   *)
(* one check of each kind for every channel and the solver tries every     *)
(* core state in the check cycle, so here all checks of the pair run side  *)
(* by side, each judging its instruction in the cycle in which it retires  *)
(* on the channel of that check.                                           *)
(***************************************************************************)
EXTENDS Integers

CONSTANTS
  NRet,     \* RISCV_FORMAL_NRET
  Orders,   \* rvfi_order values
  Pcs       \* program counter values, up to `rvformal_addr_eq

Channels == 0 .. NRet - 1

\* A channel has an rvfi_intr signal whether or not its valid bit is high.
Busy == [valid : {TRUE}, order : Orders, pc : Pcs, npc : Pcs, intr : BOOLEAN]
Idle == [valid : {FALSE}, intr : BOOLEAN]
Inputs == [Channels -> Busy \cup Idle]

PcChecksAssumption == NRet \in Nat \ {0} /\ Orders \subseteq Nat

VARIABLES
  older,       \* the older order of the pair, constant
  fwd_pc,      \* expect_pc of the forward checks
  fwd_valid,   \* expect_pc_valid of the forward checks
  bwd_pc,      \* expect_pc of the backward checks
  bwd_valid,   \* expect_pc_valid of the backward check of every channel
  fwd_failed,  \* a forward check has failed
  bwd_failed,  \* a backward check has failed
  said,        \* history: what the older one retired with
  began,       \* history: what the younger one retired with
  again,       \* history: one of the two has retired twice
  borrowed     \* history: another channel had another rvfi_intr than the
               \* younger one when that retired

vars == <<older, fwd_pc, fwd_valid, bwd_pc, bwd_valid, fwd_failed, bwd_failed,
          said, began, again, borrowed>>

-----------------------------------------------------------------------------
younger == older + 1
Last(cs) == CHOOSE c \in cs : \A d \in cs : d <= c

\* The channels that carry the instruction of this order.
Carries(in, order) == {c \in Channels : in[c].valid /\ in[c].order = order}
\* Of these, the ones below channel idx.
Before(in, order, idx) == {c \in Carries(in, order) : c < idx}

\* Mutated: the lower channels of the check cycle are left out.
FwdKnowsRegister(in, idx) == fwd_valid
\* Mutated: rvfi_intr of the checked instruction is not looked at.
FwdFailsDespiteIntr(in, idx) ==
  /\ fwd_valid \/ Before(in, older, idx) /= {}
  /\ (IF Before(in, older, idx) = {} THEN fwd_pc
      ELSE in[Last(Before(in, older, idx))].npc) /= in[idx].pc

\* Forward: what channel idx expects when it judges the younger instruction.
FwdKnows(in, idx) == fwd_valid \/ Before(in, older, idx) /= {}
FwdExpects(in, idx) ==
  IF Before(in, older, idx) = {} THEN fwd_pc ELSE in[Last(Before(in, older, idx))].npc
FwdFails(in, idx) ==
  FwdKnows(in, idx) /\ ~in[idx].intr /\ FwdExpects(in, idx) /= in[idx].pc

\* Mutated: rvfi_intr is not looked at.
BwdIntrIgnored(in, idx) == FALSE

\* Backward: the same of the older instruction.  The code asks rvfi_intr of
\* the channel under check, not of the channel that carries the younger one.
BwdIntr(in, idx) == in[idx].intr

\* Mutated: only a younger instruction of the same cycle is known.
BwdKnowsNow(in, idx) == Before(in, younger, idx) /= {} /\ ~BwdIntr(in, idx)

BwdKnows(in, idx) ==
  IF Before(in, younger, idx) = {} THEN bwd_valid[idx] ELSE ~BwdIntr(in, idx)
BwdExpects(in, idx) ==
  IF Before(in, younger, idx) = {} THEN bwd_pc ELSE in[Last(Before(in, younger, idx))].pc
BwdFails(in, idx) == BwdKnows(in, idx) /\ BwdExpects(in, idx) /= in[idx].npc

\* A clock edge with reset low.
Edge(in) ==
  LET olders == Carries(in, older)
      youngers == Carries(in, younger)
  IN  /\ fwd_failed' = (fwd_failed \/ \E c \in youngers : FwdFails(in, c))
      /\ bwd_failed' = (bwd_failed \/ \E c \in olders : BwdFails(in, c))
      /\ fwd_valid' = (fwd_valid \/ olders /= {})
      /\ fwd_pc' = IF olders = {} THEN fwd_pc ELSE in[Last(olders)].npc
      /\ bwd_valid' = [c \in Channels |->
                         IF youngers = {} THEN bwd_valid[c] ELSE ~BwdIntr(in, c)]
      /\ bwd_pc' = IF youngers = {} THEN bwd_pc ELSE in[Last(youngers)].pc
      /\ said' = said \cup {[npc |-> in[c].npc] : c \in olders}
      /\ began' = began \cup {[pc |-> in[c].pc, intr |-> in[c].intr] : c \in youngers}
      /\ again' = \/ again
                  \/ \E i, j \in olders : i /= j
                  \/ \E i, j \in youngers : i /= j
                  \/ olders /= {} /\ said /= {}
                  \/ youngers /= {} /\ began /= {}
      /\ borrowed' = \/ borrowed
                     \/ \E y \in youngers, c \in Channels : in[c].intr /= in[y].intr
      /\ UNCHANGED older

\* A clock edge with reset high: expect_pc is not cleared.
Reset ==
  /\ fwd_valid' = FALSE
  /\ bwd_valid' = [c \in Channels |-> FALSE]
  /\ UNCHANGED <<older, fwd_pc, bwd_pc>>
  /\ fwd_failed' = FALSE /\ bwd_failed' = FALSE
  /\ said' = {} /\ began' = {} /\ again' = FALSE /\ borrowed' = FALSE

Init ==
  /\ older \in Orders
  /\ fwd_valid = FALSE
  /\ bwd_valid = [c \in Channels |-> FALSE]
  /\ fwd_pc \in Pcs /\ bwd_pc \in Pcs
  /\ fwd_failed = FALSE /\ bwd_failed = FALSE
  /\ said = {} /\ began = {} /\ again = FALSE /\ borrowed = FALSE

\* The properties are about instructions that retire once: a run ends when the
\* core repeats one (rvfi_unique_check finds that).
Next == Reset \/ (~again /\ \E in \in Inputs : Edge(in))

Spec == Init /\ [][Next]_vars

-----------------------------------------------------------------------------
\* The pair has retired and the younger one does not start where the older one
\* said, though no trap handler starts with it.
Broken == \E s \in said, b \in began : ~b.intr /\ s.npc /= b.pc

\* The forward checks raise no false alarm, on whatever channels the pair
\* retires.
FwdSound == ~again /\ fwd_failed => Broken

\* The backward checks raise none either, provided that the rvfi_intr they
\* borrow from another channel is that of the younger instruction.
BwdSound == ~again /\ ~borrowed /\ bwd_failed => Broken

\* docs/procedure.md: pc_bwd is like pc_fwd but for pairs that retire out of
\* order.  Under the same proviso the two kinds of checks together find every
\* broken pair, in whichever order and on whichever channels it retires.
PairCovered == ~again /\ ~borrowed /\ Broken => fwd_failed \/ bwd_failed

\* docs/rvfi.md: an instruction that does not start where its predecessor said
\* is the first of a trap handler and has rvfi_intr set.  The backward checks
\* accept every such instruction.
HandlerAccepted == ~again /\ bwd_failed => Broken

=============================================================================
