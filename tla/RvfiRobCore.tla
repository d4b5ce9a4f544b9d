----------------------------- MODULE RvfiRobCore -----------------------------
(***************************************************************************)
(* The reorder buffer of the monitor driven by a core that obeys RVFI: no  *)
(* two packets have the same order, and an instruction retires only when   *)
(* fewer than Window orders separate it from the oldest one that has not   *)
(* retired.  The buffer then is a work-conserving in-order stream.         *)
(***************************************************************************)
EXTENDS RvfiRob

CONSTANT Window   \* the size of the core's own reordering window

\* How deep the buffer must be.  The core can run Window-1 orders ahead of a
\* stalled instruction; when that one retires the buffer drains only NRet
\* packets per clock while the core moves on by as many.
ASSUME CoreAssumption ==
  /\ Window \in Nat \ {0}
  /\ Depth >= 2 * (Window + NRet - 1)

Retired == {p.order : p \in presented}

\* The oldest order that is not in R.
Oldest(R) ==
  CHOOSE n \in 0 .. Cardinality(R) : n \notin R /\ \A m \in 0 .. n - 1 : m \in R

\* The orders a channel vector brings, and those retired after it.
DrivenOrders(in) == {p.order : p \in Driven(in)}

Obeys(in) ==
  /\ DrivenOrders(in) \cap Retired = {}
  /\ \A c, d \in Valid(in) : c /= d => in[c].order /= in[d].order
  /\ \A o \in DrivenOrders(in) :
       o < Oldest(Retired \cup DrivenOrders(in)) + Window

CoreStep(in) == Obeys(in) /\ Step(in)
CoreNext == \E in \in Inputs : CoreStep(in)

CoreSpec == Init /\ [][CoreNext]_vars

-----------------------------------------------------------------------------
\* No false alarm: a buffer deep enough for the core's window never reports an
\* error, and never sees two packets in one slot.
NeverFlagged == ~flagged /\ ~collided

\* The buffer implements the in-order stream.
Stream == INSTANCE InOrderStream WITH
            Packets <- Packet, Width <- NRet,
            sent <- presented, stream <- delivered
RefinesStream == Stream!SSpec
=============================================================================
