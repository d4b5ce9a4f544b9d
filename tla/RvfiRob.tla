------------------------------- MODULE RvfiRob -------------------------------
(***************************************************************************)
(* The reorder buffer of the RVFI monitor, the <prefix>_rob module that    *)
(* monitor/generate.py prints for a non-zero -r option.  A core may retire *)
(* instructions out of order; the buffer files every packet in the slot    *)
(* selected by the low bits of rvfi_order and hands the packets on, at     *)
(* most one per channel and clock, in the order 0, 1, 2, ...               *)
(*                                                                         *)
(* One action is one clock edge.  The inputs are arbitrary: nothing is     *)
(* assumed of the core here (see RvfiRobCore for a core that obeys RVFI).  *)
(* presented, delivered, late, flagged and collided are history variables; *)
(* no other variable depends on them.                                      *)
(***************************************************************************)
EXTENDS Integers, Sequences, FiniteSets

CONSTANTS
  Depth,    \* robdepth, the number of slots (a power of two in the code)
  NRet,     \* channels, the number of RVFI channels
  Orders,   \* the rvfi_order values the core may drive
  Data,     \* the payloads of a packet (register and pc fields)
  NoPacket, \* what a channel carries when its valid bit is low
  PowerUp   \* the contents the memory array may power up with

Channels == 0 .. NRet - 1
Slots == 0 .. Depth - 1
Packet == [order : Orders, data : Data]

ASSUME RobAssumption ==
  /\ NRet \in Nat \ {0}
  /\ Depth \in Nat \ {0}
  /\ Orders \subseteq Nat
  /\ NoPacket \notin Packet
  /\ PowerUp \subseteq [Slots -> Packet]

VARIABLES
  buffer,     \* buffer[s]: the entry last filed in slot s
  valid,      \* valid[s]: the entry of slot s has not been handed on
  cursor,     \* the next order to hand on
  out,        \* out[c]: the packet on output channel c, or NoPacket
  errcode,    \* NoError, or the error found at the last clock edge
  presented,  \* the packets the core has driven since the last reset
  late,       \* those of them whose turn had passed when they arrived
  delivered,  \* the packets seen on the output channels since then, in order
  flagged,    \* errcode has been non-zero since the last reset
  collided    \* two channels have used one slot at one clock edge since then

hw == <<buffer, valid, cursor, out, errcode>>
history == <<presented, late, delivered, flagged, collided>>
vars == <<hw, history>>

-----------------------------------------------------------------------------
Slot(order) == order % Depth

\* The error codes; the low byte of the order added to the last two is left out.
NoError == 0
Overrun == 60
Misordered == 61

\* The channels of `in` that carry a packet, and those that file into slot s.
Valid(in) == {c \in Channels : in[c] /= NoPacket}
FilesInto(in, s) == {c \in Valid(in) : Slot(in[c].order) = s}
Last(cs) == CHOOSE c \in cs : \A d \in cs : d <= c

\* Mutated: at most one packet leaves.
DrainsOne(k) == k \in {0, 1} /\ (k = 1 <=> valid[Slot(cursor)])

\* k packets leave: the slots of cursor .. cursor+k-1 are valid and either
\* every output channel is used or the slot after them is not valid.
Drains(k) ==
  /\ \A j \in 0 .. k - 1 : valid[Slot(cursor + j)]
  /\ k < NRet => ~valid[Slot(cursor + k)]

\* Mutated: only channel 0 is tested.
OverrunsFirst(in) == {c \in Valid(in) : c = 0 /\ valid[Slot(in[c].order)]}
\* Mutated: only the slot bits of the order are compared.
MisordersLowBits(k) ==
  {j \in 0 .. k - 1 : Slot(buffer[Slot(cursor + j)].order) /= Slot(cursor + j)}

\* A packet meets a slot whose entry has not been handed on.
Overruns(in) == {c \in Valid(in) : valid[Slot(in[c].order)]}
\* An entry handed on at position cursor+j was filed under another order.
Misorders(k) ==
  {j \in 0 .. k - 1 : buffer[Slot(cursor + j)].order /= cursor + j}

\* All assignments to errcode are non-blocking: the last one made wins, and
\* the output channels come after the input channels.
NextErrcode(in, k) ==
  IF Misorders(k) /= {} THEN Misordered
  ELSE IF Overruns(in) /= {} THEN Overrun
  ELSE NoError

NextBuffer(in) ==
  [s \in Slots |-> IF FilesInto(in, s) = {} THEN buffer[s]
                   ELSE in[Last(FilesInto(in, s))]]

\* Mutated: the bit of a drained slot is not cleared.
NextValidKept(in, k) == [s \in Slots |-> valid[s] \/ FilesInto(in, s) /= {}]

\* Clearing the bit of a drained slot comes after setting it for an input.
NextValid(in, k) ==
  [s \in Slots |-> /\ \A j \in 0 .. k - 1 : Slot(cursor + j) /= s
                   /\ valid[s] \/ FilesInto(in, s) /= {}]

\* Mutated: off by one.
NextCursorLess(k) == cursor + k - 1

NextCursor(k) == cursor + k

NextOut(k) ==
  [c \in Channels |-> IF c < k THEN buffer[Slot(cursor + c)] ELSE NoPacket]

Clock(in, k) ==
  /\ Drains(k)
  /\ buffer' = NextBuffer(in)
  /\ valid' = NextValid(in, k)
  /\ cursor' = NextCursor(k)
  /\ out' = NextOut(k)
  /\ errcode' = NextErrcode(in, k)

\* What an observer of the input and output channels has seen.
Driven(in) == {in[c] : c \in Valid(in)}
Emitted(k) == [i \in 1 .. k |-> out'[i - 1]]

Remember(in, k) ==
  /\ presented' = presented \cup Driven(in)
  /\ late' = late \cup {p \in Driven(in) : p.order < cursor}
  /\ delivered' = delivered \o Emitted(k)
  /\ flagged' = (flagged \/ errcode' /= NoError)
  /\ collided' = (collided \/ \E c, d \in Valid(in) :
                     c /= d /\ Slot(in[c].order) = Slot(in[d].order))

\* Mutated: reset forgets the valid bits.
ValidKeptInReset == valid

ValidAfterReset == [s \in Slots |-> FALSE]

\* reset high at the clock edge: the memory array itself is not cleared.
Reset ==
  /\ valid' = ValidAfterReset
  /\ cursor' = 0
  /\ out' = [c \in Channels |-> NoPacket]
  /\ errcode' = NoError
  /\ UNCHANGED buffer
  /\ presented' = {} /\ late' = {}
  /\ delivered' = << >>
  /\ flagged' = FALSE /\ collided' = FALSE

Inputs == [Channels -> Packet \cup {NoPacket}]

\* After the first reset, which leaves the memory array as it powered up.
Init ==
  /\ buffer \in PowerUp
  /\ valid = [s \in Slots |-> FALSE]
  /\ cursor = 0
  /\ out = [c \in Channels |-> NoPacket]
  /\ errcode = NoError
  /\ presented = {} /\ late = {}
  /\ delivered = << >>
  /\ flagged = FALSE /\ collided = FALSE

Step(in) == \E k \in 0 .. NRet : Clock(in, k) /\ Remember(in, k)

Next == Reset \/ \E in \in Inputs : Step(in)

Spec == Init /\ [][Next]_vars

-----------------------------------------------------------------------------
\* The type invariant of the registers, the ports and the history.
TypeOK ==
  /\ buffer \in [Slots -> Packet]
  /\ valid \in [Slots -> BOOLEAN]
  /\ cursor \in Nat
  /\ out \in [Channels -> Packet \cup {NoPacket}]
  /\ errcode \in {NoError, Overrun, Misordered}
  /\ presented \subseteq Packet
  /\ late \subseteq presented
  /\ delivered \in Seq(Packet)
  /\ flagged \in BOOLEAN
  /\ collided \in BOOLEAN

Positions == 1 .. Len(delivered)

\* Whatever the core drives, everything on the output channels was put into
\* the buffer since the last reset (a stale entry of the uncleared memory
\* array never leaks out) and, unless an error has been reported, the output
\* is the packets of orders 0, 1, 2, ... without a gap or a repetition.
InOrderDelivery ==
  \A i \in Positions :
    /\ delivered[i] \in presented
    /\ flagged \/ delivered[i].order = i - 1

\* A packet waits in the slot its order selects.
Waits(p) == valid[Slot(p.order)] /\ buffer[Slot(p.order)] = p

\* Nothing is lost silently: a packet of the core has been handed on or still
\* waits in its slot, unless an error was reported or two packets of one clock
\* edge fell into one slot (which the overrun test cannot see).
NoSilentLoss ==
  \A p \in presented :
    Waits(p) \/ flagged \/ collided \/ \E i \in Positions : delivered[i] = p

\* A packet whose turn has passed (a repeated order, an order that runs
\* backwards) is not accepted as something else: it sits in its slot until the
\* buffer wraps around to it, and then an error is reported.
LateIsCaught == \A p \in late : Waits(p) \/ flagged \/ collided

=============================================================================
