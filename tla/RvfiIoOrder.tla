------------------------------ MODULE RvfiIoOrder ------------------------------
(***************************************************************************)
(* checks/rvfi_causal_io_check.sv and checks/rvfi_bus_dmem_io_order_check  *)
(* .sv together: i/o accesses reach the bus in program order.  The first   *)
(* one looks at the order in which they retire, the second one compares    *)
(* that order with the bus.                                                *)
(*                                                                         *)
(* Every i/o instruction makes one access, and no two make the same one    *)
(* (address, read or write, fault), so an access is named by the order of  *)
(* its instruction.  The core may retire in any order and its bus perform  *)
(* i/o accesses whenever it likes.  As in RvfiDataflow the checks of all   *)
(* instructions, pairs and channels run side by side.                      *)
(***************************************************************************)
EXTENDS Integers, Sequences

CONSTANTS
  NRet,    \* RISCV_FORMAL_NRET
  NBus,    \* RISCV_FORMAL_NBUS
  Orders,  \* rvfi_order values of the program
  MaxBus,  \* bound on the i/o accesses of a run
  NoInsn   \* what an idle channel carries; nothing

Channels == 0 .. NRet - 1
BusChannels == 0 .. NBus - 1

\* Of the constants; MCRvfiFormalChecks assumes it of its jobs.
IoOrderAssumption ==
  /\ NRet \in Nat /\ NBus \in Nat
  /\ Orders \subseteq Nat /\ NoInsn \notin Orders

VARIABLES
  io,                \* the instructions that perform i/o, constant
  retired,           \* the orders that have retired
  found_non_causal,  \* the orders whose causal check has seen younger i/o
  prev,              \* prev_*: the i/o instruction that retired last, or NoInsn
  bus_current,       \* the access of the bus_0_current that is set, or NoInsn
  bus_seq_seen,      \* the pairs whose bus_seq_seen is set
  causal_failed,     \* the orders whose causal check has failed
  order_failed,      \* the orders at which an order check has failed
  bus,               \* history: the i/o accesses of the bus
  overtaken,         \* history: i/o has retired before older i/o
  late               \* history: an instruction retired before its access was made

checks == <<found_non_causal, prev, bus_current, bus_seq_seen,
            causal_failed, order_failed>>
vars == <<io, retired, checks, bus, overtaken, late>>

-----------------------------------------------------------------------------
Valid(in) == {c \in Channels : in[c] /= NoInsn}
Retires(in) == {in[c] : c \in Valid(in)}
Last(cs) == CHOOSE c \in cs : \A d \in cs : d <= c

\* The bus channels are looked at from the lowest to the highest.
Performs(b) ==
  LET upTo[n \in 0 .. NBus] ==
        IF n = 0 THEN <<>>
        ELSE IF b[n - 1] = NoInsn THEN upTo[n - 1]
        ELSE Append(upTo[n - 1], b[n - 1])
  IN  upTo[NBus]
\* Accesses that follow each other on the bus, the last cycle included.
Pairs(s) == {<<s[i], s[i + 1]>> : i \in 1 .. Len(s) - 1}
\* Mutated: the last access of the cycle before is forgotten.
PairsOfCycle(b) == Pairs(Performs(b))
NewPairs(b) ==
  Pairs((IF bus_current = NoInsn THEN <<>> ELSE <<bus_current>>) \o Performs(b))

IoChannels(in) == {c \in Valid(in) : in[c] \in io}
IoBelow(in, c) == {d \in IoChannels(in) : d < c}

\* The i/o instruction that retired before the one on channel c.
Previous(in, c) ==
  IF IoBelow(in, c) = {} THEN prev ELSE in[Last(IoBelow(in, c))]

OrderFails(in) ==
  {in[c] : c \in {d \in IoChannels(in) :
     Previous(in, d) /= NoInsn /\ <<Previous(in, d), in[d]>> \notin bus_seq_seen'}}

\* Mutated: younger i/o of the same cycle is not looked at.
CausalFailsRegister(in) == {in[c] : c \in IoChannels(in)} \cap found_non_causal

CausalFails(in) ==
  {in[c] : c \in {d \in IoChannels(in) :
     in[d] \in found_non_causal \/ \E e \in IoBelow(in, d) : in[e] > in[d]}}

\* A clock edge: the bus is looked at first.
Edge(in, b) ==
  /\ Retires(in) \cap retired = {}
  /\ \A c, d \in Valid(in) : c /= d => in[c] /= in[d]
  /\ bus_seq_seen' = bus_seq_seen \cup NewPairs(b)
  /\ bus_current' = IF Performs(b) = <<>> THEN bus_current
                    ELSE Performs(b)[Len(Performs(b))]
  /\ order_failed' = order_failed \cup OrderFails(in)
  /\ prev' = IF IoChannels(in) = {} THEN prev ELSE in[Last(IoChannels(in))]
  /\ causal_failed' = causal_failed \cup CausalFails(in)
  /\ found_non_causal' =
       found_non_causal \cup {o \in Orders : \E c \in IoChannels(in) : in[c] > o}
  /\ retired' = retired \cup Retires(in)
  /\ bus' = bus \o Performs(b)
  /\ overtaken' = (overtaken \/ \E c \in IoChannels(in) :
       \E o \in io \ retired : o < in[c] /\ o \notin {in[d] : d \in IoBelow(in, c)})
  /\ late' = (late \/ \E c \in IoChannels(in) :
                        \A i \in 1 .. Len(bus') : bus'[i] /= in[c])
  /\ UNCHANGED io

Init ==
  /\ io \in SUBSET Orders
  /\ retired = {}
  /\ found_non_causal = {}
  /\ prev = NoInsn /\ bus_current = NoInsn
  /\ bus_seq_seen = {}
  /\ causal_failed = {} /\ order_failed = {}
  /\ bus = <<>>
  /\ overtaken = FALSE /\ late = FALSE

Next ==
  \E in \in [Channels -> Orders \cup {NoInsn}], b \in [BusChannels -> io \cup {NoInsn}] :
    /\ Valid(in) /= {} \/ Performs(b) /= <<>>
    /\ Len(bus) + Len(Performs(b)) <= MaxBus
    /\ Edge(in, b)

Spec == Init /\ [][Next]_vars

-----------------------------------------------------------------------------
Silent == causal_failed = {} /\ order_failed = {}
\* p is the next i/o instruction of the program after o.
NextIo(o, p) == o < p /\ \A q \in io : q <= o \/ q >= p

\* When both kinds of checks are silent, two i/o instructions that follow each
\* other in the program have followed each other on the bus by the time they
\* have retired, however the core mixes cycles, channels and buses.
IoReachesBusInOrder ==
  Silent => \A o, p \in io \cap retired : NextIo(o, p) => <<o, p>> \in Pairs(bus)

\* And a core that makes its i/o accesses in program order, each once and by
\* the cycle in which it retires the instruction, and retires them in program
\* order, never raises an alarm.
OrderedBus ==
  /\ bus /= <<>> => bus[1] \in io /\ \A q \in io : bus[1] <= q
  /\ \A x \in Pairs(bus) : NextIo(x[1], x[2])
OrderedIoAccepted == ~overtaken /\ ~late /\ OrderedBus => Silent

=============================================================================
