----------------------------- MODULE RvfiDataflow -----------------------------
(***************************************************************************)
(* checks/rvfi_reg_check.sv and checks/rvfi_causal_check.sv together: what *)
(* the two of them establish about the values that flow from instruction   *)
(* to instruction through one register (not x0).                           *)
(*                                                                         *)
(* The program, one instruction per order, is fixed; the core may retire   *)
(* it in any order.  The solver tries every instruction and genchecks.py   *)
(* generates the checks for every channel, so the checks of all            *)
(* instructions run side by side, each judging its instruction in the      *)
(* cycle in which it retires on the channel of that check.                 *)
(***************************************************************************)
EXTENDS Integers

CONSTANTS
  NRet,    \* RISCV_FORMAL_NRET
  Orders,  \* rvfi_order values of the program
  Values,  \* values of the register, 0 among them
  NoInsn   \* what a channel carries when its valid bit is low

Channels == 0 .. NRet - 1

\* What an instruction has to do with the register: it may write wdata (a
\* trapping instruction may name the register, too), and read rdata.
Insn == [writes : BOOLEAN, trap : BOOLEAN, wdata : Values,
         reads : BOOLEAN, rdata : Values]
\* One representative of the instructions that differ in unused fields only.
Normal(i) == /\ ~i.writes => ~i.trap /\ i.wdata = 0
             /\ i.trap => i.wdata = 0
             /\ ~i.reads => i.rdata = 0
Programs == [Orders -> {i \in Insn : Normal(i)}]

ASSUME DataflowAssumption ==
  /\ NRet \in Nat \ {0}
  /\ Orders \subseteq Nat
  /\ 0 \in Values
  /\ NoInsn \notin Orders

VARIABLES
  program,           \* what the instructions do, constant
  retired,           \* the orders that have retired
  register_shadow,   \* register_shadow of the register check of every order
  register_written,  \* the orders whose register check has a shadow value
  found_non_causal,  \* the orders whose causal check has seen an early reader
  reg_failed,        \* the orders whose register check has failed
  causal_failed,     \* the orders whose causal check has failed
  overtaken          \* history: pairs <<o, p>> where p < o retired after o

checks == <<register_shadow, register_written, found_non_causal,
            reg_failed, causal_failed>>
vars == <<program, retired, checks, overtaken>>

-----------------------------------------------------------------------------
Valid(in) == {c \in Channels : in[c] /= NoInsn}
Retires(in) == {in[c] : c \in Valid(in)}
Last(cs) == CHOOSE c \in cs : \A d \in cs : d <= c

\* Mutated: none in the cycle in which o retires.
LookedEarlier(in, o) == IF o \in Retires(in) THEN {} ELSE Valid(in)

\* The channels the check of instruction o looks at: all, or only the lower
\* ones in the cycle in which o retires.
Looked(in, o) == {c \in Valid(in) : \A d \in Valid(in) : in[d] = o => c < d}

\* Mutated: trapping instructions count.
WritersAndTraps(in, o) ==
  {c \in Looked(in, o) : in[c] < o /\ program[in[c]].writes}

\* The channels among them that set register_shadow of the check of o.
Writers(in, o) ==
  {c \in Looked(in, o) :
     in[c] < o /\ program[in[c]].writes /\ ~program[in[c]].trap}
NextShadow(in, o) ==
  IF Writers(in, o) = {} THEN register_shadow[o]
  ELSE program[in[Last(Writers(in, o))]].wdata

\* The channels among them that set found_non_causal of the check of o.
EarlyReaders(in, o) == {c \in Looked(in, o) : in[c] > o /\ program[in[c]].reads}

\* The instructions whose assertions fail.  The causal check assumes that its
\* instruction names the register as its destination, trapping or not.
RegFails(in) ==
  {o \in Retires(in) : /\ o \in register_written'
                       /\ program[o].reads
                       /\ register_shadow'[o] /= program[o].rdata}
CausalFails(in) ==
  {o \in Retires(in) : program[o].writes /\ o \in found_non_causal'}

\* History: o retires while the older p is still open.
Overtakes(in, o, p) ==
  /\ p < o /\ p \notin retired
  /\ \E c \in Valid(in) : in[c] = o /\ \A d \in Valid(in) : in[d] = p => c < d

\* A clock edge: the channels retire some instructions that have not retired.
Edge(in) ==
  /\ Retires(in) \cap retired = {}
  /\ \A c, d \in Valid(in) : c /= d => in[c] /= in[d]
  /\ register_shadow' = [o \in Orders |-> NextShadow(in, o)]
  /\ register_written' = register_written \cup {o \in Orders : Writers(in, o) /= {}}
  /\ found_non_causal' =
       found_non_causal \cup {o \in Orders : EarlyReaders(in, o) /= {}}
  /\ reg_failed' = reg_failed \cup RegFails(in)
  /\ causal_failed' = causal_failed \cup CausalFails(in)
  /\ retired' = retired \cup Retires(in)
  /\ overtaken' = overtaken \cup {x \in Orders \X Orders : Overtakes(in, x[1], x[2])}
  /\ UNCHANGED program

Init ==
  /\ program \in Programs
  /\ retired = {}
  /\ register_shadow = [o \in Orders |-> 0]
  /\ register_written = {} /\ found_non_causal = {}
  /\ reg_failed = {} /\ causal_failed = {}
  /\ overtaken = {}

Next == \E in \in [Channels -> Orders \cup {NoInsn}] : Valid(in) /= {} /\ Edge(in)

Spec == Init /\ [][Next]_vars

-----------------------------------------------------------------------------
\* What the program says: the instructions that write the register, and the
\* one whose result instruction o reads, if there is one.
ProgramWriters == {w \in Orders : program[w].writes /\ ~program[w].trap}
Source(o) ==
  {w \in ProgramWriters : w < o /\ \A x \in ProgramWriters : x < o => x <= w}
Stale(o) ==
  program[o].reads /\ \E w \in Source(o) : program[w].wdata /= program[o].rdata
ReadEarly(o) ==
  program[o].reads /\ \E w \in Source(o) : <<o, w>> \in overtaken

WritesInOrder == \A v, w \in ProgramWriters : <<v, w>> \notin overtaken

\* Together the checks are complete for cores that retire the writes to one
\* register in program order: once an instruction and all older ones have
\* retired, it has read the result of the youngest older write, or its
\* register check or the causal check of that write has failed.
StaleReadCaught ==
  WritesInOrder =>
    \A o \in retired : Stale(o) /\ Source(o) \subseteq retired =>
      o \in reg_failed \/ Source(o) \subseteq causal_failed

\* For the same cores a failing register check is to the point: the
\* instruction read a stale value, or it retired before the write it read.
RegAlarmJustified ==
  WritesInOrder => \A o \in reg_failed : Stale(o) \/ ReadEarly(o)

=============================================================================
