----------------------------- MODULE RvfiCsrChecks -----------------------------
(***************************************************************************)
(* The checks that follow one CSR over several instructions:               *)
(* checks/rvfi_csrc_inc_check.sv, _upcnt_, _any_, _const_ and _zero_.      *)
(* They remember an access before the check cycle and compare it with the  *)
(* one of the check cycle.                                                 *)
(*                                                                         *)
(* Only the channel under check and the CSR under test matter; masks       *)
(* (`RISCV_FORMAL_CSRC_MASK) are left out and _const_ is the one whose     *)
(* expected value is rdata_shadow.  The core is arbitrary.                 *)
(***************************************************************************)
EXTENDS RvfiTestbench

CONSTANTS
  CsrValues,  \* values of the CSR, an interval from 0
  TopBit,     \* values from here on, near the largest one, are assumed not to
              \* be written (inc: the top bit is set) or read (upcnt: F000_0000)
  NoInsn      \* no access to the CSR

\* An access reads (rd is not x0), writes (csrrw, or rs1 is not x0) or both.
\* rw: the mode is csrrw, and not set or clear bits.
Access ==
  {a \in [read : BOOLEAN, write : BOOLEAN, rw : BOOLEAN,
          rs : CsrValues, rdata : CsrValues, wdata : CsrValues] : a.read \/ a.write}

VARIABLES
  kind,          \* "inc", "upcnt", "any", "const" or "zero", constant
  rdata_shadow, wdata_shadow, rsval_shadow,
  csr_written, csr_read_shadowed,
  csr_mode_rw,   \* csr_mode_shadow is 00 or 01
  csr_failed,    \* an assertion has failed
  latest,        \* history: the latest access before the check cycle
  wrote,         \* history: the latest one of them that wrote
  gap,           \* history: a cycle without an access followed latest
  judged         \* history: what the check cycle reads, or NoInsn

shadows == <<rdata_shadow, wdata_shadow, rsval_shadow,
             csr_written, csr_read_shadowed, csr_mode_rw>>
vars == <<cycle, kind, shadows, csr_failed, latest, wrote, gap, judged>>

-----------------------------------------------------------------------------
Reads(a) == a /= NoInsn /\ a.read
Writes(a) == a /= NoInsn /\ a.write

Assumed(a) ==
  CASE kind = "inc" ->
         /\ Writes(a) => Reads(a)
         /\ Writes(a) /\ ~check => a.wdata < TopBit
         /\ check => csr_read_shadowed
    [] kind = "upcnt" ->
         /\ ~Writes(a)
         /\ Reads(a) /\ ~check => a.rdata < TopBit
         /\ check => csr_read_shadowed
    [] kind = "zero" ->
         IF check THEN csr_written /\ Reads(a) => wdata_shadow /= 0
         ELSE Writes(a) => a.rw
    [] OTHER -> TRUE

Fails(a) ==
  CASE kind = "inc" ->
         csr_read_shadowed /\ a.rdata < rdata_shadow
           /\ (csr_written => a.rdata < wdata_shadow)
    [] kind = "upcnt" -> a.rdata <= rdata_shadow
    [] kind = "any" ->
         /\ csr_written
         /\ IF csr_mode_rw
            THEN a.rdata \notin {rsval_shadow, wdata_shadow} \/ rsval_shadow /= wdata_shadow
            ELSE a.rdata /= wdata_shadow
    [] kind = "const" -> csr_written /\ a.rdata /= rdata_shadow
    [] kind = "zero" -> csr_written /\ a.rdata /= 0

\* Mutated: every check remembers reads.
RemembersReads(a) == Reads(a)

\* The access that a check remembers.
Remembers(a) ==
  CASE kind \in {"inc", "upcnt"} -> Reads(a)
    [] OTHER -> Writes(a)

\* Before the check cycle.  Only the increment check forgets csr_written, and
\* does so in every cycle.
Remember(a) ==
  IF Remembers(a)
  THEN /\ rdata_shadow' = a.rdata
       /\ wdata_shadow' = IF a.write THEN a.wdata ELSE wdata_shadow
       /\ rsval_shadow' = a.rs
       /\ csr_mode_rw' = a.rw
       /\ csr_written' = a.write
       /\ csr_read_shadowed' = a.read
  ELSE /\ csr_written' = (csr_written /\ kind /= "inc")
       /\ UNCHANGED <<rdata_shadow, wdata_shadow, rsval_shadow,
                      csr_mode_rw, csr_read_shadowed>>

InReset ==
  /\ reset
  /\ rdata_shadow' = 0 /\ wdata_shadow' = 0 /\ rsval_shadow' = 0
  /\ csr_written' = FALSE /\ csr_read_shadowed' = FALSE /\ csr_mode_rw' = TRUE
  /\ UNCHANGED <<csr_failed, latest, wrote, gap, judged>>

Edge(a) ==
  /\ ~reset /\ ~check
  /\ Assumed(a)
  /\ Remember(a)
  /\ latest' = IF a = NoInsn THEN latest ELSE a
  /\ wrote' = IF Writes(a) THEN a ELSE wrote
  /\ gap' = (a = NoInsn)
  /\ UNCHANGED <<csr_failed, judged>>

Judge(a) ==
  /\ check
  /\ Assumed(a)
  /\ csr_failed' = (Reads(a) /\ Fails(a))
  /\ judged' = IF Reads(a) THEN a.rdata ELSE NoInsn
  /\ UNCHANGED <<shadows, latest, wrote, gap>>

Init ==
  /\ TbInit
  /\ kind \in {"inc", "upcnt", "any", "const", "zero"}
  /\ rdata_shadow = 0 /\ wdata_shadow = 0 /\ rsval_shadow = 0
  /\ csr_written = FALSE /\ csr_read_shadowed = FALSE /\ csr_mode_rw = TRUE
  /\ csr_failed = FALSE
  /\ latest = NoInsn /\ wrote = NoInsn /\ judged = NoInsn
  /\ gap = FALSE

\* The property is about one check: nothing follows the check cycle.
Next ==
  /\ cycle <= CheckCycle
  /\ Tick
  /\ InReset \/ \E a \in Access \cup {NoInsn} : Edge(a) \/ Judge(a)
  /\ UNCHANGED kind

Spec == Init /\ [][Next]_vars

-----------------------------------------------------------------------------
\* What the CSR holds after access a.
Holds(a) == IF a.write THEN a.wdata ELSE a.rdata

\* What each check promises of the read in the check cycle (docs/procedure.md).
Broken ==
  CASE kind = "inc" -> latest /= NoInsn /\ judged < Holds(latest)
    [] kind = "upcnt" -> latest /= NoInsn /\ judged <= Holds(latest)
    [] kind = "any" -> \/ judged /= wrote.wdata
                       \/ wrote.rw /\ wrote.wdata /= wrote.rs
    [] kind = "const" -> judged /= wrote.rdata
    [] kind = "zero" -> judged /= 0

\* Every check fails exactly when its promise is broken, whatever has come
\* between the access it remembers and the read it judges; except that after a
\* write the increment check only raises no false alarm, and that only if the
\* write retires in the cycle before the check.
CsrVerdictExact ==
  judged /= NoInsn /\ (kind \in {"any", "const", "zero"} => wrote /= NoInsn) =>
    IF kind = "inc" /\ latest.write
    THEN csr_failed /\ ~gap => Broken
    ELSE csr_failed <=> Broken

\* docs/procedure.md, of csrc_inc: it tests whether the value is greater than
\* or equal to a previous read or write, and so that it can never decrease
\* except by writing to it.  It accepts every CSR that holds what was written.
CounterAccepted == kind = "inc" /\ csr_failed => Broken

=============================================================================
