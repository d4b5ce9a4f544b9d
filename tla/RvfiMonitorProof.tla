-------------------------- MODULE RvfiMonitorProof --------------------------
(***************************************************************************)
(* Proofs about the RVFI monitor.  First its reorder buffer alone, for every *)
(* depth, number of channels, order width and payload; then the buffer     *)
(* behind a core that obeys RVFI, for every window of the core and depth   *)
(* that CoreAssumption admits: no false alarm, and the refinement of the   *)
(* in-order stream; last the whole monitor behind such a core, for every   *)
(* program and number of channels.                                         *)
(***************************************************************************)
EXTENDS RvfiMonitor, TLAPS, RvfiOrderTheorems, SequenceTheorems, FiniteSetTheorems

\* The slot function maps every order into the memory array.
LEMMA SlotInSlots == \A n \in Nat : Slot(n) \in Slots
  BY RobAssumption, SMT DEF Slot, Slots

\* A non-empty set of channels has a last element: the channel whose
\* assignment wins is well defined.
LEMMA LastInSet ==
  ASSUME NEW cs, cs \subseteq Channels, cs /= {}
  PROVE  Last(cs) \in cs /\ \A d \in cs : d <= Last(cs)
<1>1. NRet \in Nat /\ cs \subseteq 0 .. NRet - 1
  BY RobAssumption DEF Channels
<1> QED BY <1>1, GreatestElement DEF Last

\* An input vector that is valid on a channel carries a packet there.
LEMMA ValidCarriesPacket ==
  ASSUME NEW in \in Inputs, NEW c \in Valid(in)
  PROVE  c \in Channels /\ in[c] \in Packet /\ in[c].order \in Nat
BY RobAssumption DEF Inputs, Valid, Packet

\* The slots that k leaving packets empty, read at the old cursor.
LEMMA DrainedSlots ==
  ASSUME TypeOK, NEW k \in 0 .. NRet, Drains(k), NEW j \in 0 .. k - 1
  PROVE  /\ j \in Channels
         /\ cursor + j \in Nat
         /\ Slot(cursor + j) \in Slots
         /\ valid[Slot(cursor + j)]
         /\ buffer[Slot(cursor + j)] \in Packet
<1>1. NRet \in Nat \ {0} /\ cursor \in Nat
  BY RobAssumption DEF TypeOK
<1>2. j \in Channels /\ cursor + j \in Nat
  BY <1>1 DEF Channels
<1>3. Slot(cursor + j) \in Slots
  BY <1>2, SlotInSlots
<1> QED BY <1>2, <1>3 DEF Drains, TypeOK

\* What the output channels show at a clock edge at which k packets leave.
LEMMA EmittedPackets ==
  ASSUME TypeOK, NEW in, NEW k \in 0 .. NRet, Clock(in, k)
  PROVE  /\ Emitted(k) \in Seq(Packet)
         /\ Len(Emitted(k)) = k
         /\ \A i \in 1 .. k : Emitted(k)[i] = buffer[Slot(cursor + (i - 1))]
<1>1. NRet \in Nat \ {0} /\ k \in Nat
  BY RobAssumption
<1>2. Drains(k) /\ out' = NextOut(k)
  BY DEF Clock
<1>3. ASSUME NEW i \in 1 .. k
      PROVE  /\ out'[i - 1] = buffer[Slot(cursor + (i - 1))]
             /\ out'[i - 1] \in Packet
  <2>1. i - 1 \in 0 .. k - 1 /\ i - 1 < k
    BY <1>1
  <2>2. i - 1 \in Channels /\ buffer[Slot(cursor + (i - 1))] \in Packet
    BY <1>2, <2>1, DrainedSlots
  <2> QED BY <1>2, <2>1, <2>2 DEF NextOut
<1>4. Emitted(k) \in [1 .. k -> Packet]
  BY <1>3 DEF Emitted
<1>5. Emitted(k) \in Seq(Packet) /\ Len(Emitted(k)) = k
  BY <1>1, <1>4
<1> QED BY <1>3, <1>5 DEF Emitted

\* What one clock edge does, conjunct by conjunct.
LEMMA ClockParts ==
  ASSUME NEW in, NEW k, Clock(in, k), Remember(in, k)
  PROVE  /\ Drains(k)
         /\ buffer' = NextBuffer(in)
         /\ valid' = NextValid(in, k)
         /\ cursor' = cursor + k
         /\ out' = NextOut(k)
         /\ errcode' = NextErrcode(in, k)
         /\ presented' = presented \cup Driven(in)
         /\ late' = late \cup {p \in Driven(in) : p.order < cursor}
         /\ delivered' = delivered \o Emitted(k)
         /\ flagged' = (flagged \/ errcode' /= NoError)
         /\ collided' = (collided \/ \E c, d \in Valid(in) :
                            c /= d /\ Slot(in[c].order) = Slot(in[d].order))
BY Zenon DEF Clock, Remember, NextCursor

\* The conjuncts of the type invariant.
LEMMA TypeParts ==
  ASSUME TypeOK
  PROVE  /\ buffer \in [Slots -> Packet]
         /\ valid \in [Slots -> BOOLEAN]
         /\ cursor \in Nat
         /\ presented \subseteq Packet
         /\ late \subseteq presented
         /\ delivered \in Seq(Packet)
         /\ flagged \in BOOLEAN
         /\ collided \in BOOLEAN
BY Zenon DEF TypeOK

\* The entry filed last in a slot at a clock edge is a packet.
LEMMA NextBufferType ==
  ASSUME TypeOK, NEW in \in Inputs
  PROVE  NextBuffer(in) \in [Slots -> Packet]
<1>1. ASSUME NEW s \in Slots, FilesInto(in, s) /= {}
      PROVE  in[Last(FilesInto(in, s))] \in Packet
  <2>1. FilesInto(in, s) \subseteq Channels
    BY DEF FilesInto, Valid
  <2>2. Last(FilesInto(in, s)) \in FilesInto(in, s)
    BY <1>1, <2>1, LastInSet
  <2> QED BY <2>2, ValidCarriesPacket DEF FilesInto
<1>2. buffer \in [Slots -> Packet]
  BY TypeParts
<1> QED BY <1>1, <1>2 DEF NextBuffer

\* One clock edge keeps every register and the history well typed.
LEMMA StepTypeOK ==
  ASSUME TypeOK, NEW in \in Inputs, NEW k \in 0 .. NRet,
         Clock(in, k), Remember(in, k)
  PROVE  TypeOK'
<1>1. buffer' \in [Slots -> Packet]
  BY ClockParts, NextBufferType
<1>2. valid' \in [Slots -> BOOLEAN]
  BY ClockParts DEF NextValid
<1>3. cursor' \in Nat
  BY ClockParts, TypeParts, RobAssumption
<1>4. out' \in [Channels -> Packet \cup {NoPacket}]
  <2>1. ASSUME NEW c \in Channels, c < k
        PROVE  buffer[Slot(cursor + c)] \in Packet
    <3>1. c \in 0 .. k - 1
      BY <2>1, RobAssumption DEF Channels
    <3> QED BY <3>1, DrainedSlots, ClockParts
  <2> QED BY <2>1, ClockParts DEF NextOut
<1>5. errcode' \in {NoError, Overrun, Misordered}
  BY ClockParts DEF NextErrcode
<1>6. presented' \subseteq Packet /\ late' \subseteq presented'
  <2>1. Driven(in) \subseteq Packet
    BY ValidCarriesPacket DEF Driven
  <2> QED BY <2>1, ClockParts, TypeParts
<1>7. delivered' \in Seq(Packet)
  <2>1. Emitted(k) \in Seq(Packet)
    BY EmittedPackets
  <2>2. delivered \in Seq(Packet)
    BY TypeParts
  <2>3. delivered \o Emitted(k) \in Seq(Packet)
    BY <2>1, <2>2, ConcatProperties
  <2> QED BY <2>3, ClockParts
<1>8. flagged' \in BOOLEAN /\ collided' \in BOOLEAN
  BY ClockParts, TypeParts
<1> QED BY <1>1, <1>2, <1>3, <1>4, <1>5, <1>6, <1>7, <1>8 DEF TypeOK

-----------------------------------------------------------------------------
\* A valid slot holds a packet of the core, filed under the right slot.
Filed ==
  \A s \in Slots : valid[s] => buffer[s] \in presented /\ Slot(buffer[s].order) = s

\* The cursor counts the packets handed on; late packets stay late.
CursorCounts ==
  /\ Len(delivered) = cursor
  /\ \A p \in late : p.order < cursor

\* The inductive invariant: the properties need to know what the valid slots
\* hold and where the cursor is.
RobInv ==
  /\ TypeOK /\ Filed /\ CursorCounts
  /\ InOrderDelivery /\ NoSilentLoss /\ LateIsCaught

\* An error found at this clock edge is remembered.
LEMMA OverrunFlags ==
  ASSUME NEW in \in Inputs, NEW k, Clock(in, k), Remember(in, k),
         NEW c \in Valid(in), valid[Slot(in[c].order)]
  PROVE  flagged'
<1>1. Overruns(in) /= {}
  BY DEF Overruns
<1>2. NextErrcode(in, k) /= NoError
  BY <1>1 DEF NextErrcode, NoError, Overrun, Misordered
<1>3. errcode' /= NoError /\ flagged' = (flagged \/ errcode' /= NoError)
  BY <1>2, ClockParts
<1> QED BY <1>3, Zenon

\* A slot that is filed into ends up with one of the packets filed into it.
LEMMA FiledPacket ==
  ASSUME NEW in \in Inputs, NEW k, Clock(in, k), Remember(in, k),
         NEW s \in Slots, FilesInto(in, s) /= {}
  PROVE  \E c \in FilesInto(in, s) : buffer'[s] = in[c]
<1>1. FilesInto(in, s) \subseteq Channels
  BY DEF FilesInto, Valid
<1>2. Last(FilesInto(in, s)) \in FilesInto(in, s)
  BY <1>1, LastInSet
<1> QED BY <1>2, ClockParts DEF NextBuffer

\* A packet that arrives waits after the clock edge, or it met an occupied slot
\* (an error), or another packet of the same clock edge.
LEMMA Arrival ==
  ASSUME TypeOK, NEW in \in Inputs, NEW k \in 0 .. NRet,
         Clock(in, k), Remember(in, k), NEW p \in Driven(in)
  PROVE  Waits(p)' \/ flagged' \/ collided'
<1>1. PICK c \in Valid(in) : p = in[c]
  BY DEF Driven
<1> DEFINE s == Slot(p.order)
<1>2. s \in Slots
  BY <1>1, ValidCarriesPacket, SlotInSlots
<1>3. c \in FilesInto(in, s)
  BY <1>1 DEF FilesInto
<1>4. CASE valid[s]
  BY <1>1, <1>4, OverrunFlags
<1>5. CASE ~valid[s] /\ \E d \in FilesInto(in, s) : d /= c
  BY <1>1, <1>5, ClockParts DEF FilesInto
<1>6. CASE ~valid[s] /\ \A d \in FilesInto(in, s) : d = c
  <2>1. buffer'[s] = p
    BY <1>1, <1>2, <1>3, <1>6, FiledPacket
  <2>2. \A j \in 0 .. k - 1 : Slot(cursor + j) /= s
    BY <1>6, ClockParts DEF Drains
  <2>3. valid'[s]
    <3>1. valid'[s] <=> /\ \A j \in 0 .. k - 1 : Slot(cursor + j) /= s
                        /\ valid[s] \/ FilesInto(in, s) /= {}
      BY <1>2, ClockParts DEF NextValid
    <3> QED BY <1>3, <2>2, <3>1
  <2> QED BY <2>1, <2>3 DEF Waits, Slot
<1> QED BY <1>4, <1>5, <1>6

\* A packet that waits goes on waiting, or leaves, or is overrun (an error).
LEMMA Waiting ==
  ASSUME TypeOK, NEW in \in Inputs, NEW k \in 0 .. NRet,
         Clock(in, k), Remember(in, k),
         NEW p \in Packet, Waits(p)
  PROVE  \/ Waits(p)'
         \/ flagged'
         \/ \E j \in 0 .. k - 1 : Slot(cursor + j) = Slot(p.order)
<1> DEFINE s == Slot(p.order)
<1>1. s \in Slots /\ valid[s] /\ buffer[s] = p
  BY SlotInSlots, RobAssumption DEF Waits, Packet
<1>2. CASE FilesInto(in, s) /= {}
  BY <1>1, <1>2, OverrunFlags DEF FilesInto
<1>3. CASE \E j \in 0 .. k - 1 : Slot(cursor + j) = s
  BY <1>3
<1>4. CASE FilesInto(in, s) = {} /\ \A j \in 0 .. k - 1 : Slot(cursor + j) /= s
  <2>1. buffer'[s] = p
    BY <1>1, <1>4, ClockParts DEF NextBuffer
  <2>2. valid'[s]
    BY <1>1, <1>4, ClockParts DEF NextValid
  <2> QED BY <2>1, <2>2 DEF Waits, Slot
<1> QED BY <1>2, <1>3, <1>4

\* A packet handed on at an edge that reports no error is the one whose turn
\* it is.
LEMMA InTurn ==
  ASSUME NEW in, NEW k, Clock(in, k), Remember(in, k), ~flagged',
         NEW j \in 0 .. k - 1
  PROVE  buffer[Slot(cursor + j)].order = cursor + j
<1>1. errcode' = NoError
  BY ClockParts, Zenon
<1>2. Misorders(k) = {}
  BY <1>1, ClockParts DEF NextErrcode, NoError, Overrun, Misordered
<1> QED BY <1>2 DEF Misorders

\* How the history of the output grows at a clock edge.
LEMMA DeliveredGrows ==
  ASSUME TypeOK, CursorCounts, NEW in, NEW k \in 0 .. NRet,
         Clock(in, k), Remember(in, k)
  PROVE  /\ cursor \in Nat /\ k \in Nat
         /\ Len(delivered') = cursor + k
         /\ \A i \in 1 .. cursor : delivered'[i] = delivered[i]
         /\ \A j \in 0 .. k - 1 :
              delivered'[cursor + j + 1] = buffer[Slot(cursor + j)]
<1>1. cursor \in Nat /\ k \in Nat /\ Len(delivered) = cursor
  BY TypeParts, RobAssumption DEF CursorCounts
<1>2. delivered \in Seq(Packet) /\ delivered' = delivered \o Emitted(k)
  BY TypeParts, ClockParts
<1>3. /\ Emitted(k) \in Seq(Packet) /\ Len(Emitted(k)) = k
      /\ \A i \in 1 .. k : Emitted(k)[i] = buffer[Slot(cursor + (i - 1))]
  BY EmittedPackets
<1> DEFINE e == Emitted(k)
<1>e. e \in Seq(Packet) /\ Len(e) = k
  BY <1>3
<1> HIDE DEF e
<1>4. /\ Len(delivered \o e) = cursor + k
      /\ \A i \in 1 .. cursor + k : (delivered \o e)[i] =
           IF i <= cursor THEN delivered[i] ELSE e[i - cursor]
  <2>1. delivered \in Seq(Packet)
    BY <1>2
  <2>2. /\ Len(delivered \o e) = Len(delivered) + Len(e)
        /\ \A i \in 1 .. Len(delivered) + Len(e) : (delivered \o e)[i] =
             IF i <= Len(delivered) THEN delivered[i] ELSE e[i - Len(delivered)]
    BY <1>e, <2>1, ConcatProperties, Zenon
  <2> QED BY <1>1, <1>e, <2>2
<1>5. /\ Len(delivered') = cursor + k
      /\ \A i \in 1 .. cursor + k : delivered'[i] =
           IF i <= cursor THEN delivered[i] ELSE e[i - cursor]
  BY <1>2, <1>4 DEF e
<1>6. \A i \in 1 .. cursor : delivered'[i] = delivered[i]
  BY <1>1, <1>5
<1>7. ASSUME NEW j \in 0 .. k - 1
      PROVE  delivered'[cursor + j + 1] = buffer[Slot(cursor + j)]
  <2>1. /\ j + 1 \in 1 .. k /\ cursor + j + 1 \in 1 .. cursor + k
        /\ ~(cursor + j + 1 <= cursor) /\ (j + 1) - 1 = j
        /\ (cursor + j + 1) - cursor = j + 1
    BY <1>1
  <2>2. delivered'[cursor + j + 1] = e[j + 1]
    BY <1>5, <2>1
  <2>3. e[j + 1] = buffer[Slot(cursor + j)]
    BY <1>3, <2>1 DEF e
  <2> QED BY <2>2, <2>3
<1> QED BY <1>1, <1>5, <1>6, <1>7

\* One clock edge keeps the invariant.
LEMMA StepRobInv ==
  ASSUME RobInv, NEW in \in Inputs, NEW k \in 0 .. NRet,
         Clock(in, k), Remember(in, k)
  PROVE  RobInv'
<1>1. /\ TypeOK /\ Filed /\ CursorCounts
      /\ InOrderDelivery /\ NoSilentLoss /\ LateIsCaught
  BY DEF RobInv
<1>2. TypeOK'
  BY <1>1, StepTypeOK
<1>3. presented \subseteq presented' /\ (flagged => flagged')
      /\ (collided => collided')
  BY ClockParts, Zenon
<1>4. Filed'
  <2> SUFFICES ASSUME NEW s \in Slots, valid'[s]
               PROVE  buffer'[s] \in presented' /\ Slot(buffer'[s].order) = s
    BY DEF Filed, Slot, Slots
  <2>1. CASE FilesInto(in, s) = {}
    <3>1. buffer'[s] = buffer[s] /\ valid[s]
      BY <2>1, ClockParts DEF NextBuffer, NextValid
    <3> QED BY <1>1, <1>3, <3>1 DEF Filed
  <2>2. CASE FilesInto(in, s) /= {}
    <3>1. PICK c \in FilesInto(in, s) : buffer'[s] = in[c]
      BY <2>2, FiledPacket
    <3> QED BY <3>1, ClockParts DEF FilesInto, Driven
  <2> QED BY <2>1, <2>2
<1>5. CursorCounts'
  <2>1. Len(delivered') = cursor'
    BY <1>1, DeliveredGrows, ClockParts
  <2>2. ASSUME NEW p \in late'
        PROVE  p.order < cursor'
    <3>1. p.order < cursor
      BY <1>1, <2>2, ClockParts DEF CursorCounts
    <3>2. p \in Packet
      BY <1>2, <2>2 DEF TypeOK
    <3>3. p.order \in Nat
      BY <3>2, RobAssumption DEF Packet
    <3> QED BY <1>1, <3>1, <3>3, DeliveredGrows, ClockParts
  <2> QED BY <2>1, <2>2 DEF CursorCounts
<1>6. InOrderDelivery'
  <2> SUFFICES ASSUME NEW i \in 1 .. Len(delivered')
               PROVE  /\ delivered'[i] \in presented'
                      /\ flagged' \/ delivered'[i].order = i - 1
    BY DEF InOrderDelivery, Positions
  <2>1. cursor \in Nat /\ k \in Nat /\ i \in 1 .. cursor + k
    BY <1>1, DeliveredGrows
  <2>2. CASE i \in 1 .. cursor
    <3>1. delivered'[i] = delivered[i] /\ i \in Positions
      BY <1>1, <2>2, DeliveredGrows DEF Positions, CursorCounts
    <3> QED BY <1>1, <1>3, <3>1 DEF InOrderDelivery
  <2>3. CASE i \notin 1 .. cursor
    <3> DEFINE j == i - cursor - 1
    <3>1. j \in 0 .. k - 1 /\ i = cursor + j + 1 /\ i - 1 = cursor + j
      BY <2>1, <2>3
    <3>2. delivered'[i] = buffer[Slot(cursor + j)]
      BY <1>1, <3>1, DeliveredGrows
    <3>3. Slot(cursor + j) \in Slots /\ valid[Slot(cursor + j)]
      BY <1>1, <3>1, DrainedSlots, ClockParts
    <3>4. buffer[Slot(cursor + j)] \in presented'
      BY <1>1, <1>3, <3>3 DEF Filed
    <3>5. flagged' \/ buffer[Slot(cursor + j)].order = cursor + j
      BY <3>1, InTurn
    <3> QED BY <3>1, <3>2, <3>4, <3>5
  <2> QED BY <2>2, <2>3
<1>7. NoSilentLoss'
  <2> SUFFICES ASSUME NEW p \in presented', ~flagged', ~collided', ~Waits(p)'
               PROVE  \E i \in 1 .. Len(delivered') : delivered'[i] = p
    BY DEF NoSilentLoss, Positions, Waits, Slot
  <2>1. p \in presented /\ p \in Packet /\ ~flagged /\ ~collided
    BY <1>1, <1>3, Arrival, ClockParts, TypeParts
  <2>2. CASE \E i \in Positions : delivered[i] = p
    <3>1. PICK i \in 1 .. cursor : delivered[i] = p
      BY <1>1, <2>2 DEF Positions, CursorCounts
    <3>2. i \in 1 .. Len(delivered') /\ delivered'[i] = p
      BY <1>1, <3>1, DeliveredGrows
    <3> QED BY <3>2
  <2>3. CASE Waits(p)
    <3>1. PICK j \in 0 .. k - 1 : Slot(cursor + j) = Slot(p.order)
      BY <1>1, <2>1, <2>3, Waiting
    <3>2. buffer[Slot(cursor + j)] = p
      BY <2>3, <3>1 DEF Waits
    <3>3. cursor + j + 1 \in 1 .. Len(delivered')
          /\ delivered'[cursor + j + 1] = p
      BY <1>1, <3>2, DeliveredGrows
    <3> QED BY <3>3
  <2> QED BY <1>1, <2>1, <2>2, <2>3 DEF NoSilentLoss
<1>8. LateIsCaught'
  <2> SUFFICES ASSUME NEW p \in late', ~flagged', ~collided', ~Waits(p)'
               PROVE  FALSE
    BY DEF LateIsCaught, Waits, Slot
  <2>1. p \in late /\ p \in Packet /\ ~flagged /\ ~collided
    BY <1>1, <1>3, Arrival, ClockParts, TypeParts
  <2>2. Waits(p) /\ p.order < cursor
    BY <1>1, <2>1 DEF LateIsCaught, CursorCounts
  <2>3. PICK j \in 0 .. k - 1 : Slot(cursor + j) = Slot(p.order)
    BY <1>1, <2>1, <2>2, Waiting
  <2>4. p.order = cursor + j
    BY <2>2, <2>3, InTurn DEF Waits
  <2> QED BY <1>1, <2>2, <2>4, DeliveredGrows
<1> QED BY <1>2, <1>4, <1>5, <1>6, <1>7, <1>8 DEF RobInv

\* After the first reset the invariant holds.
LEMMA InitRobInv == Init => RobInv
<1> SUFFICES ASSUME Init
             PROVE  RobInv
  OBVIOUS
<1>1. TypeOK
  <2>1. << >> \in Seq(Packet)
    OBVIOUS
  <2>2. cursor = 0 => cursor \in Nat
    OBVIOUS
  <2>3. Init => buffer \in [Slots -> Packet]
    BY RobAssumption, Zenon DEF Init
  <2> QED BY <2>1, <2>2, <2>3, Zenon DEF Init, TypeOK
<1>2. Filed
  BY DEF Init, Filed
<1>3. Len(delivered) = 0 /\ late = {} /\ presented = {}
  BY DEF Init
<1>4. CursorCounts
  BY <1>3 DEF Init, CursorCounts
<1>5. InOrderDelivery
  BY <1>3 DEF InOrderDelivery, Positions
<1>6. NoSilentLoss /\ LateIsCaught
  BY <1>3 DEF NoSilentLoss, LateIsCaught
<1> QED BY <1>1, <1>2, <1>4, <1>5, <1>6 DEF RobInv

\* Nothing happens, nothing changes.
LEMMA StutterRobInv == RobInv /\ UNCHANGED vars => RobInv'
BY DEF vars, hw, history, RobInv, TypeOK, Filed, CursorCounts,
       InOrderDelivery, NoSilentLoss, LateIsCaught, Waits, Positions

\* The invariant holds in every reachable state.
THEOREM RobCorrect == Spec => []RobInv
<1>1. Init => RobInv
  BY InitRobInv
<1>2. RobInv /\ [Next]_vars => RobInv'
  <2> SUFFICES ASSUME RobInv, [Next]_vars
               PROVE  RobInv'
    OBVIOUS
  <2>1. CASE Reset
    <3>1. TypeOK'
      BY <2>1, EmptySeq DEF Reset, ValidAfterReset, RobInv, TypeOK
    <3>2. Filed'
      BY <2>1 DEF Reset, ValidAfterReset, Filed
    <3>3. Len(delivered') = 0 /\ late' = {} /\ presented' = {} /\ cursor' = 0
      BY <2>1 DEF Reset, ValidAfterReset
    <3>4. CursorCounts'
      BY <3>3 DEF CursorCounts
    <3>5. InOrderDelivery'
      BY <3>3 DEF InOrderDelivery, Positions
    <3>6. NoSilentLoss' /\ LateIsCaught'
      BY <3>3 DEF NoSilentLoss, LateIsCaught
    <3> QED BY <3>1, <3>2, <3>4, <3>5, <3>6 DEF RobInv
  <2>2. ASSUME NEW in \in Inputs, Step(in)
        PROVE  RobInv'
    BY <2>2, StepRobInv DEF Step
  <2>3. CASE UNCHANGED vars
    BY <2>3, StutterRobInv
  <2> QED BY <2>1, <2>2, <2>3 DEF Next
<1> QED BY <1>1, <1>2, PTL DEF Spec

\* Registers, ports and history are always well typed, for every power-up
\* content of the memory array and every input.
THEOREM TypeCorrect == Spec => []TypeOK
<1>1. RobInv => TypeOK
  BY DEF RobInv
<1> QED BY <1>1, RobCorrect, PTL

\* For every depth, width and input: what leaves the buffer was put in, and is
\* in order unless an error was reported.
THEOREM InOrder == Spec => []InOrderDelivery
<1>1. RobInv => InOrderDelivery
  BY DEF RobInv
<1> QED BY <1>1, RobCorrect, PTL

\* For every depth, width and input: a packet is never lost without an error,
\* unless two packets of one clock edge select one slot.
THEOREM NothingLost == Spec => []NoSilentLoss
<1>1. RobInv => NoSilentLoss
  BY DEF RobInv
<1> QED BY <1>1, RobCorrect, PTL

\* For every depth, width and input: a repeated or backward order never passes
\* as another one.
THEOREM LateCaught == Spec => []LateIsCaught
<1>1. RobInv => LateIsCaught
  BY DEF RobInv
<1> QED BY <1>1, RobCorrect, PTL

-----------------------------------------------------------------------------
(***************************************************************************)
(* The buffer behind a core that obeys RVFI.                               *)
(***************************************************************************)
\* Two orders in one slot are a whole buffer apart.
LEMMA SameSlot ==
  ASSUME NEW a \in Nat, NEW b \in Nat, a < b, Slot(a) = Slot(b)
  PROVE  a + Depth <= b
<1> DEFINE p == a \div Depth
           q == b \div Depth
<1>1. Depth \in Nat \ {0}
  BY RobAssumption
<1>2. p \in Nat /\ a = Depth * p + (a % Depth)
  BY <1>1, SMT
<1>3. q \in Nat /\ b = Depth * q + (b % Depth)
  BY <1>1, SMT
<1>4. a % Depth = b % Depth /\ a % Depth \in Nat
  BY <1>1, SMT DEF Slot
<1> HIDE DEF p, q
<1>5. b - a = Depth * q - Depth * p
  BY <1>1, <1>2, <1>3, <1>4
<1>6. p < q
  <2>1. CASE q <= p
    <3>1. Depth * q <= Depth * p
      BY <1>1, <1>2, <1>3, <2>1
    <3> QED BY <1>1, <1>2, <1>3, <1>5, <3>1
  <2> QED BY <1>2, <1>3, <2>1
<1>7. Depth * q >= Depth * p + Depth
  <2> DEFINE r == q - p - 1
  <2>1. r \in Nat /\ q = p + 1 + r
    BY <1>2, <1>3, <1>6
  <2> HIDE DEF r
  <2>2. Depth * q = Depth * p + Depth + Depth * r
    BY <1>1, <1>2, <2>1
  <2>3. Depth * r \in Nat
    BY <1>1, <2>1
  <2> QED BY <1>1, <1>2, <2>2, <2>3
<1> QED BY <1>1, <1>2, <1>3, <1>5, <1>7

\* A finite set has a size.
LEMMA SizeIsNat == \A S : IsFiniteSet(S) => Cardinality(S) \in Nat
BY FS_CardinalityType

\* A finite set of orders has an oldest one that is missing.
LEMMA OldestMissing ==
  ASSUME NEW R, R \subseteq Nat, IsFiniteSet(R)
  PROVE  /\ Oldest(R) \in 0 .. Cardinality(R)
         /\ Oldest(R) \in Nat
         /\ Oldest(R) \notin R
         /\ \A m \in 0 .. Oldest(R) - 1 : m \in R
<1> DEFINE n == Cardinality(R)
           T == {m \in 0 .. n : m \notin R}
<1>1. n \in Nat
  BY SizeIsNat
<1>2. T /= {}
  <2>1. SUFFICES ASSUME 0 .. n \subseteq R PROVE FALSE
    OBVIOUS
  <2>2. Cardinality(0 .. n) <= n
    BY <2>1, FS_Subset
  <2>3. Cardinality(0 .. n) = n + 1
    BY <1>1, FS_Interval
  <2> QED BY <1>1, <2>2, <2>3
<1>3. PICK x \in T : \A y \in T : x <= y
  <2> DEFINE cs == {n - m : m \in T}
  <2>1. cs \subseteq 0 .. (n + 1) - 1 /\ cs /= {} /\ n + 1 \in Nat
    BY <1>1, <1>2
  <2> HIDE DEF cs
  <2>2. PICK c \in cs : \A d \in cs : d <= c
    BY <2>1, GreatestElement
  <2>3. PICK m \in T : c = n - m
    BY DEF cs
  <2>4. \A y \in T : n - y <= n - m
    BY <2>2, <2>3 DEF cs
  <2> QED BY <1>1, <2>4
<1>4. \A y \in T : ~(y < x)
  BY <1>1, <1>3
<1>5. x \in 0 .. n /\ x \notin R /\ \A m \in 0 .. x - 1 : m \in R
  BY <1>1, <1>4
<1>6. Oldest(R) \in 0 .. n /\ Oldest(R) \notin R /\ \A m \in 0 .. Oldest(R) - 1 : m \in R
  BY <1>5 DEF Oldest
<1> QED BY <1>1, <1>6

\* The set holds all orders before the oldest missing one, and perhaps some
\* ahead of it.
LEMMA OldestBelowSize ==
  ASSUME NEW R, R \subseteq Nat, IsFiniteSet(R), NEW o \in R, o > Oldest(R)
  PROVE  Oldest(R) < Cardinality(R)
<1> DEFINE old == Oldest(R)
<1>1. old \in Nat /\ old \notin R /\ \A m \in 0 .. old - 1 : m \in R
  BY OldestMissing, SizeIsNat
<1> HIDE DEF old
<1>2. IsFiniteSet(0 .. old - 1) /\ Cardinality(0 .. old - 1) = old
  BY <1>1, FS_Interval
<1>3. o \notin 0 .. old - 1
  BY <1>1 DEF old
<1>4. /\ IsFiniteSet((0 .. old - 1) \cup {o})
      /\ Cardinality((0 .. old - 1) \cup {o}) = old + 1
  BY <1>2, <1>3, FS_AddElement
<1>5. (0 .. old - 1) \cup {o} \subseteq R
  BY <1>1
<1>6. old + 1 <= Cardinality(R)
  BY <1>4, <1>5, FS_Subset
<1>7. Cardinality(R) \in Nat
  BY SizeIsNat
<1> QED BY <1>1, <1>6, <1>7 DEF old

\* In a window of w orders, at most w - 1 are ahead of the oldest missing one.
LEMMA SizeInWindow ==
  ASSUME NEW R, R \subseteq Nat, IsFiniteSet(R), NEW w \in Nat \ {0},
         \A o \in R : o < Oldest(R) + w
  PROVE  Cardinality(R) <= Oldest(R) + w - 1
<1> DEFINE old == Oldest(R)
           U == 0 .. old + w - 1
<1>1. old \in Nat /\ old \notin R
  BY OldestMissing
<1>2. \A o \in R : o < old + w
  OBVIOUS
<1> HIDE DEF old
<1>3. IsFiniteSet(U) /\ Cardinality(U) = old + w
  BY <1>1, FS_Interval
<1>4. old \in U
  BY <1>1
<1>5. R \subseteq U \ {old}
  BY <1>1, <1>2
<1> HIDE DEF U
<1>6. IsFiniteSet(U \ {old}) /\ Cardinality(U \ {old}) = (old + w) - 1
  BY <1>3, <1>4, FS_RemoveElement
<1>7. Cardinality(R) <= Cardinality(U \ {old})
  BY <1>5, <1>6, FS_Subset
<1>8. Cardinality(R) <= old + w - 1
  BY <1>1, <1>6, <1>7
<1> QED BY <1>8 DEF old

\* The oldest missing order never goes back.
LEMMA OldestGrows ==
  ASSUME NEW R, R \subseteq Nat, IsFiniteSet(R),
         NEW S, S \subseteq Nat, IsFiniteSet(S), R \subseteq S
  PROVE  Oldest(R) <= Oldest(S)
<1>1. Oldest(R) \in Nat /\ Oldest(S) \in Nat /\ Oldest(S) \notin S
  BY OldestMissing
<1>2. \A m \in 0 .. Oldest(R) - 1 : m \in R
  BY OldestMissing
<1> QED BY <1>1, <1>2

-----------------------------------------------------------------------------
\* The orders of the core: all before the cursor have retired, none is outside
\* the window, and the buffer holds no more than it can while it drains.
OrdersInv ==
  /\ IsFiniteSet(Retired)
  /\ \A n \in 0 .. cursor - 1 : n \in Retired
  /\ \A o \in Retired : o < Oldest(Retired) + Window
  /\ Cardinality(Retired) <= cursor + Window + NRet - 1

\* The packets: one for each order, in its slot until its turn, and nothing
\* else in a slot.
PacketsInv ==
  /\ Stream!Unique(presented)
  /\ \A p \in presented : p.order < cursor \/ Waits(p)
  /\ \A s \in Slots : valid[s] => buffer[s].order >= cursor

CoreInv == RobInv /\ OrdersInv /\ PacketsInv /\ NeverFlagged

\* What the constants and the types give.
LEMMA CoreTypes ==
  ASSUME RobInv
  PROVE  /\ NRet \in Nat \ {0} /\ Window \in Nat \ {0} /\ Depth \in Nat \ {0}
         /\ Depth >= 2 * (Window + NRet - 1)
         /\ cursor \in Nat /\ TypeOK /\ CursorCounts /\ Filed
         /\ presented \subseteq Packet
         /\ \A p \in presented : p.order \in Nat
         /\ Retired \subseteq Nat
<1>1. TypeOK /\ CursorCounts /\ Filed
  BY DEF RobInv
<1>2. cursor \in Nat /\ presented \subseteq Packet
  BY <1>1, TypeParts
<1>3. \A p \in Packet : p.order \in Nat
  BY RobAssumption DEF Packet
<1>4. Retired \subseteq Nat
  BY <1>2, <1>3 DEF Retired
<1> QED BY <1>1, <1>2, <1>3, <1>4, RobAssumption, CoreAssumption

\* The orders that a vector drives: at most one for each channel.
LEMMA DrivenSize ==
  ASSUME NEW in \in Inputs
  PROVE  /\ IsFiniteSet(DrivenOrders(in))
         /\ Cardinality(DrivenOrders(in)) <= NRet
         /\ DrivenOrders(in) \subseteq Nat
<1> DEFINE f == [c \in Valid(in) |-> in[c].order]
<1>1. DrivenOrders(in) = {in[c].order : c \in Valid(in)}
  BY DEF DrivenOrders, Driven
<1>2. f \in Surjection(Valid(in), DrivenOrders(in))
  BY <1>1 DEF Surjection
<1>3. IsFiniteSet(Channels) /\ Cardinality(Channels) = NRet
  BY RobAssumption, FS_Interval DEF Channels
<1>4. IsFiniteSet(Valid(in)) /\ Cardinality(Valid(in)) <= NRet
  <2>1. Valid(in) \in SUBSET Channels
    BY DEF Valid
  <2> QED BY <1>3, <2>1, FS_Subset
<1> HIDE DEF f
<1>5. /\ IsFiniteSet(DrivenOrders(in))
      /\ Cardinality(DrivenOrders(in)) <= Cardinality(Valid(in))
  BY <1>2, <1>4, FS_Surjection
<1>6. DrivenOrders(in) \subseteq Nat
  BY <1>1, ValidCarriesPacket
<1> QED BY <1>4, <1>5, <1>6, SizeIsNat, RobAssumption

\* How the set of retired orders grows at a clock edge.
LEMMA RetiredGrows ==
  ASSUME CoreInv, NEW in \in Inputs, NEW k \in 0 .. NRet,
         Clock(in, k), Remember(in, k)
  PROVE  /\ Retired' = Retired \cup DrivenOrders(in)
         /\ IsFiniteSet(Retired') /\ Retired' \subseteq Nat
         /\ Cardinality(Retired') \in Nat /\ Cardinality(Retired) \in Nat
         /\ Cardinality(Retired') <= Cardinality(Retired) + NRet
<1>1. RobInv /\ IsFiniteSet(Retired)
  BY DEF CoreInv, OrdersInv
<1>2. Retired' = Retired \cup DrivenOrders(in)
  BY ClockParts DEF Retired, DrivenOrders
<1>3. Retired \subseteq Nat /\ NRet \in Nat
  BY <1>1, CoreTypes
<1> DEFINE R == Retired
           D == DrivenOrders(in)
<1>4. IsFiniteSet(R) /\ IsFiniteSet(D) /\ D \subseteq Nat /\ Cardinality(D) <= NRet
  BY <1>1, DrivenSize
<1> HIDE DEF R, D
<1>5. /\ IsFiniteSet(R \cup D)
      /\ Cardinality(R \cup D) = Cardinality(R) + Cardinality(D) - Cardinality(R \cap D)
      /\ IsFiniteSet(R \cap D)
  BY <1>4, FS_Union, FS_Intersection
<1>6. Cardinality(R) \in Nat /\ Cardinality(D) \in Nat
      /\ Cardinality(R \cap D) \in Nat /\ Cardinality(R \cup D) \in Nat
  BY <1>4, <1>5, SizeIsNat
<1>7. Cardinality(R \cup D) <= Cardinality(R) + NRet
  BY <1>3, <1>4, <1>5, <1>6
<1> QED BY <1>2, <1>3, <1>4, <1>5, <1>6, <1>7 DEF R, D

\* After a clock edge the window has moved up.
LEMMA InWindow ==
  ASSUME CoreInv, NEW in \in Inputs, NEW k \in 0 .. NRet, Obeys(in),
         Clock(in, k), Remember(in, k)
  PROVE  \A o \in Retired' : o < Oldest(Retired') + Window
<1>1. /\ Retired' = Retired \cup DrivenOrders(in)
      /\ IsFiniteSet(Retired') /\ Retired' \subseteq Nat
  BY RetiredGrows
<1>2. IsFiniteSet(Retired) /\ \A o \in Retired : o < Oldest(Retired) + Window
  BY DEF CoreInv, OrdersInv
<1>3. Oldest(Retired) <= Oldest(Retired')
  BY <1>1, <1>2, OldestGrows
<1>4. Oldest(Retired) \in Nat /\ Oldest(Retired') \in Nat
  BY <1>1, <1>2, OldestMissing
<1>5. \A o \in DrivenOrders(in) : o < Oldest(Retired') + Window
  BY <1>1 DEF Obeys
<1>6. \A o \in Retired : o \in Nat
  BY <1>1
<1>7. ASSUME NEW o \in Retired PROVE o < Oldest(Retired') + Window
  <2>1. o < Oldest(Retired) + Window /\ o \in Nat /\ Window \in Nat
    BY <1>2, <1>6, <1>7, CoreAssumption
  <2> QED BY <1>3, <1>4, <2>1
<1> QED BY <1>1, <1>5, <1>7

\* Every order that has retired after a clock edge is less than a buffer ahead
\* of the cursor before it.
LEMMA WithinBuffer ==
  ASSUME CoreInv, NEW in \in Inputs, NEW k \in 0 .. NRet, Obeys(in),
         Clock(in, k), Remember(in, k), NEW o \in Retired'
  PROVE  o < cursor + Depth
<1> DEFINE R == Retired'
           size == Cardinality(Retired')
           old == Oldest(Retired')
<1>1. R \subseteq Nat /\ IsFiniteSet(R) /\ size \in Nat
      /\ Cardinality(Retired) \in Nat /\ size <= Cardinality(Retired) + NRet
  BY RetiredGrows
<1>2. old \in 0 .. size /\ old \notin R
  BY <1>1, OldestMissing
<1>3. o < old + Window
  BY InWindow
<1>4. o > old => old < size
  BY <1>1, OldestBelowSize
<1>5. Cardinality(Retired) <= cursor + Window + NRet - 1
  BY DEF CoreInv, OrdersInv
<1>6. o \in Nat /\ o /= old
  BY <1>1, <1>2
<1>7. /\ NRet \in Nat \ {0} /\ Window \in Nat \ {0} /\ Depth \in Nat \ {0}
      /\ Depth >= 2 * (Window + NRet - 1) /\ cursor \in Nat
  BY CoreTypes DEF CoreInv
<1> HIDE DEF R, size, old
<1> QED BY <1>1, <1>2, <1>3, <1>4, <1>5, <1>6, <1>7

\* So two retired orders whose turn has not passed are in different slots.
LEMMA Apart ==
  ASSUME CoreInv, NEW o \in Nat, NEW p \in Nat, Slot(o) = Slot(p),
         o >= cursor, p >= cursor, o < cursor + Depth, p < cursor + Depth
  PROVE  o = p
<1>1. cursor \in Nat /\ Depth \in Nat
  BY CoreTypes DEF CoreInv
<1>2. ~(o < p)
  BY <1>1, SameSlot
<1>3. ~(p < o)
  BY <1>1, SameSlot
<1> QED BY <1>2, <1>3

\* What is in a valid slot: a retired packet whose turn has not passed.
LEMMA InSlot ==
  ASSUME CoreInv, NEW s \in Slots, valid[s]
  PROVE  /\ buffer[s] \in presented /\ Slot(buffer[s].order) = s
         /\ buffer[s].order \in Nat /\ buffer[s].order \in Retired
         /\ buffer[s].order >= cursor
<1>1. buffer[s] \in presented /\ Slot(buffer[s].order) = s
  BY CoreTypes DEF CoreInv, Filed
<1>2. buffer[s].order \in Nat /\ buffer[s].order \in Retired
  BY <1>1, CoreTypes DEF CoreInv, Retired
<1>3. buffer[s].order >= cursor
  BY DEF CoreInv, PacketsInv
<1> QED BY <1>1, <1>2, <1>3

\* What arrives has its turn before it.
LEMMA DrivenAhead ==
  ASSUME CoreInv, NEW in \in Inputs, Obeys(in), NEW c \in Valid(in)
  PROVE  /\ in[c].order \in Nat /\ in[c].order \in DrivenOrders(in)
         /\ in[c].order \notin Retired
         /\ in[c].order >= cursor
<1>1. in[c].order \in Nat
  BY ValidCarriesPacket
<1>2. in[c].order \in DrivenOrders(in)
  BY DEF DrivenOrders, Driven
<1>3. in[c].order \notin Retired
  BY <1>2 DEF Obeys
<1>4. cursor \in Nat /\ \A n \in 0 .. cursor - 1 : n \in Retired
  BY CoreTypes DEF CoreInv, OrdersInv
<1> QED BY <1>1, <1>2, <1>3, <1>4

\* No packet meets an occupied slot.
LEMMA NoOverrun ==
  ASSUME CoreInv, NEW in \in Inputs, NEW k \in 0 .. NRet, Obeys(in),
         Clock(in, k), Remember(in, k)
  PROVE  Overruns(in) = {}
<1> SUFFICES ASSUME NEW c \in Valid(in), valid[Slot(in[c].order)] PROVE FALSE
  BY DEF Overruns
<1> DEFINE o == in[c].order
           s == Slot(o)
<1>1. /\ o \in Nat /\ o \in Retired' /\ o \notin Retired /\ o >= cursor
  BY DrivenAhead, RetiredGrows
<1>2. s \in Slots
  BY <1>1, SlotInSlots
<1>3. /\ Slot(buffer[s].order) = s
      /\ buffer[s].order \in Nat /\ buffer[s].order \in Retired
      /\ buffer[s].order \in Retired' /\ buffer[s].order >= cursor
  BY <1>2, InSlot, RetiredGrows
<1>4. o < cursor + Depth /\ buffer[s].order < cursor + Depth
  BY <1>1, <1>3, WithinBuffer
<1>5. o = buffer[s].order
  BY <1>1, <1>3, <1>4, Apart
<1> QED BY <1>1, <1>3, <1>5

\* What leaves is the packet whose turn it is.
LEMMA InItsTurn ==
  ASSUME CoreInv, NEW in \in Inputs, NEW k \in 0 .. NRet, Obeys(in),
         Clock(in, k), Remember(in, k), NEW j \in 0 .. k - 1
  PROVE  /\ buffer[Slot(cursor + j)] \in presented
         /\ buffer[Slot(cursor + j)].order = cursor + j
         /\ cursor + j \in Retired
<1> DEFINE s == Slot(cursor + j)
           q == buffer[s].order
<1>1. cursor + j \in Nat /\ s \in Slots /\ valid[s]
  BY CoreTypes, DrainedSlots, ClockParts DEF CoreInv
<1>2. /\ buffer[s] \in presented
      /\ Slot(q) = s /\ q \in Nat /\ q \in Retired /\ q >= cursor
  BY <1>1, InSlot
<1>3. q < cursor + Depth
  BY <1>2, WithinBuffer, RetiredGrows
<1>4. cursor + j >= cursor /\ cursor + j < cursor + Depth
  BY CoreTypes DEF CoreInv
<1> HIDE DEF q
<1>5. q = cursor + j
  BY <1>1, <1>2, <1>3, <1>4, Apart
<1> QED BY <1>2, <1>5 DEF q

\* So no edge reports an error, and no two packets meet in a slot.
LEMMA StepNeverFlagged ==
  ASSUME CoreInv, NEW in \in Inputs, NEW k \in 0 .. NRet, Obeys(in),
         Clock(in, k), Remember(in, k)
  PROVE  NeverFlagged'
<1>1. ~flagged /\ ~collided
  BY DEF CoreInv, NeverFlagged
<1>2. Misorders(k) = {}
  BY InItsTurn DEF Misorders
<1>3. errcode' = NoError
  BY <1>2, NoOverrun, ClockParts DEF NextErrcode
<1>4. ~flagged'
  BY <1>1, <1>3, ClockParts, Zenon
<1>5. ASSUME NEW c \in Valid(in), NEW d \in Valid(in), c /= d,
             Slot(in[c].order) = Slot(in[d].order)
      PROVE  FALSE
  <2>1. /\ in[c].order \in Nat /\ in[c].order \in Retired' /\ in[c].order >= cursor
        /\ in[d].order \in Nat /\ in[d].order \in Retired' /\ in[d].order >= cursor
    BY DrivenAhead, RetiredGrows
  <2>2. in[c].order < cursor + Depth /\ in[d].order < cursor + Depth
    BY <2>1, WithinBuffer
  <2>3. in[c].order = in[d].order
    BY <1>5, <2>1, <2>2, Apart
  <2> QED BY <1>5, <2>3 DEF Obeys
<1>6. ~collided'
  BY <1>1, <1>5, ClockParts, Zenon
<1> QED BY <1>4, <1>6 DEF NeverFlagged

\* A retired order whose turn has come is in its slot: if the buffer stops
\* short of NRet packets, it has caught up with the core.
LEMMA StopsAtMissing ==
  ASSUME CoreInv, NEW in, NEW k \in 0 .. NRet,
         Clock(in, k), Remember(in, k), k < NRet
  PROVE  cursor + k \notin Retired
<1> SUFFICES ASSUME cursor + k \in Retired PROVE FALSE
  OBVIOUS
<1>1. PICK p \in presented : p.order = cursor + k
  BY DEF Retired
<1>2. cursor \in Nat /\ k \in Nat
  BY CoreTypes DEF CoreInv
<1>3. ~(p.order < cursor)
  BY <1>1, <1>2
<1>4. valid[Slot(cursor + k)]
  BY <1>1, <1>3 DEF CoreInv, PacketsInv, Waits
<1> QED BY <1>4, ClockParts DEF Drains

\* A clock edge keeps the invariant of the orders: it hands on NRet packets, or it
\* catches up with the oldest missing order and only a window is left.
LEMMA StepOrdersInv ==
  ASSUME CoreInv, NEW in \in Inputs, NEW k \in 0 .. NRet, Obeys(in),
         Clock(in, k), Remember(in, k)
  PROVE  OrdersInv'
<1>1. /\ NRet \in Nat \ {0} /\ Window \in Nat \ {0} /\ cursor \in Nat /\ k \in Nat
      /\ cursor' = cursor + k
  BY CoreTypes, ClockParts DEF CoreInv
<1>2. /\ IsFiniteSet(Retired) /\ Retired \subseteq Nat
      /\ \A n \in 0 .. cursor - 1 : n \in Retired
      /\ \A o \in Retired : o < Oldest(Retired) + Window
      /\ Cardinality(Retired) <= cursor + Window + NRet - 1
  BY CoreTypes DEF CoreInv, OrdersInv
<1>3. \A n \in 0 .. cursor' - 1 : n \in Retired'
  <2> SUFFICES ASSUME NEW n \in 0 .. cursor' - 1 PROVE n \in Retired
    BY RetiredGrows
  <2>1. CASE n < cursor
    BY <1>1, <1>2, <2>1
  <2>2. CASE n >= cursor
    <3> DEFINE j == n - cursor
    <3>1. j \in 0 .. k - 1 /\ n = cursor + j
      BY <1>1, <2>2
    <3> HIDE DEF j
    <3>2. cursor + j \in Retired
      BY <3>1, InItsTurn
    <3> QED BY <3>1, <3>2
  <2> QED BY <1>1, <2>1, <2>2
<1>4. Cardinality(Retired') <= cursor' + Window + NRet - 1
  <2>1. /\ Cardinality(Retired') \in Nat /\ Cardinality(Retired) \in Nat
        /\ Cardinality(Retired') <= Cardinality(Retired) + NRet
    BY RetiredGrows
  <2>2. CASE k = NRet
    BY <1>1, <1>2, <2>1, <2>2
  <2>3. CASE k < NRet
    <3>1. cursor + k \notin Retired
      BY <2>3, StopsAtMissing
    <3>2. /\ Oldest(Retired) \in Nat
          /\ \A m \in 0 .. Oldest(Retired) - 1 : m \in Retired
      BY <1>2, OldestMissing
    <3>3. Oldest(Retired) <= cursor + k
      BY <1>1, <3>1, <3>2
    <3>4. Cardinality(Retired) <= Oldest(Retired) + Window - 1
      BY <1>1, <1>2, SizeInWindow
    <3> QED BY <1>1, <2>1, <3>2, <3>3, <3>4
  <2> QED BY <1>1, <2>2, <2>3
<1> QED BY <1>3, <1>4, RetiredGrows, InWindow DEF OrdersInv

\* No order comes twice, so no packet shares its order with another.
LEMMA StepUnique ==
  ASSUME CoreInv, NEW in \in Inputs, NEW k \in 0 .. NRet, Obeys(in),
         Clock(in, k), Remember(in, k)
  PROVE  Stream!Unique(presented')
<1> SUFFICES ASSUME NEW p \in presented', NEW q \in presented', p.order = q.order
             PROVE  p = q
  BY DEF Stream!Unique
<1>1. presented' = presented \cup Driven(in)
  BY ClockParts
<1>2. /\ \A r \in presented : r.order \in Retired
      /\ \A r \in Driven(in) : r.order \notin Retired
  BY DEF Retired, Obeys, DrivenOrders
<1>3. CASE p \in presented /\ q \in presented
  BY <1>3 DEF CoreInv, PacketsInv, Stream!Unique
<1>4. CASE p \in Driven(in) /\ q \in Driven(in)
  BY <1>4 DEF Driven, Obeys
<1> QED BY <1>1, <1>2, <1>3, <1>4

\* A clock edge keeps the invariant of the packets.
LEMMA StepPacketsInv ==
  ASSUME CoreInv, NEW in \in Inputs, NEW k \in 0 .. NRet, Obeys(in),
         Clock(in, k), Remember(in, k)
  PROVE  PacketsInv'
<1>1. cursor \in Nat /\ k \in Nat /\ cursor' = cursor + k /\ TypeOK
  BY CoreTypes, ClockParts DEF CoreInv
<1>2. ~flagged' /\ ~collided'
  BY StepNeverFlagged DEF NeverFlagged
<1>3. \A p \in presented' : p.order < cursor' \/ Waits(p)'
  <2> SUFFICES ASSUME NEW p \in presented', ~Waits(p)' PROVE p.order < cursor'
    BY DEF Waits, Slot
  <2>1. p \in presented
    BY <1>1, <1>2, Arrival, ClockParts
  <2>2. p \in Packet /\ p.order \in Nat
    BY <2>1, CoreTypes DEF CoreInv
  <2>3. CASE p.order < cursor
    BY <1>1, <2>2, <2>3
  <2>4. CASE Waits(p)
    <3>1. PICK j \in 0 .. k - 1 : Slot(cursor + j) = Slot(p.order)
      BY <1>1, <1>2, <2>2, <2>4, Waiting
    <3>2. buffer[Slot(cursor + j)] = p
      BY <2>4, <3>1 DEF Waits
    <3>3. p.order = cursor + j
      BY <3>2, InItsTurn
    <3> QED BY <1>1, <3>3
  <2> QED BY <2>1, <2>3, <2>4 DEF CoreInv, PacketsInv
<1>4. \A s \in Slots : valid'[s] => buffer'[s].order >= cursor'
  <2> SUFFICES ASSUME NEW s \in Slots, valid'[s] PROVE buffer'[s].order >= cursor'
    BY DEF Slots
  <2>1. CASE FilesInto(in, s) = {}
    <3>1. buffer'[s] = buffer[s] /\ valid[s] /\ \A j \in 0 .. k - 1 : Slot(cursor + j) /= s
      BY <2>1, ClockParts DEF NextBuffer, NextValid
    <3>2. /\ Slot(buffer[s].order) = s
          /\ buffer[s].order \in Nat /\ buffer[s].order >= cursor
      BY <3>1, InSlot
    <3>3. ASSUME buffer[s].order < cursor + k PROVE FALSE
      <4> DEFINE j == buffer[s].order - cursor
      <4>1. j \in 0 .. k - 1 /\ cursor + j = buffer[s].order
        BY <1>1, <3>2, <3>3
      <4> HIDE DEF j
      <4>2. Slot(cursor + j) /= s
        BY <3>1, <4>1
      <4> QED BY <3>2, <4>1, <4>2
    <3> QED BY <1>1, <3>1, <3>2, <3>3
  <2>2. CASE FilesInto(in, s) /= {}
    <3>1. PICK c \in FilesInto(in, s) : buffer'[s] = in[c]
      BY <2>2, FiledPacket
    <3>2. c \in Valid(in)
      BY DEF FilesInto
    <3> DEFINE o == in[c].order
    <3>3. o \in Nat /\ o \notin Retired /\ o >= cursor
      BY <3>2, DrivenAhead
    <3> HIDE DEF o
    <3>4. ASSUME o < cursor + k PROVE FALSE
      <4> DEFINE j == o - cursor
      <4>1. j \in 0 .. k - 1 /\ cursor + j = o
        BY <1>1, <3>3, <3>4
      <4> HIDE DEF j
      <4>2. cursor + j \in Retired
        BY <4>1, InItsTurn
      <4> QED BY <3>3, <4>1, <4>2
    <3> QED BY <1>1, <3>1, <3>3, <3>4 DEF o
  <2> QED BY <2>1, <2>2
<1> QED BY <1>3, <1>4, StepUnique DEF PacketsInv

\* So a clock edge keeps the invariant,
LEMMA StepCoreInv ==
  ASSUME CoreInv, NEW in \in Inputs, CoreStep(in)
  PROVE  CoreInv'
<1>1. PICK k \in 0 .. NRet : Clock(in, k) /\ Remember(in, k)
  BY DEF CoreStep, Step
<1>2. RobInv'
  BY <1>1, StepRobInv DEF CoreInv
<1> QED BY <1>1, <1>2, StepOrdersInv, StepPacketsInv, StepNeverFlagged DEF CoreInv, CoreStep

\* which holds after the first reset
LEMMA InitCoreInv == Init => CoreInv
<1> SUFFICES ASSUME Init PROVE CoreInv
  OBVIOUS
<1>1. RobInv
  BY InitRobInv
<1>2. presented = {} /\ cursor = 0 /\ ~flagged /\ ~collided /\ \A s \in Slots : ~valid[s]
  BY DEF Init
<1>3. Retired = {}
  BY <1>2 DEF Retired
<1>4. OrdersInv
  BY <1>2, <1>3, FS_EmptySet, RobAssumption, CoreAssumption DEF OrdersInv
<1>5. PacketsInv
  BY <1>2 DEF PacketsInv, Stream!Unique
<1> QED BY <1>1, <1>2, <1>4, <1>5 DEF CoreInv, NeverFlagged

\* is kept while nothing happens
LEMMA StutterCoreInv ==
  ASSUME CoreInv, UNCHANGED vars
  PROVE  CoreInv'
<1>1. RobInv'
  BY StutterRobInv DEF CoreInv
<1>2. Retired' = Retired
  BY DEF vars, history, Retired
<1>3. OrdersInv'
  BY <1>2 DEF CoreInv, OrdersInv, vars, hw
<1>4. PacketsInv' /\ NeverFlagged'
  BY DEF CoreInv, PacketsInv, NeverFlagged, Waits, vars, hw, history
<1> QED BY <1>1, <1>3, <1>4 DEF CoreInv

\* and therefore in every reachable state of the buffer behind an obedient core.
THEOREM CoreCorrect == CoreSpec => []CoreInv
<1>1. CoreInv /\ [CoreNext]_vars => CoreInv'
  <2> SUFFICES ASSUME CoreInv, [CoreNext]_vars PROVE CoreInv'
    OBVIOUS
  <2>1. CASE CoreNext
    BY <2>1, StepCoreInv DEF CoreNext
  <2>2. CASE UNCHANGED vars
    BY <2>2, StutterCoreInv
  <2> QED BY <2>1, <2>2
<1> QED BY <1>1, InitCoreInv, PTL DEF CoreSpec

-----------------------------------------------------------------------------
\* No false alarm: if Depth is at least 2 * (Window + NRet - 1), no error is
\* reported and no two packets meet in a slot, whatever a core does that obeys
\* RVFI within its window.
THEOREM NoFalseAlarm == CoreSpec => []NeverFlagged
<1>1. CoreInv => NeverFlagged
  BY DEF CoreInv
<1> QED BY <1>1, CoreCorrect, PTL

\* A clock edge of the buffer is a step of the stream.
LEMMA StepRefines ==
  ASSUME CoreInv, NEW in \in Inputs, CoreStep(in)
  PROVE  Stream!SNext
<1>1. PICK k \in 0 .. NRet : Clock(in, k) /\ Remember(in, k)
  BY DEF CoreStep, Step
<1>2. Obeys(in) /\ TypeOK /\ Len(delivered) = cursor /\ cursor \in Nat
  BY CoreTypes DEF CoreInv, CoreStep, CursorCounts
<1>3. Stream!Send
  <2>1. presented' \subseteq Packet
    BY StepCoreInv, CoreTypes DEF CoreInv, RobInv, TypeOK
  <2>2. presented \subseteq presented'
    BY <1>1, ClockParts
  <2> QED BY <1>1, <1>2, <2>1, <2>2, StepUnique DEF Stream!Send
<1>4. \A j \in 0 .. k - 1 : Stream!Ready(Len(delivered) + j)
  BY <1>1, <1>2, InItsTurn DEF Stream!Ready
<1>5. k < NRet => ~Stream!Ready(Len(delivered) + k)
  BY <1>1, <1>2, StopsAtMissing DEF Stream!Ready, Retired
<1>6. delivered' = delivered \o [i \in 1 .. k |->
                     CHOOSE p \in presented : p.order = Len(delivered) + (i - 1)]
  <2>1. ASSUME NEW i \in 1 .. k
        PROVE  out'[i - 1] = CHOOSE p \in presented : p.order = Len(delivered) + (i - 1)
    <3> DEFINE j == i - 1
               b == buffer[Slot(cursor + j)]
    <3>1. j \in 0 .. k - 1 /\ j \in Channels /\ j < k
      BY CoreTypes DEF CoreInv, Channels
    <3> HIDE DEF j
    <3>2. out'[j] = b
      BY <1>1, <3>1, ClockParts DEF NextOut
    <3>3. b \in presented /\ b.order = cursor + j
      BY <1>1, <1>2, <3>1, InItsTurn
    <3> HIDE DEF b
    <3>4. \A p \in presented : p.order = cursor + j => p = b
      BY <3>3 DEF CoreInv, PacketsInv, Stream!Unique
    <3>5. b = CHOOSE p \in presented : p.order = cursor + j
      BY <3>3, <3>4
    <3> QED BY <1>2, <3>2, <3>5 DEF j
  <2>2. Emitted(k) = [i \in 1 .. k |->
                     CHOOSE p \in presented : p.order = Len(delivered) + (i - 1)]
    BY <2>1 DEF Emitted
  <2> QED BY <1>1, <2>2, ClockParts
<1>7. Stream!Leave(k)
  BY <1>4, <1>5, <1>6 DEF Stream!Leave
<1> QED BY <1>3, <1>7 DEF Stream!SNext

\* The buffer implements the in-order stream (InOrderStream): for every depth
\* that the assumption admits, the packets of the core leave in order, as many
\* in each clock as have become consecutive, up to one on each channel.
THEOREM ImplementsStream == CoreSpec => RefinesStream
<1>1. Init => Stream!SInit
  BY DEF Init, Stream!SInit
<1>2. CoreInv /\ [CoreNext]_vars => [Stream!SNext]_(Stream!sVars)
  <2> SUFFICES ASSUME CoreInv, [CoreNext]_vars PROVE [Stream!SNext]_(Stream!sVars)
    OBVIOUS
  <2>1. CASE CoreNext
    BY <2>1, StepRefines DEF CoreNext
  <2>2. CASE UNCHANGED vars
    BY <2>2 DEF vars, history, Stream!sVars
  <2> QED BY <2>1, <2>2
<1> QED BY <1>1, <1>2, CoreCorrect, PTL DEF CoreSpec, RefinesStream, Stream!SSpec

-----------------------------------------------------------------------------
(***************************************************************************)
(* The whole monitor.                                                      *)
(***************************************************************************)
\* An instruction that is wrong has retired.
Fault == \E o \in Retired : Faulty(o)

\* The core drives instructions of its program.
FromProgram ==
  /\ program \in Programs
  /\ \A p \in presented : p.data = program[p.order]

\* The output channels carry the k instructions before the cursor.
Carries(k) ==
  /\ k <= cursor
  /\ \A c \in Channels :
       out[c] = IF c < k THEN [order |-> cursor - k + c, data |-> program[cursor - k + c]]
                ELSE NoPacket

\* The pc registers tell of instruction n - 1 of program p.
PcAt(p, n, known, trap, pc) ==
  IF n = 0 THEN ~known
  ELSE known = ~p[n - 1].trap /\ trap = p[n - 1].trap /\ pc = p[n - 1].npc

\* Before instruction n of program p, register r holds v: the last that the
\* program wrote there, or the 0 that x0 starts with.
Holds(p, n, r, v) ==
  \/ \E w \in 0 .. n - 1 : /\ p[w].rd = r /\ p[w].wdata = v
                           /\ \A x \in w + 1 .. n - 1 : p[x].rd /= r
  \/ r = 0 /\ v = 0
RegsAt(p, n, known, regs) == \A r \in known : Holds(p, n, r, regs[r])

\* No error register is set but after a fault.
NoneRaised ==
  /\ \A c \in Channels : ch_errcode[c] = 0 /\ errcode_p[c] = 0 /\ errcode_r[c] = 0
  /\ reported = {}

\* The pc and register checks have seen what left the buffer before.
InStep(k) ==
  /\ Carries(k)
  /\ PcAt(program, cursor - k, shadow_pc_valid, shadow_pc_trap, shadow_pc)
  /\ RegsAt(program, cursor - k, shadow_xregs_valid, shadow_xregs)
  /\ shadow_xregs_valid \subseteq Regs

MonitorInv ==
  /\ CoreInv /\ FromProgram
  /\ errcode = NoError
  /\ \E k \in 0 .. NRet : InStep(k)
  /\ NoneRaised \/ Fault

-----------------------------------------------------------------------------
\* What the program holds.
LEMMA ProgramTypes ==
  ASSUME FromProgram, NEW o \in Orders
  PROVE  /\ program[o] \in Data
         /\ program[o].trap \in BOOLEAN /\ program[o].intr \in BOOLEAN
         /\ program[o].pc \in Pcs /\ program[o].npc \in Pcs
         /\ program[o].addr \in [{"rs1", "rs2"} -> Regs]
         /\ program[o].rdata \in [{"rs1", "rs2"} -> Values]
         /\ program[o].rd \in Regs /\ program[o].wdata \in Values
<1>1. program \in [Orders -> Data]
  BY MonitorAssumption DEF FromProgram
<1>2. program[o] \in Data
  BY <1>1
<1> QED BY <1>2, MonitorAssumption

\* All orders before the cursor have retired.
LEMMA PastOrders ==
  ASSUME CoreInv
  PROVE  /\ cursor \in Nat /\ NRet \in Nat \ {0}
         /\ \A o \in 0 .. cursor - 1 : o \in Retired /\ o \in Orders /\ o \in Nat
<1>1. cursor \in Nat /\ NRet \in Nat \ {0} /\ presented \subseteq Packet
  BY CoreTypes DEF CoreInv
<1>2. \A o \in 0 .. cursor - 1 : o \in Retired
  BY DEF CoreInv, OrdersInv
<1>3. Retired \subseteq Orders
  BY <1>1 DEF Retired, Packet
<1> QED BY <1>1, <1>2, <1>3

\* What the output channels show the pc check.
LEMMA PcView ==
  ASSUME CoreInv, FromProgram, NEW k \in 0 .. NRet, Carries(k)
  PROVE  /\ PcCheck!Valid = 0 .. k - 1
         /\ \A c \in 0 .. k - 1 :
              /\ c \in Channels /\ PcCheck!Below(c) = 0 .. c - 1
              /\ [d \in Channels |-> Ro(d, PcPort(out[d]))][c]
                   = PcPort([order |-> cursor - k + c, data |-> program[cursor - k + c]])
<1>1. cursor \in Nat /\ NRet \in Nat /\ k <= cursor
  BY PastOrders DEF Carries
<1>2. ASSUME NEW c \in 0 .. k - 1
      PROVE  /\ c \in Channels
             /\ out[c] = [order |-> cursor - k + c, data |-> program[cursor - k + c]]
             /\ Ro(c, PcPort(out[c])) = PcPort(out[c])
             /\ PcPort(out[c]) /= NoInsn
  <2> DEFINE o == cursor - k + c
             pkt == [order |-> o, data |-> program[o]]
  <2>1. c \in Channels /\ c < k /\ o \in 0 .. cursor - 1
    BY <1>1 DEF Channels
  <2>2. out[c] = pkt
    BY <2>1 DEF Carries
  <2>3. o \in Orders
    BY <2>1, PastOrders
  <2> HIDE DEF o
  <2>4. program[o] \in Data
    BY <2>3, ProgramTypes
  <2>5. pkt \in Packet
    BY <2>3, <2>4 DEF Packet
  <2>6. out[c] /= NoPacket
    BY <2>2, <2>5, RobAssumption
  <2>7. PcPort(pkt) \in [pc : Pcs, npc : Pcs, intr : BOOLEAN, trap : BOOLEAN]
    BY <2>3, ProgramTypes DEF PcPort
  <2>8. PcPort(pkt) /= NoInsn
    BY <2>7, MonitorAssumption
  <2> QED BY <2>1, <2>2, <2>6, <2>8 DEF Ro, o
<1>3. ASSUME NEW c \in Channels, ~(c < k) PROVE Ro(c, PcPort(out[c])) = NoInsn
  BY <1>3 DEF Carries, Ro
<1>4. ASSUME NEW c \in Channels
      PROVE  c \in PcCheck!Valid <=> c \in 0 .. k - 1
  <2>1. c \in PcCheck!Valid <=> Ro(c, PcPort(out[c])) /= NoInsn
    BY DEF PcCheck!Valid, PcCheck!Channels, Channels
  <2>2. c \in 0 .. k - 1 <=> c < k
    BY <1>1 DEF Channels
  <2> QED BY <1>2, <1>3, <2>1, <2>2
<1>5. PcCheck!Valid = 0 .. k - 1
  <2>1. PcCheck!Valid \subseteq Channels /\ 0 .. k - 1 \subseteq Channels
    BY <1>2 DEF PcCheck!Valid, PcCheck!Channels, Channels
  <2> QED BY <1>4, <2>1
<1>6. \A c \in 0 .. k - 1 : PcCheck!Below(c) = 0 .. c - 1
  BY <1>1, <1>5 DEF PcCheck!Below
<1> QED BY <1>2, <1>5, <1>6

\* The last of the first k channels.
LEMMA LastOfFirst ==
  ASSUME NEW k \in Nat, k > 0
  PROVE  /\ PcCheck!Last(0 .. k - 1) = k - 1
         /\ 0 .. k - 1 /= {}
<1> DEFINE cs == 0 .. k - 1
<1>1. k - 1 \in cs /\ \A d \in cs : d <= k - 1
  OBVIOUS
<1>2. \A c \in cs : (\A d \in cs : d <= c) => c = k - 1
  BY <1>1
<1>3. PcCheck!Last(cs) = k - 1
  <2> HIDE DEF cs
  <2> QED BY <1>1, <1>2 DEF PcCheck!Last
<1> QED BY <1>1, <1>3

-----------------------------------------------------------------------------
\* A clock edge moves the pc registers on to the instruction before the cursor.
LEMMA PcMoves ==
  ASSUME CoreInv, FromProgram, NEW k \in 0 .. NRet, Carries(k),
         PcAt(program, cursor - k, shadow_pc_valid, shadow_pc_trap, shadow_pc),
         PcCheck!Check
  PROVE  PcAt(program, cursor, shadow_pc_valid', shadow_pc_trap', shadow_pc')
<1>1. cursor \in Nat /\ NRet \in Nat /\ k \in Nat /\ k <= cursor
  BY PastOrders DEF Carries
<1>2. CASE k = 0
  <2>1. PcCheck!Valid = {} /\ cursor - k = cursor
    BY <1>1, <1>2, PcView
  <2>2. UNCHANGED <<shadow_pc_valid, shadow_pc_trap, shadow_pc>>
    BY <2>1 DEF PcCheck!Check
  <2> QED BY <2>1, <2>2
<1>3. CASE k /= 0
  <2> DEFINE r == [c \in Channels |-> Ro(c, PcPort(out[c]))]
             last == program[cursor - 1]
  <2>1. /\ PcCheck!Valid = 0 .. k - 1 /\ PcCheck!Valid /= {}
        /\ PcCheck!Last(PcCheck!Valid) = k - 1
    <3>1. PcCheck!Valid = 0 .. k - 1
      BY PcView
    <3>2. PcCheck!Last(0 .. k - 1) = k - 1 /\ 0 .. k - 1 /= {}
      BY <1>1, <1>3, LastOfFirst
    <3> QED BY <3>1, <3>2
  <2>2. k - 1 \in 0 .. k - 1 /\ cursor - k + (k - 1) = cursor - 1
    BY <1>1, <1>3
  <2>3. r[k - 1] = PcPort([order |-> cursor - 1, data |-> last])
    BY <2>2, PcView
  <2>4. /\ shadow_pc_valid' = ~r[k - 1].trap
        /\ shadow_pc_trap' = r[k - 1].trap
        /\ shadow_pc' = r[k - 1].npc
    BY <2>1, Zenon DEF PcCheck!Check, PcCheck!Channels, Channels
  <2>5. r[k - 1].trap = last.trap /\ r[k - 1].npc = last.npc
    BY <2>3 DEF PcPort
  <2> HIDE DEF r
  <2>6. cursor /= 0
    BY <1>1, <1>3
  <2> QED BY <2>4, <2>5, <2>6, Zenon DEF PcAt
<1> QED BY <1>2, <1>3

\* What the pc check reports is wrong by the program.
LEMMA PcErrorIsFault ==
  ASSUME CoreInv, FromProgram, NEW k \in 0 .. NRet, Carries(k),
         PcAt(program, cursor - k, shadow_pc_valid, shadow_pc_trap, shadow_pc),
         NEW c \in 0 .. k - 1, PcCheck!Error(c) /= 0
  PROVE  Faulty(cursor - k + c)
<1> DEFINE r == [d \in Channels |-> Ro(d, PcPort(out[d]))]
           n == cursor - k
           o == n + c
<1>1. /\ cursor \in Nat /\ k \in Nat /\ k <= cursor
      /\ n \in Nat /\ c \in Nat /\ c < k /\ o \in 0 .. cursor - 1 /\ o \in Nat
  BY PastOrders DEF Carries
<1>2. \A x \in 0 .. cursor - 1 : x \in Orders /\ program[x].trap \in BOOLEAN
  BY PastOrders, ProgramTypes
<1>3. r[c] = PcPort([order |-> o, data |-> program[o]])
  BY PcView
<1>4. r[c].pc = program[o].pc /\ r[c].intr = program[o].intr /\ r[c].trap = program[o].trap
  BY <1>3 DEF PcPort
<1>5. /\ PcCheck!ShadowValid(c) /\ ~r[c].intr
      /\ PcCheck!ShadowTrap(c) \/ PcCheck!ShadowRdata(c) /= r[c].pc
  BY DEF PcCheck!Error, PcCheck!PcMismatch, PcCheck!IntrExpected,
         PcCheck!Channels, Channels
<1>6. PcCheck!Below(c) = 0 .. c - 1
  BY PcView
<1>7. CASE c = 0
  <2>1. PcCheck!Below(c) = {}
    BY <1>6, <1>7
  <2>2. /\ shadow_pc_valid /\ ~program[o].intr
        /\ shadow_pc_trap \/ shadow_pc /= program[o].pc
    BY <1>4, <1>5, <2>1 DEF PcCheck!ShadowValid, PcCheck!ShadowTrap, PcCheck!ShadowRdata
  <2>3. o = n /\ n /= 0
    <3>1. o = n
      BY <1>1, <1>7
    <3>2. n /= 0
      BY <2>2 DEF PcAt
    <3> QED BY <3>1, <3>2
  <2>4. o - 1 \in 0 .. cursor - 1
    BY <1>1, <2>3
  <2>5. /\ shadow_pc_valid = ~program[o - 1].trap
        /\ shadow_pc_trap = program[o - 1].trap
        /\ shadow_pc = program[o - 1].npc
    BY <2>3 DEF PcAt
  <2>6. o - 1 \in Orders
    BY <1>2, <2>4
  <2>7. Faulty(o)
    <3> HIDE DEF o, n
    <3> QED BY <2>2, <2>5, <2>6 DEF Faulty, WrongPc, NoHandler
  <2> QED BY <2>7
<1>8. CASE c /= 0
  <2>1. /\ PcCheck!Below(c) /= {} /\ PcCheck!Last(PcCheck!Below(c)) = c - 1
        /\ c - 1 \in 0 .. k - 1 /\ n + (c - 1) = o - 1 /\ o - 1 \in 0 .. cursor - 1
    BY <1>1, <1>6, <1>8, LastOfFirst
  <2>2. r[c - 1] = PcPort([order |-> o - 1, data |-> program[o - 1]])
    BY <2>1, PcView, ZenonT(120)
  <2>3. r[c - 1].npc = program[o - 1].npc
    BY <2>2 DEF PcPort
  <2>4. /\ PcCheck!ShadowValid(c) = ~r[c].trap
        /\ PcCheck!ShadowTrap(c) = r[c].trap
        /\ PcCheck!ShadowRdata(c) = r[c - 1].npc
    BY <2>1, Zenon DEF PcCheck!ShadowValid, PcCheck!ShadowTrap, PcCheck!ShadowRdata,
                       PcCheck!Channels, Channels
  <2>5. ~program[o].intr /\ program[o - 1].npc /= program[o].pc
    BY <1>4, <1>5, <2>3, <2>4
  <2>6. o - 1 \in Orders
    BY <1>2, <2>1
  <2>7. Faulty(o)
    <3> HIDE DEF o, n
    <3> QED BY <2>5, <2>6 DEF Faulty, WrongPc, NoHandler
  <2> QED BY <2>7
<1> QED BY <1>7, <1>8

-----------------------------------------------------------------------------
\* What the output channels show the register check.
RegPorts == [c \in Channels |-> Ro(c, RegPort(out[c]))]

LEMMA RegView ==
  ASSUME CoreInv, FromProgram, NEW k \in 0 .. NRet, Carries(k)
  PROVE  /\ RegCheck!Valid(RegPorts) = 0 .. k - 1
         /\ \A c \in 0 .. k - 1 :
              /\ c \in Channels
              /\ RegPorts[c].rd = program[cursor - k + c].rd
              /\ RegPorts[c].wdata = program[cursor - k + c].wdata
              /\ RegPorts[c].addr = program[cursor - k + c].addr
              /\ RegPorts[c].rdata = program[cursor - k + c].rdata
<1>1. cursor \in Nat /\ NRet \in Nat /\ k <= cursor
  BY PastOrders DEF Carries
<1>2. ASSUME NEW c \in 0 .. k - 1
      PROVE  /\ c \in Channels
             /\ RegPorts[c] = RegPort([order |-> cursor - k + c,
                                       data |-> program[cursor - k + c]])
             /\ RegPorts[c] /= NoInsn
  <2> DEFINE o == cursor - k + c
             pkt == [order |-> o, data |-> program[o]]
  <2>1. c \in Channels /\ c < k /\ o \in 0 .. cursor - 1
    BY <1>1 DEF Channels
  <2>2. out[c] = pkt
    BY <2>1 DEF Carries
  <2>3. o \in Orders
    BY <2>1, PastOrders
  <2> HIDE DEF o
  <2>4. program[o] \in Data
    BY <2>3, ProgramTypes
  <2>5. pkt \in Packet
    BY <2>3, <2>4 DEF Packet
  <2>6. out[c] /= NoPacket
    BY <2>2, <2>5, RobAssumption
  <2>7. RegPort(pkt) \in [addr : [{"rs1", "rs2"} -> Regs], rdata : [{"rs1", "rs2"} -> Values],
                          rd : Regs, wdata : Values]
    BY <2>3, ProgramTypes DEF RegPort
  <2>8. RegPort(pkt) /= NoInsn
    BY <2>7, MonitorAssumption
  <2>9. RegPorts[c] = RegPort(out[c])
    BY <2>1, <2>6 DEF RegPorts, Ro
  <2> QED BY <2>1, <2>2, <2>8, <2>9 DEF o
<1>3. ASSUME NEW c \in Channels, ~(c < k) PROVE RegPorts[c] = NoInsn
  <2>1. out[c] = NoPacket
    BY <1>3 DEF Carries
  <2> QED BY <2>1 DEF Ro, RegPorts
<1>4. ASSUME NEW c \in Channels
      PROVE  c \in RegCheck!Valid(RegPorts) <=> c \in 0 .. k - 1
  <2>1. c \in RegCheck!Valid(RegPorts) <=> RegPorts[c] /= NoInsn
    BY DEF RegCheck!Valid, RegCheck!Channels, Channels
  <2>2. c \in 0 .. k - 1 <=> c < k
    BY <1>1 DEF Channels
  <2> QED BY <1>2, <1>3, <2>1, <2>2
<1>5. RegCheck!Valid(RegPorts) = 0 .. k - 1
  <2>1. RegCheck!Valid(RegPorts) \subseteq Channels /\ 0 .. k - 1 \subseteq Channels
    BY <1>2 DEF RegCheck!Valid, RegCheck!Channels, Channels
  <2> QED BY <1>4, <2>1
<1>6. ASSUME NEW c \in 0 .. k - 1
      PROVE  /\ RegPorts[c].rd = program[cursor - k + c].rd
             /\ RegPorts[c].wdata = program[cursor - k + c].wdata
             /\ RegPorts[c].addr = program[cursor - k + c].addr
             /\ RegPorts[c].rdata = program[cursor - k + c].rdata
  <2> DEFINE pkt == [order |-> cursor - k + c, data |-> program[cursor - k + c]]
  <2>1. RegPorts[c] = RegPort(pkt)
    BY <1>2
  <2>2. pkt.data = program[cursor - k + c]
    OBVIOUS
  <2> HIDE DEF pkt
  <2> QED BY <2>1, <2>2 DEF RegPort
<1> QED BY <1>2, <1>5, <1>6

\* The last of several channels.
LEMMA LastRegChannel ==
  ASSUME NEW cs, cs \subseteq Channels, cs /= {}
  PROVE  RegCheck!Last(cs) \in cs /\ \A d \in cs : d <= RegCheck!Last(cs)
<1>1. NRet \in Nat /\ cs \subseteq 0 .. NRet - 1
  BY RobAssumption DEF Channels
<1>2. \E c \in cs : \A d \in cs : d <= c
  BY <1>1, GreatestElement
<1> QED BY <1>2 DEF RegCheck!Last

\* What a channel is told of a register, by a lower channel or the shadow
\* registers, is what the program holds there.
LEMMA TellsWhatHolds ==
  ASSUME CoreInv, FromProgram, NEW k \in 0 .. NRet, Carries(k),
         RegsAt(program, cursor - k, shadow_xregs_valid, shadow_xregs),
         NEW c \in 0 .. k, NEW r, NEW F,
         F = {i \in RegCheck!Writers(RegPorts, r) : i < c}
  PROVE  /\ F /= {} =>
              Holds(program, cursor - k + c, r, RegPorts[RegCheck!Last(F)].wdata)
         /\ F = {} /\ r \in shadow_xregs_valid =>
              Holds(program, cursor - k + c, r, shadow_xregs[r])
<1> DEFINE n == cursor - k
           m == n + c
<1>1. /\ cursor \in Nat /\ k \in Nat /\ k <= cursor /\ n \in Nat /\ c \in Nat /\ c <= k
      /\ m \in Nat
  BY PastOrders DEF Carries
<1>2. /\ RegCheck!Writers(RegPorts, r) = {i \in 0 .. k - 1 : RegPorts[i].rd = r}
      /\ \A i \in 0 .. k - 1 : i \in Channels /\ RegPorts[i].rd = program[n + i].rd
                               /\ RegPorts[i].wdata = program[n + i].wdata
  BY RegView DEF RegCheck!Writers
<1>3. /\ F \subseteq 0 .. c - 1 /\ F \subseteq Channels
      /\ \A i \in 0 .. c - 1 : i \in F <=> program[n + i].rd = r
  <2>1. \A i \in 0 .. c - 1 : i \in 0 .. k - 1 /\ i < c
    BY <1>1
  <2>2. \A i \in 0 .. k - 1 : i < c => i \in 0 .. c - 1
    BY <1>1
  <2> HIDE DEF n
  <2> QED BY <1>2, <2>1, <2>2
<1> HIDE DEF n
<1>4. CASE F /= {}
  <2> DEFINE l == RegCheck!Last(F)
             w == n + l
  <2>1. l \in F /\ \A d \in F : d <= l
    BY <1>3, <1>4, LastRegChannel
  <2>2. l \in 0 .. c - 1 /\ l \in 0 .. k - 1 /\ program[w].rd = r
    BY <1>1, <1>3, <2>1
  <2>3. RegPorts[l].wdata = program[w].wdata
    BY <1>2, <2>2
  <2> HIDE DEF l
  <2>4. w \in 0 .. m - 1
    BY <1>1, <2>2
  <2>5. ASSUME NEW x \in w + 1 .. m - 1 PROVE program[x].rd /= r
    <3> DEFINE i == x - n
    <3>1. i \in 0 .. c - 1 /\ x = n + i /\ ~(i <= l)
      BY <1>1, <2>2
    <3> HIDE DEF i
    <3>2. i \notin F
      BY <2>1, <3>1
    <3> QED BY <1>3, <3>1, <3>2
  <2>6. Holds(program, m, r, RegPorts[l].wdata)
    <3> HIDE DEF w, m
    <3> QED BY <2>2, <2>3, <2>4, <2>5 DEF Holds
  <2> QED BY <1>4, <2>6 DEF l, n
<1>5. CASE F = {}
  <2> SUFFICES ASSUME r \in shadow_xregs_valid PROVE Holds(program, m, r, shadow_xregs[r])
    BY <1>5 DEF n
  <2>1. Holds(program, n, r, shadow_xregs[r])
    BY DEF RegsAt, n
  <2>2. CASE \E w \in 0 .. n - 1 :
               /\ program[w].rd = r /\ program[w].wdata = shadow_xregs[r]
               /\ \A x \in w + 1 .. n - 1 : program[x].rd /= r
    <3>1. PICK w \in 0 .. n - 1 :
               /\ program[w].rd = r /\ program[w].wdata = shadow_xregs[r]
               /\ \A x \in w + 1 .. n - 1 : program[x].rd /= r
      BY <2>2
    <3>2. w \in 0 .. m - 1
      BY <1>1
    <3>3. ASSUME NEW x \in w + 1 .. m - 1 PROVE program[x].rd /= r
      <4>1. CASE x < n
        <5>1. x \in w + 1 .. n - 1
          BY <1>1, <4>1
        <5> QED BY <3>1, <5>1
      <4>2. CASE ~(x < n)
        <5> DEFINE i == x - n
        <5>1. i \in 0 .. c - 1 /\ x = n + i
          BY <1>1, <4>2
        <5> HIDE DEF i
        <5> QED BY <1>3, <1>5, <5>1
      <4> QED BY <4>1, <4>2
    <3> HIDE DEF m
    <3> QED BY <3>1, <3>2, <3>3 DEF Holds
  <2>3. CASE r = 0 /\ shadow_xregs[r] = 0
    BY <2>3 DEF Holds
  <2> QED BY <2>1, <2>2, <2>3 DEF Holds
<1> QED BY <1>4, <1>5

\* A clock edge moves the shadow registers on to the cursor.
LEMMA RegsMove ==
  ASSUME CoreInv, FromProgram, NEW k \in 0 .. NRet, Carries(k),
         RegsAt(program, cursor - k, shadow_xregs_valid, shadow_xregs),
         shadow_xregs_valid \subseteq Regs,
         RegCheck!Check(RegPorts)
  PROVE  /\ RegsAt(program, cursor, shadow_xregs_valid', shadow_xregs')
         /\ shadow_xregs_valid' \subseteq Regs
<1>1. cursor \in Nat /\ k \in 0 .. k /\ cursor - k + k = cursor /\ k \in Nat /\ k <= cursor
  BY PastOrders DEF Carries
<1>2. /\ shadow_xregs_valid'
           = shadow_xregs_valid \cup {RegPorts[c].rd : c \in RegCheck!Valid(RegPorts)}
      /\ shadow_xregs' = [r \in Regs |-> RegCheck!NextXreg(RegPorts, r)]
  BY DEF RegCheck!Check
<1>3. RegCheck!Valid(RegPorts) = 0 .. k - 1
  BY RegView
<1>4. shadow_xregs_valid' \subseteq Regs
  <2> SUFFICES ASSUME NEW c \in 0 .. k - 1 PROVE RegPorts[c].rd \in Regs
    BY <1>2, <1>3
  <2>1. cursor - k + c \in 0 .. cursor - 1
    BY <1>1
  <2>2. program[cursor - k + c].rd \in Regs
    BY <2>1, PastOrders, ProgramTypes
  <2> QED BY <2>2, RegView
<1>5. ASSUME NEW r \in shadow_xregs_valid' PROVE Holds(program, cursor, r, shadow_xregs'[r])
  <2> DEFINE W == RegCheck!Writers(RegPorts, r)
  <2>1. W = {i \in W : i < k}
    <3>1. \A i \in W : i < k
      BY <1>1, <1>3 DEF RegCheck!Writers
    <3> QED BY <3>1
  <2>2. /\ W /= {} => Holds(program, cursor - k + k, r, RegPorts[RegCheck!Last(W)].wdata)
        /\ W = {} /\ r \in shadow_xregs_valid =>
             Holds(program, cursor - k + k, r, shadow_xregs[r])
    BY <1>1, <2>1, TellsWhatHolds
  <2>3. shadow_xregs'[r] = IF W = {} THEN shadow_xregs[r]
                           ELSE RegPorts[RegCheck!Last(W)].wdata
    BY <1>2, <1>4 DEF RegCheck!NextXreg
  <2>4. W = {} => r \in shadow_xregs_valid
    BY <1>2 DEF RegCheck!Writers
  <2> HIDE DEF W
  <2>5. cursor - k + k = cursor
    BY <1>1
  <2> QED BY <2>2, <2>3, <2>4, <2>5
<1> QED BY <1>4, <1>5 DEF RegsAt

\* An instruction that reads something else than the program holds is wrong, or
\* one before it has written x0.
LEMMA OtherReadIsFault ==
  ASSUME CoreInv, FromProgram, NEW o \in 0 .. cursor - 1, NEW op \in {"rs1", "rs2"},
         NEW v,
         Holds(program, o, program[o].addr[op], v), v /= program[o].rdata[op]
  PROVE  \E q \in 0 .. cursor - 1 : Faulty(q)
<1> DEFINE r == program[o].addr[op]
<1>1. cursor \in Nat /\ \A x \in 0 .. cursor - 1 : x \in Orders
  BY PastOrders
<1>2. op \in RegCheck!Operands
  BY DEF RegCheck!Operands
<1>3. r = 0 /\ program[o].rdata[op] /= 0 => StaleRead(o)
  BY <1>2 DEF StaleRead
<1>4. CASE \E w \in 0 .. o - 1 : /\ program[w].rd = r /\ program[w].wdata = v
                                 /\ \A x \in w + 1 .. o - 1 : program[x].rd /= r
  <2>1. PICK w \in 0 .. o - 1 : /\ program[w].rd = r /\ program[w].wdata = v
                                /\ \A x \in w + 1 .. o - 1 : program[x].rd /= r
    BY <1>4
  <2>2. w \in 0 .. cursor - 1 /\ w < o
    BY <1>1
  <2>3. w \in Source(o, r)
    BY <1>1, <2>1, <2>2 DEF Source
  <2>4. r /= 0 => StaleRead(o)
    BY <1>2, <2>1, <2>3 DEF StaleRead
  <2>5. r = 0 /\ program[o].rdata[op] = 0 => WritesZero(w)
    BY <2>1 DEF WritesZero
  <2> QED BY <1>3, <2>2, <2>4, <2>5 DEF Faulty
<1>5. CASE r = 0 /\ v = 0
  BY <1>3, <1>5 DEF Faulty
<1> QED BY <1>4, <1>5 DEF Holds

\* What the register check reports is wrong by the program.
LEMMA RegErrorIsFault ==
  ASSUME CoreInv, FromProgram, NEW k \in 0 .. NRet, Carries(k),
         RegsAt(program, cursor - k, shadow_xregs_valid, shadow_xregs),
         NEW c \in 0 .. k - 1, RegCheck!Error(RegPorts, c) /= 0
  PROVE  \E q \in 0 .. cursor - 1 : Faulty(q)
<1> DEFINE o == cursor - k + c
<1>1. /\ cursor \in Nat /\ k \in Nat /\ k <= cursor /\ c \in 0 .. k
      /\ o \in 0 .. cursor - 1
  BY PastOrders DEF Carries
<1>2. PICK op \in {"rs1", "rs2"} : RegCheck!Wrong(RegPorts, c, op)
  BY DEF RegCheck!Error
<1> DEFINE r == RegPorts[c].addr[op]
           F == RegCheck!Forwarders(RegPorts, c, r)
<1>3. RegPorts[c].addr = program[o].addr /\ RegPorts[c].rdata = program[o].rdata
  BY RegView
<1>4. RegCheck!Known(RegPorts, c, r) /\ RegCheck!Sees(RegPorts, c, r) /= program[o].rdata[op]
  BY <1>2, <1>3 DEF RegCheck!Wrong
<1>5. F = {i \in RegCheck!Writers(RegPorts, r) : i < c}
  BY DEF RegCheck!Forwarders
<1>6. Holds(program, o, r, RegCheck!Sees(RegPorts, c, r))
  <2>1. CASE F = {}
    <3>1. r \in shadow_xregs_valid /\ RegCheck!Sees(RegPorts, c, r) = shadow_xregs[r]
      BY <1>4, <2>1 DEF RegCheck!Known, RegCheck!Sees
    <3> HIDE DEF F, r
    <3> QED BY <1>1, <1>5, <2>1, <3>1, TellsWhatHolds
  <2>2. CASE F /= {}
    <3>1. RegCheck!Sees(RegPorts, c, r) = RegPorts[RegCheck!Last(F)].wdata
      BY <2>2 DEF RegCheck!Sees
    <3> HIDE DEF F, r
    <3> QED BY <1>1, <1>5, <2>2, <3>1, TellsWhatHolds
  <2> QED BY <2>1, <2>2
<1>7. r = program[o].addr[op]
  BY <1>3
<1> HIDE DEF o, F, r
<1> QED BY <1>1, <1>4, <1>6, <1>7, OtherReadIsFault

-----------------------------------------------------------------------------
\* Error registers of which none is set join to no error.
LEMMA QuietJoin ==
  ASSUME \A c \in Channels : ch_errcode[c] = 0 /\ errcode_p[c] = 0 /\ errcode_r[c] = 0,
         errcode = NoError
  PROVE  JoinErrors(ErrorRegisters) = 0
<1> DEFINE a == ByChannel(ch_errcode)
           b == <<1000 * errcode>>
           p == ByChannel(Named(errcode_p))
           q == ByChannel(Named(errcode_r))
<1>1. NRet \in Nat
  BY RobAssumption
<1>2. \A i \in 1 .. NRet : i - 1 \in Channels
  BY <1>1 DEF Channels
<1>3. a \in Seq({0})
  <2>1. \A i \in 1 .. NRet : ch_errcode[i - 1] = 0
    BY <1>2
  <2> QED BY <1>1, <2>1 DEF ByChannel
<1>4. b \in Seq({0})
  BY DEF NoError
<1>5. \A i \in 1 .. NRet : Named(errcode_p)[i - 1] = 0 /\ Named(errcode_r)[i - 1] = 0
  BY <1>2 DEF Named
<1>6. p \in Seq({0}) /\ q \in Seq({0})
  BY <1>1, <1>5 DEF ByChannel
<1>7. ErrorRegisters = a \o b \o p \o q
  BY DEF ErrorRegisters
<1> HIDE DEF a, b, p, q
<1>8. ErrorRegisters \in Seq({0})
  BY <1>3, <1>4, <1>6, <1>7
<1>9. \A i \in DOMAIN ErrorRegisters : ErrorRegisters[i] = 0
  BY <1>8
<1> QED BY <1>9 DEF JoinErrors

\* What the core drives are packets that the buffer takes.
LEMMA ProgramInputsTyped ==
  ASSUME FromProgram, NEW in \in ProgramInputs
  PROVE  /\ in \in Inputs
         /\ \A c \in Valid(in) : /\ in[c].order \in Orders
                                 /\ in[c].data = program[in[c].order]
<1>1. \A o \in Orders : [order |-> o, data |-> program[o]] \in Packet
  BY ProgramTypes DEF Packet
<1> QED BY <1>1 DEF ProgramInputs, Inputs, Valid

\* What goes wrong stays wrong.
LEMMA FaultStays ==
  ASSUME NEW in, MonitorStep(in)
  PROVE  /\ Retired \subseteq Retired'
         /\ \A o : Faulty(o)' <=> Faulty(o)
         /\ Fault => Fault'
<1>1. program' = program
  BY DEF MonitorStep
<1>2. presented \subseteq presented'
  BY DEF MonitorStep, CoreStep, Step, Remember
<1>3. Retired \subseteq Retired'
  BY <1>2 DEF Retired
<1>4. \A o : Faulty(o)' <=> Faulty(o)
  BY <1>1 DEF Faulty, WrongPc, NoHandler, StaleRead, WritesZero, Source
<1> QED BY <1>3, <1>4 DEF Fault

\* A clock edge keeps what the program says of packets,
LEMMA StepFromProgram ==
  ASSUME FromProgram, NEW in \in ProgramInputs, MonitorStep(in)
  PROVE  FromProgram'
<1>1. program' = program /\ presented' = presented \cup Driven(in)
  BY DEF MonitorStep, CoreStep, Step, Remember
<1>2. \A p \in Driven(in) : p.data = program[p.order]
  BY ProgramInputsTyped DEF Driven
<1> QED BY <1>1, <1>2 DEF FromProgram

\* the checks in step with the buffer,
LEMMA StepInStep ==
  ASSUME CoreInv, FromProgram, NEW j \in 0 .. NRet, InStep(j),
         NEW in \in ProgramInputs, MonitorStep(in)
  PROVE  \E k \in 0 .. NRet : InStep(k)'
<1>1. in \in Inputs /\ Obeys(in)
  BY ProgramInputsTyped DEF MonitorStep, CoreStep
<1>2. PICK k \in 0 .. NRet : Clock(in, k) /\ Remember(in, k)
  BY DEF MonitorStep, CoreStep, Step
<1>3. /\ cursor \in Nat /\ k \in Nat /\ NRet \in Nat
      /\ cursor' = cursor + k /\ cursor' - k = cursor
  BY <1>2, PastOrders, ClockParts
<1>4. program' = program
  BY DEF MonitorStep
<1>5. Carries(k)'
  <2>1. ASSUME NEW c \in Channels, c < k
        PROVE  out'[c] = [order |-> cursor + c, data |-> program[cursor + c]]
    <3> DEFINE b == buffer[Slot(cursor + c)]
    <3>1. c \in 0 .. k - 1
      BY <1>3, <2>1 DEF Channels
    <3>2. b \in presented /\ b.order = cursor + c
      BY <1>1, <1>2, <3>1, InItsTurn
    <3>3. out'[c] = b
      BY <1>2, <2>1, ClockParts DEF NextOut
    <3> HIDE DEF b
    <3>4. b \in Packet /\ b.data = program[b.order]
      BY <3>2, CoreTypes DEF CoreInv, FromProgram
    <3>5. b = [order |-> b.order, data |-> b.data]
      BY <3>4 DEF Packet
    <3> QED BY <3>2, <3>3, <3>4, <3>5
  <2>2. ASSUME NEW c \in Channels, ~(c < k) PROVE out'[c] = NoPacket
    BY <1>2, <2>2, ClockParts DEF NextOut
  <2>3. k <= cursor'
    BY <1>3
  <2>4. \A c \in Channels :
          out'[c] = IF c < k
                    THEN [order |-> cursor' - k + c, data |-> program'[cursor' - k + c]]
                    ELSE NoPacket
    BY <1>3, <1>4, <2>1, <2>2
  <2> QED BY <2>3, <2>4 DEF Carries
<1>6. PcAt(program, cursor, shadow_pc_valid', shadow_pc_trap', shadow_pc')
  BY PcMoves DEF InStep, MonitorStep
<1>7. RegCheck!Check(RegPorts)
  BY DEF MonitorStep, RegPorts
<1>8. /\ RegsAt(program, cursor, shadow_xregs_valid', shadow_xregs')
      /\ shadow_xregs_valid' \subseteq Regs
  BY <1>7, RegsMove DEF InStep
<1>9. InStep(k)'
  BY <1>3, <1>4, <1>5, <1>6, <1>8 DEF InStep
<1> QED BY <1>9

\* and raises an error register only for a fault.
LEMMA StepRaises ==
  ASSUME CoreInv, FromProgram, errcode = NoError, NoneRaised \/ Fault,
         NEW k \in 0 .. NRet, InStep(k), NEW in \in ProgramInputs, MonitorStep(in)
  PROVE  NoneRaised' \/ Fault'
<1> SUFFICES ASSUME ~Fault' PROVE NoneRaised'
  OBVIOUS
<1>1. FromProgram' /\ program' = program
  BY StepFromProgram DEF MonitorStep
<1>2. NoneRaised /\ ~Fault /\ \A o \in Retired' : ~Faulty(o)
  BY <1>1, FaultStays DEF Fault
<1>3. \A o \in 0 .. cursor - 1 : ~Faulty(o)
  BY <1>1, <1>2, PastOrders, FaultStays
<1>4. ASSUME NEW c \in Channels PROVE ch_errcode'[c] = 0
  <2>1. ch_errcode'[c]
          = LET e == IF in[c] = NoPacket THEN 0 ELSE in[c].data.insn_error
            IN  IF e = 0 THEN 0 ELSE 100 * (c + 1) + e
    BY DEF MonitorStep, InsnErrors, Named
  <2>2. CASE in[c] = NoPacket
    BY <2>1, <2>2
  <2>3. CASE in[c] /= NoPacket
    <3>1. c \in Valid(in)
      BY <2>3 DEF Valid
    <3>2. in[c].data = program[in[c].order]
      BY <3>1, ProgramInputsTyped
    <3>3. in[c] \in presented'
      BY <3>1 DEF MonitorStep, CoreStep, Step, Remember, Driven
    <3>4. in[c].order \in Retired'
      BY <3>3 DEF Retired
    <3>5. program[in[c].order].insn_error = 0
      BY <1>2, <3>4 DEF Faulty
    <3> QED BY <2>1, <2>3, <3>2, <3>5
  <2> QED BY <2>2, <2>3
<1>5. ASSUME NEW c \in Channels PROVE errcode_p'[c] = 0
  <2>1. errcode_p'[c] = IF c \in PcCheck!Valid THEN PcCheck!Error(c) ELSE 0
    BY DEF MonitorStep, PcCheck!Check, PcCheck!Channels, Channels
  <2>2. ASSUME c \in PcCheck!Valid PROVE PcCheck!Error(c) = 0
    <3>1. c \in 0 .. k - 1
      BY <2>2, PcView DEF InStep
    <3>2. cursor - k + c \in 0 .. cursor - 1
      BY <3>1, PastOrders DEF InStep, Carries
    <3> QED BY <1>3, <3>1, <3>2, PcErrorIsFault DEF InStep
  <2> QED BY <2>1, <2>2
<1>6. ASSUME NEW c \in Channels PROVE errcode_r'[c] = 0
  <2>1. RegCheck!Check(RegPorts)
    BY DEF MonitorStep, RegPorts
  <2>2. errcode_r'[c] = IF c \in RegCheck!Valid(RegPorts) THEN RegCheck!Error(RegPorts, c)
                        ELSE 0
    BY <2>1 DEF RegCheck!Check, RegCheck!Channels, Channels
  <2>3. ASSUME c \in RegCheck!Valid(RegPorts) PROVE RegCheck!Error(RegPorts, c) = 0
    <3>1. c \in 0 .. k - 1
      BY <2>3, RegView DEF InStep
    <3> QED BY <1>3, <3>1, RegErrorIsFault DEF InStep
  <2> QED BY <2>2, <2>3
<1>7. reported' = {}
  <2>1. JoinErrors(ErrorRegisters) = 0
    BY <1>2, QuietJoin DEF NoneRaised
  <2>2. monitor_errcode' = 0 /\ reported' = reported \cup ({monitor_errcode'} \ {0})
    BY <2>1 DEF MonitorStep
  <2> QED BY <1>2, <2>2 DEF NoneRaised
<1> QED BY <1>4, <1>5, <1>6, <1>7 DEF NoneRaised

\* So a clock edge keeps the invariant, which holds after the first reset.
LEMMA StepMonitorInv ==
  ASSUME MonitorInv, NEW in \in ProgramInputs, MonitorStep(in)
  PROVE  MonitorInv'
<1>1. PICK k \in 0 .. NRet : InStep(k)
  BY DEF MonitorInv
<1>2. CoreInv'
  BY ProgramInputsTyped, StepCoreInv DEF MonitorInv, MonitorStep
<1>3. errcode' = NoError
  <2>1. ~flagged'
    BY <1>2 DEF CoreInv, NeverFlagged
  <2>2. flagged' = (flagged \/ errcode' /= NoError)
    BY DEF MonitorStep, CoreStep, Step, Remember
  <2> QED BY <2>1, <2>2, Zenon
<1>4. FromProgram' /\ (\E j \in 0 .. NRet : InStep(j)') /\ (NoneRaised' \/ Fault')
  BY <1>1, StepFromProgram, StepInStep, StepRaises DEF MonitorInv
<1> QED BY <1>2, <1>3, <1>4 DEF MonitorInv

LEMMA InitMonitorInv == MonitorInit => MonitorInv
<1> SUFFICES ASSUME MonitorInit PROVE MonitorInv
  OBVIOUS
<1>1. CoreInv
  BY InitCoreInv DEF MonitorInit
<1>2. /\ presented = {} /\ cursor = 0 /\ out = [c \in Channels |-> NoPacket]
      /\ errcode = NoError
  BY DEF MonitorInit, Init
<1>3. FromProgram
  BY <1>2 DEF MonitorInit, FromProgram
<1>4. 0 \in 0 .. NRet /\ cursor - 0 = 0 /\ \A c \in Channels : ~(c < 0)
  BY <1>2, RobAssumption DEF Channels
<1>5. InStep(0)
  <2>1. Carries(0)
    BY <1>2, <1>4 DEF Carries
  <2>2. PcAt(program, 0, shadow_pc_valid, shadow_pc_trap, shadow_pc)
    BY DEF MonitorInit, PcCheck!Init, PcAt
  <2>3. /\ RegsAt(program, 0, shadow_xregs_valid, shadow_xregs)
        /\ shadow_xregs_valid \subseteq Regs
    BY MonitorAssumption DEF MonitorInit, RegCheck!Init, RegsAt, Holds
  <2> QED BY <1>4, <2>1, <2>2, <2>3 DEF InStep
<1>6. NoneRaised
  BY DEF MonitorInit, PcCheck!Init, RegCheck!Init, NoneRaised, PcCheck!Channels,
         RegCheck!Channels, Channels
<1> QED BY <1>1, <1>2, <1>3, <1>4, <1>5, <1>6 DEF MonitorInv

\* The buffer never raises an alarm and the checks stay in step with it.
THEOREM MonitorCorrect == MonitorSpec => []MonitorInv
<1>1. MonitorInv /\ [MonitorNext]_monitorVars => MonitorInv'
  <2> SUFFICES ASSUME MonitorInv, [MonitorNext]_monitorVars PROVE MonitorInv'
    OBVIOUS
  <2>1. CASE MonitorNext
    BY <2>1, StepMonitorInv DEF MonitorNext
  <2>2. CASE UNCHANGED monitorVars
    <3>1. /\ UNCHANGED vars /\ program' = program /\ ch_errcode' = ch_errcode
          /\ UNCHANGED pcVars /\ UNCHANGED regVars /\ reported' = reported
      BY <2>2 DEF monitorVars
    <3>2. CoreInv'
      BY <3>1, StutterCoreInv DEF MonitorInv
    <3>3. FromProgram' /\ errcode' = NoError /\ (Fault => Fault')
      BY <3>1 DEF MonitorInv, FromProgram, vars, hw, history, Fault, Retired, Faulty,
                  WrongPc, NoHandler, StaleRead, WritesZero, Source
    <3>4. NoneRaised => NoneRaised'
      BY <3>1 DEF NoneRaised, pcVars, regVars
    <3>5. \A k \in 0 .. NRet : InStep(k) => InStep(k)'
      BY <3>1 DEF InStep, Carries, PcAt, RegsAt, Holds, pcVars, regVars, vars, hw
    <3> QED BY <3>2, <3>3, <3>4, <3>5 DEF MonitorInv
  <2> QED BY <2>1, <2>2
<1> QED BY <1>1, InitMonitorInv, PTL DEF MonitorSpec

\* The monitor's buffer is one behind a core that obeys RVFI, so what is proved
\* of it there, the refinement of the stream included, holds in the monitor.
THEOREM MonitorObeys == MonitorSpec => CoreSpec
<1>1. MonitorInit => Init
  BY DEF MonitorInit
<1>2. MonitorInv /\ [MonitorNext]_monitorVars => [CoreNext]_vars
  <2>1. ASSUME MonitorInv, NEW in \in ProgramInputs, MonitorStep(in) PROVE CoreNext
    BY <2>1, ProgramInputsTyped DEF MonitorInv, MonitorStep, CoreNext
  <2>2. UNCHANGED monitorVars => UNCHANGED vars
    BY DEF monitorVars
  <2> QED BY <2>1, <2>2 DEF MonitorNext
<1> QED BY <1>1, <1>2, MonitorCorrect, PTL DEF MonitorSpec, CoreSpec

\* However the core spreads and reorders the program, the monitor stays silent
\* until an instruction has retired that is wrong by the program alone.
THEOREM Silent == MonitorSpec => []MonitorSilent
<1>1. MonitorInv => MonitorSilent
  BY DEF MonitorInv, NoneRaised, Fault, MonitorSilent
<1> QED BY <1>1, MonitorCorrect, PTL

=============================================================================
