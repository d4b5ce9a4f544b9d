---------------------------- MODULE InOrderStream ----------------------------
(***************************************************************************)
(* What a reorder buffer promises.  Packets numbered 0, 1, 2, ... are sent *)
(* in some order; the output stream is the packets in the order of their   *)
(* numbers, and at every step as many leave as have become consecutive, up *)
(* to Width of them.                                                       *)
(***************************************************************************)
EXTENDS Integers, Sequences

CONSTANTS
  Packets,  \* the packets; p.order is the number of packet p
  Width     \* at most this many packets are sent or leave in one step

VARIABLES
  sent,     \* the packets sent so far
  stream    \* the packets that have left, in order

sVars == <<sent, stream>>

\* No two packets carry the same number.
Unique(ps) == \A p, q \in ps : p.order = q.order => p = q

\* A packet of the next number that has been sent.
Ready(n) == \E p \in sent : p.order = n

\* k packets leave: k consecutive ones are there, and no more than k could go.
Leave(k) ==
  /\ \A j \in 0 .. k - 1 : Ready(Len(stream) + j)
  /\ k < Width => ~Ready(Len(stream) + k)
  /\ stream' = stream \o [i \in 1 .. k |->
                  CHOOSE p \in sent : p.order = Len(stream) + (i - 1)]

Send ==
  /\ sent' \in SUBSET Packets
  /\ sent \subseteq sent'
  /\ Unique(sent')

SInit == sent = {} /\ stream = << >>

SNext == Send /\ \E k \in 0 .. Width : Leave(k)

SSpec == SInit /\ [][SNext]_sVars
=============================================================================
