--------------------------- MODULE MCRvfiShadowRegs ---------------------------
(***************************************************************************)
(* Model-checking instance of RvfiShadowRegs.  To bound the inputs, rs2    *)
(* names x0 on all channels but the last, and no operand is looked at on   *)
(* channel 0 while the channels above it are in use.                       *)
(***************************************************************************)
EXTENDS RvfiShadowRegs

OneOperand ==
  {i \in Insn : i.addr["rs2"] = 0 /\ i.rdata["rs2"] = 0} \cup {NoInsn}
NoOperand ==
  {i \in OneOperand : i /= NoInsn => i.addr["rs1"] = 0 /\ i.rdata["rs1"] = 0}

\* Three channels in use, or only channel 0.
MCInputs ==
  {<<a, b, c>> : a \in NoOperand, b \in OneOperand, c \in Insn \cup {NoInsn}}
  \cup {<<a, NoInsn, NoInsn>> : a \in OneOperand}

FromZero(s) == [c \in Channels |-> s[c + 1]]

MCNext == Reset \/ \E in \in MCInputs : Check(FromZero(in))
=============================================================================
