----------------------------- MODULE MCGenChecks -----------------------------
(***************************************************************************)
(* Model-checking instance of the check generators: all config files of at *)
(* most two [depth] lines from a list, and some [csrs], [groups],          *)
(* [filter-checks] and [assume] sections.                                  *)
(***************************************************************************)
EXTENDS GenChecks

CONSTANTS scratch, event, counter, add, fff, a
MCInsns == <<add>>
MCCounterOf == (event :> counter)

Anything == {None, a}
Whats == {None, add, fff, scratch, event, counter}
Chs == Channels \cup {None}
Csrc == {"csrc", "csrc_const", "csrc_any", "csrc_hpm"}
Checks == {"insn", "csrw", "csr_ill", "hang", "cover"} \cup ToSet(PerChannel) \cup Csrc
Pat(grps, checks, whats, chs) ==
  [grps |-> grps, checks |-> checks, whats |-> whats, chs |-> chs]

InsnLoop == {"insn", "csrw", "csr_ill"}
Three == {"liveness", "unique"}

\* Patterns, and how many numbers follow each.
DepthLines ==
  {<<Pat({None}, {"insn"}, {None}, {None}), 1>>,            \* insn
   <<Pat({None}, {"insn"}, {None}, {1}), 1>>,               \* insn_ch1
   <<Pat({a}, {"insn"}, {add}, {None}), 1>>,                \* a_insn_add
   <<Pat(Anything, InsnLoop, Whats, Chs), 1>>,              \* .*(insn|csrw|csr_ill).*
   <<Pat({None}, {"csrc_hpm"}, {None}, {None}), 2>>,        \* csrc_hpm
   <<Pat(Anything, Csrc, Whats, Chs), 2>>,                  \* .*csrc.*
   <<Pat({None}, {"fault"}, {None}, {None}), 2>>,           \* fault
   <<Pat(Anything, Three, {None}, Chs), 3>>,                \* .*(liveness|unique).*
   <<Pat(Anything, Checks \ InsnLoop, Whats, Chs), 3>>,     \* (?!.*(insn|csrw|csr_ill)).*
   <<Pat(Anything, {"cover", "reg"}, {None}, Chs), 2>>,     \* .*(cover|reg).*
   \* The others do not fit all of the checks they name.
   <<Pat({None}, {"insn"}, {None}, {1}), 0>>,               \* insn_ch1
   <<Pat({None}, {"unique"}, {None}, {None}), 2>>,          \* unique
   <<Pat(Anything, Checks, Whats, Chs), 1>>,                \* .*
   <<Pat(Anything, Checks, Whats, Chs), 2>>}                \* .*

\* The numbers tell which line they came from, and their place in it.
Numbered(line, i) == [pat |-> line[1], values |-> [k \in 1 .. line[2] |-> 10 * i + k]]
Depths ==
  {<<>>} \cup {<<Numbered(l, 1)>> : l \in DepthLines}
  \cup {<<Numbered(l, 1), Numbered(m, 2)>> : l, m \in DepthLines}

Channel1 == Pat(Anything, Checks, Whats, {1})           \* .*_ch1
OfInsn == Pat({None}, {"insn", "csrw"}, Whats, {0, 1})  \* insn|csrw
Line(sign, pat) == [sign |-> sign, pat |-> pat]
Filters ==
  {<<>>, <<Line("-", Channel1)>>,
   <<Line("+", OfInsn), Line("-", Channel1)>>, <<Line("-", Channel1), Line("+", OfInsn)>>}

Section(pats) == [pats |-> pats]
Assumes ==
  {<<>>,
   <<Section(<<>>), Section(<<[pat |-> Channel1, negated |-> FALSE]>>),
     Section(<<[pat |-> Channel1, negated |-> TRUE]>>),
     Section(<<[pat |-> Channel1, negated |-> TRUE], [pat |-> OfInsn, negated |-> FALSE]>>)>>}

Test(kind, value) == [kind |-> kind, value |-> value]
Tests ==
  {(event :> <<Test("csrc_hpm", 1)>>),
   (scratch :> <<Test("csrc_any", 1), Test("csrc_const", 1)>>) @@ (event :> <<Test("csrc_hpm", 1)>>),
   (scratch :> <<Test("csrc_const", 1), Test("csrc_const", 2)>>)}

\* fff msu rw; fff u w
Illegal(modes) == [addr |-> fff, modes |-> modes]
IllegalLines == {{Illegal("msu rw")}, {Illegal("msu rw"), Illegal("u w")}}

Sections ==
  [groups : {<<None>>, <<None, a>>, <<None, a, a>>}, csrs : {<<event, scratch>>, <<counter, event>>},
   tests : Tests, illegal : IllegalLines, depth : Depths, filter : Filters, assume : Assumes,
   cover : BOOLEAN]
Configs == {c \in Sections : DOMAIN c.tests \subseteq ToSet(c.csrs)}
ASSUME ConfigsAssumption == \A c \in Configs : IsConfig(c)

MCInit ==
  /\ Init(Configs)
  \* Sections that the others do not interact with are varied one by one.
  /\ config.assume = <<>> \/ (config.filter = <<>> /\ Len(config.depth) <= 1)
  /\ config.cover \/ (config.filter = <<>> /\ config.assume = <<>> /\ Len(config.depth) <= 1)
  /\ config.csrs[1] = event \/ (config.filter = <<>> /\ config.assume = <<>>)
  /\ \/ Len(config.groups) <= 2 /\ Cardinality(config.illegal) = 1
     \/ config.filter = <<>> /\ config.assume = <<>> /\ Len(config.depth) <= 1

MCSpec == MCInit /\ [][Next]_vars
=============================================================================
