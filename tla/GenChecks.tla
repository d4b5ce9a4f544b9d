------------------------------- MODULE GenChecks -------------------------------
(***************************************************************************)
(* checks/genchecks.py, which turns the config file of a core into one     *)
(* job file per check, and checks/genchecks_jg.py, which does the same for *)
(* JasperGold with one directory per check.                                *)
(*                                                                         *)
(* Both are a long sequence of calls of check_insn and check_cons.  The    *)
(* calls share the dictionary hargs, from which the text of a job is       *)
(* filled in, and the set csrs, which grows on the way; each of them may   *)
(* return early.  A step here is one call.                                 *)
(*                                                                         *)
(* A check name <group>_<check>_<what>_ch<channel> is a record, a regular  *)
(* expression the sets of values it accepts for the four parts.  The       *)
(* verbatim sections, the options and the order of the makefile are left   *)
(* out, and so is what Python makes of a line that is no line: a number    *)
(* that is none, an expression that does not compile, a filter without its *)
(* sign.                                                                   *)
(***************************************************************************)
EXTENDS Integers, Sequences, FiniteSets, SequencesExt

CONSTANTS
  NRet,       \* nret
  Insns,      \* the lines of isa_<isa>.txt, a sequence
  CounterOf,  \* the hpmcounter of each mhpmevent, a function
  None        \* no group, no channel, no value; Python's None

Channels == 0 .. NRet - 1

IsSeq(s) == s \in Seq(ToSet(s))
\* No line of isa_<isa>.txt comes twice.
ASSUME GenChecksAssumption ==
  /\ NRet \in Nat /\ None \notin Nat \cup Seq(Nat) \cup {"+", "-"}
  /\ IsSeq(Insns) /\ IsInjective(Insns)

VARIABLES
  tool,     \* "sby" or "jg", constant
  config,   \* the config file, constant: groups, csrs, tests, ...
  csrs,     \* csrs
  groups,   \* the groups the current loop has yet to visit
  loop,     \* the loop that runs: "insn", "cons" or "ended"
  todo,     \* the calls of the group in hand
  hargs,    \* hargs, the entries that change
  jobs,     \* the job of each check name whose file has been written
  crashed   \* the script has ended with a traceback

vars == <<tool, config, csrs, groups, loop, todo, hargs, jobs, crashed>>

-----------------------------------------------------------------------------
Name(grp, check, what, ch) == [grp |-> grp, check |-> check, what |-> what, ch |-> ch]

Matches(p, n) ==
  /\ n.grp \in p.grps /\ n.check \in p.checks
  /\ n.what \in p.whats /\ n.ch \in p.chs

\* The names under which a [depth] line may name check n.
Patterns(n) ==
  {Name(n.grp, n.check, w, c) : w \in {None, n.what}, c \in {None, n.ch}}

\* A [depth] line names check n.
Names(line, n) == \E pat \in Patterns(n) : Matches(line.pat, pat)

\* The numbers of the last line that matches; None if no line does.
get_depth_cfg(n) ==
  LET lines == {i \in DOMAIN config.depth : Names(config.depth[i], n)}
  IN  IF lines = {} THEN None
      ELSE config.depth[CHOOSE i \in lines : \A j \in lines : j <= i].values

\* Mutated: a "-" line counts wherever it comes.
DisabledAnywhere(n) ==
  \E i \in DOMAIN config.filter : /\ config.filter[i].sign = "-"
                                  /\ Matches(config.filter[i].pat, n)

\* The first line that matches counts.
test_disabled(n) ==
  \E i \in DOMAIN config.filter :
    /\ config.filter[i].sign = "-"
    /\ Matches(config.filter[i].pat, n)
    /\ \A j \in 1 .. i - 1 : ~Matches(config.filter[j].pat, n)

\* The statements of [assume] that the job of check n gets.  The patterns of
\* a section are tried in turn, and the first one that matches decides.
Assumed(n) ==
  {a \in ToSet(config.assume) :
     LET hits == {i \in DOMAIN a.pats : Matches(a.pats[i].pat, n)}
     IN  IF hits /= {}
         THEN a.pats[CHOOSE i \in hits : \A j \in hits : i <= j].negated
         ELSE a.pats = <<>> \/ ~Last(a.pats).negated}

-----------------------------------------------------------------------------
\* A call of check_insn or check_cons, and the name it builds.
Call(mode, grp, check, what, ch, test) ==
  [mode |-> mode, grp |-> grp, check |-> check, what |-> what, ch |-> ch, test |-> test]

\* A line of illegal_csrs is named by its address.
What(check, x) == IF check = "csr_ill" THEN x.addr ELSE x

NameOf(call) == Name(call.grp, call.check, What(call.check, call.what), call.ch)

\* The calls for every x of s and every channel.
ForEach(mode, grp, check, s) ==
  FlattenSeq([i \in 1 .. Len(s) |->
    [c \in 1 .. NRet |-> Call(mode, grp, check, s[i], c - 1, None)]])

\* sorted(csrs), but for the place of counters that check_cons has added.
Listed(cs) == config.csrs \o SetToSeq(cs \ ToSet(config.csrs))

\* The first loop: one call for every instruction, CSR and illegal CSR.  Lines of
\* one address come in the order in which Python's set happens to have them.
InsnCalls(grp) ==
  ForEach("insn", grp, "insn", Insns)
  \o ForEach("insn", grp, "csrw", Listed(csrs))
  \o ForEach("insn", grp, "csr_ill", SetToSeq(config.illegal))

PerChannel ==
  <<"reg", "pc_fwd", "pc_bwd", "liveness", "unique", "causal", "causal_mem",
    "causal_io", "ill", "fault", "bus_imem", "bus_imem_fault", "bus_dmem",
    "bus_dmem_fault", "bus_dmem_io_read", "bus_dmem_io_read_fault",
    "bus_dmem_io_write", "bus_dmem_io_write_fault", "bus_dmem_io_order">>

TestsOf(csr) == IF csr \in DOMAIN config.tests THEN config.tests[csr] ELSE <<None>>

\* check_name of a csrc check: the test without its value and mask.
CheckOfTest(test) == IF test = None THEN "csrc" ELSE test.kind

\* A csrc check for each test of the CSR.
WithTests(call) ==
  LET tests == TestsOf(call.what)
  IN  [i \in 1 .. Len(tests) |->
        Call(call.mode, call.grp, CheckOfTest(tests[i]), call.what, call.ch, tests[i])]

\* The second loop.
ConsCalls(grp) ==
  LET csrc == ForEach("csrc", grp, "csrc", Listed(csrs))
  IN  FlattenSeq([c \in 1 .. NRet |->
        [i \in 1 .. Len(PerChannel) |-> Call("cons", grp, PerChannel[i], None, c - 1, None)]])
      \o <<Call("cons", grp, "hang", None, None, None),
           Call("cons", grp, "cover", None, None, None)>>
      \o FlattenSeq([i \in 1 .. Len(csrc) |-> WithTests(csrc[i])])

\* Where the cycles of a check are among its numbers.  Not all are asked for.
Positions(check) ==
  CASE check \in {"insn", "csrw", "csr_ill", "ill", "fault"} -> [depth |-> 1]
    [] check \in {"liveness", "unique"} -> [start |-> 1, trig |-> 2, depth |-> 3]
    [] OTHER -> [start |-> 1, depth |-> 2]

\* check_insn asserts that there is one number; check_cons takes its own from
\* a list that may be too short for them.
Misfit(call) ==
  LET d == get_depth_cfg(NameOf(call))
      at == Positions(call.check)
  IN  /\ d /= None
      /\ IF call.mode = "insn" THEN Len(d) /= 1 ELSE \E k \in DOMAIN at : at[k] > Len(d)

\* The number of a cycle, or what stands for it.
Cycle(check, d, k, default) ==
  LET at == Positions(check) IN IF k \in DOMAIN at THEN d[at[k]] ELSE default

-----------------------------------------------------------------------------
\* Mutated: the counter of the event is not added to csrs.
WithoutCounter(call) == csrs
\* An hpm test needs the counter of its event, whether or not it is generated.
WithCounter(call) ==
  IF call.mode = "csrc" /\ call.check = "csrc_hpm"
  THEN csrs \cup {CounterOf[call.what]} ELSE csrs

\* What a call leaves in hargs before it asks for the depth.
EarlyArgs(call) ==
  IF call.mode = "insn" THEN hargs
  ELSE [hargs EXCEPT !.check = call.check,
                     !.channel = IF call.ch = None THEN @ ELSE call.ch]

\* With the numbers known.  Only check_insn asks test_disabled before it goes on.
LateArgs(call, args) ==
  LET n == NameOf(call)
      d == get_depth_cfg(n)
  IN  IF d = None \/ Misfit(call) \/ (call.mode = "insn" /\ test_disabled(n)) THEN args
      ELSE IF call.mode = "insn"
      THEN [args EXCEPT !.insn = n.what, !.checkch = n,
                        !.channel = call.ch, !.depth = d[1]]
      ELSE [args EXCEPT !.start = Cycle(call.check, d, "start", 1),
                        !.depth = Cycle(call.check, d, "depth", None), !.checkch = n,
                        !.xmode = IF n = Name(None, "cover", None, None)
                                     \/ n.check = "csrc_hpm"
                                  THEN "cover" ELSE "bmc"]

Wanted(n) == get_depth_cfg(n) /= None /\ ~test_disabled(n)

\* The text of a job: what it takes from hargs, the CSRs that are defined by
\* now, and what the call itself knows.
InsnJob(call, args, defined) ==
  [checkch |-> args.checkch, checker |-> call.check, what |-> args.insn,
   channel |-> args.channel, chidx |-> args.channel,
   start |-> 1, trig |-> None, depth |-> args.depth,
   mode |-> "bmc", csrs |-> defined,
   test |-> IF call.check = "csr_ill" THEN call.what.modes ELSE None,
   assumed |-> Assumed(NameOf(call))]
ConsJob(call, args, defined) ==
  [checkch |-> args.checkch, checker |-> args.check, what |-> call.what,
   channel |-> args.channel, chidx |-> call.ch, start |-> args.start,
   trig |-> Cycle(call.check, get_depth_cfg(NameOf(call)), "trig", None), depth |-> args.depth,
   mode |-> args.xmode, csrs |-> defined, test |-> call.test,
   assumed |-> Assumed(NameOf(call))]

\* JasperGold proves asserts and covers alike.
JgInsnJob(call, args, defined) == [InsnJob(call, args, defined) EXCEPT !.mode = "prove"]
JgConsJob(call, args, defined) == [ConsJob(call, args, defined) EXCEPT !.mode = "prove"]

Job(call, args, defined) ==
  CASE tool = "sby" /\ call.mode = "insn" -> InsnJob(call, args, defined)
    [] tool = "sby" /\ call.mode /= "insn" -> ConsJob(call, args, defined)
    [] tool = "jg" /\ call.mode = "insn" -> JgInsnJob(call, args, defined)
    [] tool = "jg" /\ call.mode /= "insn" -> JgConsJob(call, args, defined)

\* The JasperGold variant makes a directory, which must be new, and copies
\* the checker into it, which must exist; there is no rvfi_csrc_check.sv.
JgRaises(call) ==
  tool = "jg" /\ (NameOf(call) \in DOMAIN jobs \/ call.check = "csrc")

\* A call ends the script: on numbers that do not fit, asked for or disabled,
\* or on a file, that of a cover check without a [cover] section among them.
Raises(call) ==
  \/ Misfit(call)
  \/ Wanted(NameOf(call)) /\ (JgRaises(call) \/ (call.check = "cover" /\ ~config.cover))

\* One call of check_insn or check_cons.
Check ==
  /\ loop /= "ended" /\ ~crashed /\ todo /= <<>>
  /\ LET call == Head(todo)
         n == NameOf(call)
     IN  /\ csrs' = WithCounter(call)
         /\ hargs' = LateArgs(call, EarlyArgs(call))
         /\ crashed' = Raises(call)
         /\ jobs' = IF Wanted(n) /\ ~Raises(call)
                    THEN [m \in DOMAIN jobs \cup {n} |->
                            IF m = n THEN Job(call, hargs', csrs') ELSE jobs[m]]
                    ELSE jobs
  /\ todo' = Tail(todo)
  /\ UNCHANGED <<tool, config, groups, loop>>

\* The loops take up the next group; the CSRs are listed as it begins.
NextGroup ==
  /\ loop /= "ended" /\ ~crashed /\ todo = <<>> /\ groups /= <<>>
  /\ todo' = IF loop = "insn" THEN InsnCalls(Head(groups)) ELSE ConsCalls(Head(groups))
  /\ groups' = Tail(groups)
  /\ UNCHANGED <<tool, config, csrs, loop, hargs, jobs, crashed>>

NextLoop ==
  /\ loop /= "ended" /\ ~crashed /\ todo = <<>> /\ groups = <<>>
  /\ loop' = IF loop = "insn" THEN "cons" ELSE "ended"
  /\ groups' = IF loop = "insn" THEN config.groups ELSE <<>>
  /\ UNCHANGED <<tool, config, csrs, todo, hargs, jobs, crashed>>

\* A config file as it has been read: None comes first of the groups, csrs and
\* illegal_csrs are sets, and csr_tests has an entry only for csrs (add_csr).
\* Groups and addresses may come twice, and a [depth] line may have any number
\* of numbers.
TestKinds == {"csrc_any", "csrc_const", "csrc_hpm", "csrc_inc", "csrc_upcnt", "csrc_zero"}
IsConfig(c) ==
  /\ IsSeq(c.groups) /\ c.groups /= <<>>
  /\ Head(c.groups) = None /\ None \notin ToSet(Tail(c.groups))
  /\ IsSeq(c.csrs) /\ IsInjective(c.csrs)
  /\ DOMAIN c.tests \subseteq ToSet(c.csrs)
  /\ \A x \in DOMAIN c.tests :
       /\ IsSeq(c.tests[x])
       /\ \A t \in ToSet(c.tests[x]) :
            t /= None /\ t.kind \in TestKinds /\ (t.kind = "csrc_hpm" => x \in DOMAIN CounterOf)
  /\ IsFiniteSet(c.illegal) /\ \A l \in c.illegal : l = [addr |-> l.addr, modes |-> l.modes]
  /\ IsSeq(c.depth) /\ \A l \in ToSet(c.depth) : l.values \in Seq(Nat)
  /\ c.cover \in BOOLEAN \* there is a [cover] section
  /\ IsSeq(c.filter) /\ \A l \in ToSet(c.filter) : l.sign \in {"+", "-"}

Init(Configs) ==
  /\ tool \in {"sby", "jg"}
  /\ config \in Configs
  /\ csrs = ToSet(config.csrs)
  /\ groups = config.groups
  /\ loop = "insn"
  /\ todo = <<>>
  /\ hargs = [check |-> None, insn |-> None, checkch |-> None, channel |-> None,
              start |-> None, depth |-> None, xmode |-> None]
  /\ jobs = <<>>
  /\ crashed = FALSE

Next == Check \/ NextGroup \/ NextLoop

-----------------------------------------------------------------------------
\* The last of some answers, None standing for no answer.
LastAnswer(answers) ==
  LET upTo[i \in 0 .. Len(answers)] ==
        IF i = 0 THEN None
        ELSE IF answers[i] /= None THEN answers[i] ELSE upTo[i - 1]
  IN  upTo[Len(answers)]

\* What lines say of check n: the numbers in the last one that names it, the
\* sign of the first one that matches.
NumbersSaid(lines, n) ==
  LastAnswer([i \in 1 .. Len(lines) |-> IF Names(lines[i], n) THEN lines[i].values ELSE None])
SignSaid(lines, n) ==
  LastAnswer([i \in 1 .. Len(lines) |->
    LET l == lines[Len(lines) + 1 - i] IN IF Matches(l.pat, n) THEN l.sign ELSE None])

\* docs/procedure.md: the numbers that a [depth] line gives for a check.  (It
\* does not name ill, and insn only in examples.)
Expects(check) ==
  CASE check \in {"insn", "csrw", "csr_ill", "ill"} -> <<"depth">>
    [] check \in {"liveness", "unique"} -> <<"start", "trig", "depth">>
    [] OTHER -> <<"start", "depth">>

\* What the code takes: see DocumentedNumbers.
Taken(check) == IF check = "fault" THEN <<"depth">> ELSE Expects(check)

\* Job j of check n has got these numbers.
HasNumbers(j, expected, numbers) ==
  /\ Len(expected) <= Len(numbers)
  /\ \A i \in DOMAIN expected : j[expected[i]] = numbers[i]

\* Every job is about its own check, though hargs is shared by all calls and
\* most of them return early: its name, checker, channel and instruction are
\* those of the file it is in; its cycles are those of one line that names it,
\* the last, each at its place in that line (for what the manual says of both, see
\* DepthAsDocumented); every CSR that it uses is defined in it; an hpm check,
\* whose assertion is a cover statement, runs as one; and a csr_ill or csrc
\* check is about one of the lines or tests of its address or CSR.
IsOwn(n, j) ==
  /\ <<j.checkch, j.checker, j.what, j.chidx>> = <<n, n.check, n.what, n.ch>>
  /\ n.ch /= None => j.channel = n.ch
  /\ HasNumbers(j, Taken(n.check), NumbersSaid(config.depth, n))
  /\ IF n.check = "csr_ill" THEN [addr |-> n.what, modes |-> j.test] \in config.illegal
     ELSE j.test /= None => n.what \in j.csrs
  /\ n.check \in TestKinds => j.test \in ToSet(TestsOf(n.what)) /\ CheckOfTest(j.test) = n.check
  /\ n.check = "csrc_hpm" => CounterOf[n.what] \in j.csrs /\ j.mode /= "bmc"
OwnArguments == \A n \in DOMAIN jobs : IsOwn(n, jobs[n])

\* docs/procedure.md, of [groups], [depth] and [filter-checks]: what the
\* config file asks for, in terms of the file alone.
Asked(n) == NumbersSaid(config.depth, n) /= None /\ SignSaid(config.filter, n) /= "-"

OfInsnLoop(n) == n.check \in {"insn", "csrw", "csr_ill"}

\* The file gives check n too few numbers, or too many for the first loop.
WrongNumbers(n) ==
  LET d == NumbersSaid(config.depth, n)
  IN  /\ d /= None
      /\ IF OfInsnLoop(n) THEN Len(d) /= 1 ELSE Len(d) < Len(Taken(n.check))

Everything ==
  LET chs(checks, whats) == {Name(g, k, w, c) : g \in ToSet(config.groups), k \in checks,
                                                w \in whats, c \in Channels}
  IN  chs({"insn"}, ToSet(Insns)) \cup chs({"csrw"}, ToSet(config.csrs))
      \cup chs({"csr_ill"}, {l.addr : l \in config.illegal}) \cup chs(ToSet(PerChannel), {None})
      \cup {Name(g, k, None, None) : g \in ToSet(config.groups), k \in {"hang", "cover"}}
      \cup UNION {chs({CheckOfTest(t) : t \in ToSet(TestsOf(x))}, {x}) :
                    x \in ToSet(config.csrs)}

\* csrc checks of hpmcounters.
CounterChecks ==
  {Name(g, "csrc", CounterOf[x], c) : g \in ToSet(config.groups), x \in DOMAIN CounterOf,
                                      c \in Channels}

\* A check is asked for under every group and on every channel with this test,
\* and has it in its job.
Tested(check, what, test) ==
  \A g \in ToSet(config.groups), c \in Channels :
    LET n == Name(g, check, what, c) IN Asked(n) => n \in DOMAIN jobs /\ jobs[n].test = test

\* When a script ends, it has written a job for every check that the config
\* file asks for and no other, except for counters that no [csrs] line names:
\* groups after the first one list those too, but as csrc checks.  There is a
\* job for each line of [illegal_csrs] and each test of a CSR, unless another
\* one has its address or kind.
Written ==
  /\ {n \in Everything : Asked(n)} \subseteq DOMAIN jobs
  /\ \A n \in DOMAIN jobs : Asked(n) /\ (n \in Everything \/ (n \in CounterChecks /\ n.grp /= None))
  /\ \A l \in config.illegal :
       (\A m \in config.illegal : m.addr = l.addr => m = l) => Tested("csr_ill", l.addr, l.modes)
  /\ \A x \in DOMAIN config.tests : \A t \in ToSet(config.tests[x]) :
       (\A u \in ToSet(config.tests[x]) : u.kind = t.kind => u = t) => Tested(t.kind, x, t)

\* It ends with a traceback only over the numbers of a check, even one that is
\* disabled, or a missing [cover] section.  The JasperGold variant also does if
\* a group or an illegal CSR comes twice or a CSR has two tests of one kind, or
\* none and a depth for csrc.
Cause ==
  \/ \E n \in Everything \cup CounterChecks : WrongNumbers(n)
  \/ ~config.cover /\ \E n \in Everything : n.check = "cover" /\ Asked(n)
  \/ /\ tool = "jg"
     /\ \/ ~IsInjective(config.groups)
        \/ \E l, m \in config.illegal : l /= m /\ l.addr = m.addr
        \/ \E x \in DOMAIN config.tests : \E i, k \in DOMAIN config.tests[x] :
             i /= k /\ config.tests[x][i].kind = config.tests[x][k].kind
        \/ \E n \in Everything \cup CounterChecks : n.check = "csrc" /\ Asked(n)

\* A script does all that it is asked to, or ends with a traceback that has a
\* cause; and no numbers that do not fit a check go unnoticed.
AllAskedFor ==
  /\ loop = "ended" => Written /\ \A n \in Everything : ~WrongNumbers(n)
  /\ crashed => Cause

\* docs/procedure.md, of [illegal_csrs]: each line is one CSR to be tested in the
\* modes that it names.
EveryIllegalLine ==
  loop = "ended" => \A l \in config.illegal : Tested("csr_ill", l.addr, l.modes)

\* docs/procedure.md, of [depth]: a more specific name, that of a check on one
\* channel, is used over a less specific one, whatever their order.
SpecificDepth ==
  \A n \in DOMAIN jobs :
    LET ofChannel == {l \in ToSet(config.depth) :
                        /\ Names(l, n) /\ Len(l.values) = Len(Taken(n.check))
                        /\ \A pat \in Patterns(n) : Matches(l.pat, pat) => pat.ch /= None}
    IN  ofChannel /= {} => \E l \in ofChannel : HasNumbers(jobs[n], Taken(n.check), l.values)

\* docs/procedure.md, of the [depth] section of every check: what each of the
\* numbers means, for a check that is given as many as it expects.
DocumentedNumbers ==
  \A n \in DOMAIN jobs :
    LET d == NumbersSaid(config.depth, n)
    IN  Len(d) = Len(Expects(n.check)) => HasNumbers(jobs[n], Expects(n.check), d)

\* A job gets what the manual says of [depth]: the most specific line, and its
\* numbers in their documented meaning.
DepthAsDocumented == SpecificDepth /\ DocumentedNumbers

\* docs/procedure.md, of [assume]: a statement whose pattern begins with a "!"
\* goes to the checks that do not match it, any other one to those that do.
AssumedAsDocumented ==
  \A n \in DOMAIN jobs : \A a \in ToSet(config.assume) :
    Len(a.pats) = 1 =>
      (a \in jobs[n].assumed <=> (Matches(a.pats[1].pat, n) /= a.pats[1].negated))

=============================================================================
