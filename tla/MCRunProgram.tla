----------------------------- MODULE MCRunProgram -----------------------------
(***************************************************************************)
(* Small programs for RunProgram, already linked: ProgramsAssumption makes *)
(* TLC check that the parser could have let them through.  Comments give   *)
(* the text they stand for.                                                *)
(***************************************************************************)
EXTENDS CountedLoops, MCCommands

Rep(start, values) ==
  [Repeated(values) EXCEPT !.cmd_index = start]
RepRPN(start, values) == [Rep(start, values) EXCEPT !.can_fail = TRUE]
JT(target) == [Plain("JumpTo") EXCEPT !.cmd_index = target]
JTS(target) == [JumpToStore(a) EXCEPT !.cmd_index = target]
JTI(absolute, values) ==
  [Evaluating("JumpToIndex", values) EXCEPT !.is_absolute = absolute]
Q(e, ne, inv) == [CustomQuery(e, ne) EXCEPT !.invert = inv]

\* A sequence of commands as a program.
Prog(s) == [size |-> Len(s), cmds |-> [i \in 0 .. Len(s) - 1 |-> s[i + 1]]]

Start == Plain("RepeatStart")
Pass  == Plain("Effect")
Eval  == Evaluating("Effect", {})
Await == Evaluating("Wait", {})
From  == Plain("JumpFrom")
Back  == Plain("JumpBack")

JumpingPrograms == {
  \* JTS>f; exit; JF>f; q1? JTS>f; JB>;
  Prog(<<JTS(2), Plain("Exit"), From, Q(1, 2, FALSE), JTS(2), Back>>),
  \* (A; ?!q? JT>out; effect; )A=3; JF>out; rep_reset? JT>again ...
  Prog(<<From, Start, Q(1, 2, TRUE), JT(5), Rep(1, {3}), From, Eval,
         Q(1, 2, FALSE), Plain("RepeatResetCounters"), JT(0)>>),
  \* JTIA> and JTIR> with values in and out of bounds
  Prog(<<Eval, JTI(FALSE, {-2, -1, 0, 1, 3}), JTI(TRUE, {0, 1, 4, 5, -3}), Pass>>),
  \* JTIR> with a value that overflows the sum
  Prog(<<Pass, JTI(FALSE, {IntMax, IntMin}), Pass>>),
  \* queries with custom jumps backwards, and a repeat that counts by an RPN value
  Prog(<<Start, Q(2, 1, FALSE), Q(1, -2, TRUE), RepRPN(0, {0, 2, -1}), Back>>),
  \* (A; )A;
  Prog(<<Start, Rep(0, {0})>>),
  \* (A; wait; ?q? JTS>f; effect; )A=2; wait; JF>f; effect;
  Prog(<<Start, Await, Q(1, 2, FALSE), JTS(7), Pass, Rep(0, {2}), Await, From, Pass>>),
  \* JB>;
  Prog(<<Back>>)}

\* Programs whose loops are counted and whose queries and jumps go forwards.
CountedPrograms == {
  Prog(<<Start, Pass, Rep(0, {1}), Pass>>),
  Prog(<<Start, Pass, Rep(0, {3})>>),
  Prog(<<Start, Start, Pass, Rep(1, {2}), Rep(0, {3})>>),
  Prog(<<Start, Start, Rep(1, {3}), Start, Eval, Rep(3, {2}), Rep(0, {2}), Pass>>),
  Prog(<<Start, Start, Start, Rep(2, {2}), Rep(1, {2}), Rep(0, {2})>>),
  \* ?q? (A; ?q? effect; (B; )B=2; JT>in; effect; JF>in; )A=3; effect;
  Prog(<<Q(1, 10, FALSE), Start, Q(1, 2, TRUE), Pass, Start, Rep(4, {2}), JT(8), Pass,
         From, Rep(1, {3}), Pass>>)}

\* effect; (A; effect; ?1:-1,q? (B; )B=2; )A=2; ?-7:1,q? effect;
CirclingPrograms == {
  Prog(<<Pass, Start, Pass, Q(1, -1, FALSE), Start, Rep(4, {2}), Rep(1, {2}),
         Q(-7, 1, FALSE), Pass>>)}

\* (A; effect; )A=2; )A=2;
TwoEndsPrograms == {Prog(<<Start, Pass, Rep(0, {2}), Rep(0, {2})>>)}

AllPrograms == JumpingPrograms \union CountedPrograms \union CirclingPrograms

\* A program whose loops are all counted ends by itself.
CountedRunsEnd ==
  program \in CountedPrograms /\ pc = "check" ~> pc = "idle"
===============================================================================
