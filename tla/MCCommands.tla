------------------------------ MODULE MCCommands ------------------------------
(* Small sets of commands for the model-checking modules. *)
EXTENDS Commands

CONSTANTS a, b

MCNames == {a, b}

\* A command of the given type whose fields are unused or, as far as the parser
\* links them, not linked yet.
Plain(type) ==
  [type |-> type, can_fail |-> FALSE, name |-> a, cmd_index |-> IndexNotFound,
   store_index |-> FALSE, values |-> {}, is_absolute |-> FALSE,
   comb_type |-> "NONE", invert |-> FALSE, jump_e |-> 1, jump_ne |-> 2]

Named(type, name) == [Plain(type) EXCEPT !.name = name]

Evaluating(type, values) ==
  [Plain(type) EXCEPT !.values = values, !.can_fail = TRUE]

Repeated(values) == [Plain("RepeatEnd") EXCEPT !.values = values]

JumpToStore(name) == [Named("JumpTo", name) EXCEPT !.store_index = TRUE]

Absolute(c) == [c EXCEPT !.is_absolute = TRUE]

\* ?q?, &q? and |q?, with a "!" if invert.
QueryOf(comb, invert) ==
  [Plain("Query") EXCEPT !.comb_type = comb, !.invert = invert]

\* ?e:ne,q?
CustomQuery(e, ne) ==
  [QueryOf("CUSTOM", FALSE) EXCEPT !.jump_e = e, !.jump_ne = ne, !.can_fail = TRUE]

\* Labels of both kinds, the commands whose place is restricted, and queries of
\* every kind, inverted or not.
TextAlphabet ==
  {Plain("Effect"), Plain("InitVar"), JumpToStore(a), Plain("RepeatStart"),
   Repeated({0}), CustomQuery(-1, 1)}
  \union {Named(t, n) : t \in {"JumpTo", "JumpFrom"}, n \in {a, b}}
  \union {QueryOf("NONE", FALSE), QueryOf("AND", TRUE), QueryOf("OR", FALSE),
           QueryOf("OR", TRUE)}

\* Everything that moves the interpreter.
ControlAlphabet ==
  {Evaluating("Effect", {}), Plain("Exit"), Plain("RepeatStart"), Repeated({0}),
   Repeated({2}), Plain("RepeatResetCounters"), Plain("JumpTo"), JumpToStore(a),
   Plain("JumpFrom"), Plain("JumpBack"), Evaluating("JumpToIndex", {-2, 1}),
   Absolute(Evaluating("JumpToIndex", {1, 4})),
   QueryOf("NONE", TRUE), QueryOf("OR", FALSE), CustomQuery(2, -1)}
===============================================================================
