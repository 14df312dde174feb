---------------------------- MODULE MacroMeaning ----------------------------
(***************************************************************************)
(* What a text with macros means: the value of a call is found by          *)
(* recursion over the brackets, what is inside first, without rounds or a  *)
(* text that changes; and what MacroPaster does, compared with it.         *)
(***************************************************************************)
EXTENDS MacroPaster

\* st: the text so far, the next number of @ENUM, the calls made, whether all of
\* them were possible, and what the comparison below needs to know of them
Start == [text |-> <<>>, number |-> 0, calls |-> 0, ok |-> TRUE,
          given |-> TRUE, plain |-> TRUE, nested |-> FALSE, enums |-> 0]

RECURSIVE Meaning(_, _), CallMeaning(_)

\* The value of a text: calls from left to right, each after what is inside it
Meaning(s, st) ==
  IF ~Has(s, "[!") \/ ~st.ok THEN [st EXCEPT !.text = s]
  ELSE LET b == First(s, "[!")
           e == Min({i \in b..Len(s) : s[i] = "!]" /\ Depth(s, "[!", "!]", i) = 0})
           between == SubSeq(s, b + 1, e - 1)
           inside == Meaning(between, [st EXCEPT !.nested = @ \/ Has(between, "[!")])
           value == CallMeaning(inside)
           rest == Meaning(After(s, e), value)
       IN [rest EXCEPT !.text = Before(s, b) \o value.text \o rest.text]

\* The value of the call in st.text
CallMeaning(st) ==
  LET parts == CallParts(st.text)
      name == parts[1]
      n == Len(parts) - 1
      arg == [k \in 1..n |-> Unescape(parts[k + 1])]
      good == /\ st.calls < MaxExpansions
              /\ \A k \in 2..Len(parts) : ~EndsInEscape(parts[k])
              /\ Callable(name, arg)
              /\ name = <<"@FOREACH">> => ~NeverEnds(arg)
      called == [st EXCEPT !.calls = @ + 1]
      Text(s) == [called EXCEPT !.text = s]
      Number(step) == [called EXCEPT !.text = arg[1] \o Decimal(st.number) \o arg[2],
                                     !.number = @ + step, !.enums = @ + 1]
  IN CASE ~st.ok -> st
       [] st.ok /\ ~good -> [st EXCEPT !.ok = FALSE]
       [] OTHER ->
  CASE Defined(name) ->
         LET m == macros[IndexOf(name)]
         IN Meaning(replace_str_list(m.definition,
                      {[r |-> <<":">> \o m.vars[k], w |-> arg[k]] : k \in 1..n}),
                    [called EXCEPT !.given = @ /\ n = Len(m.vars)])
    [] name = <<"@REP">> -> Text(FlattenSeq([i \in 1..strtol(arg[1]) |-> arg[2]]))
    [] name = <<"@FOREACH">> ->
         Text(FlattenSeq([i \in 1 .. n - 2 |->
                replace_str(arg[2], arg[1], arg[i + 2])]))
    [] name = <<"@REPMAC">> ->
         LET times == strtol(arg[1])
             one == <<"[!">> \o arg[4] \o FlattenSeq([i \in 1 .. n - 4 |-> <<":">> \o arg[i + 4]])
                      \o <<"!]">>
         IN Meaning(FlattenSeq([i \in 1..times |-> arg[2] \o one \o arg[3]]),
              [called EXCEPT !.calls = @ + times,
                             !.ok = st.calls + 1 + times <= MaxExpansions,
                             !.plain = @ /\ \A k \in 2..n : ~Has(arg[k], ":") /\ ~Has(arg[k], "\\")])
    [] name = <<"@ENUM">> -> Number(1)
    [] name = <<"@ENUMREV">> -> Number(-1)
    [] name = <<"@ENUM_K">> -> Number(0)
    [] name = <<"@ENUM_S">> -> [Text(<<>>) EXCEPT !.number = strtol(arg[1])]

Commands == IF file_contains_any_macros(file_str) = "HasDefinitions"
            THEN After(file_str, First(file_str, "!!]")) ELSE file_str

\* What the definitions of a text say, printed from what was read of it
Printed == FlattenSeq([m \in DOMAIN macros |->
  <<"[!">> \o macros[m].name
    \o FlattenSeq([k \in DOMAIN macros[m].vars |-> <<":">> \o macros[m].vars[k]])
    \o <<":=">> \o macros[m].definition \o <<"!]">>])

Outside(s, i) == s[i] /= "!]" /\ Depth(s, "[!", "!]", i) = 0

WithoutFiller(s) ==
  LET kept == SelectSeq([i \in DOMAIN s |-> i], LAMBDA i : ~Outside(s, i))
  IN [k \in DOMAIN kept |-> s[kept[k]]]

\* The macros are those of the text: names, variables and definitions read so far,
\* printed, and what is still to be read are what stands between "[!!" and "!!]",
\* brackets in definitions and text between definitions included
\* (shared_string.c ts_macro_paster_process_macros).
MacrosAreTheText ==
  /\ at /= "menu"
  /\ file_contains_any_macros(file_str) = "HasDefinitions"
  /\ BracketsMatch(file_str, "[!!", "!!]")
  => LET defs == first_outermost_bracket(file_str, "[!!", "!!]")
         between == SubSeq(file_str, defs[1] + 1, defs[2] - 1)
     IN Printed \o WithoutFiller(macros_p) = WithoutFiller(between)

\* The macros were read and the brackets of the commands match.
Readable ==
  /\ LET kind == file_contains_any_macros(file_str)
     IN \/ kind \in {"NoMacros", "HasReservedMacros"}
        \/ /\ kind = "HasDefinitions"
           /\ BracketsMatch(file_str, "[!!", "!!]")
           /\ WithoutFiller(macros_p) = <<>>
  /\ BracketsMatch(Commands, "[!", "!]")

\* Macro expansion gives a text its meaning, whatever was expanded before it, and
\* is refused only to a text that has none or needs too many calls.  Left out:
\* calls with too few arguments, which take those of an earlier call; arguments
\* of @REPMAC with an escape, which is lost when it calls itself; and numbers of
\* several @ENUM inside other calls, which count from the deepest calls outwards
\* (shared_string.c ts_macro_paster_expand_macros, reserved_macro.c).
ExpandsToMeaning ==
  at \in {"parse", "error", "refused"} /\ Readable =>
    LET m == Meaning(Commands, Start)
        told == m.given /\ m.plain /\ (m.enums <= 1 \/ ~m.nested)
    IN told => IF at = "parse" THEN m.ok /\ m.text = cmd_str ELSE ~m.ok

\* The same without the exception for escapes: README.md 385 "Backslash '\' can be
\* used to escape characters", 448 "Will output lhs_str[!MACRO:marg1:...:margn!]rhs_str
\* number of n times" (reserved_macro.c rtsmf_repeat_macro).
RepmacRepeats ==
  at \in {"error", "parse"} /\ Readable =>
    LET m == Meaning(Commands, Start)
    IN m.ok /\ m.given /\ m.enums = 0 => at = "parse" /\ m.text = cmd_str

\* A documented macro does not end the player: README.md 434 "[!@ENUM_S:num!] - Set
\* enumeration macro" (reserved_macro.c rtsmf_enumerate_set).
EnumSetWorks == at = "crashed" => call.name /= <<"@ENUM_S">>
=============================================================================
