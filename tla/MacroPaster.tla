---------------------------- MODULE MacroPaster ----------------------------
(***************************************************************************)
(* Macro expansion of a text before the scanner reads it                   *)
(* (ts_macro_paster_t of shared_string.c, reserved_macro.c, parse_file).   *)
(*                                                                         *)
(* A text is a sequence of symbols: the brackets and ":=" are one symbol   *)
(* each, every other character is its own, and the name of a reserved      *)
(* macro is one symbol.  "[!" and "!]" are not neighbours in a file:       *)
(* together they would read "[!!".                                         *)
(*                                                                         *)
(* A call is expanded in place, and what it becomes is read again.  The    *)
(* first of the calls that lie deepest goes first, so a call finds its     *)
(* arguments expanded.  A definition keeps the values of its last call,    *)
(* EnumValue is global and outlives a text.                                *)
(***************************************************************************)
EXTENDS Integers, Sequences, FiniteSets, SequencesExt, FiniteSetsExt, TLC

CONSTANTS Files,          \* the texts that parse_file may be given
          MaxExpansions   \* 100000 in the code

ASSUME FilesAssumption == MaxExpansions \in 0..8

VARIABLES at,               \* where parse_file is, or how it ended
          macros_p,         \* what is left of the definitions
          macros,           \* the definitions, in the order of the text
          cmd_str,          \* the commands, with calls replaced so far
          call,             \* the call that is expanded now
          expansion_count,
          EnumValue,
          file_str          \* the text without its comments

vars == <<at, macros_p, macros, cmd_str, call, expansion_count, EnumValue, file_str>>

-----------------------------------------------------------------------------
\* Symbols and brackets

Reserved == {"@REP", "@REPMAC", "@FOREACH", "@ENUM", "@ENUMREV", "@ENUM_K", "@ENUM_S"}

char_is_key(c) == c \notin Reserved \cup
  {"[!!", "!!]", "[!", "!]", ":=", ":", "\\", "#", "\n", ",", "-"}

char_is_rmacro(c) == char_is_key(c) \/ c \in Reserved

Has(s, c) == \E i \in DOMAIN s : s[i] = c

First(s, c) == Min({i \in DOMAIN s : s[i] = c})

Before(s, i) == SubSeq(s, 1, i - 1)

After(s, i) == SubSeq(s, i + 1, Len(s))

Depth(s, b, e, i) == Cardinality({j \in 1..i : s[j] = b}) - Cardinality({j \in 1..i : s[j] = e})

\* What the two functions below return as depth is 0.
BracketsMatch(s, b, e) ==
  /\ \A i \in DOMAIN s : Depth(s, b, e, i) >= 0
  /\ Depth(s, b, e, Len(s)) = 0

\* Both for a text with matching brackets and at least one.

\* A mutant of first_outermost_bracket: the first end is taken for the matching one.
first_bracket(s, b, e) == <<First(s, b), Min({i \in First(s, b)..Len(s) : s[i] = e})>>

first_outermost_bracket(s, b, e) ==
  LET begin == First(s, b)
  IN <<begin, Min({i \in begin..Len(s) : s[i] = e /\ Depth(s, b, e, i) = 0})>>

first_innermost_bracket(s, b, e) ==
  LET max_depth == Max({Depth(s, b, e, i) : i \in DOMAIN s})
      begin == Min({i \in DOMAIN s : Depth(s, b, e, i) = max_depth})
  IN <<begin, Min({i \in begin..Len(s) : s[i] = e})>>

\* The parts of s between the positions in seps
Split(s, seps) ==
  LET cut == <<0>> \o SelectSeq([i \in DOMAIN s |-> i], LAMBDA i : i \in seps) \o <<Len(s) + 1>>
  IN [k \in 1 .. Len(cut) - 1 |-> SubSeq(s, cut[k] + 1, cut[k + 1] - 1)]

\* Comments go to the end of their line, the newline included.
trim_comments(s) ==
  LET Comment(i) == \E b \in 1..i : s[b] = "#" /\ \A j \in b..i-1 : s[j] /= "\n"
      kept == SelectSeq([i \in DOMAIN s |-> i], LAMBDA i : ~Comment(i))
  IN [k \in DOMAIN kept |-> s[kept[k]]]

file_contains_any_macros(s) ==
  IF ~Has(s, "[!!") THEN IF Has(s, "[!") THEN "HasReservedMacros" ELSE "NoMacros"
  ELSE LET rest == After(s, First(s, "[!!"))
       IN IF Has(rest, "!!]") /\ ~Has(After(rest, First(rest, "!!]")), "[!!")
          THEN "HasDefinitions" ELSE "ImproperBrackets"

\* Every place of s where a node's r begins takes its w; of several the longest.
replace_str_list(s, nodes) ==
  LET from[i \in 1 .. Len(s) + 1] ==
        LET fits == {n \in nodes : IsPrefix(n.r, SubSeq(s, i, Len(s)))}
            best == CHOOSE n \in fits : \A m \in fits : Len(m.r) <= Len(n.r)
        IN IF i > Len(s) THEN <<>>
           ELSE IF fits = {} THEN <<s[i]>> \o from[i + 1]
           ELSE best.w \o from[i + Len(best.r)]
  IN from[1]

replace_str(s, replace, with) == replace_str_list(s, {[r |-> replace, w |-> with]})

-----------------------------------------------------------------------------
\* Calls

\* ":" separates unless a "\" is before it.
CallParts(s) == Split(s, {i \in DOMAIN s : s[i] = ":" /\ (i > 1 => s[i - 1] /= "\\")})

\* The loop over one argument: "\" takes the next symbol as it is, a ":" that an
\* escaped "\" let through ends the argument, "\" at the end is an error.
Unescape(s) ==
  LET from[i \in 1 .. Len(s) + 2] ==
        IF i > Len(s) \/ s[i] = ":" THEN <<>>
        ELSE IF s[i] /= "\\" THEN <<s[i]>> \o from[i + 1]
        ELSE IF i = Len(s) THEN <<"bad">>
        ELSE <<s[i + 1]>> \o from[i + 2]
  IN from[1]

EndsInEscape(s) == Has(Unescape(s), "bad")

\* ts_macro_paster_valid_name
Defined(name) == \E i \in DOMAIN macros : macros[i].name = name

IndexOf(name) == CHOOSE i \in DOMAIN macros : macros[i].name = name

\* replace_str_at at the place of the call
Replaced(with) == Before(cmd_str, call.begin) \o with \o After(cmd_str, call.end)

\* ts_macro_paster_get_val_string: variables with ":" before them, and their values
get_val_string(m) ==
  replace_str_list(m.definition,
    {[r |-> <<":">> \o m.vars[k], w |-> m.values[k]] : k \in DOMAIN m.vars})

\* "%ld" of a number of one digit
Decimal(n) == (IF n < 0 THEN <<"-">> ELSE <<>>) \o <<ToString(IF n < 0 THEN -n ELSE n)>>

Digit == [d \in {"0", "1", "2", "3", "4", "5", "6", "7", "8", "9"} |->
            CHOOSE n \in 0..9 : ToString(n) = d]

\* What the digits at the beginning say, 0 without any
strtol(s) ==
  LET negative == s /= <<>> /\ s[1] = "-"
      digits == IF negative THEN Tail(s) ELSE s
      value[i \in 0..Len(digits)] ==
        IF i = 0 THEN 0
        ELSE IF digits[i] \in DOMAIN Digit THEN 10 * value[i - 1] + Digit[digits[i]]
        ELSE 0
      length == Max({i \in 0..Len(digits) : \A j \in 1..i : digits[j] \in DOMAIN Digit})
  IN IF negative THEN -value[length] ELSE value[length]

\* num_args of the table in R_TS_Macro_Init; the two with -1 test it themselves.
ArgumentsSuffice(name, n) ==
  CASE name \in {"@REP", "@ENUM", "@ENUMREV", "@ENUM_K"} -> n = 2
    [] name = "@ENUM_S" -> n = 1
    [] name = "@FOREACH" -> n >= 3
    [] name = "@REPMAC" -> n >= 4

\* What rtsmf_repeat_string and rtsmf_repeat_macro ask of their number
NumberFits(name, s) == /\ name = "@REP" => strtol(s) > 0
                       /\ name = "@REPMAC" => strtol(s) >= 0

\* A macro or a reserved macro can be called with these arguments.
Callable(name, args) ==
  \/ \E r \in Reserved : /\ name = <<r>>
                         /\ ArgumentsSuffice(r, Len(args))
                         /\ NumberFits(r, args[1])
  \/ Defined(name) /\ Len(args) <= Len(macros[IndexOf(name)].vars)

-----------------------------------------------------------------------------
NoCall == [begin |-> 0, end |-> 0, name |-> <<>>, args |-> <<>>]

Init == /\ at = "menu" /\ call = NoCall
        /\ macros_p = <<>> /\ macros = <<>> /\ cmd_str = <<>> /\ file_str = <<>>
        /\ expansion_count = 0
        /\ EnumValue = 0

\* A mutant of R_TS_Macro_ResetState: numbers go on from text to text.
NoResetState == UNCHANGED EnumValue

R_TS_Macro_ResetState == EnumValue' = 0

\* parse_file up to the choice between the kinds of text, with the search for the
\* definitions that ts_macro_paster_process_macros begins with
ReadFile(f) ==
  LET s == trim_comments(f)
      kind == file_contains_any_macros(s)
      match == BracketsMatch(s, "[!!", "!!]")
      defs == first_outermost_bracket(s, "[!!", "!!]")
      between == SubSeq(s, defs[1] + 1, defs[2] - 1)
  IN /\ file_str' = s
     /\ R_TS_Macro_ResetState
     /\ macros' = <<>> /\ call' = NoCall
     /\ expansion_count' = 0
     /\ at' = CASE kind = "NoMacros" -> "parse"
                [] kind = "HasReservedMacros" -> "expand"
                [] kind = "ImproperBrackets" -> "error"
                [] kind = "HasDefinitions" /\ ~match -> "error"
                [] kind = "HasDefinitions" /\ match /\ between = <<>> -> "crashed"
                [] OTHER -> "define"
     /\ macros_p' = IF at' = "define" THEN between ELSE <<>>
     /\ cmd_str' = IF at' = "define" THEN After(s, First(s, "!!]"))
                   ELSE IF at' \in {"parse", "expand"} THEN s ELSE <<>>

\* One round of the loop of ts_macro_paster_process_macros: name, variables and
\* definition of one macro, or the first thing that is wrong with it
DefineMacro ==
  LET bracket == first_outermost_bracket(macros_p, "[!", "!]")
      full == SubSeq(macros_p, bracket[1] + 1, bracket[2] - 1)
      head == Before(full, First(full, ":="))
      parts == Split(head, {i \in DOMAIN head : head[i] = ":"})
      good == /\ Has(full, ":=")
              /\ \A i \in DOMAIN head : head[i] = ":" \/ char_is_key(head[i])
              /\ \A k \in DOMAIN parts : parts[k] /= <<>>
              /\ \A j, k \in 2..Len(parts) : parts[j] = parts[k] => j = k
              /\ ~Defined(parts[1])
  IN /\ at = "define"
     /\ BracketsMatch(macros_p, "[!", "!]") => Has(macros_p, "[!")
     /\ IF BracketsMatch(macros_p, "[!", "!]") /\ good
        THEN /\ macros' = Append(macros, [name |-> parts[1], vars |-> Tail(parts),
                            definition |-> After(full, First(full, ":=")),
                            values |-> [k \in 1 .. Len(parts) - 1 |-> <<>>]])
             /\ macros_p' = After(macros_p, bracket[2])
             /\ UNCHANGED at
        ELSE at' = "error" /\ UNCHANGED <<macros, macros_p>>
     /\ UNCHANGED <<cmd_str, call, expansion_count, EnumValue, file_str>>

AllDefined ==
  /\ at = "define"
  /\ BracketsMatch(macros_p, "[!", "!]") /\ ~Has(macros_p, "[!")
  /\ at' = "expand"
  /\ UNCHANGED <<macros_p, macros, cmd_str, call, expansion_count, EnumValue, file_str>>

\* ts_macro_paster_expand_macros at the top of its loop
Stop(result) ==
  /\ at' = result
  /\ UNCHANGED <<macros_p, macros, cmd_str, call, expansion_count, EnumValue, file_str>>

TooMany == expansion_count > MaxExpansions

Matching == BracketsMatch(cmd_str, "[!", "!]")

RefuseRecursion == at = "expand" /\ TooMany /\ Stop("refused")

Mismatched == at = "expand" /\ ~TooMany /\ ~Matching /\ Stop("error")

AllExpanded == at = "expand" /\ ~TooMany /\ Matching /\ ~Has(cmd_str, "[!") /\ Stop("parse")

\* Name and arguments of the call that goes next; char_string_slice asserts that
\* there is something between the brackets.
ReadCall ==
  LET bracket == first_innermost_bracket(cmd_str, "[!", "!]")
      between == SubSeq(cmd_str, bracket[1] + 1, bracket[2] - 1)
      parts == CallParts(between)
      name == parts[1]
      good == /\ \A i \in DOMAIN name : char_is_rmacro(name[i])
              /\ \A k \in 2..Len(parts) : ~EndsInEscape(parts[k])
  IN /\ at = "expand" /\ ~TooMany /\ Matching /\ Has(cmd_str, "[!")
     /\ IF between = <<>> THEN at' = "crashed" /\ UNCHANGED call
        ELSE IF ~good THEN at' = "error" /\ UNCHANGED call
        ELSE /\ at' = "call"
             /\ call' = [begin |-> bracket[1], end |-> bracket[2], name |-> name,
                         args |-> [k \in 1 .. Len(parts) - 1 |-> Unescape(parts[k + 1])]]
     /\ UNCHANGED <<macros_p, macros, cmd_str, expansion_count, EnumValue, file_str>>

\* A name nobody defined, too many arguments of a macro, too few of a reserved one
BadCall == at = "call" /\ ~Callable(call.name, call.args) /\ Stop("error")

\* The end of a round: the call is replaced.
Expand(name, with) ==
  /\ at = "call" /\ call.name = name /\ Callable(name, call.args)
  /\ at' = "expand"
  /\ cmd_str' = Replaced(with)
  /\ expansion_count' = expansion_count + 1
  /\ call' = NoCall
  /\ UNCHANGED <<macros_p, file_str>>

\* Values that the call does not give stay those of the call before.
ExpandMacro ==
  \E m \in DOMAIN macros :
    LET values == [k \in DOMAIN macros[m].vars |->
                     IF k <= Len(call.args) THEN call.args[k] ELSE macros[m].values[k]]
        filled == [macros[m] EXCEPT !.values = values]
    IN /\ Expand(macros[m].name, get_val_string(filled))
       /\ macros' = [macros EXCEPT ![m] = filled]
       /\ UNCHANGED EnumValue

\* rtsmf_repeat_string
RepeatString ==
  /\ Expand(<<"@REP">>, FlattenSeq([i \in 1..strtol(call.args[1]) |-> call.args[2]]))
  /\ UNCHANGED <<macros, EnumValue>>

\* rtsmf_repeat_macro: one call of the macro and a call of itself for the rest
RepeatMacro ==
  LET n == strtol(call.args[1])
      lhs == call.args[2]
      rhs == call.args[3]
      macro == FlattenSeq([i \in 1 .. Len(call.args) - 3 |->
                 IF i = 1 THEN call.args[4] ELSE <<":">> \o call.args[i + 3]])
      once == lhs \o <<"[!">> \o macro \o <<"!]">> \o rhs
      again == <<"[!", "@REPMAC", ":">> \o Decimal(n - 1) \o <<":">> \o lhs \o <<":">> \o rhs
                 \o <<":">> \o macro \o <<"!]">>
  IN /\ Expand(<<"@REPMAC">>, IF n = 0 THEN <<>> ELSE once \o again)
     /\ UNCHANGED <<macros, EnumValue>>

\* rtsmf_for_each; replace_str never gets past an empty string to be replaced, and
\* may fill the memory.
NeverEnds(args) == args[1] = <<>> /\ args[2] /= <<>>

ForEach ==
  /\ at = "call" /\ Callable(<<"@FOREACH">>, call.args) /\ ~NeverEnds(call.args)
  /\ Expand(<<"@FOREACH">>,
       FlattenSeq([i \in 1 .. Len(call.args) - 2 |->
         replace_str(call.args[2], call.args[1], call.args[i + 2])]))
  /\ UNCHANGED <<macros, EnumValue>>

ForEachHangs == /\ at = "call" /\ call.name = <<"@FOREACH">> /\ Callable(call.name, call.args)
                /\ NeverEnds(call.args)
                /\ Stop("hangs")

\* rtsmf_enumerate, rtsmf_enumerate_reverse, rtsmf_enumerate_keep
Enumerate(name, step) ==
  /\ Expand(<<name>>, call.args[1] \o Decimal(EnumValue) \o call.args[2])
  /\ EnumValue' = EnumValue + step
  /\ UNCHANGED macros

\* rtsmf_enumerate_set leaves the pointer to its output as it was: the text is
\* replaced by what an uninitialized pointer points to, which is then freed.
SetEnumeration ==
  /\ at = "call" /\ call.name = <<"@ENUM_S">> /\ Callable(call.name, call.args)
  /\ EnumValue' = strtol(call.args[1])
  /\ at' = "crashed"
  /\ UNCHANGED <<macros_p, macros, cmd_str, call, expansion_count, file_str>>

\* parse_file returns; the text and its macros are freed.
Return ==
  /\ at \in {"parse", "error", "refused"}
  /\ at' = "menu"
  /\ macros_p' = <<>> /\ macros' = <<>> /\ cmd_str' = <<>> /\ file_str' = <<>>
  /\ expansion_count' = 0 /\ call' = NoCall
  /\ UNCHANGED EnumValue

Next == \/ at = "menu" /\ \E f \in Files : ReadFile(f)
        \/ DefineMacro \/ AllDefined
        \/ RefuseRecursion \/ Mismatched \/ AllExpanded \/ ReadCall \/ BadCall
        \/ ExpandMacro \/ RepeatString \/ RepeatMacro \/ ForEach \/ ForEachHangs
        \/ Enumerate("@ENUM", 1) \/ Enumerate("@ENUMREV", -1) \/ Enumerate("@ENUM_K", 0)
        \/ SetEnumeration
        \/ Return

Spec == Init /\ [][Next]_vars
=============================================================================
