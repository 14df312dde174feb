----------------------------- MODULE RPNEvaluator -----------------------------
(* The evaluation of RPN strings (rpn_evaluator.c) over the variables of a    *)
(* macro (variable_loader.c): the parser evaluates every string once without  *)
(* calculating, to find its errors; the run evaluates it again and again      *)
(* while commands change the variables.  One step takes one token.            *)
(* A number is its type and its sign.  The tokens of a string are chosen as   *)
(* the check comes to them.                                                   *)
EXTENDS Integers, Sequences, FiniteSets

CONSTANTS Tokens,       \* the tokens strings are made of
          VarNames,     \* the names a macro initialises
          VarCapacity,  \* how many variables vl has room for (400)
          MaxTokens     \* the longest string: a bound of the model

ASSUME BoundsAssumption == VarCapacity \in Nat /\ MaxTokens \in Nat

VARIABLES vl,             \* the variables of the macro
          rpn_vars,       \* DefaultRPNVariablesMap
          rpn_str,        \* the tokens of the string
          at,             \* parse, evaluate, run, refused (the text or the run), killed
          process_num,    \* whether the evaluation calculates
          use,            \* what its result is for
          token_i,        \* the token it comes to
          stack_an,       \* the numbers
          DividedByZero, BitShiftNegative,
          status,         \* what the last evaluation returned
          trace           \* history: the types of the stack at each token of the check

vars == <<vl, rpn_vars, rpn_str, at, process_num, use, token_i, stack_an,
          DividedByZero, BitShiftNegative, status, trace>>

-----------------------------------------------------------------------------
(* Numbers.                                                                   *)

VLNT_Char == 1      \* VLNumberType
VLNT_Int == 2
VLNT_Long == 3
VLNT_Double == 4
Types == 1 .. 4

\* "lowest" is the number of a type whose negation it cannot hold.
Signs == {"lowest", "negative", "zero", "positive"}
Numbers == [type : Types, sign : Signs]
Number(t, s) == [type |-> t, sign |-> s]
Zero(t) == Number(t, "zero")

\* A narrower type may hold anything but what is zero already.
CastSigns(n, type) ==
  IF n.sign = "zero" THEN {"zero"}
  ELSE IF n.type > type THEN Signs
  ELSE IF n.type < type /\ n.sign = "lowest" THEN {"negative"} ELSE {n.sign}

Cast(n, type) == {Number(type, s) : s \in CastSigns(n, type)}

\* ARGS_CAST passes every argument through double, which rounds the longs
\* near the ends of their range: the greatest comes back as the lowest.
ArgSigns(n, type) ==
  CastSigns(n, type) \cup
  (IF n.type = VLNT_Long /\ type >= VLNT_Long /\ n.sign # "zero" THEN {"lowest"} ELSE {})

\* Tokens that are read as a number, one or two for each type.  A letter of a
\* type alone, and no letter at all, is zero.
Zeros == [t \in {"", "0", "l", "i", "0i", "c", "0c", "d", "0.0"} |->
            CASE t \in {"", "0", "l"} -> VLNT_Long [] t \in {"i", "0i"} -> VLNT_Int
              [] t \in {"c", "0c"} -> VLNT_Char [] OTHER -> VLNT_Double]

Literals ==
  [t \in DOMAIN Zeros \cup {"1", "-1i", "1c", "-1.5"} |->
     CASE t = "1"    -> Number(VLNT_Long, "positive")
       [] t = "-1i"  -> Number(VLNT_Int, "negative")
       [] t = "1c"   -> Number(VLNT_Char, "positive")
       [] t = "-1.5" -> Number(VLNT_Double, "negative")
       [] OTHER -> Zero(Zeros[t])]

-----------------------------------------------------------------------------
(* The functions of DefaultRPNFunctionMap.                                    *)

Function(n, type, checks) == [num_args |-> n, return_type |-> type, checks |-> checks]
NoFunction == [num_args |-> 0, return_type |-> 0, checks |-> "none"]

\* Names with a function of their own.
PlainNoArgs == {"PI", "random_c", "random_i", "random_l", "random_d"}
PlainBinary == {"pow", "hypot", "&&", "||"}
PlainUnary  == {"exp", "exp2", "log", "log2", "log10", "sqrt", "cbrt", "sin", "cos",
  "tan", "asin", "acos", "atan", "sinh", "cosh", "tanh", "asinh", "acosh", "atanh",
  "sind", "cosd", "tand", "asind", "acosd", "atand", "sinhd", "coshd", "tanhd",
  "asinhd", "acoshd", "atanhd", "ceil", "floor", "round", "trunc", "as_d",
  "as_c", "as_i", "as_l", "!"}

PlainType(f) ==
  CASE f \in {"random_c", "as_c"} -> VLNT_Char
    [] f \in {"random_i", "as_i", "!", "&&", "||"} -> VLNT_Int
    [] f \in {"random_l", "as_l"} -> VLNT_Long
    [] OTHER -> VLNT_Double

Plain ==
  [f \in PlainNoArgs \cup PlainUnary \cup PlainBinary |->
     Function(CASE f \in PlainNoArgs -> 0 [] f \in PlainBinary -> 2 [] OTHER -> 1,
              PlainType(f), "none")]

\* RPNFT_Null: a name whose functions are those of the types.
Null == {"abs", "max", "min", "maxu", "minu"}

\* Names with a function for each type; a double has none of those in Integral.
Unary       == {"++", "-m", "--", "abs", "~"}
Binary      == {"+", "-", "*", "max", "min", "maxu", "minu", "&", "|", "^"}
Divisions   == {"/", "%", "/u", "%u"}
Shifts      == {"<<", "<<u", ">>", ">>u"}
Comparisons == {"==", "!=", ">", "<", ">=", "<=", "==u", "!=u", ">u", "<u", ">=u", "<=u"}
Ternary     == {"b?t:f"}
Integral    == {"~", "maxu", "minu", "&", "|", "^", "/u", "%u", "==u", "!=u", ">u",
                "<u", ">=u", "<=u"} \cup Shifts

Prefixed == Unary \cup Binary \cup Divisions \cup Shifts \cup Comparisons \cup Ternary

\* What keeps a function of integers from calculating.  Two chars are divided
\* as ints, and unsigned numbers have no lowest one.
Checks(f, type) ==
  CASE f \in Shifts -> "negative"
    [] f \in {"/", "%"} /\ type \in {VLNT_Int, VLNT_Long} -> "zero and lowest"
    [] f \in Divisions /\ (f \in {"/", "%"} => type = VLNT_Char) -> "zero"
    [] OTHER -> "none"

PrefixedFunction ==
  [type \in Types |->
     [f \in Prefixed \ (IF type = VLNT_Double THEN Integral ELSE {}) |->
        Function(CASE f \in Unary -> 1 [] f \in Ternary -> 3 [] OTHER -> 2,
                 IF f \in Comparisons THEN VLNT_Int ELSE type,
                 Checks(f, type))]]

\* A function of one type has a name of its own, too: __c+ is that of char.
NamePrefix == <<"__c", "__i", "__l", "__d">>

OneType == {p \in Types \X Prefixed : p[2] \in DOMAIN PrefixedFunction[p[1]]}

NameOf(p) == NamePrefix[p[1]] \o p[2]

OneTypeFunction ==
  [f \in {NameOf(p) : p \in OneType} |->
     LET p == CHOOSE p \in OneType : NameOf(p) = f IN PrefixedFunction[p[1]][p[2]]]

\* rpn_f_num_args: that of the last type with a function of the name.
NumArgs(f) ==
  IF f \in Prefixed THEN PrefixedFunction[VLNT_Char][f].num_args ELSE 0

\* The greatest type among the last n of the stack; 0 when there is none.
HighestType(types, n) ==
  LET top == {types[j] : j \in {j \in DOMAIN types : j > Len(types) - n}}
  IN  IF top = {} THEN 0 ELSE CHOOSE t \in top : \A u \in top : u <= t

\* The function a name stands for when the stack has numbers of these types.
FunctionFor(f, types) ==
  LET type == HighestType(types, NumArgs(f))
  IN  CASE f \in DOMAIN Plain -> Plain[f]
        [] f \in DOMAIN OneTypeFunction \ DOMAIN Plain -> OneTypeFunction[f]
        [] f \notin DOMAIN Plain \cup DOMAIN OneTypeFunction /\ NumArgs(f) > 0 /\ type \in Types
             /\ f \in DOMAIN PrefixedFunction[type] -> PrefixedFunction[type][f]
        [] OTHER -> NoFunction

IsFunctionName(f) ==
  f \in DOMAIN Plain \cup DOMAIN OneTypeFunction \cup Null \cup Prefixed

-----------------------------------------------------------------------------
(* What a token is.                                                           *)

TypesOf(stack) == [j \in DOMAIN stack |-> stack[j].type]

IsVar(t) == t \in DOMAIN vl

Reading(t, types) ==
  CASE t \in DOMAIN Literals -> "IsNumber"
    [] t \notin DOMAIN Literals /\ t \in DOMAIN rpn_vars -> "IsRPNVar"
    [] t \notin DOMAIN Literals \cup DOMAIN rpn_vars /\ IsFunctionName(t) /\ IsVar(t)
         -> "NameFunctionCollision"
    [] t \notin DOMAIN Literals \cup DOMAIN rpn_vars /\ IsFunctionName(t) /\ ~IsVar(t)
         -> IF FunctionFor(t, types) = NoFunction THEN "NameUndefined"
            ELSE IF Len(types) < FunctionFor(t, types).num_args THEN "NotEnoughNumbers"
            ELSE "IsFunction"
    [] OTHER -> IF IsVar(t) THEN "IsVLName" ELSE "NameUndefined"

Operands == {"IsNumber", "IsRPNVar", "IsVLName"}

Operand(t) ==
  IF t \in DOMAIN Literals THEN Literals[t]
  ELSE IF t \in DOMAIN rpn_vars THEN rpn_vars[t] ELSE vl[t]

-----------------------------------------------------------------------------
(* An evaluation.                                                             *)

\* A mutant of Starts: the flags are not reset.
StartsUnreset(process, for) ==
  /\ at' = "evaluate"
  /\ process_num' = process /\ use' = for
  /\ token_i' = 1 /\ stack_an' = << >>
  /\ UNCHANGED <<DividedByZero, BitShiftNegative>>

Starts(process, for) ==
  /\ at' = "evaluate"
  /\ process_num' = process /\ use' = for
  /\ token_i' = 1 /\ stack_an' = << >>
  /\ DividedByZero' = FALSE /\ BitShiftNegative' = FALSE

\* RuntimeExitIfProcessVLFalse ends the run when the evaluation has failed;
\* PrintString does not look; a string that fails the check refuses the text.
Ends(s) ==
  /\ status' = s
  /\ at' = CASE s = "SIGFPE" -> "killed"
              [] s = "Ok" \/ (use = "print" /\ s # "SIGFPE") -> "run"
              [] OTHER -> "refused"

NextToken(t) ==
  /\ at = "evaluate"
  /\ IF process_num THEN token_i <= Len(rpn_str) /\ t = rpn_str[token_i]
                    ELSE token_i <= MaxTokens
  /\ rpn_str' = IF process_num THEN rpn_str ELSE Append(rpn_str, t)

\* The stack after a token; the check notes its types.
Leaves(stack) ==
  /\ stack_an' = stack
  /\ token_i' = token_i + 1
  /\ trace' = IF process_num THEN trace ELSE Append(trace, TypesOf(stack))

PushOperand(t) ==
  /\ NextToken(t)
  /\ Reading(t, TypesOf(stack_an)) \in Operands
  /\ Leaves(Append(stack_an, Operand(t)))
  /\ UNCHANGED <<vl, rpn_vars, at, process_num, use, DividedByZero, BitShiftNegative, status>>

\* The flags are global: a function is at fault when they are set already.
Stale == (IF DividedByZero THEN {"DivisionByZero"} ELSE {}) \cup
         (IF BitShiftNegative THEN {"NegativeBitShift"} ELSE {})

Popped(n) == SubSeq(stack_an, 1, Len(stack_an) - n)

\* A mutant of SkipFunction: what the check pushes is always a long.
SkipFunctionLong(t) ==
  LET f == FunctionFor(t, TypesOf(stack_an))
  IN  /\ NextToken(t)
      /\ ~process_num /\ Stale = {}
      /\ Reading(t, TypesOf(stack_an)) = "IsFunction"
      /\ Leaves(Append(Popped(f.num_args), Zero(VLNT_Long)))
      /\ UNCHANGED <<vl, rpn_vars, at, process_num, use, DividedByZero, BitShiftNegative, status>>

\* The check pushes a zero of the function's type without calling it.
SkipFunction(t) ==
  LET f == FunctionFor(t, TypesOf(stack_an))
  IN  /\ NextToken(t)
      /\ ~process_num /\ Stale = {}
      /\ Reading(t, TypesOf(stack_an)) = "IsFunction"
      /\ Leaves(Append(Popped(f.num_args), Zero(f.return_type)))
      /\ UNCHANGED <<vl, rpn_vars, at, process_num, use, DividedByZero, BitShiftNegative, status>>

\* The signs the first and the second argument can have when f gets them.
ArgSign(f, i) == ArgSigns(stack_an[Len(stack_an) - f.num_args + i], f.return_type)

\* The faults of a call.  The quotient of the lowest number and -1, which is
\* one of the negative ones, is undefined and traps.
Faults(f) ==
  CASE f.checks = "none" -> {}
    [] f.checks = "negative" ->
         IF ArgSign(f, 2) \cap {"lowest", "negative"} # {} THEN {"NegativeBitShift"} ELSE {}
    [] OTHER ->
         (IF "zero" \in ArgSign(f, 2) THEN {"DivisionByZero"} ELSE {}) \cup
         (IF f.checks = "zero and lowest" /\ "lowest" \in ArgSign(f, 1)
             /\ "negative" \in ArgSign(f, 2) THEN {"SIGFPE"} ELSE {})

Calculates(f) ==
  CASE f.checks = "none" -> TRUE
    [] f.checks = "negative" -> ArgSign(f, 2) \cap {"zero", "positive"} # {}
    [] OTHER -> ArgSign(f, 2) # {"zero"}

CallFunction(t) ==
  LET f == FunctionFor(t, TypesOf(stack_an))
  IN  /\ NextToken(t)
      /\ process_num /\ Stale = {}
      /\ Reading(t, TypesOf(stack_an)) = "IsFunction"
      /\ Calculates(f)
      /\ \E s \in Signs : Leaves(Append(Popped(f.num_args), Number(f.return_type, s)))
      /\ UNCHANGED <<vl, rpn_vars, at, process_num, use, DividedByZero, BitShiftNegative, status>>

FaultyFunction(t) ==
  LET f == FunctionFor(t, TypesOf(stack_an))
  IN  /\ NextToken(t)
      /\ Reading(t, TypesOf(stack_an)) = "IsFunction"
      /\ \E fault \in Stale \cup (IF process_num THEN Faults(f) ELSE {}) :
           /\ DividedByZero' = (DividedByZero \/ fault = "DivisionByZero")
           /\ BitShiftNegative' = (BitShiftNegative \/ fault = "NegativeBitShift")
           /\ Ends(fault)
      /\ UNCHANGED <<vl, rpn_vars, process_num, use, token_i, stack_an, trace>>

WrongToken(t) ==
  /\ NextToken(t)
  /\ Reading(t, TypesOf(stack_an)) \notin Operands \cup {"IsFunction"}
  /\ Ends(Reading(t, TypesOf(stack_an)))
  /\ UNCHANGED <<vl, rpn_vars, process_num, use, token_i, stack_an, DividedByZero,
                 BitShiftNegative, trace>>
=============================================================================
