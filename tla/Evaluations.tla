----------------------------- MODULE Evaluations -----------------------------
(* The life of an RPN string: the InitVar commands of a text give vl its      *)
(* variables, the parser checks the string, and commands of the run evaluate  *)
(* it for a number, to edit a variable or to print, while the player and      *)
(* other commands change the variables.                                       *)
EXTENDS RPNEvaluator

CONSTANT InitNumbers    \* the values InitVar commands give

ASSUME InitNumbersAssumption == InitNumbers \subseteq Numbers

\* The variables of the player, and their types.
RPNVarTypes ==
  [v \in {"@mma_x", "@mma_y", "@ci_now", "@ci_prev", "@ci_last", "@time_s", "@time_ns"} |->
     IF v \in {"@time_s", "@time_ns"} THEN VLNT_Long ELSE VLNT_Int]

\* Those that strings name; all begin with 0 or 1.
InitRPNVars ==
  [v \in DOMAIN RPNVarTypes \cap Tokens |->
     Number(RPNVarTypes[v],
            IF v \in {"@ci_now", "@ci_prev", "@ci_last"} THEN "positive" ELSE "zero")]

Init ==
  /\ vl = << >> /\ rpn_vars = InitRPNVars
  /\ rpn_str = << >> /\ trace = << << >> >>
  /\ at = "parse" /\ process_num = FALSE /\ use = "check"
  /\ token_i = 1 /\ stack_an = << >>
  /\ DividedByZero = FALSE /\ BitShiftNegative = FALSE
  /\ status = "none"

evaluation == <<process_num, use, token_i, stack_an, DividedByZero, BitShiftNegative>>

VarsFull == Cardinality(DOMAIN vl) = VarCapacity

\* What assign leaves of the variables: a full map refuses every assignment.
Assigned(v, n) ==
  IF VarsFull THEN vl
  ELSE [w \in DOMAIN vl \cup {v} |-> IF w = v THEN n ELSE vl[w]]

\* A name that is there already is an error; one without room is not.
InitVar(v, n) ==
  /\ at = "parse"
  /\ vl' = Assigned(v, n)
  /\ at' = IF IsVar(v) /\ ~VarsFull THEN "refused" ELSE "parse"
  /\ UNCHANGED <<rpn_vars, rpn_str, evaluation, status, trace>>

CheckString ==
  /\ at = "parse"
  /\ Starts(FALSE, "check")
  /\ UNCHANGED <<vl, rpn_vars, rpn_str, status, trace>>

\* "()", or brackets inside that are not paired.
NoTokens ==
  /\ at = "evaluate" /\ ~process_num /\ rpn_str = << >>
  /\ \E s \in {"NotEnoughNumbers", "ImproperBrackets"} : Ends(s)
  /\ UNCHANGED <<vl, rpn_vars, rpn_str, evaluation, trace>>

AllRead == token_i > 1 /\ (process_num => token_i > Len(rpn_str))

TooManyNumbers ==
  /\ at = "evaluate" /\ AllRead
  /\ Len(stack_an) # 1
  /\ Ends("TooManyNumbers")
  /\ UNCHANGED <<vl, rpn_vars, rpn_str, evaluation, trace>>

\* A mutant of Rewritten: the variable takes the type of the number.
RewrittenUncast(v, n) == {Assigned(v, n)}

\* The number is returned, and cast to the type of the variable it is for.
Rewritten(v, n) == {Assigned(v, m) : m \in Cast(n, vl[v].type)}

ResultOk ==
  /\ at = "evaluate" /\ AllRead
  /\ Len(stack_an) = 1
  /\ Ends("Ok")
  /\ IF use = "edit" THEN \E v \in DOMAIN vl : vl' \in Rewritten(v, stack_an[1])
                     ELSE vl' = vl
  /\ UNCHANGED <<rpn_vars, rpn_str, evaluation, trace>>

\* A command of the run that evaluates the string.  EditVar names a variable
\* that the parser has found in vl.
Evaluate(for) ==
  /\ at = "run"
  /\ for = "edit" => DOMAIN vl # {}
  /\ Starts(TRUE, for)
  /\ UNCHANGED <<vl, rpn_vars, rpn_str, status, trace>>

\* The loop of run_program and CMD_SaveMouseCoords set the player's variables.
AssignVar(v, s) ==
  /\ at = "run" /\ v \in DOMAIN rpn_vars
  /\ v \notin {"@mma_x", "@mma_y"} => s \in {"zero", "positive"}
  /\ rpn_vars' = [rpn_vars EXCEPT ![v] = Number(RPNVarTypes[v], s)]
  /\ UNCHANGED <<vl, rpn_str, at, evaluation, status, trace>>

\* The next text, in a new player when a trap has killed this one.
NewText ==
  /\ at \in {"run", "refused", "killed"}
  /\ rpn_vars' = IF at = "killed" THEN InitRPNVars ELSE rpn_vars
  /\ vl' = << >> /\ rpn_str' = << >> /\ trace' = << << >> >>
  /\ at' = "parse" /\ status' = "none"
  /\ process_num' = FALSE /\ use' = "check" /\ token_i' = 1 /\ stack_an' = << >>
  /\ DividedByZero' = (DividedByZero /\ at # "killed")
  /\ BitShiftNegative' = (BitShiftNegative /\ at # "killed")

ReadToken ==
  \E t \in Tokens : PushOperand(t) \/ SkipFunction(t) \/ CallFunction(t)
                      \/ FaultyFunction(t) \/ WrongToken(t)

Next ==
  \/ \E v \in VarNames, n \in InitNumbers : InitVar(v, n)
  \/ CheckString \/ NoTokens \/ TooManyNumbers \/ ResultOk \/ ReadToken
  \/ \E for \in {"number", "edit", "print"} : Evaluate(for)
  \/ \E v \in DOMAIN rpn_vars, s \in Signs : AssignVar(v, s)
  \/ NewText

Spec == Init /\ [][Next]_vars

-----------------------------------------------------------------------------
(* Properties.                                                                *)

\* What an evaluation of the run may return beside Ok.
RunErrors == {"DivisionByZero", "NegativeBitShift", "SIGFPE"}

\* A string that the parser has checked without calculating (parser.c:2168)
\* fails in the run by arithmetic alone: names, functions for the types of the
\* numbers, and the count of the numbers are what they were at the check,
\* whatever the commands in between have done to the variables.
CheckIsEnough ==
  process_num /\ at # "evaluate" => status \in RunErrors \cup {"Ok"}

\* At every token of the run the stack holds numbers of the types it held at
\* that token of the check, although variables have been edited, values come
\* from other casts, and the check has called no function.
TypesAsChecked ==
  process_num /\ at = "evaluate" => TypesOf(stack_an) = trace[token_i]

\* An evaluation reads its tokens with both flags clear: a fault is its own,
\* and not left by an evaluation whose failure PrintString ignored or that
\* ended another run (rpn_evaluator.c:385).
FlagsFresh == at = "evaluate" => ~DividedByZero /\ ~BitShiftNegative
=============================================================================
