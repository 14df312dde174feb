-------------------------- MODULE EvaluationsProofs --------------------------
(* An RPN string that has passed the check fails in the run by arithmetic     *)
(* alone: proofs for strings of any length and any set of variables.          *)
EXTENDS Evaluations, SequenceTheorems, TLAPS

\* What the check and the run have in common: the types of the variables.
VarTypes == [v \in DOMAIN vl |-> vl[v].type]

\* Reading, as a function of the types vt of the variables.
ReadingAt(vt, t, types) ==
  CASE t \in DOMAIN Literals -> "IsNumber"
    [] t \notin DOMAIN Literals /\ t \in DOMAIN InitRPNVars -> "IsRPNVar"
    [] t \notin DOMAIN Literals \cup DOMAIN InitRPNVars /\ IsFunctionName(t) /\ t \in DOMAIN vt
         -> "NameFunctionCollision"
    [] t \notin DOMAIN Literals \cup DOMAIN InitRPNVars /\ IsFunctionName(t) /\ t \notin DOMAIN vt
         -> IF FunctionFor(t, types) = NoFunction THEN "NameUndefined"
            ELSE IF Len(types) < FunctionFor(t, types).num_args THEN "NotEnoughNumbers"
            ELSE "IsFunction"
    [] OTHER -> IF t \in DOMAIN vt THEN "IsVLName" ELSE "NameUndefined"

OperandType(vt, t) ==
  IF t \in DOMAIN Literals THEN Literals[t].type
  ELSE IF t \in DOMAIN InitRPNVars THEN RPNVarTypes[t] ELSE vt[t]

\* The types of the stack after a token.
TypesAfter(vt, t, types) ==
  LET f == FunctionFor(t, types)
  IN  IF ReadingAt(vt, t, types) = "IsFunction"
      THEN Append(SubSeq(types, 1, Len(types) - f.num_args), f.return_type)
      ELSE Append(types, OperandType(vt, t))

\* A trace that the check leaves of a string.
Checked(vt, str, tr) ==
  /\ Len(tr) = Len(str) + 1
  /\ tr[1] = << >>
  /\ \A j \in 1 .. Len(str) :
       /\ ReadingAt(vt, str[j], tr[j]) \in Operands \cup {"IsFunction"}
       /\ tr[j + 1] = TypesAfter(vt, str[j], tr[j])

TypeInv ==
  /\ vl \in [DOMAIN vl -> Numbers]
  /\ rpn_vars \in [DOMAIN InitRPNVars -> Numbers]
  /\ \A v \in DOMAIN InitRPNVars : rpn_vars[v].type = RPNVarTypes[v]
  /\ rpn_str \in Seq(Tokens)
  /\ at \in {"parse", "evaluate", "run", "refused", "killed"}
  /\ process_num \in BOOLEAN
  /\ token_i \in Nat \ {0}
  /\ stack_an \in Seq(Numbers)
  /\ trace \in Seq(Seq(Types)) /\ Len(trace) >= 1

\* Before the string is there.
ParseInv == at = "parse" => rpn_str = << >> /\ trace = << << >> >> /\ ~process_num

\* The string is what the check has read, as long as the text is accepted.
CheckedInv == at \in {"parse", "evaluate", "run"} => Checked(VarTypes, rpn_str, trace)

StackInv ==
  at = "evaluate" => /\ token_i <= Len(trace)
                     /\ TypesOf(stack_an) = trace[token_i]
                     /\ ~process_num => token_i = Len(trace) /\ use = "check"

\* A string is evaluated in the run when it has passed the check.
PassedInv == at = "run" \/ process_num => Len(trace[Len(trace)]) = 1

IInv ==
  TypeInv /\ ParseInv /\ CheckedInv /\ StackInv /\ PassedInv /\ CheckIsEnough
-----------------------------------------------------------------------------
(* Lemmas about functions, readings and types.                                *)

\* A function of the tables takes some numbers and returns one of the types.
LEMMA FunctionShape ==
  ASSUME NEW f, NEW types, FunctionFor(f, types) # NoFunction
  PROVE  /\ FunctionFor(f, types).num_args \in Nat
         /\ FunctionFor(f, types).return_type \in Types
<1> DEFINE type == HighestType(types, NumArgs(f))
<1>1. CASE f \in DOMAIN Plain
  <2>1. FunctionFor(f, types) = Plain[f]
    BY <1>1 DEF FunctionFor
  <2>2. PlainType(f) \in Types
    BY DEF PlainType, Types, VLNT_Char, VLNT_Int, VLNT_Long, VLNT_Double
  <2> QED
    BY <1>1, <2>1, <2>2 DEF Plain, Function
<1>2. ASSUME NEW nt \in Types, NEW name \in DOMAIN PrefixedFunction[nt]
      PROVE  /\ PrefixedFunction[nt][name].num_args \in Nat
             /\ PrefixedFunction[nt][name].return_type \in Types
  <2>1. name \in Prefixed \ (IF nt = VLNT_Double THEN Integral ELSE {})
    BY DEF PrefixedFunction
  <2>2. PrefixedFunction[nt][name]
          = Function(CASE name \in Unary -> 1 [] name \in Ternary -> 3 [] OTHER -> 2,
                     IF name \in Comparisons THEN VLNT_Int ELSE nt, Checks(name, nt))
    BY <2>1 DEF PrefixedFunction
  <2> QED
    BY <2>2 DEF Function, Types, VLNT_Int
<1>3. CASE f \notin DOMAIN Plain \cup DOMAIN OneTypeFunction /\ NumArgs(f) > 0 /\ type \in Types
             /\ f \in DOMAIN PrefixedFunction[type]
  <2>1. FunctionFor(f, types) = PrefixedFunction[type][f]
    BY <1>3 DEF FunctionFor
  <2> HIDE DEF type
  <2> QED
    BY <1>2, <1>3, <2>1
<1>4. CASE f \in DOMAIN OneTypeFunction \ DOMAIN Plain
  <2>1. FunctionFor(f, types) = OneTypeFunction[f]
    BY <1>4 DEF FunctionFor
  <2> DEFINE p == CHOOSE p \in OneType : NameOf(p) = f
  <2>2. p \in OneType /\ OneTypeFunction[f] = PrefixedFunction[p[1]][p[2]]
    BY <1>4 DEF OneTypeFunction
  <2> HIDE DEF p
  <2>3. p[1] \in Types /\ p[2] \in DOMAIN PrefixedFunction[p[1]]
    BY <2>2 DEF OneType
  <2> QED
    BY <1>2, <2>1, <2>2, <2>3
<1> QED
  BY <1>1, <1>3, <1>4 DEF FunctionFor

LEMMA LiteralsAreNumbers ==
  ASSUME NEW t \in DOMAIN Literals
  PROVE  Literals[t] \in Numbers
<1>1. \A type \in Types, s \in Signs : Number(type, s) \in Numbers
  BY DEF Number, Numbers
<1>2. {VLNT_Char, VLNT_Int, VLNT_Long, VLNT_Double} \subseteq Types
       /\ {"positive", "negative", "zero"} \subseteq Signs
  BY DEF Types, Signs, VLNT_Char, VLNT_Int, VLNT_Long, VLNT_Double
<1>3. \A z \in DOMAIN Zeros : Zeros[z] \in Types
  BY <1>2 DEF Zeros
<1> QED
  BY <1>1, <1>2, <1>3 DEF Literals, Zero

LEMMA RPNVarTypesAreTypes ==
  /\ DOMAIN InitRPNVars \subseteq DOMAIN RPNVarTypes
  /\ \A v \in DOMAIN RPNVarTypes : RPNVarTypes[v] \in Types
  /\ InitRPNVars \in [DOMAIN InitRPNVars -> Numbers]
  /\ \A v \in DOMAIN InitRPNVars : InitRPNVars[v].type = RPNVarTypes[v]
<1>1. \A v \in DOMAIN RPNVarTypes : RPNVarTypes[v] \in Types
  BY DEF RPNVarTypes, Types, VLNT_Int, VLNT_Long
<1>2. DOMAIN InitRPNVars \subseteq DOMAIN RPNVarTypes
  BY DEF InitRPNVars
<1> QED
  BY <1>1, <1>2 DEF InitRPNVars, Numbers, Number, Signs

\* The types of a stack, when a number is pushed and when some are popped.
LEMMA TypesOfStack ==
  ASSUME NEW stack \in Seq(Numbers)
  PROVE  /\ TypesOf(stack) \in Seq(Types)
         /\ Len(TypesOf(stack)) = Len(stack)
         /\ \A j \in 1 .. Len(stack) : TypesOf(stack)[j] = stack[j].type
<1>1. \A j \in 1 .. Len(stack) : stack[j].type \in Types
  <2>1. \A n \in Numbers : n.type \in Types
    BY DEF Numbers
  <2>2. \A j \in 1 .. Len(stack) : stack[j] \in Numbers
    OBVIOUS
  <2> QED
    BY <2>1, <2>2
<1>2. TypesOf(stack) = [j \in 1 .. Len(stack) |-> stack[j].type]
  BY DEF TypesOf
<1> QED
  BY <1>1, <1>2

LEMMA TypesOfPush ==
  ASSUME NEW stack \in Seq(Numbers), NEW n \in Numbers
  PROVE  /\ Append(stack, n) \in Seq(Numbers)
         /\ TypesOf(Append(stack, n)) = Append(TypesOf(stack), n.type)
<1> DEFINE pushed == Append(stack, n)
           types == Append(TypesOf(stack), n.type)
<1>1. pushed \in Seq(Numbers) /\ Len(pushed) = Len(stack) + 1
  OBVIOUS
<1>2. \A j \in 1 .. Len(stack) + 1 :
        pushed[j] = IF j = Len(stack) + 1 THEN n ELSE stack[j]
  OBVIOUS
<1>3. n.type \in Types
  BY DEF Numbers
<1>4. types \in Seq(Types) /\ Len(types) = Len(stack) + 1
  BY <1>3, TypesOfStack
<1>5. \A j \in 1 .. Len(stack) + 1 :
        types[j] = IF j = Len(stack) + 1 THEN n.type ELSE stack[j].type
  BY <1>3, TypesOfStack
<1> HIDE DEF pushed, types
<1>6. /\ TypesOf(pushed) \in Seq(Types) /\ Len(TypesOf(pushed)) = Len(pushed)
      /\ \A j \in 1 .. Len(pushed) : TypesOf(pushed)[j] = pushed[j].type
  BY <1>1, TypesOfStack, Zenon
<1>7. \A j \in 1 .. Len(stack) + 1 : TypesOf(pushed)[j] = types[j]
  <2> TAKE j \in 1 .. Len(stack) + 1
  <2>1. TypesOf(pushed)[j] = pushed[j].type
    BY <1>1, <1>6
  <2> QED
    BY <2>1, <1>2, <1>5
<1>8. TypesOf(pushed) = types
  BY <1>1, <1>4, <1>6, <1>7, SeqEqual
<1> QED
  BY <1>1, <1>8 DEF pushed, types

LEMMA TypesOfPop ==
  ASSUME NEW stack \in Seq(Numbers), NEW n \in Nat, n <= Len(stack)
  PROVE  /\ SubSeq(stack, 1, Len(stack) - n) \in Seq(Numbers)
         /\ TypesOf(SubSeq(stack, 1, Len(stack) - n))
              = SubSeq(TypesOf(stack), 1, Len(stack) - n)
<1> DEFINE rest == SubSeq(stack, 1, Len(stack) - n)
           types == SubSeq(TypesOf(stack), 1, Len(stack) - n)
<1>1. rest \in Seq(Numbers) /\ Len(rest) = Len(stack) - n
      /\ \A j \in 1 .. Len(stack) - n : rest[j] = stack[j]
  OBVIOUS
<1>2. types \in Seq(Types) /\ Len(types) = Len(stack) - n
      /\ \A j \in 1 .. Len(stack) - n : types[j] = TypesOf(stack)[j]
  BY TypesOfStack
<1> HIDE DEF rest, types
<1>3. /\ TypesOf(rest) \in Seq(Types) /\ Len(TypesOf(rest)) = Len(rest)
      /\ \A j \in 1 .. Len(rest) : TypesOf(rest)[j] = rest[j].type
  BY <1>1, TypesOfStack, Zenon
<1>4. \A j \in 1 .. Len(stack) - n : TypesOf(rest)[j] = types[j]
  <2> TAKE j \in 1 .. Len(stack) - n
  <2>1. TypesOf(rest)[j] = rest[j].type
    BY <1>1, <1>3
  <2>2. TypesOf(stack)[j] = stack[j].type
    BY TypesOfStack
  <2> QED
    BY <2>1, <2>2, <1>1, <1>2
<1>5. TypesOf(rest) = types
  BY <1>1, <1>2, <1>3, <1>4, SeqEqual
<1> QED
  BY <1>1, <1>5 DEF rest, types

\* Readings are the same whatever the values of the variables.
LEMMA ReadingOfTypes ==
  ASSUME TypeInv, NEW t, NEW types
  PROVE  Reading(t, types) = ReadingAt(VarTypes, t, types)
BY DEF TypeInv, Reading, ReadingAt, VarTypes, IsVar

\* What stands in for a token is one of the outcomes of a reading.
LEMMA Readings ==
  ASSUME NEW vt, NEW t, NEW types
  PROVE  ReadingAt(vt, t, types) \in
           {"IsNumber", "IsRPNVar", "IsVLName", "IsFunction", "NameFunctionCollision",
            "NameUndefined", "NotEnoughNumbers"}
BY DEF ReadingAt

LEMMA OperandNumber ==
  ASSUME TypeInv, NEW t, NEW types, ReadingAt(VarTypes, t, types) \in Operands
  PROVE  Operand(t) \in Numbers /\ Operand(t).type = OperandType(VarTypes, t)
<1>1. CASE t \in DOMAIN Literals
  BY <1>1, LiteralsAreNumbers DEF Operand, OperandType
<1>2. CASE t \notin DOMAIN Literals /\ t \in DOMAIN InitRPNVars
  BY <1>2 DEF TypeInv, Operand, OperandType
<1>3. CASE t \notin DOMAIN Literals /\ t \notin DOMAIN InitRPNVars
  <2>1. t \in DOMAIN vl
    BY <1>3 DEF ReadingAt, Operands, VarTypes
  <2> QED
    BY <1>3, <2>1 DEF TypeInv, Operand, OperandType, VarTypes
<1> QED
  BY <1>1, <1>2, <1>3

\* What a token leaves on the stack has the types that TypesAfter tells.
LEMMA OperandStep ==
  ASSUME TypeInv, NEW t, Reading(t, TypesOf(stack_an)) \in Operands
  PROVE  /\ Append(stack_an, Operand(t)) \in Seq(Numbers)
         /\ TypesOf(Append(stack_an, Operand(t))) = TypesAfter(VarTypes, t, TypesOf(stack_an))
<1>1. ReadingAt(VarTypes, t, TypesOf(stack_an)) \in Operands
  BY ReadingOfTypes
<1>2. Operand(t) \in Numbers /\ Operand(t).type = OperandType(VarTypes, t)
  BY <1>1, OperandNumber
<1>3. TypesAfter(VarTypes, t, TypesOf(stack_an))
        = Append(TypesOf(stack_an), OperandType(VarTypes, t))
  BY <1>1 DEF TypesAfter, Operands
<1> QED
  BY <1>2, <1>3, TypesOfPush DEF TypeInv

LEMMA FunctionStep ==
  ASSUME TypeInv, NEW t, NEW s \in Signs, Reading(t, TypesOf(stack_an)) = "IsFunction",
         NEW f, f = FunctionFor(t, TypesOf(stack_an))
  PROVE  /\ Append(Popped(f.num_args), Number(f.return_type, s)) \in Seq(Numbers)
         /\ TypesOf(Append(Popped(f.num_args), Number(f.return_type, s)))
              = TypesAfter(VarTypes, t, TypesOf(stack_an))
<1> DEFINE types == TypesOf(stack_an)
<1>1. ReadingAt(VarTypes, t, types) = "IsFunction"
  BY ReadingOfTypes
<1>2. f # NoFunction /\ ~(Len(types) < f.num_args)
  BY <1>1 DEF ReadingAt
<1>3. f.num_args \in Nat /\ f.return_type \in Types
  BY <1>2, FunctionShape
<1>4. stack_an \in Seq(Numbers) /\ Len(types) = Len(stack_an)
  BY TypesOfStack DEF TypeInv
<1>5. f.num_args <= Len(stack_an)
  BY <1>2, <1>3, <1>4
<1>6. /\ Popped(f.num_args) \in Seq(Numbers)
      /\ TypesOf(Popped(f.num_args)) = SubSeq(types, 1, Len(types) - f.num_args)
  BY <1>3, <1>4, <1>5, TypesOfPop DEF Popped
<1>7. Number(f.return_type, s) \in Numbers /\ Number(f.return_type, s).type = f.return_type
  BY <1>3 DEF Number, Numbers
<1>8. TypesAfter(VarTypes, t, types)
        = Append(SubSeq(types, 1, Len(types) - f.num_args), f.return_type)
  BY <1>1 DEF TypesAfter
<1> QED
  BY <1>6, <1>7, <1>8, TypesOfPush

\* A token that the check accepts makes its trace one longer.
LEMMA CheckedAppend ==
  ASSUME NEW vt, NEW str \in Seq(Tokens), NEW tr \in Seq(Seq(Types)), Checked(vt, str, tr),
         NEW t \in Tokens, NEW types \in Seq(Types),
         ReadingAt(vt, t, tr[Len(tr)]) \in Operands \cup {"IsFunction"},
         types = TypesAfter(vt, t, tr[Len(tr)])
  PROVE  Checked(vt, Append(str, t), Append(tr, types))
<1> DEFINE str2 == Append(str, t)
           tr2 == Append(tr, types)
<1>1. /\ Len(str2) = Len(str) + 1 /\ str2[Len(str) + 1] = t
      /\ \A j \in 1 .. Len(str) : str2[j] = str[j]
  OBVIOUS
<1>2. /\ Len(tr2) = Len(tr) + 1 /\ tr2[Len(tr) + 1] = types
      /\ \A j \in 1 .. Len(tr) : tr2[j] = tr[j]
  OBVIOUS
<1>3. Len(str) \in Nat /\ Len(tr) = Len(str) + 1 /\ tr[1] = << >>
  BY DEF Checked
<1> HIDE DEF str2, tr2
<1>4. ASSUME NEW j \in 1 .. Len(str2)
      PROVE  /\ ReadingAt(vt, str2[j], tr2[j]) \in Operands \cup {"IsFunction"}
             /\ tr2[j + 1] = TypesAfter(vt, str2[j], tr2[j])
  <2>1. CASE j \in 1 .. Len(str)
    <3>1. str2[j] = str[j] /\ tr2[j] = tr[j] /\ tr2[j + 1] = tr[j + 1]
      BY <1>1, <1>2, <1>3, <2>1
    <3> QED
      BY <2>1, <3>1 DEF Checked
  <2>2. CASE j = Len(str) + 1
    <3>1. str2[j] = t /\ tr2[j] = tr[Len(tr)] /\ tr2[j + 1] = types
      BY <1>1, <1>2, <1>3, <2>2
    <3> QED
      BY <3>1
  <2> QED
    BY <1>1, <1>3, <2>1, <2>2
<1>5. Len(tr2) = Len(str2) + 1 /\ tr2[1] = << >>
  BY <1>1, <1>2, <1>3
<1> QED
  BY <1>4, <1>5 DEF Checked, str2, tr2

-----------------------------------------------------------------------------
(* The invariant.                                                             *)

LEMMA InitIInv == Init => IInv
<1> SUFFICES ASSUME Init PROVE IInv
  OBVIOUS
<1>1. TypeInv
  <2>1. << >> \in Seq(Types) /\ << << >> >> \in Seq(Seq(Types)) /\ Len(<< << >> >>) = 1
    OBVIOUS
  <2>2. vl \in [DOMAIN vl -> Numbers]
    BY DEF Init
  <2>3. << >> \in Seq(Tokens) /\ << >> \in Seq(Numbers) /\ 1 \in Nat \ {0}
    OBVIOUS
  <2>4. \A v \in DOMAIN InitRPNVars : rpn_vars[v].type = RPNVarTypes[v]
    BY RPNVarTypesAreTypes DEF Init
  <2>5. rpn_vars \in [DOMAIN InitRPNVars -> Numbers]
    BY RPNVarTypesAreTypes DEF Init
  <2>6. rpn_str \in Seq(Tokens) /\ stack_an \in Seq(Numbers) /\ token_i \in Nat \ {0}
    BY <2>3 DEF Init
  <2>7. trace \in Seq(Seq(Types)) /\ Len(trace) >= 1
    BY <2>1 DEF Init
  <2>8. process_num \in BOOLEAN /\ at \in {"parse", "evaluate", "run", "refused", "killed"}
    BY DEF Init
  <2> QED
    BY <2>2, <2>4, <2>5, <2>6, <2>7, <2>8 DEF TypeInv
<1>2. Checked(VarTypes, rpn_str, trace)
  BY DEF Init, Checked
<1> QED
  BY <1>1, <1>2 DEF Init, IInv, ParseInv, CheckedInv, StackInv, PassedInv, CheckIsEnough

\* Steps that leave the variables, the string and its trace alone.
LEMMA VarTypesKept ==
  ASSUME vl' = vl
  PROVE  VarTypes' = VarTypes
BY DEF VarTypes

LEMMA AssignedVars ==
  ASSUME TypeInv, NEW v, NEW n \in Numbers
  PROVE  /\ Assigned(v, n) \in [DOMAIN Assigned(v, n) -> Numbers]
         /\ v \in DOMAIN vl => DOMAIN Assigned(v, n) = DOMAIN vl
         /\ v \in DOMAIN vl /\ n.type = vl[v].type =>
              \A w \in DOMAIN vl : Assigned(v, n)[w].type = vl[w].type
BY DEF TypeInv, Assigned

LEMMA InitVarStep ==
  ASSUME IInv, NEW v \in VarNames, NEW n \in InitNumbers, InitVar(v, n)
  PROVE  IInv'
<1>1. n \in Numbers
  BY InitNumbersAssumption
<1>2. TypeInv'
  BY <1>1, AssignedVars DEF IInv, TypeInv, InitVar, evaluation
<1>3. Checked(VarTypes, rpn_str, trace)'
  BY DEF IInv, ParseInv, InitVar, evaluation, Checked
<1> QED
  BY <1>2, <1>3 DEF IInv, ParseInv, CheckedInv, StackInv, PassedInv, CheckIsEnough, InitVar, evaluation

LEMMA CheckStringStep ==
  ASSUME IInv, CheckString
  PROVE  IInv'
<1> USE DEF IInv, CheckString, Starts
<1>1. TypeInv'
  <2>1. FALSE \in BOOLEAN /\ 1 \in Nat \ {0} /\ << >> \in Seq(Numbers)
    OBVIOUS
  <2> QED
    BY <2>1 DEF TypeInv
<1>2. CheckedInv'
  BY VarTypesKept DEF CheckedInv
<1>3. StackInv'
  BY DEF ParseInv, StackInv, TypesOf
<1> QED
  BY <1>1, <1>2, <1>3 DEF ParseInv, PassedInv, CheckIsEnough

LEMMA EvaluateStep ==
  ASSUME IInv, NEW for, Evaluate(for)
  PROVE  IInv'
<1> USE DEF IInv, Evaluate, Starts
<1>1. TypeInv'
  BY DEF TypeInv
<1>2. CheckedInv'
  BY VarTypesKept DEF CheckedInv
<1>3. StackInv'
  BY DEF TypeInv, CheckedInv, Checked, StackInv, TypesOf
<1> QED
  BY <1>1, <1>2, <1>3 DEF ParseInv, PassedInv, CheckIsEnough

LEMMA NoTokensStep ==
  ASSUME IInv, NoTokens
  PROVE  IInv'
<1> USE DEF IInv, NoTokens, evaluation, Ends
<1>1. use = "check"
  BY DEF StackInv
<1>2. TypeInv' /\ at' = "refused"
  BY <1>1 DEF TypeInv
<1> QED
  BY <1>2 DEF ParseInv, CheckedInv, StackInv, PassedInv, CheckIsEnough

LEMMA TooManyNumbersStep ==
  ASSUME IInv, TooManyNumbers
  PROVE  IInv'
<1> USE DEF IInv, TooManyNumbers, evaluation, Ends
<1>1. CASE process_num
  <2>1. Len(trace) = Len(rpn_str) + 1 /\ token_i > Len(rpn_str)
    BY <1>1 DEF CheckedInv, Checked, AllRead
  <2>2. token_i = Len(trace)
    BY <2>1 DEF TypeInv, StackInv
  <2>3. Len(stack_an) = 1
    BY <1>1, <2>2, TypesOfStack DEF TypeInv, StackInv, PassedInv
  <2> QED
    BY <2>3
<1>2. CASE ~process_num
  <2>1. TypeInv' /\ at' = "refused"
    BY <1>2 DEF TypeInv, StackInv
  <2> QED
    BY <1>2, <2>1 DEF ParseInv, CheckedInv, StackInv, PassedInv, CheckIsEnough
<1> QED
  BY <1>1, <1>2 DEF TypeInv

\* An edit keeps the names and the types of the variables.
LEMMA RewrittenVars ==
  ASSUME TypeInv, NEW v \in DOMAIN vl, NEW n \in Numbers, vl' \in Rewritten(v, n)
  PROVE  vl' \in [DOMAIN vl' -> Numbers] /\ VarTypes' = VarTypes
<1>1. PICK m \in Cast(n, vl[v].type) : vl' = Assigned(v, m)
  BY DEF Rewritten
<1>2. vl[v].type \in Types
  BY DEF TypeInv, Numbers
<1>3. CastSigns(n, vl[v].type) \subseteq Signs
  BY DEF CastSigns, Numbers, Signs
<1>4. m \in Numbers /\ m.type = vl[v].type
  BY <1>1, <1>2, <1>3 DEF Cast, Number, Numbers
<1> QED
  BY <1>1, <1>4, AssignedVars DEF VarTypes

LEMMA ResultOkStep ==
  ASSUME IInv, ResultOk
  PROVE  IInv'
<1> USE DEF IInv, ResultOk, evaluation
<1>1. stack_an[1] \in Numbers
  <2>1. stack_an \in Seq(Numbers) /\ Len(stack_an) = 1
    BY DEF TypeInv
  <2> HIDE DEF IInv, ResultOk
  <2> QED
    BY <2>1
<1>2. vl' \in [DOMAIN vl' -> Numbers] /\ VarTypes' = VarTypes
  <2>1. CASE use = "edit"
    <3>1. PICK v \in DOMAIN vl : vl' \in Rewritten(v, stack_an[1])
      BY <2>1
    <3> QED
      BY <1>1, <3>1, RewrittenVars
  <2>2. CASE use # "edit"
    BY <2>2, VarTypesKept DEF TypeInv
  <2> QED
    BY <2>1, <2>2
<1>3. TypeInv' /\ at' = "run" /\ status' = "Ok"
  <2>1. at' = "run" /\ status' = "Ok"
    BY DEF Ends
  <2>2. UNCHANGED <<rpn_vars, rpn_str, process_num, token_i, stack_an, trace>>
    OBVIOUS
  <2>3. TypeInv
    OBVIOUS
  <2> HIDE DEF ResultOk, IInv
  <2> QED
    BY <1>2, <2>1, <2>2, <2>3 DEF TypeInv
<1>4. CheckedInv'
  BY <1>2 DEF CheckedInv
<1>5. PassedInv'
  <2>1. CASE process_num
    BY <2>1 DEF PassedInv
  <2>2. CASE ~process_num
    <3>1. TypesOf(stack_an) = trace[Len(trace)]
      BY <2>2 DEF StackInv
    <3> QED
      BY <3>1, TypesOfStack DEF TypeInv, PassedInv
  <2> QED
    BY <2>1, <2>2 DEF TypeInv
<1> QED
  BY <1>3, <1>4, <1>5 DEF ParseInv, StackInv, CheckIsEnough

LEMMA AssignVarStep ==
  ASSUME IInv, NEW v, NEW s \in Signs, AssignVar(v, s)
  PROVE  IInv'
<1> USE DEF IInv, AssignVar, evaluation
<1>1. v \in DOMAIN InitRPNVars /\ RPNVarTypes[v] \in Types
  BY RPNVarTypesAreTypes DEF TypeInv
<1>2. Number(RPNVarTypes[v], s) \in Numbers /\ Number(RPNVarTypes[v], s).type = RPNVarTypes[v]
  BY <1>1 DEF Number, Numbers
<1>3. TypeInv'
  BY <1>1, <1>2 DEF TypeInv
<1>4. CheckedInv'
  BY VarTypesKept DEF CheckedInv
<1> QED
  BY <1>3, <1>4 DEF ParseInv, StackInv, PassedInv, CheckIsEnough

LEMMA NewTextStep ==
  ASSUME IInv, NewText
  PROVE  IInv'
<1> USE DEF IInv, NewText
<1>1. << >> \in Seq(Types) /\ << << >> >> \in Seq(Seq(Types)) /\ Len(<< << >> >>) = 1
      /\ << >> \in Seq(Tokens) /\ << >> \in Seq(Numbers) /\ 1 \in Nat \ {0}
  OBVIOUS
<1>2. vl' \in [DOMAIN vl' -> Numbers]
  OBVIOUS
<1>3. /\ rpn_vars' \in [DOMAIN InitRPNVars -> Numbers]
      /\ \A v \in DOMAIN InitRPNVars : rpn_vars'[v].type = RPNVarTypes[v]
  BY RPNVarTypesAreTypes DEF TypeInv
<1>4. rpn_str' \in Seq(Tokens) /\ stack_an' \in Seq(Numbers) /\ token_i' \in Nat \ {0}
  BY <1>1
<1>5. trace' \in Seq(Seq(Types)) /\ Len(trace') >= 1
  BY <1>1
<1>6. process_num' = FALSE /\ at' = "parse"
  OBVIOUS
<1>7. TypeInv'
  BY <1>2, <1>3, <1>4, <1>5, <1>6 DEF TypeInv
<1>8. Checked(VarTypes, rpn_str, trace)'
  BY DEF Checked
<1> QED
  BY <1>6, <1>7, <1>8 DEF ParseInv, CheckedInv, StackInv, PassedInv, CheckIsEnough

\* An accepted token: the stack goes on as the trace tells, or the trace grows
\* with the stack.
LEMMA Accepted ==
  ASSUME IInv, NEW t \in Tokens, NextToken(t), NEW stack \in Seq(Numbers), Leaves(stack),
         Reading(t, TypesOf(stack_an)) \in Operands \cup {"IsFunction"},
         TypesOf(stack) = TypesAfter(VarTypes, t, TypesOf(stack_an)),
         UNCHANGED <<vl, rpn_vars, at, process_num, use, status>>
  PROVE  IInv'
<1> USE DEF IInv, NextToken, Leaves
<1>1. /\ Checked(VarTypes, rpn_str, trace) /\ VarTypes' = VarTypes
      /\ Len(trace) = Len(rpn_str) + 1
  BY VarTypesKept DEF CheckedInv, Checked
<1>2. /\ token_i \in Nat \ {0} /\ token_i <= Len(trace)
      /\ TypesOf(stack_an) = trace[token_i]
      /\ rpn_str \in Seq(Tokens) /\ trace \in Seq(Seq(Types))
  BY DEF TypeInv, StackInv
<1>3. TypesOf(stack) \in Seq(Types)
  BY TypesOfStack
<1>4. TypeInv'
  BY <1>2, <1>3 DEF TypeInv
<1>5. CASE process_num
  <2>1. rpn_str' = rpn_str /\ trace' = trace /\ process_num'
    BY <1>5
  <2>2. token_i \in 1 .. Len(rpn_str) /\ t = rpn_str[token_i]
    BY <1>2, <1>5
  <2>3. trace[token_i + 1] = TypesOf(stack)
    BY <1>1, <1>2, <2>2 DEF Checked
  <2>4. StackInv'
    BY <1>1, <1>2, <2>1, <2>2, <2>3 DEF StackInv
  <2> QED
    BY <1>1, <1>4, <1>5, <2>1, <2>4 DEF ParseInv, CheckedInv, PassedInv, CheckIsEnough
<1>6. CASE ~process_num
  <2>1. token_i = Len(trace) /\ use = "check"
    BY <1>6 DEF StackInv
  <2>2. rpn_str' = Append(rpn_str, t) /\ trace' = Append(trace, TypesOf(stack))
    BY <1>6
  <2>3. ReadingAt(VarTypes, t, trace[Len(trace)]) \in Operands \cup {"IsFunction"}
    BY <1>2, <2>1, ReadingOfTypes
  <2>4. Checked(VarTypes, rpn_str', trace')
    BY <1>1, <1>2, <1>3, <2>1, <2>2, <2>3, CheckedAppend
  <2>5. Len(trace') = Len(trace) + 1 /\ trace'[Len(trace) + 1] = TypesOf(stack)
    BY <1>2, <1>3, <2>2
  <2>6. StackInv'
    BY <1>2, <1>6, <2>1, <2>5 DEF StackInv
  <2> QED
    BY <1>1, <1>4, <1>6, <2>4, <2>6 DEF ParseInv, CheckedInv, PassedInv, CheckIsEnough
<1> QED
  BY <1>5, <1>6 DEF TypeInv

LEMMA PushOperandStep ==
  ASSUME IInv, NEW t \in Tokens, PushOperand(t)
  PROVE  IInv'
<1>1. TypeInv
  BY DEF IInv
<1>2. /\ Append(stack_an, Operand(t)) \in Seq(Numbers)
      /\ TypesOf(Append(stack_an, Operand(t))) = TypesAfter(VarTypes, t, TypesOf(stack_an))
  BY <1>1, OperandStep DEF PushOperand
<1> QED
  BY <1>2, Accepted DEF PushOperand

LEMMA SkipFunctionStep ==
  ASSUME IInv, NEW t \in Tokens, SkipFunction(t)
  PROVE  IInv'
<1> DEFINE f == FunctionFor(t, TypesOf(stack_an))
           stack == Append(Popped(f.num_args), Number(f.return_type, "zero"))
<1>1. TypeInv /\ "zero" \in Signs
  BY DEF IInv, Signs
<1>2. stack \in Seq(Numbers) /\ TypesOf(stack) = TypesAfter(VarTypes, t, TypesOf(stack_an))
  BY <1>1, FunctionStep DEF SkipFunction
<1>3. Leaves(stack)
  BY DEF SkipFunction, Zero
<1> QED
  BY <1>2, <1>3, Accepted DEF SkipFunction

LEMMA CallFunctionStep ==
  ASSUME IInv, NEW t \in Tokens, CallFunction(t)
  PROVE  IInv'
<1> DEFINE f == FunctionFor(t, TypesOf(stack_an))
<1>1. TypeInv
  BY DEF IInv
<1>2. PICK s \in Signs : Leaves(Append(Popped(f.num_args), Number(f.return_type, s)))
  BY DEF CallFunction
<1> DEFINE stack == Append(Popped(f.num_args), Number(f.return_type, s))
<1>3. stack \in Seq(Numbers) /\ TypesOf(stack) = TypesAfter(VarTypes, t, TypesOf(stack_an))
  BY <1>1, FunctionStep DEF CallFunction
<1> QED
  BY <1>2, <1>3, Accepted DEF CallFunction

\* A fault of the check, whose flags are clear, cannot be; one of the run is
\* an arithmetic one.
LEMMA FaultyFunctionStep ==
  ASSUME IInv, NEW t \in Tokens, FaultyFunction(t)
  PROVE  IInv'
<1> DEFINE f == FunctionFor(t, TypesOf(stack_an))
<1> USE DEF IInv
<1>1. PICK fault \in Stale \cup (IF process_num THEN Faults(f) ELSE {}) : Ends(fault)
  BY DEF FaultyFunction
<1>2. fault \in RunErrors
  BY <1>1 DEF Stale, Faults, RunErrors
<1>3. at = "evaluate" /\ UNCHANGED <<vl, rpn_vars, process_num, use, token_i, stack_an, trace>>
      /\ (process_num => rpn_str' = rpn_str) /\ (~process_num => rpn_str' = Append(rpn_str, t))
  BY DEF FaultyFunction, NextToken
<1>4. /\ status' = fault /\ at' \in {"run", "refused", "killed"}
      /\ at' = "run" => use = "print"
  BY <1>1, <1>2 DEF Ends, RunErrors
<1>5. at' = "run" => process_num
  BY <1>3, <1>4 DEF StackInv
<1>6. TypeInv'
  <2>1. rpn_str \in Seq(Tokens) /\ process_num \in BOOLEAN
    BY DEF TypeInv
  <2>2. rpn_str' \in Seq(Tokens)
    BY <1>3, <2>1
  <2> QED
    BY <1>3, <1>4, <2>2 DEF TypeInv
<1>7. CheckedInv'
  BY <1>3, <1>4, <1>5, VarTypesKept DEF CheckedInv
<1> QED
  BY <1>2, <1>3, <1>4, <1>5, <1>6, <1>7 DEF ParseInv, StackInv, PassedInv, CheckIsEnough

\* A wrong token is one of the check.
LEMMA WrongTokenStep ==
  ASSUME IInv, NEW t \in Tokens, WrongToken(t)
  PROVE  IInv'
<1> DEFINE reading == Reading(t, TypesOf(stack_an))
<1> USE DEF IInv
<1>1. reading = ReadingAt(VarTypes, t, TypesOf(stack_an))
  BY ReadingOfTypes
<1>2. at = "evaluate" /\ UNCHANGED <<vl, rpn_vars, process_num, use, token_i, stack_an, trace>>
      /\ reading \notin Operands \cup {"IsFunction"}
  BY DEF WrongToken, NextToken
<1>3. ~process_num
  <2> SUFFICES ASSUME process_num PROVE FALSE
    OBVIOUS
  <2>1. token_i <= Len(rpn_str) /\ t = rpn_str[token_i]
    BY DEF WrongToken, NextToken
  <2>2. Checked(VarTypes, rpn_str, trace) /\ TypesOf(stack_an) = trace[token_i]
    BY <1>2 DEF CheckedInv, StackInv
  <2>3. ReadingAt(VarTypes, t, TypesOf(stack_an)) \in Operands \cup {"IsFunction"}
    BY <2>1, <2>2 DEF TypeInv, Checked
  <2> QED
    BY <1>1, <1>2, <2>3
<1>4. rpn_str' = Append(rpn_str, t) /\ use = "check"
  BY <1>2, <1>3 DEF WrongToken, NextToken, StackInv
<1>5. reading \in {"NameFunctionCollision", "NameUndefined", "NotEnoughNumbers"}
  BY <1>1, <1>2, Readings DEF Operands
<1>6. at' = "refused"
  BY <1>4, <1>5 DEF WrongToken, Ends
<1>7. TypeInv'
  BY <1>2, <1>4, <1>6 DEF TypeInv
<1> QED
  BY <1>2, <1>3, <1>6, <1>7 DEF ParseInv, CheckedInv, StackInv, PassedInv, CheckIsEnough

LEMMA NextIInv == IInv /\ [Next]_vars => IInv'
<1> SUFFICES ASSUME IInv, [Next]_vars PROVE IInv'
  OBVIOUS
<1>1. ASSUME NEW v \in VarNames, NEW n \in InitNumbers, InitVar(v, n) PROVE IInv'
  BY <1>1, InitVarStep
<1>2. CASE CheckString
  BY <1>2, CheckStringStep
<1>3. CASE NoTokens
  BY <1>3, NoTokensStep
<1>4. CASE TooManyNumbers
  BY <1>4, TooManyNumbersStep
<1>5. CASE ResultOk
  BY <1>5, ResultOkStep
<1>6. CASE ReadToken
  BY <1>6, PushOperandStep, SkipFunctionStep, CallFunctionStep, FaultyFunctionStep, WrongTokenStep
     DEF ReadToken
<1>7. ASSUME NEW for \in {"number", "edit", "print"}, Evaluate(for) PROVE IInv'
  BY <1>7, EvaluateStep
<1>8. ASSUME NEW v \in DOMAIN rpn_vars, NEW s \in Signs, AssignVar(v, s) PROVE IInv'
  BY <1>8, AssignVarStep
<1>9. CASE NewText
  BY <1>9, NewTextStep
<1>10. CASE UNCHANGED vars
  <2>1. VarTypes' = VarTypes
    BY <1>10, VarTypesKept DEF vars
  <2> QED
    BY <1>10, <2>1 DEF vars, IInv, TypeInv, ParseInv, CheckedInv, StackInv, PassedInv,
       CheckIsEnough, TypesOf
<1> QED
  BY <1>1, <1>2, <1>3, <1>4, <1>5, <1>6, <1>7, <1>8, <1>9, <1>10 DEF Next

-----------------------------------------------------------------------------
(* The theorems.                                                              *)

THEOREM Invariant == Spec => []IInv
BY InitIInv, NextIInv, PTL DEF Spec

\* A string that has passed the check fails in the run by arithmetic alone,
\* whatever has been assigned to the variables since (parser.c:2168).
THEOREM CheckIsEnoughHolds == Spec => []CheckIsEnough
<1>1. IInv => CheckIsEnough
  BY DEF IInv
<1> QED
  BY <1>1, Invariant, PTL

\* The run finds at every token numbers of the types the check found there.
THEOREM TypesAsCheckedHolds == Spec => []TypesAsChecked
<1>1. IInv => TypesAsChecked
  BY DEF IInv, StackInv, TypesAsChecked
<1> QED
  BY <1>1, Invariant, PTL

\* Every evaluation begins with both fault flags clear and keeps them clear
\* while it goes on, although they are global (rpn_evaluator.c:385).
THEOREM FlagsFreshHolds == Spec => []FlagsFresh
<1>1. Init => FlagsFresh
  BY DEF Init, FlagsFresh
<1>2. FlagsFresh /\ [Next]_vars => FlagsFresh'
  <2> SUFFICES ASSUME FlagsFresh, [Next]_vars PROVE FlagsFresh'
    OBVIOUS
  <2> USE DEF FlagsFresh
  <2>1. ASSUME NEW t \in Tokens,
               PushOperand(t) \/ SkipFunction(t) \/ CallFunction(t) \/ WrongToken(t)
        PROVE  FlagsFresh'
    BY <2>1 DEF PushOperand, SkipFunction, CallFunction, WrongToken, NextToken
  <2>2. ASSUME NEW t \in Tokens, FaultyFunction(t) PROVE at' # "evaluate"
    BY <2>2 DEF FaultyFunction, Ends
  <2>3. CASE ReadToken
    BY <2>1, <2>2, <2>3 DEF ReadToken
  <2>4. CASE CheckString \/ \E for \in {"number", "edit", "print"} : Evaluate(for)
    BY <2>4 DEF CheckString, Evaluate, Starts
  <2>5. CASE NoTokens \/ TooManyNumbers \/ ResultOk
    BY <2>5 DEF NoTokens, TooManyNumbers, ResultOk, evaluation
  <2>6. CASE NewText \/ (\E v \in VarNames, n \in InitNumbers : InitVar(v, n))
               \/ (\E v \in DOMAIN rpn_vars, s \in Signs : AssignVar(v, s))
    BY <2>6 DEF NewText, InitVar, AssignVar
  <2>7. CASE UNCHANGED vars
    BY <2>7 DEF vars
  <2> QED
    BY <2>3, <2>4, <2>5, <2>6, <2>7 DEF Next
<1> QED
  BY <1>1, <1>2, PTL DEF Spec

=============================================================================
