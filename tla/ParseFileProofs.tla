---------------------------- MODULE ParseFileProofs ----------------------------
(***************************************************************************)
(* The parser and the interpreter together: what MacroBufferProofs proves  *)
(* of the texts it accepts is what RunProgramProofs assumes of the         *)
(* programs that are run.                                                  *)
(***************************************************************************)
EXTENDS ParseFile, TLAPS

\* The programs that the extra checks let through.
Linked ==
  {p \in [size : Nat, cmds : UNION {CommandArray(n) : n \in Nat}] :
     /\ p.cmds \in CommandArray(p.size)
     /\ WellFormed(p.cmds, p.size)
     /\ \A i \in 0 .. p.size - 1 : p.cmds[i].values \subseteq -IntMax - 1 .. IntMax}

P == INSTANCE MacroBufferProofs
\* No program is run with the history variable of CountedLoops here.
R == INSTANCE RunProgramProofs WITH Programs <- Linked, rounds <- <<>>

(***************************************************************************)
(* The inductive invariant: the parser's own; while a program runs, it is  *)
(* the accepted one, and the interpreter's invariant holds; between two    *)
(* runs the global stack is empty.                                         *)
(***************************************************************************)
Inv ==
  /\ P!Inv /\ P!ValuesRead
  /\ pc = "idle" => cmd_i_stack = <<>>
  /\ pc # "idle" => /\ phase = "accepted"
                    /\ program = [size |-> size, cmds |-> cmds]
                    /\ R!Inv

-------------------------------------------------------------------------------
(* The two halves speak of the same commands and make the same steps. *)

\* The command arrays of the parser and the well-formed programs of the
\* interpreter are those of this module.
LEMMA SameCommands ==
  /\ P!CommandRec = CommandRec /\ R!CommandRec = CommandRec
  /\ \A n : P!CommandArray(n) = CommandArray(n) /\ R!CommandArray(n) = CommandArray(n)
  /\ \A c, n : /\ P!WellFormed(c, n) <=> WellFormed(c, n)
               /\ R!WellFormed(c, n) <=> WellFormed(c, n)
<1>1. P!CommandRec = CommandRec /\ R!CommandRec = CommandRec
  BY DEF CommandRec, P!CommandRec, R!CommandRec, CommandTypes, P!CommandTypes,
         R!CommandTypes, QueryCombTypes, P!QueryCombTypes, R!QueryCombTypes
<1>2. \A n : P!CommandArray(n) = CommandArray(n) /\ R!CommandArray(n) = CommandArray(n)
  BY <1>1 DEF CommandArray, P!CommandArray, R!CommandArray
<1>3. ASSUME NEW c, NEW n
      PROVE  P!WellFormed(c, n) <=> WellFormed(c, n)
  BY DEF WellFormed, RepeatsLinked, JumpsLinked, LastCommandOK, QueriesInBounds, IsQuery,
         P!WellFormed, P!RepeatsLinked, P!JumpsLinked, P!LastCommandOK, P!QueriesInBounds,
         P!IsQuery
<1>4. ASSUME NEW c, NEW n
      PROVE  R!WellFormed(c, n) <=> WellFormed(c, n)
  BY DEF WellFormed, RepeatsLinked, JumpsLinked, LastCommandOK, QueriesInBounds, IsQuery,
         R!WellFormed, R!RepeatsLinked, R!JumpsLinked, R!LastCommandOK, R!QueriesInBounds,
         R!IsQuery
<1>5. QED
  BY <1>1, <1>2, <1>3, <1>4

\* The parser's assumption on its alphabet.
LEMMA ParserAssumption == P!AlphabetAssumption
BY ParseFileAssumption, SameCommands

\* The interpreter's assumption on its programs holds of Linked.
LEMMA PlayerAssumptions == R!ProgramsAssumption /\ R!BoundsAssumption
<1>1. \A p \in Linked :
        /\ p.size \in Nat
        /\ p.cmds \in R!CommandArray(p.size)
        /\ R!WellFormed(p.cmds, p.size)
        /\ \A i \in 0 .. p.size - 1 : p.cmds[i].values \subseteq R!Ints
  BY SameCommands DEF Linked, R!Ints, R!IntMin
<1>2. R!ProgramsAssumption
  BY <1>1
<1>3. R!BoundsAssumption
  BY ParseFileAssumption
<1>4. QED
  BY <1>2, <1>3

\* Linking: what the steps of the parser are made of.
LEMMA SameLinking ==
  /\ \A c : Parser!Added(c) = P!Added(c)
  /\ \A arr, n, index : Parser!Connected(arr, n, index) = P!Connected(arr, n, index)
  /\ \A arr : Parser!AddAndChain(arr) => P!AddAndChain(arr)
  /\ Parser!ExtraChecksPass <=> P!ExtraChecksPass
<1>1. \A c : Parser!Added(c) = P!Added(c)
  BY DEF Parser!Added, P!Added
<1>2. \A arr, n, index : Parser!Connected(arr, n, index) = P!Connected(arr, n, index)
  BY DEF Parser!Connected, P!Connected
<1>3. \A arr, last : Parser!Walked(arr, last) = P!Walked(arr, last)
  BY DEF Parser!Walked, Parser!Chains, Parser!IsQuery, P!Walked, P!Chains, P!IsQuery
<1>4. \A arr, last : Parser!QueriesChained(arr, last) = P!QueriesChained(arr, last)
  BY DEF Parser!QueriesChained, Parser!IsQuery, Parser!Walked, Parser!Chains,
         P!QueriesChained, P!IsQuery, P!Walked, P!Chains
<1>5. \A arr, last : Parser!ChainMixed(arr, last) = P!ChainMixed(arr, last)
  BY <1>3, Zenon DEF Parser!ChainMixed, Parser!IsQuery, P!ChainMixed, P!IsQuery
<1>6. \A arr : Parser!AddAndChain(arr) => P!AddAndChain(arr)
  BY <1>4, <1>5 DEF Parser!AddAndChain, Parser!InitVarLate, Parser!IsQuery, P!AddAndChain,
                    P!InitVarLate, P!IsQuery
<1>7. Parser!ExtraChecksPass <=> P!ExtraChecksPass
  BY DEF Parser!ExtraChecksPass, Parser!LastCommandOK, Parser!QueriesInBounds,
         Parser!IsQuery, Parser!IndexNotFound, P!ExtraChecksPass, P!LastCommandOK,
         P!QueriesInBounds, P!IsQuery, P!IndexNotFound
<1>8. QED
  BY <1>1, <1>2, <1>6, <1>7

\* The steps of the parser.
LEMMA SameParserSteps ==
  /\ Parser!Next => P!Next
  /\ Parser!NewText => P!NewText
  /\ Parser!Init => P!Init
<1> USE SameLinking
<1>1. \A c : Parser!ReadCommand(c) => P!ReadCommand(c)
  BY DEF Parser!ReadCommand, Parser!Parsing, P!ReadCommand, P!Parsing
<1>2. \A c : Parser!ReadRepeatStart(c) => P!ReadRepeatStart(c)
  BY DEF Parser!ReadRepeatStart, Parser!Parsing, P!ReadRepeatStart, P!Parsing
<1>3. \A c : Parser!ReadRepeatEnd(c) => P!ReadRepeatEnd(c)
  BY DEF Parser!ReadRepeatEnd, Parser!Parsing, P!ReadRepeatEnd, P!Parsing
<1>4. \A c : Parser!ReadJumpTo(c) => P!ReadJumpTo(c)
  BY DEF Parser!ReadJumpTo, Parser!Parsing, Parser!IndexNotFound,
         Parser!JumpFromNotConnected, P!ReadJumpTo, P!Parsing, P!IndexNotFound,
         P!JumpFromNotConnected
<1>5. \A c : Parser!ReadJumpFrom(c) => P!ReadJumpFrom(c)
  BY DEF Parser!ReadJumpFrom, Parser!Parsing, P!ReadJumpFrom, P!Parsing
<1>6. Parser!ReadError => P!ReadError
  BY DEF Parser!ReadError, Parser!Parsing, P!ReadError, P!Parsing
<1>7. Parser!EndOfText => P!EndOfText
  BY DEF Parser!EndOfText, P!EndOfText
<1>8. Parser!NewText => P!NewText
  BY DEF Parser!NewText, Parser!IndexNotFound, P!NewText, P!IndexNotFound
<1>9. Parser!Init => P!Init
  BY DEF Parser!Init, Parser!IndexNotFound, P!Init, P!IndexNotFound
<1>10. Parser!Next => P!Next
  BY <1>1, <1>2, <1>3, <1>4, <1>5, <1>6, <1>7, <1>8 DEF Parser!Next, P!Next
<1>11. QED
  BY <1>8, <1>9, <1>10

\* The steps of the interpreter.
LEMMA SamePlayerSteps ==
  /\ \A p : Player!StartRun(p) => R!StartRun(p)
  /\ Player!EnterCommand => R!EnterCommand
  /\ Player!FinishRun => R!FinishRun
  /\ Player!EscapePressed => R!EscapePressed
  /\ Player!RunCommand => R!RunCommand
<1>1. /\ Player!Cmd = R!Cmd /\ Player!Size = R!Size /\ Player!Indices = R!Indices
      /\ \A x : Player!Wrap(x) = R!Wrap(x)
  BY DEF Player!Cmd, Player!Size, Player!Indices, Player!Wrap, R!Cmd, R!Size, R!Indices,
         R!Wrap
<1>2. /\ \A next : Player!GoTo(next) => R!GoTo(next)
      /\ \A next, success : Player!StopAt(next, success) => R!StopAt(next, success)
      /\ \A type : Player!Exec(type) => R!Exec(type)
      /\ \A q : Player!QueryTarget(q) = R!QueryTarget(q)
  BY <1>1 DEF Player!GoTo, Player!StopAt, Player!Exec, Player!QueryTarget, R!GoTo, R!StopAt,
              R!Exec, R!QueryTarget
<1>3. (Player!Effect => R!Effect) /\ (Player!Wait => R!Wait)
  BY <1>2 DEF Player!Effect, R!Effect, Player!Wait, R!Wait
<1>4. Player!RuntimeError => R!RuntimeError
  BY <1>1, <1>2 DEF Player!RuntimeError, Player!IsQuery, R!RuntimeError, R!IsQuery
<1>5. Player!Exit => R!Exit
  BY <1>2 DEF Player!Exit, R!Exit
<1>6. \A q : Player!Query(q) => R!Query(q)
  BY <1>2 DEF Player!Query, R!Query
<1>7. \A max : Player!RepeatEnd(max) => R!RepeatEnd(max)
  BY <1>1, <1>2 DEF Player!RepeatEnd, R!RepeatEnd
<1>8. Player!RepeatResetCounters => R!RepeatResetCounters
  BY <1>1, <1>2 DEF Player!RepeatResetCounters, R!RepeatResetCounters
<1>9. Player!JumpTo => R!JumpTo
  BY <1>1, <1>2 DEF Player!JumpTo, R!JumpTo
<1>10. Player!StackExhausted => R!StackExhausted
  BY <1>1, <1>2 DEF Player!StackExhausted, R!StackExhausted
<1>11. \A value : Player!JumpToIndex(value) => R!JumpToIndex(value)
  BY <1>1, <1>2 DEF Player!JumpToIndex, Player!JumpPosition, R!JumpToIndex, R!JumpPosition
<1>12. Player!JumpBack => R!JumpBack
  BY <1>2 DEF Player!JumpBack, R!JumpBack
<1>13. Player!RunCommand => R!RunCommand
  BY <1>1, <1>3, <1>4, <1>5, <1>6, <1>7, <1>8, <1>9, <1>10, <1>11, <1>12
     DEF Player!RunCommand, R!RunCommand
<1>14. /\ \A p : Player!StartRun(p) => R!StartRun(p)
       /\ Player!EnterCommand => R!EnterCommand
       /\ Player!FinishRun => R!FinishRun
       /\ Player!EscapePressed => R!EscapePressed
  BY DEF Player!StartRun, Player!EnterCommand, Player!FinishRun, Player!EscapePressed,
         R!StartRun, R!EnterCommand, R!FinishRun, R!EscapePressed
<1>15. QED
  BY <1>13, <1>14

-------------------------------------------------------------------------------
\* An accepted text is a program that the interpreter may run.
LEMMA AcceptedIsLinked ==
  ASSUME Inv, phase = "accepted"
  PROVE  [size |-> size, cmds |-> cmds] \in Linked
<1>1. P!WellFormed(cmds, size)
  BY ParserAssumption, P!AcceptedWellFormed DEF Inv, P!AcceptedIsWellFormed
<1>2. size \in Nat /\ cmds \in CommandArray(size)
  BY SameCommands DEF Inv, P!Inv, P!TypeOK
<1>3. \A i \in 0 .. size - 1 : cmds[i].values \subseteq -IntMax - 1 .. IntMax
  BY ParseFileAssumption DEF Inv, P!ValuesRead
<1>4. WellFormed(cmds, size)
  BY <1>1, SameCommands
<1>5. QED
  BY <1>2, <1>3, <1>4 DEF Linked

\* The initial states satisfy the invariant.
LEMMA InitInv == Init => Inv
<1> SUFFICES ASSUME Init PROVE Inv
  OBVIOUS
<1>1. P!Init /\ pc = "idle" /\ cmd_i_stack = <<>>
  BY SameParserSteps DEF Init
<1>2. P!Inv
  BY <1>1, ParserAssumption, P!InitInv
<1>3. P!ValuesRead
  <2>1. 0 .. size - 1 = {}
    BY <1>1 DEF P!Init
  <2>2. QED
    BY <2>1 DEF P!ValuesRead
<1>4. QED
  BY <1>1, <1>2, <1>3 DEF Inv

\* A step of the parser keeps its part of the invariant.
LEMMA ParserInv ==
  ASSUME Inv, P!Next \/ P!NewText \/ UNCHANGED parserVars
  PROVE  P!Inv' /\ P!ValuesRead'
<1>1. P!Next \/ UNCHANGED P!vars
  BY DEF P!Next, parserVars, P!vars
<1>2. QED
  BY <1>1, ParserAssumption, P!NextInv, P!NextValuesRead DEF Inv

\* Every step keeps the invariant.
LEMMA NextInv == Inv /\ [Next]_vars => Inv'
<1> SUFFICES ASSUME Inv, [Next]_vars PROVE Inv'
  OBVIOUS
<1> USE PlayerAssumptions
<1>1. CASE ReadText
  <2>1. P!Inv' /\ P!ValuesRead'
    BY <1>1, SameParserSteps, ParserInv DEF ReadText
  <2>2. pc = "idle" /\ UNCHANGED <<pc, cmd_i_stack>>
    BY <1>1 DEF ReadText, playerVars
  <2>3. QED
    BY <2>1, <2>2 DEF Inv
<1>2. CASE RunAccepted
  <2> DEFINE p == [size |-> size, cmds |-> cmds]
  <2>1. /\ phase = "accepted" /\ R!StartRun(p) /\ UNCHANGED parserVars
    BY <1>2, SamePlayerSteps DEF RunAccepted
  <2>2. P!Inv' /\ P!ValuesRead'
    BY <2>1, ParserInv
  <2>3. p \in Linked
    BY <2>1, AcceptedIsLinked
  <2>4. /\ pc = "idle" /\ pc' = "check" /\ program' = p
    BY <2>1 DEF R!StartRun
  <2>5. R!StackIsPerRun
    BY <2>4 DEF Inv, R!StackIsPerRun
  <2>6. R!Inv'
    BY <2>1, <2>3, <2>5, R!StartRunInv
  <2>7. phase' = phase /\ size' = size /\ cmds' = cmds
    BY <2>1 DEF parserVars
  <2>8. QED
    BY <2>1, <2>2, <2>4, <2>6, <2>7 DEF Inv
<1>3. CASE RunStep
  <2>1. /\ R!EnterCommand \/ R!FinishRun \/ R!EscapePressed \/ R!RunCommand
        /\ UNCHANGED parserVars
    BY <1>3, SamePlayerSteps DEF RunStep
  <2>2. P!Inv' /\ P!ValuesRead'
    BY <2>1, ParserInv
  <2>3. pc # "idle"
    BY <2>1 DEF R!EnterCommand, R!FinishRun, R!EscapePressed, R!RunCommand
  <2>4. R!Inv'
    BY <2>1, <2>3, R!NextInv DEF Inv, R!Next
  <2>5. program' = program
    BY <2>1, SamePlayerSteps, R!SameProgram
       DEF R!EnterCommand, R!FinishRun, R!EscapePressed
  <2>6. phase' = phase /\ size' = size /\ cmds' = cmds
    BY <2>1 DEF parserVars
  <2>7. pc' = "idle" => cmd_i_stack' = <<>>
    BY <2>4 DEF R!Inv, R!StackIsPerRun
  <2>8. QED
    BY <2>2, <2>3, <2>4, <2>5, <2>6, <2>7 DEF Inv
<1>4. CASE NextText
  <2>1. P!NewText /\ pc = "idle" /\ UNCHANGED <<pc, cmd_i_stack>>
    BY <1>4, SameParserSteps DEF NextText
  <2>2. P!Inv' /\ P!ValuesRead'
    BY <2>1, ParserInv
  <2>3. QED
    BY <2>1, <2>2 DEF Inv
<1>5. CASE UNCHANGED vars
  <2>1. UNCHANGED parserVars /\ UNCHANGED playerVars
    BY <1>5 DEF vars
  <2>2. P!Inv' /\ P!ValuesRead'
    BY <2>1, ParserInv
  <2>3. R!Inv => R!Inv'
    <3>1. UNCHANGED R!vars
      BY <2>1 DEF playerVars, R!vars
    <3>2. QED
      BY <3>1, R!NextInv
  <2>4. QED
    BY <2>1, <2>2, <2>3 DEF Inv, parserVars, playerVars
<1>6. QED
  BY <1>1, <1>2, <1>3, <1>4, <1>5 DEF Next

\* The invariant holds in every state of every session.
THEOREM InvHolds == Spec => []Inv
BY InitInv, NextInv, PTL DEF Spec

\* Whatever text is accepted, running it any number of times, with other texts in
\* between, never fetches a command outside its array.
THEOREM EveryTextRunsInBounds == Spec => []AcceptedRunsInBounds
<1>1. Inv => AcceptedRunsInBounds
  <2> SUFFICES ASSUME Inv PROVE AcceptedRunsInBounds
    OBVIOUS
  <2>1. CASE pc = "idle"
    BY <2>1 DEF AcceptedRunsInBounds, Player!IndexInBounds
  <2>2. CASE pc # "idle"
    <3>1. R!IndexInBounds
      BY <2>2 DEF Inv, R!Inv
    <3>2. QED
      BY <3>1 DEF AcceptedRunsInBounds, Player!IndexInBounds, Player!Indices, Player!Size,
                  R!IndexInBounds, R!Indices, R!Size
  <2>3. QED
    BY <2>1, <2>2
<1>2. QED
  BY <1>1, InvHolds, PTL

\* JumpBack of a run never returns to a command of another text.
THEOREM EveryTextKeepsItsCallers == Spec => []CallersOfThisText
<1>1. Inv => CallersOfThisText
  <2> SUFFICES ASSUME Inv PROVE CallersOfThisText
    OBVIOUS
  <2>1. CASE pc = "idle"
    BY <2>1 DEF Inv, CallersOfThisText, Player!StackHoldsCallers
  <2>2. CASE pc # "idle"
    <3>1. R!StackHoldsCallers
      BY <2>2 DEF Inv, R!Inv
    <3>2. QED
      BY <3>1 DEF CallersOfThisText, Player!StackHoldsCallers, Player!Size,
                  R!StackHoldsCallers, R!Size
  <2>3. QED
    BY <2>1, <2>2
<1>2. QED
  BY <1>1, InvHolds, PTL
===============================================================================
