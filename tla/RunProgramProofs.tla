---------------------------- MODULE RunProgramProofs ----------------------------
(***************************************************************************)
(* Proofs about RunProgram and CountedLoops, for every set of programs that passed the      *)
(* extra checks, every width of int and every limit on the stack.          *)
(***************************************************************************)
EXTENDS CountedLoops, SequenceTheorems, TLAPS

(***************************************************************************)
(* The inductive invariant.  The bounds on cmd_arr_i need the stack to     *)
(* hold only callers of the running program (JumpBack), which needs the    *)
(* stack to be empty between runs (StartRun).                              *)
(***************************************************************************)
Inv == TypeOK /\ IndexInBounds /\ StackHoldsCallers /\ StackIsPerRun

\* What ProgramsAssumption and TypeOK say of the program that runs.
LEMMA ProgramFacts ==
  ASSUME TypeOK
  PROVE  /\ Size \in Nat
         /\ program.cmds \in CommandArray(Size)
         /\ WellFormed(program.cmds, Size)
         /\ \A i \in Indices : program.cmds[i] \in CommandRec
         /\ \A i \in Indices : program.cmds[i].values \subseteq Ints
BY ProgramsAssumption DEF TypeOK, Size, Indices, CommandArray

\* Wrap keeps the successor of an int an int.
LEMMA WrapInt ==
  ASSUME NEW x \in Ints
  PROVE  Wrap(x + 1) \in Ints
BY BoundsAssumption DEF Wrap, Ints, IntMin

\* What is left of a sequence whose last element is taken off.
LEMMA Popped ==
  ASSUME NEW S, NEW s \in Seq(S), Len(s) > 0
  PROVE  /\ SubSeq(s, 1, Len(s) - 1) \in Seq(S)
         /\ Len(SubSeq(s, 1, Len(s) - 1)) = Len(s) - 1
         /\ \A k \in 1 .. Len(s) - 1 : SubSeq(s, 1, Len(s) - 1)[k] = s[k]
<1>1. PICK m \in Nat : m = Len(s) - 1
  OBVIOUS
<1>2. \A k \in 1 .. m : s[k] \in S
  BY <1>1
<1>3. /\ SubSeq(s, 1, m) \in Seq(S)
      /\ Len(SubSeq(s, 1, m)) = (IF 1 <= m THEN m - 1 + 1 ELSE 0)
      /\ \A k \in 1 .. m - 1 + 1 : SubSeq(s, 1, m)[k] = s[1 + k - 1]
  BY <1>2, SubSeqProperties
<1>4. m - 1 + 1 = m /\ (IF 1 <= m THEN m - 1 + 1 ELSE 0) = m
  OBVIOUS
<1>5. \A k \in 1 .. m : 1 + k - 1 = k
  OBVIOUS
<1>6. QED
  BY <1>1, <1>3, <1>4, <1>5

\* The types of the fields of the command that is run.
LEMMA CmdFacts ==
  ASSUME TypeOK, cmd_arr_i \in Indices
  PROVE  /\ Cmd \in CommandRec
         /\ Cmd.cmd_index \in Int /\ Cmd.jump_e \in Int /\ Cmd.jump_ne \in Int
         /\ Cmd.values \subseteq Ints
         /\ Cmd.store_index \in BOOLEAN /\ Cmd.invert \in BOOLEAN
<1>1. Cmd \in CommandRec /\ Cmd.values \subseteq Ints
  BY ProgramFacts DEF Cmd
<1>2. QED
  BY <1>1 DEF CommandRec

\* A query goes to a command of the program.
LEMMA QueryStays ==
  ASSUME TypeOK, cmd_arr_i \in Indices, IsQuery(Cmd), NEW q \in BOOLEAN
  PROVE  QueryTarget(q) \in Indices
<1>1. QueriesInBounds(program.cmds, Size) /\ Size \in Nat
  BY ProgramFacts DEF WellFormed
<1>2. cmd_arr_i + Cmd.jump_e \in Indices /\ cmd_arr_i + Cmd.jump_ne \in Indices
  BY <1>1 DEF QueriesInBounds, Indices, Cmd
<1>3. QED
  BY <1>2 DEF QueryTarget

\* A RepeatEnd goes back to a RepeatStart before it.
LEMMA RepeatStays ==
  ASSUME TypeOK, cmd_arr_i \in Indices, Cmd.type = "RepeatEnd"
  PROVE  Cmd.cmd_index \in Indices /\ Cmd.cmd_index + 1 \in Indices
<1>1. RepeatsLinked(program.cmds, Size) /\ Size \in Nat
  BY ProgramFacts DEF WellFormed
<1>2. Cmd.cmd_index \in 0 .. cmd_arr_i - 1
  BY <1>1 DEF RepeatsLinked, Indices, Cmd
<1>3. QED
  BY <1>1, <1>2 DEF Indices

\* A JumpTo goes to a JumpFrom that is not the last command; one that stores its
\* index is not the last command itself.
LEMMA JumpStays ==
  ASSUME TypeOK, cmd_arr_i \in Indices, Cmd.type = "JumpTo"
  PROVE  /\ Cmd.cmd_index + 1 \in Indices
         /\ Cmd.store_index => cmd_arr_i \in 0 .. Size - 2
<1>1. /\ JumpsLinked(program.cmds, Size) /\ LastCommandOK(program.cmds, Size)
      /\ Size \in Nat
  BY ProgramFacts DEF WellFormed
<1>2. /\ Cmd.cmd_index \in 0 .. Size - 1
      /\ program.cmds[Cmd.cmd_index].type = "JumpFrom"
  BY <1>1 DEF JumpsLinked, Indices, Cmd
<1>3. Cmd.cmd_index # Size - 1
  BY <1>1, <1>2 DEF LastCommandOK
<1>4. Cmd.store_index => cmd_arr_i # Size - 1
  BY <1>1 DEF LastCommandOK, Cmd
<1>5. QED
  BY <1>1, <1>2, <1>3, <1>4 DEF Indices

-------------------------------------------------------------------------------
\* The initial states satisfy the invariant.
LEMMA InitInv == Init => Inv
<1> SUFFICES ASSUME Init PROVE Inv
  OBVIOUS
<1>1. TypeOK
  <2>1. 0 \in Ints /\ MaxStack \in Nat
    BY BoundsAssumption DEF Ints, IntMin
  <2>2. QED
    BY <2>1 DEF Init, TypeOK
<1>2. IndexInBounds /\ StackHoldsCallers /\ StackIsPerRun
  BY DEF Init, IndexInBounds, StackHoldsCallers, StackIsPerRun
<1>3. QED
  BY <1>1, <1>2 DEF Inv

\* A step of the main loop keeps the invariant if it ends at a command or at the
\* end of the array and leaves the counters and the stack as they should be.
LEMMA StepEnds ==
  ASSUME TypeOK, NEW next \in 0 .. Size, NEW success \in BOOLEAN,
         GoTo(next) \/ StopAt(next, success),
         counter' \in [Indices -> Ints],
         cmd_i_stack' \in Seq(Nat), Len(cmd_i_stack') <= MaxStack,
         StackHoldsCallers'
  PROVE  Inv'
<1>1. /\ pc' = "check" /\ cmd_arr_i' = next /\ program' = program
      /\ program_done' \in BOOLEAN /\ no_error' \in BOOLEAN
      /\ next = Size => program_done'
  BY DEF GoTo, StopAt, TypeOK
<1>2. Size' = Size /\ Indices' = Indices /\ Size \in Nat
  BY <1>1, ProgramFacts DEF Size, Indices
<1>3. TypeOK'
  BY <1>1, <1>2 DEF TypeOK
<1>4. IndexInBounds'
  BY <1>1, <1>2 DEF IndexInBounds, Indices
<1>5. StackIsPerRun'
  BY <1>1 DEF StackIsPerRun
<1>6. QED
  BY <1>3, <1>4, <1>5 DEF Inv

\* What the invariant says while a command runs.
LEMMA ExecFacts ==
  ASSUME Inv, pc = "exec"
  PROVE  /\ TypeOK /\ Size \in Nat /\ cmd_arr_i \in Indices
         /\ cmd_arr_i + 1 \in 0 .. Size /\ Indices \subseteq 0 .. Size
<1>1. TypeOK /\ cmd_arr_i \in Indices
  BY DEF Inv, IndexInBounds
<1>2. Size \in Nat
  BY <1>1, ProgramFacts
<1>3. QED
  BY <1>1, <1>2 DEF Indices

\* A command that leaves the stack alone keeps what is said of the stack.
LEMMA SameStack ==
  ASSUME Inv, program' = program, UNCHANGED cmd_i_stack
  PROVE  /\ cmd_i_stack' \in Seq(Nat) /\ Len(cmd_i_stack') <= MaxStack
         /\ StackHoldsCallers'
<1>1. Size' = Size
  BY DEF Size
<1>2. QED
  BY <1>1 DEF Inv, TypeOK, StackHoldsCallers

\* So does one that leaves both the stack and the counters alone.
LEMMA SameStackAndCounters ==
  ASSUME Inv, pc = "exec", UNCHANGED <<cmd_i_stack, counter>>,
         NEW next \in 0 .. Size, NEW success \in BOOLEAN,
         GoTo(next) \/ StopAt(next, success)
  PROVE  Inv'
<1>1. program' = program
  BY DEF GoTo, StopAt
<1>2. TypeOK /\ counter' \in [Indices -> Ints]
  BY DEF Inv, TypeOK
<1>3. QED
  BY <1>1, <1>2, SameStack, StepEnds

-------------------------------------------------------------------------------
(* The commands keep the invariant, one lemma per command that needs more   *)
(* than the index of the next command.                                      *)

\* A RepeatEnd keeps the invariant: it goes back to its RepeatStart or on.
LEMMA RepeatEndInv ==
  ASSUME Inv, NEW max \in Cmd.values, pc = "exec", RepeatEnd(max)
  PROVE  Inv'
<1> DEFINE start == Cmd.cmd_index
<1>1. TypeOK /\ cmd_arr_i \in Indices /\ cmd_arr_i + 1 \in 0 .. Size
  BY ExecFacts
<1>2. Cmd.type = "RepeatEnd" /\ UNCHANGED cmd_i_stack
  BY DEF RepeatEnd, Exec
<1>3. start \in Indices /\ start + 1 \in 0 .. Size
  BY <1>1, <1>2, RepeatStays, ExecFacts
<1>4. PICK next \in 0 .. Size : GoTo(next)
  BY <1>1, <1>3 DEF RepeatEnd
<1>5. counter' \in [Indices -> Ints]
  <2>1. counter \in [Indices -> Ints] /\ 0 \in Ints
    BY <1>1, BoundsAssumption DEF TypeOK, Ints, IntMin
  <2>2. Wrap(counter[start] + 1) \in Ints
    BY <2>1, <1>3, WrapInt
  <2>3. QED
    BY <1>3, <2>1, <2>2 DEF RepeatEnd
<1>6. program' = program
  BY <1>4 DEF GoTo
<1>7. QED
  BY <1>1, <1>2, <1>4, <1>5, <1>6, SameStack, StepEnds

\* A JumpTo keeps it, and what JTS> stores is a caller.
LEMMA JumpToInv ==
  ASSUME Inv, pc = "exec", JumpTo
  PROVE  Inv'
<1>1. TypeOK /\ cmd_arr_i \in Indices /\ Size \in Nat
  BY ExecFacts
<1>2. Cmd.type = "JumpTo" /\ GoTo(Cmd.cmd_index + 1) /\ UNCHANGED counter
  BY DEF JumpTo, Exec
<1>3. Cmd.cmd_index + 1 \in 0 .. Size
  BY <1>1, <1>2, JumpStays, ExecFacts
<1>4. program' = program /\ Size' = Size
  BY <1>2 DEF GoTo, Size
<1>5. counter' \in [Indices -> Ints]
  BY <1>1, <1>2 DEF TypeOK
<1>6. CASE ~Cmd.store_index
  <2>1. UNCHANGED cmd_i_stack
    BY <1>6 DEF JumpTo
  <2>2. QED
    BY <1>1, <1>2, <1>3, <1>4, <1>5, <2>1, SameStack, StepEnds
<1>7. CASE Cmd.store_index
  <2>1. /\ Len(cmd_i_stack) < MaxStack
        /\ cmd_i_stack' = Append(cmd_i_stack, cmd_arr_i)
    BY <1>7 DEF JumpTo
  <2>2. cmd_arr_i \in 0 .. Size - 2
    BY <1>1, <1>2, <1>7, JumpStays
  <2>3. /\ cmd_i_stack \in Seq(Nat) /\ cmd_arr_i \in Nat /\ MaxStack \in Nat
        /\ StackHoldsCallers
    BY <1>1, <2>2, BoundsAssumption DEF Inv, TypeOK
  <2>4. /\ cmd_i_stack' \in Seq(Nat)
        /\ Len(cmd_i_stack') = Len(cmd_i_stack) + 1
        /\ Len(cmd_i_stack') <= MaxStack
    BY <2>1, <2>3
  <2>5. StackHoldsCallers'
    <3> SUFFICES ASSUME NEW k \in 1 .. Len(cmd_i_stack')
                 PROVE  /\ cmd_i_stack'[k] \in 0 .. Size - 2
                        /\ program.cmds[cmd_i_stack'[k]].type = "JumpTo"
                        /\ program.cmds[cmd_i_stack'[k]].store_index
      BY <1>4 DEF StackHoldsCallers
    <3>1. CASE k = Len(cmd_i_stack) + 1
      <4>1. cmd_i_stack'[k] = cmd_arr_i
        BY <2>1, <2>3, <3>1
      <4>2. QED
        BY <4>1, <2>2, <1>2, <1>7 DEF Cmd
    <3>2. CASE k \in 1 .. Len(cmd_i_stack)
      <4>1. cmd_i_stack'[k] = cmd_i_stack[k]
        BY <2>1, <2>3, <3>2
      <4>2. QED
        BY <4>1, <2>3, <3>2 DEF StackHoldsCallers
    <3>3. QED
      BY <2>3, <2>4, <3>1, <3>2
  <2>6. QED
    BY <1>1, <1>2, <1>3, <1>5, <2>4, <2>5, StepEnds
<1>8. QED
  BY <1>6, <1>7

\* A JumpBack keeps it: the popped caller has a command after it.
LEMMA JumpBackInv ==
  ASSUME Inv, pc = "exec", JumpBack
  PROVE  Inv'
<1> DEFINE n == Len(cmd_i_stack)
<1>1. TypeOK /\ Size \in Nat /\ cmd_arr_i + 1 \in 0 .. Size
  BY ExecFacts
<1>2. CASE cmd_i_stack = <<>>
  <2>1. StopAt(cmd_arr_i + 1, FALSE) /\ UNCHANGED <<cmd_i_stack, counter>>
    BY <1>2 DEF JumpBack
  <2>2. QED
    BY <1>1, <2>1, SameStackAndCounters
<1>3. CASE cmd_i_stack # <<>>
  <2>1. /\ GoTo(cmd_i_stack[n] + 1) /\ UNCHANGED counter
        /\ cmd_i_stack' = SubSeq(cmd_i_stack, 1, n - 1)
    BY <1>3 DEF JumpBack
  <2>2. /\ cmd_i_stack \in Seq(Nat) /\ n \in Nat /\ n <= MaxStack /\ MaxStack \in Nat
        /\ StackHoldsCallers
    BY <1>1, BoundsAssumption DEF Inv, TypeOK
  <2>3. n > 0
    BY <1>3, <2>2
  <2>4. cmd_i_stack[n] \in 0 .. Size - 2
    BY <2>2, <2>3 DEF StackHoldsCallers
  <2>5. cmd_i_stack[n] + 1 \in 0 .. Size
    BY <2>4, <1>1
  <2>6. program' = program /\ Size' = Size
    BY <2>1 DEF GoTo, Size
  <2>7. /\ cmd_i_stack' \in Seq(Nat) /\ Len(cmd_i_stack') = n - 1
        /\ \A k \in 1 .. n - 1 : cmd_i_stack'[k] = cmd_i_stack[k]
    BY <2>1, <2>2, <2>3, Popped
  <2>8. StackHoldsCallers'
    <3> SUFFICES ASSUME NEW k \in 1 .. Len(cmd_i_stack')
                 PROVE  /\ cmd_i_stack'[k] \in 0 .. Size - 2
                        /\ program.cmds[cmd_i_stack'[k]].type = "JumpTo"
                        /\ program.cmds[cmd_i_stack'[k]].store_index
      BY <2>6 DEF StackHoldsCallers
    <3>1. k \in 1 .. n /\ cmd_i_stack'[k] = cmd_i_stack[k]
      BY <2>2, <2>7
    <3>2. QED
      BY <3>1, <2>2 DEF StackHoldsCallers
  <2>9. counter' \in [Indices -> Ints] /\ Len(cmd_i_stack') <= MaxStack
    BY <1>1, <2>1, <2>2, <2>7 DEF TypeOK
  <2>10. QED
    BY <1>1, <2>1, <2>5, <2>7, <2>8, <2>9, StepEnds
<1>4. QED
  BY <1>2, <1>3

\* A JumpToIndex keeps it: the bounds check is the one that is needed.
LEMMA JumpToIndexInv ==
  ASSUME Inv, NEW value \in Cmd.values, pc = "exec", JumpToIndex(value)
  PROVE  Inv'
<1> DEFINE n == JumpPosition(value)
<1>1. TypeOK /\ Size \in Nat /\ cmd_arr_i + 1 \in 0 .. Size
  BY ExecFacts
<1>2. UNCHANGED <<cmd_i_stack, counter>>
  BY DEF JumpToIndex
<1>3. CASE n \in 1 .. Size
  <2>1. GoTo(n - 1) /\ n - 1 \in 0 .. Size
    BY <1>1, <1>3 DEF JumpToIndex
  <2>2. QED
    BY <1>2, <2>1, SameStackAndCounters
<1>4. CASE n \notin 1 .. Size
  <2>1. StopAt(cmd_arr_i + 1, FALSE)
    BY <1>4 DEF JumpToIndex
  <2>2. QED
    BY <1>1, <1>2, <2>1, SameStackAndCounters
<1>5. QED
  BY <1>3, <1>4

\* Every command keeps the invariant.
LEMMA CommandInv ==
  ASSUME Inv, RunCommand
  PROVE  Inv'
<1>1. pc = "exec"
  BY DEF RunCommand
<1>2. /\ TypeOK /\ Size \in Nat /\ cmd_arr_i \in Indices
      /\ cmd_arr_i + 1 \in 0 .. Size /\ Indices \subseteq 0 .. Size
  BY <1>1, ExecFacts
<1>3. CASE Effect \/ Wait
  BY <1>1, <1>2, <1>3, SameStackAndCounters DEF Effect, Wait
<1>4. CASE RuntimeError
  <2>1. (IF IsQuery(Cmd) THEN QueryTarget(FALSE) ELSE cmd_arr_i + 1) \in 0 .. Size
    BY <1>2, QueryStays
  <2>2. QED
    BY <1>1, <1>4, <2>1, SameStackAndCounters DEF RuntimeError
<1>5. CASE Exit
  BY <1>1, <1>2, <1>5, SameStackAndCounters DEF Exit
<1>6. ASSUME NEW q \in BOOLEAN, Query(q) PROVE Inv'
  <2>1. IsQuery(Cmd) /\ GoTo(QueryTarget(q)) /\ UNCHANGED <<cmd_i_stack, counter>>
    BY <1>6 DEF Query, Exec, IsQuery
  <2>2. QueryTarget(q) \in 0 .. Size
    BY <1>2, <2>1, QueryStays
  <2>3. QED
    BY <1>1, <2>1, <2>2, SameStackAndCounters
<1>7. ASSUME NEW max \in Cmd.values, RepeatEnd(max) PROVE Inv'
  BY <1>1, <1>7, RepeatEndInv
<1>8. CASE RepeatResetCounters
  <2>1. /\ GoTo(cmd_arr_i + 1) /\ UNCHANGED cmd_i_stack
        /\ counter' = [i \in Indices |-> 0]
    BY <1>8 DEF RepeatResetCounters
  <2>2. program' = program
    BY <2>1 DEF GoTo
  <2>3. counter' \in [Indices -> Ints]
    BY <2>1, BoundsAssumption DEF Ints, IntMin
  <2>4. QED
    BY <1>2, <2>1, <2>2, <2>3, SameStack, StepEnds
<1>9. CASE JumpTo
  BY <1>1, <1>9, JumpToInv
<1>10. CASE StackExhausted
  <2>1. /\ pc' = "exited"
        /\ UNCHANGED <<program, cmd_arr_i, cmd_i_stack, counter, program_done, no_error>>
    BY <1>10 DEF StackExhausted
  <2>2. QED
    BY <2>1 DEF Inv, TypeOK, IndexInBounds, StackHoldsCallers, StackIsPerRun, Size, Indices
<1>11. ASSUME NEW value \in Cmd.values, JumpToIndex(value) PROVE Inv'
  BY <1>1, <1>11, JumpToIndexInv
<1>12. CASE JumpBack
  BY <1>1, <1>12, JumpBackInv
<1>13. QED
  BY <1>3, <1>4, <1>5, <1>6, <1>7, <1>8, <1>9, <1>10, <1>11, <1>12 DEF RunCommand

-------------------------------------------------------------------------------
\* A command does not change the program.
LEMMA SameProgram ==
  ASSUME RunCommand
  PROVE  program' = program
BY DEF RunCommand, Effect, Wait, RuntimeError, Exit, Query, RepeatEnd, RepeatResetCounters,
       JumpTo, StackExhausted, JumpToIndex, JumpBack, GoTo, StopAt

\* A run starts with the invariant, whatever the run before it left but the stack.
LEMMA StartRunInv ==
  ASSUME StackIsPerRun, NEW p \in Programs, StartRun(p)
  PROVE  Inv'
<1>1. /\ pc' = "check" /\ program' = p /\ cmd_arr_i' = 0 /\ program_done' = FALSE
      /\ cmd_i_stack' = <<>> /\ no_error' = TRUE
      /\ counter' = [i \in 0 .. p.size - 1 |-> 0]
  BY DEF StartRun, StackIsPerRun
<1>2. Size' = p.size /\ Indices' = 0 .. p.size - 1 /\ p.size \in Nat /\ p.size > 0
  BY <1>1, ProgramsAssumption DEF Size, Indices, WellFormed
<1>3. 0 \in Ints /\ MaxStack \in Nat
  BY BoundsAssumption DEF Ints, IntMin
<1>4. TypeOK'
  <2>1. counter' \in [Indices' -> Ints]
    BY <1>1, <1>2, <1>3
  <2>2. cmd_i_stack' \in Seq(Nat) /\ Len(cmd_i_stack') <= MaxStack
    BY <1>1, <1>3
  <2>3. program_done' \in BOOLEAN /\ no_error' \in BOOLEAN
    BY <1>1, Zenon
  <2>4. program' \in Programs /\ pc' \in {"idle", "check", "exec", "exited"}
    BY <1>1
  <2>5. cmd_arr_i' \in Int
    BY <1>1
  <2>6. QED
    BY <2>1, <2>2, <2>3, <2>4, <2>5, Zenon DEF TypeOK
<1>5. QED
  BY <1>1, <1>2, <1>4 DEF Inv, IndexInBounds, StackHoldsCallers, StackIsPerRun

\* Every step keeps the invariant.
LEMMA NextInv == Inv /\ [Next]_vars => Inv'
<1> SUFFICES ASSUME Inv, [Next]_vars PROVE Inv'
  OBVIOUS
<1> USE DEF Inv
<1>1. ASSUME NEW p \in Programs, StartRun(p) PROVE Inv'
  BY <1>1, StartRunInv
<1>2. CASE EnterCommand
  BY <1>2 DEF EnterCommand, TypeOK, IndexInBounds, StackHoldsCallers, StackIsPerRun,
              Size, Indices
<1>3. CASE FinishRun
  <2>1. MaxStack \in Nat
    BY BoundsAssumption
  <2>2. QED
    BY <1>3, <2>1 DEF FinishRun, TypeOK, IndexInBounds, StackHoldsCallers, StackIsPerRun,
                      Size, Indices
<1>4. CASE EscapePressed
  BY <1>4 DEF EscapePressed, TypeOK, IndexInBounds, StackHoldsCallers, StackIsPerRun,
              Size, Indices
<1>5. CASE RunCommand
  BY <1>5, CommandInv
<1>6. CASE UNCHANGED vars
  BY <1>6 DEF vars, TypeOK, IndexInBounds, StackHoldsCallers, StackIsPerRun, Size, Indices
<1>7. QED
  BY <1>1, <1>2, <1>3, <1>4, <1>5, <1>6 DEF Next

\* The invariant holds in every state of every run.
THEOREM InvHolds == Spec => []Inv
BY InitInv, NextInv, PTL DEF Spec

\* Every variable of the interpreter keeps its type.
THEOREM TypeCorrect == Spec => []TypeOK
BY InvHolds, PTL DEF Inv

\* run_program reads cmd_arr->cmds[cmd_arr_i] inside the array, for every program
\* that the extra checks let through.
THEOREM IndexStaysInBounds == Spec => []IndexInBounds
BY InvHolds, PTL DEF Inv

\* JumpBack returns to JTS> commands of the running program only.
THEOREM StackKeepsCallers == Spec => []StackHoldsCallers
BY InvHolds, PTL DEF Inv

\* The global stack of command indices is empty between two runs.
THEOREM StackEmptyBetweenRuns == Spec => []StackIsPerRun
BY InvHolds, PTL DEF Inv

-------------------------------------------------------------------------------
(***************************************************************************)
(* After a runtime error: the error is remembered only together with       *)
(* program_done, and not while a command runs.                             *)
(***************************************************************************)
ErrorStops == ~no_error => program_done /\ pc \in {"check", "idle"}

\* A step of the main loop that starts without an error keeps ErrorStops.
LEMMA CommandErrorStops ==
  ASSUME pc = "exec", ErrorStops, RunCommand
  PROVE  ErrorStops'
<1>1. no_error
  BY DEF ErrorStops
<1>2. CASE StackExhausted
  BY <1>1, <1>2 DEF StackExhausted, ErrorStops
<1>3. ASSUME NEW next, NEW success, GoTo(next) \/ StopAt(next, success) PROVE ErrorStops'
  BY <1>1, <1>3 DEF GoTo, StopAt, ErrorStops
<1>4. CASE Effect \/ Wait
  BY <1>3, <1>4 DEF Effect, Wait
<1>5. CASE RuntimeError
  BY <1>3, <1>5 DEF RuntimeError
<1>6. CASE Exit
  BY <1>3, <1>6 DEF Exit
<1>7. CASE \E q \in BOOLEAN : Query(q)
  BY <1>3, <1>7 DEF Query
<1>8. CASE \E max \in Cmd.values : RepeatEnd(max)
  BY <1>3, <1>8 DEF RepeatEnd
<1>9. CASE RepeatResetCounters
  BY <1>3, <1>9 DEF RepeatResetCounters
<1>10. CASE JumpTo
  BY <1>3, <1>10 DEF JumpTo
<1>11. CASE \E value \in Cmd.values : JumpToIndex(value)
  BY <1>3, <1>11 DEF JumpToIndex
<1>12. CASE JumpBack
  BY <1>3, <1>12 DEF JumpBack
<1>13. QED
  BY <1>2, <1>4, <1>5, <1>6, <1>7, <1>8, <1>9, <1>10, <1>11, <1>12 DEF RunCommand

\* Every step keeps ErrorStops.
LEMMA NextErrorStops == ErrorStops /\ [Next]_vars => ErrorStops'
<1> SUFFICES ASSUME ErrorStops, [Next]_vars PROVE ErrorStops'
  OBVIOUS
<1>1. CASE \E p \in Programs : StartRun(p)
  BY <1>1 DEF StartRun, ErrorStops
<1>2. CASE EnterCommand
  BY <1>2 DEF EnterCommand, ErrorStops
<1>3. CASE FinishRun
  BY <1>3 DEF FinishRun, ErrorStops
<1>4. CASE EscapePressed
  BY <1>4 DEF EscapePressed, ErrorStops
<1>5. CASE RunCommand
  BY <1>5, CommandErrorStops DEF RunCommand
<1>6. CASE UNCHANGED vars
  BY <1>6 DEF vars, ErrorStops
<1>7. QED
  BY <1>1, <1>2, <1>3, <1>4, <1>5, <1>6 DEF Next

\* After a runtime error no further command runs and the run ends with the error
\* as its result.
THEOREM ErrorIsFinal == Spec => NothingAfterError
<1>1. Init => ErrorStops
  BY DEF Init, ErrorStops
<1>2. ErrorStops /\ [Next]_vars
        => [~no_error => pc' # "exec" /\ (pc' = "idle" => ~no_error')]_vars
  <2> SUFFICES ASSUME ErrorStops, Next, ~no_error
               PROVE  pc' # "exec" /\ (pc' = "idle" => ~no_error')
    OBVIOUS
  <2>1. program_done /\ pc \in {"check", "idle"}
    BY DEF ErrorStops
  <2>2. CASE \E p \in Programs : StartRun(p)
    BY <2>2 DEF StartRun
  <2>3. CASE FinishRun
    BY <2>3 DEF FinishRun
  <2>4. CASE EnterCommand \/ EscapePressed
    BY <2>1, <2>4 DEF EnterCommand, EscapePressed
  <2>5. CASE RunCommand
    BY <2>1, <2>5 DEF RunCommand
  <2>6. QED
    BY <2>2, <2>3, <2>4, <2>5 DEF Next
<1>3. QED
  BY <1>1, <1>2, NextErrorStops, PTL DEF Spec, NothingAfterError

-------------------------------------------------------------------------------
(* The counters of repeats with a literal count. *)

\* A step that leaves program and counter alone keeps every counter below its
\* maximum.
LEMMA SameCounters ==
  ASSUME CounterBelowMax, UNCHANGED <<program, counter>>
  PROVE  CounterBelowMax'
BY DEF CounterBelowMax, RepeatsTimes, Indices, Size

\* Counters that are all zero are below every maximum.
LEMMA ZeroCounters ==
  ASSUME \A i \in Indices' : counter'[i] = 0
  PROVE  CounterBelowMax'
<1> SUFFICES ASSUME NEW s \in Indices', NEW m \in 1 .. IntMax
             PROVE  counter'[s] \in 0 .. m - 1
  BY DEF CounterBelowMax
<1>1. QED
  BY BoundsAssumption

\* A RepeatEnd counts up to its maximum and then starts again at zero.
LEMMA RepeatEndCounts ==
  ASSUME Inv, CounterBelowMax, NEW max \in Cmd.values, pc = "exec", RepeatEnd(max)
  PROVE  CounterBelowMax'
<1> DEFINE start == Cmd.cmd_index
<1>1. TypeOK /\ cmd_arr_i \in Indices
  BY ExecFacts
<1>2. Cmd.type = "RepeatEnd" /\ program' = program
  BY DEF RepeatEnd, Exec, GoTo
<1>3. start \in Indices /\ Indices' = Indices /\ counter \in [Indices -> Ints]
  BY <1>1, <1>2, RepeatStays DEF TypeOK, Indices, Size
<1> SUFFICES ASSUME NEW s \in Indices, NEW m \in 1 .. IntMax, RepeatsTimes(s, m)
             PROVE  counter'[s] \in 0 .. m - 1
  BY <1>2, <1>3 DEF CounterBelowMax, RepeatsTimes
<1>4. counter[s] \in 0 .. m - 1
  BY DEF CounterBelowMax
<1>5. CASE s # start
  <2>1. counter'[s] = counter[s]
    BY <1>3, <1>5 DEF RepeatEnd
  <2>2. QED
    BY <1>4, <2>1
<1>6. CASE s = start
  <2>1. max = m
    BY <1>1, <1>2, <1>6 DEF RepeatsTimes, Cmd
  <2>2. Wrap(counter[start] + 1) = counter[start] + 1
    BY <1>4, <1>6, BoundsAssumption DEF Wrap
  <2>3. counter'[start] = IF counter[start] + 1 = m THEN 0 ELSE counter[start] + 1
    BY <1>3, <2>1, <2>2, BoundsAssumption DEF RepeatEnd
  <2>4. QED
    BY <1>4, <1>6, <2>3, BoundsAssumption
<1>7. QED
  BY <1>5, <1>6

\* Every command keeps every counter below its maximum.
LEMMA CommandCounts ==
  ASSUME Inv, CounterBelowMax, RunCommand
  PROVE  CounterBelowMax'
<1>1. pc = "exec"
  BY DEF RunCommand
<1>2. CASE \E max \in Cmd.values : RepeatEnd(max)
  BY <1>1, <1>2, RepeatEndCounts
<1>3. CASE RepeatResetCounters
  BY <1>3, ZeroCounters DEF RepeatResetCounters, GoTo, Indices, Size
<1>4. CASE Effect \/ Wait \/ RuntimeError \/ Exit \/ (\E q \in BOOLEAN : Query(q))
  BY <1>4, SameCounters DEF Effect, Wait, RuntimeError, Exit, Query, GoTo, StopAt
<1>5. CASE JumpTo \/ StackExhausted
  BY <1>5, SameCounters DEF JumpTo, StackExhausted, GoTo
<1>6. CASE (\E value \in Cmd.values : JumpToIndex(value)) \/ JumpBack
  BY <1>6, SameCounters DEF JumpToIndex, JumpBack, GoTo, StopAt
<1>7. QED
  BY <1>2, <1>3, <1>4, <1>5, <1>6 DEF RunCommand

\* The counter of a loop of m rounds stays below m, so that the test for equality
\* with m is never jumped over, whatever jumps enter and leave the loop.
THEOREM CountersStayBelow == Spec => []CounterBelowMax
<1>1. Init => CounterBelowMax
  <2> SUFFICES ASSUME Init, NEW s \in Indices, NEW m \in 1 .. IntMax
               PROVE  counter[s] \in 0 .. m - 1
    BY DEF CounterBelowMax
  <2>1. counter[s] = 0
    BY DEF Init
  <2>2. QED
    BY <2>1, BoundsAssumption
<1>2. Inv /\ CounterBelowMax /\ [Next]_vars => CounterBelowMax'
  <2> SUFFICES ASSUME Inv, CounterBelowMax, [Next]_vars PROVE CounterBelowMax'
    OBVIOUS
  <2>1. ASSUME NEW p \in Programs, StartRun(p) PROVE CounterBelowMax'
    BY <2>1, ZeroCounters DEF StartRun, Indices, Size
  <2>2. CASE EnterCommand \/ FinishRun \/ EscapePressed
    BY <2>2, SameCounters DEF EnterCommand, FinishRun, EscapePressed
  <2>3. CASE RunCommand
    BY <2>3, CommandCounts
  <2>4. CASE UNCHANGED vars
    BY <2>4, SameCounters DEF vars
  <2>5. QED
    BY <2>1, <2>2, <2>3, <2>4 DEF Next
<1>3. QED
  BY <1>1, <1>2, InvHolds, PTL DEF Spec

-------------------------------------------------------------------------------
(* The rounds of counted loops. *)

(***************************************************************************)
(* While the run is in a loop, its counter is the number of rounds made;   *)
(* elsewhere the counter is 0, so that the loop starts with it.            *)
(***************************************************************************)
LoopOK(e) ==
  /\ \A m \in 1 .. IntMax : program.cmds[e].values = {m} => counter[StartOf(e)] \in 0 .. m - 1
  /\ cmd_arr_i \in LoopOf(e) => rounds[StartOf(e)] = counter[StartOf(e)]
  /\ cmd_arr_i \notin LoopOf(e) => counter[StartOf(e)] = 0

\* A command runs or is about to.
Running ==
  \/ pc = "exec"
  \/ pc = "check" /\ ~program_done

LoopsInv ==
  /\ rounds \in [Indices -> Nat]
  /\ Running /\ LoopsAreCounted => \A e \in RepeatEnds : LoopOK(e)

\* Where a loop is: its start is before it, its end is its last command.
LEMMA LoopFacts ==
  ASSUME TypeOK, NEW e \in RepeatEnds
  PROVE  /\ e \in Indices /\ StartOf(e) \in Indices /\ Size \in Nat
         /\ program.cmds[StartOf(e)].type = "RepeatStart"
         /\ program.cmds[e].type = "RepeatEnd"
         /\ StartOf(e) \notin LoopOf(e) /\ StartOf(e) + 1 \in LoopOf(e)
         /\ e \in LoopOf(e) /\ e + 1 \notin LoopOf(e)
<1>1. RepeatsLinked(program.cmds, Size) /\ Size \in Nat
  BY ProgramFacts DEF WellFormed
<1>2. e \in Indices /\ program.cmds[e].type = "RepeatEnd"
  BY DEF RepeatEnds
<1>3. /\ StartOf(e) \in 0 .. e - 1
      /\ program.cmds[StartOf(e)].type = "RepeatStart"
  BY <1>1, <1>2 DEF RepeatsLinked, Indices, StartOf
<1>4. QED
  BY <1>1, <1>2, <1>3 DEF Indices, LoopOf

\* Of two RepeatEnds of one start, one would leave the loop of the other.
LEMMA OneEndPerStart ==
  ASSUME TypeOK, LoopsAreCounted, NEW d \in RepeatEnds, NEW e \in RepeatEnds,
         StartOf(d) = StartOf(e)
  PROVE  d = e
<1>1. ASSUME NEW x \in RepeatEnds, NEW y \in RepeatEnds, x < y, StartOf(x) = StartOf(y)
      PROVE  FALSE
  <2>1. y \in Indices \ {x, StartOf(x)}
    BY <1>1, LoopFacts DEF Indices, LoopOf
  <2>2. StartOf(y) + 1 \in Successors(y)
    BY LoopFacts DEF Successors, StartOf
  <2>3. y \in LoopOf(x) <=> StartOf(y) + 1 \in LoopOf(x)
    BY <2>1, <2>2 DEF LoopsAreCounted
  <2>4. y \notin LoopOf(x)
    BY <1>1, LoopFacts DEF LoopOf, Indices
  <2>. QED  BY <1>1, <2>3, <2>4, LoopFacts
<1>2. d \in Int /\ e \in Int
  BY LoopFacts DEF Indices
<1>. QED  BY <1>1, <1>2

\* A run that goes on goes to a successor of its command, and only the ends of
\* loops change counters.
LEMMA GoesOn ==
  ASSUME Inv, LoopsAreCounted, RunCommand, Running'
  PROVE  /\ program' = program /\ pc' = "check"
         /\ cmd_arr_i' \in Successors(cmd_arr_i)
         /\ Cmd.type # "RepeatEnd" => counter' = counter
         /\ Cmd.type = "RepeatEnd" => \E max \in Cmd.values : RepeatEnd(max)
<1>1. /\ pc = "exec" /\ cmd_arr_i \in Indices
      /\ Cmd.type \notin {"JumpToIndex", "JumpBack", "RepeatResetCounters"}
  BY ExecFacts DEF RunCommand, LoopsAreCounted, Cmd
<1>2. ASSUME NEW next, NEW success, StopAt(next, success) PROVE FALSE
  BY <1>2 DEF StopAt, Running
<1>3. ASSUME NEW next, GoTo(next)
      PROVE  program' = program /\ pc' = "check" /\ cmd_arr_i' = next
  BY <1>3 DEF GoTo
<1>4. CASE Effect \/ Wait
  BY <1>3, <1>4 DEF Effect, Wait, Exec, Successors, Cmd
<1>5. CASE RuntimeError \/ Exit
  BY <1>2, <1>5 DEF RuntimeError, Exit
<1>6. ASSUME NEW q \in BOOLEAN, Query(q)
      PROVE  /\ program' = program /\ pc' = "check" /\ counter' = counter
             /\ cmd_arr_i' \in Successors(cmd_arr_i) /\ Cmd.type = "Query"
  BY <1>3, <1>6 DEF Query, Exec, Successors, QueryTarget, Cmd
<1>7. ASSUME NEW max \in Cmd.values, RepeatEnd(max)
      PROVE  /\ program' = program /\ pc' = "check"
             /\ cmd_arr_i' \in Successors(cmd_arr_i) /\ Cmd.type = "RepeatEnd"
  BY <1>3, <1>7 DEF RepeatEnd, Exec, Successors, Cmd
<1>8. CASE JumpTo
  BY <1>3, <1>8 DEF JumpTo, Exec, Successors, Cmd
<1>9. CASE StackExhausted
  BY <1>9 DEF StackExhausted, Running
<1>10. CASE RepeatResetCounters \/ (\E value \in Cmd.values : JumpToIndex(value)) \/ JumpBack
  BY <1>1, <1>10 DEF RepeatResetCounters, JumpToIndex, JumpBack, Exec
<1>. QED  BY <1>4, <1>5, <1>6, <1>7, <1>8, <1>9, <1>10 DEF RunCommand

\* A loop that is neither started nor ended stays as it is.
LEMMA OtherLoop ==
  ASSUME Inv, LoopsAreCounted, NEW e \in RepeatEnds, LoopOK(e), cmd_arr_i \in Indices,
         cmd_arr_i # e, cmd_arr_i # StartOf(e), cmd_arr_i' \in Successors(cmd_arr_i),
         program' = program, counter'[StartOf(e)] = counter[StartOf(e)],
         rounds'[StartOf(e)] = rounds[StartOf(e)]
  PROVE  LoopOK(e)'
<1>1. StartOf(e)' = StartOf(e) /\ LoopOf(e)' = LoopOf(e)
  BY DEF StartOf, LoopOf
<1>2. cmd_arr_i' \in LoopOf(e) <=> cmd_arr_i \in LoopOf(e)
  BY DEF LoopsAreCounted
<1>. QED  BY <1>1, <1>2 DEF LoopOK

\* What a RepeatEnd with the number m does to its counter.
LEMMA EndCounts ==
  ASSUME Inv, pc = "exec", NEW m \in 1 .. IntMax, Cmd.values = {m}, RepeatEnd(m),
         counter[Cmd.cmd_index] \in 0 .. m - 1
  PROVE  LET s == Cmd.cmd_index
             left == counter[s] + 1 = m
         IN /\ s \in Indices /\ counter \in [Indices -> Ints]
            /\ counter' = [counter EXCEPT ![s] = IF left THEN 0 ELSE @ + 1]
            /\ GoTo(IF left THEN cmd_arr_i + 1 ELSE s + 1)
<1> DEFINE s == Cmd.cmd_index
<1>1. s \in Indices /\ counter \in [Indices -> Ints]
  BY ExecFacts, RepeatStays DEF RepeatEnd, Exec, TypeOK
<1>2. Wrap(counter[s] + 1) = counter[s] + 1
  BY BoundsAssumption DEF Wrap
<1>3. m # 0
  OBVIOUS
<1>4. CASE counter[s] + 1 = m
  BY <1>1, <1>2, <1>3, <1>4 DEF RepeatEnd
<1>5. CASE counter[s] + 1 # m
  BY <1>1, <1>2, <1>3, <1>5 DEF RepeatEnd
<1>. QED  BY <1>1, <1>4, <1>5

\* The history variable, in a step of a command.
LEMMA RoundsCount ==
  ASSUME pc = "exec", pc' = "check", CountRounds
  PROVE  /\ Cmd.type = "RepeatStart" => rounds' = [rounds EXCEPT ![cmd_arr_i] = 0]
         /\ Cmd.type = "RepeatEnd" => rounds' = [rounds EXCEPT ![Cmd.cmd_index] = OneMore(@)]
         /\ Cmd.type \notin {"RepeatStart", "RepeatEnd"} => rounds' = rounds
BY DEF CountRounds, Ran

\* The end of a round: of the loop itself, and of another one.
LEMMA EndRound ==
  ASSUME Inv, LoopsInv, LoopsAreCounted, RunCommand, CountRounds, Running',
         Cmd.type = "RepeatEnd", NEW e \in RepeatEnds
  PROVE  LoopOK(e)'
<1>1. /\ pc = "exec" /\ Running /\ TypeOK /\ cmd_arr_i \in Indices /\ program' = program
      /\ pc' = "check" /\ cmd_arr_i' \in Successors(cmd_arr_i)
  BY GoesOn, ExecFacts DEF RunCommand, Running
<1>2. cmd_arr_i \in RepeatEnds /\ Cmd.cmd_index = StartOf(cmd_arr_i)
  BY <1>1 DEF RepeatEnds, Cmd, StartOf
<1>3. PICK m \in 1 .. IntMax : Cmd.values = {m}
  BY <1>2 DEF LoopsAreCounted, Cmd
<1>4. RepeatEnd(m)
  BY <1>3, GoesOn
<1>5. LoopOK(cmd_arr_i) /\ LoopOK(e) /\ rounds \in [Indices -> Nat]
  BY <1>1, <1>2 DEF LoopsInv
<1> DEFINE s == Cmd.cmd_index
           left == counter[s] + 1 = m
<1>6. /\ counter[s] \in 0 .. m - 1
      /\ rounds[s] = counter[s]
  BY <1>1, <1>2, <1>3, <1>5, LoopFacts DEF LoopOK, Cmd
<1>7. /\ s \in Indices /\ counter \in [Indices -> Ints]
      /\ counter' = [counter EXCEPT ![s] = IF left THEN 0 ELSE @ + 1]
      /\ cmd_arr_i' = IF left THEN cmd_arr_i + 1 ELSE s + 1
  BY <1>1, <1>3, <1>4, <1>6, EndCounts DEF GoTo
<1>8. rounds' = [rounds EXCEPT ![s] = OneMore(@)]
  BY <1>1, RoundsCount
<1>9. StartOf(e)' = StartOf(e) /\ LoopOf(e)' = LoopOf(e)
  BY <1>1 DEF StartOf, LoopOf
<1>10. CASE e # cmd_arr_i
  <2>1. StartOf(e) # s
    BY <1>1, <1>2, <1>10, OneEndPerStart
  <2>2. cmd_arr_i # StartOf(e)
    BY <1>1, <1>2, LoopFacts
  <2>3. counter'[StartOf(e)] = counter[StartOf(e)] /\ rounds'[StartOf(e)] = rounds[StartOf(e)]
    BY <1>1, <1>5, <1>7, <1>8, <2>1, LoopFacts
  <2>. QED  BY <1>1, <1>5, <1>10, <2>2, <2>3, OtherLoop
<1>11. CASE e = cmd_arr_i
  <2>1. StartOf(e) = s /\ program.cmds[e].values = {m}
    BY <1>2, <1>3, <1>11 DEF Cmd
  <2>2. CASE left
    <3>1. counter'[s] = 0 /\ cmd_arr_i' \notin LoopOf(e)
      BY <1>1, <1>2, <1>7, <1>11, <2>2, LoopFacts
    <3>. QED  BY <1>9, <2>1, <3>1, BoundsAssumption DEF LoopOK
  <2>3. CASE ~left
    <3>1. counter'[s] = counter[s] + 1 /\ cmd_arr_i' \in LoopOf(e)
      BY <1>1, <1>2, <1>7, <1>11, <2>1, <2>3, LoopFacts
    <3>2. counter'[s] \in 0 .. m - 1
      BY <1>6, <2>3, <3>1
    <3>3. rounds'[s] = rounds[s] + 1
      BY <1>5, <1>6, <1>7, <1>8, <2>3, BoundsAssumption DEF OneMore
    <3>4. \A k \in 1 .. IntMax : program'.cmds[e].values = {k} => k = m
      BY <1>1, <2>1
    <3>. QED  BY <1>6, <1>9, <2>1, <3>1, <3>2, <3>3, <3>4 DEF LoopOK
  <2>. QED  BY <2>2, <2>3
<1>. QED  BY <1>10, <1>11

\* Every other command.
LEMMA OtherCommand ==
  ASSUME Inv, LoopsInv, LoopsAreCounted, RunCommand, CountRounds, Running',
         Cmd.type # "RepeatEnd", NEW e \in RepeatEnds
  PROVE  LoopOK(e)'
<1>1. /\ pc = "exec" /\ Running /\ TypeOK /\ cmd_arr_i \in Indices /\ program' = program
      /\ pc' = "check" /\ cmd_arr_i' \in Successors(cmd_arr_i) /\ counter' = counter
  BY GoesOn, ExecFacts DEF RunCommand, Running
<1>2. LoopOK(e) /\ rounds \in [Indices -> Nat]
  BY <1>1 DEF LoopsInv
<1>3. cmd_arr_i # e /\ StartOf(e) \in Indices
  BY <1>1, LoopFacts DEF Cmd
<1>4. CASE cmd_arr_i # StartOf(e)
  <2>1. rounds'[StartOf(e)] = rounds[StartOf(e)]
    BY <1>1, <1>2, <1>3, <1>4, RoundsCount
  <2>. QED  BY <1>1, <1>2, <1>3, <1>4, <2>1, OtherLoop
<1>5. CASE cmd_arr_i = StartOf(e)
  <2>1. Cmd.type = "RepeatStart"
    BY <1>1, <1>5, LoopFacts DEF Cmd
  <2>2. rounds'[StartOf(e)] = 0
    BY <1>1, <1>2, <1>3, <1>5, <2>1, RoundsCount
  <2>3. counter[StartOf(e)] = 0
    BY <1>1, <1>2, <1>5, LoopFacts DEF LoopOK
  <2>4. cmd_arr_i' \in LoopOf(e)
    BY <1>1, <1>5, <2>1, LoopFacts DEF Successors, Cmd
  <2>5. StartOf(e)' = StartOf(e) /\ LoopOf(e)' = LoopOf(e)
    BY <1>1 DEF StartOf, LoopOf
  <2>. QED  BY <1>1, <2>2, <2>3, <2>4, <2>5, BoundsAssumption DEF LoopOK
<1>. QED  BY <1>4, <1>5

\* Every command keeps the count.
LEMMA CommandLoops ==
  ASSUME Inv, LoopsInv, RunCommand, CountRounds
  PROVE  LoopsInv'
<1>1. pc = "exec" /\ cmd_arr_i \in Indices /\ program' = program
  <2>1. pc = "exec"
    BY DEF RunCommand
  <2>2. cmd_arr_i \in Indices
    BY <2>1, ExecFacts
  <2>3. program' = program
    BY DEF RunCommand, Effect, Wait, RuntimeError, Exit, Query, RepeatEnd, RepeatResetCounters,
           JumpTo, StackExhausted, JumpToIndex, JumpBack, GoTo, StopAt
  <2>. QED  BY <2>1, <2>2, <2>3
<1>2. Indices' = Indices /\ RepeatEnds' = RepeatEnds /\ (LoopsAreCounted' <=> LoopsAreCounted)
  BY <1>1 DEF Indices, Size, RepeatEnds, LoopsAreCounted, Successors, LoopOf, StartOf
<1>3. rounds' \in [Indices -> Nat]
  <2>1. \A n \in Nat : OneMore(n) \in Nat
    BY DEF OneMore
  <2>2. rounds \in [Indices -> Nat]
    BY DEF LoopsInv
  <2>3. CASE Ran("RepeatEnd")
    BY <1>1, <2>1, <2>2, <2>3 DEF CountRounds, Ran
  <2>4. CASE ~Ran("RepeatEnd")
    BY <1>1, <2>2, <2>4 DEF CountRounds
  <2>. QED  BY <2>3, <2>4
<1>4. ASSUME Running', LoopsAreCounted, NEW e \in RepeatEnds PROVE LoopOK(e)'
  BY <1>4, EndRound, OtherCommand
<1>. QED  BY <1>2, <1>3, <1>4 DEF LoopsInv

\* Every step keeps the count.
LEMMA NextLoops ==
  ASSUME Inv, LoopsInv, [CountedNext]_countedVars
  PROVE  LoopsInv'
<1>1. ASSUME NEW p \in Programs, StartRun(p), CountRounds PROVE LoopsInv'
  <2>1. /\ cmd_arr_i' = 0 /\ program' = p /\ counter' = [i \in 0 .. p.size - 1 |-> 0]
        /\ rounds' = [i \in 0 .. p.size - 1 |-> 0]
    BY <1>1 DEF StartRun, CountRounds
  <2>2. Indices' = 0 .. p.size - 1 /\ TypeOK'
    BY <1>1, <2>1, StartRunInv DEF Indices, Size, Inv
  <2>3. ASSUME NEW e \in RepeatEnds' PROVE LoopOK(e)'
    <3>1. StartOf(e)' \in Indices'
      BY <2>2, <2>3, ProgramsAssumption, <2>1 DEF RepeatEnds, StartOf, Indices, Size,
         WellFormed, RepeatsLinked
    <3>2. counter'[StartOf(e)'] = 0 /\ rounds'[StartOf(e)'] = 0
      BY <2>1, <2>2, <3>1
    <3>. QED  BY <3>2, BoundsAssumption DEF LoopOK
  <2>. QED  BY <2>1, <2>2, <2>3 DEF LoopsInv
<1>2. ASSUME UNCHANGED <<program, cmd_arr_i, counter, rounds>>, Running' => Running
      PROVE  LoopsInv'
  BY <1>2 DEF LoopsInv, LoopOK, LoopsAreCounted, RepeatEnds, Indices, Size, Successors,
              LoopOf, StartOf
<1>3. ASSUME CountRounds, EnterCommand \/ FinishRun \/ EscapePressed PROVE LoopsInv'
  <2>1. UNCHANGED <<program, cmd_arr_i, counter>> /\ pc # "idle" /\ (Running' => Running)
    BY <1>3 DEF EnterCommand, FinishRun, EscapePressed, Running
  <2>2. ~(pc = "exec" /\ pc' = "check")
    BY <1>3 DEF EnterCommand, FinishRun, EscapePressed
  <2>3. rounds' = rounds
    BY <1>3, <2>1, <2>2 DEF CountRounds, Ran
  <2>. QED  BY <1>2, <2>1, <2>3
<1>4. CASE UNCHANGED countedVars
  BY <1>2, <1>4 DEF countedVars, vars, Running
<1>. QED  BY <1>1, <1>3, <1>4, CommandLoops DEF CountedNext, Next

\* The invariants hold in every state of every run with the history variable.
LEMMA CountedInvHolds == CountedSpec => [](Inv /\ LoopsInv)
<1>1. CountedInit => Inv /\ LoopsInv
  <2>1. CountedInit => Inv
    BY InitInv DEF CountedInit
  <2>2. CountedInit => LoopsInv
    BY DEF CountedInit, Init, LoopsInv, Running
  <2>. QED  BY <2>1, <2>2
<1>2. Inv /\ LoopsInv /\ [CountedNext]_countedVars => (Inv /\ LoopsInv)'
  <2>1. [CountedNext]_countedVars => [Next]_vars
    BY DEF CountedNext, countedVars
  <2>. QED  BY <2>1, NextInv, NextLoops
<1>. QED  BY <1>1, <1>2, PTL DEF CountedSpec

\* In every program whose loops are counted, at any nesting, and with any queries
\* and jumps that stay in their loops, a loop runs exactly the number of rounds
\* that its RepeatEnd asks for each time it is entered, whenever Escape comes.
THEOREM LoopsRunExactly == CountedSpec => RepeatRunsExactly
<1>1. Inv /\ LoopsInv /\ [CountedNext]_countedVars
        => [LoopLeft => Cmd.values = {rounds'[Cmd.cmd_index]}]_countedVars
  <2> SUFFICES ASSUME Inv, LoopsInv, CountedNext, LoopLeft
               PROVE  Cmd.values = {rounds'[Cmd.cmd_index]}
    OBVIOUS
  <2> DEFINE s == Cmd.cmd_index
  <2>1. /\ pc = "exec" /\ pc' = "check" /\ Cmd.type = "RepeatEnd" /\ LoopsAreCounted
        /\ CountRounds /\ no_error' /\ cmd_arr_i' = cmd_arr_i + 1
    BY DEF LoopLeft, Ran, CountedNext
  <2>2. TypeOK /\ cmd_arr_i \in Indices /\ Running
    BY <2>1, ExecFacts DEF Running
  <2>3. cmd_arr_i \in RepeatEnds /\ s = StartOf(cmd_arr_i)
    BY <2>1, <2>2 DEF RepeatEnds, Cmd, StartOf
  <2>4. PICK m \in 1 .. IntMax : Cmd.values = {m}
    BY <2>1, <2>3 DEF LoopsAreCounted, Cmd
  <2>5. RepeatEnd(m)
    <3>1. RunCommand
      BY <2>1 DEF CountedNext, Next, StartRun, EnterCommand, FinishRun, EscapePressed
    <3>2. ~RuntimeError
      BY <2>1 DEF RuntimeError, StopAt
    <3>. QED  BY <2>1, <2>4, <3>1, <3>2 DEF RunCommand, Effect, Wait, Exit, Query, Exec,
                RepeatResetCounters, JumpTo, StackExhausted, JumpToIndex, JumpBack
  <2>6. LoopOK(cmd_arr_i) /\ rounds \in [Indices -> Nat]
    BY <2>1, <2>2, <2>3 DEF LoopsInv
  <2>7. counter[s] \in 0 .. m - 1 /\ rounds[s] = counter[s]
    BY <2>2, <2>3, <2>4, <2>6, LoopFacts DEF LoopOK, Cmd
  <2>8. s \in Indices /\ GoTo(IF counter[s] + 1 = m THEN cmd_arr_i + 1 ELSE s + 1)
    BY <2>1, <2>4, <2>5, <2>7, EndCounts
  <2>9. counter[s] + 1 = m
    <3>1. s + 1 # cmd_arr_i + 1
      BY <2>2, <2>3, <2>8, LoopFacts DEF Indices
    <3>. QED  BY <2>1, <2>8, <3>1 DEF GoTo
  <2>10. rounds'[s] = m
    BY <2>1, <2>6, <2>7, <2>8, <2>9, RoundsCount, BoundsAssumption DEF OneMore
  <2>. QED  BY <2>4, <2>10
<1>. QED  BY <1>1, CountedInvHolds, PTL DEF CountedSpec, RepeatRunsExactly
===============================================================================
