------------------------------ MODULE RunProgram ------------------------------
(***************************************************************************)
(* The interpreter of run_program (main.c): which command runs next.  One  *)
(* action per kind of command, with the part of the main loop that ends    *)
(* the step: the move of cmd_arr_i and the test for the end of the array.  *)
(* The listener thread appears as EscapePressed, which may set             *)
(* program_done between any two steps and during any command; what the two *)
(* threads share besides is the subject of MacroThreads.                   *)
(*                                                                         *)
(* The player runs one program after another, and the stack of command     *)
(* indices is a global that outlives a run.                                *)
(***************************************************************************)
EXTENDS Commands, Sequences

CONSTANTS Programs,    \* the programs that may be run: records [size, cmds]
          IntMax,      \* largest value of a C int
          MaxStack     \* how many command indices memory has room for

IntMin == -IntMax - 1
Ints   == IntMin .. IntMax

(* What parse_file hands to run_program has passed the extra checks. *)
ASSUME ProgramsAssumption ==
  \A p \in Programs :
    /\ p.size \in Nat
    /\ p.cmds \in CommandArray(p.size)
    /\ WellFormed(p.cmds, p.size)
    /\ \A i \in 0 .. p.size - 1 : p.cmds[i].values \subseteq Ints

ASSUME BoundsAssumption == IntMax \in Nat \ {0} /\ MaxStack \in Nat

VARIABLES
  program,       \* cmd_arr
  pc,            \* where run_program is: not running, at the loop test, in a command
  cmd_arr_i,
  cmd_i_stack,   \* cmd_i_stack and cmd_i_size, the top last
  counter,       \* repeat_start_t.counter of every command
  program_done,
  no_error

vars == <<program, pc, cmd_arr_i, cmd_i_stack, counter, program_done, no_error>>

Size == program.size
Indices == 0 .. Size - 1
Cmd == program.cmds[cmd_arr_i]

\* The value an int takes when it is counted up past IntMax or down past IntMin
\* by less than its range.
Wrap(x) == IF x > IntMax THEN x - 2 * (IntMax + 1) ELSE x

Init ==
  /\ program \in Programs
  /\ pc = "idle"
  /\ cmd_arr_i = 0
  /\ cmd_i_stack = <<>>
  /\ counter = [i \in Indices |-> 0]
  /\ program_done = TRUE
  /\ no_error = TRUE

-------------------------------------------------------------------------------
(* The frame of a run. *)

StartRun(p) ==
  /\ pc = "idle"
  /\ pc' = "check"
  /\ program' = p
  /\ cmd_arr_i' = 0
  /\ counter' = [i \in 0 .. p.size - 1 |-> 0]
  /\ program_done' = FALSE
  /\ no_error' = TRUE
  /\ UNCHANGED cmd_i_stack

EnterCommand ==
  /\ pc = "check" /\ ~program_done
  /\ pc' = "exec"
  /\ UNCHANGED <<program, cmd_arr_i, cmd_i_stack, counter, program_done, no_error>>

\* A mutant of FinishRun: the stack of the run is kept.
FinishRunKeepStack ==
  /\ pc = "check" /\ program_done
  /\ pc' = "idle"
  /\ UNCHANGED <<program, cmd_arr_i, cmd_i_stack, counter, program_done, no_error>>

FinishRun ==
  /\ pc = "check" /\ program_done
  /\ pc' = "idle"
  /\ cmd_i_stack' = <<>>
  /\ UNCHANGED <<program, cmd_arr_i, counter, program_done, no_error>>

\* The listener thread saw the Escape key.
EscapePressed ==
  /\ pc \in {"check", "exec"} /\ ~program_done
  /\ program_done' = TRUE
  /\ UNCHANGED <<program, pc, cmd_arr_i, cmd_i_stack, counter, no_error>>

-------------------------------------------------------------------------------
(* The end of a step of the main loop. *)

Exec(type) == pc = "exec" /\ Cmd.type = type

\* The index of the command after the current one, for a query that came out q.
QueryTarget(q) ==
  cmd_arr_i + (IF q # Cmd.invert THEN Cmd.jump_e ELSE Cmd.jump_ne)

\* A mutant of GoTo: the end of the array is not noticed.
GoToPastEnd(next) ==
  /\ pc' = "check"
  /\ cmd_arr_i' = next
  /\ UNCHANGED <<program, program_done, no_error>>

\* A mutant of GoTo: a stop that came during the command is overwritten.
GoToForgetsStop(next) ==
  /\ pc' = "check"
  /\ cmd_arr_i' = next
  /\ program_done' = (next = Size)
  /\ UNCHANGED <<program, no_error>>

\* The step ends before the command next.
GoTo(next) ==
  /\ pc' = "check"
  /\ cmd_arr_i' = next
  /\ program_done' = (program_done \/ next = Size)
  /\ UNCHANGED <<program, no_error>>

\* A mutant of StopAt: a failing command does not stop the run.
StopAtGoesOn(next, success) ==
  /\ pc' = "check"
  /\ cmd_arr_i' = next
  /\ no_error' = (no_error /\ success)
  /\ program_done' = (program_done \/ success \/ next = Size)
  /\ UNCHANGED program

\* The command stops the run; the step still ends as any other.
StopAt(next, success) ==
  /\ pc' = "check"
  /\ cmd_arr_i' = next
  /\ no_error' = (no_error /\ success)
  /\ program_done' = TRUE
  /\ UNCHANGED program

-------------------------------------------------------------------------------
(* The commands. *)

\* Keystrokes, mouse, delays, grabs, printing, and the commands that do nothing
\* when they are run.
Effect ==
  /\ Exec("Effect") \/ Exec("InitVar") \/ Exec("RepeatStart") \/ Exec("JumpFrom")
  /\ GoTo(cmd_arr_i + 1)
  /\ UNCHANGED <<cmd_i_stack, counter>>

\* wait_key and wait_button, when the wait is over.
Wait ==
  /\ Exec("Wait")
  /\ GoTo(cmd_arr_i + 1)
  /\ UNCHANGED <<cmd_i_stack, counter>>

\* RuntimeExitIfProcessVLFalse and DoRuntimeError: a callback could not be
\* evaluated, or the command found its key or button already grabbed.
RuntimeError ==
  /\ pc = "exec" /\ Cmd.can_fail
  /\ StopAt(IF IsQuery(Cmd) THEN QueryTarget(FALSE) ELSE cmd_arr_i + 1, FALSE)
  /\ UNCHANGED <<cmd_i_stack, counter>>

Exit ==
  /\ Exec("Exit")
  /\ StopAt(cmd_arr_i + 1, TRUE)
  /\ UNCHANGED <<cmd_i_stack, counter>>

Query(q) ==
  /\ Exec("Query")
  /\ GoTo(QueryTarget(q))
  /\ UNCHANGED <<cmd_i_stack, counter>>

\* A mutant of RepeatEnd: the counter is not reset when the loop is left.
RepeatEndNoReset(max) ==
  LET start == Cmd.cmd_index IN
  /\ Exec("RepeatEnd") /\ max \in Cmd.values
  /\ IF max = 0
     THEN GoTo(start + 1) /\ UNCHANGED counter
     ELSE /\ counter' = [counter EXCEPT ![start] = Wrap(@ + 1)]
          /\ GoTo(IF counter'[start] # max THEN start + 1 ELSE cmd_arr_i + 1)
  /\ UNCHANGED cmd_i_stack

\* A mutant of RepeatEnd: the counter is compared before it is counted.
RepeatEndLate(max) ==
  LET start == Cmd.cmd_index IN
  /\ Exec("RepeatEnd") /\ max \in Cmd.values
  /\ IF max = 0
     THEN GoTo(start + 1) /\ UNCHANGED counter
     ELSE IF counter[start] # max
     THEN /\ counter' = [counter EXCEPT ![start] = Wrap(@ + 1)]
          /\ GoTo(start + 1)
     ELSE counter' = [counter EXCEPT ![start] = 0] /\ GoTo(cmd_arr_i + 1)
  /\ UNCHANGED cmd_i_stack

\* A mutant of RepeatEnd: the repeat is never counted.
RepeatEndForever(max) ==
  /\ Exec("RepeatEnd") /\ max \in Cmd.values
  /\ GoTo(Cmd.cmd_index + 1)
  /\ UNCHANGED <<cmd_i_stack, counter>>

\* The counter lives in the RepeatStart; 0 repeats forever.
RepeatEnd(max) ==
  LET start == Cmd.cmd_index
      count == Wrap(counter[start] + 1)
  IN
  /\ Exec("RepeatEnd") /\ max \in Cmd.values
  /\ \/ /\ max = 0
        /\ GoTo(start + 1)
        /\ UNCHANGED counter
     \/ /\ max # 0 /\ count # max
        /\ GoTo(start + 1)
        /\ counter' = [counter EXCEPT ![start] = count]
     \/ /\ max # 0 /\ count = max
        /\ GoTo(cmd_arr_i + 1)
        /\ counter' = [counter EXCEPT ![start] = 0]
  /\ UNCHANGED cmd_i_stack

RepeatResetCounters ==
  /\ Exec("RepeatResetCounters")
  /\ counter' = [i \in Indices |-> 0]
  /\ GoTo(cmd_arr_i + 1)
  /\ UNCHANGED cmd_i_stack

\* A mutant of JumpTo: the index is stored for every JumpTo.
JumpToStores ==
  /\ Exec("JumpTo") /\ Len(cmd_i_stack) < MaxStack
  /\ cmd_i_stack' = Append(cmd_i_stack, cmd_arr_i)
  /\ GoTo(Cmd.cmd_index + 1)
  /\ UNCHANGED counter

\* JTS> also stores its own index (store_cmd_index).
JumpTo ==
  /\ Exec("JumpTo")
  /\ IF Cmd.store_index
     THEN /\ Len(cmd_i_stack) < MaxStack
          /\ cmd_i_stack' = Append(cmd_i_stack, cmd_arr_i)
     ELSE UNCHANGED cmd_i_stack
  /\ GoTo(Cmd.cmd_index + 1)
  /\ UNCHANGED counter

\* No memory is left for one more index: EXIT_IF_NULL ends the player.
StackExhausted ==
  /\ Exec("JumpTo") /\ Cmd.store_index /\ Len(cmd_i_stack) = MaxStack
  /\ pc' = "exited"
  /\ UNCHANGED <<program, cmd_arr_i, cmd_i_stack, counter, program_done, no_error>>

\* The position a JumpToIndex names, counted from 1.
JumpPosition(value) == IF Cmd.is_absolute THEN value ELSE Wrap(cmd_arr_i + value + 1)

JumpToIndex(value) ==
  LET n == JumpPosition(value) IN
  /\ Exec("JumpToIndex") /\ value \in Cmd.values
  /\ IF n \in 1 .. Size THEN GoTo(n - 1) ELSE StopAt(cmd_arr_i + 1, FALSE)
  /\ UNCHANGED <<cmd_i_stack, counter>>

\* pop_cmd_index, or a runtime error when nothing is stored.
JumpBack ==
  /\ Exec("JumpBack")
  /\ IF cmd_i_stack = <<>>
     THEN StopAt(cmd_arr_i + 1, FALSE) /\ UNCHANGED cmd_i_stack
     ELSE /\ GoTo(cmd_i_stack[Len(cmd_i_stack)] + 1)
          /\ cmd_i_stack' = SubSeq(cmd_i_stack, 1, Len(cmd_i_stack) - 1)
  /\ UNCHANGED counter

\* One command, from the switch to the end of the step.
RunCommand ==
  /\ pc = "exec"
  /\ \/ Effect
     \/ Wait
     \/ RuntimeError
     \/ Exit
     \/ \E q \in BOOLEAN : Query(q)
     \/ \E max \in Cmd.values : RepeatEnd(max)
     \/ RepeatResetCounters
     \/ JumpTo
     \/ StackExhausted
     \/ \E value \in Cmd.values : JumpToIndex(value)
     \/ JumpBack

Next ==
  \/ \E p \in Programs : StartRun(p)
  \/ EnterCommand
  \/ FinishRun
  \/ EscapePressed
  \/ RunCommand

Spec == Init /\ [][Next]_vars

\* The command that runs is a wait.
InWait == pc = "exec" /\ Cmd.type = "Wait"

\* The main thread is not suspended for ever: the loop test ends and so does every
\* command, except a wait: pthread_cond_wait may never return, also after the run
\* was told to stop (EscapeStopsRun in MacroThreads).
Fairness == WF_vars(~InWait /\ (EnterCommand \/ FinishRun \/ RunCommand))

FairSpec == Spec /\ Fairness

-------------------------------------------------------------------------------
(* Properties *)

\* Every variable keeps its type, between the commands as in them.
TypeOK ==
  /\ program \in Programs
  /\ pc \in {"idle", "check", "exec", "exited"}
  /\ cmd_arr_i \in Int
  /\ cmd_i_stack \in Seq(Nat) /\ Len(cmd_i_stack) <= MaxStack
  /\ counter \in [Indices -> Ints]
  /\ program_done \in BOOLEAN
  /\ no_error \in BOOLEAN

\* The command that is fetched is one of the array: whatever jumps, repeats,
\* queries and runtime errors came before, cmd_arr->cmds[cmd_arr_i] is read
\* inside its bounds, and the loop test sees at most the end of the array.
IndexInBounds ==
  /\ pc = "exec" => cmd_arr_i \in Indices
  /\ pc = "check" => cmd_arr_i \in 0 .. Size
  /\ pc = "check" /\ ~program_done => cmd_arr_i \in Indices

\* JumpBack returns to callers only: what is on the stack are indices of JTS>
\* commands that have a command after them.
StackHoldsCallers ==
  \A k \in 1 .. Len(cmd_i_stack) :
    /\ cmd_i_stack[k] \in 0 .. Size - 2
    /\ program.cmds[cmd_i_stack[k]].type = "JumpTo"
    /\ program.cmds[cmd_i_stack[k]].store_index

\* No run leaves command indices on the global stack for the next one
\* (empty_cmd_index), however it ended.
StackIsPerRun == pc = "idle" => cmd_i_stack = <<>>

\* The RepeatEnds of the RepeatStart s all repeat m times, m literal.
RepeatsTimes(s, m) ==
  \A i \in Indices :
    program.cmds[i].type = "RepeatEnd" /\ program.cmds[i].cmd_index = s
      => program.cmds[i].values = {m}

\* The counter of a loop of m rounds stays under m wherever jumps enter and
\* leave it, so that the test for equality with m cannot be jumped over.
CounterBelowMax ==
  \A s \in Indices : \A m \in 1 .. IntMax :
    RepeatsTimes(s, m) => counter[s] \in 0 .. m - 1

\* After a runtime error no further command runs, and only the end of the run
\* follows, with the error as its result.
NothingAfterError ==
  [][~no_error => pc' # "exec" /\ (pc' = "idle" => ~no_error')]_vars

\* A run that is told to stop, by Escape, exit or an error, ends, unless it is
\* told so after it entered a wait: whatever the command makes of the stop, no
\* further command is fetched, and no wait begins after it.
StopEndsRun == program_done /\ ~InWait ~> pc \in {"idle", "exited"}

\* A run ends by itself.
RunsEnd == pc = "check" ~> pc \in {"idle", "exited"}
===============================================================================
