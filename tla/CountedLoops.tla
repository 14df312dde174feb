----------------------------- MODULE CountedLoops -----------------------------
(***************************************************************************)
(* RunProgram with a history variable: how many rounds each loop has made  *)
(* since its RepeatStart was run.  The interpreter keeps no such count; it *)
(* has the counter of the RepeatStart, which is compared for equality and  *)
(* put back to 0 when the loop is left.                                    *)
(***************************************************************************)
EXTENDS RunProgram

VARIABLE rounds    \* for every RepeatStart

countedVars == <<vars, rounds>>

CountedInit == Init /\ rounds = [i \in Indices |-> 0]

Ran(type) == pc = "exec" /\ pc' = "check" /\ Cmd.type = type

\* The count stops at IntMax, more than any loop is asked for.
OneMore(n) == IF n = IntMax THEN n ELSE n + 1

CountRounds ==
  rounds' =
    IF pc = "idle" THEN [i \in 0 .. program'.size - 1 |-> 0]
    ELSE IF Ran("RepeatStart") THEN [rounds EXCEPT ![cmd_arr_i] = 0]
    ELSE IF Ran("RepeatEnd") THEN [rounds EXCEPT ![Cmd.cmd_index] = OneMore(@)]
    ELSE rounds

CountedNext == Next /\ CountRounds

\* The main thread keeps running, as long as it does not wait.
CountedSpec ==
  /\ CountedInit
  /\ [][CountedNext]_countedVars
  /\ WF_countedVars(~InWait /\ CountedNext /\ pc \in {"check", "exec"} /\ pc' # pc)

-------------------------------------------------------------------------------
(* Programs whose loops are only counted. *)

RepeatEnds == {i \in Indices : program.cmds[i].type = "RepeatEnd"}

\* The RepeatStart of the loop that the RepeatEnd e closes, and the loop.
StartOf(e) == program.cmds[e].cmd_index
LoopOf(e) == StartOf(e) + 1 .. e

\* The commands that may come after the command i.
Successors(i) ==
  LET c == program.cmds[i]
  IN CASE c.type = "Query"     -> {i + c.jump_e, i + c.jump_ne}
       [] c.type = "JumpTo"    -> {c.cmd_index + 1}
       [] c.type = "RepeatEnd" -> {c.cmd_index + 1, i + 1}
       [] OTHER                -> {i + 1}

(***************************************************************************)
(* Every loop has a literal number of rounds, queries, jumps and other     *)
(* loops neither enter nor leave it, and nothing resets its counter.       *)
(* Inside of a loop, and outside of all, they may go anywhere.             *)
(***************************************************************************)
LoopsAreCounted ==
  /\ \A i \in Indices :
       program.cmds[i].type \notin {"JumpToIndex", "JumpBack", "RepeatResetCounters"}
  /\ \A e \in RepeatEnds :
       /\ \E m \in 1 .. IntMax : program.cmds[e].values = {m}
       /\ \A i \in Indices \ {e, StartOf(e)} : \A j \in Successors(i) :
            i \in LoopOf(e) <=> j \in LoopOf(e)

\* A loop is left: its RepeatEnd went on to the next command.
LoopLeft ==
  /\ LoopsAreCounted
  /\ Ran("RepeatEnd") /\ cmd_arr_i' = cmd_arr_i + 1
  /\ no_error'

(***************************************************************************)
(* A loop )A=n; of such a program runs its commands n times each time it   *)
(* is entered, also as an inner loop that was run to its end before, and   *)
(* with queries that go round in it (the README on RepeatEnd: "Numbers     *)
(* represent how many loops it would do").                                 *)
(***************************************************************************)
RepeatRunsExactly ==
  [][LoopLeft => Cmd.values = {rounds'[Cmd.cmd_index]}]_countedVars
===============================================================================
