------------------------------- MODULE Commands -------------------------------
(***************************************************************************)
(* The command array of a macro program (command_t, command_array_t in     *)
(* parser.h) as the linker of the parser builds it and as the interpreter  *)
(* loop of run_program reads it, and what macro_buffer_extra_checks lets   *)
(* through.  Indices start at 0, as in the code.                           *)
(***************************************************************************)
EXTENDS Integers

CONSTANT Names    \* the strings that label repeats and jumps

(***************************************************************************)
(* CommandType.  The commands that only have an effect on the outside      *)
(* (keystrokes, mouse, delays, grabs, printing, EditVar) share the control *)
(* flow "do it and go on" and are one type here, "Effect"; wait_key and    *)
(* wait_button, which need not end, are one "Wait"; the six query commands *)
(* differ only in what they look at and are one "Query".                   *)
(***************************************************************************)
CommandTypes ==
  {"Effect", "Wait", "InitVar", "Exit", "RepeatStart", "RepeatEnd",
   "RepeatResetCounters", "JumpTo", "JumpToIndex", "JumpFrom", "JumpBack",
   "Query"}

QueryCombTypes == {"NONE", "AND", "OR", "CUSTOM"}

IndexNotFound        == -1
JumpFromNotConnected == -2

(***************************************************************************)
(* One record for all commands; a field is meaningful for the commands     *)
(* that have it in command_union_t.  The string indices of the two id      *)
(* managers are in bijection with the names: "name" stands for str_index.  *)
(*   can_fail  evaluating the command can raise a runtime error            *)
(*   values    the Ints the command's callback may evaluate to             *)
(***************************************************************************)
CommandRec ==
  [type : CommandTypes, can_fail : BOOLEAN, name : Names,
   cmd_index : Int, store_index : BOOLEAN,
   values : SUBSET Int, is_absolute : BOOLEAN,
   comb_type : QueryCombTypes, invert : BOOLEAN, jump_e : Int, jump_ne : Int]

IsQuery(c) == c.type = "Query"

\* A command array of n commands.
CommandArray(n) == [0 .. n - 1 -> CommandRec]

-------------------------------------------------------------------------------
(* What the interpreter relies on, one operator per part. *)

\* A RepeatEnd goes back to an earlier RepeatStart.
RepeatsLinked(cmds, n) ==
  \A i \in 0 .. n - 1 : cmds[i].type = "RepeatEnd" =>
    /\ cmds[i].cmd_index \in 0 .. i - 1
    /\ cmds[cmds[i].cmd_index].type = "RepeatStart"

\* A JumpTo goes to a JumpFrom.
JumpsLinked(cmds, n) ==
  \A i \in 0 .. n - 1 : cmds[i].type = "JumpTo" =>
    /\ cmds[i].cmd_index \in 0 .. n - 1
    /\ cmds[cmds[i].cmd_index].type = "JumpFrom"

\* A command whose follower is jumped to has a follower.
LastCommandOK(cmds, n) ==
  /\ cmds[n - 1].type # "JumpFrom"
  /\ ~(cmds[n - 1].type = "JumpTo" /\ cmds[n - 1].store_index)

\* Both outcomes of a query stay inside the program.
QueriesInBounds(cmds, n) ==
  \A i \in 0 .. n - 1 : IsQuery(cmds[i]) =>
    /\ i + cmds[i].jump_e \in 0 .. n - 1
    /\ i + cmds[i].jump_ne \in 0 .. n - 1

WellFormed(cmds, n) ==
  /\ n > 0
  /\ RepeatsLinked(cmds, n)
  /\ JumpsLinked(cmds, n)
  /\ LastCommandOK(cmds, n)
  /\ QueriesInBounds(cmds, n)
===============================================================================
