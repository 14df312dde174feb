------------------------------- MODULE ParseFile -------------------------------
(***************************************************************************)
(* parse_file (main.c): a text is read by the parser (MacroBuffer) and, if *)
(* it is accepted, run by the interpreter (RunProgram), any number of      *)
(* times and texts in one session of the player.  The assumption that      *)
(* RunProgram makes on its programs is here the work of the parser.        *)
(***************************************************************************)
EXTENDS Commands, Sequences

CONSTANTS Alphabet, MaxSize, IntMax, MaxStack

\* The alphabet is typed and evaluates to ints.
ASSUME ParseFileAssumption ==
  /\ MaxSize \in Nat /\ IntMax \in Nat \ {0} /\ MaxStack \in Nat
  /\ \A c \in Alphabet : c \in CommandRec /\ c.values \subseteq -IntMax - 1 .. IntMax

VARIABLES
  size, cmds, rim, rim_strings, jim, jump_from_added, parse_error, phase,
  program, pc, cmd_arr_i, cmd_i_stack, counter, program_done, no_error

Parser == INSTANCE MacroBuffer
Player == INSTANCE RunProgram WITH Programs <- {}

parserVars == <<size, cmds, rim, rim_strings, jim, jump_from_added, parse_error, phase>>
playerVars == <<program, pc, cmd_arr_i, cmd_i_stack, counter, program_done, no_error>>
vars == <<parserVars, playerVars>>

Init ==
  /\ Parser!Init
  /\ program = [size |-> 0, cmds |-> [i \in {} |-> 0]]
  /\ pc = "idle"
  /\ cmd_arr_i = 0
  /\ cmd_i_stack = <<>>
  /\ counter = [i \in {} |-> 0]
  /\ program_done = TRUE
  /\ no_error = TRUE

\* macro_buffer_process_next and macro_buffer_extra_checks.
ReadText ==
  /\ pc = "idle" /\ phase = "parsing"
  /\ Parser!Next
  /\ UNCHANGED playerVars

RunAccepted ==
  /\ phase = "accepted"
  /\ Player!StartRun([size |-> size, cmds |-> cmds])
  /\ UNCHANGED parserVars

RunStep ==
  /\ Player!EnterCommand \/ Player!FinishRun \/ Player!EscapePressed \/ Player!RunCommand
  /\ UNCHANGED parserVars

\* The buffers of this text are freed and the locals of its run are gone; the
\* global stack is not touched.
NextText ==
  /\ pc = "idle"
  /\ Parser!NewText
  /\ program' = [size |-> 0, cmds |-> [i \in {} |-> 0]]
  /\ cmd_arr_i' = 0
  /\ counter' = [i \in {} |-> 0]
  /\ program_done' = TRUE
  /\ no_error' = TRUE
  /\ UNCHANGED <<pc, cmd_i_stack>>

Next == ReadText \/ RunAccepted \/ RunStep \/ NextText

Spec == Init /\ [][Next]_vars

-------------------------------------------------------------------------------
\* Running any accepted text keeps the fetched index inside the array that the
\* parser built: the extra checks are as strong as the interpreter needs.
AcceptedRunsInBounds == Player!IndexInBounds

\* JumpBack finds indices of JTS> commands of the running text only, never any
\* left by the run of another text.
CallersOfThisText == Player!StackHoldsCallers
===============================================================================
