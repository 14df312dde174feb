------------------------------ MODULE MacroBuffer ------------------------------
(***************************************************************************)
(* The linking done by the parser while it reads a macro program:          *)
(* macro_buffer_process_next appends one command, resolves repeat and jump *)
(* names through the two id managers and chains queries; when the text is  *)
(* consumed, macro_buffer_extra_checks decides whether the program may     *)
(* run.  Reading characters is abstracted: each step is given the next     *)
(* command of the text.                                                    *)
(***************************************************************************)
EXTENDS Commands

CONSTANTS Alphabet,    \* the commands the text may contain, not yet linked
          MaxSize      \* bound on the number of commands of a text

ASSUME AlphabetAssumption ==
  /\ MaxSize \in Nat
  /\ \A c \in Alphabet : c \in CommandRec

VARIABLES
  size, cmds,          \* command_array_t
  rim,                 \* repeat_id_manager_t: name -> index of its RepeatStart
  rim_strings,         \* the names its string manager has seen
  jim,                 \* jump_id_manager_t: name -> index of its JumpFrom
  jump_from_added,     \* the names whose JumpFrom was read
  parse_error,
  phase                \* how far parse_file is

vars == <<size, cmds, rim, rim_strings, jim, jump_from_added, parse_error, phase>>

Phases == {"parsing", "accepted", "rejected", "exited", "crashed"}

Init ==
  /\ size = 0
  /\ cmds = [i \in {} |-> 0]
  /\ rim = [n \in Names |-> IndexNotFound]
  /\ rim_strings = {}
  /\ jim = [n \in Names |-> IndexNotFound]
  /\ jump_from_added = {}
  /\ parse_error = FALSE
  /\ phase = "parsing"

-------------------------------------------------------------------------------
(* Helpers on the command array. *)

\* command_array_add.
Added(c) == [i \in 0 .. size |-> IF i = size THEN c ELSE cmds[i]]

\* The JumpFrom of n was read: every JumpTo to n is connected to it.
Connected(arr, n, index) ==
  [i \in DOMAIN arr |->
    IF i < index /\ arr[i].type = "JumpTo" /\ arr[i].name = n
    THEN [arr[i] EXCEPT !.cmd_index = index] ELSE arr[i]]

\* May a query of kind comb follow one of kind prev?
Chains(comb, prev) ==
  \/ comb = "AND" /\ prev \in {"AND", "NONE"}
  \/ comb = "OR" /\ prev \in {"OR", "NONE"}
  \/ comb = "CUSTOM" /\ prev = "CUSTOM"

\* The queries before the last command that its back-walk reaches.
Walked(arr, last) ==
  {i \in 0 .. last - 1 :
     \A j \in i .. last - 1 :
       IsQuery(arr[j]) /\ Chains(arr[last].comb_type, arr[j].comb_type)}

\* The back-walk meets a query that the last command may not follow.
ChainMixed(arr, last) ==
  \E i \in 0 .. last - 1 :
    /\ IsQuery(arr[i])
    /\ i \notin Walked(arr, last)
    /\ \A j \in i + 1 .. last - 1 : j \in Walked(arr, last)

\* A mutant of QueriesChained: the previous query of an OR keeps its jump.
QueriesChainedNoReset(arr, last) ==
  [i \in DOMAIN arr |->
    [arr[i] EXCEPT
       !.jump_ne = IF i \in Walked(arr, last) /\ arr[last].comb_type = "AND"
                   THEN @ + 1 ELSE @,
       !.jump_e  = IF i \in Walked(arr, last) /\ arr[last].comb_type = "OR"
                   THEN @ + 1 ELSE @]]

\* The jumps of the earlier queries of the chain that the last one extends.
QueriesChained(arr, last) ==
  [i \in DOMAIN arr |->
    [arr[i] EXCEPT
       !.jump_ne = IF arr[last].comb_type = "OR" /\ i = last - 1 /\ IsQuery(arr[i])
                   THEN 1
                   ELSE IF i \in Walked(arr, last) /\ arr[last].comb_type = "AND"
                        THEN @ + 1 ELSE @,
       !.jump_e  = IF i \in Walked(arr, last) /\ arr[last].comb_type = "OR"
                   THEN @ + 1 ELSE @]]

\* A mutant of InitVarLate: only the first command is looked at.
InitVarLateFirst(arr, last) ==
  arr[last].type = "InitVar" /\ last > 0 /\ arr[0].type # "InitVar"

\* An InitVar after a command of another type.
InitVarLate(arr, last) ==
  arr[last].type = "InitVar" /\ last > 0 /\ arr[last - 1].type # "InitVar"

(***************************************************************************)
(* The end of macro_buffer_process_next for a text without error so far:   *)
(* the last command of arr, just added, is checked and chained.            *)
(***************************************************************************)
AddAndChain(arr) ==
  /\ size' = size + 1
  /\ IF parse_error
     THEN cmds' = arr /\ UNCHANGED parse_error
     ELSE IF InitVarLate(arr, size)
     THEN cmds' = arr /\ parse_error' = TRUE
     ELSE IF IsQuery(arr[size])
     THEN cmds' = QueriesChained(arr, size) /\ parse_error' = ChainMixed(arr, size)
     ELSE cmds' = arr /\ UNCHANGED parse_error

-------------------------------------------------------------------------------
(* macro_buffer_process_next: one action per way a command is linked. *)

Parsing == phase = "parsing" /\ size < MaxSize

\* Commands without a name.
ReadCommand(c) ==
  /\ Parsing
  /\ c.type \notin {"RepeatStart", "RepeatEnd", "JumpTo", "JumpFrom"}
  /\ AddAndChain(Added(c))
  /\ UNCHANGED <<rim, rim_strings, jim, jump_from_added, phase>>

\* A name already seen ends the whole player (repeat_id_manager_add_name).
ReadRepeatStart(c) ==
  /\ Parsing
  /\ c.type = "RepeatStart"
  /\ IF c.name \in rim_strings
     THEN /\ phase' = "exited"
          /\ UNCHANGED <<size, cmds, rim, rim_strings, parse_error>>
     ELSE /\ rim' = [rim EXCEPT ![c.name] = size]
          /\ rim_strings' = rim_strings \union {c.name}
          /\ AddAndChain(Added(c))
          /\ UNCHANGED phase
  /\ UNCHANGED <<jim, jump_from_added>>

\* Asking whether the name exists adds it to the string manager.
ReadRepeatEnd(c) ==
  /\ Parsing
  /\ c.type = "RepeatEnd"
  /\ rim_strings' = rim_strings \union {c.name}
  /\ IF c.name \in rim_strings
     THEN AddAndChain(Added([c EXCEPT !.cmd_index = rim[c.name]]))
     ELSE parse_error' = TRUE /\ UNCHANGED <<size, cmds>>
  /\ UNCHANGED <<rim, jim, jump_from_added, phase>>

\* A JumpTo read before its JumpFrom stays unconnected.
ReadJumpTo(c) ==
  /\ Parsing
  /\ c.type = "JumpTo"
  /\ jim' = [jim EXCEPT ![c.name] =
               IF @ = IndexNotFound THEN JumpFromNotConnected ELSE @]
  /\ AddAndChain(Added([c EXCEPT !.cmd_index = jim'[c.name]]))
  /\ UNCHANGED <<rim, rim_strings, jump_from_added, phase>>

\* A mutant of ReadJumpFrom: a second JumpFrom takes the name over.
ReadJumpFromAgain(c) ==
  /\ Parsing
  /\ c.type = "JumpFrom"
  /\ jim' = [jim EXCEPT ![c.name] = size]
  /\ jump_from_added' = jump_from_added \union {c.name}
  /\ AddAndChain(Added(c))
  /\ UNCHANGED <<rim, rim_strings, phase>>

\* The first JumpFrom of a name connects the JumpTos read so far.
ReadJumpFrom(c) ==
  /\ Parsing
  /\ c.type = "JumpFrom"
  /\ IF c.name \in jump_from_added
     THEN /\ parse_error' = TRUE
          /\ UNCHANGED <<size, cmds, jim, jump_from_added>>
     ELSE /\ jim' = [jim EXCEPT ![c.name] = size]
          /\ jump_from_added' = jump_from_added \union {c.name}
          /\ AddAndChain(Connected(Added(c), c.name, size))
  /\ UNCHANGED <<rim, rim_strings, phase>>

\* A mutant of ExtraChecksPass: the bounds of a false query are not looked at.
ExtraChecksPassHalf ==
  /\ \A n \in Names : rim[n] # IndexNotFound =>
       \E i \in 0 .. size - 1 : cmds[i].type = "RepeatEnd" /\ cmds[i].name = n
  /\ \A n \in Names : jim[n] # IndexNotFound =>
       \E i \in 0 .. size - 1 : cmds[i].type = "JumpFrom" /\ cmds[i].name = n
  /\ LastCommandOK(cmds, size)
  /\ \A i \in 0 .. size - 1 : IsQuery(cmds[i]) => i + cmds[i].jump_e \in 0 .. size - 1

ExtraChecksPass ==
  /\ \A n \in Names : rim[n] # IndexNotFound =>
       \E i \in 0 .. size - 1 : cmds[i].type = "RepeatEnd" /\ cmds[i].name = n
  /\ \A n \in Names : jim[n] # IndexNotFound =>
       \E i \in 0 .. size - 1 : cmds[i].type = "JumpFrom" /\ cmds[i].name = n
  /\ LastCommandOK(cmds, size)
  /\ QueriesInBounds(cmds, size)

\* A command that is not read: the text has an error there.
ReadError ==
  /\ Parsing
  /\ ~parse_error
  /\ parse_error' = TRUE
  /\ UNCHANGED <<size, cmds, rim, rim_strings, jim, jump_from_added, phase>>

(***************************************************************************)
(* parse_file, once the text is consumed.  macro_buffer_extra_checks reads *)
(* cmds[size-1]: with no command at all cmds is NULL and the read crashes. *)
(* Whether the RPN strings of the program are valid is left open (rpn_ok). *)
(***************************************************************************)
EndOfText ==
  /\ phase = "parsing"
  /\ \E rpn_ok \in BOOLEAN :
       phase' = IF parse_error THEN "rejected"
                ELSE IF size = 0 THEN "crashed"
                ELSE IF ExtraChecksPass /\ rpn_ok THEN "accepted" ELSE "rejected"
  /\ parse_error' = (parse_error \/ phase' = "rejected")
  /\ UNCHANGED <<size, cmds, rim, rim_strings, jim, jump_from_added>>

\* parse_file returns and is called again: macro_buffer_free, macro_buffer_new.
NewText ==
  /\ phase \in {"accepted", "rejected"}
  /\ size' = 0
  /\ cmds' = [i \in {} |-> 0]
  /\ rim' = [n \in Names |-> IndexNotFound]
  /\ rim_strings' = {}
  /\ jim' = [n \in Names |-> IndexNotFound]
  /\ jump_from_added' = {}
  /\ parse_error' = FALSE
  /\ phase' = "parsing"

Next ==
  \/ \E c \in Alphabet :
       \/ ReadCommand(c)
       \/ ReadRepeatStart(c)
       \/ ReadRepeatEnd(c)
       \/ ReadJumpTo(c)
       \/ ReadJumpFrom(c)
  \/ ReadError
  \/ EndOfText
  \/ NewText

Spec == Init /\ [][Next]_vars

-------------------------------------------------------------------------------
(* Properties *)

\* Every variable keeps its type; the command array has exactly size commands
\* (command_array_add grows both together).
TypeOK ==
  /\ size \in Nat
  /\ cmds \in CommandArray(size)
  /\ rim \in [Names -> Int]
  /\ rim_strings \in SUBSET Names
  /\ jim \in [Names -> Int]
  /\ jump_from_added \in SUBSET Names
  /\ parse_error \in BOOLEAN
  /\ phase \in Phases

\* What macro_buffer_extra_checks lets through is everything the interpreter
\* loop relies on to stay inside the command array.
AcceptedIsWellFormed == phase = "accepted" => WellFormed(cmds, size)

\* In an accepted program a JumpTo goes to the one JumpFrom of its name, in
\* whatever order the two and other JumpTos were read (RS_JumpTo, RS_JumpFrom).
JumpsReachTheirLabel ==
  phase = "accepted" =>
    \A i, j \in 0 .. size - 1 :
      (cmds[i].type = "JumpTo" /\ cmds[j].type = "JumpFrom" /\ cmds[i].name = cmds[j].name)
        => cmds[i].cmd_index = j

\* In an accepted program the InitVar commands come before all others.
InitVarsFirst ==
  phase = "accepted" =>
    \A i \in 0 .. size - 1 :
      cmds[i].type = "InitVar" => \A j \in 0 .. i : cmds[j].type = "InitVar"

\* first .. last is a maximal run of queries without custom jumps.
IsChain(first, last) ==
  /\ \A i \in first .. last : IsQuery(cmds[i]) /\ cmds[i].comb_type # "CUSTOM"
  /\ first = 0 \/ ~IsQuery(cmds[first - 1])
  /\ last = size - 1 \/ ~IsQuery(cmds[last + 1])

\* Query i holds when its condition and its "!" differ.
Holds(i, truth) == truth[i] # cmds[i].invert

\* Where the interpreter gets to when it enters the chain and the conditions
\* of the queries are as in truth.
Landing(first, last, truth) ==
  LET land[i \in first .. last + 2] ==
        IF i > last THEN i
        ELSE land[i + (IF Holds(i, truth) THEN cmds[i].jump_e ELSE cmds[i].jump_ne)]
  IN  land[first]

\* A chain ?q1?|q2?... decides the disjunction of its queries and ?q1?&q2?...
\* their conjunction: the interpreter gets to the command after the chain when
\* it holds and skips that command otherwise.
ChainsDecide ==
  phase = "accepted" =>
    \A first \in 0 .. size - 1 : \A last \in first .. size - 1 :
      IsChain(first, last) =>
        \A truth \in [first .. last -> BOOLEAN] :
          Landing(first, last, truth) =
            IF (IF cmds[last].comb_type = "OR"
                THEN \E i \in first .. last : Holds(i, truth)
                ELSE \A i \in first .. last : Holds(i, truth))
            THEN last + 1 ELSE last + 2

\* The player goes on after every text: the code SHOULD_BE_UNREACHABLE of
\* repeat_id_manager_add_name is not reached.
NeverExits == phase # "exited"
===============================================================================
