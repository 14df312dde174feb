------------------------------- MODULE Scanner -------------------------------
(***************************************************************************)
(* The reading of a macro text: parse_file calls macro_buffer_process_next *)
(* until the text is consumed, and each call is a machine with one state   *)
(* per kind of thing it expects (read_state), one turn of its loop per     *)
(* step.  A text is a sequence of symbols: a punctuation mark, a digit, a  *)
(* letter, or a whole word of the language, which is as good as a run of   *)
(* letters wherever no keyword is expected.  Positions count symbols from  *)
(* 0 and the terminating '\0' is at Len(text).  Numbers and strings are    *)
(* kept as the span of text they are made of.  How commands are linked and *)
(* queries chained at the end of the same function is in MacroBuffer: that *)
(* only adds errors.                                                       *)
(***************************************************************************)
EXTENDS Integers, Sequences, FiniteSets

CONSTANTS Texts,       \* the texts to read
          Digits,      \* digit symbols
          Buttons,     \* those from 1 to 5
          Letters,     \* one-letter symbols
          Words,       \* words, keywords or not
          KeySyms,     \* letters and words that name one key
          Modifiers    \* words that name a modifier

ASSUME TextsAssumption == \A t \in Texts : t \in Seq(STRING)

VARIABLES
  text,         \* contents
  token_i,      \* where the next call starts
  mark,         \* token_i + read_i: where the present argument starts
  at,           \* token_i + read_i + read_offset_i: the current character
  read_state,   \* ReadState, or "Between" calls
  loc,          \* the other locals of the call
  cmds,         \* the commands read
  names,        \* the names the repeats, jumps and variables have
  parse_error

vars == <<text, token_i, mark, at, read_state, loc, cmds, names, parse_error>>

NUL       == "NUL"
Semicolon == ";"
Comma     == ","
NewLine   == "\n"

\* The null character ends a text and is no character of it.
ASSUME NULAssumption ==
  /\ \A t \in Texts : \A i \in DOMAIN t : t[i] # NUL
  /\ NUL \notin Digits \union Buttons \union Letters \union Words

\* isdigit and char_is_key: no mark is a digit, a letter or a part of a word.
ASSUME SymbolsAssumption ==
  /\ Digits \subseteq {"0", "1", "2", "3", "4", "5", "6", "7", "8", "9"}
  /\ Buttons \subseteq Digits
  /\ \A c \in Letters \union Words :
       c \notin {"=", "?", "|", "&", "!", "(", ")", "+", Comma, Semicolon}

Blanks     == {" ", NewLine}
CombOf  == [c \in {"?", "|", "&"} |->
              CASE c = "?" -> "NONE" [] c = "|" -> "OR" [] c = "&" -> "AND"]
KeyStates == {"c", "d", "u"}
DelayUnits == {"s", "m", "u"}
VarTypes  == {"c", "i", "l", "d"}

KeyChars == Digits \union Letters \union Words      \* char_is_key

NoLocals == [start |-> 0, print |-> FALSE, invert |-> FALSE, store |-> FALSE,
             comb |-> "NONE", rpn |-> FALSE, keystate |-> FALSE, args |-> <<>>]

Init ==
  /\ text \in Texts
  /\ token_i = 0 /\ mark = 0 /\ at = 0
  /\ read_state = "Between"
  /\ loc = NoLocals
  /\ cmds = <<>>
  /\ names = [repeats |-> {}, jumps |-> {}, variables |-> {}]
  /\ parse_error = FALSE

-------------------------------------------------------------------------------
(* Looking at the text. *)

Char(i) == IF i < Len(text) THEN text[i + 1] ELSE NUL

Here == Char(at)

\* The first position from i on whose symbol is in S, or the end of the text.
First(i, S) ==
  CHOOSE j \in i .. Len(text) :
    /\ Char(j) \in S \union {NUL}
    /\ \A k \in i .. j - 1 : Char(k) \notin S \union {NUL}

\* The first position from i on without a digit.
AfterDigits(i) ==
  CHOOSE j \in i .. Len(text) :
    /\ Char(j) \notin Digits
    /\ \A k \in i .. j - 1 : Char(k) \in Digits

\* strncmp of the current character with a word.
Starts(word) == \A j \in DOMAIN word : Char(at + j - 1) = word[j]

\* The argument read so far, and what it says.
Span     == <<mark, at - 1>>
Argument == SubSeq(text, mark + 1, at)

None == -1

(***************************************************************************)
(* The position of term after the number that starts here: digits after    *)
(* one of first, or an RPN string whose closing bracket is looked for up   *)
(* to one of stops.                                                        *)
(***************************************************************************)
NumberEnd(first, stops, term) ==
  IF Here \in first
  THEN LET e == AfterDigits(at + 1) IN IF Char(e) = term THEN e ELSE None
  ELSE IF Here = "("
  THEN LET e == First(at + 1, stops \union {")"})
       IN IF Char(e) = ")" /\ Char(e + 1) = term THEN e + 1 ELSE None
  ELSE None

\* The parts of a key name between the plus signs (strtok).
KeyParts(i, j) ==
  {p \in (i .. j) \X (i .. j) :
     /\ p[1] <= p[2]
     /\ \A k \in p[1] .. p[2] : Char(k) # "+"
     /\ p[1] > i => Char(p[1] - 1) = "+"
     /\ p[2] < j => Char(p[2] + 1) = "+"}

\* One key, not Escape, with any modifiers.
KeyNameOK(i, j) ==
  LET Single(S) == {p \in KeyParts(i, j) : p[1] = p[2] /\ Char(p[1]) \in S}
      key == Single(KeySyms \ {"Escape"})
  IN /\ \E p \in key : key = {p}
     /\ KeyParts(i, j) = key \union Single(Modifiers)

-------------------------------------------------------------------------------
(* What a turn of the loop does. *)

\* The character belongs to the argument.
Stay(state, l) ==
  /\ at' = at + 1
  /\ read_state' = state
  /\ loc' = l
  /\ UNCHANGED <<token_i, mark, cmds, names, parse_error>>

\* The next argument starts after n characters.
Read(state, n, l) ==
  /\ at' = at + n
  /\ mark' = at + n
  /\ read_state' = state
  /\ loc' = l
  /\ UNCHANGED <<token_i, cmds, names, parse_error>>

\* The call returns and the next one starts at i.
Return(i) ==
  /\ token_i' = i
  /\ read_state' = "Between"
  /\ UNCHANGED <<mark, at, loc>>

\* Mutants of ErrorMove: the mistake is left to the next call; the move is
\* one too far.
ErrorMoveShort(i) == i
ErrorMoveFar(i) == First(i, {Semicolon}) + 2

\* error_move_offset, and one further at the end of the turn.
ErrorMove(i) == First(i, {Semicolon}) + 1

\* DO_ERROR.
Error ==
  /\ Return(ErrorMove(at))
  /\ parse_error' = TRUE
  /\ UNCHANGED <<cmds, names>>

Command(type, args) ==
  [type |-> type, print |-> loc.print, invert |-> loc.invert,
   store |-> loc.store, comb |-> loc.comb, args |-> args,
   from |-> None, to |-> None]

(***************************************************************************)
(* key_processed at position e with the commands arr: the last one gets    *)
(* the part of the text it was read from.                                  *)
(***************************************************************************)
Finish(arr, e) ==
  LET last == Len(arr)
      late == /\ arr[last].type = "InitVar"
              /\ last > 1 /\ arr[last - 1].type # "InitVar"
  IN /\ Return(e + 1)
     /\ parse_error' = (parse_error \/ late)
     /\ cmds' = IF parse_error'
                THEN arr
                ELSE [arr EXCEPT ![last].from = loc.start, ![last].to = e]

Emit(type, args, e) ==
  /\ Finish(Append(cmds, Command(type, args)), e)
  /\ UNCHANGED names

\* The command named by the argument read, if it may have that name.
EmitNamed(type, field, ok) ==
  IF ok
  THEN /\ Finish(Append(cmds, Command(type, <<Span>>)), at)
       /\ names' = [names EXCEPT ![field] = @ \union {Argument}]
  ELSE Error

\* A mutant of Call: the locals of the last command are kept.
CallKeeps ==
  /\ read_state = "Between" /\ token_i <= Len(text)
  /\ read_state' = "RS_Start"
  /\ mark' = token_i /\ at' = token_i
  /\ loc' = [loc EXCEPT !.start = token_i, !.args = <<>>, !.keystate = FALSE]
  /\ UNCHANGED <<text, token_i, cmds, names, parse_error>>

\* macro_buffer_process_next is called again: its locals are new.
Call ==
  /\ read_state = "Between" /\ token_i <= Len(text)
  /\ read_state' = "RS_Start"
  /\ mark' = token_i /\ at' = token_i
  /\ loc' = [NoLocals EXCEPT !.start = token_i]
  /\ UNCHANGED <<text, token_i, cmds, names, parse_error>>

-------------------------------------------------------------------------------
(* RS_Start: what the text goes on with. *)

\* Commands without arguments.
Simple ==
  [Exit |-> <<"exit", Semicolon>>, Pass |-> <<"pass", Semicolon>>,
   UngrabKeyAll |-> <<"ungrab_keys", Semicolon>>,
   UngrabButtonAll |-> <<"ungrab_buttons", Semicolon>>,
   SaveMouseCoords |-> <<"save_mma", Semicolon>>,
   LoadMouseCoords |-> <<"load_mma", Semicolon>>,
   RepeatResetCounters |-> <<"rep_reset", Semicolon>>,
   JumpBack |-> <<"JB", ">", Semicolon>>]

\* Beginnings of commands, with the state that reads the first argument.
Openings ==
  {[word |-> <<"init", Comma>>, state |-> "RS_InitVarType"],
   [word |-> <<"edit", Comma>>, state |-> "RS_EditVarName"],
   [word |-> <<"JTIA", ">">>, state |-> "RS_JumpToIndex"],
   [word |-> <<"JTIR", ">">>, state |-> "RS_JumpToIndex"],
   [word |-> <<"JT", ">">>, state |-> "RS_JumpTo"],
   [word |-> <<"JTS", ">">>, state |-> "RS_JumpTo"],
   [word |-> <<"JF", ">">>, state |-> "RS_JumpFrom"],
   [word |-> <<"mma", "=">>, state |-> "RS_MoveMouse"],
   [word |-> <<"mmr", "=">>, state |-> "RS_MoveMouse"],
   [word |-> <<"wait_key", "=">>, state |-> "RS_WaitUntilKey"],
   [word |-> <<"!", "wait_key", "=">>, state |-> "RS_WaitUntilKey"],
   [word |-> <<"wait_button", "=">>, state |-> "RS_WaitUntilButton"],
   [word |-> <<"!", "wait_button", "=">>, state |-> "RS_WaitUntilButton"],
   [word |-> <<"wait_buttonc", "=">>, state |-> "RS_WaitUntilButton"],
   [word |-> <<"grab_key", "=">>, state |-> "RS_GrabKey"],
   [word |-> <<"ungrab_key", "=">>, state |-> "RS_UngrabKey"],
   [word |-> <<"grab_button", "=">>, state |-> "RS_GrabButton"],
   [word |-> <<"ungrab_button", "=">>, state |-> "RS_UngrabButton"],
   [word |-> <<"print", "=">>, state |-> "RS_PrintString"],
   [word |-> <<"println", "=">>, state |-> "RS_PrintString"],
   [word |-> <<"debug", Comma>>, state |-> "RS_DebugType"]}

PrintPrefix == <<"PRINT", ">", ">">>

KeywordHere ==
  \/ Starts(PrintPrefix)
  \/ \E t \in DOMAIN Simple : Starts(Simple[t])
  \/ \E o \in Openings : Starts(o.word)

\* What read_i is moved by: all of the command except, once, its semicolon.
SimpleLength(t) ==
  IF t = "UngrabButtonAll" THEN Len(Simple[t]) ELSE Len(Simple[t]) - 1

StartSimple ==
  /\ read_state = "RS_Start"
  /\ \E t \in DOMAIN Simple :
       Starts(Simple[t]) /\ Emit(t, <<>>, at + SimpleLength(t))

StartPrint ==
  /\ read_state = "RS_Start" /\ Starts(PrintPrefix)
  /\ Read("RS_Start", Len(PrintPrefix), [loc EXCEPT !.print = TRUE])

StartOpening ==
  /\ read_state = "RS_Start"
  /\ \E o \in Openings :
       /\ Starts(o.word)
       /\ Read(o.state, Len(o.word),
               [loc EXCEPT !.invert = (o.word[1] = "!"),
                           !.store = (o.word[1] = "JTS")])

\* The word Escape comes before the end of the command.
EscapeAhead ==
  LET e == First(at, {"Escape", Semicolon})
  IN Char(e) = "Escape" /\ Char(First(e, {Semicolon})) = Semicolon

StartKey ==
  /\ read_state = "RS_Start" /\ ~KeywordHere /\ Here \in KeyChars
  /\ IF Here = "m" /\ Char(at + 1) \in Digits
     THEN Read("RS_MouseClickType", 1, loc)
     ELSE IF EscapeAhead THEN Error
     ELSE Stay("RS_Keys", loc)

StartOther ==
  /\ read_state = "RS_Start" /\ ~KeywordHere /\ Here \notin KeyChars
  /\ CASE Here = "." -> Read("RS_Delay", 1, loc)
       [] Here = "(" -> Read("RS_RepeatStart", 1, loc)
       [] Here = ")" -> Read("RS_RepeatEnd", 1, loc)
       [] Here \in {Semicolon, NUL} ->
            Return(at + 1) /\ UNCHANGED <<cmds, names, parse_error>>
       [] Here \in Blanks -> Read("RS_Start", 1, [loc EXCEPT !.start = @ + 1])
       [] Here = "#" -> Stay("RS_Comments", [loc EXCEPT !.start = @ + 1])
       [] Here \in DOMAIN CombOf ->
            Read("RS_Query", 1, [loc EXCEPT !.comb = CombOf[Here]])
       [] OTHER -> Error

\* A mutant of RS_Comments: the end of the text is not looked for.
RS_CommentsNoEnd ==
  /\ read_state = "RS_Comments"
  /\ LET l == [loc EXCEPT !.start = @ + 1]
     IN IF Here = NewLine THEN Read("RS_Start", 1, l) ELSE Stay("RS_Comments", l)

RS_Comments ==
  /\ read_state = "RS_Comments"
  /\ LET l == [loc EXCEPT !.start = @ + 1]
     IN CASE Here = NewLine -> Read("RS_Start", 1, l)
          [] Here = NUL  -> Return(at + 1) /\ UNCHANGED <<cmds, names, parse_error>>
          [] OTHER       -> Stay("RS_Comments", l)

-------------------------------------------------------------------------------
(* Commands: one action per state. *)

\* A state that reads one number and then has its command.
LastNumber(type, e) ==
  IF e = None THEN Error
  ELSE Emit(type, Append(loc.args, <<at, e - 1>>), e)

\* A state that reads n numbers, the last one followed by term.
NumberOf(state, type, first, n, term) ==
  LET last == Len(loc.args) = n - 1
      e == NumberEnd(first, {Semicolon}, IF last THEN term ELSE Comma)
  IN IF last \/ e = None THEN LastNumber(type, e)
     ELSE Read(state, e - at + 1,
               [loc EXCEPT !.args = Append(@, <<at, e - 1>>)])

\* A state that reads one digit, a button.
ButtonThen(type, term) ==
  IF Here \in Buttons /\ Char(at + 1) = term
  THEN Emit(type, <<<<at, at>>>>, at + 1) ELSE Error

\* A state that reads the name of a key.
KeyNameThen(state, type, term) ==
  IF Here \in KeyChars \union {"+"} THEN Stay(state, loc)
  ELSE IF Here = term /\ KeyNameOK(mark, at - 1)
  THEN Emit(type, <<Span>>, at) ELSE Error

RS_RepeatStart ==
  /\ read_state = "RS_RepeatStart"
  /\ IF Here \in KeyChars THEN Stay(read_state, loc)
     ELSE EmitNamed("RepeatStart", "repeats", Here = Semicolon)

\* A mutant of RS_RepeatEnd: the value is read from the sign on.
RS_RepeatEndSign ==
  /\ read_state = "RS_RepeatEnd"
  /\ IF Here \in KeyChars THEN Stay(read_state, loc)
     ELSE IF Here = "=" /\ Argument \in names.repeats
     THEN Stay("RS_RepeatEndValue", [loc EXCEPT !.args = <<<<mark, at>>>>])
     ELSE IF Here = Semicolon /\ Argument \in names.repeats
     THEN Emit("RepeatEnd", <<Span>>, at)
     ELSE Error

\* Asking for a name adds it, even when that is an error.
RS_RepeatEnd ==
  /\ read_state = "RS_RepeatEnd"
  /\ IF Here \in KeyChars THEN Stay(read_state, loc)
     ELSE IF Here \in {"=", Semicolon} /\ Argument \notin names.repeats
     THEN /\ Return(ErrorMove(at)) /\ parse_error' = TRUE
          /\ names' = [names EXCEPT !.repeats = @ \union {Argument}]
          /\ UNCHANGED cmds
     ELSE IF Here = "="
     THEN Read("RS_RepeatEndValue", 1, [loc EXCEPT !.args = <<Span>>])
     ELSE IF Here = Semicolon THEN Emit("RepeatEnd", <<Span>>, at)
     ELSE Error

RS_RepeatEndValue ==
  /\ read_state = "RS_RepeatEndValue"
  /\ LastNumber("RepeatEnd", NumberEnd(Digits, {Semicolon}, Semicolon))

RS_Keys ==
  /\ read_state = "RS_Keys"
  /\ IF Here \in KeyChars \union {"+"} THEN Stay(read_state, loc)
     ELSE IF Here = "="
     THEN Stay("RS_KeyState", [loc EXCEPT !.keystate = FALSE])
     ELSE Error

RS_KeyState ==
  /\ read_state = "RS_KeyState"
  /\ IF Here \in KeyStates /\ ~loc.keystate
     THEN Stay(read_state, [loc EXCEPT !.keystate = TRUE])
     ELSE IF Here = Semicolon /\ loc.keystate
     THEN Emit("KeyStroke", <<<<mark, at - 3>>, <<at - 1, at - 1>>>>, at)
     ELSE Error

\* Without a unit the turn goes on behind the first digit.
RS_Delay ==
  /\ read_state = "RS_Delay"
  /\ CASE Here \in DelayUnits -> Read("RS_DelayValue", 1, loc)
       [] Here \in Digits     -> Stay("RS_DelayValue", loc)
       [] OTHER               -> Error

RS_DelayValue ==
  /\ read_state = "RS_DelayValue"
  /\ LastNumber("Delay", NumberEnd(Digits, {Semicolon}, Semicolon))

RS_MouseClickType ==
  /\ read_state = "RS_MouseClickType"
  /\ IF Here \in Digits /\ loc.args = <<>>
     THEN Stay(read_state, [loc EXCEPT !.args = <<<<at, at>>>>])
     ELSE IF Here = "=" /\ loc.args # <<>>
     THEN Read("RS_MouseClickState", 1, loc)
     ELSE Error

\* The command is added before its semicolon is read.
RS_MouseClickState ==
  /\ read_state = "RS_MouseClickState"
  /\ IF Here \in KeyStates /\ ~loc.keystate
     THEN /\ at' = at + 1
          /\ loc' = [loc EXCEPT !.keystate = TRUE]
          /\ cmds' = Append(cmds, Command("MouseClick", Append(loc.args, <<at, at>>)))
          /\ UNCHANGED <<token_i, mark, read_state, names, parse_error>>
     ELSE IF Here = Semicolon /\ loc.keystate
     THEN Finish(cmds, at) /\ UNCHANGED names
     ELSE Error

RS_MoveMouse ==
  /\ read_state = "RS_MoveMouse"
  /\ NumberOf(read_state, "MoveMouse", Digits \union {"-"}, 2, Semicolon)

RS_JumpTo ==
  /\ read_state = "RS_JumpTo"
  /\ IF Here \in KeyChars THEN Stay(read_state, loc)
     ELSE IF Here = Semicolon THEN Emit("JumpTo", <<Span>>, at)
     ELSE Error

RS_JumpToIndex ==
  /\ read_state = "RS_JumpToIndex"
  /\ LastNumber("JumpToIndex", NumberEnd(Digits \union {"-"}, {Semicolon}, Semicolon))

RS_JumpFrom ==
  /\ read_state = "RS_JumpFrom"
  /\ IF Here \in KeyChars THEN Stay(read_state, loc)
     ELSE EmitNamed("JumpFrom", "jumps", Here = Semicolon /\ Argument \notin names.jumps)

QueryOpenings ==
  {[word |-> <<"pxc", "=">>, state |-> "RS_QueryComparePixel"],
   [word |-> <<"coords", "=", "x">>, state |-> "RS_QueryCoordsType"],
   [word |-> <<"coords", "=", "y">>, state |-> "RS_QueryCoordsType"],
   [word |-> <<"within", "=">>, state |-> "RS_QueryCoordsWithin"],
   [word |-> <<"eval", "=">>, state |-> "RS_QueryRPNEval"],
   [word |-> <<"key_pressed", "=">>, state |-> "RS_QueryKeyPress"],
   [word |-> <<"button_pressed", "=">>, state |-> "RS_QueryButtonPress"]}

\* The position of the comma after two indices, "n:m,", or None.
IndicesEnd ==
  LET colon == AfterDigits(at + 1)
      comma == AfterDigits(IF Char(colon + 1) = "-" THEN colon + 2 ELSE colon + 1)
  IN IF Char(colon) = ":" /\ Char(comma) = Comma THEN comma ELSE None

\* Indices of its own, once and after a question mark only.
QueryIndices ==
  /\ read_state = "RS_Query" /\ Here \in Digits \union {"-"}
  /\ IF loc.comb = "NONE" /\ IndicesEnd # None
     THEN Read(read_state, IndicesEnd - at + 1, [loc EXCEPT !.comb = "CUSTOM"])
     ELSE Error

QueryInvert ==
  /\ read_state = "RS_Query" /\ Here = "!"
  /\ Read(read_state, 1, [loc EXCEPT !.invert = ~@])

QueryOpening ==
  /\ read_state = "RS_Query" /\ Here \notin Digits \union {"-", "!"}
  /\ \/ \E o \in QueryOpenings :
          Starts(o.word) /\ Read(o.state, Len(o.word), loc)
     \/ /\ ~\E o \in QueryOpenings : Starts(o.word)
        /\ Error

RS_QueryComparePixel ==
  /\ read_state = "RS_QueryComparePixel"
  /\ NumberOf(read_state, "QueryComparePixel", Digits, 4, "?")

RS_QueryCoordsType ==
  /\ read_state = "RS_QueryCoordsType"
  /\ IF Here \in {"<", ">"}
     THEN Read("RS_QueryCoordsVarValue", IF Char(at + 1) = "=" THEN 2 ELSE 1, loc)
     ELSE Error

RS_QueryCoordsVarValue ==
  /\ read_state = "RS_QueryCoordsVarValue"
  /\ LastNumber("QueryCompareCoords", NumberEnd(Digits, {"?"}, "?"))

RS_QueryCoordsWithin ==
  /\ read_state = "RS_QueryCoordsWithin"
  /\ NumberOf(read_state, "QueryCoordsWithin", Digits, 4, "?")

\* What is between the sign and the bracket is passed over.
RS_QueryRPNEval ==
  /\ read_state = "RS_QueryRPNEval"
  /\ IF Here \in KeyChars THEN Stay(read_state, loc)
     ELSE LastNumber("QueryRPNEval", NumberEnd({}, {"?"}, "?"))

RS_QueryKeyPress ==
  /\ read_state = "RS_QueryKeyPress"
  /\ KeyNameThen(read_state, "QueryKeyPress", "?")

RS_QueryButtonPress ==
  /\ read_state = "RS_QueryButtonPress"
  /\ ButtonThen("QueryButtonPress", "?")

RS_InitVarType ==
  /\ read_state = "RS_InitVarType"
  /\ IF Here \in VarTypes \union {"r"} /\ Char(at + 1) = Comma
     THEN Read("RS_InitVarName", 2, [loc EXCEPT !.rpn = (Here = "r")])
     ELSE Error

RS_InitVarName ==
  /\ read_state = "RS_InitVarName"
  /\ IF Here \in KeyChars THEN Stay(read_state, loc)
     ELSE IF Here = "="
     THEN Read("RS_InitVarValue", 1, [loc EXCEPT !.args = <<Span>>])
     ELSE Error

\* The name that the InitVar being read declares.
Variable == SubSeq(text, loc.args[1][1] + 1, loc.args[1][2] + 1)

\* A value in RPN is evaluated at once; a name declared again is an error,
\* but the command is added.
InitVarRPN ==
  /\ read_state = "RS_InitVarValue" /\ loc.rpn
  /\ LET close == First(at + 2, {")", "?"})
         ends  == /\ Here \in VarTypes /\ Char(at + 1) = "("
                  /\ Char(close) = ")" /\ Char(close + 1) = Semicolon
         c     == Command("InitVar", Append(loc.args, <<at + 1, close>>))
     IN \/ Error
        \/ /\ ends
           /\ names' = [names EXCEPT !.variables = @ \union {Variable}]
           /\ IF Variable \in names.variables
              THEN /\ cmds' = Append(cmds, c)
                   /\ Return(close + 2) /\ parse_error' = TRUE
              ELSE Finish(Append(cmds, c), close + 1)

\* A plain value; a name declared again is an error at the semicolon.
InitVarNumber ==
  /\ read_state = "RS_InitVarValue" /\ ~loc.rpn
  /\ CASE Here \in Digits \union {".", "-"} -> Stay(read_state, loc)
       [] Here = Semicolon /\ Variable \notin names.variables ->
            /\ Finish(Append(cmds, Command("InitVar", Append(loc.args, Span))), at)
            /\ names' = [names EXCEPT !.variables = @ \union {Variable}]
       [] OTHER -> Error

RS_EditVarName ==
  /\ read_state = "RS_EditVarName"
  /\ IF Here \in KeyChars THEN Stay(read_state, loc)
     ELSE IF Here = "=" /\ Argument \in names.variables
     THEN Read("RS_EditVarValue", 1, [loc EXCEPT !.args = <<Span>>])
     ELSE Error

RS_EditVarValue ==
  /\ read_state = "RS_EditVarValue"
  /\ LastNumber("EditVar", NumberEnd({}, {Semicolon}, Semicolon))

RS_WaitUntilKey ==
  /\ read_state = "RS_WaitUntilKey"
  /\ KeyNameThen(read_state, "WaitUntilKey", Semicolon)

RS_WaitUntilButton ==
  /\ read_state = "RS_WaitUntilButton"
  /\ ButtonThen("WaitUntilButton", Semicolon)

RS_GrabKey ==
  /\ read_state = "RS_GrabKey"
  /\ KeyNameThen(read_state, "GrabKey", Semicolon)

RS_UngrabKey ==
  /\ read_state = "RS_UngrabKey"
  /\ KeyNameThen(read_state, "UngrabKey", Semicolon)

\* A mutant of RS_GrabButton: its semicolon is not counted.
RS_GrabButtonShort ==
  /\ read_state = "RS_GrabButton"
  /\ IF Here \in Buttons /\ Char(at + 1) = Semicolon
     THEN Emit("GrabButton", <<<<at, at>>>>, at) ELSE Error

RS_GrabButton ==
  /\ read_state = "RS_GrabButton"
  /\ ButtonThen("GrabButton", Semicolon)

RS_UngrabButton ==
  /\ read_state = "RS_UngrabButton"
  /\ ButtonThen("UngrabButton", Semicolon)

Escapes == {"a", "b", "e", "f", "n", "r", "t", "v", "(", Semicolon, NewLine}

\* Text, RPN strings in brackets and escapes, up to two semicolons.
RS_PrintString ==
  /\ read_state = "RS_PrintString"
  /\ LET close == First(at + 1, {")", Semicolon})
     IN CASE Here = "(" /\ Char(close) = ")" ->
               /\ at' = close + 1
               /\ loc' = [loc EXCEPT !.args = Append(@, <<at, close>>)]
               /\ UNCHANGED <<token_i, mark, read_state, cmds, names, parse_error>>
          [] Here = Semicolon /\ Char(at + 1) = Semicolon ->
               Emit("PrintString", loc.args, at + 1)
          [] Here = "\\" /\ Char(at + 1) \in Escapes ->
               /\ at' = at + 2
               /\ UNCHANGED <<token_i, mark, read_state, loc, cmds, names, parse_error>>
          [] Here \notin {"(", "\\", NUL} /\ ~(Here = Semicolon /\ Char(at + 1) = Semicolon) ->
               Stay(read_state, loc)
          [] OTHER -> Error

RS_DebugType ==
  /\ read_state = "RS_DebugType"
  /\ IF Here \in {"debug_print_type", "rpn_decimals", "rpn_stack_debug"}
        /\ Char(at + 1) = "="
     THEN Read("RS_DebugValue", 2, loc)
     ELSE Error

\* Whether the value is in its range is left open.
RS_DebugValue ==
  /\ read_state = "RS_DebugValue"
  /\ IF Here \in Digits THEN Stay(read_state, loc)
     ELSE \/ Here = Semicolon /\ Emit("DebugConfig", <<Span>>, at)
          \/ Error

-------------------------------------------------------------------------------
ReadText ==
  \/ StartSimple \/ StartPrint \/ StartOpening \/ StartKey \/ StartOther
  \/ RS_Comments
  \/ RS_RepeatStart \/ RS_RepeatEnd \/ RS_RepeatEndValue
  \/ RS_Keys \/ RS_KeyState \/ RS_Delay \/ RS_DelayValue
  \/ RS_MouseClickType \/ RS_MouseClickState \/ RS_MoveMouse
  \/ RS_JumpTo \/ RS_JumpToIndex \/ RS_JumpFrom
  \/ QueryIndices \/ QueryInvert \/ QueryOpening
  \/ RS_QueryComparePixel \/ RS_QueryCoordsType \/ RS_QueryCoordsVarValue
  \/ RS_QueryCoordsWithin \/ RS_QueryRPNEval \/ RS_QueryKeyPress
  \/ RS_QueryButtonPress
  \/ RS_InitVarType \/ RS_InitVarName \/ InitVarRPN \/ InitVarNumber
  \/ RS_EditVarName \/ RS_EditVarValue
  \/ RS_WaitUntilKey \/ RS_WaitUntilButton
  \/ RS_GrabKey \/ RS_UngrabKey \/ RS_GrabButton \/ RS_UngrabButton
  \/ RS_PrintString \/ RS_DebugType \/ RS_DebugValue

Next == Call \/ (ReadText /\ UNCHANGED text)

Spec == Init /\ [][Next]_vars

\* The loop of parse_file runs on; nothing blocks it.
FairSpec == Spec /\ WF_vars(Next)

-------------------------------------------------------------------------------
(* Properties. *)

Done == read_state = "Between" /\ token_i > Len(text)

Accepted == Done /\ ~parse_error

States ==
  {"Between", "RS_Start", "RS_Comments", "RS_RepeatStart", "RS_RepeatEnd",
   "RS_RepeatEndValue", "RS_Keys", "RS_KeyState", "RS_Delay", "RS_DelayValue",
   "RS_MouseClickType", "RS_MouseClickState", "RS_MoveMouse", "RS_Query",
   "RS_InitVarName", "RS_InitVarValue", "RS_EditVarValue", "RS_DebugValue",
   "RS_QueryCoordsVarValue"}
  \union {o.state : o \in Openings} \union {o.state : o \in QueryOpenings}

(***************************************************************************)
(* Every state has its values, and a command has at most the four numbers  *)
(* that num_str_arr, rpn_str_arr and vlci have room for (the RPN strings   *)
(* of a print command are kept in an array of their own).                  *)
(***************************************************************************)
TypeOK ==
  /\ token_i \in 0 .. Len(text) + 1
  /\ read_state \in States
  /\ parse_error \in BOOLEAN
  /\ DOMAIN names = {"repeats", "jumps", "variables"}
  /\ read_state # "RS_PrintString" => Len(loc.args) <= 4
  /\ \A c \in {cmds[n] : n \in DOMAIN cmds} :
       /\ c.type # "PrintString" => Len(c.args) <= 4
       /\ c.from \in -1 .. Len(text) /\ c.to \in -1 .. Len(text)

(***************************************************************************)
(* No state reads behind the terminating null character of the text, and   *)
(* an argument starts before the character being read: whatever a state is *)
(* waiting for, it stops at the end (the loops over current_char_p and the *)
(* reads of current_char_p[1] in macro_buffer_process_next).               *)
(***************************************************************************)
NeverPastEnd ==
  read_state # "Between" => mark <= at /\ at <= Len(text)

\* Nothing of the text from i up to j is a command: blanks, empty commands,
\* prefixes whose command comes later or not at all, and comments.
Ignored(i, j) ==
  \A k \in i .. j - 1 :
    \/ Char(k) \in Blanks \union {Semicolon}
    \/ \E h \in i .. k :
         k < h + Len(PrintPrefix) /\ \A n \in DOMAIN PrintPrefix : Char(h + n - 1) = PrintPrefix[n]
    \/ \E h \in i .. k : Char(h) = "#" /\ \A g \in h .. k - 1 : Char(g) # NewLine

(***************************************************************************)
(* The commands of an accepted text lie one behind the other, each ends    *)
(* with its own semicolon or question mark, and everything outside of them *)
(* is blanks, comments and empty commands: no character of the text is     *)
(* dropped or read as part of another command (read_i and read_offset_i of *)
(* every state, start_cmd_p and end_cmd_p).                                *)
(***************************************************************************)
CommandsTile ==
  Accepted =>
    LET end(n) == IF n = 0 THEN -1 ELSE cmds[n].to
    IN /\ \A n \in DOMAIN cmds :
            /\ end(n - 1) < cmds[n].from /\ cmds[n].from < cmds[n].to
            /\ Ignored(end(n - 1) + 1, cmds[n].from)
            /\ Char(cmds[n].to) \in {Semicolon, "?"}
       /\ Ignored(end(Len(cmds)) + 1, Len(text))

\* Where a command starts behind its PRINT>>.
Body(c) == c.from + IF c.print THEN Len(PrintPrefix) ELSE 0

\* The exclamation marks of a command that are not inside of brackets.
MarksOf(c) ==
  {k \in Body(c) .. c.to - 1 : Char(k) = "!" /\ \A h \in Body(c) .. k - 1 : Char(h) # "("}

(***************************************************************************)
(* The prefix, the inversion, the way of chaining and the storing of the   *)
(* index of a command of an accepted text are those written in its own     *)
(* text, whatever the commands before it had: an odd number of exclamation *)
(* marks inverts (the locals of macro_buffer_process_next).                *)
(***************************************************************************)
FlagsFromOwnText ==
  Accepted => \A n \in DOMAIN cmds :
    LET c == cmds[n]
    IN /\ c.print <=> \A i \in DOMAIN PrintPrefix : Char(c.from + i - 1) = PrintPrefix[i]
       /\ c.store <=> Char(Body(c)) = "JTS" /\ Char(Body(c) + 1) = ">"
       /\ c.comb = "OR" <=> Char(Body(c)) = "|"
       /\ c.comb = "AND" <=> Char(Body(c)) = "&"
       /\ c.comb = "CUSTOM" => Char(Body(c)) = "?" /\ \E k \in Body(c) .. c.to : Char(k) = ":"
       /\ c.type # "PrintString" => (c.invert <=> Cardinality(MarksOf(c)) % 2 = 1)

(***************************************************************************)
(* The arguments of an accepted command are parts of its own text, one     *)
(* behind the other, and each is whole: brackets that are opened are       *)
(* closed, it holds no mark that separates arguments, and no digit next to *)
(* it is left out of it.  In a string to print, and before the brackets of *)
(* eval, digits are no part of an argument.                                *)
(***************************************************************************)
ArgumentsWhole ==
  Accepted => \A n \in DOMAIN cmds : \A k \in DOMAIN cmds[n].args :
    LET c == cmds[n]
        a == c.args[k]
    IN /\ Body(c) <= a[1] /\ a[2] < c.to
       /\ k > 1 => c.args[k - 1][2] < a[1]
       /\ Char(a[1]) = "(" => Char(a[2]) = ")"
       /\ Char(a[1]) # "(" => \A i \in a[1] .. a[2] : Char(i) \notin {"=", Comma, "?"}
       /\ c.type \notin {"PrintString", "QueryRPNEval"} =>
            /\ a[1] > c.from /\ a[1] <= a[2] => Char(a[1] - 1) \notin Digits
            /\ Char(a[2] + 1) \notin Digits

\* The text is consumed: every call moves token_i on, behind a command, a
\* separator or a mistake.
TextConsumed == <>Done
===============================================================================
