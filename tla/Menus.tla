--------------------------------- MODULE Menus ---------------------------------
(* The menus of the player (main, keypress_loop and the prompts of run_program *)
(* and parse_file): global key grabs on the X server, a queue of its events    *)
(* that outlives every loop that reads it, Escape that switches the keybinds   *)
(* off and on in a menu and stops the macro in a run, and what the menus own.  *)
(* A press arrives at any time.  Which directory and file the build menu is at *)
(* is left to MenuPath, the run to RunProgram and MacroThreads, what is read   *)
(* from stdin is chosen.                                                       *)
EXTENDS Naturals, Sequences, FiniteSets

CONSTANT MaxQueue     \* events that wait in the queue: a bound of the model

ASSUME MaxQueueAssumption == MaxQueue \in Nat \ {0}

VARIABLES grabs,        \* the keys grabbed from the X server
          queue,        \* its events that the player has not read
          escape_held,  \* Escape is down and was grabbed when it was pressed
          disabled,     \* _KeybindDisable
          at,           \* where main is
          loop,         \* the keypress_loop it is in, or was in last
          keep_looping,
          menu_state,
          flags,        \* the boolean variables of main that are true
          vl,           \* the variables of the RPN menu
          file_name,    \* file_name_str
          default_file, \* whether LAST_FILE_F exists
          chosen        \* history: the loops whose last key was the one that runs a macro

vars == <<grabs, queue, escape_held, disabled, at, loop, keep_looping, menu_state,
          flags, vl, file_name, default_file, chosen>>

-----------------------------------------------------------------------------
(* The callbacks of every loop.                                               *)

\* A callback edits a flag, sets the menu state, or does neither; it ends its
\* loop unless it is test_mouse_func.
Callback(does, what, ends) == [does |-> does, what |-> what, ends |-> ends]
input_state_func(v) == Callback("state", v, TRUE)
SetFlag(flag)   == Callback("set", flag, TRUE)
ClearFlag(flag) == Callback("clear", flag, TRUE)
CallbackEndLoop == Callback("nothing", "", TRUE)
test_mouse_func == Callback("nothing", "", FALSE)

callbacks ==
  [start  |-> [Q |-> input_state_func("Done"), C |-> input_state_func("EditConfig"),
               B |-> input_state_func("BuildFile"), R |-> input_state_func("RunFile"),
               T |-> input_state_func("MouseCoords"), E |-> input_state_func("RpnEvaluatorStart")],
   again  |-> [Q |-> input_state_func("Start"), Y |-> CallbackEndLoop],
   mouse  |-> [T |-> test_mouse_func, Q |-> CallbackEndLoop],
   rpn    |-> [R |-> SetFlag("do_rpn"), A |-> SetFlag("var_menu"), S |-> CallbackEndLoop,
               Q |-> input_state_func("Start"), L |-> SetFlag("list_var")],
   vars   |-> [A |-> SetFlag("add_var"), R |-> SetFlag("remove_var"), Q |-> ClearFlag("var_menu")],
   prompt |-> [S |-> SetFlag("start_program"), Q |-> ClearFlag("start_program")]]

Loops == DOMAIN callbacks
KeysOf(l) == DOMAIN callbacks[l]
Keys == UNION {KeysOf(l) : l \in Loops}
Events == Keys \cup {"Escape", "EscapeUp"}

Init ==
  /\ grabs = {} /\ queue = << >> /\ escape_held = FALSE /\ disabled = FALSE
  /\ at = "switch" /\ loop = "start" /\ keep_looping = FALSE
  /\ menu_state = "Start" /\ flags = {} /\ vl = "none" /\ file_name = "none"
  /\ default_file \in BOOLEAN
  /\ chosen = {}

input == <<queue, escape_held>>
owned == <<vl, file_name, default_file>>

-----------------------------------------------------------------------------
(* The X server and the user.                                                 *)

\* A key comes to the player while it is grabbed, by a menu or by the running
\* macro (KmGrabs), or while Escape, which was grabbed when it went down, holds
\* the whole keyboard.
Press(k) ==
  /\ Len(queue) < MaxQueue
  /\ k \in grabs \ {"Escape"} \/ escape_held \/ at = "listen"
  /\ queue' = Append(queue, k)
  /\ UNCHANGED <<grabs, escape_held, disabled, at, loop, keep_looping, menu_state,
                 flags, owned, chosen>>

PressEscape ==
  /\ Len(queue) < MaxQueue
  /\ ~escape_held /\ "Escape" \in grabs
  /\ queue' = Append(queue, "Escape") /\ escape_held' = TRUE
  /\ UNCHANGED <<grabs, disabled, at, loop, keep_looping, menu_state, flags, owned, chosen>>

ReleaseEscape ==
  /\ Len(queue) < MaxQueue
  /\ escape_held
  /\ queue' = Append(queue, "EscapeUp") /\ escape_held' = FALSE
  /\ UNCHANGED <<grabs, disabled, at, loop, keep_looping, menu_state, flags, owned, chosen>>

-----------------------------------------------------------------------------
(* keypress_loop.  "sleep" is the usleep before each look at the queue.       *)

Enters(l) ==
  /\ at' = "sleep" /\ loop' = l /\ keep_looping' = TRUE
  /\ grabs' = grabs \cup KeysOf(l) \cup {"Escape"}

Wakes ==
  /\ at = "sleep"
  /\ at' = "read"
  /\ UNCHANGED <<grabs, input, disabled, loop, keep_looping, menu_state, flags, owned, chosen>>

\* XPending is 0, or the loop over its events is broken off.
InnerLoopEnds == at' = IF keep_looping THEN "sleep" ELSE "leave"

QueueEmpty ==
  /\ at = "read" /\ queue = << >>
  /\ InnerLoopEnds
  /\ UNCHANGED <<grabs, input, disabled, loop, keep_looping, menu_state, flags, owned, chosen>>

Reads(e) ==
  /\ at = "read" /\ queue # << >>
  /\ e = Head(queue) /\ queue' = Tail(queue)
  /\ UNCHANGED escape_held

\* _GlobalKeybindDisable(d=true): the rest of the queue waits for the next look.
DisableKeybinds ==
  /\ Reads("Escape") /\ ~disabled
  /\ disabled' = TRUE
  /\ grabs' = grabs \ KeysOf(loop)
  /\ InnerLoopEnds
  /\ UNCHANGED <<loop, keep_looping, menu_state, flags, owned, chosen>>

EnableKeybinds ==
  /\ Reads("Escape") /\ disabled
  /\ disabled' = FALSE
  /\ grabs' = grabs \cup KeysOf(loop)
  /\ UNCHANGED <<at, loop, keep_looping, menu_state, flags, owned, chosen>>

\* A mutant of Runs: the last key taken decides whether the loop goes on.
RunsLastDecides(callback) ==
  /\ menu_state' = IF callback.does = "state" THEN callback.what ELSE menu_state
  /\ flags' = CASE callback.does = "set"   -> flags \cup {callback.what}
                [] callback.does = "clear" -> flags \ {callback.what}
                [] OTHER -> flags
  /\ keep_looping' = ~callback.ends

Runs(callback) ==
  /\ menu_state' = IF callback.does = "state" THEN callback.what ELSE menu_state
  /\ flags' = CASE callback.does = "set"   -> flags \cup {callback.what}
                [] callback.does = "clear" -> flags \ {callback.what}
                [] OTHER -> flags
  /\ keep_looping' = (keep_looping /\ ~callback.ends)

\* What the user takes to run a macro.
ToRun == {<<"start", "R">>, <<"prompt", "S">>}

\* The loop goes on with the queue although a callback has ended it.
CallbackKey(k) ==
  /\ Reads(k) /\ ~disabled /\ k \in KeysOf(loop)
  /\ Runs(callbacks[loop][k])
  /\ chosen' = CASE <<loop, k>> \in ToRun -> chosen \cup {loop}
                 [] <<loop, k>> \notin ToRun /\ loop \in {"start", "prompt"} -> chosen \ {loop}
                 [] OTHER -> chosen
  /\ UNCHANGED <<grabs, disabled, at, loop, owned>>

IgnoredEvent(e) ==
  /\ Reads(e) /\ e # "Escape"
  /\ disabled \/ e \notin KeysOf(loop)
  /\ UNCHANGED <<grabs, disabled, at, loop, keep_looping, menu_state, flags, owned, chosen>>

\* A mutant of LeavesLoop: Escape stays grabbed.
LeavesLoopKeepsEscape ==
  /\ at = "leave"
  /\ grabs' = grabs \ KeysOf(loop)
  /\ at' = "after"
  /\ UNCHANGED <<input, disabled, loop, keep_looping, menu_state, flags, owned, chosen>>

LeavesLoop ==
  /\ at = "leave"
  /\ grabs' = grabs \ (KeysOf(loop) \cup {"Escape"})
  /\ at' = "after"
  /\ UNCHANGED <<input, disabled, loop, keep_looping, menu_state, flags, owned, chosen>>

-----------------------------------------------------------------------------
(* main.                                                                      *)

\* A mutant of StartMenu: also_run stays.
StartMenuKeepsRun ==
  /\ at = "switch" /\ menu_state = "Start"
  /\ UNCHANGED flags
  /\ Enters("start")
  /\ UNCHANGED <<input, disabled, menu_state, owned, chosen>>

StartMenu ==
  /\ at = "switch" /\ menu_state = "Start"
  /\ flags' = flags \ {"also_run"}
  /\ Enters("start")
  /\ UNCHANGED <<input, disabled, menu_state, owned, chosen>>

\* Asks for every value of the configuration and writes it.
EditConfig ==
  /\ at = "switch" /\ menu_state = "EditConfig"
  /\ menu_state' = "Start"
  /\ UNCHANGED <<grabs, input, disabled, at, loop, keep_looping, flags, owned, chosen>>

MouseCoords ==
  /\ at = "switch" /\ menu_state = "MouseCoords"
  /\ Enters("mouse")
  /\ UNCHANGED <<input, disabled, menu_state, flags, owned, chosen>>

BuildMenu ==
  /\ at = "switch" /\ menu_state \in {"BuildFile", "RunFile"}
  /\ flags' = IF menu_state = "RunFile" THEN flags \cup {"also_run"} ELSE flags
  /\ file_name' = IF default_file THEN "live" ELSE "none"
  /\ at' = "files"
  /\ UNCHANGED <<grabs, input, disabled, loop, keep_looping, menu_state, vl, default_file, chosen>>

\* MS_RpnEvaluatorStart falls through to MS_RpnEvaluator.
RpnMenu ==
  /\ at = "switch" /\ menu_state \in {"RpnEvaluatorStart", "RpnEvaluator"}
  /\ vl' = IF menu_state = "RpnEvaluatorStart" THEN "live" ELSE vl
  /\ menu_state' = "RpnEvaluator"
  /\ flags' = flags \ {"do_rpn"}
  /\ Enters("rpn")
  /\ UNCHANGED <<input, disabled, file_name, default_file, chosen>>

\* c: back to the start.
CancelFiles ==
  /\ at = "files"
  /\ file_name' = "none"
  /\ menu_state' = "Start" /\ at' = "switch"
  /\ UNCHANGED <<grabs, input, disabled, loop, keep_looping, flags, vl, default_file, chosen>>

\* Enter, and no file to skip to.
NoFile ==
  /\ at = "files" /\ file_name = "none"
  /\ at' = "switch"
  /\ UNCHANGED <<grabs, input, disabled, loop, keep_looping, menu_state, flags, owned, chosen>>

\* opendir fails otherwise than it does for a file or a missing one.
UnexpectedError ==
  /\ at = "files"
  /\ at' = "exited"
  /\ UNCHANGED <<grabs, input, disabled, loop, keep_looping, menu_state, flags, owned, chosen>>

\* parse_file: a text with errors, or one that is only built, is written to
\* the default file next; run_program begins with its prompt, whose answer is
\* not initialized.
OpenFile(accepted) ==
  /\ at = "files"
  /\ file_name' = "none"
  /\ IF accepted /\ "also_run" \in flags
     THEN /\ flags' \in {flags, flags \cup {"start_program"}, flags \ {"start_program"}}
          /\ chosen' = chosen \ {"prompt"}
          /\ Enters("prompt")
     ELSE /\ at' = "built"
          /\ UNCHANGED <<grabs, loop, keep_looping, flags, chosen>>
  /\ UNCHANGED <<input, disabled, menu_state, vl, default_file>>

AfterPrompt ==
  /\ at = "after" /\ loop = "prompt"
  /\ at' = IF "start_program" \in flags THEN "run" ELSE "built"
  /\ UNCHANGED <<grabs, input, disabled, loop, keep_looping, menu_state, flags, owned, chosen>>

\* The listener of the run.
ListenerGrabs ==
  /\ at = "run"
  /\ grabs' = grabs \cup {"Escape"} /\ at' = "listen"
  /\ UNCHANGED <<input, disabled, loop, keep_looping, menu_state, flags, owned, chosen>>

\* Pressing or releasing Escape stops the run and leaves the rest in the queue.
ListenerReads ==
  /\ at = "listen" /\ queue # << >>
  /\ queue' = Tail(queue)
  /\ at' = IF Head(queue) \in {"Escape", "EscapeUp"} THEN "stopped" ELSE "listen"
  /\ UNCHANGED <<grabs, escape_held, disabled, loop, keep_looping, menu_state, flags, owned, chosen>>

MacroEnds ==
  /\ at = "listen"
  /\ at' = "stopped"
  /\ UNCHANGED <<grabs, input, disabled, loop, keep_looping, menu_state, flags, owned, chosen>>

\* The listener lets Escape go before run_program joins it.
ListenerLeaves ==
  /\ at = "stopped"
  /\ grabs' = grabs \ {"Escape"} /\ at' = "built"
  /\ UNCHANGED <<input, disabled, loop, keep_looping, menu_state, flags, owned, chosen>>

\* write_to_default_file may fail.
AskAgain ==
  /\ at = "built"
  /\ default_file' \in {default_file, TRUE}
  /\ Enters("again")
  /\ UNCHANGED <<input, disabled, menu_state, flags, vl, file_name, chosen>>

AfterMenu ==
  /\ at = "after" /\ loop \in {"start", "again", "mouse"}
  /\ menu_state' = IF loop = "mouse" THEN "Start" ELSE menu_state
  /\ at' = "switch"
  /\ UNCHANGED <<grabs, input, disabled, loop, keep_looping, flags, owned, chosen>>

\* Evaluates what is typed, then shows the menu of the variables; after that
\* one, asks for the variable to add and the one to remove.
AfterRpn ==
  /\ at = "after" /\ loop \in {"rpn", "vars"}
  /\ flags' = flags \ {"add_var", "remove_var"}
  /\ at' = "var_menu"
  /\ UNCHANGED <<grabs, input, disabled, loop, keep_looping, menu_state, owned, chosen>>

VarMenu ==
  /\ at = "var_menu" /\ "var_menu" \in flags
  /\ Enters("vars")
  /\ UNCHANGED <<input, disabled, menu_state, flags, owned, chosen>>

\* A mutant of RpnDone: the variables are not freed on the way back.
RpnDoneKeepsVars ==
  /\ at = "var_menu" /\ "var_menu" \notin flags
  /\ flags' = flags \ {"list_var"}
  /\ at' = "switch"
  /\ UNCHANGED <<grabs, input, disabled, loop, keep_looping, menu_state, owned, chosen>>

RpnDone ==
  /\ at = "var_menu" /\ "var_menu" \notin flags
  /\ flags' = flags \ {"list_var"}
  /\ vl' = IF menu_state = "Start" THEN "none" ELSE vl
  /\ at' = "switch"
  /\ UNCHANGED <<grabs, input, disabled, loop, keep_looping, menu_state, file_name,
                 default_file, chosen>>

Quit ==
  /\ at = "switch" /\ menu_state = "Done"
  /\ at' = "exited"
  /\ UNCHANGED <<grabs, input, disabled, loop, keep_looping, menu_state, flags, owned, chosen>>

-----------------------------------------------------------------------------

User == (\E k \in Keys : Press(k)) \/ PressEscape \/ ReleaseEscape

keypress_loop ==
  \/ Wakes \/ QueueEmpty \/ DisableKeybinds \/ EnableKeybinds \/ LeavesLoop
  \/ \E e \in Events : CallbackKey(e) \/ IgnoredEvent(e)

Menu ==
  \/ StartMenu \/ EditConfig \/ MouseCoords \/ BuildMenu \/ RpnMenu \/ CancelFiles \/ NoFile
  \/ UnexpectedError \/ (\E accepted \in BOOLEAN : OpenFile(accepted)) \/ AfterPrompt
  \/ ListenerGrabs \/ ListenerReads \/ MacroEnds \/ ListenerLeaves \/ AskAgain \/ AfterMenu
  \/ AfterRpn \/ VarMenu \/ RpnDone \/ Quit

Next == User \/ keypress_loop \/ Menu

Spec == Init /\ [][Next]_vars

\* Keys come far slower than the loop over the events reads them: it does not
\* find another one for ever.
UserPauses == []<>(at = "read" => queue = << >>)

\* The thread goes on.
FairSpec == Spec /\ WF_vars(keypress_loop) /\ SF_vars(QueueEmpty) /\ UserPauses

-----------------------------------------------------------------------------
(* Properties.                                                                *)

InLoop == at \in {"sleep", "read", "leave"}

\* The player keeps keys from the other windows only while it waits for them:
\* between the menus and at a prompt of stdin nothing is grabbed, in a run
\* Escape alone beside what the macro grabs; in a menu Escape always is, so
\* that disabled keybinds can be enabled again, and so are all of its keys
\* while they are enabled, whichever menu Escape was pressed in
\* (key_down_check.c:50).
GrabsMatch ==
  /\ InLoop => /\ "Escape" \in grabs /\ grabs \subseteq KeysOf(loop) \cup {"Escape"}
               /\ ~disabled => KeysOf(loop) \subseteq grabs
  /\ at \in {"listen", "stopped"} => grabs = {"Escape"}
  /\ ~InLoop /\ at \notin {"listen", "stopped"} => grabs = {}

\* The variables of the RPN menu live exactly while it can use them, and
\* the name of the file exactly while the build menu asks, whichever keys are
\* taken in one look at the queue (main.c:427, main.c:204).
InRpn == \/ InLoop /\ loop \in {"rpn", "vars"}
         \/ at = "after" /\ loop \in {"rpn", "vars"}
         \/ at = "var_menu"
         \/ at = "switch" /\ menu_state = "RpnEvaluator"

OwnedWhileUsed ==
  /\ vl = "live" <=> InRpn
  /\ file_name = "live" => at \in {"files", "exited"}

\* A macro runs only if the last key that the start menu took was r and the
\* last that the prompt took was s, also when it is built again with y and
\* when other keys were taken in the same look (main.c:93, main.c:677).
RunWasChosen ==
  at \in {"run", "listen", "stopped"} => chosen = {"start", "prompt"}

\* A key that ends its menu and is next in the queue of enabled keybinds does
\* end it, whatever else is pressed then (key_down_check.c:84-103).
Ending == InLoop /\ ~disabled /\ queue # << >> /\ Head(queue) \in KeysOf(loop)
            /\ callbacks[loop][Head(queue)].ends

EndingKeyEnds == Ending ~> at = "leave"

\* "Removes keybinds except for escape key" (key_down_check.c:49): while the
\* keybinds are disabled the keys of the menu are left to the other windows.
DisabledKeysAreFree == InLoop /\ disabled => grabs = {"Escape"}
=============================================================================
