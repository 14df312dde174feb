----------------------------- MODULE MenusProofs -----------------------------
(* Proofs about the menus, for queues of any length.                          *)
EXTENDS Menus, TLAPS

-----------------------------------------------------------------------------
(* The tables of callbacks.                                                   *)

LEMMA LoopNames == Loops = {"start", "again", "mouse", "rpn", "vars", "prompt"}
  BY DEF Loops, callbacks

LEMMA LoopKeys ==
  /\ KeysOf("start") = {"Q", "C", "B", "R", "T", "E"}
  /\ KeysOf("again") = {"Q", "Y"}
  /\ KeysOf("mouse") = {"T", "Q"}
  /\ KeysOf("rpn") = {"R", "A", "S", "Q", "L"}
  /\ KeysOf("vars") = {"A", "R", "Q"}
  /\ KeysOf("prompt") = {"S", "Q"}
  BY DEF KeysOf, callbacks

LEMMA EscapeIsNoKey == \A l \in Loops : "Escape" \notin KeysOf(l)
  BY LoopNames, LoopKeys

LEMMA CallbackFields ==
  /\ \A v : input_state_func(v).does = "state" /\ input_state_func(v).what = v
  /\ \A flag : SetFlag(flag).does = "set" /\ SetFlag(flag).what = flag
  /\ \A flag : ClearFlag(flag).does = "clear" /\ ClearFlag(flag).what = flag
  /\ CallbackEndLoop.does = "nothing" /\ test_mouse_func.does = "nothing"
  BY DEF input_state_func, SetFlag, ClearFlag, CallbackEndLoop, test_mouse_func, Callback

LEMMA StartCallbacks ==
  \A k \in KeysOf("start") :
    /\ callbacks["start"][k].does = "state"
    /\ callbacks["start"][k].what # "RpnEvaluator"
    /\ callbacks["start"][k].what = "RunFile" => k = "R"
<1>1. /\ callbacks["start"]["Q"] = input_state_func("Done")
      /\ callbacks["start"]["C"] = input_state_func("EditConfig")
      /\ callbacks["start"]["B"] = input_state_func("BuildFile")
      /\ callbacks["start"]["R"] = input_state_func("RunFile")
      /\ callbacks["start"]["T"] = input_state_func("MouseCoords")
      /\ callbacks["start"]["E"] = input_state_func("RpnEvaluatorStart")
  BY DEF callbacks
<1>. QED  BY <1>1, CallbackFields, LoopKeys

LEMMA AgainCallbacks ==
  \A k \in KeysOf("again") :
    \/ callbacks["again"][k].does = "nothing"
    \/ callbacks["again"][k].does = "state" /\ callbacks["again"][k].what = "Start"
<1>1. /\ callbacks["again"]["Q"] = input_state_func("Start")
      /\ callbacks["again"]["Y"] = CallbackEndLoop
  BY DEF callbacks
<1>. QED  BY <1>1, CallbackFields, LoopKeys

LEMMA MouseCallbacks ==
  \A k \in KeysOf("mouse") : callbacks["mouse"][k].does = "nothing"
<1>1. /\ callbacks["mouse"]["T"] = test_mouse_func
      /\ callbacks["mouse"]["Q"] = CallbackEndLoop
  BY DEF callbacks
<1>. QED  BY <1>1, CallbackFields, LoopKeys

LEMMA RpnCallbacks ==
  \A k \in KeysOf("rpn") :
    \/ callbacks["rpn"][k].does = "nothing"
    \/ callbacks["rpn"][k].does = "state" /\ callbacks["rpn"][k].what = "Start"
    \/ callbacks["rpn"][k].does = "set" /\ callbacks["rpn"][k].what # "also_run"
<1>1. /\ callbacks["rpn"]["R"] = SetFlag("do_rpn")
      /\ callbacks["rpn"]["A"] = SetFlag("var_menu")
      /\ callbacks["rpn"]["S"] = CallbackEndLoop
      /\ callbacks["rpn"]["Q"] = input_state_func("Start")
      /\ callbacks["rpn"]["L"] = SetFlag("list_var")
  BY DEF callbacks
<1>. QED  BY <1>1, CallbackFields, LoopKeys

LEMMA VarsCallbacks ==
  \A k \in KeysOf("vars") :
    \/ callbacks["vars"][k].does = "set" /\ callbacks["vars"][k].what # "also_run"
    \/ callbacks["vars"][k].does = "clear"
<1>1. /\ callbacks["vars"]["A"] = SetFlag("add_var")
      /\ callbacks["vars"]["R"] = SetFlag("remove_var")
      /\ callbacks["vars"]["Q"] = ClearFlag("var_menu")
  BY DEF callbacks
<1>. QED  BY <1>1, CallbackFields, LoopKeys

LEMMA PromptCallbacks ==
  \A k \in KeysOf("prompt") :
    /\ \/ k = "S" /\ callbacks["prompt"][k].does = "set"
       \/ k = "Q" /\ callbacks["prompt"][k].does = "clear"
    /\ callbacks["prompt"][k].what = "start_program"
<1>1. /\ callbacks["prompt"]["S"] = SetFlag("start_program")
      /\ callbacks["prompt"]["Q"] = ClearFlag("start_program")
  BY DEF callbacks
<1>. QED  BY <1>1, CallbackFields, LoopKeys

-----------------------------------------------------------------------------
(* The inductive invariant.                                                   *)

In(loops) == loop \in loops /\ (InLoop \/ at = "after")

\* What a variable may hold, and where main is with which menu state.
WhereInv ==
  /\ loop \in Loops
  /\ vl \in {"none", "live"} /\ file_name \in {"none", "live"}
  /\ at \in {"leave", "after"} => ~keep_looping
  /\ at \in {"files", "run", "listen", "stopped", "built"}
       => menu_state \in {"BuildFile", "RunFile"}
  /\ In({"rpn", "vars"}) \/ at = "var_menu" => menu_state \in {"RpnEvaluator", "Start"}
  /\ menu_state = "RpnEvaluator" => InRpn

\* What stands between the keys that were taken and the run.
ChoiceInv ==
  /\ chosen \subseteq {"start", "prompt"}
  /\ menu_state = "RunFile" => "start" \in chosen
  /\ "also_run" \in flags => menu_state \in {"RunFile", "Start"} /\ ~In({"start"})
  /\ In({"prompt"}) => /\ menu_state = "RunFile"
                       /\ keep_looping \/ ("start_program" \in flags => "prompt" \in chosen)

IInv == WhereInv /\ ChoiceInv /\ GrabsMatch /\ OwnedWhileUsed /\ RunWasChosen

LEMMA Initially == Init => IInv
  BY LoopNames DEF Init, IInv, WhereInv, ChoiceInv, GrabsMatch, OwnedWhileUsed, RunWasChosen,
                   In, InLoop, InRpn

\* The invariant does not mention the queue.
LEMMA UserKeeps == IInv /\ (User \/ UNCHANGED vars) => IInv'
<1>. SUFFICES ASSUME IInv, User \/ UNCHANGED vars PROVE IInv'
  OBVIOUS
<1>1. UNCHANGED <<grabs, disabled, at, loop, keep_looping, menu_state, flags, vl, file_name, chosen>>
  BY DEF User, Press, PressEscape, ReleaseEscape, vars, owned
<1>. QED  BY <1>1 DEF IInv, WhereInv, ChoiceInv, GrabsMatch, OwnedWhileUsed, RunWasChosen,
                       In, InLoop, InRpn

\* A key that is taken: what its callback may do in each loop.
LEMMA CallbackKeeps ==
  ASSUME IInv, NEW k, CallbackKey(k) PROVE IInv'
<1>. DEFINE callback == callbacks[loop][k]
<1>. USE DEF CallbackKey, Reads, Runs
<1>1. /\ loop \in Loops /\ k \in KeysOf(loop) /\ loop' = loop
      /\ at = "read" /\ at' = "read"
      /\ UNCHANGED <<grabs, disabled, vl, file_name>>
  BY DEF IInv, WhereInv, owned
<1>2. /\ callback.does = "state" => menu_state' = callback.what /\ flags' = flags
      /\ callback.does = "set" => menu_state' = menu_state /\ flags' = flags \cup {callback.what}
      /\ callback.does = "clear" => menu_state' = menu_state /\ flags' = flags \ {callback.what}
      /\ callback.does = "nothing" => menu_state' = menu_state /\ flags' = flags
  OBVIOUS
<1>3. keep_looping' => keep_looping
  OBVIOUS
<1>. HIDE DEF callback, CallbackKey, Reads, Runs
<1>. USE DEF In, InLoop, InRpn
<1>4. CASE loop = "start"
  <2>1. /\ callback.does = "state" /\ callback.what # "RpnEvaluator"
        /\ callback.what = "RunFile" => k = "R"
    BY <1>1, <1>4, StartCallbacks DEF callback
  <2>2. chosen' = IF k = "R" THEN chosen \cup {"start"} ELSE chosen \ {"start"}
    BY <1>4 DEF CallbackKey, ToRun
  <2>. QED  BY <1>1, <1>2, <1>3, <1>4, <2>1, <2>2
            DEF IInv, WhereInv, ChoiceInv, GrabsMatch, OwnedWhileUsed, RunWasChosen
<1>5. CASE loop = "prompt"
  <2>1. /\ \/ k = "S" /\ callback.does = "set"
           \/ k = "Q" /\ callback.does = "clear"
        /\ callback.what = "start_program"
    BY <1>1, <1>5, PromptCallbacks DEF callback
  <2>2. chosen' = IF k = "S" THEN chosen \cup {"prompt"} ELSE chosen \ {"prompt"}
    BY <1>5 DEF CallbackKey, ToRun
  <2>. QED  BY <1>1, <1>2, <1>3, <1>5, <2>1, <2>2
            DEF IInv, WhereInv, ChoiceInv, GrabsMatch, OwnedWhileUsed, RunWasChosen
<1>6. CASE loop \in {"again", "mouse", "rpn", "vars"}
  <2>1. /\ callback.does \in {"nothing", "state", "set", "clear"}
        /\ callback.does = "state" => callback.what = "Start" /\ loop \in {"again", "rpn"}
        /\ callback.does = "set" => callback.what # "also_run"
    BY <1>1, <1>6, AgainCallbacks, MouseCallbacks, RpnCallbacks, VarsCallbacks DEF callback
  <2>2. chosen' = chosen
    BY <1>6 DEF CallbackKey, ToRun
  <2>. QED  BY <1>1, <1>2, <1>3, <1>6, <2>1, <2>2
            DEF IInv, WhereInv, ChoiceInv, GrabsMatch, OwnedWhileUsed, RunWasChosen
<1>. QED  BY <1>1, <1>4, <1>5, <1>6, LoopNames

\* keypress_loop keeps it.
LEMMA LoopKeeps == IInv /\ keypress_loop => IInv'
<1>. SUFFICES ASSUME IInv, keypress_loop PROVE IInv'
  OBVIOUS
<1>. USE DEF IInv, WhereInv, ChoiceInv, GrabsMatch, OwnedWhileUsed, RunWasChosen,
             In, InLoop, InRpn, owned, input, InnerLoopEnds, Reads
<1>1. CASE Wakes
  BY <1>1 DEF Wakes
<1>2. CASE QueueEmpty
  BY <1>2 DEF QueueEmpty
<1>3. CASE DisableKeybinds
  BY <1>3, EscapeIsNoKey DEF DisableKeybinds
<1>4. CASE EnableKeybinds
  BY <1>4 DEF EnableKeybinds
<1>5. CASE LeavesLoop
  BY <1>5 DEF LeavesLoop
<1>6. ASSUME NEW e \in Events, IgnoredEvent(e) PROVE IInv'
  BY <1>6 DEF IgnoredEvent
<1>7. ASSUME NEW k \in Events, CallbackKey(k) PROVE IInv'
  BY <1>7, CallbackKeeps
<1>. QED  BY <1>1, <1>2, <1>3, <1>4, <1>5, <1>6, <1>7 DEF keypress_loop

-----------------------------------------------------------------------------
(* main keeps it.                                                             *)

LEMMA MenuKeeps == IInv /\ Menu => IInv'
<1>. SUFFICES ASSUME IInv, Menu PROVE IInv'
  OBVIOUS
<1>. USE DEF IInv, WhereInv, ChoiceInv, GrabsMatch, OwnedWhileUsed, RunWasChosen,
             In, InLoop, InRpn, owned, input, Enters
<1>1. CASE StartMenu
  BY <1>1, LoopNames DEF StartMenu
<1>2. CASE EditConfig
  BY <1>2 DEF EditConfig
<1>3. CASE MouseCoords
  BY <1>3, LoopNames DEF MouseCoords
<1>4. CASE BuildMenu
  BY <1>4 DEF BuildMenu
<1>5. CASE RpnMenu
  BY <1>5, LoopNames DEF RpnMenu
<1>6. CASE CancelFiles
  BY <1>6 DEF CancelFiles
<1>7. CASE NoFile
  BY <1>7 DEF NoFile
<1>8. CASE UnexpectedError
  BY <1>8 DEF UnexpectedError
<1>9. ASSUME NEW accepted \in BOOLEAN, OpenFile(accepted) PROVE IInv'
  <2>1. /\ at = "files" /\ grabs = {} /\ menu_state \in {"BuildFile", "RunFile"}
        /\ file_name' = "none" /\ vl = "none"
        /\ UNCHANGED <<menu_state, vl, disabled>>
    BY <1>9 DEF OpenFile
  <2>2. CASE accepted /\ "also_run" \in flags
    <3>1. /\ at' = "sleep" /\ loop' = "prompt" /\ keep_looping'
          /\ grabs' = KeysOf("prompt") \cup {"Escape"}
          /\ chosen' = chosen \ {"prompt"}
      BY <1>9, <2>1, <2>2 DEF OpenFile
    <3>2. menu_state = "RunFile" /\ "start" \in chosen
      BY <2>1, <2>2
    <3>. QED  BY <2>1, <3>1, <3>2, LoopNames
  <2>3. CASE ~(accepted /\ "also_run" \in flags)
    <3>1. at' = "built" /\ UNCHANGED <<grabs, loop, keep_looping, flags, chosen>>
      BY <1>9, <2>3 DEF OpenFile
    <3>. QED  BY <2>1, <3>1
  <2>. QED  BY <2>2, <2>3
<1>10. CASE AfterPrompt
  BY <1>10 DEF AfterPrompt
<1>11. CASE ListenerGrabs
  BY <1>11 DEF ListenerGrabs
<1>12. CASE ListenerReads
  BY <1>12 DEF ListenerReads
<1>13. CASE MacroEnds
  BY <1>13 DEF MacroEnds
<1>14. CASE ListenerLeaves
  BY <1>14 DEF ListenerLeaves
<1>15. CASE AskAgain
  BY <1>15, LoopNames DEF AskAgain
<1>16. CASE AfterMenu
  BY <1>16 DEF AfterMenu
<1>17. CASE AfterRpn
  BY <1>17 DEF AfterRpn
<1>18. CASE VarMenu
  BY <1>18, LoopNames DEF VarMenu
<1>19. CASE RpnDone
  BY <1>19 DEF RpnDone
<1>20. CASE Quit
  BY <1>20 DEF Quit
<1>. QED  BY <1>1, <1>2, <1>3, <1>4, <1>5, <1>6, <1>7, <1>8, <1>9, <1>10, <1>11, <1>12, <1>13, <1>14, <1>15, <1>16, <1>17, <1>18, <1>19, <1>20 DEF Menu

LEMMA Inductive == IInv /\ [Next]_vars => IInv'
  BY UserKeeps, LoopKeeps, MenuKeeps DEF Next

\* The inductive invariant holds in every state of every behaviour of the menus.
THEOREM Invariance == Spec => []IInv
  BY Initially, Inductive, PTL DEF Spec

\* With events in the queue without bound, keys are kept from other windows only
\* by the menu that waits for them, Escape always is among them there, and
\* nothing stays grabbed between the menus (the grabs of keypress_loop).
THEOREM GrabsMatchHolds == Spec => []GrabsMatch
<1>1. IInv => GrabsMatch
  BY DEF IInv
<1>. QED  BY Invariance, <1>1, PTL

\* Whatever keys are taken in one look, VL_free and free in main are called for
\* what the next menu does not use, and are not forgotten.
THEOREM OwnedWhileUsedHolds == Spec => []OwnedWhileUsed
<1>1. IInv => OwnedWhileUsed
  BY DEF IInv
<1>. QED  BY Invariance, <1>1, PTL

\* No queue of keys, however it is divided into looks, runs a macro that the
\* start menu and the prompt of run_program were not told last to run.
THEOREM RunWasChosenHolds == Spec => []RunWasChosen
<1>1. IInv => RunWasChosen
  BY DEF IInv
<1>. QED  BY Invariance, <1>1, PTL
=============================================================================
