--------------------------- MODULE MCMacroThreads ---------------------------
(***************************************************************************)
(* Small instances of MacroThreads: one or two keycodes, with and without  *)
(* modifier, no, one or two buttons, keystrokes of one key.                *)
(***************************************************************************)
EXTENDS MacroThreads

Keystroke(keysym, modifier, keycode) ==
  [keysym |-> keysym, modifier |-> modifier, keycode |-> keycode]

\* "Ctrl+a" and "Control_L"
TwoKeys        == {Keystroke(97, 4, 1), Keystroke(65507, 0, 2)}
\* "a" and "A": two keysyms of one keycode
AliasedKeys    == {Keystroke(97, 0, 1), Keystroke(65, 0, 1)}
OneKey         == {Keystroke(97, 0, 1)}

MCKeyCodes == [s \in {"a"} |-> {1}]
NoKeyCodes == [s \in {} |-> {}]

KeyScript == {"KeyStroke", "GrabKey", "UngrabKey", "UngrabKeyAll", "WaitUntilKey", "Exit"}
ButtonScript ==
  {"MouseClick", "GrabButton", "UngrabButton", "UngrabButtonAll", "WaitUntilButton", "Exit"}
InputScript == KeyScript \union ButtonScript
WaitScript == {"GrabKey", "WaitUntilKey", "WaitUntilButton", "Exit"}
OwnScript == {"GrabKey", "GrabButton", "KeyStroke", "MouseClick"}
OthersScript == {"GrabKey", "UngrabKeyAll", "GrabButton", "MouseClick", "WaitUntilButton"}
AliasScript == {"GrabKey", "WaitUntilKey", "UngrabKeyAll"}

\* What is held, to be sent, taken for pressed or on its way, but for Escape.
UsedInputs ==
  {input \in down \union held \union told \union sending.press \union sending.release
     \union {queue[i].input : i \in 1 .. Len(queue)} : input # Escape}

\* A bound on the states: the macro and the user deal with keys or with buttons,
\* and those with no modifier.  Nothing of the one is shared with the other.
KeysOrButtons ==
  \/ /\ \A input \in UsedInputs : ~IsButton(input)
     /\ grabs.b_grab_exist = {} /\ grabs.b_pressed = {} /\ grabs.x_buttons = {}
     /\ ~wait.wait_for_button /\ wait.wait_button = 1
  \/ /\ \A input \in UsedInputs : IsButton(input)
     /\ grabs.ks_alloc = "null" /\ kdc = {}
     /\ \A i \in 1 .. Len(queue) : queue[i].state = 0
=============================================================================
