-------------------------------- MODULE KmGrabs --------------------------------
(***************************************************************************)
(* km_grabs_t (key_down_check.c): the keys and mouse buttons a macro has   *)
(* grabbed, together with the passive grabs the X server keeps for them.   *)
(* Pure operators from one such record to the next.                        *)
(***************************************************************************)
EXTENDS Integers, Sequences

CONSTANTS Keys,      \* keystroke_t: records with keysym, modifier and the keycode X maps keysym to
          NumButtons \* how many mouse buttons the code has array entries for: 5

ASSUME NumButtonsAssumption == NumButtons \in Nat

Buttons == 1 .. NumButtons

\* What XGrabKey and XUngrabKey name; two keysyms may share it.
Passive(k) == <<k.keycode, k.modifier>>

Passives == {Passive(k) : k \in Keys}

(***************************************************************************)
(*   ks_pressed   the keys of ks_arr whose entry is true (a key occurs at  *)
(*                most once in ks_arr)                                     *)
(*   ks_alloc     what the pointer ks_pressed points to                    *)
(*   x_keys, x_buttons   passive grabs on the root window                  *)
(***************************************************************************)
Grabs ==
  [ks_arr : Seq(Keys), ks_pressed : SUBSET Keys, ks_alloc : {"null", "live", "freed"},
   b_grab_exist : SUBSET Buttons, b_pressed : SUBSET Buttons,
   x_keys : SUBSET Passives, x_buttons : SUBSET Buttons]

km_grabs_new ==
  [ks_arr |-> <<>>, ks_pressed |-> {}, ks_alloc |-> "null",
   b_grab_exist |-> {}, b_pressed |-> {}, x_keys |-> {}, x_buttons |-> {}]

Listed(g) == {g.ks_arr[i] : i \in 1 .. Len(g.ks_arr)}

-------------------------------------------------------------------------------
(* Keys *)

\* The entry the listener looks at for a waiting main thread.
LastKey(g) == g.ks_arr[Len(g.ks_arr)]

\* ks_pressed is reallocated, whatever it points to.
KAddAborts(g, k) == k \notin Listed(g) /\ g.ks_alloc = "freed"

KAdded(g, k) ==
  IF k \in Listed(g) THEN g
  ELSE [g EXCEPT !.ks_arr = Append(@, k),
                 !.ks_alloc = "live",
                 !.x_keys = @ \union {Passive(k)}]

\* The last entry takes the place of the removed one.
KRemoved(g, k) ==
  LET n == Len(g.ks_arr) IN
  IF k \notin Listed(g) THEN g
  ELSE [g EXCEPT !.ks_arr = [i \in 1 .. n - 1 |-> IF @[i] = k THEN @[n] ELSE @[i]],
                 !.ks_pressed = @ \ {k},
                 !.ks_alloc = IF n = 1 THEN "null" ELSE @,
                 !.x_keys = @ \ {Passive(k)}]

\* free(ks_pressed) on memory that was freed before.
FreeAborts(g) == g.ks_alloc = "freed"

\* Only ks_arr is set to NULL.
KRemovedAll(g) ==
  [g EXCEPT !.ks_arr = <<>>,
            !.ks_pressed = {},
            !.ks_alloc = IF @ = "null" THEN "null" ELSE "freed",
            !.x_keys = @ \ {Passive(k) : k \in Listed(g)}]

KToggled(g, toggle) ==
  LET passives == {Passive(k) : k \in Listed(g)} IN
  [g EXCEPT !.x_keys = IF toggle THEN @ \union passives ELSE @ \ passives]

\* A mutant of KSeen: entries with other modifiers are left alone.
KSeenOnlyMatching(g, keycode, state, press) ==
  LET hit == {k \in Listed(g) : k.keycode = keycode /\ k.modifier = state} IN
  [g EXCEPT !.ks_pressed = IF press THEN @ \union hit ELSE @ \ hit]

\* A key event: entries of other keys with the keycode are false.
KSeen(g, keycode, state, press) ==
  LET hit == {k \in Listed(g) : k.keycode = keycode} IN
  [g EXCEPT !.ks_pressed =
     (@ \ hit) \union {k \in hit : k.modifier = state /\ press}]

-------------------------------------------------------------------------------
(* Buttons *)

\* The buttons a grab of b covers: 0 is AnyButton.
Covered(b) == IF b = 0 THEN Buttons ELSE {b}

BAdded(g, b, held_down) ==
  [g EXCEPT !.b_grab_exist = @ \union {b},
            !.b_pressed = IF held_down THEN @ ELSE @ \ {b},
            !.x_buttons = @ \union {b}]

BRemoved(g, b) ==
  [g EXCEPT !.b_grab_exist = @ \ {b}, !.x_buttons = @ \ {b}]

BRemovedAll(g) == [g EXCEPT !.b_grab_exist = {}, !.x_buttons = {}]

\* The loop passes its array index, one below the number of the button.
BToggled(g, toggle) ==
  LET buttons == UNION {Covered(b - 1) : b \in g.b_grab_exist} IN
  [g EXCEPT !.x_buttons = IF toggle THEN @ \union buttons ELSE @ \ buttons]

\* A mutant of BSeen: a release is read as a press.
BSeenAsPress(g, b, press) == [g EXCEPT !.b_pressed = @ \union {b}]

\* km_grabs_set_bpressed
BSeen(g, b, press) ==
  [g EXCEPT !.b_pressed = IF press THEN @ \union {b} ELSE @ \ {b}]

\* km_grabs_free: what it leaves on the X server.
Freed(g) ==
  [km_grabs_new EXCEPT !.x_keys = g.x_keys \ {Passive(k) : k \in Listed(g)}]
===============================================================================
