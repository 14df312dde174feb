-------------------------- MODULE MacroThreadsProofs --------------------------
(* Proofs about the two threads of a run and the grabs they share, for any     *)
(* keys, strings, buttons and scripts.                                         *)
EXTENDS MacroThreads, TLAPS

-----------------------------------------------------------------------------
(* The inductive invariant.                                                   *)

\* ks_arr lists no key twice, and only listed keys are pressed or grabbed.
GrabsOK(g) ==
  /\ g \in Grabs
  /\ \A i, j \in 1 .. Len(g.ks_arr) : g.ks_arr[i] = g.ks_arr[j] => i = j
  /\ g.ks_pressed \subseteq Listed(g)
  /\ g.x_keys \subseteq {Passive(k) : k \in Listed(g)}

\* The listener has the mutex while it reads events, and Escape is grabbed while
\* it is in its loop; the main thread outlives it, and has the mutex while it sends.
ThreadsOK ==
  /\ (mutex <=> listener \in {"drain", "check"})
  /\ (escape_grab <=> listener \notin {"start", "exited"})
  /\ main \in Sending => ~mutex
  /\ main \notin Sending => sending = NoInput
  /\ main = "keys" =>
       /\ grabs.x_keys = {}
       /\ \A input \in sending.press \union sending.release : ~IsButton(input)
  /\ main = "ended" =>
       /\ listener = "exited" /\ grabs.x_keys = {} /\ grabs.x_buttons = {}
       /\ key_grab \subseteq down /\ \A input \in held : IsButton(input)

\* A waiting main thread waits for a key or for a button; no other one waits.
WaitOK ==
  /\ main \in {"wait", "woken"} =>
       wait.do_wait_cond /\ (wait.wait_for_key <=> ~wait.wait_for_button)
  /\ main \notin {"wait", "woken"} => ~wait.wait_for_key /\ ~wait.wait_for_button
  /\ wait.wait_for_key => Len(grabs.ks_arr) > 0 /\ wait.operand = {LastKey(grabs)}
  /\ wait.wait_for_button => wait.wait_button \in Buttons

\* key_down_check_t knows the strings of all keys that are held or will be, but for
\* those that are to be released.
HeldOK ==
  \A input \in held \union sending.press :
    \/ IsButton(input)
    \/ input \in {"key"} \X UNION {KeyCodes[s] : s \in kdc}
    \/ input \in sending.release

\* The key that activated the keyboard grab is down, and the pointer grab is active
\* as long as a button is down whose press was queued.
ServerOK ==
  /\ key_grab \subseteq Down
  /\ \A input \in told : IsButton(input) => input \in Down /\ button_grab

\* A later event of the input is in the queue.
FollowedUp(i) == \E j \in i + 1 .. Len(queue) : queue[j].input = queue[i].input

\* The player was told last of a press that no other event follows.
QueueOK ==
  \A i \in 1 .. Len(queue) :
    queue[i].press => queue[i].input \in told \/ FollowedUp(i)

Inv ==
  TypeOK /\ GrabsOK(grabs) /\ ThreadsOK /\ WaitOK /\ HeldOK /\ ServerOK

-----------------------------------------------------------------------------
(* The operators of KmGrabs keep GrabsOK.                                     *)

\* What km_grabs_new returns is a well-formed, empty km_grabs_t.
LEMMA NewOK == GrabsOK(km_grabs_new) /\ Listed(km_grabs_new) = {}
  BY DEF GrabsOK, Grabs, km_grabs_new, Listed, Passives, Buttons

\* km_grabs_kadd lists the key, last if it was not listed before.
LEMMA AddedOK ==
  ASSUME NEW g, GrabsOK(g), NEW k \in Keys
  PROVE  /\ GrabsOK(KAdded(g, k))
         /\ Listed(KAdded(g, k)) = Listed(g) \union {k}
         /\ k \notin Listed(g) => LastKey(KAdded(g, k)) = k /\ Len(KAdded(g, k).ks_arr) > 0
<1>1. CASE k \in Listed(g)
  BY <1>1 DEF KAdded
<1>2. CASE k \notin Listed(g)
  <2> DEFINE h    == KAdded(g, k)
             arr  == Append(g.ks_arr, k)
             keys == g.x_keys \union {Passive(k)}
  <2>1. /\ g.ks_arr \in Seq(Keys)
        /\ h = [g EXCEPT !.ks_arr = arr, !.ks_alloc = "live", !.x_keys = keys]
        /\ arr \in Seq(Keys) /\ keys \subseteq Passives
    BY <1>2 DEF KAdded, GrabsOK, Grabs, Passives
  <2> HIDE DEF h, arr, keys
  <2>2. h \in Grabs /\ h.ks_arr = arr /\ h.ks_pressed = g.ks_pressed /\ h.x_keys = keys
    BY <2>1 DEF GrabsOK, Grabs
  <2> USE DEF arr, keys
  <2>3. Listed(h) = Listed(g) \union {k}
    BY <2>1, <2>2 DEF Listed
  <2>4. \A i, j \in 1 .. Len(h.ks_arr) : h.ks_arr[i] = h.ks_arr[j] => i = j
    BY <1>2, <2>1, <2>2 DEF GrabsOK, Listed
  <2>5. LastKey(h) = k /\ Len(h.ks_arr) > 0
    BY <2>1, <2>2 DEF LastKey
  <2>. QED  BY <2>2, <2>3, <2>4, <2>5 DEF GrabsOK, h
<1>. QED  BY <1>1, <1>2

\* km_grabs_kremove_last drops the key alone.
LEMMA RemovedOK ==
  ASSUME NEW g, GrabsOK(g), NEW k \in Keys
  PROVE  GrabsOK(KRemoved(g, k)) /\ Listed(KRemoved(g, k)) = Listed(g) \ {k}
<1>1. CASE k \notin Listed(g)
  BY <1>1 DEF KRemoved
<1>2. CASE k \in Listed(g)
  <2> DEFINE h   == KRemoved(g, k)
             arr == g.ks_arr
             n   == Len(arr)
             new == [i \in 1 .. n - 1 |-> IF arr[i] = k THEN arr[n] ELSE arr[i]]
  <2>1. arr \in Seq(Keys) /\ n \in Nat /\ n > 0
    BY <1>2 DEF GrabsOK, Grabs, Listed
  <2>2. new \in Seq(Keys) /\ Len(new) = n - 1
    BY <2>1
  <2>3. h = [g EXCEPT !.ks_arr = new, !.ks_pressed = g.ks_pressed \ {k},
                      !.ks_alloc = IF n = 1 THEN "null" ELSE g.ks_alloc,
                      !.x_keys = g.x_keys \ {Passive(k)}]
    BY <1>2 DEF KRemoved, GrabsOK, Grabs
  <2> HIDE DEF h, new
  <2>4. h \in Grabs /\ h.ks_arr = new /\ h.ks_pressed = g.ks_pressed \ {k}
        /\ h.x_keys = g.x_keys \ {Passive(k)}
    BY <2>2, <2>3 DEF GrabsOK, Grabs
  <2> USE DEF new
  <2>5. \A i, j \in 1 .. n : arr[i] = arr[j] => i = j
    BY DEF GrabsOK
  <2>6. PICK p \in 1 .. n : arr[p] = k
    BY <1>2 DEF Listed
  <2>7. \A i, j \in 1 .. n - 1 : new[i] = new[j] => i = j
    BY <2>1, <2>5, <2>6
  <2>8. Listed(h) = {new[i] : i \in 1 .. n - 1}
    BY <2>2, <2>4 DEF Listed
  <2>9. ASSUME NEW i \in 1 .. n, arr[i] # k PROVE arr[i] \in {new[j] : j \in 1 .. n - 1}
    <3>1. CASE i < n
      BY <2>1, <2>9, <3>1
    <3>2. CASE i = n
      <4>1. p \in 1 .. n - 1 /\ new[p] = arr[n]
        BY <2>1, <2>6, <2>9, <3>2
      <4>. QED  BY <4>1, <3>2
    <3>. QED  BY <3>1, <3>2, <2>1
  <2>10. ASSUME NEW j \in 1 .. n - 1 PROVE new[j] \in Listed(g) /\ new[j] # k
    BY <2>1, <2>5 DEF Listed
  <2>11. Listed(h) = Listed(g) \ {k}
    BY <2>8, <2>9, <2>10 DEF Listed
  <2>12. h.x_keys \subseteq {Passive(l) : l \in Listed(h)}
    BY <2>4, <2>11 DEF GrabsOK
  <2>13. h.ks_pressed \subseteq Listed(h)
    BY <2>4, <2>11 DEF GrabsOK
  <2>. QED  BY <2>2, <2>4, <2>7, <2>11, <2>12, <2>13 DEF GrabsOK, h
<1>. QED  BY <1>1, <1>2

\* km_grabs_kremove_all leaves no key, and no grab of one.
LEMMA RemovedAllOK ==
  ASSUME NEW g, GrabsOK(g)
  PROVE  GrabsOK(KRemovedAll(g)) /\ Listed(KRemovedAll(g)) = {}
<1> DEFINE h == KRemovedAll(g)
<1>1. g.x_keys \ {Passive(k) : k \in Listed(g)} = {}
  BY DEF GrabsOK
<1>2. h = [g EXCEPT !.ks_arr = <<>>, !.ks_pressed = {},
                    !.ks_alloc = IF g.ks_alloc = "null" THEN "null" ELSE "freed",
                    !.x_keys = {}]
  BY <1>1 DEF KRemovedAll, GrabsOK, Grabs
<1> DEFINE alloc == IF g.ks_alloc = "null" THEN "null" ELSE "freed"
<1>3. <<>> \in Seq(Keys) /\ alloc \in {"null", "live", "freed"} /\ g \in Grabs
  BY DEF GrabsOK
<1> HIDE DEF h, alloc
<1>4. h.ks_arr = <<>> /\ h.ks_pressed = {} /\ h.x_keys = {}
  BY <1>2, <1>3 DEF Grabs
<1>5. h \in Grabs
  BY <1>2, <1>3 DEF Grabs
<1>6. Listed(h) = {}
  BY <1>4 DEF Listed
<1>. QED  BY <1>4, <1>5, <1>6 DEF GrabsOK, h

\* km_grabs_ktoggle lifts all grabs of keys, or makes those of all listed keys.
LEMMA ToggledOK ==
  ASSUME NEW g, GrabsOK(g), NEW toggle \in BOOLEAN
  PROVE  /\ GrabsOK(KToggled(g, toggle))
         /\ Listed(KToggled(g, toggle)) = Listed(g)
         /\ KToggled(g, toggle).ks_arr = g.ks_arr
         /\ KToggled(g, toggle).x_keys
              = IF toggle THEN {Passive(k) : k \in Listed(g)} ELSE {}
<1> DEFINE h == KToggled(g, toggle)
           passives == {Passive(k) : k \in Listed(g)}
<1>1. Listed(g) \subseteq Keys
  BY DEF GrabsOK, Grabs, Listed
<1>2. passives \subseteq Passives /\ g.x_keys \subseteq passives
  BY <1>1 DEF Passives, GrabsOK
<1>3. h = [g EXCEPT !.x_keys = IF toggle THEN g.x_keys \union passives
                               ELSE g.x_keys \ passives]
  BY DEF KToggled, GrabsOK, Grabs
<1>4. h \in Grabs /\ h.ks_arr = g.ks_arr /\ h.ks_pressed = g.ks_pressed
      /\ h.x_keys = IF toggle THEN passives ELSE {}
  BY <1>2, <1>3 DEF GrabsOK, Grabs
<1>5. Listed(h) = Listed(g)
  BY <1>4 DEF Listed
<1>. QED  BY <1>4, <1>5 DEF GrabsOK

\* What the listener reads of a key changes which listed keys are pressed, only.
LEMMA SeenOK ==
  ASSUME NEW g, GrabsOK(g), NEW keycode, NEW state, NEW press
  PROVE  /\ GrabsOK(KSeen(g, keycode, state, press))
         /\ KSeen(g, keycode, state, press).ks_arr = g.ks_arr
         /\ KSeen(g, keycode, state, press).x_keys = g.x_keys
         /\ KSeen(g, keycode, state, press).x_buttons = g.x_buttons
         /\ Listed(KSeen(g, keycode, state, press)) = Listed(g)
<1> DEFINE h == KSeen(g, keycode, state, press)
           hit == {k \in Listed(g) : k.keycode = keycode}
           new == (g.ks_pressed \ hit) \union {k \in hit : k.modifier = state /\ press}
<1>1. Listed(g) \subseteq Keys
  BY DEF GrabsOK, Grabs, Listed
<1>2. h = [g EXCEPT !.ks_pressed = new]
  BY DEF KSeen, GrabsOK, Grabs
<1>3. new \subseteq Listed(g)
  BY DEF GrabsOK
<1> HIDE DEF new, hit
<1>4. h \in Grabs /\ h.ks_pressed = new /\ h.ks_arr = g.ks_arr /\ h.x_keys = g.x_keys
      /\ h.x_buttons = g.x_buttons
  BY <1>1, <1>2, <1>3 DEF GrabsOK, Grabs
<1> HIDE DEF h
<1>5. Listed(h) = Listed(g)
  BY <1>4 DEF Listed
<1>. QED  BY <1>3, <1>4, <1>5 DEF GrabsOK, h

\* The operators on buttons leave the keys alone.
LEMMA ButtonsOK ==
  ASSUME NEW g, GrabsOK(g), NEW h \in Grabs,
         h.ks_arr = g.ks_arr, h.ks_pressed = g.ks_pressed, h.x_keys = g.x_keys
  PROVE  GrabsOK(h) /\ Listed(h) = Listed(g)
  BY DEF GrabsOK, Listed

\* A button that is grabbed is listed once.
LEMMA ButtonAddedOK ==
  ASSUME NEW g, GrabsOK(g), NEW b \in Buttons, NEW held_down
  PROVE  /\ GrabsOK(BAdded(g, b, held_down))
         /\ Listed(BAdded(g, b, held_down)) = Listed(g)
         /\ BAdded(g, b, held_down).ks_arr = g.ks_arr
         /\ BAdded(g, b, held_down).x_keys = g.x_keys
         /\ BAdded(g, b, held_down).ks_pressed = g.ks_pressed
         /\ BAdded(g, b, held_down).b_pressed \subseteq g.b_pressed
<1>1. BAdded(g, b, held_down) \in Grabs
  BY DEF BAdded, GrabsOK, Grabs
<1>2. /\ BAdded(g, b, held_down).ks_arr = g.ks_arr
      /\ BAdded(g, b, held_down).ks_pressed = g.ks_pressed
      /\ BAdded(g, b, held_down).x_keys = g.x_keys
      /\ BAdded(g, b, held_down).b_pressed \subseteq g.b_pressed
  BY DEF BAdded, GrabsOK, Grabs
<1>. QED  BY <1>1, <1>2, ButtonsOK

\* Ungrabbing a button.
LEMMA ButtonRemovedOK ==
  ASSUME NEW g, GrabsOK(g), NEW b \in Buttons
  PROVE  LET h == BRemoved(g, b) IN
           /\ GrabsOK(h) /\ Listed(h) = Listed(g) /\ h.ks_arr = g.ks_arr
           /\ h.x_keys = g.x_keys /\ h.ks_pressed = g.ks_pressed /\ h.b_pressed = g.b_pressed
<1> DEFINE h == BRemoved(g, b)
<1>1. h \in Grabs /\ h.ks_arr = g.ks_arr /\ h.x_keys = g.x_keys /\ h.ks_pressed = g.ks_pressed
      /\ h.b_pressed = g.b_pressed
  BY DEF BRemoved, GrabsOK, Grabs
<1>. QED  BY <1>1, ButtonsOK

\* Ungrabbing all buttons.
LEMMA ButtonsRemovedOK ==
  ASSUME NEW g, GrabsOK(g)
  PROVE  LET h == BRemovedAll(g) IN
           /\ GrabsOK(h) /\ Listed(h) = Listed(g) /\ h.ks_arr = g.ks_arr
           /\ h.x_keys = g.x_keys /\ h.ks_pressed = g.ks_pressed /\ h.b_pressed = g.b_pressed
<1> DEFINE h == BRemovedAll(g)
<1>1. h \in Grabs /\ h.ks_arr = g.ks_arr /\ h.x_keys = g.x_keys /\ h.ks_pressed = g.ks_pressed
      /\ h.b_pressed = g.b_pressed
  BY DEF BRemovedAll, GrabsOK, Grabs
<1>. QED  BY <1>1, ButtonsOK

\* Toggling a button, as being held or not.
LEMMA ButtonToggledOK ==
  ASSUME NEW g, GrabsOK(g), NEW toggle \in BOOLEAN
  PROVE  LET h == BToggled(g, toggle) IN
           /\ GrabsOK(h) /\ Listed(h) = Listed(g) /\ h.ks_arr = g.ks_arr
           /\ h.x_keys = g.x_keys /\ h.ks_pressed = g.ks_pressed /\ h.b_pressed = g.b_pressed
<1> DEFINE h == BToggled(g, toggle)
           buttons == UNION {Covered(b - 1) : b \in g.b_grab_exist}
           new == IF toggle THEN g.x_buttons \union buttons ELSE g.x_buttons \ buttons
<1>1. ASSUME NEW b \in g.b_grab_exist PROVE Covered(b - 1) \subseteq Buttons
  BY NumButtonsAssumption DEF Covered, Buttons, GrabsOK, Grabs
<1>2. new \subseteq Buttons
  BY <1>1 DEF GrabsOK, Grabs
<1>3. h = [g EXCEPT !.x_buttons = new]
  BY DEF BToggled, GrabsOK, Grabs
<1> HIDE DEF new, buttons
<1>4. h \in Grabs /\ h.ks_arr = g.ks_arr /\ h.x_keys = g.x_keys /\ h.ks_pressed = g.ks_pressed
      /\ h.b_pressed = g.b_pressed
  BY <1>2, <1>3 DEF GrabsOK, Grabs
<1>. QED  BY <1>4, ButtonsOK

\* A button the listener has seen.
LEMMA ButtonSeenOK ==
  ASSUME NEW g, GrabsOK(g), NEW b \in Buttons, NEW press
  PROVE  /\ GrabsOK(BSeen(g, b, press))
         /\ BSeen(g, b, press).ks_arr = g.ks_arr
         /\ BSeen(g, b, press).x_keys = g.x_keys
         /\ BSeen(g, b, press).ks_pressed = g.ks_pressed
         /\ Listed(BSeen(g, b, press)) = Listed(g)
         /\ BSeen(g, b, press).b_pressed
              = IF press THEN g.b_pressed \union {b} ELSE g.b_pressed \ {b}
<1>1. BSeen(g, b, press) \in Grabs
  BY DEF BSeen, GrabsOK, Grabs
<1>2. /\ BSeen(g, b, press).ks_arr = g.ks_arr
      /\ BSeen(g, b, press).ks_pressed = g.ks_pressed
      /\ BSeen(g, b, press).x_keys = g.x_keys
      /\ BSeen(g, b, press).b_pressed
           = IF press THEN g.b_pressed \union {b} ELSE g.b_pressed \ {b}
  BY DEF BSeen, GrabsOK, Grabs
<1>. QED  BY <1>1, <1>2, ButtonsOK

\* km_grabs_free leaves no grab on the X server.
LEMMA FreedOK ==
  ASSUME NEW g, GrabsOK(g)
  PROVE  GrabsOK(Freed(g)) /\ Freed(g).x_keys = {} /\ Freed(g).x_buttons = {}
         /\ Freed(g).ks_arr = <<>> /\ Freed(g).ks_pressed = {} /\ Freed(g).b_pressed = {}
<1>1. g.x_keys \ {Passive(k) : k \in Listed(g)} = {}
  BY DEF GrabsOK
<1>2. Freed(g) = [km_grabs_new EXCEPT !.x_keys = {}]
  BY <1>1 DEF Freed
<1>3. Freed(g) = km_grabs_new
  BY <1>2 DEF km_grabs_new
<1>. QED  BY <1>3, NewOK DEF km_grabs_new

-----------------------------------------------------------------------------
(* The inductive invariant, one conjunct after the other.                     *)

\* The invariant holds when the run starts.
LEMMA InitInv == Init => Inv /\ QueueOK
<1> SUFFICES ASSUME Init PROVE Inv /\ QueueOK
  OBVIOUS
<1>1. GrabsOK(grabs) /\ grabs \in Grabs
  BY NewOK DEF Init, GrabsOK
<1>2. ThreadsOK /\ HeldOK /\ ServerOK
  BY DEF Init, ThreadsOK, HeldOK, ServerOK, NoInput, Sending
<1>5. TypeOK
  <2>1. wait \in [do_wait_cond : BOOLEAN, wait_for_key : BOOLEAN,
                  wait_for_button : BOOLEAN, wait_button : Buttons \union {1},
                  wait_cond_inv : BOOLEAN, operand : SUBSET Keys]
    BY DEF Init, NoWait
  <2>2. queue \in Seq(Events)
    BY DEF Init
  <2>3. sending \in [press : SUBSET Inputs, release : SUBSET Inputs]
    BY DEF Init, NoInput
  <2>. QED  BY <1>1, <2>1, <2>2, <2>3 DEF Init, TypeOK
<1>3. WaitOK
  BY DEF Init, WaitOK, NoWait
<1>4. QueueOK
  <2>1. \A i \in 1 .. Len(queue) : FALSE
    BY DEF Init
  <2>. QED  BY <2>1 DEF QueueOK
<1>. QED  BY <1>1, <1>2, <1>3, <1>4, <1>5 DEF Inv

\* The key of a waiting command.
LEMMA Waited ==
  ASSUME TypeOK, WaitOK, wait.wait_for_key
  PROVE  /\ LastKey(grabs) \in Keys /\ LastKey(grabs) \in Listed(grabs)
         /\ (CHOOSE k \in wait.operand : TRUE) = LastKey(grabs)
<1>1. Len(grabs.ks_arr) > 0 /\ wait.operand = {LastKey(grabs)} /\ grabs.ks_arr \in Seq(Keys)
  BY DEF TypeOK, WaitOK, Grabs
<1>. QED  BY <1>1 DEF LastKey, Listed

\* What the listener reads of the queue.
LEMMA HeadOfQueue ==
  ASSUME TypeOK, queue # <<>>
  PROVE  /\ Head(queue) \in Events /\ Head(queue) = queue[1] /\ Tail(queue) \in Seq(Events)
         /\ Len(queue) > 0 /\ Len(Tail(queue)) = Len(queue) - 1
         /\ \A i \in 1 .. Len(Tail(queue)) : Tail(queue)[i] = queue[i + 1]
         /\ Head(queue).input \in Inputs
         /\ \/ Head(queue).input = <<"key", Head(queue).input[2]>>
            \/ Head(queue).input = <<"button", Head(queue).input[2]>>
               /\ Head(queue).input[2] \in Buttons
<1>1. queue \in Seq(Events)
  BY DEF TypeOK
<1>2. Head(queue) \in Events /\ Head(queue) = queue[1] /\ Tail(queue) \in Seq(Events)
      /\ Len(queue) > 0 /\ Len(Tail(queue)) = Len(queue) - 1
      /\ \A i \in 1 .. Len(Tail(queue)) : Tail(queue)[i] = queue[i + 1]
  BY <1>1
<1>3. Head(queue).input \in Inputs
  BY <1>2 DEF Events
<1>. QED  BY <1>2, <1>3 DEF Inputs

\* Every command leaves the grabs well-formed.
LEMMA GrabsStep == Inv /\ [Next]_vars => GrabsOK(grabs')
<1> SUFFICES ASSUME Inv, [Next]_vars PROVE GrabsOK(grabs')
  OBVIOUS
<1>0. GrabsOK(grabs) /\ TypeOK /\ WaitOK
  BY DEF Inv
<1>1. CASE grabs' = grabs
  BY <1>0, <1>1
<1>2. CASE Join
  BY <1>0, <1>2, FreedOK DEF Join
<1>3. ASSUME NEW s \in KeyStrings, NEW state \in States, KeyStroke(s, state)
      PROVE  GrabsOK(grabs')
  BY <1>0, <1>3, ToggledOK DEF KeyStroke, KeysLifted
<1>4. ASSUME NEW b \in Buttons, NEW state \in States, MouseClick(b, state)
      PROVE  GrabsOK(grabs')
  BY <1>0, <1>4, ButtonToggledOK DEF MouseClick
<1>12. CASE SendEnds
  BY <1>0, <1>12, ToggledOK, ButtonToggledOK DEF SendEnds, KeysRestored
<1>5. ASSUME NEW k \in Keys,
             GrabKey(k) \/ UngrabKey(k) \/ \E inv \in BOOLEAN : WaitUntilKey(k, inv)
      PROVE  GrabsOK(grabs')
  <2>1. GrabsOK(KAdded(grabs, k)) /\ GrabsOK(KRemoved(grabs, k))
    BY <1>0, AddedOK, RemovedOK
  <2>2. grabs' \in {grabs, KAdded(grabs, k), KRemoved(grabs, k)}
    BY <1>5 DEF GrabKey, UngrabKey, WaitUntilKey, Regrab, StartWait, RefuseWait
  <2>. QED  BY <1>0, <2>1, <2>2
<1>6. CASE UngrabKeyAll
  BY <1>0, <1>6, RemovedAllOK DEF UngrabKeyAll, Regrab
<1>7. ASSUME NEW b \in Buttons,
             \/ GrabButton(b) \/ UngrabButton(b)
             \/ \E held_down, inv \in BOOLEAN : WaitUntilButton(b, held_down, inv)
      PROVE  GrabsOK(grabs')
  <2>1. GrabsOK(BRemoved(grabs, b)) /\ \A held_down \in BOOLEAN : GrabsOK(BAdded(grabs, b, held_down))
    BY <1>0, ButtonAddedOK, ButtonRemovedOK
  <2>2. \/ grabs' \in {grabs, BRemoved(grabs, b)}
        \/ \E held_down \in BOOLEAN : grabs' = BAdded(grabs, b, held_down)
    BY <1>7 DEF GrabButton, UngrabButton, WaitUntilButton, Regrab, StartWait, RefuseWait
  <2>. QED  BY <1>0, <2>1, <2>2
<1>8. CASE UngrabButtonAll
  BY <1>0, <1>8, ButtonsRemovedOK DEF UngrabButtonAll, Regrab
<1>9. CASE WaitReturns
  <2>1. CASE wait.wait_for_key
    BY <1>0, <1>9, <2>1, Waited, RemovedOK DEF WaitReturns
  <2>2. CASE ~wait.wait_for_key
    <3>1. wait.wait_button \in Buttons
      BY <1>0, <1>9, <2>2 DEF WaitReturns, WaitOK, TypeOK
    <3>. QED  BY <1>0, <1>9, <2>2, <3>1, ButtonRemovedOK DEF WaitReturns
  <2>. QED  BY <2>1, <2>2
<1>10. CASE DrainInput
  <2> DEFINE e == Head(queue)
  <2>1. \/ grabs' = KSeen(grabs, e.input[2], e.state, e.press)
        \/ e.input[2] \in Buttons /\ grabs' = BSeen(grabs, e.input[2], e.press)
    BY <1>0, <1>10, HeadOfQueue DEF DrainInput, Escape
  <2> HIDE DEF e
  <2>2. GrabsOK(KSeen(grabs, e.input[2], e.state, e.press))
    BY <1>0, SeenOK
  <2>3. e.input[2] \in Buttons => GrabsOK(BSeen(grabs, e.input[2], e.press))
    BY <1>0, ButtonSeenOK
  <2>. QED  BY <2>1, <2>2, <2>3
<1>11. CASE Next /\ grabs' # grabs
  <2>1. MainStep \/ ListenerStep
    BY <1>11 DEF Next, SpuriousWakeup, UserStep, Press, Release, Repeat, UserActs
  <2>2. CASE MainStep
    BY <1>2, <1>3, <1>4, <1>5, <1>6, <1>7, <1>8, <1>9, <1>11, <1>12, <2>2
       DEF MainStep, Begin, EndStep, LoopTest, Abort, OtherCommand, StopRun, SendPress,
           SendRelease
  <2>3. CASE ListenerStep
    BY <1>10, <1>11, <2>3
       DEF ListenerStep, ListenerStart, ListenerWakes, DrainEscape, DrainEnds, ListenerCheck
  <2>. QED  BY <2>1, <2>2, <2>3
<1>. QED  BY <1>1, <1>11 DEF vars

\* An event joins the queue at its end.
LEMMA Appended ==
  ASSUME TypeOK, NEW input \in Inputs, NEW state \in Modifiers, NEW press \in BOOLEAN,
         NEW own \in BOOLEAN, queue' = Append(queue, Event(input, state, press, own))
  PROVE  /\ queue' \in Seq(Events) /\ Len(queue') = Len(queue) + 1
         /\ \A i \in 1 .. Len(queue) : queue'[i] = queue[i]
         /\ queue'[Len(queue')].input = input /\ queue'[Len(queue')].press = press
         /\ queue'[Len(queue')].own = own
<1> DEFINE e == Event(input, state, press, own)
<1>1. /\ e \in Events /\ e.input = input /\ e.press = press /\ e.own = own
      /\ queue \in Seq(Events)
  BY DEF Events, Event, TypeOK
<1> HIDE DEF e
<1>2. queue' = Append(queue, e)
  BY DEF e
<1>. QED  BY <1>1, <1>2

\* The steps of a main thread that is sending.
SendStep ==
  \E input \in Inputs :
    SendRelease(input) \/ \E state \in Modifiers : SendPress(input, state)

\* The commands of the main thread, by what they do to the state the threads share.
LEMMA MainSteps ==
  ASSUME MainStep
  PROVE  /\ UNCHANGED <<mutex, listener, escape_grab>>
         /\ \/ Join
            \/ WaitReturns
            \/ \E k \in Keys, inv \in BOOLEAN : WaitUntilKey(k, inv)
            \/ \E b \in Buttons : \E held_down, inv \in BOOLEAN : WaitUntilButton(b, held_down, inv)
            \/ \E s \in KeyStrings, state \in States : KeyStroke(s, state)
            \/ \E b \in Buttons, state \in States : MouseClick(b, state)
            \/ SendStep
            \/ SendEnds
            \/ /\ main \in {"begin", "command", "next", "failed", "join"}
               /\ main' \in {"command", "next", "join", "aborted"}
               /\ UNCHANGED wait /\ Silent
<1>1. ASSUME NEW s \in KeyStrings, NEW state \in States, KeyStroke(s, state)
      PROVE  UNCHANGED <<mutex, listener, escape_grab>>
  BY <1>1 DEF KeyStroke, MainMoves
<1>2. ASSUME NEW k \in Keys, GrabKey(k) \/ UngrabKey(k)
      PROVE  UNCHANGED <<mutex, listener, escape_grab, wait>> /\ Silent
             /\ main = "command" /\ main' = "next"
  BY <1>2 DEF GrabKey, UngrabKey, Command, Regrab, MainMoves
<1>3. ASSUME NEW k \in Keys, NEW inv \in BOOLEAN, WaitUntilKey(k, inv)
      PROVE  UNCHANGED <<mutex, listener, escape_grab>>
  BY <1>3 DEF WaitUntilKey, StartWait, RefuseWait, MainMoves
<1>4. ASSUME NEW b \in Buttons, GrabButton(b) \/ UngrabButton(b)
      PROVE  UNCHANGED <<mutex, listener, escape_grab, wait>> /\ Silent
             /\ main = "command" /\ main' = "next"
  BY <1>4 DEF GrabButton, UngrabButton, Command, Regrab, MainMoves
<1>5. ASSUME NEW b \in Buttons, NEW held_down \in BOOLEAN, NEW inv \in BOOLEAN,
             WaitUntilButton(b, held_down, inv)
      PROVE  UNCHANGED <<mutex, listener, escape_grab>>
  BY <1>5 DEF WaitUntilButton, StartWait, RefuseWait, MainMoves
<1>6. CASE UngrabKeyAll \/ UngrabButtonAll \/ OtherCommand \/ StopRun
  BY <1>6 DEF UngrabKeyAll, UngrabButtonAll, OtherCommand, StopRun, Command, Regrab, MainMoves
<1>7. CASE Begin \/ (\E last \in BOOLEAN : EndStep(last)) \/ Abort
  BY <1>7 DEF Begin, EndStep, LoopTest, Abort, MainMoves
<1>8. CASE Join \/ WaitReturns
  BY <1>8 DEF Join, WaitReturns, MainMoves
<1>9. ASSUME NEW b \in Buttons, NEW state \in States, MouseClick(b, state)
      PROVE  UNCHANGED <<mutex, listener, escape_grab>>
  BY <1>9 DEF MouseClick, MainMoves
<1>10. CASE SendStep
  BY <1>10 DEF SendStep, SendPress, SendRelease, MainMoves
<1>11. CASE SendEnds
  BY <1>11 DEF SendEnds, MainMoves
<1>. QED  BY <1>1, <1>2, <1>3, <1>4, <1>5, <1>6, <1>7, <1>8, <1>9, <1>10, <1>11
          DEF MainStep, SendStep

\* Of the other steps those of the user change what the X server keeps, and those of
\* the listener read it.
LEMMA OthersServer ==
  ASSUME SpuriousWakeup \/ ListenerStep \/ UNCHANGED vars
  PROVE  /\ UNCHANGED <<down, held, key_grab, button_grab, told, kdc, sending>>
         /\ UNCHANGED queue \/ DrainEscape \/ DrainInput
  BY DEF SpuriousWakeup, Silent, ListenerStep, ListenerStart, ListenerWakes, DrainEscape,
         DrainInput, DrainEnds, ListenerCheck, ListenerLoopTest, ListenerMoves, vars, server

\* What a step does to the inputs that are down, and to what is known of them.
LEMMA ServerSteps ==
  ASSUME TypeOK, [Next]_vars
  PROVE  \/ NoEvent /\ Down \subseteq Down'
         \/ Join
         \/ (DrainEscape \/ DrainInput) /\ UNCHANGED <<down, held, key_grab, button_grab, told>>
         \/ \E input \in Inputs, state \in Modifiers, own \in BOOLEAN :
              Pressed(input, state, own) /\ Down' = Down \union {input}
         \/ \E input \in Inputs, own \in BOOLEAN :
              Released(input, own, Down \ {input}) /\ Down' = Down \ {input}
<1>1. CASE Silent \/ UNCHANGED server
  BY <1>1 DEF Silent, server, NoEvent, Down
<1>2. ASSUME NEW input \in Inputs, NEW state \in Modifiers, SendPress(input, state)
      PROVE  \/ NoEvent /\ Down \subseteq Down'
             \/ Pressed(input, state, TRUE) /\ Down' = Down \union {input}
  BY <1>2 DEF SendPress, Down
<1>3. ASSUME NEW input \in Inputs, SendRelease(input)
      PROVE  \/ NoEvent /\ Down \subseteq Down'
             \/ Released(input, TRUE, Down \ {input}) /\ Down' = Down \ {input}
  <2>1. CASE input \in held \ down
    <3>1. Released(input, TRUE, down \union held') /\ held' = held \ {input} /\ down' = down
      BY <1>3, <2>1 DEF SendRelease
    <3>2. down \union held' = Down \ {input} /\ Down' = Down \ {input}
      BY <2>1, <3>1 DEF Down
    <3>. QED  BY <3>1, <3>2
  <2>2. CASE input \notin held \ down
    BY <1>3, <2>2 DEF SendRelease, Down
  <2>. QED  BY <2>1, <2>2
<1>4. ASSUME NEW input \in Inputs, NEW state \in Modifiers,
             Press(input, state) \/ Repeat(input, state)
      PROVE  \/ NoEvent /\ Down \subseteq Down'
             \/ Pressed(input, state, FALSE) /\ Down' = Down \union {input}
  BY <1>4 DEF Press, Repeat, UserActs, Down
<1>5. ASSUME NEW input \in Inputs, Release(input)
      PROVE  \/ NoEvent /\ Down \subseteq Down'
             \/ Released(input, FALSE, Down \ {input}) /\ Down' = Down \ {input}
  <2>0. down' = down \ {input} /\ held' = held /\ input \in down
    BY <1>5 DEF Release, UserActs
  <2>1. CASE input \notin held
    <3>1. Released(input, FALSE, down' \union held)
      BY <1>5, <2>1 DEF Release
    <3>2. down' \union held = Down \ {input} /\ Down' = Down \ {input}
      BY <2>0, <2>1 DEF Down
    <3>. QED  BY <3>1, <3>2
  <2>2. CASE input \in held
    BY <1>5, <2>0, <2>2 DEF Release, Down
  <2>. QED  BY <2>1, <2>2
<1>6. CASE MainStep
  <2>1. CASE \/ \E k \in Keys, inv \in BOOLEAN : WaitUntilKey(k, inv)
             \/ \E b \in Buttons : \E held_down, inv \in BOOLEAN : WaitUntilButton(b, held_down, inv)
             \/ WaitReturns \/ SendEnds
    BY <1>1, <2>1 DEF WaitUntilKey, WaitUntilButton, StartWait, RefuseWait, WaitReturns, SendEnds
  <2>2. CASE \/ \E s \in KeyStrings, state \in States : KeyStroke(s, state)
             \/ \E b \in Buttons, state \in States : MouseClick(b, state)
    BY <1>1, <2>2 DEF KeyStroke, MouseClick
  <2>3. CASE SendStep
    BY <1>2, <1>3, <2>3 DEF SendStep
  <2>. QED  BY <1>1, <1>6, <2>1, <2>2, <2>3, MainSteps
<1>7. CASE UserStep
  BY <1>4, <1>5, <1>7 DEF UserStep
<1>8. CASE SpuriousWakeup \/ ListenerStep \/ UNCHANGED vars
  <2>1. UNCHANGED <<down, held, key_grab, button_grab, told>>
        /\ (UNCHANGED queue \/ DrainEscape \/ DrainInput)
    BY <1>8, OthersServer
  <2>. QED  BY <2>1 DEF NoEvent, Down
<1>. QED  BY <1>6, <1>7, <1>8 DEF Next

\* What a step does to the queue, with the index each event had.
LEMMA QueueChanges ==
  ASSUME TypeOK, [Next]_vars
  PROVE  /\ queue \in Seq(Events) /\ queue' \in Seq(Events)
         /\ Len(queue) \in Nat /\ Len(queue') \in Nat
         /\ \/ queue' = queue /\ told' = told
            \/ /\ DrainEscape \/ DrainInput
               /\ queue # <<>> /\ Head(queue) = queue[1] /\ Len(queue') = Len(queue) - 1
               /\ \A i \in 1 .. Len(queue') : queue'[i] = queue[i + 1]
               /\ told' = told
            \/ /\ Len(queue') = Len(queue) + 1
               /\ \A i \in 1 .. Len(queue) : queue'[i] = queue[i]
               /\ told' = IF queue'[Len(queue')].press
                          THEN told \union {queue'[Len(queue')].input}
                          ELSE told \ {queue'[Len(queue')].input}
<1>0. queue \in Seq(Events) /\ 0 \in Modifiers
  BY DEF TypeOK, Modifiers
<1> DEFINE Shrinks == /\ queue # <<>> /\ Head(queue) = queue[1] /\ Len(queue') = Len(queue) - 1
                      /\ \A i \in 1 .. Len(queue') : queue'[i] = queue[i + 1]
           Grows == /\ queue' \in Seq(Events) /\ Len(queue') = Len(queue) + 1
                    /\ \A i \in 1 .. Len(queue) : queue'[i] = queue[i]
                    /\ told' = IF queue'[Len(queue')].press
                               THEN told \union {queue'[Len(queue')].input}
                               ELSE told \ {queue'[Len(queue')].input}
<1>2. ASSUME DrainEscape \/ DrainInput PROVE Shrinks /\ queue' \in Seq(Events)
  <2>1. queue # <<>> /\ queue' = Tail(queue)
    BY <1>2 DEF DrainEscape, DrainInput
  <2>. QED  BY <2>1, HeadOfQueue
<1>3. ASSUME NEW input \in Inputs, NEW state \in Modifiers, NEW own \in BOOLEAN,
             Pressed(input, state, own), ~NoEvent
      PROVE  Grows
  <2>1. queue' = Append(queue, Event(input, state, TRUE, own)) /\ told' = told \union {input}
    BY <1>3 DEF Pressed
  <2>2. /\ queue' \in Seq(Events) /\ Len(queue') = Len(queue) + 1
        /\ \A i \in 1 .. Len(queue) : queue'[i] = queue[i]
        /\ queue'[Len(queue')].input = input /\ queue'[Len(queue')].press = TRUE
    BY <2>1, Appended
  <2>. QED  BY <2>1, <2>2
<1>4. ASSUME NEW input \in Inputs, NEW own \in BOOLEAN, Released(input, own, Down \ {input}),
             ~UNCHANGED <<queue, told>>
      PROVE  Grows
  <2>1. queue' = Append(queue, Event(input, 0, FALSE, own)) /\ told' = told \ {input}
    BY <1>4 DEF Released
  <2>2. /\ queue' \in Seq(Events) /\ Len(queue') = Len(queue) + 1
        /\ \A i \in 1 .. Len(queue) : queue'[i] = queue[i]
        /\ queue'[Len(queue')].input = input /\ queue'[Len(queue')].press = FALSE
    BY <1>0, <2>1, Appended
  <2>. QED  BY <2>1, <2>2
<1> HIDE DEF Shrinks, Grows
<1>5. Grows \/ UNCHANGED <<queue, told>> \/ ((DrainEscape \/ DrainInput) /\ UNCHANGED told)
  BY <1>3, <1>4, ServerSteps DEF NoEvent, Join
<1>6. CASE Grows
  BY <1>0, <1>6 DEF Grows
<1>7. CASE UNCHANGED <<queue, told>>
  BY <1>0, <1>7
<1>8. CASE (DrainEscape \/ DrainInput) /\ UNCHANGED told
  BY <1>0, <1>2, <1>8 DEF Shrinks
<1>. QED  BY <1>5, <1>6, <1>7, <1>8

\* The mutex and the grab of Escape follow the listener, and the run ends after it.
LEMMA ThreadsStep == Inv /\ [Next]_vars => ThreadsOK'
<1> SUFFICES ASSUME Inv, [Next]_vars PROVE ThreadsOK'
  OBVIOUS
<1>0. ThreadsOK /\ WaitOK /\ HeldOK /\ TypeOK /\ GrabsOK(grabs)
  BY DEF Inv
<1>1. CASE MainStep
  <2>1. UNCHANGED <<mutex, listener, escape_grab>>
    BY <1>1, MainSteps
  <2>2. CASE Join
    <3>1. /\ listener = "exited" /\ grabs' = Freed(grabs) /\ main = "join" /\ main' = "ended"
          /\ held' = held \ ({"key"} \X UNION {KeyCodes[s] : s \in kdc})
          /\ key_grab' = key_grab \intersect (down \union held')
          /\ sending' = sending /\ down' = down
      BY <2>2 DEF Join, KeysUp, MainMoves
    <3>2. sending = NoInput
      BY <1>0, <3>1 DEF ThreadsOK, Sending
    <3>3. \A input \in held' : IsButton(input)
      BY <1>0, <3>1, <3>2 DEF HeldOK, NoInput
    <3>4. key_grab' \subseteq down'
      <4>1. \A input \in key_grab : ~IsButton(input)
        BY <1>0 DEF TypeOK, IsButton
      <4>. QED  BY <3>1, <3>3, <4>1
    <3>5. grabs'.x_keys = {} /\ grabs'.x_buttons = {}
      BY <1>0, <3>1, FreedOK
    <3>. QED  BY <1>0, <2>1, <3>1, <3>2, <3>3, <3>4, <3>5 DEF ThreadsOK, Sending
  <2>3. CASE SendStep
    <3>1. /\ main \in Sending /\ main' = main /\ grabs' = grabs
      BY <2>3 DEF SendStep, SendPress, SendRelease, MainMoves
    <3>2. /\ sending'.press \subseteq sending.press /\ sending'.release \subseteq sending.release
      BY <1>0, <2>3 DEF SendStep, SendPress, SendRelease, TypeOK
    <3>. QED  BY <1>0, <2>1, <3>1, <3>2 DEF ThreadsOK, Sending
  <2>4. ASSUME NEW s \in KeyStrings, NEW state \in States, KeyStroke(s, state)
        PROVE  ThreadsOK'
    <3>1. main' = "keys" /\ ~mutex /\ grabs' = KToggled(grabs, FALSE)
      BY <2>4 DEF KeyStroke, Command, MainLocks, MainMoves, KeysLifted
    <3>2. grabs'.x_keys = {}
      BY <1>0, <3>1, ToggledOK
    <3>3. \A input \in {"key"} \X KeyCodes[s] : ~IsButton(input)
      BY DEF IsButton
    <3>4. \A input \in sending'.press \union sending'.release : ~IsButton(input)
      BY <2>4, <3>3 DEF KeyStroke, Sends
    <3>. QED  BY <1>0, <2>1, <3>1, <3>2, <3>4 DEF ThreadsOK, Sending
  <2>5. ASSUME NEW b \in Buttons, NEW state \in States, MouseClick(b, state)
        PROVE  ThreadsOK'
    <3>1. main' = "clicks" /\ ~mutex
      BY <2>5 DEF MouseClick, Command, MainLocks, MainMoves
    <3>. QED  BY <1>0, <2>1, <3>1 DEF ThreadsOK, Sending
  <2>6. CASE main' \in {"command", "next", "join", "aborted", "wait", "failed"}
             /\ (sending' = NoInput)
    BY <1>0, <2>1, <2>6 DEF ThreadsOK, Sending
  <2>7. ASSUME ~Join, ~SendStep, \A s \in KeyStrings, state \in States : ~KeyStroke(s, state),
               \A b \in Buttons, state \in States : ~MouseClick(b, state)
        PROVE  main' \in {"command", "next", "join", "aborted", "wait", "failed"}
               /\ (sending' = NoInput)
    <3>1. CASE \/ \E k \in Keys, inv \in BOOLEAN : WaitUntilKey(k, inv)
               \/ \E b \in Buttons : \E held_down, inv \in BOOLEAN : WaitUntilButton(b, held_down, inv)
      <4>1. main = "command" /\ main' \in {"wait", "failed"} /\ sending' = sending
        BY <3>1 DEF WaitUntilKey, WaitUntilButton, StartWait, RefuseWait, Command, MainMoves,
                    Silent
      <4>. QED  BY <1>0, <4>1 DEF ThreadsOK, Sending
    <3>2. CASE WaitReturns
      <4>1. main = "woken" /\ main' = "next" /\ sending' = sending
        BY <3>2 DEF WaitReturns, MainMoves, Silent
      <4>. QED  BY <1>0, <4>1 DEF ThreadsOK, Sending
    <3>3. CASE SendEnds
      BY <3>3 DEF SendEnds, MainMoves, Silent
    <3>4. CASE /\ main \in {"begin", "command", "next", "failed", "join"}
               /\ main' \in {"command", "next", "join", "aborted"}
               /\ Silent
      BY <1>0, <3>4 DEF ThreadsOK, Sending, Silent
    <3>. QED  BY <1>1, <2>7, <3>1, <3>2, <3>3, <3>4, MainSteps
  <2>. QED  BY <2>2, <2>3, <2>4, <2>5, <2>6, <2>7
<1>2. CASE SpuriousWakeup
  BY <1>0, <1>2 DEF SpuriousWakeup, MainMoves, ThreadsOK, Silent, server, Sending
<1>3. CASE ListenerStep
  <2>1. /\ main # "ended" /\ main' # "ended" /\ sending' = sending
        /\ main' = main \/ (main = "wait" /\ main' = "woken")
    BY <1>3 DEF ListenerStep, ListenerStart, ListenerWakes, DrainEscape, DrainInput, DrainEnds,
                ListenerCheck, ListenerLoopTest, ListenerMoves, Running, Signal, SignalStop
  <2>2. main \notin Sending
    BY <1>0, <1>3
       DEF ListenerStep, ListenerStart, ListenerWakes, DrainEscape, DrainInput, DrainEnds,
           ListenerCheck, ListenerLocks, ThreadsOK
  <2>3. main' \notin Sending
    BY <2>1, <2>2 DEF Sending
  <2>4. CASE ListenerStart \/ ListenerCheck
    BY <1>0, <2>1, <2>2, <2>3, <2>4
       DEF ListenerStart, ListenerCheck, ListenerLoopTest, ListenerMoves, ThreadsOK, TypeOK,
           Sending
  <2>5. CASE ListenerWakes \/ DrainEscape \/ DrainInput \/ DrainEnds
    BY <1>0, <2>1, <2>2, <2>3, <2>5
       DEF ListenerWakes, DrainEscape, DrainInput, DrainEnds, ListenerMoves, ThreadsOK, Sending
  <2>. QED  BY <1>3, <2>4, <2>5 DEF ListenerStep
<1>4. CASE UserStep
  <2>1. main # "ended" /\ UNCHANGED <<mutex, main, listener, grabs, escape_grab, sending>>
    BY <1>4 DEF UserStep, Press, Release, Repeat, UserActs, Running
  <2>. QED  BY <1>0, <2>1 DEF ThreadsOK
<1>5. CASE UNCHANGED vars
  BY <1>0, <1>5 DEF ThreadsOK, vars, server
<1>. QED  BY <1>1, <1>2, <1>3, <1>4, <1>5 DEF Next

\* What is to be sent, and what is held: key_down_check_t knows every key before it
\* goes down, and forgets it only when it is to be released.
LEMMA HeldStep == Inv /\ [Next]_vars => HeldOK'
<1> SUFFICES ASSUME Inv, [Next]_vars PROVE HeldOK'
  OBVIOUS
<1>0. HeldOK /\ TypeOK /\ ThreadsOK
  BY DEF Inv
<1>1. CASE UNCHANGED <<kdc, held, sending>>
  BY <1>0, <1>1 DEF HeldOK
<1>2. CASE Join
  <2>1. /\ held' = held \ ({"key"} \X UNION {KeyCodes[s] : s \in kdc}) /\ sending' = sending
        /\ main = "join"
    BY <1>2 DEF Join, KeysUp
  <2>2. sending = NoInput
    BY <1>0, <2>1 DEF ThreadsOK, Sending
  <2>. QED  BY <1>0, <2>1, <2>2 DEF HeldOK, NoInput
<1>3. ASSUME NEW s \in KeyStrings, NEW state \in States, KeyStroke(s, state)
      PROVE  HeldOK'
  <2> DEFINE keys    == {"key"} \X KeyCodes[s]
             Kdc(k)  == {"key"} \X UNION {KeyCodes[t] : t \in k}
  <2>1. main = "command" /\ held' = held
    BY <1>3 DEF KeyStroke, Command, server
  <2>2. sending = NoInput
    BY <1>0, <2>1 DEF ThreadsOK, Sending
  <2>3. \A input \in held : IsButton(input) \/ input \in Kdc(kdc)
    BY <1>0, <2>2 DEF HeldOK, NoInput
  <2>4. Kdc(kdc \union {s}) = Kdc(kdc) \union keys /\ Kdc(kdc) \subseteq Kdc(kdc \ {s}) \union keys
    OBVIOUS
  <2> HIDE DEF keys
  <2>5. \/ kdc' = kdc \union {s} /\ sending' = [press |-> keys, release |-> {}]
        \/ kdc' = kdc \ {s} /\ sending' = [press |-> {}, release |-> keys]
        \/ kdc' = kdc /\ sending' = [press |-> keys, release |-> keys]
    BY <1>3 DEF KeyStroke, States, Sends, keys
  <2> HIDE DEF Kdc
  <2>6. \A input \in held' \union sending'.press :
          IsButton(input) \/ input \in Kdc(kdc') \/ input \in sending'.release
    BY <2>1, <2>3, <2>4, <2>5
  <2>. QED  BY <2>6 DEF HeldOK, Kdc
<1>4. ASSUME NEW b \in Buttons, NEW state \in States, MouseClick(b, state)
      PROVE  HeldOK'
  <2>1. /\ main = "command" /\ held' = held /\ kdc' = kdc
        /\ sending'.press \subseteq {<<"button", b>>}
    BY <1>4 DEF MouseClick, Command, Sends, server
  <2>2. sending = NoInput
    BY <1>0, <2>1 DEF ThreadsOK, Sending
  <2>3. IsButton(<<"button", b>>)
    BY DEF IsButton
  <2>. QED  BY <1>0, <2>1, <2>2, <2>3 DEF HeldOK, NoInput
<1>5. ASSUME NEW input \in Inputs, NEW state \in Modifiers, SendPress(input, state)
      PROVE  HeldOK'
  <2>1. /\ held' = held \union {input} /\ kdc' = kdc /\ input \in sending.press
        /\ sending'.press = sending.press \ {input} /\ sending'.release = sending.release
    BY <1>0, <1>5 DEF SendPress, TypeOK
  <2>. QED  BY <1>0, <2>1 DEF HeldOK
<1>6. ASSUME NEW input \in Inputs, SendRelease(input)
      PROVE  HeldOK'
  <2>1. /\ held' = held \ {input} /\ kdc' = kdc /\ sending.press = {}
        /\ sending'.press = {} /\ sending'.release = sending.release \ {input}
    BY <1>0, <1>6 DEF SendRelease, TypeOK
  <2>. QED  BY <1>0, <2>1 DEF HeldOK
<1>7. CASE MainStep
  <2>1. Silent => UNCHANGED <<kdc, held, sending>>
    BY DEF Silent, server
  <2>. QED  BY <1>1, <1>2, <1>3, <1>4, <1>5, <1>6, <1>7, <2>1, MainSteps
       DEF WaitReturns, WaitUntilKey, WaitUntilButton, StartWait, RefuseWait, SendStep, SendEnds
<1>8. CASE SpuriousWakeup \/ ListenerStep \/ UNCHANGED vars
  BY <1>1, <1>8, OthersServer
<1>9. CASE UserStep
  BY <1>1, <1>9 DEF UserStep, Press, Release, Repeat, UserActs
<1>. QED  BY <1>7, <1>8, <1>9 DEF Next

\* An active grab of the X server ends with what activated it.
LEMMA ServerStep == Inv /\ [Next]_vars => ServerOK'
<1> SUFFICES ASSUME Inv, [Next]_vars PROVE ServerOK'
  OBVIOUS
<1>0. ServerOK /\ TypeOK
  BY DEF Inv
<1>1. CASE NoEvent /\ Down \subseteq Down'
  BY <1>0, <1>1 DEF ServerOK, NoEvent
<1>2. CASE Join
  <2>1. /\ key_grab' \subseteq Down' /\ told' = told /\ button_grab' = button_grab
        /\ \A input \in held : IsButton(input) => input \in held'
        /\ down' = down
    BY <1>2 DEF Join, KeysUp, IsButton, Down
  <2>. QED  BY <1>0, <2>1 DEF ServerOK, Down
<1>3. CASE UNCHANGED <<down, held, key_grab, button_grab, told>>
  BY <1>0, <1>3 DEF ServerOK, Down
<1>4. ASSUME NEW input \in Inputs, NEW state \in Modifiers, NEW own \in BOOLEAN,
             Pressed(input, state, own), Down' = Down \union {input}
      PROVE  ServerOK'
  BY <1>0, <1>4 DEF ServerOK, Pressed, NoEvent
<1>5. ASSUME NEW input \in Inputs, NEW own \in BOOLEAN,
             Released(input, own, Down \ {input}), Down' = Down \ {input}
      PROVE  ServerOK'
  <2>1. key_grab' \subseteq Down'
    BY <1>0, <1>5 DEF ServerOK, Released
  <2>2. ASSUME NEW other \in told', IsButton(other) PROVE other \in Down' /\ button_grab'
    <3>1. other \in told /\ button_grab /\ other \in Down
      BY <1>0, <1>5, <2>2 DEF ServerOK, Released
    <3>2. other # input
      BY <1>5, <2>2, <3>1 DEF Released, Active
    <3>. QED  BY <1>5, <2>2, <3>1, <3>2 DEF Released
  <2>. QED  BY <2>1, <2>2 DEF ServerOK
<1>. QED  BY <1>0, <1>1, <1>2, <1>3, <1>4, <1>5, ServerSteps

\* The listener and the user leave alone what the main thread waits for.
LEMMA OthersSteps ==
  ASSUME Inv, ListenerStep \/ UserStep \/ SpuriousWakeup \/ UNCHANGED vars
  PROVE  /\ UNCHANGED <<wait, kdc, held, sending>> /\ grabs'.ks_arr = grabs.ks_arr
         /\ main' = main \/ (main = "wait" /\ main' = "woken")
<1>1. /\ UNCHANGED <<wait, kdc, held, sending>>
      /\ main' = main \/ (main = "wait" /\ main' = "woken")
  BY DEF ListenerStep, ListenerStart, ListenerWakes, DrainEscape, DrainInput, DrainEnds,
         ListenerCheck, ListenerLoopTest, ListenerMoves, Signal, SignalStop, UserStep, Press,
         Release, Repeat, UserActs, SpuriousWakeup, MainMoves, Silent, server, vars
<1>2. CASE UNCHANGED grabs
  BY <1>1, <1>2
<1>3. CASE DrainInput
  <2> DEFINE e == Head(queue)
  <2>0. GrabsOK(grabs) /\ TypeOK
    BY DEF Inv
  <2>1. \/ grabs' = KSeen(grabs, e.input[2], e.state, e.press)
        \/ e.input[2] \in Buttons /\ grabs' = BSeen(grabs, e.input[2], e.press)
    BY <1>3, <2>0, HeadOfQueue DEF DrainInput, Escape
  <2> HIDE DEF e
  <2>2. KSeen(grabs, e.input[2], e.state, e.press).ks_arr = grabs.ks_arr
    BY <2>0, SeenOK
  <2>3. e.input[2] \in Buttons => BSeen(grabs, e.input[2], e.press).ks_arr = grabs.ks_arr
    BY <2>0, ButtonSeenOK
  <2>. QED  BY <1>1, <2>1, <2>2, <2>3
<1>. QED  BY <1>2, <1>3
          DEF ListenerStep, ListenerStart, ListenerWakes, DrainEscape, DrainEnds,
              ListenerCheck, UserStep, Press, Release, Repeat, UserActs, SpuriousWakeup, vars

\* A wait begins with its own key or button and ends with neither.
LEMMA WaitStep == Inv /\ [Next]_vars => WaitOK'
<1> SUFFICES ASSUME Inv, [Next]_vars PROVE WaitOK'
  OBVIOUS
<1>0. WaitOK /\ TypeOK /\ GrabsOK(grabs)
  BY DEF Inv
<1>1. CASE WaitReturns
  <2>1. main' = "next" /\ ~wait'.wait_for_key /\ ~wait'.wait_for_button
    BY <1>0, <1>1 DEF WaitReturns, MainMoves, TypeOK
  <2>. QED  BY <2>1 DEF WaitOK
<1>2. ASSUME NEW k \in Keys, NEW inv \in BOOLEAN, WaitUntilKey(k, inv) PROVE WaitOK'
  <2>0. ~wait.wait_for_key /\ ~wait.wait_for_button
    BY <1>0, <1>2 DEF WaitUntilKey, Command, WaitOK
  <2>1. CASE RefuseWait
    <3>1. main' = "failed" /\ wait' = wait
      BY <2>1 DEF RefuseWait, MainMoves
    <3>. QED  BY <2>0, <3>1 DEF WaitOK
  <2>2. CASE ~RefuseWait
    <3>1. /\ k \notin Listed(grabs) /\ grabs' = KAdded(grabs, k) /\ main' = "wait"
          /\ wait' = [wait EXCEPT !.do_wait_cond = TRUE, !.wait_for_key = TRUE,
                                  !.wait_cond_inv = inv, !.operand = {k}]
      BY <1>2, <2>2 DEF WaitUntilKey, KeyTaken, StartWait, MainMoves
    <3>2. /\ wait'.do_wait_cond /\ wait'.wait_for_key /\ wait'.operand = {k}
          /\ wait'.wait_for_button = wait.wait_for_button
      BY <1>0, <3>1 DEF TypeOK
    <3>3. LastKey(grabs') = k /\ Len(grabs'.ks_arr) > 0
      BY <1>0, <3>1, AddedOK
    <3>. QED  BY <2>0, <3>1, <3>2, <3>3 DEF WaitOK
  <2>. QED  BY <2>1, <2>2
<1>3. ASSUME NEW b \in Buttons, NEW held_down \in BOOLEAN, NEW inv \in BOOLEAN,
             WaitUntilButton(b, held_down, inv)
      PROVE  WaitOK'
  <2>0. ~wait.wait_for_key /\ ~wait.wait_for_button
    BY <1>0, <1>3 DEF WaitUntilButton, Command, WaitOK
  <2>1. CASE RefuseWait
    <3>1. main' = "failed" /\ wait' = wait
      BY <2>1 DEF RefuseWait, MainMoves
    <3>. QED  BY <2>0, <3>1 DEF WaitOK
  <2>2. CASE ~RefuseWait
    <3>1. /\ main' = "wait"
          /\ wait' = [wait EXCEPT !.do_wait_cond = TRUE, !.wait_for_button = TRUE,
                                  !.wait_button = b, !.wait_cond_inv = inv]
      BY <1>3, <2>2 DEF WaitUntilButton, StartWait, MainMoves
    <3>2. /\ wait'.do_wait_cond /\ wait'.wait_for_button /\ wait'.wait_button = b
          /\ wait'.wait_for_key = wait.wait_for_key
      BY <1>0, <3>1 DEF TypeOK
    <3>. QED  BY <2>0, <3>1, <3>2 DEF WaitOK
  <2>. QED  BY <2>1, <2>2
<1>4. CASE MainStep
  <2>1. CASE main \notin {"wait", "woken"} /\ main' \notin {"wait", "woken"} /\ wait' = wait
    BY <1>0, <2>1 DEF WaitOK
  <2>2. CASE \/ \E s \in KeyStrings, state \in States : KeyStroke(s, state)
             \/ \E b \in Buttons, state \in States : MouseClick(b, state)
             \/ Join \/ SendStep \/ SendEnds
    <3>1. /\ main \in Sending \union {"command", "join"} /\ wait' = wait
          /\ main' \in Sending \union {"ended", "next"}
      BY <2>2 DEF KeyStroke, MouseClick, Command, Join, SendStep, SendPress, SendRelease,
                  SendEnds, MainMoves, Sending
    <3>. QED  BY <2>1, <3>1 DEF Sending
  <2>. QED  BY <1>1, <1>2, <1>3, <1>4, <2>1, <2>2, MainSteps
<1>5. CASE SpuriousWakeup \/ ListenerStep \/ UserStep \/ UNCHANGED vars
  <2>1. /\ wait' = wait /\ grabs'.ks_arr = grabs.ks_arr
        /\ main' = main \/ (main = "wait" /\ main' = "woken")
    BY <1>5, OthersSteps
  <2>. QED  BY <1>0, <2>1 DEF WaitOK, LastKey
<1>. QED  BY <1>4, <1>5 DEF Next

\* The types of what the user holds, what the macro holds and what it is to send.
LEMMA SendTypes ==
  ASSUME Inv, [Next]_vars
  PROVE  /\ down' \subseteq Inputs /\ held' \subseteq Inputs /\ kdc' \subseteq KeyStrings
         /\ sending' \in [press : SUBSET Inputs, release : SUBSET Inputs]
<1>0. /\ down \subseteq Inputs /\ held \subseteq Inputs /\ kdc \subseteq KeyStrings
      /\ sending \in [press : SUBSET Inputs, release : SUBSET Inputs]
  BY DEF Inv, TypeOK
<1>1. CASE UNCHANGED <<down, held, kdc, sending>>
  BY <1>0, <1>1
<1>2. ASSUME NEW inputs \in SUBSET Inputs, NEW state, Sends(inputs, state)
      PROVE  sending' \in [press : SUBSET Inputs, release : SUBSET Inputs]
  BY <1>2 DEF Sends
<1>3. ASSUME NEW s \in KeyStrings, NEW state \in States, KeyStroke(s, state)
      PROVE  /\ down' = down /\ held' = held /\ kdc' \subseteq KeyStrings
             /\ sending' \in [press : SUBSET Inputs, release : SUBSET Inputs]
  <2>1. {"key"} \X KeyCodes[s] \subseteq Inputs
    BY DEF Inputs, Codes
  <2>2. Sends({"key"} \X KeyCodes[s], state) /\ UNCHANGED <<down, held>>
        /\ kdc' \subseteq KeyStrings
    BY <1>0, <1>3 DEF KeyStroke, server
  <2>. QED  BY <1>2, <2>1, <2>2
<1>4. ASSUME NEW b \in Buttons, NEW state \in States, MouseClick(b, state)
      PROVE  /\ UNCHANGED <<down, held, kdc>>
             /\ sending' \in [press : SUBSET Inputs, release : SUBSET Inputs]
  <2>1. {<<"button", b>>} \subseteq Inputs
    BY DEF Inputs
  <2>2. Sends({<<"button", b>>}, state) /\ UNCHANGED <<down, held, kdc>>
    BY <1>4 DEF MouseClick, server
  <2>. QED  BY <1>2, <2>1, <2>2
<1>5. CASE MainStep
  <2>1. CASE Join
    BY <1>0, <2>1 DEF Join, KeysUp
  <2>2. CASE SendStep
    BY <1>0, <2>2 DEF SendStep, SendPress, SendRelease
  <2>3. Silent => UNCHANGED <<down, held, kdc, sending>>
    BY DEF Silent, server
  <2>. QED  BY <1>0, <1>1, <1>3, <1>4, <1>5, <2>1, <2>2, <2>3, MainSteps
            DEF WaitReturns, WaitUntilKey, WaitUntilButton, StartWait, RefuseWait, SendEnds
<1>6. CASE SpuriousWakeup \/ ListenerStep \/ UNCHANGED vars
  BY <1>1, <1>6, OthersServer
<1>7. CASE UserStep
  BY <1>0, <1>7 DEF UserStep, Press, Release, Repeat, UserActs
<1>. QED  BY <1>5, <1>6, <1>7 DEF Next

\* The types follow from the parts above.
LEMMA TypeStep == Inv /\ [Next]_vars => TypeOK'
<1> SUFFICES ASSUME Inv, [Next]_vars PROVE TypeOK'
  OBVIOUS
<1>0. TypeOK /\ WaitOK
  BY DEF Inv
<1>1. grabs' \in Grabs
  BY GrabsStep DEF GrabsOK
<1>2. queue' \in Seq(Events) /\ told' \subseteq Inputs
  <2>1. queue' \in Seq(Events) /\ Len(queue') \in Nat /\ Len(queue) \in Nat
    BY <1>0, QueueChanges
  <2>2. CASE told' = told
    BY <1>0, <2>1, <2>2 DEF TypeOK
  <2>3. ASSUME Len(queue') = Len(queue) + 1,
               told' = IF queue'[Len(queue')].press
                       THEN told \union {queue'[Len(queue')].input}
                       ELSE told \ {queue'[Len(queue')].input}
        PROVE  queue' \in Seq(Events) /\ told' \subseteq Inputs
    <3>0. queue'[Len(queue')] \in Events
      <4>1. \A q \in Seq(Events) : \A i \in 1 .. Len(q) : q[i] \in Events
        OBVIOUS
      <4>2. Len(queue') \in 1 .. Len(queue')
        BY <2>1, <2>3
      <4>. QED  BY <2>1, <4>1, <4>2
    <3>1. queue'[Len(queue')].input \in Inputs
      BY <3>0 DEF Events
    <3>2. told' \subseteq told \union {queue'[Len(queue')].input}
      BY <2>3
    <3>3. told \subseteq Inputs
      BY <1>0 DEF TypeOK
    <3>. QED  BY <2>1, <3>1, <3>2, <3>3
  <2>. QED  BY <1>0, <2>2, <2>3, QueueChanges
<1>3. /\ down' \subseteq Inputs /\ held' \subseteq Inputs /\ kdc' \subseteq KeyStrings
      /\ sending' \in [press : SUBSET Inputs, release : SUBSET Inputs]
  BY SendTypes
<1>8. key_grab' \subseteq {"key"} \X Codes /\ button_grab' \in BOOLEAN
  <2>0. /\ key_grab \subseteq {"key"} \X Codes /\ button_grab \in BOOLEAN
        /\ \A input \in Inputs : IsButton(input) \/ input \in {"key"} \X Codes
    BY <1>0 DEF TypeOK, Inputs, IsButton
  <2>1. ASSUME NEW input \in Inputs, NEW state \in Modifiers, NEW own \in BOOLEAN,
               Pressed(input, state, own)
        PROVE  key_grab' \subseteq {"key"} \X Codes /\ button_grab' \in BOOLEAN
    BY <2>0, <2>1 DEF Pressed, NoEvent, IsButton
  <2>2. ASSUME NEW input \in Inputs, NEW own \in BOOLEAN, Released(input, own, Down \ {input})
        PROVE  key_grab' \subseteq {"key"} \X Codes /\ button_grab' \in BOOLEAN
    BY <2>0, <2>2 DEF Released
  <2>3. CASE Join
    BY <2>0, <2>3 DEF Join
  <2>. QED  BY <1>0, <2>0, <2>1, <2>2, <2>3, ServerSteps DEF NoEvent
<1> DEFINE Waits == [do_wait_cond : BOOLEAN, wait_for_key : BOOLEAN,
                     wait_for_button : BOOLEAN, wait_button : Buttons \union {1},
                     wait_cond_inv : BOOLEAN, operand : SUBSET Keys]
<1>4. wait' \in Waits
  <2>0. wait \in Waits
    BY <1>0 DEF TypeOK
  <2>1. CASE UNCHANGED wait
    BY <2>0, <2>1
  <2>2. CASE WaitReturns
    BY <2>0, <2>2 DEF WaitReturns
  <2>3. ASSUME NEW k \in Keys, NEW inv \in BOOLEAN, WaitUntilKey(k, inv) PROVE wait' \in Waits
    BY <2>0, <2>3 DEF WaitUntilKey, StartWait, RefuseWait
  <2>4. ASSUME NEW b \in Buttons, NEW held_down \in BOOLEAN, NEW inv \in BOOLEAN,
               WaitUntilButton(b, held_down, inv)
        PROVE  wait' \in Waits
    BY <2>0, <2>4 DEF WaitUntilButton, StartWait, RefuseWait
  <2>5. CASE MainStep
    <3>1. \/ Join \/ SendStep \/ SendEnds
          \/ \E s \in KeyStrings, state \in States : KeyStroke(s, state)
          \/ \E b \in Buttons, state \in States : MouseClick(b, state)
          => UNCHANGED wait
      BY DEF Join, KeyStroke, MouseClick, SendStep, SendPress, SendRelease, SendEnds
    <3>. QED  BY <2>1, <2>2, <2>3, <2>4, <2>5, <3>1, MainSteps
  <2>6. CASE SpuriousWakeup \/ ListenerStep \/ UserStep \/ UNCHANGED vars
    BY <2>1, <2>6, OthersSteps
  <2>. QED  BY <2>5, <2>6 DEF Next
<1>5. /\ mutex' \in BOOLEAN
      /\ listener' \in {"start", "sleep", "drain", "check", "exited"}
      /\ escape_grab' \in BOOLEAN
  <2>1. CASE MainStep
    BY <1>0, <2>1, MainSteps DEF TypeOK
  <2>2. CASE ListenerStep
    BY <1>0, <2>2
       DEF ListenerStep, ListenerStart, ListenerWakes, DrainEscape, DrainInput, DrainEnds,
           ListenerCheck, ListenerLoopTest, ListenerMoves, TypeOK
  <2>3. CASE UserStep
    BY <1>0, <2>3 DEF UserStep, Press, Release, Repeat, UserActs, TypeOK
  <2>4. CASE SpuriousWakeup \/ UNCHANGED vars
    BY <1>0, <2>4 DEF SpuriousWakeup, MainMoves, vars, TypeOK
  <2>. QED  BY <2>1, <2>2, <2>3, <2>4 DEF Next
<1>6. main' \in Sending \union {"begin", "command", "next", "failed", "wait", "woken", "join",
                                "ended", "aborted"}
  <2>1. CASE MainStep
    BY <2>1, MainSteps
       DEF Join, WaitReturns, WaitUntilKey, WaitUntilButton, StartWait, RefuseWait, MainMoves,
           KeyStroke, MouseClick, SendStep, SendPress, SendRelease, SendEnds, Sending
  <2>2. CASE SpuriousWakeup \/ ListenerStep \/ UserStep \/ UNCHANGED vars
    BY <1>0, <2>2, OthersSteps DEF TypeOK
  <2>. QED  BY <2>1, <2>2 DEF Next
<1>7. program_done' \in BOOLEAN
  <2>1. program_done \in BOOLEAN
    BY <1>0 DEF TypeOK
  <2>2. program_done' \in {program_done, TRUE} \/ \E last \in BOOLEAN : EndStep(last)
    <3>1. CASE MainStep
      <4>1. CASE \E s \in KeyStrings : \E state \in States : KeyStroke(s, state)
        BY <4>1 DEF KeyStroke
      <4>2. CASE \E k \in Keys :
                   GrabKey(k) \/ UngrabKey(k) \/ \E inv \in BOOLEAN : WaitUntilKey(k, inv)
        BY <4>2 DEF GrabKey, UngrabKey, WaitUntilKey, Regrab, StartWait, RefuseWait
      <4>3. CASE \E b \in Buttons :
                   \/ (\E state \in States : MouseClick(b, state)) \/ GrabButton(b)
                   \/ UngrabButton(b)
                   \/ \E held_down, inv \in BOOLEAN : WaitUntilButton(b, held_down, inv)
        BY <4>3 DEF MouseClick, GrabButton, UngrabButton, WaitUntilButton, Regrab, StartWait,
                    RefuseWait
      <4>4. CASE UngrabKeyAll \/ UngrabButtonAll \/ WaitReturns \/ SendStep \/ SendEnds
        BY <4>4 DEF UngrabKeyAll, UngrabButtonAll, Regrab, WaitReturns, SendStep, SendPress,
                    SendRelease, SendEnds
      <4>5. CASE Begin \/ Join \/ Abort \/ OtherCommand \/ StopRun
        BY <4>5 DEF Begin, LoopTest, Abort, Join, OtherCommand, StopRun
      <4>. QED  BY <3>1, <4>1, <4>2, <4>3, <4>4, <4>5 DEF MainStep, SendStep
    <3>2. CASE ListenerStep
      BY <3>2 DEF ListenerStep, ListenerStart, ListenerWakes, DrainEscape, DrainInput,
                  DrainEnds, ListenerCheck
    <3>3. CASE SpuriousWakeup \/ UserStep \/ UNCHANGED vars
      BY <3>3 DEF SpuriousWakeup, UserStep, Press, Release, Repeat, UserActs, vars
    <3>. QED  BY <3>1, <3>2, <3>3 DEF Next
  <2>. QED  BY <2>1, <2>2 DEF EndStep, LoopTest
<1>. QED  BY <1>1, <1>2, <1>3, <1>4, <1>5, <1>6, <1>7, <1>8 DEF TypeOK

\* The invariant holds in every state of a run.
LEMMA InvAlways == Spec => []Inv
<1>1. Inv /\ [Next]_vars => Inv'
  <2> SUFFICES ASSUME Inv, [Next]_vars PROVE Inv'
    OBVIOUS
  <2>1. GrabsOK(grabs)'
    BY GrabsStep
  <2>. QED  BY <2>1, TypeStep, ThreadsStep, WaitStep, HeldStep, ServerStep DEF Inv
<1>. QED  BY <1>1, InitInv, PTL DEF Spec

-----------------------------------------------------------------------------
(* Keys and buttons that are held.                                            *)

\* An event of the input is still to be read, or its last one was a press.
Current(input) == input \in told \/ Queued(input)

\* QueueOK is inductive: what changes told joins the queue.
LEMMA QueueOKStep == Inv /\ QueueOK /\ [Next]_vars => QueueOK'
<1> SUFFICES ASSUME Inv, QueueOK, [Next]_vars, NEW i \in 1 .. Len(queue'), queue'[i].press
             PROVE  \/ queue'[i].input \in told'
                    \/ \E j \in i + 1 .. Len(queue') : queue'[j].input = queue'[i].input
  BY DEF QueueOK, FollowedUp
<1>0. /\ TypeOK /\ queue \in Seq(Events) /\ queue' \in Seq(Events)
      /\ Len(queue) \in Nat /\ Len(queue') \in Nat
  BY QueueChanges DEF Inv
<1>1. \A k \in 1 .. Len(queue) :
        queue[k].press =>
          queue[k].input \in told \/ \E j \in k + 1 .. Len(queue) : queue[j].input = queue[k].input
  BY DEF QueueOK, FollowedUp
<1>2. CASE queue' = queue /\ told' = told
  BY <1>0, <1>1, <1>2
<1>3. CASE /\ Len(queue') = Len(queue) - 1
           /\ \A k \in 1 .. Len(queue') : queue'[k] = queue[k + 1]
           /\ told' = told
  <2>1. i + 1 \in 1 .. Len(queue) /\ queue'[i] = queue[i + 1]
    BY <1>0, <1>3
  <2>2. CASE queue[i + 1].input \in told
    BY <1>3, <2>1, <2>2
  <2>3. ASSUME NEW j \in i + 2 .. Len(queue), queue[j].input = queue[i + 1].input
        PROVE  \E k \in i + 1 .. Len(queue') : queue'[k].input = queue'[i].input
    <3>1. j - 1 \in i + 1 .. Len(queue') /\ queue'[j - 1] = queue[j]
      BY <1>0, <1>3, <2>3
    <3>. QED  BY <2>1, <2>3, <3>1
  <2>. QED  BY <1>0, <1>1, <2>1, <2>2, <2>3
<1>4. CASE /\ Len(queue') = Len(queue) + 1
           /\ \A k \in 1 .. Len(queue) : queue'[k] = queue[k]
           /\ told' = IF queue'[Len(queue')].press
                      THEN told \union {queue'[Len(queue')].input}
                      ELSE told \ {queue'[Len(queue')].input}
  <2>1. CASE i <= Len(queue)
    <3>1. i \in 1 .. Len(queue) /\ queue'[i] = queue[i]
      BY <1>0, <1>4, <2>1
    <3>2. ASSUME NEW j \in i + 1 .. Len(queue), queue[j].input = queue[i].input
          PROVE  \E k \in i + 1 .. Len(queue') : queue'[k].input = queue'[i].input
      <4>1. j \in i + 1 .. Len(queue') /\ queue'[j] = queue[j]
        BY <1>0, <1>4, <3>1
      <4>. QED  BY <3>1, <3>2, <4>1
    <3>3. CASE queue[i].input \in told /\ queue[i].input \notin told'
      <4>1. queue'[Len(queue')].input = queue[i].input /\ Len(queue') \in i + 1 .. Len(queue')
        BY <1>0, <1>4, <3>1, <3>3
      <4>. QED  BY <3>1, <4>1
    <3>. QED  BY <1>1, <3>1, <3>2, <3>3
  <2>2. CASE i > Len(queue)
    <3>1. i = Len(queue')
      BY <1>0, <1>4, <2>2
    <3>. QED  BY <1>4, <3>1
  <2>. QED  BY <1>0, <2>1, <2>2
<1>. QED  BY <1>0, <1>2, <1>3, <1>4, QueueChanges

\* An input stays current until the listener reads its last event.
LEMMA CurrentKept ==
  ASSUME Inv, [Next]_vars, NEW input, Current(input)
  PROVE  \/ Current(input)'
         \/ (DrainEscape \/ DrainInput) /\ Head(queue).input = input
<1>0. /\ TypeOK /\ queue \in Seq(Events) /\ queue' \in Seq(Events)
      /\ Len(queue) \in Nat /\ Len(queue') \in Nat
  BY QueueChanges DEF Inv
<1>1. CASE queue' = queue /\ told' = told
  BY <1>1 DEF Current, Queued
<1>2. CASE /\ DrainEscape \/ DrainInput
           /\ queue # <<>> /\ Head(queue) = queue[1] /\ Len(queue') = Len(queue) - 1
           /\ \A i \in 1 .. Len(queue') : queue'[i] = queue[i + 1]
           /\ told' = told
  <2>1. CASE input \in told
    BY <1>2, <2>1 DEF Current
  <2>2. ASSUME NEW i \in 1 .. Len(queue), queue[i].input = input, i # 1
        PROVE  Current(input)'
    <3>1. i - 1 \in 1 .. Len(queue') /\ queue'[i - 1] = queue[i]
      BY <1>0, <1>2, <2>2
    <3>. QED  BY <2>2, <3>1 DEF Current, Queued
  <2>. QED  BY <1>2, <2>1, <2>2 DEF Current, Queued
<1>3. CASE /\ Len(queue') = Len(queue) + 1
           /\ \A i \in 1 .. Len(queue) : queue'[i] = queue[i]
           /\ told' = IF queue'[Len(queue')].press
                      THEN told \union {queue'[Len(queue')].input}
                      ELSE told \ {queue'[Len(queue')].input}
  <2>1. ASSUME NEW i \in 1 .. Len(queue), queue[i].input = input
        PROVE  Current(input)'
    <3>1. i \in 1 .. Len(queue') /\ queue'[i] = queue[i]
      BY <1>0, <1>3
    <3>. QED  BY <2>1, <3>1 DEF Current, Queued
  <2>2. CASE input \in told /\ input \notin told'
    <3>1. queue'[Len(queue')].input = input /\ Len(queue') \in 1 .. Len(queue')
      BY <1>0, <1>3, <2>2
    <3>. QED  BY <3>1 DEF Current, Queued
  <2>. QED  BY <2>1, <2>2 DEF Current, Queued
<1>. QED  BY <1>0, <1>1, <1>2, <1>3, QueueChanges

\* A press that the listener reads is of an input that is current still.
LEMMA PressRead ==
  ASSUME Inv, QueueOK, [Next]_vars, DrainInput, Head(queue).press,
         NEW input, Head(queue).input = input
  PROVE  Current(input)'
<1>0. /\ TypeOK /\ queue \in Seq(Events) /\ queue' \in Seq(Events)
      /\ Len(queue) \in Nat /\ Len(queue') \in Nat
  BY QueueChanges DEF Inv
<1>1. queue # <<>> /\ queue' = Tail(queue) /\ told' = told
  BY DEF DrainInput, ListenerMoves
<1>2. /\ Head(queue) = queue[1] /\ Len(queue') = Len(queue) - 1 /\ Len(queue) > 0
      /\ \A i \in 1 .. Len(queue') : queue'[i] = queue[i + 1]
  BY <1>0, <1>1, HeadOfQueue
<1>3. input \in told \/ \E j \in 2 .. Len(queue) : queue[j].input = input
  BY <1>0, <1>2 DEF QueueOK, FollowedUp
<1>4. ASSUME NEW j \in 2 .. Len(queue), queue[j].input = input
      PROVE  Current(input)'
  <2>1. j - 1 \in 1 .. Len(queue') /\ queue'[j - 1] = queue[j]
    BY <1>0, <1>2
  <2>. QED  BY <1>4, <2>1 DEF Current, Queued
<1>. QED  BY <1>1, <1>3, <1>4 DEF Current

\* Only what the listener reads presses keys and buttons.
LEMMA PressedSteps ==
  ASSUME Inv, [Next]_vars
  PROVE  \/ DrainInput
         \/ /\ grabs'.ks_pressed \subseteq grabs.ks_pressed
            /\ grabs'.b_pressed \subseteq grabs.b_pressed
<1>0. grabs \in Grabs /\ GrabsOK(grabs) /\ TypeOK /\ WaitOK
  BY DEF Inv, TypeOK
<1> DEFINE Less(g) == g.ks_pressed \subseteq grabs.ks_pressed
                      /\ g.b_pressed \subseteq grabs.b_pressed
<1>1. ASSUME NEW k \in Keys PROVE Less(KAdded(grabs, k)) /\ Less(KRemoved(grabs, k))
  BY <1>0 DEF KAdded, KRemoved, Grabs
<1>2. Less(KRemovedAll(grabs)) /\ Less(BRemovedAll(grabs)) /\ Less(Freed(grabs))
  BY <1>0 DEF KRemovedAll, BRemovedAll, Freed, km_grabs_new, Grabs
<1>3. Less(KeysLifted(grabs)) /\ Less(KeysRestored(grabs))
  BY <1>0 DEF KeysRestored, KeysLifted, KToggled, Grabs
<1>4. ASSUME NEW toggle \in BOOLEAN PROVE Less(BToggled(grabs, toggle))
  BY <1>0, ButtonToggledOK
<1>5. ASSUME NEW b \in Buttons \union {1}
      PROVE  Less(BRemoved(grabs, b)) /\ \A held_down : Less(BAdded(grabs, b, held_down))
  BY <1>0 DEF BRemoved, BAdded, Grabs
<1> HIDE DEF Less
<1>6. CASE UNCHANGED grabs
  BY <1>6
<1>7. CASE MainStep
  <2>1. ASSUME NEW s \in KeyStrings, NEW state \in States, KeyStroke(s, state)
        PROVE  Less(grabs')
    BY <1>3, <2>1 DEF KeyStroke
  <2>2. ASSUME NEW k \in Keys,
               GrabKey(k) \/ UngrabKey(k) \/ \E inv \in BOOLEAN : WaitUntilKey(k, inv)
        PROVE  Less(grabs') \/ UNCHANGED grabs
    BY <1>1, <2>2 DEF GrabKey, UngrabKey, WaitUntilKey, Regrab, StartWait, RefuseWait
  <2>3. ASSUME NEW b \in Buttons,
               \/ (\E state \in States : MouseClick(b, state)) \/ GrabButton(b)
               \/ UngrabButton(b)
               \/ \E held_down, inv \in BOOLEAN : WaitUntilButton(b, held_down, inv)
        PROVE  Less(grabs') \/ UNCHANGED grabs
    <3>1. CASE \E state \in States : MouseClick(b, state)
      BY <1>4, <3>1 DEF MouseClick
    <3>2. CASE GrabButton(b) \/ UngrabButton(b)
      BY <1>5, <3>2 DEF GrabButton, UngrabButton, Regrab
    <3>3. CASE \E held_down, inv \in BOOLEAN : WaitUntilButton(b, held_down, inv)
      BY <1>5, <3>3 DEF WaitUntilButton, StartWait, RefuseWait
    <3>. QED  BY <2>3, <3>1, <3>2, <3>3
  <2>4. CASE UngrabKeyAll \/ UngrabButtonAll \/ Join
    <3>1. Less(grabs')
      BY <1>2, <2>4 DEF UngrabKeyAll, UngrabButtonAll, Regrab, Join
    <3>. QED  BY <3>1 DEF Less
  <2>5. CASE WaitReturns
    <3>1. CASE wait.wait_for_key
      <4>1. (CHOOSE k \in wait.operand : TRUE) \in Keys
        BY <1>0, <3>1, Waited
      <4>2. Less(grabs')
        BY <1>1, <2>5, <3>1, <4>1 DEF WaitReturns
      <4>. QED  BY <4>2 DEF Less
    <3>2. CASE ~wait.wait_for_key
      <4>1. wait.wait_button \in Buttons \union {1}
        BY <1>0 DEF TypeOK
      <4>2. Less(grabs')
        BY <1>5, <2>5, <3>2, <4>1 DEF WaitReturns
      <4>. QED  BY <4>2 DEF Less
    <3>. QED  BY <3>1, <3>2
  <2>6. CASE Begin \/ (\E last \in BOOLEAN : EndStep(last)) \/ Abort \/ OtherCommand \/ StopRun
             \/ SendStep
    BY <2>6 DEF Begin, EndStep, LoopTest, Abort, OtherCommand, StopRun, SendStep, SendPress,
                SendRelease
  <2>7. CASE SendEnds
    <3>1. Less(grabs')
      BY <1>3, <1>4, <2>7 DEF SendEnds
    <3>. QED  BY <3>1 DEF Less
  <2>. QED  BY <1>6, <1>7, <2>1, <2>2, <2>3, <2>4, <2>5, <2>6, <2>7 DEF MainStep, SendStep, Less
<1>8. CASE ListenerStep /\ ~DrainInput
  BY <1>6, <1>8 DEF ListenerStep, ListenerStart, ListenerWakes, DrainEscape, DrainEnds,
                    ListenerCheck
<1>9. CASE SpuriousWakeup \/ UserStep \/ UNCHANGED vars
  BY <1>6, <1>9 DEF SpuriousWakeup, UserStep, Press, Release, Repeat, UserActs, vars
<1>. QED  BY <1>7, <1>8, <1>9 DEF Next

\* A key that becomes pressed was just read, and a release behind it is in the queue.
LEMMA PressedKeysStep ==
  Inv /\ QueueOK /\ PressedKeysAreTold /\ [Next]_vars => PressedKeysAreTold'
<1> SUFFICES ASSUME Inv, QueueOK, PressedKeysAreTold, [Next]_vars,
                    NEW k \in grabs'.ks_pressed
             PROVE  Current(<<"key", k.keycode>>)'
  BY DEF PressedKeysAreTold, Current, Queued
<1> DEFINE input == <<"key", k.keycode>>
           e     == Head(queue)
<1>0. TypeOK /\ GrabsOK(grabs)
  BY DEF Inv
<1>1. CASE k \in grabs.ks_pressed /\ ~((DrainEscape \/ DrainInput) /\ e.input = input)
  <2>1. Current(input)
    BY <1>1 DEF PressedKeysAreTold, Current
  <2>. QED  BY <1>1, <2>1, CurrentKept
<1>2. CASE DrainInput /\ (k \notin grabs.ks_pressed \/ e.input = input)
  <2>0. queue # <<>>
    BY <1>2 DEF DrainInput
  <2>1. \/ e.input[1] = "key" /\ grabs' = KSeen(grabs, e.input[2], e.state, e.press)
        \/ e.input[1] # "key" /\ e.input[2] \in Buttons
           /\ grabs' = BSeen(grabs, e.input[2], e.press)
    BY <1>0, <1>2, <2>0, HeadOfQueue DEF DrainInput, Escape
  <2>2. e.input[1] = "key" /\ grabs' = KSeen(grabs, e.input[2], e.state, e.press)
    <3>1. CASE e.input[1] # "key"
      <4>1. grabs'.ks_pressed = grabs.ks_pressed
        BY <1>0, <2>1, <3>1 DEF BSeen, TypeOK, Grabs
      <4>2. e.input # input
        BY <3>1
      <4>. QED  BY <1>2, <4>1, <4>2
    <3>. QED  BY <2>1, <3>1
  <2>3. e.input = <<"key", e.input[2]>>
    BY <1>0, <2>0, <2>2, HeadOfQueue DEF Escape
  <2>5. e.press /\ k.keycode = e.input[2]
    <3>1. grabs'.ks_pressed =
            (grabs.ks_pressed \ {l \in Listed(grabs) : l.keycode = e.input[2]})
              \union {l \in {m \in Listed(grabs) : m.keycode = e.input[2]} :
                        l.modifier = e.state /\ e.press}
      BY <1>0, <2>2 DEF KSeen, TypeOK, Grabs
    <3>2. k \in Listed(grabs)
      BY <1>0, <3>1 DEF GrabsOK
    <3>3. e.input = input => k.keycode = e.input[2]
      OBVIOUS
    <3>. QED  BY <1>2, <3>1, <3>2, <3>3
  <2>. QED  BY <1>2, <2>3, <2>5, PressRead
<1>3. CASE DrainEscape /\ e.input = input
  <2>1. Escape = input /\ k \in Keys /\ queue # <<>>
    <3>1. k \in grabs'.ks_pressed /\ grabs' = grabs /\ grabs.ks_pressed \subseteq Keys
      BY <1>0, <1>3 DEF DrainEscape, TypeOK, Grabs
    <3>. QED  BY <1>3, <3>1 DEF DrainEscape
  <2>. QED  BY <2>1, KeyStringsAssumption DEF Escape
<1>4. CASE k \notin grabs.ks_pressed
  BY <1>2, <1>4, PressedSteps
<1>. QED  BY <1>1, <1>2, <1>3, <1>4

\* The same of buttons.
PressedButtonsAreTold == \A b \in grabs.b_pressed : Current(<<"button", b>>)

\* A button that becomes pressed was just read, and a release behind it is in the queue.
LEMMA PressedButtonsStep ==
  Inv /\ QueueOK /\ PressedButtonsAreTold /\ [Next]_vars => PressedButtonsAreTold'
<1> SUFFICES ASSUME Inv, QueueOK, PressedButtonsAreTold, [Next]_vars,
                    NEW b \in grabs'.b_pressed
             PROVE  Current(<<"button", b>>)'
  BY DEF PressedButtonsAreTold
<1> DEFINE input == <<"button", b>>
           e     == Head(queue)
<1>0. TypeOK /\ GrabsOK(grabs)
  BY DEF Inv
<1>1. CASE b \in grabs.b_pressed /\ ~((DrainEscape \/ DrainInput) /\ e.input = input)
  <2>1. Current(input)
    BY <1>1 DEF PressedButtonsAreTold
  <2>. QED  BY <1>1, <2>1, CurrentKept
<1>2. CASE DrainInput /\ (b \notin grabs.b_pressed \/ e.input = input)
  <2>0. queue # <<>>
    BY <1>2 DEF DrainInput
  <2>1. \/ e.input[1] = "key" /\ grabs' = KSeen(grabs, e.input[2], e.state, e.press)
        \/ e.input[1] # "key" /\ e.input[2] \in Buttons
           /\ grabs' = BSeen(grabs, e.input[2], e.press)
    BY <1>0, <1>2, <2>0, HeadOfQueue DEF DrainInput, Escape
  <2>2. e.input[1] # "key" /\ e.input[2] \in Buttons
        /\ grabs' = BSeen(grabs, e.input[2], e.press)
    <3>1. CASE e.input[1] = "key" /\ grabs' = KSeen(grabs, e.input[2], e.state, e.press)
      <4>1. grabs'.b_pressed = grabs.b_pressed
        BY <1>0, <3>1 DEF KSeen, TypeOK, Grabs
      <4>2. e.input # input
        BY <3>1
      <4>. QED  BY <1>2, <4>1, <4>2
    <3>. QED  BY <2>1, <3>1
  <2>3. e.input = <<"button", e.input[2]>>
    BY <1>0, <1>2, <2>0, <2>2, HeadOfQueue DEF DrainInput
  <2>5. e.press /\ b = e.input[2]
    <3>1. grabs'.b_pressed = IF e.press THEN grabs.b_pressed \union {e.input[2]}
                             ELSE grabs.b_pressed \ {e.input[2]}
      BY <1>0, <2>2 DEF BSeen, TypeOK, Grabs
    <3>2. e.input = input => b = e.input[2]
      OBVIOUS
    <3>. QED  BY <1>2, <3>1, <3>2
  <2>. QED  BY <1>2, <2>3, <2>5, PressRead
<1>3. CASE DrainEscape /\ e.input = input
  BY <1>3 DEF DrainEscape, Escape
<1>4. CASE b \notin grabs.b_pressed
  BY <1>2, <1>4, PressedSteps
<1>. QED  BY <1>1, <1>2, <1>3, <1>4

\* While the grabs are lifted only an active grab or Escape brings the player an event
\* of the macro's own keys.
LEMMA OwnKeysStep ==
  ASSUME Inv, [Next]_vars, main = "keys", Len(queue') > Len(queue), Newest'.own
  PROVE  key_grab # {} \/ Newest'.input = Escape
<1>0. /\ TypeOK /\ ThreadsOK /\ queue \in Seq(Events) /\ Len(queue) \in Nat /\ 0 \in Modifiers
      /\ sending.press \subseteq Inputs /\ sending.release \subseteq Inputs
  BY DEF Inv, TypeOK, Modifiers
<1>1. CASE UNCHANGED queue
  BY <1>0, <1>1
<1>2. ASSUME NEW input \in Inputs, NEW state \in Modifiers, SendPress(input, state), ~NoEvent
      PROVE  key_grab # {} \/ Newest'.input = Escape
  <2>1. ~IsButton(input) /\ Pressed(input, state, TRUE)
    BY <1>0, <1>2 DEF SendPress, ThreadsOK
  <2>2. CASE Active(input)
    BY <2>1, <2>2 DEF Active
  <2>3. CASE CoveredPress(input, state) /\ ~Active(input)
    <3>1. input = Escape
      BY <1>0, <2>1, <2>3 DEF CoveredPress, ThreadsOK
    <3>2. queue' = Append(queue, Event(input, state, TRUE, TRUE))
      BY <2>1, <2>3 DEF Pressed
    <3>. QED  BY <1>0, <3>1, <3>2, Appended DEF Newest
  <2>. QED  BY <1>2, <2>1, <2>2, <2>3 DEF Pressed
<1>3. ASSUME NEW input \in Inputs, SendRelease(input), ~NoEvent
      PROVE  key_grab # {} \/ UNCHANGED queue
  <2>1. ~IsButton(input) /\ \E still : Released(input, TRUE, still)
    BY <1>0, <1>3 DEF SendRelease, ThreadsOK
  <2>. QED  BY <2>1 DEF Released, Active
<1>4. ASSUME NEW input \in Inputs, NEW state \in Modifiers,
             Press(input, state) \/ Repeat(input, state), ~UNCHANGED queue
      PROVE  FALSE
  <2>1. queue' = Append(queue, Event(input, state, TRUE, FALSE))
    BY <1>4 DEF Press, Repeat, Pressed, NoEvent
  <2>. QED  BY <1>0, <2>1, Appended DEF Newest
<1>5. ASSUME NEW input \in Inputs, Release(input), ~UNCHANGED queue
      PROVE  FALSE
  <2>1. queue' = Append(queue, Event(input, 0, FALSE, FALSE))
    BY <1>5 DEF Release, Released, NoEvent
  <2>. QED  BY <1>0, <2>1, Appended DEF Newest
<1>6. CASE MainStep
  <2>1. SendStep \/ SendEnds
    BY <1>6, MainSteps
       DEF Join, WaitReturns, WaitUntilKey, WaitUntilButton, KeyStroke, MouseClick, Command
  <2>2. CASE SendEnds
    BY <1>1, <2>2 DEF SendEnds, Silent, server
  <2>. QED  BY <1>1, <1>2, <1>3, <2>1, <2>2 DEF SendStep, NoEvent
<1>7. CASE SpuriousWakeup \/ ListenerStep \/ UNCHANGED vars
  <2>1. CASE DrainEscape \/ DrainInput
    <3>1. queue # <<>> /\ queue' = Tail(queue)
      BY <2>1 DEF DrainEscape, DrainInput
    <3>. QED  BY <1>0, <3>1, HeadOfQueue
  <2>. QED  BY <1>1, <1>7, <2>1, OthersServer
<1>8. CASE UserStep
  BY <1>1, <1>4, <1>5, <1>8 DEF UserStep
<1>. QED  BY <1>6, <1>7, <1>8 DEF Next

-----------------------------------------------------------------------------
(* The theorems.                                                              *)

\* Every variable keeps its type, whatever the main thread, the listener and the
\* user do, and in whatever order.
THEOREM TypeCorrect == Spec => []TypeOK
<1>1. Inv => TypeOK
  BY DEF Inv
<1>. QED  BY <1>1, InvAlways, PTL

\* The key that the listener looks at for a waiting main thread (the last of
\* ks_arr) is the one CMD_WaitUntilKey waits for, for any number of grabbed keys.
THEOREM ListenerLooksAtWaitedKey == Spec => []WaitedKeyIsLast
<1>1. Inv => WaitedKeyIsLast
  BY DEF Inv, WaitOK, WaitedKeyIsLast
<1>. QED  BY <1>1, InvAlways, PTL

\* CMD_KeyStroke lifts the grab of every key, of whatever keys and modifiers, before
\* it sends: an event of its own reaches the player only while the user or the macro
\* holds a key whose press activated a grab before (which XUngrabKey does not end),
\* or if it is Escape, which the listener grabs.
THEOREM OwnKeysSeenOnlyUnderGrab == Spec => OwnKeysNeedAGrab
<1>1. Inv /\ [Next]_vars =>
        [main = "keys" /\ Len(queue') > Len(queue) /\ Newest'.own
           => key_grab # {} \/ Newest'.input = Escape]_vars
  BY OwnKeysStep
<1>. QED  BY <1>1, InvAlways, PTL DEF Spec, OwnKeysNeedAGrab

\* When a run has ended, no key is down that the macro pressed and nothing of its
\* grabs is left on the X server: end_program, km_grabs_free, and the listener,
\* which ungrabs Escape before it exits.
THEOREM RunLeavesNothing == Spec => []NothingLeftBehind
<1>1. Inv => NothingLeftBehind
  BY DEF Inv, ThreadsOK, NothingLeftBehind
<1>. QED  BY <1>1, InvAlways, PTL

\* A listed key that the player takes to be held is one that the X server told it is
\* pressed, or an event of it is to be read, for any sequence of grabs, keystrokes,
\* clicks and user input: ks_pressed is as true as the events are.
THEOREM KeysTakenAsTold == Spec => []PressedKeysAreTold
<1>1. Init => PressedKeysAreTold
  BY DEF Init, km_grabs_new, PressedKeysAreTold
<1>. QED  BY <1>1, InitInv, InvAlways, QueueOKStep, PressedKeysStep, PTL DEF Spec

\* A button that the player takes to be held is held, or an event of it is to be read:
\* the pointer grab lasts until the last button goes up, so that, unlike that of a key,
\* the release of a button whose press was read is delivered; also when the press was
\* one of the macro's own clicks, for which km_grabs_btoggle lifts the wrong grab.
THEOREM ButtonsTakenAsHeldAre == Spec => []PressedButtonsAreHeld
<1>1. Init => PressedButtonsAreTold
  BY DEF Init, km_grabs_new, PressedButtonsAreTold
<1>2. Inv /\ PressedButtonsAreTold => PressedButtonsAreHeld
  <2>1. \A b : IsButton(<<"button", b>>)
    BY DEF IsButton
  <2>. QED  BY <2>1 DEF Inv, ServerOK, PressedButtonsAreTold, PressedButtonsAreHeld, Current
<1>. QED  BY <1>1, <1>2, InitInv, InvAlways, QueueOKStep, PressedButtonsStep, PTL DEF Spec

\* No two keys of the macro share keycode and modifier (two keysyms of one keycode
\* do, and then one ungrabs the other).
KeysDistinct == \A k, l \in Keys : Passive(k) = Passive(l) => k = l

\* Every key of g is grabbed.
AllGrabbed(g) == \A k \in Listed(g) : Passive(k) \in g.x_keys

\* What is ungrabbed is one key, and no other key has its grab; and what a keystroke
\* lifts comes back when it ends.
LEMMA GrabbedStep ==
  ASSUME KeysDistinct
  PROVE  Inv /\ KeysStayGrabbed /\ [Next]_vars => KeysStayGrabbed'
<1> SUFFICES ASSUME Inv, main # "keys" => AllGrabbed(grabs), [Next]_vars, main' # "keys"
             PROVE  AllGrabbed(grabs')
  BY DEF KeysStayGrabbed, AllGrabbed, Listed
<1>0. GrabsOK(grabs) /\ TypeOK /\ WaitOK /\ grabs \in Grabs
  BY DEF Inv, TypeOK
<1>1. ASSUME NEW k \in Keys, AllGrabbed(grabs)
      PROVE  AllGrabbed(KAdded(grabs, k)) /\ AllGrabbed(KRemoved(grabs, k))
  <2>1. CASE k \in Listed(grabs)
    <3>1. KAdded(grabs, k) = grabs
      BY <2>1 DEF KAdded
    <3>2. KRemoved(grabs, k).x_keys = grabs.x_keys \ {Passive(k)}
      BY <1>0, <2>1 DEF KRemoved, Grabs
    <3>3. Listed(KRemoved(grabs, k)) = Listed(grabs) \ {k}
      BY <1>0, RemovedOK
    <3>4. Listed(grabs) \subseteq Keys
      BY <1>0 DEF Listed, Grabs
    <3>. QED  BY <1>1, <3>1, <3>2, <3>3, <3>4 DEF AllGrabbed, KeysDistinct
  <2>2. CASE k \notin Listed(grabs)
    <3>1. KAdded(grabs, k).x_keys = grabs.x_keys \union {Passive(k)}
      BY <1>0, <2>2 DEF KAdded, Grabs
    <3>2. Listed(KAdded(grabs, k)) = Listed(grabs) \union {k}
      BY <1>0, AddedOK
    <3>3. KRemoved(grabs, k) = grabs
      BY <2>2 DEF KRemoved
    <3>. QED  BY <1>1, <3>1, <3>2, <3>3 DEF AllGrabbed
  <2>. QED  BY <2>1, <2>2
<1>2. AllGrabbed(KRemovedAll(grabs)) /\ AllGrabbed(Freed(grabs))
  <2>1. Listed(KRemovedAll(grabs)) = {}
    BY <1>0, RemovedAllOK
  <2>2. Freed(grabs).ks_arr = <<>>
    BY <1>0, FreedOK
  <2>3. Listed(Freed(grabs)) = {}
    BY <2>2 DEF Listed
  <2>. QED  BY <2>1, <2>3 DEF AllGrabbed
<1>3. AllGrabbed(KeysRestored(grabs))
  BY <1>0, ToggledOK DEF KeysRestored, AllGrabbed
<1>4. ASSUME NEW h, AllGrabbed(grabs), Listed(h) = Listed(grabs), h.x_keys = grabs.x_keys
      PROVE  AllGrabbed(h)
  BY <1>4 DEF AllGrabbed
<1>5. ASSUME AllGrabbed(grabs)
      PROVE  AllGrabbed(BRemovedAll(grabs))
             /\ \A toggle \in BOOLEAN : AllGrabbed(BToggled(grabs, toggle))
  BY <1>0, <1>4, <1>5, ButtonToggledOK, ButtonsRemovedOK
<1>6. ASSUME NEW b \in Buttons, AllGrabbed(grabs)
      PROVE  AllGrabbed(BRemoved(grabs, b))
             /\ \A held_down : AllGrabbed(BAdded(grabs, b, held_down))
  BY <1>0, <1>4, <1>6, ButtonRemovedOK, ButtonAddedOK
<1>7. CASE SendEnds
  BY <1>3, <1>5, <1>7 DEF SendEnds, Sending
<1>8. CASE MainStep /\ ~SendEnds
  <2>0. AllGrabbed(grabs) /\ \A s \in KeyStrings, state \in States : ~KeyStroke(s, state)
    <3>1. main = "keys" => ~SendStep
      BY DEF SendStep, SendPress, SendRelease, MainMoves
    <3>. QED  BY <1>8, <3>1, MainSteps
              DEF Join, WaitReturns, WaitUntilKey, WaitUntilButton, KeyStroke, MouseClick,
                  Command, MainMoves
  <2>1. ASSUME NEW s \in KeyStrings, NEW state \in States, KeyStroke(s, state)
        PROVE  AllGrabbed(grabs')
    BY <2>0, <2>1
  <2>2. ASSUME NEW k \in Keys,
               GrabKey(k) \/ UngrabKey(k) \/ \E inv \in BOOLEAN : WaitUntilKey(k, inv)
        PROVE  AllGrabbed(grabs') \/ UNCHANGED grabs
    BY <1>1, <2>0, <2>2 DEF GrabKey, UngrabKey, WaitUntilKey, Regrab, StartWait, RefuseWait
  <2>3. ASSUME NEW b \in Buttons,
               \/ (\E state \in States : MouseClick(b, state)) \/ GrabButton(b)
               \/ UngrabButton(b)
               \/ \E held_down, inv \in BOOLEAN : WaitUntilButton(b, held_down, inv)
        PROVE  AllGrabbed(grabs') \/ UNCHANGED grabs
    <3>1. CASE \E state \in States : MouseClick(b, state)
      BY <1>5, <2>0, <3>1 DEF MouseClick
    <3>2. CASE GrabButton(b) \/ UngrabButton(b)
      BY <1>6, <2>0, <3>2 DEF GrabButton, UngrabButton, Regrab
    <3>3. CASE \E held_down, inv \in BOOLEAN : WaitUntilButton(b, held_down, inv)
      BY <1>6, <2>0, <3>3 DEF WaitUntilButton, StartWait, RefuseWait
    <3>. QED  BY <2>3, <3>1, <3>2, <3>3
  <2>4. CASE UngrabKeyAll \/ UngrabButtonAll \/ Join
    BY <1>2, <1>5, <2>0, <2>4 DEF UngrabKeyAll, UngrabButtonAll, Regrab, Join
  <2>5. CASE WaitReturns
    <3>1. CASE wait.wait_for_key
      <4>1. (CHOOSE k \in wait.operand : TRUE) \in Keys
        BY <1>0, <3>1, Waited
      <4>. QED  BY <1>1, <2>0, <2>5, <3>1, <4>1 DEF WaitReturns
    <3>2. CASE ~wait.wait_for_key
      <4>1. wait.wait_button \in Buttons
        BY <1>0, <2>5, <3>2 DEF WaitReturns, WaitOK
      <4>. QED  BY <1>6, <2>0, <2>5, <3>2, <4>1 DEF WaitReturns
    <3>. QED  BY <3>1, <3>2
  <2>7. UNCHANGED grabs => AllGrabbed(grabs')
    BY <2>0
  <2>6. CASE Begin \/ (\E last \in BOOLEAN : EndStep(last)) \/ Abort \/ OtherCommand \/ StopRun
             \/ SendStep
    BY <2>6, <2>7 DEF Begin, EndStep, LoopTest, Abort, OtherCommand, StopRun, SendStep, SendPress,
                SendRelease
  <2>. QED  BY <1>8, <2>1, <2>2, <2>3, <2>4, <2>5, <2>6, <2>7 DEF MainStep, SendStep
<1>9. CASE ~MainStep
  <2>0. AllGrabbed(grabs)
    BY <1>9, OthersSteps DEF Next
  <2>1. CASE DrainInput
    <3> DEFINE e == Head(queue)
    <3>1. \/ grabs' = KSeen(grabs, e.input[2], e.state, e.press)
          \/ e.input[2] \in Buttons /\ grabs' = BSeen(grabs, e.input[2], e.press)
      BY <1>0, <2>1, HeadOfQueue DEF DrainInput, Escape
    <3> HIDE DEF e
    <3>2. AllGrabbed(KSeen(grabs, e.input[2], e.state, e.press))
      BY <1>0, <1>4, <2>0, SeenOK
    <3>3. e.input[2] \in Buttons => AllGrabbed(BSeen(grabs, e.input[2], e.press))
      BY <1>0, <1>4, <2>0, ButtonSeenOK
    <3>. QED  BY <3>1, <3>2, <3>3
  <2>2. CASE ListenerStep /\ ~DrainInput
    BY <2>0, <2>2 DEF ListenerStep, ListenerStart, ListenerWakes, DrainEscape, DrainEnds,
                      ListenerCheck
  <2>3. CASE SpuriousWakeup \/ UserStep \/ UNCHANGED vars
    BY <2>0, <2>3 DEF SpuriousWakeup, UserStep, Press, Release, Repeat, UserActs, vars
  <2>. QED  BY <1>9, <2>1, <2>2, <2>3 DEF Next
<1>. QED  BY <1>7, <1>8, <1>9

\* The X server keeps the grab of every key the macro has grabbed, through all the
\* lifting and restoring around keystrokes, if no two of them are the same to it.
THEOREM GrabsAreKept ==
  ASSUME KeysDistinct
  PROVE  Spec => []KeysStayGrabbed
<1>1. Init => KeysStayGrabbed
  BY NewOK DEF Init, KeysStayGrabbed
<1>. QED  BY <1>1, InvAlways, GrabbedStep, PTL DEF Spec

\* Only km_grabs_kremove_all leaves ks_pressed dangling.
LEMMA AllocStep ==
  ASSUME "UngrabKeyAll" \notin Script
  PROVE  Inv /\ grabs.ks_alloc # "freed" /\ [Next]_vars => grabs'.ks_alloc # "freed"
<1> SUFFICES ASSUME Inv, grabs.ks_alloc # "freed", [Next]_vars
             PROVE  grabs'.ks_alloc # "freed"
  OBVIOUS
<1>0. GrabsOK(grabs) /\ TypeOK /\ grabs \in Grabs
  BY DEF Inv, TypeOK
<1> DEFINE Sound(g) == g.ks_alloc # "freed"
<1>1. \A k : Sound(KAdded(grabs, k)) /\ Sound(KRemoved(grabs, k))
  BY <1>0 DEF KAdded, KRemoved, Grabs
<1>2. Sound(BRemovedAll(grabs)) /\ Sound(Freed(grabs))
  BY <1>0 DEF BRemovedAll, Freed, km_grabs_new, Grabs
<1>3. Sound(KeysRestored(grabs)) /\ Sound(KeysLifted(grabs))
  BY <1>0 DEF KeysRestored, KeysLifted, KToggled, Grabs
<1>4. \A toggle : Sound(BToggled(grabs, toggle))
  BY <1>0 DEF BToggled, Grabs
<1>5. \A b : Sound(BRemoved(grabs, b)) /\ \A held_down : Sound(BAdded(grabs, b, held_down))
  BY <1>0 DEF BRemoved, BAdded, Grabs
<1>6. \A a, b, c : Sound(KSeen(grabs, a, b, c)) /\ Sound(BSeen(grabs, a, b))
  BY <1>0 DEF KSeen, BSeen, Grabs
<1> HIDE DEF Sound
<1> SUFFICES Sound(grabs') \/ UNCHANGED grabs
  BY DEF Sound
<1>7. CASE MainStep
  <2>1. ASSUME NEW s \in KeyStrings, NEW state \in States, KeyStroke(s, state)
        PROVE  Sound(grabs')
    BY <1>3, <2>1 DEF KeyStroke
  <2>2. ASSUME NEW k \in Keys,
               GrabKey(k) \/ UngrabKey(k) \/ \E inv \in BOOLEAN : WaitUntilKey(k, inv)
        PROVE  Sound(grabs') \/ UNCHANGED grabs
    BY <1>1, <2>2 DEF GrabKey, UngrabKey, WaitUntilKey, Regrab, StartWait, RefuseWait
  <2>3. ASSUME NEW b \in Buttons,
               \/ (\E state \in States : MouseClick(b, state)) \/ GrabButton(b)
               \/ UngrabButton(b)
               \/ \E held_down, inv \in BOOLEAN : WaitUntilButton(b, held_down, inv)
        PROVE  Sound(grabs') \/ UNCHANGED grabs
    <3>1. CASE \E state \in States : MouseClick(b, state)
      BY <1>4, <3>1 DEF MouseClick
    <3>2. CASE GrabButton(b) \/ UngrabButton(b)
      BY <1>5, <3>2 DEF GrabButton, UngrabButton, Regrab
    <3>3. CASE \E held_down, inv \in BOOLEAN : WaitUntilButton(b, held_down, inv)
      BY <1>5, <3>3 DEF WaitUntilButton, StartWait, RefuseWait
    <3>. QED  BY <2>3, <3>1, <3>2, <3>3
  <2>4. CASE UngrabKeyAll \/ UngrabButtonAll \/ Join
    BY <1>2, <2>4 DEF UngrabKeyAll, Command, UngrabButtonAll, Regrab, Join
  <2>5. CASE WaitReturns
    BY <1>1, <1>5, <2>5 DEF WaitReturns
  <2>6. CASE Begin \/ (\E last \in BOOLEAN : EndStep(last)) \/ Abort \/ OtherCommand \/ StopRun
             \/ SendStep
    BY <2>6 DEF Begin, EndStep, LoopTest, Abort, OtherCommand, StopRun, SendStep, SendPress,
                SendRelease
  <2>7. CASE SendEnds
    BY <1>3, <1>4, <2>7 DEF SendEnds
  <2>. QED  BY <1>7, <2>1, <2>2, <2>3, <2>4, <2>5, <2>6, <2>7 DEF MainStep, SendStep
<1>8. CASE ListenerStep
  BY <1>6, <1>8 DEF ListenerStep, ListenerStart, ListenerWakes, DrainEscape, DrainInput,
                    DrainEnds, ListenerCheck
<1>9. CASE SpuriousWakeup \/ UserStep \/ UNCHANGED vars
  BY <1>9 DEF SpuriousWakeup, UserStep, Press, Release, Repeat, UserActs, vars
<1>. QED  BY <1>7, <1>8, <1>9 DEF Next

\* Only ungrab_keys breaks the memory of the grabs: a macro without it never uses or
\* frees ks_pressed after it was freed.
THEOREM OnlyUngrabKeyAllAborts ==
  ASSUME "UngrabKeyAll" \notin Script
  PROVE  Spec => []NeverAborts
<1> DEFINE Sound == grabs.ks_alloc # "freed" /\ NeverAborts
<1>1. Init => Sound
  BY DEF Init, km_grabs_new, NeverAborts
<1>2. Inv /\ Sound /\ [Next]_vars => Sound'
  <2> SUFFICES ASSUME Inv, Sound, [Next]_vars PROVE main' # "aborted"
    BY AllocStep DEF NeverAborts
  <2>1. ~Abort
    BY DEF Abort, FreeAborts, KAddAborts
  <2>2. CASE MainStep
    BY <2>1, <2>2
       DEF MainStep, Begin, EndStep, LoopTest, Join, KeyStroke, GrabKey, UngrabKey,
           WaitUntilKey, UngrabKeyAll, MouseClick, GrabButton, UngrabButton, WaitUntilButton,
           UngrabButtonAll, OtherCommand, StopRun, WaitReturns, Regrab, StartWait, RefuseWait,
           MainMoves, SendPress, SendRelease, SendEnds, Sending
  <2>3. CASE SpuriousWakeup \/ ListenerStep \/ UserStep \/ UNCHANGED vars
    BY <2>3, OthersSteps DEF NeverAborts
  <2>. QED  BY <2>2, <2>3 DEF Next
<1>3. Sound => NeverAborts
  OBVIOUS
<1>. QED  BY <1>1, <1>2, <1>3, InvAlways, PTL DEF Spec
=============================================================================
