----------------------------- MODULE MacroThreads -----------------------------
(***************************************************************************)
(* One run of a macro as its two threads see it: run_program on the main   *)
(* thread, keyboard_check_listener on the other, the structure shared_rs   *)
(* between them under input_mutex, the condition variable wait_cond, and   *)
(* the X server that queues the events of grabbed keys and buttons.        *)
(*                                                                         *)
(* Which command comes next is the subject of RunProgram; here the main    *)
(* thread runs any sequence of the commands in Script.  It keeps the mutex *)
(* inside one action, or while it sends input.                             *)
(***************************************************************************)
EXTENDS KmGrabs

CONSTANTS
  KeyStrings,   \* the strings of keystroke commands
  KeyCodes,     \* the physical keys each of them presses
  Script,       \* the types of the commands the macro uses
  Spurious,     \* may pthread_cond_wait return without a signal?
  MaxQueue      \* bound on the events waiting in the X queue

\* The keycode of Escape is 0 here; no command but a keystroke may name it.
ASSUME KeyStringsAssumption ==
  /\ KeyCodes \in [KeyStrings -> SUBSET Int]
  /\ \A k \in Keys : k.keycode # 0
  /\ Spurious \in BOOLEAN
  /\ MaxQueue \in Nat

Codes == {0} \union {k.keycode : k \in Keys} \union UNION {KeyCodes[s] : s \in KeyStrings}
Modifiers == {0} \union {k.modifier : k \in Keys}

\* An event names its key or button; own events are those the macro itself sent.
Inputs == ({"key"} \X Codes) \union ({"button"} \X Buttons)
Events == [input : Inputs, state : Modifiers, press : BOOLEAN, own : BOOLEAN]

Escape == <<"key", 0>>

IsButton(input) == input[1] = "button"

VARIABLES
  mutex,          \* does the listener hold input_mutex?
  main,           \* where the main thread is
  listener,       \* where the listener thread is
  program_done,
  wait,           \* the fields of shared_rs about a waiting main thread
  grabs,          \* kmg and what the X server grabs for it
  escape_grab,    \* the listener's own grab of the Escape key
  queue,          \* events the X server has for the player
  down,           \* inputs the user holds down
  held,           \* inputs the macro holds down (XTEST)
  key_grab,       \* the key whose press activated the keyboard grab, if it is active
  button_grab,    \* is the pointer grab active?
  told,           \* inputs of which the last event queued was a press
  kdc,            \* key_down_check_t
  sending         \* the input that KeyStroke or MouseClick has still to send

server == <<queue, down, held, key_grab, button_grab, told>>
vars == <<mutex, main, listener, program_done, wait, grabs, escape_grab, server,
          kdc, sending>>

NoInput == [press |-> {}, release |-> {}]

NoWait ==
  [do_wait_cond |-> FALSE, wait_for_key |-> FALSE, wait_for_button |-> FALSE,
   wait_button |-> 1, wait_cond_inv |-> FALSE, operand |-> {}]

Init ==
  /\ mutex = FALSE
  /\ main = "begin"
  /\ listener = "start"
  /\ program_done = FALSE
  /\ wait = NoWait
  /\ grabs = km_grabs_new
  /\ escape_grab = FALSE
  /\ queue = <<>>
  /\ down = {}
  /\ held = {}
  /\ key_grab = {}
  /\ button_grab = FALSE
  /\ told = {}
  /\ kdc = {}
  /\ sending = NoInput

-------------------------------------------------------------------------------
(* The main thread: the frame of the loop. *)

Running == main \notin {"ended", "aborted"}

MainLocks == ~mutex

MainMoves(to) == main' = to /\ UNCHANGED <<mutex, listener, escape_grab>>

\* A step of the main thread that sends nothing.
Silent == UNCHANGED <<server, kdc, sending>>

\* A mutant of LoopTest: the end of the array does not tell the listener.
LoopTestLocal(done) ==
  /\ MainMoves(IF done THEN "join" ELSE "command")
  /\ UNCHANGED <<program_done, wait, grabs>> /\ Silent

\* The loop test, with the mutex; at the end of the run the thread joins.
LoopTest(done) ==
  /\ program_done' = done
  /\ MainMoves(IF done THEN "join" ELSE "command")
  /\ UNCHANGED <<wait, grabs>> /\ Silent

Begin == main = "begin" /\ MainLocks /\ LoopTest(program_done)

\* The step of a command ends; last if it was the end of the array.
EndStep(last) == main = "next" /\ MainLocks /\ LoopTest(program_done \/ last)

\* A mutant of KeysUp: no key is released.
NoKeysUp == held

\* key_down_check_key_up
KeysUp == held \ ({"key"} \X UNION {KeyCodes[s] : s \in kdc})

\* pthread_join, km_grabs_free, key_down_check_key_up.  What the X server still
\* queues then is read by no one in this run.
Join ==
  /\ main = "join" /\ listener = "exited" /\ ~FreeAborts(grabs)
  /\ grabs' = Freed(grabs)
  /\ held' = KeysUp
  /\ kdc' = {}
  /\ key_grab' = key_grab \intersect (down \union held')
  /\ MainMoves("ended")
  /\ UNCHANGED <<program_done, wait, queue, down, button_grab, told, sending>>

\* The process ends on memory that is freed twice or used after it was freed.
Abort ==
  /\ \/ main = "join" /\ listener = "exited" /\ FreeAborts(grabs)
     \/ /\ main = "command" /\ MainLocks
        /\ \/ "UngrabKeyAll" \in Script /\ FreeAborts(grabs)
           \/ "GrabKey" \in Script /\ \E k \in Keys : KAddAborts(grabs, k)
           \/ "WaitUntilKey" \in Script /\ \E k \in Keys : KAddAborts(grabs, k)
  /\ MainMoves("aborted")
  /\ UNCHANGED <<program_done, wait, grabs>> /\ Silent

-------------------------------------------------------------------------------
(* The X server.  A press that matches a passive grab activates it: until the  *)
(* key is released (for the pointer: until no button is down) the player gets  *)
(* every event of the keyboard (of the buttons), whatever becomes of the       *)
(* passive grabs.  Other presses and releases are for other clients.           *)

\* Clients see one keyboard and one mouse, the user's and the macro's together.
Down == down \union held

Active(input) == IF IsButton(input) THEN button_grab ELSE key_grab # {}

\* A passive grab covers the press.
CoveredPress(input, state) ==
  IF IsButton(input)
  THEN state = 0 /\ input[2] \in grabs.x_buttons /\ \A other \in Down : ~IsButton(other)
  ELSE \/ <<input[2], state>> \in grabs.x_keys
       \/ input = Escape /\ state = 0 /\ escape_grab

Event(input, state, press, own) ==
  [input |-> input, state |-> state, press |-> press, own |-> own]

NoEvent == UNCHANGED <<queue, key_grab, button_grab, told>>

\* The input goes down, or repeats.
Pressed(input, state, own) ==
  IF Active(input) \/ CoveredPress(input, state)
  THEN /\ queue' = Append(queue, Event(input, state, TRUE, own))
       /\ key_grab' = IF key_grab # {} \/ IsButton(input) THEN key_grab ELSE {input}
       /\ button_grab' = (button_grab \/ IsButton(input))
       /\ told' = told \union {input}
  ELSE NoEvent

\* The input goes up and the inputs of still stay down.  The listener does not
\* look at the modifiers of a release.
Released(input, own, still) ==
  /\ IF Active(input)
     THEN queue' = Append(queue, Event(input, 0, FALSE, own)) /\ told' = told \ {input}
     ELSE UNCHANGED <<queue, told>>
  /\ key_grab' = key_grab \ {input}
  /\ button_grab' = (button_grab /\ \E other \in still : IsButton(other))

Room == Len(queue) < MaxQueue

-------------------------------------------------------------------------------
(* The main thread: the commands that send input. *)

Command(type) == main = "command" /\ MainLocks /\ type \in Script

States == {"down", "up", "click"}    \* IS_Down, IS_Up, IS_Click

Sending == {"keys", "clicks"}

\* The inputs are to be pressed, released or both.
Sends(inputs, state) ==
  sending' = [press   |-> IF state = "up" THEN {} ELSE inputs,
              release |-> IF state = "down" THEN {} ELSE inputs]

\* Mutants of KeysLifted and KeysRestored: the grabs stay, or stay lifted.
KeysNotLifted(g) == g
KeysNotRestored(g) == g

\* The key grabs while a keystroke is sent, and after it.
KeysLifted(g)   == KToggled(g, FALSE)
KeysRestored(g) == KToggled(g, TRUE)

\* The grabs are lifted while the keys are sent, so that the listener does not
\* take them for the user's.  kdc remembers the string of a key down; only the
\* main thread looks at it.
KeyStroke(s, state) ==
  /\ Command("KeyStroke") /\ Room
  /\ grabs' = KeysLifted(grabs)
  /\ Sends({"key"} \X KeyCodes[s], state)
  /\ kdc' = CASE state = "down" -> kdc \union {s} [] state = "up" -> kdc \ {s}
              [] OTHER -> kdc
  /\ MainMoves("keys")
  /\ UNCHANGED <<program_done, wait, server>>

MouseClick(b, state) ==
  /\ Command("MouseClick") /\ Room
  /\ grabs' = BToggled(grabs, FALSE)
  /\ Sends({<<"button", b>>}, state)
  /\ MainMoves("clicks")
  /\ UNCHANGED <<program_done, wait, server, kdc>>

\* What is down already has no event, nor what the user still holds.
SendPress(input, state) ==
  /\ main \in Sending /\ input \in sending.press
  /\ sending' = [sending EXCEPT !.press = @ \ {input}]
  /\ held' = held \union {input}
  /\ IF input \in Down THEN NoEvent ELSE Pressed(input, state, TRUE)
  /\ MainMoves(main)
  /\ UNCHANGED <<program_done, wait, grabs, down, kdc>>

SendRelease(input) ==
  /\ main \in Sending /\ sending.press = {} /\ input \in sending.release
  /\ sending' = [sending EXCEPT !.release = @ \ {input}]
  /\ held' = held \ {input}
  /\ IF input \in held \ down THEN Released(input, TRUE, down \union held') ELSE NoEvent
  /\ MainMoves(main)
  /\ UNCHANGED <<program_done, wait, grabs, down, kdc>>

SendEnds ==
  /\ main \in Sending /\ sending = NoInput
  /\ grabs' = IF main = "keys" THEN KeysRestored(grabs) ELSE BToggled(grabs, TRUE)
  /\ MainMoves("next")
  /\ UNCHANGED <<program_done, wait>> /\ Silent

-------------------------------------------------------------------------------
(* The main thread: the other commands that do not wait. *)

\* The grabs become g.
Regrab(g) ==
  /\ grabs' = g
  /\ MainMoves("next")
  /\ UNCHANGED <<program_done, wait>> /\ Silent

GrabKey(k) == Command("GrabKey") /\ ~KAddAborts(grabs, k) /\ Regrab(KAdded(grabs, k))

UngrabKey(k) == Command("UngrabKey") /\ Regrab(KRemoved(grabs, k))

UngrabKeyAll ==
  Command("UngrabKeyAll") /\ ~FreeAborts(grabs) /\ Regrab(KRemovedAll(grabs))

GrabButton(b) == Command("GrabButton") /\ Regrab(BAdded(grabs, b, FALSE))

UngrabButton(b) == Command("UngrabButton") /\ Regrab(BRemoved(grabs, b))

UngrabButtonAll == Command("UngrabButtonAll") /\ Regrab(BRemovedAll(grabs))

\* The commands that share nothing with the listener, queries included: what a
\* query reads decides only which command is next.
OtherCommand ==
  /\ main = "command"
  /\ MainMoves("next")
  /\ UNCHANGED <<program_done, wait, grabs>> /\ Silent

\* exit; and DoRuntimeError.
StopRun ==
  /\ main = "failed" \/ (main = "command" /\ "Exit" \in Script)
  /\ MainLocks
  /\ program_done' = TRUE
  /\ MainMoves("next")
  /\ UNCHANGED <<wait, grabs>> /\ Silent

-------------------------------------------------------------------------------
(* The main thread: the commands that wait. *)

\* The main thread waits as in w, with the grabs g; the mutex is given up.
StartWait(w, g) ==
  /\ wait' = w
  /\ grabs' = g
  /\ MainMoves("wait")
  /\ UNCHANGED program_done /\ Silent

\* The key or button is grabbed already: a runtime error.
RefuseWait == MainMoves("failed") /\ UNCHANGED <<program_done, wait, grabs>> /\ Silent

\* A mutant of KeyTaken: a key that is grabbed already is accepted.
KeyNeverTaken(k) == FALSE

KeyTaken(k) == k \in Listed(grabs)

WaitUntilKey(k, inv) ==
  /\ Command("WaitUntilKey")
  /\ \/ KeyTaken(k) /\ RefuseWait
     \/ /\ ~KeyTaken(k) /\ ~KAddAborts(grabs, k)
        /\ StartWait([wait EXCEPT !.do_wait_cond = TRUE, !.wait_for_key = TRUE,
                                  !.wait_cond_inv = inv, !.operand = {k}],
                     KAdded(grabs, k))

WaitUntilButton(b, held_down, inv) ==
  /\ Command("WaitUntilButton") /\ (held_down \/ ~inv)
  /\ \/ b \in grabs.b_grab_exist /\ RefuseWait
     \/ /\ b \notin grabs.b_grab_exist
        /\ StartWait([wait EXCEPT !.do_wait_cond = TRUE, !.wait_for_button = TRUE,
                                  !.wait_button = b, !.wait_cond_inv = inv],
                     BAdded(grabs, b, held_down))

\* pthread_cond_wait returns, with the mutex.  There is no second look at what
\* was waited for.
WaitReturns ==
  /\ main = "woken" /\ MainLocks
  /\ grabs' = IF wait.wait_for_key
              THEN KRemoved(grabs, CHOOSE k \in wait.operand : TRUE)
              ELSE BRemoved(grabs, wait.wait_button)
  /\ wait' = [wait EXCEPT !.do_wait_cond = FALSE, !.wait_for_key = FALSE,
                          !.wait_for_button = FALSE, !.operand = {}]
  /\ MainMoves("next")
  /\ UNCHANGED program_done /\ Silent

SpuriousWakeup ==
  /\ Spurious /\ main = "wait"
  /\ MainMoves("woken")
  /\ UNCHANGED <<program_done, wait, grabs>> /\ Silent

-------------------------------------------------------------------------------
(* The listener. *)

ListenerMoves(to) ==
  /\ Running /\ listener' = to
  /\ UNCHANGED <<wait, down, held, key_grab, button_grab, told, kdc, sending>>

\* The main thread keeps the mutex while it sends.
ListenerLocks == ~mutex /\ main \notin Sending

\* pthread_cond_signal wakes the main thread if it waits now, and is lost if not.
Signal == main' = IF main = "wait" THEN "woken" ELSE main

\* A mutant of ListenerLoopTest: the listener exits with the mutex.
ListenerLoopTestLocked ==
  /\ ListenerMoves(IF program_done THEN "exited" ELSE "sleep")
  /\ escape_grab' = ~program_done
  /\ mutex' = program_done

\* The loop test: on the way out Escape is ungrabbed and the mutex released.
ListenerLoopTest ==
  /\ ListenerMoves(IF program_done THEN "exited" ELSE "sleep")
  /\ escape_grab' = ~program_done
  /\ mutex' = FALSE

ListenerStart ==
  /\ listener = "start" /\ ListenerLocks
  /\ ListenerLoopTest
  /\ UNCHANGED <<main, program_done, grabs, queue>>

\* usleep(key_check_delay) is over.
ListenerWakes ==
  /\ listener = "sleep" /\ ListenerLocks
  /\ mutex' = TRUE
  /\ ListenerMoves("drain")
  /\ UNCHANGED <<main, program_done, grabs, escape_grab, queue>>

\* A mutant of SignalStop: the waiting main thread is not told.
NoSignalStop == UNCHANGED main

\* A waiting main thread is woken when the run is over.
SignalStop == IF wait.do_wait_cond THEN Signal ELSE UNCHANGED main

\* Escape, pressed or released; the events behind it stay in the queue.
DrainEscape ==
  /\ listener = "drain" /\ queue # <<>> /\ Head(queue).input = Escape
  /\ queue' = Tail(queue)
  /\ program_done' = TRUE
  /\ SignalStop
  /\ ListenerMoves("check")
  /\ UNCHANGED <<mutex, grabs, escape_grab>>

DrainInput ==
  LET e == Head(queue) IN
  /\ listener = "drain" /\ queue # <<>> /\ e.input # Escape
  /\ queue' = Tail(queue)
  /\ grabs' = IF e.input[1] = "key" THEN KSeen(grabs, e.input[2], e.state, e.press)
              ELSE BSeen(grabs, e.input[2], e.press)
  /\ ListenerMoves("drain")
  /\ UNCHANGED <<mutex, main, program_done, escape_grab>>

DrainEnds ==
  /\ listener = "drain" /\ queue = <<>>
  /\ ListenerMoves("check")
  /\ UNCHANGED <<mutex, main, program_done, grabs, escape_grab, queue>>

\* What the main thread waits for, as the listener sees it: the last key of
\* ks_arr, or wait_button.
WaitIsOver ==
  \/ wait.wait_for_key /\ (LastKey(grabs) \in grabs.ks_pressed) # wait.wait_cond_inv
  \/ wait.wait_for_button /\ (wait.wait_button \in grabs.b_pressed) # wait.wait_cond_inv

ListenerCheck ==
  /\ listener = "check"
  /\ IF WaitIsOver THEN Signal ELSE UNCHANGED main
  /\ ListenerLoopTest
  /\ UNCHANGED <<program_done, grabs, queue>>

-------------------------------------------------------------------------------
(* The user. *)

UserActs ==
  /\ Running /\ Room
  /\ UNCHANGED <<mutex, main, listener, program_done, wait, grabs, escape_grab, held, kdc,
                 sending>>

Press(input, state) ==
  /\ input \notin down
  /\ down' = down \union {input}
  /\ IF input \in held THEN NoEvent ELSE Pressed(input, state, FALSE)
  /\ UserActs

Release(input) ==
  /\ input \in down
  /\ down' = down \ {input}
  /\ IF input \in held THEN NoEvent ELSE Released(input, FALSE, down' \union held)
  /\ UserActs

\* The X server itself repeats a key that is held down, the macro's keys too; the
\* release it reports with the new press is left out.
Repeat(input, state) ==
  /\ input \in Down /\ ~IsButton(input)
  /\ Pressed(input, state, FALSE)
  /\ UNCHANGED down
  /\ UserActs

-------------------------------------------------------------------------------
MainStep ==
  \/ Begin
  \/ \E last \in BOOLEAN : EndStep(last)
  \/ Join
  \/ Abort
  \/ \E s \in KeyStrings : \E state \in States : KeyStroke(s, state)
  \/ \E k \in Keys : GrabKey(k) \/ UngrabKey(k) \/ \E inv \in BOOLEAN : WaitUntilKey(k, inv)
  \/ UngrabKeyAll
  \/ \E b \in Buttons :
       \/ (\E state \in States : MouseClick(b, state)) \/ GrabButton(b) \/ UngrabButton(b)
       \/ \E held_down, inv \in BOOLEAN : WaitUntilButton(b, held_down, inv)
  \/ \E input \in Inputs :
       SendRelease(input) \/ \E state \in Modifiers : SendPress(input, state)
  \/ SendEnds
  \/ UngrabButtonAll
  \/ OtherCommand
  \/ StopRun
  \/ WaitReturns

ListenerStep ==
  ListenerStart \/ ListenerWakes \/ DrainEscape \/ DrainInput \/ DrainEnds \/ ListenerCheck

UserStep ==
  \E input \in Inputs :
    Release(input) \/ \E state \in Modifiers : Press(input, state) \/ Repeat(input, state)

Next == MainStep \/ SpuriousWakeup \/ ListenerStep \/ UserStep

Spec == Init /\ [][Next]_vars

(***************************************************************************)
(* The listener sleeps without the mutex in every round, and the main      *)
(* thread has it for one command only, so each gets it some time (strong   *)
(* fairness: the mutex is not free all the time; for the listener this is  *)
(* more than weak fairness only while input is sent).  The drain loop ends *)
(* if it finds the queue empty again and again.                            *)
(***************************************************************************)
Fairness == SF_vars(MainStep) /\ SF_vars(ListenerStep) /\ SF_vars(DrainEnds)

FairSpec == Spec /\ Fairness

-------------------------------------------------------------------------------
(* Properties *)

\* Every variable keeps its type.
TypeOK ==
  /\ mutex \in BOOLEAN
  /\ main \in Sending \union {"begin", "command", "next", "failed", "wait", "woken",
                              "join", "ended", "aborted"}
  /\ listener \in {"start", "sleep", "drain", "check", "exited"}
  /\ program_done \in BOOLEAN
  /\ wait \in [do_wait_cond : BOOLEAN, wait_for_key : BOOLEAN,
               wait_for_button : BOOLEAN, wait_button : Buttons \union {1},
               wait_cond_inv : BOOLEAN, operand : SUBSET Keys]
  /\ grabs \in Grabs
  /\ escape_grab \in BOOLEAN
  /\ queue \in Seq(Events)
  /\ down \subseteq Inputs /\ held \subseteq Inputs /\ told \subseteq Inputs
  /\ key_grab \subseteq {"key"} \X Codes
  /\ button_grab \in BOOLEAN
  /\ kdc \subseteq KeyStrings
  /\ sending \in [press : SUBSET Inputs, release : SUBSET Inputs]

\* While the main thread waits for a key, the last entry of ks_arr, the one the
\* listener looks at, exists and is that key (the comment in the listener: "Last
\* key would be from CMD_WaitUntilKey").
WaitedKeyIsLast ==
  wait.wait_for_key =>
    /\ main \in {"wait", "woken"}
    /\ Len(grabs.ks_arr) > 0
    /\ wait.operand = {LastKey(grabs)}

\* The event the listener reads is the macro's own.
ReadsOwn == listener = "drain" /\ queue # <<>> /\ Head(queue).own

\* The listener never reads of a key the macro itself pressed ("Don't send key
\* pressed events to input thread.").
OwnKeysNotSeen == ReadsOwn => IsButton(Head(queue).input)

\* The same for the mouse buttons that MouseClick presses ("Disable mouse grabs.").
OwnClicksNotSeen == ReadsOwn => ~IsButton(Head(queue).input)

\* The event that joined the queue last.
Newest == queue[Len(queue)]

\* While a keystroke is sent no event of its keys but Escape is queued, unless a key
\* is held whose press activated a grab before: lifting the grabs covers every key
\* the macro has grabbed.
OwnKeysNeedAGrab ==
  [][main = "keys" /\ Len(queue') > Len(queue) /\ Newest'.own
       => key_grab # {} \/ Newest'.input = Escape]_vars

\* A key that was grabbed stays grabbed until it is ungrabbed, whatever the other
\* commands grab, ungrab and send meanwhile (the README on grab_key: "To undo this,
\* use the UngrabKey or UngrabKeyAll command."); a keystroke lifts the grabs for a
\* while.
KeysStayGrabbed ==
  main # "keys" => \A k \in Listed(grabs) : Passive(k) \in grabs.x_keys

Queued(input) == \E i \in 1 .. Len(queue) : queue[i].input = input

\* A key the player takes to be held down is one whose press the X server told it
\* last, or an event of it is still to be read.  Grabs that come and go, also of
\* the same keycode with other modifiers, leave no other entry behind for a query
\* or a wait.
PressedKeysAreTold ==
  \A k \in grabs.ks_pressed :
    <<"key", k.keycode>> \in told \/ Queued(<<"key", k.keycode>>)

\* Such a key is held down (the README on key_pressed: "This query checks if a key
\* has been held down.").
PressedKeysAreHeld ==
  \A k \in grabs.ks_pressed :
    <<"key", k.keycode>> \in Down \/ Queued(<<"key", k.keycode>>)

\* A button the player takes to be held down is held down, by the user or by the
\* macro, or an event of it is still to be read: the clicks of the macro and grabs
\* that come and go while buttons are held leave no stale entry.
PressedButtonsAreHeld ==
  \A b \in grabs.b_pressed : <<"button", b>> \in Down \/ Queued(<<"button", b>>)

\* However a run ends, no key stays down that the macro pressed, the X server has no
\* grab left of the keys, the buttons and Escape, and the keyboard is grabbed only
\* as long as the user holds a key.
NothingLeftBehind ==
  main = "ended" =>
    /\ \A input \in held : IsButton(input)
    /\ grabs.x_keys = {} /\ grabs.x_buttons = {} /\ ~escape_grab
    /\ key_grab \subseteq down

\* The memory of the grabs is not freed twice (UngrabKeyAll).
NeverAborts == main # "aborted"

\* The key or button of the command that waits is as the command wants it, or an
\* event of it is still to be read.
AsWaitedFor ==
  LET inputs == IF wait.wait_for_key THEN {<<"key", k.keycode>> : k \in wait.operand}
                ELSE {<<"button", wait.wait_button>>}
  IN  \E input \in inputs : (input \in Down) # wait.wait_cond_inv \/ Queued(input)

\* A wait goes on until its key or button is held down (with "!": is not), or the
\* run is over.
WaitEndsAsDocumented ==
  [][main = "wait" /\ main' # "wait" => AsWaitedFor \/ program_done']_vars

EscapeQueued == Queued(Escape)

\* The Escape key stops the macro, whatever it is doing.
EscapeStopsRun == EscapeQueued /\ Running ~> main = "ended"

\* Only a main thread that no listener is left to wake is not stopped by Escape:
\* every other run ends, with the mutex free and the grab of Escape gone.
EscapeStopsOthers ==
  EscapeQueued /\ Running
    ~> main = "ended" \/ (main = "wait" /\ listener = "exited" /\ ~mutex /\ ~escape_grab)

\* The Escape key wakes a main thread that is waiting when it is pressed ("If
\* exiting while wait condition was active in the main thread.").
EscapeEndsWait ==
  main = "wait" /\ ~program_done /\ EscapeQueued ~> main # "wait"

\* Once the main thread has left the loop the listener ends and is joined, if
\* the user does not type faster than the listener reads for ever.
JoinEnds == []<>(queue = <<>>) => (main = "join" ~> main = "ended")

ClickQueued ==
  \E i \in 1 .. Len(queue) :
    queue[i].input = <<"button", wait.wait_button>> /\ queue[i].press

\* A click of the button that is waited for ends the wait (the README on
\* wait_buttonc: "next button clicks are required instead of holding down"),
\* again if the queue is read to its end some time.
ClickEndsWait ==
  []<>(queue = <<>>) =>
    (main = "wait" /\ wait.wait_for_button /\ ~wait.wait_cond_inv /\ ClickQueued
       ~> main # "wait")
===============================================================================
