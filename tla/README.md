# keystroke_player in TLA+

keystroke_player is a command line program for Linux that plays macro scripts:
texts of commands that press keys, click and move the mouse, wait, repeat, jump
and ask questions ("queries") about pixels, the mouse, keys and variables. This
directory has TLA+ models of it, TLC configurations that check them on small
instances, and proofs checked by TLAPS. Paths below are relative to the
repository; `main.c` is `src/keystroke_player/main.c`, `parser.c` is
`shared_src/shared/parser.c`, and so on.

## 1. Inventory

| part | state it keeps | operations | what is hard |
|---|---|---|---|
| menus and key loop (`main.c` `main`, `key_down_check.c` `keypress_loop`, `_GlobalKeybindDisable`) | `menu_state`, the flags of `main`, the global `_KeybindDisable`, X grabs of the menu keys, variables of the RPN menu | show a menu, wait for one of its keys, toggle the keybinds with Escape | events left in the queue by one loop and read by the next; several keys in one look at the queue; a toggle in the middle of it |
| directory path (`main.c` `path_t`) | the path and a length, the default file | new, add, remove, split | the operations disagree about `len` |
| parse and run (`main.c` `parse_file`) | buffers of one text | read file, expand macros, parse, check, run, free | what is global outlives a text |
| scanner (`parser.c` `macro_buffer_process_next`) | `token_i`, `read_i`, `read_offset_i`, the reading state and the locals of one command | one state per part of a command | every state moves by its own constants; mistakes in the middle of a command; the end of the text |
| linker and checker (`parser.c` `macro_buffer_process_next`, `macro_buffer_extra_checks`, the id managers, `command_array_t`) | command array, repeat names, jump names, `parse_error` | one per command, extra checks at the end | names resolved before and after their label is read; offsets of query chains adjusted while reading |
| interpreter (`main.c` `run_program`) | `cmd_arr_i`, repeat counters, the global stack `cmd_i_stack`, `program_done`, `no_error` | one per `CommandType` | every fetch is unchecked; equality tests on counters; errors in the middle of a step |
| listener thread (`main.c` `keyboard_check_listener`) | nothing of its own; `shared_rs`, `input_mutex`, `wait_cond` with the interpreter | drain X events, stop on Escape, wake a waiting main thread | lost signals, spurious wakeups, events that cancel out or never come, order of lock and join |
| grabs (`key_down_check.c` `km_grabs_t`, `key_down_check_t`) | grabbed keys and buttons, which are pressed, keys the macro holds | add, remove, remove all, toggle, free | X grabs are by keycode, entries by keysym; a held key grabs the whole keyboard; memory of arrays; index and number of a button |
| RPN evaluator and variables (`rpn_evaluator.c`, `variable_loader.c`, `stack_generic.h`) | number stack, variables, two global flags for faults | evaluate, check, define, cast | evaluated once to check and again to run; typed numbers; flags that outlive an evaluation |
| hash map (`hash_map.h`) | an open-addressing table | assign, read, erase, resize | entries move on insertion and deletion |
| macro paster and reserved macros (`shared_string.c`, `reserved_macro.c`) | definitions with the values of their last call, the text, the global `EnumValue` | read definitions, expand the deepest call, the seven reserved macros | what a call becomes is read again; values and numbers that outlive a call or a text |
| configuration, default file, frequency, printing | files, nothing | read, write, print | pure I/O |

How they interact: the menu calls `parse_file` for a path; the text goes through
the macro paster to the scanner, which hands commands to the linker, which fills the
command array; the extra checks decide whether it may run; `run_program` starts the listener thread and
interprets the array; both threads share `shared_rs` and the grabs under
`input_mutex`; the listener wakes a `wait_key`/`wait_button` command through
`wait_cond`; the run ends with `program_done`, which either thread may set, and
`pthread_join`. Commands that take numbers call the RPN evaluator through
callbacks of the variable loader, which uses the hash map for names.

What makes each part correct: macro expansion must give a text the meaning its
brackets have; the scanner must read every command whole, mix none up and reach the
end; the linker must let through only programs on which
the unchecked fetches of the interpreter stay inside the array, with jumps and
query chains that go where the text says; the interpreter must count loops as
written, return to callers only, run nothing after an error and keep nothing for
the next run; a string that was checked must not fail in the run for a reason the
check looks for; the map must be a map whatever order keys come and go in; the menus
must run only what was chosen and keep no keys of theirs when they do not wait for
them; the threads must stop on Escape, end a wait when what it waits for has come, and never
wait for each other for ever; the grabs must be exactly those the macro asked for,
and gone at the end. `PROJECT.json` lists the hazards behind these, line by line.

## 2. Modules

| module | models | of |
|---|---|---|
| `MacroPaster` | comments, macro definitions, the expansion of calls, one round of each loop per step | `shared_string.c` 79-707, `reserved_macro.c`, `main.c` 497-541 |
| `MacroMeaning` | the meaning of a text by recursion over its brackets, and the comparison | |
| `Scanner` | the reading of a text, one turn of the scanner's loop per step | `parser.c` 78-2063 |
| `Commands` | `command_t`, `command_array_t`; `WellFormed`, what the interpreter relies on | `parser.h`, `parser.c` 2132-2162 |
| `MacroBuffer` | the linker: one action per way a command is linked, the extra checks, the next text | `parser.c` 458-914, 2051-2283 |
| `RunProgram` | the interpreter's control: one action per kind of command, Escape at any time | `main.c` 633-663, 674-1209 |
| `CountedLoops` | `RunProgram` with a history variable, the rounds each loop has made, and the programs whose loops are only counted | |
| `ParseFile` | both together: what the parser accepts is what is run | `main.c` 541-564 |
| `RPNEvaluator` | the tokens, numbers, functions and faults of one evaluation, one token per step | `rpn_evaluator.c`, `variable_loader.c` |
| `Evaluations` | the life of a string: InitVar, the check, evaluations of the run while variables change, the next text | `parser.c` 2163-2171, `variable_loader.c`, `main.c` |
| `KeyValueMap` | what the map promises: a finite function of limited size | |
| `HashMap` | the table, one slot per step, shown to implement it | `hash_map.h` |
| `Menus` | `main`, `keypress_loop`, grabs and event queue of the menus and prompts | `main.c` 72-438, 578-619, 677-697, `key_down_check.c` 50-115 |
| `MenuPath` | the text of the directory and the length beside it | `main.c` 79-245, 1223-1297 |
| `KmGrabs` | `km_grabs_t` with the X server's passive grabs, as operators from record to record | `key_down_check.c` 116-239 |
| `MacroThreads` | the two threads of a run, the user, and the X server with its grabs and queue | `main.c` 565-619, 692-1209 |
| `MCMacroPaster`, `MCScanner`, `MCCommands`, `MCMacroBuffer`, `MCRunProgram`, `MCParseFile`, `MCEvaluations`, `MCHashMap`, `MCMacroThreads` | small instances for TLC | |
| `RunProgramProofs` | proofs about `RunProgram` and `CountedLoops` | |
| `MacroBufferProofs` | proofs about `MacroBuffer` | |
| `ParseFileProofs` | their composition, proved about `ParseFile` | |
| `EvaluationsProofs`, `MenusProofs` | proofs about `Evaluations` and `Menus` | |
| `MacroThreadsProofs` | proofs about `KmGrabs` and `MacroThreads` | |
| `ScannerProofs` | proofs about `Scanner` | |
| `HashMapProofs` | proofs about `HashMap`, and that it implements `KeyValueMap` | |

### Correspondence

*MacroPaster.* A text is a sequence of symbols: the brackets, ":=" and the names of
reserved macros are one symbol each, every other character is its own; numbers have
one digit, and "[!" is never next to "!]" in a file, where the two would read
"[!!". `ReadFile` is `parse_file` up to the choice between the kinds of text;
`DefineMacro` a round of `ts_macro_paster_process_macros`, `ReadCall` with one of the
expansions a round of `ts_macro_paster_expand_macros`. Both bracket searches,
`replace_str_list` (of several variables the longest, which is what its reverse
lexicographic order comes to) and `replace_str` are operators. Wherever the code
returns false `at` is "error"; "crashed" is an assertion of `char_string_slice`, or
`@ENUM_S`, which leaves the pointer to its output uninitialized: whatever that points to
is read and freed. "hangs" is `@FOREACH` of an empty string. `MacroMeaning` knows
nothing of rounds: the value of a call is that of its name and arguments after what is
inside them has its value, from left to right.

*Scanner.* A text is a sequence of punctuation marks, digits, letters and words of the
language (a keyword is one symbol, which is as good as letters where no keyword is
expected). `at` is `token_i + read_i + read_offset_i`, `mark` is `token_i + read_i`, so
that an argument is the span between the two; numbers and strings are kept as such
spans. Every `RS_` state is an action of its name, and an error goes on behind the next
semicolon as `error_move_offset` does. What is left out: the range of the value of a
debug command and the result of an RPN string at InitVar are open; a full table of
variables is in `Evaluations`; errors of the chaining of queries are in `MacroBuffer`.
Read as the code reads, not as the documents say: letters between "?eval" and "("
are passed over, an unclosed "(" runs to ";" or "?", and one blank after `PRINT>>` is
part of the string.

*Commands.* One record type stands for all members of `command_union_t`. Commands
that only touch the outside world are one type `Effect`, those that wait for a key or
button one type `Wait`, the six queries one type `Query`: for the index of the next command they are alike. `can_fail` says that a
runtime error is possible, `values` which numbers a callback may give.

*MacroBuffer.* An action takes the next command of the text from `Alphabet`
(reading characters is left out) and does everything `macro_buffer_process_next`
does with it, including the check of InitVar and the walk back over the query
chain at the end of the function. `rim_strings` is apart from `rim` because asking
for a name (RS_RepeatEnd) adds it to the string manager. An error anywhere in the
text is `ReadError`. `EndOfText` is the end of the loop in `parse_file` with
`macro_buffer_extra_checks`; whether the RPN strings are valid is left open there.
Phase "exited" is `SHOULD_BE_UNREACHABLE`, "crashed" the read of `cmds[-1]`.

*RunProgram.* `pc` is "check" at the loop test, "exec" in a command. A command
action includes the end of the step (index, test for the end of the array).
`EscapePressed` may come between any two of them. `RuntimeError` is the two error
macros, which still finish the step. `Wait` is a `wait_key` or `wait_button` whose wait is
over; whether that comes is the subject of `MacroThreads`, and here it need not. Ints wrap
at `IntMax`.

*RPNEvaluator, Evaluations.* A number is its type and its sign; a result may have any
sign its type allows. A name stands for the function of the highest type among its
arguments, and the name of the function of one type (`__i<`) for just that one. The tokens of a string are chosen as the check comes to them, one
token per step; the check (`process_num` false) calls no function and keeps the types of
the numbers, `trace` remembers them. "killed" is the trap of a division of the lowest
number by -1, which no flag catches. Between evaluations
the run may change every variable: edits, the mouse, indices of commands, the clock.
One string stands for all of a text, since they meet only in the variables and the two
global flags. The evaluation of InitVar itself is a choice of a value, and the
evaluator of the RPN menu, which checks nothing beforehand, is not included.

*HashMap.* `call` holds the locals of the operation that runs, one slot per step:
Robin Hood insertion, the search, deletion by shifting backwards, growing, and the
operations of tables of perfect hashes. The hash function is any function. An operation
counts when it returns: until then the map is what the table held when it began
(`Contents`, the entries in hand included). Insertion exchanges the value it holds for
that of a slot, so `given` keeps what the caller passed, for the comparison.
`IntLongMap` is the same code with another type of key. Tables have two slots at least
(deletion from a table of one reads a freed key, and the player makes none). Tables of
perfect hashes are not grown or erased from, as in the code.

*Menus.* `at` is where `main` is, `loop` which `keypress_loop`; `Enters`, `Wakes`,
`Reads` and so on are the parts of that loop, the table `callbacks` is what the calls in
`main` register. X queues any grabbed key at any time; while Escape is held, the grab
of Escape is active and every key comes. In a run ("listen") any key may come, since a
macro grabs keys of its own. What is typed at the prompts, and whether parsing and
running succeed, is a choice. Values of the configuration, `see_stack` and the failure
of `pthread_create` are left out; nobody calls `wait_for_keypress`.

*MenuPath.* A path is a sequence of slashes and other characters, `len` what each
operation leaves. What lies behind the text's null character is open, since the path is
longer than it was; "lost" is a search that begins before the text (the player is
linked with the address sanitizer but not compiled with it, so that reading there does
not end it).

*KmGrabs.* `ks_arr` is a sequence, because its order matters (the listener looks at
the last entry); `ks_pressed` is a set of keys. `ks_alloc` is what the pointer
`ks_pressed` points to. `x_keys`, `x_buttons` are passive grabs; X identifies a key
by keycode, so two keysyms may share one grab. The keycode of Escape is 0, and no key of
the macro may have it, as the code refuses it.

*MacroThreads.* Each critical section of the main thread is one action (`MainLocks`), but
for the commands that send input: `KeyStroke` and `MouseClick` lift the grabs,
`SendPress` and `SendRelease` send one key or button each while the user goes on, and `SendEnds` puts the
grabs back; the listener does not get the mutex before. The listener keeps it over several
actions, `mutex` says so. `main = "wait"` is inside `pthread_cond_wait`; a signal moves it
to "woken" and is lost otherwise. Which command is next is left open: any command of
`Script` may run. The user presses and releases anything at any time, and the X server
repeats a key that is held.

The X server is modelled as the X protocol has it, since what the listener learns depends on
it. A press that matches a passive grab (`CoveredPress`) activates it. `key_grab` is the key
whose press grabbed the keyboard: until that key is released the player gets every
event of every key, the macro's own ones too, and ungrabbing the passive grab does not end
it. `button_grab` is the pointer grab, which ends when no button is down. Other clients see one
keyboard: a key that the macro and the user both hold goes up with the last of them. `told`
is a history variable, the inputs whose last queued event was a press. A passive button grab
is not activated while another button is down, and the listener ignores the modifiers of
a release, so those are not recorded.

### Bounds, and why they are enough

- `MaxSize` = 5 for texts: a chain of three queries (first, middle, last) and the two commands it
  decides between; a JTS> call, its label, and a RepeatStart with its end. Two names
  tell apart same and different labels.
- `MaxSize` = 4 for parse and run: the shortest call and return is three commands.
- `IntMax` = 7 is above every size and maximum, so that wrapping is seen in the one
  program made for it (`JTIR>` with the extreme values). `MaxStack` = 2: the stack
  may hold none, one, several and one too many indices. The rounds that
  `CountedLoops` counts stop at `IntMax`; no counted program asks for more than 3.
- Keys and buttons, in `thread_grabs`: two keycodes, one of them with a modifier, of which the
  first is also sent by keystrokes, so that a grabbed key can be held while the macro
  sends one, and two grabbed keys can be held at once; two buttons, so that the off-by-one
  has a neighbour and a pointer grab can be kept up by the other button. A run deals with
  keys or with buttons (`KeysOrButtons`), which share no grab and no entry; Escape is part of
  both. 5.15 million states. `thread_waits` has one key and two buttons, without commands that
  send; 237,000 states. Two keysyms of one keycode are in `MCMacroThreads_alias`.
  `MaxQueue` = 2 (1 where one event is enough): a press and its release in one drain.
- Macro texts: 2,395, whole ones with two macros whose bodies call each other, themselves and
  reserved macros, one or two calls with plain, escaped, nested and missing arguments,
  every reserved macro before and after `@ENUM`, and a text with each of its symbols
  missing. `MaxExpansions` = 6 in place of 100000: recursion reaches it, and so do calls
  that are nested three deep. The state between texts is `EnumValue`, so every text is
  met after every number that another can leave.
- Scanner texts: about 5,000, every command of `README.md`, whole and with each single
  symbol left out, before and behind probes with every kind of prefix, inversion and
  argument that could reach it (without delays that have no unit and without
  `ungrab_buttons`: `MCScanner_delay`, `MCScanner_ungrab`);
  a query that is negated three times, and one with an exclamation mark in its
  brackets. 64,500 states; the proofs have no bound.
- Hash map: four keys (symmetric), two values, tables of 3 and 4 slots, hashes 2 and 3: the
  probe sequence wraps around, the table is full, and keys are displaced and shifted over
  one another. 835,000 states.
- Evaluations: `MaxTokens` = 4 and eleven tokens, among them a variable of the macro and one of
  the player, a cast, a ternary, a comparison by the name of one type and a division by what may be zero; two names of which one
  is also the name of a function; a table of variables of two entries. 1.31 million states.
- Menus: `MaxQueue` = 2, so that a look at the queue takes two keys that contradict each other
  and a third that came meanwhile. 482,000 states; the proofs have no bound.
- Path: directories of three characters, files of five; `MaxPath` = 14 is three levels.

### Fairness

`RunProgram`: the main thread keeps running (weak fairness of its steps), except in a
`Wait`: `pthread_cond_wait` need not return, also after the run was told to stop. So
`StopEndsRun` speaks of a stop that does not come during a wait; then no wait begins any
more. Waits and stops together are the subject of `MacroThreads` (`EscapeStopsOthers`).
`MacroThreads`: strong fairness of both threads, because the mutex is free again and again, while the
listener sleeps and between two commands, but not all the time (in
`thread_waits`, where nothing is sent, the main thread has it within one action only, and weak
fairness of the listener would be the same); strong fairness of the end of the drain, since a loop
over `XPending` ends when the queue is seen empty often enough. Nothing is assumed of the user. Properties that need the user to stop
typing faster than the listener reads say so (`[]<>(queue = <<>>)`).
`Scanner`: the loop of `parse_file` goes on (weak fairness of Next).
`Menus`: weak fairness of `keypress_loop`, strong fairness of the end of its drain
(`QueueEmpty`), and `UserPauses`, the assumption that the drain does not find another
key for ever; nothing is assumed of the prompts.
The other modules state safety only: their programs run to an end in one call.

## 3. What the runs show

| run | question | result |
|---|---|---|
| `texts` | does the linker accept only programs that are safe to interpret, with jumps and chains as written? | holds |
| `program_runs` | does the interpreter stay in bounds, return to callers, count loops right, stop on errors and when told? | holds |
| `parse_and_run` | are the checks of the one exactly what the other needs, over several texts? | holds |
| `thread_grabs` | are grabs, pressed entries and held keys what the X server's events make them under all interleavings, and gone at the end? | holds |
| `thread_waits` | does Escape end waits and runs, does the join end? | holds |
| `macros` | does expansion give every text its meaning, whatever was expanded before, and read the definitions that are there? | holds |
| `scan_texts` | is every command read whole, with its own flags and arguments, and does the scanner reach the end of every text? | holds |
| `evaluations` | is the check of a string enough for all its evaluations? do types and fault flags stay as checked? | holds |
| `hash_map` | does the table do what a map of limited size does, and may a search stop early? | holds |
| `menus` | do grabs, variables and names belong to the menu that waits, is a run the last choice, does an ending key end? | holds |
| `lost_wakeup` | does Escape stop every run? | no: a signal before the wait is lost (`main.c` 1096) |
| `dotdot` | does ".." go to the parent directory? | no: `len` has three meanings (`main.c` 1291) |

`dotdot` in short: the default file sets the directory of the menu and `len` to the
length of the whole path of the file; ".." starts its search for a slash behind the
directory's last one, finds that, and stays. With directories of one character a
second ".." goes up two at once or begins before the text.

Further configurations lie beside these and each ends in a violation. They state what a
document or a comment says and the code does not do; they are kept to be run again when the
code changes.

| configuration (module) | property | what TLC finds |
|---|---|---|
| `MCMacroBuffer_duplicate` (`MCMacroBuffer`) | `NeverExits` | a second RepeatStart of a name exits the player (`parser.c` 2203) |
| `MCRunProgram_twoends` (`MCRunProgram`) | `RunsEnd` | two RepeatEnds of one start share a counter and never end (`main.c` 864) |
| `MCMacroThreads_ownkeys` (`MCMacroThreads`) | `OwnKeysNotSeen` | a grabbed key that is held grabs the whole keyboard, so that the listener reads the macro's own keys (`main.c` 814) |
| `MCMacroThreads_stalekey` (`MCMacroThreads`) | `PressedKeysAreHeld` | of two grabbed keys that are held the release of the second never comes (`main.c` 605) |
| `MCMacroThreads_waitends` (`MCMacroThreads`) | `WaitEndsAsDocumented` | an inverted wait for a key that is held already ends at once (`key_down_check.c` 130) |
| `MCMacroThreads_alias` (`MCMacroThreads`) | `KeysStayGrabbed` | ungrabbing one keysym, or the end of a wait for it, ungrabs another of its keycode (`key_down_check.c` 169) |
| `MCMacroThreads_others` (`MCMacroThreads`, with `-continue`) | `OwnClicksNotSeen` | `km_grabs_btoggle` is off by one (`key_down_check.c` 224) |
| the same | `NeverAborts` | `ungrab_keys` leaves `ks_pressed` dangling (`key_down_check.c` 198) |
| the same | `ClickEndsWait` | press and release read together do not end `wait_buttonc` (`main.c` 612) |
| `MCScanner_delay` (`MCScanner`) | `ArgumentsWhole` | a delay without unit loses its first digit (`parser.c` 625) |
| `MCScanner_ungrab` (`MCScanner`) | `CommandsTile` | the command behind `ungrab_buttons;` loses its first character, an exclamation mark for one (`parser.c` 189) |
| `MCScanner_prefix` (`MCScanner`) | `FlagsFromOwnText` | the text of a command behind `PRINT>>` and blanks begins inside of the prefix (`parser.c` 407-421) |
| `Menus_disabled` (`Menus`) | `DisabledKeysAreFree` | keys of a menu are grabbed although its keybinds are disabled (`key_down_check.c` 49) |
| `MCMacroPaster_reserved` (`MCMacroPaster`, with `-continue`) | `RepmacRepeats` | `@REPMAC` unescapes its arguments again each round (`reserved_macro.c` 45) |
| the same | `EnumSetWorks` | `@ENUM_S` leaves its output uninitialized (`reserved_macro.c` 127) |

The README of the repository and the code also differ in two examples of macros that no property speaks of: the
example of `@ENUM_K` shows the number before the one the code writes, and that of
`@REP` has its two arguments in the other order.

`ExpandsToMeaning` leaves three things out because the code gives them another meaning,
and says so: calls of a macro with fewer arguments than it has variables, which get those of
its call before; arguments of `@REPMAC` with an escape or a separator; and the numbers
of several `@ENUM` that are nested, which count from the deepest calls outwards.

Some of these have a counterpart in `thread_grabs` that says what does hold. Own keys are
read only while a held key grabs the keyboard (`OwnKeysNeedAGrab`, with `MCMacroThreads_ownkeys`). A
key that stays pressed is one whose release the X server did not report
(`PressedKeysAreTold`, with `MCMacroThreads_stalekey`). Buttons have no such entries, since the
pointer stays grabbed until all are up; `PressedButtonsAreHeld` says so although the
clicks of the macro do reach the listener. Spurious wakeups are allowed in
`thread_grabs`; the wait is not in a loop that looks again (`main.c` 1096, 1119), so with
them no wait need end for a reason, and `MCMacroThreads_waitends` shows that without them
it need not either.
`EscapeStopsOthers` says that the lost wakeup is the only way in which Escape fails.

Every property of a passing run has a mutant in `PROJECT.json`: a change of the model
like a plausible bug of the code, with which TLC finds that property violated.

## 4. What is proved

**The scanner.** `ScannerProofs` proves for every text over any symbols, whole or broken
off anywhere (`TextsAssumption`, `NULAssumption`: a text is a sequence without the null
character; `SymbolsAssumption`: no mark is a digit or a part of a name, as `isdigit` and
`char_is_key` have it):

- `EveryStateStopsAtTheEnd`: `Spec => []NeverPastEnd`
- `NothingIsDropped`: `Spec => []CommandsTile`, if no text has `ungrab_buttons`
- `FlagsAreOwn`: `Spec => [](PrefixesStand => FlagsFromOwnText)`
- `ArgumentsAreWhole`: `Spec => [](PrefixesStand /\ DelaysHaveUnits => ArgumentsWhole)`

The second is false for `ungrab_buttons;`, whose length counts the semicolon twice (`parser.c`
189, `MCScanner_ungrab`). The other two leave out just what `MCScanner_prefix` and
`MCScanner_delay` show: `PrefixesStand` says that behind a `PRINT>>` of the text stands no
blank, no comment and no other `PRINT>>`, and `DelaysHaveUnits` that the time of every
delay read begins with s, m or u. None is inductive: `NeverPastEnd` says nothing of where a
search or a look at the next character ends, the others nothing before the text is
accepted. The invariant `Inv`, for the first two, has three parts. `PositionsOK` types the locals. `CallOK`: a
call is in the text and, in all states but the first two, behind the first
character of its command. `TilesOK`, as long as there is no mistake: the commands
so far lie one behind the other, each ends with its mark, and what was passed since
the last one (`Passed`) belongs to none. A mouse click is in the array before its semicolon is
read (`Adding`), so the last command counts only when it is whole. The lemmas
about `First`, `AfterDigits`, `NumberEnd` and `IndicesEnd` say that a search that began in
the text ends in it: what it finds is not the null character. `MovesInv`, `FinishInv`,
`FailInv`, `StartingInv` and `ReturnInv` are the five ways in which a turn of the loop ends; each
state of the scanner has a lemma that reduces it to them.

`Said`, for the other two, is inductive together with `Inv`. As long as there is no mistake,
every command that is whole agrees with the text it was read from (`CommandSays`), and the
call agrees with what it has read so far: before a command (`StartSays`) it has no flag but
its prefix; inside of one, its flags are those of the text up to `at` (`FlagsSay`), the
arguments it has lie before `mark` and are whole, and from `mark` to `at` nothing
separates arguments (`ArgsSay`). `StateSays` adds what single states need: where a state
reads its argument from the first character on, that a key has been read before its state, or
that a delay has its unit. A flag that is passed on is kept as long as the text passed over
has no mark of its own (`Quiet`: an exclamation mark in brackets does not count), and each
mark that is read makes an odd number of them even (`MarkAdded`), so the inversion is
right for any number of exclamation marks; the run has three. `MoveSaid`, `EmitSaid`,
`FinishSaid`, `StartsOnSaid` and `FailSaid` stand beside the five lemmas above, and again each
state has its own. An argument in brackets is whole because the search for ")" ends at
one, a number because `AfterDigits` stops at no digit (`NumberArg`), and a name because
none of its characters is a mark (`SpanSays`, from `SymbolsAssumption`).

**The interpreter.** `RunProgramProofs` proves for all programs that satisfy
`WellFormed` (`ProgramsAssumption`), every `IntMax` above 0 and every `MaxStack`
(`BoundsAssumption`):

- `TypeCorrect`: `Spec => []TypeOK`
- `IndexStaysInBounds`: `Spec => []IndexInBounds`
- `StackKeepsCallers`: `Spec => []StackHoldsCallers`
- `StackEmptyBetweenRuns`: `Spec => []StackIsPerRun`
- `ErrorIsFinal`: `Spec => NothingAfterError`
- `CountersStayBelow`: `Spec => []CounterBelowMax`
- `LoopsRunExactly`: `CountedSpec => RepeatRunsExactly`

The first four come from one inductive invariant, `Inv`, their conjunction. None is
inductive alone: that the index stays in bounds after JumpBack needs what the stack
holds; that the stack holds callers of the running program needs it to be empty when
a program starts; and all need the types. `StepEnds` is the lemma that the command
lemmas share: a step that ends at a command or at the end of the array keeps the
part of `Inv` about the index. `ErrorIsFinal` has its own small invariant
(`ErrorStops`: after an error `program_done` is set). `CounterBelowMax` is inductive
together with `Inv`: a count that is below m <= `IntMax` does not wrap.
`RepeatRunsExactly` is about the programs of `LoopsAreCounted`: any nesting of loops, and
any queries and jumps that neither enter nor leave a loop (those that do may leave a
counter behind, which is what `rep_reset` is for). `LoopsInv` says that the counter of a loop
is the number of rounds made while the run is in the loop and 0 elsewhere; it is not
about the end of the run, where an error may leave a loop in its middle.
`OneEndPerStart` shows that two RepeatEnds of one start are no such program, which is
the case of `MCRunProgram_twoends`.

**The parser.** `MacroBufferProofs` proves for every alphabet of typed commands
(`AlphabetAssumption`) and texts of any length:

- `TypeCorrect`: `Spec => []TypeOK`
- `AcceptedRunsSafely`: `Spec => []AcceptedIsWellFormed`
- `JumpsAreResolved`: `Spec => []JumpsReachTheirLabel`
- `InitVarsAreFirst`: `Spec => []InitVarsFirst`
- `ChainsDecideAsWritten`: `Spec => []ChainsDecide`, if queries come from the text
  with the jumps the parser begins with (`QueriesUnlinked`, `parser.c` 116)

The properties speak of accepted texts only; the invariant `Inv` says what is true
after every command. `RepeatIds`: the id of a repeat name is the index of its
RepeatStart and every RepeatEnd goes back to one, as long as there is no error (a
name asked for in vain stays in the string manager). `JumpIds`: a JumpTo has the id
that the jump manager now gives its name, connected or not, and a name was added
exactly if its JumpFrom is in the array. `AcceptedByChecks`: accepted means that the
extra checks passed. The extra checks then rule out ids that are not connected.
`Appends` is what the command lemmas share: one command more, and only links of the
others changed. For the chains there is a second invariant, `ChainsLinked`: after every
command each run of queries has the jumps of its kind. `AppendChains` shows that the
walk back from a command relinks the whole of the last chain and no other;
`LandingDecides` that a chain so linked lands where `Outcome` says, by the least number
of queries left for which it would not.

**Both together.** `ParseFileProofs` proves, from the ranges of the constants and the
types of the alphabet alone (`ParseFileAssumption`):

- `EveryTextRunsInBounds`: `Spec => []AcceptedRunsInBounds`
- `EveryTextKeepsItsCallers`: `Spec => []CallersOfThisText`

It instantiates both modules above, with `Linked`, all well-formed programs, for
`Programs`. The assumptions of the two become obligations (`ParserAssumption`,
`PlayerAssumptions`), and `AcceptedIsLinked` is the joint: what the parser's theorem
says of an accepted text is what the interpreter's theorem assumes of a program. The
invariant says that the program that runs is the accepted one, that the
interpreter's `Inv` holds while it runs, and that between two runs the stack is empty.

**RPN strings.** `EvaluationsProofs` proves for any tokens, names, values of InitVar,
length of a string and size of the table of variables:

- `CheckIsEnoughHolds`: `Spec => []CheckIsEnough`
- `TypesAsCheckedHolds`: `Spec => []TypesAsChecked`
- `FlagsFreshHolds`: `Spec => []FlagsFresh`

The argument is that the check and the evaluation walk over the same tokens with the same
types. `VarTypes` says which type each name has, `ReadingAt` what a token is read as
(number, variable, function) and `TypesAfter` what it does to the types of the stack;
none of them depends on a value, only on the names and types of the variables, which
no step between InitVar and the next text changes. `CheckedInv`: `trace` is a chain of
`TypesAfter`, and each of its tokens passed. `StackInv`: the stack of an evaluation has
the types of `trace` at its token. `PassedInv`: what is evaluated again passed the
check. So an evaluation can only fail where values count, which is arithmetic.

**The menus.** `MenusProofs` proves for queues of any length:

- `GrabsMatchHolds`: `Spec => []GrabsMatch`
- `OwnedWhileUsedHolds`: `Spec => []OwnedWhileUsed`
- `RunWasChosenHolds`: `Spec => []RunWasChosen`

None is inductive alone. `WhereInv` ties `at`, `loop` and `menu_state` to each other (a loop
leaves `menu_state` where one of its callbacks can put it), `ChoiceInv` the flags of
`main` to the history `chosen`, however many keys one look at the queue took.

**The threads and grabs.** `MacroThreadsProofs` proves for any keys, keycodes, buttons,
script and length of the queue (`NumButtonsAssumption`, `KeyStringsAssumption`):

- `TypeCorrect`: `Spec => []TypeOK`
- `ListenerLooksAtWaitedKey`: `Spec => []WaitedKeyIsLast`
- `OwnKeysSeenOnlyUnderGrab`: `Spec => OwnKeysNeedAGrab`
- `RunLeavesNothing`: `Spec => []NothingLeftBehind`
- `KeysTakenAsTold`: `Spec => []PressedKeysAreTold`
- `ButtonsTakenAsHeldAre`: `Spec => []PressedButtonsAreHeld`
- `GrabsAreKept`: `Spec => []KeysStayGrabbed`, if no two keys share keycode and modifier
- `OnlyUngrabKeyAllAborts`: `Spec => []NeverAborts`, if the script has no UngrabKeyAll

Each hypothesis is needed: `MCMacroThreads_alias` and `MCMacroThreads_others` show the
properties violated without it. `Inv` has one part for each thing that must hold in every
step. `GrabsOK`: `ks_arr` lists no key twice, and only keys that are listed are
taken to be pressed or grabbed from the X server; each operation of `KmGrabs` has a lemma that keeps
it. `ThreadsOK`: the listener has the mutex exactly while it reads, Escape is grabbed
exactly during its loop, no passive key grab is left while a keystroke is sent (which is
what `OwnKeysSeenOnlyUnderGrab` needs), and a run that is over has given everything back. `WaitOK`: a
main thread that waits does so for one thing, the last of `ks_arr` if it is a key; this is
inductive only since no other command runs while it waits. `HeldOK`: `kdc` knows the strings of
every key that is held or still to be pressed, but for those that will be released, so that
the end of a run releases them all. `ServerOK`: the key that grabbed the keyboard is down, and a
button whose press was queued last is down with the pointer grabbed; this carries
`ButtonsTakenAsHeldAre`, and its counterpart for keys is false. `QueueOK` relates the queue to
what was told: a press that nothing of its input follows in the queue is of an input whose last
event was a press.

**The hash map.** `HashMapProofs` proves for any keys, values and hash function and all
sizes from two up (`SizesAssumption`, `HashesAssumption`):

- `EntriesInOrder`: `Spec => []ProbeOrder`
- `TableIsAMap`: `Spec => Implements`

The invariant has one part for each phase of the running operation, since a table is
not in order in the middle of one: `QuietOK` between operations, `SearchOK`, `LoopOK` (an
insertion: the entry in hand fits behind the one before the slot it has come to, and the
caller's key is in hand or in a slot that was passed),
`ShiftOK` (a deletion: one slot is a hole, and all else is in order once it is closed),
`MoveOK` and `ReassignOK` (growing: every entry is in one of the two tables), `StoredOK`
and `PerfectOK`. `OrderOK`, that an entry not at home is at most one step farther from
home than the one before it, is what makes `ProbeOrder` inductive: from it, going backwards slot by
slot, an entry has nothing free and nothing nearer to home than itself between it and its
home. `SomeStop`, that a free slot or an entry at home is left,
is why a deletion ends. For the refinement, `Contents` is what the table holds with the entries in
hand; each step leaves it and `entries` as they are, except the one with which an
operation returns, which is a step of `KeyValueMap`.

`TypeCorrect` of `RunProgramProofs`, `MacroBufferProofs` and `MacroThreadsProofs` states a
type invariant that no run checks any more: the proof covers it for all values of the
constants.

Not proved, checked by TLC only: the
path, what a text means (`ExpandsToMeaning` and `MacrosAreTheText`: `MacroMeaning` is
recursive over data), and all liveness properties (`StopEndsRun`, `EscapeEndsWait`,
`EscapeStopsOthers`, `JoinEnds`, `CountedRunsEnd`, `EndingKeyEnds`, `TextConsumed`: fairness
and ENABLED are out of the prover's reach).

## 5. Not modelled, and why

- Inside of words and numbers: the scanner takes keywords and numbers as spans of text,
  the macro paster numbers of one digit and no escaped brackets. Printing,
  highlighting, `macro_expand.out` and the layout of messages.
- The shared string manager: its reference counts free equal names once; names are a
  set in `MacroBuffer` and the memory is not modelled.
- The empty file: `trim_comments` tests for the end after its first character and so reads
  behind it (`shared_string.c` 547-563); no text of `MCMacroPaster` is empty.
- Buttons beyond the five of the code when AnyButton is grabbed by the off-by-one; the
  release that X reports with each repeat of a key; grabs and focus of other programs.
- Mouse buttons held by a macro at its end: the code does not track them.
- Failure of `pthread_create`; the cancel of a run with q, which changes nothing.
- Configuration files and frequency: no behaviour to check.

## 6. Plan

1. (done) `Commands`, `MacroBuffer`, `RunProgram`, `ParseFile`; `KmGrabs`,
   `MacroThreads`; proofs of the safety of parser, interpreter and both together.
2. (done) `Scanner`; `HashMap` as a refinement of `KeyValueMap`; `RPNEvaluator` and
   `Evaluations` with their proofs; `Menus` with its proofs and `MenuPath`;
   `MacroPaster` against `MacroMeaning`.
3. (done) Proofs of the threads and grabs, of the hash map and its refinement, of what
   chaining does to the jumps of a query chain, of the scanner's positions, flags and
   arguments, and of the rounds of counted loops.
4. The failure of `pthread_create` (`main.c` 711) in `MacroThreads`; the shared string
   manager.
5. An abstract run (started, waiting, stopped) that `MacroThreads` without waits
   implements.
