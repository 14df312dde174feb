------------------------------- MODULE MCScanner -------------------------------
(* Small texts for Scanner: documented commands, whole and damaged. *)
EXTENDS Scanner, SequencesExt

AllDigits  == {"1", "9"}
AllButtons == {"1"}
AllLetters == {"k", "c", "d", "i", "r", "m", "s", "n"}
AllWords   == {"exit", "pass", "ungrab_keys", "ungrab_buttons", "save_mma",
  "load_mma", "rep_reset", "JB", "init", "edit", "JTIA", "JTIR", "JT", "JTS",
  "JF", "mma", "mmr", "wait_key", "wait_button", "wait_buttonc", "grab_key",
  "ungrab_key", "grab_button", "ungrab_button", "print", "println", "debug",
  "PRINT", "pxc", "coords", "within", "eval", "key_pressed", "button_pressed",
  "x", "y", "debug_print_type", "rpn_decimals", "rpn_stack_debug", "Escape", "shift"}
AllKeySyms == {"k", "c", "x", "Escape"}
AllModifiers == {"shift"}

\* The commands the README describes.
Commands ==
  { <<"exit", ";">>, <<"pass", ";">>,
    <<"ungrab_keys", ";">>,
    <<"save_mma", ";">>,
    <<"load_mma", ";">>,
    <<"rep_reset", ";">>,
    <<"JB", ">", ";">>,
    <<"k", "+", "c", "=", "c", ";">>,
    <<"m", "1", "=", "d", ";">>,
    <<".", "m", "1", "9", ";">>,
    <<".", "s", "(", "1", ")", ";">>,
    <<"(", "k", ";", ")", "k", ";">>,
    <<"(", "k", ";", ")", "k", "=", "1", "9", ";">>,
    <<"(", "k", ";", ")", "k", "=", "(", "1", ")", ";">>,
    <<"mma", "=", "1", ",", "-", "1", ";">>,
    <<"mmr", "=", "(", "1", ")", ",", "(", "1", ")", ";">>,
    <<"JT", ">", "k", ";">>,
    <<"JTIA", ">", "1", ";">>,
    <<"JTIR", ">", "(", "1", ")", ";">>,
    <<"JF", ">", "k", ";">>,
    <<"wait_key", "=", "shift", "+", "k", ";">>,
    <<"wait_button", "=", "1", ";">>,
    <<"!", "wait_button", "=", "1", ";">>,
    <<"wait_buttonc", "=", "1", ";">>,
    <<"grab_key", "=", "k", "+", "shift", ";">>,
    <<"ungrab_key", "=", "k", ";">>,
    <<"grab_button", "=", "1", ";">>,
    <<"ungrab_button", "=", "1", ";">>,
    <<"print", "=", "k", ";", "(", "1", ")", "\\", "n", ";", ";">>,
    <<"println", "=", ";", ";">>,
    <<"?", "pxc", "=", "1", ",", "(", "1", ")", ",", "1", ",", "9", "1", "?">>,
    <<"?", "1", ":", "-", "1", ",", "!", "coords", "=", "x", "<", "=", "1", "?">>,
    <<"?", "coords", "=", "y", ">", "(", "1", ")", "?">>,
    <<"?", "within", "=", "1", ",", "1", ",", "1", ",", "(", "9", ")", "?">>,
    <<"&", "!", "eval", "=", "(", "k", ")", "?">>,
    <<"?", "key_pressed", "=", "k", "?">>,
    <<"init", ",", "i", ",", "k", "=", "-", "1", ".", "9", ";", "edit", ",", "k", "=", "(", "1", ")", ";">>,
    <<"#", "k", ";", "\n", " ", "pass", ";">> }

\* Commands with flags of every kind.
Probes ==
  { <<"PRINT", ">", ">", "exit", ";">>,
    <<"JTS", ">", "c", ";">>,
    <<"!", "wait_key", "=", "k", ";">>,
    <<"|", "button_pressed", "=", "1", "?">>,
    <<"m", "1", "=", "c", ";">>,
    <<"\n", "k", "=", "d", ";", "#", "c">> }

\* Commands whose value may be refused when it is looked at.
Evaluated ==
  { <<"debug", ",", "rpn_decimals", "=", "9", ";">>,
    <<"init", ",", "r", ",", "k", "=", "i", "(", "1", ")", ";">>,
    <<"init", ",", "i", ",", "k", "=", "1", ";",
      "init", ",", "r", ",", "k", "=", "c", "(", "1", ")", ";">> }

\* Commands that are refused, and one that becomes another when it is damaged.
Refused ==
  { <<"Escape", "=", "c", ";">>, <<"k", "+", "Escape", "=", "c", ";">>,
    <<"grab_key", "=", "k", "+", "c", ";">>,
    <<"wait_key", "=", "shift", "+", "Escape", ";">>,
    <<"JF", ">", "k", ";", "JF", ">", "k", ";">>,
    <<"init", ",", "i", ",", "k", "=", "1", ";", "init", ",", "i", ",", "k", "=", "1", ";">>,
    <<"m", "1", "=", "c", "d", ";">>,
    <<"print", "=", "\\", "k", ";", ";">>,
    <<".", "1", ";">>, <<"?", "1", ":", "1", ",", "1", ":", "1", ",", "eval", "=", "(", "1", ")", "?">> }

\* A mistake: one symbol is missing.
Damaged(t) == {RemoveAt(t, i) : i \in DOMAIN t}

\* A delay of several digits without a unit, which DelayTexts has.
Unitless(t) ==
  \E i \in 1 .. Len(t) - 2 :
    t[i] = "." /\ t[i + 1] \in AllDigits /\ t[i + 2] \in AllDigits

Fives == <<"?", "pxc", "=", "1", ",", "1", ",", "1", ",", "1", ",", "1", "?">>

\* Marks that undo each other, and one that is a part of an argument.
Thrice == <<"?", "!", "!", "!", "button_pressed", "=", "1", "?">>
Inner  == <<"|", "!", "eval", "=", "k", "(", "!", ")", "?">>

\* Every piece, whole or damaged, before and behind every probe.
AllTexts ==
  LET whole == Commands \union Evaluated \union Refused \union Probes
      pieces == whole \union {Fives, Thrice, Inner} \union UNION {Damaged(t) : t \in whole}
      texts == {a \o b : a \in pieces, b \in Probes}
               \union {b \o a : a \in pieces, b \in Probes}
  IN {t \in texts : ~Unitless(t)}

\* Delays in every unit and in none.
DelayTexts ==
  {a \o b : a \in {<<".", "1", "9", ";">>, <<".", "1", "1", "9", ";">>, <<".", "m", "1", "9", ";">>},
            b \in Commands}

\* Something is between a prefix and its command.
PrefixTexts ==
  {<<"PRINT", ">", ">">> \o a \o b :
     a \in {<<>>, <<" ">>, <<"\n", " ">>, <<"#", "k", "\n">>, <<"PRINT", ">", ">">>},
     b \in Commands \union Probes}

\* The only command whose length is counted differently, before commands whose
\* first character stands for itself.
UngrabTexts ==
  {<<"ungrab_buttons", ";">> \o b : b \in {b \in Probes : b[1] \notin AllWords}}
===============================================================================
