--------------------------- MODULE MCMacroPaster ---------------------------
(* The texts that TLC gives to MacroPaster *)
EXTENDS MacroMeaning

CallOf(name, args) == <<"[!">> \o name \o FlattenSeq([i \in DOMAIN args |-> <<":">> \o args[i]])
                      \o <<"!]">>

A == <<"A">>
B == <<"B">>
x == <<"x">>
none == <<>>

\* Definition texts of a macro A with the variables v and vw and of B with none
BodiesOfA == {<<":", "v", "w", ",", ":", "v">>, <<"[!", ":", "v", "!]">>,
              <<"\\", ":", "v", "w">>,
              <<"[!", "A", ":", ":", "v", "!]">>} \cup
             {CallOf(B, <<>>), CallOf(<<"@REP">>, << <<"2">>, <<":", "v">>>>)}

BodiesOfB == {<<"x">>, <<":", "x">>, <<"[!", "B", "!]">>,
              CallOf(A, <<x, <<",">>>>), CallOf(<<"@ENUM">>, <<none, none>>)}

Definitions == {<<"[!!", "[!", "A", ":", "v", ":", "v", "w", ":=">> \o a \o
                <<"!]", ",", "[!", "B", ":=">> \o b \o <<"!]", ",", "!!]">> : a \in BodiesOfA, b \in BodiesOfB}

Arg == {x, <<"\\", ":">>, <<"\\", "\\", ":", "x">>, B, CallOf(B, <<>>)}

Arg2 == {x, B, CallOf(B, <<>>)}

CallsOfMacros ==
  {CallOf(B, <<>>), CallOf(A, <<x>>), CallOf(A, <<B, <<"2">>>>), CallOf(B, <<x>>)} \cup
  {CallOf(A, <<p, q>>) : p \in Arg, q \in Arg2} \cup
  {CallOf(A, <<CallOf(A, <<p, x>>), B>>) : p \in {x, CallOf(B, <<>>)}}

Numbers == {<<"-", "1">>, <<"0">>, <<"2">>}

Enums == {CallOf(<<e>>, <<x, none>>) : e \in {"@ENUM", "@ENUMREV", "@ENUM_K"}}

Enum == CallOf(<<"@ENUM">>, <<none, none>>)

RepmacsOfMacros ==
  {CallOf(<<"@REPMAC">>, <<n, x, <<",">>, m, x>>) : n \in Numbers, m \in {A, B}} \cup
  {CallOf(<<"@REPMAC">>, << <<"2">>, l, <<",">>, m>>) : m \in {A, B}, l \in {x, <<"\\", ":">>}}

CallsOfReserved ==
  Enums \cup
  {CallOf(<<"@ENUM_S">>, << <<"2">>>>), CallOf(<<"@ENUM">>, <<x>>)} \cup
  {CallOf(<<"@REP">>, <<n, p>>) : n \in Numbers \cup {Enum}, p \in {x, Enum}} \cup
  {CallOf(<<"@REPMAC">>, <<n, x, <<",">>, <<"@ENUM">>, none, none>>) : n \in Numbers} \cup
  {CallOf(<<"@REPMAC">>, << <<"2">>, x, none, <<"@REP">>, p, x>>) : p \in Numbers} \cup
  {CallOf(<<"@REPMAC">>, << <<"2">>, x, x>>), CallOf(<<"@REPMAC">>, << <<"2">>, x, x, none>>)} \cup
  {CallOf(<<"@FOREACH">>, <<s, <<"x", "a", "x">>, none, <<"x", "x">>>>) : s \in {none, x, <<"a", "x">>}} \cup
  {CallOf(<<"@FOREACH">>, <<x, none>>), CallOf(<<"@FOREACH">>, <<none, none, x>>)}

\* A second call, after one that may have left other values
SecondCalls == {CallOf(B, <<>>), CallOf(A, <<x, B>>)}

\* One missing symbol, a comment, brackets at wrong places
Without(s, i) == Before(s, i) \o After(s, i)

\* Brackets side by side would read "[!!".
Neighbours(s) == \E i \in 1 .. Len(s) - 1 : s[i] = "[!" /\ s[i + 1] = "!]"

Broken == LET whole == <<"[!!", "[!", "A", ":", "v", ":=", ":", "v", "!]", "[!", "B", ":=", "x", "!]",
                         "!!]">> \o CallOf(A, <<CallOf(B, <<>>)>>)
          IN {t \in {Without(whole, i) : i \in 2..Len(whole)} : ~Neighbours(t)} \cup
             {whole \o <<"[!!">>, whole \o <<"!!]">>, whole \o <<"!]", "[!">>,
              <<"#", "[!!", "\n">> \o whole \o <<"#", "!]", "\n", "x", "#", "[!">>,
              <<"[!!", "!!]", "x">>, <<"x">>, <<"[!!", "x", "!!]", "x">>,
              <<"[!!", "[!", "A", ":=", "!]", "[!", "A", ":=", "!]", "!!]">>,
              <<"[!!", "[!", "A", ":", "v", ":", "v", ":=", "!]", "!!]">>,
              <<"[!!", "[!", "A", ",", ":=", "!]", "!!]">>, <<"[!", "A", "!]">>,
              <<"[!", ":", "x", "!]">>, <<"[!", "@REP", ":", "2", ":", "\\", "!]">>}

MCFiles == {d \o c1 : d \in Definitions, c1 \in CallsOfMacros \cup RepmacsOfMacros} \cup
           {d \o c1 \o c2 : d \in Definitions, c1 \in CallsOfMacros, c2 \in SecondCalls} \cup
           CallsOfReserved \cup
           {c1 \o c2 : c1 \in CallsOfReserved, c2 \in Enums} \cup
           {c1 \o c2 : c1 \in Enums, c2 \in CallsOfReserved} \cup
           Broken
=============================================================================
