---------------------------- MODULE ScannerProofs ----------------------------
(***************************************************************************)
(* Proofs about Scanner, for every text over any symbols: no state reads   *)
(* behind the end of the text, the commands of an accepted text lie one    *)
(* behind the other with nothing between them that could be one, and the   *)
(* flags and the arguments of a command are those of its own text.         *)
(***************************************************************************)
EXTENDS Scanner, FiniteSetTheorems, WellFoundedInduction, TLAPS

(***************************************************************************)
(* Char and Ignored with the text as an argument, so that what is said of  *)
(* a state can be said of the next one, which has the same text.           *)
(***************************************************************************)
CharOf(t, i) == IF i < Len(t) THEN t[i + 1] ELSE NUL

\* Character k of t belongs to no command, if the last one ended before i.
VoidAt(t, i, k) ==
  \/ CharOf(t, k) \in Blanks \union {Semicolon}
  \/ \E h \in i .. k :
       k < h + 3 /\ CharOf(t, h) = "PRINT" /\ CharOf(t, h + 1) = ">" /\ CharOf(t, h + 2) = ">"
  \/ \E h \in i .. k : CharOf(t, h) = "#" /\ \A g \in h .. k - 1 : CharOf(t, g) # NewLine

Void(t, i, j) == \A k \in i .. j - 1 : VoidAt(t, i, k)

CommandTypes ==
  DOMAIN Simple \union
  {"RepeatStart", "RepeatEnd", "KeyStroke", "Delay", "MouseClick",
   "MoveMouse", "JumpTo", "JumpToIndex", "JumpFrom",
   "QueryComparePixel", "QueryCompareCoords", "QueryCoordsWithin",
   "QueryRPNEval", "QueryKeyPress", "QueryButtonPress", "InitVar",
   "EditVar", "WaitUntilKey", "WaitUntilButton", "GrabKey", "UngrabKey",
   "GrabButton", "UngrabButton", "PrintString", "DebugConfig"}

Combs == {"NONE", "OR", "AND", "CUSTOM"}

Locals ==
  [start : Nat, print : BOOLEAN, invert : BOOLEAN, store : BOOLEAN, comb : Combs,
   rpn : BOOLEAN, keystate : BOOLEAN, args : Seq(Int \X Int)]

CommandRec ==
  [type : CommandTypes, print : BOOLEAN, invert : BOOLEAN, store : BOOLEAN, comb : Combs,
   args : Seq(Int \X Int), from : Int, to : Int]

\* Where command n of cs ends.
EndOf(cs, n) == IF n = 0 THEN -1 ELSE cs[n].to

\* Command n of cs lies behind the one before it and is whole.
TileOK(t, cs, n) ==
  /\ EndOf(cs, n - 1) < cs[n].from /\ cs[n].from < cs[n].to
  /\ Void(t, EndOf(cs, n - 1) + 1, cs[n].from)
  /\ CharOf(t, cs[n].to) \in {Semicolon, "?"}

\* The states before the first character of a command.
Starting == {"RS_Start", "RS_Comments"}

\* The last command is a mouse click whose semicolon is not read yet.
Adding == read_state = "RS_MouseClickState" /\ loc.keystate

Whole == IF Adding THEN Len(cmds) - 1 ELSE Len(cmds)

\* What has been read since the last command and belongs to none.
Passed ==
  IF read_state = "Between" THEN (IF token_i < Len(text) THEN token_i ELSE Len(text))
  ELSE IF read_state \in Starting THEN at
  ELSE loc.start

PositionsOK ==
  /\ text \in Texts
  /\ token_i \in 0 .. Len(text) + 1 /\ mark \in Nat /\ at \in Nat
  /\ parse_error \in BOOLEAN
  /\ cmds \in Seq(CommandRec)
  /\ loc \in Locals

\* A command begins before the character being read, which is in the text.
CallOK ==
  read_state # "Between" =>
    /\ mark <= at /\ at <= Len(text)
    /\ token_i <= loc.start
    /\ loc.start <= at /\ (read_state \notin Starting => loc.start < at)
    /\ loc.keystate => read_state \in {"RS_KeyState", "RS_MouseClickState"}
    /\ Adding => Len(cmds) > 0

\* No text has the command whose length is counted differently.
NoUngrabButtons == \A t \in Texts : \A i \in DOMAIN t : t[i] # "ungrab_buttons"

\* Everything up to here belongs to a whole command or to none.
TilesOK ==
  ~parse_error /\ NoUngrabButtons =>
    /\ \A n \in 1 .. Whole : TileOK(text, cmds, n)
    /\ EndOf(cmds, Whole) < token_i
    /\ Void(text, EndOf(cmds, Whole) + 1, Passed)
    /\ read_state = "RS_Comments" =>
         \E h \in EndOf(cmds, Whole) + 1 .. at - 1 :
           CharOf(text, h) = "#" /\ \A g \in h .. at - 1 : CharOf(text, g) # NewLine

Inv == PositionsOK /\ CallOK /\ TilesOK

-------------------------------------------------------------------------------
(* The text. *)

\* The marks with a name are not the null character.
LEMMA Marks == Semicolon # NUL /\ Comma # NUL /\ NewLine # NUL
  BY Zenon DEF Semicolon, Comma, NewLine, NUL

\* A text is a sequence, and the null character is behind its last one.
LEMMA TextFacts ==
  ASSUME text \in Texts
  PROVE  /\ Len(text) \in Nat
         /\ \A i \in Nat : Char(i) # NUL <=> i < Len(text)
         /\ \A i : Char(i) = CharOf(text, i)
<1>1. text \in Seq(STRING) /\ \A i \in DOMAIN text : text[i] # NUL
  BY TextsAssumption, NULAssumption
<1>2. Len(text) \in Nat /\ \A i \in Nat : i < Len(text) => i + 1 \in DOMAIN text
  BY <1>1
<1>. QED  BY <1>1, <1>2 DEF Char, CharOf

\* A set of numbers has a least one.
LEMMA Least ==
  ASSUME NEW T, T \subseteq Nat, T # {}
  PROVE  \E n \in T : \A m \in T : n <= m
<1>1. IsWellFoundedOn(OpToRel(<, Nat), Nat)
  BY NatLessThanWellFounded
<1>2. PICK n \in T : \A m \in T : ~(<<m, n>> \in OpToRel(<, Nat))
  BY <1>1, WFMin
<1>3. \A m \in T : ~(m < n)
  BY <1>2 DEF OpToRel
<1>. QED  BY <1>3

\* The search for a symbol ends at one of them or at the end of the text.
LEMMA FirstFacts ==
  ASSUME text \in Texts, NEW i \in Nat, i <= Len(text), NEW S
  PROVE  /\ First(i, S) \in i .. Len(text)
         /\ Char(First(i, S)) \in S \union {NUL}
<1> DEFINE T == {j \in i .. Len(text) : Char(j) \in S \union {NUL}}
<1>1. Len(text) \in Nat /\ Char(Len(text)) = NUL
  BY TextFacts
<1>2. T \subseteq Nat /\ Len(text) \in T
  BY <1>1
<1>3. \E j \in T : \A k \in T : j <= k
  <2> HIDE DEF T
  <2>. QED  BY <1>2, Least
<1>4. \E j \in i .. Len(text) :
        /\ Char(j) \in S \union {NUL}
        /\ \A k \in i .. j - 1 : Char(k) \notin S \union {NUL}
  <2>1. PICK j \in T : \A k \in T : j <= k
    BY <1>3
  <2>2. ASSUME NEW k \in i .. j - 1 PROVE Char(k) \notin S \union {NUL}
    <3>1. k \in i .. Len(text) /\ ~(j <= k)
      BY <1>1, <2>1
    <3>. QED  BY <2>1, <3>1
  <2>. QED  BY <2>1, <2>2
<1>. QED  BY <1>4 DEF First

\* The search for the end of a number ends behind its digits.
LEMMA AfterDigitsFacts ==
  ASSUME text \in Texts, NEW i \in Nat, i <= Len(text)
  PROVE  /\ AfterDigits(i) \in i .. Len(text)
         /\ \A k \in i .. AfterDigits(i) - 1 : Char(k) \in Digits
<1> DEFINE T == {j \in i .. Len(text) : Char(j) \notin Digits}
<1>1. Len(text) \in Nat /\ Char(Len(text)) = NUL /\ NUL \notin Digits
  BY TextFacts, NULAssumption
<1>2. T \subseteq Nat /\ Len(text) \in T
  BY <1>1
<1>3. \E j \in T : \A k \in T : j <= k
  <2> HIDE DEF T
  <2>. QED  BY <1>2, Least
<1>4. \E j \in i .. Len(text) :
        /\ Char(j) \notin Digits
        /\ \A k \in i .. j - 1 : Char(k) \in Digits
  <2>1. PICK j \in T : \A k \in T : j <= k
    BY <1>3
  <2>2. ASSUME NEW k \in i .. j - 1 PROVE Char(k) \in Digits
    <3>1. k \in i .. Len(text) /\ ~(j <= k)
      BY <1>1, <2>1
    <3>. QED  BY <2>1, <3>1
  <2>. QED  BY <2>1, <2>2
<1>. QED  BY <1>4 DEF AfterDigits

\* A number ends behind its first character, at the mark that it has to end with.
LEMMA NumberEndFacts ==
  ASSUME text \in Texts, at \in Nat, NEW first, NUL \notin first, NEW stops,
         NEW term, term # NUL, NumberEnd(first, stops, term) # None
  PROVE  LET e == NumberEnd(first, stops, term) IN
         e \in at + 1 .. Len(text) - 1 /\ Char(e) = term
<1>1. Len(text) \in Nat /\ \A i \in Nat : Char(i) # NUL <=> i < Len(text)
  BY TextFacts
<1>2. CASE Here \in first
  <2> DEFINE e == AfterDigits(at + 1)
  <2>1. at + 1 \in Nat /\ at + 1 <= Len(text)
    BY <1>1, <1>2 DEF Here
  <2>2. e \in at + 1 .. Len(text)
    BY <2>1, AfterDigitsFacts
  <2>3. NumberEnd(first, stops, term) = e /\ Char(e) = term
    BY <1>2 DEF NumberEnd
  <2> HIDE DEF e
  <2>4. e \in Nat /\ e < Len(text)
    BY <1>1, <2>2, <2>3
  <2>. QED  BY <1>1, <2>1, <2>2, <2>3, <2>4
<1>3. CASE Here \notin first
  <2> DEFINE e == First(at + 1, stops \union {")"})
  <2>0. Here = "("
    BY <1>3 DEF NumberEnd
  <2>1. at + 1 \in Nat /\ at + 1 <= Len(text)
    BY <1>1, <2>0 DEF Here, NUL
  <2>2. e \in at + 1 .. Len(text)
    BY <2>1, FirstFacts
  <2>3. NumberEnd(first, stops, term) = e + 1 /\ Char(e + 1) = term
    BY <1>3, <2>0 DEF NumberEnd
  <2> HIDE DEF e
  <2>4. e + 1 \in Nat /\ e + 1 < Len(text)
    BY <1>1, <2>2, <2>3
  <2>. QED  BY <1>1, <2>1, <2>2, <2>3, <2>4
<1>. QED  BY <1>2, <1>3

\* Two indices end at the comma behind them.
LEMMA IndicesEndFacts ==
  ASSUME text \in Texts, at \in Nat, Here # NUL, IndicesEnd # None
  PROVE  IndicesEnd \in at + 1 .. Len(text) - 1
<1> DEFINE colon == AfterDigits(at + 1)
           next  == IF Char(colon + 1) = "-" THEN colon + 2 ELSE colon + 1
           comma == AfterDigits(next)
<1>1. Len(text) \in Nat /\ \A i \in Nat : Char(i) # NUL <=> i < Len(text)
  BY TextFacts
<1>2. Char(colon) = ":" /\ Char(comma) = Comma /\ IndicesEnd = comma
  BY DEF IndicesEnd
<1>3. at + 1 \in Nat /\ at + 1 <= Len(text)
  BY <1>1 DEF Here
<1>4. colon \in at + 1 .. Len(text)
  BY <1>3, AfterDigitsFacts
<1> HIDE DEF colon
<1>5. colon + 1 <= Len(text) /\ colon + 1 \in Nat
  <2>1. colon \in Nat
    BY <1>1, <1>4
  <2>2. Char(colon) # NUL
    BY <1>2, Zenon DEF NUL
  <2>3. colon < Len(text)
    BY <1>1, <2>1, <2>2
  <2>. QED  BY <1>1, <2>1, <2>3
<1>6. next \in Nat /\ next <= Len(text) /\ next >= at + 1
  BY <1>1, <1>3, <1>4, <1>5 DEF NUL
<1> HIDE DEF next
<1>7. comma \in next .. Len(text)
  BY <1>6, AfterDigitsFacts
<1> HIDE DEF comma
<1>8. comma \in Nat /\ comma < Len(text)
  <2>1. comma \in Nat
    BY <1>1, <1>6, <1>7
  <2>2. Char(comma) # NUL
    BY <1>2, Marks
  <2>. QED  BY <1>1, <2>1, <2>2
<1>9. comma >= next
  BY <1>1, <1>6, <1>7
<1>10. comma \in at + 1 .. Len(text) - 1
  BY <1>1, <1>3, <1>6, <1>8, <1>9
<1>. QED  BY <1>2, <1>10

\* A word that the text goes on with is inside it.
LEMMA StartsInside ==
  ASSUME text \in Texts, at \in Nat, NEW word, NEW n \in Nat, n > 0, DOMAIN word = 1 .. n,
         word[n] # NUL, Starts(word)
  PROVE  at + n <= Len(text) /\ Char(at + n - 1) = word[n]
<1>1. n \in DOMAIN word
  OBVIOUS
<1>2. Char(at + n - 1) = word[n]
  BY <1>1 DEF Starts
<1>3. at + n - 1 \in Nat
  OBVIOUS
<1>4. at + n - 1 < Len(text) /\ Len(text) \in Nat
  BY <1>2, <1>3, TextFacts
<1>. QED  BY <1>2, <1>4

-------------------------------------------------------------------------------
(* What is between commands. *)

LEMMA VoidEmpty ==
  ASSUME NEW t, NEW i \in Int, NEW j \in Int, j <= i
  PROVE  Void(t, i, j)
  BY DEF Void

LEMMA VoidLess ==
  ASSUME NEW t, NEW i \in Int, NEW j \in Int, NEW m \in Int, m <= j, Void(t, i, j)
  PROVE  Void(t, i, m)
  BY DEF Void

LEMMA VoidMore ==
  ASSUME NEW t, NEW i \in Int, NEW j \in Int, NEW m \in Int, Void(t, i, j),
         \A k \in j .. m - 1 : k >= i => VoidAt(t, i, k)
  PROVE  Void(t, i, m)
<1>1. \A k \in i .. m - 1 : k \in i .. j - 1 \/ (k \in j .. m - 1 /\ k >= i)
  OBVIOUS
<1>. QED  BY <1>1 DEF Void

-------------------------------------------------------------------------------
(* What a turn of the loop does to the invariant. *)

\* The span of an argument, and one or more of them.
LEMMA Spans ==
  /\ \A i, j \in Int : <<i, j>> \in Int \X Int
  /\ \A p \in Int \X Int : <<p>> \in Seq(Int \X Int)
  /\ \A p, q \in Int \X Int : <<p, q>> \in Seq(Int \X Int)
  /\ \A s \in Seq(Int \X Int) : \A p \in Int \X Int : Append(s, p) \in Seq(Int \X Int)
  /\ <<>> \in Seq(Int \X Int)
  OBVIOUS

\* A change of one local leaves the others.
LEMMA StartKept ==
  ASSUME loc \in Locals, NEW v \in Nat
  PROVE  LET l == [loc EXCEPT !.start = v]
         IN l \in Locals /\ l.start = v /\ l.keystate = loc.keystate
  BY DEF Locals

LEMMA PrintKept ==
  ASSUME loc \in Locals, NEW v \in BOOLEAN
  PROVE  LET l == [loc EXCEPT !.print = v]
         IN l \in Locals /\ l.start = loc.start /\ l.keystate = loc.keystate
  BY DEF Locals

LEMMA FlagsKept ==
  ASSUME loc \in Locals, NEW v \in BOOLEAN, NEW w \in BOOLEAN
  PROVE  LET l == [loc EXCEPT !.invert = v, !.store = w]
         IN l \in Locals /\ l.start = loc.start /\ l.keystate = loc.keystate
  BY DEF Locals

LEMMA InvertKept ==
  ASSUME loc \in Locals
  PROVE  LET l == [loc EXCEPT !.invert = ~@]
         IN l \in Locals /\ l.start = loc.start /\ l.keystate = loc.keystate
  BY DEF Locals

LEMMA CombKept ==
  ASSUME loc \in Locals, NEW v \in Combs
  PROVE  LET l == [loc EXCEPT !.comb = v]
         IN l \in Locals /\ l.start = loc.start /\ l.keystate = loc.keystate
  BY DEF Locals

LEMMA RPNKept ==
  ASSUME loc \in Locals, NEW v \in BOOLEAN
  PROVE  LET l == [loc EXCEPT !.rpn = v]
         IN l \in Locals /\ l.start = loc.start /\ l.keystate = loc.keystate
  BY DEF Locals

LEMMA KeyStateKept ==
  ASSUME loc \in Locals, NEW v \in BOOLEAN
  PROVE  LET l == [loc EXCEPT !.keystate = v]
         IN l \in Locals /\ l.start = loc.start /\ l.keystate = v
  BY DEF Locals

LEMMA ArgsKept ==
  ASSUME loc \in Locals, NEW v \in Seq(Int \X Int)
  PROVE  LET l == [loc EXCEPT !.args = v]
         IN l \in Locals /\ l.start = loc.start /\ l.keystate = loc.keystate
  BY DEF Locals

LEMMA CommandTyped ==
  ASSUME loc \in Locals, NEW type \in CommandTypes, NEW args \in Seq(Int \X Int)
  PROVE  Command(type, args) \in CommandRec
  BY DEF Command, CommandRec, Locals, None

LEMMA EndTyped ==
  ASSUME NEW cs \in Seq(CommandRec)
  PROVE  Len(cs) \in Nat /\ \A n \in 0 .. Len(cs) : EndOf(cs, n) \in Int
<1>1. Len(cs) \in Nat /\ \A n \in 1 .. Len(cs) : cs[n] \in CommandRec
  OBVIOUS
<1>2. \A n \in 1 .. Len(cs) : cs[n].to \in Int
  BY <1>1 DEF CommandRec
<1>3. \A n \in 0 .. Len(cs) : n = 0 \/ n \in 1 .. Len(cs)
  BY <1>1
<1>. QED  BY <1>1, <1>2, <1>3 DEF EndOf

\* The call goes on to a state inside a command, n characters or more behind.
LEMMA MovesInv ==
  ASSUME Inv, text' = text, read_state # "Between", ~Adding,
         at' \in at + 1 .. Len(text), mark' \in Nat, mark' <= at',
         read_state' \notin Starting \union {"Between"},
         loc' \in Locals, loc'.start = loc.start,
         loc'.keystate => read_state' = "RS_KeyState",
         UNCHANGED <<token_i, cmds, parse_error>>
  PROVE  Inv'
<1>1. /\ text \in Texts /\ Len(text) \in Nat /\ at \in Nat /\ at < Len(text) /\ at' \in Nat
      /\ token_i \in 0 .. Len(text) + 1 /\ loc.start \in Nat /\ cmds \in Seq(CommandRec)
      /\ parse_error \in BOOLEAN
  BY TextFacts DEF Inv, PositionsOK, Locals
<1>2. token_i <= loc.start /\ loc.start <= at
  BY DEF Inv, CallOK
<1>3. PositionsOK'
  BY <1>1 DEF PositionsOK
<1>4. ~Adding'
  BY DEF Adding
<1>5. CallOK'
  BY <1>1, <1>2, <1>4 DEF CallOK
<1>6. TilesOK'
  <2> SUFFICES ASSUME ~parse_error, NoUngrabButtons PROVE TilesOK'
    BY DEF TilesOK
  <2>1. Whole' = Len(cmds) /\ Whole = Len(cmds)
    BY <1>4 DEF Whole
  <2>2. Passed' = loc.start /\ (Passed = at \/ Passed = loc.start)
    BY DEF Passed
  <2>3. /\ \A n \in 1 .. Whole : TileOK(text, cmds, n)
        /\ EndOf(cmds, Whole) < token_i
        /\ Void(text, EndOf(cmds, Whole) + 1, Passed)
    BY DEF Inv, TilesOK
  <2>4. EndOf(cmds, Whole) \in Int
    BY <1>1, <2>1, EndTyped
  <2>5. Void(text, EndOf(cmds, Whole) + 1, loc.start)
    BY <1>1, <1>2, <2>2, <2>3, <2>4, VoidLess
  <2>. QED  BY <2>1, <2>2, <2>3, <2>5 DEF TilesOK, Starting
<1>. QED  BY <1>3, <1>5, <1>6 DEF Inv

LEMMA StayInv ==
  ASSUME Inv, text' = text, read_state # "Between", ~Adding, Here # NUL,
         NEW state, state \notin Starting \union {"Between"},
         NEW l \in Locals, l.start = loc.start, l.keystate => state = "RS_KeyState",
         Stay(state, l)
  PROVE  Inv'
<1>1. Len(text) \in Nat /\ at \in Nat /\ at < Len(text) /\ mark \in Nat /\ mark <= at
  BY TextFacts DEF Inv, PositionsOK, CallOK, Here
<1>2. at' = at + 1 /\ read_state' = state /\ loc' = l
      /\ UNCHANGED <<token_i, mark, cmds, parse_error>>
  BY DEF Stay
<1>3. at' \in at + 1 .. Len(text) /\ mark' \in Nat /\ mark' <= at'
  BY <1>1, <1>2
<1>. QED  BY <1>2, <1>3, MovesInv

LEMMA ReadInv ==
  ASSUME Inv, text' = text, read_state # "Between", ~Adding,
         NEW n \in Nat, n > 0, at + n <= Len(text),
         NEW state, state \notin Starting \union {"Between"},
         NEW l \in Locals, l.start = loc.start, ~l.keystate,
         Read(state, n, l)
  PROVE  Inv'
<1>1. Len(text) \in Nat /\ at \in Nat
  BY TextFacts DEF Inv, PositionsOK
<1>2. at' = at + n /\ mark' = at + n /\ read_state' = state /\ loc' = l
      /\ UNCHANGED <<token_i, cmds, parse_error>>
  BY DEF Read
<1>3. at' \in at + 1 .. Len(text) /\ mark' \in Nat /\ mark' <= at'
  BY <1>1, <1>2
<1>. QED  BY <1>2, <1>3, MovesInv

\* The call returns with an error.
LEMMA FailInv ==
  ASSUME Inv, text' = text, NEW i \in 0 .. Len(text) + 1, Return(i), parse_error' = TRUE,
         cmds' \in Seq(CommandRec)
  PROVE  Inv'
<1>1. token_i' = i /\ read_state' = "Between" /\ UNCHANGED <<mark, at, loc>>
  BY DEF Return
<1>. QED  BY <1>1 DEF Inv, PositionsOK, CallOK, TilesOK

LEMMA ErrorMoveInside ==
  ASSUME Inv, read_state # "Between"
  PROVE  ErrorMove(at) \in 0 .. Len(text) + 1
<1>1. text \in Texts /\ at \in Nat /\ at <= Len(text) /\ Len(text) \in Nat
  BY TextFacts DEF Inv, PositionsOK, CallOK
<1>2. First(at, {Semicolon}) \in at .. Len(text)
  BY <1>1, FirstFacts
<1>3. \A e \in at .. Len(text) : e + 1 \in 0 .. Len(text) + 1
  BY <1>1
<1>4. ErrorMove(at) = First(at, {Semicolon}) + 1
  BY DEF ErrorMove
<1>. QED  BY <1>2, <1>3, <1>4

LEMMA ErrorInv ==
  ASSUME Inv, text' = text, read_state # "Between", Error
  PROVE  Inv'
<1>1. Return(ErrorMove(at)) /\ parse_error' = TRUE /\ cmds' \in Seq(CommandRec)
  BY DEF Error, Inv, PositionsOK
<1>. QED  BY <1>1, ErrorMoveInside, FailInv

\* The part of the text that a command was read from.
Put(arr, n, from, to) == [arr EXCEPT ![n].from = from, ![n].to = to]

\* cs is arr, but for the part of the text that its command n was read from.
HasPart(cs, arr, n, from, to) ==
  /\ cs \in Seq(CommandRec) /\ Len(cs) = Len(arr)
  /\ cs[n].from = from /\ cs[n].to = to
  /\ \A k \in 1 .. Len(arr) : k # n => cs[k] = arr[k]

\* Put writes that part of one command and changes no other command.
LEMMA Placed ==
  ASSUME NEW arr \in Seq(CommandRec), NEW n \in 1 .. Len(arr),
         NEW from \in Nat, NEW to \in Nat
  PROVE  HasPart(Put(arr, n, from, to), arr, n, from, to)
<1> DEFINE c == [[arr[n] EXCEPT !.from = from] EXCEPT !.to = to]
           cs == [arr EXCEPT ![n] = c]
<1>1. arr[n] \in CommandRec
  OBVIOUS
<1>2. c \in CommandRec /\ c.from = from /\ c.to = to
  <2>1. from \in Int /\ to \in Int
    OBVIOUS
  <2> DEFINE r == arr[n]
  <2>2. r \in CommandRec
    BY <1>1
  <2>3. c = [[r EXCEPT !.from = from] EXCEPT !.to = to]
    OBVIOUS
  <2> HIDE DEF r, c
  <2>. QED  BY <2>1, <2>2, <2>3 DEF CommandRec
<1>3. Put(arr, n, from, to) = cs
  BY DEF Put
<1> HIDE DEF c
<1>4. /\ cs \in Seq(CommandRec) /\ Len(cs) = Len(arr) /\ cs[n] = c
      /\ \A k \in 1 .. Len(arr) : k # n => cs[k] = arr[k]
  BY <1>2
<1> HIDE DEF cs
<1>. QED  BY <1>2, <1>3, <1>4 DEF HasPart

\* Where a call is, and how many commands are whole.
LEMMA Facts ==
  ASSUME Inv
  PROVE  /\ text \in Texts /\ Len(text) \in Nat /\ token_i \in Nat
         /\ token_i <= Len(text) + 1 /\ mark \in Nat /\ at \in Nat
         /\ parse_error \in BOOLEAN /\ cmds \in Seq(CommandRec) /\ Len(cmds) \in Nat
         /\ loc \in Locals /\ loc.start \in Nat /\ loc.keystate \in BOOLEAN
         /\ loc.args \in Seq(Int \X Int)
<1>1. text \in Texts /\ loc \in Locals /\ cmds \in Seq(CommandRec)
      /\ token_i \in 0 .. Len(text) + 1 /\ mark \in Nat /\ at \in Nat /\ parse_error \in BOOLEAN
  BY DEF Inv, PositionsOK
<1>2. Len(text) \in Nat
  BY <1>1, TextFacts
<1>3. loc.start \in Nat /\ loc.keystate \in BOOLEAN /\ loc.args \in Seq(Int \X Int)
  BY <1>1 DEF Locals
<1>4. Len(cmds) \in Nat
  BY <1>1
<1>. QED  BY <1>1, <1>2, <1>3, <1>4

LEMMA CallFacts ==
  ASSUME Inv, read_state # "Between"
  PROVE  /\ mark <= at /\ at <= Len(text) /\ token_i <= loc.start /\ loc.start <= at
         /\ read_state \notin Starting => loc.start < at
         /\ loc.keystate => read_state \in {"RS_KeyState", "RS_MouseClickState"}
         /\ Adding => Len(cmds) > 0
  BY DEF Inv, CallOK

LEMMA WholeFacts ==
  ASSUME Inv
  PROVE  /\ Whole \in Nat /\ Whole <= Len(cmds)
         /\ \A n \in 0 .. Whole : EndOf(cmds, n) \in Int
<1>1. cmds \in Seq(CommandRec) /\ Len(cmds) \in Nat
  BY Facts
<1>2. Adding => Len(cmds) > 0
  BY CallFacts DEF Adding
<1>3. Whole \in Nat /\ Whole <= Len(cmds)
  BY <1>1, <1>2 DEF Whole
<1>. QED  BY <1>1, <1>3, EndTyped

\* What is whole stays so, and what was passed can still be.
LEMMA TileFacts ==
  ASSUME Inv, ~parse_error, NoUngrabButtons
  PROVE  /\ \A n \in 1 .. Whole : TileOK(text, cmds, n)
         /\ EndOf(cmds, Whole) < token_i
         /\ Void(text, EndOf(cmds, Whole) + 1, Passed)
         /\ read_state \notin {"Between"} =>
              Void(text, EndOf(cmds, Whole) + 1, loc.start)
<1>1. /\ \A n \in 1 .. Whole : TileOK(text, cmds, n)
      /\ EndOf(cmds, Whole) < token_i
      /\ Void(text, EndOf(cmds, Whole) + 1, Passed)
  BY DEF Inv, TilesOK
<1>2. ASSUME read_state \notin {"Between"} PROVE Void(text, EndOf(cmds, Whole) + 1, loc.start)
  <2>1. Passed = at \/ Passed = loc.start
    BY <1>2 DEF Passed
  <2>2. at \in Int /\ loc.start \in Int /\ loc.start <= at /\ EndOf(cmds, Whole) + 1 \in Int
    <3>1. EndOf(cmds, Whole) \in Int
      BY WholeFacts
    <3>. QED  BY <1>2, <3>1, Facts, CallFacts
  <2>. QED  BY <1>1, <2>1, <2>2, VoidLess
<1>. QED  BY <1>1, <1>2

\* The call returns behind its command.
LEMMA FinishInv ==
  ASSUME Inv, text' = text, read_state # "Between",
         NEW arr \in Seq(CommandRec), NEW w \in Nat, w = Whole,
         Len(arr) = w + 1, \A n \in 1 .. w : arr[n] = cmds[n],
         NEW e \in Nat, at <= e, e <= Len(text), loc.start < e,
         NoUngrabButtons => Char(e) \in {Semicolon, "?"},
         Finish(arr, e)
  PROVE  Inv'
<1>1. /\ text \in Texts /\ Len(text) \in Nat /\ at \in Nat /\ mark \in Nat
      /\ token_i \in Nat /\ loc.start \in Nat /\ cmds \in Seq(CommandRec)
      /\ loc \in Locals /\ parse_error \in BOOLEAN
  BY Facts
<1>2. /\ token_i <= loc.start /\ loc.start <= at /\ at <= Len(text)
      /\ e \in Nat /\ e <= Len(text)
  BY <1>1, CallFacts
<1>3. w <= Len(cmds) /\ \A n \in 0 .. w : EndOf(cmds, n) \in Int
  BY WholeFacts
<1>4. token_i' = e + 1 /\ read_state' = "Between" /\ UNCHANGED <<mark, at, loc>>
  BY DEF Finish, Return
<1>5. parse_error' = (parse_error \/ (/\ arr[Len(arr)].type = "InitVar"
                                      /\ Len(arr) > 1
                                      /\ arr[Len(arr) - 1].type # "InitVar"))
  BY Zenon DEF Finish
<1>6. cmds' = IF parse_error' THEN arr ELSE Put(arr, Len(arr), loc.start, e)
  BY Zenon DEF Finish, Put
<1>7. parse_error' \in BOOLEAN /\ (~parse_error' => ~parse_error)
  BY <1>1, <1>5, Zenon
<1>9. Len(arr) \in 1 .. Len(arr) /\ \A n \in 1 .. w : n \in 1 .. Len(arr) /\ n # Len(arr)
  BY <1>3
<1>10. /\ cmds' \in Seq(CommandRec) /\ Len(cmds') = w + 1
       /\ ~parse_error' => /\ cmds'[w + 1].from = loc.start /\ cmds'[w + 1].to = e
                           /\ \A n \in 1 .. w : cmds'[n] = cmds[n]
  <2>1. CASE parse_error'
    BY <1>6, <2>1
  <2>2. CASE ~parse_error'
    <3>1. cmds' = Put(arr, Len(arr), loc.start, e)
      BY <1>6, <2>2
    <3>2. loc.start \in Nat /\ e \in Nat /\ Len(arr) \in 1 .. Len(arr)
      BY <1>1, <1>9
    <3>3. HasPart(cmds', arr, Len(arr), loc.start, e)
      BY <3>1, <3>2, Placed, Zenon
    <3>4. /\ cmds' \in Seq(CommandRec) /\ Len(cmds') = Len(arr)
          /\ cmds'[Len(arr)].from = loc.start /\ cmds'[Len(arr)].to = e
          /\ \A k \in 1 .. Len(arr) : k # Len(arr) => cmds'[k] = arr[k]
      BY <3>3 DEF HasPart
    <3>. QED  BY <1>9, <3>4
  <2>. QED  BY <2>1, <2>2
<1>11. PositionsOK'
  <2>1. token_i' \in 0 .. Len(text) + 1
    BY <1>1, <1>2, <1>4
  <2>. QED  BY <1>1, <1>4, <1>7, <1>10, <2>1 DEF PositionsOK
<1>12. CallOK'
  BY <1>4 DEF CallOK
<1>13. TilesOK'
  <2> SUFFICES ASSUME ~parse_error', NoUngrabButtons
               PROVE  /\ \A n \in 1 .. Whole' : TileOK(text, cmds', n)
                      /\ EndOf(cmds', Whole') < token_i'
                      /\ Void(text, EndOf(cmds', Whole') + 1, Passed')
    <3>1. read_state' # "RS_Comments"
      BY <1>4
    <3>. QED  BY <3>1, Zenon DEF TilesOK
  <2>1. Whole' = w + 1
    <3>1. ~Adding'
      BY <1>4 DEF Adding
    <3>. QED  BY <1>10, <3>1 DEF Whole
  <2>2. /\ \A n \in 1 .. w : TileOK(text, cmds, n)
        /\ EndOf(cmds, w) < token_i
        /\ Void(text, EndOf(cmds, w) + 1, loc.start)
    BY <1>7, TileFacts
  <2>3. \A n \in 0 .. w : EndOf(cmds', n) = EndOf(cmds, n)
    <3>1. \A n \in 0 .. w : n = 0 \/ n \in 1 .. w
      BY <1>3
    <3>. QED  BY <1>10, <3>1 DEF EndOf
  <2>4. \A n \in 1 .. w : TileOK(text, cmds', n)
    <3>1. \A n \in 1 .. w : n - 1 \in 0 .. w
      BY <1>3
    <3>. QED  BY <1>10, <2>2, <2>3, <3>1 DEF TileOK
  <2>5. EndOf(cmds', w + 1) = e
    <3>1. w + 1 # 0
      BY <1>3
    <3>. QED  BY <1>10, <3>1 DEF EndOf
  <2>6. TileOK(text, cmds', w + 1)
    <3>1. w + 1 - 1 = w /\ w \in 0 .. w
      BY <1>3
    <3>2. EndOf(cmds', w + 1 - 1) = EndOf(cmds, w) /\ EndOf(cmds, w) \in Int
      BY <1>3, <2>3, <3>1
    <3>3. EndOf(cmds, w) < loc.start
      BY <1>1, <1>2, <2>2, <3>2
    <3>4. CharOf(text, e) \in {Semicolon, "?"}
      BY <1>1, TextFacts
    <3>5. cmds'[w + 1].from = loc.start /\ cmds'[w + 1].to = e
      BY <1>10
    <3>. QED  BY <2>2, <3>2, <3>3, <3>4, <3>5 DEF TileOK
  <2>7. \A n \in 1 .. w + 1 : n \in 1 .. w \/ n = w + 1
    BY <1>3
  <2>8. Passed' \in Int /\ Passed' <= e + 1
    BY <1>1, <1>2, <1>4 DEF Passed
  <2>9. Void(text, e + 1, Passed')
    BY <1>2, <2>8, VoidEmpty
  <2>. QED  BY <1>2, <1>4, <2>1, <2>4, <2>5, <2>6, <2>7, <2>9
<1>. QED  BY <1>11, <1>12, <1>13 DEF Inv

\* A command is added and the call returns behind it.
LEMMA EmitInv ==
  ASSUME Inv, text' = text, read_state # "Between", ~Adding,
         NEW type \in CommandTypes, NEW args \in Seq(Int \X Int),
         NEW e \in Nat, at <= e, e <= Len(text), loc.start < e,
         NoUngrabButtons => Char(e) \in {Semicolon, "?"},
         Finish(Append(cmds, Command(type, args)), e)
  PROVE  Inv'
<1>1. cmds \in Seq(CommandRec) /\ Whole = Len(cmds) /\ loc \in Locals
  BY DEF Inv, PositionsOK, Whole
<1>2. Command(type, args) \in CommandRec
  BY <1>1, CommandTyped
<1> DEFINE c == Command(type, args)
           arr == Append(cmds, c)
<1>3. c \in CommandRec
  BY <1>2
<1>4. Finish(arr, e)
  OBVIOUS
<1> HIDE DEF c
<1>5. Len(cmds) \in Nat
  BY <1>1
<1>6. /\ arr \in Seq(CommandRec) /\ Len(arr) = Len(cmds) + 1
      /\ \A n \in 1 .. Len(cmds) : arr[n] = cmds[n]
  BY <1>1, <1>3
<1> HIDE DEF arr
<1>. QED  BY <1>1, <1>4, <1>5, <1>6, FinishInv
-------------------------------------------------------------------------------
(* Inside of a command. *)

\* The call reads a command, and no key state was read yet.
Inside == read_state \notin Starting \union {"Between"} /\ ~loc.keystate

LEMMA InsideFacts ==
  ASSUME Inv, Inside
  PROVE  /\ read_state # "Between" /\ ~Adding /\ loc.start < at /\ mark \in Nat /\ at \in Nat
         /\ at <= Len(text) /\ Len(text) \in Nat /\ text \in Texts
         /\ <<mark, at - 1>> \in Int \X Int /\ loc.args \in Seq(Int \X Int)
<1>1. read_state \notin Starting /\ read_state # "Between" /\ ~Adding
  BY DEF Inside, Adding
<1>2. loc.start < at /\ at <= Len(text)
  BY <1>1, CallFacts
<1>3. mark \in Nat /\ at \in Nat /\ Len(text) \in Nat /\ text \in Texts
      /\ loc.args \in Seq(Int \X Int)
  BY Facts
<1>. QED  BY <1>1, <1>2, <1>3

LEMMA InsideStates ==
  ASSUME Inv, read_state \notin {"Between", "RS_Start", "RS_Comments", "RS_KeyState",
                                 "RS_MouseClickState"}
  PROVE  Inside
<1>1. ~loc.keystate
  BY CallFacts
<1>. QED  BY <1>1 DEF Inside, Starting

\* What is not the null character is inside of the text.
LEMMA HereInside ==
  ASSUME text \in Texts, at \in Nat
  PROVE  /\ Here # NUL => at < Len(text)
         /\ Char(at + 1) # NUL => at + 1 < Len(text)
         /\ Len(text) \in Nat
<1>1. at + 1 \in Nat
  OBVIOUS
<1>. QED  BY <1>1, TextFacts DEF Here

LEMMA KeyCharsFacts == NUL \notin KeyChars \union {"+"}
<1>1. NUL # "+"
  BY Zenon DEF NUL
<1>. QED  BY <1>1, NULAssumption DEF KeyChars

LEMMA SpanTyped ==
  ASSUME mark \in Nat, at \in Nat
  PROVE  Span \in Int \X Int /\ <<Span>> \in Seq(Int \X Int)
<1>1. mark \in Int /\ at - 1 \in Int
  OBVIOUS
<1>2. <<mark, at - 1>> \in Int \X Int
  BY <1>1
<1>. QED  BY <1>2, Spans DEF Span

LEMMA StayInside ==
  ASSUME Inv, text' = text, Inside, Here # NUL, Stay(read_state, loc)
  PROVE  Inv'
<1>1. loc \in Locals
  BY Facts
<1>. QED  BY <1>1, InsideFacts, StayInv DEF Inside

\* The command ends here or one character further on.
LEMMA EmitHere ==
  ASSUME Inv, text' = text, Inside, NEW type \in CommandTypes, NEW args \in Seq(Int \X Int),
         Here \in {Semicolon, "?"}, Emit(type, args, at)
  PROVE  Inv'
<1>1. Finish(Append(cmds, Command(type, args)), at)
  BY DEF Emit
<1>2. /\ read_state # "Between" /\ ~Adding /\ loc.start < at /\ at \in Nat
      /\ at <= at /\ at <= Len(text) /\ Char(at) \in {Semicolon, "?"}
  BY InsideFacts DEF Here
<1>. QED  BY <1>1, <1>2, EmitInv

LEMMA EmitNext ==
  ASSUME Inv, text' = text, Inside, NEW type \in CommandTypes, NEW args \in Seq(Int \X Int),
         Char(at + 1) \in {Semicolon, "?"}, Emit(type, args, at + 1)
  PROVE  Inv'
<1>1. Finish(Append(cmds, Command(type, args)), at + 1)
  BY DEF Emit
<1>2. "?" # NUL
  BY Zenon DEF NUL
<1>3. Char(at + 1) # NUL
  BY <1>2, Marks
<1>4. /\ read_state # "Between" /\ ~Adding /\ loc.start < at + 1 /\ at + 1 \in Nat
      /\ at <= at + 1 /\ at + 1 <= Len(text)
  <2>1. loc.start \in Nat
    BY Facts
  <2>. QED  BY <1>3, <2>1, InsideFacts, HereInside
<1>. QED  BY <1>1, <1>4, EmitInv

LEMMA EmitNamedInv ==
  ASSUME Inv, text' = text, Inside, NEW type \in CommandTypes, NEW field, NEW ok \in BOOLEAN,
         ok => Here = Semicolon, EmitNamed(type, field, ok)
  PROVE  Inv'
<1>1. CASE ok
  <2>1. Finish(Append(cmds, Command(type, <<Span>>)), at)
    BY <1>1 DEF EmitNamed
  <2>2. <<Span>> \in Seq(Int \X Int)
    BY InsideFacts, SpanTyped
  <2>3. /\ read_state # "Between" /\ ~Adding /\ loc.start < at /\ at \in Nat
        /\ at <= at /\ at <= Len(text) /\ Char(at) \in {Semicolon, "?"}
    BY <1>1, InsideFacts DEF Here
  <2>. QED  BY <2>1, <2>2, <2>3, EmitInv
<1>2. CASE ~ok
  <2>1. Error
    BY <1>2 DEF EmitNamed
  <2>. QED  BY <2>1, InsideFacts, ErrorInv
<1>. QED  BY <1>1, <1>2

\* A number is read and the command ends behind it.
LEMMA LastNumberInv ==
  ASSUME Inv, text' = text, Inside, NEW type \in CommandTypes, NEW first, NUL \notin first,
         NEW stops, NEW term \in {Semicolon, "?"},
         LastNumber(type, NumberEnd(first, stops, term))
  PROVE  Inv'
<1> DEFINE e == NumberEnd(first, stops, term)
<1>1. CASE e = None
  <2>1. Error
    BY <1>1 DEF LastNumber
  <2>. QED  BY <2>1, InsideFacts, ErrorInv
<1>2. CASE e # None
  <2>1. term # NUL
    <3>1. "?" # NUL
      BY Zenon DEF NUL
    <3>. QED  BY <3>1, Marks
  <2>2. e \in at + 1 .. Len(text) - 1 /\ Char(e) = term
    BY <1>2, <2>1, InsideFacts, NumberEndFacts
  <2>3. Finish(Append(cmds, Command(type, Append(loc.args, <<at, e - 1>>))), e)
    BY <1>2 DEF LastNumber, Emit
  <2> HIDE DEF e
  <2>4. e \in Nat /\ at <= e /\ e <= Len(text) /\ loc.start < e
    <3>1. loc.start \in Nat
      BY Facts
    <3>. QED  BY <2>2, <3>1, InsideFacts
  <2>5. Append(loc.args, <<at, e - 1>>) \in Seq(Int \X Int)
    <3>1. at \in Int /\ e - 1 \in Int
      BY <2>4, InsideFacts
    <3>. QED  BY <3>1, Spans, InsideFacts
  <2>. QED  BY <2>2, <2>3, <2>4, <2>5, InsideFacts, EmitInv
<1>. QED  BY <1>1, <1>2

LEMMA NumberOfInv ==
  ASSUME Inv, text' = text, Inside, NEW type \in CommandTypes, NEW first, NUL \notin first,
         NEW n \in Nat, NEW term \in {Semicolon, "?"},
         NumberOf(read_state, type, first, n, term)
  PROVE  Inv'
<1> DEFINE last == Len(loc.args) = n - 1
           e == NumberEnd(first, {Semicolon}, IF last THEN term ELSE Comma)
<1>1. CASE last
  <2>1. LastNumber(type, NumberEnd(first, {Semicolon}, term))
    BY <1>1 DEF NumberOf
  <2>. QED  BY <2>1, LastNumberInv
<1>2. CASE ~last /\ e = None
  <2>1. LastNumber(type, e)
    BY <1>2, Zenon DEF NumberOf
  <2> HIDE DEF e
  <2>2. Error
    BY <1>2, <2>1 DEF LastNumber
  <2>. QED  BY <2>2, InsideFacts, ErrorInv
<1>3. CASE ~last /\ e # None
  <2>1. e = NumberEnd(first, {Semicolon}, Comma)
    BY <1>3
  <2>2. e \in at + 1 .. Len(text) - 1 /\ Char(e) = Comma
    BY <1>3, <2>1, InsideFacts, NumberEndFacts, Marks
  <2>3. Read(read_state, e - at + 1, [loc EXCEPT !.args = Append(@, <<at, e - 1>>)])
    BY <1>3 DEF NumberOf
  <2> HIDE DEF e
  <2>4. e \in Nat /\ e - at + 1 \in Nat /\ e - at + 1 > 0 /\ at + (e - at + 1) <= Len(text)
    BY <2>2, InsideFacts
  <2>5. Append(loc.args, <<at, e - 1>>) \in Seq(Int \X Int)
    <3>1. at \in Int /\ e - 1 \in Int
      BY <2>4, InsideFacts
    <3>. QED  BY <3>1, Spans, InsideFacts
  <2> DEFINE a == Append(loc.args, <<at, e - 1>>)
             l == [loc EXCEPT !.args = a]
  <2>6. a \in Seq(Int \X Int) /\ Read(read_state, e - at + 1, l)
    BY <2>3, <2>5
  <2> HIDE DEF a
  <2>7. l \in Locals /\ l.start = loc.start /\ l.keystate = loc.keystate
    BY <2>6, Facts, ArgsKept
  <2> HIDE DEF l
  <2>. QED  BY <2>4, <2>6, <2>7, InsideFacts, ReadInv DEF Inside
<1>. QED  BY <1>1, <1>2, <1>3

LEMMA ButtonThenInv ==
  ASSUME Inv, text' = text, Inside, NEW type \in CommandTypes, NEW term \in {Semicolon, "?"},
         ButtonThen(type, term)
  PROVE  Inv'
<1>1. CASE Here \in Buttons /\ Char(at + 1) = term
  <2>1. Emit(type, <<<<at, at>>>>, at + 1)
    BY <1>1 DEF ButtonThen
  <2>2. <<<<at, at>>>> \in Seq(Int \X Int)
    <3>1. at \in Int
      BY InsideFacts
    <3>. QED  BY <3>1, Spans
  <2>. QED  BY <1>1, <2>1, <2>2, EmitNext
<1>2. CASE ~(Here \in Buttons /\ Char(at + 1) = term)
  <2>1. Error
    BY <1>2 DEF ButtonThen
  <2>. QED  BY <2>1, InsideFacts, ErrorInv
<1>. QED  BY <1>1, <1>2

LEMMA KeyNameThenInv ==
  ASSUME Inv, text' = text, Inside, NEW type \in CommandTypes, NEW term \in {Semicolon, "?"},
         KeyNameThen(read_state, type, term)
  PROVE  Inv'
<1>1. CASE Here \in KeyChars \union {"+"}
  <2>1. Stay(read_state, loc) /\ Here # NUL
    BY <1>1, KeyCharsFacts DEF KeyNameThen
  <2>. QED  BY <2>1, StayInside
<1>2. CASE Here \notin KeyChars \union {"+"} /\ Here = term /\ KeyNameOK(mark, at - 1)
  <2>1. Emit(type, <<Span>>, at)
    BY <1>2 DEF KeyNameThen
  <2>. QED  BY <1>2, <2>1, InsideFacts, SpanTyped, EmitHere
<1>3. CASE Here \notin KeyChars \union {"+"} /\ ~(Here = term /\ KeyNameOK(mark, at - 1))
  <2>1. Error
    BY <1>3 DEF KeyNameThen
  <2>. QED  BY <2>1, InsideFacts, ErrorInv
<1>. QED  BY <1>1, <1>2, <1>3

LEMMA ErrorInside ==
  ASSUME Inv, text' = text, Inside, Error
  PROVE  Inv'
  BY InsideFacts, ErrorInv

LEMMA StayTo ==
  ASSUME Inv, text' = text, Inside, Here # NUL,
         NEW state, state \notin Starting \union {"Between"},
         NEW l \in Locals, l.start = loc.start, l.keystate => state = "RS_KeyState",
         Stay(state, l)
  PROVE  Inv'
  BY InsideFacts, StayInv

LEMMA ReadNext ==
  ASSUME Inv, text' = text, Inside, Here # NUL,
         NEW state, state \notin Starting \union {"Between"},
         NEW l \in Locals, l.start = loc.start, l.keystate = loc.keystate,
         Read(state, 1, l)
  PROVE  Inv'
<1>1. at + 1 <= Len(text) /\ 1 \in Nat /\ 1 > 0
  BY InsideFacts, HereInside
<1>2. ~l.keystate
  BY DEF Inside
<1>. QED  BY <1>1, <1>2, InsideFacts, ReadInv

LEMMA ReadTwo ==
  ASSUME Inv, text' = text, Inside, Char(at + 1) # NUL,
         NEW state, state \notin Starting \union {"Between"},
         NEW l \in Locals, l.start = loc.start, l.keystate = loc.keystate,
         Read(state, 2, l)
  PROVE  Inv'
<1>1. at + 2 <= Len(text) /\ 2 \in Nat /\ 2 > 0
  BY InsideFacts, HereInside
<1>2. ~l.keystate
  BY DEF Inside
<1>. QED  BY <1>1, <1>2, InsideFacts, ReadInv

\* None of the symbols that something is expected to be is the null character.
LEMMA Symbols ==
  /\ \A c \in {"=", "?", "!", "-", "(", ")", "<", ">", "m", "#", ".", "+"} : c # NUL
  /\ \A c \in KeyStates \union DelayUnits \union VarTypes \union {"r"} : c # NUL
  /\ \A c \in {"debug_print_type", "rpn_decimals", "rpn_stack_debug"} : c # NUL
  /\ \A c \in Digits \union Buttons : c # NUL
  /\ NUL \notin {} /\ NUL \notin Digits /\ NUL \notin Digits \union {"-"}
<1>1. \A c \in {"=", "?", "!", "-", "(", ")", "<", ">", "m", "#", ".", "+"} : c # NUL
  BY DEF NUL
<1>2. \A c \in KeyStates \union DelayUnits \union VarTypes \union {"r"} : c # NUL
  BY DEF NUL, KeyStates, DelayUnits, VarTypes
<1>3. \A c \in {"debug_print_type", "rpn_decimals", "rpn_stack_debug"} : c # NUL
  BY DEF NUL
<1>4. \A c \in Digits \union Buttons : c # NUL
  BY NULAssumption
<1>5. NUL # "-"
  BY <1>1
<1>. QED  BY <1>1, <1>2, <1>3, <1>4, <1>5

LEMMA Types ==
  /\ "RepeatStart" \in CommandTypes /\ "RepeatEnd" \in CommandTypes /\ "KeyStroke" \in CommandTypes
  /\ "Delay" \in CommandTypes /\ "MouseClick" \in CommandTypes /\ "MoveMouse" \in CommandTypes
  /\ "JumpTo" \in CommandTypes /\ "JumpToIndex" \in CommandTypes /\ "JumpFrom" \in CommandTypes
  /\ "QueryComparePixel" \in CommandTypes /\ "QueryCompareCoords" \in CommandTypes
  /\ "QueryCoordsWithin" \in CommandTypes
  /\ "QueryRPNEval" \in CommandTypes /\ "QueryKeyPress" \in CommandTypes /\ "QueryButtonPress" \in CommandTypes
  /\ "InitVar" \in CommandTypes /\ "EditVar" \in CommandTypes /\ "WaitUntilKey" \in CommandTypes
  /\ "WaitUntilButton" \in CommandTypes /\ "GrabKey" \in CommandTypes /\ "UngrabKey" \in CommandTypes
  /\ "GrabButton" \in CommandTypes /\ "UngrabButton" \in CommandTypes /\ "PrintString" \in CommandTypes
  /\ "DebugConfig" \in CommandTypes
  BY DEF CommandTypes

-------------------------------------------------------------------------------
(* The states that read a command. *)

\* States that read numbers only.
LEMMA NumbersInv ==
  ASSUME Inv, text' = text,
         \/ RS_RepeatEndValue \/ RS_DelayValue \/ RS_MoveMouse \/ RS_JumpToIndex
         \/ RS_QueryComparePixel \/ RS_QueryCoordsVarValue \/ RS_QueryCoordsWithin
         \/ RS_EditVarValue
  PROVE  Inv'
<1>0. Semicolon \in {Semicolon, "?"} /\ "?" \in {Semicolon, "?"}
  OBVIOUS
<1>1. CASE RS_RepeatEndValue
  <2>1. Inside /\ LastNumber("RepeatEnd", NumberEnd(Digits, {Semicolon}, Semicolon))
    BY <1>1, InsideStates DEF RS_RepeatEndValue
  <2>. QED  BY <1>0, <2>1, Symbols, Types, LastNumberInv
<1>2. CASE RS_DelayValue
  <2>1. Inside /\ LastNumber("Delay", NumberEnd(Digits, {Semicolon}, Semicolon))
    BY <1>2, InsideStates DEF RS_DelayValue
  <2>. QED  BY <1>0, <2>1, Symbols, Types, LastNumberInv
<1>3. CASE RS_MoveMouse
  <2>1. Inside /\ NumberOf(read_state, "MoveMouse", Digits \union {"-"}, 2, Semicolon)
    BY <1>3, InsideStates DEF RS_MoveMouse
  <2>. QED  BY <1>0, <2>1, Symbols, Types, NumberOfInv
<1>4. CASE RS_JumpToIndex
  <2>1. Inside
        /\ LastNumber("JumpToIndex", NumberEnd(Digits \union {"-"}, {Semicolon}, Semicolon))
    BY <1>4, InsideStates DEF RS_JumpToIndex
  <2>. QED  BY <1>0, <2>1, Symbols, Types, LastNumberInv
<1>5. CASE RS_QueryComparePixel
  <2>1. Inside /\ NumberOf(read_state, "QueryComparePixel", Digits, 4, "?")
    BY <1>5, InsideStates DEF RS_QueryComparePixel
  <2>. QED  BY <1>0, <2>1, Symbols, Types, NumberOfInv
<1>6. CASE RS_QueryCoordsVarValue
  <2>1. Inside /\ LastNumber("QueryCompareCoords", NumberEnd(Digits, {"?"}, "?"))
    BY <1>6, InsideStates DEF RS_QueryCoordsVarValue
  <2>. QED  BY <1>0, <2>1, Symbols, Types, LastNumberInv
<1>7. CASE RS_QueryCoordsWithin
  <2>1. Inside /\ NumberOf(read_state, "QueryCoordsWithin", Digits, 4, "?")
    BY <1>7, InsideStates DEF RS_QueryCoordsWithin
  <2>. QED  BY <1>0, <2>1, Symbols, Types, NumberOfInv
<1>8. CASE RS_EditVarValue
  <2>1. Inside /\ LastNumber("EditVar", NumberEnd({}, {Semicolon}, Semicolon))
    BY <1>8, InsideStates DEF RS_EditVarValue
  <2>. QED  BY <1>0, <2>1, Symbols, Types, LastNumberInv
<1>. QED  BY <1>1, <1>2, <1>3, <1>4, <1>5, <1>6, <1>7, <1>8

\* States that read a key or a button.
LEMMA InputsInv ==
  ASSUME Inv, text' = text,
         \/ RS_QueryKeyPress \/ RS_QueryButtonPress \/ RS_WaitUntilKey \/ RS_WaitUntilButton
         \/ RS_GrabKey \/ RS_UngrabKey \/ RS_GrabButton \/ RS_UngrabButton
  PROVE  Inv'
<1>0. Semicolon \in {Semicolon, "?"} /\ "?" \in {Semicolon, "?"}
  OBVIOUS
<1>1. CASE RS_QueryKeyPress
  <2>1. Inside /\ KeyNameThen(read_state, "QueryKeyPress", "?")
    BY <1>1, InsideStates DEF RS_QueryKeyPress
  <2>. QED  BY <1>0, <2>1, Types, KeyNameThenInv
<1>2. CASE RS_QueryButtonPress
  <2>1. Inside /\ ButtonThen("QueryButtonPress", "?")
    BY <1>2, InsideStates DEF RS_QueryButtonPress
  <2>. QED  BY <1>0, <2>1, Types, ButtonThenInv
<1>3. CASE RS_WaitUntilKey
  <2>1. Inside /\ KeyNameThen(read_state, "WaitUntilKey", Semicolon)
    BY <1>3, InsideStates DEF RS_WaitUntilKey
  <2>. QED  BY <1>0, <2>1, Types, KeyNameThenInv
<1>4. CASE RS_WaitUntilButton
  <2>1. Inside /\ ButtonThen("WaitUntilButton", Semicolon)
    BY <1>4, InsideStates DEF RS_WaitUntilButton
  <2>. QED  BY <1>0, <2>1, Types, ButtonThenInv
<1>5. CASE RS_GrabKey
  <2>1. Inside /\ KeyNameThen(read_state, "GrabKey", Semicolon)
    BY <1>5, InsideStates DEF RS_GrabKey
  <2>. QED  BY <1>0, <2>1, Types, KeyNameThenInv
<1>6. CASE RS_UngrabKey
  <2>1. Inside /\ KeyNameThen(read_state, "UngrabKey", Semicolon)
    BY <1>6, InsideStates DEF RS_UngrabKey
  <2>. QED  BY <1>0, <2>1, Types, KeyNameThenInv
<1>7. CASE RS_GrabButton
  <2>1. Inside /\ ButtonThen("GrabButton", Semicolon)
    BY <1>7, InsideStates DEF RS_GrabButton
  <2>. QED  BY <1>0, <2>1, Types, ButtonThenInv
<1>8. CASE RS_UngrabButton
  <2>1. Inside /\ ButtonThen("UngrabButton", Semicolon)
    BY <1>8, InsideStates DEF RS_UngrabButton
  <2>. QED  BY <1>0, <2>1, Types, ButtonThenInv
<1>. QED  BY <1>1, <1>2, <1>3, <1>4, <1>5, <1>6, <1>7, <1>8

\* States that read a name: what follows it is what is left to show.
LEMMA RS_RepeatStartInv ==
  ASSUME Inv, text' = text, RS_RepeatStart
  PROVE  Inv'
<1>1. Inside
  BY InsideStates DEF RS_RepeatStart
<1>2. CASE Here \in KeyChars
  <2>1. Stay(read_state, loc) /\ Here # NUL
    BY <1>2, KeyCharsFacts DEF RS_RepeatStart
  <2>. QED  BY <1>1, <2>1, StayInside
<1>3. CASE Here \notin KeyChars
  <2> DEFINE ok == Here = Semicolon
  <2>1. EmitNamed("RepeatStart", "repeats", ok)
    BY <1>3, Zenon DEF RS_RepeatStart
  <2>2. ok \in BOOLEAN /\ (ok => Here = Semicolon)
    OBVIOUS
  <2> HIDE DEF ok
  <2>. QED  BY <1>1, <2>1, <2>2, Types, EmitNamedInv
<1>. QED  BY <1>2, <1>3

LEMMA RS_JumpFromInv ==
  ASSUME Inv, text' = text, RS_JumpFrom
  PROVE  Inv'
<1>1. Inside
  BY InsideStates DEF RS_JumpFrom
<1>2. CASE Here \in KeyChars
  <2>1. Stay(read_state, loc) /\ Here # NUL
    BY <1>2, KeyCharsFacts DEF RS_JumpFrom
  <2>. QED  BY <1>1, <2>1, StayInside
<1>3. CASE Here \notin KeyChars
  <2> DEFINE ok == Here = Semicolon /\ Argument \notin names.jumps
  <2>1. EmitNamed("JumpFrom", "jumps", ok)
    BY <1>3, Zenon DEF RS_JumpFrom
  <2>2. ok \in BOOLEAN /\ (ok => Here = Semicolon)
    OBVIOUS
  <2> HIDE DEF ok
  <2>. QED  BY <1>1, <2>1, <2>2, Types, EmitNamedInv
<1>. QED  BY <1>2, <1>3

LEMMA RS_JumpToInv ==
  ASSUME Inv, text' = text, RS_JumpTo
  PROVE  Inv'
<1>1. Inside
  BY InsideStates DEF RS_JumpTo
<1>2. CASE Here \in KeyChars
  <2>1. Stay(read_state, loc) /\ Here # NUL
    BY <1>2, KeyCharsFacts DEF RS_JumpTo
  <2>. QED  BY <1>1, <2>1, StayInside
<1>3. CASE Here \notin KeyChars /\ Here = Semicolon
  <2>1. Emit("JumpTo", <<Span>>, at)
    BY <1>3 DEF RS_JumpTo
  <2>. QED  BY <1>1, <1>3, <2>1, Types, InsideFacts, SpanTyped, EmitHere
<1>4. CASE Here \notin KeyChars /\ Here # Semicolon
  <2>1. Error
    BY <1>4 DEF RS_JumpTo
  <2>. QED  BY <1>1, <2>1, ErrorInside
<1>. QED  BY <1>2, <1>3, <1>4

\* A repeat that is not there is an error that adds its name.
LEMMA RS_RepeatEndInv ==
  ASSUME Inv, text' = text, RS_RepeatEnd
  PROVE  Inv'
<1>1. Inside
  BY InsideStates DEF RS_RepeatEnd
<1>2. CASE Here \in KeyChars
  <2>1. Stay(read_state, loc) /\ Here # NUL
    BY <1>2, KeyCharsFacts DEF RS_RepeatEnd
  <2>. QED  BY <1>1, <2>1, StayInside
<1> DEFINE unknown == Here \in {"=", Semicolon} /\ Argument \notin names.repeats
<1>3. CASE Here \notin KeyChars /\ unknown
  <2>1. Return(ErrorMove(at)) /\ parse_error' = TRUE /\ cmds' = cmds
    BY <1>3 DEF RS_RepeatEnd
  <2>2. cmds' \in Seq(CommandRec)
    BY <2>1, Facts
  <2>. QED  BY <1>1, <2>1, <2>2, InsideFacts, ErrorMoveInside, FailInv
<1>4. CASE Here \notin KeyChars /\ ~unknown /\ Here = "="
  <2> DEFINE l == [loc EXCEPT !.args = <<Span>>]
  <2>1. Read("RS_RepeatEndValue", 1, l)
    BY <1>4 DEF RS_RepeatEnd
  <2>2. l \in Locals /\ l.start = loc.start /\ l.keystate = loc.keystate
    BY <1>1, Facts, InsideFacts, SpanTyped, ArgsKept
  <2>3. "RS_RepeatEndValue" \notin Starting \union {"Between"}
    BY DEF Starting
  <2>4. Here # NUL
    BY <1>4, Symbols
  <2> HIDE DEF l
  <2>. QED  BY <1>1, <2>1, <2>2, <2>3, <2>4, ReadNext
<1>5. CASE Here \notin KeyChars /\ ~unknown /\ Here # "=" /\ Here = Semicolon
  <2>1. Emit("RepeatEnd", <<Span>>, at)
    BY <1>5 DEF RS_RepeatEnd
  <2>. QED  BY <1>1, <1>5, <2>1, Types, InsideFacts, SpanTyped, EmitHere
<1>6. CASE Here \notin KeyChars /\ ~unknown /\ Here # "=" /\ Here # Semicolon
  <2>1. Error
    BY <1>6 DEF RS_RepeatEnd
  <2>. QED  BY <1>1, <2>1, ErrorInside
<1>. QED  BY <1>2, <1>3, <1>4, <1>5, <1>6

LEMMA RS_KeysInv ==
  ASSUME Inv, text' = text, RS_Keys
  PROVE  Inv'
<1>1. Inside
  BY InsideStates DEF RS_Keys
<1>2. CASE Here \in KeyChars \union {"+"}
  <2>1. Stay(read_state, loc) /\ Here # NUL
    BY <1>2, KeyCharsFacts DEF RS_Keys
  <2>. QED  BY <1>1, <2>1, StayInside
<1>3. CASE Here \notin KeyChars \union {"+"} /\ Here = "="
  <2> DEFINE l == [loc EXCEPT !.keystate = FALSE]
  <2>1. Stay("RS_KeyState", l)
    BY <1>3 DEF RS_Keys
  <2>2. l \in Locals /\ l.start = loc.start /\ l.keystate = FALSE
    BY Facts, KeyStateKept
  <2>3. "RS_KeyState" \notin Starting \union {"Between"}
    BY DEF Starting
  <2>4. Here # NUL
    BY <1>3, Symbols
  <2> HIDE DEF l
  <2>. QED  BY <1>1, <2>1, <2>2, <2>3, <2>4, StayTo
<1>4. CASE Here \notin KeyChars \union {"+"} /\ Here # "="
  <2>1. Error
    BY <1>4 DEF RS_Keys
  <2>. QED  BY <1>1, <2>1, ErrorInside
<1>. QED  BY <1>2, <1>3, <1>4

LEMMA RS_KeyStateInv ==
  ASSUME Inv, text' = text, RS_KeyState
  PROVE  Inv'
<1>1. read_state = "RS_KeyState" /\ read_state \notin Starting \union {"Between"} /\ ~Adding
  BY DEF RS_KeyState, Starting, Adding
<1>2. loc.start < at /\ at <= Len(text) /\ read_state # "Between"
  BY <1>1, CallFacts
<1>3. CASE Here \in KeyStates /\ ~loc.keystate
  <2> DEFINE l == [loc EXCEPT !.keystate = TRUE]
  <2>1. Stay(read_state, l)
    BY <1>3 DEF RS_KeyState
  <2>2. l \in Locals /\ l.start = loc.start
    BY Facts, KeyStateKept
  <2>3. Here # NUL
    BY <1>3, Symbols
  <2> HIDE DEF l
  <2>. QED  BY <1>1, <2>1, <2>2, <2>3, StayInv
<1>4. CASE Here = Semicolon /\ loc.keystate /\ ~(Here \in KeyStates /\ ~loc.keystate)
  <2> DEFINE args == <<<<mark, at - 3>>, <<at - 1, at - 1>>>>
  <2>1. Finish(Append(cmds, Command("KeyStroke", args)), at)
    BY <1>4 DEF RS_KeyState, Emit
  <2>2. args \in Seq(Int \X Int)
    <3>1. mark \in Int /\ at - 3 \in Int /\ at - 1 \in Int
      BY Facts
    <3>. QED  BY <3>1, Spans
  <2>3. at \in Nat /\ at <= at /\ Char(at) \in {Semicolon, "?"}
    BY <1>4, Facts DEF Here
  <2> HIDE DEF args
  <2>. QED  BY <1>1, <1>2, <2>1, <2>2, <2>3, Types, EmitInv
<1>5. CASE ~(Here = Semicolon /\ loc.keystate) /\ ~(Here \in KeyStates /\ ~loc.keystate)
  <2>1. Error
    BY <1>5 DEF RS_KeyState
  <2>. QED  BY <1>2, <2>1, ErrorInv
<1>. QED  BY <1>3, <1>4, <1>5

LEMMA RS_DelayInv ==
  ASSUME Inv, text' = text, RS_Delay
  PROVE  Inv'
<1>1. Inside
  BY InsideStates DEF RS_Delay
<1>2. "RS_DelayValue" \notin Starting \union {"Between"} /\ loc \in Locals
      /\ loc.keystate = FALSE
  BY <1>1, Facts DEF Starting, Inside
<1>3. \/ Here \in DelayUnits /\ Read("RS_DelayValue", 1, loc)
      \/ Here \in Digits /\ Stay("RS_DelayValue", loc)
      \/ Error
  BY Zenon DEF RS_Delay
<1>4. CASE Here \in DelayUnits /\ Read("RS_DelayValue", 1, loc)
  <2>1. Here # NUL
    BY <1>4, Symbols
  <2>. QED  BY <1>1, <1>2, <1>4, <2>1, ReadNext
<1>5. CASE Here \in Digits /\ Stay("RS_DelayValue", loc)
  <2>1. Here # NUL
    BY <1>5, Symbols
  <2>. QED  BY <1>1, <1>2, <1>5, <2>1, StayTo
<1>. QED  BY <1>1, <1>3, <1>4, <1>5, ErrorInside

LEMMA RS_MouseClickTypeInv ==
  ASSUME Inv, text' = text, RS_MouseClickType
  PROVE  Inv'
<1>1. Inside
  BY InsideStates DEF RS_MouseClickType
<1>2. CASE Here \in Digits /\ loc.args = <<>>
  <2> DEFINE l == [loc EXCEPT !.args = <<<<at, at>>>>]
  <2>1. Stay(read_state, l)
    BY <1>2 DEF RS_MouseClickType
  <2>2. <<<<at, at>>>> \in Seq(Int \X Int)
    <3>1. at \in Int
      BY Facts
    <3>. QED  BY <3>1, Spans
  <2>3. l \in Locals /\ l.start = loc.start /\ l.keystate = loc.keystate
    BY <2>2, Facts, ArgsKept
  <2>4. Here # NUL
    BY <1>2, Symbols
  <2> HIDE DEF l
  <2>. QED  BY <1>1, <2>1, <2>3, <2>4, StayTo DEF Inside
<1>3. CASE Here = "=" /\ loc.args # <<>>
  <2>1. Read("RS_MouseClickState", 1, loc)
    BY <1>3 DEF RS_MouseClickType
  <2>2. "RS_MouseClickState" \notin Starting \union {"Between"} /\ loc \in Locals
    BY Facts DEF Starting
  <2>3. Here # NUL
    BY <1>3, Symbols
  <2>. QED  BY <1>1, <2>1, <2>2, <2>3, ReadNext
<1>4. CASE ~(Here \in Digits /\ loc.args = <<>>) /\ ~(Here = "=" /\ loc.args # <<>>)
  <2>1. Error
    BY <1>4 DEF RS_MouseClickType
  <2>. QED  BY <1>1, <2>1, ErrorInside
<1>. QED  BY <1>2, <1>3, <1>4

LEMMA QueryIndicesInv ==
  ASSUME Inv, text' = text, QueryIndices
  PROVE  Inv'
<1>1. Inside /\ Here # NUL
  BY InsideStates, Symbols DEF QueryIndices
<1>2. CASE loc.comb = "NONE" /\ IndicesEnd # None
  <2> DEFINE e == IndicesEnd
             l == [loc EXCEPT !.comb = "CUSTOM"]
  <2>1. Read(read_state, e - at + 1, l)
    BY <1>2 DEF QueryIndices
  <2>2. e \in at + 1 .. Len(text) - 1
    BY <1>1, <1>2, InsideFacts, IndicesEndFacts
  <2> HIDE DEF e
  <2>3. e \in Nat /\ e - at + 1 \in Nat /\ e - at + 1 > 0 /\ at + (e - at + 1) <= Len(text)
    BY <1>1, <2>2, InsideFacts
  <2>4. "CUSTOM" \in Combs
    BY DEF Combs
  <2>5. l \in Locals /\ l.start = loc.start /\ l.keystate = loc.keystate
    BY <2>4, Facts, CombKept
  <2> HIDE DEF l
  <2>. QED  BY <1>1, <2>1, <2>3, <2>5, InsideFacts, ReadInv DEF Inside
<1>3. CASE ~(loc.comb = "NONE" /\ IndicesEnd # None)
  <2>1. Error
    BY <1>3 DEF QueryIndices
  <2>. QED  BY <1>1, <2>1, ErrorInside
<1>. QED  BY <1>2, <1>3

LEMMA QueryInvertInv ==
  ASSUME Inv, text' = text, QueryInvert
  PROVE  Inv'
<1> DEFINE l == [loc EXCEPT !.invert = ~@]
<1>1. Inside /\ Here # NUL /\ Read(read_state, 1, l)
  BY InsideStates, Symbols DEF QueryInvert
<1>2. l \in Locals /\ l.start = loc.start /\ l.keystate = loc.keystate
  BY Facts, InvertKept
<1> HIDE DEF l
<1>. QED  BY <1>1, <1>2, ReadNext DEF Inside

\* The words of queries.
LEMMA QueryWords ==
  ASSUME NEW o \in QueryOpenings
  PROVE  /\ \E n \in {2, 3} : Len(o.word) = n /\ DOMAIN o.word = 1 .. n /\ o.word[n] # NUL
         /\ o.state \notin Starting \union {"Between"}
<1>1. "=" # NUL /\ "x" # NUL /\ "y" # NUL
  BY DEF NUL
<1>2. \/ \E a : o.word = <<a, "=">>
      \/ \E a, b : o.word = <<a, b, "x">> \/ o.word = <<a, b, "y">>
  BY DEF QueryOpenings
<1>3. \E n \in {2, 3} : Len(o.word) = n /\ DOMAIN o.word = 1 .. n /\ o.word[n] # NUL
  BY <1>1, <1>2
<1>4. o.state \notin Starting \union {"Between"}
  BY DEF QueryOpenings, Starting
<1>. QED  BY <1>3, <1>4

LEMMA QueryOpeningInv ==
  ASSUME Inv, text' = text, QueryOpening
  PROVE  Inv'
<1>1. Inside
  BY InsideStates DEF QueryOpening
<1>2. CASE Error
  BY <1>1, <1>2, ErrorInside
<1>3. ASSUME NEW o \in QueryOpenings, Starts(o.word), Read(o.state, Len(o.word), loc)
      PROVE  Inv'
  <2>1. PICK n \in {2, 3} : Len(o.word) = n /\ DOMAIN o.word = 1 .. n /\ o.word[n] # NUL
    BY QueryWords
  <2>2. n \in Nat /\ n > 0
    OBVIOUS
  <2>3. at + n <= Len(text)
    BY <1>1, <1>3, <2>1, <2>2, InsideFacts, StartsInside
  <2>4. Read(o.state, n, loc) /\ o.state \notin Starting \union {"Between"} /\ loc \in Locals
    BY <1>3, <2>1, QueryWords, Facts
  <2>. QED  BY <1>1, <2>2, <2>3, <2>4, InsideFacts, ReadInv DEF Inside
<1>. QED  BY <1>2, <1>3 DEF QueryOpening

LEMMA RS_QueryCoordsTypeInv ==
  ASSUME Inv, text' = text, RS_QueryCoordsType
  PROVE  Inv'
<1>1. Inside
  BY InsideStates DEF RS_QueryCoordsType
<1>2. "RS_QueryCoordsVarValue" \notin Starting \union {"Between"} /\ loc \in Locals
  BY Facts DEF Starting
<1>3. CASE Here \in {"<", ">"} /\ Char(at + 1) = "="
  <2>1. Read("RS_QueryCoordsVarValue", 2, loc)
    BY <1>3 DEF RS_QueryCoordsType
  <2>2. Char(at + 1) # NUL
    BY <1>3, Symbols
  <2>. QED  BY <1>1, <1>2, <2>1, <2>2, ReadTwo
<1>4. CASE Here \in {"<", ">"} /\ Char(at + 1) # "="
  <2>1. Read("RS_QueryCoordsVarValue", 1, loc)
    BY <1>4 DEF RS_QueryCoordsType
  <2>2. Here # NUL
    BY <1>4, Symbols
  <2>. QED  BY <1>1, <1>2, <2>1, <2>2, ReadNext
<1>5. CASE Here \notin {"<", ">"}
  <2>1. Error
    BY <1>5 DEF RS_QueryCoordsType
  <2>. QED  BY <1>1, <2>1, ErrorInside
<1>. QED  BY <1>3, <1>4, <1>5

LEMMA RS_QueryRPNEvalInv ==
  ASSUME Inv, text' = text, RS_QueryRPNEval
  PROVE  Inv'
<1>1. Inside
  BY InsideStates DEF RS_QueryRPNEval
<1>2. CASE Here \in KeyChars
  <2>1. Stay(read_state, loc) /\ Here # NUL
    BY <1>2, KeyCharsFacts DEF RS_QueryRPNEval
  <2>. QED  BY <1>1, <2>1, StayInside
<1>3. CASE Here \notin KeyChars
  <2>1. LastNumber("QueryRPNEval", NumberEnd({}, {"?"}, "?")) /\ "?" \in {Semicolon, "?"}
    BY <1>3 DEF RS_QueryRPNEval
  <2>. QED  BY <1>1, <2>1, Symbols, Types, LastNumberInv
<1>. QED  BY <1>2, <1>3

LEMMA RS_InitVarTypeInv ==
  ASSUME Inv, text' = text, RS_InitVarType
  PROVE  Inv'
<1>1. Inside
  BY InsideStates DEF RS_InitVarType
<1>2. CASE Here \in VarTypes \union {"r"} /\ Char(at + 1) = Comma
  <2> DEFINE v == Here = "r"
             l == [loc EXCEPT !.rpn = v]
  <2>1. Read("RS_InitVarName", 2, l)
    BY <1>2 DEF RS_InitVarType
  <2>2. v \in BOOLEAN
    OBVIOUS
  <2> HIDE DEF v
  <2>3. l \in Locals /\ l.start = loc.start /\ l.keystate = loc.keystate
    BY <2>2, Facts, RPNKept
  <2>4. "RS_InitVarName" \notin Starting \union {"Between"}
    BY DEF Starting
  <2>5. Char(at + 1) # NUL
    BY <1>2, Marks
  <2> HIDE DEF l
  <2>. QED  BY <1>1, <2>1, <2>3, <2>4, <2>5, ReadTwo
<1>3. CASE ~(Here \in VarTypes \union {"r"} /\ Char(at + 1) = Comma)
  <2>1. Error
    BY <1>3 DEF RS_InitVarType
  <2>. QED  BY <1>1, <2>1, ErrorInside
<1>. QED  BY <1>2, <1>3

LEMMA RS_InitVarNameInv ==
  ASSUME Inv, text' = text, RS_InitVarName
  PROVE  Inv'
<1>1. Inside
  BY InsideStates DEF RS_InitVarName
<1>2. CASE Here \in KeyChars
  <2>1. Stay(read_state, loc) /\ Here # NUL
    BY <1>2, KeyCharsFacts DEF RS_InitVarName
  <2>. QED  BY <1>1, <2>1, StayInside
<1>3. CASE Here \notin KeyChars /\ Here = "="
  <2> DEFINE l == [loc EXCEPT !.args = <<Span>>]
  <2>1. Read("RS_InitVarValue", 1, l)
    BY <1>3 DEF RS_InitVarName
  <2>2. l \in Locals /\ l.start = loc.start /\ l.keystate = loc.keystate
    BY <1>1, Facts, InsideFacts, SpanTyped, ArgsKept
  <2>3. "RS_InitVarValue" \notin Starting \union {"Between"}
    BY DEF Starting
  <2>4. Here # NUL
    BY <1>3, Symbols
  <2> HIDE DEF l
  <2>. QED  BY <1>1, <2>1, <2>2, <2>3, <2>4, ReadNext
<1>4. CASE Here \notin KeyChars /\ Here # "="
  <2>1. Error
    BY <1>4 DEF RS_InitVarName
  <2>. QED  BY <1>1, <2>1, ErrorInside
<1>. QED  BY <1>2, <1>3, <1>4

LEMMA RS_EditVarNameInv ==
  ASSUME Inv, text' = text, RS_EditVarName
  PROVE  Inv'
<1>1. Inside
  BY InsideStates DEF RS_EditVarName
<1>2. CASE Here \in KeyChars
  <2>1. Stay(read_state, loc) /\ Here # NUL
    BY <1>2, KeyCharsFacts DEF RS_EditVarName
  <2>. QED  BY <1>1, <2>1, StayInside
<1>3. CASE Here \notin KeyChars /\ Here = "=" /\ Argument \in names.variables
  <2> DEFINE l == [loc EXCEPT !.args = <<Span>>]
  <2>1. Read("RS_EditVarValue", 1, l)
    BY <1>3 DEF RS_EditVarName
  <2>2. l \in Locals /\ l.start = loc.start /\ l.keystate = loc.keystate
    BY <1>1, Facts, InsideFacts, SpanTyped, ArgsKept
  <2>3. "RS_EditVarValue" \notin Starting \union {"Between"}
    BY DEF Starting
  <2>4. Here # NUL
    BY <1>3, Symbols
  <2> HIDE DEF l
  <2>. QED  BY <1>1, <2>1, <2>2, <2>3, <2>4, ReadNext
<1>4. CASE Here \notin KeyChars /\ ~(Here = "=" /\ Argument \in names.variables)
  <2>1. Error
    BY <1>4 DEF RS_EditVarName
  <2>. QED  BY <1>1, <2>1, ErrorInside
<1>. QED  BY <1>2, <1>3, <1>4

\* The command is added at its key state and finished at its semicolon.
LEMMA RS_MouseClickStateInv ==
  ASSUME Inv, text' = text, RS_MouseClickState
  PROVE  Inv'
<1>1. /\ read_state = "RS_MouseClickState" /\ read_state # "Between"
      /\ read_state \notin Starting \union {"Between"}
  BY DEF RS_MouseClickState, Starting
<1>2. /\ loc.start < at /\ at <= Len(text) /\ token_i <= loc.start /\ mark <= at
      /\ at \in Nat /\ Len(text) \in Nat /\ loc.start \in Nat /\ mark \in Nat /\ token_i \in Nat
      /\ text \in Texts /\ cmds \in Seq(CommandRec) /\ Len(cmds) \in Nat
      /\ parse_error \in BOOLEAN /\ token_i <= Len(text) + 1
  BY <1>1, Facts, CallFacts
<1>3. CASE Here \in KeyStates /\ ~loc.keystate
  <2> DEFINE args == Append(loc.args, <<at, at>>)
             c == Command("MouseClick", args)
             l == [loc EXCEPT !.keystate = TRUE]
  <2>1. /\ at' = at + 1 /\ loc' = l /\ cmds' = Append(cmds, c)
        /\ UNCHANGED <<token_i, mark, read_state, parse_error>>
    BY <1>3 DEF RS_MouseClickState
  <2>2. args \in Seq(Int \X Int)
    <3>1. at \in Int /\ loc.args \in Seq(Int \X Int)
      BY Facts
    <3>. QED  BY <3>1, Spans
  <2> HIDE DEF args
  <2>3. c \in CommandRec
    BY <2>2, Types, Facts, CommandTyped
  <2>4. l \in Locals /\ l.start = loc.start /\ l.keystate = TRUE
    BY Facts, KeyStateKept
  <2> HIDE DEF c, l
  <2>5. /\ cmds' \in Seq(CommandRec) /\ Len(cmds') = Len(cmds) + 1
        /\ \A n \in 1 .. Len(cmds) : cmds'[n] = cmds[n]
    BY <1>2, <2>1, <2>3
  <2>6. at' \in Nat /\ at' <= Len(text)
    <3>1. Here # NUL
      BY <1>3, Symbols
    <3>. QED  BY <1>2, <2>1, <3>1, HereInside
  <2>7. PositionsOK'
    <3>1. token_i' \in 0 .. Len(text) + 1
      BY <1>2, <2>1
    <3>. QED  BY <1>2, <2>1, <2>4, <2>5, <2>6, <3>1 DEF PositionsOK
  <2>8. CallOK'
    <3>1. Len(cmds') > 0 /\ mark' <= at' /\ loc'.start < at' /\ loc'.start <= at'
      BY <1>2, <2>1, <2>4, <2>5
    <3>2. token_i' <= loc'.start
      BY <1>2, <2>1, <2>4
    <3>. QED  BY <1>1, <2>1, <2>6, <3>1, <3>2 DEF CallOK
  <2>9. TilesOK'
    <3> SUFFICES ASSUME ~parse_error', NoUngrabButtons
                 PROVE  /\ \A n \in 1 .. Whole' : TileOK(text, cmds', n)
                        /\ EndOf(cmds', Whole') < token_i'
                        /\ Void(text, EndOf(cmds', Whole') + 1, Passed')
      <4>1. read_state' # "RS_Comments"
        BY <1>1, <2>1
      <4>. QED  BY <4>1, Zenon DEF TilesOK
    <3>1. Whole = Len(cmds)
      BY <1>3 DEF Whole, Adding
    <3>2. Whole' = Len(cmds)
      <4>1. Adding'
        BY <1>1, <2>1, <2>4 DEF Adding
      <4>. QED  BY <1>2, <2>5, <4>1 DEF Whole
    <3>3. Passed' = loc.start
      BY <1>1, <2>1, <2>4 DEF Passed
    <3>4. /\ \A n \in 1 .. Len(cmds) : TileOK(text, cmds, n)
          /\ EndOf(cmds, Len(cmds)) < token_i
          /\ Void(text, EndOf(cmds, Len(cmds)) + 1, loc.start)
      BY <1>1, <2>1, <3>1, TileFacts
    <3>5. \A n \in 0 .. Len(cmds) : EndOf(cmds', n) = EndOf(cmds, n)
      <4>1. \A n \in 0 .. Len(cmds) : n = 0 \/ n \in 1 .. Len(cmds)
        BY <1>2
      <4>. QED  BY <2>5, <4>1 DEF EndOf
    <3>6. \A n \in 1 .. Len(cmds) : TileOK(text, cmds', n)
      <4>1. \A n \in 1 .. Len(cmds) : n - 1 \in 0 .. Len(cmds)
        BY <1>2
      <4>. QED  BY <2>5, <3>4, <3>5, <4>1 DEF TileOK
    <3>7. EndOf(cmds', Len(cmds)) = EndOf(cmds, Len(cmds))
      <4>1. Len(cmds) \in 0 .. Len(cmds)
        BY <1>2
      <4>. QED  BY <3>5, <4>1
    <3>. QED  BY <2>1, <3>2, <3>3, <3>4, <3>6, <3>7
  <2>. QED  BY <2>7, <2>8, <2>9 DEF Inv
<1>4. CASE Here = Semicolon /\ loc.keystate
  <2>1. Finish(cmds, at)
    BY <1>4 DEF RS_MouseClickState
  <2>2. Adding
    BY <1>1, <1>4 DEF Adding
  <2>3. Whole \in Nat /\ Len(cmds) = Whole + 1
    <3>1. Whole = Len(cmds) - 1 /\ Len(cmds) > 0
      BY <1>1, <2>2, CallFacts DEF Whole
    <3>. QED  BY <1>2, <3>1
  <2>4. at <= at /\ Char(at) \in {Semicolon, "?"}
    BY <1>2, <1>4 DEF Here
  <2>. QED  BY <1>1, <1>2, <2>1, <2>3, <2>4, FinishInv
<1>5. CASE ~(Here = Semicolon /\ loc.keystate) /\ ~(Here \in KeyStates /\ ~loc.keystate)
  <2>1. Error
    BY <1>5 DEF RS_MouseClickState
  <2>. QED  BY <1>1, <2>1, ErrorInv
<1>. QED  BY <1>3, <1>4, <1>5

LEMMA InitVarRPNInv ==
  ASSUME Inv, text' = text, InitVarRPN
  PROVE  Inv'
<1> DEFINE close == First(at + 2, {")", "?"})
           ends  == /\ Here \in VarTypes /\ Char(at + 1) = "("
                    /\ Char(close) = ")" /\ Char(close + 1) = Semicolon
           args  == Append(loc.args, <<at + 1, close>>)
           c     == Command("InitVar", args)
<1>1. Inside
  BY InsideStates DEF InitVarRPN
<1>2. \/ Error
      \/ ends /\ cmds' = Append(cmds, c) /\ Return(close + 2) /\ parse_error' = TRUE
      \/ ends /\ Finish(Append(cmds, c), close + 1)
  BY Zenon DEF InitVarRPN
<1>3. ASSUME ends
      PROVE  /\ close \in Nat /\ close + 1 < Len(text) /\ at + 2 <= close
             /\ args \in Seq(Int \X Int)
             /\ Char(close + 1) = Semicolon
  <2>1. Len(text) \in Nat /\ at \in Nat /\ text \in Texts /\ at + 2 \in Nat /\ loc.args \in Seq(Int \X Int)
    BY Facts
  <2>2. at + 2 <= Len(text)
    <3>1. Char(at + 1) # NUL
      BY <1>3, Symbols
    <3>. QED  BY <2>1, <3>1, HereInside
  <2>3. close \in at + 2 .. Len(text)
    BY <2>1, <2>2, FirstFacts
  <2>4. Char(close + 1) = Semicolon
    BY <1>3
  <2> HIDE DEF close
  <2>5. close \in Nat /\ close + 1 \in Nat /\ at + 2 <= close
    BY <2>1, <2>3
  <2>6. close + 1 < Len(text)
    BY <2>1, <2>4, <2>5, Marks, TextFacts
  <2>7. args \in Seq(Int \X Int)
    <3>1. at + 1 \in Int /\ close \in Int
      BY <2>1, <2>5
    <3>. QED  BY <2>1, <3>1, Spans
  <2>. QED  BY <2>4, <2>5, <2>6, <2>7
<1>4. CASE Error
  BY <1>1, <1>4, ErrorInside
<1>5. CASE ends /\ cmds' = Append(cmds, c) /\ Return(close + 2) /\ parse_error' = TRUE
  <2>1. close \in Nat /\ close + 1 < Len(text) /\ args \in Seq(Int \X Int)
        /\ cmds' = Append(cmds, c) /\ Return(close + 2) /\ parse_error' = TRUE
    BY <1>3, <1>5
  <2> HIDE DEF close, args
  <2>2. c \in CommandRec /\ cmds \in Seq(CommandRec) /\ Len(text) \in Nat
    BY <2>1, Types, Facts, CommandTyped
  <2> HIDE DEF c
  <2>3. cmds' \in Seq(CommandRec) /\ close + 2 \in 0 .. Len(text) + 1
    BY <2>1, <2>2
  <2>. QED  BY <2>1, <2>3, FailInv
<1>6. CASE ends /\ Finish(Append(cmds, c), close + 1)
  <2>1. close \in Nat /\ close + 1 < Len(text) /\ at + 2 <= close
        /\ args \in Seq(Int \X Int) /\ Char(close + 1) \in {Semicolon, "?"}
        /\ Finish(Append(cmds, Command("InitVar", args)), close + 1)
    BY <1>3, <1>6
  <2> HIDE DEF close, args
  <2>2. close + 1 \in Nat /\ at <= close + 1 /\ close + 1 <= Len(text) /\ loc.start < close + 1
    <3>1. loc.start \in Nat
      BY Facts
    <3>. QED  BY <1>1, <2>1, <3>1, InsideFacts
  <2>. QED  BY <1>1, <2>1, <2>2, Types, InsideFacts, EmitInv
<1>. QED  BY <1>2, <1>4, <1>5, <1>6

LEMMA InitVarNumberInv ==
  ASSUME Inv, text' = text, InitVarNumber
  PROVE  Inv'
<1>1. Inside
  BY InsideStates DEF InitVarNumber
<1> DEFINE args == Append(loc.args, Span)
<1>2. \/ Here \in Digits \union {".", "-"} /\ Stay(read_state, loc)
      \/ Here = Semicolon /\ Finish(Append(cmds, Command("InitVar", args)), at)
      \/ Error
  BY Zenon DEF InitVarNumber
<1>3. CASE Here \in Digits \union {".", "-"} /\ Stay(read_state, loc)
  <2>1. Here # NUL
    BY <1>3, Symbols
  <2>. QED  BY <1>1, <1>3, <2>1, StayInside
<1>4. CASE Here = Semicolon /\ Finish(Append(cmds, Command("InitVar", args)), at)
  <2>1. args \in Seq(Int \X Int)
    BY <1>1, InsideFacts, SpanTyped, Spans
  <2> HIDE DEF args
  <2>2. at \in Nat /\ at <= at /\ Char(at) \in {Semicolon, "?"}
    BY <1>4, Facts DEF Here
  <2>. QED  BY <1>1, <1>4, <2>1, <2>2, Types, InsideFacts, EmitInv
<1>. QED  BY <1>1, <1>2, <1>3, <1>4, ErrorInside

\* No escape goes over the null character.
LEMMA EscapesFacts == NUL \notin Escapes
  BY DEF Escapes, NUL, Semicolon, NewLine

LEMMA RS_PrintStringInv ==
  ASSUME Inv, text' = text, RS_PrintString
  PROVE  Inv'
<1> DEFINE close == First(at + 1, {")", Semicolon})
           a == Append(loc.args, <<at, close>>)
           l == [loc EXCEPT !.args = a]
<1>1. Inside /\ read_state = "RS_PrintString"
  BY InsideStates DEF RS_PrintString
<1>2. /\ read_state # "Between" /\ ~Adding /\ read_state \notin Starting \union {"Between"}
      /\ at \in Nat /\ mark \in Nat /\ Len(text) \in Nat /\ text \in Texts /\ loc \in Locals
      /\ mark <= at /\ loc.args \in Seq(Int \X Int) /\ ~loc.keystate
  BY <1>1, Facts, InsideFacts, CallFacts DEF Inside
<1>3. \/ /\ Here = "(" /\ Char(close) = ")"
         /\ at' = close + 1 /\ loc' = l
         /\ UNCHANGED <<token_i, mark, read_state, cmds, names, parse_error>>
      \/ Here = Semicolon /\ Char(at + 1) = Semicolon /\ Emit("PrintString", loc.args, at + 1)
      \/ /\ Char(at + 1) \in Escapes /\ at' = at + 2
         /\ UNCHANGED <<token_i, mark, read_state, loc, cmds, names, parse_error>>
      \/ Here # NUL /\ Stay(read_state, loc)
      \/ Error
  BY Zenon DEF RS_PrintString
<1>4. CASE /\ Here = "(" /\ Char(close) = ")"
           /\ at' = close + 1 /\ loc' = l
           /\ UNCHANGED <<token_i, mark, read_state, cmds, names, parse_error>>
  <2>1. at + 1 \in Nat /\ at + 1 <= Len(text)
    <3>1. Here # NUL
      BY <1>4, Symbols
    <3>. QED  BY <1>2, <3>1, HereInside
  <2>2. close \in at + 1 .. Len(text)
    BY <1>2, <2>1, FirstFacts
  <2>3. Char(close) # NUL
    BY <1>4, Symbols
  <2>4. /\ at' = close + 1 /\ loc' = l
        /\ mark' = mark /\ read_state' = read_state
        /\ UNCHANGED <<token_i, cmds, parse_error>>
    BY <1>4
  <2> HIDE DEF close
  <2>5. close \in Nat /\ close < Len(text) /\ at + 1 <= close
    BY <1>2, <2>2, <2>3, TextFacts
  <2>6. a \in Seq(Int \X Int)
    <3>1. at \in Int /\ close \in Int
      BY <1>2, <2>5
    <3>. QED  BY <1>2, <3>1, Spans
  <2> HIDE DEF a
  <2>7. l \in Locals /\ l.start = loc.start /\ l.keystate = loc.keystate
    BY <1>2, <2>6, ArgsKept
  <2> HIDE DEF l
  <2>8. at' \in at + 1 .. Len(text) /\ mark' \in Nat /\ mark' <= at'
    BY <1>2, <2>4, <2>5
  <2>9. loc' \in Locals /\ loc'.start = loc.start /\ ~loc'.keystate
        /\ read_state' \notin Starting \union {"Between"}
    BY <1>2, <2>4, <2>7
  <2>. QED  BY <1>2, <2>4, <2>8, <2>9, MovesInv
<1>5. CASE Here = Semicolon /\ Char(at + 1) = Semicolon /\ Emit("PrintString", loc.args, at + 1)
  BY <1>1, <1>2, <1>5, Types, EmitNext
<1>6. CASE /\ Char(at + 1) \in Escapes /\ at' = at + 2
           /\ UNCHANGED <<token_i, mark, read_state, loc, cmds, names, parse_error>>
  <2>1. Char(at + 1) # NUL
    BY <1>6, EscapesFacts
  <2>2. at + 2 <= Len(text)
    BY <1>2, <2>1, HereInside
  <2>3. at' \in at + 1 .. Len(text) /\ mark' \in Nat /\ mark' <= at'
    BY <1>2, <1>6, <2>2
  <2>4. loc' \in Locals /\ loc'.start = loc.start /\ ~loc'.keystate
        /\ read_state' \notin Starting \union {"Between"}
    BY <1>2, <1>6
  <2>. QED  BY <1>2, <1>6, <2>3, <2>4, MovesInv
<1>7. CASE Here # NUL /\ Stay(read_state, loc)
  BY <1>1, <1>7, StayInside
<1>. QED  BY <1>1, <1>3, <1>4, <1>5, <1>6, <1>7, ErrorInside

LEMMA RS_DebugTypeInv ==
  ASSUME Inv, text' = text, RS_DebugType
  PROVE  Inv'
<1>1. Inside
  BY InsideStates DEF RS_DebugType
<1>2. Error \/ (Char(at + 1) = "=" /\ Read("RS_DebugValue", 2, loc))
  BY Zenon DEF RS_DebugType
<1>3. CASE Char(at + 1) = "=" /\ Read("RS_DebugValue", 2, loc)
  <2>1. "RS_DebugValue" \notin Starting \union {"Between"} /\ loc \in Locals
    BY Facts DEF Starting
  <2>2. Char(at + 1) # NUL
    BY <1>3, Symbols
  <2>. QED  BY <1>1, <1>3, <2>1, <2>2, ReadTwo
<1>. QED  BY <1>1, <1>2, <1>3, ErrorInside

LEMMA RS_DebugValueInv ==
  ASSUME Inv, text' = text, RS_DebugValue
  PROVE  Inv'
<1>1. Inside
  BY InsideStates DEF RS_DebugValue
<1>2. \/ Here \in Digits /\ Stay(read_state, loc)
      \/ Here = Semicolon /\ Emit("DebugConfig", <<Span>>, at)
      \/ Error
  BY Zenon DEF RS_DebugValue
<1>3. CASE Here \in Digits /\ Stay(read_state, loc)
  <2>1. Here # NUL
    BY <1>3, Symbols
  <2>. QED  BY <1>1, <1>3, <2>1, StayInside
<1>4. CASE Here = Semicolon /\ Emit("DebugConfig", <<Span>>, at)
  BY <1>1, <1>4, Types, InsideFacts, SpanTyped, EmitHere
<1>. QED  BY <1>1, <1>2, <1>3, <1>4, ErrorInside

-------------------------------------------------------------------------------
(* Between commands. *)

\* Where the text begins that no command has.
Base == EndOf(cmds, Len(cmds)) + 1

\* What is read from here on up to j is no command, and may be a comment.
NoCommand(i, j) == \A k \in i .. j - 1 : VoidAt(text, Base, k)

InComment(j) ==
  \E h \in Base .. j - 1 :
    CharOf(text, h) = "#" /\ \A g \in h .. j - 1 : CharOf(text, g) # NewLine

LEMMA StartingFacts ==
  ASSUME Inv, read_state \in Starting
  PROVE  /\ ~Adding /\ ~loc.keystate /\ read_state # "Between"
         /\ Whole = Len(cmds) /\ Passed = at /\ Base \in Int
<1>1. read_state # "RS_MouseClickState" /\ read_state # "RS_KeyState" /\ read_state # "Between"
  BY DEF Starting
<1>2. ~Adding /\ ~loc.keystate
  BY <1>1, CallFacts DEF Adding
<1>3. Whole = Len(cmds) /\ Passed = at
  BY <1>1, <1>2 DEF Whole, Passed
<1>4. Base \in Int
  <2>1. Len(cmds) \in Nat /\ cmds \in Seq(CommandRec)
    BY Facts
  <2>2. EndOf(cmds, Len(cmds)) \in Int
    BY <2>1, EndTyped
  <2>. QED  BY <2>2 DEF Base
<1>. QED  BY <1>1, <1>2, <1>3, <1>4

LEMMA StartingTiles ==
  ASSUME Inv, read_state \in Starting, ~parse_error, NoUngrabButtons
  PROVE  /\ Base <= token_i /\ Void(text, Base, at)
         /\ \A n \in 1 .. Len(cmds) : TileOK(text, cmds, n)
         /\ read_state = "RS_Comments" => InComment(at)
<1>1. Whole = Len(cmds) /\ Passed = at /\ Base \in Int
  BY StartingFacts
<1>2. /\ \A n \in 1 .. Whole : TileOK(text, cmds, n)
      /\ EndOf(cmds, Whole) < token_i
      /\ Void(text, EndOf(cmds, Whole) + 1, Passed)
      /\ read_state = "RS_Comments" =>
           \E h \in EndOf(cmds, Whole) + 1 .. at - 1 :
             CharOf(text, h) = "#" /\ \A g \in h .. at - 1 : CharOf(text, g) # NewLine
  BY DEF Inv, TilesOK
<1>3. Base <= token_i
  <2>1. EndOf(cmds, Len(cmds)) \in Int /\ token_i \in Nat
    BY Facts, EndTyped
  <2>. QED  BY <1>1, <1>2, <2>1 DEF Base
<1>. QED  BY <1>1, <1>2, <1>3 DEF Base, InComment

\* The call goes on before a command.
LEMMA StartingInv ==
  ASSUME Inv, text' = text, read_state \in Starting, read_state' \in Starting,
         at' \in at + 1 .. Len(text), mark' \in Nat, mark' <= at',
         loc' \in Locals, loc.start <= loc'.start, loc'.start <= at', ~loc'.keystate,
         UNCHANGED <<token_i, cmds, parse_error>>,
         ~parse_error /\ NoUngrabButtons =>
           NoCommand(at, at') /\ (read_state' = "RS_Comments" => InComment(at'))
  PROVE  Inv'
<1>1. /\ text \in Texts /\ Len(text) \in Nat /\ at \in Nat /\ token_i \in Nat
      /\ token_i <= Len(text) + 1 /\ loc.start \in Nat /\ cmds \in Seq(CommandRec)
      /\ parse_error \in BOOLEAN /\ Len(cmds) \in Nat
  BY Facts
<1>2. token_i <= loc.start /\ loc.start <= at /\ Base \in Int /\ read_state # "Between"
  BY CallFacts, StartingFacts
<1>3. at' \in Nat /\ at' <= Len(text) /\ at < at'
  BY <1>1
<1>4. loc'.start \in Nat /\ token_i <= loc'.start
  <2>1. loc'.start \in Nat
    BY DEF Locals
  <2>. QED  BY <1>1, <1>2, <2>1
<1>5. PositionsOK'
  <2>1. token_i' \in 0 .. Len(text) + 1
    BY <1>1
  <2>. QED  BY <1>1, <1>3, <2>1 DEF PositionsOK
<1>6. CallOK'
  BY <1>1, <1>3, <1>4 DEF CallOK, Adding
<1>7. TilesOK'
  <2> SUFFICES ASSUME ~parse_error, NoUngrabButtons PROVE TilesOK'
    BY DEF TilesOK
  <2>1. Whole' = Len(cmds) /\ Passed' = at'
    <3>1. ~Adding' /\ read_state' # "Between"
      BY DEF Adding, Starting
    <3>. QED  BY <3>1 DEF Whole, Passed
  <2>2. /\ Base <= token_i /\ Void(text, Base, at)
        /\ \A n \in 1 .. Len(cmds) : TileOK(text, cmds, n)
    BY StartingTiles
  <2>3. Void(text, Base, at')
    <3>1. \A k \in at .. at' - 1 : k >= Base => VoidAt(text, Base, k)
      BY DEF NoCommand
    <3>2. at \in Int /\ at' \in Int
      BY <1>1, <1>3
    <3>. QED  BY <1>2, <2>2, <3>1, <3>2, VoidMore
  <2>4. EndOf(cmds, Len(cmds)) < token_i
    <3>1. EndOf(cmds, Len(cmds)) \in Int
      BY <1>1, EndTyped
    <3>. QED  BY <1>1, <2>2, <3>1 DEF Base
  <2>5. read_state' = "RS_Comments" => InComment(at')
    OBVIOUS
  <2>. QED  BY <2>1, <2>2, <2>3, <2>4, <2>5 DEF TilesOK, Base, InComment
<1>. QED  BY <1>5, <1>6, <1>7 DEF Inv

\* The call returns without a command.
LEMMA ReturnInv ==
  ASSUME Inv, text' = text, read_state \in Starting, Return(at + 1),
         UNCHANGED <<cmds, parse_error>>,
         at < Len(text) /\ ~parse_error /\ NoUngrabButtons => VoidAt(text, Base, at)
  PROVE  Inv'
<1>1. /\ text \in Texts /\ Len(text) \in Nat /\ at \in Nat /\ token_i \in Nat /\ mark \in Nat
      /\ loc \in Locals /\ cmds \in Seq(CommandRec) /\ parse_error \in BOOLEAN
      /\ Len(cmds) \in Nat /\ loc.start \in Nat
  BY Facts
<1>2. token_i <= at /\ at <= Len(text) /\ Base \in Int /\ read_state # "Between"
  <2>1. token_i <= loc.start /\ loc.start <= at /\ at <= Len(text)
    BY CallFacts, StartingFacts
  <2>. QED  BY <1>1, <2>1, StartingFacts
<1>3. token_i' = at + 1 /\ read_state' = "Between" /\ UNCHANGED <<mark, at, loc>>
  BY DEF Return
<1>4. PositionsOK'
  <2>1. token_i' \in 0 .. Len(text) + 1
    BY <1>1, <1>2, <1>3
  <2>. QED  BY <1>1, <1>3, <2>1 DEF PositionsOK
<1>5. CallOK'
  BY <1>3 DEF CallOK
<1>6. TilesOK'
  <2> SUFFICES ASSUME ~parse_error, NoUngrabButtons PROVE TilesOK'
    BY DEF TilesOK
  <2>1. Whole' = Len(cmds) /\ Passed' = IF at + 1 < Len(text) THEN at + 1 ELSE Len(text)
    <3>1. ~Adding'
      BY <1>3 DEF Adding
    <3>. QED  BY <1>3, <3>1 DEF Whole, Passed
  <2>2. /\ Base <= token_i /\ Void(text, Base, at)
        /\ \A n \in 1 .. Len(cmds) : TileOK(text, cmds, n)
    BY StartingTiles
  <2>3. Void(text, Base, Passed')
    <3>1. CASE at < Len(text)
      <4>1. \A k \in at .. Passed' - 1 : k = at
        BY <1>1, <2>1, <3>1
      <4>2. \A k \in at .. Passed' - 1 : k >= Base => VoidAt(text, Base, k)
        BY <3>1, <4>1
      <4>3. Passed' \in Int /\ at \in Int
        BY <1>1, <2>1
      <4>. QED  BY <1>2, <2>2, <4>2, <4>3, VoidMore
    <3>2. CASE ~(at < Len(text))
      <4>1. Passed' = at
        BY <1>1, <1>2, <2>1, <3>2
      <4>. QED  BY <2>2, <4>1
    <3>. QED  BY <3>1, <3>2
  <2>4. EndOf(cmds, Len(cmds)) < token_i'
    <3>1. EndOf(cmds, Len(cmds)) \in Int
      BY <1>1, EndTyped
    <3>. QED  BY <1>1, <1>2, <1>3, <2>2, <3>1 DEF Base
  <2>. QED  BY <1>3, <2>1, <2>2, <2>3, <2>4 DEF TilesOK, Base
<1>. QED  BY <1>4, <1>5, <1>6 DEF Inv

\* A new call starts where the last one ended.
LEMMA CallInv ==
  ASSUME Inv, Call
  PROVE  Inv'
<1> DEFINE l == [NoLocals EXCEPT !.start = token_i]
<1>1. /\ read_state = "Between" /\ token_i <= Len(text) /\ read_state' = "RS_Start"
      /\ mark' = token_i /\ at' = token_i /\ loc' = l
      /\ UNCHANGED <<text, token_i, cmds, parse_error>>
  BY DEF Call
<1>2. /\ text \in Texts /\ Len(text) \in Nat /\ token_i \in Nat
      /\ cmds \in Seq(CommandRec) /\ parse_error \in BOOLEAN
  BY Facts
<1>3. l \in Locals /\ l.start = token_i /\ l.keystate = FALSE
  BY <1>2, Spans DEF NoLocals, Locals, Combs
<1> HIDE DEF l
<1>4. PositionsOK'
  <2>1. token_i' \in 0 .. Len(text) + 1
    BY <1>1, <1>2
  <2>. QED  BY <1>1, <1>2, <1>3, <2>1 DEF PositionsOK
<1>5. CallOK'
  BY <1>1, <1>2, <1>3 DEF CallOK, Starting, Adding
<1>6. TilesOK'
  <2> SUFFICES ASSUME ~parse_error, NoUngrabButtons PROVE TilesOK'
    BY <1>1 DEF TilesOK
  <2>1. Whole' = Len(cmds) /\ Whole = Len(cmds)
    BY <1>1 DEF Whole, Adding
  <2>2. Passed' = token_i
    BY <1>1 DEF Passed, Starting
  <2>3. Passed = token_i
    BY <1>1, <1>2 DEF Passed
  <2>. QED  BY <1>1, <2>1, <2>2, <2>3 DEF Inv, TilesOK
<1>. QED  BY <1>4, <1>5, <1>6 DEF Inv

\* The words of commands without arguments.
LEMMA SimpleWords ==
  ASSUME NEW t \in DOMAIN Simple
  PROVE  /\ t \in CommandTypes
         /\ \E n \in {2, 3} : Len(Simple[t]) = n /\ DOMAIN Simple[t] = 1 .. n
                              /\ Simple[t][n] = Semicolon
         /\ t = "UngrabButtonAll" => Simple[t][1] = "ungrab_buttons" /\ Len(Simple[t]) = 2
<1>1. \/ \E a : Simple[t] = <<a, Semicolon>>
      \/ \E a, b : Simple[t] = <<a, b, Semicolon>>
  BY DEF Simple
<1>2. \E n \in {2, 3} : Len(Simple[t]) = n /\ DOMAIN Simple[t] = 1 .. n
                        /\ Simple[t][n] = Semicolon
  BY <1>1
<1>3. t = "UngrabButtonAll" => Simple[t][1] = "ungrab_buttons" /\ Len(Simple[t]) = 2
  BY DEF Simple
<1>. QED  BY <1>2, <1>3 DEF CommandTypes

LEMMA StartSimpleInv ==
  ASSUME Inv, text' = text, StartSimple
  PROVE  Inv'
<1>1. read_state \in Starting /\ read_state # "Between"
  BY DEF StartSimple, Starting
<1>2. PICK t \in DOMAIN Simple : Starts(Simple[t]) /\ Emit(t, <<>>, at + SimpleLength(t))
  BY DEF StartSimple
<1>3. PICK n \in {2, 3} : Len(Simple[t]) = n /\ DOMAIN Simple[t] = 1 .. n
                          /\ Simple[t][n] = Semicolon
  BY SimpleWords
<1>4. /\ text \in Texts /\ at \in Nat /\ Len(text) \in Nat /\ loc.start \in Nat
      /\ loc.start <= at /\ ~Adding /\ n \in Nat /\ n > 0
  BY <1>1, Facts, CallFacts, StartingFacts
<1>5. at + n <= Len(text) /\ Char(at + n - 1) = Semicolon
  BY <1>2, <1>3, <1>4, Marks, StartsInside
<1> DEFINE e == at + SimpleLength(t)
<1>6. Finish(Append(cmds, Command(t, <<>>)), e)
  BY <1>2 DEF Emit
<1>7. e = IF t = "UngrabButtonAll" THEN at + n ELSE at + n - 1
  BY <1>3, <1>4 DEF SimpleLength
<1> HIDE DEF e
<1>8. e \in Nat /\ at <= e /\ e <= Len(text) /\ loc.start < e
  BY <1>3, <1>4, <1>5, <1>7
<1>9. ASSUME NoUngrabButtons PROVE t # "UngrabButtonAll"
  <2> SUFFICES ASSUME t = "UngrabButtonAll" PROVE FALSE
    OBVIOUS
  <2>1. Simple[t][1] = "ungrab_buttons" /\ 1 \in DOMAIN Simple[t]
    BY <1>3, SimpleWords
  <2>2. Char(at + 1 - 1) = "ungrab_buttons"
    BY <1>2, <2>1 DEF Starts
  <2>3. at + 1 - 1 = at /\ at < Len(text) /\ at + 1 \in 1 .. Len(text)
    BY <1>3, <1>4, <1>5
  <2>4. text[at + 1] = "ungrab_buttons"
    BY <2>2, <2>3 DEF Char
  <2>5. at + 1 \in DOMAIN text
    <3>1. text \in Seq(STRING)
      BY <1>4, TextsAssumption
    <3>. QED  BY <2>3, <3>1
  <2>. QED  BY <1>4, <1>9, <2>4, <2>5 DEF NoUngrabButtons
<1>10. NoUngrabButtons => Char(e) \in {Semicolon, "?"}
  BY <1>5, <1>7, <1>9
<1>11. t \in CommandTypes /\ <<>> \in Seq(Int \X Int)
  BY SimpleWords, Spans
<1>. QED  BY <1>1, <1>4, <1>6, <1>8, <1>10, <1>11, EmitInv

LEMMA StartPrintInv ==
  ASSUME Inv, text' = text, StartPrint
  PROVE  Inv'
<1> DEFINE l == [loc EXCEPT !.print = TRUE]
<1>1. /\ read_state = "RS_Start" /\ Starts(PrintPrefix) /\ Len(PrintPrefix) = 3
      /\ Read("RS_Start", 3, l)
  BY DEF StartPrint, PrintPrefix
<1>2. /\ at' = at + 3 /\ mark' = at + 3 /\ read_state' = "RS_Start" /\ loc' = l
      /\ UNCHANGED <<token_i, cmds, parse_error>>
  BY <1>1 DEF Read
<1>3. /\ text \in Texts /\ at \in Nat /\ Len(text) \in Nat /\ loc.start \in Nat
      /\ loc.start <= at /\ token_i <= at /\ token_i \in Nat
      /\ ~loc.keystate /\ read_state \in Starting /\ Base \in Int
  <2>1. read_state \in Starting /\ read_state # "Between"
    BY <1>1 DEF Starting
  <2>2. token_i \in Nat /\ token_i <= loc.start /\ loc.start <= at /\ at \in Nat /\ loc.start \in Nat
    BY <2>1, Facts, CallFacts
  <2>. QED  BY <2>1, <2>2, Facts, StartingFacts
<1>4. l \in Locals /\ l.start = loc.start /\ l.keystate = loc.keystate
  BY Facts, PrintKept
<1> HIDE DEF l
<1>5. Char(at) = "PRINT" /\ Char(at + 1) = ">" /\ Char(at + 2) = ">"
  <2>1. /\ 1 \in DOMAIN PrintPrefix /\ 2 \in DOMAIN PrintPrefix /\ 3 \in DOMAIN PrintPrefix
        /\ PrintPrefix[1] = "PRINT" /\ PrintPrefix[2] = ">" /\ PrintPrefix[3] = ">"
    BY DEF PrintPrefix
  <2>2. Char(at + 1 - 1) = "PRINT" /\ Char(at + 2 - 1) = ">" /\ Char(at + 3 - 1) = ">"
    BY <1>1, <2>1 DEF Starts
  <2>3. at + 1 - 1 = at /\ at + 2 - 1 = at + 1 /\ at + 3 - 1 = at + 2
    BY <1>3
  <2>. QED  BY <2>2, <2>3
<1>6. at + 3 <= Len(text)
  <2>1. Char(at + 2) # NUL
    BY <1>5, Symbols
  <2>2. at + 2 \in Nat
    BY <1>3
  <2>. QED  BY <1>3, <2>1, <2>2, TextFacts
<1>7. ~parse_error /\ NoUngrabButtons => NoCommand(at, at')
  <2> SUFFICES ASSUME ~parse_error, NoUngrabButtons, NEW k \in at .. at' - 1
               PROVE  VoidAt(text, Base, k)
    BY DEF NoCommand
  <2>1. Base <= at
    <3>1. Base <= token_i
      BY <1>3, StartingTiles
    <3>. QED  BY <1>3, <3>1
  <2>2. at \in Base .. k /\ k < at + 3
    BY <1>2, <1>3, <2>1
  <2>3. CharOf(text, at) = "PRINT" /\ CharOf(text, at + 1) = ">" /\ CharOf(text, at + 2) = ">"
    BY <1>3, <1>5, TextFacts
  <2>. QED  BY <2>2, <2>3 DEF VoidAt
<1>8. at' \in at + 1 .. Len(text) /\ mark' \in Nat /\ mark' <= at'
  BY <1>2, <1>3, <1>6
<1>9. loc' \in Locals /\ loc.start <= loc'.start /\ loc'.start <= at' /\ ~loc'.keystate
  BY <1>2, <1>3, <1>4
<1>10. read_state' \in Starting /\ read_state' # "RS_Comments"
  BY <1>2 DEF Starting
<1>. QED  BY <1>2, <1>3, <1>7, <1>8, <1>9, <1>10, StartingInv

\* The words that commands begin with.
LEMMA OpeningWords ==
  ASSUME NEW o \in Openings
  PROVE  /\ \E n \in {2, 3} : Len(o.word) = n /\ DOMAIN o.word = 1 .. n /\ o.word[n] # NUL
         /\ o.state \notin Starting \union {"Between"}
<1>1. "=" # NUL /\ ">" # NUL /\ Comma # NUL
  BY Symbols, Marks
<1>2. \/ \E a : o.word = <<a, "=">> \/ o.word = <<a, ">">> \/ o.word = <<a, Comma>>
      \/ \E a, b : o.word = <<a, b, "=">>
  BY DEF Openings
<1>3. \E n \in {2, 3} : Len(o.word) = n /\ DOMAIN o.word = 1 .. n /\ o.word[n] # NUL
  BY <1>1, <1>2
<1>4. o.state \notin Starting \union {"Between"}
  BY DEF Openings, Starting
<1>. QED  BY <1>3, <1>4

LEMMA StartOpeningInv ==
  ASSUME Inv, text' = text, StartOpening
  PROVE  Inv'
<1>1. read_state \in Starting
  BY DEF StartOpening, Starting
<1>2. PICK o \in Openings :
        /\ Starts(o.word)
        /\ Read(o.state, Len(o.word),
                [loc EXCEPT !.invert = (o.word[1] = "!"), !.store = (o.word[1] = "JTS")])
  BY DEF StartOpening
<1> DEFINE v == (o.word[1] = "!")
           w == (o.word[1] = "JTS")
           l == [loc EXCEPT !.invert = v, !.store = w]
<1>3. PICK n \in {2, 3} : Len(o.word) = n /\ DOMAIN o.word = 1 .. n /\ o.word[n] # NUL
  BY OpeningWords
<1>4. Read(o.state, n, l) /\ v \in BOOLEAN /\ w \in BOOLEAN
  BY <1>2, <1>3
<1> HIDE DEF v, w
<1>5. l \in Locals /\ l.start = loc.start /\ l.keystate = loc.keystate
  BY <1>4, Facts, FlagsKept
<1> HIDE DEF l
<1>6. text \in Texts /\ at \in Nat /\ n \in Nat /\ n > 0
      /\ read_state # "Between" /\ ~Adding /\ ~loc.keystate
  BY <1>1, Facts, StartingFacts
<1>7. at + n <= Len(text)
  BY <1>2, <1>3, <1>6, StartsInside
<1>8. o.state \notin Starting \union {"Between"}
  BY OpeningWords
<1>. QED  BY <1>4, <1>5, <1>6, <1>7, <1>8, ReadInv

LEMMA StartKeyInv ==
  ASSUME Inv, text' = text, StartKey
  PROVE  Inv'
<1>1. read_state \in Starting /\ Here # NUL
  BY KeyCharsFacts DEF StartKey, Starting
<1>2. /\ read_state # "Between" /\ ~Adding /\ ~loc.keystate /\ loc \in Locals
      /\ text \in Texts /\ at \in Nat
  BY <1>1, Facts, StartingFacts
<1>3. Read("RS_MouseClickType", 1, loc) \/ Error \/ Stay("RS_Keys", loc)
  BY Zenon DEF StartKey
<1>4. CASE Read("RS_MouseClickType", 1, loc)
  <2>1. at + 1 <= Len(text) /\ 1 \in Nat /\ 1 > 0
    BY <1>1, <1>2, HereInside
  <2>2. "RS_MouseClickType" \notin Starting \union {"Between"}
    BY DEF Starting
  <2>. QED  BY <1>2, <1>4, <2>1, <2>2, ReadInv
<1>5. CASE Stay("RS_Keys", loc)
  <2>1. "RS_Keys" \notin Starting \union {"Between"}
    BY DEF Starting
  <2>. QED  BY <1>1, <1>2, <1>5, <2>1, StayInv
<1>. QED  BY <1>2, <1>3, <1>4, <1>5, ErrorInv

\* One character of no command is passed.
LEMMA PassOne ==
  ASSUME Inv, text' = text, read_state \in Starting, Here # NUL,
         at' = at + 1, mark' = mark \/ mark' = at + 1, read_state' \in Starting,
         loc' = [loc EXCEPT !.start = @ + 1],
         UNCHANGED <<token_i, cmds, parse_error>>,
         ~parse_error /\ NoUngrabButtons =>
           VoidAt(text, Base, at) /\ (read_state' = "RS_Comments" => InComment(at + 1))
  PROVE  Inv'
<1> DEFINE v == loc.start + 1
           l == [loc EXCEPT !.start = v]
<1>1. /\ text \in Texts /\ at \in Nat /\ Len(text) \in Nat /\ mark \in Nat /\ mark <= at
      /\ loc \in Locals /\ loc.start \in Nat /\ loc.start <= at /\ ~loc.keystate
  BY Facts, CallFacts, StartingFacts
<1>2. loc' = l /\ v \in Nat /\ v = loc.start + 1
  BY <1>1
<1> HIDE DEF v
<1>3. l \in Locals /\ l.start = v /\ l.keystate = loc.keystate
  BY <1>1, <1>2, StartKept
<1> HIDE DEF l
<1>4. at' \in at + 1 .. Len(text) /\ mark' \in Nat /\ mark' <= at'
  <2>1. at < Len(text)
    BY <1>1, HereInside
  <2>. QED  BY <1>1, <2>1
<1>5. loc' \in Locals /\ loc.start <= loc'.start /\ loc'.start <= at' /\ ~loc'.keystate
  BY <1>1, <1>2, <1>3
<1>6. ~parse_error /\ NoUngrabButtons =>
        NoCommand(at, at') /\ (read_state' = "RS_Comments" => InComment(at'))
  <2>1. \A k \in at .. at' - 1 : k = at
    BY <1>1
  <2>. QED  BY <2>1 DEF NoCommand
<1>. QED  BY <1>4, <1>5, <1>6, StartingInv

LEMMA StartOtherInv ==
  ASSUME Inv, text' = text, StartOther
  PROVE  Inv'
<1> DEFINE l == [loc EXCEPT !.start = @ + 1]
<1>1. read_state \in Starting
  BY DEF StartOther, Starting
<1>2. /\ read_state # "Between" /\ ~Adding /\ ~loc.keystate /\ loc \in Locals
      /\ text \in Texts /\ at \in Nat /\ Len(text) \in Nat /\ Base \in Int
  BY <1>1, Facts, StartingFacts
<1>3. \/ Here = "." /\ Read("RS_Delay", 1, loc)
      \/ Here = "(" /\ Read("RS_RepeatStart", 1, loc)
      \/ Here = ")" /\ Read("RS_RepeatEnd", 1, loc)
      \/ Here \in {Semicolon, NUL} /\ Return(at + 1) /\ UNCHANGED <<cmds, names, parse_error>>
      \/ Here \in Blanks /\ Read("RS_Start", 1, l)
      \/ Here = "#" /\ Stay("RS_Comments", l)
      \/ Here \in DOMAIN CombOf /\ Read("RS_Query", 1, [loc EXCEPT !.comb = CombOf[Here]])
      \/ Error
  BY Zenon DEF StartOther
<1>4. ASSUME Here # NUL, NEW state \in {"RS_Delay", "RS_RepeatStart", "RS_RepeatEnd", "RS_Query"},
             NEW m \in Locals, m.start = loc.start, m.keystate = loc.keystate, Read(state, 1, m)
      PROVE  Inv'
  <2>1. at + 1 <= Len(text) /\ 1 \in Nat /\ 1 > 0
    BY <1>2, <1>4, HereInside
  <2>2. state \notin Starting \union {"Between"} /\ ~m.keystate
    BY <1>2, <1>4 DEF Starting
  <2>. QED  BY <1>2, <1>4, <2>1, <2>2, ReadInv
<1>5. CASE Here = "." /\ Read("RS_Delay", 1, loc)
  <2>1. Here # NUL /\ "RS_Delay" \in {"RS_Delay", "RS_RepeatStart", "RS_RepeatEnd", "RS_Query"}
    BY <1>5, Symbols
  <2>. QED  BY <1>2, <1>4, <1>5, <2>1
<1>6. CASE Here = "(" /\ Read("RS_RepeatStart", 1, loc)
  <2>1. Here # NUL /\ "RS_RepeatStart" \in {"RS_Delay", "RS_RepeatStart", "RS_RepeatEnd", "RS_Query"}
    BY <1>6, Symbols
  <2>. QED  BY <1>2, <1>4, <1>6, <2>1
<1>7. CASE Here = ")" /\ Read("RS_RepeatEnd", 1, loc)
  <2>1. Here # NUL /\ "RS_RepeatEnd" \in {"RS_Delay", "RS_RepeatStart", "RS_RepeatEnd", "RS_Query"}
    BY <1>7, Symbols
  <2>. QED  BY <1>2, <1>4, <1>7, <2>1
<1>8. CASE Here \in {Semicolon, NUL} /\ Return(at + 1) /\ UNCHANGED <<cmds, names, parse_error>>
  <2>1. at < Len(text) => VoidAt(text, Base, at)
    <3> SUFFICES ASSUME at < Len(text) PROVE VoidAt(text, Base, at)
      OBVIOUS
    <3>1. Char(at) = CharOf(text, at) /\ Char(at) # NUL
      BY <1>2, TextFacts
    <3>. QED  BY <1>8, <3>1 DEF VoidAt, Here
  <2>. QED  BY <1>1, <1>8, <2>1, ReturnInv
<1>9. CASE Here \in Blanks /\ Read("RS_Start", 1, l)
  <2>1. /\ at' = at + 1 /\ mark' = at + 1 /\ read_state' = "RS_Start" /\ loc' = l
        /\ UNCHANGED <<token_i, cmds, parse_error>>
    BY <1>9 DEF Read
  <2>2. Here # NUL
    <3>1. " " # NUL
      BY Zenon DEF NUL
    <3>. QED  BY <1>9, <3>1, Marks DEF Blanks
  <2>3. VoidAt(text, Base, at)
    BY <1>2, <1>9, TextFacts DEF VoidAt, Here
  <2>4. read_state' \in Starting /\ read_state' # "RS_Comments"
    BY <2>1 DEF Starting
  <2>. QED  BY <1>1, <2>1, <2>2, <2>3, <2>4, PassOne
<1>10. CASE Here = "#" /\ Stay("RS_Comments", l)
  <2>1. /\ at' = at + 1 /\ mark' = mark /\ read_state' = "RS_Comments" /\ loc' = l
        /\ UNCHANGED <<token_i, cmds, parse_error>>
    BY <1>10 DEF Stay
  <2>2. Here # NUL
    BY <1>10, Symbols
  <2>3. CharOf(text, at) = "#" /\ "#" # NewLine
    <3>1. "#" # NewLine
      BY Zenon DEF NewLine
    <3>. QED  BY <1>2, <1>10, <3>1, TextFacts DEF Here
  <2>4. ~parse_error /\ NoUngrabButtons =>
          VoidAt(text, Base, at) /\ InComment(at + 1)
    <3> SUFFICES ASSUME ~parse_error, NoUngrabButtons
                 PROVE  VoidAt(text, Base, at) /\ InComment(at + 1)
      OBVIOUS
    <3>1. Base <= at
      <4>1. Base <= token_i /\ token_i <= loc.start /\ loc.start <= at /\ token_i \in Nat
            /\ loc.start \in Nat
        BY <1>1, <1>2, StartingTiles, Facts, CallFacts
      <4>. QED  BY <1>2, <4>1
    <3>2. at \in Base .. at /\ at \in Base .. at + 1 - 1
      BY <1>2, <3>1
    <3>3. \A g \in at .. at - 1 : CharOf(text, g) # NewLine
      BY <1>2
    <3>4. \A g \in at .. at + 1 - 1 : g = at
      BY <1>2
    <3>5. VoidAt(text, Base, at)
      BY <2>3, <3>2, <3>3 DEF VoidAt
    <3>6. InComment(at + 1)
      BY <2>3, <3>2, <3>4 DEF InComment
    <3>. QED  BY <3>5, <3>6
  <2>5. read_state' \in Starting
    BY <2>1 DEF Starting
  <2>. QED  BY <1>1, <2>1, <2>2, <2>4, <2>5, PassOne
<1>11. CASE Here \in DOMAIN CombOf /\ Read("RS_Query", 1, [loc EXCEPT !.comb = CombOf[Here]])
  <2> DEFINE c == CombOf[Here]
             m == [loc EXCEPT !.comb = c]
  <2>1. Here \in {"?", "|", "&"} /\ c \in Combs
    BY <1>11 DEF CombOf, Combs
  <2>2. Here # NUL
    BY <2>1 DEF NUL
  <2>3. Read("RS_Query", 1, m)
    BY <1>11
  <2> HIDE DEF c
  <2>4. m \in Locals /\ m.start = loc.start /\ m.keystate = loc.keystate
    BY <1>2, <2>1, CombKept
  <2>5. "RS_Query" \in {"RS_Delay", "RS_RepeatStart", "RS_RepeatEnd", "RS_Query"}
    OBVIOUS
  <2> HIDE DEF m
  <2>. QED  BY <1>4, <2>2, <2>3, <2>4, <2>5
<1>12. CASE Error
  BY <1>2, <1>12, ErrorInv
<1>. QED  BY <1>3, <1>5, <1>6, <1>7, <1>8, <1>9, <1>10, <1>11, <1>12

LEMMA RS_CommentsInv ==
  ASSUME Inv, text' = text, RS_Comments
  PROVE  Inv'
<1> DEFINE l == [loc EXCEPT !.start = @ + 1]
<1>1. read_state \in Starting /\ read_state = "RS_Comments"
  BY DEF RS_Comments, Starting
<1>2. text \in Texts /\ at \in Nat /\ Len(text) \in Nat /\ Base \in Int
  BY <1>1, Facts, StartingFacts
<1>3. \/ Here = NewLine /\ Read("RS_Start", 1, l)
      \/ Here = NUL /\ Return(at + 1) /\ UNCHANGED <<cmds, names, parse_error>>
      \/ Here # NewLine /\ Here # NUL /\ Stay("RS_Comments", l)
  BY Zenon DEF RS_Comments
<1>4. CASE Here = NewLine /\ Read("RS_Start", 1, l)
  <2>1. /\ at' = at + 1 /\ mark' = at + 1 /\ read_state' = "RS_Start" /\ loc' = l
        /\ UNCHANGED <<token_i, cmds, parse_error>>
    BY <1>4 DEF Read
  <2>2. Here # NUL
    BY <1>4, Marks
  <2>3. VoidAt(text, Base, at)
    BY <1>2, <1>4, TextFacts DEF VoidAt, Here, Blanks
  <2>4. read_state' \in Starting /\ read_state' # "RS_Comments"
    BY <2>1 DEF Starting
  <2>. QED  BY <1>1, <2>1, <2>2, <2>3, <2>4, PassOne
<1>5. CASE Here = NUL /\ Return(at + 1) /\ UNCHANGED <<cmds, names, parse_error>>
  <2>1. ~(at < Len(text))
    BY <1>2, <1>5, TextFacts DEF Here
  <2>. QED  BY <1>1, <1>5, <2>1, ReturnInv
<1>6. CASE Here # NewLine /\ Here # NUL /\ Stay("RS_Comments", l)
  <2>1. /\ at' = at + 1 /\ mark' = mark /\ read_state' = "RS_Comments" /\ loc' = l
        /\ UNCHANGED <<token_i, cmds, parse_error>>
    BY <1>6 DEF Stay
  <2>2. CharOf(text, at) # NewLine
    BY <1>2, <1>6, TextFacts DEF Here
  <2>3. ~parse_error /\ NoUngrabButtons =>
          VoidAt(text, Base, at) /\ InComment(at + 1)
    <3> SUFFICES ASSUME ~parse_error, NoUngrabButtons
                 PROVE  VoidAt(text, Base, at) /\ InComment(at + 1)
      OBVIOUS
    <3>1. PICK h \in Base .. at - 1 :
            CharOf(text, h) = "#" /\ \A g \in h .. at - 1 : CharOf(text, g) # NewLine
      BY <1>1, StartingTiles DEF InComment
    <3>2. h \in Base .. at /\ at + 1 - 1 = at
      BY <1>2
    <3>3. \A g \in h .. at : g \in h .. at - 1 \/ g = at
      BY <1>2
    <3>4. VoidAt(text, Base, at)
      BY <3>1, <3>2 DEF VoidAt
    <3>5. \A g \in h .. at : CharOf(text, g) # NewLine
      BY <2>2, <3>1, <3>3
    <3>6. \E f \in Base .. at : CharOf(text, f) = "#" /\ \A g \in f .. at : CharOf(text, g) # NewLine
      BY <3>1, <3>2, <3>5, Zenon
    <3>7. InComment(at + 1)
      BY <1>2, <3>2, <3>6 DEF InComment
    <3>. QED  BY <3>4, <3>7
  <2>4. read_state' \in Starting
    BY <2>1 DEF Starting
  <2>. QED  BY <1>1, <1>6, <2>1, <2>3, <2>4, PassOne
<1>. QED  BY <1>3, <1>4, <1>5, <1>6

-------------------------------------------------------------------------------
(* All steps, and the theorems. *)

LEMMA InitInv ==
  ASSUME Init
  PROVE  Inv
<1>1. /\ text \in Texts /\ token_i = 0 /\ mark = 0 /\ at = 0 /\ read_state = "Between"
      /\ loc = NoLocals /\ cmds = <<>> /\ parse_error = FALSE
  BY DEF Init
<1>2. Len(text) \in Nat
  BY <1>1, TextFacts
<1>3. loc \in Locals
  BY <1>1, Spans DEF NoLocals, Locals, Combs
<1>4. cmds \in Seq(CommandRec) /\ Len(cmds) = 0
  BY <1>1
<1>5. PositionsOK
  <2>1. 0 \in 0 .. Len(text) + 1
    BY <1>2
  <2>2. token_i \in 0 .. Len(text) + 1 /\ mark \in Nat /\ at \in Nat
    BY <1>1, <2>1
  <2>. QED  BY <1>1, <1>3, <1>4, <2>2 DEF PositionsOK
<1>6. CallOK
  BY <1>1 DEF CallOK
<1>7. TilesOK
  <2>1. Whole = 0
    BY <1>1, <1>4 DEF Whole, Adding
  <2>2. Passed = 0
    BY <1>1, <1>2 DEF Passed
  <2>3. EndOf(cmds, Whole) = -1
    BY <2>1 DEF EndOf
  <2>4. Void(text, -1 + 1, 0)
    BY VoidEmpty
  <2>. QED  BY <1>1, <2>1, <2>2, <2>3, <2>4 DEF TilesOK
<1>. QED  BY <1>5, <1>6, <1>7 DEF Inv

LEMMA StutterInv ==
  ASSUME Inv, UNCHANGED vars
  PROVE  Inv'
  BY DEF Inv, PositionsOK, CallOK, TilesOK, Whole, Adding, Passed, vars

LEMMA NextInv ==
  ASSUME Inv, Next
  PROVE  Inv'
<1>1. CASE Call
  BY <1>1, CallInv
<1>2. CASE ReadText /\ UNCHANGED text
  <2>1. text' = text /\ ReadText
    BY <1>2
  <2>2. CASE StartSimple \/ StartPrint \/ StartOpening \/ StartKey \/ StartOther \/ RS_Comments
    BY <2>1, <2>2, StartSimpleInv, StartPrintInv, StartOpeningInv, StartKeyInv, StartOtherInv,
       RS_CommentsInv
  <2>3. CASE \/ RS_RepeatEndValue \/ RS_DelayValue \/ RS_MoveMouse \/ RS_JumpToIndex
             \/ RS_QueryComparePixel \/ RS_QueryCoordsVarValue \/ RS_QueryCoordsWithin
             \/ RS_EditVarValue
    BY <2>1, <2>3, NumbersInv
  <2>4. CASE \/ RS_QueryKeyPress \/ RS_QueryButtonPress \/ RS_WaitUntilKey
             \/ RS_WaitUntilButton
             \/ RS_GrabKey \/ RS_UngrabKey \/ RS_GrabButton \/ RS_UngrabButton
    BY <2>1, <2>4, InputsInv
  <2>5. CASE \/ RS_RepeatStart \/ RS_RepeatEnd \/ RS_Keys \/ RS_KeyState \/ RS_Delay
             \/ RS_MouseClickType \/ RS_MouseClickState \/ RS_JumpTo \/ RS_JumpFrom
    BY <2>1, <2>5, RS_RepeatStartInv, RS_RepeatEndInv, RS_KeysInv, RS_KeyStateInv, RS_DelayInv,
       RS_MouseClickTypeInv, RS_MouseClickStateInv, RS_JumpToInv, RS_JumpFromInv
  <2>6. CASE \/ QueryIndices \/ QueryInvert \/ QueryOpening \/ RS_QueryCoordsType
             \/ RS_QueryRPNEval
    BY <2>1, <2>6, QueryIndicesInv, QueryInvertInv, QueryOpeningInv, RS_QueryCoordsTypeInv,
       RS_QueryRPNEvalInv
  <2>7. CASE \/ RS_InitVarType \/ RS_InitVarName \/ InitVarRPN \/ InitVarNumber
             \/ RS_EditVarName \/ RS_PrintString \/ RS_DebugType \/ RS_DebugValue
    BY <2>1, <2>7, RS_InitVarTypeInv, RS_InitVarNameInv, InitVarRPNInv, InitVarNumberInv,
       RS_EditVarNameInv, RS_PrintStringInv, RS_DebugTypeInv, RS_DebugValueInv
  <2>. QED  BY <2>1, <2>2, <2>3, <2>4, <2>5, <2>6, <2>7, Zenon DEF ReadText
<1>. QED  BY <1>1, <1>2 DEF Next

LEMMA Invariance == Spec => []Inv
<1>1. Init => Inv
  BY InitInv
<1>2. Inv /\ [Next]_vars => Inv'
  BY NextInv, StutterInv
<1>. QED  BY <1>1, <1>2, PTL DEF Spec

(***************************************************************************)
(* No state reads behind the terminating null character, whatever the text *)
(* is and wherever it breaks off (the loops over current_char_p in         *)
(* macro_buffer_process_next).                                             *)
(***************************************************************************)
THEOREM EveryStateStopsAtTheEnd == Spec => []NeverPastEnd
<1>1. Inv => NeverPastEnd
  BY CallFacts DEF NeverPastEnd
<1>. QED  BY <1>1, Invariance, PTL

\* What the invariant says of the text is what the property says.
LEMMA VoidIsIgnored ==
  ASSUME text \in Texts, NEW i \in Int, NEW j \in Int
  PROVE  Void(text, i, j) => Ignored(i, j)
<1>1. \A k : Char(k) = CharOf(text, k)
  BY TextFacts
<1>2. ASSUME NEW h \in Int,
             CharOf(text, h) = "PRINT", CharOf(text, h + 1) = ">", CharOf(text, h + 2) = ">"
      PROVE  \A n \in DOMAIN PrintPrefix : Char(h + n - 1) = PrintPrefix[n]
  <2>1. h + 1 - 1 = h /\ h + 2 - 1 = h + 1 /\ h + 3 - 1 = h + 2
    OBVIOUS
  <2>2. Char(h + 1 - 1) = "PRINT" /\ Char(h + 2 - 1) = ">" /\ Char(h + 3 - 1) = ">"
    BY <1>1, <1>2, <2>1
  <2>3. /\ DOMAIN PrintPrefix = {1, 2, 3}
        /\ PrintPrefix[1] = "PRINT" /\ PrintPrefix[2] = ">" /\ PrintPrefix[3] = ">"
    BY DEF PrintPrefix
  <2>. QED  BY <2>2, <2>3
<1>3. Len(PrintPrefix) = 3
  BY DEF PrintPrefix
<1>4. SUFFICES ASSUME NEW k \in i .. j - 1, VoidAt(text, i, k)
               PROVE  \/ Char(k) \in Blanks \union {Semicolon}
                      \/ \E h \in i .. k :
                           k < h + Len(PrintPrefix)
                           /\ \A n \in DOMAIN PrintPrefix : Char(h + n - 1) = PrintPrefix[n]
                      \/ \E h \in i .. k :
                           Char(h) = "#" /\ \A g \in h .. k - 1 : Char(g) # NewLine
  BY DEF Void, Ignored
<1>5. CASE CharOf(text, k) \in Blanks \union {Semicolon}
  BY <1>1, <1>5
<1>6. ASSUME NEW h \in i .. k, k < h + 3, CharOf(text, h) = "PRINT",
             CharOf(text, h + 1) = ">", CharOf(text, h + 2) = ">"
      PROVE  \E m \in i .. k :
               k < m + Len(PrintPrefix)
               /\ \A n \in DOMAIN PrintPrefix : Char(m + n - 1) = PrintPrefix[n]
  BY <1>2, <1>3, <1>6
<1>7. ASSUME NEW h \in i .. k, CharOf(text, h) = "#",
             \A g \in h .. k - 1 : CharOf(text, g) # NewLine
      PROVE  \E m \in i .. k : Char(m) = "#" /\ \A g \in m .. k - 1 : Char(g) # NewLine
  BY <1>1, <1>7
<1>. QED  BY <1>4, <1>5, <1>6, <1>7 DEF VoidAt

(***************************************************************************)
(* The commands of an accepted text lie one behind the other, and what is  *)
(* outside of them is blanks, comments and prefixes, for every text        *)
(* without ungrab_buttons: the length of that command is counted with its  *)
(* semicolon (parser.c 189), so that it takes the character behind it, too *)
(* (read_i and read_offset_i of every state, start_cmd_p and end_cmd_p).   *)
(***************************************************************************)
THEOREM NothingIsDropped ==
  ASSUME NoUngrabButtons
  PROVE  Spec => []CommandsTile
<1>1. Inv => CommandsTile
  <2> SUFFICES ASSUME Inv, Accepted PROVE CommandsTile
    BY DEF CommandsTile
  <2>1. /\ read_state = "Between" /\ token_i > Len(text) /\ ~parse_error
    BY DEF Accepted, Done
  <2>2. text \in Texts /\ Len(text) \in Nat /\ token_i \in Nat /\ cmds \in Seq(CommandRec)
        /\ Len(cmds) \in Nat /\ DOMAIN cmds = 1 .. Len(cmds)
    <3>1. cmds \in Seq(CommandRec)
      BY Facts
    <3>. QED  BY <3>1, Facts
  <2>3. Whole = Len(cmds) /\ Passed = Len(text)
    BY <2>1, <2>2 DEF Whole, Adding, Passed
  <2>4. /\ \A n \in 1 .. Len(cmds) : TileOK(text, cmds, n)
        /\ Void(text, EndOf(cmds, Len(cmds)) + 1, Len(text))
    BY <2>1, <2>3, TileFacts
  <2>5. \A n \in 0 .. Len(cmds) : EndOf(cmds, n) \in Int
    BY <2>2, EndTyped
  <2>6. Ignored(EndOf(cmds, Len(cmds)) + 1, Len(text))
    <3>1. Len(cmds) \in 0 .. Len(cmds)
      BY <2>2
    <3>2. EndOf(cmds, Len(cmds)) + 1 \in Int /\ Len(text) \in Int
      BY <2>2, <2>5, <3>1
    <3>. QED  BY <2>2, <2>4, <3>2, VoidIsIgnored
  <2>7. ASSUME NEW n \in DOMAIN cmds
        PROVE  /\ EndOf(cmds, n - 1) < cmds[n].from /\ cmds[n].from < cmds[n].to
               /\ Ignored(EndOf(cmds, n - 1) + 1, cmds[n].from)
               /\ Char(cmds[n].to) \in {Semicolon, "?"}
    <3>1. n \in 1 .. Len(cmds) /\ n - 1 \in 0 .. Len(cmds)
      BY <2>2
    <3>2. EndOf(cmds, n - 1) \in Int /\ cmds[n].from \in Int
      <4>1. cmds[n] \in CommandRec
        BY <2>2, <3>1
      <4>. QED  BY <2>5, <3>1, <4>1 DEF CommandRec
    <3>3. /\ EndOf(cmds, n - 1) < cmds[n].from /\ cmds[n].from < cmds[n].to
          /\ Void(text, EndOf(cmds, n - 1) + 1, cmds[n].from)
          /\ CharOf(text, cmds[n].to) \in {Semicolon, "?"}
      BY <2>4, <3>1 DEF TileOK
    <3>4. EndOf(cmds, n - 1) + 1 \in Int
      BY <3>2
    <3>. QED  BY <2>2, <3>2, <3>3, <3>4, VoidIsIgnored, TextFacts
  <2>. QED  BY <2>6, <2>7, Zenon DEF CommandsTile, EndOf
<1>. QED  BY <1>1, Invariance, PTL

-------------------------------------------------------------------------------
(* What the flags and the arguments of a command say. *)

\* A prefix stands at i.
PrefixAt(t, i) == CharOf(t, i) = "PRINT" /\ CharOf(t, i + 1) = ">" /\ CharOf(t, i + 2) = ">"

\* Every prefix stands directly before its command.
PrefixesStand ==
  \A i \in Nat : PrefixAt(text, i) =>
    CharOf(text, i + 3) \notin Blanks \union {"#"} /\ ~PrefixAt(text, i + 3)

\* Where a command starts behind its prefix.
BodyOf(f, from) == IF f.print THEN from + 3 ELSE from

\* The exclamation marks from i up to j that are not inside of brackets.
Unbracketed(t, i, j) == \A h \in i .. j - 1 : CharOf(t, h) # "("

OwnMarks(t, i, j) == {k \in i .. j - 1 : CharOf(t, k) = "!" /\ Unbracketed(t, i, k)}

\* From j up to m there is none of them.
Quiet(t, i, j, m) == \A k \in j .. m - 1 : CharOf(t, k) = "!" => ~Unbracketed(t, i, k)

\* The flags f are those of the text from its prefix at from, and its body at b, up to j.
FlagsAre(t, f, from, b, j) ==
  /\ f.print <=> PrefixAt(t, from)
  /\ f.store <=> (CharOf(t, b) = "JTS" /\ CharOf(t, b + 1) = ">")
  /\ f.comb = "OR" <=> CharOf(t, b) = "|"
  /\ f.comb = "AND" <=> CharOf(t, b) = "&"
  /\ f.comb = "CUSTOM" => CharOf(t, b) = "?" /\ \E k \in b .. j - 1 : CharOf(t, k) = ":"

MarksAre(t, f, b, j) == f.invert <=> Cardinality(OwnMarks(t, b, j)) % 2 = 1

\* Nothing from i up to j separates arguments or opens brackets.
Clean(t, i, j) == \A k \in i .. j - 1 : CharOf(t, k) \notin {"=", Comma, "?", "("}

\* The argument a lies from b up to j, and what it holds is an argument.
ArgOK(t, a, b, j) ==
  /\ b <= a[1] /\ a[2] < j
  /\ CharOf(t, a[1]) = "(" => CharOf(t, a[2]) = ")"
  /\ CharOf(t, a[1]) # "(" => \A i \in a[1] .. a[2] : CharOf(t, i) \notin {"=", Comma, "?"}

\* No digit next to the argument a is left out of it.
Alone(t, a, from) ==
  /\ (a[1] > from /\ a[1] <= a[2]) => CharOf(t, a[1] - 1) \notin Digits
  /\ CharOf(t, a[2] + 1) \notin Digits

ArgsOK(t, args, b, j) ==
  \A k \in 1 .. Len(args) :
    ArgOK(t, args[k], b, j) /\ (k > 1 => args[k - 1][2] < args[k][1])

ArgsAlone(t, args, from) == \A k \in 1 .. Len(args) : Alone(t, args[k], from)

\* Digits that are next to an argument of the command belong to it.
Apart(t, type, b) ==
  /\ type \notin {"PrintString", "QueryRPNEval"}
  /\ type = "Delay" => CharOf(t, b + 1) \in DelayUnits

\* The command c of the text from its prefix at from up to j.
CommandSays(t, c, from, j) ==
  LET b == BodyOf(c, from)
  IN /\ FlagsAre(t, c, from, b, j)
     /\ c.type # "PrintString" => MarksAre(t, c, b, j)
     /\ ArgsOK(t, c.args, b, j)
     /\ Apart(t, c.type, b) => ArgsAlone(t, c.args, from)

\* Before its first character a command has no flags but its prefix.
StartSays(t, s, m, p, l) ==
  /\ l.args = <<>> /\ ~l.invert /\ ~l.store /\ l.comb = "NONE"
  /\ p = BodyOf(l, l.start)
  /\ s = "RS_Start" => m = p
  /\ l.print => s = "RS_Start" /\ PrefixAt(t, l.start)

\* Inside of a command its flags are those of the text up to the present character.
FlagsSay(t, s, p, l) ==
  LET b == BodyOf(l, l.start)
  IN /\ b < p
     /\ FlagsAre(t, l, l.start, b, p)
     /\ s # "RS_PrintString" => MarksAre(t, l, b, p)
     /\ s = "RS_Query" => CharOf(t, b) \in {"?", "|", "&"} /\ Unbracketed(t, b, p)

\* States that read an argument from its first character on.
AtMark ==
  {"RS_RepeatEndValue", "RS_Delay", "RS_MoveMouse", "RS_JumpToIndex",
   "RS_QueryComparePixel", "RS_QueryCoordsVarValue", "RS_QueryCoordsWithin", "RS_EditVarValue",
   "RS_QueryButtonPress", "RS_WaitUntilButton", "RS_GrabButton", "RS_UngrabButton"}

\* Inside of a command the arguments read lie before the one being read.
ArgsSay(t, s, m, p, l) ==
  LET b == BodyOf(l, l.start)
  IN /\ b <= m
     /\ ArgsOK(t, l.args, b, IF s \in {"RS_PrintString", "RS_MouseClickType"} THEN p ELSE m)
     /\ s \notin {"RS_PrintString", "RS_MouseClickType"} => ArgsAlone(t, l.args, l.start)
     /\ (s # "RS_PrintString" /\ m > l.start) => CharOf(t, m - 1) \notin Digits
     /\ s \notin {"RS_PrintString", "RS_KeyState"} => Clean(t, m, p)

\* And of the states that read more than one argument, or one in an order of its own:
StateSays(t, s, m, p, l) ==
  LET b == BodyOf(l, l.start)
  IN /\ s \in AtMark => m = p
     /\ s = "RS_Keys" => m < p
     /\ s = "RS_KeyState" =>
          LET e == IF l.keystate THEN p - 2 ELSE p - 1
          IN /\ m < e /\ Clean(t, m, e) /\ CharOf(t, e) = "="
             /\ l.keystate => CharOf(t, p - 1) \in KeyStates
     /\ s = "RS_Delay" => m = b + 1
     /\ (s = "RS_DelayValue" /\ CharOf(t, b + 1) \in DelayUnits) => m = p
     /\ s = "RS_MouseClickType" =>
          \/ (l.args = <<>> /\ m = p)
          \/ (l.args = <<<<m, m>>>> /\ p = m + 1)
     /\ s = "RS_MouseClickState" =>
          IF l.keystate THEN p = m + 1 /\ CharOf(t, m) \in KeyStates ELSE p = m

InsideSays(t, s, m, p, l) == FlagsSay(t, s, p, l) /\ ArgsSay(t, s, m, p, l) /\ StateSays(t, s, m, p, l)

\* The commands that are whole, and the one being read.
Said ==
  (~parse_error /\ PrefixesStand) =>
    /\ \A n \in 1 .. Whole : CommandSays(text, cmds[n], cmds[n].from, cmds[n].to)
    /\ read_state \in Starting => StartSays(text, read_state, mark, at, loc)
    /\ read_state \notin Starting \union {"Between"} => InsideSays(text, read_state, mark, at, loc)
    /\ Adding => cmds[Len(cmds)] = Command("MouseClick", Append(loc.args, <<mark, mark>>))

-------------------------------------------------------------------------------
(* Symbols. *)

\* No mark is a digit or a part of a name, and the letters of keywords are no digits.
LEMMA SymbolKinds ==
  /\ \A c \in KeyChars : c \notin {"=", "?", "|", "&", "!", "(", ")", "+", Comma, Semicolon}
  /\ Buttons \subseteq Digits /\ Digits \subseteq KeyChars
  /\ \A c \in {"=", "?", "|", "&", "!", "(", ")", "+", Comma, Semicolon, ">", "<", ".", "m", "x", "y"} :
       c \notin Digits
  /\ \A c \in KeyStates \union DelayUnits \union VarTypes \union {"r"} : c \notin Digits
<1>1. \A c \in {"=", "?", "|", "&", "!", "(", ")", "+", Comma, Semicolon} :
        c \notin {"0", "1", "2", "3", "4", "5", "6", "7", "8", "9"}
  BY Zenon DEF Comma, Semicolon
<1>2. Digits \subseteq {"0", "1", "2", "3", "4", "5", "6", "7", "8", "9"} /\ Buttons \subseteq Digits
      /\ \A c \in Letters \union Words :
           c \notin {"=", "?", "|", "&", "!", "(", ")", "+", Comma, Semicolon}
  BY SymbolsAssumption
<1>3. \A c \in Digits : c \notin {"=", "?", "|", "&", "!", "(", ")", "+", Comma, Semicolon}
  BY <1>1, <1>2
<1>4. \A c \in KeyChars : c \notin {"=", "?", "|", "&", "!", "(", ")", "+", Comma, Semicolon}
  BY <1>2, <1>3 DEF KeyChars
<1>5. \A c \in {">", "<", ".", "m", "x", "y"} : c \notin Digits
  BY <1>2
<1>6. \A c \in KeyStates \union DelayUnits \union VarTypes \union {"r"} : c \notin Digits
  BY <1>2 DEF KeyStates, DelayUnits, VarTypes
<1>. QED  BY <1>2, <1>3, <1>4, <1>5, <1>6 DEF KeyChars

\* The two marks that have names are none of the others.
LEMMA NamedMarks ==
  /\ Semicolon # Comma
  /\ \A c \in {"=", "?", "|", "&", "!", "(", ")", "+", ">", "<", ".", "-", ":"} :
       c # Semicolon /\ c # Comma
  /\ \A c \in KeyStates \union VarTypes \union {"r"} : c # Semicolon /\ c # Comma
<1>1. Semicolon # Comma
  BY Zenon DEF Comma, Semicolon
<1>2. \A c \in {"=", "?", "|", "&", "!", "(", ")", "+", ">", "<", ".", "-", ":"} :
        c # Semicolon /\ c # Comma
  BY Zenon DEF Comma, Semicolon
<1>3. \A c \in KeyStates \union VarTypes \union {"r"} : c # Semicolon /\ c # Comma
  BY Zenon DEF Comma, Semicolon, KeyStates, VarTypes
<1>. QED  BY <1>1, <1>2, <1>3

-------------------------------------------------------------------------------
(* Marks, flags and arguments. *)

LEMMA MarksKept ==
  ASSUME NEW t, NEW i \in Int, NEW j \in Int, NEW m \in Int, j <= m, Quiet(t, i, j, m)
  PROVE  OwnMarks(t, i, m) = OwnMarks(t, i, j)
<1>1. \A k \in i .. m - 1 : k \in i .. j - 1 \/ k \in j .. m - 1
  OBVIOUS
<1>2. \A k \in i .. j - 1 : k \in i .. m - 1
  OBVIOUS
<1>. QED  BY <1>1, <1>2 DEF OwnMarks, Quiet

LEMMA MarksFinite ==
  ASSUME NEW t, NEW i \in Int, NEW j \in Int
  PROVE  IsFiniteSet(OwnMarks(t, i, j)) /\ Cardinality(OwnMarks(t, i, j)) \in Nat
<1>1. IsFiniteSet(i .. j - 1)
  BY FS_Interval
<1>2. OwnMarks(t, i, j) \subseteq i .. j - 1
  BY DEF OwnMarks
<1>. QED  BY <1>1, <1>2, FS_Subset, FS_CardinalityType

\* One more mark makes an even number of them odd, and an odd one even.
LEMMA MarkAdded ==
  ASSUME NEW t, NEW i \in Int, NEW j \in Int, i <= j, CharOf(t, j) = "!", Unbracketed(t, i, j)
  PROVE  Cardinality(OwnMarks(t, i, j + 1)) % 2 = 1 <=> ~(Cardinality(OwnMarks(t, i, j)) % 2 = 1)
<1>1. OwnMarks(t, i, j + 1) = OwnMarks(t, i, j) \union {j} /\ j \notin OwnMarks(t, i, j)
  <2>1. \A k : k \in i .. j + 1 - 1 <=> k \in i .. j - 1 \/ k = j
    OBVIOUS
  <2>. QED  BY <2>1 DEF OwnMarks
<1>2. /\ IsFiniteSet(OwnMarks(t, i, j)) /\ Cardinality(OwnMarks(t, i, j)) \in Nat
  BY MarksFinite
<1>3. Cardinality(OwnMarks(t, i, j + 1)) = Cardinality(OwnMarks(t, i, j)) + 1
  BY <1>1, <1>2, FS_AddElement
<1>4. \A n \in Nat : (n + 1) % 2 = 1 <=> ~(n % 2 = 1)
  OBVIOUS
<1>. QED  BY <1>2, <1>3, <1>4

LEMMA NoMarks ==
  ASSUME NEW t, NEW i \in Int, NEW j \in Int, Quiet(t, i, i, j)
  PROVE  Cardinality(OwnMarks(t, i, j)) % 2 # 1
<1>1. OwnMarks(t, i, j) = {}
  BY DEF OwnMarks, Quiet
<1>2. Cardinality({}) = 0
  BY FS_EmptySet
<1>3. 0 % 2 # 1
  OBVIOUS
<1>. QED  BY <1>1, <1>2, <1>3

\* No mark is passed where none stands, and none counts behind an opening bracket.
LEMMA QuietPlain ==
  ASSUME NEW t, NEW i \in Int, NEW j \in Int, NEW m \in Int,
         \A k \in j .. m - 1 : CharOf(t, k) # "!"
  PROVE  Quiet(t, i, j, m)
  BY DEF Quiet

LEMMA QuietOne ==
  ASSUME NEW t, NEW i \in Int, NEW j \in Int, CharOf(t, j) # "!"
  PROVE  Quiet(t, i, j, j + 1)
<1>1. \A k \in j .. j + 1 - 1 : k = j
  OBVIOUS
<1>. QED  BY <1>1 DEF Quiet

LEMMA QuietTwo ==
  ASSUME NEW t, NEW i \in Int, NEW j \in Int, CharOf(t, j) # "!", CharOf(t, j + 1) # "!"
  PROVE  Quiet(t, i, j, j + 2)
<1>1. \A k \in j .. j + 2 - 1 : k = j \/ k = j + 1
  OBVIOUS
<1>. QED  BY <1>1 DEF Quiet

LEMMA QuietBracket ==
  ASSUME NEW t, NEW i \in Int, NEW j \in Int, NEW m \in Int, i <= j, CharOf(t, j) = "("
  PROVE  Quiet(t, i, j, m)
<1> SUFFICES ASSUME NEW k \in j .. m - 1, CharOf(t, k) = "!" PROVE ~Unbracketed(t, i, k)
  BY DEF Quiet
<1>1. k # j
  OBVIOUS
<1>2. j \in i .. k - 1
  BY <1>1
<1>. QED  BY <1>2 DEF Unbracketed

LEMMA QuietEmpty ==
  ASSUME NEW t, NEW i \in Int, NEW j \in Int
  PROVE  Quiet(t, i, j, j)
  BY DEF Quiet

LEMMA QuietJoined ==
  ASSUME NEW t, NEW i \in Int, NEW j \in Int, NEW m \in Int, NEW n \in Int,
         Quiet(t, i, j, m), Quiet(t, i, m, n)
  PROVE  Quiet(t, i, j, n)
<1>1. \A k \in j .. n - 1 : k \in j .. m - 1 \/ k \in m .. n - 1
  OBVIOUS
<1>. QED  BY <1>1 DEF Quiet

\* f and g have the same flags.
SameFlags(f, g) ==
  f.print = g.print /\ f.invert = g.invert /\ f.store = g.store /\ f.comb = g.comb

LEMMA FlagsStay ==
  ASSUME NEW t, NEW f, NEW g, NEW from, NEW b \in Int, NEW j \in Int, NEW m \in Int, j <= m,
         SameFlags(f, g), FlagsAre(t, f, from, b, j)
  PROVE  FlagsAre(t, g, from, b, m)
<1>1. \A k \in b .. j - 1 : k \in b .. m - 1
  OBVIOUS
<1>. QED  BY <1>1 DEF FlagsAre, SameFlags

LEMMA MarksStay ==
  ASSUME NEW t, NEW f, NEW g, NEW b \in Int, NEW j \in Int, NEW m \in Int, j <= m,
         SameFlags(f, g), MarksAre(t, f, b, j), Quiet(t, b, j, m)
  PROVE  MarksAre(t, g, b, m)
  BY MarksKept DEF MarksAre, SameFlags

\* The call goes on behind what has no marks of its own.
LEMMA FlagsMove ==
  ASSUME NEW t, NEW s, NEW u, NEW p \in Int, NEW q \in Int, p <= q, NEW l \in Locals, NEW m \in Locals,
         SameFlags(l, m), m.start = l.start, FlagsSay(t, s, p, l), u # "RS_Query",
         u # "RS_PrintString" => s # "RS_PrintString" /\ Quiet(t, BodyOf(l, l.start), p, q)
  PROVE  FlagsSay(t, u, q, m)
<1> DEFINE b == BodyOf(l, l.start)
<1>1. b \in Int /\ BodyOf(m, m.start) = b
  BY DEF BodyOf, SameFlags, Locals
<1>2. b < p /\ FlagsAre(t, l, l.start, b, p) /\ (s # "RS_PrintString" => MarksAre(t, l, b, p))
  BY DEF FlagsSay
<1> HIDE DEF b
<1>3. b < q
  BY <1>1, <1>2
<1>4. FlagsAre(t, m, m.start, b, q)
  BY <1>1, <1>2, FlagsStay
<1>5. u # "RS_PrintString" => MarksAre(t, m, b, q)
  BY <1>1, <1>2, MarksStay DEF b
<1>. QED  BY <1>1, <1>3, <1>4, <1>5 DEF FlagsSay

\* Arguments that are whole stay so.
LEMMA ArgsLater ==
  ASSUME NEW t, NEW args \in Seq(Int \X Int), NEW b \in Int, NEW j \in Int, NEW m \in Int, j <= m,
         ArgsOK(t, args, b, j)
  PROVE  ArgsOK(t, args, b, m)
<1>1. \A k \in 1 .. Len(args) : args[k][2] \in Int
  OBVIOUS
<1>2. \A k \in 1 .. Len(args) : args[k][2] < j => args[k][2] < m
  BY <1>1
<1>. QED  BY <1>2 DEF ArgsOK, ArgOK

\* One more argument, behind the others.
LEMMA ArgsMore ==
  ASSUME NEW t, NEW args \in Seq(Int \X Int), NEW b \in Int, NEW j \in Int, NEW m \in Int, j <= m,
         ArgsOK(t, args, b, j), NEW a \in Int \X Int, ArgOK(t, a, b, m), j <= a[1]
  PROVE  ArgsOK(t, Append(args, a), b, m)
<1>1. /\ Len(args) \in Nat /\ Len(Append(args, a)) = Len(args) + 1
      /\ \A k \in 1 .. Len(args) : Append(args, a)[k] = args[k] /\ args[k] \in Int \X Int
      /\ Append(args, a)[Len(args) + 1] = a
  OBVIOUS
<1>2. ArgsOK(t, args, b, m)
  BY ArgsLater
<1>3. \A k \in 1 .. Len(args) : args[k][2] < a[1]
  <2> TAKE k \in 1 .. Len(args)
  <2>1. args[k][2] \in Int /\ a[1] \in Int
    BY <1>1
  <2>2. args[k][2] < j
    BY DEF ArgsOK, ArgOK
  <2>. QED  BY <2>1, <2>2
<1> DEFINE s == Append(args, a)
<1> HIDE DEF s
<1> SUFFICES ASSUME NEW k \in 1 .. Len(args) + 1
             PROVE  ArgOK(t, s[k], b, m) /\ (k > 1 => s[k - 1][2] < s[k][1])
  BY <1>1 DEF ArgsOK, s
<1>4. CASE k = Len(args) + 1
  <2>1. s[k] = a
    BY <1>1, <1>4 DEF s
  <2>2. k > 1 => s[k - 1] = args[k - 1] /\ k - 1 \in 1 .. Len(args)
    BY <1>1, <1>4 DEF s
  <2>. QED  BY <1>3, <2>1, <2>2
<1>5. CASE k # Len(args) + 1
  <2>1. k \in 1 .. Len(args) /\ s[k] = args[k]
    BY <1>1, <1>5 DEF s
  <2>2. k > 1 => s[k - 1] = args[k - 1]
    BY <1>1, <2>1 DEF s
  <2>. QED  BY <1>2, <2>1, <2>2 DEF ArgsOK
<1>. QED  BY <1>4, <1>5

LEMMA AloneMore ==
  ASSUME NEW t, NEW args \in Seq(Int \X Int), NEW from, ArgsAlone(t, args, from),
         NEW a \in Int \X Int, Alone(t, a, from)
  PROVE  ArgsAlone(t, Append(args, a), from)
<1>1. /\ Len(args) \in Nat /\ Len(Append(args, a)) = Len(args) + 1
      /\ \A k \in 1 .. Len(args) : Append(args, a)[k] = args[k]
      /\ Append(args, a)[Len(args) + 1] = a
  OBVIOUS
<1>2. \A k \in 1 .. Len(args) + 1 : k \in 1 .. Len(args) \/ k = Len(args) + 1
  BY <1>1
<1>. QED  BY <1>1, <1>2 DEF ArgsAlone

LEMMA NoArgs ==
  ASSUME NEW t, NEW b, NEW j, NEW from
  PROVE  ArgsOK(t, <<>>, b, j) /\ ArgsAlone(t, <<>>, from)
  BY DEF ArgsOK, ArgsAlone

LEMMA OneArg ==
  ASSUME NEW t, NEW b, NEW j, NEW a, ArgOK(t, a, b, j)
  PROVE  ArgsOK(t, <<a>>, b, j)
<1>1. Len(<<a>>) = 1 /\ <<a>>[1] = a
  OBVIOUS
<1>. QED  BY <1>1 DEF ArgsOK

LEMMA OneAlone ==
  ASSUME NEW t, NEW from, NEW a, Alone(t, a, from)
  PROVE  ArgsAlone(t, <<a>>, from)
<1>1. Len(<<a>>) = 1 /\ <<a>>[1] = a
  OBVIOUS
<1>. QED  BY <1>1 DEF ArgsAlone

\* The next argument is read behind characters that are no part of one.
LEMMA ArgsRead ==
  ASSUME NEW t, NEW u, NEW q \in Int, NEW l \in Locals, BodyOf(l, l.start) <= q,
         ArgsOK(t, l.args, BodyOf(l, l.start), q), ArgsAlone(t, l.args, l.start),
         CharOf(t, q - 1) \notin Digits
  PROVE  ArgsSay(t, u, q, q, l)
<1>1. Clean(t, q, q)
  BY DEF Clean
<1>. QED  BY <1>1 DEF ArgsSay

\* The argument being read goes on.
LEMMA ArgsStay ==
  ASSUME NEW t, NEW s, NEW u, NEW m \in Int, NEW p \in Int, NEW l \in Locals, NEW k \in Locals,
         k.args = l.args, SameFlags(l, k), k.start = l.start, ArgsSay(t, s, m, p, l),
         s \notin {"RS_PrintString", "RS_MouseClickType", "RS_KeyState"},
         u \notin {"RS_PrintString", "RS_MouseClickType"},
         u # "RS_KeyState" => CharOf(t, p) \notin {"=", Comma, "?", "("}
  PROVE  ArgsSay(t, u, m, p + 1, k)
<1>1. BodyOf(k, k.start) = BodyOf(l, l.start)
  BY DEF BodyOf, SameFlags
<1>2. u # "RS_KeyState" => Clean(t, m, p + 1)
  <2>1. \A i \in m .. p + 1 - 1 : i \in m .. p - 1 \/ i = p
    OBVIOUS
  <2>. QED  BY <2>1 DEF ArgsSay, Clean
<1>. QED  BY <1>1, <1>2 DEF ArgsSay

-------------------------------------------------------------------------------
(* What a turn of the loop does to what is said. *)

Faultless == ~parse_error /\ PrefixesStand

LEMMA SaidInside ==
  ASSUME Inv, Said, Faultless, read_state \notin Starting \union {"Between"}
  PROVE  /\ FlagsSay(text, read_state, at, loc) /\ ArgsSay(text, read_state, mark, at, loc)
         /\ StateSays(text, read_state, mark, at, loc)
         /\ BodyOf(loc, loc.start) \in Int /\ BodyOf(loc, loc.start) <= mark
         /\ BodyOf(loc, loc.start) < at
         /\ loc.start <= BodyOf(loc, loc.start)
<1>1. InsideSays(text, read_state, mark, at, loc)
  BY DEF Said, Faultless
<1>2. loc.start \in Nat
  BY Facts
<1>. QED  BY <1>1, <1>2 DEF InsideSays, FlagsSay, ArgsSay, BodyOf

\* A mistake was found: nothing is said of the commands any more.
LEMMA FailSaid ==
  ASSUME parse_error' = TRUE
  PROVE  Said'
  BY DEF Said

LEMMA ErrorSaid ==
  ASSUME Error
  PROVE  Said'
  BY FailSaid DEF Error

\* The call goes on to a state inside a command.
LEMMA MoveSaid ==
  ASSUME Inv, Said, text' = text, ~Adding, ~Adding',
         read_state' \notin Starting \union {"Between"}, UNCHANGED <<cmds, parse_error>>,
         Faultless => InsideSays(text, read_state', mark', at', loc')
  PROVE  Said'
<1>1. PrefixesStand' = PrefixesStand
  BY DEF PrefixesStand
<1>2. Whole' = Whole
  BY DEF Whole
<1>. QED  BY <1>1, <1>2 DEF Said, Faultless

\* States that read an argument character by character.
Collecting ==
  {"RS_RepeatStart", "RS_RepeatEnd", "RS_Keys", "RS_JumpTo", "RS_JumpFrom", "RS_QueryRPNEval",
   "RS_QueryKeyPress", "RS_InitVarName", "RS_InitVarValue", "RS_EditVarName", "RS_WaitUntilKey",
   "RS_GrabKey", "RS_UngrabKey", "RS_DebugValue"}

LEMMA StaySaid ==
  ASSUME Inv, Said, text' = text, Inside, read_state \in Collecting,
         Here \notin {"=", Comma, "?", "(", "!"}, Stay(read_state, loc)
  PROVE  Said'
<1>1. /\ at' = at + 1 /\ read_state' = read_state /\ loc' = loc
      /\ UNCHANGED <<mark, cmds, parse_error>>
  BY DEF Stay
<1>2. /\ ~Adding /\ ~Adding' /\ read_state \notin Starting \union {"Between"}
      /\ at \in Int /\ mark \in Int /\ loc \in Locals /\ text \in Texts
  BY <1>1, Facts DEF Inside, Adding, Collecting
<1>3. ASSUME Faultless PROVE InsideSays(text, read_state, mark, at + 1, loc)
  <2>1. /\ FlagsSay(text, read_state, at, loc) /\ ArgsSay(text, read_state, mark, at, loc)
        /\ StateSays(text, read_state, mark, at, loc) /\ BodyOf(loc, loc.start) \in Int
    BY <1>2, <1>3, SaidInside
  <2>2. CharOf(text, at) \notin {"=", Comma, "?", "(", "!"}
    BY <1>2, TextFacts DEF Here
  <2>3. Quiet(text, BodyOf(loc, loc.start), at, at + 1)
    BY <1>2, <2>1, <2>2, QuietOne
  <2>4. FlagsSay(text, read_state, at + 1, loc)
    <3>1. at <= at + 1 /\ at + 1 \in Int
      BY <1>2
    <3>2. read_state # "RS_Query" /\ read_state # "RS_PrintString"
      BY DEF Collecting
    <3>. QED  BY <1>2, <2>1, <2>3, <3>1, <3>2, FlagsMove DEF SameFlags
  <2>5. ArgsSay(text, read_state, mark, at + 1, loc)
    <3>1. read_state \notin {"RS_PrintString", "RS_MouseClickType", "RS_KeyState"}
      BY DEF Collecting
    <3>. QED  BY <1>2, <2>1, <2>2, <3>1, ArgsStay DEF SameFlags
  <2>6. StateSays(text, read_state, mark, at + 1, loc)
    BY <1>2, <2>1 DEF StateSays, Collecting, AtMark
  <2>. QED  BY <2>4, <2>5, <2>6 DEF InsideSays
<1>. QED  BY <1>1, <1>2, <1>3, MoveSaid

\* A state reads what comes before the next argument, and perhaps an argument.
LEMMA ReadSaid ==
  ASSUME Inv, Said, text' = text, Inside, read_state # "RS_PrintString",
         NEW n \in Nat, NEW l \in Locals, SameFlags(loc, l), l.start = loc.start, ~l.keystate,
         NEW state, state \notin Starting \union {"Between", "RS_Query", "RS_Keys", "RS_KeyState", "RS_Delay"},
         state = "RS_MouseClickType" => l.args = <<>>,
         Faultless =>
           /\ Quiet(text, BodyOf(loc, loc.start), at, at + n)
           /\ ArgsOK(text, l.args, BodyOf(loc, loc.start), at + n)
           /\ ArgsAlone(text, l.args, loc.start)
           /\ CharOf(text, at + n - 1) \notin Digits,
         Read(state, n, l)
  PROVE  Said'
<1>1. /\ at' = at + n /\ mark' = at + n /\ read_state' = state /\ loc' = l
      /\ UNCHANGED <<cmds, parse_error>>
  BY DEF Read
<1>2. /\ ~Adding /\ ~Adding' /\ read_state \notin Starting \union {"Between"}
      /\ at \in Int /\ at + n \in Int /\ at <= at + n /\ mark \in Int /\ loc \in Locals
      /\ text \in Texts /\ mark <= at
  BY <1>1, Facts, CallFacts DEF Inside, Adding
<1>3. ASSUME Faultless PROVE InsideSays(text, state, at + n, at + n, l)
  <2>1. /\ FlagsSay(text, read_state, at, loc) /\ BodyOf(loc, loc.start) \in Int
        /\ BodyOf(loc, loc.start) < at
    BY <1>2, <1>3, SaidInside
  <2>2. BodyOf(l, l.start) = BodyOf(loc, loc.start)
    BY DEF BodyOf, SameFlags
  <2>3. FlagsSay(text, state, at + n, l)
    BY <1>2, <1>3, <2>1, FlagsMove
  <2>4. ArgsSay(text, state, at + n, at + n, l)
    <3>1. BodyOf(l, l.start) <= at + n
      BY <1>2, <2>1, <2>2
    <3>. QED  BY <1>2, <1>3, <2>2, <3>1, ArgsRead
  <2>5. StateSays(text, state, at + n, at + n, l)
    BY DEF StateSays
  <2>. QED  BY <2>3, <2>4, <2>5 DEF InsideSays
<1>. QED  BY <1>1, <1>2, <1>3, MoveSaid

\* The part of the text is all that finishing a command changes of it.
LEMMA PutKeeps ==
  ASSUME NEW arr \in Seq(CommandRec), NEW n \in 1 .. Len(arr), NEW from \in Nat, NEW to \in Nat
  PROVE  LET c == Put(arr, n, from, to)[n]
         IN /\ SameFlags(arr[n], c) /\ c.type = arr[n].type /\ c.args = arr[n].args
            /\ c.from = from /\ c.to = to
<1> DEFINE r == arr[n]
           c == [[r EXCEPT !.from = from] EXCEPT !.to = to]
           cs == [arr EXCEPT ![n] = c]
<1>1. r \in CommandRec
  OBVIOUS
<1>2. Put(arr, n, from, to)[n] = c
  <2>1. Put(arr, n, from, to) = cs
    BY DEF Put
  <2> HIDE DEF c
  <2>. QED  BY <2>1
<1> HIDE DEF r
<1>3. /\ SameFlags(r, c) /\ c.type = r.type /\ c.args = r.args
      /\ c.from = from /\ c.to = to
  BY <1>1 DEF CommandRec, SameFlags
<1>. QED  BY <1>2, <1>3 DEF r

\* What is said of a command is said of one with the same flags and arguments.
LEMMA SaysSame ==
  ASSUME NEW t, NEW c, NEW d, NEW from, NEW j,
         SameFlags(c, d), c.type = d.type, c.args = d.args, CommandSays(t, c, from, j)
  PROVE  CommandSays(t, d, from, j)
  BY DEF CommandSays, FlagsAre, MarksAre, BodyOf, SameFlags

\* The call returns behind its command.
LEMMA FinishSaid ==
  ASSUME Inv, Said, text' = text, read_state # "Between",
         NEW arr \in Seq(CommandRec), NEW w \in Nat, w = Whole,
         Len(arr) = w + 1, \A n \in 1 .. w : arr[n] = cmds[n], NEW e \in Nat,
         Faultless => CommandSays(text, arr[w + 1], loc.start, e),
         Finish(arr, e)
  PROVE  Said'
<1> SUFFICES ASSUME ~parse_error', PrefixesStand'
             PROVE  /\ \A n \in 1 .. Whole' : CommandSays(text, cmds'[n], cmds'[n].from, cmds'[n].to)
                    /\ read_state' = "Between"
  BY DEF Said, Adding, Starting
<1>1. read_state' = "Between" /\ PrefixesStand /\ loc.start \in Nat /\ w + 1 \in 1 .. Len(arr)
  BY Facts DEF Finish, Return, PrefixesStand
<1>2. parse_error' = (parse_error \/ (/\ arr[Len(arr)].type = "InitVar"
                                      /\ Len(arr) > 1
                                      /\ arr[Len(arr) - 1].type # "InitVar"))
  BY Zenon DEF Finish
<1>3. ~parse_error /\ Faultless
  <2>1. parse_error \in BOOLEAN
    BY Facts
  <2>. QED  BY <1>1, <1>2, <2>1, Zenon DEF Faultless
<1>4. cmds' = Put(arr, Len(arr), loc.start, e)
  BY Zenon DEF Finish, Put
<1>5. cmds' = Put(arr, w + 1, loc.start, e)
  BY <1>4
<1>6. HasPart(cmds', arr, w + 1, loc.start, e)
  BY <1>1, <1>5, Placed
<1>7. Len(cmds') = w + 1 /\ \A n \in 1 .. w : cmds'[n] = cmds[n]
  <2>1. \A n \in 1 .. w : n \in 1 .. Len(arr) /\ n # w + 1
    OBVIOUS
  <2>. QED  BY <1>6, <2>1 DEF HasPart
<1>8. Whole' = w + 1
  BY <1>1, <1>7 DEF Whole, Adding
<1>9. CommandSays(text, cmds'[w + 1], cmds'[w + 1].from, cmds'[w + 1].to)
  <2> DEFINE c == cmds'[w + 1]
  <2>1. /\ SameFlags(arr[w + 1], c) /\ c.type = arr[w + 1].type /\ c.args = arr[w + 1].args
        /\ c.from = loc.start /\ c.to = e
    BY <1>1, <1>5, PutKeeps
  <2> HIDE DEF c
  <2>2. CommandSays(text, c, loc.start, e)
    BY <1>3, <2>1, SaysSame
  <2>. QED  BY <2>1, <2>2 DEF c
<1>10. \A n \in 1 .. w : CommandSays(text, cmds[n], cmds[n].from, cmds[n].to)
  BY <1>3 DEF Said, Faultless
<1>11. \A n \in 1 .. w + 1 : n \in 1 .. w \/ n = w + 1
  OBVIOUS
<1>. QED  BY <1>1, <1>7, <1>8, <1>9, <1>10, <1>11

\* A new command has the flags of the call, and the arguments it is given.
LEMMA CommandSame ==
  ASSUME NEW type, NEW args
  PROVE  /\ SameFlags(loc, Command(type, args))
         /\ Command(type, args).type = type /\ Command(type, args).args = args
  BY DEF Command, SameFlags

\* A command is added and the call returns behind it.
LEMMA EmitSaid ==
  ASSUME Inv, Said, text' = text, read_state \notin Starting \union {"Between"}, ~Adding,
         NEW type \in CommandTypes, NEW args \in Seq(Int \X Int), NEW e \in Nat, at <= e,
         type # "PrintString" => read_state # "RS_PrintString",
         Faultless =>
           /\ type # "PrintString" => Quiet(text, BodyOf(loc, loc.start), at, e)
           /\ ArgsOK(text, args, BodyOf(loc, loc.start), e)
           /\ Apart(text, type, BodyOf(loc, loc.start)) => ArgsAlone(text, args, loc.start),
         Finish(Append(cmds, Command(type, args)), e)
  PROVE  Said'
<1> DEFINE c == Command(type, args)
           arr == Append(cmds, c)
<1>1. cmds \in Seq(CommandRec) /\ Len(cmds) \in Nat /\ Whole = Len(cmds) /\ loc \in Locals
      /\ at \in Int /\ read_state # "Between"
  BY Facts DEF Whole
<1>2. c \in CommandRec
  BY <1>1, CommandTyped
<1>3. SameFlags(loc, c) /\ c.type = type /\ c.args = args
  BY CommandSame
<1>4. Finish(arr, e)
  OBVIOUS
<1> HIDE DEF c
<1>5. /\ arr \in Seq(CommandRec) /\ Len(arr) = Len(cmds) + 1 /\ arr[Len(cmds) + 1] = c
      /\ \A n \in 1 .. Len(cmds) : arr[n] = cmds[n]
  BY <1>1, <1>2
<1> HIDE DEF arr
<1>6. ASSUME Faultless PROVE CommandSays(text, c, loc.start, e)
  <2> DEFINE b == BodyOf(loc, loc.start)
  <2>1. FlagsSay(text, read_state, at, loc) /\ b \in Int
    BY <1>6, SaidInside
  <2>2. FlagsAre(text, loc, loc.start, b, at)
        /\ (read_state # "RS_PrintString" => MarksAre(text, loc, b, at))
    BY <2>1 DEF FlagsSay
  <2>3. BodyOf(c, loc.start) = b
    BY <1>3 DEF BodyOf, SameFlags
  <2>4. /\ type # "PrintString" => Quiet(text, b, at, e)
        /\ ArgsOK(text, args, b, e)
        /\ Apart(text, type, b) => ArgsAlone(text, args, loc.start)
    BY <1>6
  <2> HIDE DEF b
  <2>5. FlagsAre(text, c, loc.start, b, e)
    BY <1>1, <1>3, <2>1, <2>2, FlagsStay
  <2>6. type # "PrintString" => MarksAre(text, c, b, e)
    BY <1>1, <1>3, <2>1, <2>2, <2>4, MarksStay
  <2>. QED  BY <1>3, <2>3, <2>4, <2>5, <2>6 DEF CommandSays
<1>. QED  BY <1>1, <1>4, <1>5, <1>6, FinishSaid

\* The number that starts here is an argument up to its end.
LEMMA NumberArg ==
  ASSUME text \in Texts, at \in Nat, NEW first, first \subseteq Digits \union {"-"}, NEW stops,
         NEW term \in {Semicolon, Comma, "?"}, NEW b \in Int, b <= at,
         NumberEnd(first, stops, term) # None
  PROVE  LET e == NumberEnd(first, stops, term) IN
         /\ e \in at + 1 .. Len(text) - 1
         /\ Quiet(text, b, at, e + 1) /\ Quiet(text, b, at, e)
         /\ ArgOK(text, <<at, e - 1>>, b, e) /\ CharOf(text, e) = term
<1> DEFINE e == NumberEnd(first, stops, term)
<1>1. NUL \notin first /\ term # NUL
  <2>1. "?" # NUL
    BY Symbols
  <2>. QED  BY <2>1, Symbols, Marks
<1>2. e \in at + 1 .. Len(text) - 1 /\ Char(e) = term
  BY <1>1, NumberEndFacts
<1>3. e \in Int /\ at < e /\ Len(text) \in Nat /\ e - 1 \in Int /\ at \in Int
  BY <1>2, TextFacts
<1>4. \A i : Char(i) = CharOf(text, i)
  BY TextFacts
<1>5. term # "!"
  BY NamedMarks
<1>6. Quiet(text, b, at, e) /\ ArgOK(text, <<at, e - 1>>, b, e)
  <2>1. CASE Here \in first
    <3>1. at + 1 \in Nat /\ at + 1 <= Len(text)
      BY <1>2, <1>3
    <3>2. e = AfterDigits(at + 1)
      <4>1. e = IF Char(AfterDigits(at + 1)) = term THEN AfterDigits(at + 1) ELSE None
        BY <2>1 DEF NumberEnd
      <4> HIDE DEF e
      <4>. QED  BY <4>1 DEF e
    <3>3. \A k \in at + 1 .. e - 1 : Char(k) \in Digits
      BY <3>1, <3>2, AfterDigitsFacts
    <3>4. Char(at) \in Digits \union {"-"}
      BY <2>1 DEF Here
    <3>5. \A k \in at .. e - 1 : k = at \/ k \in at + 1 .. e - 1
      BY <1>3
    <3>6. \A k \in at .. e - 1 : CharOf(text, k) \in Digits \union {"-"}
      BY <1>4, <3>3, <3>4, <3>5
    <3>7. \A c \in Digits \union {"-"} : c \notin {"=", Comma, "?", "(", "!"}
      BY SymbolKinds, NamedMarks
    <3> HIDE DEF e
    <3>8. Quiet(text, b, at, e)
      BY <3>6, <3>7 DEF Quiet
    <3>9. CharOf(text, at) # "("
      BY <1>4, <3>4, <3>7
    <3>10. <<at, e - 1>>[1] = at /\ <<at, e - 1>>[2] = e - 1
      OBVIOUS
    <3>11. ArgOK(text, <<at, e - 1>>, b, e)
      BY <1>3, <3>6, <3>7, <3>9, <3>10 DEF ArgOK
    <3>. QED  BY <3>8, <3>11
  <2>2. CASE Here \notin first
    <3> DEFINE close == First(at + 1, stops \union {")"})
    <3>1. Here = "("
      BY <2>2 DEF NumberEnd
    <3>2. e = close + 1 /\ Char(close) = ")"
      BY <2>2, <3>1 DEF NumberEnd
    <3>3. close \in at + 1 .. Len(text)
      <4>1. at + 1 \in Nat /\ at + 1 <= Len(text)
        BY <1>2, <1>3
      <4>. QED  BY <4>1, FirstFacts
    <3> HIDE DEF e, close
    <3>4. e - 1 = close
      BY <1>3, <3>2, <3>3
    <3>5. CharOf(text, at) = "(" /\ CharOf(text, e - 1) = ")"
      BY <1>4, <3>1, <3>2, <3>4 DEF Here
    <3>6. Quiet(text, b, at, e)
      BY <1>3, <3>5, QuietBracket
    <3>7. <<at, e - 1>>[1] = at /\ <<at, e - 1>>[2] = e - 1
      OBVIOUS
    <3>8. ArgOK(text, <<at, e - 1>>, b, e)
      BY <1>3, <3>5, <3>7 DEF ArgOK
    <3>. QED  BY <3>6, <3>8
  <2>. QED  BY <2>1, <2>2
<1> HIDE DEF e
<1>7. Quiet(text, b, at, e + 1)
  <2>1. CharOf(text, e) # "!"
    BY <1>2, <1>4, <1>5
  <2>2. Quiet(text, b, e, e + 1)
    BY <1>3, <2>1, QuietOne
  <2>. QED  BY <1>3, <1>6, <2>2, QuietJoined
<1>. QED  BY <1>2, <1>4, <1>6, <1>7 DEF e

\* The arguments that a state has read before the one that starts at mark.
LEMMA SaidArgs ==
  ASSUME Inv, Said, Faultless, Inside,
         read_state \notin {"RS_PrintString", "RS_MouseClickType"}
  PROVE  /\ ArgsOK(text, loc.args, BodyOf(loc, loc.start), mark)
         /\ ArgsAlone(text, loc.args, loc.start)
         /\ mark > loc.start => CharOf(text, mark - 1) \notin Digits
         /\ BodyOf(loc, loc.start) \in Int /\ BodyOf(loc, loc.start) <= mark
         /\ mark <= at /\ mark \in Int /\ at \in Int
         /\ loc.args \in Seq(Int \X Int) /\ loc.start \in Nat
         /\ read_state \in AtMark => mark = at
<1>1. ArgsSay(text, read_state, mark, at, loc) /\ StateSays(text, read_state, mark, at, loc)
      /\ BodyOf(loc, loc.start) \in Int
  BY SaidInside DEF Inside
<1>2. mark <= at /\ mark \in Int /\ at \in Int /\ loc.args \in Seq(Int \X Int) /\ loc.start \in Nat
  BY Facts, CallFacts DEF Inside
<1>. QED  BY <1>1, <1>2 DEF ArgsSay, StateSays

\* A number is read and the command ends behind it.
LEMMA LastNumberSaid ==
  ASSUME Inv, Said, text' = text, Inside,
         read_state \notin {"RS_PrintString", "RS_MouseClickType", "RS_Query"},
         NEW type \in CommandTypes, type # "PrintString",
         NEW first, first \subseteq Digits \union {"-"}, NEW stops, NEW term \in {Semicolon, "?"},
         Faultless /\ Apart(text, type, BodyOf(loc, loc.start)) => mark = at,
         LastNumber(type, NumberEnd(first, stops, term))
  PROVE  Said'
<1> DEFINE e == NumberEnd(first, stops, term)
           a == <<at, e - 1>>
<1>1. CASE e = None
  <2>1. Error
    BY <1>1 DEF LastNumber
  <2>. QED  BY <2>1, ErrorSaid
<1>2. CASE e # None
  <2>1. Finish(Append(cmds, Command(type, Append(loc.args, a))), e)
    BY <1>2 DEF LastNumber, Emit
  <2>2. at \in Nat /\ text \in Texts /\ Len(text) \in Nat /\ term \in {Semicolon, Comma, "?"}
        /\ loc.args \in Seq(Int \X Int)
    BY Facts
  <2>3. NUL \notin first /\ term # NUL
    <3>1. "?" # NUL
      BY Symbols
    <3>. QED  BY <3>1, Symbols, Marks
  <2>4. e \in at + 1 .. Len(text) - 1
    BY <1>2, <2>2, <2>3, NumberEndFacts
  <2>5. e \in Nat /\ at <= e /\ a \in Int \X Int
    BY <2>2, <2>4
  <2>6. Append(loc.args, a) \in Seq(Int \X Int)
    BY <2>2, <2>5, Spans
  <2>7. ASSUME Faultless
        PROVE  /\ Quiet(text, BodyOf(loc, loc.start), at, e)
               /\ ArgsOK(text, Append(loc.args, a), BodyOf(loc, loc.start), e)
               /\ Apart(text, type, BodyOf(loc, loc.start)) =>
                    ArgsAlone(text, Append(loc.args, a), loc.start)
    <3> DEFINE b == BodyOf(loc, loc.start)
    <3>1. /\ ArgsOK(text, loc.args, b, mark) /\ ArgsAlone(text, loc.args, loc.start)
          /\ mark > loc.start => CharOf(text, mark - 1) \notin Digits
          /\ b \in Int /\ b <= mark /\ mark <= at /\ mark \in Int
      BY <2>7, SaidArgs
    <3> HIDE DEF b
    <3>2. b <= at
      BY <2>2, <3>1
    <3>3. Quiet(text, b, at, e) /\ ArgOK(text, a, b, e) /\ CharOf(text, e) = term
      BY <1>2, <2>2, <3>1, <3>2, NumberArg
    <3>4. CharOf(text, e) \notin Digits
      BY <3>3, SymbolKinds
    <3> HIDE DEF e
    <3>5. a[1] = at /\ a[2] = e - 1 /\ e - 1 + 1 = e /\ mark <= e
      BY <2>2, <2>5, <3>1
    <3> HIDE DEF a
    <3>6. ArgsOK(text, Append(loc.args, a), b, e)
      BY <2>2, <2>5, <3>1, <3>3, <3>5, ArgsMore
    <3>7. ASSUME Apart(text, type, b) PROVE ArgsAlone(text, Append(loc.args, a), loc.start)
      <4>1. mark = at
        BY <2>7, <3>7 DEF b
      <4>2. Alone(text, a, loc.start)
        BY <3>1, <3>4, <3>5, <4>1 DEF Alone
      <4>. QED  BY <2>2, <2>5, <3>1, <4>2, AloneMore
    <3>. QED  BY <3>3, <3>6, <3>7 DEF b
  <2> HIDE DEF e, a
  <2>8. read_state \notin Starting \union {"Between"} /\ ~Adding
    BY InsideFacts DEF Inside
  <2>. QED  BY <2>1, <2>5, <2>6, <2>7, <2>8, EmitSaid
<1>. QED  BY <1>1, <1>2

LEMMA NumberOfSaid ==
  ASSUME Inv, Said, text' = text, Inside, read_state \in AtMark, read_state # "RS_Delay",
         NEW type \in CommandTypes, type # "PrintString",
         NEW first, first \subseteq Digits \union {"-"},
         NEW n \in Nat, NEW term \in {Semicolon, "?"},
         NumberOf(read_state, type, first, n, term)
  PROVE  Said'
<1> DEFINE last == Len(loc.args) = n - 1
           e == NumberEnd(first, {Semicolon}, IF last THEN term ELSE Comma)
<1>0. read_state \notin {"RS_PrintString", "RS_MouseClickType", "RS_Query", "RS_Keys", "RS_KeyState",
                         "RS_Delay", "Between"}
      /\ (Faultless => mark = at)
  <2>1. read_state \notin {"RS_PrintString", "RS_MouseClickType", "RS_Query", "RS_Keys", "RS_KeyState",
                           "RS_Delay", "Between"}
    BY DEF AtMark
  <2>. QED  BY <2>1, SaidArgs
<1>1. CASE last
  <2>1. LastNumber(type, NumberEnd(first, {Semicolon}, term))
    BY <1>1 DEF NumberOf
  <2>. QED  BY <1>0, <2>1, LastNumberSaid
<1>2. CASE ~last /\ e = None
  <2>1. LastNumber(type, e)
    BY <1>2, Zenon DEF NumberOf
  <2> HIDE DEF e
  <2>2. Error
    BY <1>2, <2>1 DEF LastNumber
  <2>. QED  BY <2>2, ErrorSaid
<1>3. CASE ~last /\ e # None
  <2> DEFINE a == <<at, e - 1>>
             args == Append(loc.args, a)
             l == [loc EXCEPT !.args = args]
  <2>1. e = NumberEnd(first, {Semicolon}, Comma)
    BY <1>3
  <2>2. at \in Nat /\ text \in Texts /\ Len(text) \in Nat /\ loc.args \in Seq(Int \X Int)
        /\ loc \in Locals /\ NUL \notin first
    BY Facts, Symbols
  <2>3. e \in at + 1 .. Len(text) - 1
    BY <1>3, <2>1, <2>2, NumberEndFacts, Marks
  <2>4. Read(read_state, e - at + 1, l)
    BY <1>3 DEF NumberOf
  <2>5. ASSUME Faultless
        PROVE  /\ Quiet(text, BodyOf(loc, loc.start), at, e + 1)
               /\ ArgsOK(text, args, BodyOf(loc, loc.start), e + 1)
               /\ ArgsAlone(text, args, loc.start)
               /\ CharOf(text, e) \notin Digits
    <3> DEFINE b == BodyOf(loc, loc.start)
    <3>1. /\ ArgsOK(text, loc.args, b, at) /\ ArgsAlone(text, loc.args, loc.start)
          /\ at > loc.start => CharOf(text, at - 1) \notin Digits
          /\ b \in Int /\ b <= at
      BY <1>0, <2>5, SaidArgs
    <3> HIDE DEF b
    <3>2. Comma \in {Semicolon, Comma, "?"}
      OBVIOUS
    <3>3. Quiet(text, b, at, e + 1) /\ ArgOK(text, a, b, e) /\ CharOf(text, e) = Comma
      BY <1>3, <2>1, <2>2, <3>1, <3>2, NumberArg
    <3>4. CharOf(text, e) \notin Digits
      BY <3>3, SymbolKinds
    <3> HIDE DEF e
    <3>5. a[1] = at /\ a[2] = e - 1 /\ e - 1 + 1 = e /\ at <= e /\ e <= e + 1
          /\ a \in Int \X Int /\ e \in Int /\ e + 1 \in Int /\ at \in Int
      BY <2>2, <2>3
    <3>6. Alone(text, a, loc.start)
      BY <3>1, <3>4, <3>5 DEF Alone
    <3> HIDE DEF a
    <3>7. ArgsOK(text, args, b, e)
      BY <2>2, <3>1, <3>3, <3>5, ArgsMore
    <3>8. ArgsAlone(text, args, loc.start) /\ args \in Seq(Int \X Int)
      BY <2>2, <3>1, <3>5, <3>6, AloneMore, Spans
    <3> HIDE DEF args
    <3>9. ArgsOK(text, args, b, e + 1)
      BY <3>1, <3>5, <3>7, <3>8, ArgsLater
    <3>. QED  BY <3>3, <3>4, <3>8, <3>9 DEF b
  <2> HIDE DEF e
  <2>6. e - at + 1 \in Nat /\ at + (e - at + 1) = e + 1 /\ at + (e - at + 1) - 1 = e
        /\ a \in Int \X Int
    BY <2>2, <2>3
  <2> HIDE DEF a
  <2>7. args \in Seq(Int \X Int)
    BY <2>2, <2>6, Spans
  <2> HIDE DEF args
  <2>8. /\ l \in Locals /\ l.start = loc.start /\ l.keystate = loc.keystate
        /\ SameFlags(loc, l) /\ l.args = args
    BY <2>2, <2>7 DEF Locals, SameFlags
  <2> HIDE DEF l
  <2>9. read_state \notin Starting \union {"Between", "RS_Query", "RS_Keys", "RS_KeyState", "RS_Delay"}
        /\ ~l.keystate
    BY <1>0, <2>8 DEF Inside
  <2>. QED  BY <1>0, <2>4, <2>5, <2>6, <2>8, <2>9, ReadSaid
<1>. QED  BY <1>1, <1>2, <1>3

\* The argument that was collected up to here is whole.
LEMMA SpanSays ==
  ASSUME Inv, Said, Faultless, Inside, read_state \in Collecting, Here \notin Digits \union {"("}
  PROVE  /\ ArgOK(text, Span, BodyOf(loc, loc.start), at) /\ Alone(text, Span, loc.start)
         /\ Span \in Int \X Int /\ Span[1] = mark
<1> DEFINE b == BodyOf(loc, loc.start)
<1>1. /\ mark > loc.start => CharOf(text, mark - 1) \notin Digits
      /\ b \in Int /\ b <= mark /\ mark <= at /\ mark \in Int /\ at \in Int
  BY SaidArgs DEF Collecting
<1>2. Clean(text, mark, at)
  <2>1. ArgsSay(text, read_state, mark, at, loc)
    BY SaidInside DEF Inside
  <2>. QED  BY <2>1 DEF ArgsSay, Collecting
<1>3. CharOf(text, at) \notin Digits \union {"("}
  BY InsideFacts, TextFacts DEF Here
<1> HIDE DEF b
<1>4. /\ Span[1] = mark /\ Span[2] = at - 1 /\ at - 1 + 1 = at /\ at - 1 < at
      /\ Span \in Int \X Int
  BY <1>1 DEF Span
<1>5. CharOf(text, mark) # "("
  <2>1. CASE mark = at
    BY <1>3, <2>1
  <2>2. CASE mark # at
    <3>1. mark \in mark .. at - 1
      BY <1>1, <2>2
    <3>. QED  BY <1>2, <3>1 DEF Clean
  <2>. QED  BY <2>1, <2>2
<1>6. ArgOK(text, Span, b, at)
  BY <1>1, <1>2, <1>4, <1>5 DEF ArgOK, Clean
<1>7. Alone(text, Span, loc.start)
  BY <1>1, <1>3, <1>4 DEF Alone
<1>. QED  BY <1>4, <1>6, <1>7 DEF b

\* A command that ends with the argument that was collected.
LEMMA SpanSaid ==
  ASSUME Inv, Said, text' = text, Inside, read_state \in Collecting,
         Here \notin Digits \union {"("}, NEW type \in CommandTypes, type # "PrintString",
         NEW args \in {<<Span>>, Append(loc.args, Span)},
         Finish(Append(cmds, Command(type, args)), at)
  PROVE  Said'
<1>1. /\ read_state \notin Starting \union {"Between"} /\ ~Adding /\ at \in Nat /\ at <= at
      /\ mark \in Nat /\ loc.args \in Seq(Int \X Int) /\ read_state # "RS_PrintString"
  BY InsideFacts DEF Inside, Collecting
<1>2. args \in Seq(Int \X Int)
  BY <1>1, SpanTyped, Spans
<1>3. ASSUME Faultless
      PROVE  /\ Quiet(text, BodyOf(loc, loc.start), at, at)
             /\ ArgsOK(text, args, BodyOf(loc, loc.start), at)
             /\ ArgsAlone(text, args, loc.start)
  <2> DEFINE b == BodyOf(loc, loc.start)
  <2>1. /\ ArgsOK(text, loc.args, b, mark) /\ ArgsAlone(text, loc.args, loc.start)
        /\ b \in Int /\ mark <= at /\ mark \in Int /\ at \in Int
    BY <1>3, SaidArgs DEF Collecting
  <2>2. /\ ArgOK(text, Span, b, at) /\ Alone(text, Span, loc.start)
        /\ Span \in Int \X Int /\ Span[1] = mark
    BY <1>3, SpanSays
  <2> HIDE DEF b
  <2>3. Quiet(text, b, at, at)
    BY <2>1, QuietEmpty
  <2>4. CASE args = <<Span>>
    BY <2>2, <2>3, <2>4, OneArg, OneAlone DEF b
  <2>5. CASE args = Append(loc.args, Span)
    <3>1. mark <= Span[1]
      BY <2>1, <2>2
    <3>2. ArgsOK(text, Append(loc.args, Span), b, at)
      BY <1>1, <2>1, <2>2, <3>1, ArgsMore
    <3>3. ArgsAlone(text, Append(loc.args, Span), loc.start)
      BY <1>1, <2>1, <2>2, AloneMore
    <3>. QED  BY <2>3, <2>5, <3>2, <3>3 DEF b
  <2>. QED  BY <2>4, <2>5
<1>. QED  BY <1>1, <1>2, <1>3, EmitSaid

LEMMA EmitNamedSaid ==
  ASSUME Inv, Said, text' = text, Inside, read_state \in Collecting,
         NEW type \in CommandTypes, type # "PrintString", NEW field, NEW ok \in BOOLEAN,
         ok => Here = Semicolon, EmitNamed(type, field, ok)
  PROVE  Said'
<1>1. CASE ok
  <2>1. Finish(Append(cmds, Command(type, <<Span>>)), at)
    BY <1>1 DEF EmitNamed
  <2>2. Here \notin Digits \union {"("}
    BY <1>1, SymbolKinds, NamedMarks
  <2>. QED  BY <2>1, <2>2, SpanSaid
<1>2. CASE ~ok
  <2>1. Error
    BY <1>2 DEF EmitNamed
  <2>. QED  BY <2>1, ErrorSaid
<1>. QED  BY <1>1, <1>2

LEMMA KeyNameThenSaid ==
  ASSUME Inv, Said, text' = text, Inside, read_state \in Collecting,
         NEW type \in CommandTypes, type # "PrintString", NEW term \in {Semicolon, "?"},
         KeyNameThen(read_state, type, term)
  PROVE  Said'
<1>1. CASE Here \in KeyChars \union {"+"}
  <2>1. Stay(read_state, loc)
    BY <1>1 DEF KeyNameThen
  <2>2. Here \notin {"=", Comma, "?", "(", "!"}
    BY <1>1, SymbolKinds, NamedMarks
  <2>. QED  BY <2>1, <2>2, StaySaid
<1>2. CASE Here \notin KeyChars \union {"+"} /\ Here = term /\ KeyNameOK(mark, at - 1)
  <2>1. Finish(Append(cmds, Command(type, <<Span>>)), at)
    BY <1>2 DEF KeyNameThen, Emit
  <2>2. Here \notin Digits \union {"("}
    BY <1>2, SymbolKinds, NamedMarks
  <2>. QED  BY <2>1, <2>2, SpanSaid
<1>3. CASE Here \notin KeyChars \union {"+"} /\ ~(Here = term /\ KeyNameOK(mark, at - 1))
  <2>1. Error
    BY <1>3 DEF KeyNameThen
  <2>. QED  BY <2>1, ErrorSaid
<1>. QED  BY <1>1, <1>2, <1>3

LEMMA ButtonThenSaid ==
  ASSUME Inv, Said, text' = text, Inside, read_state \in AtMark, NEW type \in CommandTypes,
         type # "PrintString", NEW term \in {Semicolon, "?"}, ButtonThen(type, term)
  PROVE  Said'
<1>1. CASE Here \in Buttons /\ Char(at + 1) = term
  <2> DEFINE a == <<at, at>>
  <2>1. Finish(Append(cmds, Command(type, <<a>>)), at + 1)
    BY <1>1 DEF ButtonThen, Emit
  <2>2. /\ read_state \notin Starting \union {"Between"} /\ ~Adding /\ at \in Nat /\ at \in Int
        /\ at + 1 \in Nat /\ at <= at + 1 /\ read_state \notin {"RS_PrintString", "RS_MouseClickType"}
    BY InsideFacts DEF Inside, AtMark
  <2>3. a \in Int \X Int /\ <<a>> \in Seq(Int \X Int) /\ a[1] = at /\ a[2] = at
    BY <2>2, Spans
  <2>4. CharOf(text, at) \in Digits /\ CharOf(text, at + 1) \notin Digits
    <3>1. Char(at + 1) \notin Digits /\ Here \in Digits
      BY <1>1, SymbolKinds
    <3>. QED  BY <3>1, InsideFacts, TextFacts DEF Here
  <2>5. CharOf(text, at) \notin {"=", Comma, "?", "(", "!"}
    BY <2>4, SymbolKinds
  <2> HIDE DEF a
  <2>6. ASSUME Faultless
        PROVE  /\ Quiet(text, BodyOf(loc, loc.start), at, at + 1)
               /\ ArgsOK(text, <<a>>, BodyOf(loc, loc.start), at + 1)
               /\ ArgsAlone(text, <<a>>, loc.start)
    <3> DEFINE b == BodyOf(loc, loc.start)
    <3>1. /\ mark > loc.start => CharOf(text, mark - 1) \notin Digits
          /\ b \in Int /\ b <= mark /\ mark = at
      BY <2>2, <2>6, SaidArgs
    <3> HIDE DEF b
    <3>2. Quiet(text, b, at, at + 1)
      BY <2>2, <2>5, <3>1, QuietOne
    <3>3. ArgOK(text, a, b, at + 1)
      <4>1. \A i \in at .. at : i = at
        BY <2>2
      <4>. QED  BY <2>2, <2>3, <2>5, <3>1, <4>1 DEF ArgOK
    <3>4. Alone(text, a, loc.start)
      BY <2>3, <2>4, <3>1 DEF Alone
    <3>. QED  BY <3>2, <3>3, <3>4, OneArg, OneAlone DEF b
  <2>. QED  BY <2>1, <2>2, <2>3, <2>6, EmitSaid
<1>2. CASE ~(Here \in Buttons /\ Char(at + 1) = term)
  <2>1. Error
    BY <1>2 DEF ButtonThen
  <2>. QED  BY <2>1, ErrorSaid
<1>. QED  BY <1>1, <1>2

-------------------------------------------------------------------------------
(* The states that read a command, and what is said. *)

\* A state reads what comes before its first argument.
LEMMA ReadPlain ==
  ASSUME Inv, Said, text' = text, Inside,
         read_state \notin {"RS_PrintString", "RS_MouseClickType"},
         NEW n \in Nat, NEW l \in Locals, SameFlags(loc, l), l.start = loc.start, ~l.keystate,
         l.args = loc.args,
         NEW state, state \notin Starting \union {"Between", "RS_Query", "RS_Keys", "RS_KeyState",
                                                  "RS_Delay", "RS_MouseClickType"},
         Faultless =>
           /\ Quiet(text, BodyOf(loc, loc.start), at, at + n)
           /\ CharOf(text, at + n - 1) \notin Digits,
         Read(state, n, l)
  PROVE  Said'
<1>1. ASSUME Faultless
      PROVE  /\ ArgsOK(text, l.args, BodyOf(loc, loc.start), at + n)
             /\ ArgsAlone(text, l.args, loc.start)
  <2> DEFINE b == BodyOf(loc, loc.start)
  <2>1. /\ ArgsOK(text, loc.args, b, mark) /\ ArgsAlone(text, loc.args, loc.start)
        /\ b \in Int /\ mark <= at /\ mark \in Int /\ at \in Int /\ loc.args \in Seq(Int \X Int)
    BY <1>1, SaidArgs
  <2> HIDE DEF b
  <2>2. mark <= at + n /\ at + n \in Int
    BY <2>1
  <2>. QED  BY <2>1, <2>2, ArgsLater DEF b
<1>2. read_state # "RS_PrintString" /\ (state = "RS_MouseClickType" => l.args = <<>>)
      /\ state \notin Starting \union {"Between", "RS_Query", "RS_Keys", "RS_KeyState", "RS_Delay"}
  OBVIOUS
<1>. QED  BY <1>1, <1>2, ReadSaid

LEMMA NumbersSaid ==
  ASSUME Inv, Said, text' = text,
         \/ RS_RepeatEndValue \/ RS_DelayValue \/ RS_MoveMouse \/ RS_JumpToIndex
         \/ RS_QueryComparePixel \/ RS_QueryCoordsVarValue \/ RS_QueryCoordsWithin
         \/ RS_EditVarValue
  PROVE  Said'
<1>0. Semicolon \in {Semicolon, "?"} /\ "?" \in {Semicolon, "?"}
      /\ Digits \subseteq Digits \union {"-"} /\ {} \subseteq Digits \union {"-"}
      /\ 2 \in Nat /\ 4 \in Nat
  OBVIOUS
<1>a. ASSUME read_state \in AtMark, Inside PROVE Faultless => mark = at
  BY <1>a, SaidArgs DEF AtMark
<1>1. CASE RS_RepeatEndValue
  <2>1. Inside /\ LastNumber("RepeatEnd", NumberEnd(Digits, {Semicolon}, Semicolon))
        /\ read_state = "RS_RepeatEndValue"
    BY <1>1, InsideStates DEF RS_RepeatEndValue
  <2>2. Faultless => mark = at
    BY <1>a, <2>1 DEF AtMark
  <2>. QED  BY <1>0, <2>1, <2>2, Types, LastNumberSaid
<1>2. CASE RS_DelayValue
  <2>1. Inside /\ LastNumber("Delay", NumberEnd(Digits, {Semicolon}, Semicolon))
        /\ read_state = "RS_DelayValue"
    BY <1>2, InsideStates DEF RS_DelayValue
  <2>2. Faultless /\ Apart(text, "Delay", BodyOf(loc, loc.start)) => mark = at
    <3> SUFFICES ASSUME Faultless, Apart(text, "Delay", BodyOf(loc, loc.start)) PROVE mark = at
      OBVIOUS
    <3>1. StateSays(text, read_state, mark, at, loc)
      BY <2>1, SaidInside DEF Inside
    <3>. QED  BY <2>1, <3>1 DEF StateSays, Apart
  <2>. QED  BY <1>0, <2>1, <2>2, Types, LastNumberSaid
<1>3. CASE RS_MoveMouse
  <2>1. Inside /\ NumberOf(read_state, "MoveMouse", Digits \union {"-"}, 2, Semicolon)
        /\ read_state \in AtMark /\ read_state # "RS_Delay"
    BY <1>3, InsideStates DEF RS_MoveMouse, AtMark
  <2>. QED  BY <1>0, <2>1, Types, NumberOfSaid
<1>4. CASE RS_JumpToIndex
  <2>1. Inside /\ read_state = "RS_JumpToIndex"
        /\ LastNumber("JumpToIndex", NumberEnd(Digits \union {"-"}, {Semicolon}, Semicolon))
    BY <1>4, InsideStates DEF RS_JumpToIndex
  <2>2. Faultless => mark = at
    BY <1>a, <2>1 DEF AtMark
  <2>. QED  BY <1>0, <2>1, <2>2, Types, LastNumberSaid
<1>5. CASE RS_QueryComparePixel
  <2>1. Inside /\ NumberOf(read_state, "QueryComparePixel", Digits, 4, "?")
        /\ read_state \in AtMark /\ read_state # "RS_Delay"
    BY <1>5, InsideStates DEF RS_QueryComparePixel, AtMark
  <2>. QED  BY <1>0, <2>1, Types, NumberOfSaid
<1>6. CASE RS_QueryCoordsVarValue
  <2>1. Inside /\ LastNumber("QueryCompareCoords", NumberEnd(Digits, {"?"}, "?"))
        /\ read_state = "RS_QueryCoordsVarValue"
    BY <1>6, InsideStates DEF RS_QueryCoordsVarValue
  <2>2. Faultless => mark = at
    BY <1>a, <2>1 DEF AtMark
  <2>. QED  BY <1>0, <2>1, <2>2, Types, LastNumberSaid
<1>7. CASE RS_QueryCoordsWithin
  <2>1. Inside /\ NumberOf(read_state, "QueryCoordsWithin", Digits, 4, "?")
        /\ read_state \in AtMark /\ read_state # "RS_Delay"
    BY <1>7, InsideStates DEF RS_QueryCoordsWithin, AtMark
  <2>. QED  BY <1>0, <2>1, Types, NumberOfSaid
<1>8. CASE RS_EditVarValue
  <2>1. Inside /\ LastNumber("EditVar", NumberEnd({}, {Semicolon}, Semicolon))
        /\ read_state = "RS_EditVarValue"
    BY <1>8, InsideStates DEF RS_EditVarValue
  <2>2. Faultless => mark = at
    BY <1>a, <2>1 DEF AtMark
  <2>. QED  BY <1>0, <2>1, <2>2, Types, LastNumberSaid
<1>. QED  BY <1>1, <1>2, <1>3, <1>4, <1>5, <1>6, <1>7, <1>8

LEMMA InputsSaid ==
  ASSUME Inv, Said, text' = text,
         \/ RS_QueryKeyPress \/ RS_QueryButtonPress \/ RS_WaitUntilKey \/ RS_WaitUntilButton
         \/ RS_GrabKey \/ RS_UngrabKey \/ RS_GrabButton \/ RS_UngrabButton
  PROVE  Said'
<1>0. Semicolon \in {Semicolon, "?"} /\ "?" \in {Semicolon, "?"}
  OBVIOUS
<1>1. CASE RS_QueryKeyPress
  <2>1. Inside /\ KeyNameThen(read_state, "QueryKeyPress", "?") /\ read_state \in Collecting
    BY <1>1, InsideStates DEF RS_QueryKeyPress, Collecting
  <2>. QED  BY <1>0, <2>1, Types, KeyNameThenSaid
<1>2. CASE RS_QueryButtonPress
  <2>1. Inside /\ ButtonThen("QueryButtonPress", "?") /\ read_state \in AtMark
    BY <1>2, InsideStates DEF RS_QueryButtonPress, AtMark
  <2>. QED  BY <1>0, <2>1, Types, ButtonThenSaid
<1>3. CASE RS_WaitUntilKey
  <2>1. Inside /\ KeyNameThen(read_state, "WaitUntilKey", Semicolon) /\ read_state \in Collecting
    BY <1>3, InsideStates DEF RS_WaitUntilKey, Collecting
  <2>. QED  BY <1>0, <2>1, Types, KeyNameThenSaid
<1>4. CASE RS_WaitUntilButton
  <2>1. Inside /\ ButtonThen("WaitUntilButton", Semicolon) /\ read_state \in AtMark
    BY <1>4, InsideStates DEF RS_WaitUntilButton, AtMark
  <2>. QED  BY <1>0, <2>1, Types, ButtonThenSaid
<1>5. CASE RS_GrabKey
  <2>1. Inside /\ KeyNameThen(read_state, "GrabKey", Semicolon) /\ read_state \in Collecting
    BY <1>5, InsideStates DEF RS_GrabKey, Collecting
  <2>. QED  BY <1>0, <2>1, Types, KeyNameThenSaid
<1>6. CASE RS_UngrabKey
  <2>1. Inside /\ KeyNameThen(read_state, "UngrabKey", Semicolon) /\ read_state \in Collecting
    BY <1>6, InsideStates DEF RS_UngrabKey, Collecting
  <2>. QED  BY <1>0, <2>1, Types, KeyNameThenSaid
<1>7. CASE RS_GrabButton
  <2>1. Inside /\ ButtonThen("GrabButton", Semicolon) /\ read_state \in AtMark
    BY <1>7, InsideStates DEF RS_GrabButton, AtMark
  <2>. QED  BY <1>0, <2>1, Types, ButtonThenSaid
<1>8. CASE RS_UngrabButton
  <2>1. Inside /\ ButtonThen("UngrabButton", Semicolon) /\ read_state \in AtMark
    BY <1>8, InsideStates DEF RS_UngrabButton, AtMark
  <2>. QED  BY <1>0, <2>1, Types, ButtonThenSaid
<1>. QED  BY <1>1, <1>2, <1>3, <1>4, <1>5, <1>6, <1>7, <1>8

\* A name is followed by its value.
LEMMA NameSaid ==
  ASSUME Inv, Said, text' = text, Inside, read_state \in Collecting, Here = "=",
         NEW state \in {"RS_RepeatEndValue", "RS_InitVarValue", "RS_EditVarValue"},
         Read(state, 1, [loc EXCEPT !.args = <<Span>>])
  PROVE  Said'
<1> DEFINE args == <<Span>>
           l == [loc EXCEPT !.args = args]
<1>1. Read(state, 1, l) /\ args \in Seq(Int \X Int) /\ at \in Int /\ at + 1 \in Int /\ at <= at + 1
      /\ at + 1 - 1 = at
  BY InsideFacts, SpanTyped
<1>2. Here \notin Digits \union {"(", "!"}
  BY SymbolKinds
<1>3. CharOf(text, at) \notin Digits \union {"(", "!"}
  BY <1>2, InsideFacts, TextFacts DEF Here
<1>4. ASSUME Faultless
      PROVE  /\ Quiet(text, BodyOf(loc, loc.start), at, at + 1)
             /\ ArgsOK(text, args, BodyOf(loc, loc.start), at + 1)
             /\ ArgsAlone(text, args, loc.start)
  <2> DEFINE b == BodyOf(loc, loc.start)
  <2>1. ArgOK(text, Span, b, at) /\ Alone(text, Span, loc.start)
    BY <1>2, <1>4, SpanSays
  <2>2. b \in Int
    BY <1>4, SaidArgs DEF Collecting
  <2> HIDE DEF b
  <2>3. Quiet(text, b, at, at + 1)
    BY <1>1, <1>3, <2>2, QuietOne
  <2>4. ArgsOK(text, args, b, at) /\ ArgsAlone(text, args, loc.start)
    BY <2>1, OneArg, OneAlone
  <2> HIDE DEF args
  <2>5. ArgsOK(text, args, b, at + 1)
    BY <1>1, <2>2, <2>4, ArgsLater
  <2>. QED  BY <2>3, <2>4, <2>5 DEF b
<1> HIDE DEF args
<1>5. /\ l \in Locals /\ l.start = loc.start /\ l.keystate = loc.keystate
      /\ SameFlags(loc, l) /\ l.args = args
  BY <1>1, Facts DEF Locals, SameFlags
<1> HIDE DEF l
<1>6. /\ state \notin Starting \union {"Between", "RS_Query", "RS_Keys", "RS_KeyState", "RS_Delay"}
      /\ state # "RS_MouseClickType" /\ read_state # "RS_PrintString" /\ ~l.keystate /\ 1 \in Nat
  BY <1>5 DEF Starting, Inside, Collecting
<1>. QED  BY <1>1, <1>3, <1>4, <1>5, <1>6, ReadSaid

LEMMA RS_RepeatStartSaid ==
  ASSUME Inv, Said, text' = text, RS_RepeatStart
  PROVE  Said'
<1>1. Inside /\ read_state \in Collecting
  BY InsideStates DEF RS_RepeatStart, Collecting
<1>2. CASE Here \in KeyChars
  <2>1. Stay(read_state, loc) /\ Here \notin {"=", Comma, "?", "(", "!"}
    BY <1>2, SymbolKinds DEF RS_RepeatStart
  <2>. QED  BY <1>1, <2>1, StaySaid
<1>3. CASE Here \notin KeyChars
  <2> DEFINE ok == Here = Semicolon
  <2>1. EmitNamed("RepeatStart", "repeats", ok)
    BY <1>3, Zenon DEF RS_RepeatStart
  <2>2. ok \in BOOLEAN /\ (ok => Here = Semicolon)
    OBVIOUS
  <2> HIDE DEF ok
  <2>. QED  BY <1>1, <2>1, <2>2, Types, EmitNamedSaid
<1>. QED  BY <1>2, <1>3

LEMMA RS_JumpFromSaid ==
  ASSUME Inv, Said, text' = text, RS_JumpFrom
  PROVE  Said'
<1>1. Inside /\ read_state \in Collecting
  BY InsideStates DEF RS_JumpFrom, Collecting
<1>2. CASE Here \in KeyChars
  <2>1. Stay(read_state, loc) /\ Here \notin {"=", Comma, "?", "(", "!"}
    BY <1>2, SymbolKinds DEF RS_JumpFrom
  <2>. QED  BY <1>1, <2>1, StaySaid
<1>3. CASE Here \notin KeyChars
  <2> DEFINE ok == Here = Semicolon /\ Argument \notin names.jumps
  <2>1. EmitNamed("JumpFrom", "jumps", ok)
    BY <1>3, Zenon DEF RS_JumpFrom
  <2>2. ok \in BOOLEAN /\ (ok => Here = Semicolon)
    OBVIOUS
  <2> HIDE DEF ok
  <2>. QED  BY <1>1, <2>1, <2>2, Types, EmitNamedSaid
<1>. QED  BY <1>2, <1>3

LEMMA RS_JumpToSaid ==
  ASSUME Inv, Said, text' = text, RS_JumpTo
  PROVE  Said'
<1>1. Inside /\ read_state \in Collecting
  BY InsideStates DEF RS_JumpTo, Collecting
<1>2. CASE Here \in KeyChars
  <2>1. Stay(read_state, loc) /\ Here \notin {"=", Comma, "?", "(", "!"}
    BY <1>2, SymbolKinds DEF RS_JumpTo
  <2>. QED  BY <1>1, <2>1, StaySaid
<1>3. CASE Here \notin KeyChars /\ Here = Semicolon
  <2>1. Finish(Append(cmds, Command("JumpTo", <<Span>>)), at)
    BY <1>3 DEF RS_JumpTo, Emit
  <2>2. Here \notin Digits \union {"("}
    BY <1>3, SymbolKinds, NamedMarks
  <2>. QED  BY <1>1, <2>1, <2>2, Types, SpanSaid
<1>4. CASE Here \notin KeyChars /\ Here # Semicolon
  <2>1. Error
    BY <1>4 DEF RS_JumpTo
  <2>. QED  BY <2>1, ErrorSaid
<1>. QED  BY <1>2, <1>3, <1>4

LEMMA RS_RepeatEndSaid ==
  ASSUME Inv, Said, text' = text, RS_RepeatEnd
  PROVE  Said'
<1>1. Inside /\ read_state \in Collecting
  BY InsideStates DEF RS_RepeatEnd, Collecting
<1>2. CASE Here \in KeyChars
  <2>1. Stay(read_state, loc) /\ Here \notin {"=", Comma, "?", "(", "!"}
    BY <1>2, SymbolKinds DEF RS_RepeatEnd
  <2>. QED  BY <1>1, <2>1, StaySaid
<1> DEFINE unknown == Here \in {"=", Semicolon} /\ Argument \notin names.repeats
<1>3. CASE Here \notin KeyChars /\ unknown
  <2>1. parse_error' = TRUE
    BY <1>3 DEF RS_RepeatEnd
  <2>. QED  BY <2>1, FailSaid
<1>4. CASE Here \notin KeyChars /\ ~unknown /\ Here = "="
  <2>1. Read("RS_RepeatEndValue", 1, [loc EXCEPT !.args = <<Span>>])
    BY <1>4 DEF RS_RepeatEnd
  <2>. QED  BY <1>1, <1>4, <2>1, NameSaid
<1>5. CASE Here \notin KeyChars /\ ~unknown /\ Here # "=" /\ Here = Semicolon
  <2>1. Finish(Append(cmds, Command("RepeatEnd", <<Span>>)), at)
    BY <1>5 DEF RS_RepeatEnd, Emit
  <2>2. Here \notin Digits \union {"("}
    BY <1>5, SymbolKinds, NamedMarks
  <2>. QED  BY <1>1, <2>1, <2>2, Types, SpanSaid
<1>6. CASE Here \notin KeyChars /\ ~unknown /\ Here # "=" /\ Here # Semicolon
  <2>1. Error
    BY <1>6 DEF RS_RepeatEnd
  <2>. QED  BY <2>1, ErrorSaid
<1>. QED  BY <1>2, <1>3, <1>4, <1>5, <1>6

LEMMA RS_KeysSaid ==
  ASSUME Inv, Said, text' = text, RS_Keys
  PROVE  Said'
<1>1. Inside /\ read_state = "RS_Keys" /\ read_state \in Collecting
  BY InsideStates DEF RS_Keys, Collecting
<1>2. CASE Here \in KeyChars \union {"+"}
  <2>1. Stay(read_state, loc) /\ Here \notin {"=", Comma, "?", "(", "!"}
    BY <1>2, SymbolKinds, NamedMarks DEF RS_Keys
  <2>. QED  BY <1>1, <2>1, StaySaid
<1>3. CASE Here \notin KeyChars \union {"+"} /\ Here = "="
  <2> DEFINE l == [loc EXCEPT !.keystate = FALSE]
  <2>1. /\ at' = at + 1 /\ read_state' = "RS_KeyState" /\ loc' = l
        /\ UNCHANGED <<mark, cmds, parse_error>>
    BY <1>3 DEF RS_Keys, Stay
  <2>2. /\ l \in Locals /\ l.start = loc.start /\ l.keystate = FALSE
        /\ SameFlags(loc, l) /\ l.args = loc.args
    BY Facts DEF Locals, SameFlags
  <2> HIDE DEF l
  <2>3. CharOf(text, at) = "="
    BY <1>1, <1>3, InsideFacts, TextFacts DEF Here
  <2>4. /\ ~Adding /\ ~Adding' /\ read_state' \notin Starting \union {"Between"}
        /\ at \in Int /\ at + 1 \in Int /\ at <= at + 1 /\ at + 1 - 1 = at /\ mark \in Int
        /\ loc \in Locals
    BY <1>1, <2>1, Facts, InsideFacts DEF Starting, Adding
  <2>5. ASSUME Faultless PROVE InsideSays(text, "RS_KeyState", mark, at + 1, l)
    <3>1. /\ FlagsSay(text, read_state, at, loc) /\ ArgsSay(text, read_state, mark, at, loc)
          /\ StateSays(text, read_state, mark, at, loc) /\ BodyOf(loc, loc.start) \in Int
      BY <1>1, <2>5, SaidInside DEF Inside
    <3>2. Quiet(text, BodyOf(loc, loc.start), at, at + 1)
      BY <2>3, <2>4, <3>1, QuietOne
    <3>3. FlagsSay(text, "RS_KeyState", at + 1, l)
      BY <1>1, <2>2, <2>4, <3>1, <3>2, FlagsMove
    <3>4. ArgsSay(text, "RS_KeyState", mark, at + 1, l)
      BY <1>1, <2>2, <2>4, <3>1, ArgsStay
    <3>5. mark < at /\ Clean(text, mark, at)
      BY <1>1, <3>1 DEF StateSays, ArgsSay
    <3>6. StateSays(text, "RS_KeyState", mark, at + 1, l)
      BY <2>2, <2>3, <2>4, <3>5 DEF StateSays, AtMark
    <3>. QED  BY <3>3, <3>4, <3>6 DEF InsideSays
  <2>. QED  BY <2>1, <2>4, <2>5, MoveSaid
<1>4. CASE Here \notin KeyChars \union {"+"} /\ Here # "="
  <2>1. Error
    BY <1>4 DEF RS_Keys
  <2>. QED  BY <2>1, ErrorSaid
<1>. QED  BY <1>2, <1>3, <1>4

\* The key state is one symbol, and none that separates arguments.
LEMMA KeyStateSymbols ==
  \A c \in KeyStates : c \notin Digits \union {"=", Comma, "?", "(", "!"}
<1>1. \A c \in KeyStates : c \notin {"=", "?", "(", "!"}
  BY DEF KeyStates
<1>. QED  BY <1>1, SymbolKinds, NamedMarks

LEMMA RS_KeyStateSaid ==
  ASSUME Inv, Said, text' = text, RS_KeyState
  PROVE  Said'
<1>1. /\ read_state = "RS_KeyState" /\ read_state \notin Starting \union {"Between"} /\ ~Adding
      /\ at \in Nat /\ at \in Int /\ mark \in Int /\ loc \in Locals /\ text \in Texts
      /\ CharOf(text, at) = Here
  BY Facts, TextFacts DEF RS_KeyState, Starting, Adding, Here
<1>a. ASSUME Faultless
      PROVE  /\ FlagsSay(text, read_state, at, loc) /\ ArgsSay(text, read_state, mark, at, loc)
             /\ StateSays(text, read_state, mark, at, loc)
             /\ BodyOf(loc, loc.start) \in Int /\ BodyOf(loc, loc.start) <= mark
  BY <1>1, <1>a, SaidInside
<1>3. CASE Here \in KeyStates /\ ~loc.keystate
  <2> DEFINE l == [loc EXCEPT !.keystate = TRUE]
  <2>1. /\ at' = at + 1 /\ read_state' = "RS_KeyState" /\ loc' = l
        /\ UNCHANGED <<mark, cmds, parse_error>>
    BY <1>1, <1>3 DEF RS_KeyState, Stay
  <2>2. /\ l \in Locals /\ l.start = loc.start /\ l.keystate = TRUE
        /\ SameFlags(loc, l) /\ l.args = loc.args
    BY Facts DEF Locals, SameFlags
  <2> HIDE DEF l
  <2>3. /\ ~Adding' /\ read_state' \notin Starting \union {"Between"}
        /\ at + 1 \in Int /\ at <= at + 1 /\ at + 1 - 1 = at /\ at + 1 - 2 = at - 1
    BY <1>1, <2>1 DEF Starting, Adding
  <2>4. ASSUME Faultless PROVE InsideSays(text, "RS_KeyState", mark, at + 1, l)
    <3>2. CharOf(text, at) # "!"
      BY <1>1, <1>3, KeyStateSymbols
    <3>3. Quiet(text, BodyOf(loc, loc.start), at, at + 1)
      BY <1>1, <1>a, <2>4, <3>2, QuietOne
    <3>4. FlagsSay(text, "RS_KeyState", at + 1, l)
      BY <1>1, <1>a, <2>2, <2>3, <2>4, <3>3, FlagsMove
    <3>5. ArgsSay(text, "RS_KeyState", mark, at + 1, l)
      <4>1. BodyOf(l, l.start) = BodyOf(loc, loc.start)
        BY <2>2 DEF BodyOf, SameFlags
      <4>. QED  BY <1>1, <1>a, <2>2, <2>4, <4>1 DEF ArgsSay
    <3>6. mark < at - 1 /\ Clean(text, mark, at - 1) /\ CharOf(text, at - 1) = "="
      BY <1>1, <1>3, <1>a, <2>4 DEF StateSays
    <3>7. StateSays(text, "RS_KeyState", mark, at + 1, l)
      BY <1>1, <1>3, <2>2, <2>3, <3>6 DEF StateSays, AtMark
    <3>. QED  BY <3>4, <3>5, <3>7 DEF InsideSays
  <2>. QED  BY <1>1, <2>1, <2>3, <2>4, MoveSaid
<1>4. CASE Here = Semicolon /\ loc.keystate /\ ~(Here \in KeyStates /\ ~loc.keystate)
  <2> DEFINE a == <<mark, at - 3>>
             c == <<at - 1, at - 1>>
             args == <<a, c>>
  <2>1. Finish(Append(cmds, Command("KeyStroke", args)), at)
    BY <1>4 DEF RS_KeyState, Emit
  <2>2. args \in Seq(Int \X Int) /\ a \in Int \X Int /\ c \in Int \X Int /\ at <= at
    <3>1. mark \in Int /\ at - 3 \in Int /\ at - 1 \in Int
      BY <1>1
    <3>. QED  BY <1>1, <3>1, Spans
  <2>3. /\ a[1] = mark /\ a[2] = at - 3 /\ at - 3 + 1 = at - 2 /\ at - 3 < at /\ at - 3 = at - 2 - 1
        /\ c[1] = at - 1 /\ c[2] = at - 1 /\ at - 1 + 1 = at /\ at - 1 < at /\ at - 1 - 1 = at - 2
        /\ at - 3 < at - 1
        /\ Len(args) = 2 /\ args[1] = a /\ args[2] = c
    BY <1>1
  <2> HIDE DEF a, c
  <2>4. \A k \in 1 .. Len(args) : k = 1 \/ k = 2
    BY <2>3
  <2> HIDE DEF args
  <2>5. ASSUME Faultless
        PROVE  /\ Quiet(text, BodyOf(loc, loc.start), at, at)
               /\ ArgsOK(text, args, BodyOf(loc, loc.start), at)
               /\ ArgsAlone(text, args, loc.start)
    <3> DEFINE b == BodyOf(loc, loc.start)
    <3>1. /\ mark < at - 2 /\ Clean(text, mark, at - 2) /\ CharOf(text, at - 2) = "="
          /\ CharOf(text, at - 1) \in KeyStates
      BY <1>1, <1>4, <1>a, <2>5 DEF StateSays
    <3>2. /\ b \in Int /\ b <= mark
          /\ mark > loc.start => CharOf(text, mark - 1) \notin Digits
      BY <1>1, <1>a, <2>5 DEF ArgsSay
    <3> HIDE DEF b
    <3>3. /\ CharOf(text, at - 1) \notin Digits \union {"=", Comma, "?", "("}
          /\ CharOf(text, at - 2) \notin Digits
          /\ CharOf(text, at) \notin Digits
      BY <1>1, <1>4, <3>1, KeyStateSymbols, SymbolKinds
    <3>4. mark \in mark .. at - 2 - 1 /\ b <= at - 1
      BY <1>1, <3>1, <3>2
    <3>5. CharOf(text, mark) # "("
      BY <3>1, <3>4 DEF Clean
    <3>6. ArgOK(text, a, b, at) /\ Alone(text, a, loc.start)
      <4>1. ArgOK(text, a, b, at)
        BY <2>3, <3>1, <3>2, <3>5 DEF ArgOK, Clean
      <4>2. Alone(text, a, loc.start)
        BY <2>3, <3>2, <3>3 DEF Alone
      <4>. QED  BY <4>1, <4>2
    <3>7. ArgOK(text, c, b, at) /\ Alone(text, c, loc.start)
      <4>1. \A i \in at - 1 .. at - 1 : i = at - 1
        BY <1>1
      <4>2. ArgOK(text, c, b, at)
        BY <2>3, <3>3, <3>4, <4>1 DEF ArgOK
      <4>3. Alone(text, c, loc.start)
        BY <2>3, <3>3 DEF Alone
      <4>. QED  BY <4>2, <4>3
    <3>8. ArgsOK(text, args, b, at)
      <4>1. ~(1 > 1) /\ 2 - 1 = 1
        OBVIOUS
      <4>. QED  BY <2>3, <2>4, <3>6, <3>7, <4>1 DEF ArgsOK
    <3>9. ArgsAlone(text, args, loc.start)
      BY <2>3, <2>4, <3>6, <3>7 DEF ArgsAlone
    <3>. QED  BY <1>1, <3>2, <3>8, <3>9, QuietEmpty DEF b
  <2>. QED  BY <1>1, <2>1, <2>2, <2>5, Types, EmitSaid
<1>5. CASE ~(Here = Semicolon /\ loc.keystate) /\ ~(Here \in KeyStates /\ ~loc.keystate)
  <2>1. Error
    BY <1>5 DEF RS_KeyState
  <2>. QED  BY <2>1, ErrorSaid
<1>. QED  BY <1>3, <1>4, <1>5

LEMMA RS_DelaySaid ==
  ASSUME Inv, Said, text' = text, RS_Delay
  PROVE  Said'
<1>1. Inside /\ read_state = "RS_Delay"
  BY InsideStates DEF RS_Delay
<1>2. /\ at \in Int /\ at + 1 \in Int /\ at <= at + 1 /\ at + 1 - 1 = at /\ mark \in Int
      /\ loc \in Locals /\ ~loc.keystate /\ ~Adding /\ CharOf(text, at) = Here
      /\ SameFlags(loc, loc) /\ 1 \in Nat
  BY <1>1, Facts, InsideFacts, TextFacts DEF Inside, Here, SameFlags
<1>3. \/ Here \in DelayUnits /\ Read("RS_DelayValue", 1, loc)
      \/ Here \in Digits /\ Stay("RS_DelayValue", loc)
      \/ Error
  BY Zenon DEF RS_Delay
<1>4. CASE Here \in DelayUnits /\ Read("RS_DelayValue", 1, loc)
  <2>1. CharOf(text, at) \notin Digits /\ CharOf(text, at) # "!"
    <3>1. \A c \in DelayUnits : c # "!"
      BY DEF DelayUnits
    <3>. QED  BY <1>2, <1>4, <3>1, SymbolKinds
  <2>2. ASSUME Faultless
        PROVE  /\ Quiet(text, BodyOf(loc, loc.start), at, at + 1)
               /\ CharOf(text, at + 1 - 1) \notin Digits
    <3>1. BodyOf(loc, loc.start) \in Int
      BY <1>1, <2>2, SaidInside DEF Inside
    <3>. QED  BY <1>2, <2>1, <3>1, QuietOne
  <2>3. "RS_DelayValue" \notin Starting \union {"Between", "RS_Query", "RS_Keys", "RS_KeyState",
                                               "RS_Delay", "RS_MouseClickType"}
        /\ read_state \notin {"RS_PrintString", "RS_MouseClickType"}
    BY <1>1 DEF Starting
  <2>. QED  BY <1>1, <1>2, <1>4, <2>2, <2>3, ReadPlain
<1>5. CASE Here \in Digits /\ Stay("RS_DelayValue", loc)
  <2>1. /\ at' = at + 1 /\ read_state' = "RS_DelayValue" /\ loc' = loc
        /\ UNCHANGED <<mark, cmds, parse_error>>
    BY <1>5 DEF Stay
  <2>2. ~Adding' /\ read_state' \notin Starting \union {"Between"}
    BY <2>1 DEF Starting, Adding
  <2>3. CharOf(text, at) \in Digits /\ CharOf(text, at) \notin DelayUnits
        /\ CharOf(text, at) \notin {"=", Comma, "?", "(", "!"}
    BY <1>2, <1>5, SymbolKinds
  <2>4. ASSUME Faultless PROVE InsideSays(text, "RS_DelayValue", mark, at + 1, loc)
    <3>1. /\ FlagsSay(text, read_state, at, loc) /\ ArgsSay(text, read_state, mark, at, loc)
          /\ StateSays(text, read_state, mark, at, loc) /\ BodyOf(loc, loc.start) \in Int
      BY <1>1, <2>4, SaidInside DEF Inside
    <3>2. Quiet(text, BodyOf(loc, loc.start), at, at + 1)
      BY <1>2, <2>3, <3>1, QuietOne
    <3>3. FlagsSay(text, "RS_DelayValue", at + 1, loc)
      BY <1>1, <1>2, <3>1, <3>2, FlagsMove
    <3>4. ArgsSay(text, "RS_DelayValue", mark, at + 1, loc)
      BY <1>1, <1>2, <2>3, <3>1, ArgsStay
    <3>5. at = BodyOf(loc, loc.start) + 1
      BY <1>1, <3>1 DEF StateSays, AtMark
    <3>6. StateSays(text, "RS_DelayValue", mark, at + 1, loc)
      BY <2>3, <3>5 DEF StateSays, AtMark
    <3>. QED  BY <3>3, <3>4, <3>6 DEF InsideSays
  <2>. QED  BY <1>2, <2>1, <2>2, <2>4, MoveSaid
<1>. QED  BY <1>3, <1>4, <1>5, ErrorSaid

LEMMA CleanOne ==
  ASSUME NEW t, NEW j \in Int, CharOf(t, j) \notin {"=", Comma, "?", "("}
  PROVE  Clean(t, j, j + 1)
<1>1. \A k \in j .. j + 1 - 1 : k = j
  OBVIOUS
<1>. QED  BY <1>1 DEF Clean

LEMMA RS_MouseClickTypeSaid ==
  ASSUME Inv, Said, text' = text, RS_MouseClickType
  PROVE  Said'
<1>1. Inside /\ read_state = "RS_MouseClickType"
  BY InsideStates DEF RS_MouseClickType
<1>2. /\ at \in Int /\ at + 1 \in Int /\ at <= at + 1 /\ at + 1 - 1 = at /\ mark \in Int
      /\ loc \in Locals /\ ~loc.keystate /\ ~Adding /\ CharOf(text, at) = Here
      /\ SameFlags(loc, loc) /\ 1 \in Nat /\ mark <= at /\ loc.args \in Seq(Int \X Int)
  BY <1>1, Facts, InsideFacts, CallFacts, TextFacts DEF Inside, Here, SameFlags
<1>a. ASSUME Faultless
      PROVE  /\ FlagsSay(text, read_state, at, loc) /\ ArgsSay(text, read_state, mark, at, loc)
             /\ BodyOf(loc, loc.start) \in Int /\ BodyOf(loc, loc.start) <= mark
             /\ mark > loc.start => CharOf(text, mark - 1) \notin Digits
             /\ \/ loc.args = <<>> /\ mark = at
                \/ loc.args = <<<<mark, mark>>>> /\ at = mark + 1
  <2>1. /\ FlagsSay(text, read_state, at, loc) /\ ArgsSay(text, read_state, mark, at, loc)
        /\ StateSays(text, read_state, mark, at, loc)
        /\ BodyOf(loc, loc.start) \in Int /\ BodyOf(loc, loc.start) <= mark
    BY <1>1, <1>a, SaidInside DEF Inside
  <2>. QED  BY <1>1, <2>1 DEF ArgsSay, StateSays
<1>b. <<<<mark, mark>>>> # <<>>
  OBVIOUS
<1>3. CASE Here \in Digits /\ loc.args = <<>>
  <2> DEFINE a == <<at, at>>
             args == <<a>>
             l == [loc EXCEPT !.args = args]
  <2>1. /\ at' = at + 1 /\ read_state' = "RS_MouseClickType" /\ loc' = l
        /\ UNCHANGED <<mark, cmds, parse_error>>
    BY <1>1, <1>3 DEF RS_MouseClickType, Stay
  <2>2. args \in Seq(Int \X Int) /\ a[1] = at /\ a[2] = at
    BY <1>2, Spans
  <2> HIDE DEF a
  <2>3. ASSUME Faultless PROVE mark = at /\ args = <<<<mark, mark>>>>
    BY <1>3, <1>a, <1>b, <2>3 DEF a
  <2>4. ASSUME Faultless PROVE ArgsOK(text, args, BodyOf(loc, loc.start), at + 1)
    <3>1. CharOf(text, at) \notin {"=", Comma, "?", "("}
      BY <1>2, <1>3, SymbolKinds
    <3>2. \A i \in at .. at : i = at
      BY <1>2
    <3>3. BodyOf(loc, loc.start) <= at /\ at < at + 1
      BY <1>2, <1>a, <2>3, <2>4
    <3>4. ArgOK(text, a, BodyOf(loc, loc.start), at + 1)
      BY <2>2, <3>1, <3>2, <3>3 DEF ArgOK
    <3>. QED  BY <3>4, OneArg
  <2> HIDE DEF args
  <2>5. /\ l \in Locals /\ l.start = loc.start /\ l.keystate = loc.keystate
        /\ SameFlags(loc, l) /\ l.args = args
    BY <1>2, <2>2 DEF Locals, SameFlags
  <2> HIDE DEF l
  <2>6. ~Adding' /\ read_state' \notin Starting \union {"Between"}
    BY <2>1 DEF Starting, Adding
  <2>7. ASSUME Faultless PROVE InsideSays(text, "RS_MouseClickType", mark, at + 1, l)
    <3>1. CharOf(text, at) \notin {"=", Comma, "?", "(", "!"}
      BY <1>2, <1>3, SymbolKinds
    <3>2. Quiet(text, BodyOf(loc, loc.start), at, at + 1)
      BY <1>2, <1>a, <2>7, <3>1, QuietOne
    <3>3. FlagsSay(text, "RS_MouseClickType", at + 1, l)
      BY <1>1, <1>2, <1>a, <2>5, <2>7, <3>2, FlagsMove
    <3>4. ArgsSay(text, "RS_MouseClickType", mark, at + 1, l)
      <4>1. BodyOf(l, l.start) = BodyOf(loc, loc.start)
        BY <2>5 DEF BodyOf, SameFlags
      <4>3. Clean(text, at, at + 1)
        BY <1>2, <3>1, CleanOne
      <4>4. mark = at /\ ArgsOK(text, args, BodyOf(loc, loc.start), at + 1)
            /\ BodyOf(loc, loc.start) <= mark
            /\ (mark > loc.start => CharOf(text, mark - 1) \notin Digits)
        BY <1>a, <2>3, <2>4, <2>7
      <4>. QED  BY <2>5, <4>1, <4>3, <4>4 DEF ArgsSay
    <3>5. StateSays(text, "RS_MouseClickType", mark, at + 1, l)
      BY <2>3, <2>5, <2>7 DEF StateSays, AtMark
    <3>. QED  BY <3>3, <3>4, <3>5 DEF InsideSays
  <2>. QED  BY <1>2, <2>1, <2>6, <2>7, MoveSaid
<1>4. CASE Here = "=" /\ loc.args # <<>>
  <2>1. Read("RS_MouseClickState", 1, loc)
    BY <1>4 DEF RS_MouseClickType
  <2>2. CharOf(text, at) \notin Digits /\ CharOf(text, at) # "!"
    BY <1>2, <1>4, SymbolKinds
  <2>3. ASSUME Faultless
        PROVE  /\ Quiet(text, BodyOf(loc, loc.start), at, at + 1)
               /\ ArgsOK(text, loc.args, BodyOf(loc, loc.start), at + 1)
               /\ ArgsAlone(text, loc.args, loc.start)
    <3> DEFINE b == BodyOf(loc, loc.start)
    <3>1. /\ b \in Int /\ (mark > loc.start => CharOf(text, mark - 1) \notin Digits)
          /\ loc.args = <<<<mark, mark>>>> /\ at = mark + 1
          /\ ArgsOK(text, loc.args, b, at)
      BY <1>1, <1>4, <1>a, <2>3 DEF ArgsSay
    <3> HIDE DEF b
    <3>2. Quiet(text, b, at, at + 1)
      BY <1>2, <2>2, <3>1, QuietOne
    <3>3. ArgsOK(text, loc.args, b, at + 1)
      BY <1>2, <3>1, ArgsLater
    <3>4. Alone(text, <<mark, mark>>, loc.start)
      <4>1. <<mark, mark>>[1] = mark /\ <<mark, mark>>[2] = mark
        OBVIOUS
      <4>. QED  BY <2>2, <3>1, <4>1 DEF Alone
    <3>5. ArgsAlone(text, loc.args, loc.start)
      BY <3>1, <3>4, OneAlone
    <3>. QED  BY <3>2, <3>3, <3>5 DEF b
  <2>4. /\ "RS_MouseClickState" \notin Starting
             \union {"Between", "RS_Query", "RS_Keys", "RS_KeyState", "RS_Delay"}
        /\ read_state # "RS_PrintString"
    BY <1>1 DEF Starting
  <2>. QED  BY <1>1, <1>2, <2>1, <2>2, <2>3, <2>4, ReadSaid
<1>5. CASE ~(Here \in Digits /\ loc.args = <<>>) /\ ~(Here = "=" /\ loc.args # <<>>)
  <2>1. Error
    BY <1>5 DEF RS_MouseClickType
  <2>. QED  BY <2>1, ErrorSaid
<1>. QED  BY <1>3, <1>4, <1>5

LEMMA RS_MouseClickStateSaid ==
  ASSUME Inv, Said, text' = text, RS_MouseClickState
  PROVE  Said'
<1>1. /\ read_state = "RS_MouseClickState" /\ read_state # "Between"
      /\ read_state \notin Starting \union {"Between"}
      /\ at \in Nat /\ at \in Int /\ at + 1 \in Int /\ at <= at + 1 /\ mark \in Int /\ loc \in Locals
      /\ text \in Texts /\ CharOf(text, at) = Here /\ cmds \in Seq(CommandRec) /\ Len(cmds) \in Nat
      /\ loc.args \in Seq(Int \X Int)
  BY Facts, TextFacts DEF RS_MouseClickState, Starting, Here
<1>a. ASSUME Faultless
      PROVE  /\ FlagsSay(text, read_state, at, loc) /\ ArgsSay(text, read_state, mark, at, loc)
             /\ StateSays(text, read_state, mark, at, loc)
             /\ BodyOf(loc, loc.start) \in Int /\ BodyOf(loc, loc.start) <= mark
  BY <1>1, <1>a, SaidInside
<1>3. CASE Here \in KeyStates /\ ~loc.keystate
  <2> DEFINE args == Append(loc.args, <<at, at>>)
             c == Command("MouseClick", args)
             l == [loc EXCEPT !.keystate = TRUE]
  <2>1. /\ at' = at + 1 /\ loc' = l /\ cmds' = Append(cmds, c)
        /\ UNCHANGED <<mark, read_state, parse_error>>
    BY <1>3 DEF RS_MouseClickState
  <2>2. /\ l \in Locals /\ l.start = loc.start /\ l.keystate = TRUE
        /\ SameFlags(loc, l) /\ l.args = loc.args
    BY <1>1 DEF Locals, SameFlags
  <2>3. ASSUME mark = at PROVE Command("MouseClick", Append(loc.args, <<mark, mark>>))' = c
    <3>1. /\ loc'.print = loc.print /\ loc'.invert = loc.invert /\ loc'.store = loc.store
          /\ loc'.comb = loc.comb /\ loc'.args = loc.args /\ mark' = at
      BY <2>1, <2>2, <2>3 DEF SameFlags
    <3>. QED  BY <3>1, Zenon DEF Command, None
  <2>4. c \in CommandRec
    <3>1. args \in Seq(Int \X Int)
      BY <1>1, Spans
    <3> HIDE DEF args
    <3>. QED  BY <1>1, <3>1, Types, CommandTyped
  <2> HIDE DEF args, c, l
  <2>5. /\ Len(cmds') = Len(cmds) + 1 /\ cmds'[Len(cmds')] = c
        /\ \A n \in 1 .. Len(cmds) : cmds'[n] = cmds[n]
    BY <1>1, <2>1, <2>4
  <2>6. Whole = Len(cmds) /\ Whole' = Len(cmds) /\ Adding'
    <3>1. ~Adding /\ Adding'
      BY <1>1, <1>3, <2>1, <2>2 DEF Adding
    <3>. QED  BY <1>1, <2>5, <3>1 DEF Whole
  <2>7. ASSUME Faultless PROVE InsideSays(text, "RS_MouseClickState", mark, at + 1, l) /\ mark = at
    <3>1. mark = at
      BY <1>1, <1>3, <1>a, <2>7 DEF StateSays
    <3>2. CharOf(text, at) \in KeyStates /\ CharOf(text, at) \notin {"=", Comma, "?", "(", "!"}
      BY <1>1, <1>3, KeyStateSymbols
    <3>3. Quiet(text, BodyOf(loc, loc.start), at, at + 1)
      BY <1>1, <1>a, <2>7, <3>2, QuietOne
    <3>4. FlagsSay(text, "RS_MouseClickState", at + 1, l)
      BY <1>1, <1>a, <2>2, <2>7, <3>3, FlagsMove
    <3>5. ArgsSay(text, "RS_MouseClickState", mark, at + 1, l)
      BY <1>1, <1>a, <2>2, <2>7, <3>2, ArgsStay
    <3>6. StateSays(text, "RS_MouseClickState", mark, at + 1, l)
      BY <2>2, <3>1, <3>2 DEF StateSays, AtMark
    <3>. QED  BY <3>1, <3>4, <3>5, <3>6 DEF InsideSays
  <2>8. ASSUME ~parse_error', PrefixesStand'
        PROVE  /\ \A n \in 1 .. Whole' : CommandSays(text, cmds'[n], cmds'[n].from, cmds'[n].to)
               /\ InsideSays(text, read_state', mark', at', loc')
               /\ cmds'[Len(cmds')] = Command("MouseClick", Append(loc.args, <<mark, mark>>))'
    <3>1. Faultless
      BY <2>1, <2>8 DEF Faultless, PrefixesStand
    <3>2. \A n \in 1 .. Whole : CommandSays(text, cmds[n], cmds[n].from, cmds[n].to)
      BY <3>1 DEF Said, Faultless
    <3>3. InsideSays(text, "RS_MouseClickState", mark, at + 1, l) /\ mark = at
      BY <2>7, <3>1
    <3>4. cmds'[Len(cmds')] = Command("MouseClick", Append(loc.args, <<mark, mark>>))'
      BY <2>3, <2>5, <3>3
    <3>5. InsideSays(text, read_state', mark', at', loc')
      BY <1>1, <2>1, <3>3
    <3>. QED  BY <2>5, <2>6, <3>2, <3>4, <3>5
  <2>9. read_state' \notin Starting \union {"Between"}
    BY <1>1, <2>1
  <2>. QED  BY <2>8, <2>9, Zenon DEF Said
<1>4. CASE Here = Semicolon /\ loc.keystate
  <2> DEFINE k == <<mark, mark>>
             args == Append(loc.args, k)
             c == Command("MouseClick", args)
  <2>1. Finish(cmds, at)
    BY <1>4 DEF RS_MouseClickState
  <2>2. Adding
    BY <1>1, <1>4 DEF Adding
  <2>3. Whole \in Nat /\ Len(cmds) = Whole + 1
    <3>1. Whole = Len(cmds) - 1 /\ Len(cmds) > 0
      BY <1>1, <2>2, CallFacts DEF Whole
    <3>. QED  BY <1>1, <3>1
  <2>4. k \in Int \X Int /\ k[1] = mark /\ k[2] = mark
    BY <1>1
  <2> HIDE DEF k
  <2>5. SameFlags(loc, c) /\ c.type = "MouseClick" /\ c.args = args
    BY CommandSame
  <2>6. ASSUME Faultless PROVE CommandSays(text, cmds[Whole + 1], loc.start, at)
    <3> DEFINE b == BodyOf(loc, loc.start)
    <3>1. cmds[Whole + 1] = c
      BY <2>2, <2>3, <2>6 DEF Said, Faultless, k
    <3>2. at = mark + 1 /\ CharOf(text, mark) \in KeyStates
      BY <1>1, <1>4, <1>a, <2>6 DEF StateSays
    <3>3. /\ ArgsOK(text, loc.args, b, mark) /\ ArgsAlone(text, loc.args, loc.start)
          /\ (mark > loc.start => CharOf(text, mark - 1) \notin Digits)
          /\ b \in Int /\ b <= mark
      BY <1>1, <1>a, <2>6 DEF ArgsSay
    <3>4. FlagsAre(text, loc, loc.start, b, at) /\ MarksAre(text, loc, b, at)
      BY <1>1, <1>a, <2>6 DEF FlagsSay
    <3>5. BodyOf(c, loc.start) = b
      BY <2>5 DEF BodyOf, SameFlags
    <3> HIDE DEF b
    <3>6. /\ CharOf(text, mark) \notin {"=", Comma, "?", "("} /\ CharOf(text, mark + 1) \notin Digits
      BY <1>1, <1>4, <3>2, KeyStateSymbols, SymbolKinds
    <3>7. ArgOK(text, k, b, at) /\ Alone(text, k, loc.start) /\ mark <= k[1] /\ mark <= at
      <4>1. \A i \in mark .. mark : i = mark
        BY <1>1
      <4>2. mark < at /\ mark <= at
        BY <1>1, <3>2
      <4>3. ArgOK(text, k, b, at)
        BY <2>4, <3>3, <3>6, <4>1, <4>2 DEF ArgOK
      <4>4. Alone(text, k, loc.start)
        BY <2>4, <3>3, <3>6 DEF Alone
      <4>. QED  BY <1>1, <2>4, <4>2, <4>3, <4>4
    <3>8. ArgsOK(text, args, b, at)
      BY <1>1, <2>4, <3>3, <3>7, ArgsMore
    <3>9. ArgsAlone(text, args, loc.start)
      BY <1>1, <2>4, <3>3, <3>7, AloneMore
    <3>10. FlagsAre(text, c, loc.start, b, at) /\ MarksAre(text, c, b, at)
      BY <2>5, <3>4, Zenon DEF FlagsAre, MarksAre, SameFlags
    <3> HIDE DEF c, args
    <3>. QED  BY <2>5, <3>1, <3>5, <3>8, <3>9, <3>10 DEF CommandSays
  <2>. QED  BY <1>1, <2>1, <2>3, <2>6, FinishSaid
<1>5. CASE ~(Here = Semicolon /\ loc.keystate) /\ ~(Here \in KeyStates /\ ~loc.keystate)
  <2>1. Error
    BY <1>5 DEF RS_MouseClickState
  <2>. QED  BY <2>1, ErrorSaid
<1>. QED  BY <1>3, <1>4, <1>5

\* No bracket is passed, either.
LEMMA UnbracketedMore ==
  ASSUME NEW t, NEW i \in Int, NEW j \in Int, NEW m \in Int, Unbracketed(t, i, j),
         \A k \in j .. m - 1 : CharOf(t, k) # "("
  PROVE  Unbracketed(t, i, m)
<1>1. \A k \in i .. m - 1 : k \in i .. j - 1 \/ k \in j .. m - 1
  OBVIOUS
<1>. QED  BY <1>1 DEF Unbracketed

\* The flags of a query that an exclamation mark inverts, and of one with indices.
LEMMA FlagsInverted ==
  ASSUME NEW t, NEW f, NEW g, NEW from, NEW b \in Int, NEW j \in Int, NEW m \in Int, j <= m,
         g.print = f.print, g.store = f.store, g.comb = f.comb, FlagsAre(t, f, from, b, j)
  PROVE  FlagsAre(t, g, from, b, m)
<1>1. \A k \in b .. j - 1 : k \in b .. m - 1
  OBVIOUS
<1>. QED  BY <1>1 DEF FlagsAre

LEMMA FlagsCustom ==
  ASSUME NEW t, NEW f, NEW g, NEW from, NEW b \in Int, NEW j \in Int, NEW m \in Int,
         g.print = f.print, g.store = f.store, f.comb = "NONE", g.comb = "CUSTOM",
         FlagsAre(t, f, from, b, j), CharOf(t, b) \in {"?", "|", "&"},
         NEW k \in b .. m - 1, CharOf(t, k) = ":"
  PROVE  FlagsAre(t, g, from, b, m)
<1>1. CharOf(t, b) = "?"
  BY DEF FlagsAre
<1>2. g.comb # "OR" /\ g.comb # "AND" /\ CharOf(t, b) # "|" /\ CharOf(t, b) # "&"
  BY <1>1
<1>3. (g.print <=> PrefixAt(t, from)) /\ (g.store <=> (CharOf(t, b) = "JTS" /\ CharOf(t, b + 1) = ">"))
  BY DEF FlagsAre
<1>. QED  BY <1>1, <1>2, <1>3 DEF FlagsAre

\* What the indices of a query are made of.
LEMMA IndicesSay ==
  ASSUME text \in Texts, at \in Nat, Here \in Digits \union {"-"}, IndicesEnd # None
  PROVE  /\ IndicesEnd \in at + 1 .. Len(text) - 1
         /\ \A k \in at .. IndicesEnd : Char(k) \notin {"!", "("}
         /\ \E k \in at .. IndicesEnd : Char(k) = ":"
         /\ Char(IndicesEnd) = Comma
<1> DEFINE colon == AfterDigits(at + 1)
           next  == IF Char(colon + 1) = "-" THEN colon + 2 ELSE colon + 1
           comma == AfterDigits(next)
<1>1. Len(text) \in Nat /\ \A i \in Nat : Char(i) # NUL <=> i < Len(text)
  BY TextFacts
<1>2. Char(colon) = ":" /\ Char(comma) = Comma /\ IndicesEnd = comma
  BY DEF IndicesEnd
<1>3. Here # NUL
  BY Symbols
<1>4. IndicesEnd \in at + 1 .. Len(text) - 1
  BY <1>3, IndicesEndFacts
<1>5. at + 1 \in Nat /\ at + 1 <= Len(text)
  BY <1>1, <1>3 DEF Here
<1>6. colon \in at + 1 .. Len(text) /\ \A k \in at + 1 .. colon - 1 : Char(k) \in Digits
  BY <1>5, AfterDigitsFacts
<1>7. next = colon + 1 \/ (next = colon + 2 /\ Char(colon + 1) = "-")
  OBVIOUS
<1> HIDE DEF colon
<1>8. colon \in Nat /\ colon < Len(text)
  <2>1. colon \in Nat
    BY <1>1, <1>6
  <2>2. Char(colon) # NUL
    BY <1>2, Zenon DEF NUL
  <2>. QED  BY <1>1, <2>1, <2>2
<1>9. next \in Nat /\ next <= Len(text)
  <2>1. CASE next = colon + 1
    BY <1>1, <1>8, <2>1
  <2>2. CASE next = colon + 2 /\ Char(colon + 1) = "-"
    <3>1. Char(colon + 1) # NUL
      BY <2>2, Symbols
    <3>2. colon + 1 < Len(text)
      BY <1>1, <1>8, <3>1
    <3>. QED  BY <1>1, <1>8, <2>2, <3>2
  <2>. QED  BY <1>7, <2>1, <2>2
<1> HIDE DEF next
<1>10. comma \in next .. Len(text) /\ \A k \in next .. comma - 1 : Char(k) \in Digits
  BY <1>9, AfterDigitsFacts
<1> HIDE DEF comma
<1>11. comma \in Nat /\ next <= comma
  BY <1>1, <1>9, <1>10
<1>12. \A k \in at .. comma :
         \/ k = at \/ k \in at + 1 .. colon - 1 \/ k = colon
         \/ (k = colon + 1 /\ next = colon + 2)
         \/ k \in next .. comma - 1 \/ k = comma
  BY <1>7, <1>8, <1>9, <1>11
<1>13. \A k \in at .. comma : Char(k) \in Digits \union {"-", ":", Comma}
  BY <1>2, <1>6, <1>7, <1>10, <1>12 DEF Here
<1>14. \A c \in Digits \union {"-", ":", Comma} : c \notin {"!", "("}
  BY SymbolKinds, NamedMarks
<1>15. colon \in at .. comma
  BY <1>6, <1>7, <1>8, <1>9, <1>11
<1>. QED  BY <1>2, <1>4, <1>13, <1>14, <1>15

LEMMA QueryIndicesSaid ==
  ASSUME Inv, Said, text' = text, QueryIndices
  PROVE  Said'
<1>1. Inside /\ read_state = "RS_Query" /\ Here \in Digits \union {"-"}
  BY InsideStates DEF QueryIndices
<1>2. CASE loc.comb = "NONE" /\ IndicesEnd # None
  <2> DEFINE e == IndicesEnd
             l == [loc EXCEPT !.comb = "CUSTOM"]
  <2>1. Read(read_state, e - at + 1, l)
    BY <1>2 DEF QueryIndices
  <2>2. /\ e \in at + 1 .. Len(text) - 1
        /\ \A k \in at .. e : Char(k) \notin {"!", "("}
        /\ \E k \in at .. e : Char(k) = ":"
        /\ Char(e) = Comma
    BY <1>1, <1>2, InsideFacts, IndicesSay
  <2> HIDE DEF e
  <2>3. e \in Int /\ at + (e - at + 1) = e + 1 /\ at \in Int /\ mark \in Int /\ loc \in Locals
        /\ at < e + 1 /\ e + 1 - 1 = e /\ mark <= at /\ ~Adding /\ e + 1 \in Int
    BY <1>1, <2>2, Facts, InsideFacts, CallFacts
  <2>4. /\ at' = e + 1 /\ mark' = e + 1 /\ read_state' = "RS_Query" /\ loc' = l
        /\ UNCHANGED <<cmds, parse_error>>
    BY <1>1, <2>1, <2>3 DEF Read
  <2>5. /\ l \in Locals /\ l.start = loc.start /\ l.keystate = loc.keystate /\ l.args = loc.args
        /\ l.print = loc.print /\ l.invert = loc.invert /\ l.store = loc.store /\ l.comb = "CUSTOM"
    BY <2>3 DEF Locals, Combs
  <2> HIDE DEF l
  <2>6. ~Adding' /\ read_state' \notin Starting \union {"Between"}
    BY <2>4 DEF Starting, Adding
  <2>7. ASSUME Faultless PROVE InsideSays(text, "RS_Query", e + 1, e + 1, l)
    <3> DEFINE b == BodyOf(loc, loc.start)
    <3>1. /\ FlagsSay(text, read_state, at, loc) /\ b \in Int /\ b < at
      BY <1>1, <2>7, SaidInside DEF Inside
    <3>2. /\ FlagsAre(text, loc, loc.start, b, at) /\ MarksAre(text, loc, b, at)
          /\ CharOf(text, b) \in {"?", "|", "&"} /\ Unbracketed(text, b, at)
      BY <1>1, <3>1 DEF FlagsSay
    <3>3. /\ ArgsOK(text, loc.args, b, mark) /\ ArgsAlone(text, loc.args, loc.start)
          /\ loc.args \in Seq(Int \X Int)
      BY <1>1, <2>7, SaidArgs
    <3>4. BodyOf(l, l.start) = b
      BY <2>5 DEF BodyOf
    <3> HIDE DEF b
    <3>5. /\ \A k \in at .. e : CharOf(text, k) \notin {"!", "("}
          /\ \E k \in at .. e : CharOf(text, k) = ":"
          /\ CharOf(text, e) = Comma
      BY <1>1, <2>2, InsideFacts, TextFacts
    <3>6. FlagsAre(text, l, l.start, b, e + 1)
      <4>1. PICK k \in at .. e : CharOf(text, k) = ":"
        BY <3>5
      <4>2. k \in b .. e + 1 - 1
        BY <2>3, <3>1
      <4>. QED  BY <1>2, <2>3, <2>5, <3>1, <3>2, <4>1, <4>2, FlagsCustom
    <3>7. MarksAre(text, l, b, e + 1)
      <4>1. Quiet(text, b, at, e + 1)
        BY <2>3, <3>5 DEF Quiet
      <4>2. OwnMarks(text, b, e + 1) = OwnMarks(text, b, at)
        BY <2>3, <3>1, <4>1, MarksKept
      <4>. QED  BY <2>5, <3>2, <4>2 DEF MarksAre
    <3>8. Unbracketed(text, b, e + 1)
      <4>1. \A k \in at .. e + 1 - 1 : CharOf(text, k) # "("
        BY <2>3, <3>5
      <4>. QED  BY <2>3, <3>1, <3>2, <4>1, UnbracketedMore
    <3>9. FlagsSay(text, "RS_Query", e + 1, l)
      BY <2>3, <3>1, <3>2, <3>4, <3>6, <3>7, <3>8 DEF FlagsSay
    <3>10. ArgsSay(text, "RS_Query", e + 1, e + 1, l)
      <4>1. b <= e + 1 /\ mark <= e + 1
        BY <2>3, <3>1
      <4>2. ArgsOK(text, l.args, b, e + 1)
        BY <2>3, <2>5, <3>1, <3>3, <4>1, ArgsLater
      <4>3. CharOf(text, e + 1 - 1) \notin Digits
        BY <2>3, <3>5, SymbolKinds
      <4>. QED  BY <2>3, <2>5, <3>3, <3>4, <4>1, <4>2, <4>3, ArgsRead
    <3>11. StateSays(text, "RS_Query", e + 1, e + 1, l)
      BY DEF StateSays
    <3>. QED  BY <3>9, <3>10, <3>11 DEF InsideSays
  <2>. QED  BY <2>3, <2>4, <2>6, <2>7, MoveSaid
<1>3. CASE ~(loc.comb = "NONE" /\ IndicesEnd # None)
  <2>1. Error
    BY <1>3 DEF QueryIndices
  <2>. QED  BY <2>1, ErrorSaid
<1>. QED  BY <1>2, <1>3

LEMMA QueryInvertSaid ==
  ASSUME Inv, Said, text' = text, QueryInvert
  PROVE  Said'
<1> DEFINE l == [loc EXCEPT !.invert = ~@]
<1>1. Inside /\ read_state = "RS_Query" /\ Here = "!" /\ Read(read_state, 1, l)
  BY InsideStates DEF QueryInvert
<1>2. /\ at' = at + 1 /\ mark' = at + 1 /\ read_state' = "RS_Query" /\ loc' = l
      /\ UNCHANGED <<cmds, parse_error>>
  BY <1>1 DEF Read
<1>3. /\ at \in Int /\ at + 1 \in Int /\ mark \in Int /\ loc \in Locals /\ mark <= at /\ ~Adding
      /\ at + 1 - 1 = at /\ CharOf(text, at) = "!"
  BY <1>1, Facts, InsideFacts, CallFacts, TextFacts DEF Here
<1>4. /\ l \in Locals /\ l.start = loc.start /\ l.keystate = loc.keystate /\ l.args = loc.args
      /\ l.print = loc.print /\ l.invert = ~loc.invert /\ l.store = loc.store /\ l.comb = loc.comb
  BY <1>3 DEF Locals
<1>5. loc.invert \in BOOLEAN
  BY <1>3 DEF Locals
<1> HIDE DEF l
<1>6. ~Adding' /\ read_state' \notin Starting \union {"Between"}
  BY <1>2 DEF Starting, Adding
<1>7. ASSUME Faultless PROVE InsideSays(text, "RS_Query", at + 1, at + 1, l)
  <2> DEFINE b == BodyOf(loc, loc.start)
  <2>1. FlagsSay(text, read_state, at, loc) /\ b \in Int /\ b < at
    BY <1>1, <1>7, SaidInside DEF Inside
  <2>2. /\ FlagsAre(text, loc, loc.start, b, at) /\ MarksAre(text, loc, b, at)
        /\ CharOf(text, b) \in {"?", "|", "&"} /\ Unbracketed(text, b, at)
    BY <1>1, <2>1 DEF FlagsSay
  <2>3. /\ ArgsOK(text, loc.args, b, mark) /\ ArgsAlone(text, loc.args, loc.start)
        /\ loc.args \in Seq(Int \X Int)
    BY <1>1, <1>7, SaidArgs
  <2>4. BodyOf(l, l.start) = b
    BY <1>4 DEF BodyOf
  <2> HIDE DEF b
  <2>5. FlagsAre(text, l, l.start, b, at + 1)
    <3>1. at <= at + 1
      BY <1>3
    <3>. QED  BY <1>3, <1>4, <2>1, <2>2, <3>1, FlagsInverted
  <2>6. MarksAre(text, l, b, at + 1)
    <3>1. Cardinality(OwnMarks(text, b, at + 1)) % 2 = 1
            <=> ~(Cardinality(OwnMarks(text, b, at)) % 2 = 1)
      BY <1>3, <2>1, <2>2, MarkAdded
    <3>2. loc.invert <=> Cardinality(OwnMarks(text, b, at)) % 2 = 1
      BY <2>2 DEF MarksAre
    <3>3. l.invert <=> ~loc.invert
      BY <1>4, <1>5
    <3>. QED  BY <3>1, <3>2, <3>3, Zenon DEF MarksAre
  <2>7. Unbracketed(text, b, at + 1)
    <3>1. \A k \in at .. at + 1 - 1 : k = at
      BY <1>3
    <3>2. \A k \in at .. at + 1 - 1 : CharOf(text, k) # "("
      BY <1>3, <3>1
    <3>. QED  BY <1>3, <2>1, <2>2, <3>2, UnbracketedMore
  <2>8. FlagsSay(text, "RS_Query", at + 1, l)
    BY <1>3, <2>1, <2>2, <2>4, <2>5, <2>6, <2>7 DEF FlagsSay
  <2>9. ArgsSay(text, "RS_Query", at + 1, at + 1, l)
    <3>1. b <= at + 1 /\ mark <= at + 1
      BY <1>3, <2>1
    <3>2. ArgsOK(text, l.args, b, at + 1)
      BY <1>3, <1>4, <2>1, <2>3, <3>1, ArgsLater
    <3>3. CharOf(text, at + 1 - 1) \notin Digits
      BY <1>3, SymbolKinds
    <3>. QED  BY <1>3, <1>4, <2>3, <2>4, <3>1, <3>2, <3>3, ArgsRead
  <2>10. StateSays(text, "RS_Query", at + 1, at + 1, l)
    BY DEF StateSays
  <2>. QED  BY <2>8, <2>9, <2>10 DEF InsideSays
<1>. QED  BY <1>2, <1>3, <1>6, <1>7, MoveSaid

\* No word of a query has a mark that inverts, and none ends with a digit.
LEMMA QueryWordsSay ==
  ASSUME NEW o \in QueryOpenings
  PROVE  /\ \A i \in DOMAIN o.word : o.word[i] # "!"
         /\ \A n \in {2, 3} : DOMAIN o.word = 1 .. n => o.word[n] \notin Digits
         /\ o.state \notin {"RS_Query", "RS_Keys", "RS_KeyState", "RS_Delay", "RS_MouseClickType"}
<1>1. o \in QueryOpenings
  OBVIOUS
<1>2. \/ o.word \in {<<"pxc", "=">>, <<"within", "=">>, <<"eval", "=">>, <<"key_pressed", "=">>,
                     <<"button_pressed", "=">>}
      \/ o.word \in {<<"coords", "=", "x">>, <<"coords", "=", "y">>}
  BY DEF QueryOpenings
<1>3. \A i \in DOMAIN o.word : o.word[i] # "!"
  BY <1>2
<1>4. \A n \in {2, 3} : DOMAIN o.word = 1 .. n => o.word[n] \in {"=", "x", "y"}
  BY <1>2
<1>5. o.state \notin {"RS_Query", "RS_Keys", "RS_KeyState", "RS_Delay", "RS_MouseClickType"}
  BY DEF QueryOpenings
<1>. QED  BY <1>3, <1>4, <1>5, SymbolKinds

\* A word that the text goes on with is part of it.
LEMMA StartsSay ==
  ASSUME text \in Texts, at \in Nat, NEW word, NEW n \in Nat, DOMAIN word = 1 .. n, Starts(word)
  PROVE  \A i \in 1 .. n : CharOf(text, at + i - 1) = word[i]
  BY TextFacts DEF Starts

LEMMA QueryOpeningSaid ==
  ASSUME Inv, Said, text' = text, QueryOpening
  PROVE  Said'
<1>1. Inside /\ read_state = "RS_Query"
  BY InsideStates DEF QueryOpening
<1>2. CASE Error
  BY <1>2, ErrorSaid
<1>3. ASSUME NEW o \in QueryOpenings, Starts(o.word), Read(o.state, Len(o.word), loc)
      PROVE  Said'
  <2>1. PICK n \in {2, 3} : Len(o.word) = n /\ DOMAIN o.word = 1 .. n /\ o.word[n] # NUL
    BY QueryWords
  <2>2. n \in Nat /\ n > 0 /\ at \in Nat /\ text \in Texts /\ loc \in Locals /\ ~loc.keystate
        /\ SameFlags(loc, loc)
    BY <1>1, Facts DEF Inside, SameFlags
  <2>3. \A i \in 1 .. n : CharOf(text, at + i - 1) = o.word[i]
    BY <1>3, <2>1, <2>2, StartsSay
  <2>4. o.word[n] \notin Digits /\ \A i \in 1 .. n : o.word[i] # "!"
    BY <2>1, QueryWordsSay
  <2>5. CharOf(text, at + n - 1) \notin Digits
    BY <2>2, <2>3, <2>4
  <2>6. \A k \in at .. at + n - 1 : CharOf(text, k) # "!"
    <3> TAKE k \in at .. at + n - 1
    <3>1. k - at + 1 \in 1 .. n /\ at + (k - at + 1) - 1 = k
      BY <2>2
    <3>. QED  BY <2>3, <2>4, <3>1
  <2>7. ASSUME Faultless
        PROVE  /\ Quiet(text, BodyOf(loc, loc.start), at, at + n)
               /\ CharOf(text, at + n - 1) \notin Digits
    <3>1. BodyOf(loc, loc.start) \in Int /\ at \in Int /\ at + n \in Int
      BY <1>1, <2>2, <2>7, SaidInside DEF Inside
    <3>. QED  BY <2>5, <2>6, <3>1, QuietPlain
  <2>8. o.state \notin Starting \union {"Between", "RS_Query", "RS_Keys", "RS_KeyState", "RS_Delay",
                                        "RS_MouseClickType"}
    BY QueryWords, QueryWordsSay
  <2>. QED  BY <1>1, <1>3, <2>1, <2>2, <2>7, <2>8, ReadPlain
<1>. QED  BY <1>2, <1>3 DEF QueryOpening

LEMMA RS_QueryCoordsTypeSaid ==
  ASSUME Inv, Said, text' = text, RS_QueryCoordsType
  PROVE  Said'
<1>1. Inside /\ read_state \notin {"RS_PrintString", "RS_MouseClickType"}
  BY InsideStates DEF RS_QueryCoordsType
<1>2. /\ "RS_QueryCoordsVarValue" \notin Starting \union {"Between", "RS_Query", "RS_Keys",
           "RS_KeyState", "RS_Delay", "RS_MouseClickType"}
      /\ loc \in Locals /\ ~loc.keystate /\ SameFlags(loc, loc) /\ 1 \in Nat /\ 2 \in Nat
      /\ at \in Int /\ text \in Texts /\ \A i : Char(i) = CharOf(text, i)
  BY <1>1, Facts, TextFacts DEF Starting, Inside, SameFlags
<1>3. ASSUME Faultless PROVE BodyOf(loc, loc.start) \in Int
  BY <1>1, <1>3, SaidInside DEF Inside
<1>4. CASE Here \in {"<", ">"} /\ Char(at + 1) = "="
  <2>1. Read("RS_QueryCoordsVarValue", 2, loc)
    BY <1>4 DEF RS_QueryCoordsType
  <2>2. CharOf(text, at) # "!" /\ CharOf(text, at + 1) # "!" /\ CharOf(text, at + 2 - 1) \notin Digits
    <3>1. at + 2 - 1 = at + 1
      BY <1>2
    <3>. QED  BY <1>2, <1>4, <3>1, SymbolKinds DEF Here
  <2>3. ASSUME Faultless
        PROVE  /\ Quiet(text, BodyOf(loc, loc.start), at, at + 2)
               /\ CharOf(text, at + 2 - 1) \notin Digits
    BY <1>2, <1>3, <2>2, <2>3, QuietTwo
  <2>. QED  BY <1>1, <1>2, <2>1, <2>3, ReadPlain
<1>5. CASE Here \in {"<", ">"} /\ Char(at + 1) # "="
  <2>1. Read("RS_QueryCoordsVarValue", 1, loc)
    BY <1>5 DEF RS_QueryCoordsType
  <2>2. CharOf(text, at) # "!" /\ CharOf(text, at + 1 - 1) \notin Digits
    <3>1. at + 1 - 1 = at
      BY <1>2
    <3>. QED  BY <1>2, <1>5, <3>1, SymbolKinds DEF Here
  <2>3. ASSUME Faultless
        PROVE  /\ Quiet(text, BodyOf(loc, loc.start), at, at + 1)
               /\ CharOf(text, at + 1 - 1) \notin Digits
    BY <1>2, <1>3, <2>2, <2>3, QuietOne
  <2>. QED  BY <1>1, <1>2, <2>1, <2>3, ReadPlain
<1>6. CASE Here \notin {"<", ">"}
  <2>1. Error
    BY <1>6 DEF RS_QueryCoordsType
  <2>. QED  BY <2>1, ErrorSaid
<1>. QED  BY <1>4, <1>5, <1>6

LEMMA RS_QueryRPNEvalSaid ==
  ASSUME Inv, Said, text' = text, RS_QueryRPNEval
  PROVE  Said'
<1>1. Inside /\ read_state = "RS_QueryRPNEval" /\ read_state \in Collecting
  BY InsideStates DEF RS_QueryRPNEval, Collecting
<1>2. CASE Here \in KeyChars
  <2>1. Stay(read_state, loc) /\ Here \notin {"=", Comma, "?", "(", "!"}
    BY <1>2, SymbolKinds DEF RS_QueryRPNEval
  <2>. QED  BY <1>1, <2>1, StaySaid
<1>3. CASE Here \notin KeyChars
  <2>1. LastNumber("QueryRPNEval", NumberEnd({}, {"?"}, "?")) /\ "?" \in {Semicolon, "?"}
        /\ {} \subseteq Digits \union {"-"}
    BY <1>3 DEF RS_QueryRPNEval
  <2>2. ~Apart(text, "QueryRPNEval", BodyOf(loc, loc.start))
    BY DEF Apart
  <2>. QED  BY <1>1, <2>1, <2>2, Types, LastNumberSaid
<1>. QED  BY <1>2, <1>3

\* The letter of a type is no mark that inverts.
LEMMA TypeSymbols ==
  /\ \A c \in VarTypes \union {"r"} : c # "!" /\ c \notin Digits
  /\ \A c \in {"debug_print_type", "rpn_decimals", "rpn_stack_debug"} : c # "!"
<1>1. \A c \in VarTypes \union {"r"} : c # "!"
  BY DEF VarTypes
<1>. QED  BY <1>1, SymbolKinds

LEMMA RS_InitVarTypeSaid ==
  ASSUME Inv, Said, text' = text, RS_InitVarType
  PROVE  Said'
<1>1. Inside /\ read_state \notin {"RS_PrintString", "RS_MouseClickType"}
  BY InsideStates DEF RS_InitVarType
<1>2. CASE Here \in VarTypes \union {"r"} /\ Char(at + 1) = Comma
  <2> DEFINE v == Here = "r"
             l == [loc EXCEPT !.rpn = v]
  <2>1. Read("RS_InitVarName", 2, l)
    BY <1>2 DEF RS_InitVarType
  <2>2. v \in BOOLEAN
    OBVIOUS
  <2> HIDE DEF v
  <2>3. /\ l \in Locals /\ l.start = loc.start /\ l.keystate = loc.keystate
        /\ SameFlags(loc, l) /\ l.args = loc.args
    BY <2>2, Facts DEF Locals, SameFlags
  <2> HIDE DEF l
  <2>4. /\ at \in Int /\ at + 2 - 1 = at + 1 /\ text \in Texts /\ \A i : Char(i) = CharOf(text, i)
        /\ ~l.keystate /\ 2 \in Nat
    BY <1>1, <2>3, Facts, TextFacts DEF Inside
  <2>5. CharOf(text, at) # "!" /\ CharOf(text, at + 1) # "!" /\ CharOf(text, at + 2 - 1) \notin Digits
    BY <1>2, <2>4, TypeSymbols, SymbolKinds, NamedMarks DEF Here
  <2>6. ASSUME Faultless
        PROVE  /\ Quiet(text, BodyOf(loc, loc.start), at, at + 2)
               /\ CharOf(text, at + 2 - 1) \notin Digits
    <3>1. BodyOf(loc, loc.start) \in Int
      BY <1>1, <2>6, SaidInside DEF Inside
    <3>. QED  BY <2>4, <2>5, <3>1, QuietTwo
  <2>7. "RS_InitVarName" \notin Starting \union {"Between", "RS_Query", "RS_Keys", "RS_KeyState",
                                                "RS_Delay", "RS_MouseClickType"}
    BY DEF Starting
  <2>. QED  BY <1>1, <2>1, <2>3, <2>4, <2>6, <2>7, ReadPlain
<1>3. CASE ~(Here \in VarTypes \union {"r"} /\ Char(at + 1) = Comma)
  <2>1. Error
    BY <1>3 DEF RS_InitVarType
  <2>. QED  BY <2>1, ErrorSaid
<1>. QED  BY <1>2, <1>3

LEMMA RS_InitVarNameSaid ==
  ASSUME Inv, Said, text' = text, RS_InitVarName
  PROVE  Said'
<1>1. Inside /\ read_state \in Collecting
  BY InsideStates DEF RS_InitVarName, Collecting
<1>2. CASE Here \in KeyChars
  <2>1. Stay(read_state, loc) /\ Here \notin {"=", Comma, "?", "(", "!"}
    BY <1>2, SymbolKinds DEF RS_InitVarName
  <2>. QED  BY <1>1, <2>1, StaySaid
<1>3. CASE Here \notin KeyChars /\ Here = "="
  <2>1. Read("RS_InitVarValue", 1, [loc EXCEPT !.args = <<Span>>])
    BY <1>3 DEF RS_InitVarName
  <2>. QED  BY <1>1, <1>3, <2>1, NameSaid
<1>4. CASE Here \notin KeyChars /\ Here # "="
  <2>1. Error
    BY <1>4 DEF RS_InitVarName
  <2>. QED  BY <2>1, ErrorSaid
<1>. QED  BY <1>2, <1>3, <1>4

LEMMA RS_EditVarNameSaid ==
  ASSUME Inv, Said, text' = text, RS_EditVarName
  PROVE  Said'
<1>1. Inside /\ read_state \in Collecting
  BY InsideStates DEF RS_EditVarName, Collecting
<1>2. CASE Here \in KeyChars
  <2>1. Stay(read_state, loc) /\ Here \notin {"=", Comma, "?", "(", "!"}
    BY <1>2, SymbolKinds DEF RS_EditVarName
  <2>. QED  BY <1>1, <2>1, StaySaid
<1>3. CASE Here \notin KeyChars /\ Here = "=" /\ Argument \in names.variables
  <2>1. Read("RS_EditVarValue", 1, [loc EXCEPT !.args = <<Span>>])
    BY <1>3 DEF RS_EditVarName
  <2>. QED  BY <1>1, <1>3, <2>1, NameSaid
<1>4. CASE Here \notin KeyChars /\ ~(Here = "=" /\ Argument \in names.variables)
  <2>1. Error
    BY <1>4 DEF RS_EditVarName
  <2>. QED  BY <2>1, ErrorSaid
<1>. QED  BY <1>2, <1>3, <1>4

LEMMA InitVarRPNSaid ==
  ASSUME Inv, Said, text' = text, InitVarRPN
  PROVE  Said'
<1> DEFINE close == First(at + 2, {")", "?"})
           ends  == /\ Here \in VarTypes /\ Char(at + 1) = "("
                    /\ Char(close) = ")" /\ Char(close + 1) = Semicolon
           a     == <<at + 1, close>>
           args  == Append(loc.args, a)
           c     == Command("InitVar", args)
<1>1. Inside /\ read_state = "RS_InitVarValue"
  BY InsideStates DEF InitVarRPN
<1>2. \/ Error
      \/ parse_error' = TRUE
      \/ ends /\ Finish(Append(cmds, c), close + 1)
  BY Zenon DEF InitVarRPN
<1>3. CASE ends /\ Finish(Append(cmds, c), close + 1)
  <2>1. /\ Len(text) \in Nat /\ at \in Nat /\ text \in Texts /\ at + 2 \in Nat /\ at + 2 <= Len(text)
        /\ loc.args \in Seq(Int \X Int)
    <3>1. Char(at + 1) # NUL
      BY <1>3, Symbols
    <3>2. Len(text) \in Nat /\ at \in Nat /\ text \in Texts /\ loc.args \in Seq(Int \X Int)
      BY Facts
    <3>. QED  BY <3>1, <3>2, HereInside
  <2>2. close \in at + 2 .. Len(text)
    BY <2>1, FirstFacts
  <2>3. /\ Here \in VarTypes /\ Char(at + 1) = "(" /\ Char(close) = ")"
        /\ Char(close + 1) = Semicolon /\ Finish(Append(cmds, Command("InitVar", args)), close + 1)
    BY <1>3
  <2> HIDE DEF close, c
  <2>4. /\ close \in Int /\ close + 1 \in Nat /\ at <= close + 1 /\ at + 1 <= close
        /\ at \in Int /\ at + 1 \in Int /\ at + 1 - 1 = at /\ close < close + 1
        /\ a \in Int \X Int /\ a[1] = at + 1 /\ a[2] = close
    BY <2>1, <2>2
  <2> HIDE DEF a
  <2>5. args \in Seq(Int \X Int)
    BY <2>1, <2>4, Spans
  <2> HIDE DEF args
  <2>6. /\ CharOf(text, at) \notin Digits /\ CharOf(text, at) # "!"
        /\ CharOf(text, at + 1) = "(" /\ CharOf(text, close) = ")"
        /\ CharOf(text, close + 1) \notin Digits
    BY <2>1, <2>3, TypeSymbols, SymbolKinds, TextFacts DEF Here
  <2>7. ASSUME Faultless
        PROVE  /\ Quiet(text, BodyOf(loc, loc.start), at, close + 1)
               /\ ArgsOK(text, args, BodyOf(loc, loc.start), close + 1)
               /\ ArgsAlone(text, args, loc.start)
    <3> DEFINE b == BodyOf(loc, loc.start)
    <3>1. /\ ArgsOK(text, loc.args, b, mark) /\ ArgsAlone(text, loc.args, loc.start)
          /\ b \in Int /\ b <= mark /\ mark <= at /\ mark \in Int
      BY <1>1, <2>7, SaidArgs
    <3> HIDE DEF b
    <3>2. Quiet(text, b, at, at + 1) /\ Quiet(text, b, at + 1, close + 1)
      <4>1. b <= at + 1 /\ close + 1 \in Int
        BY <2>4, <3>1
      <4>. QED  BY <2>4, <2>6, <3>1, <4>1, QuietOne, QuietBracket
    <3>3. Quiet(text, b, at, close + 1)
      <4>1. close + 1 \in Int
        BY <2>4
      <4>. QED  BY <2>4, <3>1, <3>2, <4>1, QuietJoined
    <3>4. mark <= a[1] /\ b <= a[1] /\ mark <= close + 1
      BY <2>4, <3>1
    <3>5. ArgOK(text, a, b, close + 1)
      BY <2>4, <2>6, <3>4 DEF ArgOK
    <3>6. Alone(text, a, loc.start)
      BY <2>4, <2>6 DEF Alone
    <3>7. ArgsOK(text, args, b, close + 1)
      <4>1. close + 1 \in Int
        BY <2>4
      <4>. QED  BY <2>1, <2>4, <3>1, <3>4, <3>5, <4>1, ArgsMore DEF args
    <3>8. ArgsAlone(text, args, loc.start)
      BY <2>1, <2>4, <3>1, <3>6, AloneMore DEF args
    <3>. QED  BY <3>3, <3>7, <3>8 DEF b
  <2>8. read_state \notin Starting \union {"Between"} /\ ~Adding /\ read_state # "RS_PrintString"
    BY <1>1, InsideFacts DEF Inside
  <2>. QED  BY <2>3, <2>4, <2>5, <2>7, <2>8, Types, EmitSaid
<1>. QED  BY <1>2, <1>3, ErrorSaid, FailSaid

LEMMA InitVarNumberSaid ==
  ASSUME Inv, Said, text' = text, InitVarNumber
  PROVE  Said'
<1>1. Inside /\ read_state \in Collecting
  BY InsideStates DEF InitVarNumber, Collecting
<1> DEFINE args == Append(loc.args, Span)
<1>2. \/ Here \in Digits \union {".", "-"} /\ Stay(read_state, loc)
      \/ Here = Semicolon /\ Finish(Append(cmds, Command("InitVar", args)), at)
      \/ Error
  BY Zenon DEF InitVarNumber
<1>3. CASE Here \in Digits \union {".", "-"} /\ Stay(read_state, loc)
  <2>1. Here \notin {"=", Comma, "?", "(", "!"}
    BY <1>3, SymbolKinds, NamedMarks
  <2>. QED  BY <1>1, <1>3, <2>1, StaySaid
<1>4. CASE Here = Semicolon /\ Finish(Append(cmds, Command("InitVar", args)), at)
  <2>1. Here \notin Digits \union {"("} /\ args \in {<<Span>>, Append(loc.args, Span)}
    BY <1>4, SymbolKinds, NamedMarks
  <2> HIDE DEF args
  <2>. QED  BY <1>1, <1>4, <2>1, Types, SpanSaid
<1>. QED  BY <1>2, <1>3, <1>4, ErrorSaid

\* The string to print goes on.
LEMMA PrintMove ==
  ASSUME Inv, Said, text' = text, Inside, read_state = "RS_PrintString",
         NEW q \in Int, at <= q, NEW l \in Locals, SameFlags(loc, l), l.start = loc.start,
         l.keystate = loc.keystate,
         at' = q, loc' = l, UNCHANGED <<mark, read_state, cmds, parse_error>>,
         Faultless => ArgsOK(text, l.args, BodyOf(loc, loc.start), q)
  PROVE  Said'
<1>1. /\ ~Adding /\ ~Adding' /\ read_state' = "RS_PrintString"
      /\ read_state' \notin Starting \union {"Between"} /\ at \in Int /\ mark \in Int /\ loc \in Locals
  BY Facts DEF Adding, Inside
<1>2. ASSUME Faultless PROVE InsideSays(text, "RS_PrintString", mark, q, l)
  <2>1. /\ FlagsSay(text, read_state, at, loc) /\ BodyOf(loc, loc.start) <= mark
    BY <1>2, SaidInside DEF Inside
  <2>2. FlagsSay(text, "RS_PrintString", q, l)
    BY <1>1, <2>1, FlagsMove
  <2>3. BodyOf(l, l.start) = BodyOf(loc, loc.start)
    BY DEF BodyOf, SameFlags
  <2>4. ArgsSay(text, "RS_PrintString", mark, q, l)
    BY <1>2, <2>1, <2>3 DEF ArgsSay
  <2>5. StateSays(text, "RS_PrintString", mark, q, l)
    BY DEF StateSays, AtMark
  <2>. QED  BY <2>2, <2>4, <2>5 DEF InsideSays
<1>. QED  BY <1>1, <1>2, MoveSaid

LEMMA RS_PrintStringSaid ==
  ASSUME Inv, Said, text' = text, RS_PrintString
  PROVE  Said'
<1> DEFINE close == First(at + 1, {")", Semicolon})
           k == <<at, close>>
           a == Append(loc.args, k)
           l == [loc EXCEPT !.args = a]
<1>1. Inside /\ read_state = "RS_PrintString"
  BY InsideStates DEF RS_PrintString
<1>2. /\ read_state \notin Starting \union {"Between"} /\ ~Adding
      /\ at \in Nat /\ at \in Int /\ Len(text) \in Nat /\ text \in Texts /\ loc \in Locals
      /\ loc.args \in Seq(Int \X Int) /\ SameFlags(loc, loc)
      /\ at + 1 \in Int /\ at + 2 \in Int /\ at <= at + 1 /\ at <= at + 2 /\ at + 1 \in Nat
  BY <1>1, Facts, InsideFacts DEF Inside, SameFlags
<1>a. ASSUME Faultless
      PROVE  ArgsOK(text, loc.args, BodyOf(loc, loc.start), at) /\ BodyOf(loc, loc.start) \in Int
             /\ BodyOf(loc, loc.start) < at
  <2>1. ArgsSay(text, read_state, mark, at, loc) /\ BodyOf(loc, loc.start) \in Int
        /\ BodyOf(loc, loc.start) < at
    BY <1>1, <1>2, <1>a, SaidInside
  <2>. QED  BY <1>1, <2>1 DEF ArgsSay
<1>b. ASSUME Faultless, NEW q \in Int, at <= q
      PROVE  ArgsOK(text, loc.args, BodyOf(loc, loc.start), q)
  BY <1>2, <1>a, <1>b, ArgsLater
<1>3. \/ /\ Here = "(" /\ Char(close) = ")"
         /\ at' = close + 1 /\ loc' = l
         /\ UNCHANGED <<token_i, mark, read_state, cmds, names, parse_error>>
      \/ Emit("PrintString", loc.args, at + 1)
      \/ /\ at' = at + 2
         /\ UNCHANGED <<token_i, mark, read_state, loc, cmds, names, parse_error>>
      \/ Stay(read_state, loc)
      \/ Error
  BY Zenon DEF RS_PrintString
<1>4. CASE /\ Here = "(" /\ Char(close) = ")"
           /\ at' = close + 1 /\ loc' = l
           /\ UNCHANGED <<token_i, mark, read_state, cmds, names, parse_error>>
  <2>1. at + 1 \in Nat /\ at + 1 <= Len(text)
    <3>1. Here # NUL
      BY <1>4, Symbols
    <3>. QED  BY <1>2, <3>1, HereInside
  <2>2. close \in at + 1 .. Len(text)
    BY <1>2, <2>1, FirstFacts
  <2>3. /\ at' = close + 1 /\ loc' = l /\ UNCHANGED <<mark, read_state, cmds, parse_error>>
        /\ CharOf(text, at) = "(" /\ CharOf(text, close) = ")"
    BY <1>2, <1>4, TextFacts DEF Here
  <2> HIDE DEF close
  <2>4. /\ close \in Int /\ close + 1 \in Int /\ at <= close + 1 /\ close < close + 1
        /\ k \in Int \X Int /\ k[1] = at /\ k[2] = close /\ at <= at
    BY <1>2, <2>2
  <2> HIDE DEF k
  <2>5. a \in Seq(Int \X Int)
    BY <1>2, <2>4, Spans
  <2>6. ASSUME Faultless PROVE ArgsOK(text, a, BodyOf(loc, loc.start), close + 1)
    <3> DEFINE b == BodyOf(loc, loc.start)
    <3>1. ArgsOK(text, loc.args, b, at) /\ b \in Int /\ b < at
      BY <1>a, <2>6
    <3> HIDE DEF b
    <3>2. b <= at
      BY <1>2, <3>1
    <3>3. ArgOK(text, k, b, close + 1)
      BY <2>3, <2>4, <3>2 DEF ArgOK
    <3>4. at <= k[1]
      BY <2>4
    <3>. QED  BY <1>2, <2>4, <3>1, <3>3, <3>4, ArgsMore DEF b
  <2> HIDE DEF a
  <2>7. /\ l \in Locals /\ l.start = loc.start /\ l.keystate = loc.keystate
        /\ SameFlags(loc, l) /\ l.args = a
    BY <1>2, <2>5 DEF Locals, SameFlags
  <2> HIDE DEF l
  <2>. QED  BY <1>1, <2>3, <2>4, <2>6, <2>7, PrintMove
<1>5. CASE Emit("PrintString", loc.args, at + 1)
  <2>1. Finish(Append(cmds, Command("PrintString", loc.args)), at + 1)
    BY <1>5 DEF Emit
  <2>2. ~Apart(text, "PrintString", BodyOf(loc, loc.start))
    BY DEF Apart
  <2>3. Faultless => ArgsOK(text, loc.args, BodyOf(loc, loc.start), at + 1)
    BY <1>2, <1>b
  <2>. QED  BY <1>2, <2>1, <2>2, <2>3, Types, EmitSaid
<1>6. CASE /\ at' = at + 2
           /\ UNCHANGED <<token_i, mark, read_state, loc, cmds, names, parse_error>>
  <2>1. Faultless => ArgsOK(text, loc.args, BodyOf(loc, loc.start), at + 2)
    BY <1>2, <1>b
  <2>. QED  BY <1>1, <1>2, <1>6, <2>1, PrintMove
<1>7. CASE Stay(read_state, loc)
  <2>1. at' = at + 1 /\ loc' = loc /\ UNCHANGED <<mark, read_state, cmds, parse_error>>
    BY <1>7 DEF Stay
  <2>2. Faultless => ArgsOK(text, loc.args, BodyOf(loc, loc.start), at + 1)
    BY <1>2, <1>b
  <2>. QED  BY <1>1, <1>2, <2>1, <2>2, PrintMove
<1>. QED  BY <1>3, <1>4, <1>5, <1>6, <1>7, ErrorSaid

LEMMA RS_DebugTypeSaid ==
  ASSUME Inv, Said, text' = text, RS_DebugType
  PROVE  Said'
<1>1. Inside /\ read_state \notin {"RS_PrintString", "RS_MouseClickType"}
  BY InsideStates DEF RS_DebugType
<1>2. \/ Error
      \/ /\ Here \in {"debug_print_type", "rpn_decimals", "rpn_stack_debug"}
         /\ Char(at + 1) = "=" /\ Read("RS_DebugValue", 2, loc)
  BY Zenon DEF RS_DebugType
<1>3. CASE /\ Here \in {"debug_print_type", "rpn_decimals", "rpn_stack_debug"}
           /\ Char(at + 1) = "=" /\ Read("RS_DebugValue", 2, loc)
  <2>1. /\ at \in Int /\ at + 2 - 1 = at + 1 /\ text \in Texts /\ \A i : Char(i) = CharOf(text, i)
        /\ loc \in Locals /\ ~loc.keystate /\ 2 \in Nat /\ SameFlags(loc, loc)
    BY <1>1, Facts, TextFacts DEF Inside, SameFlags
  <2>2. CharOf(text, at) # "!" /\ CharOf(text, at + 1) # "!" /\ CharOf(text, at + 2 - 1) \notin Digits
    BY <1>3, <2>1, TypeSymbols, SymbolKinds DEF Here
  <2>3. ASSUME Faultless
        PROVE  /\ Quiet(text, BodyOf(loc, loc.start), at, at + 2)
               /\ CharOf(text, at + 2 - 1) \notin Digits
    <3>1. BodyOf(loc, loc.start) \in Int
      BY <1>1, <2>3, SaidInside DEF Inside
    <3>. QED  BY <2>1, <2>2, <3>1, QuietTwo
  <2>4. "RS_DebugValue" \notin Starting \union {"Between", "RS_Query", "RS_Keys", "RS_KeyState",
                                               "RS_Delay", "RS_MouseClickType"}
    BY DEF Starting
  <2>. QED  BY <1>1, <1>3, <2>1, <2>3, <2>4, ReadPlain
<1>. QED  BY <1>2, <1>3, ErrorSaid

LEMMA RS_DebugValueSaid ==
  ASSUME Inv, Said, text' = text, RS_DebugValue
  PROVE  Said'
<1>1. Inside /\ read_state \in Collecting
  BY InsideStates DEF RS_DebugValue, Collecting
<1>2. \/ Here \in Digits /\ Stay(read_state, loc)
      \/ Here = Semicolon /\ Emit("DebugConfig", <<Span>>, at)
      \/ Error
  BY Zenon DEF RS_DebugValue
<1>3. CASE Here \in Digits /\ Stay(read_state, loc)
  <2>1. Here \notin {"=", Comma, "?", "(", "!"}
    BY <1>3, SymbolKinds
  <2>. QED  BY <1>1, <1>3, <2>1, StaySaid
<1>4. CASE Here = Semicolon /\ Emit("DebugConfig", <<Span>>, at)
  <2>1. Here \notin Digits \union {"("} /\ Finish(Append(cmds, Command("DebugConfig", <<Span>>)), at)
    BY <1>4, SymbolKinds, NamedMarks DEF Emit
  <2>. QED  BY <1>1, <2>1, Types, SpanSaid
<1>. QED  BY <1>2, <1>3, <1>4, ErrorSaid

-------------------------------------------------------------------------------
(* The states before a command, and what is said. *)

\* The call goes on before a command, or returns without one.
LEMMA StartsOnSaid ==
  ASSUME Inv, Said, text' = text, ~Adding, read_state' \in Starting \union {"Between"},
         UNCHANGED <<cmds, parse_error>>,
         Faultless /\ read_state' \in Starting => StartSays(text, read_state', mark', at', loc')
  PROVE  Said'
<1>1. PrefixesStand' = PrefixesStand
  BY DEF PrefixesStand
<1>2. ~Adding'
  BY DEF Adding, Starting
<1>3. Whole' = Whole
  BY <1>2 DEF Whole
<1>. QED  BY <1>1, <1>2, <1>3 DEF Said, Faultless

\* A prefix stands here if its keyword does.
LEMMA PrefixHere ==
  ASSUME text \in Texts, at \in Nat
  PROVE  Starts(PrintPrefix) <=> PrefixAt(text, at)
<1>1. /\ DOMAIN PrintPrefix = {1, 2, 3}
      /\ PrintPrefix[1] = "PRINT" /\ PrintPrefix[2] = ">" /\ PrintPrefix[3] = ">"
  BY DEF PrintPrefix
<1>2. at + 1 - 1 = at /\ at + 2 - 1 = at + 1 /\ at + 3 - 1 = at + 2
  OBVIOUS
<1>3. \A i : Char(i) = CharOf(text, i)
  BY TextFacts
<1>4. Starts(PrintPrefix) <=> Char(at) = "PRINT" /\ Char(at + 1) = ">" /\ Char(at + 2) = ">"
  BY <1>1, <1>2 DEF Starts
<1>. QED  BY <1>3, <1>4 DEF PrefixAt

\* Where the first character of a command is read.
LEMMA BodyHere ==
  ASSUME Inv, Said, Faultless, read_state = "RS_Start"
  PROVE  /\ at = BodyOf(loc, loc.start) /\ mark = at /\ at \in Nat /\ loc.start \in Nat
         /\ loc.start <= at /\ loc.args = <<>>
         /\ ~loc.invert /\ ~loc.store /\ loc.comb = "NONE"
         /\ at > loc.start => CharOf(text, at - 1) \notin Digits
         /\ loc.print => /\ PrefixAt(text, loc.start) /\ ~Starts(PrintPrefix)
                         /\ CharOf(text, at) \notin Blanks \union {"#"}
         /\ ~Starts(PrintPrefix) => (loc.print <=> PrefixAt(text, loc.start))
<1>1. StartSays(text, read_state, mark, at, loc)
  BY DEF Said, Faultless, Starting
<1>2. /\ text \in Texts /\ at \in Nat /\ loc.start \in Nat
      /\ at = BodyOf(loc, loc.start) /\ mark = at
      /\ loc.print => PrefixAt(text, loc.start)
  BY <1>1, Facts DEF StartSays
<1>3. CASE loc.print
  <2>1. at = loc.start + 3 /\ at - 1 = loc.start + 2
    BY <1>2, <1>3 DEF BodyOf
  <2>2. CharOf(text, at) \notin Blanks \union {"#"} /\ ~PrefixAt(text, at)
    BY <1>2, <1>3, <2>1 DEF Faultless, PrefixesStand
  <2>3. CharOf(text, at - 1) \notin Digits
    BY <1>2, <1>3, <2>1, SymbolKinds DEF PrefixAt
  <2>. QED  BY <1>1, <1>2, <1>3, <2>1, <2>2, <2>3, PrefixHere DEF StartSays
<1>4. CASE ~loc.print
  <2>1. at = loc.start
    BY <1>2, <1>4 DEF BodyOf
  <2>. QED  BY <1>1, <1>2, <1>4, <2>1, PrefixHere DEF StartSays
<1>. QED  BY <1>3, <1>4

LEMMA StartPrintSaid ==
  ASSUME Inv, Said, text' = text, StartPrint
  PROVE  Said'
<1> DEFINE l == [loc EXCEPT !.print = TRUE]
<1>1. /\ read_state = "RS_Start" /\ Starts(PrintPrefix) /\ Len(PrintPrefix) = 3
      /\ Read("RS_Start", 3, l)
  BY DEF StartPrint, PrintPrefix
<1>2. /\ at' = at + 3 /\ mark' = at + 3 /\ read_state' = "RS_Start" /\ loc' = l
      /\ UNCHANGED <<cmds, parse_error>>
  BY <1>1 DEF Read
<1>3. /\ l.start = loc.start /\ l.print = TRUE /\ l.args = loc.args /\ l.invert = loc.invert
      /\ l.store = loc.store /\ l.comb = loc.comb
  BY Facts DEF Locals
<1>4. read_state \in Starting /\ read_state' \in Starting \union {"Between"}
  BY <1>1, <1>2 DEF Starting
<1>5. ~Adding /\ text \in Texts /\ at \in Nat
  BY <1>4, StartingFacts, Facts
<1> HIDE DEF l
<1>6. ASSUME Faultless PROVE StartSays(text, "RS_Start", at + 3, at + 3, l)
  <2>1. ~loc.print /\ at = BodyOf(loc, loc.start)
        /\ loc.args = <<>> /\ ~loc.invert /\ ~loc.store /\ loc.comb = "NONE"
    BY <1>1, <1>6, BodyHere
  <2>2. at = loc.start
    BY <2>1 DEF BodyOf
  <2>3. PrefixAt(text, loc.start)
    BY <1>1, <1>5, <2>2, PrefixHere
  <2>4. at + 3 = BodyOf(l, l.start)
    BY <1>3, <2>2 DEF BodyOf
  <2>. QED  BY <1>3, <2>1, <2>3, <2>4 DEF StartSays
<1>. QED  BY <1>2, <1>4, <1>5, <1>6, StartsOnSaid

\* One character before a command is passed.
LEMMA PassSaid ==
  ASSUME Inv, Said, text' = text, read_state \in Starting,
         at' = at + 1, read_state' \in Starting, read_state' = "RS_Start" => mark' = at + 1,
         loc' = [loc EXCEPT !.start = @ + 1], UNCHANGED <<cmds, parse_error>>,
         Faultless => ~loc.print
  PROVE  Said'
<1> DEFINE l == [loc EXCEPT !.start = @ + 1]
<1>1. /\ l.start = loc.start + 1 /\ l.print = loc.print /\ l.args = loc.args
      /\ l.invert = loc.invert /\ l.store = loc.store /\ l.comb = loc.comb
  BY Facts DEF Locals
<1>2. loc' = l /\ ~Adding /\ at \in Nat /\ loc.start \in Nat
  BY StartingFacts, Facts
<1> HIDE DEF l
<1>3. ASSUME Faultless PROVE StartSays(text, read_state', mark', at', l)
  <2>1. StartSays(text, read_state, mark, at, loc) /\ ~loc.print
    BY <1>3 DEF Said, Faultless
  <2>2. at = loc.start
    BY <2>1 DEF StartSays, BodyOf
  <2>3. at + 1 = BodyOf(l, l.start)
    BY <1>1, <2>1, <2>2 DEF BodyOf
  <2>. QED  BY <1>1, <1>2, <2>1, <2>3 DEF StartSays
<1>. QED  BY <1>2, <1>3, StartsOnSaid

LEMMA RS_CommentsSaid ==
  ASSUME Inv, Said, text' = text, RS_Comments
  PROVE  Said'
<1> DEFINE l == [loc EXCEPT !.start = @ + 1]
<1>1. read_state \in Starting /\ read_state = "RS_Comments"
  BY DEF RS_Comments, Starting
<1>2. ASSUME Faultless PROVE ~loc.print
  <2>1. StartSays(text, read_state, mark, at, loc)
    BY <1>1, <1>2 DEF Said, Faultless
  <2>. QED  BY <1>1, <2>1 DEF StartSays
<1>3. \/ Read("RS_Start", 1, l)
      \/ Return(at + 1) /\ UNCHANGED <<cmds, names, parse_error>>
      \/ Stay("RS_Comments", l)
  BY Zenon DEF RS_Comments
<1>4. CASE Read("RS_Start", 1, l)
  <2>1. /\ at' = at + 1 /\ mark' = at + 1 /\ read_state' = "RS_Start" /\ loc' = l
        /\ UNCHANGED <<cmds, parse_error>>
    BY <1>4 DEF Read
  <2>2. read_state' \in Starting
    BY <2>1 DEF Starting
  <2>. QED  BY <1>1, <1>2, <2>1, <2>2, PassSaid
<1>5. CASE Return(at + 1) /\ UNCHANGED <<cmds, names, parse_error>>
  <2>1. read_state' = "Between" /\ read_state' \notin Starting /\ UNCHANGED <<cmds, parse_error>>
    BY <1>5 DEF Return, Starting
  <2>. QED  BY <1>1, <2>1, StartingFacts, StartsOnSaid
<1>6. CASE Stay("RS_Comments", l)
  <2>1. /\ at' = at + 1 /\ read_state' = "RS_Comments" /\ loc' = l
        /\ UNCHANGED <<cmds, parse_error>>
    BY <1>6 DEF Stay
  <2>2. read_state' \in Starting
    BY <2>1 DEF Starting
  <2>. QED  BY <1>1, <1>2, <2>1, <2>2, PassSaid
<1>. QED  BY <1>3, <1>4, <1>5, <1>6

LEMMA CallSaid ==
  ASSUME Inv, Said, Call
  PROVE  Said'
<1> DEFINE l == [NoLocals EXCEPT !.start = token_i]
<1>1. /\ read_state = "Between" /\ read_state' = "RS_Start" /\ mark' = token_i /\ at' = token_i
      /\ loc' = l /\ text' = text /\ UNCHANGED <<cmds, parse_error>>
  BY DEF Call
<1>2. /\ l.start = token_i /\ l.print = FALSE /\ l.args = <<>>
      /\ l.invert = FALSE /\ l.store = FALSE /\ l.comb = "NONE"
  BY DEF NoLocals
<1> HIDE DEF l
<1>3. token_i = BodyOf(l, l.start)
  BY <1>2 DEF BodyOf
<1>4. StartSays(text, "RS_Start", token_i, token_i, l)
  BY <1>2, <1>3 DEF StartSays
<1>5. ~Adding /\ read_state' \in Starting \union {"Between"}
  BY <1>1 DEF Adding, Starting
<1>. QED  BY <1>1, <1>4, <1>5, StartsOnSaid

LEMMA InitSaid ==
  ASSUME Init
  PROVE  Said
<1>1. read_state = "Between" /\ cmds = <<>> /\ Len(cmds) = 0
  BY DEF Init
<1>2. ~Adding /\ Whole = 0 /\ read_state \notin Starting
  BY <1>1 DEF Adding, Whole, Starting
<1>. QED  BY <1>1, <1>2 DEF Said

LEMMA StutterSaid ==
  ASSUME Said, UNCHANGED vars
  PROVE  Said'
  BY DEF Said, Whole, Adding, PrefixesStand, Command, vars

\* Behind the opening b .. q - 1 of a command its flags are those of its first symbols.
LEMMA OpensSay ==
  ASSUME NEW t, NEW s, NEW b \in Int, NEW q \in Int, b < q, NEW l \in Locals, BodyOf(l, l.start) = b,
         l.print <=> PrefixAt(t, l.start),
         l.store <=> (CharOf(t, b) = "JTS" /\ CharOf(t, b + 1) = ">"),
         l.comb = "OR" <=> CharOf(t, b) = "|", l.comb = "AND" <=> CharOf(t, b) = "&",
         l.comb # "CUSTOM",
         l.invert <=> CharOf(t, b) = "!", \A k \in b + 1 .. q - 1 : CharOf(t, k) # "!",
         s = "RS_Query" => CharOf(t, b) \in {"?", "|", "&"} /\ Unbracketed(t, b, q)
  PROVE  FlagsSay(t, s, q, l)
<1>1. FlagsAre(t, l, l.start, b, q)
  BY DEF FlagsAre
<1>2. Quiet(t, b, b + 1, q)
  BY QuietPlain
<1>3. MarksAre(t, l, b, q)
  <2>0. OwnMarks(t, b, q) = OwnMarks(t, b, b + 1)
    <3>1. b + 1 \in Int /\ b + 1 <= q
      OBVIOUS
    <3>. QED  BY <1>2, <3>1, MarksKept
  <2>1. CASE CharOf(t, b) = "!"
    <3>1. Unbracketed(t, b, b)
      BY DEF Unbracketed
    <3>2. Quiet(t, b, b, b)
      BY QuietEmpty
    <3>3. Cardinality(OwnMarks(t, b, b)) % 2 # 1
      BY <3>2, NoMarks
    <3>4. Cardinality(OwnMarks(t, b, b + 1)) % 2 = 1
      BY <2>1, <3>1, <3>3, MarkAdded
    <3>. QED  BY <2>0, <2>1, <3>4 DEF MarksAre
  <2>2. CASE CharOf(t, b) # "!"
    <3>1. Quiet(t, b, b, b + 1)
      BY <2>2, QuietOne
    <3>2. b + 1 \in Int
      OBVIOUS
    <3>3. Cardinality(OwnMarks(t, b, b + 1)) % 2 # 1
      BY <3>1, <3>2, NoMarks
    <3>. QED  BY <2>0, <2>2, <3>3 DEF MarksAre
  <2>. QED  BY <2>1, <2>2
<1>. QED  BY <1>1, <1>3 DEF FlagsSay

LEMMA OpensArgs ==
  ASSUME NEW t, NEW s, NEW m \in Int, NEW p \in Int, NEW l \in Locals, BodyOf(l, l.start) <= m,
         l.args = <<>>, m > l.start => CharOf(t, m - 1) \notin Digits, Clean(t, m, p)
  PROVE  ArgsSay(t, s, m, p, l)
  BY NoArgs DEF ArgsSay

\* A command is opened, and its first argument starts behind n symbols.
LEMMA OpenSaid ==
  ASSUME Inv, Said, text' = text, read_state = "RS_Start", ~Starts(PrintPrefix),
         NEW n \in Nat, n > 0, NEW l \in Locals, l.start = loc.start, l.print = loc.print,
         l.args = loc.args, ~l.keystate,
         Faultless =>
           /\ l.store <=> (CharOf(text, at) = "JTS" /\ CharOf(text, at + 1) = ">")
           /\ l.comb = "OR" <=> CharOf(text, at) = "|"
           /\ l.comb = "AND" <=> CharOf(text, at) = "&"
           /\ l.comb # "CUSTOM"
           /\ l.invert <=> CharOf(text, at) = "!",
         \A k \in at + 1 .. at + n - 1 : CharOf(text, k) # "!",
         CharOf(text, at + n - 1) \notin Digits,
         NEW state, state \notin Starting \union {"Between", "RS_Keys", "RS_KeyState", "RS_DelayValue",
                                                  "RS_MouseClickState"},
         state = "RS_Delay" => n = 1,
         state = "RS_Query" => n = 1 /\ CharOf(text, at) \in {"?", "|", "&"},
         Read(state, n, l)
  PROVE  Said'
<1>1. /\ at' = at + n /\ mark' = at + n /\ read_state' = state /\ loc' = l
      /\ UNCHANGED <<cmds, parse_error>>
  BY DEF Read
<1>2. at \in Nat /\ at \in Int /\ at + n \in Int /\ at < at + n /\ at <= at + n /\ ~Adding /\ ~Adding'
  BY <1>1, Facts DEF Adding
<1>3. ASSUME Faultless PROVE InsideSays(text, state, at + n, at + n, l)
  <2>1. /\ at = BodyOf(loc, loc.start) /\ loc.args = <<>>
        /\ loc.print <=> PrefixAt(text, loc.start)
    BY <1>3, BodyHere
  <2>2. BodyOf(l, l.start) = at /\ l.args = <<>> /\ (l.print <=> PrefixAt(text, l.start))
    BY <2>1 DEF BodyOf
  <2>3. state = "RS_Query" => CharOf(text, at) \in {"?", "|", "&"} /\ Unbracketed(text, at, at + n)
    <3> SUFFICES ASSUME state = "RS_Query" PROVE Unbracketed(text, at, at + n)
      OBVIOUS
    <3> DEFINE q == at + n
    <3>1. \A h \in at .. q - 1 : h = at
      BY <1>2
    <3>2. CharOf(text, at) # "("
      OBVIOUS
    <3> HIDE DEF q
    <3>3. \A h \in at .. q - 1 : CharOf(text, h) # "("
      BY <3>1, <3>2
    <3>4. Unbracketed(text, at, q)
      BY <3>3 DEF Unbracketed
    <3>. QED  BY <3>4 DEF q
  <2>4. FlagsSay(text, state, at + n, l)
    <3> DEFINE q == at + n
    <3>1. q \in Int /\ at < q /\ (\A k \in at + 1 .. q - 1 : CharOf(text, k) # "!")
      BY <1>2
    <3>2. state = "RS_Query" => CharOf(text, at) \in {"?", "|", "&"} /\ Unbracketed(text, at, q)
      BY <2>3
    <3> HIDE DEF q
    <3>3. /\ l.store <=> (CharOf(text, at) = "JTS" /\ CharOf(text, at + 1) = ">")
          /\ l.comb = "OR" <=> CharOf(text, at) = "|"
          /\ l.comb = "AND" <=> CharOf(text, at) = "&"
          /\ l.comb # "CUSTOM"
          /\ l.invert <=> CharOf(text, at) = "!"
      BY <1>3
    <3>4. FlagsSay(text, state, q, l)
      BY <1>2, <2>2, <3>1, <3>2, <3>3, OpensSay
    <3>. QED  BY <3>4 DEF q
  <2>5. ArgsSay(text, state, at + n, at + n, l)
    <3> DEFINE q == at + n
    <3>1. q \in Int /\ at <= q /\ CharOf(text, q - 1) \notin Digits
      BY <1>2
    <3> HIDE DEF q
    <3>2. Clean(text, q, q)
      BY <3>1 DEF Clean
    <3>3. ArgsSay(text, state, q, q, l)
      BY <2>2, <3>1, <3>2, OpensArgs
    <3>. QED  BY <3>3 DEF q
  <2>6. StateSays(text, state, at + n, at + n, l)
    BY <2>2 DEF StateSays
  <2>. QED  BY <2>4, <2>5, <2>6 DEF InsideSays
<1>. QED  BY <1>1, <1>2, <1>3, MoveSaid

\* What the words that commands begin with are made of.
LEMMA OpeningWordsSay ==
  ASSUME NEW o \in Openings, NEW n \in {2, 3}, DOMAIN o.word = 1 .. n
  PROVE  /\ o.word[1] \notin {"PRINT", "?", "|", "&"} /\ o.word[n] \notin Digits
         /\ \A i \in 2 .. n : o.word[i] # "!"
         /\ o.word[1] = "JTS" => o.word[2] = ">"
         /\ o.state \notin Starting \union {"Between", "RS_Keys", "RS_KeyState", "RS_DelayValue",
                                            "RS_MouseClickState", "RS_Delay", "RS_Query"}
<1>1. "=" \notin Digits /\ ">" \notin Digits /\ Comma \notin Digits /\ Comma # "!"
  BY SymbolKinds, NamedMarks
<1>2. \/ \E a \in {"init", "edit", "debug"} : o.word = <<a, Comma>>
      \/ \E a \in {"JTIA", "JTIR", "JT", "JTS", "JF"} : o.word = <<a, ">">>
      \/ \E a \in {"mma", "mmr", "wait_key", "wait_button", "wait_buttonc", "grab_key", "ungrab_key",
                   "grab_button", "ungrab_button", "print", "println"} : o.word = <<a, "=">>
      \/ \E a \in {"wait_key", "wait_button"} : o.word = <<"!", a, "=">>
  BY DEF Openings
<1>3. CASE \E a \in {"init", "edit", "debug"} : o.word = <<a, Comma>>
  <2>1. n = 2 /\ o.word[1] \in {"init", "edit", "debug"} /\ o.word[2] = Comma
    BY <1>3
  <2>2. \A i \in 2 .. n : i = 2
    BY <2>1
  <2>3. o.state \notin Starting \union {"Between", "RS_Keys", "RS_KeyState", "RS_DelayValue",
                                        "RS_MouseClickState", "RS_Delay", "RS_Query"}
    BY DEF Openings, Starting
  <2>. QED  BY <1>1, <2>1, <2>2, <2>3
<1>4. CASE \E a \in {"JTIA", "JTIR", "JT", "JTS", "JF"} : o.word = <<a, ">">>
  <2>1. n = 2 /\ o.word[1] \in {"JTIA", "JTIR", "JT", "JTS", "JF"} /\ o.word[2] = ">"
    BY <1>4
  <2>2. \A i \in 2 .. n : i = 2
    BY <2>1
  <2>3. o.state \notin Starting \union {"Between", "RS_Keys", "RS_KeyState", "RS_DelayValue",
                                        "RS_MouseClickState", "RS_Delay", "RS_Query"}
    BY DEF Openings, Starting
  <2>. QED  BY <1>1, <2>1, <2>2, <2>3
<1>5. CASE \E a \in {"mma", "mmr", "wait_key", "wait_button", "wait_buttonc", "grab_key",
                     "ungrab_key", "grab_button", "ungrab_button", "print", "println"} :
             o.word = <<a, "=">>
  <2>1. n = 2 /\ o.word[1] \in {"mma", "mmr", "wait_key", "wait_button", "wait_buttonc", "grab_key",
                                "ungrab_key", "grab_button", "ungrab_button", "print", "println"}
        /\ o.word[2] = "="
    BY <1>5
  <2>2. \A i \in 2 .. n : i = 2
    BY <2>1
  <2>3. o.state \notin Starting \union {"Between", "RS_Keys", "RS_KeyState", "RS_DelayValue",
                                        "RS_MouseClickState", "RS_Delay", "RS_Query"}
    BY DEF Openings, Starting
  <2>. QED  BY <1>1, <2>1, <2>2, <2>3
<1>6. CASE \E a \in {"wait_key", "wait_button"} : o.word = <<"!", a, "=">>
  <2>1. n = 3 /\ o.word[1] = "!" /\ o.word[2] \in {"wait_key", "wait_button"} /\ o.word[3] = "="
    BY <1>6
  <2>2. \A i \in 2 .. n : i = 2 \/ i = 3
    BY <2>1
  <2>3. o.state \notin Starting \union {"Between", "RS_Keys", "RS_KeyState", "RS_DelayValue",
                                        "RS_MouseClickState", "RS_Delay", "RS_Query"}
    BY DEF Openings, Starting
  <2>. QED  BY <1>1, <2>1, <2>2, <2>3
<1>. QED  BY <1>2, <1>3, <1>4, <1>5, <1>6

\* A word that does not begin with it is no prefix.
LEMMA NoPrefix ==
  ASSUME text \in Texts, at \in Nat, Here # "PRINT"
  PROVE  ~Starts(PrintPrefix)
  BY PrefixHere, TextFacts DEF PrefixAt, Here

LEMMA StartOpeningSaid ==
  ASSUME Inv, Said, text' = text, StartOpening
  PROVE  Said'
<1>1. read_state = "RS_Start" /\ read_state \in Starting
  BY DEF StartOpening, Starting
<1>2. PICK o \in Openings :
        /\ Starts(o.word)
        /\ Read(o.state, Len(o.word),
                [loc EXCEPT !.invert = (o.word[1] = "!"), !.store = (o.word[1] = "JTS")])
  BY DEF StartOpening
<1> DEFINE v == (o.word[1] = "!")
           w == (o.word[1] = "JTS")
           l == [loc EXCEPT !.invert = v, !.store = w]
<1>3. PICK n \in {2, 3} : Len(o.word) = n /\ DOMAIN o.word = 1 .. n /\ o.word[n] # NUL
  BY OpeningWords
<1>4. Read(o.state, n, l) /\ v \in BOOLEAN /\ w \in BOOLEAN
  BY <1>2, <1>3
<1>5. /\ o.word[1] \notin {"PRINT", "?", "|", "&"} /\ o.word[n] \notin Digits
      /\ \A i \in 2 .. n : o.word[i] # "!"
      /\ o.word[1] = "JTS" => o.word[2] = ">"
      /\ o.state \notin Starting \union {"Between", "RS_Keys", "RS_KeyState", "RS_DelayValue",
                                         "RS_MouseClickState", "RS_Delay", "RS_Query"}
  BY <1>3, OpeningWordsSay
<1>6. text \in Texts /\ at \in Nat /\ n \in Nat /\ n > 0 /\ loc \in Locals /\ ~loc.keystate
  BY <1>1, Facts, StartingFacts
<1>7. \A i \in 1 .. n : CharOf(text, at + i - 1) = o.word[i]
  BY <1>2, <1>3, <1>6, StartsSay
<1>8. CharOf(text, at) = o.word[1] /\ CharOf(text, at + 1) = o.word[2]
      /\ CharOf(text, at + n - 1) = o.word[n]
  <2>1. 1 \in 1 .. n /\ 2 \in 1 .. n /\ n \in 1 .. n /\ at + 1 - 1 = at /\ at + 2 - 1 = at + 1
    BY <1>6
  <2>2. CharOf(text, at + 1 - 1) = o.word[1] /\ CharOf(text, at + 2 - 1) = o.word[2]
        /\ CharOf(text, at + n - 1) = o.word[n]
    BY <1>7, <2>1
  <2>. QED  BY <2>1, <2>2
<1>9. \A k \in at + 1 .. at + n - 1 : CharOf(text, k) # "!"
  <2> TAKE k \in at + 1 .. at + n - 1
  <2>1. k - at + 1 \in 2 .. n /\ k - at + 1 \in 1 .. n /\ at + (k - at + 1) - 1 = k
    BY <1>6
  <2>. QED  BY <1>5, <1>7, <2>1
<1>10. ~Starts(PrintPrefix)
  BY <1>5, <1>6, <1>8, NoPrefix, TextFacts DEF Here
<1> HIDE DEF v, w
<1>11. /\ l \in Locals /\ l.start = loc.start /\ l.keystate = loc.keystate
       /\ l.print = loc.print /\ l.args = loc.args /\ l.comb = loc.comb
       /\ l.invert = v /\ l.store = w
  BY <1>4, <1>6 DEF Locals
<1> HIDE DEF l
<1>12. ASSUME Faultless
       PROVE  /\ l.store <=> (CharOf(text, at) = "JTS" /\ CharOf(text, at + 1) = ">")
              /\ l.comb = "OR" <=> CharOf(text, at) = "|"
              /\ l.comb = "AND" <=> CharOf(text, at) = "&"
              /\ l.comb # "CUSTOM"
              /\ l.invert <=> CharOf(text, at) = "!"
  <2>1. loc.comb = "NONE"
    BY <1>1, <1>12, BodyHere
  <2>2. (v <=> o.word[1] = "!") /\ (w <=> o.word[1] = "JTS")
    BY DEF v, w
  <2>3. l.comb = "NONE"
    BY <1>11, <2>1
  <2>4. l.invert <=> CharOf(text, at) = "!"
    BY <1>8, <1>11, <2>2
  <2>5. l.store <=> (CharOf(text, at) = "JTS" /\ CharOf(text, at + 1) = ">")
    BY <1>5, <1>8, <1>11, <2>2
  <2>6. CharOf(text, at) # "|" /\ CharOf(text, at) # "&"
    BY <1>5, <1>8
  <2>. QED  BY <2>3, <2>4, <2>5, <2>6
<1>13. CharOf(text, at + n - 1) \notin Digits
  BY <1>5, <1>8
<1>14. /\ o.state \notin Starting \union {"Between", "RS_Keys", "RS_KeyState", "RS_DelayValue",
                                          "RS_MouseClickState"}
       /\ o.state # "RS_Delay" /\ o.state # "RS_Query"
  BY <1>5
<1>. QED  BY <1>1, <1>4, <1>6, <1>9, <1>10, <1>11, <1>12, <1>13, <1>14, OpenSaid

\* The commands without arguments, too.
LEMMA SimpleWordsSay ==
  ASSUME NEW t \in DOMAIN Simple
  PROVE  /\ Simple[t][1] \notin {"PRINT", "JTS", "?", "|", "&", "!"}
         /\ \A i \in DOMAIN Simple[t] : Simple[t][i] # "!"
         /\ t # "PrintString"
<1>1. Semicolon # "!"
  BY NamedMarks
<1>2. \/ \E a \in {"exit", "pass", "ungrab_keys", "ungrab_buttons", "save_mma", "load_mma",
                   "rep_reset"} : Simple[t] = <<a, Semicolon>>
      \/ Simple[t] = <<"JB", ">", Semicolon>>
  BY DEF Simple
<1>3. t # "PrintString"
  BY DEF Simple
<1>4. CASE \E a \in {"exit", "pass", "ungrab_keys", "ungrab_buttons", "save_mma", "load_mma",
                     "rep_reset"} : Simple[t] = <<a, Semicolon>>
  BY <1>1, <1>3, <1>4
<1>5. CASE Simple[t] = <<"JB", ">", Semicolon>>
  BY <1>1, <1>3, <1>5
<1>. QED  BY <1>2, <1>4, <1>5

LEMMA StartSimpleSaid ==
  ASSUME Inv, Said, text' = text, StartSimple
  PROVE  Said'
<1>1. read_state = "RS_Start" /\ read_state \in Starting /\ read_state # "Between"
  BY DEF StartSimple, Starting
<1>2. PICK t \in DOMAIN Simple : Starts(Simple[t]) /\ Emit(t, <<>>, at + SimpleLength(t))
  BY DEF StartSimple
<1>3. PICK n \in {2, 3} : Len(Simple[t]) = n /\ DOMAIN Simple[t] = 1 .. n
                          /\ Simple[t][n] = Semicolon
  BY SimpleWords
<1>4. /\ text \in Texts /\ at \in Nat /\ Len(text) \in Nat /\ ~Adding /\ n \in Nat /\ n > 0
      /\ Whole = Len(cmds) /\ cmds \in Seq(CommandRec) /\ Len(cmds) \in Nat /\ loc \in Locals
  BY <1>1, Facts, StartingFacts
<1> DEFINE e == at + SimpleLength(t)
           c == Command(t, <<>>)
           arr == Append(cmds, c)
<1>5. Finish(arr, e)
  BY <1>2 DEF Emit
<1>6. e = at + n \/ e = at + n - 1
  BY <1>3, <1>4 DEF SimpleLength
<1>7. t \in CommandTypes /\ <<>> \in Seq(Int \X Int)
  BY SimpleWords, Spans
<1>8. c \in CommandRec
  BY <1>4, <1>7, CommandTyped
<1>9. SameFlags(loc, c) /\ c.type = t /\ c.args = <<>>
  BY CommandSame
<1> HIDE DEF c, e
<1>10. /\ arr \in Seq(CommandRec) /\ Len(arr) = Len(cmds) + 1 /\ arr[Len(cmds) + 1] = c
       /\ \A m \in 1 .. Len(cmds) : arr[m] = cmds[m]
  BY <1>4, <1>8
<1> HIDE DEF arr
<1>11. e \in Nat /\ at < e /\ e <= at + n /\ e \in Int /\ at \in Int
  BY <1>3, <1>4, <1>6
<1>12. \A i \in 1 .. n : CharOf(text, at + i - 1) = Simple[t][i]
  BY <1>2, <1>3, <1>4, StartsSay
<1>13. \A k \in at .. e - 1 : CharOf(text, k) # "!"
  <2> TAKE k \in at .. e - 1
  <2>1. k - at + 1 \in 1 .. n /\ at + (k - at + 1) - 1 = k
    BY <1>4, <1>11
  <2>. QED  BY <1>3, <1>12, <2>1, SimpleWordsSay
<1>14. CharOf(text, at) = Simple[t][1]
  <2>1. 1 \in 1 .. n /\ at + 1 - 1 = at
    BY <1>4
  <2>. QED  BY <1>12, <2>1
<1>15. ~Starts(PrintPrefix)
  BY <1>4, <1>14, SimpleWordsSay, NoPrefix, TextFacts DEF Here
<1>16. ASSUME Faultless PROVE CommandSays(text, c, loc.start, e)
  <2>1. /\ at = BodyOf(loc, loc.start) /\ ~loc.invert /\ ~loc.store /\ loc.comb = "NONE"
        /\ loc.print <=> PrefixAt(text, loc.start)
    BY <1>1, <1>15, <1>16, BodyHere
  <2>2. BodyOf(c, loc.start) = at
    BY <1>9, <2>1 DEF BodyOf, SameFlags
  <2>3. FlagsAre(text, c, loc.start, at, e)
    BY <1>9, <1>14, <2>1, SimpleWordsSay DEF FlagsAre, SameFlags
  <2>4. MarksAre(text, c, at, e)
    <3>1. Quiet(text, at, at, e)
      BY <1>11, <1>13, QuietPlain
    <3>. QED  BY <1>9, <1>11, <2>1, <3>1, NoMarks DEF MarksAre, SameFlags
  <2>. QED  BY <1>9, <2>2, <2>3, <2>4, NoArgs DEF CommandSays
<1>. QED  BY <1>1, <1>4, <1>5, <1>10, <1>11, <1>16, FinishSaid

LEMMA StartKeySaid ==
  ASSUME Inv, Said, text' = text, StartKey
  PROVE  Said'
<1>1. /\ read_state = "RS_Start" /\ read_state \in Starting /\ Here \in KeyChars
      /\ ~Starts(PrintPrefix)
  BY DEF StartKey, Starting, KeywordHere
<1>2. /\ ~Adding /\ ~loc.keystate /\ loc \in Locals /\ text \in Texts /\ at \in Nat /\ at \in Int
      /\ Here = CharOf(text, at)
  BY <1>1, Facts, StartingFacts, TextFacts DEF Here
<1>3. CharOf(text, at) \notin {"=", "?", "|", "&", "!", "(", Comma}
  BY <1>1, <1>2, SymbolKinds
<1>4. ASSUME ~(CharOf(text, at) = "JTS" /\ CharOf(text, at + 1) = ">"), Faultless
      PROVE  /\ loc.store <=> (CharOf(text, at) = "JTS" /\ CharOf(text, at + 1) = ">")
             /\ loc.comb = "OR" <=> CharOf(text, at) = "|"
             /\ loc.comb = "AND" <=> CharOf(text, at) = "&"
             /\ loc.comb # "CUSTOM"
             /\ loc.invert <=> CharOf(text, at) = "!"
  <2>1. ~loc.invert /\ ~loc.store /\ loc.comb = "NONE"
    BY <1>1, <1>4, BodyHere
  <2>. QED  BY <1>3, <1>4, <2>1
<1>5. ~(CharOf(text, at) = "JTS" /\ CharOf(text, at + 1) = ">")
  <2> SUFFICES ASSUME CharOf(text, at) = "JTS", CharOf(text, at + 1) = ">" PROVE FALSE
    OBVIOUS
  <2> DEFINE o == [word |-> <<"JTS", ">">>, state |-> "RS_JumpTo"]
  <2>1. o \in Openings /\ DOMAIN o.word = {1, 2} /\ o.word[1] = "JTS" /\ o.word[2] = ">"
    BY DEF Openings
  <2>2. Char(at + 1 - 1) = "JTS" /\ Char(at + 2 - 1) = ">"
    <3>1. at + 1 - 1 = at /\ at + 2 - 1 = at + 1
      BY <1>2
    <3>. QED  BY <1>2, <3>1, TextFacts
  <2> HIDE DEF o
  <2>3. Starts(o.word)
    BY <2>1, <2>2 DEF Starts
  <2>. QED  BY <2>1, <2>3 DEF StartKey, KeywordHere
<1>6. \/ Here = "m" /\ Read("RS_MouseClickType", 1, loc)
      \/ Error \/ Stay("RS_Keys", loc)
  BY Zenon DEF StartKey
<1>7. CASE Here = "m" /\ Read("RS_MouseClickType", 1, loc)
  <2>1. \A k \in at + 1 .. at + 1 - 1 : CharOf(text, k) # "!"
    BY <1>2
  <2>2. CharOf(text, at + 1 - 1) \notin Digits
    <3>1. at + 1 - 1 = at
      BY <1>2
    <3>. QED  BY <1>2, <1>7, <3>1, SymbolKinds
  <2>3. "RS_MouseClickType" \notin Starting \union {"Between", "RS_Keys", "RS_KeyState",
           "RS_DelayValue", "RS_MouseClickState", "RS_Delay", "RS_Query"} /\ 1 \in Nat /\ 1 > 0
    BY DEF Starting
  <2>. QED  BY <1>1, <1>2, <1>4, <1>5, <1>7, <2>1, <2>2, <2>3, OpenSaid
<1>8. CASE Stay("RS_Keys", loc)
  <2>1. /\ at' = at + 1 /\ mark' = mark /\ read_state' = "RS_Keys" /\ loc' = loc
        /\ UNCHANGED <<cmds, parse_error>>
    BY <1>8 DEF Stay
  <2>2. ~Adding' /\ read_state' \notin Starting \union {"Between"}
    BY <2>1 DEF Adding, Starting
  <2>3. ASSUME Faultless PROVE InsideSays(text, "RS_Keys", mark, at + 1, loc)
    <3>1. /\ at = BodyOf(loc, loc.start) /\ mark = at /\ loc.args = <<>>
          /\ at > loc.start => CharOf(text, at - 1) \notin Digits
          /\ loc.print <=> PrefixAt(text, loc.start)
      BY <1>1, <2>3, BodyHere
    <3>2. at < at + 1 /\ at + 1 \in Int
      BY <1>2
    <3>3. FlagsSay(text, "RS_Keys", at + 1, loc)
      <4> DEFINE q == at + 1
      <4>1. q \in Int /\ at < q /\ (\A k \in at + 1 .. q - 1 : CharOf(text, k) # "!")
        BY <1>2
      <4> HIDE DEF q
      <4>2. /\ loc.store <=> (CharOf(text, at) = "JTS" /\ CharOf(text, at + 1) = ">")
            /\ loc.comb = "OR" <=> CharOf(text, at) = "|"
            /\ loc.comb = "AND" <=> CharOf(text, at) = "&"
            /\ loc.comb # "CUSTOM"
            /\ loc.invert <=> CharOf(text, at) = "!"
        BY <1>4, <1>5, <2>3
      <4>3. "RS_Keys" # "RS_Query"
        OBVIOUS
      <4>4. FlagsSay(text, "RS_Keys", q, loc)
        BY <1>2, <3>1, <4>1, <4>2, <4>3, OpensSay
      <4>. QED  BY <4>4 DEF q
    <3>4. Clean(text, at, at + 1)
      BY <1>2, <1>3, CleanOne
    <3>5. ArgsSay(text, "RS_Keys", at, at + 1, loc)
      BY <1>2, <3>1, <3>2, <3>4, OpensArgs
    <3>6. StateSays(text, "RS_Keys", at, at + 1, loc)
      BY <1>2 DEF StateSays, AtMark
    <3>. QED  BY <3>1, <3>3, <3>5, <3>6 DEF InsideSays
  <2>. QED  BY <1>2, <2>1, <2>2, <2>3, MoveSaid
<1>9. CASE Error
  BY <1>9, ErrorSaid
<1>. QED  BY <1>6, <1>7, <1>8, <1>9

LEMMA StartOtherSaid ==
  ASSUME Inv, Said, text' = text, StartOther
  PROVE  Said'
<1> DEFINE l == [loc EXCEPT !.start = @ + 1]
<1>1. read_state = "RS_Start" /\ read_state \in Starting /\ ~Starts(PrintPrefix)
      /\ Here \notin KeyChars
  BY DEF StartOther, Starting, KeywordHere
<1>2. /\ ~Adding /\ ~loc.keystate /\ loc \in Locals /\ text \in Texts /\ at \in Nat /\ at \in Int
      /\ Here = CharOf(text, at) /\ at + 1 - 1 = at /\ \A k \in at + 1 .. at + 1 - 1 : FALSE
      /\ 1 \in Nat /\ 1 > 0
  BY <1>1, Facts, StartingFacts, TextFacts DEF Here
<1>3. \/ Here = "." /\ Read("RS_Delay", 1, loc)
      \/ Here = "(" /\ Read("RS_RepeatStart", 1, loc)
      \/ Here = ")" /\ Read("RS_RepeatEnd", 1, loc)
      \/ Here \in {Semicolon, NUL} /\ Return(at + 1) /\ UNCHANGED <<cmds, names, parse_error>>
      \/ Here \in Blanks /\ Read("RS_Start", 1, l)
      \/ Here = "#" /\ Stay("RS_Comments", l)
      \/ Here \in DOMAIN CombOf /\ Read("RS_Query", 1, [loc EXCEPT !.comb = CombOf[Here]])
      \/ Error
  BY Zenon DEF StartOther
<1>4. ASSUME Faultless
      PROVE  /\ ~loc.invert /\ ~loc.store /\ loc.comb = "NONE"
             /\ loc.print => CharOf(text, at) \notin Blanks \union {"#"}
  BY <1>1, <1>4, BodyHere
<1>5. ASSUME NEW state \in {"RS_Delay", "RS_RepeatStart", "RS_RepeatEnd"},
             Here \in {".", "(", ")"}, Read(state, 1, loc)
      PROVE  Said'
  <2>1. CharOf(text, at) \notin Digits
    BY <1>2, <1>5, SymbolKinds
  <2>2. ASSUME Faultless
        PROVE  /\ loc.store <=> (CharOf(text, at) = "JTS" /\ CharOf(text, at + 1) = ">")
               /\ loc.comb = "OR" <=> CharOf(text, at) = "|"
               /\ loc.comb = "AND" <=> CharOf(text, at) = "&"
               /\ loc.comb # "CUSTOM"
               /\ loc.invert <=> CharOf(text, at) = "!"
    BY <1>2, <1>4, <1>5, <2>2
  <2>3. /\ state \notin Starting \union {"Between", "RS_Keys", "RS_KeyState", "RS_DelayValue",
                                         "RS_MouseClickState"}
        /\ state # "RS_Query"
    BY <1>5 DEF Starting
  <2>. QED  BY <1>1, <1>2, <1>5, <2>1, <2>2, <2>3, OpenSaid
<1>6. CASE Here \in {Semicolon, NUL} /\ Return(at + 1) /\ UNCHANGED <<cmds, names, parse_error>>
  <2>1. read_state' = "Between" /\ read_state' \notin Starting /\ UNCHANGED <<cmds, parse_error>>
    BY <1>6 DEF Return, Starting
  <2>. QED  BY <1>2, <2>1, StartsOnSaid
<1>7. CASE Here \in Blanks /\ Read("RS_Start", 1, l)
  <2>1. /\ at' = at + 1 /\ mark' = at + 1 /\ read_state' = "RS_Start" /\ loc' = l
        /\ UNCHANGED <<cmds, parse_error>>
    BY <1>7 DEF Read
  <2>2. read_state' \in Starting
    BY <2>1 DEF Starting
  <2>3. Faultless => ~loc.print
    BY <1>2, <1>4, <1>7
  <2>. QED  BY <1>1, <2>1, <2>2, <2>3, PassSaid
<1>8. CASE Here = "#" /\ Stay("RS_Comments", l)
  <2>1. /\ at' = at + 1 /\ read_state' = "RS_Comments" /\ loc' = l
        /\ UNCHANGED <<cmds, parse_error>>
    BY <1>8 DEF Stay
  <2>2. read_state' \in Starting
    BY <2>1 DEF Starting
  <2>3. Faultless => ~loc.print
    BY <1>2, <1>4, <1>8
  <2>. QED  BY <1>1, <2>1, <2>2, <2>3, PassSaid
<1>9. CASE Here \in DOMAIN CombOf /\ Read("RS_Query", 1, [loc EXCEPT !.comb = CombOf[Here]])
  <2> DEFINE c == CombOf[Here]
             m == [loc EXCEPT !.comb = c]
  <2>1. Here \in {"?", "|", "&"} /\ c \in Combs /\ c # "CUSTOM"
        /\ (c = "OR" <=> Here = "|") /\ (c = "AND" <=> Here = "&")
    BY <1>9 DEF CombOf, Combs
  <2>2. Read("RS_Query", 1, m)
    BY <1>9
  <2> HIDE DEF c
  <2>3. /\ m \in Locals /\ m.start = loc.start /\ m.keystate = loc.keystate /\ m.comb = c
        /\ m.print = loc.print /\ m.args = loc.args /\ m.invert = loc.invert /\ m.store = loc.store
    BY <1>2, <2>1 DEF Locals
  <2> HIDE DEF m
  <2>4. CharOf(text, at) \notin Digits
    BY <1>2, <2>1, SymbolKinds
  <2>5. ASSUME Faultless
        PROVE  /\ m.store <=> (CharOf(text, at) = "JTS" /\ CharOf(text, at + 1) = ">")
               /\ m.comb = "OR" <=> CharOf(text, at) = "|"
               /\ m.comb = "AND" <=> CharOf(text, at) = "&"
               /\ m.comb # "CUSTOM"
               /\ m.invert <=> CharOf(text, at) = "!"
    BY <1>2, <1>4, <2>1, <2>3, <2>5
  <2>6. "RS_Query" \notin Starting \union {"Between", "RS_Keys", "RS_KeyState", "RS_DelayValue",
                                           "RS_MouseClickState"} /\ "RS_Query" # "RS_Delay"
    BY DEF Starting
  <2>. QED  BY <1>1, <1>2, <2>1, <2>2, <2>3, <2>4, <2>5, <2>6, OpenSaid
<1>10. CASE Error
  BY <1>10, ErrorSaid
<1>. QED  BY <1>3, <1>5, <1>6, <1>7, <1>8, <1>9, <1>10

-------------------------------------------------------------------------------
(* All steps, and the theorems about flags and arguments. *)

LEMMA SaidNext ==
  ASSUME Inv, Said, Next
  PROVE  Said'
<1>1. CASE Call
  BY <1>1, CallSaid
<1>2. CASE ReadText /\ UNCHANGED text
  <2>1. text' = text /\ ReadText
    BY <1>2
  <2>2. CASE StartSimple \/ StartPrint \/ StartOpening \/ StartKey \/ StartOther \/ RS_Comments
    BY <2>1, <2>2, StartSimpleSaid, StartPrintSaid, StartOpeningSaid, StartKeySaid, StartOtherSaid,
       RS_CommentsSaid
  <2>3. CASE \/ RS_RepeatEndValue \/ RS_DelayValue \/ RS_MoveMouse \/ RS_JumpToIndex
             \/ RS_QueryComparePixel \/ RS_QueryCoordsVarValue \/ RS_QueryCoordsWithin
             \/ RS_EditVarValue
    BY <2>1, <2>3, NumbersSaid
  <2>4. CASE \/ RS_QueryKeyPress \/ RS_QueryButtonPress \/ RS_WaitUntilKey
             \/ RS_WaitUntilButton
             \/ RS_GrabKey \/ RS_UngrabKey \/ RS_GrabButton \/ RS_UngrabButton
    BY <2>1, <2>4, InputsSaid
  <2>5. CASE \/ RS_RepeatStart \/ RS_RepeatEnd \/ RS_Keys \/ RS_KeyState \/ RS_Delay
             \/ RS_MouseClickType \/ RS_MouseClickState \/ RS_JumpTo \/ RS_JumpFrom
    BY <2>1, <2>5, RS_RepeatStartSaid, RS_RepeatEndSaid, RS_KeysSaid, RS_KeyStateSaid, RS_DelaySaid,
       RS_MouseClickTypeSaid, RS_MouseClickStateSaid, RS_JumpToSaid, RS_JumpFromSaid
  <2>6. CASE \/ QueryIndices \/ QueryInvert \/ QueryOpening \/ RS_QueryCoordsType
             \/ RS_QueryRPNEval
    BY <2>1, <2>6, QueryIndicesSaid, QueryInvertSaid, QueryOpeningSaid, RS_QueryCoordsTypeSaid,
       RS_QueryRPNEvalSaid
  <2>7. CASE \/ RS_InitVarType \/ RS_InitVarName \/ InitVarRPN \/ InitVarNumber
             \/ RS_EditVarName \/ RS_PrintString \/ RS_DebugType \/ RS_DebugValue
    BY <2>1, <2>7, RS_InitVarTypeSaid, RS_InitVarNameSaid, InitVarRPNSaid, InitVarNumberSaid,
       RS_EditVarNameSaid, RS_PrintStringSaid, RS_DebugTypeSaid, RS_DebugValueSaid
  <2>. QED  BY <2>1, <2>2, <2>3, <2>4, <2>5, <2>6, <2>7, Zenon DEF ReadText
<1>. QED  BY <1>1, <1>2 DEF Next

LEMMA SaidAlways == Spec => []Said
<1>1. Init => Said
  BY InitSaid
<1>2. Inv /\ Said /\ [Next]_vars => Said'
  BY SaidNext, StutterSaid
<1>. QED  BY <1>1, <1>2, Invariance, PTL DEF Spec

\* When the text is accepted every command is whole, and what is said of it holds.
LEMMA AcceptedSays ==
  ASSUME Inv, Said, PrefixesStand, Accepted, NEW n \in DOMAIN cmds
  PROVE  /\ text \in Texts /\ cmds[n] \in CommandRec
         /\ CommandSays(text, cmds[n], cmds[n].from, cmds[n].to)
<1>1. read_state = "Between" /\ ~parse_error
  BY DEF Accepted, Done
<1>2. cmds \in Seq(CommandRec) /\ text \in Texts
  BY Facts
<1>3. Whole = Len(cmds)
  BY <1>1 DEF Whole, Adding
<1>4. n \in 1 .. Whole /\ cmds[n] \in CommandRec
  BY <1>2, <1>3
<1>. QED  BY <1>1, <1>2, <1>4 DEF Said

\* A prefix, and where the body starts, in the words of the properties.
LEMMA PrefixSays ==
  ASSUME text \in Texts, NEW c \in CommandRec
  PROVE  /\ (\A i \in DOMAIN PrintPrefix : Char(c.from + i - 1) = PrintPrefix[i])
              <=> PrefixAt(text, c.from)
         /\ Body(c) = BodyOf(c, c.from) /\ Body(c) \in Int /\ c.from \in Int /\ c.to \in Int
<1>1. /\ DOMAIN PrintPrefix = {1, 2, 3} /\ Len(PrintPrefix) = 3
      /\ PrintPrefix[1] = "PRINT" /\ PrintPrefix[2] = ">" /\ PrintPrefix[3] = ">"
  BY DEF PrintPrefix
<1>2. c.from \in Int /\ c.to \in Int /\ c.print \in BOOLEAN
  BY DEF CommandRec
<1>3. c.from + 1 - 1 = c.from /\ c.from + 2 - 1 = c.from + 1 /\ c.from + 3 - 1 = c.from + 2
  BY <1>2
<1>4. \A i : Char(i) = CharOf(text, i)
  BY TextFacts
<1>5. (\A i \in DOMAIN PrintPrefix : Char(c.from + i - 1) = PrintPrefix[i])
        <=> Char(c.from) = "PRINT" /\ Char(c.from + 1) = ">" /\ Char(c.from + 2) = ">"
  BY <1>1, <1>3
<1>6. Body(c) = BodyOf(c, c.from) /\ Body(c) \in Int
  BY <1>1, <1>2 DEF Body, BodyOf
<1>. QED  BY <1>2, <1>4, <1>5, <1>6 DEF PrefixAt

(***************************************************************************)
(* The prefix, the inversion, the storing of the index and the way of      *)
(* chaining of every command of an accepted text are those of its own      *)
(* text, whatever the commands before it had and however long its run of   *)
(* exclamation marks is (the locals of macro_buffer_process_next), for     *)
(* every text in which what follows a PRINT>> is no blank, no comment and  *)
(* no other PRINT>>: behind one of those the flag is set, but the text of  *)
(* the command does not begin with its prefix.                             *)
(***************************************************************************)
THEOREM FlagsAreOwn == Spec => [](PrefixesStand => FlagsFromOwnText)
<1>1. Inv /\ Said => (PrefixesStand => FlagsFromOwnText)
  <2> SUFFICES ASSUME Inv, Said, PrefixesStand, Accepted, NEW n \in DOMAIN cmds
               PROVE  LET c == cmds[n]
                      IN /\ c.print <=> \A i \in DOMAIN PrintPrefix :
                                          Char(c.from + i - 1) = PrintPrefix[i]
                         /\ c.store <=> Char(Body(c)) = "JTS" /\ Char(Body(c) + 1) = ">"
                         /\ c.comb = "OR" <=> Char(Body(c)) = "|"
                         /\ c.comb = "AND" <=> Char(Body(c)) = "&"
                         /\ c.comb = "CUSTOM" => Char(Body(c)) = "?"
                                                 /\ \E k \in Body(c) .. c.to : Char(k) = ":"
                         /\ c.type # "PrintString" =>
                              (c.invert <=> Cardinality(MarksOf(c)) % 2 = 1)
    BY DEF FlagsFromOwnText
  <2> DEFINE c == cmds[n]
  <2>1. text \in Texts /\ c \in CommandRec /\ CommandSays(text, c, c.from, c.to)
    BY AcceptedSays
  <2> HIDE DEF c
  <2>2. /\ (\A i \in DOMAIN PrintPrefix : Char(c.from + i - 1) = PrintPrefix[i])
             <=> PrefixAt(text, c.from)
        /\ Body(c) = BodyOf(c, c.from) /\ Body(c) \in Int /\ c.from \in Int /\ c.to \in Int
    BY <2>1, PrefixSays
  <2>3. FlagsAre(text, c, c.from, Body(c), c.to)
        /\ (c.type # "PrintString" => MarksAre(text, c, Body(c), c.to))
    BY <2>1, <2>2 DEF CommandSays
  <2>4. \A i : Char(i) = CharOf(text, i)
    BY <2>1, TextFacts
  <2>5. MarksOf(c) = OwnMarks(text, Body(c), c.to)
    BY <2>4 DEF MarksOf, OwnMarks, Unbracketed
  <2>6. c.type # "PrintString" => (c.invert <=> Cardinality(MarksOf(c)) % 2 = 1)
    BY <2>3, <2>5 DEF MarksAre
  <2>7. c.comb = "CUSTOM" => Char(Body(c)) = "?" /\ \E k \in Body(c) .. c.to : Char(k) = ":"
    <3>1. \A k \in Body(c) .. c.to - 1 : k \in Body(c) .. c.to
      BY <2>2
    <3>. QED  BY <2>3, <2>4, <3>1 DEF FlagsAre
  <2>8. /\ c.print <=> PrefixAt(text, c.from)
        /\ c.store <=> Char(Body(c)) = "JTS" /\ Char(Body(c) + 1) = ">"
        /\ c.comb = "OR" <=> Char(Body(c)) = "|"
        /\ c.comb = "AND" <=> Char(Body(c)) = "&"
    BY <2>3, <2>4 DEF FlagsAre
  <2>. QED  BY <2>2, <2>6, <2>7, <2>8 DEF c
<1>. QED  BY <1>1, Invariance, SaidAlways, PTL

\* The time of every delay begins with its unit.
DelaysHaveUnits ==
  \A n \in DOMAIN cmds : cmds[n].type = "Delay" => Char(Body(cmds[n]) + 1) \in DelayUnits

(***************************************************************************)
(* Every argument of every command of an accepted text is a part of the    *)
(* command's own text behind the argument before it, holds no mark that    *)
(* separates arguments, closes the brackets it opens, and leaves no digit  *)
(* next to it out (read_i and read_offset_i of every state), for every     *)
(* text whose prefixes stand before their commands and whose delays have   *)
(* their units: without one, the first digit of a delay is dropped.        *)
(***************************************************************************)
THEOREM ArgumentsAreWhole == Spec => [](PrefixesStand /\ DelaysHaveUnits => ArgumentsWhole)
<1>1. Inv /\ Said => (PrefixesStand /\ DelaysHaveUnits => ArgumentsWhole)
  <2> SUFFICES ASSUME Inv, Said, PrefixesStand, DelaysHaveUnits, Accepted,
                      NEW n \in DOMAIN cmds, NEW k \in DOMAIN cmds[n].args
               PROVE  LET c == cmds[n]
                          a == c.args[k]
                      IN /\ Body(c) <= a[1] /\ a[2] < c.to
                         /\ k > 1 => c.args[k - 1][2] < a[1]
                         /\ Char(a[1]) = "(" => Char(a[2]) = ")"
                         /\ Char(a[1]) # "(" =>
                              \A i \in a[1] .. a[2] : Char(i) \notin {"=", Comma, "?"}
                         /\ c.type \notin {"PrintString", "QueryRPNEval"} =>
                              /\ a[1] > c.from /\ a[1] <= a[2] => Char(a[1] - 1) \notin Digits
                              /\ Char(a[2] + 1) \notin Digits
    BY DEF ArgumentsWhole
  <2> DEFINE c == cmds[n]
             a == c.args[k]
  <2>1. text \in Texts /\ c \in CommandRec /\ CommandSays(text, c, c.from, c.to)
    BY AcceptedSays
  <2>2. c.type = "Delay" => Char(Body(c) + 1) \in DelayUnits
    BY DEF DelaysHaveUnits
  <2>3. k \in DOMAIN c.args
    OBVIOUS
  <2> HIDE DEF c
  <2>4. Body(c) = BodyOf(c, c.from) /\ Body(c) \in Int /\ c.from \in Int /\ c.to \in Int
    BY <2>1, PrefixSays
  <2>5. \A i : Char(i) = CharOf(text, i)
    BY <2>1, TextFacts
  <2>6. c.args \in Seq(Int \X Int) /\ k \in 1 .. Len(c.args)
    <3>1. c.args \in Seq(Int \X Int)
      BY <2>1 DEF CommandRec
    <3>. QED  BY <2>3, <3>1
  <2>7. /\ ArgsOK(text, c.args, Body(c), c.to)
        /\ Apart(text, c.type, Body(c)) => ArgsAlone(text, c.args, c.from)
    BY <2>1, <2>4 DEF CommandSays
  <2>8. ArgOK(text, a, Body(c), c.to) /\ (k > 1 => c.args[k - 1][2] < a[1])
    BY <2>6, <2>7 DEF ArgsOK
  <2>9. c.type \notin {"PrintString", "QueryRPNEval"} => Alone(text, a, c.from)
    <3>1. c.type \notin {"PrintString", "QueryRPNEval"} => Apart(text, c.type, Body(c))
      BY <2>2, <2>5 DEF Apart
    <3>. QED  BY <2>6, <2>7, <3>1 DEF ArgsAlone
  <2> HIDE DEF a
  <2>10. /\ Body(c) <= a[1] /\ a[2] < c.to
         /\ Char(a[1]) = "(" => Char(a[2]) = ")"
         /\ Char(a[1]) # "(" => \A i \in a[1] .. a[2] : Char(i) \notin {"=", Comma, "?"}
    BY <2>5, <2>8 DEF ArgOK
  <2>11. c.type \notin {"PrintString", "QueryRPNEval"} =>
           /\ a[1] > c.from /\ a[1] <= a[2] => Char(a[1] - 1) \notin Digits
           /\ Char(a[2] + 1) \notin Digits
    BY <2>5, <2>9 DEF Alone
  <2>. QED  BY <2>8, <2>10, <2>11 DEF a, c
<1>. QED  BY <1>1, Invariance, SaidAlways, PTL
===============================================================================
