--------------------------- MODULE MacroBufferProofs ---------------------------
(***************************************************************************)
(* Proofs about MacroBuffer, for every alphabet of commands and every      *)
(* bound on the length of a text.                                          *)
(***************************************************************************)
EXTENDS MacroBuffer, WellFoundedInduction, TLAPS

(***************************************************************************)
(* The inductive invariant: the two id managers and the commands read so   *)
(* far agree.  What is said of repeats holds only while there is no parse  *)
(* error: the name of a repeat end that was not found is remembered.       *)
(***************************************************************************)
RepeatIds ==
  /\ \A n \in Names : rim[n] # IndexNotFound =>
       rim[n] \in 0 .. size - 1 /\ cmds[rim[n]].type = "RepeatStart"
  /\ ~parse_error => \A n \in rim_strings : rim[n] # IndexNotFound
  /\ ~parse_error => RepeatsLinked(cmds, size)

JumpIds ==
  /\ \A n \in Names : n \in jump_from_added =>
       /\ jim[n] \in 0 .. size - 1
       /\ cmds[jim[n]].type = "JumpFrom"
  /\ \A n \in Names : n \notin jump_from_added =>
       jim[n] \in {IndexNotFound, JumpFromNotConnected}
  /\ \A i \in 0 .. size - 1 : cmds[i].type = "JumpFrom" =>
       cmds[i].name \in jump_from_added /\ jim[cmds[i].name] = i
  /\ \A i \in 0 .. size - 1 : cmds[i].type = "JumpTo" =>
       /\ cmds[i].cmd_index = jim[cmds[i].name]
       /\ jim[cmds[i].name] # IndexNotFound

InitVarIds ==
  ~parse_error =>
    \A i \in 0 .. size - 1 : cmds[i].type = "InitVar" =>
      \A j \in 0 .. i : cmds[j].type = "InitVar"

AcceptedByChecks ==
  phase = "accepted" => ~parse_error /\ size > 0 /\ ExtraChecksPass

Inv == TypeOK /\ RepeatIds /\ JumpIds /\ InitVarIds /\ AcceptedByChecks

-------------------------------------------------------------------------------
(* Lemmas about the helpers. *)

\* Chaining the queries touches neither the type, the name, the link nor the
\* values of a command.
LEMMA ChainedArray ==
  ASSUME NEW n \in Nat, NEW arr \in CommandArray(n), NEW last
  PROVE  /\ QueriesChained(arr, last) \in CommandArray(n)
         /\ \A i \in 0 .. n - 1 :
              /\ QueriesChained(arr, last)[i].type = arr[i].type
              /\ QueriesChained(arr, last)[i].name = arr[i].name
              /\ QueriesChained(arr, last)[i].cmd_index = arr[i].cmd_index
              /\ QueriesChained(arr, last)[i].values = arr[i].values
<1> DEFINE ne(i) == IF arr[last].comb_type = "OR" /\ i = last - 1 /\ IsQuery(arr[i])
                    THEN 1
                    ELSE IF i \in Walked(arr, last) /\ arr[last].comb_type = "AND"
                    THEN arr[i].jump_ne + 1 ELSE arr[i].jump_ne
           e(i) == IF i \in Walked(arr, last) /\ arr[last].comb_type = "OR"
                   THEN arr[i].jump_e + 1 ELSE arr[i].jump_e
<1>1. DOMAIN arr = 0 .. n - 1 /\ \A i \in 0 .. n - 1 : arr[i] \in CommandRec
  BY DEF CommandArray
<1>2. \A i \in 0 .. n - 1 :
        QueriesChained(arr, last)[i] = [arr[i] EXCEPT !.jump_ne = ne(i), !.jump_e = e(i)]
  BY <1>1 DEF QueriesChained, CommandRec
<1>3. \A i \in 0 .. n - 1 : ne(i) \in Int /\ e(i) \in Int
  BY <1>1 DEF CommandRec
<1> HIDE DEF ne, e
<1>4. \A i \in 0 .. n - 1 :
        /\ QueriesChained(arr, last)[i] \in CommandRec
        /\ QueriesChained(arr, last)[i].type = arr[i].type
        /\ QueriesChained(arr, last)[i].name = arr[i].name
        /\ QueriesChained(arr, last)[i].cmd_index = arr[i].cmd_index
        /\ QueriesChained(arr, last)[i].values = arr[i].values
  BY <1>1, <1>2, <1>3 DEF CommandRec
<1>5. QueriesChained(arr, last) = [i \in 0 .. n - 1 |-> QueriesChained(arr, last)[i]]
  BY <1>1 DEF QueriesChained
<1>6. QED
  BY <1>4, <1>5 DEF CommandArray

\* The array with one more command.
LEMMA AddedArray ==
  ASSUME TypeOK, NEW c \in CommandRec
  PROVE  /\ Added(c) \in CommandArray(size + 1)
         /\ Added(c)[size] = c
         /\ \A i \in 0 .. size - 1 : Added(c)[i] = cmds[i]
BY DEF TypeOK, Added, CommandArray

\* What AddAndChain leaves of the array it is given, and of the error.
LEMMA AddAndChainFacts ==
  ASSUME TypeOK, NEW arr \in CommandArray(size + 1), AddAndChain(arr)
  PROVE  /\ size' = size + 1
         /\ cmds' \in CommandArray(size + 1)
         /\ \A i \in 0 .. size :
              /\ cmds'[i].type = arr[i].type
              /\ cmds'[i].name = arr[i].name
              /\ cmds'[i].cmd_index = arr[i].cmd_index
              /\ cmds'[i].values = arr[i].values
         /\ parse_error' \in BOOLEAN
         /\ ~parse_error' => ~parse_error /\ ~InitVarLate(arr, size)
<1>1. size \in Nat /\ size + 1 \in Nat /\ size + 1 - 1 = size /\ parse_error \in BOOLEAN
  BY DEF TypeOK
<1>2. size' = size + 1 /\ (cmds' = arr \/ cmds' = QueriesChained(arr, size))
  BY DEF AddAndChain
<1>3. /\ cmds' \in CommandArray(size + 1)
      /\ \A i \in 0 .. size :
           /\ cmds'[i].type = arr[i].type
           /\ cmds'[i].name = arr[i].name
           /\ cmds'[i].cmd_index = arr[i].cmd_index
           /\ cmds'[i].values = arr[i].values
  BY <1>1, <1>2, ChainedArray
<1>4. parse_error' \in BOOLEAN
  <2>1. ChainMixed(arr, size) \in BOOLEAN
    BY Zenon DEF ChainMixed
  <2>2. QED
    BY <1>1, <2>1, Zenon DEF AddAndChain
<1>5. ~parse_error' => ~parse_error /\ ~InitVarLate(arr, size)
  <2>1. CASE parse_error
    BY <2>1, Zenon DEF AddAndChain
  <2>2. CASE ~parse_error /\ InitVarLate(arr, size)
    BY <2>2, Zenon DEF AddAndChain
  <2>3. QED
    BY <2>1, <2>2, Zenon
<1>6. QED
  BY <1>2, <1>3, <1>4, <1>5

-------------------------------------------------------------------------------
(***************************************************************************)
(* A step that appends the command c: arr is the array with c at its end,  *)
(* in which only links of other commands may have changed.                 *)
(***************************************************************************)
Appends(arr, c) ==
  /\ arr \in CommandArray(size + 1)
  /\ arr[size].type = c.type /\ arr[size].name = c.name
  /\ \A i \in 0 .. size - 1 : arr[i].type = cmds[i].type /\ arr[i].name = cmds[i].name
  /\ AddAndChain(arr)

\* What such a step does to the variables that AddAndChain changes.
LEMMA AppendFacts ==
  ASSUME Inv, NEW c \in CommandRec, NEW arr, Appends(arr, c)
  PROVE  /\ size \in Nat /\ size' = size + 1
         /\ cmds' \in CommandArray(size')
         /\ parse_error' \in BOOLEAN
         /\ ~parse_error' => ~parse_error
         /\ cmds'[size].type = c.type /\ cmds'[size].name = c.name
         /\ \A i \in 0 .. size - 1 :
              cmds'[i].type = cmds[i].type /\ cmds'[i].name = cmds[i].name
         /\ \A i \in 0 .. size : cmds'[i].cmd_index = arr[i].cmd_index
         /\ 0 .. size' - 1 = (0 .. size - 1) \union {size}
<1>1. TypeOK /\ size \in Nat
  BY DEF Inv, TypeOK
<1>2. (0 .. size + 1 - 1) = (0 .. size - 1) \union {size} /\ size + 1 - 1 = size
  BY <1>1
<1>3. QED
  BY <1>1, <1>2, AddAndChainFacts DEF Appends

\* The InitVar commands stay in front: one that comes late is an error.
LEMMA AppendInitVars ==
  ASSUME Inv, NEW c \in CommandRec, NEW arr, Appends(arr, c)
  PROVE  InitVarIds'
<1> SUFFICES ASSUME ~parse_error', NEW i \in 0 .. size' - 1, cmds'[i].type = "InitVar",
                    NEW j \in 0 .. i
             PROVE  cmds'[j].type = "InitVar"
  BY DEF InitVarIds
<1>1. /\ ~parse_error /\ size \in Nat /\ size' = size + 1
      /\ cmds'[size].type = c.type
      /\ \A k \in 0 .. size - 1 : cmds'[k].type = cmds[k].type
  BY AppendFacts
<1>2. \A k \in 0 .. size - 1 : cmds[k].type = "InitVar" =>
        \A l \in 0 .. k : cmds[l].type = "InitVar"
  BY <1>1 DEF Inv, InitVarIds
<1>3. CASE i \in 0 .. size - 1
  BY <1>1, <1>2, <1>3
<1>4. CASE i = size
  <2>1. ~InitVarLate(arr, size)
    BY <1>1, AddAndChainFacts DEF Appends, Inv
  <2>2. arr[size].type = "InitVar" /\ (size > 0 => arr[size - 1].type = cmds[size - 1].type)
    BY <1>1, <1>4 DEF Appends
  <2>3. size > 0 => cmds[size - 1].type = "InitVar"
    BY <2>1, <2>2 DEF InitVarLate
  <2>4. CASE j = size
    BY <2>4, <1>4
  <2>5. CASE j \in 0 .. size - 1
    BY <2>3, <2>5, <1>1, <1>2
  <2>6. QED
    BY <2>4, <2>5, <1>4, <1>1
<1>5. QED
  BY <1>1, <1>3, <1>4

\* A command that is no JumpTo nor JumpFrom leaves the jumps as they are.
LEMMA AppendKeepsJumps ==
  ASSUME Inv, NEW c \in CommandRec, NEW arr, Appends(arr, c),
         c.type \notin {"JumpTo", "JumpFrom"},
         \A i \in 0 .. size - 1 : arr[i].cmd_index = cmds[i].cmd_index,
         UNCHANGED <<jim, jump_from_added>>
  PROVE  JumpIds'
<1>1. /\ size \in Nat /\ size' = size + 1
      /\ cmds'[size].type = c.type
      /\ \A i \in 0 .. size - 1 :
           /\ cmds'[i].type = cmds[i].type /\ cmds'[i].name = cmds[i].name
           /\ cmds'[i].cmd_index = cmds[i].cmd_index
      /\ 0 .. size' - 1 = (0 .. size - 1) \union {size}
  BY AppendFacts
<1>2. JumpIds
  BY DEF Inv
<1>3. QED
  BY <1>1, <1>2 DEF JumpIds

\* A command that is no RepeatStart nor RepeatEnd leaves the repeats as they are.
LEMMA AppendKeepsRepeats ==
  ASSUME Inv, NEW c \in CommandRec, NEW arr, Appends(arr, c),
         c.type \notin {"RepeatStart", "RepeatEnd"},
         \A i \in 0 .. size - 1 :
           cmds[i].type = "RepeatEnd" => arr[i].cmd_index = cmds[i].cmd_index,
         UNCHANGED <<rim, rim_strings>>
  PROVE  RepeatIds'
<1>1. /\ size \in Nat /\ size' = size + 1
      /\ ~parse_error' => ~parse_error
      /\ cmds'[size].type = c.type
      /\ \A i \in 0 .. size - 1 :
           /\ cmds'[i].type = cmds[i].type
           /\ cmds[i].type = "RepeatEnd" => cmds'[i].cmd_index = cmds[i].cmd_index
      /\ 0 .. size' - 1 = (0 .. size - 1) \union {size}
  BY AppendFacts
<1>2. RepeatIds
  BY DEF Inv
<1>3. ~parse_error' => RepeatsLinked(cmds', size')
  <2> SUFFICES ASSUME ~parse_error', NEW i \in 0 .. size' - 1, cmds'[i].type = "RepeatEnd"
               PROVE  /\ cmds'[i].cmd_index \in 0 .. i - 1
                      /\ cmds'[cmds'[i].cmd_index].type = "RepeatStart"
    BY DEF RepeatsLinked
  <2>1. i \in 0 .. size - 1
    BY <1>1
  <2>2. /\ cmds[i].cmd_index \in 0 .. i - 1
        /\ cmds[cmds[i].cmd_index].type = "RepeatStart"
    BY <1>1, <1>2, <2>1 DEF RepeatIds, RepeatsLinked
  <2>3. QED
    BY <1>1, <2>1, <2>2
<1>4. QED
  BY <1>1, <1>2, <1>3 DEF RepeatIds

\* The type of what is left.
LEMMA AppendInv ==
  ASSUME Inv, NEW c \in CommandRec, NEW arr, Appends(arr, c),
         rim' \in [Names -> Int], rim_strings' \in SUBSET Names,
         jim' \in [Names -> Int], jump_from_added' \in SUBSET Names,
         phase = "parsing", UNCHANGED phase,
         RepeatIds', JumpIds'
  PROVE  Inv'
<1>1. /\ size' \in Nat /\ cmds' \in CommandArray(size') /\ parse_error' \in BOOLEAN
  BY AppendFacts
<1>2. TypeOK'
  BY <1>1 DEF TypeOK, Phases
<1>3. InitVarIds' /\ AcceptedByChecks'
  BY AppendInitVars DEF AcceptedByChecks
<1>4. QED
  BY <1>2, <1>3 DEF Inv

\* An array with c at its end is the array that a step appends.
LEMMA AddedAppends ==
  ASSUME Inv, NEW c \in CommandRec, AddAndChain(Added(c))
  PROVE  /\ Appends(Added(c), c)
         /\ Added(c)[size] = c
         /\ \A i \in 0 .. size - 1 : Added(c)[i].cmd_index = cmds[i].cmd_index
BY AddedArray DEF Inv, Appends

-------------------------------------------------------------------------------
(* The steps of the parser. *)

\* Commands without a name keep the invariant.
LEMMA ReadCommandInv ==
  ASSUME Inv, NEW c \in CommandRec, ReadCommand(c)
  PROVE  Inv'
<1>1. /\ c.type \notin {"RepeatStart", "RepeatEnd", "JumpTo", "JumpFrom"}
      /\ AddAndChain(Added(c)) /\ phase = "parsing"
      /\ UNCHANGED <<rim, rim_strings, jim, jump_from_added, phase>>
  BY DEF ReadCommand, Parsing
<1>2. RepeatIds' /\ JumpIds'
  BY <1>1, AddedAppends, AppendKeepsRepeats, AppendKeepsJumps
<1>3. TypeOK
  BY DEF Inv
<1>4. QED
  BY <1>1, <1>2, <1>3, AddedAppends, AppendInv DEF TypeOK

\* A RepeatStart with a new name keeps the invariant; its index becomes the id.
LEMMA ReadRepeatStartInv ==
  ASSUME Inv, NEW c \in CommandRec, ReadRepeatStart(c)
  PROVE  Inv'
<1>1. /\ c.type = "RepeatStart" /\ phase = "parsing" /\ c.name \in Names
      /\ UNCHANGED <<jim, jump_from_added>>
  BY DEF ReadRepeatStart, Parsing, CommandRec
<1>2. CASE c.name \in rim_strings
  <2>1. phase' = "exited" /\ UNCHANGED <<size, cmds, rim, rim_strings, parse_error>>
    BY <1>2 DEF ReadRepeatStart
  <2>2. QED
    BY <1>1, <2>1 DEF Inv, TypeOK, Phases, RepeatIds, JumpIds, InitVarIds, AcceptedByChecks
<1>3. CASE c.name \notin rim_strings
  <2>1. /\ rim' = [rim EXCEPT ![c.name] = size]
        /\ rim_strings' = rim_strings \union {c.name}
        /\ AddAndChain(Added(c)) /\ UNCHANGED phase
    BY <1>3 DEF ReadRepeatStart
  <2>2. TypeOK /\ RepeatIds
    BY DEF Inv
  <2>3. /\ size \in Nat /\ size' = size + 1 /\ (~parse_error' => ~parse_error)
        /\ cmds'[size].type = "RepeatStart"
        /\ \A i \in 0 .. size - 1 :
             cmds'[i].type = cmds[i].type /\ cmds'[i].cmd_index = cmds[i].cmd_index
        /\ 0 .. size' - 1 = (0 .. size - 1) \union {size}
    BY <1>1, <2>1, AddedAppends, AppendFacts
  <2>4. \A n \in Names : rim'[n] = IF n = c.name THEN size ELSE rim[n]
    BY <1>1, <2>1, <2>2 DEF TypeOK
  <2>5. ~parse_error' => RepeatsLinked(cmds', size')
    <3> SUFFICES ASSUME ~parse_error', NEW i \in 0 .. size' - 1, cmds'[i].type = "RepeatEnd"
                 PROVE  /\ cmds'[i].cmd_index \in 0 .. i - 1
                        /\ cmds'[cmds'[i].cmd_index].type = "RepeatStart"
      BY DEF RepeatsLinked
    <3>1. i \in 0 .. size - 1
      BY <2>3
    <3>2. /\ cmds[i].cmd_index \in 0 .. i - 1
          /\ cmds[cmds[i].cmd_index].type = "RepeatStart"
      BY <2>2, <2>3, <3>1 DEF RepeatIds, RepeatsLinked
    <3>3. QED
      BY <2>3, <3>1, <3>2
  <2>6. \A n \in Names : rim'[n] # IndexNotFound =>
          rim'[n] \in 0 .. size' - 1 /\ cmds'[rim'[n]].type = "RepeatStart"
    BY <2>2, <2>3, <2>4 DEF RepeatIds
  <2>7. ~parse_error' => \A n \in rim_strings' : rim'[n] # IndexNotFound
    BY <1>1, <2>1, <2>2, <2>3, <2>4 DEF RepeatIds, TypeOK, IndexNotFound
  <2>8. RepeatIds'
    BY <2>5, <2>6, <2>7 DEF RepeatIds
  <2>9. JumpIds'
    BY <1>1, <2>1, AddedAppends, AppendKeepsJumps
  <2>10. /\ rim' \in [Names -> Int] /\ rim_strings' \in SUBSET Names
         /\ jim' \in [Names -> Int] /\ jump_from_added' \in SUBSET Names
    BY <1>1, <2>1, <2>2, <2>3 DEF TypeOK
  <2>11. QED
    BY <1>1, <2>1, <2>8, <2>9, <2>10, AddedAppends, AppendInv
<1>4. QED
  BY <1>2, <1>3

\* A RepeatEnd keeps it: a name it asks for in vain is an error for good.
LEMMA ReadRepeatEndInv ==
  ASSUME Inv, NEW c \in CommandRec, ReadRepeatEnd(c)
  PROVE  Inv'
<1>1. /\ c.type = "RepeatEnd" /\ phase = "parsing" /\ c.name \in Names
      /\ rim_strings' = rim_strings \union {c.name}
      /\ UNCHANGED <<rim, jim, jump_from_added, phase>>
  BY DEF ReadRepeatEnd, Parsing, CommandRec
<1>2. TypeOK /\ RepeatIds
  BY DEF Inv
<1>3. CASE c.name \notin rim_strings
  <2>1. parse_error' = TRUE /\ UNCHANGED <<size, cmds>>
    BY <1>3 DEF ReadRepeatEnd
  <2>2. TypeOK'
    BY <1>1, <1>2, <2>1 DEF TypeOK
  <2>3. QED
    BY <1>1, <2>1, <2>2 DEF Inv, RepeatIds, JumpIds, InitVarIds, AcceptedByChecks
<1>4. CASE c.name \in rim_strings
  <2> DEFINE e == [c EXCEPT !.cmd_index = rim[c.name]]
  <2>1. AddAndChain(Added(e))
    BY <1>4 DEF ReadRepeatEnd
  <2>2. e \in CommandRec /\ e.type = "RepeatEnd" /\ e.cmd_index = rim[c.name]
    BY <1>1, <1>2 DEF CommandRec, TypeOK
  <2> HIDE DEF e
  <2>3. Appends(Added(e), e) /\ Added(e)[size] = e
        /\ \A i \in 0 .. size - 1 : Added(e)[i].cmd_index = cmds[i].cmd_index
    BY <2>1, <2>2, AddedAppends
  <2>4. /\ size \in Nat /\ size' = size + 1 /\ (~parse_error' => ~parse_error)
        /\ cmds'[size].type = "RepeatEnd" /\ cmds'[size].cmd_index = rim[c.name]
        /\ \A i \in 0 .. size - 1 :
             cmds'[i].type = cmds[i].type /\ cmds'[i].cmd_index = cmds[i].cmd_index
        /\ 0 .. size' - 1 = (0 .. size - 1) \union {size}
    BY <2>2, <2>3, AppendFacts
  <2>5. ~parse_error' => RepeatsLinked(cmds', size')
    <3> SUFFICES ASSUME ~parse_error', NEW i \in 0 .. size' - 1, cmds'[i].type = "RepeatEnd"
                 PROVE  /\ cmds'[i].cmd_index \in 0 .. i - 1
                        /\ cmds'[cmds'[i].cmd_index].type = "RepeatStart"
      BY DEF RepeatsLinked
    <3>1. CASE i \in 0 .. size - 1
      <4>1. /\ cmds[i].cmd_index \in 0 .. i - 1
            /\ cmds[cmds[i].cmd_index].type = "RepeatStart"
        BY <1>2, <2>4, <3>1 DEF RepeatIds, RepeatsLinked
      <4>2. QED
        BY <2>4, <3>1, <4>1
    <3>2. CASE i = size
      <4>1. rim[c.name] \in 0 .. size - 1 /\ cmds[rim[c.name]].type = "RepeatStart"
        BY <1>1, <1>2, <1>4, <2>4 DEF RepeatIds
      <4>2. QED
        BY <2>4, <3>2, <4>1
    <3>3. QED
      BY <2>4, <3>1, <3>2
  <2>6. \A n \in Names : rim[n] # IndexNotFound =>
          rim[n] \in 0 .. size' - 1 /\ cmds'[rim[n]].type = "RepeatStart"
    BY <1>2, <2>4 DEF RepeatIds
  <2>7. RepeatIds'
    BY <1>1, <1>2, <1>4, <2>4, <2>5, <2>6 DEF RepeatIds
  <2>8. JumpIds'
    BY <1>1, <2>2, <2>3, AppendKeepsJumps
  <2>9. QED
    BY <1>1, <1>2, <2>2, <2>3, <2>7, <2>8, AppendInv DEF TypeOK
<1>5. QED
  BY <1>3, <1>4

\* A JumpTo keeps it: it takes the id of its name, which now is not empty.
LEMMA ReadJumpToInv ==
  ASSUME Inv, NEW c \in CommandRec, ReadJumpTo(c)
  PROVE  Inv'
<1> DEFINE id == IF jim[c.name] = IndexNotFound THEN JumpFromNotConnected
                 ELSE jim[c.name]
           e == [c EXCEPT !.cmd_index = jim'[c.name]]
<1>1. /\ c.type = "JumpTo" /\ phase = "parsing" /\ c.name \in Names
      /\ UNCHANGED <<rim, rim_strings, jump_from_added, phase>>
      /\ AddAndChain(Added(e))
      /\ jim' = [jim EXCEPT ![c.name] = id]
  BY DEF ReadJumpTo, Parsing, CommandRec
<1>2. TypeOK /\ JumpIds
  BY DEF Inv
<1>3. /\ jim' \in [Names -> Int]
      /\ \A n \in Names : jim'[n] = IF n = c.name THEN id ELSE jim[n]
  BY <1>1, <1>2 DEF TypeOK, JumpFromNotConnected
<1>4. e \in CommandRec /\ e.type = "JumpTo" /\ e.name = c.name
      /\ e.cmd_index = jim'[c.name]
  BY <1>1, <1>3 DEF CommandRec
<1> HIDE DEF e
<1>5. Appends(Added(e), e) /\ Added(e)[size] = e
      /\ \A i \in 0 .. size - 1 : Added(e)[i].cmd_index = cmds[i].cmd_index
  BY <1>1, <1>4, AddedAppends
<1>6. /\ size \in Nat /\ size' = size + 1
      /\ cmds'[size].type = "JumpTo" /\ cmds'[size].name = c.name
      /\ cmds'[size].cmd_index = jim'[c.name]
      /\ \A i \in 0 .. size - 1 :
           /\ cmds'[i].type = cmds[i].type /\ cmds'[i].name = cmds[i].name
           /\ cmds'[i].cmd_index = cmds[i].cmd_index
      /\ 0 .. size' - 1 = (0 .. size - 1) \union {size}
  BY <1>4, <1>5, AppendFacts
<1>7. \A i \in 0 .. size - 1 : cmds[i].name \in Names
  BY <1>2 DEF TypeOK, CommandArray, CommandRec
<1>8. jim'[c.name] # IndexNotFound
  BY <1>1, <1>3 DEF IndexNotFound, JumpFromNotConnected
<1>9. \A n \in Names : n \in jump_from_added =>
        jim'[n] = jim[n] /\ jim[n] \in 0 .. size - 1 /\ cmds[jim[n]].type = "JumpFrom"
  BY <1>2, <1>3, <1>6 DEF JumpIds, IndexNotFound
<1>10. JumpIds'
  <2>1. \A n \in Names : n \in jump_from_added' =>
          jim'[n] \in 0 .. size' - 1 /\ cmds'[jim'[n]].type = "JumpFrom"
    BY <1>1, <1>6, <1>9
  <2>2. \A n \in Names : n \notin jump_from_added' =>
          jim'[n] \in {IndexNotFound, JumpFromNotConnected}
    BY <1>1, <1>2, <1>3 DEF JumpIds
  <2>3. \A i \in 0 .. size' - 1 : cmds'[i].type = "JumpFrom" =>
          cmds'[i].name \in jump_from_added' /\ jim'[cmds'[i].name] = i
    BY <1>1, <1>2, <1>6, <1>7, <1>9 DEF JumpIds
  <2>4. \A i \in 0 .. size' - 1 : cmds'[i].type = "JumpTo" =>
          cmds'[i].cmd_index = jim'[cmds'[i].name] /\ jim'[cmds'[i].name] # IndexNotFound
    BY <1>2, <1>3, <1>6, <1>7, <1>8 DEF JumpIds
  <2>5. QED
    BY <2>1, <2>2, <2>3, <2>4 DEF JumpIds
<1>11. RepeatIds'
  BY <1>1, <1>4, <1>5, AppendKeepsRepeats
<1>12. QED
  BY <1>1, <1>2, <1>3, <1>4, <1>5, <1>10, <1>11, AppendInv DEF TypeOK

\* A JumpTo that is connected to index.
LEMMA ConnectedCommand ==
  ASSUME NEW d \in CommandRec, NEW index \in Int
  PROVE  LET e == [d EXCEPT !.cmd_index = index] IN
         /\ e \in CommandRec /\ e.cmd_index = index
         /\ e.type = d.type /\ e.name = d.name /\ e.values = d.values
BY DEF CommandRec

\* The array with c at its end, to which the JumpTos of its name are connected.
LEMMA ConnectedArray ==
  ASSUME TypeOK, NEW c \in CommandRec
  PROVE  LET arr == Connected(Added(c), c.name, size) IN
         /\ arr \in CommandArray(size + 1)
         /\ arr[size] = c
         /\ \A i \in 0 .. size - 1 :
              /\ arr[i].type = cmds[i].type /\ arr[i].name = cmds[i].name
              /\ arr[i].values = cmds[i].values
              /\ arr[i].cmd_index = IF cmds[i].type = "JumpTo" /\ cmds[i].name = c.name
                                    THEN size ELSE cmds[i].cmd_index
<1> DEFINE arr == Connected(Added(c), c.name, size)
           linked(i) == /\ i < size
                        /\ Added(c)[i].type = "JumpTo" /\ Added(c)[i].name = c.name
<1>1. /\ size \in Nat
      /\ Added(c) \in CommandArray(size + 1) /\ Added(c)[size] = c
      /\ \A i \in 0 .. size - 1 : Added(c)[i] = cmds[i]
  BY AddedArray DEF TypeOK
<1>2. DOMAIN Added(c) = 0 .. size /\ \A i \in 0 .. size : Added(c)[i] \in CommandRec
  BY <1>1 DEF CommandArray
<1>3. \A i \in 0 .. size :
        arr[i] = IF linked(i) THEN [Added(c)[i] EXCEPT !.cmd_index = size] ELSE Added(c)[i]
  BY <1>2 DEF Connected
<1>4. arr = [i \in 0 .. size |-> arr[i]]
  BY <1>2 DEF Connected
<1> HIDE DEF arr
<1>5. ASSUME NEW i \in 0 .. size
      PROVE  /\ arr[i] \in CommandRec
             /\ arr[i].type = Added(c)[i].type /\ arr[i].name = Added(c)[i].name
             /\ arr[i].values = Added(c)[i].values
             /\ arr[i].cmd_index = IF linked(i) THEN size ELSE Added(c)[i].cmd_index
  <2>1. CASE linked(i)
    <3>1. arr[i] = [Added(c)[i] EXCEPT !.cmd_index = size]
      BY <1>3, <2>1
    <3>2. QED
      BY <1>1, <1>2, <2>1, <3>1, ConnectedCommand
  <2>2. CASE ~linked(i)
    <3>1. arr[i] = Added(c)[i]
      BY <1>3, <2>2
    <3>2. QED
      BY <1>2, <2>2, <3>1
  <2>3. QED
    BY <2>1, <2>2
<1>6. arr \in CommandArray(size + 1)
  BY <1>1, <1>4, <1>5 DEF CommandArray
<1>7. size \in 0 .. size /\ ~linked(size)
  BY <1>1
<1>8. arr[size] = c
  BY <1>1, <1>3, <1>7
<1>9. \A i \in 0 .. size - 1 : i \in 0 .. size /\ i < size
  BY <1>1
<1>10. QED
  BY <1>1, <1>5, <1>6, <1>8, <1>9 DEF arr

\* A JumpFrom keeps it: the JumpTos of its name are connected to it.
LEMMA ReadJumpFromInv ==
  ASSUME Inv, NEW c \in CommandRec, ReadJumpFrom(c)
  PROVE  Inv'
<1>1. /\ c.type = "JumpFrom" /\ phase = "parsing" /\ c.name \in Names
      /\ UNCHANGED <<rim, rim_strings, phase>>
  BY DEF ReadJumpFrom, Parsing, CommandRec
<1>2. TypeOK /\ JumpIds
  BY DEF Inv
<1>3. CASE c.name \in jump_from_added
  <2>1. parse_error' = TRUE /\ UNCHANGED <<size, cmds, jim, jump_from_added>>
    BY <1>3 DEF ReadJumpFrom
  <2>2. TypeOK'
    BY <1>1, <1>2, <2>1 DEF TypeOK
  <2>3. QED
    BY <1>1, <2>1, <2>2 DEF Inv, RepeatIds, JumpIds, InitVarIds, AcceptedByChecks
<1>4. CASE c.name \notin jump_from_added
  <2> DEFINE arr == Connected(Added(c), c.name, size)
  <2>1. /\ jim' = [jim EXCEPT ![c.name] = size]
        /\ jump_from_added' = jump_from_added \union {c.name}
        /\ AddAndChain(arr)
    BY <1>4 DEF ReadJumpFrom
  <2>2. /\ jim' \in [Names -> Int] /\ size \in Nat
        /\ \A n \in Names : jim'[n] = IF n = c.name THEN size ELSE jim[n]
    BY <1>1, <1>2, <2>1 DEF TypeOK
  <2>4. /\ arr \in CommandArray(size + 1)
        /\ arr[size] = c
        /\ \A i \in 0 .. size - 1 :
             /\ arr[i].type = cmds[i].type /\ arr[i].name = cmds[i].name
             /\ arr[i].cmd_index = IF cmds[i].type = "JumpTo" /\ cmds[i].name = c.name
                                   THEN size ELSE cmds[i].cmd_index
    BY <1>2, ConnectedArray
  <2> HIDE DEF arr
  <2>5. Appends(arr, c)
    BY <2>1, <2>4 DEF Appends
  <2>6. /\ size' = size + 1
        /\ cmds'[size].type = "JumpFrom" /\ cmds'[size].name = c.name
        /\ \A i \in 0 .. size - 1 :
             /\ cmds'[i].type = cmds[i].type /\ cmds'[i].name = cmds[i].name
             /\ cmds'[i].cmd_index = IF cmds[i].type = "JumpTo" /\ cmds[i].name = c.name
                                     THEN size ELSE cmds[i].cmd_index
        /\ 0 .. size' - 1 = (0 .. size - 1) \union {size}
    BY <1>1, <2>2, <2>4, <2>5, AppendFacts
  <2>7. \A i \in 0 .. size - 1 : cmds[i].name \in Names
    BY <1>2 DEF TypeOK, CommandArray, CommandRec
  <2>8. JumpIds'
    <3>1. \A n \in Names : n \in jump_from_added' =>
            jim'[n] \in 0 .. size' - 1 /\ cmds'[jim'[n]].type = "JumpFrom"
      BY <1>2, <2>1, <2>2, <2>6 DEF JumpIds
    <3>2. \A n \in Names : n \notin jump_from_added' =>
            jim'[n] \in {IndexNotFound, JumpFromNotConnected}
      BY <1>2, <2>1, <2>2 DEF JumpIds
    <3>3. \A i \in 0 .. size' - 1 : cmds'[i].type = "JumpFrom" =>
            cmds'[i].name \in jump_from_added' /\ jim'[cmds'[i].name] = i
      BY <1>1, <1>2, <1>4, <2>1, <2>2, <2>6, <2>7 DEF JumpIds
    <3>4. \A i \in 0 .. size' - 1 : cmds'[i].type = "JumpTo" =>
            cmds'[i].cmd_index = jim'[cmds'[i].name] /\ jim'[cmds'[i].name] # IndexNotFound
      BY <1>2, <2>2, <2>6, <2>7 DEF JumpIds, IndexNotFound
    <3>5. QED
      BY <3>1, <3>2, <3>3, <3>4 DEF JumpIds
  <2>9. RepeatIds'
    <3>1. \A i \in 0 .. size - 1 :
            cmds[i].type = "RepeatEnd" => arr[i].cmd_index = cmds[i].cmd_index
      BY <2>4
    <3>2. QED
      BY <1>1, <2>5, <3>1, AppendKeepsRepeats
  <2>10. QED
    BY <1>1, <1>2, <2>1, <2>2, <2>5, <2>8, <2>9, AppendInv DEF TypeOK
<1>5. QED
  BY <1>3, <1>4

\* The end of the text keeps it: only the extra checks lead to an accepted program.
LEMMA EndOfTextInv ==
  ASSUME Inv, EndOfText
  PROVE  Inv'
<1>1. PICK rpn_ok \in BOOLEAN :
        phase' = IF parse_error THEN "rejected"
                 ELSE IF size = 0 THEN "crashed"
                 ELSE IF ExtraChecksPass /\ rpn_ok THEN "accepted" ELSE "rejected"
  BY DEF EndOfText
<1>2. /\ parse_error' = (parse_error \/ phase' = "rejected")
      /\ UNCHANGED <<size, cmds, rim, rim_strings, jim, jump_from_added>>
  BY DEF EndOfText
<1>3. TypeOK
  BY DEF Inv
<1>4. TypeOK'
  <2>1. phase' \in Phases
    BY <1>1 DEF Phases
  <2>2. parse_error' \in BOOLEAN
    BY <1>2, <1>3 DEF TypeOK
  <2>3. QED
    BY <1>2, <1>3, <2>1, <2>2 DEF TypeOK
<1>5. ~parse_error' => ~parse_error
  BY <1>2
<1>6. RepeatIds' /\ JumpIds' /\ InitVarIds'
  BY <1>2, <1>5 DEF Inv, RepeatIds, JumpIds, InitVarIds
<1>7. AcceptedByChecks'
  <2> SUFFICES ASSUME phase' = "accepted"
               PROVE  ~parse_error' /\ size' > 0 /\ ExtraChecksPass'
    BY DEF AcceptedByChecks
  <2>1. ~parse_error /\ size # 0 /\ ExtraChecksPass
    BY <1>1
  <2>2. ExtraChecksPass'
    BY <1>2, <2>1 DEF ExtraChecksPass
  <2>3. QED
    BY <1>2, <1>3, <2>1, <2>2 DEF TypeOK
<1>8. QED
  BY <1>4, <1>6, <1>7 DEF Inv

\* Nothing is read yet: the initial state, and the state after NewText.
LEMMA Empty ==
  ASSUME size = 0, cmds = [i \in {} |-> 0], rim = [n \in Names |-> IndexNotFound],
         rim_strings = {}, jim = [n \in Names |-> IndexNotFound], jump_from_added = {},
         parse_error = FALSE, phase = "parsing"
  PROVE  Inv
<1>1. 0 .. size - 1 = {}
  OBVIOUS
<1>2. TypeOK
  <2>1. cmds \in CommandArray(size)
    BY <1>1 DEF CommandArray
  <2>2. rim \in [Names -> Int] /\ jim \in [Names -> Int]
    BY DEF IndexNotFound
  <2>3. size \in Nat /\ phase \in Phases /\ parse_error \in BOOLEAN
    BY DEF Phases
  <2>4. rim_strings \in SUBSET Names /\ jump_from_added \in SUBSET Names
    OBVIOUS
  <2>5. QED
    BY <2>1, <2>2, <2>3, <2>4, Zenon DEF TypeOK
<1>3. QED
  BY <1>1, <1>2 DEF Inv, RepeatIds, RepeatsLinked, JumpIds, InitVarIds, AcceptedByChecks

\* The initial states satisfy the invariant.
LEMMA InitInv == Init => Inv
BY Empty DEF Init

\* Another text starts like the first one.
LEMMA NewTextInv ==
  ASSUME NewText
  PROVE  Inv'
<1>1. 0 .. size' - 1 = {}
  BY DEF NewText
<1>2. TypeOK'
  <2>1. cmds' \in CommandArray(size')
    BY <1>1 DEF NewText, CommandArray
  <2>2. rim' \in [Names -> Int] /\ jim' \in [Names -> Int]
    BY DEF NewText, IndexNotFound
  <2>3. size' \in Nat /\ phase' \in Phases /\ parse_error' \in BOOLEAN
    BY DEF NewText, Phases
  <2>4. rim_strings' \in SUBSET Names /\ jump_from_added' \in SUBSET Names
    BY DEF NewText
  <2>5. QED
    BY <2>1, <2>2, <2>3, <2>4, Zenon DEF TypeOK
<1>3. QED
  BY <1>1, <1>2 DEF NewText, Inv, RepeatIds, RepeatsLinked, JumpIds, InitVarIds,
                    AcceptedByChecks

\* Every step keeps the invariant.
LEMMA NextInv == Inv /\ [Next]_vars => Inv'
<1> SUFFICES ASSUME Inv, [Next]_vars PROVE Inv'
  OBVIOUS
<1>1. ASSUME NEW c \in Alphabet,
             \/ ReadCommand(c) \/ ReadRepeatStart(c) \/ ReadRepeatEnd(c)
             \/ ReadJumpTo(c) \/ ReadJumpFrom(c)
      PROVE  Inv'
  <2>1. c \in CommandRec
    BY AlphabetAssumption
  <2>2. QED
    BY <1>1, <2>1, ReadCommandInv, ReadRepeatStartInv, ReadRepeatEndInv, ReadJumpToInv,
       ReadJumpFromInv
<1>2. CASE ReadError
  <2>1. /\ parse_error' = TRUE /\ phase = "parsing"
        /\ UNCHANGED <<size, cmds, rim, rim_strings, jim, jump_from_added, phase>>
    BY <1>2 DEF ReadError, Parsing
  <2>2. QED
    BY <2>1 DEF Inv, TypeOK, RepeatIds, JumpIds, InitVarIds, AcceptedByChecks
<1>3. CASE EndOfText
  BY <1>3, EndOfTextInv
<1>4. CASE NewText
  BY <1>4, NewTextInv
<1>5. CASE UNCHANGED vars
  BY <1>5 DEF vars, Inv, TypeOK, RepeatIds, JumpIds, InitVarIds, AcceptedByChecks,
              ExtraChecksPass
<1>6. QED
  BY <1>1, <1>2, <1>3, <1>4, <1>5 DEF Next

\* The invariant holds in every state of the parser.
THEOREM InvHolds == Spec => []Inv
BY InitInv, NextInv, PTL DEF Spec

-------------------------------------------------------------------------------
\* Every variable of the parser keeps its type.
THEOREM TypeCorrect == Spec => []TypeOK
BY InvHolds, PTL DEF Inv

\* The invariant and the extra checks make the program well-formed.
LEMMA AcceptedWellFormed == Inv => AcceptedIsWellFormed
<1> SUFFICES ASSUME Inv, phase = "accepted"
             PROVE  WellFormed(cmds, size)
  BY DEF AcceptedIsWellFormed
<1>1. ~parse_error /\ size > 0 /\ ExtraChecksPass
  BY DEF Inv, AcceptedByChecks
<1>2. RepeatsLinked(cmds, size)
  BY <1>1 DEF Inv, RepeatIds
<1>3. JumpsLinked(cmds, size)
  <2> SUFFICES ASSUME NEW i \in 0 .. size - 1, cmds[i].type = "JumpTo"
               PROVE  /\ cmds[i].cmd_index \in 0 .. size - 1
                      /\ cmds[cmds[i].cmd_index].type = "JumpFrom"
    BY DEF JumpsLinked
  <2>1. cmds[i].name \in Names
    BY DEF Inv, TypeOK, CommandArray, CommandRec
  <2>2. /\ cmds[i].cmd_index = jim[cmds[i].name]
        /\ jim[cmds[i].name] # IndexNotFound
    BY DEF Inv, JumpIds
  <2>3. PICK j \in 0 .. size - 1 :
          cmds[j].type = "JumpFrom" /\ cmds[j].name = cmds[i].name
    BY <1>1, <2>1, <2>2 DEF ExtraChecksPass
  <2>4. cmds[i].name \in jump_from_added
    BY <2>3 DEF Inv, JumpIds
  <2>5. QED
    BY <2>1, <2>2, <2>4 DEF Inv, JumpIds
<1>4. QED
  BY <1>1, <1>2, <1>3 DEF ExtraChecksPass, WellFormed

\* An accepted text is a program whose jumps, repeats and queries all lead to
\* commands of it, and whose last command never has to be followed by another:
\* what RunProgram assumes of the programs it runs.
THEOREM AcceptedRunsSafely == Spec => []AcceptedIsWellFormed
BY AcceptedWellFormed, InvHolds, PTL

\* In an accepted program every JumpTo goes to the one JumpFrom of its name.
THEOREM JumpsAreResolved == Spec => []JumpsReachTheirLabel
<1>1. Inv => JumpsReachTheirLabel
  BY DEF Inv, JumpIds, JumpsReachTheirLabel
<1>2. QED
  BY <1>1, InvHolds, PTL

\* In an accepted program the InitVar commands come before all others.
THEOREM InitVarsAreFirst == Spec => []InitVarsFirst
<1>1. Inv => InitVarsFirst
  BY DEF Inv, InitVarIds, AcceptedByChecks, InitVarsFirst
<1>2. QED
  BY <1>1, InvHolds, PTL

-------------------------------------------------------------------------------
(* Linking leaves the values of a command as they were read. *)

ValuesRead ==
  \A i \in 0 .. size - 1 : \E c \in Alphabet : cmds[i].values = c.values

\* A step that appends a command with the values of c of the alphabet.
LEMMA AppendValues ==
  ASSUME TypeOK, ValuesRead, NEW c \in Alphabet,
         NEW arr \in CommandArray(size + 1), AddAndChain(arr),
         arr[size].values = c.values,
         \A i \in 0 .. size - 1 : arr[i].values = cmds[i].values
  PROVE  ValuesRead'
<1>1. /\ size \in Nat /\ size' = size + 1
      /\ \A i \in 0 .. size : cmds'[i].values = arr[i].values
  BY AddAndChainFacts DEF TypeOK
<1>2. \A i \in 0 .. size' - 1 : i = size \/ i \in 0 .. size - 1
  BY <1>1
<1>3. QED
  BY <1>1, <1>2 DEF ValuesRead

\* Every step of the parser keeps ValuesRead.
LEMMA NextValuesRead == Inv /\ ValuesRead /\ [Next]_vars => ValuesRead'
<1> SUFFICES ASSUME Inv, ValuesRead, [Next]_vars PROVE ValuesRead'
  OBVIOUS
<1>1. TypeOK
  BY DEF Inv
<1>2. ASSUME NEW c \in Alphabet, NEW e \in CommandRec, e.values = c.values,
             AddAndChain(Added(e))
      PROVE  ValuesRead'
  BY <1>1, <1>2, AddedArray, AppendValues
<1>3. CASE UNCHANGED <<size, cmds>>
  BY <1>3 DEF ValuesRead
<1>4. ASSUME NEW c \in Alphabet, ReadCommand(c) \/ ReadRepeatStart(c) PROVE ValuesRead'
  BY <1>2, <1>3, <1>4, AlphabetAssumption DEF ReadCommand, ReadRepeatStart
<1>5. ASSUME NEW c \in Alphabet, ReadRepeatEnd(c) PROVE ValuesRead'
  <2>1. c \in CommandRec /\ c.name \in Names
    BY AlphabetAssumption DEF CommandRec
  <2>2. rim[c.name] \in Int
    BY <1>1, <2>1 DEF TypeOK
  <2>3. /\ [c EXCEPT !.cmd_index = rim[c.name]] \in CommandRec
        /\ [c EXCEPT !.cmd_index = rim[c.name]].values = c.values
    BY <2>1, <2>2, ConnectedCommand
  <2>4. QED
    BY <1>2, <1>3, <1>5, <2>3 DEF ReadRepeatEnd
<1>6. ASSUME NEW c \in Alphabet, ReadJumpTo(c) PROVE ValuesRead'
  <2>1. c \in CommandRec /\ c.name \in Names
    BY AlphabetAssumption DEF CommandRec
  <2>2. jim'[c.name] \in Int
    BY <1>1, <1>6, <2>1 DEF ReadJumpTo, TypeOK, JumpFromNotConnected
  <2>3. /\ [c EXCEPT !.cmd_index = jim'[c.name]] \in CommandRec
        /\ [c EXCEPT !.cmd_index = jim'[c.name]].values = c.values
    BY <2>1, <2>2, ConnectedCommand
  <2>4. QED
    BY <1>2, <1>6, <2>3 DEF ReadJumpTo
<1>7. ASSUME NEW c \in Alphabet, ReadJumpFrom(c) PROVE ValuesRead'
  <2>1. CASE c.name \in jump_from_added
    BY <1>3, <1>7, <2>1 DEF ReadJumpFrom
  <2>2. CASE c.name \notin jump_from_added
    <3> DEFINE arr == Connected(Added(c), c.name, size)
    <3>1. /\ arr \in CommandArray(size + 1) /\ arr[size] = c
          /\ \A i \in 0 .. size - 1 : arr[i].values = cmds[i].values
      BY <1>1, ConnectedArray, AlphabetAssumption
    <3>2. AddAndChain(arr)
      BY <1>7, <2>2 DEF ReadJumpFrom
    <3> HIDE DEF arr
    <3>3. QED
      BY <1>1, <3>1, <3>2, AppendValues
  <2>3. QED
    BY <2>1, <2>2
<1>8. CASE ReadError \/ EndOfText \/ UNCHANGED vars
  BY <1>3, <1>8 DEF ReadError, EndOfText, vars
<1>9. CASE NewText
  <2>1. 0 .. size' - 1 = {}
    BY <1>9 DEF NewText
  <2>2. QED
    BY <2>1 DEF ValuesRead
<1>10. QED
  BY <1>4, <1>5, <1>6, <1>7, <1>8, <1>9 DEF Next

-------------------------------------------------------------------------------
(***************************************************************************)
(* What linking does to the queries of a chain, and where the interpreter  *)
(* gets to when it enters one.                                             *)
(***************************************************************************)

\* Queries come from the text with the jumps macro_buffer_process_next begins with
\* (query_jump_e, query_jump_ne), or with their own.
QueriesUnlinked ==
  \A c \in Alphabet :
    IsQuery(c) /\ c.comb_type # "CUSTOM" => c.jump_e = 1 /\ c.jump_ne = 2

\* The queries first .. last of arr decide together, by the kind of the last one.
Linked(arr, first, last) ==
  /\ arr[last].jump_e = 1 /\ arr[last].jump_ne = 2
  /\ \A i \in first .. last - 1 :
       /\ arr[last].comb_type \in {"AND", "OR"}
       /\ arr[i].comb_type \in {"NONE", arr[last].comb_type}
       /\ arr[last].comb_type = "OR"  => arr[i].jump_e = last + 1 - i /\ arr[i].jump_ne = 1
       /\ arr[last].comb_type = "AND" => arr[i].jump_e = 1 /\ arr[i].jump_ne = last + 2 - i

ChainsLinked ==
  ~parse_error =>
    \A first \in 0 .. size - 1 : \A last \in first .. size - 1 :
      IsChain(first, last) => Linked(cmds, first, last)

\* arr has one command more and the same queries before it.
QueriesKept(arr) ==
  /\ arr \in CommandArray(size + 1)
  /\ \A i \in 0 .. size - 1 : IsQuery(arr[i]) \/ IsQuery(cmds[i]) => arr[i] = cmds[i]
  /\ IsQuery(arr[size]) => arr[size] \in Alphabet

\* The kind and the jumps of a command after the queries before it were chained.
LEMMA ChainedJumps ==
  ASSUME NEW n \in Nat, NEW arr \in CommandArray(n), NEW last, NEW i \in 0 .. n - 1
  PROVE  LET q == QueriesChained(arr, last)[i] IN
         /\ q.type = arr[i].type /\ q.comb_type = arr[i].comb_type
         /\ q.jump_ne = IF arr[last].comb_type = "OR" /\ i = last - 1 /\ IsQuery(arr[i])
                        THEN 1
                        ELSE IF i \in Walked(arr, last) /\ arr[last].comb_type = "AND"
                             THEN arr[i].jump_ne + 1 ELSE arr[i].jump_ne
         /\ q.jump_e = IF i \in Walked(arr, last) /\ arr[last].comb_type = "OR"
                       THEN arr[i].jump_e + 1 ELSE arr[i].jump_e
<1> DEFINE ne == IF arr[last].comb_type = "OR" /\ i = last - 1 /\ IsQuery(arr[i])
                 THEN 1
                 ELSE IF i \in Walked(arr, last) /\ arr[last].comb_type = "AND"
                 THEN arr[i].jump_ne + 1 ELSE arr[i].jump_ne
           e == IF i \in Walked(arr, last) /\ arr[last].comb_type = "OR"
                THEN arr[i].jump_e + 1 ELSE arr[i].jump_e
<1>1. i \in DOMAIN arr /\ arr[i] \in CommandRec
  BY DEF CommandArray
<1>2. QueriesChained(arr, last)[i] = [arr[i] EXCEPT !.jump_ne = ne, !.jump_e = e]
  BY <1>1 DEF QueriesChained
<1> HIDE DEF ne, e
<1>3. LET q == QueriesChained(arr, last)[i] IN
      /\ q.type = arr[i].type /\ q.comb_type = arr[i].comb_type
      /\ q.jump_ne = ne /\ q.jump_e = e
  BY <1>1, <1>2 DEF CommandRec
<1>. QED  BY <1>3 DEF ne, e

\* A step that appends a command keeps the chains linked: it ends no chain but the last,
\* and if it extends that one, its walk back reaches all of it.
LEMMA AppendChains ==
  ASSUME TypeOK, QueriesUnlinked, ChainsLinked, NEW arr, QueriesKept(arr), AddAndChain(arr)
  PROVE  ChainsLinked'
<1> SUFFICES ASSUME ~parse_error',
                    NEW first \in 0 .. size' - 1, NEW last \in first .. size' - 1,
                    IsChain(first, last)'
             PROVE  Linked(cmds', first, last)
  BY DEF ChainsLinked
<1>1. /\ size \in Nat /\ size' = size + 1 /\ arr \in CommandArray(size + 1)
      /\ first \in 0 .. size /\ last \in first .. size
  BY DEF TypeOK, AddAndChain, QueriesKept
<1>2. /\ \A i \in first .. last : IsQuery(cmds'[i]) /\ cmds'[i].comb_type # "CUSTOM"
      /\ first = 0 \/ ~IsQuery(cmds'[first - 1])
      /\ last = size \/ ~IsQuery(cmds'[last + 1])
  BY <1>1 DEF IsChain
<1>3. /\ ~parse_error
      /\ \/ cmds' = arr /\ ~IsQuery(arr[size])
         \/ cmds' = QueriesChained(arr, size) /\ IsQuery(arr[size]) /\ ~ChainMixed(arr, size)
  BY DEF AddAndChain
<1>4. \A i \in 0 .. size :
        /\ IsQuery(cmds'[i]) <=> IsQuery(arr[i])
        /\ cmds'[i].comb_type = arr[i].comb_type
  BY <1>1, <1>3, ChainedJumps DEF IsQuery
<1>5. \A i \in 0 .. size - 1 : IsQuery(arr[i]) <=> IsQuery(cmds[i])
  BY DEF QueriesKept
<1>6. \A f \in 0 .. size - 1 : \A l \in f .. size - 1 : IsChain(f, l) => Linked(cmds, f, l)
  BY <1>3 DEF ChainsLinked
<1>7. CASE last # size
  <2>1. last \in first .. size - 1 /\ first \in 0 .. size - 1
    BY <1>1, <1>7
  <2>2. ~IsQuery(arr[last + 1])
    BY <1>1, <1>2, <1>4, <1>7
  <2>3. \A i \in first .. last : i \in 0 .. size - 1 /\ IsQuery(arr[i]) /\ arr[i] = cmds[i]
    BY <1>1, <1>2, <1>4, <2>1 DEF QueriesKept
  <2>4. IsChain(first, last)
    <3>1. \A i \in first .. last : IsQuery(cmds[i]) /\ cmds[i].comb_type # "CUSTOM"
      BY <1>1, <1>2, <1>4, <2>1, <2>3
    <3>2. first = 0 \/ ~IsQuery(cmds[first - 1])
      BY <1>1, <1>2, <1>4, <1>5, <2>1
    <3>3. last = size - 1 \/ ~IsQuery(cmds[last + 1])
      BY <1>1, <1>5, <2>1, <2>2
    <3>. QED  BY <3>1, <3>2, <3>3 DEF IsChain
  <2>5. \A i \in first .. last :
          /\ cmds'[i].comb_type = cmds[i].comb_type
          /\ cmds'[i].jump_e = cmds[i].jump_e /\ cmds'[i].jump_ne = cmds[i].jump_ne
    <3>1. CASE cmds' = arr
      BY <2>3, <3>1
    <3>2. CASE cmds' = QueriesChained(arr, size) /\ IsQuery(arr[size])
      <4>1. last + 1 \in 0 .. size - 1
        BY <1>1, <2>1, <2>2, <3>2
      <4>2. \A i \in first .. last : i \notin Walked(arr, size) /\ i # size - 1
        BY <1>1, <2>1, <2>2, <4>1 DEF Walked
      <4>3. size + 1 \in Nat /\ \A i \in first .. last : i \in 0 .. size + 1 - 1
        BY <1>1, <2>1
      <4>4. \A i \in first .. last :
              /\ cmds'[i].comb_type = arr[i].comb_type
              /\ cmds'[i].jump_e = arr[i].jump_e /\ cmds'[i].jump_ne = arr[i].jump_ne
        BY <1>1, <3>2, <4>2, <4>3, ChainedJumps
      <4>. QED  BY <2>3, <4>4
    <3>. QED  BY <1>3, <3>1, <3>2
  <2>6. last \in first .. last /\ \A i \in first .. last - 1 : i \in first .. last
    BY <2>1
  <2>. QED  BY <1>6, <2>1, <2>4, <2>5, <2>6 DEF Linked
<1>8. CASE last = size
  <2>1. /\ cmds' = QueriesChained(arr, size) /\ IsQuery(arr[size]) /\ ~ChainMixed(arr, size)
        /\ arr[size].comb_type # "CUSTOM" /\ size \in 0 .. size
    BY <1>1, <1>2, <1>3, <1>4, <1>8
  <2>2. arr[size].jump_e = 1 /\ arr[size].jump_ne = 2
    BY <2>1 DEF QueriesKept, QueriesUnlinked
  <2>3. cmds'[size].jump_e = 1 /\ cmds'[size].jump_ne = 2
    <3>1. size \notin Walked(arr, size) /\ size # size - 1
      BY <1>1 DEF Walked
    <3>. QED  BY <1>1, <2>1, <2>2, <3>1, ChainedJumps
  <2>4. CASE first = size
    BY <1>1, <1>8, <2>3, <2>4 DEF Linked
  <2>5. CASE first # size
    <3> DEFINE op == arr[size].comb_type
    <3>1. size - 1 \in first .. size - 1 /\ first \in 0 .. size - 1
      BY <1>1, <2>5
    <3>2. \A i \in first .. size - 1 : i \in 0 .. size - 1 /\ IsQuery(arr[i]) /\ arr[i] = cmds[i]
      BY <1>1, <1>2, <1>4, <1>8, <3>1 DEF QueriesKept
    <3>3. IsChain(first, size - 1)
      <4>1. \A i \in first .. size - 1 : IsQuery(cmds[i]) /\ cmds[i].comb_type # "CUSTOM"
        BY <1>2, <1>4, <1>8, <3>1, <3>2
      <4>2. first = 0 \/ ~IsQuery(cmds[first - 1])
        BY <1>1, <1>2, <1>4, <1>5, <3>1
      <4>. QED  BY <4>1, <4>2 DEF IsChain
    <3>4. Linked(arr, first, size - 1)
      <4>1. Linked(cmds, first, size - 1)
        BY <1>6, <3>1, <3>3
      <4>2. \A i \in first .. size - 1 - 1 : i \in first .. size - 1
        BY <3>1
      <4>. QED  BY <3>1, <3>2, <4>1, <4>2 DEF Linked
    <3>5. Chains(op, arr[size - 1].comb_type)
      <4>1. size - 1 \in Walked(arr, size)
        <5>1. \A j \in size - 1 + 1 .. size - 1 : j \in Walked(arr, size)
          BY <1>1
        <5>. QED  BY <1>1, <2>1, <3>1, <3>2, <5>1 DEF ChainMixed
      <4>. QED  BY <1>1, <4>1 DEF Walked
    <3>6. op \in {"AND", "OR"} /\ \A i \in first .. size - 1 : arr[i].comb_type \in {"NONE", op}
      <4>1. op \in {"AND", "OR"} /\ arr[size - 1].comb_type \in {"NONE", op}
        BY <2>1, <3>5 DEF Chains
      <4>2. \A i \in first .. size - 1 - 1 :
              /\ arr[size - 1].comb_type \in {"AND", "OR"}
              /\ arr[i].comb_type \in {"NONE", arr[size - 1].comb_type}
        BY <3>4 DEF Linked
      <4>3. \A i \in first .. size - 1 : i = size - 1 \/ i \in first .. size - 1 - 1
        BY <3>1
      <4>. QED  BY <4>1, <4>2, <4>3
    <3>7. \A i \in first .. size - 1 : i \in Walked(arr, size)
      <4>1. \A i \in first .. size - 1 : IsQuery(arr[i]) /\ Chains(op, arr[i].comb_type)
        BY <3>2, <3>6 DEF Chains
      <4>2. \A i \in first .. size - 1 : \A j \in i .. size - 1 : j \in first .. size - 1
        BY <3>1
      <4>. QED  BY <3>2, <4>1, <4>2 DEF Walked
    <3>8. ASSUME NEW i \in first .. size - 1
          PROVE  /\ cmds'[i].comb_type \in {"NONE", op}
                 /\ op = "OR"  => cmds'[i].jump_e = size + 1 - i /\ cmds'[i].jump_ne = 1
                 /\ op = "AND" => cmds'[i].jump_e = 1 /\ cmds'[i].jump_ne = size + 2 - i
      <4>1. i \in 0 .. size /\ i \in Walked(arr, size) /\ IsQuery(arr[i])
        BY <1>1, <3>1, <3>2, <3>7
      <4>2. /\ cmds'[i].comb_type = arr[i].comb_type
            /\ op = "OR" => /\ cmds'[i].jump_e = arr[i].jump_e + 1
                            /\ cmds'[i].jump_ne = IF i = size - 1 THEN 1 ELSE arr[i].jump_ne
            /\ op = "AND" => /\ cmds'[i].jump_e = arr[i].jump_e
                             /\ cmds'[i].jump_ne = arr[i].jump_ne + 1
        <5>1. size + 1 \in Nat /\ i \in 0 .. size + 1 - 1
          BY <1>1, <4>1
        <5>. QED  BY <1>1, <2>1, <4>1, <5>1, ChainedJumps
      <4>3. CASE i = size - 1
        BY <1>1, <3>4, <3>6, <4>2, <4>3 DEF Linked
      <4>4. CASE i # size - 1
        <5>1. i \in first .. size - 1 - 1
          BY <3>1, <4>4
        <5>2. arr[size - 1].comb_type = op
          BY <3>1, <3>4, <3>6, <5>1 DEF Linked
        <5>3. /\ op = "OR" => arr[i].jump_e = size - 1 + 1 - i /\ arr[i].jump_ne = 1
              /\ op = "AND" => arr[i].jump_e = 1 /\ arr[i].jump_ne = size - 1 + 2 - i
          BY <3>4, <5>1, <5>2 DEF Linked
        <5>. QED  BY <1>1, <3>1, <3>6, <4>2, <4>4, <5>3
      <4>. QED  BY <4>3, <4>4
    <3>9. cmds'[size].comb_type = op
      BY <1>4, <2>1
    <3>. QED  BY <1>8, <2>3, <3>6, <3>8, <3>9 DEF Linked
  <2>. QED  BY <2>4, <2>5
<1>. QED  BY <1>7, <1>8

\* A JumpFrom changes no query.
LEMMA ConnectedQueries ==
  ASSUME TypeOK, NEW c \in CommandRec, c.type = "JumpFrom"
  PROVE  QueriesKept(Connected(Added(c), c.name, size))
<1> DEFINE arr == Connected(Added(c), c.name, size)
<1>1. /\ size \in Nat /\ arr \in CommandArray(size + 1) /\ arr[size] = c
      /\ \A i \in 0 .. size - 1 : arr[i].type = cmds[i].type
  BY ConnectedArray DEF TypeOK
<1>2. \A i \in 0 .. size - 1 : IsQuery(cmds[i]) => arr[i] = cmds[i]
  <2>1. Added(c) \in CommandArray(size + 1) /\ \A i \in 0 .. size - 1 : Added(c)[i] = cmds[i]
    BY AddedArray
  <2>2. \A i \in 0 .. size - 1 : i \in DOMAIN Added(c)
    BY <1>1, <2>1 DEF CommandArray
  <2>. QED  BY <2>1, <2>2 DEF Connected, IsQuery
<1> HIDE DEF arr
<1>3. QueriesKept(arr)
  BY <1>1, <1>2 DEF QueriesKept, IsQuery
<1>. QED  BY <1>3 DEF arr

\* An added command changes no query; it is one only as it stands in the text.
LEMMA AddedQueries ==
  ASSUME TypeOK, NEW c \in CommandRec, IsQuery(c) => c \in Alphabet
  PROVE  QueriesKept(Added(c))
  BY AddedArray DEF QueriesKept

\* Every step of the parser keeps the chains linked.
LEMMA NextChains ==
  ASSUME QueriesUnlinked
  PROVE  Inv /\ ChainsLinked /\ [Next]_vars => ChainsLinked'
<1> SUFFICES ASSUME Inv, ChainsLinked, [Next]_vars PROVE ChainsLinked'
  OBVIOUS
<1>1. TypeOK
  BY DEF Inv
<1>2. ASSUME NEW e \in CommandRec, IsQuery(e) => e \in Alphabet, AddAndChain(Added(e))
      PROVE  ChainsLinked'
  BY <1>1, <1>2, AddedQueries, AppendChains
<1>3. CASE parse_error'
  BY <1>3 DEF ChainsLinked
<1>4. CASE UNCHANGED <<size, cmds, parse_error>>
  BY <1>4 DEF ChainsLinked, IsChain
<1>5. ASSUME NEW c \in Alphabet, ReadCommand(c) \/ ReadRepeatStart(c) PROVE ChainsLinked'
  BY <1>2, <1>4, <1>5, AlphabetAssumption DEF ReadCommand, ReadRepeatStart
<1>6. ASSUME NEW c \in Alphabet, ReadRepeatEnd(c) PROVE ChainsLinked'
  <2>1. c \in CommandRec /\ c.name \in Names /\ c.type = "RepeatEnd"
    BY <1>6, AlphabetAssumption DEF CommandRec, ReadRepeatEnd
  <2>2. rim[c.name] \in Int
    BY <1>1, <2>1 DEF TypeOK
  <2>3. /\ [c EXCEPT !.cmd_index = rim[c.name]] \in CommandRec
        /\ [c EXCEPT !.cmd_index = rim[c.name]].type = "RepeatEnd"
    BY <2>1, <2>2, ConnectedCommand
  <2>. QED  BY <1>2, <1>3, <1>6, <2>3 DEF ReadRepeatEnd, IsQuery
<1>7. ASSUME NEW c \in Alphabet, ReadJumpTo(c) PROVE ChainsLinked'
  <2>1. c \in CommandRec /\ c.name \in Names /\ c.type = "JumpTo"
    BY <1>7, AlphabetAssumption DEF CommandRec, ReadJumpTo
  <2>2. jim'[c.name] \in Int
    BY <1>1, <1>7, <2>1 DEF ReadJumpTo, TypeOK, JumpFromNotConnected
  <2>3. /\ [c EXCEPT !.cmd_index = jim'[c.name]] \in CommandRec
        /\ [c EXCEPT !.cmd_index = jim'[c.name]].type = "JumpTo"
    BY <2>1, <2>2, ConnectedCommand
  <2>. QED  BY <1>2, <1>7, <2>3 DEF ReadJumpTo, IsQuery
<1>8. ASSUME NEW c \in Alphabet, ReadJumpFrom(c) PROVE ChainsLinked'
  <2>1. c \in CommandRec /\ c.type = "JumpFrom"
    BY <1>8, AlphabetAssumption DEF ReadJumpFrom
  <2>2. QueriesKept(Connected(Added(c), c.name, size))
    BY <1>1, <2>1, ConnectedQueries
  <2>3. parse_error' \/ AddAndChain(Connected(Added(c), c.name, size))
    BY <1>8 DEF ReadJumpFrom
  <2>. QED  BY <1>1, <1>3, <2>2, <2>3, AppendChains
<1>9. CASE ReadError
  BY <1>3, <1>9 DEF ReadError
<1>10. CASE EndOfText
  BY <1>10 DEF EndOfText, ChainsLinked, IsChain
<1>11. CASE NewText
  <2>1. 0 .. size' - 1 = {}
    BY <1>11 DEF NewText
  <2>. QED  BY <2>1 DEF ChainsLinked
<1>12. CASE UNCHANGED vars
  BY <1>4, <1>12 DEF vars
<1>. QED  BY <1>5, <1>6, <1>7, <1>8, <1>9, <1>10, <1>11, <1>12 DEF Next

\* A set of numbers has a least one.
LEMMA Least ==
  ASSUME NEW T, T \subseteq Nat, T # {}
  PROVE  \E n \in T : \A m \in T : n <= m
<1>1. IsWellFoundedOn(OpToRel(<, Nat), Nat)
  BY NatLessThanWellFounded
<1>2. PICK n \in T : \A m \in T : ~(<<m, n>> \in OpToRel(<, Nat))
  BY <1>1, WFMin
<1>3. \A m \in T : ~(m < n)
  BY <1>2 DEF OpToRel
<1>. QED  BY <1>3

\* Whether the queries i .. last, evaluated for themselves, hold together.
Decides(i, last, truth) ==
  IF cmds[last].comb_type = "OR"
  THEN \E k \in i .. last : Holds(k, truth)
  ELSE \A k \in i .. last : Holds(k, truth)

\* Where query i leads.
Target(i, truth) == i + IF Holds(i, truth) THEN cmds[i].jump_e ELSE cmds[i].jump_ne

\* Where the chain leads when it is entered at i.
Outcome(i, last, truth) ==
  IF i > last THEN i ELSE IF Decides(i, last, truth) THEN last + 1 ELSE last + 2

\* A query leads onwards, to where the queries from it on lead together.
LEMMA OneQuery ==
  ASSUME NEW first \in Nat, NEW last \in Nat, Linked(cmds, first, last),
         NEW truth \in [first .. last -> BOOLEAN], NEW i \in first .. last
  PROVE  /\ Target(i, truth) \in i + 1 .. last + 2
         /\ Outcome(i, last, truth) = Outcome(Target(i, truth), last, truth)
<1>1. CASE i = last
  <2>1. Target(i, truth) = IF Holds(i, truth) THEN last + 1 ELSE last + 2
    BY <1>1 DEF Linked, Target
  <2>2. Decides(i, last, truth) <=> Holds(i, truth)
    BY <1>1 DEF Decides
  <2>. QED  BY <1>1, <2>1, <2>2 DEF Outcome
<1>2. CASE i # last
  <2>1. /\ i \in first .. last - 1
        /\ \A k \in i .. last : k = i \/ k \in i + 1 .. last
        /\ \A k \in i + 1 .. last : k \in i .. last
        /\ i \in i .. last
    BY <1>2
  <2>2. /\ cmds[last].comb_type \in {"AND", "OR"}
        /\ cmds[last].comb_type = "OR" => cmds[i].jump_e = last + 1 - i /\ cmds[i].jump_ne = 1
        /\ cmds[last].comb_type = "AND" => cmds[i].jump_e = 1 /\ cmds[i].jump_ne = last + 2 - i
    BY <2>1 DEF Linked
  <2>3. CASE cmds[last].comb_type = "OR"
    <3>1. Target(i, truth) = IF Holds(i, truth) THEN last + 1 ELSE i + 1
      BY <2>2, <2>3 DEF Target
    <3>2. Decides(i, last, truth) <=> Holds(i, truth) \/ Decides(i + 1, last, truth)
      BY <2>1, <2>3 DEF Decides
    <3>. QED  BY <2>1, <3>1, <3>2 DEF Outcome
  <2>4. CASE cmds[last].comb_type = "AND"
    <3>1. Target(i, truth) = IF Holds(i, truth) THEN i + 1 ELSE last + 2
      BY <2>2, <2>4 DEF Target
    <3>2. Decides(i, last, truth) <=> Holds(i, truth) /\ Decides(i + 1, last, truth)
      BY <2>1, <2>4 DEF Decides
    <3>. QED  BY <2>1, <3>1, <3>2 DEF Outcome
  <2>. QED  BY <2>2, <2>3, <2>4
<1>. QED  BY <1>1, <1>2

\* So the interpreter gets to where all of them lead together: Landing is a recursion
\* over the chain, which the function of the outcomes satisfies and no other.
LEMMA LandingDecides ==
  ASSUME NEW first \in Nat, NEW last \in Nat, first <= last, Linked(cmds, first, last),
         NEW truth \in [first .. last -> BOOLEAN]
  PROVE  Landing(first, last, truth) = Outcome(first, last, truth)
<1> DEFINE D == first .. last + 2
           Body(g) == [i \in D |-> IF i > last THEN i
                        ELSE g[i + (IF Holds(i, truth) THEN cmds[i].jump_e
                                    ELSE cmds[i].jump_ne)]]
           land == CHOOSE g : g = Body(g)
           w == [i \in D |-> Outcome(i, last, truth)]
<1>1. Landing(first, last, truth) = land[first]
  BY DEF Landing
<1>2. \A i \in D : ~(i > last) =>
        /\ Target(i, truth) \in D /\ Target(i, truth) \in i + 1 .. last + 2
        /\ Outcome(i, last, truth) = Outcome(Target(i, truth), last, truth)
  <2>1. ASSUME NEW i \in D, ~(i > last) PROVE i \in first .. last
    BY <2>1
  <2>2. ASSUME NEW i \in first .. last, Target(i, truth) \in i + 1 .. last + 2
        PROVE  Target(i, truth) \in D
    BY <2>2
  <2>. QED  BY <2>1, <2>2, OneQuery
<1>3. w = Body(w)
  BY <1>2 DEF Target, Outcome
<1>4. land = Body(land)
  <2> HIDE DEF w, Body
  <2>. QED  BY <1>3, Zenon
<1> HIDE DEF land
<1>5. \A i \in D : land[i] = IF i > last THEN i ELSE land[Target(i, truth)]
  BY <1>4 DEF Target
<1> DEFINE Wrong == {n \in 0 .. last + 2 - first :
                       land[last + 2 - n] # Outcome(last + 2 - n, last, truth)}
<1>6. Wrong = {}
  <2> SUFFICES ASSUME Wrong # {} PROVE FALSE
    OBVIOUS
  <2>0. Wrong \subseteq Nat
    OBVIOUS
  <2>1. PICK n \in Wrong : \A m \in Wrong : n <= m
    <3> HIDE DEF Wrong
    <3>. QED  BY <2>0, Least
  <2> DEFINE i == last + 2 - n
  <2>2. n \in Nat /\ i \in D /\ land[i] # Outcome(i, last, truth)
    BY <2>1
  <2>3. ~(i > last)
    BY <1>5, <2>2 DEF Outcome
  <2> DEFINE j == Target(i, truth)
  <2>4. /\ j \in D /\ j \in i + 1 .. last + 2
        /\ land[i] = land[j] /\ Outcome(i, last, truth) = Outcome(j, last, truth)
    BY <1>2, <1>5, <2>2, <2>3
  <2> HIDE DEF j
  <2>5. /\ last + 2 - j \in 0 .. last + 2 - first /\ last + 2 - j < n
        /\ last + 2 - (last + 2 - j) = j
    BY <2>2, <2>4
  <2>6. last + 2 - j \in Wrong
    BY <2>2, <2>4, <2>5
  <2>. QED  BY <2>1, <2>5, <2>6
<1>7. land[first] = Outcome(first, last, truth)
  <2>1. last + 2 - first \in 0 .. last + 2 - first /\ last + 2 - (last + 2 - first) = first
    OBVIOUS
  <2>. QED  BY <1>6, <2>1
<1>. QED  BY <1>1, <1>7

\* In an accepted text of any length, where queries enter without jumps of their own, a
\* chain of them leads to the command behind it exactly if what it says in the text
\* holds, one of its queries or all of them, and past that command otherwise.
THEOREM ChainsDecideAsWritten ==
  ASSUME QueriesUnlinked
  PROVE  Spec => []ChainsDecide
<1>1. Init => ChainsLinked
  <2>1. Init => 0 .. size - 1 = {}
    BY DEF Init
  <2>. QED  BY <2>1 DEF ChainsLinked
<1>2. Inv /\ ChainsLinked => ChainsDecide
  <2> SUFFICES ASSUME Inv, ChainsLinked, phase = "accepted",
                      NEW first \in 0 .. size - 1, NEW last \in first .. size - 1,
                      IsChain(first, last), NEW truth \in [first .. last -> BOOLEAN]
               PROVE  Landing(first, last, truth) =
                        IF (IF cmds[last].comb_type = "OR"
                            THEN \E i \in first .. last : Holds(i, truth)
                            ELSE \A i \in first .. last : Holds(i, truth))
                        THEN last + 1 ELSE last + 2
    BY DEF ChainsDecide
  <2>1. first \in Nat /\ last \in Nat /\ first <= last
    BY DEF Inv, TypeOK
  <2>2. Linked(cmds, first, last)
    BY DEF Inv, AcceptedByChecks, ChainsLinked
  <2>3. Landing(first, last, truth) = Outcome(first, last, truth)
    BY <2>1, <2>2, LandingDecides
  <2>. QED  BY <2>1, <2>3 DEF Outcome, Decides
<1>. QED  BY <1>1, <1>2, InvHolds, NextChains, PTL DEF Spec
===============================================================================
