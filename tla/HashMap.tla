------------------------------- MODULE HashMap -------------------------------
(* The open-addressing hash table of hash_map.h (StringMap_*; IntLongMap_* is *)
(* the same code for keys of type long): Robin Hood insertion, deletion by    *)
(* shifting backwards, and the operations of tables of perfect hashes.  Every *)
(* iteration of a loop is a step.  The hash function is arbitrary.            *)
EXTENDS Integers, FiniteSets

CONSTANTS Keys, Values,
          Sizes,      \* the sizes a table is made with
          Hashes,     \* what the hash function can return
          NoKey       \* the null pointer of an empty slot

\* _StringMap_erase reads a freed key in a table of one slot; no table has one.
ASSUME SizesAssumption == Sizes \subseteq Nat \ {0, 1}

ASSUME HashesAssumption == Hashes \subseteq Nat /\ NoKey \notin Keys

VARIABLES hash,       \* the hash function of the map's type
          perfect,    \* whether it is used through the operations ending in _ph
          map,        \* the table
          new_table,  \* the table resize fills
          call,       \* the locals of the operation that runs
          reply       \* the operation that returned last, and what it returned

vars == <<hash, perfect, map, new_table, call, reply>>

New(size) ==
  [MaxSize |-> size, size |-> 0, keys |-> [i \in 0 .. size - 1 |-> NoKey],
   map_values |-> [i \in 0 .. size - 1 |-> 0]]

Mod(t, n) == n % t.MaxSize
SubMod(t, n) == (t.MaxSize + n) % t.MaxSize
Home(t, k) == Mod(t, hash[k])
Distance(t, i) == SubMod(t, i - Home(t, t.keys[i]))

Put(t, i, k, v) == [t EXCEPT !.keys[i] = k, !.map_values[i] = v]

Idle == [op |-> "none", at |-> "idle"]

Returns(op, k, result) ==
  /\ reply' = [op |-> op, key |-> k, result |-> result]
  /\ call' = Idle

Nothing == [exists |-> FALSE]
Found(v) == [exists |-> TRUE, value |-> v]

Init ==
  /\ hash \in [Keys -> Hashes]
  /\ perfect \in BOOLEAN
  /\ map \in {New(n) : n \in Sizes}
  /\ new_table = New(0)
  /\ call = Idle
  /\ reply = [op |-> "new"]

-----------------------------------------------------------------------------
(* assign, for a caller and for resize.                                       *)

Target == IF call.op = "resize" THEN new_table ELSE map

\* The table after a step of the loop of assign.
Becomes(t) ==
  IF call.op = "resize" THEN new_table' = t /\ UNCHANGED map
                        ELSE map' = t /\ UNCHANGED new_table

\* What assign returns goes to the caller; resize looks at nothing.
AssignReturns(result) ==
  IF call.op = "resize"
  THEN call' = [call EXCEPT !.at = "stored"] /\ UNCHANGED reply
  ELSE Returns("assign", <<call.key, call.given>>, result)

\* given is the caller's value, which value is until the loop swaps it for another.
Assigning(op, t, i, k, v) ==
  [op |-> op, at |-> IF t.size = t.MaxSize THEN "stored" ELSE "assign", i |-> i, key |-> k,
   key_to_add |-> k, given |-> v, value |-> v, offset_i |-> 0, swap_difference |-> 0]

AssignCall(k, v) ==
  /\ call.at = "idle" /\ ~perfect
  /\ map.size < map.MaxSize
  /\ call' = Assigning("assign", map, 0, k, v)
  /\ UNCHANGED <<hash, perfect, map, new_table, reply>>

AssignFull(k) ==
  /\ call.at = "idle" /\ ~perfect
  /\ map.size = map.MaxSize
  /\ Returns("assign", k, "VA_Full")
  /\ UNCHANGED <<hash, perfect, map, new_table>>

AssignSlot ==
  Mod(Target, Home(Target, call.key_to_add) + call.offset_i + call.swap_difference)

AssignEmpty ==
  /\ call.at = "assign"
  /\ Target.keys[AssignSlot] = NoKey
  /\ Becomes([Put(Target, AssignSlot, call.key_to_add, call.value) EXCEPT !.size = @ + 1])
  /\ AssignReturns("VA_Written")
  /\ UNCHANGED <<hash, perfect>>

AssignSame ==
  /\ call.at = "assign"
  /\ Target.keys[AssignSlot] = call.key_to_add
  /\ Becomes([Target EXCEPT !.map_values[AssignSlot] = call.value])
  /\ AssignReturns("VA_Rewritten")
  /\ UNCHANGED <<hash, perfect>>

\* The end of an iteration; the table is full when it was the last.
NextOffset(c) ==
  IF c.offset_i + 1 = Target.MaxSize THEN AssignReturns("VA_Full")
  ELSE call' = [c EXCEPT !.offset_i = @ + 1] /\ UNCHANGED reply

\* The entry in hand is farther from its home than the one it meets.
Farther(t, i) == SubMod(t, i - Home(t, call.key_to_add)) > Distance(t, i)

AssignTaken == call.at = "assign" /\ Target.keys[AssignSlot] \notin {NoKey, call.key_to_add}

AssignSwap ==
  /\ AssignTaken
  /\ Farther(Target, AssignSlot)
  /\ LET met == Target.keys[AssignSlot]
     IN  /\ Becomes(Put(Target, AssignSlot, call.key_to_add, call.value))
         /\ NextOffset([call EXCEPT !.key_to_add = met,
                          !.value = Target.map_values[AssignSlot],
                          !.swap_difference = Home(Target, call.key) - Home(Target, met)])
  /\ UNCHANGED <<hash, perfect>>

AssignPass ==
  /\ AssignTaken
  /\ ~Farther(Target, AssignSlot)
  /\ NextOffset(call)
  /\ UNCHANGED <<hash, perfect, map, new_table>>

-----------------------------------------------------------------------------
(* erase and pop look for the key in the whole table; read stops early.       *)

Search(op, k) ==
  /\ call.at = "idle" /\ ~perfect
  /\ call' = [op |-> op, at |-> "search", key |-> k, offset_i |-> 0]
  /\ UNCHANGED <<hash, perfect, map, new_table, reply>>

SearchSlot == Mod(map, Home(map, call.key) + call.offset_i)
SearchKey  == map.keys[SearchSlot]

\* No entry, as each operation reports it.
NotThere == IF call.op = "erase" THEN FALSE ELSE Nothing

SearchNext ==
  IF call.offset_i + 1 = map.MaxSize THEN Returns(call.op, call.key, NotThere)
  ELSE call' = [call EXCEPT !.offset_i = @ + 1] /\ UNCHANGED reply

\* read stops at an empty slot and at an entry nearer to its home than the key would be.
ReadGoesOn ==
  SearchKey # NoKey /\ SubMod(map, SearchSlot - Home(map, call.key)) <= Distance(map, SearchSlot)

ReadStop ==
  /\ call.at = "search" /\ call.op = "read"
  /\ ~ReadGoesOn
  /\ Returns("read", call.key, Nothing)
  /\ UNCHANGED <<hash, perfect, map, new_table>>

ReadFound ==
  /\ call.at = "search" /\ call.op = "read"
  /\ ReadGoesOn /\ SearchKey = call.key
  /\ Returns("read", call.key, Found(map.map_values[SearchSlot]))
  /\ UNCHANGED <<hash, perfect, map, new_table>>

SearchPass ==
  /\ call.at = "search" /\ SearchKey # call.key
  /\ call.op = "read" => ReadGoesOn
  /\ SearchNext
  /\ UNCHANGED <<hash, perfect, map, new_table>>

EraseFound ==
  /\ call.at = "search" /\ call.op # "read" /\ SearchKey = call.key
  /\ call' = [op |-> call.op, at |-> "shift", key |-> call.key,
              value |-> map.map_values[SearchSlot], slot |-> SearchSlot, offset_i |-> 1]
  /\ UNCHANGED <<hash, perfect, map, new_table, reply>>

ThisSlot == Mod(map, call.slot + call.offset_i - 1)
NextSlot == Mod(map, call.slot + call.offset_i)

\* A mutant of Shifts: a deletion leaves a gap.
NeverShifts == FALSE

\* Whether the entry after the gap is to fill it.
Shifts == map.keys[NextSlot] # NoKey /\ Home(map, map.keys[NextSlot]) # NextSlot

EraseShift ==
  /\ call.at = "shift"
  /\ call.offset_i <= map.MaxSize /\ Shifts
  /\ map' = Put(map, ThisSlot, map.keys[NextSlot], map.map_values[NextSlot])
  /\ call' = [call EXCEPT !.offset_i = @ + 1]
  /\ UNCHANGED <<hash, perfect, new_table, reply>>

\* null_this is the last slot the loop looked at from.
EraseEnd ==
  /\ call.at = "shift"
  /\ call.offset_i <= map.MaxSize => ~Shifts
  /\ LET null_this == IF call.offset_i <= map.MaxSize THEN ThisSlot ELSE Mod(map, ThisSlot - 1)
     IN  map' = [map EXCEPT !.keys[null_this] = NoKey, !.size = @ - 1]
  /\ Returns(call.op, call.key, IF call.op = "erase" THEN TRUE ELSE Found(call.value))
  /\ UNCHANGED <<hash, perfect, new_table>>

-----------------------------------------------------------------------------
(* The operations of perfect hashes look at one slot and do not count.        *)

HomeKey(k) == map.keys[Home(map, k)]

AssignPh(k, v) ==
  /\ call.at = "idle" /\ perfect
  /\ HomeKey(k) \in {NoKey, k}
  /\ map' = Put(map, Home(map, k), k, v)
  /\ Returns("assign", <<k, v>>, IF HomeKey(k) = k THEN "VA_Rewritten" ELSE "VA_Written")
  /\ UNCHANGED <<hash, perfect, new_table>>

AssignPhCollides(k) ==
  /\ call.at = "idle" /\ perfect
  /\ HomeKey(k) \notin {NoKey, k}
  /\ Returns("assign", k, "VA_PHCollision")
  /\ UNCHANGED <<hash, perfect, map, new_table>>

ReadPh(k) ==
  /\ call.at = "idle" /\ perfect
  /\ Returns("read", k, IF HomeKey(k) = k THEN Found(map.map_values[Home(map, k)]) ELSE Nothing)
  /\ UNCHANGED <<hash, perfect, map, new_table>>

-----------------------------------------------------------------------------
(* resize moves the entries into a new table, slot by slot.                   *)

\* A mutant of TooSmall: a table of any size will do.
NeverTooSmall(n) == FALSE

TooSmall(n) == n < map.size

ResizeRefused(n) ==
  /\ call.at = "idle" /\ ~perfect
  /\ TooSmall(n)
  /\ Returns("resize", n, FALSE)
  /\ UNCHANGED <<hash, perfect, map, new_table>>

ResizeCall(n) ==
  /\ call.at = "idle" /\ ~perfect
  /\ ~TooSmall(n)
  /\ new_table' = New(n)
  /\ call' = [op |-> "resize", at |-> "move", i |-> 0]
  /\ UNCHANGED <<hash, perfect, map, reply>>

ResizeSkip ==
  /\ call.at = "move" /\ call.i < map.MaxSize
  /\ map.keys[call.i] = NoKey
  /\ call' = [call EXCEPT !.i = @ + 1]
  /\ UNCHANGED <<hash, perfect, map, new_table, reply>>

ResizeMove ==
  /\ call.at = "move" /\ call.i < map.MaxSize
  /\ map.keys[call.i] # NoKey
  /\ call' = Assigning("resize", new_table, call.i, map.keys[call.i], map.map_values[call.i])
  /\ UNCHANGED <<hash, perfect, map, new_table, reply>>

ResizeMoved ==
  /\ call.at = "stored"
  /\ map' = [map EXCEPT !.keys[call.i] = NoKey]
  /\ call' = [op |-> "resize", at |-> "move", i |-> call.i + 1]
  /\ UNCHANGED <<hash, perfect, new_table, reply>>

ResizeEnd ==
  /\ call.at = "move" /\ call.i = map.MaxSize
  /\ map' = new_table
  /\ new_table' = New(0)
  /\ Returns("resize", new_table.MaxSize, TRUE)
  /\ UNCHANGED <<hash, perfect>>

-----------------------------------------------------------------------------
Next ==
  \/ \E k \in Keys, v \in Values : AssignCall(k, v) \/ AssignPh(k, v)
  \/ \E k \in Keys : AssignFull(k) \/ AssignPhCollides(k) \/ ReadPh(k)
  \/ \E op \in {"read", "erase", "pop"}, k \in Keys : Search(op, k)
  \/ \E n \in Sizes : ResizeRefused(n) \/ ResizeCall(n)
  \/ AssignEmpty \/ AssignSame \/ AssignSwap \/ AssignPass
  \/ ReadStop \/ ReadFound \/ SearchPass \/ EraseFound \/ EraseShift \/ EraseEnd
  \/ ResizeSkip \/ ResizeMove \/ ResizeMoved \/ ResizeEnd

Spec == Init /\ [][Next]_vars

-----------------------------------------------------------------------------
(* The abstract map.  An operation takes effect when it returns: until then   *)
(* the entry in hand counts, and the key that is added does not.              *)

Stored(t) == {<<t.keys[i], t.map_values[i]>> : i \in {j \in DOMAIN t.keys : t.keys[j] # NoKey}}

InHand == IF call.at = "assign" THEN {<<call.key_to_add, call.value>>} ELSE {}

Contents ==
  CASE call.op = "assign" /\ call.key_to_add # call.key ->
         {p \in Stored(map) \union InHand : p[1] # call.key}
    [] call.op = "resize" -> Stored(map) \union Stored(new_table) \union InHand
    [] call.at = "shift" -> Stored(map) \union {<<call.key, call.value>>}
    [] OTHER -> Stored(map)

entries == [k \in {p[1] : p \in Contents} |-> (CHOOSE p \in Contents : p[1] = k)[2]]

Abstract == INSTANCE KeyValueMap WITH capacity <- map.MaxSize

\* Every operation does to the entries, and returns, what a finite function of
\* limited size would: no insertion that displaces other entries, deletion that
\* shifts them, or change of the table's size loses, revives or mixes up one.
Implements == Abstract!Spec

\* Between the operations no entry is more than one step farther from its home
\* than the entry before it, and only an entry at home follows an empty slot:
\* read may stop at the first entry that is nearer to its home than the key
\* would be (hash_map.h:209), whatever was inserted and deleted before.
ProbeOrder ==
  call.at = "idle" =>
    \A i \in DOMAIN map.keys :
      map.keys[i] # NoKey /\ Distance(map, i) > 0 =>
        LET before == Mod(map, i + map.MaxSize - 1)
        IN  map.keys[before] # NoKey /\ Distance(map, before) + 1 >= Distance(map, i)
=============================================================================
