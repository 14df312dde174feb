---------------------------- MODULE HashMapProofs ----------------------------
(* Proofs about the hash table, for keys, values, sizes and hash functions of *)
(* any number.  The first half is about one table at a time: what a step of   *)
(* each loop does to its slots, its order and what it stores.  Then every     *)
(* action keeps the invariant Inv, which gives ProbeOrder; and then every     *)
(* action is one of the abstract map, or leaves it as it is.                  *)
EXTENDS HashMap, FiniteSetTheorems, WellFoundedInduction, TLAPS

-----------------------------------------------------------------------------
(* Tables.                                                                    *)

Slots(t) == 0 .. t.MaxSize - 1

\* What is stored is a value.
RealTable(t) ==
  /\ t \in [MaxSize : Sizes, size : Int, keys : [Slots(t) -> Keys \union {NoKey}],
            map_values : [Slots(t) -> Values \union {0}]]
  /\ \A i \in Slots(t) : t.keys[i] # NoKey => t.map_values[i] \in Values

\* The slot j steps after slot h, and the steps from slot h to slot i.
At(t, h, j)   == IF h + j < t.MaxSize THEN h + j ELSE h + j - t.MaxSize
Away(t, h, i) == IF i < h THEN i - h + t.MaxSize ELSE i - h

Before(t, i) == IF i = 0 THEN t.MaxSize - 1 ELSE i - 1

Occupied(t) == {i \in Slots(t) : t.keys[i] # NoKey}
KeysIn(t)   == {t.keys[i] : i \in Occupied(t)}

Unique(t)    == \A i, j \in Occupied(t) : t.keys[i] = t.keys[j] => i = j
Counted(t)   == t.size = Cardinality(Occupied(t))
SomeEmpty(t) == \E i \in Slots(t) : t.keys[i] = NoKey

\* The slots where a deletion stops to shift.
Stop(t, i)  == t.keys[i] = NoKey \/ Home(t, t.keys[i]) = i
SomeStop(t) == \E i \in Slots(t) : Stop(t, i)

\* An entry not at home is at most one step farther from it than the entry before.
OrderOK(t) ==
  \A i \in Occupied(t) :
    Distance(t, i) > 0 =>
      Before(t, i) \in Occupied(t) /\ Distance(t, Before(t, i)) + 1 >= Distance(t, i)

TableOK(t) == RealTable(t) /\ OrderOK(t) /\ Unique(t) /\ Counted(t)

-----------------------------------------------------------------------------
(* The inductive invariant.                                                   *)

\* The slot of the iteration j of the loops that look for a key k.
SlotOf(t, k, j) == At(t, Home(t, k), j)

\* A table of perfect hashes: every entry is at home.
PerfectOK ==
  /\ call = Idle /\ RealTable(map)
  /\ \A i \in Occupied(map) : Home(map, map.keys[i]) = i

QuietOK == TableOK(map) /\ SomeStop(map)

SearchOK ==
  /\ QuietOK
  /\ call \in [op : {"read", "erase", "pop"}, at : {"search"}, key : Keys, offset_i : Slots(map)]
  /\ \A j \in 0 .. call.offset_i - 1 : map.keys[SlotOf(map, call.key, j)] # call.key

\* The caller's value is in hand with the key, or stored with it.
GivenOK(t, c) ==
  IF c.key_to_add = c.key THEN c.value = c.given ELSE <<c.key, c.given>> \in Stored(t)

\* The loop of assign in the table t, with the locals c.
LoopOK(t, c) ==
  /\ TableOK(t) /\ SomeEmpty(t) /\ GivenOK(t, c)
  /\ c \in [op : {"assign", "resize"}, at : {"assign"}, i : Nat, key : Keys,
            key_to_add : Keys, given : Values, value : Values,
            offset_i : Slots(t), swap_difference : Int]
  /\ c.swap_difference = Home(t, c.key) - Home(t, c.key_to_add)
  /\ LET here == SlotOf(t, c.key, c.offset_i)
         far  == Away(t, Home(t, c.key_to_add), here)
     IN  far > 0 => Before(t, here) \in Occupied(t) /\ Distance(t, Before(t, here)) + 1 >= far
  /\ \A j \in 0 .. c.offset_i - 1 : SlotOf(t, c.key, j) \in Occupied(t)
  /\ IF c.key_to_add = c.key
     THEN \A j \in 0 .. c.offset_i - 1 : t.keys[SlotOf(t, c.key, j)] # c.key
     ELSE /\ c.key_to_add \notin KeysIn(t)
          /\ \E j \in 0 .. c.offset_i - 1 : t.keys[SlotOf(t, c.key, j)] = c.key

AssignLoop(t) == LoopOK(t, call)

\* While a deletion shifts, the slot to fill holds what was moved or is to go.
ShiftOK(t, c) ==
  /\ RealTable(t) /\ OrderOK(t) /\ Counted(t)
  /\ c \in [op : {"erase", "pop"}, at : {"shift"}, key : Keys, value : Values,
            slot : Slots(t), offset_i : 1 .. t.MaxSize]
  /\ \E j \in c.offset_i .. t.MaxSize : Stop(t, At(t, c.slot, j))
  /\ LET this == At(t, c.slot, c.offset_i - 1)
         last == Before(t, this)
     IN  /\ this \in Occupied(t)
         /\ \A i, j \in Occupied(t) \ {this} : t.keys[i] = t.keys[j] => i = j
         /\ \A i \in Occupied(t) \ {this} : t.keys[i] # c.key
         /\ IF c.offset_i = 1
            THEN t.keys[this] = c.key /\ t.map_values[this] = c.value
            ELSE /\ last \in Occupied(t)
                 /\ t.keys[this] = t.keys[last] /\ t.map_values[this] = t.map_values[last]

Disjoint(A, B) == A \intersect B = {}

MovingOK ==
  /\ RealTable(map) /\ Unique(map) /\ map.size <= new_table.MaxSize
  /\ call.i \in 0 .. map.MaxSize
  /\ \A i \in 0 .. call.i - 1 : map.keys[i] = NoKey

MoveOK ==
  /\ call \in [op : {"resize"}, at : {"move"}, i : Nat]
  /\ MovingOK /\ TableOK(new_table) /\ SomeStop(new_table)
  /\ Disjoint(KeysIn(map), KeysIn(new_table))
  /\ map.size = Cardinality(Occupied(map)) + new_table.size

\* The entry call.i of the old table is on its way.
OnTheWay == MovingOK /\ call.i \in Occupied(map) /\ map.keys[call.i] = call.key

ReassignOK ==
  /\ AssignLoop(new_table) /\ OnTheWay
  /\ Disjoint(KeysIn(map) \ {call.key}, KeysIn(new_table) \union {call.key_to_add})
  /\ call.key_to_add = call.key => call.key \notin KeysIn(new_table)
  /\ <<call.key, map.map_values[call.i]>> \in Stored(new_table) \union InHand
  /\ map.size = Cardinality(Occupied(map)) + new_table.size

StoredOK ==
  /\ call \in [op : {"resize"}, at : {"stored"}, i : Nat, key : Keys, key_to_add : Keys,
               given : Values, value : Values, offset_i : Nat, swap_difference : Int]
  /\ OnTheWay /\ TableOK(new_table) /\ SomeStop(new_table)
  /\ Disjoint(KeysIn(map) \ {call.key}, KeysIn(new_table))
  /\ <<call.key, map.map_values[call.i]>> \in Stored(new_table)
  /\ map.size + 1 = Cardinality(Occupied(map)) + new_table.size

Inv ==
  /\ hash \in [Keys -> Hashes] /\ perfect \in BOOLEAN
  /\ IF perfect THEN PerfectOK
     ELSE \/ call = Idle /\ QuietOK
          \/ SearchOK
          \/ call.op = "assign" /\ AssignLoop(map)
          \/ ShiftOK(map, call)
          \/ MoveOK
          \/ call.op = "resize" /\ ReassignOK
          \/ StoredOK
-----------------------------------------------------------------------------
(* Slots of a ring.                                                           *)

\* A number less than twice the modulus is reduced by one subtraction at most.
LEMMA ModOnce ==
  ASSUME NEW n \in Nat, n > 0, NEW a \in Int, 0 <= a, a < 2 * n
  PROVE  a % n = IF a < n THEN a ELSE a - n
<1>1. CASE a < n
  BY <1>1
<1>2. CASE a >= n
  <2>1. a - n \in 0 .. n - 1 /\ a = 1 * n + (a - n)
    BY <1>2
  <2>. QED BY <1>2, <2>1
<1>. QED BY <1>1, <1>2

\* Slots are counted modulo the size of the table.
LEMMA AtSlot ==
  ASSUME NEW t, t.MaxSize \in Nat, t.MaxSize > 1,
         NEW h \in Slots(t), NEW j \in Int, 0 <= j, j <= t.MaxSize
  PROVE  At(t, h, j) \in Slots(t) /\ Mod(t, h + j) = At(t, h, j)
<1>1. CASE h + j < t.MaxSize
  BY <1>1 DEF Slots, At, Mod
<1>2. CASE ~(h + j < t.MaxSize)
  <2>1. h + j \in Nat /\ t.MaxSize <= h + j /\ h + j < 2 * t.MaxSize
    BY <1>2 DEF Slots
  <2>2. (h + j) % t.MaxSize = h + j - t.MaxSize
    BY <1>2, <2>1, ModOnce DEF Slots
  <2>. QED BY <1>2, <2>1, <2>2 DEF Slots, At, Mod
<1>. QED BY <1>1, <1>2

\* The steps between two slots lead from one to the other.
LEMMA AwaySlot ==
  ASSUME NEW t, t.MaxSize \in Nat, t.MaxSize > 1,
         NEW h \in Slots(t), NEW i \in Slots(t)
  PROVE  /\ Away(t, h, i) \in Slots(t)
         /\ SubMod(t, i - h) = Away(t, h, i)
         /\ At(t, h, Away(t, h, i)) = i
         /\ Away(t, h, i) = 0 <=> i = h
<1>1. CASE i < h
  <2>1. t.MaxSize + (i - h) \in 0 .. t.MaxSize - 1
    BY <1>1 DEF Slots
  <2>2. (t.MaxSize + (i - h)) % t.MaxSize = t.MaxSize + (i - h)
    BY <2>1
  <2>. QED BY <1>1, <2>1, <2>2 DEF Slots, SubMod, Away, At
<1>2. CASE ~(i < h)
  <2>1. t.MaxSize + (i - h) \in t.MaxSize .. 2 * t.MaxSize - 1
    BY <1>2 DEF Slots
  <2>2. (t.MaxSize + (i - h)) % t.MaxSize = i - h
    BY <2>1 DEF Slots
  <2>. QED BY <1>2, <2>1, <2>2 DEF Slots, SubMod, Away, At
<1>. QED BY <1>1, <1>2

\* A slot is away from another by the steps that lead to it.
LEMMA AwayAt ==
  ASSUME NEW t, t.MaxSize \in Nat, t.MaxSize > 1,
         NEW h \in Slots(t), NEW j \in Slots(t)
  PROVE  Away(t, h, At(t, h, j)) = j
  BY DEF Slots, Away, At

\* The slot before a slot.
LEMMA BeforeSlot ==
  ASSUME NEW t, t.MaxSize \in Nat, t.MaxSize > 1, NEW i \in Slots(t)
  PROVE  /\ Before(t, i) \in Slots(t) /\ Before(t, i) # i
         /\ Mod(t, i + t.MaxSize - 1) = Before(t, i)
         /\ At(t, Before(t, i), 1) = i
         /\ At(t, i, 1) # i /\ At(t, i, 1) \in Slots(t) /\ Before(t, At(t, i, 1)) = i
<1>1. CASE i = 0
  <2>1. (0 + t.MaxSize - 1) % t.MaxSize = t.MaxSize - 1
    BY ModOnce
  <2>2. Mod(t, i + t.MaxSize - 1) = Before(t, i)
    BY <1>1, <2>1 DEF Mod, Before
  <2>. QED BY <1>1, <2>2 DEF Slots, Before, At
<1>2. CASE i > 0
  <2>1. i + t.MaxSize - 1 \in t.MaxSize .. 2 * t.MaxSize - 1
    BY <1>2 DEF Slots
  <2>2. (i + t.MaxSize - 1) % t.MaxSize = i - 1
    BY <2>1 DEF Slots
  <2>. QED BY <1>2, <2>1, <2>2 DEF Slots, Before, Mod, At
<1>. QED BY <1>1, <1>2 DEF Slots

\* One step on.
LEMMA StepOn ==
  ASSUME NEW t, t.MaxSize \in Nat, t.MaxSize > 1,
         NEW h \in Slots(t), NEW j \in Slots(t)
  PROVE  /\ Before(t, At(t, h, j + 1)) = At(t, h, j)
         /\ At(t, At(t, h, j), 1) = At(t, h, j + 1)
  BY DEF Slots, Before, At

\* The slot after one is one step farther, or the start.
LEMMA AwayNext ==
  ASSUME NEW t, t.MaxSize \in Nat, t.MaxSize > 1,
         NEW h \in Slots(t), NEW i \in Slots(t)
  PROVE  /\ Away(t, h, i) > 0 => Away(t, h, Before(t, i)) = Away(t, h, i) - 1
         /\ \/ Away(t, h, At(t, i, 1)) = Away(t, h, i) + 1
            \/ Away(t, h, At(t, i, 1)) = 0
  BY DEF Slots, Before, Away, At

\* What the table is made of.
LEMMA TableFacts ==
  ASSUME NEW t, RealTable(t)
  PROVE  /\ t.MaxSize \in Sizes /\ t.MaxSize \in Nat /\ t.MaxSize > 1 /\ t.size \in Int
         /\ t.keys \in [Slots(t) -> Keys \union {NoKey}]
         /\ t.map_values \in [Slots(t) -> Values \union {0}]
         /\ t.keys \in [0 .. t.MaxSize - 1 -> Keys \union {NoKey}]
         /\ \A i \in Occupied(t) :
               i \in Slots(t) /\ t.keys[i] \in Keys /\ t.map_values[i] \in Values
         /\ \A i \in Slots(t) : i \in Occupied(t) <=> t.keys[i] # NoKey
<1>1. t.MaxSize \in Sizes /\ t.size \in Int
  BY DEF RealTable
<1>2. t.MaxSize \in Nat /\ t.MaxSize > 1
  <2>1. t.MaxSize \in Nat /\ t.MaxSize # 0 /\ t.MaxSize # 1
    BY <1>1, SizesAssumption
  <2>. QED BY <2>1
<1>3. /\ t.keys \in [Slots(t) -> Keys \union {NoKey}]
      /\ t.map_values \in [Slots(t) -> Values \union {0}]
      /\ \A i \in Slots(t) : t.keys[i] # NoKey => t.map_values[i] \in Values
  BY DEF RealTable
<1>4. t.keys \in [0 .. t.MaxSize - 1 -> Keys \union {NoKey}]
  BY <1>3 DEF Slots
<1>5. \A i \in Occupied(t) : i \in Slots(t) /\ t.keys[i] \in Keys /\ t.map_values[i] \in Values
  BY <1>3 DEF Occupied
<1>6. \A i \in Slots(t) : i \in Occupied(t) <=> t.keys[i] # NoKey
  BY DEF Occupied
<1>. QED BY <1>1, <1>2, <1>3, <1>4, <1>5, <1>6

\* Every key has a home.
LEMMA HomeSlot ==
  ASSUME NEW t, RealTable(t), hash \in [Keys -> Hashes], NEW k \in Keys
  PROVE  Home(t, k) \in Slots(t) /\ Home(t, k) = hash[k] % t.MaxSize
<1>1. t.MaxSize \in Nat /\ t.MaxSize > 1
  BY TableFacts
<1>2. hash[k] \in Nat
  BY HashesAssumption
<1>3. hash[k] % t.MaxSize \in 0 .. t.MaxSize - 1
  BY <1>1, <1>2
<1>. QED BY <1>3 DEF Home, Mod, Slots

\* How far an entry is from home.
LEMMA EntryDistance ==
  ASSUME NEW t, RealTable(t), hash \in [Keys -> Hashes], NEW i \in Occupied(t)
  PROVE  /\ Home(t, t.keys[i]) \in Slots(t)
         /\ Distance(t, i) = Away(t, Home(t, t.keys[i]), i)
         /\ Distance(t, i) \in Slots(t)
         /\ Distance(t, i) = 0 <=> Home(t, t.keys[i]) = i
         /\ Stop(t, i) <=> Distance(t, i) = 0
<1>1. /\ t.MaxSize \in Nat /\ t.MaxSize > 1 /\ i \in Slots(t) /\ t.keys[i] \in Keys
      /\ t.keys[i] # NoKey
  BY TableFacts
<1>2. Home(t, t.keys[i]) \in Slots(t)
  BY <1>1, HomeSlot
<1>3. Distance(t, i) = Away(t, Home(t, t.keys[i]), i)
  BY <1>1, <1>2, AwaySlot DEF Distance
<1>. QED BY <1>1, <1>2, <1>3, AwaySlot DEF Stop

-----------------------------------------------------------------------------
(* The order of the entries.                                                  *)

\* A set of numbers has a least one.
LEMMA Least ==
  ASSUME NEW T, T \subseteq Nat, T # {}
  PROVE  \E n \in T : \A m \in T : n <= m
<1>1. IsWellFoundedOn(OpToRel(<, Nat), Nat)
  BY NatLessThanWellFounded
<1>2. PICK n \in T : \A m \in T : ~(<<m, n>> \in OpToRel(<, Nat))
  BY <1>1, WFMin
<1>3. \A m \in T : ~(m < n)
  BY <1>2 DEF OpToRel
<1>. QED BY <1>3

\* From the home of an entry to its slot every slot is taken, by an entry as far from its own
\* home at least.
LEMMA Chain ==
  ASSUME NEW t, RealTable(t), hash \in [Keys -> Hashes], OrderOK(t), NEW i \in Occupied(t),
         NEW j \in 0 .. Distance(t, i)
  PROVE  LET s == At(t, Home(t, t.keys[i]), j)
         IN  s \in Occupied(t) /\ Distance(t, s) >= j
<1>. DEFINE h == Home(t, t.keys[i])
            D == Distance(t, i)
            Fine(d) == At(t, h, d) \in Occupied(t) /\ Distance(t, At(t, h, d)) >= d
            Bad == {n \in 0 .. D : ~Fine(D - n)}
<1>1. /\ t.MaxSize \in Nat /\ t.MaxSize > 1 /\ i \in Slots(t) /\ h \in Slots(t)
      /\ D = Away(t, h, i) /\ D \in Slots(t) /\ At(t, h, D) = i
  BY TableFacts, EntryDistance, AwaySlot
<1>2. D \in Nat /\ D < t.MaxSize
  BY <1>1 DEF Slots
<1>3. Fine(D)
  BY <1>1, <1>2
<1>. HIDE DEF Fine
<1>4. Bad = {}
  <2>. SUFFICES ASSUME Bad # {} PROVE FALSE
    OBVIOUS
  <2>1. PICK n \in Bad : \A m \in Bad : n <= m
    <3>1. Bad \subseteq Nat
      BY <1>2
    <3>. HIDE DEF Bad
    <3>. QED BY <3>1, Least
  <2>2. n \in 0 .. D /\ ~Fine(D - n) /\ n # 0
    BY <1>2, <1>3
  <2>3. n - 1 \in 0 .. D /\ n - 1 \notin Bad
    BY <1>2, <2>1, <2>2
  <2>4. Fine(D - (n - 1)) /\ D - (n - 1) = (D - n) + 1
    BY <1>2, <2>2, <2>3
  <2>. DEFINE d == D - n
              s == At(t, h, d + 1)
  <2>5. d \in Nat /\ d \in Slots(t) /\ d + 1 <= D
    BY <1>1, <1>2, <2>2 DEF Slots
  <2>6. s \in Occupied(t) /\ Distance(t, s) >= d + 1
    BY <2>4 DEF Fine
  <2>7. Distance(t, s) \in Int /\ Distance(t, s) > 0
    BY <2>5, <2>6, EntryDistance DEF Slots
  <2>8. Before(t, s) \in Occupied(t) /\ Distance(t, Before(t, s)) + 1 >= Distance(t, s)
    BY <2>6, <2>7 DEF OrderOK
  <2>9. Before(t, s) = At(t, h, d)
    BY <1>1, <2>5, StepOn
  <2>10. Distance(t, Before(t, s)) \in Int
    BY <2>8, EntryDistance DEF Slots
  <2>11. Fine(d)
    BY <2>5, <2>6, <2>7, <2>8, <2>9, <2>10 DEF Fine
  <2>. QED BY <2>2, <2>11
<1>5. D - j \in 0 .. D /\ D - (D - j) = j
  BY <1>2
<1>. QED BY <1>4, <1>5 DEF Fine

\* Whoever has looked at the first slots from its home for a key, and comes to an empty one or
\* to an entry nearer to its home, need not look on.
LEMMA NotIn ==
  ASSUME NEW t, RealTable(t), hash \in [Keys -> Hashes], OrderOK(t),
         NEW k \in Keys, NEW o \in Slots(t),
         \A j \in 0 .. o - 1 : t.keys[SlotOf(t, k, j)] # k,
         t.keys[SlotOf(t, k, o)] # k,
         SlotOf(t, k, o) \notin Occupied(t) \/ Distance(t, SlotOf(t, k, o)) < o
  PROVE  k \notin KeysIn(t)
<1>. SUFFICES ASSUME NEW i \in Occupied(t), t.keys[i] = k PROVE FALSE
  BY DEF KeysIn
<1>. DEFINE D == Distance(t, i)
<1>1. /\ t.MaxSize \in Nat /\ i \in Slots(t) /\ Home(t, k) \in Slots(t)
      /\ D = Away(t, Home(t, k), i) /\ D \in Slots(t) /\ At(t, Home(t, k), D) = i
  BY TableFacts, EntryDistance, AwaySlot
<1>2. D \in Nat /\ o \in Nat
  BY <1>1 DEF Slots
<1>3. t.keys[SlotOf(t, k, D)] = k
  BY <1>1 DEF SlotOf
<1>4. D > o
  BY <1>2, <1>3
<1>5. o \in 0 .. Distance(t, i)
  BY <1>2, <1>4
<1>6. SlotOf(t, k, o) \in Occupied(t) /\ Distance(t, SlotOf(t, k, o)) >= o
  BY <1>5, Chain DEF SlotOf
<1>7. Distance(t, SlotOf(t, k, o)) \in Int
  BY <1>6, EntryDistance DEF Slots
<1>. QED BY <1>2, <1>6, <1>7

\* Tables that differ in slot i at most.
SameBut(u, t, i) ==
  /\ RealTable(t) /\ RealTable(u) /\ i \in Slots(t) /\ u.MaxSize = t.MaxSize
  /\ \A j \in Slots(t) \ {i} : u.keys[j] = t.keys[j] /\ u.map_values[j] = t.map_values[j]

\* What they have in common.
LEMMA SameElsewhere ==
  ASSUME NEW t, NEW u, NEW i, SameBut(u, t, i)
  PROVE  /\ RealTable(t) /\ RealTable(u) /\ i \in Slots(t) /\ u.MaxSize = t.MaxSize
         /\ \A j \in Slots(t) \ {i} : u.keys[j] = t.keys[j] /\ u.map_values[j] = t.map_values[j]
         /\ Slots(u) = Slots(t)
         /\ \A k : Home(u, k) = Home(t, k)
         /\ \A j : Before(u, j) = Before(t, j)
         /\ \A h, j : At(u, h, j) = At(t, h, j) /\ Away(u, h, j) = Away(t, h, j)
         /\ Occupied(u) \ {i} = Occupied(t) \ {i}
         /\ \A j \in Occupied(t) \ {i} : Distance(u, j) = Distance(t, j)
<1>1. u.MaxSize = t.MaxSize /\ Slots(u) = Slots(t)
  BY DEF SameBut, Slots
<1>2. \A k : Home(u, k) = Home(t, k)
  BY <1>1 DEF Home, Mod
<1>3. /\ \A j : Before(u, j) = Before(t, j)
      /\ \A h, j : At(u, h, j) = At(t, h, j) /\ Away(u, h, j) = Away(t, h, j)
  BY <1>1 DEF Before, At, Away
<1>4. \A j \in Slots(t) \ {i} : u.keys[j] = t.keys[j]
  BY DEF SameBut
<1>5. Occupied(u) \ {i} = Occupied(t) \ {i}
  BY <1>1, <1>4 DEF Occupied
<1>6. ASSUME NEW j \in Occupied(t) \ {i} PROVE Distance(u, j) = Distance(t, j)
  <2>1. u.keys[j] = t.keys[j]
    BY <1>4 DEF Occupied
  <2>. QED BY <1>1, <1>2, <2>1 DEF Distance, SubMod
<1>. QED BY <1>1, <1>2, <1>3, <1>5, <1>6 DEF SameBut

\* Writing an entry no nearer to its home than the next one demands, and no farther than the one
\* before allows, keeps the order.
LEMMA OrderFill ==
  ASSUME NEW t, NEW u, NEW i, SameBut(u, t, i), hash \in [Keys -> Hashes], OrderOK(t),
         i \in Occupied(u),
         Distance(u, i) > 0 => /\ Before(t, i) \in Occupied(t)
                               /\ Distance(t, Before(t, i)) + 1 >= Distance(u, i),
         \A n \in Occupied(t) : Before(t, n) = i /\ Distance(t, n) > 0
                                  => Distance(u, i) + 1 >= Distance(t, n)
  PROVE  OrderOK(u)
<1>. SUFFICES ASSUME NEW n \in Occupied(u), Distance(u, n) > 0
              PROVE  /\ Before(u, n) \in Occupied(u)
                     /\ Distance(u, Before(u, n)) + 1 >= Distance(u, n)
  BY DEF OrderOK
<1>1. /\ t.MaxSize \in Nat /\ t.MaxSize > 1 /\ i \in Slots(t) /\ n \in Slots(t)
      /\ Before(t, n) # n /\ Before(u, n) = Before(t, n)
  <2>1. RealTable(t) /\ i \in Slots(t)
    BY DEF SameBut
  <2>2. n \in Slots(t)
    BY SameElsewhere DEF Occupied
  <2>3. t.MaxSize \in Nat /\ t.MaxSize > 1
    BY <2>1, TableFacts
  <2>4. Before(t, n) # n
    BY <2>2, <2>3, BeforeSlot
  <2>. QED BY <2>1, <2>2, <2>3, <2>4, SameElsewhere
<1>2. CASE n = i
  <2>1. Before(t, i) \in Occupied(t) \ {i}
    BY <1>1, <1>2
  <2>. QED BY <1>1, <1>2, <2>1, SameElsewhere
<1>3. CASE n # i
  <2>1. n \in Occupied(t) /\ Distance(u, n) = Distance(t, n)
    BY <1>3, SameElsewhere
  <2>2. Before(t, n) \in Occupied(t) /\ Distance(t, Before(t, n)) + 1 >= Distance(t, n)
    BY <2>1 DEF OrderOK
  <2>3. CASE Before(t, n) = i
    BY <1>1, <2>1, <2>3
  <2>4. CASE Before(t, n) # i
    BY <1>1, <2>1, <2>2, <2>4, SameElsewhere
  <2>. QED BY <2>3, <2>4
<1>. QED BY <1>2, <1>3

\* Emptying a slot keeps the order when the next slot is one where a deletion stops.
LEMMA OrderClear ==
  ASSUME NEW t, NEW u, NEW i, SameBut(u, t, i), hash \in [Keys -> Hashes], OrderOK(t),
         i \notin Occupied(u), Stop(t, At(t, i, 1))
  PROVE  OrderOK(u)
<1>. SUFFICES ASSUME NEW n \in Occupied(u), Distance(u, n) > 0
              PROVE  /\ Before(u, n) \in Occupied(u)
                     /\ Distance(u, Before(u, n)) + 1 >= Distance(u, n)
  BY DEF OrderOK
<1>1. RealTable(t) /\ t.MaxSize \in Nat /\ t.MaxSize > 1 /\ i \in Slots(t)
  BY TableFacts DEF SameBut
<1>2. n \in Occupied(t) /\ n # i /\ Distance(u, n) = Distance(t, n) /\ n \in Slots(t)
  BY SameElsewhere DEF Occupied
<1>3. Before(t, n) \in Occupied(t) /\ Distance(t, Before(t, n)) + 1 >= Distance(t, n)
  BY <1>2 DEF OrderOK
<1>4. Before(t, n) # i
  <2>. SUFFICES ASSUME Before(t, n) = i PROVE FALSE
    OBVIOUS
  <2>1. At(t, i, 1) = n
    BY <1>1, <1>2, BeforeSlot
  <2>2. Distance(t, n) = 0
    BY <1>1, <1>2, <2>1, EntryDistance
  <2>. QED BY <1>2, <2>2
<1>. QED BY <1>2, <1>3, <1>4, SameElsewhere

-----------------------------------------------------------------------------
(* Counting.                                                                  *)

\* The entries of a table can be counted; a table with room has an empty slot and a full one none.
LEMMA OccupiedFinite ==
  ASSUME NEW t, RealTable(t)
  PROVE  /\ IsFiniteSet(Occupied(t)) /\ Cardinality(Occupied(t)) \in Nat
         /\ Cardinality(Occupied(t)) <= t.MaxSize
         /\ Cardinality(Occupied(t)) = t.MaxSize <=> ~SomeEmpty(t)
<1>1. t.MaxSize \in Nat
  BY TableFacts
<1>2. IsFiniteSet(Slots(t)) /\ Cardinality(Slots(t)) = t.MaxSize
  <2>. DEFINE b == t.MaxSize - 1
  <2>1. b \in Int /\ ~(0 > b) /\ b - 0 + 1 = t.MaxSize
    BY <1>1, TableFacts
  <2>. HIDE DEF b
  <2>2. IsFiniteSet(0 .. b) /\ Cardinality(0 .. b) = IF 0 > b THEN 0 ELSE b - 0 + 1
    BY <2>1, FS_Interval
  <2>. QED BY <2>1, <2>2 DEF Slots, b
<1>3. Occupied(t) \in SUBSET Slots(t)
  BY DEF Occupied
<1>4. /\ IsFiniteSet(Occupied(t)) /\ Cardinality(Occupied(t)) <= t.MaxSize
      /\ Cardinality(Slots(t)) = Cardinality(Occupied(t)) => Slots(t) = Occupied(t)
  BY <1>2, <1>3, FS_Subset
<1>5. Cardinality(Occupied(t)) \in Nat
  BY <1>4, FS_CardinalityType
<1>6. Slots(t) = Occupied(t) <=> ~SomeEmpty(t)
  BY DEF Occupied, SomeEmpty
<1>. QED BY <1>2, <1>4, <1>5, <1>6

\* Filling a slot adds an entry and emptying one takes one away.
LEMMA OccupiedChange ==
  ASSUME NEW t, NEW u, NEW i, SameBut(u, t, i)
  PROVE  Cardinality(Occupied(u)) = Cardinality(Occupied(t))
           + (IF i \in Occupied(u) THEN 1 ELSE 0) - (IF i \in Occupied(t) THEN 1 ELSE 0)
<1>. DEFINE rest == Occupied(t) \ {i}
<1>1. RealTable(t) /\ RealTable(u)
  BY DEF SameBut
<1>2. /\ IsFiniteSet(Occupied(t)) /\ Cardinality(Occupied(t)) \in Nat
      /\ IsFiniteSet(Occupied(u)) /\ Cardinality(Occupied(u)) \in Nat
  BY <1>1, OccupiedFinite
<1>3. Occupied(u) \ {i} = rest
  BY SameElsewhere
<1>4. Cardinality(rest) = Cardinality(Occupied(t)) - (IF i \in Occupied(t) THEN 1 ELSE 0)
  BY <1>2, FS_RemoveElement
<1>5. Cardinality(rest) = Cardinality(Occupied(u)) - (IF i \in Occupied(u) THEN 1 ELSE 0)
  BY <1>2, <1>3, FS_RemoveElement
<1>. QED BY <1>2, <1>4, <1>5

-----------------------------------------------------------------------------
(* Writing a slot.                                                            *)

\* What a written table is.
LEMMA Written ==
  ASSUME NEW t, RealTable(t), NEW i \in Slots(t), NEW k \in Keys, NEW v \in Values,
         NEW n \in Int, NEW u, u = Put(t, i, k, v) \/ u = [Put(t, i, k, v) EXCEPT !.size = n]
  PROVE  /\ SameBut(u, t, i) /\ i \in Occupied(u)
         /\ u.keys[i] = k /\ u.map_values[i] = v
         /\ u = Put(t, i, k, v) => u.size = t.size
         /\ u = [Put(t, i, k, v) EXCEPT !.size = n] => u.size = n
<1>1. /\ t.keys \in [Slots(t) -> Keys \union {NoKey}]
      /\ t.map_values \in [Slots(t) -> Values \union {0}]
      /\ t \in [MaxSize : Sizes, size : Int, keys : [Slots(t) -> Keys \union {NoKey}],
                map_values : [Slots(t) -> Values \union {0}]]
      /\ \A j \in Slots(t) : t.keys[j] # NoKey => t.map_values[j] \in Values
  BY DEF RealTable
<1>. DEFINE keys == [t.keys EXCEPT ![i] = k]
            values == [t.map_values EXCEPT ![i] = v]
<1>2. /\ keys \in [Slots(t) -> Keys \union {NoKey}]
      /\ values \in [Slots(t) -> Values \union {0}]
      /\ keys[i] = k /\ values[i] = v
      /\ \A j \in Slots(t) \ {i} : keys[j] = t.keys[j] /\ values[j] = t.map_values[j]
  BY <1>1
<1>3. /\ u.MaxSize = t.MaxSize /\ u.keys = keys /\ u.map_values = values
      /\ u = Put(t, i, k, v) => u.size = t.size
      /\ u = [Put(t, i, k, v) EXCEPT !.size = n] => u.size = n
      /\ u.size \in Int
      /\ u = [MaxSize |-> u.MaxSize, size |-> u.size, keys |-> u.keys, map_values |-> u.map_values]
  BY <1>1 DEF Put
<1>. HIDE DEF keys, values
<1>4. Slots(u) = Slots(t)
  BY <1>3 DEF Slots
<1>5. u \in [MaxSize : Sizes, size : Int, keys : [Slots(t) -> Keys \union {NoKey}],
             map_values : [Slots(t) -> Values \union {0}]]
  BY <1>1, <1>2, <1>3
<1>6. RealTable(u)
  BY <1>1, <1>2, <1>3, <1>4, <1>5 DEF RealTable
<1>7. SameBut(u, t, i)
  BY <1>2, <1>3, <1>6 DEF SameBut
<1>8. i \in Occupied(u)
  BY <1>2, <1>3, <1>4, HashesAssumption DEF Occupied
<1>. QED BY <1>2, <1>3, <1>7, <1>8

Cleared(t, i)      == [t EXCEPT !.keys[i] = NoKey]
ClearedTo(t, i, n) == [t EXCEPT !.keys[i] = NoKey, !.size = n]

\* What an emptied table is.
LEMMA Emptied ==
  ASSUME NEW t, RealTable(t), NEW i \in Slots(t), NEW n \in Int, NEW u,
         u = Cleared(t, i) \/ u = ClearedTo(t, i, n)
  PROVE  /\ SameBut(u, t, i) /\ u.keys[i] = NoKey /\ i \notin Occupied(u)
         /\ u.map_values = t.map_values
         /\ u = Cleared(t, i) => u.size = t.size
         /\ u = ClearedTo(t, i, n) => u.size = n
<1>1. /\ t.keys \in [Slots(t) -> Keys \union {NoKey}]
      /\ t.map_values \in [Slots(t) -> Values \union {0}]
      /\ t \in [MaxSize : Sizes, size : Int, keys : [Slots(t) -> Keys \union {NoKey}],
                map_values : [Slots(t) -> Values \union {0}]]
      /\ \A j \in Slots(t) : t.keys[j] # NoKey => t.map_values[j] \in Values
  BY DEF RealTable
<1>. DEFINE keys == [t.keys EXCEPT ![i] = NoKey]
<1>2. /\ keys \in [Slots(t) -> Keys \union {NoKey}] /\ keys[i] = NoKey
      /\ \A j \in Slots(t) \ {i} : keys[j] = t.keys[j]
  BY <1>1
<1>3. /\ u.MaxSize = t.MaxSize /\ u.keys = keys /\ u.map_values = t.map_values
      /\ u = Cleared(t, i) => u.size = t.size
      /\ u = ClearedTo(t, i, n) => u.size = n
      /\ u.size \in Int
      /\ u = [MaxSize |-> u.MaxSize, size |-> u.size, keys |-> u.keys, map_values |-> u.map_values]
  BY <1>1 DEF Cleared, ClearedTo
<1>. HIDE DEF keys
<1>4. Slots(u) = Slots(t)
  BY <1>3 DEF Slots
<1>5. u \in [MaxSize : Sizes, size : Int, keys : [Slots(t) -> Keys \union {NoKey}],
             map_values : [Slots(t) -> Values \union {0}]]
  BY <1>1, <1>2, <1>3
<1>6. RealTable(u)
  BY <1>1, <1>2, <1>3, <1>4, <1>5 DEF RealTable
<1>7. SameBut(u, t, i)
  BY <1>2, <1>3, <1>6 DEF SameBut
<1>8. i \notin Occupied(u)
  BY <1>2, <1>3 DEF Occupied
<1>. QED BY <1>2, <1>3, <1>7, <1>8

\* A new table is empty.
LEMMA NewTable ==
  ASSUME NEW n \in Sizes
  PROVE  /\ TableOK(New(n)) /\ SomeStop(New(n)) /\ Occupied(New(n)) = {} /\ KeysIn(New(n)) = {}
         /\ New(n).MaxSize = n /\ New(n).size = 0 /\ Stored(New(n)) = {}
<1>. DEFINE t == New(n)
<1>1. /\ t.MaxSize = n /\ t.size = 0 /\ Slots(t) = 0 .. n - 1 /\ n \in Nat \ {0, 1}
      /\ \A i \in Slots(t) : t.keys[i] = NoKey
      /\ DOMAIN t.keys = Slots(t)
  BY SizesAssumption DEF New, Slots
<1>2. RealTable(t)
  <2>1. /\ [i \in 0 .. n - 1 |-> NoKey] \in [0 .. n - 1 -> Keys \union {NoKey}]
        /\ [i \in 0 .. n - 1 |-> 0] \in [0 .. n - 1 -> Values \union {0}]
    OBVIOUS
  <2>2. t \in [MaxSize : Sizes, size : Int, keys : [0 .. n - 1 -> Keys \union {NoKey}],
              map_values : [0 .. n - 1 -> Values \union {0}]]
    BY <2>1 DEF New
  <2>. HIDE DEF t
  <2>. QED BY <1>1, <2>2 DEF RealTable
<1>3. Occupied(t) = {}
  BY <1>1 DEF Occupied
<1>4. Counted(t)
  BY <1>1, <1>3, FS_EmptySet DEF Counted
<1>5. SomeStop(t)
  BY <1>1 DEF SomeStop, Stop
<1>. QED BY <1>1, <1>2, <1>3, <1>4, <1>5 DEF TableOK, OrderOK, Unique, KeysIn, Stored

-----------------------------------------------------------------------------
(* What is stored.                                                            *)

Pair(t, i) == <<t.keys[i], t.map_values[i]>>

\* The entries of a table are those of its taken slots.
LEMMA StoredPairs ==
  ASSUME NEW t, RealTable(t)
  PROVE  /\ Stored(t) = {Pair(t, i) : i \in Occupied(t)}
         /\ KeysIn(t) = {p[1] : p \in Stored(t)}
         /\ \A p \in Stored(t) : p[1] \in Keys /\ p[2] \in Values /\ p = <<p[1], p[2]>>
<1>1. DOMAIN t.keys = Slots(t)
  BY TableFacts
<1>2. Stored(t) = {Pair(t, i) : i \in Occupied(t)}
  BY <1>1 DEF Stored, Occupied, Pair
<1>3. KeysIn(t) = {p[1] : p \in Stored(t)}
  <2>1. \A i \in Occupied(t) : Pair(t, i) \in Stored(t) /\ Pair(t, i)[1] = t.keys[i]
    BY <1>2 DEF Pair
  <2>2. KeysIn(t) \subseteq {p[1] : p \in Stored(t)}
    BY <2>1 DEF KeysIn
  <2>3. \A p \in Stored(t) : p[1] \in KeysIn(t)
    BY <1>2, <2>1 DEF KeysIn
  <2>. QED BY <2>2, <2>3
<1>4. \A i \in Occupied(t) : t.keys[i] \in Keys /\ t.map_values[i] \in Values
  BY TableFacts
<1>. QED BY <1>2, <1>3, <1>4 DEF Pair

\* Writing a slot stores what is written and loses what was there.
LEMMA StoredChange ==
  ASSUME NEW t, NEW u, NEW i, SameBut(u, t, i), i \in Occupied(u)
  PROVE  /\ i \in Occupied(t) => Stored(u) \union {Pair(t, i)} = Stored(t) \union {Pair(u, i)}
         /\ i \in Occupied(t) => KeysIn(u) \union {t.keys[i]} = KeysIn(t) \union {u.keys[i]}
         /\ i \notin Occupied(t) => Stored(u) = Stored(t) \union {Pair(u, i)}
         /\ i \notin Occupied(t) => KeysIn(u) = KeysIn(t) \union {u.keys[i]}
<1>1. /\ RealTable(t) /\ RealTable(u) /\ Occupied(u) \ {i} = Occupied(t) \ {i}
      /\ \A j \in Slots(t) \ {i} : u.keys[j] = t.keys[j] /\ u.map_values[j] = t.map_values[j]
  BY SameElsewhere
<1>. DEFINE rest == Occupied(t) \ {i}
            Rest == {Pair(t, j) : j \in rest}
            RestKeys == {t.keys[j] : j \in rest}
<1>2. \A j \in rest : Pair(u, j) = Pair(t, j) /\ u.keys[j] = t.keys[j]
  BY <1>1 DEF Pair, Occupied
<1>3. Occupied(u) = rest \union {i}
  BY <1>1
<1>4. Stored(u) = Rest \union {Pair(u, i)} /\ KeysIn(u) = RestKeys \union {u.keys[i]}
  BY <1>1, <1>2, <1>3, StoredPairs DEF KeysIn
<1>5. i \in Occupied(t) => /\ Stored(t) = Rest \union {Pair(t, i)}
                           /\ KeysIn(t) = RestKeys \union {t.keys[i]}
  BY <1>1, StoredPairs DEF KeysIn
<1>6. i \notin Occupied(t) => Stored(t) = Rest /\ KeysIn(t) = RestKeys
  BY <1>1, StoredPairs DEF KeysIn
<1>. HIDE DEF Rest, RestKeys, rest
<1>. QED BY <1>4, <1>5, <1>6

\* Emptying a slot loses what was there, and in a table of unique keys nothing else.
LEMMA StoredClear ==
  ASSUME NEW t, NEW u, NEW i, SameBut(u, t, i), i \notin Occupied(u), i \in Occupied(t)
  PROVE  /\ Stored(t) = Stored(u) \union {Pair(t, i)}
         /\ (\A j \in Occupied(t) \ {i} : t.keys[j] # t.keys[i])
              => /\ KeysIn(u) = KeysIn(t) \ {t.keys[i]}
                 /\ Stored(u) = {p \in Stored(t) : p[1] # t.keys[i]}
<1>1. /\ RealTable(t) /\ RealTable(u) /\ Occupied(u) \ {i} = Occupied(t) \ {i}
      /\ \A j \in Slots(t) \ {i} : u.keys[j] = t.keys[j] /\ u.map_values[j] = t.map_values[j]
  BY SameElsewhere
<1>2. Occupied(u) = Occupied(t) \ {i}
  BY <1>1
<1>3. \A j \in Occupied(u) : Pair(u, j) = Pair(t, j) /\ u.keys[j] = t.keys[j]
  BY <1>1, <1>2 DEF Pair, Occupied
<1>4. Stored(t) = Stored(u) \union {Pair(t, i)}
  BY <1>1, <1>2, <1>3, StoredPairs
<1>5. ASSUME \A j \in Occupied(t) \ {i} : t.keys[j] # t.keys[i]
      PROVE  /\ KeysIn(u) = KeysIn(t) \ {t.keys[i]}
             /\ Stored(u) = {p \in Stored(t) : p[1] # t.keys[i]}
  <2>1. KeysIn(u) = KeysIn(t) \ {t.keys[i]}
    BY <1>2, <1>3, <1>5 DEF KeysIn
  <2>2. \A p \in Stored(u) : p[1] # t.keys[i]
    BY <1>1, <2>1, StoredPairs
  <2>3. Pair(t, i)[1] = t.keys[i]
    BY DEF Pair
  <2>. QED BY <1>4, <2>1, <2>2, <2>3
<1>. QED BY <1>4, <1>5

\* In a table of unique keys an entry is found by its key.
LEMMA StoredByKey ==
  ASSUME NEW t, RealTable(t), Unique(t), NEW i \in Occupied(t)
  PROVE  /\ Pair(t, i) \in Stored(t)
         /\ \A p \in Stored(t) : p[1] = t.keys[i] => p = Pair(t, i)
<1>1. Stored(t) = {Pair(t, j) : j \in Occupied(t)}
  BY StoredPairs
<1>2. ASSUME NEW j \in Occupied(t), Pair(t, j)[1] = t.keys[i] PROVE Pair(t, j) = Pair(t, i)
  BY <1>2 DEF Unique, Pair
<1>. QED BY <1>1, <1>2

-----------------------------------------------------------------------------
(* The loop of assign.                                                        *)

\* The slot of the iteration.
LEMMA LoopFacts ==
  ASSUME NEW t, hash \in [Keys -> Hashes], AssignLoop(t), Target = t
  PROVE  LET here == SlotOf(t, call.key, call.offset_i)
             home == Home(t, call.key_to_add)
         IN  /\ RealTable(t) /\ t.MaxSize \in Nat /\ t.MaxSize > 1 /\ t.MaxSize \in Sizes
             /\ AssignSlot = here /\ here \in Slots(t) /\ home \in Slots(t)
             /\ Home(t, call.key) \in Slots(t)
             /\ Away(t, home, here) \in Slots(t)
             /\ SubMod(t, here - home) = Away(t, home, here)
             /\ call.key \in Keys /\ call.key_to_add \in Keys /\ call.value \in Values
             /\ call.offset_i \in Slots(t) /\ call.offset_i \in Nat
             /\ call.swap_difference = Home(t, call.key) - home
             /\ Farther(t, here) <=> Away(t, home, here) > Distance(t, here)
<1>1. RealTable(t) /\ t.MaxSize \in Nat /\ t.MaxSize > 1 /\ t.MaxSize \in Sizes
  BY TableFacts DEF AssignLoop, LoopOK, TableOK
<1>2. /\ call.key \in Keys /\ call.key_to_add \in Keys /\ call.value \in Values
      /\ call.offset_i \in Slots(t)
      /\ call.swap_difference = Home(t, call.key) - Home(t, call.key_to_add)
  BY DEF AssignLoop, LoopOK
<1>3. Home(t, call.key) \in Slots(t) /\ Home(t, call.key_to_add) \in Slots(t)
  BY <1>1, <1>2, HomeSlot
<1>4. call.offset_i \in Nat /\ call.offset_i < t.MaxSize
  BY <1>1, <1>2 DEF Slots
<1>5. /\ SlotOf(t, call.key, call.offset_i) \in Slots(t)
      /\ Mod(t, Home(t, call.key) + call.offset_i) = SlotOf(t, call.key, call.offset_i)
  BY <1>1, <1>3, <1>4, AtSlot DEF SlotOf
<1>6. Home(t, call.key_to_add) + call.offset_i + call.swap_difference
        = Home(t, call.key) + call.offset_i
  BY <1>2, <1>3, <1>4 DEF Slots
<1>7. AssignSlot = SlotOf(t, call.key, call.offset_i)
  BY <1>5, <1>6 DEF AssignSlot
<1>. QED BY <1>1, <1>2, <1>3, <1>4, <1>5, <1>7, AwaySlot DEF Farther

\* The loop leaves before its last iteration has passed an entry: a slot is empty.
LEMMA NotTheLast ==
  ASSUME NEW t, hash \in [Keys -> Hashes], AssignLoop(t), Target = t,
         AssignSlot \in Occupied(t)
  PROVE  call.offset_i + 1 \in Slots(t) /\ call.offset_i + 1 # t.MaxSize
<1>. DEFINE h == Home(t, call.key)
<1>1. PICK i \in Slots(t) : t.keys[i] = NoKey
  BY DEF AssignLoop, LoopOK, SomeEmpty
<1>2. /\ RealTable(t) /\ t.MaxSize \in Nat /\ t.MaxSize > 1 /\ h \in Slots(t)
      /\ call.offset_i \in Slots(t) /\ call.offset_i \in Nat
      /\ AssignSlot = SlotOf(t, call.key, call.offset_i)
  BY LoopFacts
<1>3. Away(t, h, i) \in Slots(t) /\ SlotOf(t, call.key, Away(t, h, i)) = i
  BY <1>2, AwaySlot DEF SlotOf
<1>4. i \notin Occupied(t)
  BY <1>1 DEF Occupied
<1>5. \A j \in 0 .. call.offset_i - 1 : SlotOf(t, call.key, j) \in Occupied(t)
  BY DEF AssignLoop, LoopOK
<1>6. Away(t, h, i) \notin 0 .. call.offset_i - 1 /\ Away(t, h, i) # call.offset_i
  BY <1>2, <1>3, <1>4, <1>5
<1>. QED BY <1>2, <1>3, <1>6 DEF Slots

\* When it comes to a slot for the entry in hand, no entry has its key.
LEMMA KeyNotIn ==
  ASSUME NEW t, hash \in [Keys -> Hashes], AssignLoop(t), Target = t,
         t.keys[AssignSlot] # call.key_to_add,
         AssignSlot \in Occupied(t) => Farther(t, AssignSlot)
  PROVE  call.key_to_add \notin KeysIn(t)
<1>. DEFINE k == call.key
            o == call.offset_i
            here == SlotOf(t, k, o)
<1>1. CASE call.key_to_add # call.key
  BY <1>1 DEF AssignLoop, LoopOK
<1>2. CASE call.key_to_add = call.key
  <2>1. /\ RealTable(t) /\ t.MaxSize \in Nat /\ t.MaxSize > 1 /\ k \in Keys /\ o \in Slots(t)
        /\ AssignSlot = here /\ Home(t, k) \in Slots(t)
        /\ Farther(t, here) <=> Away(t, Home(t, k), here) > Distance(t, here)
    BY <1>2, LoopFacts
  <2>2. OrderOK(t) /\ \A j \in 0 .. o - 1 : t.keys[SlotOf(t, k, j)] # k
    BY <1>2 DEF AssignLoop, LoopOK, TableOK
  <2>3. Away(t, Home(t, k), here) = o
    BY <2>1, AwayAt DEF SlotOf
  <2>4. here \notin Occupied(t) \/ Distance(t, here) < o
    <3>. SUFFICES ASSUME here \in Occupied(t) PROVE Distance(t, here) < o
      OBVIOUS
    <3>1. o > Distance(t, here)
      BY <2>1, <2>3
    <3>2. Distance(t, here) \in Int /\ o \in Int
      BY <2>1, EntryDistance DEF Slots
    <3>. QED BY <3>1, <3>2
  <2>. QED BY <1>2, <2>1, <2>2, <2>4, NotIn
<1>. QED BY <1>1, <1>2

\* Writing the entry in hand keeps the table in order, and its key the only one of its kind.
LEMMA AssignWrites ==
  ASSUME NEW t, NEW u, hash \in [Keys -> Hashes], AssignLoop(t), Target = t,
         t.keys[AssignSlot] # call.key_to_add,
         AssignSlot \in Occupied(t) => Farther(t, AssignSlot),
         SameBut(u, t, AssignSlot), AssignSlot \in Occupied(u),
         u.keys[AssignSlot] = call.key_to_add
  PROVE  OrderOK(u) /\ Unique(u)
<1>. DEFINE here == AssignSlot
            home == Home(t, call.key_to_add)
<1>1. /\ RealTable(t) /\ t.MaxSize \in Nat /\ t.MaxSize > 1 /\ home \in Slots(t)
      /\ here = SlotOf(t, call.key, call.offset_i) /\ here \in Slots(t)
      /\ Away(t, home, here) \in Slots(t)
      /\ Farther(t, here) <=> Away(t, home, here) > Distance(t, here)
  BY LoopFacts
<1>2. OrderOK(t) /\ Unique(t)
  BY DEF AssignLoop, LoopOK, TableOK
<1>3. Distance(u, here) = Away(t, home, here)
  <2>1. RealTable(u) /\ Home(u, call.key_to_add) = home
    BY SameElsewhere DEF SameBut
  <2>2. Distance(u, here) = Away(u, home, here)
    BY <2>1, EntryDistance
  <2>. QED BY <2>2, SameElsewhere
<1>4. Away(t, home, here) > 0 => /\ Before(t, here) \in Occupied(t)
                                 /\ Distance(t, Before(t, here)) + 1 >= Away(t, home, here)
  BY <1>1 DEF AssignLoop, LoopOK
<1>5. ASSUME NEW n \in Occupied(t), Before(t, n) = here, Distance(t, n) > 0
      PROVE  Distance(u, here) + 1 >= Distance(t, n)
  <2>1. here \in Occupied(t) /\ Distance(t, here) + 1 >= Distance(t, n)
    BY <1>2, <1>5 DEF OrderOK
  <2>2. Distance(t, here) \in Int /\ Distance(t, n) \in Int /\ Away(t, home, here) \in Int
    BY <1>1, <2>1, EntryDistance DEF Slots
  <2>. QED BY <1>1, <1>3, <2>1, <2>2
<1>6. OrderOK(u)
  BY <1>2, <1>3, <1>4, <1>5, OrderFill
<1>7. call.key_to_add \notin KeysIn(t)
  BY KeyNotIn
<1>8. Unique(u)
  <2>. SUFFICES ASSUME NEW i \in Occupied(u), NEW j \in Occupied(u), u.keys[i] = u.keys[j], i # j
                PROVE  FALSE
    BY DEF Unique
  <2>1. \A n \in Occupied(u) \ {here} : n \in Occupied(t) /\ u.keys[n] = t.keys[n]
    BY <1>1, SameElsewhere DEF SameBut, Occupied
  <2>2. CASE i = here
    BY <1>7, <2>1, <2>2 DEF KeysIn
  <2>3. CASE j = here
    BY <1>7, <2>1, <2>3 DEF KeysIn
  <2>4. CASE i # here /\ j # here
    BY <1>2, <2>1, <2>4 DEF Unique
  <2>. QED BY <2>2, <2>3, <2>4
<1>. QED BY <1>6, <1>8

\* The slot after a slot that was empty is one where a deletion stops.
LEMMA StopAfterEmpty ==
  ASSUME NEW t, RealTable(t), hash \in [Keys -> Hashes], OrderOK(t),
         NEW i \in Slots(t), i \notin Occupied(t)
  PROVE  At(t, i, 1) \in Slots(t) /\ At(t, i, 1) # i /\ Stop(t, At(t, i, 1))
<1>. DEFINE n == At(t, i, 1)
<1>1. t.MaxSize \in Nat /\ t.MaxSize > 1 /\ n \in Slots(t) /\ n # i /\ Before(t, n) = i
  BY TableFacts, BeforeSlot
<1>2. CASE n \notin Occupied(t)
  BY <1>1, <1>2 DEF Stop, Occupied
<1>3. CASE n \in Occupied(t)
  <2>1. ~(Distance(t, n) > 0)
    BY <1>1, <1>3 DEF OrderOK
  <2>2. Distance(t, n) = 0
    BY <1>3, <2>1, EntryDistance DEF Slots
  <2>. QED BY <1>1, <1>3, <2>2, EntryDistance
<1>. QED BY <1>1, <1>2, <1>3

Filled(t) == [Put(t, AssignSlot, call.key_to_add, call.value) EXCEPT !.size = t.size + 1]

\* AssignEmpty: the entry in hand fills an empty slot.
LEMMA AssignEmptyStep ==
  ASSUME NEW t, NEW u, hash \in [Keys -> Hashes], AssignLoop(t), Target = t,
         t.keys[AssignSlot] = NoKey, u = Filled(t)
  PROVE  /\ SameBut(u, t, AssignSlot) /\ AssignSlot \in Slots(t)
         /\ AssignSlot \notin Occupied(t) /\ AssignSlot \in Occupied(u)
         /\ u.keys[AssignSlot] = call.key_to_add /\ u.map_values[AssignSlot] = call.value
         /\ call.key_to_add \notin KeysIn(t)
         /\ u.size = t.size + 1 /\ TableOK(u) /\ SomeStop(u)
<1>. DEFINE here == AssignSlot
<1>1. /\ RealTable(t) /\ here \in Slots(t) /\ call.key_to_add \in Keys /\ call.value \in Values
  BY LoopFacts
<1>2. /\ OrderOK(t) /\ t.size + 1 \in Int /\ Counted(t)
  BY DEF AssignLoop, LoopOK, TableOK, RealTable
<1>3. /\ SameBut(u, t, here) /\ here \in Occupied(u) /\ u.size = t.size + 1
      /\ u.keys[here] = call.key_to_add /\ u.map_values[here] = call.value
  BY <1>1, <1>2, Written DEF Filled
<1>4. here \notin Occupied(t) /\ t.keys[here] # call.key_to_add
  BY <1>1, HashesAssumption DEF Occupied
<1>5. OrderOK(u) /\ Unique(u)
  BY <1>3, <1>4, AssignWrites
<1>6. call.key_to_add \notin KeysIn(t)
  BY <1>4, KeyNotIn
<1>7. Counted(u)
  <2>1. Cardinality(Occupied(u)) = Cardinality(Occupied(t)) + 1 - 0
    BY <1>3, <1>4, OccupiedChange
  <2>2. Cardinality(Occupied(t)) \in Nat
    BY <1>1, OccupiedFinite
  <2>. QED BY <1>2, <1>3, <2>1, <2>2 DEF Counted
<1>8. SomeStop(u)
  <2>. DEFINE n == At(t, here, 1)
  <2>1. n \in Slots(t) \ {here} /\ Stop(t, n)
    BY <1>1, <1>2, <1>4, StopAfterEmpty
  <2>. HIDE DEF n
  <2>2. Slots(u) = Slots(t) /\ \A k : Home(u, k) = Home(t, k)
    BY <1>3, SameElsewhere
  <2>3. \A j \in Slots(t) \ {here} : u.keys[j] = t.keys[j]
    BY <1>3, SameElsewhere
  <2>. QED BY <2>1, <2>2, <2>3 DEF SomeStop, Stop
<1>. QED BY <1>1, <1>3, <1>4, <1>5, <1>6, <1>7, <1>8 DEF TableOK, SameBut

\* AssignSame: the key is there already, and only its value changes.
LEMMA AssignSameStep ==
  ASSUME NEW t, NEW u, hash \in [Keys -> Hashes], AssignLoop(t), Target = t,
         t.keys[AssignSlot] = call.key_to_add,
         u = [t EXCEPT !.map_values[AssignSlot] = call.value]
  PROVE  /\ SameBut(u, t, AssignSlot) /\ AssignSlot \in Occupied(t)
         /\ u.keys = t.keys /\ u.map_values[AssignSlot] = call.value /\ u.size = t.size
         /\ call.key_to_add = call.key /\ TableOK(u) /\ SomeEmpty(u) /\ SomeStop(u)
<1>. DEFINE here == AssignSlot
<1>1. /\ RealTable(t) /\ here \in Slots(t) /\ call.key_to_add \in Keys /\ call.value \in Values
  BY LoopFacts
<1>2. TableOK(t) /\ SomeEmpty(t)
  BY DEF AssignLoop, LoopOK
<1>3. here \in Occupied(t)
  BY <1>1, HashesAssumption DEF Occupied
<1>4. /\ u \in [MaxSize : Sizes, size : Int, keys : [Slots(t) -> Keys \union {NoKey}],
                map_values : [Slots(t) -> Values \union {0}]]
      /\ u.MaxSize = t.MaxSize /\ u.keys = t.keys /\ u.size = t.size
      /\ u.map_values[here] = call.value
      /\ \A j \in Slots(t) \ {here} : u.map_values[j] = t.map_values[j]
      /\ \A j \in Slots(t) : t.keys[j] # NoKey => t.map_values[j] \in Values
  BY <1>1 DEF RealTable
<1>5. Slots(u) = Slots(t) /\ Occupied(u) = Occupied(t)
  BY <1>4 DEF Slots, Occupied
<1>6. RealTable(u)
  BY <1>1, <1>4, <1>5 DEF RealTable
<1>7. SameBut(u, t, here)
  BY <1>1, <1>4, <1>6 DEF SameBut
<1>8. call.key_to_add = call.key
  BY <1>3 DEF AssignLoop, LoopOK, KeysIn
<1>9. OrderOK(u)
  <2>1. \A n : Before(u, n) = Before(t, n) /\ Distance(u, n) = Distance(t, n)
    BY <1>4 DEF Before, Distance, SubMod, Home, Mod
  <2>. QED BY <1>2, <1>5, <2>1 DEF OrderOK, TableOK
<1>10. SomeEmpty(u) /\ SomeStop(u)
  BY <1>2, <1>4, <1>5 DEF SomeEmpty, SomeStop, Stop
<1>11. Unique(u) /\ Counted(u)
  BY <1>2, <1>4, <1>5 DEF TableOK, Unique, Counted
<1>. QED BY <1>3, <1>4, <1>6, <1>7, <1>8, <1>9, <1>10, <1>11 DEF TableOK

\* The entry in hand stays no farther from its home than the order allows, one slot on.
LEMMA OneOn ==
  ASSUME NEW t, NEW h \in Slots(t), NEW here \in Slots(t), NEW d \in Int,
         t.MaxSize \in Nat, t.MaxSize > 1, Away(t, h, here) <= d,
         Away(t, h, At(t, here, 1)) > 0
  PROVE  Before(t, At(t, here, 1)) = here /\ d + 1 >= Away(t, h, At(t, here, 1))
<1>1. Before(t, At(t, here, 1)) = here
  BY BeforeSlot
<1>2. Away(t, h, At(t, here, 1)) = Away(t, h, here) + 1
  BY AwayNext
<1>3. Away(t, h, here) \in Int
  BY AwaySlot DEF Slots
<1>. QED BY <1>1, <1>2, <1>3

\* AssignPass: the entry in hand goes past one as far from home as itself.
LEMMA AssignPassStep ==
  ASSUME NEW t, NEW d, hash \in [Keys -> Hashes], AssignLoop(t), Target = t,
         t.keys[AssignSlot] \notin {NoKey, call.key_to_add}, ~Farther(t, AssignSlot),
         d = [call EXCEPT !.offset_i = @ + 1]
  PROVE  /\ call.offset_i + 1 # t.MaxSize /\ LoopOK(t, d)
         /\ d.op = call.op /\ d.at = call.at /\ d.i = call.i /\ d.key = call.key
         /\ d.key_to_add = call.key_to_add /\ d.value = call.value
<1>. DEFINE here == AssignSlot
            o == call.offset_i
            home == Home(t, call.key_to_add)
<1>1. /\ RealTable(t) /\ t.MaxSize \in Nat /\ t.MaxSize > 1 /\ home \in Slots(t)
      /\ here = SlotOf(t, call.key, o) /\ here \in Slots(t) /\ o \in Slots(t) /\ o \in Nat
      /\ Away(t, home, here) \in Slots(t) /\ Home(t, call.key) \in Slots(t)
      /\ Farther(t, here) <=> Away(t, home, here) > Distance(t, here)
  BY LoopFacts
<1>2. here \in Occupied(t)
  BY <1>1 DEF Occupied
<1>3. o + 1 \in Slots(t) /\ o + 1 # t.MaxSize
  BY <1>2, NotTheLast
<1>4. call \in [op : {"assign", "resize"}, at : {"assign"}, i : Nat, key : Keys,
                key_to_add : Keys, given : Values, value : Values,
                offset_i : Slots(t), swap_difference : Int]
  BY DEF AssignLoop, LoopOK
<1>5. /\ d \in [op : {"assign", "resize"}, at : {"assign"}, i : Nat, key : Keys,
                key_to_add : Keys, given : Values, value : Values,
                offset_i : Slots(t), swap_difference : Int]
      /\ d.op = call.op /\ d.at = call.at /\ d.i = call.i /\ d.key = call.key
      /\ d.key_to_add = call.key_to_add /\ d.value = call.value /\ d.given = call.given
      /\ d.swap_difference = call.swap_difference /\ d.offset_i = o + 1
  BY <1>3, <1>4
<1>6. SlotOf(t, call.key, o + 1) = At(t, here, 1)
  BY <1>1, StepOn DEF SlotOf
<1>7. Distance(t, here) \in Int /\ Away(t, home, here) <= Distance(t, here)
  BY <1>1, <1>2, EntryDistance DEF Slots
<1>8. LET next == SlotOf(t, d.key, d.offset_i)
          far  == Away(t, Home(t, d.key_to_add), next)
      IN  far > 0 => Before(t, next) \in Occupied(t) /\ Distance(t, Before(t, next)) + 1 >= far
  BY <1>1, <1>2, <1>5, <1>6, <1>7, OneOn
<1>9. \A j \in 0 .. d.offset_i - 1 : j \in 0 .. o - 1 \/ j = o
  BY <1>1, <1>5
<1>10. 0 .. o - 1 \subseteq 0 .. d.offset_i - 1
  BY <1>1, <1>5
<1>11. \A j \in 0 .. d.offset_i - 1 : SlotOf(t, d.key, j) \in Occupied(t)
  BY <1>1, <1>2, <1>5, <1>9 DEF AssignLoop, LoopOK
<1>12. GivenOK(t, d)
  BY <1>5 DEF AssignLoop, LoopOK, GivenOK
<1>13. CASE d.key_to_add = d.key
  <2>1. \A j \in 0 .. d.offset_i - 1 : t.keys[SlotOf(t, d.key, j)] # d.key
    BY <1>1, <1>5, <1>9, <1>13 DEF AssignLoop, LoopOK
  <2>. QED BY <1>3, <1>5, <1>8, <1>11, <1>12, <1>13, <2>1 DEF AssignLoop, LoopOK
<1>14. CASE d.key_to_add # d.key
  <2>1. d.key_to_add \notin KeysIn(t)
    BY <1>5, <1>14 DEF AssignLoop, LoopOK
  <2>2. \E j \in 0 .. d.offset_i - 1 : t.keys[SlotOf(t, d.key, j)] = d.key
    BY <1>5, <1>10, <1>14 DEF AssignLoop, LoopOK
  <2>. QED BY <1>3, <1>5, <1>8, <1>11, <1>12, <1>14, <2>1, <2>2 DEF AssignLoop, LoopOK
<1>. QED BY <1>13, <1>14

Swapped(t) ==
  [call EXCEPT !.key_to_add = t.keys[AssignSlot], !.value = t.map_values[AssignSlot],
     !.swap_difference = Home(t, call.key) - Home(t, t.keys[AssignSlot])]

Onward(t) == [Swapped(t) EXCEPT !.offset_i = call.offset_i + 1]

Exchanged(t) == Put(t, AssignSlot, call.key_to_add, call.value)

\* AssignSwap: the entry in hand takes the slot of one nearer to its home, which is then in hand.
LEMMA AssignSwapStep ==
  ASSUME NEW t, NEW u, NEW d, hash \in [Keys -> Hashes], AssignLoop(t), Target = t,
         t.keys[AssignSlot] \notin {NoKey, call.key_to_add}, Farther(t, AssignSlot),
         u = Exchanged(t), d = Onward(t)
  PROVE  /\ call.offset_i + 1 # t.MaxSize /\ LoopOK(u, d)
         /\ d.op = call.op /\ d.at = call.at /\ d.i = call.i /\ d.key = call.key
         /\ d.key_to_add = t.keys[AssignSlot] /\ d.value = t.map_values[AssignSlot]
         /\ SameBut(u, t, AssignSlot) /\ AssignSlot \in Occupied(u)
         /\ AssignSlot \in Occupied(t) /\ u.size = t.size
         /\ u.keys[AssignSlot] = call.key_to_add /\ u.map_values[AssignSlot] = call.value
         /\ call.key_to_add \notin KeysIn(t) /\ d.key_to_add # d.key
<1>. DEFINE here == AssignSlot
            o == call.offset_i
            k == call.key
            met == t.keys[here]
            home == Home(t, call.key_to_add)
<1>1. /\ RealTable(t) /\ t.MaxSize \in Nat /\ t.MaxSize > 1 /\ home \in Slots(t)
      /\ here = SlotOf(t, k, o) /\ here \in Slots(t) /\ o \in Slots(t) /\ o \in Nat
      /\ Away(t, home, here) \in Slots(t) /\ Home(t, k) \in Slots(t)
      /\ Farther(t, here) <=> Away(t, home, here) > Distance(t, here)
      /\ call.key_to_add \in Keys /\ call.value \in Values /\ k \in Keys
  BY LoopFacts
<1>2. here \in Occupied(t)
  BY <1>1 DEF Occupied
<1>3. o + 1 \in Slots(t) /\ o + 1 # t.MaxSize
  BY <1>2, NotTheLast
<1>4. /\ call \in [op : {"assign", "resize"}, at : {"assign"}, i : Nat, key : Keys,
                   key_to_add : Keys, given : Values, value : Values,
                   offset_i : Slots(t), swap_difference : Int]
      /\ OrderOK(t) /\ Unique(t) /\ Counted(t) /\ SomeEmpty(t)
  BY DEF AssignLoop, LoopOK, TableOK
<1>5. met \in Keys /\ t.map_values[here] \in Values /\ Home(t, met) \in Slots(t)
  BY <1>1, <1>2, TableFacts, EntryDistance
<1>6. /\ SameBut(u, t, here) /\ here \in Occupied(u) /\ u.size = t.size
      /\ u.keys[here] = call.key_to_add /\ u.map_values[here] = call.value
  BY <1>1, Written DEF Exchanged
<1>7. call.key_to_add \notin KeysIn(t)
  BY KeyNotIn
<1>8. /\ d \in [op : {"assign", "resize"}, at : {"assign"}, i : Nat, key : Keys,
                key_to_add : Keys, given : Values, value : Values,
                offset_i : Slots(t), swap_difference : Int]
      /\ d.op = call.op /\ d.at = call.at /\ d.i = call.i /\ d.key = k
      /\ d.key_to_add = met /\ d.value = t.map_values[here] /\ d.offset_i = o + 1
      /\ d.given = call.given
      /\ d.swap_difference = Home(t, k) - Home(t, met)
  <2>. DEFINE difference == Home(t, k) - Home(t, met)
  <2>1. difference \in Int
    BY <1>1, <1>5 DEF Slots
  <2>2. d = [op |-> call.op, at |-> call.at, i |-> call.i, key |-> k, key_to_add |-> met,
             given |-> call.given, value |-> t.map_values[here], offset_i |-> o + 1,
             swap_difference |-> difference]
    BY <1>4 DEF Swapped, Onward
  <2>. HIDE DEF difference
  <2>3. d.swap_difference = difference
    BY <2>2
  <2>4. d \in [op : {"assign", "resize"}, at : {"assign"}, i : Nat, key : Keys,
                key_to_add : Keys, given : Values, value : Values,
                offset_i : Slots(t), swap_difference : Int]
    <3>. DEFINE v == t.map_values[here]
                offset == o + 1
    <3>1. /\ call.op \in {"assign", "resize"} /\ call.at \in {"assign"} /\ call.i \in Nat
          /\ k \in Keys /\ met \in Keys /\ v \in Values /\ offset \in Slots(t)
          /\ call.given \in Values
      BY <1>3, <1>4, <1>5
    <3>2. d = [op |-> call.op, at |-> call.at, i |-> call.i, key |-> k, key_to_add |-> met,
               given |-> call.given, value |-> v, offset_i |-> offset,
               swap_difference |-> difference]
      BY <2>2
    <3>. HIDE DEF met, v, offset, k
    <3>. QED BY <2>1, <3>1, <3>2
  <2>. QED BY <2>2, <2>3, <2>4 DEF difference
<1>. HIDE DEF Swapped, Exchanged
<1>9. /\ Slots(u) = Slots(t) /\ \A x : Home(u, x) = Home(t, x)
      /\ \A j : SlotOf(u, k, j) = SlotOf(t, k, j)
      /\ \A j \in Slots(t) \ {here} : u.keys[j] = t.keys[j]
      /\ Occupied(u) = Occupied(t)
  BY <1>2, <1>6, SameElsewhere DEF SlotOf
<1>10. TableOK(u) /\ SomeEmpty(u)
  <2>1. OrderOK(u) /\ Unique(u)
    BY <1>6, AssignWrites
  <2>2. Counted(u)
    BY <1>4, <1>6, <1>9 DEF Counted
  <2>3. SomeEmpty(u)
    BY <1>2, <1>4, <1>9 DEF SomeEmpty, Occupied
  <2>. QED BY <1>6, <2>1, <2>2, <2>3, SameElsewhere DEF TableOK
<1>11. met \notin KeysIn(u)
  <2>. SUFFICES ASSUME NEW i \in Occupied(u), u.keys[i] = met PROVE FALSE
    BY DEF KeysIn
  <2>1. i # here
    BY <1>6
  <2>2. i \in Occupied(t) /\ t.keys[i] = met
    BY <1>9, <2>1 DEF Occupied
  <2>. QED BY <1>2, <1>4, <2>1, <2>2 DEF Unique
<1>12. SlotOf(t, k, o + 1) = At(t, here, 1)
  BY <1>1, StepOn DEF SlotOf
<1>13. LET next == SlotOf(u, d.key, d.offset_i)
           far  == Away(u, Home(u, d.key_to_add), next)
       IN  far > 0 => Before(u, next) \in Occupied(u) /\ Distance(u, Before(u, next)) + 1 >= far
  <2>. DEFINE next == At(t, here, 1)
              far == Away(t, Home(t, met), next)
  <2>1. Away(t, Home(t, met), here) = Distance(t, here) /\ Distance(t, here) \in Int
    BY <1>1, <1>2, EntryDistance DEF Slots
  <2>2. Distance(u, here) = Away(t, home, here)
    BY <1>6, <1>9, SameElsewhere, EntryDistance
  <2>3. Distance(u, here) \in Int /\ Away(t, Home(t, met), here) <= Distance(u, here)
    BY <1>1, <2>1, <2>2 DEF Slots
  <2>4. far > 0 => Before(t, next) = here /\ Distance(u, here) + 1 >= far
    BY <1>1, <1>5, <2>3, OneOn
  <2>5. SlotOf(u, d.key, d.offset_i) = next /\ Away(u, Home(u, d.key_to_add), next) = far
    BY <1>6, <1>8, <1>9, <1>12, SameElsewhere
  <2>6. Before(u, next) = Before(t, next)
    BY <1>6, SameElsewhere
  <2>. HIDE DEF next, far
  <2>. QED BY <1>6, <2>4, <2>5, <2>6
<1>14. \A j \in 0 .. d.offset_i - 1 : j \in 0 .. o - 1 \/ j = o
  BY <1>1, <1>8
<1>15. \A j \in 0 .. d.offset_i - 1 : SlotOf(u, d.key, j) \in Occupied(u)
  BY <1>1, <1>2, <1>8, <1>9, <1>14 DEF AssignLoop, LoopOK
<1>16. met # k /\ \E j \in 0 .. d.offset_i - 1 : u.keys[SlotOf(u, d.key, j)] = d.key
  <2>1. CASE call.key_to_add = k
    <3>1. o \in 0 .. d.offset_i - 1 /\ u.keys[SlotOf(u, d.key, o)] = d.key
      BY <1>1, <1>6, <1>8, <1>9, <2>1
    <3>. QED BY <2>1, <3>1
  <2>2. CASE call.key_to_add # k
    <3>1. PICK j \in 0 .. o - 1 : t.keys[SlotOf(t, k, j)] = k
      BY <2>2 DEF AssignLoop, LoopOK
    <3>2. SlotOf(t, k, j) \in Occupied(t) /\ SlotOf(t, k, j) \in Slots(t)
      BY <3>1 DEF AssignLoop, LoopOK, Occupied
    <3>3. j \in Slots(t)
      BY <1>1 DEF Slots
    <3>4. SlotOf(t, k, j) # here
      <4>1. Away(t, Home(t, k), SlotOf(t, k, j)) = j /\ Away(t, Home(t, k), SlotOf(t, k, o)) = o
        BY <1>1, <3>3, AwayAt DEF SlotOf
      <4>. QED BY <1>1, <4>1
    <3>5. met # k
      BY <1>2, <1>4, <3>1, <3>2, <3>4 DEF Unique
    <3>6. j \in 0 .. d.offset_i - 1 /\ u.keys[SlotOf(u, d.key, j)] = d.key
      BY <1>1, <1>8, <1>9, <3>1, <3>2, <3>4
    <3>. QED BY <3>5, <3>6
  <2>. QED BY <2>1, <2>2
<1>17. d.key_to_add # d.key /\ d.key_to_add \notin KeysIn(u)
  BY <1>8, <1>11, <1>16
<1>18. d.swap_difference = Home(u, d.key) - Home(u, d.key_to_add)
  BY <1>8, <1>9
<1>19. d \in [op : {"assign", "resize"}, at : {"assign"}, i : Nat, key : Keys,
              key_to_add : Keys, given : Values, value : Values,
              offset_i : Slots(u), swap_difference : Int]
  BY <1>8, <1>9
<1>20. GivenOK(u, d)
  <2>1. Stored(u) \union {Pair(t, here)} = Stored(t) \union {Pair(u, here)}
    BY <1>2, <1>6, StoredChange
  <2>2. Pair(t, here)[1] = met /\ Pair(u, here) = <<call.key_to_add, call.value>>
    BY <1>6 DEF Pair
  <2>3. <<k, call.given>> \in Stored(t) \union {Pair(u, here)}
    BY <2>2 DEF AssignLoop, LoopOK, GivenOK
  <2>4. <<k, call.given>> # Pair(t, here)
    BY <1>16, <2>2
  <2>5. <<k, call.given>> \in Stored(u)
    BY <2>1, <2>3, <2>4
  <2>. QED BY <1>8, <1>17, <2>5 DEF GivenOK
<1>21. LoopOK(u, d)
  BY <1>10, <1>13, <1>15, <1>16, <1>17, <1>18, <1>19, <1>20 DEF LoopOK
<1>. QED BY <1>2, <1>3, <1>6, <1>7, <1>8, <1>17, <1>21

-----------------------------------------------------------------------------
(* The loop of erase.                                                         *)

\* The slot to fill and the one after it.
LEMMA ShiftFacts ==
  ASSUME hash \in [Keys -> Hashes], ShiftOK(map, call)
  PROVE  /\ RealTable(map) /\ map.MaxSize \in Nat /\ map.MaxSize > 1
         /\ OrderOK(map) /\ Counted(map)
         /\ call \in [op : {"erase", "pop"}, at : {"shift"}, key : Keys, value : Values,
                      slot : Slots(map), offset_i : 1 .. map.MaxSize]
         /\ call.slot \in Slots(map) /\ call.offset_i - 1 \in Slots(map)
         /\ call.offset_i \in Nat /\ call.offset_i >= 1 /\ call.offset_i <= map.MaxSize
         /\ ThisSlot = At(map, call.slot, call.offset_i - 1)
         /\ NextSlot = At(map, call.slot, call.offset_i)
         /\ NextSlot = At(map, ThisSlot, 1) /\ Before(map, NextSlot) = ThisSlot
         /\ ThisSlot \in Slots(map) /\ NextSlot \in Slots(map) /\ NextSlot # ThisSlot
         /\ ThisSlot \in Occupied(map)
         /\ Shifts <=> ~Stop(map, NextSlot)
<1>1. /\ RealTable(map) /\ OrderOK(map) /\ Counted(map)
      /\ call \in [op : {"erase", "pop"}, at : {"shift"}, key : Keys, value : Values,
                   slot : Slots(map), offset_i : 1 .. map.MaxSize]
      /\ At(map, call.slot, call.offset_i - 1) \in Occupied(map)
  BY DEF ShiftOK
<1>2. map.MaxSize \in Nat /\ map.MaxSize > 1
  BY <1>1, TableFacts
<1>3. /\ call.slot \in Slots(map) /\ call.offset_i - 1 \in Slots(map)
      /\ call.offset_i \in Nat /\ call.offset_i >= 1 /\ call.offset_i <= map.MaxSize
      /\ call.slot + call.offset_i - 1 = call.slot + (call.offset_i - 1)
      /\ call.offset_i = (call.offset_i - 1) + 1
  BY <1>1, <1>2 DEF Slots
<1>4. ThisSlot = At(map, call.slot, call.offset_i - 1) /\ ThisSlot \in Slots(map)
  <2>1. call.offset_i - 1 \in Int /\ 0 <= call.offset_i - 1 /\ call.offset_i - 1 <= map.MaxSize
    BY <1>2, <1>3
  <2>. QED BY <1>2, <1>3, <2>1, AtSlot DEF ThisSlot
<1>5. NextSlot = At(map, call.slot, call.offset_i)
  BY <1>2, <1>3, AtSlot DEF NextSlot
<1>6. At(map, call.slot, call.offset_i) = At(map, At(map, call.slot, call.offset_i - 1), 1)
  <2>1. At(map, At(map, call.slot, call.offset_i - 1), 1)
          = At(map, call.slot, (call.offset_i - 1) + 1)
    BY <1>2, <1>3, StepOn
  <2>. QED BY <1>3, <2>1
<1>7. NextSlot \in Slots(map) /\ NextSlot # ThisSlot /\ Before(map, NextSlot) = ThisSlot
  BY <1>2, <1>4, <1>5, <1>6, BeforeSlot
<1>8. Shifts <=> ~Stop(map, NextSlot)
  BY DEF Shifts, Stop
<1>. QED BY <1>1, <1>2, <1>3, <1>4, <1>5, <1>6, <1>7, <1>8

Further == [call EXCEPT !.offset_i = @ + 1]

Moved == Put(map, ThisSlot, map.keys[NextSlot], map.map_values[NextSlot])

\* EraseShift: the entry after the gap fills it.
LEMMA EraseShiftStep ==
  ASSUME NEW u, NEW d, hash \in [Keys -> Hashes], ShiftOK(map, call), Shifts,
         u = Moved, d = Further
  PROVE  /\ ShiftOK(u, d) /\ SameBut(u, map, ThisSlot) /\ NextSlot \in Occupied(map)
         /\ u.keys[ThisSlot] = map.keys[NextSlot]
         /\ u.map_values[ThisSlot] = map.map_values[NextSlot]
         /\ u.size = map.size /\ Occupied(u) = Occupied(map)
         /\ d.op = call.op /\ d.at = call.at /\ d.key = call.key /\ d.value = call.value
<1>. DEFINE this == ThisSlot
            next == NextSlot
            o == call.offset_i
<1>1. /\ RealTable(map) /\ map.MaxSize \in Nat /\ map.MaxSize > 1
      /\ OrderOK(map) /\ Counted(map)
      /\ call \in [op : {"erase", "pop"}, at : {"shift"}, key : Keys, value : Values,
                   slot : Slots(map), offset_i : 1 .. map.MaxSize]
      /\ call.slot \in Slots(map) /\ o - 1 \in Slots(map)
      /\ o \in Nat /\ o >= 1 /\ o <= map.MaxSize
      /\ this = At(map, call.slot, o - 1) /\ next = At(map, call.slot, o)
      /\ next = At(map, this, 1) /\ Before(map, next) = this
      /\ this \in Slots(map) /\ next \in Slots(map) /\ next # this
      /\ this \in Occupied(map)
      /\ ~Stop(map, next)
  BY ShiftFacts
<1>. DEFINE k == map.keys[next]
            v == map.map_values[next]
<1>2. next \in Occupied(map) /\ k \in Keys /\ v \in Values
  <2>1. next \in Occupied(map)
    BY <1>1 DEF Occupied, Stop
  <2>. QED BY <1>1, <2>1, TableFacts
<1>3. /\ SameBut(u, map, this) /\ this \in Occupied(u)
      /\ u.keys[this] = k /\ u.map_values[this] = v /\ u.size = map.size
  BY <1>1, <1>2, Written DEF Moved
<1>. HIDE DEF Moved
<1>4. /\ Slots(u) = Slots(map) /\ Occupied(u) = Occupied(map) /\ u.MaxSize = map.MaxSize
      /\ \A j \in Slots(map) \ {this} :
           u.keys[j] = map.keys[j] /\ u.map_values[j] = map.map_values[j]
      /\ \A x : Home(u, x) = Home(map, x)
      /\ \A i, j : At(u, i, j) = At(map, i, j)
      /\ \A j : Before(u, j) = Before(map, j)
      /\ RealTable(u)
  <2>1. Occupied(u) = Occupied(map)
    <3>1. Occupied(u) \ {this} = Occupied(map) \ {this}
      BY <1>3, SameElsewhere
    <3>2. this \in Occupied(u) /\ this \in Occupied(map)
      BY <1>1, <1>3
    <3>. QED BY <3>1, <3>2
  <2>2. /\ Slots(u) = Slots(map) /\ u.MaxSize = map.MaxSize /\ RealTable(u)
        /\ \A j \in Slots(map) \ {this} :
             u.keys[j] = map.keys[j] /\ u.map_values[j] = map.map_values[j]
    BY <1>3, SameElsewhere
  <2>3. /\ \A x : Home(u, x) = Home(map, x)
        /\ \A i, j : At(u, i, j) = At(map, i, j)
        /\ \A j : Before(u, j) = Before(map, j)
    BY <1>3, SameElsewhere
  <2>. QED BY <2>1, <2>2, <2>3
<1>5. \E j \in o .. map.MaxSize : Stop(map, At(map, call.slot, j))
  BY DEF ShiftOK
<1>6. o + 1 \in 1 .. map.MaxSize /\ \E j \in o + 1 .. map.MaxSize : Stop(map, At(map, call.slot, j))
  <2>1. PICK j \in o .. map.MaxSize : Stop(map, At(map, call.slot, j))
    BY <1>5
  <2>2. j # o
    BY <1>1, <2>1
  <2>3. j \in o + 1 .. map.MaxSize
    BY <1>1, <2>2
  <2>. QED BY <1>1, <2>1, <2>3
<1>7. /\ d \in [op : {"erase", "pop"}, at : {"shift"}, key : Keys, value : Values,
                slot : Slots(u), offset_i : 1 .. u.MaxSize]
      /\ d.op = call.op /\ d.at = call.at /\ d.key = call.key /\ d.value = call.value
      /\ d.slot = call.slot /\ d.offset_i = o + 1
  BY <1>1, <1>4, <1>6 DEF Further
<1>8. /\ Distance(map, next) \in Nat /\ Distance(map, next) > 0
      /\ Distance(u, this) = Distance(map, next) - 1
      /\ Distance(map, this) \in Nat /\ Distance(map, this) + 1 >= Distance(map, next)
  <2>1. Distance(map, next) \in Nat /\ Distance(map, next) > 0
    BY <1>1, <1>2, EntryDistance DEF Slots
  <2>2. Distance(map, this) \in Nat /\ Distance(map, this) + 1 >= Distance(map, next)
    BY <1>1, <1>2, <2>1, EntryDistance DEF OrderOK, Slots
  <2>3. Home(map, k) \in Slots(map) /\ Distance(map, next) = Away(map, Home(map, k), next)
    BY <1>1, <1>2, EntryDistance
  <2>4. Away(map, Home(map, k), this) = Distance(map, next) - 1
    BY <1>1, <2>1, <2>3, AwayNext
  <2>5. Distance(u, this) = Away(u, Home(u, u.keys[this]), this)
    BY <1>3, <1>4, EntryDistance
  <2>6. Away(u, Home(u, u.keys[this]), this) = Away(map, Home(map, k), this)
    BY <1>3, <1>4, SameElsewhere
  <2>. QED BY <2>1, <2>2, <2>4, <2>5, <2>6
<1>9. OrderOK(u)
  <2>1. Distance(u, this) > 0 => /\ Before(map, this) \in Occupied(map)
                                 /\ Distance(map, Before(map, this)) + 1 >= Distance(u, this)
    <3>. SUFFICES ASSUME Distance(u, this) > 0
                  PROVE  /\ Before(map, this) \in Occupied(map)
                         /\ Distance(map, Before(map, this)) + 1 >= Distance(u, this)
      OBVIOUS
    <3>1. Distance(map, this) > 0 /\ Distance(map, this) >= Distance(u, this)
      BY <1>8
    <3>2. /\ Before(map, this) \in Occupied(map)
          /\ Distance(map, Before(map, this)) + 1 >= Distance(map, this)
      BY <1>1, <3>1 DEF OrderOK
    <3>3. Distance(map, Before(map, this)) \in Int
      <4>1. RealTable(map) /\ Before(map, this) \in Occupied(map)
        BY <1>1, <3>2
      <4>2. Distance(map, Before(map, this)) \in Slots(map)
        BY <4>1, EntryDistance
      <4>. QED BY <4>2 DEF Slots
    <3>. QED BY <1>8, <3>1, <3>2, <3>3
  <2>2. ASSUME NEW n \in Occupied(map), Before(map, n) = this, Distance(map, n) > 0
        PROVE  Distance(u, this) + 1 >= Distance(map, n)
    <3>1. n \in Slots(map)
      BY DEF Occupied
    <3>2. n = next
      <4>1. At(map, Before(map, n), 1) = n
        BY <1>1, <3>1, BeforeSlot
      <4>. QED BY <1>1, <2>2, <4>1
    <3>. QED BY <1>8, <3>2
  <2>. QED BY <1>1, <1>3, <2>1, <2>2, OrderFill
<1>10. Counted(u)
  BY <1>1, <1>3, <1>4 DEF Counted
<1>11. \E j \in d.offset_i .. u.MaxSize : Stop(u, At(u, d.slot, j))
  <2>1. PICK j \in o + 1 .. map.MaxSize : Stop(map, At(map, call.slot, j))
    BY <1>6
  <2>. DEFINE s == At(map, call.slot, j)
  <2>2. s \in Slots(map)
    <3>1. j \in Int /\ 0 <= j /\ j <= map.MaxSize
      BY <1>1
    <3>. QED BY <1>1, <3>1, AtSlot
  <2>3. CASE s # this
    BY <1>4, <1>7, <2>1, <2>2, <2>3 DEF Stop
  <2>4. CASE s = this
    <3>1. Distance(map, this) = 0
      BY <1>1, <2>1, <2>4, EntryDistance
    <3>2. Distance(u, this) = 0
      BY <1>8, <3>1
    <3>3. Stop(u, this)
      BY <1>3, <1>4, <3>2, EntryDistance
    <3>. QED BY <1>4, <1>7, <2>4, <3>3
  <2>. QED BY <2>3, <2>4
<1>12. /\ \A i, j \in Occupied(map) \ {this} : map.keys[i] = map.keys[j] => i = j
       /\ \A i \in Occupied(map) \ {this} : map.keys[i] # call.key
  BY <1>1 DEF ShiftOK
<1>13. At(u, d.slot, d.offset_i - 1) = next
  <2>1. d.offset_i - 1 = o
    BY <1>1, <1>7
  <2>2. d.slot = call.slot /\ next = At(map, call.slot, o)
    BY <1>1, <1>7
  <2>3. At(u, call.slot, o) = At(map, call.slot, o)
    BY <1>4
  <2>. QED BY <2>1, <2>2, <2>3
<1>14. ASSUME NEW i \in Occupied(u) \ {next} PROVE u.keys[i] # call.key
  <2>1. CASE i = this
    BY <1>1, <1>2, <1>3, <1>12, <2>1
  <2>2. CASE i # this
    BY <1>4, <1>12, <2>2 DEF Occupied
  <2>. QED BY <2>1, <2>2
<1>15. ASSUME NEW i \in Occupied(u) \ {next}, NEW j \in Occupied(u) \ {next}, u.keys[i] = u.keys[j]
       PROVE  i = j
  <2>1. \A n \in Occupied(u) \ {this} : n \in Occupied(map) \ {this} /\ u.keys[n] = map.keys[n]
    BY <1>4 DEF Occupied
  <2>2. next \in Occupied(map) \ {this}
    BY <1>1, <1>2
  <2>3. CASE i = this /\ j # this
    BY <1>3, <1>12, <1>15, <2>1, <2>2, <2>3
  <2>4. CASE j = this /\ i # this
    BY <1>3, <1>12, <1>15, <2>1, <2>2, <2>4
  <2>5. CASE i # this /\ j # this
    BY <1>12, <1>15, <2>1, <2>5
  <2>. QED BY <2>3, <2>4, <2>5
<1>16. /\ d.offset_i # 1 /\ Before(u, next) = this /\ this \in Occupied(u)
       /\ u.keys[next] = u.keys[this] /\ u.map_values[next] = u.map_values[this]
  BY <1>1, <1>3, <1>4, <1>7
<1>17. ShiftOK(u, d)
  BY <1>2, <1>4, <1>7, <1>9, <1>10, <1>11, <1>13, <1>14, <1>15, <1>16 DEF ShiftOK
<1>. QED BY <1>2, <1>3, <1>4, <1>7, <1>17

Vacated == ClearedTo(map, ThisSlot, map.size - 1)

\* EraseEnd: the last slot that was moved from is emptied.
LEMMA EraseEndStep ==
  ASSUME NEW u, hash \in [Keys -> Hashes], ShiftOK(map, call), ~Shifts, u = Vacated
  PROVE  /\ TableOK(u) /\ SomeStop(u) /\ SameBut(u, map, ThisSlot)
         /\ ThisSlot \notin Occupied(u) /\ u.size = map.size - 1
<1>. DEFINE this == ThisSlot
<1>1. /\ RealTable(map) /\ OrderOK(map) /\ Counted(map)
      /\ this \in Slots(map) /\ this \in Occupied(map)
      /\ this = At(map, call.slot, call.offset_i - 1)
      /\ Stop(map, At(map, this, 1))
  BY ShiftFacts
<1>2. map.size \in Int /\ map.size - 1 \in Int
  BY <1>1, TableFacts
<1>3. /\ SameBut(u, map, this) /\ u.keys[this] = NoKey /\ this \notin Occupied(u)
      /\ u.size = map.size - 1
  BY <1>1, <1>2, Emptied DEF Vacated
<1>4. /\ Slots(u) = Slots(map) /\ RealTable(u) /\ Occupied(u) = Occupied(map) \ {this}
      /\ \A j \in Occupied(u) : u.keys[j] = map.keys[j]
  <2>1. Occupied(u) = Occupied(map) \ {this} /\ RealTable(u) /\ Slots(u) = Slots(map)
    BY <1>3, SameElsewhere
  <2>2. \A j \in Slots(map) \ {this} : u.keys[j] = map.keys[j]
    BY <1>3, SameElsewhere
  <2>. QED BY <2>1, <2>2 DEF Occupied
<1>5. OrderOK(u)
  BY <1>1, <1>3, OrderClear
<1>6. Unique(u)
  <2>1. \A i, j \in Occupied(map) \ {this} : map.keys[i] = map.keys[j] => i = j
    BY <1>1 DEF ShiftOK
  <2>. QED BY <1>4, <2>1 DEF Unique
<1>7. Counted(u)
  <2>1. Cardinality(Occupied(u)) = Cardinality(Occupied(map)) + 0 - 1
    BY <1>1, <1>3, OccupiedChange
  <2>2. Cardinality(Occupied(map)) \in Nat
    BY <1>1, OccupiedFinite
  <2>. QED BY <1>1, <1>3, <2>1, <2>2 DEF Counted
<1>8. SomeStop(u)
  BY <1>1, <1>3, <1>4 DEF SomeStop, Stop
<1>. QED BY <1>3, <1>4, <1>5, <1>6, <1>7, <1>8 DEF TableOK

\* The slots where a deletion stops are found from any slot.
LEMMA StopFrom ==
  ASSUME NEW t, RealTable(t), SomeStop(t), NEW s \in Slots(t)
  PROVE  \E j \in 1 .. t.MaxSize : Stop(t, At(t, s, j))
<1>1. t.MaxSize \in Nat /\ t.MaxSize > 1
  BY TableFacts
<1>2. PICK i \in Slots(t) : Stop(t, i)
  BY DEF SomeStop
<1>3. CASE i = s
  <2>1. At(t, s, t.MaxSize) = s /\ t.MaxSize \in 1 .. t.MaxSize
    BY <1>1 DEF At, Slots
  <2>. QED BY <1>2, <1>3, <2>1
<1>4. CASE i # s
  <2>1. Away(t, s, i) \in Slots(t) /\ Away(t, s, i) # 0 /\ At(t, s, Away(t, s, i)) = i
    BY <1>1, <1>4, AwaySlot
  <2>2. Away(t, s, i) \in 1 .. t.MaxSize
    BY <1>1, <2>1 DEF Slots
  <2>. QED BY <1>2, <2>1, <2>2
<1>. QED BY <1>3, <1>4

-----------------------------------------------------------------------------
(* The hash function does not change, and so a fact about the next table is   *)
(* a fact about the table in the next state.                                  *)

\* For the table.
LEMMA NextMap ==
  ASSUME hash' = hash
  PROVE  /\ TableOK(map') => TableOK(map)'
         /\ SomeStop(map') => SomeStop(map)'
         /\ LoopOK(map', call') => LoopOK(map, call)'
         /\ ShiftOK(map', call') => ShiftOK(map, call)'
<1>1. TableOK(map') => TableOK(map)'
  BY DEF TableOK, RealTable, OrderOK, Unique, Counted, Occupied, Slots, Distance, SubMod, Home,
         Mod, Before
<1>2. SomeStop(map') => SomeStop(map)'
  BY DEF SomeStop, Stop, Slots, Home, Mod
<1>3. LoopOK(map', call') => LoopOK(map, call)'
  BY <1>1 DEF LoopOK, GivenOK, Stored, SomeEmpty, SlotOf, KeysIn, At, Away, Before, Occupied,
              Slots, Distance, SubMod, Home, Mod
<1>4. ShiftOK(map', call') => ShiftOK(map, call)'
  BY DEF ShiftOK, RealTable, OrderOK, Counted, Stop, At, Occupied, Slots, Distance, SubMod, Home,
         Mod, Before
<1>. QED BY <1>1, <1>2, <1>3, <1>4

\* For the table resize fills.
LEMMA NextNewTable ==
  ASSUME hash' = hash
  PROVE  /\ TableOK(new_table') => TableOK(new_table)'
         /\ SomeStop(new_table') => SomeStop(new_table)'
         /\ LoopOK(new_table', call') => LoopOK(new_table, call)'
<1>1. TableOK(new_table') => TableOK(new_table)'
  BY DEF TableOK, RealTable, OrderOK, Unique, Counted, Occupied, Slots, Distance, SubMod, Home,
         Mod, Before
<1>2. SomeStop(new_table') => SomeStop(new_table)'
  BY DEF SomeStop, Stop, Slots, Home, Mod
<1>3. LoopOK(new_table', call') => LoopOK(new_table, call)'
  BY <1>1 DEF LoopOK, GivenOK, Stored, SomeEmpty, SlotOf, KeysIn, At, Away, Before, Occupied,
              Slots, Distance, SubMod, Home, Mod
<1>. QED BY <1>1, <1>2, <1>3

-----------------------------------------------------------------------------
(* Every step keeps the invariant.                                            *)

\* Where the running operation is says which part of the invariant holds.
LEMMA Phases ==
  ASSUME Inv
  PROVE  /\ hash \in [Keys -> Hashes] /\ perfect \in BOOLEAN
         /\ perfect => PerfectOK
         /\ call.at # "idle" => ~perfect
         /\ ~perfect => /\ call.at = "idle" => call = Idle /\ QuietOK
                        /\ call.at = "search" => SearchOK
                        /\ call.at = "assign" => \/ call.op = "assign" /\ AssignLoop(map)
                                                 \/ call.op = "resize" /\ ReassignOK
                        /\ call.at = "shift" => ShiftOK(map, call)
                        /\ call.at = "move" => MoveOK
                        /\ call.at = "stored" => StoredOK
<1>1. perfect => call.at = "idle"
  BY DEF Inv, PerfectOK, Idle
<1>2. SearchOK => call.at = "search"
  BY DEF SearchOK
<1>3. \A t : AssignLoop(t) => call.at = "assign"
  BY DEF AssignLoop, LoopOK
<1>4. ReassignOK => AssignLoop(new_table)
  BY DEF ReassignOK
<1>5. ShiftOK(map, call) => call.at = "shift"
  BY DEF ShiftOK
<1>6. MoveOK => call.at = "move"
  BY DEF MoveOK
<1>7. StoredOK => call.at = "stored"
  BY DEF StoredOK
<1>8. call = Idle => call.at = "idle"
  BY DEF Idle
<1>. QED BY <1>1, <1>2, <1>3, <1>4, <1>5, <1>6, <1>7, <1>8 DEF Inv

\* An operation has returned and left the table in order.
LEMMA BackToIdle ==
  ASSUME Inv, ~perfect, UNCHANGED <<hash, perfect>>, call' = Idle,
         TableOK(map'), SomeStop(map')
  PROVE  Inv'
<1>1. TableOK(map)' /\ SomeStop(map)'
  BY NextMap
<1>2. QuietOK' /\ (call = Idle)'
  BY <1>1 DEF QuietOK, Idle
<1>. QED BY <1>2 DEF Inv

\* The loop of assign starts, with an entry that is not in the table.
LEMMA LoopStart ==
  ASSUME NEW t, TableOK(t), t.size # t.MaxSize, hash \in [Keys -> Hashes],
         NEW op \in {"assign", "resize"}, NEW i \in Nat, NEW k \in Keys, NEW v \in Values,
         NEW d, d = Assigning(op, t, i, k, v)
  PROVE  /\ LoopOK(t, d) /\ d.op = op /\ d.at = "assign" /\ d.i = i /\ d.key = k
         /\ d.key_to_add = k /\ d.value = v
<1>1. RealTable(t) /\ t.MaxSize \in Nat /\ t.MaxSize > 1
  BY TableFacts DEF TableOK
<1>2. SomeEmpty(t)
  BY <1>1, OccupiedFinite DEF TableOK, Counted
<1>3. /\ d \in [op : {"assign", "resize"}, at : {"assign"}, i : Nat, key : Keys,
                key_to_add : Keys, given : Values, value : Values,
                offset_i : Slots(t), swap_difference : Int]
      /\ d.op = op /\ d.at = "assign" /\ d.i = i /\ d.key = k
      /\ d.key_to_add = k /\ d.value = v /\ d.given = v /\ d.offset_i = 0
      /\ d.swap_difference = 0
  <2>1. 0 \in Slots(t)
    BY <1>1 DEF Slots
  <2>. QED BY <2>1 DEF Assigning
<1>4. Home(t, k) \in Slots(t)
  BY <1>1, HomeSlot
<1>5. d.swap_difference = Home(t, d.key) - Home(t, d.key_to_add)
  BY <1>3, <1>4 DEF Slots
<1>6. Away(t, Home(t, d.key_to_add), SlotOf(t, d.key, d.offset_i)) = 0
  <2>1. SlotOf(t, k, 0) = Home(t, k)
    BY <1>1, <1>4 DEF SlotOf, At, Slots
  <2>. QED BY <1>1, <1>3, <1>4, <2>1, AwaySlot
<1>7. 0 .. d.offset_i - 1 = {}
  BY <1>3
<1>8. GivenOK(t, d)
  BY <1>3 DEF GivenOK
<1>. QED BY <1>2, <1>3, <1>5, <1>6, <1>7, <1>8 DEF LoopOK

\* AssignCall.
LEMMA AssignCallInv ==
  ASSUME Inv, NEW k \in Keys, NEW v \in Values, AssignCall(k, v)
  PROVE  Inv'
<1>1. ~perfect /\ QuietOK /\ hash \in [Keys -> Hashes] /\ UNCHANGED <<hash, perfect, map>>
  BY Phases DEF AssignCall
<1>2. TableOK(map) /\ map.size # map.MaxSize
  <2>1. map.MaxSize \in Nat /\ map.size \in Int
    BY <1>1, TableFacts DEF QuietOK, TableOK
  <2>. QED BY <1>1, <2>1 DEF AssignCall, QuietOK
<1>3. LoopOK(map, call') /\ call'.op = "assign"
  BY <1>1, <1>2, LoopStart DEF AssignCall
<1>4. LoopOK(map, call)'
  BY <1>1, <1>3, NextMap
<1>. QED BY <1>1, <1>3, <1>4 DEF Inv, AssignLoop

\* What a step of the loop of assign does besides writing the table.
LEMMA NextOffsetIs ==
  ASSUME NEW c, c.offset_i + 1 # Target.MaxSize, NextOffset(c)
  PROVE  call' = [c EXCEPT !.offset_i = @ + 1] /\ reply' = reply
  BY DEF NextOffset

\* AssignSwap writes the entry in hand and goes on with the one it met.
LEMMA AssignSwapDoes ==
  ASSUME hash \in [Keys -> Hashes], AssignLoop(Target), AssignSwap
  PROVE  Becomes(Exchanged(Target)) /\ call' = Onward(Target) /\ reply' = reply
<1>1. Target.keys[AssignSlot] \notin {NoKey, call.key_to_add} /\ Farther(Target, AssignSlot)
  BY DEF AssignSwap, AssignTaken
<1>2. call.offset_i + 1 # Target.MaxSize
  BY <1>1, AssignSwapStep
<1>3. call \in [op : {"assign", "resize"}, at : {"assign"}, i : Nat, key : Keys,
                key_to_add : Keys, given : Values, value : Values,
                offset_i : Slots(Target),
                swap_difference : Int]
  BY DEF AssignLoop, LoopOK
<1>4. Swapped(Target).offset_i = call.offset_i
  BY <1>3 DEF Swapped
<1>5. Becomes(Exchanged(Target)) /\ NextOffset(Swapped(Target))
  BY DEF AssignSwap, Exchanged, Swapped
<1>6. call' = [Swapped(Target) EXCEPT !.offset_i = @ + 1] /\ reply' = reply
  BY <1>2, <1>4, <1>5, NextOffsetIs
<1>. QED BY <1>4, <1>5, <1>6 DEF Onward

\* AssignPass goes on with the same entry.
LEMMA AssignPassDoes ==
  ASSUME hash \in [Keys -> Hashes], AssignLoop(Target), AssignPass
  PROVE  /\ call' = [call EXCEPT !.offset_i = @ + 1] /\ UNCHANGED <<map, new_table, reply>>
         /\ LoopOK(Target, call')
         /\ call'.op = call.op /\ call'.i = call.i /\ call'.key = call.key
         /\ call'.at = call.at /\ call'.key_to_add = call.key_to_add /\ call'.value = call.value
<1>. DEFINE d == [call EXCEPT !.offset_i = @ + 1]
<1>1. Target.keys[AssignSlot] \notin {NoKey, call.key_to_add} /\ ~Farther(Target, AssignSlot)
  BY DEF AssignPass, AssignTaken
<1>2. /\ call.offset_i + 1 # Target.MaxSize /\ LoopOK(Target, d)
      /\ d.op = call.op /\ d.at = call.at /\ d.i = call.i /\ d.key = call.key
      /\ d.key_to_add = call.key_to_add /\ d.value = call.value
  BY <1>1, AssignPassStep
<1>3. call' = d /\ reply' = reply
  BY <1>2, NextOffsetIs DEF AssignPass
<1>. QED BY <1>2, <1>3 DEF AssignPass

\* The loop of assign, for a caller.
LEMMA AssignInv ==
  ASSUME Inv, call.op = "assign", AssignLoop(map),
         AssignEmpty \/ AssignSame \/ AssignSwap \/ AssignPass
  PROVE  Inv'
<1>1. /\ Target = map /\ ~perfect /\ hash \in [Keys -> Hashes] /\ UNCHANGED <<hash, perfect>>
      /\ AssignLoop(Target)
  <2>1. call.at # "idle"
    BY DEF AssignLoop, LoopOK
  <2>. QED BY <2>1, Phases DEF Target, AssignEmpty, AssignSame, AssignSwap, AssignPass
<1>2. CASE AssignEmpty
  <2>1. map' = Filled(map) /\ call' = Idle /\ map.keys[AssignSlot] = NoKey
    <3>1. Becomes(Filled(map)) /\ map.keys[AssignSlot] = NoKey
      <4>1. [Put(map, AssignSlot, call.key_to_add, call.value) EXCEPT !.size = @ + 1]
              = Filled(map)
        BY DEF Filled, Put
      <4>. QED BY <1>1, <1>2, <4>1 DEF AssignEmpty
    <3>. QED BY <1>2, <3>1 DEF AssignEmpty, Becomes, AssignReturns, Returns
  <2>2. TableOK(map') /\ SomeStop(map')
    BY <1>1, <2>1, AssignEmptyStep
  <2>. QED BY <1>1, <2>1, <2>2, BackToIdle
<1>3. CASE AssignSame
  <2>1. /\ map' = [map EXCEPT !.map_values[AssignSlot] = call.value]
        /\ call' = Idle /\ map.keys[AssignSlot] = call.key_to_add
    BY <1>1, <1>3 DEF AssignSame, Becomes, AssignReturns, Returns
  <2>2. TableOK(map') /\ SomeStop(map')
    BY <1>1, <2>1, AssignSameStep
  <2>. QED BY <1>1, <2>1, <2>2, BackToIdle
<1>4. CASE AssignSwap
  <2>1. map' = Exchanged(map) /\ call' = Onward(map)
    BY <1>1, <1>4, AssignSwapDoes DEF Becomes
  <2>2. LoopOK(map', call') /\ call'.op = "assign"
    BY <1>1, <1>4, <2>1, AssignSwapStep DEF AssignSwap, AssignTaken
  <2>3. LoopOK(map, call)'
    BY <1>1, <2>2, NextMap
  <2>. QED BY <1>1, <2>2, <2>3 DEF Inv, AssignLoop
<1>5. CASE AssignPass
  <2>1. map' = map /\ LoopOK(map, call') /\ call'.op = "assign"
    BY <1>1, <1>5, AssignPassDoes
  <2>2. LoopOK(map, call)'
    BY <1>1, <2>1, NextMap
  <2>. QED BY <1>1, <2>1, <2>2 DEF Inv, AssignLoop
<1>. QED BY <1>2, <1>3, <1>4, <1>5

\* Search.
LEMMA SearchInv ==
  ASSUME Inv, NEW op \in {"read", "erase", "pop"}, NEW k \in Keys, Search(op, k)
  PROVE  Inv'
<1>1. ~perfect /\ QuietOK /\ hash \in [Keys -> Hashes] /\ UNCHANGED <<hash, perfect, map>>
  BY Phases DEF Search
<1>2. QuietOK'
  BY <1>1, NextMap DEF QuietOK
<1>3. 0 \in Slots(map')
  BY <1>1, TableFacts DEF QuietOK, TableOK, Slots
<1>4. /\ call' \in [op : {"read", "erase", "pop"}, at : {"search"}, key : Keys,
                    offset_i : Slots(map')]
      /\ call'.offset_i = 0
  BY <1>3 DEF Search
<1>5. 0 .. call'.offset_i - 1 = {}
  BY <1>4
<1>6. SearchOK'
  BY <1>2, <1>4, <1>5 DEF SearchOK, Slots
<1>. QED BY <1>1, <1>6 DEF Inv

\* The slot a search looks at.
LEMMA SearchFacts ==
  ASSUME hash \in [Keys -> Hashes], SearchOK
  PROVE  /\ RealTable(map) /\ map.MaxSize \in Nat /\ map.MaxSize > 1 /\ TableOK(map)
         /\ SomeStop(map) /\ OrderOK(map) /\ Unique(map)
         /\ call.key \in Keys /\ call.offset_i \in Slots(map) /\ call.offset_i \in Nat
         /\ call.op \in {"read", "erase", "pop"} /\ call.at = "search"
         /\ Home(map, call.key) \in Slots(map)
         /\ SearchSlot = SlotOf(map, call.key, call.offset_i) /\ SearchSlot \in Slots(map)
         /\ SubMod(map, SearchSlot - Home(map, call.key)) = call.offset_i
         /\ \A j \in 0 .. call.offset_i - 1 : map.keys[SlotOf(map, call.key, j)] # call.key
<1>1. /\ TableOK(map) /\ SomeStop(map) /\ RealTable(map) /\ OrderOK(map) /\ Unique(map)
      /\ call.key \in Keys /\ call.offset_i \in Slots(map)
      /\ call.op \in {"read", "erase", "pop"} /\ call.at = "search"
      /\ \A j \in 0 .. call.offset_i - 1 : map.keys[SlotOf(map, call.key, j)] # call.key
  BY DEF SearchOK, QuietOK, TableOK
<1>2. map.MaxSize \in Nat /\ map.MaxSize > 1 /\ Home(map, call.key) \in Slots(map)
  BY <1>1, TableFacts, HomeSlot
<1>3. call.offset_i \in Nat /\ call.offset_i <= map.MaxSize
  BY <1>1, <1>2 DEF Slots
<1>4. SearchSlot = SlotOf(map, call.key, call.offset_i) /\ SearchSlot \in Slots(map)
  BY <1>2, <1>3, AtSlot DEF SearchSlot, SlotOf
<1>5. SubMod(map, SearchSlot - Home(map, call.key)) = call.offset_i
  <2>1. SubMod(map, SearchSlot - Home(map, call.key)) = Away(map, Home(map, call.key), SearchSlot)
    BY <1>2, <1>4, AwaySlot
  <2>2. Away(map, Home(map, call.key), SearchSlot) = call.offset_i
    BY <1>1, <1>2, <1>4, AwayAt DEF SlotOf
  <2>. QED BY <2>1, <2>2
<1>. QED BY <1>1, <1>2, <1>3, <1>4, <1>5

\* ReadStop, ReadFound.
LEMMA ReadInv ==
  ASSUME Inv, ReadStop \/ ReadFound
  PROVE  Inv'
<1>1. ~perfect /\ SearchOK /\ UNCHANGED <<hash, perfect, map>> /\ call' = Idle
  <2>1. call.at = "search" /\ UNCHANGED <<hash, perfect, map>> /\ call' = Idle
    BY DEF ReadStop, ReadFound, Returns
  <2>. QED BY <2>1, Phases
<1>2. TableOK(map') /\ SomeStop(map')
  BY <1>1 DEF SearchOK, QuietOK
<1>. QED BY <1>1, <1>2, BackToIdle

\* SearchPass.
LEMMA SearchPassInv ==
  ASSUME Inv, SearchPass
  PROVE  Inv'
<1>1. /\ ~perfect /\ SearchOK /\ hash \in [Keys -> Hashes]
      /\ UNCHANGED <<hash, perfect, map, new_table>>
  BY Phases DEF SearchPass
<1>2. CASE call.offset_i + 1 = map.MaxSize
  <2>1. call' = Idle
    BY <1>2 DEF SearchPass, SearchNext, Returns
  <2>2. TableOK(map') /\ SomeStop(map')
    BY <1>1 DEF SearchOK, QuietOK
  <2>. QED BY <1>1, <2>1, <2>2, BackToIdle
<1>3. CASE call.offset_i + 1 # map.MaxSize
  <2>. DEFINE o == call.offset_i
  <2>1. call' = [call EXCEPT !.offset_i = @ + 1]
    BY <1>3 DEF SearchPass, SearchNext
  <2>2. /\ call \in [op : {"read", "erase", "pop"}, at : {"search"}, key : Keys,
                     offset_i : Slots(map)]
        /\ map.MaxSize \in Nat /\ o \in Nat
        /\ \A j \in 0 .. o - 1 : map.keys[SlotOf(map, call.key, j)] # call.key
        /\ map.keys[SlotOf(map, call.key, o)] # call.key
    BY <1>1, SearchFacts DEF SearchOK, SearchPass, SearchKey
  <2>3. o + 1 \in Slots(map)
    BY <1>3, <2>2 DEF Slots
  <2>4. /\ call' \in [op : {"read", "erase", "pop"}, at : {"search"}, key : Keys,
                      offset_i : Slots(map)]
        /\ call'.offset_i = o + 1 /\ call'.key = call.key
    BY <2>1, <2>2, <2>3
  <2>5. \A j \in 0 .. call'.offset_i - 1 : map.keys[SlotOf(map, call.key, j)] # call.key
    <3>1. \A j \in 0 .. call'.offset_i - 1 : j \in 0 .. o - 1 \/ j = o
      BY <2>2, <2>4
    <3>. QED BY <2>2, <3>1
  <2>6. QuietOK'
    BY <1>1, NextMap DEF QuietOK, SearchOK
  <2>7. Slots(map)' = Slots(map) /\ \A k, j : SlotOf(map, k, j)' = SlotOf(map, k, j)
    BY <1>1 DEF Slots, SlotOf, At, Home, Mod
  <2>8. SearchOK'
    BY <1>1, <2>4, <2>5, <2>6, <2>7 DEF SearchOK
  <2>. QED BY <1>1, <2>8 DEF Inv
<1>. QED BY <1>2, <1>3

\* EraseFound.
LEMMA EraseFoundInv ==
  ASSUME Inv, EraseFound
  PROVE  Inv'
<1>. DEFINE s == SearchSlot
<1>1. /\ ~perfect /\ SearchOK /\ hash \in [Keys -> Hashes]
      /\ UNCHANGED <<hash, perfect, map, new_table>>
  BY Phases DEF EraseFound
<1>2. /\ RealTable(map) /\ map.MaxSize \in Nat /\ map.MaxSize > 1 /\ TableOK(map)
      /\ SomeStop(map) /\ Unique(map)
      /\ call.key \in Keys /\ call.op \in {"erase", "pop"} /\ s \in Slots(map)
      /\ map.keys[s] = call.key
  BY <1>1, SearchFacts DEF EraseFound, SearchKey
<1>3. s \in Occupied(map) /\ map.map_values[s] \in Values
  <2>1. s \in Occupied(map)
    BY <1>2, HashesAssumption DEF Occupied
  <2>. QED BY <1>2, <2>1, TableFacts
<1>4. /\ call' \in [op : {"erase", "pop"}, at : {"shift"}, key : Keys, value : Values,
                    slot : Slots(map), offset_i : 1 .. map.MaxSize]
      /\ call'.slot = s /\ call'.offset_i = 1 /\ call'.key = call.key
      /\ call'.value = map.map_values[s]
  <2>1. 1 \in 1 .. map.MaxSize
    BY <1>2
  <2>. QED BY <1>2, <1>3, <2>1 DEF EraseFound
<1>5. At(map, s, 1 - 1) = s
  BY <1>2 DEF At, Slots
<1>6. \E j \in 1 .. map.MaxSize : Stop(map, At(map, s, j))
  BY <1>2, StopFrom
<1>7. \A i, j \in Occupied(map) \ {s} : map.keys[i] = map.keys[j] => i = j
  BY <1>2 DEF Unique
<1>8. \A i \in Occupied(map) \ {s} : map.keys[i] # call.key
  BY <1>2, <1>3 DEF Unique
<1>9. ShiftOK(map, call')
  BY <1>2, <1>3, <1>4, <1>5, <1>6, <1>7, <1>8 DEF ShiftOK, TableOK
<1>10. ShiftOK(map, call)'
  BY <1>1, <1>9, NextMap
<1>. QED BY <1>1, <1>10 DEF Inv

\* What the loop of erase does: there is always a slot where it stops.
LEMMA EraseDoes ==
  ASSUME hash \in [Keys -> Hashes], ShiftOK(map, call)
  PROVE  /\ EraseShift => Shifts /\ map' = Moved /\ call' = Further
         /\ EraseEnd => ~Shifts /\ map' = Vacated /\ call' = Idle
<1>1. call.offset_i <= map.MaxSize
  BY ShiftFacts
<1>2. EraseShift => Shifts /\ map' = Moved /\ call' = Further
  BY DEF EraseShift, Moved, Further
<1>3. ASSUME EraseEnd PROVE ~Shifts /\ map' = Vacated /\ call' = Idle
  <2>1. ~Shifts /\ call' = Idle
    BY <1>1, <1>3 DEF EraseEnd, Returns
  <2>2. map' = [map EXCEPT !.keys[ThisSlot] = NoKey, !.size = @ - 1]
    BY <1>1, <1>3 DEF EraseEnd
  <2>3. map' = Vacated
    BY <2>2 DEF Vacated, ClearedTo
  <2>. QED BY <2>1, <2>3
<1>. QED BY <1>2, <1>3

\* EraseShift, EraseEnd.
LEMMA EraseInv ==
  ASSUME Inv, EraseShift \/ EraseEnd
  PROVE  Inv'
<1>1. /\ ~perfect /\ ShiftOK(map, call) /\ hash \in [Keys -> Hashes]
      /\ UNCHANGED <<hash, perfect, new_table>>
  BY Phases DEF EraseShift, EraseEnd
<1>2. CASE EraseShift
  <2>1. ShiftOK(map', call')
    BY <1>1, <1>2, EraseDoes, EraseShiftStep
  <2>2. ShiftOK(map, call)'
    BY <1>1, <2>1, NextMap
  <2>. QED BY <1>1, <2>2 DEF Inv
<1>3. CASE EraseEnd
  <2>1. call' = Idle /\ TableOK(map') /\ SomeStop(map')
    BY <1>1, <1>3, EraseDoes, EraseEndStep
  <2>. QED BY <1>1, <2>1, BackToIdle
<1>. QED BY <1>2, <1>3

\* AssignFull, ResizeRefused.
LEMMA RefusedInv ==
  ASSUME Inv, NEW k, AssignFull(k) \/ ResizeRefused(k)
  PROVE  Inv'
<1>1. /\ ~perfect /\ QuietOK /\ call' = Idle /\ UNCHANGED <<hash, perfect, map>>
  BY Phases DEF AssignFull, ResizeRefused, Returns
<1>. QED BY <1>1, BackToIdle DEF QuietOK

\* AssignPh keeps every entry at home.
LEMMA PerfectInv ==
  ASSUME Inv, NEW k \in Keys, NEW v \in Values,
         AssignPh(k, v)
  PROVE  Inv'
<1>1. /\ perfect /\ PerfectOK /\ hash \in [Keys -> Hashes] /\ call' = Idle
      /\ UNCHANGED <<hash, perfect, new_table>>
  BY Phases DEF AssignPh, Returns
<1>2. RealTable(map) /\ \A i \in Occupied(map) : Home(map, map.keys[i]) = i
  BY <1>1 DEF PerfectOK
<1>3. RealTable(map') /\ \A i \in Occupied(map') : Home(map', map'.keys[i]) = i
  <2>. DEFINE h == Home(map, k)
  <2>1. h \in Slots(map) /\ 0 \in Int
    BY <1>1, <1>2, HomeSlot
  <2>2. map' = Put(map, h, k, v)
    BY DEF AssignPh
  <2>3. SameBut(map', map, h) /\ map'.keys[h] = k
    BY <1>2, <2>1, <2>2, Written
  <2>4. /\ RealTable(map') /\ Occupied(map') \ {h} = Occupied(map) \ {h}
        /\ \A j \in Slots(map) \ {h} : map'.keys[j] = map.keys[j]
        /\ \A x : Home(map', x) = Home(map, x)
    BY <2>3, SameElsewhere
  <2>5. ASSUME NEW i \in Occupied(map') PROVE Home(map', map'.keys[i]) = i
    <3>1. CASE i = h
      BY <2>3, <2>4, <3>1
    <3>2. CASE i # h
      <4>1. i \in Occupied(map) /\ i \in Slots(map) \ {h}
        BY <2>4, <3>2 DEF Occupied
      <4>. QED BY <1>2, <2>4, <4>1
    <3>. QED BY <3>1, <3>2
  <2>. QED BY <2>4, <2>5
<1>4. PerfectOK'
  BY <1>1, <1>3 DEF PerfectOK, RealTable, Occupied, Slots, Home, Mod, Idle
<1>. QED BY <1>1, <1>4 DEF Inv

\* ResizeCall.
LEMMA ResizeCallInv ==
  ASSUME Inv, NEW n \in Sizes, ResizeCall(n)
  PROVE  Inv'
<1>1. /\ ~perfect /\ QuietOK /\ hash \in [Keys -> Hashes] /\ UNCHANGED <<hash, perfect, map>>
      /\ new_table' = New(n) /\ ~TooSmall(n)
      /\ call' = [op |-> "resize", at |-> "move", i |-> 0]
  BY Phases DEF ResizeCall
<1>2. /\ RealTable(map) /\ Unique(map) /\ map.size = Cardinality(Occupied(map))
      /\ map.size \in Nat /\ map.MaxSize \in Nat /\ n \in Nat
  BY <1>1, TableFacts, OccupiedFinite, SizesAssumption DEF QuietOK, TableOK, Counted
<1>3. /\ TableOK(new_table') /\ SomeStop(new_table') /\ KeysIn(new_table') = {}
      /\ new_table'.MaxSize = n /\ new_table'.size = 0
  BY <1>1, NewTable
<1>4. map.size <= n
  BY <1>1, <1>2 DEF TooSmall
<1>5. TableOK(new_table)' /\ SomeStop(new_table)'
  BY <1>1, <1>3, NextNewTable
<1>6. MovingOK'
  <2>1. 0 \in 0 .. map.MaxSize /\ 0 .. 0 - 1 = {} /\ call'.i = 0
    BY <1>1, <1>2
  <2>. QED BY <1>1, <1>2, <1>3, <1>4, <2>1 DEF MovingOK, RealTable, Unique, Occupied, Slots
<1>7. Disjoint(KeysIn(map), KeysIn(new_table))'
  <2>1. KeysIn(new_table)' = {}
    BY <1>3 DEF KeysIn, Occupied, Slots
  <2>. QED BY <2>1 DEF Disjoint
<1>8. (map.size = Cardinality(Occupied(map)) + new_table.size)'
  <2>1. Occupied(map)' = Occupied(map)
    BY <1>1 DEF Occupied, Slots
  <2>. QED BY <1>1, <1>2, <1>3, <2>1
<1>9. call' \in [op : {"resize"}, at : {"move"}, i : Nat]
  BY <1>1
<1>. QED BY <1>1, <1>5, <1>6, <1>7, <1>8, <1>9 DEF Inv, MoveOK

\* The entry resize looks at.
LEMMA MoveFacts ==
  ASSUME MoveOK, call.i < map.MaxSize
  PROVE  /\ RealTable(map) /\ Unique(map) /\ call.i \in Nat /\ map.MaxSize \in Nat
         /\ call.i \in Slots(map) /\ call.i + 1 \in 0 .. map.MaxSize
         /\ call.i \in Occupied(map) <=> map.keys[call.i] # NoKey
         /\ \A j \in 0 .. (call.i + 1) - 1 : j \in 0 .. call.i - 1 \/ j = call.i
<1>1. RealTable(map) /\ Unique(map) /\ call.i \in 0 .. map.MaxSize /\ map.MaxSize \in Nat
  BY TableFacts DEF MoveOK, MovingOK
<1>2. call.i \in Slots(map) /\ call.i + 1 \in 0 .. map.MaxSize
  BY <1>1 DEF Slots
<1>3. call.i \in Occupied(map) <=> map.keys[call.i] # NoKey
  BY <1>2 DEF Occupied
<1>. QED BY <1>1, <1>2, <1>3

\* ResizeSkip.
LEMMA ResizeSkipInv ==
  ASSUME Inv, ResizeSkip
  PROVE  Inv'
<1>1. /\ ~perfect /\ MoveOK /\ hash \in [Keys -> Hashes] /\ call.i < map.MaxSize
      /\ UNCHANGED <<hash, perfect, map, new_table>> /\ map.keys[call.i] = NoKey
      /\ call' = [call EXCEPT !.i = @ + 1]
  BY Phases DEF ResizeSkip
<1>2. /\ call.i + 1 \in 0 .. map.MaxSize /\ call.i \in Nat
      /\ \A j \in 0 .. (call.i + 1) - 1 : j \in 0 .. call.i - 1 \/ j = call.i
  BY <1>1, MoveFacts
<1>3. call \in [op : {"resize"}, at : {"move"}, i : Nat]
  BY <1>1 DEF MoveOK
<1>4. call' \in [op : {"resize"}, at : {"move"}, i : Nat] /\ call'.i = call.i + 1
  BY <1>1, <1>2, <1>3
<1>5. TableOK(new_table)' /\ SomeStop(new_table)'
  BY <1>1, NextNewTable DEF MoveOK
<1>6. Occupied(map)' = Occupied(map) /\ KeysIn(map)' = KeysIn(map)
  BY <1>1 DEF KeysIn, Occupied, Slots
<1>7. KeysIn(new_table)' = KeysIn(new_table)
  BY <1>1 DEF KeysIn, Occupied, Slots
<1>8. RealTable(map)' /\ Unique(map)'
  BY <1>1, <1>6 DEF MoveOK, MovingOK, RealTable, Unique, Slots
<1>9. (\A j \in 0 .. call.i - 1 : map.keys[j] = NoKey)'
  <2>1. \A j \in 0 .. call.i - 1 : map.keys[j] = NoKey
    BY <1>1 DEF MoveOK, MovingOK
  <2>2. \A j \in 0 .. (call.i + 1) - 1 : map.keys[j] = NoKey
    BY <1>1, <1>2, <2>1
  <2>. QED BY <1>1, <1>4, <2>2
<1>10. MovingOK'
  BY <1>1, <1>2, <1>4, <1>8, <1>9 DEF MoveOK, MovingOK
<1>11. MoveOK'
  BY <1>1, <1>4, <1>5, <1>6, <1>7, <1>10 DEF MoveOK
<1>. QED BY <1>1, <1>11 DEF Inv

\* ResizeMove: the new table has room for the entry.
LEMMA ResizeMoveDoes ==
  ASSUME hash \in [Keys -> Hashes], MoveOK, ResizeMove
  PROVE  /\ LoopOK(new_table, call') /\ call'.op = "resize" /\ call'.at = "assign"
         /\ call'.i = call.i /\ call'.key = map.keys[call.i]
         /\ call'.key_to_add = map.keys[call.i] /\ call'.value = map.map_values[call.i]
         /\ call.i \in Occupied(map)
<1>1. call.i < map.MaxSize /\ map.keys[call.i] # NoKey
  BY DEF ResizeMove
<1>2. call.i \in Occupied(map) /\ RealTable(map) /\ call.i \in Nat
  BY <1>1, MoveFacts
<1>3. map.keys[call.i] \in Keys /\ map.map_values[call.i] \in Values
  BY <1>2, TableFacts
<1>4. TableOK(new_table) /\ new_table.size # new_table.MaxSize
  <2>1. /\ TableOK(new_table) /\ map.size <= new_table.MaxSize
        /\ map.size = Cardinality(Occupied(map)) + new_table.size
    BY DEF MoveOK, MovingOK
  <2>2. Cardinality(Occupied(map)) \in Nat /\ Cardinality(Occupied(map)) # 0
    BY <1>2, OccupiedFinite, FS_EmptySet
  <2>3. new_table.MaxSize \in Nat /\ new_table.size \in Int
    BY <2>1, TableFacts DEF TableOK
  <2>. QED BY <2>1, <2>2, <2>3
<1>5. call' = Assigning("resize", new_table, call.i, map.keys[call.i], map.map_values[call.i])
  BY DEF ResizeMove
<1>. QED BY <1>2, <1>3, <1>4, <1>5, LoopStart

\* ResizeMove.
LEMMA ResizeMoveInv ==
  ASSUME Inv, ResizeMove
  PROVE  Inv'
<1>1. /\ ~perfect /\ MoveOK /\ hash \in [Keys -> Hashes] /\ call.i < map.MaxSize
      /\ UNCHANGED <<hash, perfect, map, new_table>>
  BY Phases DEF ResizeMove
<1>. DEFINE k == map.keys[call.i]
<1>2. /\ LoopOK(new_table, call') /\ call'.op = "resize" /\ call'.at = "assign"
      /\ call'.i = call.i /\ call'.key = k
      /\ call'.key_to_add = k /\ call'.value = map.map_values[call.i]
      /\ call.i \in Occupied(map)
  BY <1>1, ResizeMoveDoes
<1>3. AssignLoop(new_table)'
  BY <1>1, <1>2, NextNewTable DEF AssignLoop
<1>4. Occupied(map)' = Occupied(map) /\ KeysIn(map)' = KeysIn(map)
  BY <1>1 DEF KeysIn, Occupied, Slots
<1>5. KeysIn(new_table)' = KeysIn(new_table)
  BY <1>1 DEF KeysIn, Occupied, Slots
<1>6. MovingOK'
  <2>1. RealTable(map)' /\ Unique(map)'
    BY <1>1, <1>4 DEF MoveOK, MovingOK, RealTable, Unique, Slots
  <2>. QED BY <1>1, <1>2, <2>1 DEF MoveOK, MovingOK
<1>7. OnTheWay'
  BY <1>1, <1>2, <1>4, <1>6 DEF OnTheWay
<1>8. k \in KeysIn(map) /\ Disjoint(KeysIn(map), KeysIn(new_table))
  BY <1>1, <1>2 DEF KeysIn, MoveOK
<1>9. /\ Disjoint(KeysIn(map) \ {call.key}, KeysIn(new_table) \union {call.key_to_add})'
      /\ (call.key \notin KeysIn(new_table))'
  BY <1>2, <1>4, <1>5, <1>8 DEF Disjoint
<1>10. (<<call.key, map.map_values[call.i]>> \in Stored(new_table) \union InHand)'
  BY <1>1, <1>2 DEF InHand
<1>11. (map.size = Cardinality(Occupied(map)) + new_table.size)'
  BY <1>1, <1>4 DEF MoveOK
<1>12. ReassignOK'
  BY <1>3, <1>7, <1>9, <1>10, <1>11 DEF ReassignOK
<1>. QED BY <1>1, <1>2, <1>12 DEF Inv

\* What the loop of assign does not touch when it moves an entry.
LEMMA StaysOnTheWay ==
  ASSUME OnTheWay, map' = map, call'.i = call.i, call'.key = call.key,
         new_table'.MaxSize = new_table.MaxSize
  PROVE  /\ OnTheWay' /\ Occupied(map)' = Occupied(map)
         /\ KeysIn(map)' = KeysIn(map)
<1>1. Occupied(map)' = Occupied(map) /\ KeysIn(map)' = KeysIn(map)
  BY DEF KeysIn, Occupied, Slots
<1>2. RealTable(map)' /\ Unique(map)'
  BY <1>1 DEF OnTheWay, MovingOK, RealTable, Unique, Slots
<1>. QED BY <1>1, <1>2 DEF OnTheWay, MovingOK

\* The loop of assign, for resize.
LEMMA ReassignInv ==
  ASSUME Inv, call.op = "resize", ReassignOK,
         AssignEmpty \/ AssignSame \/ AssignSwap \/ AssignPass
  PROVE  Inv'
<1>. DEFINE pair == <<call.key, map.map_values[call.i]>>
            hand == <<call.key_to_add, call.value>>
            here == AssignSlot
<1>1. /\ Target = new_table /\ ~perfect /\ hash \in [Keys -> Hashes]
      /\ UNCHANGED <<hash, perfect>> /\ AssignLoop(Target) /\ AssignLoop(new_table)
      /\ call.at = "assign"
  <2>1. AssignLoop(new_table) /\ call.at = "assign"
    BY DEF ReassignOK, AssignLoop, LoopOK
  <2>. QED BY <2>1, Phases DEF Target, AssignEmpty, AssignSame, AssignSwap, AssignPass
<1>2. /\ OnTheWay /\ map.size = Cardinality(Occupied(map)) + new_table.size
      /\ Disjoint(KeysIn(map) \ {call.key}, KeysIn(new_table) \union {call.key_to_add})
      /\ call.key_to_add = call.key => call.key \notin KeysIn(new_table)
      /\ pair \in Stored(new_table) \union {hand}
  BY <1>1 DEF ReassignOK, InHand
<1>3. new_table.size \in Int /\ Cardinality(Occupied(map)) \in Nat
  <2>1. RealTable(map) /\ RealTable(new_table)
    BY <1>1, <1>2 DEF OnTheWay, MovingOK, AssignLoop, LoopOK, TableOK
  <2>. QED BY <2>1, TableFacts, OccupiedFinite
<1>4. CASE AssignEmpty
  <2>1. /\ new_table' = Filled(new_table) /\ map' = map /\ new_table.keys[here] = NoKey
        /\ call' = [call EXCEPT !.at = "stored"]
    <3>1. [Put(new_table, here, call.key_to_add, call.value) EXCEPT !.size = @ + 1]
            = Filled(new_table)
      BY DEF Filled, Put
    <3>2. Becomes(Filled(new_table)) /\ new_table.keys[here] = NoKey
      BY <1>1, <1>4, <3>1 DEF AssignEmpty
    <3>. QED BY <1>1, <1>4, <3>2 DEF AssignEmpty, Becomes, AssignReturns
  <2>2. /\ SameBut(new_table', new_table, here)
        /\ here \notin Occupied(new_table) /\ here \in Occupied(new_table')
        /\ Pair(new_table', here) = hand /\ new_table'.keys[here] = call.key_to_add
        /\ new_table'.size = new_table.size + 1
        /\ TableOK(new_table') /\ SomeStop(new_table')
    BY <1>1, <2>1, AssignEmptyStep DEF Pair
  <2>3. /\ new_table'.MaxSize = new_table.MaxSize
        /\ Stored(new_table') = Stored(new_table) \union {hand}
        /\ KeysIn(new_table') = KeysIn(new_table) \union {call.key_to_add}
    BY <2>2, SameElsewhere, StoredChange
  <2>4. /\ call \in [op : {"assign", "resize"}, at : {"assign"}, i : Nat, key : Keys,
                     key_to_add : Keys, given : Values, value : Values,
                     offset_i : Slots(new_table),
                     swap_difference : Int]
        /\ Slots(new_table) \subseteq Nat
    <3>1. new_table.MaxSize \in Nat
      BY <1>1, LoopFacts
    <3>. QED BY <1>1, <3>1 DEF AssignLoop, LoopOK, Slots
  <2>5. /\ call' \in [op : {"resize"}, at : {"stored"}, i : Nat, key : Keys, key_to_add : Keys,
                      given : Values, value : Values, offset_i : Nat, swap_difference : Int]
        /\ call'.i = call.i /\ call'.key = call.key
    BY <2>1, <2>4
  <2>6. TableOK(new_table)' /\ SomeStop(new_table)'
    BY <1>1, <2>2, NextNewTable
  <2>7. /\ OnTheWay' /\ Occupied(map)' = Occupied(map) /\ KeysIn(map)' = KeysIn(map)
    BY <1>2, <2>1, <2>3, <2>5, StaysOnTheWay
  <2>8. KeysIn(new_table)' = KeysIn(new_table') /\ Stored(new_table)' = Stored(new_table')
    BY DEF KeysIn, Occupied, Slots, Stored
  <2>9. Disjoint(KeysIn(map) \ {call.key}, KeysIn(new_table))'
    BY <1>2, <2>3, <2>5, <2>7, <2>8 DEF Disjoint
  <2>10. (<<call.key, map.map_values[call.i]>> \in Stored(new_table))'
    BY <1>2, <2>1, <2>3, <2>5, <2>8
  <2>11. (map.size + 1 = Cardinality(Occupied(map)) + new_table.size)'
    BY <1>2, <1>3, <2>1, <2>2, <2>7
  <2>12. StoredOK'
    BY <2>5, <2>6, <2>7, <2>9, <2>10, <2>11 DEF StoredOK
  <2>. QED BY <1>1, <2>12 DEF Inv
<1>5. CASE AssignSame
  <2>1. new_table.keys[here] = call.key_to_add
    BY <1>1, <1>5 DEF AssignSame
  <2>2. here \in Occupied(new_table) /\ call.key_to_add = call.key
    BY <1>1, <2>1, AssignSameStep
  <2>. QED BY <1>2, <2>1, <2>2 DEF KeysIn
<1>6. CASE AssignSwap
  <2>. DEFINE met == new_table.keys[here]
  <2>1. /\ new_table' = Exchanged(new_table) /\ map' = map /\ call' = Onward(new_table)
        /\ met \notin {NoKey, call.key_to_add} /\ Farther(new_table, here)
    BY <1>1, <1>6, AssignSwapDoes DEF Becomes, AssignSwap, AssignTaken
  <2>2. /\ LoopOK(new_table', call') /\ call'.op = "resize" /\ call'.at = "assign"
        /\ call'.i = call.i /\ call'.key = call.key
        /\ call'.key_to_add = met /\ <<call'.key_to_add, call'.value>> = Pair(new_table, here)
        /\ SameBut(new_table', new_table, here) /\ here \in Occupied(new_table')
        /\ here \in Occupied(new_table) /\ new_table'.size = new_table.size
        /\ Pair(new_table', here) = hand /\ new_table'.keys[here] = call.key_to_add
        /\ call'.key_to_add # call'.key
    BY <1>1, <2>1, AssignSwapStep DEF Pair
  <2>3. /\ new_table'.MaxSize = new_table.MaxSize
        /\ Stored(new_table') \union {Pair(new_table, here)} = Stored(new_table) \union {hand}
        /\ KeysIn(new_table') \union {met} = KeysIn(new_table) \union {call.key_to_add}
    BY <2>2, SameElsewhere, StoredChange
  <2>4. AssignLoop(new_table)'
    BY <1>1, <2>2, NextNewTable DEF AssignLoop
  <2>5. /\ OnTheWay' /\ Occupied(map)' = Occupied(map) /\ KeysIn(map)' = KeysIn(map)
    BY <1>2, <2>1, <2>2, <2>3, StaysOnTheWay
  <2>6. KeysIn(new_table)' = KeysIn(new_table') /\ Stored(new_table)' = Stored(new_table')
    BY DEF KeysIn, Occupied, Slots, Stored
  <2>7. Disjoint(KeysIn(map) \ {call.key}, KeysIn(new_table) \union {call.key_to_add})'
    <3>1. (KeysIn(new_table) \union {call.key_to_add})' = KeysIn(new_table) \union {call.key_to_add}
      BY <2>2, <2>3, <2>6
    <3>2. (KeysIn(map) \ {call.key})' = KeysIn(map) \ {call.key}
      BY <2>2, <2>5
    <3>. QED BY <1>2, <3>1, <3>2 DEF Disjoint
  <2>8. (<<call.key, map.map_values[call.i]>> \in Stored(new_table) \union InHand)'
    <3>1. InHand' = {Pair(new_table, here)}
      BY <2>2 DEF InHand
    <3>2. (Stored(new_table) \union InHand)' = Stored(new_table) \union {hand}
      BY <2>3, <2>6, <3>1
    <3>3. (<<call.key, map.map_values[call.i]>>)' = pair
      BY <2>1, <2>2
    <3>. QED BY <1>2, <3>2, <3>3
  <2>9. (map.size = Cardinality(Occupied(map)) + new_table.size)'
    BY <1>2, <2>1, <2>2, <2>5
  <2>10. ReassignOK'
    BY <2>2, <2>4, <2>5, <2>7, <2>8, <2>9 DEF ReassignOK
  <2>. QED BY <1>1, <2>2, <2>10 DEF Inv
<1>7. CASE AssignPass
  <2>1. /\ UNCHANGED <<map, new_table>> /\ LoopOK(new_table, call')
        /\ call'.op = "resize" /\ call'.i = call.i /\ call'.key = call.key
        /\ call'.at = call.at /\ call'.key_to_add = call.key_to_add /\ call'.value = call.value
    BY <1>1, <1>7, AssignPassDoes
  <2>2. AssignLoop(new_table)'
    BY <1>1, <2>1, NextNewTable DEF AssignLoop
  <2>3. /\ OnTheWay' /\ Occupied(map)' = Occupied(map) /\ KeysIn(map)' = KeysIn(map)
    BY <1>2, <2>1, StaysOnTheWay
  <2>4. KeysIn(new_table)' = KeysIn(new_table) /\ Stored(new_table)' = Stored(new_table)
    BY <2>1 DEF KeysIn, Occupied, Slots, Stored
  <2>5. InHand' = {hand}
    BY <1>1, <2>1 DEF InHand
  <2>6. /\ Disjoint(KeysIn(map) \ {call.key}, KeysIn(new_table) \union {call.key_to_add})'
        /\ (call.key_to_add = call.key => call.key \notin KeysIn(new_table))'
    BY <1>2, <2>1, <2>3, <2>4 DEF Disjoint
  <2>7. (<<call.key, map.map_values[call.i]>> \in Stored(new_table) \union InHand)'
    BY <1>2, <2>1, <2>4, <2>5
  <2>8. (map.size = Cardinality(Occupied(map)) + new_table.size)'
    BY <1>2, <2>1, <2>3
  <2>9. ReassignOK'
    BY <2>2, <2>3, <2>6, <2>7, <2>8 DEF ReassignOK
  <2>. QED BY <1>1, <2>1, <2>9 DEF Inv
<1>. QED BY <1>4, <1>5, <1>6, <1>7

\* ResizeMoved: the entry that was stored leaves the old table.
LEMMA MovedOut ==
  ASSUME StoredOK, ResizeMoved
  PROVE  /\ SameBut(map', map, call.i) /\ call.i \in Occupied(map)
         /\ call.i \notin Occupied(map') /\ map.keys[call.i] = call.key
         /\ map'.size = map.size /\ map'.keys[call.i] = NoKey
         /\ KeysIn(map') = KeysIn(map) \ {call.key}
         /\ Stored(map') = {p \in Stored(map) : p[1] # call.key}
         /\ Stored(map) = Stored(map') \union {Pair(map, call.i)}
         /\ Pair(map, call.i) = <<call.key, map.map_values[call.i]>>
         /\ Pair(map, call.i) \in Stored(new_table)
<1>1. /\ RealTable(map) /\ Unique(map) /\ call.i \in Occupied(map) /\ map.keys[call.i] = call.key
      /\ <<call.key, map.map_values[call.i]>> \in Stored(new_table)
  BY DEF StoredOK, OnTheWay, MovingOK
<1>2. map' = Cleared(map, call.i)
  BY DEF ResizeMoved, Cleared
<1>3. call.i \in Slots(map) /\ 0 \in Int
  BY <1>1 DEF Occupied
<1>4. /\ SameBut(map', map, call.i) /\ map'.keys[call.i] = NoKey
      /\ call.i \notin Occupied(map') /\ map'.size = map.size
  BY <1>1, <1>2, <1>3, Emptied
<1>5. \A j \in Occupied(map) \ {call.i} : map.keys[j] # map.keys[call.i]
  BY <1>1 DEF Unique
<1>6. /\ Stored(map) = Stored(map') \union {Pair(map, call.i)}
      /\ KeysIn(map') = KeysIn(map) \ {call.key}
      /\ Stored(map') = {p \in Stored(map) : p[1] # call.key}
  BY <1>1, <1>4, <1>5, StoredClear
<1>. QED BY <1>1, <1>4, <1>6 DEF Pair

\* ResizeMoved.
LEMMA ResizeMovedInv ==
  ASSUME Inv, ResizeMoved
  PROVE  Inv'
<1>1. /\ ~perfect /\ StoredOK /\ hash \in [Keys -> Hashes]
      /\ UNCHANGED <<hash, perfect, new_table>>
      /\ call' = [op |-> "resize", at |-> "move", i |-> call.i + 1]
  BY Phases DEF ResizeMoved
<1>2. /\ SameBut(map', map, call.i) /\ call.i \in Occupied(map)
      /\ call.i \notin Occupied(map') /\ map'.size = map.size /\ map'.keys[call.i] = NoKey
      /\ KeysIn(map') = KeysIn(map) \ {call.key}
  BY <1>1, MovedOut
<1>3. /\ RealTable(map) /\ Unique(map) /\ map.size <= new_table.MaxSize
      /\ \A j \in 0 .. call.i - 1 : map.keys[j] = NoKey
      /\ Disjoint(KeysIn(map) \ {call.key}, KeysIn(new_table))
      /\ map.size + 1 = Cardinality(Occupied(map)) + new_table.size
      /\ TableOK(new_table) /\ SomeStop(new_table)
  BY <1>1 DEF StoredOK, OnTheWay, MovingOK
<1>4. /\ RealTable(map') /\ map'.MaxSize = map.MaxSize /\ Slots(map') = Slots(map)
      /\ \A j \in Slots(map) \ {call.i} : map'.keys[j] = map.keys[j]
      /\ Occupied(map') = Occupied(map) \ {call.i}
  BY <1>2, SameElsewhere
<1>5. /\ map.MaxSize \in Nat /\ call.i \in Slots(map) /\ call.i \in Nat
      /\ call.i + 1 \in 0 .. map.MaxSize
  BY <1>2, <1>3, TableFacts DEF Slots
<1>6. Unique(map')
  <2>1. \A j \in Occupied(map') : j \in Occupied(map) /\ map'.keys[j] = map.keys[j]
    BY <1>4 DEF Occupied
  <2>. QED BY <1>3, <2>1 DEF Unique
<1>7. \A j \in 0 .. (call.i + 1) - 1 : map'.keys[j] = NoKey
  <2>1. \A j \in 0 .. (call.i + 1) - 1 :
          j = call.i \/ (j \in 0 .. call.i - 1 /\ j \in Slots(map) \ {call.i})
    BY <1>5 DEF Slots
  <2>. QED BY <1>2, <1>3, <1>4, <2>1
<1>8. RealTable(map)' /\ Unique(map)'
  BY <1>4, <1>6 DEF RealTable, Unique, Occupied, Slots
<1>9. MovingOK'
  BY <1>1, <1>2, <1>3, <1>4, <1>5, <1>7, <1>8 DEF MovingOK
<1>10. TableOK(new_table)' /\ SomeStop(new_table)'
  BY <1>1, <1>3, NextNewTable
<1>11. KeysIn(map)' = KeysIn(map') /\ KeysIn(new_table)' = KeysIn(new_table)
  BY <1>1 DEF KeysIn, Occupied, Slots
<1>12. (map.size = Cardinality(Occupied(map)) + new_table.size)'
  <2>1. Cardinality(Occupied(map')) = Cardinality(Occupied(map)) + 0 - 1
    BY <1>2, OccupiedChange
  <2>2. Cardinality(Occupied(map)) \in Nat /\ new_table.size \in Int
    BY <1>3, OccupiedFinite, TableFacts DEF TableOK
  <2>3. Occupied(map)' = Occupied(map')
    BY DEF Occupied, Slots
  <2>4. map.size = Cardinality(Occupied(map')) + new_table.size
    <3>1. map.size \in Int
      BY <1>3, TableFacts
    <3>. QED BY <1>3, <2>1, <2>2, <3>1
  <2>. QED BY <1>1, <1>2, <2>3, <2>4
<1>13. call' \in [op : {"resize"}, at : {"move"}, i : Nat]
  BY <1>1, <1>5
<1>14. Disjoint(KeysIn(map), KeysIn(new_table))'
  BY <1>2, <1>3, <1>11 DEF Disjoint
<1>15. MoveOK'
  BY <1>9, <1>10, <1>12, <1>13, <1>14 DEF MoveOK
<1>. QED BY <1>1, <1>15 DEF Inv

\* ResizeEnd.
LEMMA ResizeEndInv ==
  ASSUME Inv, ResizeEnd
  PROVE  Inv'
<1>1. /\ ~perfect /\ MoveOK /\ UNCHANGED <<hash, perfect>> /\ map' = new_table /\ call' = Idle
  BY Phases DEF ResizeEnd, Returns
<1>. QED BY <1>1, BackToIdle DEF MoveOK

\* A step that changes nothing.
LEMMA StutterInv ==
  ASSUME Inv, UNCHANGED vars
  PROVE  Inv'
<1>1. UNCHANGED <<hash, perfect, map, new_table, call>>
  BY DEF vars
<1>2. PerfectOK => PerfectOK'
  BY <1>1 DEF PerfectOK, RealTable, Occupied, Slots, Home, Mod, Idle
<1>3. QuietOK => QuietOK'
  BY <1>1, NextMap DEF QuietOK
<1>4. SearchOK => SearchOK'
  BY <1>1, <1>3 DEF SearchOK, Slots, SlotOf, At, Home, Mod
<1>5. AssignLoop(map) => AssignLoop(map)'
  BY <1>1, NextMap DEF AssignLoop
<1>6. ShiftOK(map, call) => ShiftOK(map, call)'
  BY <1>1, NextMap
<1>7. /\ Occupied(map)' = Occupied(map) /\ KeysIn(map)' = KeysIn(map)
      /\ KeysIn(new_table)' = KeysIn(new_table) /\ Stored(new_table)' = Stored(new_table)
      /\ InHand' = InHand
  BY <1>1 DEF KeysIn, Occupied, Slots, Stored, InHand
<1>8. MovingOK => MovingOK'
  BY <1>1, <1>7 DEF MovingOK, RealTable, Unique, Slots
<1>9. /\ TableOK(new_table) => TableOK(new_table)'
      /\ SomeStop(new_table) => SomeStop(new_table)'
      /\ AssignLoop(new_table) => AssignLoop(new_table)'
  BY <1>1, NextNewTable DEF AssignLoop
<1>10. OnTheWay => OnTheWay'
  BY <1>1, <1>7, <1>8 DEF OnTheWay
<1>11. MoveOK => MoveOK'
  BY <1>1, <1>7, <1>8, <1>9 DEF MoveOK, Disjoint
<1>12. ReassignOK => ReassignOK'
  BY <1>1, <1>7, <1>9, <1>10 DEF ReassignOK, Disjoint
<1>13. StoredOK => StoredOK'
  BY <1>1, <1>7, <1>9, <1>10 DEF StoredOK, Disjoint
<1>14. (hash \in [Keys -> Hashes] /\ perfect \in BOOLEAN)' /\ perfect' = perfect
  BY <1>1 DEF Inv
<1>15. CASE perfect
  BY <1>2, <1>14, <1>15 DEF Inv
<1>16. CASE ~perfect
  <2>1. CASE call = Idle /\ QuietOK
    BY <1>1, <1>3, <1>14, <1>16, <2>1 DEF Inv, Idle
  <2>2. CASE SearchOK
    BY <1>4, <1>14, <1>16, <2>2 DEF Inv
  <2>3. CASE call.op = "assign" /\ AssignLoop(map)
    BY <1>1, <1>5, <1>14, <1>16, <2>3 DEF Inv
  <2>4. CASE ShiftOK(map, call)
    BY <1>6, <1>14, <1>16, <2>4 DEF Inv
  <2>5. CASE MoveOK
    BY <1>11, <1>14, <1>16, <2>5 DEF Inv
  <2>6. CASE call.op = "resize" /\ ReassignOK
    BY <1>1, <1>12, <1>14, <1>16, <2>6 DEF Inv
  <2>7. CASE StoredOK
    BY <1>13, <1>14, <1>16, <2>7 DEF Inv
  <2>. QED BY <1>16, <2>1, <2>2, <2>3, <2>4, <2>5, <2>6, <2>7 DEF Inv
<1>. QED BY <1>15, <1>16

\* The first table satisfies the invariant.
LEMMA InitInv == Init => Inv
<1>. SUFFICES ASSUME Init PROVE Inv
  OBVIOUS
<1>1. PICK n \in Sizes : map = New(n)
  BY DEF Init
<1>2. TableOK(map) /\ SomeStop(map) /\ Occupied(map) = {}
  BY <1>1, NewTable
<1>3. QuietOK /\ PerfectOK
  BY <1>2 DEF QuietOK, PerfectOK, TableOK, Init
<1>. QED BY <1>3 DEF Inv, Init

\* Every step keeps the invariant.
LEMMA StepInv == Inv /\ [Next]_vars => Inv'
<1>. SUFFICES ASSUME Inv, [Next]_vars PROVE Inv'
  OBVIOUS
<1>1. CASE UNCHANGED vars
  BY <1>1, StutterInv
<1>2. ASSUME NEW k \in Keys, NEW v \in Values, AssignCall(k, v) \/ AssignPh(k, v) PROVE Inv'
  BY <1>2, AssignCallInv, PerfectInv
<1>3. ASSUME NEW k \in Keys, AssignFull(k) PROVE Inv'
  BY <1>3, RefusedInv
<1>4. ASSUME NEW k \in Keys, AssignPhCollides(k) \/ ReadPh(k) PROVE Inv'
  <2>1. perfect /\ PerfectOK /\ hash \in [Keys -> Hashes]
    BY <1>4, Phases DEF AssignPhCollides, ReadPh
  <2>2. UNCHANGED <<hash, perfect, map, call>>
    BY <1>4, <2>1 DEF AssignPhCollides, ReadPh, Returns, PerfectOK
  <2>3. PerfectOK'
    BY <2>1, <2>2 DEF PerfectOK, RealTable, Occupied, Slots, Home, Mod, Idle
  <2>. QED BY <2>1, <2>2, <2>3 DEF Inv
<1>5. ASSUME NEW op \in {"read", "erase", "pop"}, NEW k \in Keys, Search(op, k) PROVE Inv'
  BY <1>5, SearchInv
<1>6. ASSUME NEW n \in Sizes, ResizeRefused(n) \/ ResizeCall(n) PROVE Inv'
  BY <1>6, RefusedInv, ResizeCallInv
<1>7. CASE AssignEmpty \/ AssignSame \/ AssignSwap \/ AssignPass
  <2>1. call.at = "assign"
    BY <1>7 DEF AssignEmpty, AssignSame, AssignSwap, AssignPass, AssignTaken
  <2>2. CASE call.op = "assign" /\ AssignLoop(map)
    BY <1>7, <2>2, AssignInv
  <2>3. CASE call.op = "resize" /\ ReassignOK
    BY <1>7, <2>3, ReassignInv
  <2>. QED BY <2>1, <2>2, <2>3, Phases
<1>8. CASE ReadStop \/ ReadFound
  BY <1>8, ReadInv
<1>9. CASE SearchPass
  BY <1>9, SearchPassInv
<1>10. CASE EraseFound
  BY <1>10, EraseFoundInv
<1>11. CASE EraseShift \/ EraseEnd
  BY <1>11, EraseInv
<1>12. CASE ResizeSkip
  BY <1>12, ResizeSkipInv
<1>13. CASE ResizeMove
  BY <1>13, ResizeMoveInv
<1>14. CASE ResizeMoved
  BY <1>14, ResizeMovedInv
<1>15. CASE ResizeEnd
  BY <1>15, ResizeEndInv
<1>. QED BY <1>1, <1>2, <1>3, <1>4, <1>5, <1>6, <1>7, <1>8, <1>9, <1>10, <1>11, <1>12, <1>13,
            <1>14, <1>15 DEF Next

\* The table stays in order, and the running operation knows where it stands.
THEOREM Invariant == Spec => []Inv
  BY InitInv, StepInv, PTL DEF Spec

\* Between the operations no entry is more than one step farther from its home than the entry
\* before it, and only an entry at home follows an empty slot, for tables, keys and hash functions
\* of any number: what lets read stop early (hash_map.h:209).
THEOREM EntriesInOrder == Spec => []ProbeOrder
<1>1. Inv => ProbeOrder
  <2>. SUFFICES ASSUME Inv, call.at = "idle", NEW i \in DOMAIN map.keys,
                       map.keys[i] # NoKey, Distance(map, i) > 0
                PROVE  LET before == Mod(map, i + map.MaxSize - 1)
                       IN  /\ map.keys[before] # NoKey
                           /\ Distance(map, before) + 1 >= Distance(map, i)
    BY DEF ProbeOrder
  <2>1. hash \in [Keys -> Hashes] /\ RealTable(map)
    BY Phases DEF PerfectOK, QuietOK, TableOK
  <2>2. /\ map.MaxSize \in Nat /\ map.MaxSize > 1 /\ i \in Slots(map) /\ i \in Occupied(map)
    BY <2>1, TableFacts DEF Occupied
  <2>3. Mod(map, i + map.MaxSize - 1) = Before(map, i)
    BY <2>2, BeforeSlot
  <2>4. ~perfect
    <3>. SUFFICES ASSUME perfect PROVE FALSE
      OBVIOUS
    <3>1. Home(map, map.keys[i]) = i
      BY <2>2, Phases DEF PerfectOK
    <3>2. Distance(map, i) = 0
      BY <2>1, <2>2, <3>1, EntryDistance
    <3>. QED BY <3>2
  <2>5. OrderOK(map)
    BY <2>4, Phases DEF QuietOK, TableOK
  <2>6. Before(map, i) \in Occupied(map) /\ Distance(map, Before(map, i)) + 1 >= Distance(map, i)
    BY <2>2, <2>5 DEF OrderOK
  <2>. QED BY <2>3, <2>6 DEF Occupied
<1>. QED BY <1>1, Invariant, PTL

-----------------------------------------------------------------------------
(* The entries as a function.                                                 *)

\* The function a set of pairs is the graph of.
FunctionOf(S) == [k \in {p[1] : p \in S} |-> (CHOOSE p \in S : p[1] = k)[2]]

KeysOf(S) == {p[1] : p \in S}

Single(S) == \A p, q \in S : p[1] = q[1] => p = q

\* The entries are those of the contents.
LEMMA EntriesAre == entries = FunctionOf(Contents) /\ DOMAIN entries = KeysOf(Contents)
  BY DEF entries, FunctionOf, KeysOf

\* The value of a key.
LEMMA FunctionAt ==
  ASSUME NEW S, NEW p \in S, \A q \in S : q[1] = p[1] => q = p
  PROVE  p[1] \in KeysOf(S) /\ FunctionOf(S)[p[1]] = p[2]
<1>1. p[1] \in KeysOf(S)
  BY DEF KeysOf
<1>2. (CHOOSE q \in S : q[1] = p[1]) = p
  OBVIOUS
<1>. QED BY <1>1, <1>2 DEF FunctionOf, KeysOf

\* Two functions with the same values on the same keys.
LEMMA FunctionSame ==
  ASSUME NEW D, NEW S, NEW g, KeysOf(S) = D, g = [k \in D |-> g[k]],
         \A k \in D : FunctionOf(S)[k] = g[k]
  PROVE  FunctionOf(S) = g
<1>1. FunctionOf(S) = [k \in D |-> FunctionOf(S)[k]]
  BY DEF FunctionOf, KeysOf
<1>. QED BY <1>1

\* Replacing, or adding, the pair of a key.
LEMMA FunctionWith ==
  ASSUME NEW S, NEW k, NEW v, NEW T, Single(S),
         T = {p \in S : p[1] # k} \union {<<k, v>>}
  PROVE  FunctionOf(T) = Abstract!With(FunctionOf(S), k, v)
<1>. DEFINE g == Abstract!With(FunctionOf(S), k, v)
            D == KeysOf(S) \union {k}
<1>1. <<k, v>>[1] = k /\ <<k, v>>[2] = v
  OBVIOUS
<1>2. KeysOf(T) = D
  BY <1>1 DEF KeysOf
<1>3. DOMAIN FunctionOf(S) = KeysOf(S)
  BY DEF FunctionOf, KeysOf
<1>4. g = [x \in D |-> g[x]]
  BY <1>3 DEF Abstract!With
<1>5. ASSUME NEW x \in D PROVE FunctionOf(T)[x] = g[x]
  <2>1. CASE x = k
    <3>1. <<k, v>> \in T /\ \A q \in T : q[1] = <<k, v>>[1] => q = <<k, v>>
      BY <1>1
    <3>2. FunctionOf(T)[k] = v
      BY <1>1, <3>1, FunctionAt
    <3>. QED BY <1>3, <2>1, <3>2 DEF Abstract!With
  <2>2. CASE x # k
    <3>1. PICK p \in S : p[1] = x
      BY <2>2 DEF KeysOf
    <3>2. FunctionOf(S)[x] = p[2]
      BY <3>1, FunctionAt DEF Single
    <3>3. p \in T /\ \A q \in T : q[1] = p[1] => q = p
      BY <1>1, <2>2, <3>1 DEF Single
    <3>4. FunctionOf(T)[x] = p[2]
      BY <3>1, <3>3, FunctionAt
    <3>. QED BY <1>3, <2>2, <3>2, <3>4 DEF Abstract!With
  <2>. QED BY <2>1, <2>2
<1>. HIDE DEF g, D
<1>. QED BY <1>2, <1>4, <1>5, FunctionSame DEF g

\* Removing the pair of a key.
LEMMA FunctionWithout ==
  ASSUME NEW S, NEW k, NEW T, Single(S), T = {p \in S : p[1] # k}
  PROVE  FunctionOf(T) = Abstract!Without(FunctionOf(S), k)
<1>. DEFINE g == Abstract!Without(FunctionOf(S), k)
            D == KeysOf(S) \ {k}
<1>1. KeysOf(T) = D
  BY DEF KeysOf
<1>2. DOMAIN FunctionOf(S) = KeysOf(S)
  BY DEF FunctionOf, KeysOf
<1>3. g = [x \in D |-> g[x]]
  BY <1>2 DEF Abstract!Without
<1>4. ASSUME NEW x \in D PROVE FunctionOf(T)[x] = g[x]
  <2>1. PICK p \in S : p[1] = x
    BY DEF KeysOf
  <2>2. FunctionOf(S)[x] = p[2]
    BY <2>1, FunctionAt DEF Single
  <2>3. p \in T /\ \A q \in T : q[1] = p[1] => q = p
    BY <2>1 DEF Single
  <2>4. FunctionOf(T)[x] = p[2]
    BY <2>1, <2>3, FunctionAt
  <2>. QED BY <1>2, <2>2, <2>4 DEF Abstract!Without
<1>. HIDE DEF g, D
<1>. QED BY <1>1, <1>3, <1>4, FunctionSame DEF g

\* A table of unique keys stores one value for each, and has as many keys as entries.
LEMMA UniqueKeys ==
  ASSUME NEW t, RealTable(t), Unique(t)
  PROVE  /\ Single(Stored(t)) /\ KeysOf(Stored(t)) = KeysIn(t)
         /\ IsFiniteSet(KeysIn(t)) /\ Cardinality(KeysIn(t)) = Cardinality(Occupied(t))
<1>1. Stored(t) = {Pair(t, i) : i \in Occupied(t)} /\ KeysOf(Stored(t)) = KeysIn(t)
  BY StoredPairs DEF KeysOf
<1>2. Single(Stored(t))
  <2>1. ASSUME NEW i \in Occupied(t), NEW j \in Occupied(t), Pair(t, i)[1] = Pair(t, j)[1]
        PROVE  Pair(t, i) = Pair(t, j)
    BY <2>1 DEF Pair, Unique
  <2>. QED BY <1>1, <2>1 DEF Single
<1>3. IsFiniteSet(KeysIn(t)) /\ Cardinality(KeysIn(t)) = Cardinality(Occupied(t))
  <2>. DEFINE f == [i \in Occupied(t) |-> t.keys[i]]
  <2>1. f \in Bijection(Occupied(t), KeysIn(t))
    <3>1. f \in [Occupied(t) -> KeysIn(t)] /\ \A x \in KeysIn(t) : \E i \in Occupied(t) : f[i] = x
      BY DEF KeysIn
    <3>2. \A i, j \in Occupied(t) : f[i] = f[j] => i = j
      BY DEF Unique
    <3>. HIDE DEF f
    <3>. QED BY <3>1, <3>2 DEF Bijection, Injection, Surjection, IsInjective
  <2>2. ExistsBijection(Occupied(t), KeysIn(t))
    BY <2>1 DEF ExistsBijection
  <2>. QED BY <2>2, OccupiedFinite, FS_Bijection
<1>. QED BY <1>1, <1>2, <1>3

-----------------------------------------------------------------------------
(* The table implements the map: every step is a step of the abstract map, or *)
(* leaves its entries as they are and returns nothing.                        *)

ContentsByPart ==
  /\ call = Idle => Contents = Stored(map)
  /\ call.at = "search" /\ call.op \notin {"assign", "resize"} => Contents = Stored(map)
  /\ call.op = "assign" /\ call.key_to_add = call.key /\ call.at # "shift"
       => Contents = Stored(map)
  /\ call.op = "assign" /\ call.key_to_add # call.key /\ call.at # "shift"
       => Contents = {p \in Stored(map) \union InHand : p[1] # call.key}
  /\ call.op = "resize" /\ call.at # "shift"
       => Contents = Stored(map) \union Stored(new_table) \union InHand
  /\ call.at = "shift" /\ call.op \notin {"assign", "resize"}
       => Contents = Stored(map) \union {<<call.key, call.value>>}

\* The contents in each part of an operation.
LEMMA ContentsIs == ContentsByPart
<1>. DEFINE displaced == call.op = "assign" /\ call.key_to_add # call.key
            resizing == call.op = "resize"
            shifting == call.at = "shift"
<1>1. call = Idle => ~displaced /\ ~resizing /\ ~shifting
  BY DEF Idle
<1>2. displaced => ~resizing
  OBVIOUS
<1>3. /\ displaced /\ ~resizing /\ ~shifting
           => Contents = {p \in Stored(map) \union InHand : p[1] # call.key}
      /\ ~displaced /\ resizing /\ ~shifting
           => Contents = Stored(map) \union Stored(new_table) \union InHand
      /\ ~displaced /\ ~resizing /\ shifting
           => Contents = Stored(map) \union {<<call.key, call.value>>}
      /\ ~displaced /\ ~resizing /\ ~shifting => Contents = Stored(map)
  BY Zenon DEF Contents
<1>. QED BY <1>1, <1>2, <1>3 DEF ContentsByPart

\* The same in the next state.
LEMMA NextContents ==
  /\ call' = Idle => Contents' = Stored(map')
  /\ call'.at = "search" /\ call'.op \notin {"assign", "resize"} => Contents' = Stored(map')
  /\ call'.op = "assign" /\ call'.key_to_add = call'.key /\ call'.at # "shift"
       => Contents' = Stored(map')
  /\ call'.op = "assign" /\ call'.key_to_add # call'.key /\ call'.at # "shift"
       => Contents' = {p \in Stored(map') \union InHand' : p[1] # call'.key}
  /\ call'.op = "resize" /\ call'.at # "shift"
       => Contents' = Stored(map') \union Stored(new_table') \union InHand'
  /\ call'.at = "shift" /\ call'.op \notin {"assign", "resize"}
       => Contents' = Stored(map') \union {<<call'.key, call'.value>>}
<1>1. ContentsByPart'
  BY ContentsIs, PTL
<1>2. Stored(map)' = Stored(map') /\ Stored(new_table)' = Stored(new_table')
  BY DEF Stored
<1>3. (call = Idle)' <=> call' = Idle
  BY DEF Idle
<1>. QED BY <1>1, <1>2, <1>3 DEF ContentsByPart

\* What the abstract map sees of a step that keeps the contents.
LEMMA Silent ==
  ASSUME Contents' = Contents, UNCHANGED <<reply, perfect>>, map'.MaxSize = map.MaxSize
  PROVE  UNCHANGED Abstract!vars
<1>1. entries' = entries
  BY DEF entries
<1>. QED BY <1>1 DEF Abstract!vars

\* AssignCall, Search and the steps of a search or a deletion that only look on.
LEMMA LooksOn ==
  ASSUME Inv, \/ \E k \in Keys, v \in Values : AssignCall(k, v)
              \/ \E op \in {"read", "erase", "pop"}, k \in Keys : Search(op, k)
              \/ EraseFound
              \/ SearchPass /\ call.offset_i + 1 # map.MaxSize
  PROVE  UNCHANGED Abstract!vars
<1>1. UNCHANGED <<reply, perfect, map>>
  BY DEF AssignCall, Search, EraseFound, SearchPass, SearchNext
<1>2. CASE \E k \in Keys, v \in Values : AssignCall(k, v)
  <2>1. Contents = Stored(map)
    BY <1>2, Phases, ContentsIs DEF AssignCall, ContentsByPart
  <2>2. Contents' = Stored(map')
    BY <1>2, NextContents DEF AssignCall, Assigning
  <2>. QED BY <1>1, <2>1, <2>2, Silent
<1>3. CASE \E op \in {"read", "erase", "pop"}, k \in Keys : Search(op, k)
  <2>1. Contents = Stored(map)
    BY <1>3, Phases, ContentsIs DEF Search, ContentsByPart
  <2>2. call'.at = "search" /\ call'.op \notin {"assign", "resize"}
    BY <1>3 DEF Search
  <2>3. Contents' = Stored(map')
    BY <2>2, NextContents
  <2>. QED BY <1>1, <2>1, <2>3, Silent
<1>4. ASSUME call.at = "search" PROVE Contents = Stored(map)
  <2>1. call.op \in {"read", "erase", "pop"}
    BY <1>4, Phases, SearchFacts
  <2>. QED BY <1>4, <2>1, ContentsIs DEF ContentsByPart
<1>5. CASE EraseFound
  <2>1. SearchOK /\ hash \in [Keys -> Hashes] /\ Contents = Stored(map)
    BY <1>4, <1>5, Phases DEF EraseFound
  <2>2. /\ RealTable(map) /\ SearchSlot \in Slots(map) /\ call.key \in Keys
        /\ map.keys[SearchSlot] = call.key /\ call.op \in {"erase", "pop"}
    BY <1>5, <2>1, SearchFacts DEF EraseFound, SearchKey
  <2>3. SearchSlot \in Occupied(map)
    BY <2>2, HashesAssumption DEF Occupied
  <2>4. <<call.key, map.map_values[SearchSlot]>> \in Stored(map)
    BY <2>2, <2>3, StoredPairs DEF Pair
  <2>5. /\ call'.at = "shift" /\ call'.op = call.op
        /\ call'.key = call.key /\ call'.value = map.map_values[SearchSlot]
    BY <1>5 DEF EraseFound
  <2>6. Contents' = Stored(map') \union {<<call'.key, call'.value>>}
    BY <2>2, <2>5, NextContents
  <2>7. Contents' = Contents
    BY <1>1, <2>1, <2>4, <2>5, <2>6
  <2>. QED BY <1>1, <2>7, Silent
<1>6. CASE SearchPass /\ call.offset_i + 1 # map.MaxSize
  <2>1. Contents = Stored(map)
    BY <1>4, <1>6 DEF SearchPass
  <2>2. call \in [op : {"read", "erase", "pop"}, at : {"search"}, key : Keys,
                  offset_i : Slots(map)]
    BY <1>6, Phases DEF SearchPass, SearchOK
  <2>3. call'.at = "search" /\ call'.op = call.op
    BY <1>6, <2>2 DEF SearchPass, SearchNext
  <2>4. Contents' = Stored(map')
    BY <2>2, <2>3, NextContents
  <2>. QED BY <1>1, <2>1, <2>4, Silent
<1>. QED BY <1>2, <1>3, <1>5, <1>6

\* The key of a search that comes to its end without it is not in the map.
LEMMA SearchedAll ==
  ASSUME hash \in [Keys -> Hashes], SearchOK, SearchKey # call.key,
         call.offset_i + 1 = map.MaxSize
  PROVE  call.key \notin KeysIn(map)
<1>. SUFFICES ASSUME NEW i \in Occupied(map), map.keys[i] = call.key PROVE FALSE
  BY DEF KeysIn
<1>. DEFINE h == Home(map, call.key)
            o == call.offset_i
<1>1. /\ map.MaxSize \in Nat /\ map.MaxSize > 1 /\ h \in Slots(map) /\ o \in Nat
      /\ SearchSlot = SlotOf(map, call.key, o)
      /\ \A j \in 0 .. o - 1 : map.keys[SlotOf(map, call.key, j)] # call.key
  BY SearchFacts
<1>2. i \in Slots(map)
  BY DEF Occupied
<1>3. Away(map, h, i) \in Slots(map) /\ SlotOf(map, call.key, Away(map, h, i)) = i
  BY <1>1, <1>2, AwaySlot DEF SlotOf
<1>4. Away(map, h, i) \in 0 .. o - 1 \/ Away(map, h, i) = o
  BY <1>1, <1>3 DEF Slots
<1>. QED BY <1>1, <1>3, <1>4 DEF SearchKey

\* An operation on a key that is not there returns that it found none.
LEMMA NotFound ==
  ASSUME Inv, call.at = "search", call.key \notin KeysIn(map),
         UNCHANGED <<perfect, map>>, Returns(call.op, call.key, NotThere)
  PROVE  Abstract!Next
<1>1. /\ ~perfect /\ SearchOK /\ hash \in [Keys -> Hashes] /\ call.key \in Keys
      /\ call.op \in {"read", "erase", "pop"} /\ RealTable(map) /\ Unique(map)
  <2>1. ~perfect /\ SearchOK /\ hash \in [Keys -> Hashes]
    BY Phases
  <2>. QED BY <2>1, SearchFacts
<1>2. Contents = Stored(map) /\ Contents' = Contents
  <2>1. Contents = Stored(map)
    BY <1>1, ContentsIs DEF ContentsByPart
  <2>2. Contents' = Stored(map')
    BY NextContents DEF Returns
  <2>. QED BY <2>1, <2>2
<1>3. entries' = entries
  BY <1>2 DEF entries
<1>4. call.key \notin DOMAIN entries
  BY <1>1, <1>2, EntriesAre, UniqueKeys
<1>5. Abstract!Without(entries, call.key) = entries
  <2>1. entries = [k \in DOMAIN entries |-> entries[k]]
    BY DEF entries
  <2>. HIDE DEF entries
  <2>2. DOMAIN entries \ {call.key} = DOMAIN entries
    BY <1>4
  <2>. QED BY <2>1, <2>2 DEF Abstract!Without
<1>6. Abstract!Lookup(call.key) = Nothing
  BY <1>4 DEF Abstract!Lookup, Abstract!Nothing, Nothing
<1>7. reply' = [op |-> call.op, key |-> call.key, result |-> NotThere]
  BY DEF Returns
<1>8. CASE call.op = "read"
  <2>1. NotThere = Nothing
    BY <1>8 DEF NotThere
  <2>2. Abstract!Read(call.key)
    BY <1>3, <1>6, <1>7, <1>8, <2>1 DEF Abstract!Read, Abstract!Returns
  <2>. QED BY <1>1, <2>2 DEF Abstract!Next
<1>9. CASE call.op = "erase"
  <2>1. NotThere = FALSE
    BY <1>9 DEF NotThere
  <2>2. (call.key \in DOMAIN entries) = FALSE
    BY <1>4
  <2>3. Abstract!Erase(call.key)
    BY <1>1, <1>3, <1>5, <1>7, <1>9, <2>1, <2>2 DEF Abstract!Erase, Abstract!Returns
  <2>. QED BY <1>1, <2>3 DEF Abstract!Next
<1>10. CASE call.op = "pop"
  <2>1. NotThere = Nothing
    BY <1>10 DEF NotThere
  <2>2. Abstract!Pop(call.key)
    BY <1>1, <1>3, <1>5, <1>6, <1>7, <1>10, <2>1 DEF Abstract!Pop, Abstract!Returns
  <2>. QED BY <1>1, <2>2 DEF Abstract!Next
<1>. QED BY <1>1, <1>8, <1>9, <1>10

\* The value a table stores for a key is the value of its entry.
LEMMA EntryAt ==
  ASSUME NEW t, RealTable(t), Unique(t), NEW i \in Occupied(t), Contents = Stored(t)
  PROVE  t.keys[i] \in DOMAIN entries /\ entries[t.keys[i]] = t.map_values[i]
<1>1. Pair(t, i) \in Stored(t) /\ \A p \in Stored(t) : p[1] = t.keys[i] => p = Pair(t, i)
  BY StoredByKey
<1>2. Pair(t, i)[1] = t.keys[i] /\ Pair(t, i)[2] = t.map_values[i]
  BY DEF Pair
<1>3. t.keys[i] \in KeysOf(Contents) /\ FunctionOf(Contents)[t.keys[i]] = t.map_values[i]
  BY <1>1, <1>2, FunctionAt
<1>. QED BY <1>3, EntriesAre

\* read returns the value of the key, or that there is none.
LEMMA ReadImplements ==
  ASSUME Inv, ReadStop \/ ReadFound
  PROVE  Abstract!Next
<1>1. ~perfect /\ SearchOK /\ hash \in [Keys -> Hashes] /\ call.at = "search" /\ call.op = "read"
  <2>1. call.at = "search"
    BY DEF ReadStop, ReadFound
  <2>2. ~perfect /\ SearchOK /\ hash \in [Keys -> Hashes]
    BY <2>1, Phases
  <2>3. CASE ReadStop
    BY <2>1, <2>2, <2>3 DEF ReadStop
  <2>4. CASE ReadFound
    <3>1. call.op = "read"
      BY <2>4 DEF ReadFound
    <3>. QED BY <2>1, <2>2, <3>1
  <2>. QED BY <2>3, <2>4
<1>2. /\ RealTable(map) /\ OrderOK(map) /\ Unique(map) /\ call.key \in Keys
      /\ call.offset_i \in Slots(map) /\ call.offset_i \in Nat
      /\ SearchSlot = SlotOf(map, call.key, call.offset_i) /\ SearchSlot \in Slots(map)
      /\ SubMod(map, SearchSlot - Home(map, call.key)) = call.offset_i
      /\ \A j \in 0 .. call.offset_i - 1 : map.keys[SlotOf(map, call.key, j)] # call.key
  BY <1>1, SearchFacts
<1>3. CASE ReadStop
  <2>1. SearchSlot \notin Occupied(map) \/ Distance(map, SearchSlot) < call.offset_i
    <3>1. CASE SearchSlot \in Occupied(map)
      <4>1. ~(call.offset_i <= Distance(map, SearchSlot))
        BY <1>2, <1>3, <3>1 DEF ReadStop, ReadGoesOn, SearchKey, Occupied
      <4>2. Distance(map, SearchSlot) \in Int
        BY <1>1, <1>2, <3>1, EntryDistance DEF Slots
      <4>. QED BY <1>2, <4>1, <4>2
    <3>. QED BY <3>1
  <2>2. map.keys[SearchSlot] # call.key
    <3>. SUFFICES ASSUME map.keys[SearchSlot] = call.key PROVE FALSE
      OBVIOUS
    <3>1. SearchSlot \in Occupied(map)
      BY <1>2, HashesAssumption DEF Occupied
    <3>2. Distance(map, SearchSlot) = call.offset_i
      BY <1>2 DEF Distance
    <3>. QED BY <1>2, <2>1, <3>1, <3>2
  <2>3. call.key \notin KeysIn(map)
    BY <1>1, <1>2, <2>1, <2>2, NotIn
  <2>4. UNCHANGED <<perfect, map>> /\ Returns(call.op, call.key, NotThere)
    BY <1>1, <1>3 DEF ReadStop, NotThere
  <2>. QED BY <1>1, <2>3, <2>4, NotFound
<1>4. CASE ReadFound
  <2>1. map.keys[SearchSlot] = call.key /\ SearchSlot \in Occupied(map)
    <3>1. map.keys[SearchSlot] = call.key
      BY <1>4 DEF ReadFound, SearchKey
    <3>. QED BY <1>2, <3>1, HashesAssumption DEF Occupied
  <2>2. Contents = Stored(map)
    BY <1>1, ContentsIs DEF ContentsByPart
  <2>3. call.key \in DOMAIN entries /\ entries[call.key] = map.map_values[SearchSlot]
    BY <1>2, <2>1, <2>2, EntryAt
  <2>4. /\ reply' = [op |-> "read", key |-> call.key, result |-> Found(map.map_values[SearchSlot])]
        /\ call' = Idle /\ UNCHANGED <<perfect, map>>
    BY <1>4 DEF ReadFound, Returns
  <2>5. Contents' = Contents
    BY <2>2, <2>4, NextContents
  <2>6. entries' = entries
    BY <2>5 DEF entries
  <2>7. Abstract!Lookup(call.key) = Found(map.map_values[SearchSlot])
    BY <2>3 DEF Abstract!Lookup, Abstract!Found, Found
  <2>8. Abstract!Read(call.key)
    BY <2>4, <2>6, <2>7 DEF Abstract!Read, Abstract!Returns
  <2>. QED BY <1>2, <2>8 DEF Abstract!Next
<1>. QED BY <1>3, <1>4

\* The last iteration of a search.
LEMMA SearchPassImplements ==
  ASSUME Inv, SearchPass
  PROVE  [Abstract!Next]_(Abstract!vars)
<1>1. CASE call.offset_i + 1 # map.MaxSize
  BY <1>1, LooksOn
<1>2. CASE call.offset_i + 1 = map.MaxSize
  <2>1. call.at = "search" /\ SearchKey # call.key /\ UNCHANGED <<perfect, map>>
    BY DEF SearchPass
  <2>2. SearchOK /\ hash \in [Keys -> Hashes]
    BY <2>1, Phases
  <2>3. call.key \notin KeysIn(map)
    BY <1>2, <2>1, <2>2, SearchedAll
  <2>4. Returns(call.op, call.key, NotThere)
    BY <1>2 DEF SearchPass, SearchNext
  <2>. QED BY <2>1, <2>3, <2>4, NotFound
<1>. QED BY <1>1, <1>2

\* What the contents are while a deletion shifts.
LEMMA ShiftContents ==
  ASSUME Inv, call.at = "shift"
  PROVE  /\ ~perfect /\ ShiftOK(map, call) /\ hash \in [Keys -> Hashes]
         /\ call.op \in {"erase", "pop"} /\ call.key \in Keys
         /\ Contents = Stored(map) \union {<<call.key, call.value>>}
<1>1. ~perfect /\ ShiftOK(map, call) /\ hash \in [Keys -> Hashes]
  BY Phases
<1>2. call.op \in {"erase", "pop"} /\ call.key \in Keys
  BY <1>1, ShiftFacts
<1>. QED BY <1>1, <1>2, ContentsIs DEF ContentsByPart

\* The slot to fill holds what is to go, or what is stored in the slot before.
LEMMA ShiftPair ==
  ASSUME hash \in [Keys -> Hashes], ShiftOK(map, call)
  PROVE  /\ \A i \in Occupied(map) \ {ThisSlot} : map.keys[i] # call.key
         /\ \/ Pair(map, ThisSlot) = <<call.key, call.value>>
            \/ \E i \in Occupied(map) \ {ThisSlot} : Pair(map, ThisSlot) = Pair(map, i)
<1>. DEFINE this == ThisSlot
<1>1. /\ this = At(map, call.slot, call.offset_i - 1) /\ this \in Slots(map)
      /\ RealTable(map) /\ map.MaxSize \in Nat /\ map.MaxSize > 1
  BY ShiftFacts
<1>2. \A i \in Occupied(map) \ {this} : map.keys[i] # call.key
  BY <1>1 DEF ShiftOK
<1>3. Before(map, this) # this
  BY <1>1, BeforeSlot
<1>4. CASE call.offset_i = 1
  <2>1. map.keys[this] = call.key /\ map.map_values[this] = call.value
    BY <1>1, <1>4 DEF ShiftOK
  <2>. QED BY <1>2, <2>1 DEF Pair
<1>5. CASE call.offset_i # 1
  <2>1. /\ Before(map, this) \in Occupied(map) /\ map.keys[this] = map.keys[Before(map, this)]
        /\ map.map_values[this] = map.map_values[Before(map, this)]
    BY <1>1, <1>5 DEF ShiftOK
  <2>2. Pair(map, this) = Pair(map, Before(map, this))
    BY <2>1 DEF Pair
  <2>. QED BY <1>2, <1>3, <2>1, <2>2
<1>. QED BY <1>4, <1>5

\* EraseShift moves entries and loses none.
LEMMA EraseShiftImplements ==
  ASSUME Inv, EraseShift
  PROVE  UNCHANGED Abstract!vars
<1>. DEFINE this == ThisSlot
            gone == <<call.key, call.value>>
<1>1. call.at = "shift" /\ UNCHANGED <<reply, perfect>>
  BY DEF EraseShift
<1>2. /\ ShiftOK(map, call) /\ hash \in [Keys -> Hashes] /\ call.op \in {"erase", "pop"}
      /\ Contents = Stored(map) \union {gone}
  BY <1>1, ShiftContents
<1>3. Shifts /\ map' = Moved /\ call' = Further
  BY <1>2, EraseDoes
<1>4. /\ SameBut(map', map, this) /\ NextSlot \in Occupied(map)
      /\ map'.keys[this] = map.keys[NextSlot]
      /\ map'.map_values[this] = map.map_values[NextSlot]
      /\ Occupied(map') = Occupied(map)
      /\ call'.op = call.op /\ call'.at = call.at /\ call'.key = call.key
      /\ call'.value = call.value
  BY <1>2, <1>3, EraseShiftStep
<1>5. /\ RealTable(map) /\ RealTable(map') /\ this \in Occupied(map) /\ NextSlot # this
  BY <1>2, <1>4, ShiftFacts, SameElsewhere
<1>6. Stored(map') \union {Pair(map, this)} = Stored(map) \union {Pair(map', this)}
  BY <1>4, <1>5, StoredChange
<1>7. Pair(map', this) = Pair(map, NextSlot) /\ Pair(map, NextSlot) \in Stored(map)
  BY <1>4, <1>5, StoredPairs DEF Pair
<1>8. Pair(map, this) \in Stored(map)
  BY <1>5, StoredPairs
<1>9. Pair(map, this) = gone \/ Pair(map, this) \in Stored(map')
  <2>1. CASE Pair(map, this) = gone
    BY <2>1
  <2>2. CASE Pair(map, this) # gone
    <3>1. PICK i \in Occupied(map) \ {this} : Pair(map, this) = Pair(map, i)
      BY <1>2, <2>2, ShiftPair
    <3>2. i \in Slots(map) \ {this}
      BY DEF Occupied
    <3>3. Pair(map', i) = Pair(map, i)
      <4>1. \A j \in Slots(map) \ {this} :
              map'.keys[j] = map.keys[j] /\ map'.map_values[j] = map.map_values[j]
        BY <1>4, SameElsewhere
      <4>. QED BY <3>2, <4>1 DEF Pair
    <3>4. Pair(map', i) \in Stored(map')
      BY <1>4, <1>5, StoredPairs
    <3>. QED BY <3>1, <3>3, <3>4
  <2>. QED BY <2>1, <2>2
<1>10. Contents' = Stored(map') \union {gone}
  BY <1>1, <1>2, <1>4, NextContents
<1>11. Contents' = Contents
  BY <1>2, <1>6, <1>7, <1>8, <1>9, <1>10
<1>12. map'.MaxSize = map.MaxSize
  BY <1>4, SameElsewhere
<1>. QED BY <1>1, <1>11, <1>12, Silent

\* EraseEnd removes the key and no other.
LEMMA EraseEndImplements ==
  ASSUME Inv, EraseEnd
  PROVE  Abstract!Next
<1>. DEFINE this == ThisSlot
            gone == <<call.key, call.value>>
<1>1. call.at = "shift" /\ UNCHANGED perfect
  BY DEF EraseEnd
<1>2. /\ ~perfect /\ ShiftOK(map, call) /\ hash \in [Keys -> Hashes]
      /\ call.op \in {"erase", "pop"} /\ call.key \in Keys
      /\ Contents = Stored(map) \union {gone}
  BY <1>1, ShiftContents
<1>3. ~Shifts /\ map' = Vacated /\ call' = Idle
  BY <1>2, EraseDoes
<1>4. SameBut(map', map, this) /\ this \notin Occupied(map')
  BY <1>2, <1>3, EraseEndStep
<1>5. RealTable(map) /\ this \in Occupied(map) /\ RealTable(map') /\ map'.MaxSize = map.MaxSize
  BY <1>2, <1>4, ShiftFacts, SameElsewhere
<1>6. Stored(map) = Stored(map') \union {Pair(map, this)}
  BY <1>4, <1>5, StoredClear
<1>7. /\ Occupied(map') = Occupied(map) \ {this}
      /\ \A i \in Occupied(map') : Pair(map', i) = Pair(map, i) /\ map'.keys[i] = map.keys[i]
  <2>1. Occupied(map') = Occupied(map) \ {this}
    BY <1>4, SameElsewhere
  <2>2. \A j \in Slots(map) \ {this} :
          map'.keys[j] = map.keys[j] /\ map'.map_values[j] = map.map_values[j]
    BY <1>4, SameElsewhere
  <2>. QED BY <2>1, <2>2 DEF Pair, Occupied
<1>8. /\ \A i \in Occupied(map) \ {this} : map.keys[i] # call.key
      /\ \/ Pair(map, this) = gone
         \/ \E i \in Occupied(map) \ {this} : Pair(map, this) = Pair(map, i)
  BY <1>2, ShiftPair
<1>9. \A p \in Stored(map') : p[1] # call.key
  <2>1. KeysIn(map') = {p[1] : p \in Stored(map')}
    BY <1>5, StoredPairs
  <2>2. call.key \notin KeysIn(map')
    BY <1>7, <1>8 DEF KeysIn
  <2>. QED BY <2>1, <2>2
<1>10. Pair(map, this) = gone \/ Pair(map, this) \in Stored(map')
  <2>1. Stored(map') = {Pair(map', i) : i \in Occupied(map')}
    BY <1>5, StoredPairs
  <2>. QED BY <1>7, <1>8, <2>1
<1>11. gone[1] = call.key /\ gone[2] = call.value
  OBVIOUS
<1>12. Contents = Stored(map') \union {gone}
  BY <1>2, <1>6, <1>10
<1>13. Contents' = Stored(map')
  BY <1>3, NextContents
<1>14. Contents' = {p \in Contents : p[1] # call.key}
  BY <1>9, <1>11, <1>12, <1>13
<1>15. Single(Contents)
  <2>1. Single(Stored(map'))
    <3>1. Unique(map')
      BY <1>2, <1>3, EraseEndStep DEF TableOK
    <3>. QED BY <1>5, <3>1, UniqueKeys
  <2>. QED BY <1>9, <1>11, <1>12, <2>1 DEF Single
<1>16. entries = FunctionOf(Contents) /\ entries' = FunctionOf(Contents')
  BY DEF entries, FunctionOf
<1>17. entries' = Abstract!Without(entries, call.key)
  BY <1>14, <1>15, <1>16, FunctionWithout
<1>18. call.key \in DOMAIN entries /\ entries[call.key] = call.value
  <2>1. gone \in Contents /\ \A q \in Contents : q[1] = gone[1] => q = gone
    BY <1>12, <1>15 DEF Single
  <2>2. call.key \in KeysOf(Contents) /\ FunctionOf(Contents)[call.key] = call.value
    BY <1>11, <2>1, FunctionAt
  <2>. QED BY <2>2, EntriesAre
<1>19. reply' = [op |-> call.op, key |-> call.key,
                 result |-> IF call.op = "erase" THEN TRUE ELSE Found(call.value)]
  BY DEF EraseEnd, Returns
<1>20. CASE call.op = "erase"
  <2>1. (call.key \in DOMAIN entries) = TRUE
    BY <1>18
  <2>2. reply' = [op |-> "erase", key |-> call.key, result |-> TRUE]
    BY <1>19, <1>20
  <2>3. Abstract!Erase(call.key)
    BY <1>1, <1>2, <1>5, <1>17, <2>1, <2>2 DEF Abstract!Erase, Abstract!Returns
  <2>. QED BY <1>2, <2>3 DEF Abstract!Next
<1>21. CASE call.op = "pop"
  <2>1. Abstract!Lookup(call.key) = Found(call.value)
    BY <1>18 DEF Abstract!Lookup, Abstract!Found, Found
  <2>2. reply' = [op |-> "pop", key |-> call.key, result |-> Found(call.value)]
    BY <1>19, <1>21
  <2>3. Abstract!Pop(call.key)
    BY <1>1, <1>2, <1>5, <1>17, <2>1, <2>2 DEF Abstract!Pop, Abstract!Returns
  <2>. QED BY <1>2, <2>3 DEF Abstract!Next
<1>. QED BY <1>2, <1>20, <1>21

\* The contents while assign runs for a caller.
LEMMA AssignContents ==
  ASSUME Inv, call.op = "assign", AssignLoop(map)
  PROVE  /\ ~perfect /\ hash \in [Keys -> Hashes] /\ Target = map /\ AssignLoop(Target)
         /\ call.at = "assign" /\ InHand = {<<call.key_to_add, call.value>>}
         /\ RealTable(map) /\ Unique(map) /\ Counted(map) /\ SomeEmpty(map)
         /\ call.key \in Keys /\ call.key_to_add \in Keys /\ call.value \in Values
         /\ call.given \in Values
         /\ call.key_to_add = call.key => Contents = Stored(map)
         /\ call.key_to_add # call.key
              => Contents = {p \in Stored(map) \union {<<call.key_to_add, call.value>>} :
                               p[1] # call.key}
<1>1. call.at = "assign" /\ Target = map
  BY DEF AssignLoop, LoopOK, Target
<1>2. ~perfect /\ hash \in [Keys -> Hashes]
  BY <1>1, Phases
<1>3. InHand = {<<call.key_to_add, call.value>>}
  BY <1>1 DEF InHand
<1>4. /\ RealTable(map) /\ Unique(map) /\ Counted(map) /\ SomeEmpty(map)
      /\ call.key \in Keys /\ call.key_to_add \in Keys /\ call.value \in Values
      /\ call.given \in Values
  BY DEF AssignLoop, LoopOK, TableOK
<1>. QED BY <1>1, <1>2, <1>3, <1>4, ContentsIs DEF ContentsByPart

\* Whatever assign displaces stays in the contents, and the new key is not yet there.
LEMMA AssignSilent ==
  ASSUME Inv, call.op = "assign", AssignLoop(map), AssignSwap \/ AssignPass
  PROVE  UNCHANGED Abstract!vars
<1>. DEFINE here == AssignSlot
            hand == <<call.key_to_add, call.value>>
<1>1. /\ hash \in [Keys -> Hashes] /\ Target = map /\ AssignLoop(Target)
      /\ call.at = "assign" /\ InHand = {hand} /\ RealTable(map)
      /\ call.key_to_add = call.key => Contents = Stored(map)
      /\ call.key_to_add # call.key
           => Contents = {p \in Stored(map) \union {hand} : p[1] # call.key}
  BY AssignContents
<1>2. CASE AssignSwap
  <2>1. map' = Exchanged(map) /\ call' = Onward(map) /\ reply' = reply /\ perfect' = perfect
    BY <1>1, <1>2, AssignSwapDoes DEF Becomes, AssignSwap
  <2>2. map.keys[here] \notin {NoKey, call.key_to_add} /\ Farther(map, here)
    BY <1>1, <1>2 DEF AssignSwap, AssignTaken
  <2>3. /\ call'.op = "assign" /\ call'.at = "assign" /\ call'.key = call.key
        /\ call'.key_to_add = map.keys[here] /\ call'.value = map.map_values[here]
        /\ SameBut(map', map, here) /\ here \in Occupied(map') /\ here \in Occupied(map)
        /\ map'.keys[here] = call.key_to_add /\ map'.map_values[here] = call.value
        /\ call.key_to_add \notin KeysIn(map) /\ call'.key_to_add # call'.key
    BY <1>1, <2>1, <2>2, AssignSwapStep
  <2>4. /\ Stored(map') \union {Pair(map, here)} = Stored(map) \union {Pair(map', here)}
        /\ map'.MaxSize = map.MaxSize
    BY <2>3, StoredChange, SameElsewhere
  <2>5. Pair(map', here) = hand /\ Pair(map, here) = <<call'.key_to_add, call'.value>>
    BY <2>3 DEF Pair
  <2>6. InHand' = {Pair(map, here)}
    BY <2>3, <2>5 DEF InHand
  <2>7. Contents' = {p \in Stored(map') \union InHand' : p[1] # call.key}
    BY <2>3, NextContents
  <2>8. Contents' = {p \in Stored(map) \union {hand} : p[1] # call.key}
    BY <2>4, <2>5, <2>6, <2>7
  <2>9. CASE call.key_to_add # call.key
    BY <1>1, <2>1, <2>4, <2>8, <2>9, Silent
  <2>10. CASE call.key_to_add = call.key
    <3>1. \A p \in Stored(map) : p[1] # call.key
      BY <1>1, <2>3, <2>10, StoredPairs
    <3>2. hand[1] = call.key
      BY <2>10
    <3>3. Contents' = Stored(map)
      BY <2>8, <3>1, <3>2
    <3>. QED BY <1>1, <2>1, <2>4, <2>10, <3>3, Silent
  <2>. QED BY <2>9, <2>10
<1>3. CASE AssignPass
  <2>1. /\ UNCHANGED <<map, new_table, reply, perfect>>
        /\ call'.op = call.op /\ call'.at = call.at /\ call'.key = call.key
        /\ call'.key_to_add = call.key_to_add /\ call'.value = call.value
    BY <1>1, <1>3, AssignPassDoes DEF AssignPass
  <2>2. InHand' = {hand}
    BY <1>1, <2>1 DEF InHand
  <2>3. /\ call.key_to_add = call.key => Contents' = Stored(map)
        /\ call.key_to_add # call.key
             => Contents' = {p \in Stored(map) \union {hand} : p[1] # call.key}
    BY <1>1, <2>1, <2>2, NextContents
  <2>4. Contents' = Contents
    BY <1>1, <2>3
  <2>. QED BY <2>1, <2>4, Silent
<1>. QED BY <1>2, <1>3

\* The abstract map counts as the table does.
LEMMA SameCardinality == \A S : Abstract!Cardinality(S) = Cardinality(S)
  BY DEF Abstract!Cardinality, Cardinality

\* When the contents of a table become what was in the map but for one key, that key is added.
LEMMA Adds ==
  ASSUME NEW k, NEW v, NEW t, RealTable(t), Unique(t), <<k, v>> \in Stored(t),
         Contents = {p \in Stored(t) : p[1] # k}, Contents' = Stored(t)
  PROVE  /\ k \notin DOMAIN entries /\ entries' = Abstract!With(entries, k, v)
         /\ Cardinality(DOMAIN entries) = Cardinality(Occupied(t)) - 1
<1>1. /\ Single(Stored(t)) /\ KeysOf(Stored(t)) = KeysIn(t) /\ IsFiniteSet(KeysIn(t))
      /\ Cardinality(KeysIn(t)) = Cardinality(Occupied(t))
  BY UniqueKeys
<1>2. KeysOf(Contents) = KeysIn(t) \ {k}
  BY <1>1 DEF KeysOf
<1>3. <<k, v>>[1] = k
  OBVIOUS
<1>4. k \in KeysIn(t)
  BY <1>1, <1>3 DEF KeysOf
<1>5. Cardinality(KeysIn(t) \ {k}) = Cardinality(Occupied(t)) - 1
  BY <1>1, <1>4, FS_RemoveElement
<1>6. Contents' = {p \in Contents : p[1] # k} \union {<<k, v>>}
  BY <1>1, <1>3 DEF Single
<1>7. Single(Contents)
  BY <1>1 DEF Single
<1>8. entries = FunctionOf(Contents) /\ entries' = FunctionOf(Contents')
  BY DEF entries, FunctionOf
<1>9. entries' = Abstract!With(entries, k, v)
  BY <1>6, <1>7, <1>8, FunctionWith
<1>. QED BY <1>2, <1>5, <1>9, EntriesAre

\* When the value of one slot changes, the key of that slot is given it.
LEMMA Rewrites ==
  ASSUME NEW t, NEW u, NEW i, SameBut(u, t, i), u.keys = t.keys, Unique(t), i \in Occupied(t),
         Contents = Stored(t), Contents' = Stored(u)
  PROVE  /\ t.keys[i] \in DOMAIN entries
         /\ entries' = Abstract!With(entries, t.keys[i], u.map_values[i])
<1>. DEFINE k == t.keys[i]
            v == u.map_values[i]
<1>1. RealTable(t) /\ RealTable(u) /\ Occupied(u) = Occupied(t)
  BY SameElsewhere DEF Occupied, SameBut
<1>2. Unique(u)
  BY <1>1 DEF Unique
<1>3. /\ Pair(t, i) \in Stored(t) /\ \A p \in Stored(t) : p[1] = k => p = Pair(t, i)
      /\ Pair(u, i) \in Stored(u) /\ \A p \in Stored(u) : p[1] = k => p = Pair(u, i)
  BY <1>1, <1>2, StoredByKey
<1>4. Pair(t, i)[1] = k /\ Pair(u, i)[1] = k /\ Pair(u, i) = <<k, v>>
  BY DEF Pair
<1>5. Stored(u) \union {Pair(t, i)} = Stored(t) \union {Pair(u, i)}
  BY <1>1, StoredChange
<1>6. Stored(u) = {p \in Stored(t) : p[1] # k} \union {<<k, v>>}
  BY <1>3, <1>4, <1>5
<1>7. Single(Stored(t)) /\ k \in KeysOf(Stored(t))
  BY <1>1, <1>3, <1>4, UniqueKeys DEF KeysOf
<1>8. entries = FunctionOf(Contents) /\ entries' = FunctionOf(Contents')
  BY DEF entries, FunctionOf
<1>9. entries' = Abstract!With(entries, k, v)
  BY <1>6, <1>7, <1>8, FunctionWith
<1>. QED BY <1>7, <1>9, EntriesAre

\* AssignEmpty and AssignSame: the key is given a value once assign has placed what it displaced.
LEMMA AssignImplements ==
  ASSUME Inv, call.op = "assign", AssignLoop(map), AssignEmpty \/ AssignSame
  PROVE  Abstract!Next
<1>. DEFINE here == AssignSlot
            hand == <<call.key_to_add, call.value>>
<1>1. /\ ~perfect /\ hash \in [Keys -> Hashes] /\ Target = map /\ AssignLoop(Target)
      /\ RealTable(map) /\ Unique(map) /\ SomeEmpty(map) /\ call.key \in Keys
      /\ call.given \in Values
      /\ call.key_to_add = call.key => Contents = Stored(map)
      /\ call.key_to_add # call.key
           => Contents = {p \in Stored(map) \union {hand} : p[1] # call.key}
  BY AssignContents
<1>2. UNCHANGED perfect
  BY DEF AssignEmpty, AssignSame
<1>3. CASE AssignEmpty
  <2>1. /\ map' = Filled(map) /\ map.keys[here] = NoKey /\ call' = Idle
        /\ reply' = [op |-> "assign", key |-> <<call.key, call.given>>, result |-> "VA_Written"]
    <3>1. [Put(map, here, call.key_to_add, call.value) EXCEPT !.size = @ + 1] = Filled(map)
      BY DEF Filled, Put
    <3>2. Becomes(Filled(map)) /\ map.keys[here] = NoKey
      BY <1>1, <1>3, <3>1 DEF AssignEmpty
    <3>. QED BY <1>3, <3>2 DEF AssignEmpty, Becomes, AssignReturns, Returns
  <2>2. /\ SameBut(map', map, here) /\ here \notin Occupied(map) /\ here \in Occupied(map')
        /\ map'.keys[here] = call.key_to_add /\ map'.map_values[here] = call.value
        /\ call.key_to_add \notin KeysIn(map) /\ TableOK(map')
    BY <1>1, <2>1, AssignEmptyStep
  <2>3. /\ Stored(map') = Stored(map) \union {hand} /\ map'.MaxSize = map.MaxSize
        /\ KeysIn(map') = KeysIn(map) \union {call.key_to_add}
    BY <2>2, StoredChange, SameElsewhere DEF Pair
  <2>4. <<call.key, call.given>> \in Stored(map')
    BY <1>1, <2>3 DEF AssignLoop, LoopOK, GivenOK
  <2>5. Contents = {p \in Stored(map') : p[1] # call.key}
    <3>1. CASE call.key_to_add = call.key
      <4>1. \A p \in Stored(map) : p[1] # call.key
        BY <1>1, <2>2, <3>1, StoredPairs
      <4>2. hand[1] = call.key
        BY <3>1
      <4>. QED BY <1>1, <2>3, <3>1, <4>1, <4>2
    <3>2. CASE call.key_to_add # call.key
      BY <1>1, <2>3, <3>2
    <3>. QED BY <3>1, <3>2
  <2>6. Contents' = Stored(map')
    BY <2>1, NextContents
  <2>7. RealTable(map') /\ Unique(map')
    BY <2>2 DEF TableOK
  <2>8. /\ call.key \notin DOMAIN entries
        /\ entries' = Abstract!With(entries, call.key, call.given)
        /\ Cardinality(DOMAIN entries) = Cardinality(Occupied(map')) - 1
    BY <2>4, <2>5, <2>6, <2>7, Adds
  <2>9. Cardinality(DOMAIN entries) # map.MaxSize
    <3>1. /\ Cardinality(Occupied(map')) \in Nat
          /\ Cardinality(Occupied(map')) <= map'.MaxSize /\ map'.MaxSize \in Nat
      BY <2>7, OccupiedFinite, TableFacts
    <3>. QED BY <2>3, <2>8, <3>1
  <2>10. Abstract!Assign(call.key, call.given)
    BY <1>2, <2>1, <2>3, <2>8, <2>9, SameCardinality
       DEF Abstract!Assign, Abstract!Full, Abstract!Returns
  <2>. QED BY <1>1, <2>10 DEF Abstract!Next
<1>4. CASE AssignSame
  <2>1. /\ map' = [map EXCEPT !.map_values[here] = call.value]
        /\ call' = Idle /\ map.keys[here] = call.key_to_add
        /\ reply' = [op |-> "assign", key |-> <<call.key, call.given>>, result |-> "VA_Rewritten"]
    BY <1>1, <1>4 DEF AssignSame, Becomes, AssignReturns, Returns
  <2>2. /\ SameBut(map', map, here) /\ here \in Occupied(map) /\ map'.keys = map.keys
        /\ map'.map_values[here] = call.value /\ call.key_to_add = call.key
    BY <1>1, <2>1, AssignSameStep
  <2>3. Contents = Stored(map) /\ Contents' = Stored(map') /\ map'.MaxSize = map.MaxSize
    BY <1>1, <2>1, <2>2, NextContents, SameElsewhere
  <2>4. /\ call.key \in DOMAIN entries
        /\ entries' = Abstract!With(entries, call.key, call.given)
    <3>1. /\ map.keys[here] \in DOMAIN entries
          /\ entries' = Abstract!With(entries, map.keys[here], map'.map_values[here])
      BY <1>1, <2>2, <2>3, Rewrites
    <3>2. call.value = call.given
      BY <2>2 DEF AssignLoop, LoopOK, GivenOK
    <3>. QED BY <2>1, <2>2, <3>1, <3>2
  <2>5. Cardinality(DOMAIN entries) # map.MaxSize
    <3>1. DOMAIN entries = KeysIn(map) /\ Cardinality(KeysIn(map)) = Cardinality(Occupied(map))
      BY <1>1, <2>3, EntriesAre, UniqueKeys
    <3>. QED BY <1>1, <3>1, OccupiedFinite
  <2>6. Abstract!Assign(call.key, call.given)
    BY <1>2, <2>1, <2>3, <2>4, <2>5, SameCardinality
       DEF Abstract!Assign, Abstract!Full, Abstract!Returns
  <2>. QED BY <1>1, <2>6 DEF Abstract!Next
<1>. QED BY <1>3, <1>4

\* Between the operations the entries are those of the table, and the table counts them.
LEMMA QuietContents ==
  ASSUME Inv, ~perfect, call.at = "idle"
  PROVE  /\ call = Idle /\ TableOK(map) /\ RealTable(map) /\ Contents = Stored(map)
         /\ Cardinality(DOMAIN entries) = map.size
         /\ map.MaxSize \in Nat /\ map.size \in Nat
<1>1. call = Idle /\ TableOK(map)
  BY Phases DEF QuietOK
<1>2. RealTable(map) /\ Unique(map) /\ map.size = Cardinality(Occupied(map))
  BY <1>1 DEF TableOK, Counted
<1>3. Contents = Stored(map)
  BY <1>1, ContentsIs DEF ContentsByPart
<1>4. DOMAIN entries = KeysIn(map) /\ Cardinality(KeysIn(map)) = Cardinality(Occupied(map))
  BY <1>2, <1>3, EntriesAre, UniqueKeys
<1>. QED BY <1>1, <1>2, <1>3, <1>4, TableFacts, OccupiedFinite

\* AssignFull and ResizeRefused: the table has as many slots as the map can hold entries.
LEMMA RefusedImplements ==
  ASSUME Inv, \/ \E k \in Keys : AssignFull(k)
              \/ \E n \in Sizes : ResizeRefused(n)
  PROVE  Abstract!Next
<1>1. ~perfect /\ call.at = "idle" /\ UNCHANGED <<perfect, map>> /\ call' = Idle
  BY DEF AssignFull, ResizeRefused, Returns
<1>2. /\ Contents = Stored(map) /\ Cardinality(DOMAIN entries) = map.size
      /\ map.MaxSize \in Nat /\ map.size \in Nat
  BY <1>1, QuietContents
<1>3. Contents' = Contents
  BY <1>1, <1>2, NextContents
<1>4. entries' = entries
  BY <1>3 DEF entries
<1>5. ASSUME NEW k \in Keys, AssignFull(k) PROVE Abstract!Next
  <2>1. map.size = map.MaxSize /\ reply' = [op |-> "assign", key |-> k, result |-> "VA_Full"]
    BY <1>5 DEF AssignFull, Returns
  <2>2. Abstract!AssignFull(k)
    BY <1>1, <1>2, <1>4, <2>1, SameCardinality
       DEF Abstract!AssignFull, Abstract!Full, Abstract!Returns
  <2>. QED BY <2>2 DEF Abstract!Next
<1>6. ASSUME NEW n \in Sizes, ResizeRefused(n) PROVE Abstract!Next
  <2>1. n < map.size /\ reply' = [op |-> "resize", key |-> n, result |-> FALSE]
    BY <1>6 DEF ResizeRefused, TooSmall, Returns
  <2>2. n \in Nat
    BY SizesAssumption
  <2>3. (n >= map.size) = FALSE
    BY <1>2, <2>1, <2>2
  <2>4. Abstract!Resize(n)
    BY <1>1, <1>2, <1>4, <2>1, <2>3, SameCardinality DEF Abstract!Resize, Abstract!Returns
  <2>. QED BY <2>4 DEF Abstract!Next
<1>. QED BY <1>5, <1>6

\* resize keeps the entries in the old table, the new one or in hand.
LEMMA ResizeImplements ==
  ASSUME Inv, \/ \E n \in Sizes : ResizeCall(n)
              \/ ResizeSkip \/ ResizeMove \/ ResizeMoved
  PROVE  UNCHANGED Abstract!vars
<1>1. UNCHANGED <<reply, perfect>>
  BY DEF ResizeCall, ResizeSkip, ResizeMove, ResizeMoved
<1>2. ASSUME NEW n \in Sizes, ResizeCall(n) PROVE UNCHANGED Abstract!vars
  <2>1. Contents = Stored(map)
    BY <1>2, QuietContents DEF ResizeCall
  <2>2. map' = map /\ new_table' = New(n) /\ call' = [op |-> "resize", at |-> "move", i |-> 0]
    BY <1>2 DEF ResizeCall
  <2>3. Stored(new_table') = {}
    BY <2>2, NewTable
  <2>4. InHand' = {}
    BY <2>2 DEF InHand
  <2>5. Contents' = Stored(map') \union Stored(new_table') \union InHand'
    BY <2>2, NextContents
  <2>6. Contents' = Contents
    BY <2>1, <2>2, <2>3, <2>4, <2>5
  <2>. QED BY <1>1, <2>2, <2>6, Silent
<1>3. ASSUME call.op = "resize", call.at \in {"move", "stored"}
      PROVE  Contents = Stored(map) \union Stored(new_table)
  <2>1. InHand = {}
    BY <1>3 DEF InHand
  <2>. QED BY <1>3, <2>1, ContentsIs DEF ContentsByPart
<1>4. CASE ResizeSkip
  <2>1. MoveOK /\ UNCHANGED <<map, new_table>> /\ call' = [call EXCEPT !.i = @ + 1]
    BY <1>4, Phases DEF ResizeSkip
  <2>2. call \in [op : {"resize"}, at : {"move"}, i : Nat]
    BY <2>1 DEF MoveOK
  <2>3. call'.op = "resize" /\ call'.at = "move"
    BY <2>1, <2>2
  <2>4. InHand' = {}
    BY <2>3 DEF InHand
  <2>5. Contents' = Stored(map') \union Stored(new_table') \union InHand'
    BY <2>3, NextContents
  <2>6. Contents' = Contents
    BY <1>3, <2>1, <2>2, <2>4, <2>5
  <2>. QED BY <1>1, <2>1, <2>6, Silent
<1>5. CASE ResizeMove
  <2>1. MoveOK /\ hash \in [Keys -> Hashes] /\ UNCHANGED <<map, new_table>>
    BY <1>5, Phases DEF ResizeMove
  <2>2. /\ call'.op = "resize" /\ call'.at = "assign" /\ call'.key_to_add = map.keys[call.i]
        /\ call'.value = map.map_values[call.i] /\ call.i \in Occupied(map)
    BY <1>5, <2>1, ResizeMoveDoes
  <2>3. InHand' = {Pair(map, call.i)}
    BY <2>2 DEF InHand, Pair
  <2>4. Pair(map, call.i) \in Stored(map)
    BY <2>1, <2>2, StoredPairs DEF MoveOK, MovingOK
  <2>5. Contents' = Stored(map') \union Stored(new_table') \union InHand'
    BY <2>2, NextContents
  <2>6. call \in [op : {"resize"}, at : {"move"}, i : Nat]
    BY <2>1 DEF MoveOK
  <2>7. Contents' = Contents
    BY <1>3, <2>1, <2>3, <2>4, <2>5, <2>6
  <2>. QED BY <1>1, <2>1, <2>7, Silent
<1>6. CASE ResizeMoved
  <2>1. /\ StoredOK /\ new_table' = new_table
        /\ call' = [op |-> "resize", at |-> "move", i |-> call.i + 1]
    BY <1>6, Phases DEF ResizeMoved
  <2>2. /\ SameBut(map', map, call.i) /\ Stored(map) = Stored(map') \union {Pair(map, call.i)}
        /\ Pair(map, call.i) \in Stored(new_table)
    BY <1>6, <2>1, MovedOut
  <2>3. InHand' = {}
    BY <2>1 DEF InHand
  <2>4. Contents' = Stored(map') \union Stored(new_table') \union InHand'
    BY <2>1, NextContents
  <2>5. call.op = "resize" /\ call.at = "stored"
    BY <2>1 DEF StoredOK
  <2>6. Contents' = Contents
    BY <1>3, <2>1, <2>2, <2>3, <2>4, <2>5
  <2>7. map'.MaxSize = map.MaxSize
    BY <2>2, SameElsewhere
  <2>. QED BY <1>1, <2>6, <2>7, Silent
<1>. QED BY <1>2, <1>4, <1>5, <1>6

\* The loop of assign moves an entry to the new table, and keeps those it displaces.
LEMMA ReassignImplements ==
  ASSUME Inv, call.op = "resize", ReassignOK,
         AssignEmpty \/ AssignSame \/ AssignSwap \/ AssignPass
  PROVE  UNCHANGED Abstract!vars
<1>. DEFINE here == AssignSlot
            hand == <<call.key_to_add, call.value>>
<1>1. /\ Target = new_table /\ hash \in [Keys -> Hashes] /\ AssignLoop(Target)
      /\ AssignLoop(new_table) /\ call.at = "assign" /\ perfect' = perfect
  <2>1. AssignLoop(new_table) /\ call.at = "assign"
    BY DEF ReassignOK, AssignLoop, LoopOK
  <2>. QED BY <2>1, Phases DEF Target, AssignEmpty, AssignSame, AssignSwap, AssignPass
<1>2. Contents = Stored(map) \union Stored(new_table) \union {hand}
  <2>1. InHand = {hand}
    BY <1>1 DEF InHand
  <2>. QED BY <1>1, <2>1, ContentsIs DEF ContentsByPart
<1>3. CASE AssignEmpty
  <2>1. /\ new_table' = Filled(new_table) /\ map' = map /\ new_table.keys[here] = NoKey
        /\ call' = [call EXCEPT !.at = "stored"] /\ reply' = reply
    <3>1. [Put(new_table, here, call.key_to_add, call.value) EXCEPT !.size = @ + 1]
            = Filled(new_table)
      BY DEF Filled, Put
    <3>2. Becomes(Filled(new_table)) /\ new_table.keys[here] = NoKey
      BY <1>1, <1>3, <3>1 DEF AssignEmpty
    <3>. QED BY <1>1, <1>3, <3>2 DEF AssignEmpty, Becomes, AssignReturns
  <2>2. /\ SameBut(new_table', new_table, here)
        /\ here \notin Occupied(new_table) /\ here \in Occupied(new_table')
        /\ Pair(new_table', here) = hand
    BY <1>1, <2>1, AssignEmptyStep DEF Pair
  <2>3. Stored(new_table') = Stored(new_table) \union {hand}
    BY <2>2, StoredChange
  <2>4. call'.op = "resize" /\ call'.at = "stored"
    <3>1. call \in [op : {"assign", "resize"}, at : {"assign"}, i : Nat, key : Keys,
                    key_to_add : Keys, given : Values, value : Values,
                    offset_i : Slots(new_table),
                    swap_difference : Int]
      BY <1>1 DEF AssignLoop, LoopOK
    <3>. QED BY <2>1, <3>1
  <2>5. InHand' = {}
    BY <2>4 DEF InHand
  <2>6. Contents' = Stored(map') \union Stored(new_table') \union InHand'
    BY <2>4, NextContents
  <2>7. Contents' = Contents
    BY <1>2, <2>1, <2>3, <2>5, <2>6
  <2>. QED BY <1>1, <2>1, <2>7, Silent
<1>4. CASE AssignSame
  <2>1. new_table.keys[here] = call.key_to_add
    BY <1>1, <1>4 DEF AssignSame
  <2>2. here \in Occupied(new_table) /\ call.key_to_add = call.key
    BY <1>1, <2>1, AssignSameStep
  <2>3. call.key \notin KeysIn(new_table)
    BY <2>2 DEF ReassignOK
  <2>. QED BY <2>1, <2>2, <2>3 DEF KeysIn
<1>5. CASE AssignSwap
  <2>1. /\ new_table' = Exchanged(new_table) /\ map' = map /\ call' = Onward(new_table)
        /\ new_table.keys[here] \notin {NoKey, call.key_to_add} /\ Farther(new_table, here)
        /\ reply' = reply
    BY <1>1, <1>5, AssignSwapDoes DEF Becomes, AssignSwap, AssignTaken
  <2>2. /\ call'.op = "resize" /\ call'.at = "assign"
        /\ <<call'.key_to_add, call'.value>> = Pair(new_table, here)
        /\ SameBut(new_table', new_table, here) /\ here \in Occupied(new_table')
        /\ here \in Occupied(new_table) /\ Pair(new_table', here) = hand
    BY <1>1, <2>1, AssignSwapStep DEF Pair
  <2>3. Stored(new_table') \union {Pair(new_table, here)} = Stored(new_table) \union {hand}
    BY <2>2, StoredChange
  <2>4. InHand' = {Pair(new_table, here)}
    BY <2>2 DEF InHand
  <2>5. Contents' = Stored(map') \union Stored(new_table') \union InHand'
    BY <2>2, NextContents
  <2>6. Contents' = Contents
    BY <1>2, <2>1, <2>3, <2>4, <2>5
  <2>. QED BY <1>1, <2>1, <2>6, Silent
<1>6. CASE AssignPass
  <2>1. /\ UNCHANGED <<map, new_table, reply>> /\ call'.op = "resize" /\ call'.at = call.at
        /\ call'.key_to_add = call.key_to_add /\ call'.value = call.value
    BY <1>1, <1>6, AssignPassDoes
  <2>2. InHand' = {hand}
    BY <1>1, <2>1 DEF InHand
  <2>3. Contents' = Stored(map') \union Stored(new_table') \union InHand'
    BY <1>1, <2>1, NextContents
  <2>4. Contents' = Contents
    BY <1>2, <2>1, <2>2, <2>3
  <2>. QED BY <1>1, <2>1, <2>4, Silent
<1>. QED BY <1>3, <1>4, <1>5, <1>6

\* ResizeEnd: all entries are in the new table, and the map can hold as many as it has slots.
LEMMA ResizeEndImplements ==
  ASSUME Inv, ResizeEnd
  PROVE  Abstract!Next
<1>1. /\ ~perfect /\ MoveOK /\ call.i = map.MaxSize /\ map' = new_table /\ call' = Idle
      /\ perfect' = perfect
      /\ reply' = [op |-> "resize", key |-> new_table.MaxSize, result |-> TRUE]
  BY Phases DEF ResizeEnd, Returns
<1>2. /\ call \in [op : {"resize"}, at : {"move"}, i : Nat] /\ RealTable(map)
      /\ \A j \in 0 .. call.i - 1 : map.keys[j] = NoKey
      /\ TableOK(new_table) /\ map.size <= new_table.MaxSize
      /\ map.size = Cardinality(Occupied(map)) + new_table.size
  BY <1>1 DEF MoveOK, MovingOK
<1>3. Occupied(map) = {}
  BY <1>1, <1>2 DEF Occupied, Slots
<1>4. Stored(map) = {} /\ map.size = new_table.size
  <2>1. new_table.size \in Int
    BY <1>2, TableFacts DEF TableOK
  <2>. QED BY <1>2, <1>3, <2>1, StoredPairs, FS_EmptySet
<1>5. Contents = Stored(new_table)
  <2>1. InHand = {}
    BY <1>2 DEF InHand
  <2>. QED BY <1>2, <1>4, <2>1, ContentsIs DEF ContentsByPart
<1>6. Contents' = Contents
  BY <1>1, <1>5, NextContents
<1>7. entries' = entries
  BY <1>6 DEF entries
<1>8. Cardinality(DOMAIN entries) = new_table.size
  <2>1. RealTable(new_table) /\ Unique(new_table) /\ Counted(new_table)
    BY <1>2 DEF TableOK
  <2>. QED BY <1>5, <2>1, EntriesAre, UniqueKeys DEF Counted
<1>9. /\ new_table.MaxSize \in Sizes /\ new_table.MaxSize \in Nat /\ new_table.size \in Int
      /\ new_table.size <= new_table.MaxSize
  BY <1>2, <1>4, TableFacts DEF TableOK
<1>10. /\ ~(new_table.MaxSize < Cardinality(DOMAIN entries))
       /\ (new_table.MaxSize >= Cardinality(DOMAIN entries)) = TRUE
  BY <1>8, <1>9
<1>11. Abstract!Resize(new_table.MaxSize)
  BY <1>1, <1>7, <1>10, SameCardinality DEF Abstract!Resize, Abstract!Returns
<1>. QED BY <1>9, <1>11 DEF Abstract!Next

\* In a table of perfect hashes a key is at home or not at all.
LEMMA PerfectContents ==
  ASSUME Inv, perfect, NEW k \in Keys
  PROVE  /\ call = Idle /\ RealTable(map) /\ Unique(map) /\ Contents = Stored(map)
         /\ DOMAIN entries = KeysIn(map) /\ Single(Stored(map)) /\ hash \in [Keys -> Hashes]
         /\ Home(map, k) \in Slots(map)
         /\ k \in KeysIn(map) <=> HomeKey(k) = k
         /\ Home(map, k) \in Occupied(map) <=> HomeKey(k) # NoKey
<1>1. /\ call = Idle /\ RealTable(map) /\ hash \in [Keys -> Hashes]
      /\ \A i \in Occupied(map) : Home(map, map.keys[i]) = i
  BY Phases DEF PerfectOK
<1>2. Unique(map)
  BY <1>1 DEF Unique
<1>3. Home(map, k) \in Slots(map)
  BY <1>1, HomeSlot
<1>4. k \in KeysIn(map) <=> HomeKey(k) = k
  <2>1. ASSUME k \in KeysIn(map) PROVE HomeKey(k) = k
    BY <1>1, <2>1 DEF KeysIn, HomeKey
  <2>2. ASSUME HomeKey(k) = k PROVE k \in KeysIn(map)
    BY <1>3, <2>2, HashesAssumption DEF KeysIn, Occupied, HomeKey
  <2>. QED BY <2>1, <2>2
<1>5. Home(map, k) \in Occupied(map) <=> HomeKey(k) # NoKey
  BY <1>3 DEF Occupied, HomeKey
<1>6. Contents = Stored(map)
  BY <1>1, ContentsIs DEF ContentsByPart
<1>7. DOMAIN entries = KeysIn(map) /\ Single(Stored(map))
  BY <1>1, <1>2, <1>6, EntriesAre, UniqueKeys
<1>. QED BY <1>1, <1>2, <1>3, <1>4, <1>5, <1>6, <1>7

\* The operations of perfect hashes.
LEMMA PerfectImplements ==
  ASSUME Inv, NEW k \in Keys,
         (\E v \in Values : AssignPh(k, v)) \/ AssignPhCollides(k) \/ ReadPh(k)
  PROVE  Abstract!Next
<1>. DEFINE h == Home(map, k)
<1>1. perfect /\ perfect' = perfect /\ call' = Idle
  BY DEF AssignPh, AssignPhCollides, ReadPh, Returns
<1>2. /\ RealTable(map) /\ Unique(map) /\ Contents = Stored(map) /\ DOMAIN entries = KeysIn(map)
      /\ Single(Stored(map)) /\ h \in Slots(map)
      /\ k \in KeysIn(map) <=> HomeKey(k) = k
      /\ h \in Occupied(map) <=> HomeKey(k) # NoKey
  BY <1>1, PerfectContents
<1>3. Contents' = Stored(map')
  BY <1>1, NextContents
<1>4. ASSUME map' = map PROVE entries' = entries
  <2>1. Contents' = Contents
    BY <1>2, <1>3, <1>4
  <2>. QED BY <2>1 DEF entries
<1>5. ASSUME NEW v \in Values, AssignPh(k, v) PROVE Abstract!Next
  <2>1. /\ HomeKey(k) \in {NoKey, k} /\ map' = Put(map, h, k, v)
        /\ reply' = [op |-> "assign", key |-> <<k, v>>,
                     result |-> IF HomeKey(k) = k THEN "VA_Rewritten" ELSE "VA_Written"]
    BY <1>5 DEF AssignPh, Returns
  <2>2. /\ SameBut(map', map, h) /\ h \in Occupied(map') /\ map'.keys[h] = k
        /\ map'.map_values[h] = v /\ map'.MaxSize = map.MaxSize
    <3>1. 0 \in Int
      OBVIOUS
    <3>. QED BY <1>2, <2>1, <3>1, Written, SameElsewhere
  <2>3. entries' = Abstract!With(entries, k, v)
    <3>1. CASE HomeKey(k) = k
      <4>1. h \in Occupied(map) /\ map.keys[h] = k
        BY <1>2, <3>1, HashesAssumption DEF HomeKey
      <4>2. map'.keys = map.keys
        BY <1>2, <2>1, <4>1 DEF Put, RealTable
      <4>3. /\ map.keys[h] \in DOMAIN entries
            /\ entries' = Abstract!With(entries, map.keys[h], map'.map_values[h])
        BY <1>2, <1>3, <2>2, <4>1, <4>2, Rewrites
      <4>. QED BY <2>2, <4>1, <4>3
    <3>2. CASE HomeKey(k) # k
      <4>1. h \notin Occupied(map) /\ k \notin KeysIn(map)
        BY <1>2, <2>1, <3>2
      <4>2. Stored(map') = Stored(map) \union {<<k, v>>}
        BY <2>2, <4>1, StoredChange DEF Pair
      <4>3. \A p \in Stored(map) : p[1] # k
        BY <1>2, <4>1, StoredPairs
      <4>4. Contents' = {p \in Contents : p[1] # k} \union {<<k, v>>}
        BY <1>2, <1>3, <4>2, <4>3
      <4>5. entries = FunctionOf(Contents) /\ entries' = FunctionOf(Contents')
        BY DEF entries, FunctionOf
      <4>. QED BY <1>2, <4>4, <4>5, FunctionWith
    <3>. QED BY <3>1, <3>2
  <2>4. Abstract!Assign(k, v)
    BY <1>1, <1>2, <2>1, <2>2, <2>3 DEF Abstract!Assign, Abstract!Full, Abstract!Returns
  <2>. QED BY <2>4 DEF Abstract!Next
<1>6. CASE AssignPhCollides(k)
  <2>1. /\ HomeKey(k) \notin {NoKey, k} /\ map' = map
        /\ reply' = [op |-> "assign", key |-> k, result |-> "VA_PHCollision"]
    BY <1>6 DEF AssignPhCollides, Returns
  <2>2. k \notin DOMAIN entries /\ DOMAIN entries # {}
    BY <1>2, <2>1 DEF KeysIn
  <2>3. Abstract!AssignCollides(k)
    BY <1>1, <1>4, <2>1, <2>2 DEF Abstract!AssignCollides, Abstract!Returns
  <2>. QED BY <2>3 DEF Abstract!Next
<1>7. CASE ReadPh(k)
  <2>1. /\ map' = map
        /\ reply' = [op |-> "read", key |-> k,
                     result |-> IF HomeKey(k) = k THEN Found(map.map_values[h]) ELSE Nothing]
    BY <1>7 DEF ReadPh, Returns
  <2>2. Abstract!Lookup(k) = IF HomeKey(k) = k THEN Found(map.map_values[h]) ELSE Nothing
    <3>1. CASE HomeKey(k) = k
      <4>1. h \in Occupied(map) /\ map.keys[h] = k
        BY <1>2, <3>1, HashesAssumption DEF HomeKey
      <4>2. k \in DOMAIN entries /\ entries[k] = map.map_values[h]
        BY <1>2, <4>1, EntryAt
      <4>. QED BY <3>1, <4>2 DEF Abstract!Lookup, Abstract!Found, Found
    <3>2. CASE HomeKey(k) # k
      BY <1>2, <3>2 DEF Abstract!Lookup, Abstract!Nothing, Nothing
    <3>. QED BY <3>1, <3>2
  <2>3. Abstract!Read(k)
    BY <1>1, <1>4, <2>1, <2>2 DEF Abstract!Read, Abstract!Returns
  <2>. QED BY <2>3 DEF Abstract!Next
<1>. QED BY <1>5, <1>6, <1>7

-----------------------------------------------------------------------------
(* The refinement.                                                            *)

\* A new table is an empty map.
LEMMA InitImplements == Init => Abstract!Init
<1>. SUFFICES ASSUME Init PROVE Abstract!Init
  OBVIOUS
<1>1. PICK n \in Sizes : map = New(n)
  BY DEF Init
<1>2. Stored(map) = {} /\ map.MaxSize = n
  BY <1>1, NewTable
<1>3. Contents = {}
  <2>1. call = Idle
    BY DEF Init
  <2>. QED BY <1>2, <2>1, ContentsIs DEF ContentsByPart
<1>4. entries = [k \in {} |-> 0]
  BY <1>3 DEF entries
<1>. QED BY <1>2, <1>4 DEF Init, Abstract!Init

\* Every step is one of the abstract map, or leaves it as it is.
LEMMA StepImplements == Inv /\ [Next]_vars => [Abstract!Next]_(Abstract!vars)
<1>. SUFFICES ASSUME Inv, [Next]_vars PROVE [Abstract!Next]_(Abstract!vars)
  OBVIOUS
<1>1. CASE UNCHANGED vars
  <2>1. UNCHANGED <<perfect, map, new_table, call, reply>>
    BY <1>1 DEF vars
  <2>2. Contents' = Contents
    BY <2>1 DEF Contents, Stored, InHand
  <2>. QED BY <2>1, <2>2, Silent
<1>2. ASSUME NEW k \in Keys, NEW v \in Values, AssignCall(k, v) \/ AssignPh(k, v)
      PROVE  [Abstract!Next]_(Abstract!vars)
  BY <1>2, LooksOn, PerfectImplements
<1>3. ASSUME NEW k \in Keys, AssignFull(k) \/ AssignPhCollides(k) \/ ReadPh(k)
      PROVE  Abstract!Next
  BY <1>3, RefusedImplements, PerfectImplements
<1>4. ASSUME NEW op \in {"read", "erase", "pop"}, NEW k \in Keys, Search(op, k)
      PROVE  UNCHANGED Abstract!vars
  BY <1>4, LooksOn
<1>5. ASSUME NEW n \in Sizes, ResizeRefused(n) \/ ResizeCall(n)
      PROVE  [Abstract!Next]_(Abstract!vars)
  BY <1>5, RefusedImplements, ResizeImplements
<1>6. CASE AssignEmpty \/ AssignSame \/ AssignSwap \/ AssignPass
  <2>1. call.at = "assign"
    BY <1>6 DEF AssignEmpty, AssignSame, AssignSwap, AssignPass, AssignTaken
  <2>2. CASE call.op = "assign" /\ AssignLoop(map)
    BY <1>6, <2>2, AssignImplements, AssignSilent
  <2>3. CASE call.op = "resize" /\ ReassignOK
    BY <1>6, <2>3, ReassignImplements
  <2>. QED BY <2>1, <2>2, <2>3, Phases
<1>7. CASE ReadStop \/ ReadFound
  BY <1>7, ReadImplements
<1>8. CASE SearchPass
  BY <1>8, SearchPassImplements
<1>9. CASE EraseFound
  BY <1>9, LooksOn
<1>10. CASE EraseShift \/ EraseEnd
  BY <1>10, EraseShiftImplements, EraseEndImplements
<1>11. CASE ResizeSkip \/ ResizeMove \/ ResizeMoved
  BY <1>11, ResizeImplements
<1>12. CASE ResizeEnd
  BY <1>12, ResizeEndImplements
<1>. QED BY <1>1, <1>2, <1>3, <1>4, <1>5, <1>6, <1>7, <1>8, <1>9, <1>10, <1>11, <1>12 DEF Next

\* Every operation of the table, whatever was inserted, displaced, deleted and moved before, does
\* to the entries and returns what a finite function of limited size would, for keys, values, sizes
\* and hash functions of any number (hash_map.h).
THEOREM TableIsAMap == Spec => Implements
  BY InitImplements, StepImplements, Invariant, PTL DEF Spec, Implements, Abstract!Spec
=============================================================================
