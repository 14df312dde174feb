----------------------------- MODULE KeyValueMap -----------------------------
(* What a StringMap of hash_map.h promises its callers: a finite function     *)
(* from keys to values that holds at most capacity entries.  A full map       *)
(* refuses every assignment, that of a key it already holds included.  A map  *)
(* of perfect hashes may refuse a key instead, because of another key.        *)
EXTENDS Naturals, FiniteSets

CONSTANTS Keys, Values, Sizes

VARIABLES entries,   \* the values of the keys in the map
          capacity,  \* the most entries it can hold
          perfect,   \* whether it is used through the operations ending in _ph
          reply      \* the operation that returned last, and what it returned

vars == <<entries, capacity, perfect, reply>>

With(f, k, v) == [x \in DOMAIN f \union {k} |-> IF x = k THEN v ELSE f[x]]
Without(f, k) == [x \in DOMAIN f \ {k} |-> f[x]]

Nothing == [exists |-> FALSE]
Found(v) == [exists |-> TRUE, value |-> v]
Lookup(k) == IF k \in DOMAIN entries THEN Found(entries[k]) ELSE Nothing

Returns(op, k, result) == reply' = [op |-> op, key |-> k, result |-> result]

Init ==
  /\ entries = [k \in {} |-> 0]
  /\ capacity \in Sizes
  /\ perfect \in BOOLEAN
  /\ reply = [op |-> "new"]

Full == ~perfect /\ Cardinality(DOMAIN entries) = capacity

Assign(k, v) ==
  /\ ~Full
  /\ entries' = With(entries, k, v)
  /\ Returns("assign", <<k, v>>, IF k \in DOMAIN entries THEN "VA_Rewritten" ELSE "VA_Written")
  /\ UNCHANGED <<capacity, perfect>>

AssignFull(k) ==
  /\ Full
  /\ Returns("assign", k, "VA_Full")
  /\ UNCHANGED <<entries, capacity, perfect>>

\* Only a key that is not there can be refused, and only by one that is.
AssignCollides(k) ==
  /\ perfect
  /\ k \notin DOMAIN entries /\ DOMAIN entries # {}
  /\ Returns("assign", k, "VA_PHCollision")
  /\ UNCHANGED <<entries, capacity, perfect>>

Read(k) ==
  /\ Returns("read", k, Lookup(k))
  /\ UNCHANGED <<entries, capacity, perfect>>

Erase(k) ==
  /\ ~perfect
  /\ entries' = Without(entries, k)
  /\ Returns("erase", k, k \in DOMAIN entries)
  /\ UNCHANGED <<capacity, perfect>>

Pop(k) ==
  /\ ~perfect
  /\ entries' = Without(entries, k)
  /\ Returns("pop", k, Lookup(k))
  /\ UNCHANGED <<capacity, perfect>>

Resize(n) ==
  /\ ~perfect
  /\ capacity' = IF n < Cardinality(DOMAIN entries) THEN capacity ELSE n
  /\ Returns("resize", n, n >= Cardinality(DOMAIN entries))
  /\ UNCHANGED <<entries, perfect>>

Next ==
  \/ \E k \in Keys : \E v \in Values : Assign(k, v)
  \/ \E k \in Keys : AssignFull(k) \/ AssignCollides(k) \/ Read(k) \/ Erase(k) \/ Pop(k)
  \/ \E n \in Sizes : Resize(n)

Spec == Init /\ [][Next]_vars
=============================================================================
