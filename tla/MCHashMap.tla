------------------------------ MODULE MCHashMap ------------------------------
(* Small tables for HashMap, with every hash function.                        *)
EXTENDS HashMap, TLC

\* Keys differ in nothing but their hash, which is arbitrary.
Symmetric == Permutations(Keys)
=============================================================================
