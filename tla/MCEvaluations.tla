---------------------------- MODULE MCEvaluations ----------------------------
(* Short strings of tokens of every kind for Evaluations.                     *)
EXTENDS Evaluations

\* The names are those of a variable and of a function.
SomeVarNames == {"x", "max"}

SomeTokens == {"1", "-1i", "c", "x", "max", "@mma_x", "%", "<<", "as_d", "b?t:f", "__i<"}

SomeNumbers == {Number(VLNT_Int, "lowest"), Zero(VLNT_Double)}
=============================================================================
