-------------------------------- MODULE Totals ------------------------------
(***************************************************************************)
(* The sum of a function's values, written as the cardinality of its units *)
(* so that it needs no recursion: f[x] contributes <<x, 1>> .. <<x, f[x]>>.*)
(***************************************************************************)
EXTENDS Integers, FiniteSets

Units(f) == UNION {{x} \X (1 .. f[x]) : x \in DOMAIN f}

Total(f) == Cardinality(Units(f))
=============================================================================
