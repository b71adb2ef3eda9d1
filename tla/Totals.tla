------------------------------- MODULE Totals -------------------------------
(***************************************************************************)
(* The sum of a function's values, as the size of a set: a value f[i] is   *)
(* the number of its units <<i, 1>>, ..., <<i, f[i]>>, so that counting up *)
(* by one adds one member.                                                 *)
(***************************************************************************)
EXTENDS Naturals, FiniteSets

Units(f) == UNION {{i} \X (1 .. f[i]) : i \in DOMAIN f}

Total(f) == Cardinality(Units(f))
=============================================================================
