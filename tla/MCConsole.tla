----------------------------- MODULE MCConsole -----------------------------
(***************************************************************************)
(* Console for TLC: the eventIds are model values and interchangeable, and *)
(* so are the values of a setting but the default.                         *)
(***************************************************************************)
EXTENDS Console, TLC

Symmetry == {ids @@ values : ids \in Permutations(Ids),
                             values \in Permutations(Values \ {Default})}
=============================================================================
