------------------------------ MODULE UnitCounting ------------------------------
(***************************************************************************)
(* Totals as cardinalities.  A function f from holders to 0..C stands for  *)
(* so many units each; UnitsOf is the set of all those units, so that its  *)
(* cardinality is the total and the facts about finite sets apply to it.   *)
(* HoldersOf is the set of the holders that have any.                      *)
(***************************************************************************)
EXTENDS Integers, FiniteSets

HoldersOf(H, f) == {h \in H : f[h] > 0}
UnitsOf(H, C, f) == {u \in H \X (1..C) : u[2] <= f[u[1]]}
================================================================================
