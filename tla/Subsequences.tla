----------------------------- MODULE Subsequences -----------------------------
(***************************************************************************)
(* The part of a sequence at a set of places, in their order: what a       *)
(* filter of it keeps.  A place is found by how many are before it, so     *)
(* that the facts about finite sets apply.                                 *)
(***************************************************************************)
EXTENDS Integers, FiniteSets

PlacesBefore(places, i) == {j \in places : j < i}

\* The place with k - 1 places before it.
Nth(places, k) == CHOOSE i \in places : Cardinality(PlacesBefore(places, i)) = k - 1

Selected(s, places) == [k \in 1..Cardinality(places) |-> s[Nth(places, k)]]

================================================================================
