------------------------------- MODULE Sorted --------------------------------
(***************************************************************************)
(* A finite set of numbers as a sequence.  The number at position i is the *)
(* one that i numbers of the set do not exceed.                            *)
(***************************************************************************)
EXTENDS Integers, FiniteSets

UpTo(S, x) == {y \in S : y <= x}

Ascending(S) == [i \in 1..Cardinality(S) |-> CHOOSE x \in S : Cardinality(UpTo(S, x)) = i]
=============================================================================
