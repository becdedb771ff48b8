---------------------------------- MODULE Ranks ----------------------------------
(***************************************************************************)
(* The numbers of a finite set in order (ORDER BY, sorted, reversed), each *)
(* at its rank: a definition without recursion, so that it can be proved   *)
(* about.                                                                  *)
(***************************************************************************)
EXTENDS Integers, Sequences, FiniteSets

Rank(n, set) == Cardinality({m \in set : m >= n})

\* Greatest first.
Descending(set) ==
  [i \in 1 .. Cardinality(set) |-> CHOOSE n \in set : Rank(n, set) = i]

\* Least first.
Ascending(set) ==
  [i \in 1 .. Cardinality(set) |-> Descending(set)[Cardinality(set) + 1 - i]]
=============================================================================
