--------------------------------- MODULE Ranks ---------------------------------
(***************************************************************************)
(* The place of a number in a set of positions.  Two sets of positions are *)
(* matched in order by matching equal ranks: the n-th of one belongs to    *)
(* the n-th of the other.                                                  *)
(***************************************************************************)
EXTENDS Naturals, FiniteSets

Rank(S, n) == Cardinality({i \in S : i <= n})
=============================================================================
