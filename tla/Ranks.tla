-------------------------------- MODULE Ranks --------------------------------
(***************************************************************************)
(* What filter of JavaScript and retain of Rust leave of a list, defined   *)
(* by places and not by recursion: the places whose entries stay are       *)
(* counted, and the k-th entry of the result is the one at the place with  *)
(* rank k.                                                                 *)
(***************************************************************************)
EXTENDS Integers, FiniteSets

\* How many of the places S there are up to i.
Rank(S, i) == Cardinality(S \cap 1 .. i)

\* The entries at the places S, in their order.
Retain(q, S) == [k \in 1 .. Cardinality(S) |-> q[CHOOSE i \in S : Rank(S, i) = k]]

\* The first of the places S.
Foremost(S) == CHOOSE i \in S : \A j \in S : i <= j
=============================================================================
