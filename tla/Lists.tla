------------------------------- MODULE Lists -------------------------------
(***************************************************************************)
(* What is left of a list when several of its elements leave it at once:   *)
(* the others, in the order they had.                                      *)
(***************************************************************************)
EXTENDS Naturals, Sequences, FiniteSets

\* The elements of t at the positions of K.
Kept(t, K) == [j \in 1..Cardinality(K) |->
                 t[CHOOSE i \in K : Cardinality(K \cap (1..i)) = j]]
=============================================================================
