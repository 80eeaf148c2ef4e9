------------------------------- MODULE Totals -------------------------------
(***************************************************************************)
(* What the values of a function come to.                                  *)
(***************************************************************************)
EXTENDS Integers, FiniteSets, FiniteSetsExt

\* The sum of F over S.
SumOf(F, S) == MapThenSumSet(LAMBDA i : F[i], S)
=============================================================================
