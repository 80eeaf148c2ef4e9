----------------------------- MODULE MCGameLoop -----------------------------
(***************************************************************************)
(* Small instances of GameLoop for TLC.                                    *)
(***************************************************************************)
EXTENDS GameLoop, TLC

Symmetry == Permutations(Desc)
=============================================================================
