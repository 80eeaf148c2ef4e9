----------------------------- MODULE MCScripts ------------------------------
(***************************************************************************)
(* A small instance of Scripts for TLC.                                    *)
(***************************************************************************)
EXTENDS Scripts, TLC

Alike == Permutations(PC)
=============================================================================
