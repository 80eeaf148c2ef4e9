------------------------------ MODULE MCQuest -------------------------------
(***************************************************************************)
(* A small instance of Quest for TLC.                                      *)
(***************************************************************************)
EXTENDS Quest
=============================================================================
