------------------------------ MODULE MCCoins -------------------------------
(***************************************************************************)
(* A small instance of Coins for TLC.                                      *)
(***************************************************************************)
EXTENDS Coins, TLC

Purse == [c \in Who |-> IF c \in Mob THEN [s |-> 0, g |-> 0, b |-> 0]
                        ELSE [s |-> 0, g |-> 1, b |-> 1]]

Symmetry == Permutations(PC)
=============================================================================
