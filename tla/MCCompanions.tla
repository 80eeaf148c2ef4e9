---------------------------- MODULE MCCompanions ----------------------------
(***************************************************************************)
(* Small instances of Companions for TLC.                                  *)
(***************************************************************************)
EXTENDS Companions, TLC

Alike == Permutations(Mob) \cup Permutations(Player)

\* Enough for a pet and a horse.
Limits == [c \in Player \cup Mob |-> 2]

\* What nothing looks at is left out: whether a structure nobody has was a horse.
Seen == <<w, horse \cap (w.alive \cup {w.master[c] : c \in Char}), nofollow, orders>>
=============================================================================
