------------------------------ MODULE MCClans -------------------------------
(***************************************************************************)
(* A small instance of Clans for TLC.                                      *)
(***************************************************************************)
EXTENDS Clans, TLC

Sym == Permutations(Real) \cup Permutations(Player)

\* What is in clans.txt, and in the files of those who play, is read only by what is rare;
\* it is told apart where nothing is declared, because who is in a clan, and who leads it,
\* does not depend on its wars.  For the same reason these are left out after what is rare and
\* changes no clan.
View == <<valid, master, deputy, count, playing, clan, ready, copy, boots, rare,
          IF rare < MaxRare /\ war \cup ally = {} THEN <<saved, file>> ELSE <<>>,
          IF rare = 0 \/ boots > 0 \/ valid # Clan THEN <<war, ally>> ELSE <<>>>>
=============================================================================
