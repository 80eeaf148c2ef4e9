------------------------------- MODULE MCFight -------------------------------
EXTENDS Fight, TLC

Alike == Permutations(Chars)
====
