----------------------------- MODULE MCSession -----------------------------
(***************************************************************************)
(* Small instances of Session for TLC.                                     *)
(***************************************************************************)
EXTENDS SessionPresence, TLC

Registration(answered, i) ==
    [id |-> i, level |-> 1, ver |-> 0, ans |-> answered, errs |-> 0,
     ath |-> FALSE]

\* Every player is registered.
ClosedFile == [n \in Name |-> Registration(TRUE, 1)]

\* Nobody has ever played.
EmptyFile == [n \in Name |-> None]

Symmetry == Permutations(Desc) \cup Permutations(Char)
=============================================================================
