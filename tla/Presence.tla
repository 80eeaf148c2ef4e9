------------------------------ MODULE Presence ------------------------------
(***************************************************************************)
(* What a player may rely on, without connections and dialogues: a player  *)
(* is away, or once in the world, linked or link-dead.  Entering gives     *)
(* back exactly the character that was kept; being cut off and coming back *)
(* loses nothing; leaving keeps everything.  Only the end of the process   *)
(* and a stale copy saved by a failed login can make a kept character      *)
(* older, and neither while the player is away.                            *)
(***************************************************************************)
EXTENDS Naturals

CONSTANTS Name, None, InitKept

VARIABLES
    where,   \* where[n] \in {"away", "linked", "linkdead"}
    played,  \* the play recorded in the body of n, 0 while n is away
    kept     \* the play recorded in the file of n, None without a file

vars == <<where, played, kept>>

TypeOK ==
    /\ where \in [Name -> {"away", "linked", "linkdead"}]
    /\ played \in [Name -> Nat]
    /\ kept \in [Name -> Nat \cup {None}]

Init ==
    /\ where = [n \in Name |-> "away"]
    /\ played = [n \in Name |-> 0]
    /\ kept = InitKept

\* n enters the world as the character that was kept.
Enter(n) ==
    /\ where[n] = "away" /\ where'[n] = "linked"
    /\ kept[n] # None
    /\ played'[n] = kept[n]
    /\ kept'[n] = kept[n]

\* n stays in the world, with or without a link: it plays on, and may be saved as
\* it then is.
Play(n) ==
    /\ where[n] # "away" /\ where'[n] # "away"
    /\ played'[n] >= played[n]
    /\ kept'[n] \in {kept[n], played'[n]}

\* n leaves the world; what it has played is kept, unless n deletes itself.
Leave(n) ==
    /\ where[n] # "away" /\ where'[n] = "away"
    /\ played'[n] = 0
    /\ kept'[n] \in {played[n], None}

\* A copy of n that was loaded since n came is saved over the file: it need not be
\* older than the file, which another one may have made older, but is no newer than n.
Overwritten(n) ==
    /\ where[n] # "away"
    /\ kept[n] # None /\ kept'[n] # None
    /\ kept'[n] <= played[n]

Relapse(n) ==
    /\ where'[n] = where[n]
    /\ played'[n] = played[n]
    /\ Overwritten(n)

Same(n) == /\ where'[n] = where[n]
           /\ played'[n] = played[n]
           /\ kept'[n] = kept[n]

\* The tick moves every player at once.
Step == \A n \in Name : Enter(n) \/ Play(n) \/ Leave(n) \/ Relapse(n) \/ Same(n)

\* The process ends: every player is away.  Whoever was away before keeps what he had;
\* any other one has what was kept, what he had played, or what a copy had.
End ==
    /\ where' = [n \in Name |-> "away"]
    /\ played' = [n \in Name |-> 0]
    /\ \A n \in Name : kept'[n] = kept[n] \/ Overwritten(n)

Next == /\ where' \in [Name -> {"away", "linked", "linkdead"}]
        /\ (Step \/ End)

Spec == Init /\ [][Next]_vars
=============================================================================
