-------------------------- MODULE SessionPresence --------------------------
(***************************************************************************)
(* A closed server implements Presence.                                    *)
(***************************************************************************)
EXTENDS Session

\* What stands for a missing file is no amount of play.
ASSUME KeptAssumption == None \notin Nat

\* A player is linked when one of its bodies is.
WhereIs(n) == IF Bodies(n) = {} THEN "away"
              ELSE IF LinkDead(n) = {} THEN "linked" ELSE "linkdead"

Played(n) == IF Bodies(n) = {} THEN 0
             ELSE char[CHOOSE c \in Bodies(n) : TRUE].ver

Kept(f) == [n \in Name |-> IF f[n] = None THEN None ELSE f[n].ver]

P == INSTANCE Presence WITH
        InitKept <- Kept(InitFile),
        where    <- [n \in Name |-> WhereIs(n)],
        played   <- [n \in Name |-> Played(n)],
        kept     <- Kept(file)

\* Every behaviour of a closed server is one that Presence allows: connections,
\* dialogues, takeovers, timeouts and stale copies stay invisible to the player
\* (nanny, close_socket, char_update, do_quit, save_char_obj).
ImplementsPresence == P!Spec
=============================================================================
