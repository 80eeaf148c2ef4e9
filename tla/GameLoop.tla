------------------------------ MODULE GameLoop ------------------------------
(***************************************************************************)
(* The pulse of the server, game_loop_unix(), and the two lists its loops  *)
(* walk along: descriptor_list, and descriptor_free, where close_socket()  *)
(* puts a descriptor back.  Both lists use the same link field, so a loop  *)
(* whose saved next descriptor is closed goes on along the free list, and  *)
(* then works on descriptors that are nobody's connection.                 *)
(*                                                                         *)
(* One action is one pass of a loop's body, or one of the calls between    *)
(* the loops.  The outcome of select() for a socket is chosen when the     *)
(* loop comes to it.                                                       *)
(***************************************************************************)
EXTENDS Naturals, FiniteSets, Sequences, Lists

CONSTANTS
    Desc,         \* descriptor structures
    None,         \* the NULL pointer
    NameLimit,    \* pulses a connection may be silent before its password (300)
    DialogLimit   \* pulses it may be silent in the rest of the dialogue (5000)

ASSUME LoopAssumption ==
    /\ None \notin Desc
    /\ NameLimit \in Nat /\ DialogLimit \in Nat /\ NameLimit <= DialogLimit

VARIABLES
    list,     \* descriptor_list, from its head
    free,     \* descriptor_free, from its head
    stage,    \* d->connected; of a freed descriptor, what it was
    idle,     \* d->idle_tics
    phase,    \* which part of the pulse runs
    cur,      \* d of the loop that runs, None past its end
    served,   \* the descriptors the input loop has come to in this pulse
    down,     \* merc_down
    strayed   \* a loop of this pulse has been led astray (history)

loopVars == <<list, free, stage, idle, phase, cur, served, down, strayed>>

\* CON_GET_CODEPAGE .. CON_GET_NUM_REGANSWER; the other states of the dialogue; CON_PLAYING.
Stages == {"name", "dialog", "playing"}
Phases == {"poll", "kick", "input", "update", "output"}

Elems(s)  == {s[i] : i \in 1..Len(s)}
Listed    == Elems(list)
HeadOf(s)  == IF s = <<>> THEN None ELSE Head(s)

\* d->link: the next descriptor in whichever list d is in.
After(s, d) == LET i == CHOOSE i \in 1..Len(s) : s[i] = d
               IN IF i = Len(s) THEN None ELSE s[i + 1]
Link(l, f, d) == IF d \in Elems(l) THEN After(l, d) ELSE After(f, d)

LoopTypeOK ==
    /\ list \in Seq(Desc) /\ free \in Seq(Desc)
    /\ stage \in [Desc -> Stages]
    /\ idle \in [Desc -> 0..(DialogLimit + 1)]
    /\ phase \in Phases
    /\ cur \in Desc \cup {None}
    /\ served \subseteq Desc
    /\ down \in BOOLEAN /\ strayed \in BOOLEAN

LoopInit ==
    /\ list = <<>> /\ free = <<>>
    /\ stage = [d \in Desc |-> "name"]
    /\ idle = [d \in Desc |-> 0]
    /\ phase = "poll" /\ cur = None /\ served = {}
    /\ down = FALSE /\ strayed = FALSE

\* The process ends, by a reboot or a crash, and is started again.
Restart ==
    /\ list' = <<>> /\ free' = <<>>
    /\ stage' = [d \in Desc |-> "name"]
    /\ idle' = [d \in Desc |-> 0]
    /\ phase' = "poll" /\ cur' = None /\ served' = {}
    /\ down' = FALSE /\ strayed' = FALSE
-----------------------------------------------------------------------------
\* Mutant: SLIST_REMOVE() is forgotten.
Close_StillListed(D) ==
    /\ list' = list
    /\ \E s \in [1..Cardinality(D) -> D] :
          Elems(s) = D /\ free' = s \o free

\* close_socket() of the descriptors of D, in some order: each leaves
\* descriptor_list for the head of descriptor_free.
Close(D) ==
    /\ list' = Kept(list, {i \in DOMAIN list : list[i] \notin D})
    /\ \E s \in [1..Cardinality(D) -> D] :
          Elems(s) = D /\ free' = s \o free

\* What the words written while something is closed or done can close:
\* write_to_buffer() closes any connection whose output buffer is full.
Others(d) == SUBSET (Listed \ {d})

\* A loop of this pulse is or was at a descriptor that is nobody's connection.
Tracked == strayed' = (strayed \/ cur' \notin Elems(list') \cup {None})

\* Mutant: SLIST_FOREACH(), which reads the link after the body.
GoOn_Unsafe == cur' = Link(list', free', cur) /\ UNCHANGED phase /\ Tracked

\* SLIST_FOREACH_SAFE(): d_next is the link as it was before the body.
GoOn == cur' = Link(list, free, cur) /\ UNCHANGED phase /\ Tracked

\* The body closes its own descriptor.
CloseAndGoOn ==
    /\ cur \in Listed
    /\ \E O \in Others(cur) : Close(O \cup {cur})
    /\ GoOn /\ UNCHANGED down

\* The body closes a descriptor that is freed already: it is not in the list,
\* and SLIST_REMOVE() runs off its end.
ClosedAgain ==
    /\ phase \in {"kick", "input", "output"}
    /\ cur # None /\ cur \notin Listed
    /\ Restart
-----------------------------------------------------------------------------
(* init_descriptor(), in the poll. *)

\* new_descriptor(): the head of the free list, or new memory.
Fresh(d) == IF free = <<>> THEN d \notin Listed ELSE d = Head(free)
Rest     == IF free = <<>> THEN <<>> ELSE Tail(free)

Zeroed(d) == /\ stage' = [stage EXCEPT ![d] = "name"]
             /\ idle' = [idle EXCEPT ![d] = 0]

StartLoops == /\ phase' = "kick" /\ cur' = HeadOf(list')
              /\ served' = {} /\ strayed' = FALSE /\ UNCHANGED down

NobodyNew ==
    /\ phase = "poll" /\ ~down
    /\ UNCHANGED <<list, free, stage, idle>>
    /\ StartLoops

Accepted(d) ==
    /\ phase = "poll" /\ ~down /\ Fresh(d)
    /\ list' = <<d>> \o list /\ free' = Rest
    /\ Zeroed(d)
    /\ StartLoops

\* A banned site: the descriptor never enters the list.
Banned(d) ==
    /\ phase = "poll" /\ ~down /\ Fresh(d)
    /\ free' = <<d>> \o Rest /\ UNCHANGED list
    /\ Zeroed(d)
    /\ StartLoops

\* The loop's condition fails: game_loop_unix() returns and the process ends.
Down == phase = "poll" /\ down /\ Restart
-----------------------------------------------------------------------------
(* The bodies of the three loops, and update_handler() between them. *)

\* Mutant: only the first part of the dialogue is counted.
Counted_NameOnly(d) == IF stage[d] = "name" THEN idle[d] + 1 ELSE idle[d]

\* ++d->idle_tics.  Nobody looks at the count of a player: it stops at the bound.
Counted(d) == IF stage[d] = "playing" /\ idle[d] > DialogLimit
              THEN idle[d] ELSE idle[d] + 1

TooLong(d, n) == \/ stage[d] = "name" /\ n > NameLimit
                 \/ stage[d] # "playing" /\ n > DialogLimit

\* The socket is in exc_set, and then the silence is not counted; or the
\* descriptor has been silent for too long; or it is a proxy.
KickedOut ==
    /\ phase = "kick" /\ cur # None
    /\ \/ idle' = idle
       \/ idle' = [idle EXCEPT ![cur] = Counted(cur)]
    /\ UNCHANGED <<stage, served>>
    /\ CloseAndGoOn

Stays ==
    /\ phase = "kick" /\ cur # None
    /\ ~TooLong(cur, Counted(cur))
    /\ idle' = [idle EXCEPT ![cur] = Counted(cur)]
    /\ UNCHANGED <<list, free, stage, served, down>>
    /\ GoOn

\* read_from_descriptor() fails: the peer is gone, or its line is too long.
ReadFails ==
    /\ phase = "input" /\ cur # None
    /\ idle' = [idle EXCEPT ![cur] = 0]
    /\ served' = served \cup {cur}
    /\ UNCHANGED stage
    /\ CloseAndGoOn

\* Where nanny() and the commands take a connection.
Moves(s) == IF s = "playing" THEN {"playing"} ELSE Stages

\* do_reboot(), do_shutdown(): every connection is closed, and merc_down set.
MayGoDown(D) == down' \in {down} \cup (IF Listed \subseteq D THEN {TRUE} ELSE {})

\* Input has arrived or not; a command was complete or not, and closes what it
\* closes.
InputDone ==
    /\ phase = "input" /\ cur # None
    /\ idle' \in {idle, [idle EXCEPT ![cur] = 0]}
    /\ served' = served \cup {cur}
    /\ \E s \in Moves(stage[cur]) : stage' = [stage EXCEPT ![cur] = s]
    /\ \E O \in Others(cur), own \in BOOLEAN :
          LET D == O \cup (IF own THEN {cur} ELSE {})
          IN  /\ own => cur \in Listed
              /\ Close(D)
              /\ MayGoDown(D)
    /\ GoOn

\* update_handler(): no loop is at a descriptor while it closes any of them.
Updated ==
    /\ phase = "update"
    /\ \E D \in SUBSET Listed : Close(D) /\ MayGoDown(D)
    /\ phase' = "output" /\ cur' = HeadOf(list')
    /\ UNCHANGED <<stage, idle, served, strayed>>

OutputDone ==
    /\ phase = "output" /\ cur # None
    /\ UNCHANGED <<list, free, stage, idle, served, down>>
    /\ GoOn

OutputFails ==
    /\ phase = "output" /\ cur # None
    /\ UNCHANGED <<stage, idle, served>>
    /\ CloseAndGoOn

\* A loop has come to the end of its list.
LoopEnds ==
    /\ cur = None
    /\ \/ phase = "kick" /\ phase' = "input" /\ cur' = HeadOf(list)
       \/ phase = "input" /\ phase' = "update" /\ cur' = None
       \/ phase = "output" /\ phase' = "poll" /\ cur' = None
    /\ UNCHANGED <<list, free, stage, idle, served, down, strayed>>
-----------------------------------------------------------------------------
LoopNext ==
    \/ NobodyNew \/ Down
    \/ \E d \in Desc : Accepted(d) \/ Banned(d)
    \/ Stays \/ KickedOut \/ ReadFails \/ InputDone
    \/ Updated \/ OutputDone \/ OutputFails
    \/ LoopEnds \/ ClosedAgain

LoopSpec == LoopInit /\ [][LoopNext]_loopVars

\* The server runs: the loop never waits for a connection.
FairLoop == LoopSpec /\ WF_loopVars(LoopNext)
-----------------------------------------------------------------------------
NoRepeat(s) == \A i, j \in 1..Len(s) : s[i] = s[j] => i = j

\* Whatever is closed where and by whom, the two lists, which share their link
\* field, never share a descriptor, and neither runs in a circle.
ListsSound ==
    /\ LoopTypeOK
    /\ NoRepeat(list) /\ NoRepeat(free)
    /\ Elems(list) \cap Elems(free) = {}

\* A loop comes to a descriptor that is nobody's connection in one way only: the
\* body it has just run has closed the next connection of the list.  Whatever else
\* is closed, its own connection included, the loop goes on along the list.
StraysByNextOnly ==
    [][(cur \in Listed /\ cur' \notin Elems(list') \cup {None})
         => (cur' = Link(list, free, cur) /\ cur' \in Listed)]_loopVars

\* The input loop comes to every connection that is there when it ends, once in
\* each pulse, unless a loop was led astray: nobody's commands wait for a later
\* pulse because somebody else left.
AllServed == phase = "update" /\ ~strayed => Listed \subseteq served

\* A connection that sends nothing does not stay for ever outside the game: it
\* speaks, it plays, or it is closed; unless loops are led astray again and again.
SilentLeaves ==
    \A d \in Desc :
        []<>(d \notin Listed \/ stage[d] = "playing" \/ idle[d] = 0 \/ strayed)
=============================================================================
