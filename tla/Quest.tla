------------------------------- MODULE Quest -------------------------------
(***************************************************************************)
(* Quests that mobiles with ACT_QUESTER give: to one player or to a group  *)
(* of them, to bring an object or to kill a mobile, within a time.  What a *)
(* player has to do is kept with the player; who was in a group is kept    *)
(* with the giver (group_quest), until the time is over.                   *)
(***************************************************************************)
EXTENDS Integers, Sequences, SequencesExt, FiniteSets, Lists

CONSTANTS
    Player,
    Quester,      \* the mobiles with ACT_QUESTER
    NoQuester,    \* NULL, or memory that no giver is in (any more)
    Times,        \* number_range(10, 30), a quest's time in ticks
    Wait,         \* TO_NEXT_QUEST (5)
    ShortWait,    \* TO_NEXT_QUEST / 3
    MaxRecords    \* bound on the groups that a giver keeps

ASSUME QuestAssumption ==
    /\ NoQuester \notin Quester
    /\ Times \subseteq Nat \ {0} /\ \E t \in Times : \A u \in Times : u <= t
    /\ {Wait, ShortWait} \subseteq Nat \ {0} /\ ShortWait <= Wait
    /\ MaxRecords \in Nat

VARIABLES
    online,       \* the players in char_list
    band,         \* is_same_group(): a partition of the players
    q,            \* what is kept with a player
    records       \* questman->group_quest, the newest first

vars == <<online, band, q, records>>

MaxTime == CHOOSE t \in Times : \A u \in Times : u <= t

Quest  == [on    : BOOLEAN,                   \* PLR_QUESTING
           giver : Quester \cup {NoQuester},  \* questgiver
           left  : 0..MaxTime,                \* countdown
           wait  : 0..2 * Wait,               \* nextquest
           mob   : {"none", "target", "done"},\* questmob: 0, a vnum, -1
           item  : BOOLEAN,                   \* questobj, QUEST_GET_OBJ
           group : BOOLEAN]                   \* QUEST_GROUP
Record == [names : SUBSET Player, time : 0..MaxTime]

Bands == {B \in SUBSET ((SUBSET Player) \ {{}}) :
            UNION B = Player /\ \A X, Y \in B : X = Y \/ X \cap Y = {}}

TypeOK ==
    /\ online \subseteq Player /\ band \in Bands
    /\ q \in [Player -> Quest]
    /\ records \in [Quester -> Seq(Record)]

NoQuest(wait) == [on |-> FALSE, giver |-> NoQuester, left |-> 0, wait |-> wait,
                  mob |-> "none", item |-> FALSE, group |-> FALSE]

Init ==
    /\ online = Player /\ band = {{p} : p \in Player}
    /\ q = [p \in Player |-> NoQuest(0)]
    /\ records = [s \in Quester |-> <<>>]

-----------------------------------------------------------------------------
Fellows(p) == UNION {B \in band : p \in B}

\* What the players of S have got when their quest has ended.
EndQuest(S, wait) == [p \in Player |-> IF p \in S THEN NoQuest(wait) ELSE q[p]]

\* The record of p's group: the newest one that names p.
HasRecord(p) == q[p].giver \in Quester /\ \E r \in ToSet(records[q[p].giver]) : p \in r.names
First(p, t)  == SelectInSeq(t, LAMBDA r : p \in r.names)
Place(p)     == First(p, records[q[p].giver])
RecordOf(p)  == records[q[p].giver][Place(p)]

Closed(p) == [records EXCEPT ![q[p].giver] = [@ EXCEPT ![Place(p)].time = 0]]

\* Mutant: whoever is in the group will do.
AllHere_Fellows(p, here) == HasRecord(p) /\ RecordOf(p).names \subseteq Fellows(p)

\* Those who were given the quest with p are here, in one group and on a quest.
AllHere(p, here) ==
    /\ HasRecord(p)
    /\ \A n \in RecordOf(p).names : n \in here /\ q[n].on

\* The others who are paid, or lose, with p.
Sharing(p, here) == {p} \cup {f \in here : q[f].group}

-----------------------------------------------------------------------------
(***************************************************************************)
(* Requesting a quest, with those of here in the room, all of p's group.    *)
(***************************************************************************)
\* Mutant: only the one who asks is looked at.
Free_OwnOnly(p, here) == ~q[p].on /\ q[p].wait = 0
Free(p, here) == \A f \in here : ~q[f].on /\ q[f].wait = 0

NothingFound(p, here) ==
    /\ q' = [f \in Player |-> IF f \in here
                              THEN [q[f] EXCEPT !.wait = ShortWait] ELSE q[f]]
    /\ UNCHANGED records

Given(x, s, time, item, mob, group) ==
    [on |-> TRUE, giver |-> s, left |-> time, wait |-> x.wait,
     mob |-> mob, item |-> item, group |-> group]

\* questmob of one who looks for an object is left as it is.
GiveSingle(p, s, time) ==
    /\ \E item \in BOOLEAN :
         q' = [q EXCEPT ![p] =
                 Given(q[p], s, time, item, IF item THEN q[p].mob ELSE "target", FALSE)]
    /\ UNCHANGED records

GiveGroup(p, s, here, time) ==
    /\ q' = [f \in Player |-> IF f \in here
                              THEN Given(q[f], s, time, FALSE, "target", TRUE) ELSE q[f]]
    /\ Len(records[s]) < MaxRecords
    /\ records' = [records EXCEPT ![s] = <<[names |-> here, time |-> time]>> \o @]

Request(p, s, here) ==
    /\ Free(p, here)
    /\ \/ NothingFound(p, here)
       \/ \E time \in Times :
            IF here = {p} THEN GiveSingle(p, s, time)
            ELSE GiveGroup(p, s, here, time)
    /\ UNCHANGED <<online, band>>

-----------------------------------------------------------------------------
(***************************************************************************)
(* Doing it and handing it in.                                             *)
(***************************************************************************)
\* A mobile of the kind that is looked for dies by p's hand: the whole group of p has
\* done what it has to do, whatever that was.
Kill(p) ==
    /\ q[p].on /\ q[p].mob = "target"
    /\ q' = [f \in Player |->
               IF f = p \/ (q[p].group /\ f \in online \cap Fellows(p))
               THEN [q[f] EXCEPT !.mob = "done"] ELSE q[f]]
    /\ UNCHANGED <<online, band, records>>

\* check_quest_complete() finds nothing that speaks against it: no group to ask for, or
\* all of it here.
Passes(p, here) == q[p].group => AllHere(p, here)

\* A player who has the object with him, anybody's object, or has killed.
Done(p) == q[p].item \/ q[p].mob = "done"

\* The answer for an object is asked first, so a killing does not count for it.  Time is
\* taken from the record only for a killing.
Complete(p, s, here) ==
    /\ q[p].on /\ q[p].giver = s
    /\ Passes(p, here) /\ Done(p)
    /\ q' = EndQuest(Sharing(p, here), Wait)
    /\ records' = IF q[p].group /\ ~q[p].item THEN Closed(p) ELSE records
    /\ UNCHANGED <<online, band>>

\* "quest quit".  Of what is done already nobody gets out, but the record of the group
\* is closed all the same; a group whose record is lost can get out.
Quit(p, s, here) ==
    /\ q[p].on /\ q[p].giver = s
    /\ \/ /\ q[p].group => ~HasRecord(p) \/ (AllHere(p, here) /\ q[p].mob # "done")
          /\ q[p].group \/ q[p].item \/ q[p].mob # "done"
          /\ q' = EndQuest(Sharing(p, here), 2 * Wait)
          /\ UNCHANGED records
       \/ /\ q[p].group /\ AllHere(p, here) /\ q[p].mob = "done"
          /\ records' = Closed(p)
          /\ UNCHANGED q
    /\ UNCHANGED <<online, band>>

\* Of those in the room only the fellows of p matter.
AtGiver(p, s) ==
    \E here \in SUBSET Fellows(p) :
        p \in here /\ (Request(p, s, here) \/ Complete(p, s, here) \/ Quit(p, s, here))

-----------------------------------------------------------------------------
(***************************************************************************)
(* q_update(), on every tick.                                              *)
(***************************************************************************)
\* Mutant: no time is taken from a quest whose giver is gone.
Ticked_Given(x) ==
    IF x.wait > 0 THEN [x EXCEPT !.wait = @ - 1]
    ELSE IF ~x.on \/ x.giver \notin Quester THEN x
    ELSE IF x.left <= 1 THEN NoQuest(2 * Wait)
    ELSE [x EXCEPT !.left = @ - 1]

Ticked(x) ==
    IF x.wait > 0 THEN [x EXCEPT !.wait = @ - 1]
    ELSE IF ~x.on THEN x
    ELSE IF x.left <= 1 THEN NoQuest(2 * Wait)
    ELSE [x EXCEPT !.left = @ - 1]

\* The records of s that have more than min ticks left, with one less.
Lasting(s, min) ==
    LET lasting == Kept(records[s], {i \in DOMAIN records[s] : records[s][i].time > min})
    IN [i \in DOMAIN lasting |-> [lasting[i] EXCEPT !.time = @ - 1]]

\* Mutant: one tick too early.
RecordsTicked_Early(s) == Lasting(s, 2)

RecordsTicked(s) == Lasting(s, 1)

Tick ==
    /\ q' = [p \in Player |-> IF p \in online THEN Ticked(q[p]) ELSE q[p]]
    /\ records' = [s \in Quester |-> RecordsTicked(s)]
    /\ UNCHANGED <<online, band>>

-----------------------------------------------------------------------------
(***************************************************************************)
(* Comings and goings.                                                     *)
(***************************************************************************)
\* Groups are made and left as Companions has it; those who are not here have none.
Regroup ==
    /\ \E B \in Bands : /\ \A p \in Player \ online : {p} \in B
                        /\ band' = B
    /\ UNCHANGED <<online, q, records>>

Without(S) == ({B \ S : B \in band} \ {{}}) \cup {{p} : p \in S}

\* can_quit(): not on a quest that is not done.
MayLeave(x) == ~((x.mob = "target" \/ x.item) /\ x.left > 0)

Leave(p) ==
    /\ p \in online /\ MayLeave(q[p])
    /\ online' = online \ {p}
    /\ band' = Without({p})
    /\ UNCHANGED <<q, records>>

\* Of the giver the file holds the vnum, read from wherever the pointer points to, freed
\* memory included; who of that vnum comes first in the world, if anybody does, is the
\* giver from now on.  NULL is not told from freed memory, so it may be mended, too.
Login(p) ==
    /\ p \notin online
    /\ online' = online \cup {p}
    /\ \E s \in IF q[p].on THEN Quester \cup {NoQuester} ELSE {NoQuester} :
         q' = [q EXCEPT ![p].giver = s]
    /\ UNCHANGED <<band, records>>

\* An immortal or a script takes a giver out of the world, and a reset of the area
\* creates another, in the same memory or elsewhere; players go on pointing to where the
\* first one was.
Replace(s) ==
    /\ records' = [records EXCEPT ![s] = <<>>]
    /\ \/ UNCHANGED q
       \/ q' = [p \in Player |-> IF q[p].giver = s THEN [q[p] EXCEPT !.giver = NoQuester]
                                 ELSE q[p]]
    /\ UNCHANGED <<online, band>>

\* A reboot saves everybody; the givers' records are in memory only.
Reboot ==
    /\ online' = {} /\ band' = {{p} : p \in Player}
    /\ records' = [s \in Quester |-> <<>>]
    /\ UNCHANGED q

-----------------------------------------------------------------------------
Next ==
    \/ \E p \in online : \/ \E s \in Quester : AtGiver(p, s)
                         \/ Kill(p)
    \/ Tick \/ Regroup \/ Reboot
    \/ \E p \in Player : Leave(p) \/ Login(p)
    \/ \E s \in Quester : Replace(s)

Spec == Init /\ [][Next]_vars

\* The pulse of the game's loop runs whatever the players do.
FairSpec == Spec /\ WF_vars(Tick)

-----------------------------------------------------------------------------
\* What is kept with a player fits together.
Agrees(x) ==
    /\ x.on <=> x.left > 0
    /\ x.on => x.wait = 0 /\ (x.item \/ x.mob # "none")
    /\ x.on \/ (x.mob # "target" /\ ~x.item /\ ~x.group)
    /\ ~(x.item /\ (x.group \/ x.mob = "target"))

\* A player is on a quest or waits for the next one, or neither, in the game as in the
\* file; who is on one has time left and something to do, and who is not has nothing
\* but a killing that was none of his.
QuestSound == TypeOK /\ \A p \in Player : Agrees(q[p])

AskedToQuit(p) ==
    \E s \in Quester, here \in SUBSET Fellows(p) : p \in here /\ Quit(p, s, here)

\* The giver knows p's group no longer, or not for as long as p has time.
Behind(p) == ~HasRecord(p) \/ RecordOf(p).time < q[p].left

\* The giver remembers a group as long as its players have time: for one who stays in
\* the game the record goes only if the giver is taken away, or if the group asks to get
\* out of what is done already.  Then there is "no such group", and no reward.
RecordKept ==
    [][\A p \in online \cap online' :
         /\ q'[p].on /\ q'[p].group
         /\ q[p].on => ~Behind(p)
         => \/ ~Behind(p)'
            \/ \E s \in Quester : Replace(s)
            \/ \E c \in RecordOf(p).names : q[c].mob = "done" /\ AskedToQuit(c)]_vars

\* A group ends its quest together, paid or not, as long as it has time and its giver
\* knows it: nobody is left behind, but by one who has another quest and takes those of
\* the group along who stand by.
Ended(p) == q[p].on /\ ~q'[p].on

EndsTogether ==
       [][\A p \in Player :
            Ended(p) /\ q[p].group /\ q[p].left > 1 /\ HasRecord(p)
              => \/ \A n \in RecordOf(p).names : q[n].group => ~q'[n].on
                 \/ \E c \in Player : /\ Ended(c)
                                      /\ ~q[c].group \/ ~HasRecord(c)
                                            \/ RecordOf(c) # RecordOf(p)]_vars

\* A quest ends, whatever becomes of its giver and its group, for a player who stays:
\* again and again there is none, or he is not here, so nobody is kept in the game by
\* can_quit() for ever.
QuestEnds == \A p \in Player : []<>(~q[p].on \/ p \notin online)
=============================================================================
