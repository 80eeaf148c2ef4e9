-------------------------------- MODULE Fight --------------------------------
(***************************************************************************)
(* Who fights whom, and the two walks over char_list that move the world:  *)
(* violence_update() (fight.c) and char_update() (update.c).               *)
(*                                                                         *)
(* Both walks save the next character before they run their body, and the  *)
(* body kills, extracts and creates characters.  A freed structure goes to *)
(* char_free, which shares the link field with char_list, and is the first *)
(* to be used again.                                                       *)
(***************************************************************************)
EXTENDS Sequences, SequencesExt, FiniteSets

CONSTANTS Chars,   \* the CHAR_DATA structures
          None     \* the null pointer

ASSUME NoneIsNobody == None \notin Chars

VARIABLES
    w,      \* the characters: two lists, flags and pointers
    walk    \* where the walk over char_list stands

vars == <<w, walk>>

Loops  == {"none", "violence", "update"}
Stages == {"next", "room", "fall", "self", "strike", "sweep", "assist",
           "tick", "quit", "ills"}

(* A structure outside both lists was never handed out by alloc_perm(), or  *)
(* is lost; the finite pool makes no difference between the two.            *)
Worlds == [list   : Seq(Chars),                   \* char_list
           free   : Seq(Chars),                   \* char_free
           mob    : SUBSET Chars,                 \* IS_NPC
           valid  : SUBSET Chars,                 \* IS_VALID
           fight  : [Chars -> Chars \cup {None}], \* ch->fighting
           master : [Chars -> Chars \cup {None}]] \* ch->master of the charmed

(* due, dead, extra and cut are history: who was in the list when the walk began  *)
(* and still waits for his turn, who was dead then and still is, whether    *)
(* somebody had a turn who was not due, and whether a body removed the      *)
(* character the walk had saved.                                            *)
Walks == [loop   : Loops, stage : Stages,
          cur    : Chars \cup {None},             \* ch
          nxt    : Chars \cup {None},             \* ch_next
          victim : Chars \cup {None},
          asked  : SUBSET Chars,                  \* passed by check_assist()
          due    : SUBSET Chars,
          dead   : SUBSET Chars,
          extra  : BOOLEAN, cut : BOOLEAN]

Idle == [loop |-> "none", stage |-> "next", cur |-> None, nxt |-> None,
         victim |-> None, asked |-> {}, due |-> {}, dead |-> {},
         extra |-> FALSE, cut |-> FALSE]

Init ==
    /\ w = [list |-> <<>>, free |-> <<>>, mob |-> {}, valid |-> {},
            fight |-> [c \in Chars |-> None], master |-> [c \in Chars |-> None]]
    /\ walk = Idle

-----------------------------------------------------------------------------
(* Lists and pointers                                                       *)

Listed(u) == ToSet(u.list)
Freed(u)  == ToSet(u.free)

(* The link field of s, whichever list s is in.                             *)
Link(u, s) ==
    LET q    == IF s \in Listed(u) THEN u.list ELSE u.free
        next == {j \in DOMAIN q : j > 1 /\ q[j - 1] = s}
    IN  IF next = {} THEN None ELSE q[CHOOSE j \in next : TRUE]

StopFighting(u, s, both) ==
    [u EXCEPT !.fight = [f \in Chars |->
        IF f \in Listed(u) /\ (f = s \/ (both /\ u.fight[f] = s))
        THEN None ELSE u.fight[f]]]

SetFighting(u, s, v) == IF u.fight[s] = None THEN [u EXCEPT !.fight[s] = v] ELSE u

Servants(u, s) == {m \in Listed(u) : u.master[m] = s}

DieFollower(u, s) ==
    [u EXCEPT !.master = [m \in Chars |->
        IF m = s \/ u.master[m] = s THEN None ELSE u.master[m]]]

(* LIST_REMOVE: out of whichever list the structure is in.                  *)
Unlisted(u, s) == [u EXCEPT !.list = RemoveFirst(@, s), !.free = RemoveFirst(@, s)]

(* free_char() does nothing to a structure that is not valid.               *)
FreeChar(u, s) ==
    IF s \in u.valid
    THEN [u EXCEPT !.free = <<s>> \o @, !.valid = @ \ {s}]
    ELSE u

ExtractMob(u, s) ==
    IF s \in u.valid
    THEN FreeChar(Unlisted(StopFighting(DieFollower(u, s), s, TRUE), s), s)
    ELSE u

(* The pet and those servants of a player who are sent away.                *)
SendAway(u, gone) ==
    FoldLeft(LAMBDA a, m : IF m \in gone THEN ExtractMob(a, m) ELSE a, u, u.list)

(* extract_char(ch, FALSE) of a player: the body stays in the list.         *)
ExtractDead(u, s, gone) ==
    [StopFighting(DieFollower(SendAway(u, gone), s), s, TRUE)
        EXCEPT !.valid = @ \ {s}]

\* Mutant: a player who quits ends his own fight only.
ExtractForQuit_Fought(u, s, gone) ==
    FreeChar(Unlisted(StopFighting(DieFollower(SendAway(u, gone), s), s, FALSE), s), s)

(* extract_char_for_quit(), which does not ask whether s is valid.          *)
ExtractForQuit(u, s, gone) ==
    FreeChar(Unlisted(StopFighting(DieFollower(SendAway(u, gone), s), s, TRUE), s), s)

\* Mutant: new characters are put behind the others.
NewChar_Last(u, s, mob) ==
    [list   |-> Append(u.list, s),
     free   |-> RemoveFirst(u.free, s),
     mob    |-> IF mob THEN u.mob \cup {s} ELSE u.mob \ {s},
     valid  |-> u.valid \cup {s},
     fight  |-> [u.fight EXCEPT ![s] = None],
     master |-> [u.master EXCEPT ![s] = None]]

(* new_char() takes the first free structure and clears it.                 *)
NewChar(u, s, mob) ==
    [list   |-> <<s>> \o u.list,
     free   |-> RemoveFirst(u.free, s),
     mob    |-> IF mob THEN u.mob \cup {s} ELSE u.mob \ {s},
     valid  |-> u.valid \cup {s},
     fight  |-> [u.fight EXCEPT ![s] = None],
     master |-> [u.master EXCEPT ![s] = None]]

Fresh(u) == IF u.free # <<>> THEN {Head(u.free)} ELSE Chars \ Listed(u)

-----------------------------------------------------------------------------
(* Blows                                                                    *)

(* raw_kill(): an atheist quits for good in the same call.                  *)
RawKill(u, v) ==
    LET a == StopFighting(u, v, TRUE) IN
    IF v \in u.mob
    THEN {ExtractMob(a, v)}
    ELSE LET dead == {ExtractDead(a, v, gone) : gone \in SUBSET Servants(a, v)}
         IN  dead \cup {ExtractForQuit(d, v, {}) : d \in dead}

Lord(u, s) == IF u.master[s] = None THEN s ELSE u.master[s]

Quarrel(u, s, v) ==
    IF Lord(u, s) = Lord(u, v)
    THEN [u EXCEPT !.master = [@ EXCEPT ![s] = None, ![v] = None]]
    ELSE u

Engaged(u, s, v) == SetFighting(SetFighting(u, v, s), s, v)

(* adv_dam() without `aff': what a blow, or a group of blows, leads to.     *)
Blows(u, s, v) ==
    IF ~({s, v} \subseteq u.valid) THEN {u}
    ELSE IF s = v THEN {u} \cup RawKill(u, s)
    ELSE LET struck == {Quarrel(Engaged(u, s, v), s, v),
                        Quarrel(u, s, v)}             \* v lies stunned
         IN  {u}                                      \* is_safe()
             \cup (IF v \in u.mob /\ u.fight[v] = None
                   THEN {SetFighting(u, v, s)} ELSE {})   \* TRIG_KILL
             \cup struck
             \cup {StopFighting(a, v, FALSE) : a \in struck}   \* knocked out
             \cup {StopFighting(a, v, TRUE) : a \in struck}    \* flees, recalls
             \cup (UNION {RawKill(a, v) : a \in struck})
             \cup (UNION {RawKill(a, s) : a \in struck})       \* shields

(* Damage that an affect or a room does, no matter who caused it.           *)
Harm(u, s) == IF s \in u.valid THEN {u} \cup RawKill(u, s) ELSE {u}

-----------------------------------------------------------------------------
(* A change of the world, with what it means for a walk under way           *)

Dead(u) == Listed(u) \ (u.mob \cup u.valid)

Recorded(u, k) ==
    [k EXCEPT !.due  = @ \cap Listed(u),
              !.dead = @ \cap Dead(u),
              !.cut  = @ \/ walk.nxt \in Listed(w) \ Listed(u)]

Step(u, stage) ==
    /\ w' = u
    /\ walk' = Recorded(u, [walk EXCEPT !.stage = stage])

In(loop, stage) == walk.loop = loop /\ walk.stage = stage

\* Mutant: whatever is found invalid is validated, mobs too.
Validated_All(u, s) == [u EXCEPT !.valid = @ \cup {s}]

(* A player who was invalidated by his death is back in the game.           *)
Validated(u, s) == IF s \in u.mob THEN u ELSE [u EXCEPT !.valid = @ \cup {s}]

-----------------------------------------------------------------------------
(* The walks                                                                *)

Begin(loop) ==
    /\ walk.loop = "none"
    /\ walk' = [Idle EXCEPT !.loop = loop,
                            !.nxt = IF w.list = <<>> THEN None ELSE Head(w.list),
                            !.due = Listed(w), !.dead = Dead(w)]
    /\ UNCHANGED w

End ==
    /\ walk.loop # "none"
    /\ walk.stage = "next" /\ walk.nxt = None
    /\ walk' = Idle
    /\ UNCHANGED w

(* LIST_FOREACH_SAFE: the next character is read before the body runs.      *)
Turn(stage) ==
    [walk EXCEPT !.stage  = stage,
                 !.cur    = walk.nxt,
                 !.nxt    = Link(w, walk.nxt),
                 !.victim = None,
                 !.asked  = {},
                 !.due    = @ \ {walk.nxt},
                 !.extra  = @ \/ walk.nxt \notin walk.due]

\* Mutant: violence_update() passes over the invalid as char_update() does.
TakeViolence_Skip ==
    /\ In("violence", "next") /\ walk.nxt # None
    /\ walk' = Turn(IF walk.nxt \in w.valid THEN "room" ELSE "next")
    /\ UNCHANGED w

TakeViolence ==
    /\ In("violence", "next") /\ walk.nxt # None
    /\ \/ /\ walk.nxt \in w.valid
          /\ walk' = Turn("room")
          /\ UNCHANGED w
       \/ /\ walk.nxt \notin w.valid
          /\ w' = Validated(w, walk.nxt)
          /\ walk' = Recorded(w', Turn("next"))

(* Clouds and sunlight may kill him and the turn goes on; when hunger or a  *)
(* trap room killed him, hmm_update() says so and the turn is over.         *)
RoomHarm ==
    /\ In("violence", "room")
    /\ \E u \in IF walk.cur \in Listed(w) THEN Harm(w, walk.cur) ELSE {w} :
          \/ u # w /\ Step(u, "next")
          \/ walk.cur \notin Listed(u) /\ Step(u, "next")
          \/ /\ walk.cur \in Listed(u)
             /\ w' = u
             /\ walk' = Recorded(u, [walk EXCEPT !.stage = "fall",
                                                 !.victim = u.fight[walk.cur]])

(* The second test of IS_VALID, which stands behind check_air() and again   *)
(* behind what a mob does on its own.                                       *)
GoOn(u, stage) ==
    IF walk.cur \in u.valid
    THEN Step(u, stage)
    ELSE Step(Validated(u, walk.cur), "next")

(* check_air(): the fights are over before he hits the ground.              *)
Fall ==
    /\ In("violence", "fall")
    /\ \E u \in {w} \cup Harm(StopFighting(w, walk.cur, TRUE), walk.cur) :
          GoOn(u, "self")

(* Special functions, scripts, hunting and wandering.                       *)
Scripts(u, s) ==
    {u} \cup (UNION {Blows(u, s, v) : v \in Listed(u)})
        \cup {ExtractMob(u, m) : m \in Listed(u) \cap u.mob}
        \cup {StopFighting(u, v, TRUE) : v \in Listed(u)}      \* transfer

Self ==
    /\ In("violence", "self")
    /\ \E u \in IF walk.cur \in w.mob THEN Scripts(w, walk.cur) ELSE {w} :
          \/ walk.cur \in w.mob /\ Step(u, "next")
          \/ GoOn(u, IF walk.victim = None THEN "next" ELSE "strike")

(* The victim was read before the mob acted on its own: it may be gone.     *)
Strike ==
    /\ In("violence", "strike")
    /\ \/ /\ walk.victim \in Listed(w)
          /\ \E u \in Blows(w, walk.cur, walk.victim) : Step(u, "sweep")
       \/ Step(StopFighting(w, walk.cur, TRUE), "sweep")       \* another room
       \/ Step(StopFighting(w, walk.cur, FALSE), "sweep")      \* asleep

(* mob_hit() with OFF_AREA_ATTACK goes on to all who fight the mob.         *)
SweepOther ==
    /\ In("violence", "sweep")
    /\ walk.cur \in w.mob /\ w.fight[walk.cur] = walk.victim
    /\ \E v \in Listed(w) \ {walk.victim} :
          /\ w.fight[v] = walk.cur
          /\ \E u \in Blows(w, walk.cur, v) : Step(u, "sweep")

SweepEnds ==
    /\ In("violence", "sweep")
    /\ walk' = [walk EXCEPT !.victim = w.fight[walk.cur],
                            !.stage  = IF w.fight[walk.cur] = None
                                       THEN "next" ELSE "assist"]
    /\ UNCHANGED w

(* check_assist() keeps its victim when a helper has killed it.             *)
Assist ==
    /\ In("violence", "assist")
    /\ \E r \in Listed(w) \ walk.asked :
       \E t \in {walk.victim} \cup (IF r \in w.mob THEN Listed(w) \ {r} ELSE {}) :
          /\ w.fight[r] = None
          /\ \E u \in Blows(w, r, t) :
                /\ w' = u
                /\ walk' = Recorded(u, [walk EXCEPT !.asked = @ \cup {r}])

(* The fight and hit point triggers of a mob, its things and the room.      *)
FightTriggers ==
    /\ In("violence", "assist")
    /\ \E u \in IF walk.cur \in w.valid THEN Scripts(w, walk.cur) ELSE {w} :
          Step(u, "next")

TakeUpdate ==
    /\ In("update", "next") /\ walk.nxt # None
    /\ walk' = Turn(IF walk.nxt \in w.valid THEN "tick" ELSE "next")
    /\ UNCHANGED w

(* Twelve idle ticks: into limbo; a mount without equal does not wait.      *)
Limbo ==
    /\ In("update", "tick") /\ walk.cur \in Listed(w) \ w.mob
    /\ LET u == StopFighting(w, walk.cur, TRUE) IN
       \/ Step(u, "quit")
       \/ \E m \in Listed(w) \cap w.mob : Step(ExtractMob(u, m), "quit")

NoLimbo == In("update", "tick") /\ Step(w, "quit")

(* Link-dead or idle too long: do_quit() may still refuse.                  *)
TickQuit ==
    /\ In("update", "quit") /\ walk.cur \notin w.mob
    /\ \E gone \in SUBSET Servants(w, walk.cur) :
          Step(ExtractForQuit(w, walk.cur, gone), "next")

QuitRefused ==
    In("update", "quit") /\ walk.cur \notin w.mob /\ Step(w, "next")

(* Affects that end: a borrowed shape is extracted, a charm wears off.      *)
Stays ==
    /\ In("update", "quit")
    /\ \/ Step(w, "ills")
       \/ walk.cur \in w.mob /\ Step(ExtractMob(w, walk.cur), "ills")
       \/ Step([w EXCEPT !.master[walk.cur] = None], "ills")

(* Thorns, fading, bleeding, fire, plague, poison, drowning.                *)
Ills ==
    /\ In("update", "ills")
    /\ \E u \in IF walk.cur \in Listed(w) THEN Harm(w, walk.cur) ELSE {w} :
          Step(u, "next")

-----------------------------------------------------------------------------
(* Between the walks, and from within their bodies                          *)

(* A login, a reset, a spell or a script brings somebody into the world.    *)
Arrive ==
    \E s \in Fresh(w), mob \in BOOLEAN :
        /\ w' = NewChar(w, s, mob)
        /\ UNCHANGED walk

Commands == walk.loop = "none" /\ UNCHANGED walk

Attack ==
    /\ Commands
    /\ \E s, v \in Listed(w) : w.master[s] # v /\ w' \in Blows(w, s, v)

Flee ==
    /\ Commands
    /\ \E s \in Listed(w) : w.fight[s] # None /\ w' = StopFighting(w, s, TRUE)

Rescue ==
    /\ Commands
    /\ \E s, v \in Listed(w) :
          LET f == w.fight[v]
              u == StopFighting(StopFighting(w, f, FALSE), v, FALSE)
          IN  /\ s # v /\ w.fight[s] # v /\ f # None
              /\ w' = SetFighting(SetFighting(SetFighting(u, s, f), f, s), v, f)

Charm ==
    /\ Commands
    /\ \E s \in Listed(w) \ w.mob, m \in Listed(w) \cap w.mob :
          /\ w.master[m] = None
          /\ w' = [w EXCEPT !.master[m] = s]

Quit ==
    /\ Commands
    /\ \E s \in Listed(w) \ w.mob :
          /\ w.fight[s] = None
          /\ \E gone \in SUBSET Servants(w, s) : w' = ExtractForQuit(w, s, gone)

Purge ==
    /\ Commands
    /\ \E m \in Listed(w) \cap w.mob : w' = ExtractMob(w, m)

Violence == \/ Begin("violence") \/ TakeViolence \/ RoomHarm \/ Fall \/ Self
            \/ Strike \/ SweepOther \/ SweepEnds \/ Assist \/ FightTriggers
Update   == \/ Begin("update") \/ TakeUpdate \/ Limbo \/ NoLimbo \/ TickQuit
            \/ QuitRefused \/ Stays \/ Ills
Players  == Attack \/ Flee \/ Rescue \/ Charm \/ Quit \/ Purge

Next == Violence \/ Update \/ End \/ Players \/ Arrive

Spec == Init /\ [][Next]_vars

-----------------------------------------------------------------------------
TypeOK == w \in Worlds /\ walk \in Walks

(* Every structure is in one of the two lists at most, which share a link,   *)
(* and there once.  A mob is valid while it is in the world and never after: *)
(* a freed mob takes no turn and no blow, not even when a walk has strayed   *)
(* into char_free and validates the players that it finds there.             *)
ListsSound ==
    /\ TypeOK
    /\ IsInjective(w.list \o w.free)
    /\ \A m \in w.mob : m \in w.valid <=> m \in Listed(w)

(* Whoever fights, fights somebody who is in the world: no death, flight,   *)
(* quit or purge leaves a pointer to a structure that will be used again.   *)
FightingAlive ==
    \A s \in Chars : w.fight[s] # None => {s, w.fight[s]} \subseteq Listed(w)

(* A turn is missed, or had twice, only in a walk whose body has removed    *)
(* the character that the walk had saved as the next one.                   *)
WholeWalk == walk.loop # "none" /\ walk.stage = "next" /\ walk.nxt = None /\ ~walk.cut

TurnsLostByCutOnly ==
    /\ walk.extra => walk.cut
    /\ WholeWalk => walk.due = {}

(* A player who has died is invalid, and out of reach of every blow, until  *)
(* violence_update() comes to him: when it reaches its end uncut, nobody is *)
(* dead who was dead when it began.                                         *)
DeadReturn == WholeWalk /\ walk.loop = "violence" => walk.dead = {}
====
