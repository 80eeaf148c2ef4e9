----------------------------- MODULE Companions -----------------------------
(***************************************************************************)
(* Who follows whom: the pointers master, leader, pet and mount between    *)
(* characters, the groups, pets, servants and horses that are made of      *)
(* them, and what is left of them when a character leaves the world and    *)
(* its structure is freed.                                                 *)
(*                                                                         *)
(* The helpers of act_comm.c and handler.c work on one record w of all     *)
(* pointers; an action is a command or an event and applies the helpers    *)
(* it calls.  Rooms, sight, skills and luck are choices.                   *)
(***************************************************************************)
EXTENDS Naturals, FiniteSets

CONSTANTS
    Player,   \* structures of player characters
    Mob,      \* structures of mobs
    None,     \* the NULL pointer
    Limit,    \* how many charmed followers max_count_charmed() allows whom: 1, 2 or 3
    MaxAlive  \* bound: characters in the world at once, one less after every spell_order()

ASSUME CompanionsAssumption ==
    /\ Player \cap Mob = {} /\ None \notin Player \cup Mob
    /\ Limit \in [Player \cup Mob -> 1..3]
    /\ MaxAlive \in Nat

VARIABLES
    w,        \* the characters of char_list and the pointers between them; w.lost is
              \* history: who got back a master who had left (spell_order)
    horse,    \* mobs with ACT_MOUNT
    nofollow, \* players with PLR_NOFOLLOW
    orders    \* how many times spell_order() was cast, for the bound only

vars == <<w, horse, nofollow, orders>>

Char  == Player \cup Mob
Links == [Char -> Char \cup {None}]

Charmed(v, c) == {m \in v.charmed : v.master[m] = c}

\* Besides the types: nobody has more charmed followers than he may have, in
\* whatever way they came.
TypeOK ==
    /\ w \in [charmed: SUBSET Mob, master: Links, alive: SUBSET Char, leader: Links,
              pet: Links, mount: Links, riding: SUBSET Char, spelled: SUBSET Mob,
              lost: SUBSET Char]
    /\ horse \subseteq Mob /\ nofollow \subseteq Player
    /\ w.riding \subseteq w.alive /\ w.charmed \subseteq w.alive
    /\ w.spelled \subseteq w.charmed
    /\ \A c \in Char : Cardinality(Charmed(w, c)) <= Limit[c]

NoLinks == [c \in Char |-> None]

Init ==
    /\ w = [charmed |-> {}, master |-> NoLinks, alive |-> {}, leader |-> NoLinks,
            pet |-> NoLinks, mount |-> NoLinks, riding |-> {}, spelled |-> {}, lost |-> {}]
    /\ horse = {} /\ nofollow = {} /\ orders = 0
-----------------------------------------------------------------------------
(* Following.  What the code does to one character after another is done   *)
(* to all of them at once where the order does not matter.                 *)

\* f with the pointers of S set to m.
Put(f, S, m)  == [x \in Char |-> IF x \in S THEN m ELSE f[x]]
Without(f, S) == Put(f, S, None)

AddFollower(v, c, m) ==
    IF v.master[c] # None THEN v
    ELSE [v EXCEPT !.master = Put(v.master, {c}, m), !.leader = Without(v.leader, {c})]

\* The pointers of f, with those to a character of S from its own master cut off.
CutFrom(v, f, S) == [x \in Char |-> IF f[x] \in S /\ v.master[f[x]] = x THEN None ELSE f[x]]

\* Mutant: the master keeps the pointer to a pet that has left him.
StopFollower_KeepPet(v, F) ==
    LET S == {c \in F : v.master[c] # None}
    IN [v EXCEPT !.mount = Without(CutFrom(v, v.mount, S), S),
                 !.master = Without(v.master, S), !.leader = Without(v.leader, S),
                 !.charmed = @ \ S, !.spelled = @ \ S, !.lost = @ \ S]

\* stop_follower() of everybody in F.
StopFollower(v, F) ==
    LET S == {c \in F : v.master[c] # None}
    IN IF S = {} THEN v ELSE [v EXCEPT !.pet = CutFrom(v, v.pet, S),
                 !.mount = Without(CutFrom(v, v.mount, S), S),
                 !.master = Without(v.master, S), !.leader = Without(v.leader, S),
                 !.charmed = @ \ S, !.spelled = @ \ S, !.lost = @ \ S]

Followers(v, S) == {f \in v.alive : v.master[f] \in S}

\* Those whom S leads without being their master lead themselves.
LeadThemselves(v, S) ==
    [v EXCEPT !.leader = [x \in Char |-> IF v.leader[x] \in S THEN x ELSE v.leader[x]]]

NoLongerFollow(v, S) ==
    LET alone == StopFollower(v, S)
    IN [alone EXCEPT !.leader = Without(alone.leader, S)]

\* die_follower() of the mobs in S: all stop following each other.
DieFollowerMob(v, S) ==
    LET alone == NoLongerFollow(v, S)
    IN LeadThemselves(StopFollower(alone, Followers(alone, S)), S)
-----------------------------------------------------------------------------
(* Leaving the world. *)

\* free_char(): the structures may be anybody's next.
Free(v, S) ==
    [v EXCEPT !.alive = @ \ S, !.riding = @ \ S,
              !.charmed = @ \ S, !.spelled = @ \ S, !.lost = @ \ S,
              !.master = Without(v.master, S), !.leader = Without(v.leader, S),
              !.pet = Without(v.pet, S), !.mount = Without(v.mount, S)]

\* What the riders or the horses that are left have of those in S.
FallOff(v, S) ==
    LET R == {r \in Char : v.mount[r] \in S /\ v.mount[v.mount[r]] = r}
    IN [v EXCEPT !.mount = Without(v.mount, R), !.riding = @ \ R]

\* Mutant: the followers of a mob that goes are forgotten.
ExtractMob_Followed(v, S) ==
    LET G == S \cap v.alive
    IN Free(FallOff(NoLongerFollow(v, G), G), G)

\* extract_char() of mobs; one that is freed already is no longer IS_VALID().
ExtractMob(v, S) ==
    LET G == S \cap v.alive
    IN IF G = {} THEN v ELSE Free(FallOff(DieFollowerMob(v, G), G), G)

PetGone(v, S) == ExtractMob(StopFollower(v, S), S)

\* die_follower() of a player.  Servants far from home run away (gone).
DieFollower(v, c, gone) ==
    LET alone == NoLongerFollow(v, {c})
        left  == StopFollower(alone, Followers(alone, {c}) \ gone)
    IN LeadThemselves(PetGone(left, gone), {c})

\* Mobs that die_follower() may send away.
MayGo(v, c) == SUBSET (Followers(v, {c}) \cap Mob)

\* nuke_pets(): the pet, then the mount.
NoPet(v, c) == IF v.pet[c] = None THEN v ELSE PetGone(v, {v.pet[c]})

NoMount(v, c) ==
    LET h == v.mount[c]
    IN IF h = None THEN v
       ELSE ExtractMob([v EXCEPT !.mount = Without(v.mount, {c}), !.riding = @ \ {c, h}], {h})

\* extract_char() sets pet to NULL, "just in case".
NukePets(v, c) ==
    LET bare == NoMount(NoPet(v, c), c)
    IN [bare EXCEPT !.pet = Without(bare.pet, {c})]

\* What extract_char() of a player makes of v before anything is freed.
Stripped(v, c) ==
    LET bare == NukePets(v, c)
    IN {DieFollower(bare, c, gone) : gone \in MayGo(bare, c)}
-----------------------------------------------------------------------------
(* Horses. *)

Mounted(v, c) ==
    LET h == v.mount[c]
    IN /\ h # None /\ c \in v.riding
       /\ v.leader[h] = c /\ v.master[h] = c /\ v.mount[h] = c

Ridden(v, h) ==
    h \in Mob /\ h \in v.riding /\ v.mount[h] # None /\ v.master[h] = v.mount[h]

Dismounted(v, c) == [v EXCEPT !.riding = @ \ {c, v.mount[c]}]

\* do_mount() of h by c succeeds.
CanMount(v, c, h) ==
    /\ c \in Player \ nofollow /\ h \in horse \cap v.alive
    /\ Cardinality(Charmed(v, c)) < Limit[c]
    /\ ~(Ridden(v, h) /\ v.mount[h] # c) /\ ~Mounted(v, c)

\* The mount c had runs away; the rider h had has none.
Mount(v, c, h) ==
    LET old  == v.mount[c]
        left == IF old \in {None, h} THEN v ELSE PetGone(v, {old})
        free == Without(left.mount, {left.mount[h]} \ {None})
    IN [left EXCEPT !.mount = Put(Put(free, {c}, h), {h}, c),
                    !.riding = @ \cup {c, h},
                    !.master = Put(left.master, {h}, c), !.leader = Put(left.leader, {h}, c)]

\* do_mount() as the last call of another command: it works or it does not.
Mounts(v, c, h) == {v} \cup (IF CanMount(v, c, h) THEN {Mount(v, c, h)} ELSE {})

(***************************************************************************)
(* Commands, spells and events.                                            *)
(***************************************************************************)
Same == UNCHANGED <<horse, nofollow>>

Here(c) == c \in w.alive

\* create_mobile() in a freed or new structure.
Created(v, m) == [v EXCEPT !.alive = @ \cup {m}]
Fresh(m) == m \in Mob \ w.alive
Kind(m, isHorse) == horse' = IF isHorse THEN horse \cup {m} ELSE horse \ {m}

\* A mob of the area, perhaps a horse.
Arrive(m) ==
    /\ Fresh(m)
    /\ w' = Created(w, m)
    /\ \E isHorse \in BOOLEAN : Kind(m, isHorse)
    /\ UNCHANGED nofollow

\* reset_room(): a horseman on the horse that was loaded before him.
ResetHorseman(m, h) ==
    /\ Fresh(m) /\ Fresh(h) /\ m # h
    /\ LET in == AddFollower(Created(Created(w, h), m), h, m)
       IN w' = [in EXCEPT !.mount = Put(Put(in.mount, {m}, h), {h}, m),
                          !.riding = @ \cup {m, h}, !.leader = Put(in.leader, {h}, m)]
    /\ horse' = (horse \cup {h}) \ {m}
    /\ UNCHANGED nofollow

Serve(v, m, c) ==
    LET following == AddFollower(v, m, c)
    IN [following EXCEPT !.leader = Put(following.leader, {m}, c), !.charmed = @ \cup {m}]

\* max_count_charmed() does not refuse.
Room(c) == Cardinality(Charmed(w, c)) < Limit[c]

BuyPet(p, m) ==
    /\ Here(p) /\ Fresh(m) /\ p \notin nofollow
    /\ w.pet[p] = None /\ Room(p)
    /\ w' = [Serve(Created(w, m), m, p) EXCEPT !.pet = Put(w.pet, {p}, m)]
    /\ Kind(m, FALSE) /\ UNCHANGED nofollow

\* Zombies, trees, animals, homunculi.
Conjure(p, m) ==
    /\ Here(p) /\ Fresh(m) /\ Room(p)
    /\ w' = Serve(Created(w, m), m, p)
    /\ Kind(m, FALSE) /\ UNCHANGED nofollow

\* Mutant: who is charmed can charm.
Charm_ByCharmed(c, m) ==
    /\ Here(c) /\ m \in Mob /\ Here(m) /\ c # m
    /\ m \notin w.charmed \cup horse
    /\ Room(c)
    /\ w' = [Serve(StopFollower(w, {m}), m, c) EXCEPT !.spelled = @ \cup {m}]
    /\ Same

\* charm(): by a player, or by a mob of a script, which may be a horse with its rider before it.
Charm(c, m) ==
    /\ Here(c) /\ m \in Mob /\ Here(m) /\ c # m
    /\ {c, m} \cap w.charmed = {} /\ m \notin horse
    /\ Room(c)
    /\ w' = [Serve(StopFollower(w, {m}), m, c) EXCEPT !.spelled = @ \cup {m}]
    /\ Same

\* The charm runs out or is dispelled.
CharmEnds(m) ==
    /\ m \in w.spelled
    /\ w' = [w EXCEPT !.master = Without(w.master, {m}), !.leader = Without(w.leader, {m}),
                      !.charmed = @ \ {m}, !.spelled = @ \ {m}]
    /\ Same

\* By a player, or by a mob of a script.
Follow(c, v) ==
    /\ Here(c) /\ c \notin w.charmed /\ Here(v) /\ v # c
    /\ v \notin nofollow
    /\ w' = AddFollower(StopFollower(w, {c}), c, v)
    /\ nofollow' = nofollow \ {c} /\ UNCHANGED horse

FollowSelf(c) ==
    /\ Here(c) /\ c \notin w.charmed /\ w.master[c] # None
    /\ w' = StopFollower(w, {c})
    /\ Same

\* do_nofollow(): the horse of p is sent away.
NoRide(v, p) ==
    LET h    == v.mount[p]
        gone == PetGone(IF Mounted(v, p) THEN Dismounted(v, p) ELSE v, {h})
    IN IF h = None THEN v ELSE [gone EXCEPT !.mount = Without(gone.mount, {p})]

\* "nofollow": the switch.
NoFollow(p) ==
    /\ Here(p)
    /\ \/ /\ p \in nofollow
          /\ nofollow' = nofollow \ {p} /\ UNCHANGED w
       \/ /\ p \notin nofollow
          /\ nofollow' = nofollow \cup {p}
          /\ LET bare == NoRide(NoPet(w, p), p)
             IN \E gone \in MayGo(bare, p) : w' = DieFollower(bare, p, gone)
    /\ UNCHANGED horse

\* "nofollow <victim>".
ForbidToFollow(p, v) ==
    /\ Here(p) /\ p # v /\ Here(v) /\ w.master[v] = p
    /\ w' = IF w.pet[p] = v THEN PetGone(w, {v})
            ELSE IF w.mount[p] = v THEN NoRide(w, p)
            ELSE StopFollower(w, {v})
    /\ Same

\* is_same_group() climbs nine steps at most.
Root(v, c) ==
    LET Up(x)     == IF v.leader[x] = None THEN x ELSE v.leader[x]
        up[n \in 0..9] == IF n = 0 THEN c ELSE Up(up[n - 1])
    IN up[9]

SameGroup(v, c, d) == Root(v, c) = Root(v, d)

\* do_group(): in or out.
Group(p, v) ==
    /\ Here(p) /\ Here(v) /\ p # v
    /\ w.master[p] = None /\ w.leader[p] \in {None, p}
    /\ w.master[v] = p
    /\ w' = [w EXCEPT !.leader = Put(@, {v}, IF SameGroup(w, v, p) THEN None ELSE p)]
    /\ Same

MountCommand(p, h) ==
    /\ Here(p) /\ CanMount(w, p, h)
    /\ w' = Mount(w, p, h)
    /\ Same

\* On his own, or thrown off.
Dismount(p) ==
    /\ Here(p) /\ p \in w.riding
    /\ w' = Dismounted(w, p)
    /\ Same

BuyMount(p, h) ==
    /\ Here(p) /\ Fresh(h) /\ p \notin nofollow
    /\ w.mount[p] = None
    /\ Kind(h, TRUE)
    /\ LET bought == Created(w, h)
       IN w' \in {bought} \cup (IF Room(p) /\ ~Mounted(w, p) THEN {Mount(bought, p, h)} ELSE {})
    /\ UNCHANGED nofollow

\* spell_call_horse(): the horse follows its owner, and carries him if it lets him.
CallHorse(p, h) ==
    /\ Here(p) /\ Fresh(h) /\ p \notin nofollow
    /\ w.mount[p] = None /\ Room(p)
    /\ Kind(h, TRUE)
    /\ LET following == AddFollower(Created(w, h), h, p)
           called    == [following EXCEPT !.leader = Put(following.leader, {h}, p),
                                          !.mount = Put(w.mount, {p}, h)]
       IN w' \in {called, Mount(called, p, h)}
    /\ UNCHANGED nofollow

\* damage(): two who obey the same master, or one his own, fight.
Obeys(v, c) ==
    /\ v.master[c] # None
    /\ c \in v.charmed \/ (c \in Mob /\ v.mount[c] # None /\ v.master[c] = v.mount[c])

GetMaster(v, c) ==
    LET Up(x)     == IF Obeys(v, x) THEN v.master[x] ELSE x
        up[n \in 0..Cardinality(Char)] == IF n = 0 THEN c ELSE Up(up[n - 1])
    IN up[Cardinality(Char)]

\* get_master() comes back: c is not below a circle.
Answers(v, c) == ~Obeys(v, GetMaster(v, c))

Quarrelled(v, c, d) ==
    IF GetMaster(v, c) = GetMaster(v, d) THEN StopFollower(v, {c, d}) ELSE v

Quarrel(c, v) ==
    /\ Here(c) /\ Here(v) /\ c # v
    /\ Obeys(w, c) \/ Obeys(w, v)
    /\ Answers(w, c) /\ GetMaster(w, c) = GetMaster(w, v)
    /\ w' = Quarrelled(w, c, v)
    /\ Same
-----------------------------------------------------------------------------
(* Entering and leaving the world. *)

\* nanny() and fread_pet(): a player with the pet and the mount he was saved with.
Enter(p) ==
    /\ p \in Player \ w.alive
    /\ \E m, h \in (Mob \ w.alive) \cup {None} :
         LET in     == [w EXCEPT !.alive = @ \cup {p} \cup ({m, h} \ {None})]
             petted == IF m = None THEN in
                       ELSE [in EXCEPT !.master = Put(w.master, {m}, p), !.pet = Put(w.pet, {p}, m),
                                       !.leader = Put(w.leader, {m}, p), !.charmed = @ \cup {m}]
             horsed == [petted EXCEPT !.mount = Put(Put(w.mount, {p}, h), {h}, p)]
         IN /\ m = h => m = None
            /\ {m, h} # {None} => p \notin nofollow
            /\ horse' = (horse \cup ({h} \ {None})) \ {m}
            /\ w' \in IF h = None THEN {petted}
                      ELSE {horsed} \cup (IF Cardinality(Charmed(petted, p)) < Limit[p]
                                          THEN {Mount(horsed, p, h)} ELSE {})
    /\ UNCHANGED nofollow

\* extract_char_for_quit(), or extract_char() of a player, who stays when he only died.
Leave(p) ==
    /\ p \in Player /\ Here(p)
    /\ \E u \in Stripped(w, p) : w' \in {u, Free(u, {p})}
    /\ Same

\* A mob dies, is purged, or its servitude ends with it.
MobGone(m) ==
    /\ m \in Mob /\ Here(m)
    /\ w' = ExtractMob(w, {m})
    /\ Same

\* char_update(): the mount of a player who falls into the void runs away.
MountRunsAway(p) ==
    /\ p \in Player /\ Here(p) /\ w.mount[p] \in w.alive
    /\ w' = PetGone(w, {w.mount[p]})
    /\ Same
-----------------------------------------------------------------------------
(* A command inside a spell. *)

\* What c has after the command: the master of before, who may be gone.
GivenBack(v, c) ==
    IF c \notin v.alive THEN v
    ELSE [v EXCEPT !.master = Put(v.master, {c}, w.master[c]), !.charmed = @ \ {c},
                   !.lost = IF w.master[c] \in v.alive \cup {None} THEN @ ELSE @ \cup {c}]

\* The command is over; v may turn on p, if it is still there.
Obeyed(u, p, v) ==
    LET over == GivenBack(u, v)
    IN {over} \cup (IF v \in u.alive /\ Answers(over, v) THEN {Quarrelled(over, v, p)} ELSE {})

\* Those v attacks may die.
Killed(u) ==
    {ExtractMob(u, {x}) : x \in u.alive \cap Mob}
    \cup UNION {Stripped(u, x) : x \in u.alive \cap Player}

\* What a command makes of u, when v must do it: nobody charmed may refuse followers, and
\* nobody with a master may lead a group, but he can mount, dismount and attack.
Commanded(u, v) ==
    LET attacks == {Quarrelled(u, v, d) : d \in {x \in u.alive \ {v} : Answers(u, x)}}
    IN {u} \cup (IF v \in Player \cap u.riding THEN {Dismounted(u, v)} ELSE {})
           \cup {Mount(u, v, h) : h \in {m \in Mob : CanMount(u, v, m)}}
           \cup attacks \cup UNION {Killed(f) : f \in attacks}

\* spell_order(): v does what p says as though charmed by p.
Order(p, v) ==
    LET told == [w EXCEPT !.master = Put(@, {v}, p), !.charmed = @ \cup {v}]
    IN /\ Cardinality(w.alive) + orders < MaxAlive /\ orders' = orders + 1
       /\ Here(p) /\ Here(v) /\ p # v /\ v \notin w.charmed
       /\ w' \in UNION {Obeyed(u, p, v) : u \in Commanded(told, v)}
       /\ Same
-----------------------------------------------------------------------------
Companionship(p) ==
    \/ NoFollow(p) \/ Dismount(p)
    \/ \E v \in Char : ForbidToFollow(p, v)
    \/ \E v \in Player : Group(p, v)
    \/ \E m \in Mob : \/ BuyPet(p, m) \/ Conjure(p, m)
                      \/ BuyMount(p, m) \/ CallHorse(p, m) \/ MountCommand(p, m)
    \/ Enter(p) \/ Leave(p) \/ MountRunsAway(p)

Event ==
    \/ \E m \in Mob : Arrive(m) \/ CharmEnds(m) \/ MobGone(m)
    \/ \E m, h \in Mob : ResetHorseman(m, h)
    \/ \E c \in Char : FollowSelf(c)
    \/ \E c, v \in Char : Follow(c, v) \/ Charm(c, v) \/ Quarrel(c, v)

Next ==
    /\ \/ (Event \/ \E p \in Player : Companionship(p)) /\ UNCHANGED orders
       \/ \E p \in Player, v \in Char : Order(p, v)
    /\ Cardinality(w'.alive) + orders' <= MaxAlive

Spec == Init /\ [][Next]_vars
-----------------------------------------------------------------------------
\* No character's master, leader or pet is one that has left the world, but for the
\* master that spell_order() gives back to its victim when he was killed meanwhile.
FollowLinksAlive ==
    /\ TypeOK
    /\ \A c \in w.alive : /\ {w.leader[c], w.pet[c]} \subseteq w.alive \cup {None}
                          /\ c \in w.lost \/ w.master[c] \in w.alive \cup {None}

\* A pet follows its owner, obeys him and is in his group, so nobody else has it; and
\* nobody stays charmed without a master to obey.
PetsLoyal ==
    /\ \A c \in w.alive : LET m == w.pet[c]
                          IN m # None => /\ w.master[m] = c /\ w.leader[m] = c
                                         /\ m \in w.charmed
    /\ \A m \in w.charmed : w.master[m] # None

\* m follows a horse, or is none itself and follows what it rides without being charmed.
Backwards(m) ==
    \/ w.master[m] \in horse
    \/ m \notin horse \cup w.charmed /\ Obeys(w, m)

\* Who is led is led by the one he follows, or by himself, and no chain turns back on itself
\* but where a mob rides backwards: get_master() ends, since nobody obeys himself through
\* others, and every group has one head, however leaders follow others afterwards.  charm()
\* asks whether its victim is a horse and not whether the one who charms is, and do_follow()
\* asks neither, so a rider can come to obey what carries him.
ChainsEnd ==
    /\ \A c \in w.alive : w.leader[c] \in {None, w.master[c], c}
    /\ \A S \in SUBSET {c \in w.alive : c \in Mob => ~Backwards(c)} : S # {} =>
         /\ \E c \in S : ~Obeys(w, c) \/ w.master[c] \notin S
         /\ \E c \in S : w.leader[c] \in {None, c} \/ w.leader[c] \notin S
=============================================================================
