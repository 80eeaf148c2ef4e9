-------------------------- MODULE CompanionsProofs --------------------------
(***************************************************************************)
(* Proofs about Companions: no link to a character that has left, loyal    *)
(* pets, and chains that end.                                              *)
(*                                                                         *)
(* "Closed" is what every helper keeps, even of the world while            *)
(* spell_order() pretends that somebody is charmed; "Sound" is what every  *)
(* command keeps.  Whoever leaves only loosens the links ("Loosens"), and  *)
(* a world that is closed and looser than a sound one is sound.            *)
(***************************************************************************)
EXTENDS Companions, FiniteSetTheorems, TLAPS

Worlds == [charmed: SUBSET Char, master: Links, alive: SUBSET Char, leader: Links,
           pet: Links, mount: Links, riding: SUBSET Char, spelled: SUBSET Char,
           lost: SUBSET Char]

\* The dead have no links, and the living none to the dead but for a master given back.
Linked(v) ==
    /\ \A c \in Char \ v.alive : v.master[c] = None /\ v.leader[c] = None /\ v.pet[c] = None
    /\ \A c \in v.alive : /\ v.leader[c] \in v.alive \cup {None}
                          /\ v.pet[c] \in v.alive \cup {None}
                          /\ c \in v.lost \/ v.master[c] \in v.alive \cup {None}

\* Pets follow their owner and are in his group, and the charmed have a master.
Loyal(v) ==
    /\ \A c \in Char : v.pet[c] # None => /\ v.master[v.pet[c]] = c /\ v.leader[v.pet[c]] = c
                                          /\ v.pet[c] \in v.charmed
    /\ \A m \in v.charmed : v.master[m] \in v.alive

Closed(v) ==
    /\ v \in Worlds
    /\ v.riding \subseteq v.alive /\ v.charmed \subseteq v.alive /\ v.spelled \subseteq v.charmed
    /\ Linked(v) /\ Loyal(v)

\* Only mobs are charmed; pets stay it, and horses are not; a mob that is neither is led by
\* nobody; players are led by players and ride mobs.
Kinds(v, hs) ==
    /\ v.charmed \subseteq Mob \ hs
    /\ \A c \in Char : v.pet[c] \notin v.spelled
    /\ \A m \in Mob \ (v.charmed \cup hs) : v.leader[m] \in {None, m}
    /\ \A p \in Player : /\ v.leader[p] \in Player \cup {None}
                         /\ v.mount[p] \in Mob \cup {None}

\* Leaders are masters; without a horse among them neither the charmed and their masters
\* nor the led and their leaders make a circle.
Ends(v, hs) ==
    /\ \A c \in Char : v.leader[c] \in {None, v.master[c], c}
    /\ \A S \in (SUBSET (v.alive \ hs)) \ {{}} :
         /\ \E c \in S : c \notin v.charmed \/ v.master[c] \notin S
         /\ \E c \in S : v.leader[c] \in {None, c} \/ v.leader[c] \notin S

Counted(v) ==
    /\ IsFiniteSet(v.alive)
    /\ \A c \in Char : Cardinality(Charmed(v, c)) <= Limit[c]

Sound(v, hs) == Closed(v) /\ Kinds(v, hs) /\ Ends(v, hs) /\ Counted(v)

CompanionsInv == Sound(w, horse) /\ horse \subseteq Mob /\ nofollow \subseteq Player

\* v is u with nobody new in it and with fewer links.
Loosens(u, v) ==
    /\ v.alive \subseteq u.alive /\ v.charmed \subseteq u.charmed /\ v.spelled \subseteq u.spelled
    /\ \A c \in Char :
         /\ \/ v.master[c] = u.master[c]
            \/ v.master[c] = None /\ v.leader[c] \in {None, c}
         /\ v.leader[c] \in {u.leader[c], None, c}
         /\ v.mount[c] \in {u.mount[c], None}
         /\ v.pet[c] \in {u.pet[c], None}
         /\ v.master[c] # None /\ c \in u.charmed => c \in v.charmed

-----------------------------------------------------------------------------
(* Loosening. *)

LEMMA LoosensSame ==
    ASSUME NEW v
    PROVE  Loosens(v, v)
BY DEF Loosens

LEMMA LoosensOn ==
    ASSUME NEW a \in Worlds, NEW b \in Worlds, NEW c \in Worlds, Loosens(a, b), Loosens(b, c)
    PROVE  Loosens(a, c)
BY DEF Loosens

LEMMA NoneApart ==
    None \notin Char /\ Player \cap Mob = {} /\ Player \subseteq Char /\ Mob \subseteq Char
BY CompanionsAssumption DEF Char

LEMMA LooserEnds ==
    ASSUME NEW u \in Worlds, NEW v \in Worlds, NEW hs, Loosens(u, v), Ends(u, hs)
    PROVE  Ends(v, hs)
<1>1. \A c \in Char : v.leader[c] \in {None, v.master[c], c}
  BY DEF Loosens, Ends
<1>2. ASSUME NEW S \in (SUBSET (v.alive \ hs)) \ {{}}
      PROVE  /\ \E c \in S : c \notin v.charmed \/ v.master[c] \notin S
             /\ \E c \in S : v.leader[c] \in {None, c} \/ v.leader[c] \notin S
  <2>1. S \in (SUBSET (u.alive \ hs)) \ {{}} /\ S \subseteq Char
    BY DEF Loosens, Worlds
  <2>2. PICK c \in S : c \notin u.charmed \/ u.master[c] \notin S
    BY <2>1 DEF Ends
  <2>3. PICK d \in S : u.leader[d] \in {None, d} \/ u.leader[d] \notin S
    BY <2>1 DEF Ends
  <2>4. c \notin v.charmed \/ v.master[c] \notin S
    BY <2>1, <2>2, NoneApart DEF Loosens
  <2>5. v.leader[d] \in {None, d} \/ v.leader[d] \notin S
    BY <2>1, <2>3 DEF Loosens
  <2> QED
    BY <2>4, <2>5
<1> QED
  BY <1>1, <1>2 DEF Ends

LEMMA LooserCounted ==
    ASSUME NEW u \in Worlds, NEW v \in Worlds, Loosens(u, v), Counted(u),
           u.charmed \subseteq u.alive
    PROVE  Counted(v)
<1>1. IsFiniteSet(v.alive)
  BY FS_Subset DEF Counted, Loosens
<1>2. ASSUME NEW c \in Char
      PROVE  Cardinality(Charmed(v, c)) <= Limit[c]
  <2>1. Charmed(v, c) \subseteq Charmed(u, c)
    BY NoneApart DEF Charmed, Loosens, Worlds
  <2>2. IsFiniteSet(Charmed(u, c))
    BY FS_Subset DEF Counted, Charmed
  <2>3. Cardinality(Charmed(v, c)) <= Cardinality(Charmed(u, c))
    BY <2>1, <2>2, FS_Subset
  <2>4. Cardinality(Charmed(v, c)) \in Nat /\ Cardinality(Charmed(u, c)) \in Nat
    BY <2>1, <2>2, FS_Subset, FS_CardinalityType
  <2>5. Limit[c] \in Nat
    BY CompanionsAssumption DEF Char
  <2> QED
    BY <2>3, <2>4, <2>5 DEF Counted
<1> QED
  BY <1>1, <1>2 DEF Counted

LEMMA LooserSound ==
    ASSUME NEW u, NEW v, NEW hs, Sound(u, hs), Loosens(u, v), Closed(v)
    PROVE  Sound(v, hs)
<1>1. u \in Worlds /\ v \in Worlds /\ u.charmed \subseteq u.alive
  BY DEF Sound, Closed
<1>2. Ends(v, hs)
  BY <1>1, LooserEnds DEF Sound
<1>3. Counted(v)
  BY <1>1, LooserCounted DEF Sound
<1>4. Kinds(v, hs)
  <2>1. v.charmed \subseteq Mob \ hs
    BY DEF Sound, Kinds, Loosens
  <2>2. \A c \in Char : v.pet[c] \notin v.spelled
    BY <1>1, NoneApart DEF Sound, Kinds, Loosens, Closed, Worlds
  <2>3. ASSUME NEW m \in Mob \ (v.charmed \cup hs) PROVE v.leader[m] \in {None, m}
    <3>1. m \in Char /\ v.leader[m] \in {u.leader[m], None, m}
      BY NoneApart DEF Loosens
    <3>2. CASE m \notin u.charmed
      BY <3>1, <3>2 DEF Sound, Kinds
    <3>3. CASE m \in u.charmed
      <4>1. v.master[m] = None /\ u.master[m] \in u.alive
        BY <3>1, <3>3 DEF Sound, Closed, Loyal, Loosens
      <4>2. u.master[m] # None
        BY <1>1, <4>1, NoneApart DEF Worlds
      <4> QED
        BY <3>1, <4>1, <4>2 DEF Loosens
    <3> QED
      BY <3>2, <3>3
  <2>4. \A p \in Player : /\ v.leader[p] \in Player \cup {None}
                          /\ v.mount[p] \in Mob \cup {None}
    BY NoneApart DEF Sound, Kinds, Loosens
  <2> QED
    BY <2>1, <2>2, <2>3, <2>4 DEF Kinds
<1> QED
  BY <1>2, <1>3, <1>4 DEF Sound

-----------------------------------------------------------------------------
(* The helpers of following. *)

\* v is made of u by breaking links, and is as closed.
Breaks(u, v) == Closed(v) /\ Loosens(u, v)

LEMMA BreaksOn ==
    ASSUME NEW a, NEW b, NEW c, Closed(a), Breaks(a, b), Breaks(b, c)
    PROVE  Breaks(a, c)
BY LoosensOn DEF Breaks, Closed

LEMMA BreaksSame ==
    ASSUME NEW v, Closed(v)
    PROVE  Breaks(v, v)
BY LoosensSame DEF Breaks

LEMMA PutLinks ==
    ASSUME NEW f \in Links, NEW S, NEW m \in Char \cup {None}
    PROVE  /\ Put(f, S, m) \in Links
           /\ \A x \in Char : Put(f, S, m)[x] = IF x \in S THEN m ELSE f[x]
BY DEF Put, Links

LEMMA WithoutLinks ==
    ASSUME NEW f \in Links, NEW S
    PROVE  /\ Without(f, S) \in Links
           /\ \A x \in Char : Without(f, S)[x] = IF x \in S THEN None ELSE f[x]
BY PutLinks DEF Without

LEMMA CutLinks ==
    ASSUME NEW v \in Worlds, NEW f \in Links, NEW S
    PROVE  /\ CutFrom(v, f, S) \in Links
           /\ \A x \in Char : CutFrom(v, f, S)[x] =
                  IF f[x] \in S /\ v.master[f[x]] = x THEN None ELSE f[x]
BY DEF CutFrom, Links

\* Who stops following has no master, and nobody else loses or gets one.
LEMMA StopBreaks ==
    ASSUME NEW v, Closed(v), NEW F \in SUBSET Char
    PROVE  /\ Breaks(v, StopFollower(v, F))
           /\ StopFollower(v, F).alive = v.alive
           /\ \A x \in Char : StopFollower(v, F).master[x] = IF x \in F THEN None ELSE v.master[x]
<1> DEFINE S == {c \in F : v.master[c] # None}
           u == StopFollower(v, F)
<1>0. v \in Worlds
  BY DEF Closed
<1>1. CASE S = {}
  <2>1. u = v
    BY <1>1 DEF StopFollower
  <2> QED
    BY <1>1, <2>1, BreaksSame
<1>2. CASE S # {}
  <2>1. u = [v EXCEPT !.pet = CutFrom(v, v.pet, S),
                      !.mount = Without(CutFrom(v, v.mount, S), S),
                      !.master = Without(v.master, S), !.leader = Without(v.leader, S),
                      !.charmed = @ \ S, !.spelled = @ \ S, !.lost = @ \ S]
    BY <1>2 DEF StopFollower
  <2>2. /\ CutFrom(v, v.pet, S) \in Links /\ Without(CutFrom(v, v.mount, S), S) \in Links
        /\ Without(v.master, S) \in Links /\ Without(v.leader, S) \in Links
    BY <1>0, CutLinks, WithoutLinks DEF Worlds
  <2>3. /\ u \in Worlds /\ u.alive = v.alive /\ u.riding = v.riding
        /\ u.charmed = v.charmed \ S /\ u.spelled = v.spelled \ S /\ u.lost = v.lost \ S
        /\ u.pet = CutFrom(v, v.pet, S) /\ u.mount = Without(CutFrom(v, v.mount, S), S)
        /\ u.master = Without(v.master, S) /\ u.leader = Without(v.leader, S)
    <3> HIDE DEF S, u
    <3> QED
      BY <1>0, <2>1, <2>2 DEF Worlds
  <2>4. /\ \A x \in Char : u.master[x] = IF x \in S THEN None ELSE v.master[x]
        /\ \A x \in Char : u.leader[x] = IF x \in S THEN None ELSE v.leader[x]
        /\ \A x \in Char : u.pet[x] = IF v.pet[x] \in S THEN None ELSE v.pet[x]
        /\ \A x \in Char : u.mount[x] \in {v.mount[x], None}
    <3>1. \A x \in Char : v.pet[x] \in S => v.master[v.pet[x]] = x
      BY NoneApart DEF Closed, Loyal
    <3> HIDE DEF S, u
    <3> QED
      BY <1>0, <2>2, <2>3, <3>1, CutLinks, WithoutLinks DEF Worlds
  <2>5. Linked(u)
    <3> HIDE DEF u
    <3> QED
      BY <1>0, <2>3, <2>4 DEF Closed, Linked, Worlds
  <2>6. Loyal(u)
    <3> HIDE DEF u
    <3> QED
      BY <1>0, <2>3, <2>4 DEF Closed, Loyal, Worlds
  <2>7. Closed(u)
    <3> HIDE DEF u, S
    <3> QED
      BY <2>3, <2>5, <2>6 DEF Closed
  <2>8. Loosens(v, u)
    <3> HIDE DEF u
    <3> QED
      BY <2>3, <2>4 DEF Loosens
  <2>9. \A x \in Char : u.master[x] = IF x \in F THEN None ELSE v.master[x]
    BY <2>4
  <2> QED
    BY <2>3, <2>7, <2>8, <2>9 DEF Breaks
<1> QED
  BY <1>1, <1>2

\* One without a master can be taken out of his group; he is nobody's pet.
LEMMA UnleadBreaks ==
    ASSUME NEW v, Closed(v), NEW S \in SUBSET Char, \A x \in S : v.master[x] = None
    PROVE  LET u == [v EXCEPT !.leader = Without(v.leader, S)]
           IN /\ Breaks(v, u) /\ u.alive = v.alive /\ u.master = v.master
              /\ \A x \in S : u.leader[x] = None
<1> DEFINE u == [v EXCEPT !.leader = Without(v.leader, S)]
<1>0. v \in Worlds
  BY DEF Closed
<1>1. /\ u \in Worlds /\ u.alive = v.alive /\ u.riding = v.riding
      /\ u.charmed = v.charmed /\ u.spelled = v.spelled /\ u.lost = v.lost
      /\ u.pet = v.pet /\ u.mount = v.mount /\ u.master = v.master
      /\ \A x \in Char : u.leader[x] = IF x \in S THEN None ELSE v.leader[x]
  BY <1>0, WithoutLinks DEF Worlds
<1> HIDE DEF u
<1>2. Linked(u)
  BY <1>0, <1>1 DEF Closed, Linked, Worlds
<1>3. Loyal(u)
  BY <1>0, <1>1, NoneApart DEF Closed, Loyal, Worlds
<1>4. Closed(u) /\ Loosens(v, u)
  BY <1>1, <1>2, <1>3 DEF Closed, Loosens
<1> QED
  BY <1>1, <1>4 DEF Breaks, u

LEMMA NoLongerBreaks ==
    ASSUME NEW v, Closed(v), NEW S \in SUBSET Char
    PROVE  LET u == NoLongerFollow(v, S)
           IN /\ Breaks(v, u) /\ u.alive = v.alive
              /\ \A x \in Char : u.master[x] = IF x \in S THEN None ELSE v.master[x]
<1> DEFINE alone == StopFollower(v, S)
<1>1. /\ Breaks(v, alone) /\ alone.alive = v.alive
      /\ \A x \in Char : alone.master[x] = IF x \in S THEN None ELSE v.master[x]
  BY StopBreaks
<1>2. NoLongerFollow(v, S) = [alone EXCEPT !.leader = Without(alone.leader, S)]
  BY DEF NoLongerFollow
<1> HIDE DEF alone
<1>3. Closed(alone)
  BY <1>1 DEF Breaks
<1>4. LET u == [alone EXCEPT !.leader = Without(alone.leader, S)]
      IN Breaks(alone, u) /\ u.alive = alone.alive /\ u.master = alone.master
  BY <1>1, <1>3, UnleadBreaks
<1> QED
  BY <1>1, <1>2, <1>4, BreaksOn

\* Nobody left follows anybody of S.
Shunned(v, S) ==
    /\ \A x \in v.alive : v.master[x] \notin S
    /\ \A x \in S : v.master[x] = None

LEMMA LeadBreaks ==
    ASSUME NEW v, Closed(v), NEW S \in SUBSET Char, Shunned(v, S)
    PROVE  LET u == LeadThemselves(v, S)
           IN /\ Breaks(v, u) /\ u.alive = v.alive /\ Shunned(u, S)
              /\ \A x \in Char : u.leader[x] \in S => u.leader[x] = x
<1> DEFINE u == LeadThemselves(v, S)
<1>0. v \in Worlds
  BY DEF Closed
<1>1. /\ u \in Worlds /\ u.alive = v.alive /\ u.riding = v.riding
      /\ u.charmed = v.charmed /\ u.spelled = v.spelled /\ u.lost = v.lost
      /\ u.pet = v.pet /\ u.mount = v.mount /\ u.master = v.master
      /\ \A x \in Char : u.leader[x] = IF v.leader[x] \in S THEN x ELSE v.leader[x]
  BY <1>0 DEF Worlds, LeadThemselves, Links
<1> HIDE DEF u
<1>2. Linked(u)
  BY <1>0, <1>1, NoneApart DEF Closed, Linked, Worlds
<1>3. Loyal(u)
  <2>1. ASSUME NEW c \in Char, u.pet[c] # None
        PROVE  /\ u.master[u.pet[c]] = c /\ u.leader[u.pet[c]] = c /\ u.pet[c] \in u.charmed
    <3>1. /\ v.master[v.pet[c]] = c /\ v.leader[v.pet[c]] = c /\ v.pet[c] \in v.charmed
      BY <1>1, <2>1 DEF Closed, Loyal
    <3>2. v.pet[c] \in v.alive /\ v.pet[c] \in Char /\ c \notin S
      BY <1>0, <3>1 DEF Closed, Worlds, Shunned
    <3> QED
      BY <1>1, <3>1, <3>2
  <2> QED
    BY <1>1, <2>1 DEF Closed, Loyal
<1>4. Closed(u) /\ Loosens(v, u)
  BY <1>1, <1>2, <1>3 DEF Closed, Loosens
<1> QED
  BY <1>0, <1>1, <1>4, NoneApart DEF Breaks, Shunned, Worlds, Links, u

-----------------------------------------------------------------------------
(* Who leaves the world leaves no link to himself. *)

\* S is ready to be freed.
Apart(v, S) ==
    Shunned(v, S) /\ \A x \in Char : v.leader[x] \in S => v.leader[x] = x

LEMMA DieMobBreaks ==
    ASSUME NEW v, Closed(v), NEW S \in SUBSET Char
    PROVE  LET u == DieFollowerMob(v, S)
           IN Breaks(v, u) /\ u.alive = v.alive /\ Apart(u, S)
<1> DEFINE alone == NoLongerFollow(v, S)
           left  == StopFollower(alone, Followers(alone, S))
<1>1. /\ Breaks(v, alone) /\ alone.alive = v.alive
      /\ \A x \in Char : alone.master[x] = IF x \in S THEN None ELSE v.master[x]
  BY NoLongerBreaks
<1>2. DieFollowerMob(v, S) = LeadThemselves(left, S)
  BY DEF DieFollowerMob
<1> HIDE DEF alone
<1>3. Closed(alone) /\ Followers(alone, S) \in SUBSET Char
  BY <1>1 DEF Breaks, Closed, Worlds, Followers
<1>4. /\ Breaks(alone, left) /\ left.alive = alone.alive
      /\ \A x \in Char : left.master[x] =
             IF x \in Followers(alone, S) THEN None ELSE alone.master[x]
  BY <1>3, StopBreaks
<1> HIDE DEF left
<1>5. Closed(left) /\ left.alive \subseteq Char
  BY <1>4 DEF Breaks, Closed, Worlds
<1>6. Shunned(left, S)
  BY <1>1, <1>4, <1>5, NoneApart DEF Shunned, Followers
<1>7. LET u == LeadThemselves(left, S)
      IN Breaks(left, u) /\ u.alive = left.alive /\ Apart(u, S)
  BY <1>5, <1>6, LeadBreaks DEF Apart
<1>8. Breaks(v, left)
  BY <1>1, <1>4, BreaksOn
<1> QED
  BY <1>1, <1>2, <1>4, <1>7, <1>8, BreaksOn

\* A rider without a horse: nothing but mount and riding changes.
LEMMA UnhorseBreaks ==
    ASSUME NEW v, Closed(v), NEW u \in Worlds,
           u.alive = v.alive, u.charmed = v.charmed, u.spelled = v.spelled, u.lost = v.lost,
           u.master = v.master, u.leader = v.leader, u.pet = v.pet,
           u.riding \subseteq v.riding, \A x \in Char : u.mount[x] \in {v.mount[x], None}
    PROVE  Breaks(v, u)
BY DEF Breaks, Closed, Loosens, Linked, Loyal

LEMMA FallOffBreaks ==
    ASSUME NEW v, Closed(v), NEW S \in SUBSET Char
    PROVE  LET u == FallOff(v, S)
           IN /\ Breaks(v, u) /\ u.alive = v.alive
              /\ u.master = v.master /\ u.leader = v.leader
<1> DEFINE R == {r \in Char : v.mount[r] \in S /\ v.mount[v.mount[r]] = r}
           u == [v EXCEPT !.mount = Without(v.mount, R), !.riding = @ \ R]
<1>0. v \in Worlds /\ Without(v.mount, R) \in Links
      /\ \A x \in Char : Without(v.mount, R)[x] \in {v.mount[x], None}
  BY WithoutLinks DEF Closed, Worlds
<1>1. FallOff(v, S) = u
  BY DEF FallOff
<1> HIDE DEF R
<1>2. /\ u \in Worlds /\ u.alive = v.alive /\ u.charmed = v.charmed /\ u.spelled = v.spelled
      /\ u.lost = v.lost /\ u.master = v.master /\ u.leader = v.leader /\ u.pet = v.pet
      /\ u.riding \subseteq v.riding /\ u.mount = Without(v.mount, R)
  BY <1>0 DEF Worlds
<1> HIDE DEF u
<1>3. Breaks(v, u)
  BY <1>0, <1>2, UnhorseBreaks
<1> QED
  BY <1>1, <1>2, <1>3

LEMMA FreeBreaks ==
    ASSUME NEW v, Closed(v), NEW S \in SUBSET Char, Apart(v, S)
    PROVE  Breaks(v, Free(v, S)) /\ Free(v, S).alive = v.alive \ S
<1> DEFINE u == Free(v, S)
<1>0. v \in Worlds
  BY DEF Closed
<1>1. /\ u \in Worlds /\ u.alive = v.alive \ S /\ u.riding = v.riding \ S
      /\ u.charmed = v.charmed \ S /\ u.spelled = v.spelled \ S /\ u.lost = v.lost \ S
      /\ u.master = Without(v.master, S) /\ u.leader = Without(v.leader, S)
      /\ u.pet = Without(v.pet, S) /\ u.mount = Without(v.mount, S)
  BY <1>0, WithoutLinks DEF Worlds, Free
<1>2. \A x \in Char : /\ u.master[x] = IF x \in S THEN None ELSE v.master[x]
                      /\ u.leader[x] = IF x \in S THEN None ELSE v.leader[x]
                      /\ u.pet[x] = IF x \in S THEN None ELSE v.pet[x]
                      /\ u.mount[x] = IF x \in S THEN None ELSE v.mount[x]
  BY <1>0, <1>1, WithoutLinks DEF Worlds
<1> HIDE DEF u
<1>3. \A x \in Char : v.pet[x] \notin S
  BY <1>0, NoneApart DEF Closed, Loyal, Apart, Shunned
<1>4. Linked(u)
  BY <1>0, <1>1, <1>2, <1>3 DEF Closed, Linked, Apart, Shunned, Worlds
<1>5. Loyal(u)
  BY <1>0, <1>1, <1>2, <1>3, NoneApart DEF Closed, Loyal, Apart, Shunned, Worlds, Links
<1>6. Closed(u)
  BY <1>0, <1>1, <1>4, <1>5 DEF Closed
<1>7. Loosens(v, u)
  BY <1>1, <1>2 DEF Loosens
<1> QED
  BY <1>1, <1>6, <1>7 DEF Breaks, u

LEMMA ExtractBreaks ==
    ASSUME NEW v, Closed(v), NEW S \in SUBSET Char
    PROVE  Breaks(v, ExtractMob(v, S)) /\ ExtractMob(v, S).alive = v.alive \ S
<1> DEFINE G    == S \cap v.alive
           died == DieFollowerMob(v, G)
           off  == FallOff(died, G)
<1>1. CASE G = {}
  <2>1. ExtractMob(v, S) = v /\ v.alive = v.alive \ S
    BY <1>1 DEF ExtractMob
  <2> QED
    BY <2>1, BreaksSame
<1>2. CASE G # {}
  <2>1. ExtractMob(v, S) = Free(off, G)
    BY <1>2 DEF ExtractMob
  <2>2. G \in SUBSET Char /\ v.alive \ G = v.alive \ S
    OBVIOUS
  <2> HIDE DEF G
  <2>3. Breaks(v, died) /\ died.alive = v.alive /\ Apart(died, G)
    BY <2>2, DieMobBreaks
  <2> HIDE DEF died
  <2>4. Closed(died)
    BY <2>3 DEF Breaks
  <2>5. /\ Breaks(died, off) /\ off.alive = died.alive
        /\ off.master = died.master /\ off.leader = died.leader
    BY <2>2, <2>4, FallOffBreaks
  <2> HIDE DEF off
  <2>6. Closed(off) /\ Apart(off, G)
    BY <2>3, <2>5 DEF Breaks, Apart, Shunned
  <2>7. Breaks(off, Free(off, G)) /\ Free(off, G).alive = off.alive \ G
    BY <2>2, <2>6, FreeBreaks
  <2>8. Breaks(v, off)
    BY <2>3, <2>5, BreaksOn
  <2> QED
    BY <2>1, <2>2, <2>3, <2>5, <2>7, <2>8, BreaksOn
<1> QED
  BY <1>1, <1>2

LEMMA PetGoneBreaks ==
    ASSUME NEW v, Closed(v), NEW S \in SUBSET Char
    PROVE  /\ Breaks(v, PetGone(v, S)) /\ PetGone(v, S).alive = v.alive \ S
           /\ \A x \in S : PetGone(v, S).master[x] = None
           /\ \A x \in Char : PetGone(v, S).master[x] \in {v.master[x], None}
<1> DEFINE alone == StopFollower(v, S)
           u == ExtractMob(alone, S)
<1>1. /\ Breaks(v, alone) /\ alone.alive = v.alive
      /\ \A x \in Char : alone.master[x] = IF x \in S THEN None ELSE v.master[x]
  BY StopBreaks
<1>2. PetGone(v, S) = u
  BY DEF PetGone
<1> HIDE DEF alone
<1>3. Breaks(alone, u) /\ u.alive = alone.alive \ S
  BY <1>1, ExtractBreaks DEF Breaks
<1> HIDE DEF u
<1>4. Breaks(v, u)
  BY <1>1, <1>3, BreaksOn
<1> QED
  BY <1>1, <1>2, <1>3, <1>4 DEF Breaks, Loosens

LEMMA DieBreaks ==
    ASSUME NEW v, Closed(v), NEW c \in Char, NEW gone \in SUBSET Char
    PROVE  LET u == DieFollower(v, c, gone)
           IN Breaks(v, u) /\ u.alive = v.alive \ gone /\ Apart(u, {c})
<1> DEFINE alone == NoLongerFollow(v, {c})
           F     == Followers(alone, {c}) \ gone
           left  == StopFollower(alone, F)
           lone  == PetGone(left, gone)
<1>1. /\ Breaks(v, alone) /\ alone.alive = v.alive
      /\ \A x \in Char : alone.master[x] = IF x \in {c} THEN None ELSE v.master[x]
  BY NoLongerBreaks
<1>2. DieFollower(v, c, gone) = LeadThemselves(lone, {c})
  BY DEF DieFollower
<1> HIDE DEF alone
<1>3. Closed(alone) /\ F \in SUBSET Char
  BY <1>1 DEF Breaks, Closed, Worlds, Followers
<1>4. /\ Breaks(alone, left) /\ left.alive = alone.alive
      /\ \A x \in Char : left.master[x] = IF x \in F THEN None ELSE alone.master[x]
  BY <1>3, StopBreaks
<1> HIDE DEF left
<1>5. /\ Breaks(left, lone) /\ lone.alive = left.alive \ gone
      /\ \A x \in gone : lone.master[x] = None
      /\ \A x \in Char : lone.master[x] \in {left.master[x], None}
  BY <1>4, PetGoneBreaks DEF Breaks
<1> HIDE DEF lone
<1>6. Closed(lone) /\ lone.alive \subseteq Char
  BY <1>5 DEF Breaks, Closed, Worlds
<1>7. Shunned(lone, {c})
  BY <1>1, <1>4, <1>5, <1>6, NoneApart DEF Shunned, Followers
<1>8. LET u == LeadThemselves(lone, {c})
      IN Breaks(lone, u) /\ u.alive = lone.alive /\ Apart(u, {c})
  BY <1>6, <1>7, LeadBreaks DEF Apart
<1>9. Breaks(v, left)
  BY <1>1, <1>4, BreaksOn
<1>10. Breaks(v, lone)
  BY <1>5, <1>9, BreaksOn
<1> QED
  BY <1>1, <1>2, <1>4, <1>5, <1>8, <1>10, BreaksOn

LEMMA DismountBreaks ==
    ASSUME NEW v, Closed(v), NEW c \in Char
    PROVE  Breaks(v, Dismounted(v, c)) /\ Dismounted(v, c).alive = v.alive
<1> DEFINE u == [v EXCEPT !.riding = @ \ {c, v.mount[c]}]
<1>0. v \in Worlds
  BY DEF Closed
<1>1. /\ u \in Worlds /\ u.alive = v.alive /\ u.charmed = v.charmed /\ u.spelled = v.spelled
      /\ u.lost = v.lost /\ u.master = v.master /\ u.leader = v.leader /\ u.pet = v.pet
      /\ u.riding \subseteq v.riding /\ u.mount = v.mount
  BY <1>0 DEF Worlds
<1>2. Dismounted(v, c) = u
  BY DEF Dismounted
<1> HIDE DEF u
<1>3. Breaks(v, u)
  BY <1>1, UnhorseBreaks
<1> QED
  BY <1>1, <1>2, <1>3

LEMMA NoPetBreaks ==
    ASSUME NEW v, Closed(v), NEW c \in Char
    PROVE  Breaks(v, NoPet(v, c))
<1>1. CASE v.pet[c] = None
  BY <1>1, BreaksSame DEF NoPet
<1>2. CASE v.pet[c] # None
  <2>1. v.pet[c] \in Char
    BY <1>2 DEF Closed, Worlds, Links
  <2> QED
    BY <1>2, <2>1, PetGoneBreaks DEF NoPet
<1> QED
  BY <1>1, <1>2

LEMMA NoMountBreaks ==
    ASSUME NEW v, Closed(v), NEW c \in Char
    PROVE  Breaks(v, NoMount(v, c))
<1> DEFINE h == v.mount[c]
           u == [v EXCEPT !.mount = Without(v.mount, {c}), !.riding = @ \ {c, h}]
<1>1. CASE h = None
  BY <1>1, BreaksSame DEF NoMount
<1>2. CASE h # None
  <2>1. v \in Worlds /\ Without(v.mount, {c}) \in Links
        /\ \A x \in Char : Without(v.mount, {c})[x] \in {v.mount[x], None}
    BY WithoutLinks DEF Closed, Worlds
  <2>2. h \in Char /\ NoMount(v, c) = ExtractMob(u, {h})
    BY <1>2, <2>1 DEF Worlds, Links, NoMount
  <2> HIDE DEF h
  <2>3. /\ u \in Worlds /\ u.alive = v.alive /\ u.charmed = v.charmed /\ u.spelled = v.spelled
        /\ u.lost = v.lost /\ u.master = v.master /\ u.leader = v.leader /\ u.pet = v.pet
        /\ u.riding \subseteq v.riding /\ u.mount = Without(v.mount, {c})
    BY <2>1 DEF Worlds
  <2> HIDE DEF u
  <2>4. Breaks(v, u)
    BY <2>1, <2>3, UnhorseBreaks
  <2>5. Breaks(u, ExtractMob(u, {h}))
    BY <2>2, <2>4, ExtractBreaks DEF Breaks
  <2> QED
    BY <2>2, <2>4, <2>5, BreaksOn
<1> QED
  BY <1>1, <1>2

LEMMA NukeBreaks ==
    ASSUME NEW v, Closed(v), NEW c \in Char
    PROVE  Breaks(v, NukePets(v, c))
<1> DEFINE a == NoPet(v, c)
           b == NoMount(a, c)
           u == [b EXCEPT !.pet = Without(b.pet, {c})]
<1>1. Breaks(v, a)
  BY NoPetBreaks
<1>2. NukePets(v, c) = u
  BY DEF NukePets
<1> HIDE DEF a
<1>3. Breaks(a, b)
  BY <1>1, NoMountBreaks DEF Breaks
<1> HIDE DEF b
<1>4. Closed(b) /\ b \in Worlds
  BY <1>3 DEF Breaks, Closed
<1>5. /\ u \in Worlds /\ u.alive = b.alive /\ u.charmed = b.charmed /\ u.spelled = b.spelled
      /\ u.lost = b.lost /\ u.master = b.master /\ u.leader = b.leader
      /\ u.riding = b.riding /\ u.mount = b.mount
      /\ \A x \in Char : u.pet[x] \in {b.pet[x], None}
  BY <1>4, WithoutLinks DEF Worlds
<1> HIDE DEF u
<1>6. Breaks(b, u)
  <2>1. Linked(u)
    BY <1>4, <1>5 DEF Closed, Linked, Worlds
  <2>2. Loyal(u)
    BY <1>4, <1>5 DEF Closed, Loyal
  <2> QED
    BY <1>4, <1>5, <2>1, <2>2 DEF Breaks, Closed, Loosens
<1> QED
  BY <1>1, <1>2, <1>3, <1>6, BreaksOn

LEMMA NoRideBreaks ==
    ASSUME NEW v, Closed(v), NEW c \in Char
    PROVE  Breaks(v, NoRide(v, c))
<1> DEFINE h == v.mount[c]
           a == IF Mounted(v, c) THEN Dismounted(v, c) ELSE v
           b == PetGone(a, {h})
           u == [b EXCEPT !.mount = Without(b.mount, {c})]
<1>1. CASE h = None
  BY <1>1, BreaksSame DEF NoRide
<1>2. CASE h # None
  <2>1. h \in Char /\ NoRide(v, c) = u
    BY <1>2 DEF Closed, Worlds, Links, NoRide
  <2>2. Breaks(v, a)
    BY BreaksSame, DismountBreaks
  <2> HIDE DEF a
  <2>3. Breaks(a, b)
    BY <2>1, <2>2, PetGoneBreaks DEF Breaks
  <2> HIDE DEF b
  <2>4. Closed(b) /\ b \in Worlds
    BY <2>3 DEF Breaks, Closed
  <2>5. /\ u \in Worlds /\ u.alive = b.alive /\ u.charmed = b.charmed /\ u.spelled = b.spelled
        /\ u.lost = b.lost /\ u.master = b.master /\ u.leader = b.leader /\ u.pet = b.pet
        /\ u.riding = b.riding /\ \A x \in Char : u.mount[x] \in {b.mount[x], None}
    BY <2>4, WithoutLinks DEF Worlds
  <2> HIDE DEF u
  <2>6. Breaks(b, u)
    BY <2>4, <2>5, UnhorseBreaks
  <2> QED
    BY <2>1, <2>2, <2>3, <2>6, BreaksOn
<1> QED
  BY <1>1, <1>2

LEMMA QuarrelBreaks ==
    ASSUME NEW v, Closed(v), NEW c \in Char, NEW d \in Char
    PROVE  Breaks(v, Quarrelled(v, c, d)) /\ Quarrelled(v, c, d).alive = v.alive
<1>1. Quarrelled(v, c, d) \in {StopFollower(v, {c, d}), v}
  BY DEF Quarrelled
<1> QED
  BY <1>1, BreaksSame, StopBreaks

\* Losing all pets and followers: who dies or quits.
LEMMA NukedBreaks ==
    ASSUME NEW v, Closed(v), NEW c \in Char, NEW u \in Stripped(v, c)
    PROVE  Breaks(v, u) /\ Apart(u, {c})
<1> DEFINE bare == NukePets(v, c)
<1>0. PICK gone \in MayGo(bare, c) : u = DieFollower(bare, c, gone)
  BY DEF Stripped
<1>1. Breaks(v, bare) /\ gone \in SUBSET Char
  BY <1>0, NukeBreaks, NoneApart DEF MayGo
<1> HIDE DEF bare
<1>2. Breaks(bare, u) /\ Apart(u, {c})
  BY <1>0, <1>1, DieBreaks DEF Breaks
<1> QED
  BY <1>1, <1>2, BreaksOn DEF bare

\* The end of a charm: a pet is not under a spell.
LEMMA CharmEndBreaks ==
    ASSUME NEW v, Closed(v), NEW m \in v.spelled, \A c \in Char : v.pet[c] # m
    PROVE  Breaks(v, [v EXCEPT !.master = Without(v.master, {m}),
                               !.leader = Without(v.leader, {m}),
                               !.charmed = @ \ {m}, !.spelled = @ \ {m}])
<1> DEFINE u == [v EXCEPT !.master = Without(v.master, {m}),
                          !.leader = Without(v.leader, {m}),
                          !.charmed = @ \ {m}, !.spelled = @ \ {m}]
<1>0. v \in Worlds
  BY DEF Closed
<1>1. /\ u \in Worlds /\ u.alive = v.alive /\ u.charmed = v.charmed \ {m}
      /\ u.spelled = v.spelled \ {m} /\ u.lost = v.lost /\ u.riding = v.riding
      /\ u.mount = v.mount /\ u.pet = v.pet
      /\ u.master = Without(v.master, {m}) /\ u.leader = Without(v.leader, {m})
  BY <1>0, WithoutLinks DEF Worlds
<1>2. \A x \in Char : /\ u.master[x] = IF x \in {m} THEN None ELSE v.master[x]
                      /\ u.leader[x] = IF x \in {m} THEN None ELSE v.leader[x]
  BY <1>0, <1>1, WithoutLinks DEF Worlds
<1> HIDE DEF u
<1>3. Linked(u)
  BY <1>0, <1>1, <1>2 DEF Closed, Linked, Worlds
<1>4. Loyal(u)
  <2>1. \A c \in Char : v.pet[c] # None => v.pet[c] \in Char /\ v.pet[c] \notin {m}
    BY <1>0 DEF Worlds, Links
  <2>2. \A c \in Char :
           v.pet[c] # None => /\ u.master[v.pet[c]] = c /\ u.leader[v.pet[c]] = c
                              /\ v.pet[c] \in u.charmed
    BY <1>1, <1>2, <2>1 DEF Closed, Loyal
  <2>3. \A x \in u.charmed : u.master[x] \in u.alive
    BY <1>0, <1>1, <1>2 DEF Closed, Loyal, Worlds
  <2> QED
    BY <1>1, <2>2, <2>3 DEF Loyal
<1>5. Closed(u) /\ Loosens(v, u)
  BY <1>0, <1>1, <1>2, <1>3, <1>4 DEF Closed, Loosens
<1> QED
  BY <1>5 DEF Breaks, u

-----------------------------------------------------------------------------
(* New characters and new links. *)

\* A link to somebody who is not charmed and leads himself, or from a mob to a player,
\* closes no chain; what horses do closes none either.
LEMMA EndsPlus ==
    ASSUME NEW a \in Worlds, NEW b \in Worlds, NEW hs, Ends(a, hs), b.alive = a.alive,
           NEW m \in Char, NEW c \in Char,
           \A x \in Char \ {m} : /\ x \in b.charmed => x \in a.charmed
                                 /\ b.master[x] = a.master[x] \/ x \in hs,
           m \in b.charmed => b.master[m] = c \/ (m \in a.charmed /\ b.master[m] = a.master[m]),
           c \notin b.charmed,
           \A x \in Char \ {m} : b.leader[x] \in {a.leader[x], None, x} \/ x \in hs,
           b.leader[m] \in {a.leader[m], None, m, c},
           \/ c \in hs \/ b.leader[c] \in {None, c}
           \/ /\ c \in Player /\ m \in Mob /\ hs \subseteq Mob
              /\ \A p \in Player : b.leader[p] \in Player \cup {None},
           \A x \in Char : b.leader[x] \in {None, b.master[x], x}
    PROVE  Ends(b, hs)
<1>1. ASSUME NEW S \in (SUBSET (b.alive \ hs)) \ {{}}
      PROVE  \E x \in S : x \notin b.charmed \/ b.master[x] \notin S
  <2>1. S \in (SUBSET (a.alive \ hs)) \ {{}} /\ S \subseteq Char
    BY DEF Worlds
  <2>2. PICK d \in S : d \notin a.charmed \/ a.master[d] \notin S
    BY <2>1 DEF Ends
  <2>3. CASE c \in S
    BY <2>3
  <2>4. CASE c \notin S
    BY <2>1, <2>2, <2>4
  <2> QED
    BY <2>3, <2>4
<1>2. ASSUME NEW S \in (SUBSET (b.alive \ hs)) \ {{}}
      PROVE  \E x \in S : b.leader[x] \in {None, x} \/ b.leader[x] \notin S
  <2>1. S \in (SUBSET (a.alive \ hs)) \ {{}} /\ S \subseteq Char
    BY DEF Worlds
  <2>2. PICK d \in S : a.leader[d] \in {None, d} \/ a.leader[d] \notin S
    BY <2>1 DEF Ends
  <2>3. CASE c \notin S
    BY <2>1, <2>2, <2>3
  <2>4. CASE c \in S /\ b.leader[c] \in {None, c}
    BY <2>4
  <2>5. CASE /\ c \in S /\ c \in Player /\ m \in Mob
             /\ \A p \in Player : b.leader[p] \in Player \cup {None}
    <3>1. S \cap Player \in (SUBSET (a.alive \ hs)) \ {{}}
      BY <2>1, <2>5
    <3>2. PICK e \in S \cap Player :
              a.leader[e] \in {None, e} \/ a.leader[e] \notin S \cap Player
      BY <3>1 DEF Ends
    <3>3. e \in Char \ {m} /\ e \notin hs
      BY <2>1, <2>5, NoneApart
    <3>4. b.leader[e] \in {a.leader[e], None, e} /\ b.leader[e] \in Player \cup {None}
      BY <2>5, <3>3
    <3> QED
      BY <3>2, <3>4
  <2> QED
    BY <2>1, <2>3, <2>4, <2>5
<1> QED
  BY <1>1, <1>2 DEF Ends

LEMMA NobodyElseCounted ==
    ASSUME NEW a \in Worlds, NEW b \in Worlds, Counted(a), b.alive = a.alive,
           a.charmed \subseteq a.alive, \A c \in Char : Charmed(b, c) \subseteq Charmed(a, c)
    PROVE  Counted(b)
<1>1. ASSUME NEW c \in Char
      PROVE  Cardinality(Charmed(b, c)) <= Limit[c]
  <2>1. IsFiniteSet(Charmed(a, c))
    BY FS_Subset DEF Counted, Charmed
  <2>2. /\ Cardinality(Charmed(b, c)) <= Cardinality(Charmed(a, c))
        /\ Cardinality(Charmed(b, c)) \in Nat /\ Cardinality(Charmed(a, c)) \in Nat
    BY <2>1, FS_Subset, FS_CardinalityType
  <2>3. Limit[c] \in Nat
    BY CompanionsAssumption DEF Char
  <2> QED
    BY <2>2, <2>3 DEF Counted
<1> QED
  BY <1>1 DEF Counted

\* create_mobile() and a player who enters: a structure without links, whose kind is new.
LEMMA BornSound ==
    ASSUME NEW a, NEW hs, NEW hs2, Sound(a, hs), NEW N \in SUBSET Char, IsFiniteSet(N),
           N \cap a.alive = {}, \A x \in Char \ N : x \in hs2 <=> x \in hs
    PROVE  Sound([a EXCEPT !.alive = @ \cup N], hs2)
<1> DEFINE b == [a EXCEPT !.alive = @ \cup N]
<1>0. a \in Worlds
  BY DEF Sound, Closed
<1>1. /\ b \in Worlds /\ b.alive = a.alive \cup N /\ b.charmed = a.charmed
      /\ b.spelled = a.spelled /\ b.lost = a.lost /\ b.riding = a.riding
      /\ b.mount = a.mount /\ b.pet = a.pet /\ b.master = a.master /\ b.leader = a.leader
  BY <1>0 DEF Worlds
<1> HIDE DEF b
<1>2. \A x \in N : a.master[x] = None /\ a.leader[x] = None /\ a.pet[x] = None
  BY DEF Sound, Closed, Linked
<1>3. Linked(b)
  BY <1>1, <1>2 DEF Linked, Sound, Closed
<1>4. Loyal(b)
  BY <1>1 DEF Loyal, Sound, Closed
<1>5. Closed(b)
  BY <1>1, <1>3, <1>4 DEF Sound, Closed
<1>6. Kinds(b, hs2)
  <2>1. a.charmed \subseteq Char \ N
    BY <1>0 DEF Sound, Closed, Worlds
  <2>2. \A m \in Mob : a.leader[m] # None => m \in Char \ N
    BY <1>2, NoneApart
  <2> QED
    BY <1>1, <2>1, <2>2 DEF Sound, Kinds
<1>7. Ends(b, hs2)
  <2>1. ASSUME NEW S \in (SUBSET (b.alive \ hs2)) \ {{}}
        PROVE  /\ \E c \in S : c \notin b.charmed \/ b.master[c] \notin S
               /\ \E c \in S : b.leader[c] \in {None, c} \/ b.leader[c] \notin S
    <3>1. CASE S \cap N # {}
      <4>1. a.charmed \cap N = {}
        BY DEF Sound, Closed
      <4> QED
        BY <1>1, <1>2, <3>1, <4>1
    <3>2. CASE S \cap N = {}
      <4>1. S \in (SUBSET (a.alive \ hs)) \ {{}}
        BY <1>0, <1>1, <3>2 DEF Worlds
      <4> QED
        BY <1>1, <4>1 DEF Sound, Ends
    <3> QED
      BY <3>1, <3>2
  <2> QED
    BY <1>1, <2>1 DEF Sound, Ends
<1>8. Counted(b)
  BY <1>1, FS_Union DEF Sound, Counted, Charmed
<1> QED
  BY <1>5, <1>6, <1>7, <1>8 DEF Sound, b

\* b is a with m serving c, perhaps under a spell, perhaps as c's pet.
Serves(a, b, m, c) ==
    /\ b \in Worlds /\ b.alive = a.alive /\ b.riding = a.riding /\ b.lost = a.lost
    /\ b.mount = a.mount
    /\ b.charmed = a.charmed \cup {m} /\ b.spelled \in {a.spelled, a.spelled \cup {m}}
    /\ \A x \in Char : /\ b.master[x] = IF x = m THEN c ELSE a.master[x]
                       /\ b.leader[x] = IF x = m THEN c ELSE a.leader[x]
                       /\ \/ b.pet[x] = a.pet[x]
                          \/ x = c /\ b.pet[x] = m /\ m \notin b.spelled

LEMMA ServesSound ==
    ASSUME NEW a, NEW hs, Sound(a, hs), NEW m \in Mob, NEW c \in Char,
           m \in a.alive \ (a.charmed \cup hs), c \in a.alive \ {m}, c \notin a.charmed,
           a.master[m] = None, hs \subseteq Mob,
           Cardinality(Charmed(a, c)) < Limit[c], NEW b, Serves(a, b, m, c)
    PROVE  Sound(b, hs)
<1>0. /\ a \in Worlds /\ b \in Worlds /\ m \in Char
      /\ a.charmed \subseteq a.alive /\ a.spelled \subseteq a.charmed
  BY NoneApart DEF Sound, Closed, Serves
<1>2. \A x \in Char : a.pet[x] # None => a.pet[x] \in a.charmed /\ a.pet[x] # m
                                         /\ a.pet[x] \in Char
  BY <1>0 DEF Sound, Closed, Loyal, Worlds
<1>3. Linked(b)
  <2>1. Linked(a)
    BY DEF Sound, Closed
  <2>2. \A x \in Char \ b.alive : b.master[x] = None /\ b.leader[x] = None /\ b.pet[x] = None
    BY <2>1 DEF Linked, Serves
  <2>3. \A x \in b.alive : /\ b.leader[x] \in b.alive \cup {None}
                           /\ b.pet[x] \in b.alive \cup {None}
                           /\ x \in b.lost \/ b.master[x] \in b.alive \cup {None}
    BY <1>0, <2>1 DEF Linked, Serves, Worlds
  <2> QED
    BY <2>2, <2>3 DEF Linked
<1>4. Loyal(b)
  <2>1. \A x \in Char : b.pet[x] # None =>
           b.master[b.pet[x]] = x /\ b.leader[b.pet[x]] = x /\ b.pet[x] \in b.charmed
    BY <1>0, <1>2 DEF Sound, Closed, Loyal, Serves
  <2>2. \A x \in b.charmed : b.master[x] \in b.alive
    BY <1>0 DEF Sound, Closed, Loyal, Serves, Worlds
  <2> QED
    BY <2>1, <2>2 DEF Loyal
<1>5. Closed(b)
  BY <1>0, <1>3, <1>4 DEF Sound, Closed, Serves
<1>6. Kinds(b, hs)
  <2>1. b.charmed \subseteq Mob \ hs
    BY DEF Sound, Kinds, Serves
  <2>2. \A x \in Char : b.pet[x] \notin b.spelled
    <3>1. \A x \in Char : a.pet[x] \notin a.spelled /\ a.pet[x] # m
      BY <1>0, <1>2, NoneApart DEF Sound, Kinds
    <3> QED
      BY <3>1 DEF Serves
  <2>3. \A x \in Mob \ (b.charmed \cup hs) : b.leader[x] \in {None, x}
    BY NoneApart DEF Sound, Kinds, Serves
  <2>4. \A p \in Player : /\ b.leader[p] \in Player \cup {None}
                          /\ b.mount[p] \in Mob \cup {None}
    BY NoneApart DEF Sound, Kinds, Serves
  <2> QED
    BY <2>1, <2>2, <2>3, <2>4 DEF Kinds
<1>7. Ends(b, hs)
  <2>1. \A x \in Char \ {m} : (x \in b.charmed => x \in a.charmed) /\ b.master[x] = a.master[x]
    BY DEF Serves
  <2>2. b.master[m] = c /\ b.leader[m] = c
    BY <1>0 DEF Serves
  <2>3. c \notin b.charmed
    BY DEF Serves
  <2>4. \A x \in Char \ {m} : b.leader[x] = a.leader[x]
    BY DEF Serves
  <2>5. \A x \in Char : b.leader[x] \in {None, b.master[x], x}
    BY DEF Serves, Sound, Ends
  <2>6. c \in hs \/ b.leader[c] \in {None, c} \/ c \in Player
    BY <2>4 DEF Sound, Kinds, Char
  <2>7. Ends(a, hs) /\ b.alive = a.alive /\ \A p \in Player : b.leader[p] \in Player \cup {None}
    BY <1>6 DEF Sound, Serves, Kinds
  <2> QED
    BY <1>0, <2>1, <2>2, <2>3, <2>4, <2>5, <2>6, <2>7, EndsPlus
<1>8. Counted(b)
  <2>1. ASSUME NEW x \in Char
        PROVE  Cardinality(Charmed(b, x)) <= Limit[x]
    <3>1. IsFiniteSet(Charmed(a, x)) /\ Limit[x] \in Nat
      BY <1>0, FS_Subset, CompanionsAssumption DEF Sound, Counted, Charmed, Char
    <3>2. Cardinality(Charmed(a, x)) <= Limit[x] /\ Cardinality(Charmed(a, x)) \in Nat
      BY <3>1, FS_CardinalityType DEF Sound, Counted
    <3>3. CASE x # c
      <4>1. Charmed(b, x) = Charmed(a, x)
        BY <1>0, <3>3 DEF Charmed, Serves, Worlds
      <4> QED
        BY <3>2, <4>1
    <3>4. CASE x = c
      <4>1. Charmed(b, x) = Charmed(a, x) \cup {m} /\ m \notin Charmed(a, x)
        BY <1>0, <3>4 DEF Charmed, Serves, Worlds
      <4>2. Cardinality(Charmed(b, x)) = Cardinality(Charmed(a, x)) + 1
        BY <3>1, <4>1, FS_AddElement
      <4> QED
        BY <3>1, <3>2, <3>4, <4>2
    <3> QED
      BY <3>3, <3>4
  <2> QED
    BY <2>1 DEF Sound, Counted, Serves
<1> QED
  BY <1>5, <1>6, <1>7, <1>8 DEF Sound

\* b is a with c on his horse h, perhaps h pointing back at him, and perhaps following him.
Rides(a, b, c, h) ==
    /\ b \in Worlds /\ b.alive = a.alive /\ b.riding \subseteq b.alive
    /\ b.charmed = a.charmed /\ b.spelled = a.spelled
    /\ a.lost \subseteq b.lost /\ b.pet = a.pet
    /\ b.mount[c] = h /\ b.mount[h] \in {a.mount[h], c}
    /\ \A x \in Char \ {c, h} : b.mount[x] \in {a.mount[x], None}
    /\ \A x \in Char \ {h} : b.master[x] = a.master[x] /\ b.leader[x] = a.leader[x]
    /\ \/ b.master[h] = a.master[h] /\ b.leader[h] = a.leader[h]
       \/ b.master[h] = c /\ b.leader[h] = c

LEMMA RidesSound ==
    ASSUME NEW a, NEW hs, Sound(a, hs), NEW h \in Mob, NEW c \in Char,
           h \in hs \cap a.alive, c \in a.alive \ {h},
           c \in Player \/ c \notin a.charmed,
           NEW b, Rides(a, b, c, h)
    PROVE  Sound(b, hs)
<1>0. /\ a \in Worlds /\ b \in Worlds /\ h \in Char /\ h \notin a.charmed
      /\ a.charmed \subseteq a.alive /\ a.charmed \subseteq Mob
  BY NoneApart DEF Sound, Closed, Rides, Kinds
<1>1. \A x \in Char : a.pet[x] # None => a.pet[x] \in Char \ {h}
  <2>1. \A x \in Char : a.pet[x] # None => a.pet[x] \in a.charmed
    BY DEF Sound, Closed, Loyal
  <2> QED
    BY <1>0, <2>1 DEF Worlds
<1>2. Linked(b)
  <2>1. Linked(a)
    BY DEF Sound, Closed
  <2>2. \A x \in Char \ b.alive : b.master[x] = None /\ b.leader[x] = None /\ b.pet[x] = None
    BY <2>1 DEF Linked, Rides
  <2>3. \A x \in b.alive : /\ b.leader[x] \in b.alive \cup {None}
                           /\ b.pet[x] \in b.alive \cup {None}
                           /\ x \in b.lost \/ b.master[x] \in b.alive \cup {None}
    BY <1>0, <2>1 DEF Linked, Rides, Worlds
  <2> QED
    BY <2>2, <2>3 DEF Linked
<1>3. Loyal(b)
  <2>1. \A x \in Char : b.pet[x] # None =>
           b.master[b.pet[x]] = x /\ b.leader[b.pet[x]] = x /\ b.pet[x] \in b.charmed
    BY <1>1 DEF Sound, Closed, Loyal, Rides
  <2>2. \A x \in b.charmed : x \in Char \ {h} /\ b.master[x] \in b.alive
    BY <1>0, NoneApart DEF Sound, Closed, Loyal, Rides
  <2> QED
    BY <2>1, <2>2 DEF Loyal
<1>4. Closed(b)
  BY <1>0, <1>2, <1>3 DEF Sound, Closed, Rides
<1>5. Kinds(b, hs)
  <2>1. b.charmed \subseteq Mob \ hs /\ \A x \in Char : b.pet[x] \notin b.spelled
    BY DEF Sound, Kinds, Rides
  <2>2. \A x \in Mob \ (b.charmed \cup hs) : b.leader[x] \in {None, x}
    BY NoneApart DEF Sound, Kinds, Rides
  <2>3. ASSUME NEW p \in Player
        PROVE  b.leader[p] \in Player \cup {None} /\ b.mount[p] \in Mob \cup {None}
    BY NoneApart DEF Sound, Kinds, Rides
  <2> QED
    BY <2>1, <2>2, <2>3 DEF Kinds
<1>6. Ends(b, hs)
  <2>1. \A x \in Char : b.leader[x] \in {None, b.master[x], x}
    BY <1>0 DEF Rides, Sound, Ends
  <2>2. ASSUME NEW S \in (SUBSET (b.alive \ hs)) \ {{}}
        PROVE  /\ \E x \in S : x \notin b.charmed \/ b.master[x] \notin S
               /\ \E x \in S : b.leader[x] \in {None, x} \/ b.leader[x] \notin S
    <3>1. S \in (SUBSET (a.alive \ hs)) \ {{}} /\ S \subseteq Char \ {h}
      BY <1>0 DEF Rides, Worlds
    <3> QED
      BY <3>1 DEF Sound, Ends, Rides
  <2> QED
    BY <2>1, <2>2 DEF Ends
<1>7. Counted(b)
  <2>1. \A x \in Char : Charmed(b, x) \subseteq Charmed(a, x)
    BY <1>0, NoneApart DEF Charmed, Rides
  <2> QED
    BY <1>0, <2>1, NobodyElseCounted DEF Sound, Rides
<1> QED
  BY <1>4, <1>5, <1>6, <1>7 DEF Sound

\* b is a with a new master for p, or a new leader: the player who is his master, or nobody.
Joins(a, b, p, v) ==
    /\ b \in Worlds /\ b.alive = a.alive /\ b.riding = a.riding /\ b.lost = a.lost
    /\ b.charmed = a.charmed /\ b.spelled = a.spelled /\ b.pet = a.pet /\ b.mount = a.mount
    /\ \A x \in Char \ {p} : b.master[x] = a.master[x] /\ b.leader[x] = a.leader[x]
    /\ b.master[p] = v
    /\ \/ b.leader[p] = None
       \/ b.leader[p] = v /\ p \in Player /\ v \in Player /\ a.leader[v] \in {None, v}

LEMMA JoinsSound ==
    ASSUME NEW a, NEW hs, Sound(a, hs), NEW p \in Char, NEW v \in Char, p \notin a.charmed,
           p \in a.alive, v \in a.alive \ {p}, NEW b, Joins(a, b, p, v)
    PROVE  Sound(b, hs)
<1>0. /\ a \in Worlds /\ b \in Worlds
      /\ a.charmed \subseteq a.alive /\ a.charmed \subseteq Mob
  BY NoneApart DEF Sound, Closed, Joins, Kinds
<1>1. \A x \in Char : a.pet[x] # None => a.pet[x] \in Char \ {p}
  <2>1. \A x \in Char : a.pet[x] # None => a.pet[x] \in a.charmed
    BY DEF Sound, Closed, Loyal
  <2> QED
    BY <1>0, <2>1 DEF Worlds
<1>2. Linked(b)
  <2>1. Linked(a)
    BY DEF Sound, Closed
  <2>2. \A x \in Char \ b.alive : b.master[x] = None /\ b.leader[x] = None /\ b.pet[x] = None
    BY <2>1 DEF Linked, Joins
  <2>3. \A x \in b.alive : /\ b.leader[x] \in b.alive \cup {None}
                           /\ b.pet[x] \in b.alive \cup {None}
                           /\ x \in b.lost \/ b.master[x] \in b.alive \cup {None}
    BY <1>0, <2>1 DEF Linked, Joins, Worlds
  <2> QED
    BY <2>2, <2>3 DEF Linked
<1>3. Loyal(b)
  <2>1. \A x \in Char : b.pet[x] # None =>
           b.master[b.pet[x]] = x /\ b.leader[b.pet[x]] = x /\ b.pet[x] \in b.charmed
    BY <1>1 DEF Sound, Closed, Loyal, Joins
  <2>2. \A x \in b.charmed : x \in Char \ {p} /\ b.master[x] \in b.alive
    BY <1>0, NoneApart DEF Sound, Closed, Loyal, Joins
  <2> QED
    BY <2>1, <2>2 DEF Loyal
<1>4. Closed(b)
  BY <1>0, <1>2, <1>3 DEF Sound, Closed, Joins
<1>5. Kinds(b, hs)
  <2>1. b.charmed \subseteq Mob \ hs /\ \A x \in Char : b.pet[x] \notin b.spelled
    BY DEF Sound, Kinds, Joins
  <2>2. \A x \in Mob \ (b.charmed \cup hs) : b.leader[x] \in {None, x}
    BY <1>0, NoneApart DEF Sound, Kinds, Joins
  <2>3. \A q \in Player : b.leader[q] \in Player \cup {None} /\ b.mount[q] \in Mob \cup {None}
    BY NoneApart DEF Sound, Kinds, Joins
  <2> QED
    BY <2>1, <2>2, <2>3 DEF Kinds
<1>6. Ends(b, hs)
  <2> DEFINE c == IF b.leader[p] = None THEN p ELSE v
  <2>1. \A x \in Char \ {p} : (x \in b.charmed => x \in a.charmed) /\ b.master[x] = a.master[x]
    BY DEF Joins
  <2>2. p \notin b.charmed /\ c \notin b.charmed
    BY <1>0, NoneApart DEF Joins
  <2>3. \A x \in Char \ {p} : b.leader[x] \in {a.leader[x], None, x}
    BY DEF Joins
  <2>4. c \in Char /\ b.leader[p] \in {a.leader[p], None, p, c}
    BY <1>0 DEF Joins
  <2>5. b.leader[c] \in {None, c}
    BY <1>0 DEF Joins
  <2>6. \A x \in Char : b.leader[x] \in {None, b.master[x], x}
    BY <1>0 DEF Joins, Sound, Ends
  <2>7. Ends(a, hs) /\ b.alive = a.alive
    BY DEF Sound, Joins
  <2> HIDE DEF c
  <2> QED
    BY <1>0, <2>1, <2>2, <2>3, <2>4, <2>5, <2>6, <2>7, EndsPlus
<1>7. Counted(b)
  <2>1. \A x \in Char : Charmed(b, x) \subseteq Charmed(a, x)
    BY <1>0, NoneApart DEF Charmed, Joins
  <2> QED
    BY <1>0, <2>1, NobodyElseCounted DEF Sound, Joins
<1> QED
  BY <1>4, <1>5, <1>6, <1>7 DEF Sound

-----------------------------------------------------------------------------
(* Every command and event keeps the world sound. *)

LEMMA SoundBreaks ==
    ASSUME NEW u, NEW hs, Sound(u, hs), NEW v, Breaks(u, v)
    PROVE  Sound(v, hs)
BY LooserSound DEF Breaks

LEMMA CreatedSound ==
    ASSUME NEW v, NEW hs, NEW hs2, Sound(v, hs), NEW m \in Mob \ v.alive,
           \A x \in Char \ {m} : x \in hs2 <=> x \in hs
    PROVE  /\ Sound(Created(v, m), hs2)
           /\ Created(v, m).alive = v.alive \cup {m} /\ Created(v, m).charmed = v.charmed
           /\ Created(v, m).master = v.master /\ Created(v, m).leader = v.leader
           /\ Created(v, m).pet = v.pet /\ Created(v, m).mount = v.mount
           /\ Created(v, m).riding = v.riding /\ Created(v, m).spelled = v.spelled
           /\ Created(v, m).lost = v.lost
           /\ v.master[m] = None /\ v.leader[m] = None /\ m \notin v.charmed
<1>1. v \in Worlds /\ IsFiniteSet({m}) /\ {m} \in SUBSET Char /\ {m} \cap v.alive = {}
  BY FS_Singleton, NoneApart DEF Sound, Closed
<1>2. Sound([v EXCEPT !.alive = @ \cup {m}], hs2)
  BY <1>1, BornSound
<1>3. v.master[m] = None /\ v.leader[m] = None /\ m \notin v.charmed
  BY <1>1 DEF Sound, Closed, Linked
<1> QED
  BY <1>1, <1>2, <1>3 DEF Created, Worlds

LEMMA AddFollowerFields ==
    ASSUME NEW v \in Worlds, NEW c \in Char, NEW m \in Char, v.master[c] = None
    PROVE  LET u == AddFollower(v, c, m)
           IN /\ u \in Worlds /\ u.alive = v.alive /\ u.charmed = v.charmed
              /\ u.spelled = v.spelled /\ u.lost = v.lost /\ u.riding = v.riding
              /\ u.pet = v.pet /\ u.mount = v.mount
              /\ \A x \in Char : /\ u.master[x] = IF x = c THEN m ELSE v.master[x]
                                 /\ u.leader[x] = IF x = c THEN None ELSE v.leader[x]
<1> DEFINE u == [v EXCEPT !.master = Put(v.master, {c}, m), !.leader = Without(v.leader, {c})]
<1>1. AddFollower(v, c, m) = u
  BY DEF AddFollower
<1>2. /\ u \in Worlds /\ u.alive = v.alive /\ u.charmed = v.charmed
      /\ u.spelled = v.spelled /\ u.lost = v.lost /\ u.riding = v.riding
      /\ u.pet = v.pet /\ u.mount = v.mount
      /\ u.master = Put(v.master, {c}, m) /\ u.leader = Without(v.leader, {c})
  BY PutLinks, WithoutLinks DEF Worlds
<1>3. v.master \in Links /\ v.leader \in Links
  BY DEF Worlds
<1> HIDE DEF u
<1> QED
  BY <1>1, <1>2, <1>3, PutLinks, WithoutLinks

LEMMA ServeFields ==
    ASSUME NEW v \in Worlds, NEW m \in Char, NEW c \in Char, v.master[m] = None
    PROVE  LET u == Serve(v, m, c)
           IN /\ u \in Worlds /\ u.alive = v.alive /\ u.charmed = v.charmed \cup {m}
              /\ u.spelled = v.spelled /\ u.lost = v.lost /\ u.riding = v.riding
              /\ u.pet = v.pet /\ u.mount = v.mount
              /\ \A x \in Char : /\ u.master[x] = IF x = m THEN c ELSE v.master[x]
                                 /\ u.leader[x] = IF x = m THEN c ELSE v.leader[x]
<1> DEFINE a == AddFollower(v, m, c)
           u == [a EXCEPT !.leader = Put(a.leader, {m}, c), !.charmed = @ \cup {m}]
<1>1. Serve(v, m, c) = u
  BY DEF Serve
<1>2. /\ a \in Worlds /\ a.alive = v.alive /\ a.charmed = v.charmed
      /\ a.spelled = v.spelled /\ a.lost = v.lost /\ a.riding = v.riding
      /\ a.pet = v.pet /\ a.mount = v.mount
      /\ \A x \in Char : /\ a.master[x] = IF x = m THEN c ELSE v.master[x]
                         /\ a.leader[x] = IF x = m THEN None ELSE v.leader[x]
  BY AddFollowerFields
<1> HIDE DEF a
<1>3. /\ u \in Worlds /\ u.alive = a.alive /\ u.charmed = a.charmed \cup {m}
      /\ u.spelled = a.spelled /\ u.lost = a.lost /\ u.riding = a.riding
      /\ u.pet = a.pet /\ u.mount = a.mount
      /\ u.master = a.master /\ u.leader = Put(a.leader, {m}, c)
  BY <1>2, PutLinks DEF Worlds
<1>4. a.leader \in Links
  BY <1>2 DEF Worlds
<1> HIDE DEF u
<1> QED
  BY <1>1, <1>2, <1>3, <1>4, PutLinks

LEMMA ArriveSound ==
    ASSUME CompanionsInv, NEW m \in Mob, Arrive(m)
    PROVE  Sound(w', horse')
<1>1. \A x \in Char \ {m} : x \in horse' <=> x \in horse
  BY DEF Arrive, Kind
<1> QED
  BY <1>1, CreatedSound DEF CompanionsInv, Arrive, Fresh

LEMMA ResetSound ==
    ASSUME CompanionsInv, NEW m \in Mob, NEW h \in Mob, ResetHorseman(m, h)
    PROVE  Sound(w', horse')
<1> DEFINE one == Created(w, h)
           two == Created(one, m)
           in  == AddFollower(two, h, m)
           u   == [in EXCEPT !.mount = Put(Put(in.mount, {m}, h), {h}, m),
                             !.riding = @ \cup {m, h}, !.leader = Put(in.leader, {h}, m)]
<1>0. /\ m # h /\ m \notin w.alive /\ h \notin w.alive /\ w' = u
      /\ horse' = (horse \cup {h}) \ {m} /\ m \in Char /\ h \in Char /\ Sound(w, horse)
  BY NoneApart DEF ResetHorseman, Fresh, CompanionsInv
<1>1. /\ Sound(one, horse \cup {h}) /\ one.alive = w.alive \cup {h}
      /\ one.master = w.master /\ one.leader = w.leader /\ w.master[h] = None
  BY <1>0, CreatedSound
<1> HIDE DEF one
<1>2. /\ Sound(two, horse') /\ two.alive = one.alive \cup {m}
      /\ two.master = one.master /\ two.leader = one.leader
      /\ m \notin two.charmed
  <2>1. m \in Mob \ one.alive /\ \A x \in Char \ {m} : x \in horse' <=> x \in horse \cup {h}
    BY <1>0, <1>1
  <2>2. /\ Sound(two, horse') /\ two.alive = one.alive \cup {m}
        /\ two.master = one.master /\ two.leader = one.leader
    BY <1>1, <2>1, CreatedSound
  <2>3. one \in Worlds /\ m \notin one.charmed
    BY <1>1, <2>1 DEF Sound, Closed
  <2>4. two.charmed = one.charmed
    BY <2>3 DEF Created, Worlds
  <2> QED
    BY <2>2, <2>3, <2>4
<1> HIDE DEF two
<1>3. two \in Worlds /\ two.master[h] = None
  BY <1>1, <1>2 DEF Sound, Closed
<1>4. /\ in \in Worlds /\ in.alive = two.alive /\ in.charmed = two.charmed
      /\ in.spelled = two.spelled /\ in.lost = two.lost /\ in.riding = two.riding
      /\ in.pet = two.pet /\ in.mount = two.mount
      /\ \A x \in Char : /\ in.master[x] = IF x = h THEN m ELSE two.master[x]
                         /\ in.leader[x] = IF x = h THEN None ELSE two.leader[x]
  BY <1>0, <1>3, AddFollowerFields
<1> HIDE DEF in
<1> DEFINE carry == Put(in.mount, {m}, h)
           mount == Put(carry, {h}, m)
           lead  == Put(in.leader, {h}, m)
<1>5. /\ mount \in Links /\ lead \in Links
      /\ \A x \in Char : mount[x] = IF x = h THEN m ELSE IF x = m THEN h ELSE in.mount[x]
      /\ \A x \in Char : lead[x] = IF x = h THEN m ELSE in.leader[x]
  <2>1. in.mount \in Links /\ in.leader \in Links /\ m \in Char /\ h \in Char
    BY <1>0, <1>4 DEF Worlds
  <2>2. carry \in Links /\ \A x \in Char : carry[x] = IF x = m THEN h ELSE in.mount[x]
    BY <2>1, PutLinks
  <2> HIDE DEF carry
  <2>3. mount \in Links /\ \A x \in Char : mount[x] = IF x = h THEN m ELSE carry[x]
    BY <2>1, <2>2, PutLinks
  <2>4. lead \in Links /\ \A x \in Char : lead[x] = IF x = h THEN m ELSE in.leader[x]
    BY <2>1, PutLinks
  <2> HIDE DEF mount, lead
  <2> QED
    BY <2>2, <2>3, <2>4
<1>6. /\ u \in Worlds /\ u.alive = in.alive /\ u.charmed = in.charmed
      /\ u.spelled = in.spelled /\ u.lost = in.lost /\ u.riding = in.riding \cup {m, h}
      /\ u.pet = in.pet /\ u.mount = mount
      /\ u.master = in.master /\ u.leader = lead
  <2>1. u = [in EXCEPT !.mount = mount, !.riding = @ \cup {m, h}, !.leader = lead]
    OBVIOUS
  <2> HIDE DEF u, mount, lead
  <2> QED
    BY <1>0, <1>4, <1>5, <2>1 DEF Worlds
<1> HIDE DEF u, mount, lead
<1>7. two.riding \subseteq two.alive /\ h \in two.alive /\ m \in two.alive
  BY <1>1, <1>2 DEF Sound, Closed
<1>8. Rides(two, u, m, h)
  <2>1. /\ u \in Worlds /\ u.alive = two.alive /\ u.riding \subseteq u.alive
        /\ u.charmed = two.charmed /\ u.spelled = two.spelled
        /\ two.lost \subseteq u.lost /\ u.pet = two.pet
    BY <1>4, <1>6, <1>7
  <2>2. \A x \in Char : /\ u.mount[x] = IF x = h THEN m ELSE IF x = m THEN h ELSE two.mount[x]
                        /\ u.master[x] = IF x = h THEN m ELSE two.master[x]
                        /\ u.leader[x] = IF x = h THEN m ELSE two.leader[x]
    BY <1>4, <1>5, <1>6
  <2> QED
    BY <1>0, <2>1, <2>2 DEF Rides
<1> QED
  BY <1>0, <1>1, <1>2, <1>7, <1>8, RidesSound

\* The last part of do_mount().
Yoked(v, c, h) ==
    LET free == Without(v.mount, {v.mount[h]} \ {None})
    IN [v EXCEPT !.mount = Put(Put(free, {c}, h), {h}, c), !.riding = @ \cup {c, h},
                 !.master = Put(v.master, {h}, c), !.leader = Put(v.leader, {h}, c)]

LEMMA YokedRides ==
    ASSUME NEW v, Closed(v), NEW c \in v.alive, NEW h \in v.alive \ {c}
    PROVE  /\ Rides(v, Yoked(v, c, h), c, h)
           /\ Yoked(v, c, h).lost = v.lost
           /\ Yoked(v, c, h).riding = v.riding \cup {c, h}
           /\ Yoked(v, c, h).master[h] = c /\ Yoked(v, c, h).leader[h] = c
<1> DEFINE free  == Without(v.mount, {v.mount[h]} \ {None})
           carry == Put(free, {c}, h)
           mount == Put(carry, {h}, c)
           mast  == Put(v.master, {h}, c)
           lead  == Put(v.leader, {h}, c)
           u     == [v EXCEPT !.mount = mount, !.riding = @ \cup {c, h},
                              !.master = mast, !.leader = lead]
<1>0. v \in Worlds /\ c \in Char /\ h \in Char /\ v.riding \subseteq v.alive /\ c # h
  BY DEF Closed, Worlds
<1>1. v.mount \in Links /\ v.master \in Links /\ v.leader \in Links
  BY <1>0 DEF Worlds
<1>2. Yoked(v, c, h) = u
  BY DEF Yoked
<1>3. free \in Links /\ \A x \in Char : free[x] \in {v.mount[x], None}
  BY <1>1, WithoutLinks
<1> HIDE DEF free
<1>4. carry \in Links /\ \A x \in Char : carry[x] = IF x = c THEN h ELSE free[x]
  BY <1>0, <1>3, PutLinks
<1> HIDE DEF carry
<1>5. mount \in Links /\ \A x \in Char : mount[x] = IF x = h THEN c ELSE carry[x]
  BY <1>0, <1>4, PutLinks
<1>6. mast \in Links /\ \A x \in Char : mast[x] = IF x = h THEN c ELSE v.master[x]
  BY <1>0, <1>1, PutLinks
<1>7. lead \in Links /\ \A x \in Char : lead[x] = IF x = h THEN c ELSE v.leader[x]
  BY <1>0, <1>1, PutLinks
<1> HIDE DEF mount, mast, lead
<1>8. /\ u \in Worlds /\ u.alive = v.alive /\ u.charmed = v.charmed
      /\ u.spelled = v.spelled /\ u.lost = v.lost /\ u.riding = v.riding \cup {c, h}
      /\ u.pet = v.pet /\ u.mount = mount /\ u.master = mast /\ u.leader = lead
  BY <1>0, <1>5, <1>6, <1>7 DEF Worlds
<1> HIDE DEF u
<1>9. \A x \in Char : /\ u.mount[x] = IF x = h THEN c ELSE IF x = c THEN h ELSE free[x]
                      /\ u.master[x] = IF x = h THEN c ELSE v.master[x]
                      /\ u.leader[x] = IF x = h THEN c ELSE v.leader[x]
  BY <1>4, <1>5, <1>6, <1>7, <1>8
<1>10. u.riding \subseteq u.alive /\ v.lost \subseteq u.lost
  BY <1>0, <1>8
<1>11. Rides(v, u, c, h)
  BY <1>0, <1>3, <1>8, <1>9, <1>10 DEF Rides
<1> QED
  BY <1>0, <1>2, <1>8, <1>9, <1>11

\* The horse that c had is gone when h is mounted.
LEMMA MountIsYoked ==
    ASSUME NEW v, Closed(v), NEW c \in v.alive \cap Player, NEW h \in v.alive \cap Mob,
           v.mount[c] \in Mob \cup {None}
    PROVE  \E left : /\ Breaks(v, left) /\ c \in left.alive /\ h \in left.alive \ {c}
                     /\ Mount(v, c, h) = Yoked(left, c, h)
<1> DEFINE old  == v.mount[c]
           left == IF old \in {None, h} THEN v ELSE PetGone(v, {old})
<1>1. c # h
  BY NoneApart
<1>2. Mount(v, c, h) = Yoked(left, c, h)
  BY DEF Mount, Yoked
<1>3. CASE old \in {None, h}
  <2>1. left = v
    BY <1>3
  <2> QED
    BY <1>1, <1>2, <2>1, BreaksSame
<1>4. CASE old \notin {None, h}
  <2>1. old \in Mob /\ old \in Char /\ c # old /\ left = PetGone(v, {old})
    BY <1>4, NoneApart
  <2>2. Breaks(v, left) /\ left.alive = v.alive \ {old}
    BY <2>1, PetGoneBreaks
  <2> QED
    BY <1>1, <1>2, <1>4, <2>1, <2>2
<1> QED
  BY <1>3, <1>4

LEMMA MountSound ==
    ASSUME NEW v, NEW hs, Sound(v, hs), NEW c \in v.alive \cap Player,
           NEW h \in v.alive \cap Mob, h \in hs
    PROVE  Sound(Mount(v, c, h), hs)
<1>1. Closed(v) /\ v.mount[c] \in Mob \cup {None}
  BY DEF Sound, Kinds
<1>2. PICK left : /\ Breaks(v, left) /\ c \in left.alive /\ h \in left.alive \ {c}
                  /\ Mount(v, c, h) = Yoked(left, c, h)
  BY <1>1, MountIsYoked
<1>3. Sound(left, hs) /\ Closed(left)
  BY <1>2, SoundBreaks DEF Breaks
<1>4. Rides(left, Yoked(left, c, h), c, h)
  BY <1>2, <1>3, YokedRides
<1>5. c \in Char /\ h \in hs \cap left.alive /\ h \in Mob /\ c \in left.alive \ {h}
  BY <1>2, NoneApart
<1>6. Sound(Yoked(left, c, h), hs)
  BY <1>3, <1>4, <1>5, RidesSound
<1> QED
  BY <1>2, <1>6

LEMMA BuyPetSound ==
    ASSUME CompanionsInv, NEW p \in Player, NEW m \in Mob, BuyPet(p, m)
    PROVE  Sound(w', horse')
<1> DEFINE a == Created(w, m)
           s == Serve(a, m, p)
           pets == Put(w.pet, {p}, m)
           b == [s EXCEPT !.pet = pets]
<1>0. /\ p \in w.alive /\ m \in Mob \ w.alive /\ w' = b /\ horse' = horse \ {m}
      /\ Cardinality(Charmed(w, p)) < Limit[p] /\ p \in Char /\ m \in Char /\ m # p
      /\ Sound(w, horse)
  BY NoneApart DEF BuyPet, Here, Fresh, Room, Kind, CompanionsInv
<1>1. /\ Sound(a, horse') /\ a.alive = w.alive \cup {m} /\ a.charmed = w.charmed
      /\ a.master = w.master /\ a.leader = w.leader /\ a.pet = w.pet
      /\ w.master[m] = None /\ m \notin w.charmed
  <2>1. m \in Mob \ w.alive /\ Sound(w, horse) /\ \A x \in Char \ {m} : x \in horse' <=> x \in horse
    BY <1>0
  <2>2. /\ Sound(a, horse') /\ a.alive = w.alive \cup {m} /\ a.charmed = w.charmed
        /\ a.master = w.master /\ w.master[m] = None /\ m \notin w.charmed
    BY <2>1, CreatedSound
  <2>3. w \in Worlds
    BY <1>0 DEF Sound, Closed
  <2>4. a.leader = w.leader /\ a.pet = w.pet
    BY <2>3 DEF Created, Worlds
  <2> QED
    BY <2>2, <2>4
<1>2. Charmed(a, p) = Charmed(w, p)
  BY <1>1 DEF Charmed
<1> HIDE DEF a
<1>3. a \in Worlds /\ w.pet \in Links /\ a.spelled \subseteq a.charmed
  BY <1>1 DEF Sound, Closed, Worlds
<1>4. /\ s \in Worlds /\ s.alive = a.alive /\ s.charmed = a.charmed \cup {m}
      /\ s.spelled = a.spelled /\ s.lost = a.lost /\ s.riding = a.riding
      /\ s.pet = a.pet /\ s.mount = a.mount
      /\ \A x \in Char : /\ s.master[x] = IF x = m THEN p ELSE a.master[x]
                         /\ s.leader[x] = IF x = m THEN p ELSE a.leader[x]
  BY <1>0, <1>1, <1>3, ServeFields
<1> HIDE DEF s
<1>5. pets \in Links /\ \A x \in Char : pets[x] = IF x = p THEN m ELSE w.pet[x]
  BY <1>0, <1>3, PutLinks
<1> HIDE DEF pets
<1>6. /\ b \in Worlds /\ b.alive = s.alive /\ b.charmed = s.charmed
      /\ b.spelled = s.spelled /\ b.lost = s.lost /\ b.riding = s.riding
      /\ b.pet = pets /\ b.mount = s.mount /\ b.master = s.master /\ b.leader = s.leader
  BY <1>4, <1>5 DEF Worlds
<1> HIDE DEF b
<1>7. Serves(a, b, m, p)
  <2>1. /\ b \in Worlds /\ b.alive = a.alive /\ b.riding = a.riding /\ b.lost = a.lost
        /\ b.mount = a.mount /\ b.charmed = a.charmed \cup {m} /\ b.spelled = a.spelled
        /\ m \notin b.spelled
    BY <1>1, <1>3, <1>4, <1>6
  <2>2. \A x \in Char : /\ b.master[x] = IF x = m THEN p ELSE a.master[x]
                        /\ b.leader[x] = IF x = m THEN p ELSE a.leader[x]
                        /\ b.pet[x] = IF x = p THEN m ELSE a.pet[x]
    BY <1>1, <1>4, <1>5, <1>6
  <2> QED
    BY <2>1, <2>2 DEF Serves
<1>8. horse' \subseteq Mob /\ a.master[m] = None /\ p \notin a.charmed
  <2>1. p \notin w.charmed
    BY <1>0, NoneApart DEF Sound, Kinds
  <2> QED
    BY <1>0, <1>1, <2>1 DEF CompanionsInv
<1> QED
  BY <1>0, <1>1, <1>2, <1>7, <1>8, ServesSound

LEMMA ConjureSound ==
    ASSUME CompanionsInv, NEW p \in Player, NEW m \in Mob, Conjure(p, m)
    PROVE  Sound(w', horse')
<1> DEFINE a == Created(w, m)
           s == Serve(a, m, p)
<1>0. /\ p \in w.alive /\ m \in Mob \ w.alive /\ w' = s /\ horse' = horse \ {m}
      /\ Cardinality(Charmed(w, p)) < Limit[p] /\ p \in Char /\ m \in Char /\ m # p
      /\ Sound(w, horse)
  BY NoneApart DEF Conjure, Here, Fresh, Room, Kind, CompanionsInv
<1>1. /\ Sound(a, horse') /\ a.alive = w.alive \cup {m} /\ a.charmed = w.charmed
      /\ a.master = w.master /\ w.master[m] = None /\ m \notin w.charmed
  BY <1>0, CreatedSound
<1>2. Charmed(a, p) = Charmed(w, p)
  BY <1>1 DEF Charmed
<1> HIDE DEF a
<1>3. a \in Worlds
  BY <1>1 DEF Sound, Closed
<1>4. /\ s \in Worlds /\ s.alive = a.alive /\ s.charmed = a.charmed \cup {m}
      /\ s.spelled = a.spelled /\ s.lost = a.lost /\ s.riding = a.riding
      /\ s.pet = a.pet /\ s.mount = a.mount
      /\ \A x \in Char : /\ s.master[x] = IF x = m THEN p ELSE a.master[x]
                         /\ s.leader[x] = IF x = m THEN p ELSE a.leader[x]
  BY <1>0, <1>1, <1>3, ServeFields
<1> HIDE DEF s
<1>5. Serves(a, s, m, p)
  BY <1>4 DEF Serves
<1>6. horse' \subseteq Mob /\ a.master[m] = None /\ p \notin a.charmed
  <2>1. p \notin w.charmed
    BY <1>0, NoneApart DEF Sound, Kinds
  <2> QED
    BY <1>0, <1>1, <2>1 DEF CompanionsInv
<1> QED
  BY <1>0, <1>1, <1>2, <1>5, <1>6, ServesSound

LEMMA CharmSound ==
    ASSUME CompanionsInv, NEW c \in Char, NEW m \in Char, Charm(c, m)
    PROVE  Sound(w', horse')
<1> DEFINE a == StopFollower(w, {m})
           s == Serve(a, m, c)
           b == [s EXCEPT !.spelled = @ \cup {m}]
<1>0. /\ c \in w.alive /\ m \in Mob /\ m \in w.alive /\ c # m /\ w' = b /\ horse' = horse
      /\ m \notin w.charmed \cup horse /\ c \notin w.charmed /\ horse \subseteq Mob
      /\ Cardinality(Charmed(w, c)) < Limit[c] /\ Sound(w, horse) /\ {m} \in SUBSET Char
  BY DEF Charm, Here, Room, Same, CompanionsInv
<1>1. Closed(w)
  BY <1>0 DEF Sound
<1>2. /\ Breaks(w, a) /\ a.alive = w.alive
      /\ \A x \in Char : a.master[x] = IF x \in {m} THEN None ELSE w.master[x]
  BY <1>0, <1>1, StopBreaks
<1> HIDE DEF a
<1>3. Sound(a, horse) /\ a \in Worlds /\ a.charmed \subseteq w.charmed
  BY <1>0, <1>2, SoundBreaks DEF Sound, Closed, Breaks, Loosens
<1>4. Cardinality(Charmed(a, c)) < Limit[c]
  <2>1. Charmed(a, c) \subseteq Charmed(w, c)
    BY <1>1, <1>2, <1>3, NoneApart DEF Charmed, Closed, Worlds
  <2>2. IsFiniteSet(Charmed(w, c)) /\ Limit[c] \in Nat
    BY <1>0, FS_Subset, CompanionsAssumption DEF Sound, Closed, Counted, Charmed, Char
  <2> QED
    BY <1>0, <2>1, <2>2, FS_Subset, FS_CardinalityType
<1>5. /\ s \in Worlds /\ s.alive = a.alive /\ s.charmed = a.charmed \cup {m}
      /\ s.spelled = a.spelled /\ s.lost = a.lost /\ s.riding = a.riding
      /\ s.pet = a.pet /\ s.mount = a.mount
      /\ \A x \in Char : /\ s.master[x] = IF x = m THEN c ELSE a.master[x]
                         /\ s.leader[x] = IF x = m THEN c ELSE a.leader[x]
  BY <1>2, <1>3, ServeFields
<1> HIDE DEF s
<1>6. /\ b \in Worlds /\ b.alive = s.alive /\ b.charmed = s.charmed
      /\ b.spelled = s.spelled \cup {m} /\ b.lost = s.lost /\ b.riding = s.riding
      /\ b.pet = s.pet /\ b.mount = s.mount /\ b.master = s.master /\ b.leader = s.leader
  BY <1>5 DEF Worlds
<1> HIDE DEF b
<1>7. Serves(a, b, m, c)
  BY <1>5, <1>6 DEF Serves
<1>8. /\ m \in a.alive \ (a.charmed \cup horse) /\ c \in a.alive \ {m}
      /\ c \notin a.charmed /\ a.master[m] = None
  BY <1>0, <1>2, <1>3
<1>9. Sound(b, horse)
  BY <1>0, <1>3, <1>4, <1>7, <1>8, ServesSound
<1> QED
  BY <1>0, <1>9

LEMMA FollowSound ==
    ASSUME CompanionsInv, NEW p \in Char, NEW v \in Char, Follow(p, v)
    PROVE  Sound(w', horse')
<1> DEFINE a == StopFollower(w, {p})
           b == AddFollower(a, p, v)
<1>0. /\ p \in w.alive /\ v \in w.alive /\ v # p /\ w' = b /\ horse' = horse
      /\ Sound(w, horse) /\ {p} \in SUBSET Char /\ p \notin w.charmed
  BY DEF Follow, Here, CompanionsInv
<1>1. Closed(w)
  BY <1>0 DEF Sound
<1>2. /\ Breaks(w, a) /\ a.alive = w.alive
      /\ \A x \in Char : a.master[x] = IF x \in {p} THEN None ELSE w.master[x]
  BY <1>0, <1>1, StopBreaks
<1> HIDE DEF a
<1>3. Sound(a, horse) /\ a \in Worlds /\ a.master[p] = None
  BY <1>0, <1>2, SoundBreaks DEF Sound, Closed
<1>4. /\ b \in Worlds /\ b.alive = a.alive /\ b.charmed = a.charmed
      /\ b.spelled = a.spelled /\ b.lost = a.lost /\ b.riding = a.riding
      /\ b.pet = a.pet /\ b.mount = a.mount
      /\ \A x \in Char : /\ b.master[x] = IF x = p THEN v ELSE a.master[x]
                         /\ b.leader[x] = IF x = p THEN None ELSE a.leader[x]
  BY <1>0, <1>3, AddFollowerFields
<1> HIDE DEF b
<1>5. Joins(a, b, p, v)
  BY <1>0, <1>4 DEF Joins
<1>6. p \in a.alive /\ v \in a.alive \ {p} /\ p \notin a.charmed
  BY <1>0, <1>2 DEF Breaks, Loosens
<1>7. Sound(b, horse)
  BY <1>3, <1>5, <1>6, JoinsSound
<1> QED
  BY <1>0, <1>7

LEMMA FollowSelfSound ==
    ASSUME CompanionsInv, NEW p \in Char, FollowSelf(p)
    PROVE  Sound(w', horse')
<1>1. Breaks(w, w')
  BY StopBreaks DEF CompanionsInv, Sound, FollowSelf
<1> QED
  BY <1>1, SoundBreaks DEF CompanionsInv, FollowSelf, Same

LEMMA GroupSound ==
    ASSUME CompanionsInv, NEW p \in Player, NEW v \in Player, Group(p, v)
    PROVE  Sound(w', horse')
<1> DEFINE l    == IF SameGroup(w, v, p) THEN None ELSE p
           lead == Put(w.leader, {v}, l)
           b    == [w EXCEPT !.leader = lead]
<1>0. /\ p \in w.alive /\ v \in w.alive /\ v # p /\ w' = b /\ horse' = horse
      /\ w.leader[p] \in {None, p} /\ w.master[v] = p /\ Sound(w, horse)
      /\ p \in Char /\ v \in Char /\ l \in {None, p}
  BY NoneApart DEF Group, Here, Same, CompanionsInv
<1> HIDE DEF l
<1>1. w \in Worlds /\ w.leader \in Links
  BY <1>0 DEF Sound, Closed, Worlds
<1>2. lead \in Links /\ \A x \in Char : lead[x] = IF x = v THEN l ELSE w.leader[x]
  BY <1>0, <1>1, PutLinks
<1> HIDE DEF lead
<1>3. /\ b \in Worlds /\ b.alive = w.alive /\ b.charmed = w.charmed
      /\ b.spelled = w.spelled /\ b.lost = w.lost /\ b.riding = w.riding
      /\ b.pet = w.pet /\ b.mount = w.mount /\ b.master = w.master /\ b.leader = lead
  BY <1>1, <1>2 DEF Worlds
<1> HIDE DEF b
<1>4. Joins(w, b, v, p)
  BY <1>0, <1>2, <1>3 DEF Joins
<1>5. p \in w.alive \ {v} /\ v \notin w.charmed
  BY <1>0, NoneApart DEF Sound, Kinds
<1> QED
  BY <1>0, <1>4, <1>5, JoinsSound

LEMMA MountCommandSound ==
    ASSUME CompanionsInv, NEW p \in Player, NEW h \in Mob, MountCommand(p, h)
    PROVE  Sound(w', horse')
BY MountSound DEF CompanionsInv, MountCommand, Here, CanMount, Same

LEMMA BuyMountSound ==
    ASSUME CompanionsInv, NEW p \in Player, NEW h \in Mob, BuyMount(p, h)
    PROVE  Sound(w', horse')
<1> DEFINE a == Created(w, h)
<1>0. /\ p \in w.alive /\ h \in Mob \ w.alive /\ horse' = horse \cup {h}
      /\ w' \in {a, Mount(a, p, h)} /\ Sound(w, horse)
  BY DEF BuyMount, Here, Fresh, Kind, CompanionsInv
<1>1. Sound(a, horse') /\ a.alive = w.alive \cup {h}
  <2>1. /\ Sound(w, horse) /\ h \in Mob \ w.alive
        /\ \A x \in Char \ {h} : x \in horse' <=> x \in horse
    BY <1>0
  <2> QED
    BY <2>1, CreatedSound
<1> HIDE DEF a
<1>2. Sound(Mount(a, p, h), horse')
  BY <1>0, <1>1, MountSound
<1> QED
  BY <1>0, <1>1, <1>2

LEMMA CallHorseSound ==
    ASSUME CompanionsInv, NEW p \in Player, NEW h \in Mob, CallHorse(p, h)
    PROVE  Sound(w', horse')
<1> DEFINE a     == Created(w, h)
           f     == AddFollower(a, h, p)
           lead  == Put(f.leader, {h}, p)
           mount == Put(w.mount, {p}, h)
           b     == [f EXCEPT !.leader = lead, !.mount = mount]
<1>0. /\ p \in w.alive /\ h \in Mob \ w.alive /\ horse' = horse \cup {h}
      /\ w' \in {b, Mount(b, p, h)} /\ Sound(w, horse) /\ p \in Char /\ h \in Char /\ p # h
  BY NoneApart DEF CallHorse, Here, Fresh, Kind, CompanionsInv
<1>1. /\ Sound(a, horse') /\ a.alive = w.alive \cup {h} /\ a.mount = w.mount
      /\ a.master = w.master /\ w.master[h] = None
  <2>1. \A x \in Char \ {h} : x \in horse' <=> x \in horse
    BY <1>0
  <2> QED
    BY <1>0, <2>1, CreatedSound
<1> HIDE DEF a
<1>2. a \in Worlds /\ a.master[h] = None /\ w.mount \in Links /\ a.riding \subseteq a.alive
  BY <1>1 DEF Sound, Closed, Worlds
<1>3. /\ f \in Worlds /\ f.alive = a.alive /\ f.charmed = a.charmed
      /\ f.spelled = a.spelled /\ f.lost = a.lost /\ f.riding = a.riding
      /\ f.pet = a.pet /\ f.mount = a.mount
      /\ \A x \in Char : /\ f.master[x] = IF x = h THEN p ELSE a.master[x]
                         /\ f.leader[x] = IF x = h THEN None ELSE a.leader[x]
  BY <1>0, <1>2, AddFollowerFields
<1> HIDE DEF f

<1>4. lead \in Links /\ \A x \in Char : lead[x] = IF x = h THEN p ELSE f.leader[x]
  <2>1. f.leader \in Links
    BY <1>3 DEF Worlds
  <2> QED
    BY <1>0, <2>1, PutLinks
<1>5. mount \in Links /\ \A x \in Char : mount[x] = IF x = p THEN h ELSE w.mount[x]
  BY <1>0, <1>2, PutLinks
<1> HIDE DEF lead, mount
<1>6. /\ b \in Worlds /\ b.alive = f.alive /\ b.charmed = f.charmed
      /\ b.spelled = f.spelled /\ b.lost = f.lost /\ b.riding = f.riding
      /\ b.pet = f.pet /\ b.mount = mount /\ b.master = f.master /\ b.leader = lead
  BY <1>3, <1>4, <1>5 DEF Worlds
<1> HIDE DEF b
<1>7. Rides(a, b, p, h)
  <2>1. /\ b \in Worlds /\ b.alive = a.alive /\ b.riding \subseteq b.alive
        /\ b.charmed = a.charmed /\ b.spelled = a.spelled
        /\ a.lost \subseteq b.lost /\ b.pet = a.pet
    BY <1>2, <1>3, <1>6
  <2>2. \A x \in Char : /\ b.mount[x] = IF x = p THEN h ELSE a.mount[x]
                        /\ b.master[x] = IF x = h THEN p ELSE a.master[x]
                        /\ b.leader[x] = IF x = h THEN p ELSE a.leader[x]
    BY <1>1, <1>3, <1>4, <1>5, <1>6
  <2> QED
    BY <1>0, <2>1, <2>2 DEF Rides
<1>8. Sound(b, horse') /\ p \in b.alive /\ h \in b.alive /\ h \in horse'
  BY <1>0, <1>1, <1>3, <1>6, <1>7, RidesSound
<1>9. Sound(Mount(b, p, h), horse')
  BY <1>8, MountSound
<1> QED
  BY <1>0, <1>8, <1>9

\* A player comes back with the pet and the horse he was saved with.
LEMMA EnterSound ==
    ASSUME CompanionsInv, NEW p \in Player, Enter(p)
    PROVE  Sound(w', horse')
<1>0. p \in Char /\ p \notin w.alive /\ p \notin Mob /\ Sound(w, horse) /\ Closed(w) /\ w \in Worlds
  BY NoneApart DEF Enter, CompanionsInv, Sound, Closed
<1>1. PICK m \in (Mob \ w.alive) \cup {None}, h \in (Mob \ w.alive) \cup {None} :
         LET in     == [w EXCEPT !.alive = @ \cup {p} \cup ({m, h} \ {None})]
             petted == IF m = None THEN in
                       ELSE [in EXCEPT !.master = Put(w.master, {m}, p), !.pet = Put(w.pet, {p}, m),
                                       !.leader = Put(w.leader, {m}, p), !.charmed = @ \cup {m}]
             horsed == [petted EXCEPT !.mount = Put(Put(w.mount, {p}, h), {h}, p)]
         IN /\ m = h => m = None
            /\ horse' = (horse \cup ({h} \ {None})) \ {m}
            /\ w' \in IF h = None THEN {petted}
                      ELSE {horsed} \cup (IF Cardinality(Charmed(petted, p)) < Limit[p]
                                          THEN {Mount(horsed, p, h)} ELSE {})
  BY DEF Enter
<1> DEFINE N      == {p} \cup ({m, h} \ {None})
           in     == [w EXCEPT !.alive = @ \cup {p} \cup ({m, h} \ {None})]
           mast   == Put(w.master, {m}, p)
           pets   == Put(w.pet, {p}, m)
           lead   == Put(w.leader, {m}, p)
           petted == IF m = None THEN in
                     ELSE [in EXCEPT !.master = mast, !.pet = pets,
                                     !.leader = lead, !.charmed = @ \cup {m}]
           carry  == Put(w.mount, {p}, h)
           mount  == Put(carry, {h}, p)
           horsed == [petted EXCEPT !.mount = mount]
<1>2. /\ m = h => m = None
      /\ horse' = (horse \cup ({h} \ {None})) \ {m}
      /\ h = None => w' = petted
      /\ h # None => w' \in {horsed, Mount(horsed, p, h)}
  BY <1>1
<1>3. /\ Sound(in, horse') /\ in.alive = w.alive \cup N /\ in.charmed = w.charmed
      /\ in.master = w.master /\ in.leader = w.leader /\ in.pet = w.pet /\ in.mount = w.mount
  <2>1. N \in SUBSET Char /\ N \cap w.alive = {}
    BY <1>0, NoneApart
  <2>2. IsFiniteSet(N)
    <3>1. IsFiniteSet({p}) /\ IsFiniteSet({m}) /\ IsFiniteSet({h})
      BY FS_Singleton
    <3>2. IsFiniteSet({p} \cup {m})
      BY <3>1, FS_Union
    <3>3. IsFiniteSet(({p} \cup {m}) \cup {h})
      BY <3>1, <3>2, FS_Union
    <3>4. N \subseteq ({p} \cup {m}) \cup {h}
      OBVIOUS
    <3> QED
      BY <3>3, <3>4, FS_Subset
  <2>3. \A x \in Char \ N : x \in horse' <=> x \in horse
    BY <1>2, NoneApart
  <2>4. in = [w EXCEPT !.alive = @ \cup N]
    BY <1>0 DEF Worlds
  <2>5. /\ in.alive = w.alive \cup N /\ in.charmed = w.charmed
        /\ in.master = w.master /\ in.leader = w.leader /\ in.pet = w.pet /\ in.mount = w.mount
    BY <1>0, <2>4 DEF Worlds
  <2> HIDE DEF N, in
  <2>6. Sound(in, horse')
    BY <1>0, <2>1, <2>2, <2>3, <2>4, BornSound
  <2> QED
    BY <2>5, <2>6
<1>4. /\ p \in in.alive /\ (m # None => m \in Mob /\ m \in in.alive /\ m \in Char /\ m # p)
      /\ (h # None => h \in Mob /\ h \in in.alive /\ h \in Char /\ h # p /\ h \in horse')
      /\ m \notin horse' /\ m \notin w.charmed
  BY <1>0, <1>2, <1>3, NoneApart DEF Closed, Worlds
<1> HIDE DEF in, N
<1>5. /\ in \in Worlds /\ w.master \in Links /\ w.pet \in Links /\ w.leader \in Links
      /\ w.mount \in Links /\ in.riding \subseteq in.alive /\ in.spelled \subseteq in.charmed
  BY <1>0, <1>3 DEF Sound, Closed, Worlds
<1>6. Sound(petted, horse') /\ petted.alive = in.alive /\ petted.mount = w.mount
  <2>1. CASE m = None
    BY <1>3, <2>1
  <2>2. CASE m # None
    <3> DEFINE b == [in EXCEPT !.master = mast, !.pet = pets,
                               !.leader = lead, !.charmed = @ \cup {m}]
    <3>1. petted = b
      BY <2>2
    <3>2. mast \in Links /\ \A x \in Char : mast[x] = IF x = m THEN p ELSE w.master[x]
      BY <1>0, <1>4, <1>5, <2>2, PutLinks
    <3>3. pets \in Links /\ \A x \in Char : pets[x] = IF x = p THEN m ELSE w.pet[x]
      BY <1>0, <1>4, <1>5, <2>2, PutLinks
    <3>4. lead \in Links /\ \A x \in Char : lead[x] = IF x = m THEN p ELSE w.leader[x]
      BY <1>0, <1>4, <1>5, <2>2, PutLinks
    <3> HIDE DEF mast, pets, lead, petted
    <3>5. /\ b \in Worlds /\ b.alive = in.alive /\ b.charmed = in.charmed \cup {m}
          /\ b.spelled = in.spelled /\ b.lost = in.lost /\ b.riding = in.riding
          /\ b.pet = pets /\ b.mount = in.mount /\ b.master = mast /\ b.leader = lead
      BY <1>4, <1>5, <2>2, <3>2, <3>3, <3>4 DEF Worlds
    <3> HIDE DEF b
    <3>6. Serves(in, b, m, p)
      <4>1. m \notin b.spelled
        BY <1>3, <1>4, <1>5, <3>5
      <4>2. \A x \in Char : /\ b.master[x] = IF x = m THEN p ELSE in.master[x]
                            /\ b.leader[x] = IF x = m THEN p ELSE in.leader[x]
                            /\ b.pet[x] = IF x = p THEN m ELSE in.pet[x]
        BY <1>3, <3>2, <3>3, <3>4, <3>5
      <4> QED
        BY <3>5, <4>1, <4>2 DEF Serves
    <3>7. Cardinality(Charmed(in, p)) < Limit[p]
      <4>1. Charmed(in, p) = {}
        BY <1>0, <1>3 DEF Charmed, Closed, Loyal
      <4>2. Limit[p] \in 1..3
        BY <1>0, CompanionsAssumption DEF Char
      <4> QED
        BY <4>1, <4>2, FS_EmptySet
    <3>8. /\ m \in in.alive \ (in.charmed \cup horse') /\ p \in in.alive \ {m} /\ m \in Mob
          /\ p \notin in.charmed /\ in.master[m] = None
      <4>1. p \notin w.charmed /\ w.master[m] = None
        BY <1>0, <1>1, <2>2, NoneApart DEF Closed, Linked
      <4> QED
        BY <1>3, <1>4, <2>2, <4>1
    <3>10. horse' \subseteq Mob
      BY <1>2 DEF CompanionsInv
    <3>9. Sound(b, horse')
      BY <1>0, <1>3, <3>6, <3>7, <3>8, <3>10, ServesSound
    <3> QED
      BY <1>3, <3>1, <3>5, <3>9
  <2> QED
    BY <2>1, <2>2
<1> HIDE DEF petted
<1>7. CASE h = None
  BY <1>2, <1>6, <1>7
<1>8. CASE h # None
  <2>1. carry \in Links /\ \A x \in Char : carry[x] = IF x = p THEN h ELSE w.mount[x]
    BY <1>0, <1>4, <1>5, <1>8, PutLinks
  <2> HIDE DEF carry
  <2>2. mount \in Links /\ \A x \in Char : mount[x] = IF x = h THEN p ELSE carry[x]
    BY <1>0, <1>4, <2>1, PutLinks
  <2> HIDE DEF mount
  <2>3. petted \in Worlds /\ petted.riding \subseteq petted.alive
    BY <1>6 DEF Sound, Closed
  <2>4. /\ horsed \in Worlds /\ horsed.alive = petted.alive /\ horsed.charmed = petted.charmed
        /\ horsed.spelled = petted.spelled /\ horsed.lost = petted.lost
        /\ horsed.riding = petted.riding /\ horsed.pet = petted.pet /\ horsed.mount = mount
        /\ horsed.master = petted.master /\ horsed.leader = petted.leader
    BY <2>2, <2>3 DEF Worlds
  <2> HIDE DEF horsed
  <2>5. Rides(petted, horsed, p, h)
    <3>1. \A x \in Char : horsed.mount[x] = IF x = h THEN p
                                            ELSE IF x = p THEN h ELSE petted.mount[x]
      BY <1>6, <2>1, <2>2, <2>4
    <3>2. p \in Char /\ h \in Char /\ p # h
      BY <1>0, <1>4, <1>8
    <3>3. /\ horsed \in Worlds /\ horsed.alive = petted.alive
          /\ horsed.riding \subseteq horsed.alive /\ petted.lost \subseteq horsed.lost
      BY <2>3, <2>4
    <3> QED
      BY <2>4, <3>1, <3>2, <3>3 DEF Rides
  <2>6. /\ p \in Char /\ h \in Mob /\ h \in horse' \cap petted.alive
        /\ p \in petted.alive \ {h}
    BY <1>0, <1>4, <1>6, <1>8
  <2>7. Sound(horsed, horse')
    BY <1>6, <2>5, <2>6, RidesSound
  <2>8. Sound(Mount(horsed, p, h), horse')
    BY <2>4, <2>6, <2>7, MountSound
  <2> QED
    BY <1>2, <1>8, <2>7, <2>8
<1> QED
  BY <1>7, <1>8

\* The commands and events that only break links.
LEMMA BreakingSound ==
    ASSUME CompanionsInv, NEW p \in Player,
           \/ Dismount(p) \/ Leave(p) \/ MountRunsAway(p)
           \/ \E v \in Char : ForbidToFollow(p, v)
    PROVE  Sound(w', horse')
<1>0. Sound(w, horse) /\ Closed(w) /\ p \in Char /\ {p} \in SUBSET Char /\ w \in Worlds
  BY NoneApart DEF CompanionsInv, Sound, Closed
<1>2. CASE Dismount(p)
  BY <1>0, <1>2, DismountBreaks, SoundBreaks DEF Dismount, Same
<1>3. CASE Leave(p)
  <2>1. PICK u \in Stripped(w, p) : w' \in {u, Free(u, {p})}
    BY <1>3 DEF Leave
  <2>2. Breaks(w, u) /\ Apart(u, {p})
    BY <1>0, <2>1, NukedBreaks
  <2>3. Breaks(u, Free(u, {p}))
    BY <1>0, <2>2, FreeBreaks DEF Breaks
  <2>4. Breaks(w, w')
    BY <1>0, <2>1, <2>2, <2>3, BreaksOn
  <2> QED
    BY <1>0, <1>3, <2>4, SoundBreaks DEF Leave, Same
<1>5. CASE MountRunsAway(p)
  <2>1. {w.mount[p]} \in SUBSET Char
    BY <1>0, <1>5 DEF MountRunsAway, Worlds
  <2> QED
    BY <1>0, <1>5, <2>1, PetGoneBreaks, SoundBreaks DEF MountRunsAway, Same
<1>6. CASE \E v \in Char : ForbidToFollow(p, v)
  <2>1. PICK v \in Char : ForbidToFollow(p, v)
    BY <1>6
  <2>2. w' \in {PetGone(w, {v}), NoRide(w, p), StopFollower(w, {v})} /\ horse' = horse
    BY <2>1 DEF ForbidToFollow, Same
  <2>3. Breaks(w, PetGone(w, {v})) /\ Breaks(w, StopFollower(w, {v})) /\ Breaks(w, NoRide(w, p))
    BY <1>0, PetGoneBreaks, StopBreaks, NoRideBreaks
  <2> QED
    BY <1>0, <2>2, <2>3, SoundBreaks
<1> QED
  BY <1>2, <1>3, <1>5, <1>6

LEMMA NoFollowSound ==
    ASSUME CompanionsInv, NEW p \in Player, NoFollow(p)
    PROVE  Sound(w', horse')
<1>0. Sound(w, horse) /\ Closed(w) /\ p \in Char /\ horse' = horse
  BY NoneApart DEF CompanionsInv, Sound, NoFollow
<1>1. CASE w' = w
  BY <1>0, <1>1
<1>2. CASE LET bare == NoRide(NoPet(w, p), p)
           IN \E gone \in MayGo(bare, p) : w' = DieFollower(bare, p, gone)
  <2> DEFINE a    == NoPet(w, p)
             bare == NoRide(a, p)
  <2>1. PICK gone \in MayGo(bare, p) : w' = DieFollower(bare, p, gone)
    BY <1>2
  <2>2. Breaks(w, a)
    BY <1>0, NoPetBreaks
  <2> HIDE DEF a
  <2>3. Breaks(a, bare)
    BY <1>0, <2>2, NoRideBreaks DEF Breaks
  <2> HIDE DEF bare
  <2>4. Breaks(bare, w')
    <3>1. gone \in SUBSET Char
      BY <2>1, NoneApart DEF MayGo
    <3>2. Breaks(bare, DieFollower(bare, p, gone))
      BY <1>0, <2>3, <3>1, DieBreaks DEF Breaks
    <3> QED
      BY <2>1, <3>2
  <2>5. Breaks(w, w')
    BY <1>0, <2>2, <2>3, <2>4, BreaksOn
  <2> QED
    BY <1>0, <2>5, SoundBreaks
<1> QED
  BY <1>1, <1>2 DEF NoFollow

LEMMA MobEventSound ==
    ASSUME CompanionsInv, NEW m \in Mob, CharmEnds(m) \/ MobGone(m)
    PROVE  Sound(w', horse')
<1>0. Sound(w, horse) /\ Closed(w) /\ m \in Char /\ {m} \in SUBSET Char
  BY NoneApart DEF CompanionsInv, Sound
<1>1. CASE CharmEnds(m)
  <2>1. m \in w.spelled /\ \A c \in Char : w.pet[c] # m
    BY <1>0, <1>1 DEF CharmEnds, Sound, Kinds
  <2>2. Breaks(w, w')
    BY <1>0, <1>1, <2>1, CharmEndBreaks DEF CharmEnds
  <2> QED
    BY <1>0, <1>1, <2>2, SoundBreaks DEF CharmEnds, Same
<1>2. CASE MobGone(m)
  BY <1>0, <1>2, ExtractBreaks, SoundBreaks DEF MobGone, Same
<1> QED
  BY <1>1, <1>2

LEMMA QuarrelSound ==
    ASSUME CompanionsInv, NEW c \in Char, NEW v \in Char, Quarrel(c, v)
    PROVE  Sound(w', horse')
<1>1. Breaks(w, w')
  BY QuarrelBreaks DEF CompanionsInv, Sound, Quarrel
<1> QED
  BY <1>1, SoundBreaks DEF CompanionsInv, Quarrel, Same
-----------------------------------------------------------------------------
(* spell_order(): the world meanwhile, and afterwards. *)

Told(p, v) == [w EXCEPT !.master = Put(@, {v}, p), !.charmed = @ \cup {v}]

LEMMA ToldFields ==
    ASSUME Sound(w, horse), NEW p \in w.alive, NEW v \in w.alive \ w.charmed
    PROVE  LET u == Told(p, v)
           IN /\ Closed(u)
              /\ u.alive = w.alive /\ u.charmed = w.charmed \cup {v} /\ u.spelled = w.spelled
              /\ u.lost = w.lost /\ u.riding = w.riding /\ u.pet = w.pet /\ u.mount = w.mount
              /\ u.leader = w.leader
              /\ \A x \in Char : u.master[x] = IF x = v THEN p ELSE w.master[x]
<1> DEFINE mast == Put(w.master, {v}, p)
           u    == [w EXCEPT !.master = mast, !.charmed = @ \cup {v}]
<1>0. w \in Worlds /\ Closed(w) /\ p \in Char /\ v \in Char /\ w.master \in Links
  BY DEF Sound, Closed, Worlds
<1>1. Told(p, v) = u
  BY DEF Told
<1>2. mast \in Links /\ \A x \in Char : mast[x] = IF x = v THEN p ELSE w.master[x]
  BY <1>0, PutLinks
<1> HIDE DEF mast
<1>3. /\ u \in Worlds
      /\ u.alive = w.alive /\ u.charmed = w.charmed \cup {v} /\ u.spelled = w.spelled
      /\ u.lost = w.lost /\ u.riding = w.riding /\ u.pet = w.pet /\ u.mount = w.mount
      /\ u.leader = w.leader /\ u.master = mast
  BY <1>0, <1>2 DEF Worlds
<1> HIDE DEF u
<1>4. \A x \in Char : w.pet[x] # None => w.pet[x] \in w.charmed /\ w.pet[x] \in Char
  BY <1>0 DEF Closed, Loyal, Worlds
<1>5. Linked(u)
  BY <1>0, <1>2, <1>3 DEF Closed, Linked, Worlds
<1>6. Loyal(u)
  <2>1. \A x \in Char : u.pet[x] # None =>
           u.master[u.pet[x]] = x /\ u.leader[u.pet[x]] = x /\ u.pet[x] \in u.charmed
    BY <1>0, <1>2, <1>3, <1>4 DEF Closed, Loyal
  <2>2. \A x \in u.charmed : u.master[x] \in u.alive
    BY <1>0, <1>2, <1>3 DEF Closed, Loyal, Worlds
  <2> QED
    BY <2>1, <2>2 DEF Loyal
<1>7. Closed(u)
  BY <1>0, <1>3, <1>5, <1>6 DEF Closed
<1> QED
  BY <1>1, <1>2, <1>3, <1>7

LEMMA GivenBackFields ==
    ASSUME w \in Worlds, NEW u \in Worlds, NEW v \in u.alive
    PROVE  LET f == GivenBack(u, v)
           IN /\ f \in Worlds
              /\ f.alive = u.alive /\ f.charmed = u.charmed \ {v} /\ f.spelled = u.spelled
              /\ f.riding = u.riding /\ f.pet = u.pet /\ f.mount = u.mount
              /\ f.leader = u.leader
              /\ f.lost = IF w.master[v] \in u.alive \cup {None} THEN u.lost ELSE u.lost \cup {v}
              /\ \A x \in Char : f.master[x] = IF x = v THEN w.master[v] ELSE u.master[x]
<1> DEFINE mast == Put(u.master, {v}, w.master[v])
           lost == IF w.master[v] \in u.alive \cup {None} THEN u.lost ELSE u.lost \cup {v}
           f    == [u EXCEPT !.master = mast, !.charmed = @ \ {v}, !.lost = lost]
<1>0. v \in Char /\ w.master[v] \in Char \cup {None} /\ u.master \in Links
  BY DEF Worlds, Links
<1>1. GivenBack(u, v) = f
  BY DEF GivenBack
<1>2. mast \in Links /\ \A x \in Char : mast[x] = IF x = v THEN w.master[v] ELSE u.master[x]
  BY <1>0, PutLinks
<1>3. lost \in SUBSET Char
  BY <1>0 DEF Worlds
<1> HIDE DEF mast, lost
<1>4. /\ f \in Worlds
      /\ f.alive = u.alive /\ f.charmed = u.charmed \ {v} /\ f.spelled = u.spelled
      /\ f.riding = u.riding /\ f.pet = u.pet /\ f.mount = u.mount
      /\ f.leader = u.leader /\ f.lost = lost /\ f.master = mast
  BY <1>2, <1>3 DEF Worlds
<1> HIDE DEF f
<1> QED
  BY <1>1, <1>2, <1>4 DEF lost

\* Whatever links the command broke, giving the victim its master back keeps the world sound.
LEMMA GivenBackSound ==
    ASSUME Sound(w, horse), NEW p \in w.alive, NEW v \in w.alive \ w.charmed,
           NEW u, Breaks(Told(p, v), u)
    PROVE  Sound(GivenBack(u, v), horse)
<1> DEFINE t == Told(p, v)
           f == GivenBack(u, v)
<1>0. w \in Worlds /\ Closed(w) /\ v \in Char /\ v \notin w.spelled
  BY DEF Sound, Closed, Worlds
<1>1. /\ Closed(t)
      /\ t.alive = w.alive /\ t.charmed = w.charmed \cup {v} /\ t.spelled = w.spelled
      /\ t.pet = w.pet /\ t.mount = w.mount /\ t.leader = w.leader
      /\ \A x \in Char : t.master[x] = IF x = v THEN p ELSE w.master[x]
  BY ToldFields
<1>2. Loosens(t, u) /\ Closed(u) /\ u \in Worlds
  BY DEF Breaks, Closed
<1> HIDE DEF t
<1>3. CASE v \notin u.alive
  <2>1. f = u
    BY <1>3 DEF GivenBack
  <2>2. u.master[v] = None /\ u.leader[v] = None /\ v \notin u.charmed
    BY <1>0, <1>2, <1>3 DEF Closed, Linked
  <2>3. Loosens(w, u)
    BY <1>1, <1>2, <2>2 DEF Loosens
  <2> QED
    BY <1>2, <2>1, <2>3, LooserSound
<1>4. CASE v \in u.alive
  <2>1. /\ f \in Worlds
        /\ f.alive = u.alive /\ f.charmed = u.charmed \ {v} /\ f.spelled = u.spelled
        /\ f.riding = u.riding /\ f.pet = u.pet /\ f.mount = u.mount
        /\ f.leader = u.leader
        /\ f.lost = IF w.master[v] \in u.alive \cup {None} THEN u.lost ELSE u.lost \cup {v}
        /\ \A x \in Char : f.master[x] = IF x = v THEN w.master[v] ELSE u.master[x]
    BY <1>0, <1>2, <1>4, GivenBackFields
  <2> HIDE DEF f
  <2>2. \A x \in Char : u.pet[x] # None => u.pet[x] \in u.charmed /\ u.pet[x] \in Char \ {v}
    <3>1. \A x \in Char : w.pet[x] # v
      BY <1>0, NoneApart DEF Closed, Loyal
    <3>2. \A x \in Char : u.pet[x] \in {w.pet[x], None}
      BY <1>1, <1>2 DEF Loosens
    <3>3. \A x \in Char : u.pet[x] # None => u.pet[x] \in u.charmed
      BY <1>2 DEF Closed, Loyal
    <3> QED
      BY <1>2, <3>1, <3>2, <3>3 DEF Worlds
  <2>3. Linked(f)
    <3>1. Linked(u)
      BY <1>2 DEF Closed
    <3>2. \A x \in Char \ f.alive : f.master[x] = None /\ f.leader[x] = None /\ f.pet[x] = None
      BY <1>4, <2>1, <3>1 DEF Linked
    <3>3. \A x \in f.alive : /\ f.leader[x] \in f.alive \cup {None}
                             /\ f.pet[x] \in f.alive \cup {None}
                             /\ x \in f.lost \/ f.master[x] \in f.alive \cup {None}
      BY <1>2, <2>1, <3>1 DEF Linked, Worlds
    <3> QED
      BY <3>2, <3>3 DEF Linked
  <2>4. Loyal(f)
    <3>1. \A x \in Char : f.pet[x] # None =>
             f.master[f.pet[x]] = x /\ f.leader[f.pet[x]] = x /\ f.pet[x] \in f.charmed
      BY <1>2, <2>1, <2>2 DEF Closed, Loyal
    <3>2. \A x \in f.charmed : f.master[x] \in f.alive
      BY <1>2, <2>1 DEF Closed, Loyal, Worlds
    <3> QED
      BY <3>1, <3>2 DEF Loyal
  <2>5. f.spelled \subseteq f.charmed /\ f.riding \subseteq f.alive /\ f.charmed \subseteq f.alive
    BY <1>0, <1>1, <1>2, <2>1 DEF Closed, Loosens
  <2>6. Closed(f)
    BY <2>1, <2>3, <2>4, <2>5 DEF Closed
  <2>7. Loosens(w, f)
    <3>1. f.alive \subseteq w.alive /\ f.charmed \subseteq w.charmed /\ f.spelled \subseteq w.spelled
      BY <1>1, <1>2, <2>1 DEF Loosens
    <3>2. ASSUME NEW c \in Char
          PROVE  /\ \/ f.master[c] = w.master[c]
                    \/ f.master[c] = None /\ f.leader[c] \in {None, c}
                 /\ f.leader[c] \in {w.leader[c], None, c}
                 /\ f.mount[c] \in {w.mount[c], None}
                 /\ f.pet[c] \in {w.pet[c], None}
                 /\ f.master[c] # None /\ c \in w.charmed => c \in f.charmed
      BY <1>1, <1>2, <2>1 DEF Loosens
    <3> QED
      BY <3>1, <3>2 DEF Loosens
  <2> QED
    BY <2>6, <2>7, LooserSound DEF f
<1> QED
  BY <1>3, <1>4

\* Those whom the victim attacks, and whoever of them dies, only lose links.
LEMMA CommandBreaks ==
    ASSUME NEW t, Closed(t), NEW v \in Char, NEW u \in Commanded(t, v)
    PROVE  \/ Breaks(t, u)
           \/ \E h \in Mob : CanMount(t, v, h) /\ u = Mount(t, v, h)
<1>1. CASE u = t
  BY <1>1, BreaksSame
<1>2. CASE u = Dismounted(t, v)
  BY <1>2, DismountBreaks
<1>3. CASE \E h \in Mob : CanMount(t, v, h) /\ u = Mount(t, v, h)
  BY <1>3
<1>4. CASE \E d \in t.alive : u = Quarrelled(t, v, d)
  BY <1>4, QuarrelBreaks DEF Closed, Worlds
<1>5. CASE \E d \in t.alive : u \in Killed(Quarrelled(t, v, d))
  <2>1. PICK d \in t.alive : u \in Killed(Quarrelled(t, v, d))
    BY <1>5
  <2> DEFINE f == Quarrelled(t, v, d)
  <2>2. Breaks(t, f) /\ u \in Killed(f)
    BY <2>1, QuarrelBreaks DEF Closed, Worlds
  <2> HIDE DEF f
  <2>3. Closed(f)
    BY <2>2 DEF Breaks
  <2>4. CASE \E x \in Mob : u = ExtractMob(f, {x})
    <3>1. PICK x \in Mob : u = ExtractMob(f, {x})
      BY <2>4
    <3>2. Breaks(f, u)
      BY <2>3, <3>1, ExtractBreaks, NoneApart
    <3> QED
      BY <2>2, <3>2, BreaksOn
  <2>5. CASE \E x \in Player : u \in Stripped(f, x)
    <3>1. PICK x \in Player : u \in Stripped(f, x)
      BY <2>5
    <3>2. Breaks(f, u)
      BY <2>3, <3>1, NukedBreaks, NoneApart
    <3> QED
      BY <2>2, <3>2, BreaksOn
  <2> QED
    BY <2>2, <2>4, <2>5 DEF Killed
<1> QED
  BY <1>1, <1>2, <1>3, <1>4, <1>5 DEF Commanded

LEMMA OrderSound ==
    ASSUME CompanionsInv, NEW p \in Player, NEW v \in Char, Order(p, v)
    PROVE  Sound(w', horse')
<1> DEFINE t == Told(p, v)
<1>0. /\ Sound(w, horse) /\ p \in w.alive /\ v \in w.alive \ w.charmed /\ p # v
      /\ w \in Worlds /\ horse' = horse /\ p \in Char
  BY DEF CompanionsInv, Order, Here, Same, Sound, Closed, Worlds
<1>1. PICK u \in Commanded(t, v) : w' \in Obeyed(u, p, v)
  BY DEF Order, Told
<1>2. /\ Closed(t) /\ t.alive = w.alive /\ t.mount = w.mount
  BY <1>0, ToldFields
<1> HIDE DEF t
<1> DEFINE f == GivenBack(u, v)
<1>3. Sound(f, horse)
  <2>1. CASE Breaks(t, u)
    BY <1>0, <2>1, GivenBackSound DEF t
  <2>2. CASE \E h \in Mob : CanMount(t, v, h) /\ u = Mount(t, v, h)
    <3>1. PICK h \in Mob : CanMount(t, v, h) /\ u = Mount(t, v, h)
      BY <2>2
    <3>2. v \in t.alive \cap Player /\ h \in t.alive \cap Mob /\ h \in horse
      BY <1>0, <1>2, <3>1 DEF CanMount
    <3>3. t.mount[v] \in Mob \cup {None}
      BY <1>0, <1>2, <3>2 DEF Sound, Kinds
    <3>4. PICK left : /\ Breaks(t, left) /\ v \in left.alive /\ h \in left.alive \ {v}
                      /\ u = Yoked(left, v, h)
      BY <1>2, <3>1, <3>2, <3>3, MountIsYoked
    <3> DEFINE g == GivenBack(left, v)
    <3>5. Sound(g, horse)
      BY <1>0, <3>4, GivenBackSound DEF t
    <3>6. /\ Rides(left, u, v, h) /\ u.lost = left.lost
          /\ u.riding = left.riding \cup {v, h} /\ u.master[h] = v /\ u.leader[h] = v
      BY <3>4, YokedRides DEF Breaks
    <3>7. /\ left \in Worlds /\ u \in Worlds /\ v \in u.alive /\ u.alive = left.alive
          /\ left.riding \subseteq left.alive
      BY <3>4, <3>6 DEF Rides, Breaks, Closed
    <3>8. /\ g \in Worlds
          /\ g.alive = left.alive /\ g.charmed = left.charmed \ {v} /\ g.spelled = left.spelled
          /\ g.riding = left.riding /\ g.pet = left.pet /\ g.mount = left.mount
          /\ g.leader = left.leader
          /\ g.lost = IF w.master[v] \in left.alive \cup {None} THEN left.lost
                                                                ELSE left.lost \cup {v}
          /\ \A x \in Char : g.master[x] = IF x = v THEN w.master[v] ELSE left.master[x]
      <4>1. w \in Worlds /\ left \in Worlds /\ v \in left.alive
        BY <1>0, <3>4, <3>7
      <4> QED
        BY <4>1, GivenBackFields
    <3>9. /\ f \in Worlds
          /\ f.alive = u.alive /\ f.charmed = u.charmed \ {v} /\ f.spelled = u.spelled
          /\ f.riding = u.riding /\ f.pet = u.pet /\ f.mount = u.mount
          /\ f.leader = u.leader
          /\ f.lost = IF w.master[v] \in u.alive \cup {None} THEN u.lost ELSE u.lost \cup {v}
          /\ \A x \in Char : f.master[x] = IF x = v THEN w.master[v] ELSE u.master[x]
      BY <1>0, <3>7, GivenBackFields
    <3> HIDE DEF f, g
    <3>10. Rides(g, f, v, h)
      <4>1. /\ f.alive = g.alive /\ f.riding \subseteq f.alive /\ f.charmed = g.charmed
            /\ f.spelled = g.spelled /\ f.pet = g.pet /\ f.lost = g.lost
        BY <3>4, <3>6, <3>7, <3>8, <3>9 DEF Rides
      <4>2. /\ f.mount[v] = h /\ f.mount[h] \in {g.mount[h], v}
            /\ \A x \in Char \ {v, h} : f.mount[x] \in {g.mount[x], None}
        BY <3>6, <3>8, <3>9 DEF Rides
      <4>3. /\ \A x \in Char \ {h} : f.master[x] = g.master[x] /\ f.leader[x] = g.leader[x]
            /\ f.master[h] = v /\ f.leader[h] = v
        BY <3>4, <3>6, <3>8, <3>9, NoneApart DEF Rides
      <4> QED
        BY <3>9, <4>1, <4>2, <4>3 DEF Rides
    <3>11. h \in horse \cap g.alive /\ v \in g.alive \ {h} /\ v \in Player
      BY <3>2, <3>4, <3>8
    <3> QED
      BY <3>5, <3>10, <3>11, RidesSound
  <2> QED
    BY <1>2, <2>1, <2>2, CommandBreaks
<1>4. Closed(f)
  BY <1>3 DEF Sound
<1> HIDE DEF f
<1>5. w' \in {f, Quarrelled(f, v, p)}
  BY <1>1 DEF Obeyed, f
<1>6. Breaks(f, Quarrelled(f, v, p))
  BY <1>0, <1>4, QuarrelBreaks
<1> QED
  BY <1>0, <1>3, <1>5, <1>6, SoundBreaks
-----------------------------------------------------------------------------
LEMMA InitSound == Init => CompanionsInv
<1> SUFFICES ASSUME Init PROVE CompanionsInv
  OBVIOUS
<1>0. NoLinks \in Links /\ \A x \in Char : NoLinks[x] = None
  BY DEF NoLinks, Links
<1>1. /\ w.charmed = {} /\ w.alive = {} /\ w.riding = {} /\ w.spelled = {} /\ w.lost = {}
      /\ w.master = NoLinks /\ w.leader = NoLinks /\ w.pet = NoLinks /\ w.mount = NoLinks
      /\ w \in Worlds /\ horse = {} /\ nofollow = {}
  BY <1>0 DEF Init, Worlds
<1>2. Closed(w)
  BY <1>0, <1>1 DEF Closed, Linked, Loyal
<1>3. Kinds(w, horse) /\ Ends(w, horse)
  <2>1. /\ \A x \in Char : w.master[x] = None
        /\ \A x \in Char : w.leader[x] = None
        /\ \A x \in Char : w.pet[x] = None
        /\ \A x \in Char : w.mount[x] = None
    BY <1>0, <1>1
  <2>2. Kinds(w, horse)
    BY <1>1, <2>1, NoneApart DEF Kinds
  <2>3. Ends(w, horse)
    <3>1. w.alive = {}
      BY <1>1
    <3>2. ASSUME NEW S \in (SUBSET (w.alive \ horse)) \ {{}} PROVE FALSE
      BY <3>1
    <3>3. \A c \in Char : w.leader[c] \in {None, w.master[c], c}
      BY <2>1
    <3> QED
      BY <3>2, <3>3 DEF Ends
  <2> QED
    BY <2>2, <2>3
<1>4. Counted(w)
  <2>1. \A c \in Char : Charmed(w, c) = {} /\ Limit[c] \in 1..3
    BY <1>1, CompanionsAssumption DEF Charmed, Char
  <2> QED
    BY <1>1, <2>1, FS_EmptySet DEF Counted
<1> QED
  BY <1>1, <1>2, <1>3, <1>4 DEF CompanionsInv, Sound

LEMMA PlayersSound ==
    ASSUME CompanionsInv, NEW p \in Player, Companionship(p)
    PROVE  CompanionsInv'
<1>1. Sound(w', horse')
  BY BreakingSound, NoFollowSound, GroupSound, BuyPetSound, ConjureSound,
     BuyMountSound, CallHorseSound, MountCommandSound, EnterSound
  DEF Companionship
<1>2. horse' \subseteq Mob /\ nofollow' \subseteq Player
  BY DEF CompanionsInv, Companionship, NoFollow, Dismount, ForbidToFollow,
         Group, BuyPet, Conjure, BuyMount, CallHorse, MountCommand, Enter, Leave,
         MountRunsAway, Same, Kind
<1> QED
  BY <1>1, <1>2 DEF CompanionsInv

LEMMA EventsSound ==
    ASSUME CompanionsInv, Event
    PROVE  CompanionsInv'
<1>1. Sound(w', horse')
  BY ArriveSound, ResetSound, MobEventSound, CharmSound, QuarrelSound, FollowSound,
     FollowSelfSound DEF Event
<1>2. horse' \subseteq Mob /\ nofollow' \subseteq Player
  BY DEF CompanionsInv, Event, Arrive, CharmEnds, MobGone, ResetHorseman, Charm, Quarrel,
         Follow, FollowSelf, Same, Kind
<1> QED
  BY <1>1, <1>2 DEF CompanionsInv

LEMMA NextSound == CompanionsInv /\ [Next]_vars => CompanionsInv'
<1> SUFFICES ASSUME CompanionsInv, [Next]_vars PROVE CompanionsInv'
  OBVIOUS
<1>1. CASE Event
  BY <1>1, EventsSound
<1>2. CASE \E p \in Player : Companionship(p)
  BY <1>2, PlayersSound
<1>3. CASE \E p \in Player, v \in Char : Order(p, v)
  BY <1>3, OrderSound DEF CompanionsInv, Order, Same
<1>4. CASE UNCHANGED vars
  BY <1>4 DEF CompanionsInv, vars
<1> QED
  BY <1>1, <1>2, <1>3, <1>4 DEF Next

LEMMA AlwaysSound == Spec => []CompanionsInv
BY InitSound, NextSound, PTL DEF Spec

\* No character in the world points at one that has left it, through stop_follower(),
\* die_follower() and extract_char() in whatever order, but for the master that
\* spell_order() gives back; and max_count_charmed() bounds everybody's servants.
THEOREM NoDanglingLink == Spec => []FollowLinksAlive
<1>1. CompanionsInv => FollowLinksAlive
  <2> SUFFICES ASSUME CompanionsInv PROVE FollowLinksAlive
    OBVIOUS
  <2>1. TypeOK
    <3>1. /\ w \in Worlds /\ w.charmed \subseteq Mob /\ w.spelled \subseteq Mob
          /\ w.riding \subseteq w.alive /\ w.charmed \subseteq w.alive
          /\ w.spelled \subseteq w.charmed
      BY DEF CompanionsInv, Sound, Closed, Kinds
    <3>2. w \in [charmed: SUBSET Mob, master: Links, alive: SUBSET Char, leader: Links,
                 pet: Links, mount: Links, riding: SUBSET Char, spelled: SUBSET Mob,
                 lost: SUBSET Char]
      BY <3>1 DEF Worlds
    <3> QED
      BY <3>1, <3>2 DEF TypeOK, CompanionsInv, Sound, Counted
  <2>2. w.alive \subseteq Char /\ Linked(w)
    BY DEF CompanionsInv, Sound, Closed, Worlds
  <2> QED
    BY <2>1, <2>2 DEF FollowLinksAlive, Linked
<1> QED
  BY <1>1, AlwaysSound, PTL

\* Who has a pet is its master and its leader, it is charmed, and so it is nobody else's;
\* the charmed have a master.
THEOREM PetsStayLoyal == Spec => []PetsLoyal
<1>1. CompanionsInv => PetsLoyal
  <2> SUFFICES ASSUME CompanionsInv PROVE PetsLoyal
    OBVIOUS
  <2>1. w.alive \subseteq Char /\ Loyal(w)
    BY DEF CompanionsInv, Sound, Closed, Worlds
  <2> QED
    BY <2>1, NoneApart DEF PetsLoyal, Loyal
<1> QED
  BY <1>1, AlwaysSound, PTL

\* get_master() ends for any number of characters, nobody obeys himself through others, and
\* every group has one head, as long as no mob rides backwards.
THEOREM ChainsAlwaysEnd == Spec => []ChainsEnd
<1>1. CompanionsInv => ChainsEnd
  <2> SUFFICES ASSUME CompanionsInv PROVE ChainsEnd
    OBVIOUS
  <2>1. /\ w.alive \subseteq Char /\ Ends(w, horse) /\ w \in Worlds /\ horse \subseteq Mob
        /\ w.charmed \subseteq Mob
        /\ \A p \in Player : w.leader[p] \in Player \cup {None}
    BY DEF CompanionsInv, Sound, Closed, Worlds, Kinds
  <2>2. ASSUME NEW S \in SUBSET {c \in w.alive : c \in Mob => ~Backwards(c)}, S # {}
        PROVE  /\ \E c \in S : ~Obeys(w, c) \/ w.master[c] \notin S
               /\ \E c \in S : w.leader[c] \in {None, c} \/ w.leader[c] \notin S
    <3> DEFINE R == S \ horse
    <3>0. S \in SUBSET w.alive /\ S # {} /\ \A m \in S \cap Mob : ~Backwards(m)
      BY <2>2
    <3>1. \A c \in S \cap Mob : w.master[c] \notin horse
      BY <3>0 DEF Backwards
    <3>2. CASE R = {}
      <4>1. PICK h \in S : h \in horse
        BY <3>0, <3>2
      <4>2. w.master[h] \notin S /\ w.leader[h] \in {None, w.master[h], h}
        BY <2>1, <3>1, <3>2, <4>1 DEF Ends
      <4> QED
        BY <4>1, <4>2
    <3>3. CASE R # {}
      <4>1. R \in (SUBSET (w.alive \ horse)) \ {{}}
        BY <3>0, <3>3
      <4>2. PICK c \in R : c \notin w.charmed \/ w.master[c] \notin R
        BY <2>1, <4>1 DEF Ends
      <4>3. ~Obeys(w, c) \/ w.master[c] \notin S
        <5>1. CASE c \in w.charmed
          BY <2>1, <3>1, <4>2, <5>1
        <5>2. CASE c \notin w.charmed
          BY <3>0, <4>2, <5>2 DEF Backwards, Obeys
        <5> QED
          BY <5>1, <5>2
      <4>4. PICK d \in R : w.leader[d] \in {None, d} \/ w.leader[d] \notin R
        BY <2>1, <4>1 DEF Ends
      <4>5. w.leader[d] \in {None, d} \/ w.leader[d] \notin S
        <5>1. CASE d \in Player
          BY <2>1, <4>4, <5>1, NoneApart
        <5>2. CASE d \in Mob
          BY <2>1, <3>1, <4>4, <5>2 DEF Ends
        <5> QED
          BY <2>1, <5>1, <5>2 DEF Char
      <4> QED
        BY <4>3, <4>5
    <3> QED
      BY <3>2, <3>3
  <2> QED
    BY <2>1, <2>2 DEF ChainsEnd, Ends
<1> QED
  BY <1>1, AlwaysSound, PTL
=============================================================================
