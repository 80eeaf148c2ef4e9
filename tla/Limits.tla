------------------------------- MODULE Limits -------------------------------
(***************************************************************************)
(* Limited objects (limit.c): of some kinds of objects only so many may    *)
(* exist, and no character may hold two of one kind.  The table limits[]   *)
(* holds, for each kind, how many there are and how many there may be.     *)
(* The first number is not computed from the world: some twenty places     *)
(* add to it and take from it, and it has to agree with the objects in the *)
(* world and with those in the files of the players who are not there.     *)
(*                                                                         *)
(* The module follows one kind, which is no container and falls with its   *)
(* owner (no ITEM_ROT_DEATH, no ITEM_QUITDROP).  The objects of the kind   *)
(* are alike, so that the module counts them place by place.  A lot is not *)
(* worn: Auction follows what comes of lots that are.                      *)
(***************************************************************************)
EXTENDS Integers, FiniteSets, Totals

CONSTANTS
    Player,
    None,
    InitMax,     \* how many there may be at first
    MaxMax,      \* bound: what an editor may set it to
    MaxObjs,     \* bound on the objects of the kind in the world and in the files
    MaxCount     \* bound on the count up to which immortals load and clone

ASSUME LimitsAssumption ==
    /\ None \notin Player /\ IsFiniteSet(Player)
    /\ {MaxObjs, MaxCount} \subseteq Nat /\ MaxMax \in Nat \ {0} /\ InitMax \in 1..MaxMax

VARIABLES
    room,      \* on the ground, also in corpses, in bags on the ground and with immortals
    mobs,      \* carried by mobiles
    stock,     \* carried by mobiles with ITEM_INVENTORY
    have,      \* carried by the players
    online,    \* the players in the world
    file,      \* what the player files hold
    lot,       \* the object put up for auction and who leads the bids
    count,     \* limits[i + 1]
    max,       \* limits[i + 2]
    saved      \* <<count, max>> as they stand in limits.txt

things == <<room, mobs, stock, have, online, file, lot>>
table  == <<count, max, saved>>
vars   == <<things, table>>

\* Worn, loose in the bag, or in a container that is carried or worn.
Spots   == {"worn", "loose", "box"}
Nothing == [s \in Spots |-> 0]
Bags    == [Spots -> Nat]
Held(b) == b["worn"] + b["loose"] + b["box"]

TypeOK ==
    /\ {room, mobs, stock} \subseteq Nat
    /\ have \in [Player -> Bags] /\ file \in [Player -> Bags]
    /\ online \subseteq Player
    /\ lot \in {None} \cup [seller : Player, buyer : Player \cup {None}]
    /\ count \in Nat /\ max \in 1..MaxMax
    /\ saved \in Nat \X (1..MaxMax)

\* The objects that the table ought to know of: ITEM_INVENTORY ones are the ware of
\* a shop or beyond the limit, and the file of a player in the world is only a copy.
Known == room + mobs + SumOf([p \in Player |-> IF p \in online THEN Held(have[p])
                                                ELSE Held(file[p])], Player)

Space == Known + stock < MaxObjs

Init ==
    /\ room = 0 /\ mobs = 0 /\ stock = 0
    /\ have = [p \in Player |-> Nothing]
    /\ file = [p \in Player |-> Nothing]
    /\ online = {}
    /\ lot = None
    /\ count = 0 /\ max = InitMax /\ saved = <<0, InitMax>>

-----------------------------------------------------------------------------
(***************************************************************************)
(* Adding and taking away.                                                 *)
(***************************************************************************)
\* check_reset_for_limit() finds that there are enough.
Full == count >= max

\* What extract_obj() with "limit" set leaves of the count when n objects go.  Every
\* one of them is taken off while the count is positive.
Less(n) == IF n > count THEN 0 ELSE count - n

\* The bags in which p has n more, or n less, in spot s.
More(p, s, n) == [have EXCEPT ![p][s] = @ + n]

\* One object, in a spot from where it can leave without a word: not in an auction.
Free(p, s) ==
    /\ p \in online /\ have[p][s] > 0
    /\ lot # None => lot.seller # p

\* Mutant: what is in a container is not looked at.
HasLimit_NoBoxes(p) ==
    have[p]["worn"] + have[p]["loose"] > 0 \/ (lot # None /\ lot.buyer = p)

\* is_have_limit(): p holds one, or is about to win one.
HasLimit(p) == Held(have[p]) > 0 \/ (lot # None /\ lot.buyer = p)

-----------------------------------------------------------------------------
(***************************************************************************)
(* What brings objects into the world.                                     *)
(***************************************************************************)
\* A reset puts one into a room or a container, or a digger finds one.  Beyond the
\* limit it is taken back at once, without a change of the count.
ResetRoom ==
    /\ Space /\ ~Full
    /\ room' = room + 1 /\ count' = count + 1
    /\ UNCHANGED <<mobs, stock, have, online, file, lot, max, saved>>

\* A reset gives one to a mobile.  Beyond the limit it stays, as ITEM_INVENTORY.
ResetMob ==
    /\ Space
    /\ \/ ~Full /\ mobs' = mobs + 1 /\ count' = count + 1 /\ UNCHANGED stock
       \/ Full /\ stock' = stock + 1 /\ UNCHANGED <<mobs, count>>
    /\ UNCHANGED <<room, have, online, file, lot, max, saved>>

\* A reset gives one to a shopkeeper.  It is ITEM_INVENTORY before it is counted.
ResetShop ==
    /\ Space
    /\ stock' = stock + 1
    /\ count' = IF Full THEN count ELSE count + 1
    /\ UNCHANGED <<room, mobs, have, online, file, lot, max, saved>>

\* The commands of scripts ask whether there are enough, and do not count.
ScriptLoad ==
    /\ Space /\ ~Full
    /\ \/ room' = room + 1 /\ UNCHANGED mobs
       \/ mobs' = mobs + 1 /\ UNCHANGED room
    /\ UNCHANGED <<stock, have, online, file, lot, table>>

\* The reset command of the editors creates the object on the spot: it does not ask
\* and does not count.
EditorLoad ==
    /\ Space
    /\ \/ room' = room + 1 /\ UNCHANGED <<mobs, stock>>
       \/ mobs' = mobs + 1 /\ UNCHANGED <<room, stock>>
       \/ stock' = stock + 1 /\ UNCHANGED <<room, mobs>>
    /\ UNCHANGED <<have, online, file, lot, table>>

\* do_load() counts and does not ask.
WizLoad ==
    /\ Space /\ count < MaxCount
    /\ room' = room + 1 /\ count' = count + 1
    /\ UNCHANGED <<mobs, stock, have, online, file, lot, max, saved>>

\* do_clone(): check_reset_for_limit() has counted the copy already when
\* clone_object() counts it.  The copy of an ITEM_INVENTORY object is one, too.
Clone ==
    /\ Space /\ ~Full /\ count + 1 < MaxCount
    /\ \/ Known > 0 /\ room' = room + 1 /\ UNCHANGED <<mobs, stock>>
       \/ mobs > 0 /\ mobs' = mobs + 1 /\ UNCHANGED <<room, stock>>
       \/ stock > 0 /\ stock' = stock + 1 /\ UNCHANGED <<room, mobs>>
    /\ count' = count + 2
    /\ UNCHANGED <<have, online, file, lot, max, saved>>

\* A shop sells a copy of its ware, which nobody counts.
BuyWare(p) ==
    /\ Space /\ stock > 0 /\ p \in online /\ ~HasLimit(p)
    /\ have' = More(p, "loose", 1)
    /\ UNCHANGED <<room, mobs, stock, online, file, lot, table>>

-----------------------------------------------------------------------------
(***************************************************************************)
(* What moves them.                                                        *)
(***************************************************************************)
\* do_get(), also out of a corpse or a box, and with a box that holds one.
Get(p) ==
    /\ p \in online /\ room > 0 /\ ~HasLimit(p)
    /\ room' = room - 1
    /\ \E s \in {"loose", "box"} : have' = More(p, s, 1)
    /\ UNCHANGED <<mobs, stock, online, file, lot, table>>

\* do_give() by p and do_steal() by q: of the object, or of the box it is in.
FromOther(p, q) ==
    /\ p # q /\ q \in online /\ ~HasLimit(q)
    /\ \E s \in {"loose", "box"} :
         /\ Free(p, s)
         /\ have' = [have EXCEPT ![p][s] = @ - 1, ![q][s] = @ + 1]
    /\ UNCHANGED <<room, mobs, stock, online, file, lot, table>>

\* do_drop(), do_put() into a box on the ground; disarmed or put off by force.
Drop(p) ==
    /\ \E s \in Spots : Free(p, s) /\ have' = More(p, s, -1)
    /\ room' = room + 1
    /\ UNCHANGED <<mobs, stock, online, file, lot, table>>

\* Given, with its box or alone, or sold to a mobile; a shop that has the ware in
\* stock destroys it.
ToMob(p) ==
    /\ \E s \in {"loose", "box"} : Free(p, s) /\ have' = More(p, s, -1)
    /\ \/ mobs' = mobs + 1 /\ UNCHANGED count
       \/ stock > 0 /\ count' = Less(1) /\ UNCHANGED mobs
    /\ UNCHANGED <<room, stock, online, file, lot, max, saved>>

\* Bought from a shop which got it from a player, given or stolen: from a mobile.
FromMob(p) ==
    /\ p \in online /\ mobs > 0 /\ ~HasLimit(p)
    /\ mobs' = mobs - 1
    /\ have' = More(p, "loose", 1)
    /\ UNCHANGED <<room, stock, online, file, lot, table>>

\* Wear, take off, put into a container one carries, take out of it.  The container
\* must not hold one already; the object in it is the one that is taken.
Rearrange(p) ==
    /\ p \in online
    /\ lot # None => lot.seller # p
    /\ \E s, t \in Spots :
         /\ s # t /\ have[p][s] > 0 /\ "loose" \in {s, t}
         /\ s = "box" => Held(have[p]) = 1 /\ (lot # None => lot.buyer # p)
         /\ have' = [have EXCEPT ![p][s] = @ - 1, ![p][t] = @ + 1]
    /\ UNCHANGED <<room, mobs, stock, online, file, lot, table>>

\* A mobile picks one up, or lets one fall, also by its death.
MobMoves ==
    /\ \/ room > 0 /\ room' = room - 1 /\ mobs' = mobs + 1
       \/ mobs > 0 /\ room' = room + 1 /\ mobs' = mobs - 1
    /\ UNCHANGED <<stock, have, online, file, lot, table>>

-----------------------------------------------------------------------------
(***************************************************************************)
(* What takes them out of the world.                                       *)
(***************************************************************************)
\* On the ground or with a mobile: sacrificed, purged, decayed, or the mobile is
\* extracted with all it carries.
Destroyed ==
    /\ \/ room > 0 /\ room' = room - 1 /\ UNCHANGED mobs
       \/ mobs > 0 /\ mobs' = mobs - 1 /\ UNCHANGED room
    /\ count' = Less(1)
    /\ UNCHANGED <<stock, have, online, file, lot, max, saved>>

\* Mutant: extract_obj() does not look at ITEM_INVENTORY.
StockGone_Counted ==
    /\ stock > 0 /\ stock' = stock - 1
    /\ count' = Less(1)
    /\ UNCHANGED <<room, mobs, have, online, file, lot, max, saved>>

\* An ITEM_INVENTORY object goes: extract_obj() and make_corpse() do not count it.
StockGone ==
    /\ stock > 0 /\ stock' = stock - 1
    /\ UNCHANGED <<room, mobs, have, online, file, lot, table>>

\* Eaten, quaffed, broken, or older than LIMIT_LIFETIME.  check_auctions() cancels
\* the lot it is in.
UsedUp(p) ==
    /\ p \in online
    /\ \E s \in Spots : have[p][s] > 0 /\ have' = More(p, s, -1)
    /\ count' = Less(1)
    /\ lot' = IF lot # None /\ lot.seller = p THEN None ELSE lot
    /\ UNCHANGED <<room, mobs, stock, online, file, max, saved>>

-----------------------------------------------------------------------------
(***************************************************************************)
(* Auctions, as far as they pass objects on (see Auction).                 *)
(***************************************************************************)
PutUp(p) ==
    /\ lot = None /\ Free(p, "loose")
    /\ lot' = [seller |-> p, buyer |-> None]
    /\ UNCHANGED <<room, mobs, stock, have, online, file, table>>

Bid(p) ==
    /\ lot # None /\ p \in online /\ p # lot.seller /\ ~HasLimit(p)
    /\ lot' = [lot EXCEPT !.buyer = p]
    /\ UNCHANGED <<room, mobs, stock, have, online, file, table>>

\* auction_update(): into the bag of the buyer, who is not asked again, or at his
\* feet.
Sold ==
    /\ lot # None /\ lot.buyer # None
    /\ \/ have' = [have EXCEPT ![lot.seller]["loose"] = @ - 1,
                               ![lot.buyer]["loose"] = @ + 1]
          /\ UNCHANGED room
       \/ have' = [have EXCEPT ![lot.seller]["loose"] = @ - 1]
          /\ room' = room + 1
    /\ lot' = None
    /\ UNCHANGED <<mobs, stock, online, file, table>>

Unsold ==
    /\ lot # None /\ lot' = None
    /\ UNCHANGED <<room, mobs, stock, have, online, file, table>>

-----------------------------------------------------------------------------
(***************************************************************************)
(* Players come and go, and so does the server.                            *)
(***************************************************************************)
\* save_char_obj(), by command, by the autosave or before a link is taken over: the
\* file gets a copy of all that is carried.
Save(p) ==
    /\ p \in online
    /\ file' = [file EXCEPT ![p] = have[p]]
    /\ UNCHANGED <<room, mobs, stock, have, online, lot, table>>

\* The copy in the file becomes the object.
Login(p) ==
    /\ p \notin online
    /\ online' = online \cup {p}
    /\ have' = [have EXCEPT ![p] = file[p]]
    /\ UNCHANGED <<room, mobs, stock, file, lot, table>>

\* can_quit(): nobody leaves in the middle of an auction.
CanQuit(p) == p \in online /\ (lot # None => p \notin {lot.seller, lot.buyer})

\* p leaves the world with b in the file.
Leaves(p, b) ==
    /\ online' = online \ {p}
    /\ have' = [have EXCEPT ![p] = Nothing]
    /\ file' = [file EXCEPT ![p] = b]
    /\ UNCHANGED <<room, mobs, stock>>

\* return_limit_from_char(ch, FALSE) leaves only what is worn.
Worn(b) == [Nothing EXCEPT !["worn"] = b["worn"]]

\* do_quit() gives back what is not worn.
Quit(p) ==
    /\ CanQuit(p)
    /\ Leaves(p, Worn(have[p]))
    /\ count' = Less(Held(have[p]) - have[p]["worn"])
    /\ UNCHANGED <<lot, max, saved>>

\* Somebody has typed the name of p at another connection since the last save: the
\* copy that nanny() has loaded there is thrown out, too, and gives back a second
\* time.
QuitWithCopy(p) ==
    /\ CanQuit(p)
    /\ Leaves(p, Worn(have[p]))
    /\ count' = Less(Held(have[p]) - have[p]["worn"]
                     + Held(file[p]) - file[p]["worn"])
    /\ UNCHANGED <<lot, max, saved>>

\* do_delete(), or the death of an atheist: all is given back, the file removed.
Delete(p) ==
    /\ CanQuit(p)
    /\ Leaves(p, Nothing)
    /\ count' = Less(Held(have[p]))
    /\ UNCHANGED <<lot, max, saved>>

\* What p has put up is no longer for sale.
Cancelled(p) == IF lot # None /\ lot.seller = p THEN None ELSE lot

\* raw_kill(): into the corpse, or at the feet of the dead; then the file is written.
Die(p) ==
    /\ p \in online
    /\ room' = room + Held(have[p])
    /\ have' = [have EXCEPT ![p] = Nothing]
    /\ file' = [file EXCEPT ![p] = Nothing]
    /\ lot' = Cancelled(p)
    /\ UNCHANGED <<mobs, stock, online, table>>

\* do_purge() of a player: the file is written with all he has, and then all he has
\* is taken off the count with him.  (A bidder: see Auction.)
PurgePlayer(p) ==
    /\ p \in online /\ (lot # None => lot.buyer # p)
    /\ Leaves(p, have[p])
    /\ lot' = Cancelled(p)
    /\ count' = Less(Held(have[p]))
    /\ UNCHANGED <<max, saved>>

\* The server starts: limits.txt is read, and only files and r objects in corpses of
\* players are left.
Boot(r) ==
    /\ room' = r /\ mobs' = 0 /\ stock' = 0
    /\ have' = [p \in Player |-> Nothing]
    /\ online' = {}
    /\ lot' = None
    /\ count' = saved[1] /\ max' = saved[2]
    /\ UNCHANGED saved

\* for_reboot(): the corpses are written, and the players with a link as they are.
\* Nobody is asked to give back, and limits.txt is not written.
Reboot ==
    \E linked \in SUBSET online, r \in 0..room :
        /\ file' = [p \in Player |-> IF p \in linked THEN have[p] ELSE file[p]]
        /\ r + SumOf([p \in Player |-> Held(file'[p])], Player) <= MaxObjs
        /\ Boot(r)

Crash == Boot(0) /\ UNCHANGED file

\* oedit_limit() writes limits.txt, with the count of the moment.
EditLimit(n) ==
    /\ n # max
    /\ max' = n /\ saved' = <<count, n>>
    /\ UNCHANGED <<things, count>>

-----------------------------------------------------------------------------
Makes == \/ ResetRoom \/ ResetMob \/ ResetShop \/ ScriptLoad \/ EditorLoad \/ WizLoad
         \/ Clone \/ (\E p \in Player : BuyWare(p))

Moves == \/ MobMoves \/ Sold \/ Unsold
         \/ \E p \in Player :
              \/ Get(p) \/ Drop(p) \/ ToMob(p) \/ FromMob(p) \/ Rearrange(p)
              \/ PutUp(p) \/ Bid(p) \/ Die(p)
              \/ \E q \in Player : FromOther(p, q)

Ends == Destroyed \/ StockGone \/ (\E p \in Player : UsedUp(p))

Comings == \E p \in Player :
    Save(p) \/ Login(p) \/ Quit(p) \/ QuitWithCopy(p) \/ Delete(p) \/ PurgePlayer(p)

Next == Makes \/ Moves \/ Ends \/ Comings
        \/ Reboot \/ Crash \/ (\E n \in 1..MaxMax : EditLimit(n))

Spec == Init /\ [][Next]_vars

-----------------------------------------------------------------------------
\* No player ever has two of the kind in the world or in his file, and who is about
\* to win one has none, from a seller who is there to hand it over: neither gifts,
\* thefts, corpses, boxes, shops, auctions nor restarts get around is_have_limit().
OnePerPlayer ==
    /\ TypeOK
    /\ \A p \in Player : /\ Held(have[p]) <= 1 /\ Held(file[p]) <= 1
                         /\ lot # None /\ lot.buyer = p => Held(have[p]) = 0
    /\ lot # None => lot.seller \in online /\ have[lot.seller]["loose"] = 1

\* The table drifts from the world in few ways.  With more objects than it knows of,
\* the next reset makes one too many; those it knows of that are nowhere are never made
\* again.  Whatever moves or destroys objects, and the way of a player out of the world
\* and back, keep it in step; and beyond the limit only immortals go, or a server that
\* starts with an old table.
DriftsOnlyBy ==
    [][/\ Known' - count' > Known - count =>
            \/ ScriptLoad \/ EditorLoad \/ Reboot \/ Crash
            \/ \E p \in Player : BuyWare(p) \/ QuitWithCopy(p) \/ PurgePlayer(p)
       /\ count' - Known' > count - Known /\ count' > Known' =>
            ResetShop \/ Clone \/ Reboot \/ Crash
       /\ count' > count /\ count' > max' => WizLoad \/ Clone \/ Reboot \/ Crash]_vars
=============================================================================
