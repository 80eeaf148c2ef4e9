------------------------------ MODULE Auction ------------------------------
(***************************************************************************)
(* The auctions, the bank, and what ties them to the players: a lot stays  *)
(* in the bag of its seller until it is sold, the stake of the last bidder *)
(* has left his account, and both may die, lose their link, be purged or   *)
(* want to quit meanwhile.                                                 *)
(*                                                                         *)
(* Gold comes from nowhere in this module: what hunting and trading bring  *)
(* in is in the players' purses from the start.                            *)
(***************************************************************************)
EXTENDS Integers, FiniteSets, FiniteSetsExt

CONSTANTS
    Player,    \* player characters
    Obj,       \* objects that may be put up
    Traps,     \* those of them that are ITEM_TRAP
    Arms,      \* those of them that can be worn or wielded
    Slots,     \* MAX_AUCTION, the number of places for lots (5)
    None,
    Ghost,     \* a character structure that has been freed
    Starts,    \* starting prices that are asked for
    Bids,      \* stakes that are named
    Sums,      \* sums that are taken to the bank and back
    IdFee,     \* 2 * SAGE_COST, the price of an identification (30)
    InitBank, InitGold

ASSUME AuctionAssumption ==
    /\ Traps \subseteq Obj /\ Arms \subseteq Obj
    /\ None \notin Player \cup Obj /\ Ghost \notin Player \cup {None}
    /\ IsFiniteSet(Player) /\ Slots \in Nat \ {0}
    /\ Starts \subseteq Nat \ {0} /\ Bids \subseteq Nat /\ Sums \subseteq Nat \ {0}
    /\ IdFee \in Nat
    /\ InitBank \in [Player -> Nat] /\ InitGold \in [Player -> Nat]

VARIABLES
    lot,      \* auctions[], None where it is not valid
    bank,     \* ch->pcdata->bank
    gold,     \* ch->gold
    owner,    \* who carries an object; None when it lies about or is a trap that is set
    auc,      \* the objects with ITEM_AUCTION
    where     \* in the world with a link, without one, or not at all

vars == <<lot, bank, gold, owner, auc, where>>

Slot   == 1..Slots
Places == {"away", "linked", "linkdead"}
Lot    == [obj: Obj, sender: Player \cup {Ghost}, buyer: Player \cup {None, Ghost},
           cost: Nat, time: 0..3]

ASSUME NoneIsNoLot == None \notin Lot

LotsTyped ==
    /\ lot \in [Slot -> Lot \cup {None}]
    /\ owner \in [Obj -> Player \cup {None}]
    /\ auc \subseteq Obj
    /\ where \in [Player -> Places]

\* Nobody ever owes anything: a purse or an account below zero is one that a test
\* against the cut-off sums has let through.
TypeOK ==
    /\ LotsTyped
    /\ bank \in [Player -> Nat] /\ gold \in [Player -> Nat]

Init ==
    /\ lot = [i \in Slot |-> None]
    /\ bank = InitBank /\ gold = InitGold
    /\ owner \in [Obj -> Player]
    /\ auc = {}
    /\ where = [p \in Player |-> "away"]
-----------------------------------------------------------------------------
(***************************************************************************)
(* Stakes.  bank is a long and cost * 1.1 a double: the sum is computed as *)
(* a double and cut off when it is stored.                                 *)
(***************************************************************************)
Valid(i) == lot[i] # None
HasBid(i) == lot[i] # None /\ lot[i].buyer # None

\* bank += cost * 1.1.
Refund(c) == (11 * c) \div 10

\* What bank -= cost * 1.1 may leave of b.  1.1 is a little more than eleven tenths
\* as a double: where the product should be whole, one coin more may go.
Left(b, c) ==
    LET rest == b - ((11 * c + 9) \div 10)
    IN {rest} \cup (IF c % 10 = 0 /\ rest > 0 THEN {rest - 1} ELSE {})

\* Mutant: the test forgets the tenth that goes to the house.
Affords_Net(b, c) == b >= c

\* bank < cost * 1.1 is false.
Affords(b, c) == 10 * b >= 11 * c

\* Who gets what is written into a bidder or a seller.  What a freed structure gets
\* is lost, or whoever has got the structure since has it.
InWorld   == {p \in Player : where[p] # "away"}
Payees(b) == IF b = Ghost THEN InWorld \cup {None} ELSE {b}

\* The lots of S give their stakes back to the last bidders; those of saved have been
\* written to their files, and what they get now is lost.
PayBack(S, saved) ==
    \E payee \in [S -> Player \cup {None}] :
        /\ \A i \in S : payee[i] \in Payees(lot[i].buyer)
        /\ bank' = [p \in Player |->
                      bank[p] + MapThenSumSet(LAMBDA i : Refund(lot[i].cost),
                                              {i \in S : payee[i] = p /\ p \notin saved})]

\* Mutant: a lot is struck off and its stake kept.
StrikeOff_KeepStake(S) ==
    /\ lot' = [i \in Slot |-> IF i \in S THEN None ELSE lot[i]]
    /\ auc' = auc \ {lot[i].obj : i \in S}
    /\ UNCHANGED bank

\* The lots of S are taken off the list.
StrikeOff(S) ==
    /\ lot' = [i \in Slot |-> IF i \in S THEN None ELSE lot[i]]
    /\ auc' = auc \ {lot[i].obj : i \in S}
    /\ PayBack(S, {})

LotsOf(p)   == {i \in Slot : Valid(i) /\ lot[i].sender = p}
LotsFor(o)  == {i \in Slot : Valid(i) /\ lot[i].obj = o}
Carried(p)  == {i \in Slot : Valid(i) /\ owner[lot[i].obj] = p}

\* check_auctions() of a player: his lots, and any that a freed structure has put up,
\* which may be the one he has got.
StrikeLotsOf(p) == \E S \in SUBSET LotsOf(Ghost) : StrikeOff(LotsOf(p) \cup S)

\* Mutant: can_quit() forgets the bidders.
Dealing_SellerOnly(p) == LotsOf(p) # {}

\* can_quit() refuses sellers and bidders.
Dealing(p) == \E i \in Slot : Valid(i) /\ p \in {lot[i].sender, lot[i].buyer}
-----------------------------------------------------------------------------
(***************************************************************************)
(* do_auction().  Refusals change nothing and are left out, and so are the *)
(* levels, the limits and the visibility of objects, which only refuse.    *)
(***************************************************************************)
Put(p, o, c) ==
    /\ where[p] = "linked"
    /\ owner[o] = p /\ o \notin auc
    /\ \E i \in Slot :
         /\ ~Valid(i) /\ \A j \in Slot : j < i => Valid(j)
         /\ lot' = [lot EXCEPT ![i] = [obj |-> o, sender |-> p, buyer |-> None,
                                       cost |-> c, time |-> 0]]
    /\ auc' = auc \cup {o}
    /\ UNCHANGED <<bank, gold, owner, where>>

\* More than the last stake, and at least 5% more.
Outbids(c, old) == c > old /\ c >= (old * 21) \div 20

Stake(p, i, c) ==
    /\ where[p] = "linked"
    /\ Valid(i)
    /\ Outbids(c, lot[i].cost)
    /\ lot[i].sender # p
    /\ Affords(bank[p], c)
    /\ lot' = [lot EXCEPT ![i].buyer = p, ![i].cost = c, ![i].time = 0]
    /\ \E q \in Payees(lot[i].buyer) :
         LET paid == IF q = None THEN bank
                     ELSE [bank EXCEPT ![q] = @ + Refund(lot[i].cost)]
         IN \E rest \in Left(paid[p], c) : bank' = [paid EXCEPT ![p] = rest]
    /\ UNCHANGED <<gold, owner, auc, where>>

\* The seller takes the lot back and pays a third of its price.
Struck(p, i) ==
    LET penal == Max({1, lot[i].cost \div 3})
    IN /\ where[p] = "linked"
       /\ Valid(i) /\ lot[i].sender \in {p, Ghost}
       /\ gold[p] >= penal
       /\ gold' = [gold EXCEPT ![p] = @ - penal]
       /\ StrikeOff({i})
       /\ UNCHANGED <<owner, where>>

Identify(p, i) ==
    /\ where[p] = "linked"
    /\ Valid(i) /\ lot[i].sender # p
    /\ gold[p] >= IdFee
    /\ gold' = [gold EXCEPT ![p] = @ - IdFee]
    /\ UNCHANGED <<lot, bank, owner, auc, where>>

-----------------------------------------------------------------------------
(***************************************************************************)
(* auction_update(), on every tick.                                        *)
(***************************************************************************)
\* Nobody has outbid the last stake for three calls.
LastCall(i) == Valid(i) /\ lot[i].time = 3

\* Mutant: a lot that nobody bids for is not counted on.
CalledOnce_Bids(i) == IF HasBid(i) THEN [lot[i] EXCEPT !.time = @ + 1] ELSE lot[i]

CalledOnce(i) == [lot[i] EXCEPT !.time = @ + 1]

\* Mutant: the seller gets what the bidder has paid, house's part included.
Proceeds_Gross(c) == Refund(c) + 1

\* "5% for the gods' beer."
Proceeds(c) == (20 * c) \div 21

\* Where a sold object goes: to the bidder, or to the floor of his room where he
\* cannot carry it.  A freed structure may be anybody's by now.
Takers(b) == IF b = Ghost THEN InWorld \cup {None} ELSE {b, None}

AuctionUpdate ==
    LET ended == {i \in Slot : LastCall(i)}
        sold  == {i \in ended : HasBid(i)}
    IN /\ lot' = [i \in Slot |->
                    IF ~Valid(i) \/ i \in ended THEN None
                    ELSE CalledOnce(i)]
       /\ auc' = auc \ {lot[i].obj : i \in ended}
       /\ \E payee \in [sold -> Player \cup {None}] :
            /\ \A i \in sold : payee[i] \in Payees(lot[i].sender)
            /\ gold' = [p \in Player |->
                          gold[p] + MapThenSumSet(LAMBDA i : Proceeds(lot[i].cost),
                                                  {i \in sold : payee[i] = p})]
       /\ \E taker \in [sold -> Player \cup {None}] :
            /\ \A i \in sold : taker[i] \in Takers(lot[i].buyer)
            /\ owner' = [o \in Obj |->
                           IF \E i \in sold : lot[i].obj = o
                           THEN taker[CHOOSE i \in sold : lot[i].obj = o]
                           ELSE owner[o]]
       /\ UNCHANGED <<bank, where>>
-----------------------------------------------------------------------------
(***************************************************************************)
(* What else happens to the players and the objects.                       *)
(***************************************************************************)
Deposit(p, s) ==
    /\ where[p] = "linked"
    /\ s <= gold[p]
    /\ bank' = [bank EXCEPT ![p] = @ + s]
    /\ gold' = [gold EXCEPT ![p] = @ - s]
    /\ UNCHANGED <<lot, owner, auc, where>>

\* The banker keeps a tenth.
Withdraw(p, s) ==
    /\ where[p] = "linked"
    /\ s >= 2 /\ s <= bank[p]
    /\ bank' = [bank EXCEPT ![p] = @ - s]
    /\ gold' = [gold EXCEPT ![p] = @ + s - Max({1, s \div 10})]
    /\ UNCHANGED <<lot, owner, auc, where>>

\* Mutant: can_drop_obj() does not look at ITEM_AUCTION.
Droppable_Lots(p, o) == owner[o] = p

\* can_drop_obj(), which every way to part with an object asks.
Droppable(p, o) == owner[o] = p /\ o \notin auc

Drop(p, o) ==
    /\ p \in InWorld /\ Droppable(p, o)
    /\ owner' = [owner EXCEPT ![o] = None]
    /\ UNCHANGED <<lot, bank, gold, auc, where>>

\* A gift of p or a theft of q.
Give(p, q, o) ==
    /\ {p, q} \subseteq InWorld /\ Droppable(p, o)
    /\ owner' = [owner EXCEPT ![o] = q]
    /\ UNCHANGED <<lot, bank, gold, auc, where>>

\* Picked up, or disarmed by do_disarm_trap().
Get(p, o) ==
    /\ where[p] = "linked" /\ owner[o] = None
    /\ owner' = [owner EXCEPT ![o] = p]
    /\ UNCHANGED <<lot, bank, gold, auc, where>>

\* do_set_trap() does not ask can_drop_obj().
SetTrap(p, o) ==
    /\ where[p] = "linked"
    /\ o \in Traps /\ owner[o] = p
    /\ owner' = [owner EXCEPT ![o] = None]
    /\ UNCHANGED <<lot, bank, gold, auc, where>>

\* wear_obj() does not look at ITEM_AUCTION, and who wears a lot may be disarmed of
\* it: disarm(), a shield knocked off, the second weapon without the first, and what
\* scripts and immortals take off.
Disarmed(p, o) ==
    /\ p \in InWorld
    /\ o \in Arms /\ owner[o] = p
    /\ owner' = [owner EXCEPT ![o] = None]
    /\ UNCHANGED <<lot, bank, gold, auc, where>>

\* extract_obj(): another object of the kind may be found later.
Destroy(o) ==
    /\ StrikeOff(LotsFor(o))
    /\ owner' = [owner EXCEPT ![o] = None]
    /\ UNCHANGED <<gold, where>>

Enter(p) ==
    /\ where[p] = "away"
    /\ where' = [where EXCEPT ![p] = "linked"]
    /\ UNCHANGED <<lot, bank, gold, owner, auc>>

\* do_quit(), as a command or on a tick.  What is carried is saved and then extracted,
\* and with it the lot of somebody else who lost it.
Quit(p) ==
    /\ p \in InWorld /\ ~Dealing(p)
    /\ StrikeOff(Carried(p))
    /\ where' = [where EXCEPT ![p] = "away"]
    /\ UNCHANGED <<gold, owner>>

\* close_socket() of a playing connection.
LinkLost(p) ==
    /\ where[p] = "linked"
    /\ where' = [where EXCEPT ![p] = "linkdead"]
    /\ StrikeLotsOf(p)
    /\ UNCHANGED <<gold, owner>>

\* close_socket() of somebody who is logging in, with a structure that was freed.
LoginLost ==
    /\ \E S \in SUBSET LotsOf(Ghost) \ {{}} : StrikeOff(S)
    /\ UNCHANGED <<gold, owner, where>>

LinkBack(p) ==
    /\ where[p] = "linkdead"
    /\ where' = [where EXCEPT ![p] = "linked"]
    /\ UNCHANGED <<lot, bank, gold, owner, auc>>

\* raw_kill(): what the dead carried goes into a corpse, or stays with them.
Die(p) ==
    /\ p \in InWorld
    /\ StrikeLotsOf(p)
    /\ \/ /\ owner' = [o \in Obj |-> IF owner[o] = p THEN None ELSE owner[o]]
          /\ gold' = [gold EXCEPT ![p] = 0]
       \/ UNCHANGED <<owner, gold>>
    /\ UNCHANGED where

\* An immortal purges a player: the file is written, then what he carries is extracted
\* and with it the lots it is put up in, then he.  His descriptor has let go of him
\* before it is closed, so no lot is struck for having been his: as seller of what he
\* does not carry and as bidder he stays, a structure that is freed.
Purge(p) ==
    LET Freed(q) == IF q = p THEN Ghost ELSE q
    IN /\ p \in InWorld
       /\ lot' = [i \in Slot |->
                    IF ~Valid(i) \/ i \in Carried(p) THEN None
                    ELSE [lot[i] EXCEPT !.sender = Freed(@), !.buyer = Freed(@)]]
       /\ auc' = auc \ {lot[i].obj : i \in Carried(p)}
       /\ PayBack(Carried(p), {p})
       /\ where' = [where EXCEPT ![p] = "away"]
       /\ UNCHANGED <<gold, owner>>
-----------------------------------------------------------------------------
Trade(p) ==
    \/ \E o \in Obj, c \in Starts : Put(p, o, c)
    \/ \E i \in Slot : Struck(p, i) \/ Identify(p, i)
    \/ \E i \in Slot, c \in Bids : Stake(p, i, c)
    \/ \E s \in Sums : Deposit(p, s) \/ Withdraw(p, s)

Life(p) ==
    \/ \E o \in Obj : \/ Drop(p, o) \/ Get(p, o) \/ SetTrap(p, o) \/ Disarmed(p, o)
                      \/ \E q \in Player : Give(p, q, o)
    \/ Enter(p) \/ Quit(p) \/ LinkLost(p) \/ LinkBack(p) \/ Die(p) \/ Purge(p)

Next == \/ \E p \in Player : Trade(p) \/ Life(p)
        \/ \E o \in Obj : Destroy(o)
        \/ AuctionUpdate \/ LoginLost

Spec == Init /\ [][Next]_vars

\* Ticks go on.
FairSpec == Spec /\ WF_vars(AuctionUpdate)
-----------------------------------------------------------------------------
\* A lot that is neither trap nor arms is in the bag of its seller, and so no purge
\* has freed him.  Any seller is in the world with a link unless he was purged while the
\* lot, a trap that was set or arms he was disarmed of, was not in his bag; nobody is
\* the bidder of his own lot, and no object is in two lots or marked without being in
\* one: whatever the seller does or suffers, the sale has an object to hand over and,
\* but for that purge, somebody to pay.
LotsSound ==
    /\ \A i \in Slot : Valid(i) =>
         /\ lot[i].obj \notin Traps \cup Arms => owner[lot[i].obj] = lot[i].sender
         /\ lot[i].sender # Ghost => /\ where[lot[i].sender] = "linked"
                                    /\ lot[i].buyer # lot[i].sender
         /\ lot[i].obj \in auc
    /\ \A i, j \in Slot : Valid(i) /\ Valid(j) /\ lot[i].obj = lot[j].obj => i = j
    /\ \A o \in auc : LotsFor(o) # {}

\* The last bidder of a lot is in the world, if no immortal has purged him: nothing
\* else that may happen to him takes away the structure that the object or the stake
\* goes to.
BidderPresent ==
    \A i \in Slot : HasBid(i) => lot[i].buyer \in InWorld \cup {Ghost}

Wealth ==
    MapThenSumSet(LAMBDA p : bank[p] + gold[p], Player)
    + MapThenSumSet(LAMBDA i : Refund(lot[i].cost), {i \in Slot : HasBid(i)})

\* Neither the roundings nor any order of stakes, refunds, sales and closings make
\* money: what is in purses and accounts and what lots owe never grows together.
MoneyNotMade == [][UNCHANGED <<bank, gold, lot>> \/ Wealth' <= Wealth]_vars

\* A stake comes back in full when it did not win, however the lot ends: outbid,
\* struck, cancelled by the seller's death or loss of link, or with the object; the
\* only bidder to lose it is one who is purged, with the object in his own bag.
StakeAnswered ==
    [][\A i \in Slot :
         (HasBid(i) /\ lot[i].buyer # Ghost) =>
            LET b == lot[i].buyer
            IN \/ lot'[i] # None /\ lot'[i].buyer \in {b, Ghost}
               \/ bank'[b] >= bank[b] + Refund(lot[i].cost)
               \/ Purge(b) /\ owner[lot[i].obj] = b
               \/ AuctionUpdate /\ LastCall(i)]_vars

\* Lots end: stakes rise, money is finite, and what nobody outbids is sold.
LotsEnd == \A i \in Slot : []<>~Valid(i)
=============================================================================
