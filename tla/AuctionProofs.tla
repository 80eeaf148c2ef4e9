--------------------------- MODULE AuctionProofs ---------------------------
(***************************************************************************)
(* The list of lots is sound and bidders stay, nobody comes to owe money,  *)
(* no money is made and stakes come back, for every number of players,     *)
(* objects, places and whatever sums.                                      *)
(*                                                                         *)
(* First the lots, which do not depend on money, then the money.           *)
(***************************************************************************)
EXTENDS Auction, TotalProofs

\* LotsSound is inductive together with the types; BidderPresent needs both.
LotInv == LotsTyped /\ LotsSound /\ BidderPresent

lotVars == <<lot, owner, auc, where>>

\* At the start there are no lots.
LEMMA InitLotInv == Init => LotInv
  BY AuctionAssumption DEF Init, LotInv, LotsTyped, LotsSound, BidderPresent, Valid,
     HasBid, LotsFor, Slot, Places

\* What LotInv talks about is unchanged.
LEMMA SameLots ==
  ASSUME LotInv, UNCHANGED lotVars
  PROVE  LotInv'
  BY DEF LotInv, lotVars, LotsTyped, LotsSound, BidderPresent, Valid, HasBid, LotsFor,
     InWorld

\* Lots that are struck off leave the others as they are, and no mark behind.
LEMMA StrikeOffLots ==
  ASSUME LotInv, NEW S \in SUBSET Slot, \A i \in S : Valid(i),
         lot' = [i \in Slot |-> IF i \in S THEN None ELSE lot[i]],
         auc' = auc \ {lot[i].obj : i \in S}
  PROVE  /\ lot' \in [Slot -> Lot \cup {None}]
         /\ auc' \subseteq Obj
         /\ \A i \in Slot : Valid(i)' =>
              i \notin S /\ Valid(i) /\ lot'[i] = lot[i] /\ lot[i].obj \in auc'
         /\ \A i, j \in Slot : Valid(i)' /\ Valid(j)' /\ lot'[i].obj = lot'[j].obj => i = j
         /\ \A o \in auc' : LotsFor(o)' # {}
<1>1. lot \in [Slot -> Lot \cup {None}] /\ auc \subseteq Obj
  BY DEF LotInv, LotsTyped
<1>2. lot' \in [Slot -> Lot \cup {None}] /\ auc' \subseteq Obj
  BY <1>1
<1>3. ASSUME NEW i \in Slot, Valid(i)'
      PROVE  i \notin S /\ Valid(i) /\ lot'[i] = lot[i]
  BY <1>3, <1>1 DEF Valid
<1>4. ASSUME NEW i \in Slot, Valid(i)'
      PROVE  lot[i].obj \in auc'
  <2>1. lot[i].obj \in auc /\ \A j \in S : lot[j].obj # lot[i].obj
    BY <1>3, <1>4 DEF LotInv, LotsSound
  <2>. QED  BY <2>1
<1>5. ASSUME NEW o \in auc'
      PROVE  LotsFor(o)' # {}
  <2>1. PICK i \in Slot : Valid(i) /\ lot[i].obj = o
    BY <1>5 DEF LotInv, LotsSound, LotsFor
  <2>2. i \notin S
    BY <2>1, <1>5
  <2>3. lot'[i] = lot[i]
    BY <2>2, <1>1
  <2>. QED  BY <2>1, <2>3 DEF LotsFor, Valid
<1>. QED
  <2>1. \A i, j \in Slot : Valid(i)' /\ Valid(j)' /\ lot'[i].obj = lot'[j].obj => i = j
    BY <1>3 DEF LotInv, LotsSound
  <2>. QED  BY <1>2, <1>3, <1>4, <1>5, <2>1
-----------------------------------------------------------------------------
\* A new lot takes a free place, and its object is not in another one.
LEMMA PutLotInv ==
  ASSUME LotInv, NEW p \in Player, NEW o \in Obj, NEW c \in Starts, Put(p, o, c)
  PROVE  LotInv'
<1>1. PICK i \in Slot :
        /\ ~Valid(i)
        /\ lot' = [lot EXCEPT ![i] = [obj |-> o, sender |-> p, buyer |-> None,
                                      cost |-> c, time |-> 0]]
  BY DEF Put
<1> DEFINE new == [obj |-> o, sender |-> p, buyer |-> None, cost |-> c, time |-> 0]
<1>2. new \in Lot /\ new # None
  BY AuctionAssumption, NoneIsNoLot DEF Lot
<1>3. /\ lot \in [Slot -> Lot \cup {None}]
      /\ lot'[i] = new
      /\ \A j \in Slot : j # i => lot'[j] = lot[j]
      /\ new.obj = o /\ new.sender = p /\ new.buyer = None
  BY <1>1 DEF LotInv, LotsTyped
<1> HIDE DEF new
<1>4. owner' = owner /\ where' = where /\ auc' = auc \cup {o}
      /\ owner[o] = p /\ o \notin auc /\ where[p] = "linked"
  BY DEF Put
<1>5. LotsTyped'
  <2>1. lot' \in [Slot -> Lot \cup {None}]
    BY <1>1, <1>2, <1>3 DEF new
  <2>. QED  BY <2>1, <1>4 DEF LotInv, LotsTyped
<1>6. LotsSound'
  <2>1. ASSUME NEW j \in Slot, Valid(j)'
        PROVE  /\ lot'[j].obj \notin Traps \cup Arms => owner'[lot'[j].obj] = lot'[j].sender
               /\ lot'[j].sender # Ghost => /\ where'[lot'[j].sender] = "linked"
                                           /\ lot'[j].buyer # lot'[j].sender
               /\ lot'[j].obj \in auc'
    <3>1. CASE j = i
      BY <3>1, <1>3, <1>4, AuctionAssumption
    <3>2. CASE j # i
      BY <3>2, <2>1, <1>3, <1>4 DEF LotInv, LotsSound, Valid
    <3>. QED  BY <3>1, <3>2
  <2>2. ASSUME NEW j \in Slot, NEW k \in Slot, Valid(j)', Valid(k)',
               lot'[j].obj = lot'[k].obj
        PROVE  j = k
    <3>1. \A l \in Slot : l # i /\ Valid(l)' => lot'[l].obj # o
      BY <1>3, <1>4 DEF LotInv, LotsSound, Valid
    <3>. QED  BY <2>2, <3>1, <1>3 DEF LotInv, LotsSound, Valid
  <2>3. ASSUME NEW a \in auc'
        PROVE  LotsFor(a)' # {}
    <3>1. CASE a = o
      BY <3>1, <1>2, <1>3 DEF LotsFor, Valid
    <3>2. CASE a # o
      <4>1. PICK j \in Slot : Valid(j) /\ lot[j].obj = a
        BY <3>2, <2>3, <1>4 DEF LotInv, LotsSound, LotsFor
      <4>2. j # i
        BY <4>1, <1>1
      <4>. QED  BY <4>1, <4>2, <1>3 DEF LotsFor, Valid
    <3>. QED  BY <3>1, <3>2
  <2>. QED  BY <2>1, <2>2, <2>3 DEF LotsSound
<1>7. BidderPresent'
  BY <1>3, <1>4 DEF LotInv, BidderPresent, HasBid, InWorld
<1>. QED  BY <1>5, <1>6, <1>7 DEF LotInv

\* A stake changes the bidder, the price and the count of a lot, nothing else.
LEMMA StakeLotInv ==
  ASSUME LotInv, NEW p \in Player, NEW i \in Slot, NEW c \in Bids, Stake(p, i, c)
  PROVE  LotInv'
<1>1. /\ Valid(i) /\ lot[i].sender # p /\ where[p] = "linked"
      /\ lot' = [lot EXCEPT ![i].buyer = p, ![i].cost = c, ![i].time = 0]
      /\ owner' = owner /\ auc' = auc /\ where' = where
  BY DEF Stake
<1>2. /\ lot \in [Slot -> Lot \cup {None}] /\ lot[i] \in Lot
  BY <1>1 DEF LotInv, LotsTyped, Valid
<1>3. /\ \A j \in Slot : j # i => lot'[j] = lot[j]
      /\ lot'[i] \in Lot /\ lot'[i] # None
      /\ lot'[i].obj = lot[i].obj /\ lot'[i].sender = lot[i].sender
      /\ lot'[i].buyer = p
  <2>1. lot'[i] = [lot[i] EXCEPT !.buyer = p, !.cost = c, !.time = 0]
    BY <1>1, <1>2
  <2>2. c \in Nat
    BY AuctionAssumption
  <2>3. /\ lot'[i] \in Lot
        /\ lot'[i].obj = lot[i].obj /\ lot'[i].sender = lot[i].sender /\ lot'[i].buyer = p
    <3>1. DOMAIN lot[i] = {"obj", "sender", "buyer", "cost", "time"}
      BY <1>2 DEF Lot
    <3>2. /\ lot'[i].obj = lot[i].obj /\ lot'[i].sender = lot[i].sender
          /\ lot'[i].buyer = p /\ lot'[i].cost = c /\ lot'[i].time = 0
      BY <2>1, <3>1
    <3>3. lot'[i] = [obj |-> lot[i].obj, sender |-> lot[i].sender, buyer |-> p,
                     cost |-> c, time |-> 0]
      <4>1. DOMAIN lot'[i] = {"obj", "sender", "buyer", "cost", "time"}
        BY <2>1, <3>1
      <4>2. lot'[i] = [k \in DOMAIN lot'[i] |-> lot'[i][k]]
        BY <2>1
      <4>. QED  BY <3>2, <4>1, <4>2
    <3>4. lot[i].obj \in Obj /\ lot[i].sender \in Player \cup {Ghost}
      BY <1>2 DEF Lot
    <3>5. lot'[i] \in Lot
      BY <2>2, <3>3, <3>4 DEF Lot
    <3>. QED  BY <3>2, <3>5
  <2>4. \A j \in Slot : j # i => lot'[j] = lot[j]
    BY <1>1, <1>2
  <2>. QED  BY <2>3, <2>4, NoneIsNoLot
<1>4. LotsTyped'
  <2>1. lot' \in [Slot -> Lot \cup {None}]
    BY <1>1, <1>2, <1>3
  <2>. QED  BY <2>1, <1>1 DEF LotInv, LotsTyped
<1>5. \A j \in Slot : /\ Valid(j)' <=> Valid(j)
                      /\ lot'[j].obj = lot[j].obj /\ lot'[j].sender = lot[j].sender
  BY <1>1, <1>3 DEF Valid
<1>6. LotsSound'
  <2>1. \A j \in Slot : Valid(j)' /\ lot'[j].sender # Ghost => lot'[j].buyer # lot'[j].sender
    BY <1>1, <1>3, <1>5 DEF LotInv, LotsSound
  <2>2. ASSUME NEW a \in auc'
        PROVE  LotsFor(a)' # {}
    <3>1. PICK j \in Slot : Valid(j) /\ lot[j].obj = a
      BY <2>2, <1>1 DEF LotInv, LotsSound, LotsFor
    <3>2. Valid(j)' /\ lot'[j].obj = a
      BY <3>1, <1>5
    <3>. QED  BY <3>2 DEF LotsFor
  <2>3. ASSUME NEW j \in Slot, Valid(j)'
        PROVE  /\ lot'[j].obj \notin Traps \cup Arms => owner'[lot'[j].obj] = lot'[j].sender
               /\ lot'[j].sender # Ghost => where'[lot'[j].sender] = "linked"
               /\ lot'[j].obj \in auc'
    <3>1. Valid(j) /\ lot'[j].obj = lot[j].obj /\ lot'[j].sender = lot[j].sender
      BY <2>3, <1>5
    <3>. QED  BY <3>1, <1>1 DEF LotInv, LotsSound
  <2>4. ASSUME NEW j \in Slot, NEW k \in Slot, Valid(j)', Valid(k)', lot'[j].obj = lot'[k].obj
        PROVE  j = k
    <3>1. Valid(j) /\ Valid(k) /\ lot[j].obj = lot[k].obj
      BY <2>4, <1>5
    <3>. QED  BY <3>1 DEF LotInv, LotsSound
  <2>. QED  BY <2>1, <2>2, <2>3, <2>4 DEF LotsSound
<1>7. BidderPresent'
  BY <1>1, <1>3 DEF LotInv, BidderPresent, HasBid, InWorld
<1>. QED  BY <1>4, <1>6, <1>7 DEF LotInv

-----------------------------------------------------------------------------
\* Who gets and who parts with an object: lots are neither parted with nor lying
\* about, unless they are traps or arms.
LEMMA ObjectsLotInv ==
  ASSUME LotInv, lot' = lot, auc' = auc, where' = where,
         NEW o \in Obj, NEW q \in Player \cup {None},
         owner' = [owner EXCEPT ![o] = q],
         o \notin auc \/ o \in Traps \cup Arms \/ owner[o] = None
  PROVE  LotInv'
<1>1. LotsTyped'
  BY DEF LotInv, LotsTyped
<1>2. ASSUME NEW i \in Slot, Valid(i), lot[i].obj \notin Traps \cup Arms
      PROVE  owner'[lot[i].obj] = lot[i].sender
  <2>1. /\ lot[i].obj \in auc /\ owner[lot[i].obj] = lot[i].sender
        /\ lot[i] \in Lot /\ owner \in [Obj -> Player \cup {None}]
    BY <1>2 DEF LotInv, LotsSound, LotsTyped, Valid
  <2>2. lot[i].sender # None /\ lot[i].obj \in Obj
    BY <2>1, AuctionAssumption DEF Lot
  <2>3. lot[i].obj # o
    BY <1>2, <2>1, <2>2
  <2>. QED  BY <2>1, <2>2, <2>3
<1>3. LotsSound'
  BY <1>2 DEF LotInv, LotsSound, Valid, LotsFor
<1>4. BidderPresent'
  BY DEF LotInv, BidderPresent, HasBid, InWorld
<1>. QED  BY <1>1, <1>3, <1>4 DEF LotInv

\* Players come.
LEMMA PresenceLotInv ==
  ASSUME LotInv, lot' = lot, auc' = auc, owner' = owner,
         NEW p \in Player, NEW w \in Places, where' = [where EXCEPT ![p] = w],
         w = "linked"
  PROVE  LotInv'
<1>1. where \in [Player -> Places] /\ LotsTyped'
  BY DEF LotInv, LotsTyped
<1>2. ASSUME NEW i \in Slot, Valid(i), lot[i].sender # Ghost
      PROVE  where'[lot[i].sender] = "linked"
  <2>1. lot[i].sender \in Player /\ where[lot[i].sender] = "linked"
    BY <1>2 DEF LotInv, LotsSound, LotsTyped, Valid, Lot
  <2>. QED  BY <1>1, <2>1
<1>3. LotsSound'
  BY <1>2 DEF LotInv, LotsSound, Valid, LotsFor
<1>4. ASSUME NEW i \in Slot, HasBid(i), lot[i].buyer # Ghost
      PROVE  lot[i].buyer \in InWorld'
  <2>1. lot[i].buyer \in Player /\ where[lot[i].buyer] # "away"
    BY <1>4 DEF LotInv, BidderPresent, InWorld
  <2>. QED  BY <1>1, <2>1 DEF InWorld
<1>5. BidderPresent'
  BY <1>4 DEF BidderPresent, HasBid
<1>. QED  BY <1>1, <1>3, <1>5 DEF LotInv

\* Lots are struck off and what they were kept for may change: the owner of objects
\* that are in no other lot, and the place of a player who sells nothing else.
LEMMA StruckLotInv ==
  ASSUME LotInv, NEW S \in SUBSET Slot, \A i \in S : Valid(i), StrikeOff(S),
         owner' \in [Obj -> Player \cup {None}], where' \in [Player -> Places],
         \A i \in Slot \ S : Valid(i) =>
            /\ lot[i].obj \notin Traps \cup Arms => owner'[lot[i].obj] = owner[lot[i].obj]
            /\ lot[i].sender # Ghost => where'[lot[i].sender] = "linked",
         \A p \in InWorld : where'[p] # "away" \/ ~Dealing(p)
  PROVE  LotInv'
<1>1. /\ lot' \in [Slot -> Lot \cup {None}]
      /\ auc' \subseteq Obj
      /\ \A i \in Slot : Valid(i)' =>
           i \notin S /\ Valid(i) /\ lot'[i] = lot[i] /\ lot[i].obj \in auc'
      /\ \A i, j \in Slot : Valid(i)' /\ Valid(j)' /\ lot'[i].obj = lot'[j].obj => i = j
      /\ \A o \in auc' : LotsFor(o)' # {}
  BY StrikeOffLots DEF StrikeOff
<1>2. LotsTyped'
  BY <1>1 DEF LotsTyped
<1>3. ASSUME NEW i \in Slot, Valid(i)'
      PROVE  /\ lot'[i].obj \notin Traps \cup Arms => owner'[lot'[i].obj] = lot'[i].sender
             /\ lot'[i].sender # Ghost => /\ where'[lot'[i].sender] = "linked"
                                         /\ lot'[i].buyer # lot'[i].sender
             /\ lot'[i].obj \in auc'
  BY <1>1, <1>3 DEF LotInv, LotsSound
<1>4. LotsSound'
  BY <1>1, <1>3 DEF LotsSound
<1>5. ASSUME NEW i \in Slot, HasBid(i)'
      PROVE  lot'[i].buyer \in InWorld' \cup {Ghost}
  <2>1. HasBid(i) /\ Valid(i) /\ lot'[i] = lot[i]
    BY <1>1, <1>5 DEF HasBid, Valid
  <2>2. lot[i].buyer \in InWorld \cup {Ghost}
    BY <2>1 DEF LotInv, BidderPresent
  <2>3. Dealing(lot[i].buyer)
    BY <2>1 DEF Dealing
  <2>. QED  BY <2>1, <2>2, <2>3 DEF InWorld
<1>6. BidderPresent'
  BY <1>5 DEF BidderPresent
<1>. QED  BY <1>2, <1>4, <1>6 DEF LotInv

-----------------------------------------------------------------------------
\* A purge strikes off what the purged player carries; as seller of anything else and
\* as bidder he stays as a ghost.
Freed(p, q) == IF q = p THEN Ghost ELSE q
Left1(p, i) == [lot[i] EXCEPT !.sender = Freed(p, @), !.buyer = Freed(p, @)]

LEMMA PurgedLots ==
  ASSUME LotsTyped, NEW p \in Player, Purge(p)
  PROVE  /\ \A i \in Slot : Valid(i)' => i \notin Carried(p) /\ Valid(i)
         /\ \A i \in Slot : Valid(i) /\ i \notin Carried(p) =>
              /\ lot'[i] \in Lot /\ Valid(i)'
              /\ lot'[i].obj = lot[i].obj /\ lot'[i].cost = lot[i].cost
              /\ lot'[i].sender = Freed(p, lot[i].sender)
              /\ lot'[i].buyer = Freed(p, lot[i].buyer)
         /\ lot' \in [Slot -> Lot \cup {None}]
<1>1. lot' = [i \in Slot |-> IF ~Valid(i) \/ i \in Carried(p) THEN None ELSE Left1(p, i)]
  BY DEF Purge, Left1, Freed
<1>2. lot \in [Slot -> Lot \cup {None}]
  BY DEF LotsTyped
<1>3. ASSUME NEW i \in Slot, Valid(i)
      PROVE  /\ Left1(p, i) \in Lot
             /\ Left1(p, i).obj = lot[i].obj /\ Left1(p, i).cost = lot[i].cost
             /\ Left1(p, i).sender = Freed(p, lot[i].sender)
             /\ Left1(p, i).buyer = Freed(p, lot[i].buyer)
  <2>1. lot[i] \in Lot
    BY <1>2, <1>3 DEF Valid
  <2>2. /\ Freed(p, lot[i].sender) \in Player \cup {Ghost}
        /\ Freed(p, lot[i].buyer) \in Player \cup {None, Ghost}
    BY <2>1 DEF Lot, Freed
  <2> DEFINE s == Freed(p, lot[i].sender)
             b == Freed(p, lot[i].buyer)
  <2>3. Left1(p, i) = [lot[i] EXCEPT !.sender = s, !.buyer = b]
    BY <2>1 DEF Left1, Lot
  <2> HIDE DEF s, b
  <2>4. [lot[i] EXCEPT !.sender = s, !.buyer = b]
          = [obj |-> lot[i].obj, sender |-> s, buyer |-> b, cost |-> lot[i].cost,
             time |-> lot[i].time]
    <3> DEFINE r == [lot[i] EXCEPT !.sender = s, !.buyer = b]
    <3>1. DOMAIN lot[i] = {"obj", "sender", "buyer", "cost", "time"}
      BY <2>1 DEF Lot
    <3>2. /\ r.obj = lot[i].obj /\ r.sender = s /\ r.buyer = b
          /\ r.cost = lot[i].cost /\ r.time = lot[i].time
      BY <3>1
    <3>3. DOMAIN r = {"obj", "sender", "buyer", "cost", "time"}
      BY <3>1
    <3>4. r = [k \in DOMAIN r |-> r[k]]
      OBVIOUS
    <3> HIDE DEF r
    <3>5. r = [obj |-> lot[i].obj, sender |-> s, buyer |-> b, cost |-> lot[i].cost,
               time |-> lot[i].time]
      BY <3>2, <3>3, <3>4
    <3>. QED  BY <3>5 DEF r
  <2>5. [obj |-> lot[i].obj, sender |-> s, buyer |-> b, cost |-> lot[i].cost,
         time |-> lot[i].time] \in Lot
    BY <2>1, <2>2 DEF Lot, s, b
  <2>. QED  BY <2>3, <2>4, <2>5 DEF s, b
<1> HIDE DEF Left1, Freed
<1>4. \A i \in Slot : Valid(i) /\ i \notin Carried(p) => lot'[i] = Left1(p, i)
  BY <1>1
<1>5. \A i \in Slot : ~Valid(i) \/ i \in Carried(p) => lot'[i] = None
  BY <1>1
<1>6. \A i \in Slot : lot'[i] \in Lot \cup {None}
  BY <1>3, <1>4, <1>5
<1>7. lot' \in [Slot -> Lot \cup {None}]
  BY <1>1, <1>6
<1>. QED  BY <1>3, <1>4, <1>5, <1>7, NoneIsNoLot DEF Valid

LEMMA PurgeLotInv ==
  ASSUME LotInv, NEW p \in Player, Purge(p)
  PROVE  LotInv'
<1>1. /\ owner' = owner
      /\ auc' = auc \ {lot[i].obj : i \in Carried(p)}
      /\ where' = [where EXCEPT ![p] = "away"]
  BY DEF Purge
<1>2. /\ \A i \in Slot : Valid(i)' => i \notin Carried(p) /\ Valid(i)
      /\ \A i \in Slot : Valid(i) /\ i \notin Carried(p) =>
           /\ lot'[i] \in Lot /\ Valid(i)'
           /\ lot'[i].obj = lot[i].obj
           /\ lot'[i].sender = Freed(p, lot[i].sender)
           /\ lot'[i].buyer = Freed(p, lot[i].buyer)
      /\ lot' \in [Slot -> Lot \cup {None}]
  BY PurgedLots DEF LotInv
<1>3. LotsTyped'
  BY <1>1, <1>2 DEF LotInv, LotsTyped, Places
<1>4. ASSUME NEW i \in Slot, Valid(i)'
      PROVE  /\ lot'[i].obj \notin Traps \cup Arms => owner'[lot'[i].obj] = lot'[i].sender
             /\ lot'[i].sender # Ghost => /\ where'[lot'[i].sender] = "linked"
                                         /\ lot'[i].buyer # lot'[i].sender
             /\ lot'[i].obj \in auc'
  <2>1. /\ Valid(i) /\ i \notin Carried(p) /\ lot[i] \in Lot
        /\ lot'[i].obj = lot[i].obj
        /\ lot'[i].sender = Freed(p, lot[i].sender)
        /\ lot'[i].buyer = Freed(p, lot[i].buyer)
    BY <1>2, <1>4 DEF LotInv, LotsTyped, Valid
  <2>2. /\ lot[i].obj \notin Traps \cup Arms => owner[lot[i].obj] = lot[i].sender
        /\ lot[i].sender # Ghost => where[lot[i].sender] = "linked" /\ lot[i].buyer # lot[i].sender
        /\ lot[i].obj \in auc
    BY <2>1 DEF LotInv, LotsSound
  <2>3. owner[lot[i].obj] # p
    BY <2>1 DEF Carried
  <2>4. \A j \in Carried(p) : lot[j].obj # lot[i].obj
    BY <2>1 DEF LotInv, LotsSound, Carried
  <2>5. lot[i].sender \in Player \cup {Ghost} /\ where \in [Player -> Places]
    BY <2>1 DEF LotInv, LotsTyped, Lot
  <2>6. lot'[i].obj \notin Traps \cup Arms => owner'[lot'[i].obj] = lot'[i].sender
    BY <2>1, <2>2, <2>3, <1>1 DEF Freed
  <2>7. ASSUME lot'[i].sender # Ghost
        PROVE  where'[lot'[i].sender] = "linked" /\ lot'[i].buyer # lot'[i].sender
    <3>1. lot[i].sender # p /\ lot[i].sender # Ghost /\ lot'[i].sender = lot[i].sender
      BY <2>1, <2>7 DEF Freed
    <3>. QED  BY <3>1, <2>1, <2>2, <2>5, <1>1 DEF Freed
  <2>8. lot'[i].obj \in auc'
    BY <2>1, <2>2, <2>4, <1>1
  <2>. QED  BY <2>6, <2>7, <2>8
<1>5. ASSUME NEW i \in Slot, NEW j \in Slot, Valid(i)', Valid(j)', lot'[i].obj = lot'[j].obj
      PROVE  i = j
  <2>1. Valid(i) /\ Valid(j) /\ lot[i].obj = lot[j].obj
    BY <1>2, <1>5
  <2>. QED  BY <2>1 DEF LotInv, LotsSound
<1>6. ASSUME NEW o \in auc'
      PROVE  LotsFor(o)' # {}
  <2>1. PICK i \in Slot : Valid(i) /\ lot[i].obj = o
    BY <1>1, <1>6 DEF LotInv, LotsSound, LotsFor
  <2>2. i \notin Carried(p)
    BY <2>1, <1>1, <1>6
  <2>. QED  BY <2>1, <2>2, <1>2 DEF LotsFor
<1>7. ASSUME NEW i \in Slot, HasBid(i)', lot'[i].buyer # Ghost
      PROVE  lot'[i].buyer \in InWorld'
  <2>1. Valid(i) /\ lot'[i].buyer = Freed(p, lot[i].buyer) /\ lot'[i].buyer # None
    BY <1>2, <1>7 DEF HasBid, Valid
  <2>2. lot[i].buyer # p /\ lot'[i].buyer = lot[i].buyer
    BY <2>1, <1>7 DEF Freed
  <2>3. lot[i].buyer \in InWorld
    BY <2>1, <2>2, <1>7 DEF LotInv, BidderPresent, HasBid, Valid
  <2>. QED  BY <2>2, <2>3, <1>1 DEF InWorld, LotInv, LotsTyped
<1>8. BidderPresent'
  BY <1>7 DEF BidderPresent
<1>9. LotsSound'
  BY <1>4, <1>5, <1>6 DEF LotsSound
<1>. QED  BY <1>3, <1>8, <1>9 DEF LotInv

\* A call counts the lots on and removes those that have ended; a sold object
\* changes hands.
LEMMA UpdateLotInv ==
  ASSUME LotInv, AuctionUpdate
  PROVE  LotInv'
<1> DEFINE ended == {i \in Slot : LastCall(i)}
           sold  == {i \in ended : HasBid(i)}
<1>1. /\ lot' = [i \in Slot |-> IF ~Valid(i) \/ i \in ended THEN None ELSE CalledOnce(i)]
      /\ auc' = auc \ {lot[i].obj : i \in ended}
      /\ where' = where
  BY DEF AuctionUpdate
<1>2. PICK taker \in [sold -> Player \cup {None}] :
        owner' = [o \in Obj |->
                    IF \E i \in sold : lot[i].obj = o
                    THEN taker[CHOOSE i \in sold : lot[i].obj = o]
                    ELSE owner[o]]
  BY DEF AuctionUpdate
<1>3. lot \in [Slot -> Lot \cup {None}]
  BY DEF LotInv, LotsTyped
<1>4. ASSUME NEW i \in Slot, Valid(i), i \notin ended
      PROVE  /\ CalledOnce(i) \in Lot
             /\ CalledOnce(i).obj = lot[i].obj /\ CalledOnce(i).sender = lot[i].sender
             /\ CalledOnce(i).buyer = lot[i].buyer
  <2>1. lot[i] \in Lot /\ lot[i].time \in 0..3 /\ lot[i].time # 3
    BY <1>3, <1>4 DEF Valid, LastCall, Lot
  <2>2. lot[i].time + 1 \in 0..3
    BY <2>1
  <2>. QED  BY <2>1, <2>2 DEF Lot, CalledOnce
<1>5. ASSUME NEW i \in Slot, Valid(i)'
      PROVE  i \notin ended /\ Valid(i) /\ lot'[i] = CalledOnce(i)
  BY <1>1, <1>5 DEF Valid
<1> HIDE DEF ended
<1>6. owner' \in [Obj -> Player \cup {None}]
  <2>1. ASSUME NEW o \in Obj
        PROVE  owner'[o] \in Player \cup {None}
    BY <1>2 DEF LotInv, LotsTyped
  <2>. QED  BY <2>1, <1>2
<1>7. LotsTyped'
  <2>1. ASSUME NEW i \in Slot
        PROVE  lot'[i] \in Lot \cup {None}
    <3>1. CASE Valid(i)'
      BY <3>1, <1>4, <1>5
    <3>2. CASE ~Valid(i)'
      BY <3>2 DEF Valid
    <3>. QED  BY <3>1, <3>2
  <2>2. lot' \in [Slot -> Lot \cup {None}]
    BY <1>1, <2>1
  <2>. QED  BY <1>1, <1>6, <2>2 DEF LotInv, LotsTyped
<1>8. ASSUME NEW i \in Slot, Valid(i)'
      PROVE  /\ lot'[i].obj \notin Traps \cup Arms => owner'[lot'[i].obj] = lot'[i].sender
             /\ lot'[i].sender # Ghost => /\ where'[lot'[i].sender] = "linked"
                                         /\ lot'[i].buyer # lot'[i].sender
             /\ lot'[i].obj \in auc'
  <2>1. /\ Valid(i) /\ i \notin ended /\ lot[i].obj \in Obj
        /\ lot'[i].obj = lot[i].obj /\ lot'[i].sender = lot[i].sender
        /\ lot'[i].buyer = lot[i].buyer
    BY <1>3, <1>4, <1>5, <1>8 DEF Valid, Lot
  <2>2. \A j \in ended : lot[j].obj # lot[i].obj
    BY <2>1 DEF LotInv, LotsSound, ended, LastCall
  <2>3. owner'[lot[i].obj] = owner[lot[i].obj]
    BY <2>1, <2>2, <1>2
  <2>. QED  BY <2>1, <2>2, <2>3, <1>1 DEF LotInv, LotsSound
<1>9. ASSUME NEW i \in Slot, NEW j \in Slot, Valid(i)', Valid(j)', lot'[i].obj = lot'[j].obj
      PROVE  i = j
  BY <1>4, <1>5, <1>9 DEF LotInv, LotsSound
<1>10. ASSUME NEW o \in auc'
       PROVE  LotsFor(o)' # {}
  <2>1. PICK i \in Slot : Valid(i) /\ lot[i].obj = o
    BY <1>1, <1>10 DEF LotInv, LotsSound, LotsFor
  <2>2. i \notin ended
    BY <2>1, <1>1, <1>10
  <2>3. lot'[i] = CalledOnce(i)
    BY <2>1, <2>2, <1>1
  <2>. QED  BY <2>1, <2>2, <2>3, <1>4, NoneIsNoLot DEF LotsFor, Valid
<1>11. BidderPresent'
  BY <1>1, <1>4, <1>5 DEF LotInv, BidderPresent, HasBid, Valid, InWorld
<1>. QED  BY <1>7, <1>8, <1>9, <1>10, <1>11 DEF LotInv, LotsSound

-----------------------------------------------------------------------------
\* What players do on the auction and in the bank.
LEMMA TradeLotInv ==
  ASSUME LotInv, NEW p \in Player, Trade(p)
  PROVE  LotInv'
<1>1. ASSUME NEW o \in Obj, NEW c \in Starts, Put(p, o, c)  PROVE LotInv'
  BY <1>1, PutLotInv
<1>2. ASSUME NEW i \in Slot, NEW c \in Bids, Stake(p, i, c)  PROVE LotInv'
  BY <1>2, StakeLotInv
<1>3. ASSUME NEW i \in Slot, Struck(p, i)  PROVE LotInv'
  <2>1. /\ Valid(i) /\ StrikeOff({i}) /\ owner' = owner /\ where' = where
    BY <1>3 DEF Struck
  <2>2. owner' \in [Obj -> Player \cup {None}] /\ where' \in [Player -> Places]
    BY <2>1 DEF LotInv, LotsTyped
  <2>3. \A j \in Slot : Valid(j) /\ lot[j].sender # Ghost => where'[lot[j].sender] = "linked"
    BY <2>1 DEF LotInv, LotsSound
  <2>4. \A q \in InWorld : where'[q] # "away"
    BY <2>1 DEF InWorld
  <2>. QED  BY <2>1, <2>2, <2>3, <2>4, StruckLotInv
<1>4. ASSUME NEW i \in Slot, Identify(p, i)  PROVE LotInv'
  BY <1>4, SameLots DEF Identify, lotVars
<1>5. ASSUME NEW s \in Sums, Deposit(p, s) \/ Withdraw(p, s)  PROVE LotInv'
  BY <1>5, SameLots DEF Deposit, Withdraw, lotVars
<1>. QED  BY <1>1, <1>2, <1>3, <1>4, <1>5 DEF Trade

\* Whose lots are struck off loses all of his, and perhaps those of freed sellers.
LEMMA StrikesLots ==
  ASSUME NEW p, StrikeLotsOf(p)
  PROVE  \E T \in SUBSET Slot : /\ LotsOf(p) \subseteq T
                                /\ \A i \in T : Valid(i)
                                /\ StrikeOff(T)
<1>1. PICK S \in SUBSET LotsOf(Ghost) : StrikeOff(LotsOf(p) \cup S)
  BY DEF StrikeLotsOf
<1>2. LotsOf(p) \cup S \subseteq Slot /\ \A i \in LotsOf(p) \cup S : Valid(i)
  BY <1>1 DEF LotsOf
<1>. QED  BY <1>1, <1>2

\* What happens to players and to what they carry.
LEMMA LifeLotInv ==
  ASSUME LotInv, NEW p \in Player, Life(p)
  PROVE  LotInv'
<1>1. ASSUME NEW o \in Obj, Drop(p, o)  PROVE LotInv'
  BY <1>1, ObjectsLotInv DEF Drop, Droppable
<1>2. ASSUME NEW o \in Obj, Get(p, o)  PROVE LotInv'
  BY <1>2, ObjectsLotInv DEF Get
<1>3. ASSUME NEW o \in Obj, SetTrap(p, o) \/ Disarmed(p, o)  PROVE LotInv'
  BY <1>3, ObjectsLotInv DEF SetTrap, Disarmed
<1>4. ASSUME NEW o \in Obj, NEW q \in Player, Give(p, q, o)  PROVE LotInv'
  BY <1>4, ObjectsLotInv DEF Give, Droppable
<1>5. CASE Enter(p) \/ LinkBack(p)
  BY <1>5, PresenceLotInv DEF Enter, LinkBack, Places
<1>6. CASE Quit(p)
  <2>1. /\ StrikeOff(Carried(p)) /\ owner' = owner /\ ~Dealing(p)
        /\ where' = [where EXCEPT ![p] = "away"]
    BY <1>6 DEF Quit
  <2>2. Carried(p) \in SUBSET Slot /\ \A i \in Carried(p) : Valid(i)
    BY DEF Carried
  <2>3. owner' \in [Obj -> Player \cup {None}] /\ where' \in [Player -> Places]
    BY <2>1 DEF LotInv, LotsTyped, Places
  <2>4. ASSUME NEW i \in Slot \ Carried(p), Valid(i), lot[i].sender # Ghost
        PROVE  where'[lot[i].sender] = "linked"
    <3>1. lot[i].sender # p /\ lot[i].sender \in Player
      BY <2>1, <2>4 DEF Dealing, LotInv, LotsTyped, Valid, Lot
    <3>. QED  BY <2>1, <2>4, <3>1 DEF LotInv, LotsSound, LotsTyped
  <2>5. \A q \in InWorld : where'[q] # "away" \/ ~Dealing(q)
    BY <2>1 DEF InWorld, LotInv, LotsTyped
  <2>. QED  BY <2>1, <2>2, <2>3, <2>4, <2>5, StruckLotInv
<1>7. CASE LinkLost(p)
  <2>1. /\ StrikeLotsOf(p) /\ owner' = owner
        /\ where' = [where EXCEPT ![p] = "linkdead"]
    BY <1>7 DEF LinkLost
  <2>2. PICK T \in SUBSET Slot : /\ LotsOf(p) \subseteq T
                                 /\ \A i \in T : Valid(i)
                                 /\ StrikeOff(T)
    BY <2>1, StrikesLots
  <2>3. owner' \in [Obj -> Player \cup {None}] /\ where' \in [Player -> Places]
    BY <2>1 DEF LotInv, LotsTyped, Places
  <2>4. ASSUME NEW i \in Slot \ T, Valid(i), lot[i].sender # Ghost
        PROVE  where'[lot[i].sender] = "linked"
    <3>1. lot[i].sender # p /\ lot[i].sender \in Player
      BY <2>2, <2>4 DEF LotsOf, LotInv, LotsTyped, Valid, Lot
    <3>. QED  BY <2>1, <2>4, <3>1 DEF LotInv, LotsSound, LotsTyped
  <2>5. \A q \in InWorld : where'[q] # "away"
    BY <2>1 DEF InWorld, LotInv, LotsTyped
  <2>. QED  BY <2>1, <2>2, <2>3, <2>4, <2>5, StruckLotInv
<1>8. CASE Die(p)
  <2>1. /\ StrikeLotsOf(p) /\ where' = where
        /\ \/ owner' = [o \in Obj |-> IF owner[o] = p THEN None ELSE owner[o]]
           \/ owner' = owner
    BY <1>8 DEF Die
  <2>2. PICK T \in SUBSET Slot : /\ LotsOf(p) \subseteq T
                                 /\ \A i \in T : Valid(i)
                                 /\ StrikeOff(T)
    BY <2>1, StrikesLots
  <2>3. owner' \in [Obj -> Player \cup {None}] /\ where' \in [Player -> Places]
    BY <2>1 DEF LotInv, LotsTyped
  <2>4. ASSUME NEW i \in Slot \ T, Valid(i)
        PROVE  /\ lot[i].obj \notin Traps \cup Arms => owner'[lot[i].obj] = owner[lot[i].obj]
               /\ lot[i].sender # Ghost => where'[lot[i].sender] = "linked"
    <3>1. lot[i].sender # p /\ lot[i].obj \in Obj
      BY <2>2, <2>4 DEF LotsOf, LotInv, LotsTyped, Valid, Lot
    <3>. QED  BY <2>1, <2>4, <3>1 DEF LotInv, LotsSound
  <2>5. \A q \in InWorld : where'[q] # "away"
    BY <2>1 DEF InWorld
  <2>. QED  BY <2>1, <2>2, <2>3, <2>4, <2>5, StruckLotInv
<1>9. CASE Purge(p)
  BY <1>9, PurgeLotInv
<1>. QED  BY <1>1, <1>2, <1>3, <1>4, <1>5, <1>6, <1>7, <1>8, <1>9 DEF Life

\* A destroyed object takes its lot with it.
LEMMA DestroyLotInv ==
  ASSUME LotInv, NEW o \in Obj, Destroy(o)
  PROVE  LotInv'
<1>1. /\ StrikeOff(LotsFor(o)) /\ where' = where
      /\ owner' = [owner EXCEPT ![o] = None]
  BY DEF Destroy
<1>2. LotsFor(o) \in SUBSET Slot /\ \A i \in LotsFor(o) : Valid(i)
  BY DEF LotsFor
<1>3. owner' \in [Obj -> Player \cup {None}] /\ where' \in [Player -> Places]
  BY <1>1 DEF LotInv, LotsTyped
<1>4. ASSUME NEW i \in Slot \ LotsFor(o), Valid(i)
      PROVE  /\ lot[i].obj \notin Traps \cup Arms => owner'[lot[i].obj] = owner[lot[i].obj]
             /\ lot[i].sender # Ghost => where'[lot[i].sender] = "linked"
  <2>1. lot[i].obj # o /\ lot[i].obj \in Obj
    BY <1>4 DEF LotsFor, LotInv, LotsTyped, Valid, Lot
  <2>. QED  BY <1>1, <1>4, <2>1 DEF LotInv, LotsSound, LotsTyped
<1>5. \A q \in InWorld : where'[q] # "away"
  BY <1>1 DEF InWorld
<1>. QED  BY <1>1, <1>2, <1>3, <1>4, <1>5, StruckLotInv

\* A login that is given up takes nobody's place.
LEMMA LoginLotInv ==
  ASSUME LotInv, LoginLost
  PROVE  LotInv'
<1>1. PICK S \in SUBSET LotsOf(Ghost) : StrikeOff(S)
  BY DEF LoginLost
<1>2. S \in SUBSET Slot /\ \A i \in S : Valid(i)
  BY DEF LotsOf
<1>3. owner' = owner /\ where' = where
  BY DEF LoginLost
<1>4. owner' \in [Obj -> Player \cup {None}] /\ where' \in [Player -> Places]
  BY <1>3 DEF LotInv, LotsTyped
<1>5. \A i \in Slot : Valid(i) /\ lot[i].sender # Ghost => where'[lot[i].sender] = "linked"
  BY <1>3 DEF LotInv, LotsSound
<1>6. \A q \in InWorld : where'[q] # "away"
  BY <1>3 DEF InWorld
<1>. QED  BY <1>1, <1>2, <1>3, <1>4, <1>5, <1>6, StruckLotInv

\* Every step preserves the invariant.
LEMMA NextLotInv == LotInv /\ [Next]_vars => LotInv'
<1> SUFFICES ASSUME LotInv, [Next]_vars
             PROVE  LotInv'
  OBVIOUS
<1>1. ASSUME NEW p \in Player, Trade(p) \/ Life(p)  PROVE LotInv'
  BY <1>1, TradeLotInv, LifeLotInv
<1>2. ASSUME NEW o \in Obj, Destroy(o)  PROVE LotInv'
  BY <1>2, DestroyLotInv
<1>3. CASE AuctionUpdate \/ LoginLost
  BY <1>3, UpdateLotInv, LoginLotInv
<1>4. CASE UNCHANGED vars
  BY <1>4, SameLots DEF vars, lotVars
<1>. QED  BY <1>1, <1>2, <1>3, <1>4 DEF Next

\* Whatever players do, suffer and lose, the list of lots is sound.
THEOREM LotsStaySound == Spec => []LotsSound
<1>1. LotInv => LotsSound
  BY DEF LotInv
<1>. QED  BY InitLotInv, NextLotInv, <1>1, PTL DEF Spec

\* The bidders of all lots are in the world, if they were not purged.
THEOREM BiddersStay == Spec => []BidderPresent
<1>1. LotInv => BidderPresent
  BY DEF LotInv
<1>. QED  BY InitLotInv, NextLotInv, <1>1, PTL DEF Spec

-----------------------------------------------------------------------------
(***************************************************************************)
(* Money.  What each lot owes, what each player has.                       *)
(***************************************************************************)
Due(L)      == [i \in Slot |-> Refund(L[i].cost)]
Price(L)    == [i \in Slot |-> Proceeds(L[i].cost)]
Worth(b, g) == [p \in Player |-> b[p] + g[p]]
BidsOn(L)   == {i \in Slot : L[i] # None /\ L[i].buyer # None}

MoneyTyped == bank \in [Player -> Nat] /\ gold \in [Player -> Nat]

\* The tenth on top, the twenty-first off.
LEMMA Rounding ==
    ASSUME NEW c \in Nat
    PROVE  /\ Refund(c) \in Nat /\ Proceeds(c) \in Nat /\ Proceeds(c) <= Refund(c)
           /\ (11 * c + 9) \div 10 \in Nat /\ Refund(c) <= (11 * c + 9) \div 10
BY DEF Refund, Proceeds

LEMMA SlotsFinite == ASSUME NEW T, T \subseteq Slot PROVE IsFiniteSet(T)
<1>1. IsFiniteSet(Slot)
  BY AuctionAssumption, FS_Interval DEF Slot
<1> QED
  BY <1>1, FS_Subset

\* The sums of Auction are sums of these.
LEMMA DueIs ==
    ASSUME NEW L, NEW T, T \subseteq Slot, \A i \in T : L[i] \in Lot
    PROVE  MapThenSumSet(LAMBDA i : Refund(L[i].cost), T) = SumOf(Due(L), T)
<1> DEFINE lib == CHOOSE h : h = [s \in SUBSET T |->
                    IF s = {} THEN 0
                    ELSE Refund(L[CHOOSE x \in s : TRUE].cost) + h[s \ {CHOOSE x \in s : TRUE}]]
<1>1. MapThenSumSet(LAMBDA i : Refund(L[i].cost), T) = lib[T]
  BY DEF MapThenSumSet, MapThenFoldSet
<1>2. ASSUME NEW s \in SUBSET T, s # {}
      PROVE  Due(L)[Some(s)] = Refund(L[CHOOSE x \in s : TRUE].cost)
  BY <1>2, SomeIn DEF Due, Some
<1>3. ASSUME NEW h
      PROVE  IsSum(Due(L), T, h) <=> h = [s \in SUBSET T |->
                    IF s = {} THEN 0
                    ELSE Refund(L[CHOOSE x \in s : TRUE].cost) + h[s \ {CHOOSE x \in s : TRUE}]]
  BY <1>2 DEF IsSum, Some
<1>4. IsFiniteSet(T) /\ \A i \in T : Due(L)[i] \in Int
  BY SlotsFinite, Rounding DEF Due, Lot
<1>5. \E h : IsSum(Due(L), T, h)
  BY <1>4, SumExists
<1>6. IsSum(Due(L), T, lib)
  BY <1>3, <1>5
<1> HIDE DEF lib
<1>7. SumOf(Due(L), T) = lib[T]
  BY <1>4, <1>6, TotalPart
<1> QED
  BY <1>1, <1>7

LEMMA PriceIs ==
    ASSUME NEW L, NEW T, T \subseteq Slot, \A i \in T : L[i] \in Lot
    PROVE  MapThenSumSet(LAMBDA i : Proceeds(L[i].cost), T) = SumOf(Price(L), T)
<1> DEFINE lib == CHOOSE h : h = [s \in SUBSET T |->
                    IF s = {} THEN 0
                    ELSE Proceeds(L[CHOOSE x \in s : TRUE].cost) + h[s \ {CHOOSE x \in s : TRUE}]]
<1>1. MapThenSumSet(LAMBDA i : Proceeds(L[i].cost), T) = lib[T]
  BY DEF MapThenSumSet, MapThenFoldSet
<1>2. ASSUME NEW s \in SUBSET T, s # {}
      PROVE  Price(L)[Some(s)] = Proceeds(L[CHOOSE x \in s : TRUE].cost)
  BY <1>2, SomeIn DEF Price, Some
<1>3. ASSUME NEW h
      PROVE  IsSum(Price(L), T, h) <=> h = [s \in SUBSET T |->
                    IF s = {} THEN 0
                    ELSE Proceeds(L[CHOOSE x \in s : TRUE].cost) + h[s \ {CHOOSE x \in s : TRUE}]]
  BY <1>2 DEF IsSum, Some
<1>4. IsFiniteSet(T) /\ \A i \in T : Price(L)[i] \in Int
  BY SlotsFinite, Rounding DEF Price, Lot
<1>5. \E h : IsSum(Price(L), T, h)
  BY <1>4, SumExists
<1>6. IsSum(Price(L), T, lib)
  BY <1>3, <1>5
<1> HIDE DEF lib
<1>7. SumOf(Price(L), T) = lib[T]
  BY <1>4, <1>6, TotalPart
<1> QED
  BY <1>1, <1>7

LEMMA WorthIs ==
    ASSUME NEW b \in [Player -> Nat], NEW g \in [Player -> Nat]
    PROVE  MapThenSumSet(LAMBDA p : b[p] + g[p], Player) = SumOf(Worth(b, g), Player)
<1> DEFINE lib == CHOOSE h : h = [s \in SUBSET Player |->
                    IF s = {} THEN 0
                    ELSE (b[CHOOSE x \in s : TRUE] + g[CHOOSE x \in s : TRUE])
                         + h[s \ {CHOOSE x \in s : TRUE}]]
<1>1. MapThenSumSet(LAMBDA p : b[p] + g[p], Player) = lib[Player]
  BY DEF MapThenSumSet, MapThenFoldSet
<1>2. ASSUME NEW s \in SUBSET Player, s # {}
      PROVE  Worth(b, g)[Some(s)] = b[CHOOSE x \in s : TRUE] + g[CHOOSE x \in s : TRUE]
  BY <1>2, SomeIn DEF Worth, Some
<1>3. ASSUME NEW h
      PROVE  IsSum(Worth(b, g), Player, h) <=> h = [s \in SUBSET Player |->
                    IF s = {} THEN 0
                    ELSE (b[CHOOSE x \in s : TRUE] + g[CHOOSE x \in s : TRUE])
                         + h[s \ {CHOOSE x \in s : TRUE}]]
  BY <1>2 DEF IsSum, Some
<1>4. IsFiniteSet(Player) /\ \A p \in Player : Worth(b, g)[p] \in Int
  BY AuctionAssumption DEF Worth
<1>5. \E h : IsSum(Worth(b, g), Player, h)
  BY <1>4, SumExists
<1>6. IsSum(Worth(b, g), Player, lib)
  <2>0. PICK k : IsSum(Worth(b, g), Player, k)
    BY <1>5
  <2>1. k = [s \in SUBSET Player |->
                    IF s = {} THEN 0
                    ELSE (b[CHOOSE x \in s : TRUE] + g[CHOOSE x \in s : TRUE])
                         + k[s \ {CHOOSE x \in s : TRUE}]]
    BY <1>3, <2>0, Zenon
  <2>2. lib = [s \in SUBSET Player |->
                    IF s = {} THEN 0
                    ELSE (b[CHOOSE x \in s : TRUE] + g[CHOOSE x \in s : TRUE])
                         + lib[s \ {CHOOSE x \in s : TRUE}]]
    BY <2>1, Zenon
  <2> HIDE DEF lib
  <2> QED
    BY <1>3, <2>2
<1> HIDE DEF lib
<1>7. SumOf(Worth(b, g), Player) = lib[Player]
  BY <1>4, <1>6, TotalPart
<1> QED
  BY <1>1, <1>7

\* What there is: purses, accounts and what lots owe.
LEMMA WealthIs ==
    LotsTyped /\ MoneyTyped =>
        /\ Wealth = SumOf(Worth(bank, gold), Player) + SumOf(Due(lot), BidsOn(lot))
        /\ SumOf(Worth(bank, gold), Player) \in Int
        /\ SumOf(Due(lot), BidsOn(lot)) \in Int
<1> SUFFICES ASSUME LotsTyped, MoneyTyped
             PROVE  /\ Wealth = SumOf(Worth(bank, gold), Player) + SumOf(Due(lot), BidsOn(lot))
                    /\ SumOf(Worth(bank, gold), Player) \in Int
                    /\ SumOf(Due(lot), BidsOn(lot)) \in Int
  OBVIOUS
<1>1. MapThenSumSet(LAMBDA p : bank[p] + gold[p], Player) = SumOf(Worth(bank, gold), Player)
  BY WorthIs DEF MoneyTyped
<1>2. BidsOn(lot) \subseteq Slot /\ \A i \in BidsOn(lot) : lot[i] \in Lot
  BY DEF BidsOn, LotsTyped
<1>3. MapThenSumSet(LAMBDA i : Refund(lot[i].cost), BidsOn(lot)) = SumOf(Due(lot), BidsOn(lot))
  BY <1>2, DueIs
<1>4. {i \in Slot : HasBid(i)} = BidsOn(lot)
  BY DEF HasBid, BidsOn
<1>5. SumOf(Worth(bank, gold), Player) \in Int
  <2>1. \A p \in Player : Worth(bank, gold)[p] \in Int
    BY DEF Worth, MoneyTyped
  <2> QED
    BY <2>1, AuctionAssumption, TotalInt
<1>6. SumOf(Due(lot), BidsOn(lot)) \in Int
  <2>1. \A i \in BidsOn(lot) : Due(lot)[i] \in Int
    BY <1>2, Rounding DEF Due, Lot
  <2> QED
    BY <1>2, <2>1, SlotsFinite, TotalInt
<1> QED
  BY <1>1, <1>3, <1>4, <1>5, <1>6 DEF Wealth

\* Stakes that are given back: to whom each one goes, and what that comes to.
LEMMA PayBackPays ==
  ASSUME LotsTyped, MoneyTyped, NEW S \in SUBSET Slot, \A i \in S : Valid(i),
         NEW saved \in SUBSET Player, PayBack(S, saved)
  PROVE  \E payee \in [S -> Player \cup {None}] :
           /\ \A i \in S : payee[i] \in Player => lot[i].buyer # None
           /\ \A i \in S : lot[i].buyer \in Player \ saved => payee[i] = lot[i].buyer
           /\ \A p \in Player : SumOf(Due(lot), {i \in S : payee[i] = p}) \in Nat
           /\ bank' = [p \in Player |-> bank[p] + SumOf(Due(lot), {i \in S : payee[i] = p})]
<1>1. PICK named \in [S -> Player \cup {None}] :
        /\ \A i \in S : named[i] \in Payees(lot[i].buyer)
        /\ bank' = [p \in Player |->
                      bank[p] + MapThenSumSet(LAMBDA i : Refund(lot[i].cost),
                                              {i \in S : named[i] = p /\ p \notin saved})]
  BY DEF PayBack
<1> DEFINE payee == [i \in S |-> IF named[i] \in saved THEN None ELSE named[i]]
<1>2. \A i \in S : lot[i] \in Lot /\ Due(lot)[i] \in Nat
  BY Rounding DEF LotsTyped, Valid, Due, Lot
<1>3. /\ payee \in [S -> Player \cup {None}]
      /\ \A i \in S : payee[i] \in Player => payee[i] = named[i]
      /\ \A i \in S : named[i] \notin saved => payee[i] = named[i]
  BY AuctionAssumption
<1>4. \A p \in Player : {i \in S : named[i] = p /\ p \notin saved} = {i \in S : payee[i] = p}
  BY AuctionAssumption
<1> HIDE DEF payee
<1>5. ASSUME NEW p \in Player
      PROVE  /\ SumOf(Due(lot), {i \in S : payee[i] = p}) \in Nat
             /\ MapThenSumSet(LAMBDA i : Refund(lot[i].cost),
                              {i \in S : named[i] = p /\ p \notin saved})
                = SumOf(Due(lot), {i \in S : payee[i] = p})
  <2> DEFINE T == {i \in S : payee[i] = p}
  <2>0. {i \in S : named[i] = p /\ p \notin saved} = T
    BY <1>4
  <2>1. T \subseteq Slot /\ T \subseteq S
    OBVIOUS
  <2> HIDE DEF T
  <2>2. \A i \in T : lot[i] \in Lot /\ Due(lot)[i] \in Nat
    BY <1>2, <2>1
  <2>3. SumOf(Due(lot), T) \in Nat
    BY <2>1, <2>2, SlotsFinite, TotalNat
  <2>4. MapThenSumSet(LAMBDA i : Refund(lot[i].cost), T) = SumOf(Due(lot), T)
    BY <2>1, <2>2, DueIs
  <2>5. MapThenSumSet(LAMBDA i : Refund(lot[i].cost),
                      {i \in S : named[i] = p /\ p \notin saved}) = SumOf(Due(lot), T)
    BY <2>0, <2>4
  <2>. QED  BY <2>3, <2>5 DEF T
<1>6. bank' = [p \in Player |-> bank[p] + SumOf(Due(lot), {i \in S : payee[i] = p})]
  BY <1>1, <1>5, Zenon
<1>7. \A i \in S : payee[i] \in Player => lot[i].buyer # None
  <2> SUFFICES ASSUME NEW i \in S, payee[i] \in Player, lot[i].buyer = None
               PROVE  FALSE
    OBVIOUS
  <2>1. named[i] \in Player /\ named[i] \in Payees(None)
    BY <1>1, <1>3
  <2>2. Payees(None) = {None}
    BY AuctionAssumption DEF Payees
  <2>. QED  BY <2>1, <2>2, AuctionAssumption
<1>8. \A i \in S : lot[i].buyer \in Player \ saved => payee[i] = lot[i].buyer
  <2> SUFFICES ASSUME NEW i \in S, lot[i].buyer \in Player \ saved
               PROVE  payee[i] = lot[i].buyer
    OBVIOUS
  <2>1. Payees(lot[i].buyer) = {lot[i].buyer}
    BY AuctionAssumption DEF Payees
  <2>. QED  BY <1>1, <1>3, <2>1
<1>. QED  BY <1>3, <1>5, <1>6, <1>7, <1>8

\* Accounts do not fall by it, and the last bidders have their stakes.
LEMMA PayBackGives ==
  ASSUME LotsTyped, MoneyTyped, NEW S \in SUBSET Slot, \A i \in S : Valid(i),
         NEW saved \in SUBSET Player, PayBack(S, saved)
  PROVE  /\ bank' \in [Player -> Nat]
         /\ \A i \in S : lot[i].buyer \in Player \ saved =>
              bank'[lot[i].buyer] >= bank[lot[i].buyer] + Refund(lot[i].cost)
<1>1. PICK payee \in [S -> Player \cup {None}] :
        /\ \A i \in S : payee[i] \in Player => lot[i].buyer # None
        /\ \A i \in S : lot[i].buyer \in Player \ saved => payee[i] = lot[i].buyer
        /\ \A p \in Player : SumOf(Due(lot), {i \in S : payee[i] = p}) \in Nat
        /\ bank' = [p \in Player |-> bank[p] + SumOf(Due(lot), {i \in S : payee[i] = p})]
  BY PayBackPays
<1>2. bank' \in [Player -> Nat]
  BY <1>1 DEF MoneyTyped
<1>3. ASSUME NEW i \in S, lot[i].buyer \in Player \ saved
      PROVE  bank'[lot[i].buyer] >= bank[lot[i].buyer] + Refund(lot[i].cost)
  <2> DEFINE b == lot[i].buyer
             T == {j \in S : payee[j] = b}
  <2>1. payee[i] = b
    BY <1>1, <1>3
  <2>2. i \in T /\ T \subseteq S /\ IsFiniteSet(T) /\ IsFiniteSet(T \ {i})
    BY <2>1, SlotsFinite
  <2> HIDE DEF T
  <2>3. \A j \in T : Due(lot)[j] \in Nat
    BY <2>2, Rounding DEF LotsTyped, Valid, Due, Lot
  <2>4. SumOf(Due(lot), T) = Due(lot)[i] + SumOf(Due(lot), T \ {i})
    BY <2>2, <2>3, TotalOne
  <2>5. SumOf(Due(lot), T \ {i}) \in Nat
    BY <2>2, <2>3, TotalNat
  <2>6. Due(lot)[i] = Refund(lot[i].cost) /\ Due(lot)[i] \in Nat
    BY <2>2, <2>3 DEF Due
  <2>7. bank'[b] = bank[b] + SumOf(Due(lot), T) /\ bank[b] \in Nat
    BY <1>1, <1>3 DEF T, MoneyTyped
  <2> QED
    BY <2>4, <2>5, <2>6, <2>7
<1> QED
  BY <1>2, <1>3

\* All accounts together grow by no more than what these lots owed.
LEMMA PayBackTotal ==
  ASSUME LotsTyped, MoneyTyped, NEW S \in SUBSET Slot, \A i \in S : Valid(i),
         NEW saved \in SUBSET Player, PayBack(S, saved), NEW g \in [Player -> Nat]
  PROVE  SumOf(Worth(bank', g), Player)
           <= SumOf(Worth(bank, g), Player) + SumOf(Due(lot), S \cap BidsOn(lot))
<1>1. PICK payee \in [S -> Player \cup {None}] :
        /\ \A i \in S : payee[i] \in Player => lot[i].buyer # None
        /\ \A i \in S : lot[i].buyer \in Player \ saved => payee[i] = lot[i].buyer
        /\ \A p \in Player : SumOf(Due(lot), {i \in S : payee[i] = p}) \in Nat
        /\ bank' = [p \in Player |-> bank[p] + SumOf(Due(lot), {i \in S : payee[i] = p})]
  BY PayBackPays
<1> DEFINE Back == [p \in Player |-> SumOf(Due(lot), {i \in S : payee[i] = p})]
           Paid == {i \in S : payee[i] \in Player}
           Bid  == S \cap BidsOn(lot)
<1>2. \A i \in S : Due(lot)[i] \in Nat
  BY Rounding DEF LotsTyped, Valid, Due, Lot
<1>3. IsFiniteSet(Player) /\ IsFiniteSet(S)
  BY AuctionAssumption, SlotsFinite
<1>4. \A p \in Player : /\ Back[p] \in Int /\ Worth(bank, g)[p] \in Int
                        /\ Worth(bank', g)[p] = Worth(bank, g)[p] + Back[p]
  BY <1>1 DEF Worth, MoneyTyped
<1>5. \A p \in Player : Back[p] = SumOf(Due(lot), {i \in S : payee[i] = p})
  OBVIOUS
<1> HIDE DEF Back
<1>6. SumOf(Worth(bank', g), Player) = SumOf(Worth(bank, g), Player) + SumOf(Back, Player)
  BY <1>3, <1>4, TotalAdds
<1>7. SumOf(Back, Player) = SumOf(Due(lot), Paid)
  <2>1. \A i \in S : Due(lot)[i] \in Int
    BY <1>2
  <2>2. \A p \in Player : Back[p] = SumOf(Due(lot), Givers(S, payee, {p}))
    <3>1. \A p \in Player : {i \in S : payee[i] = p} = Givers(S, payee, {p})
      BY DEF Givers
    <3> QED
      BY <1>5, <3>1
  <2>3. Paid = Givers(S, payee, Player)
    BY DEF Givers
  <2> HIDE DEF Paid
  <2>4. Shares(S, Due(lot), payee, Player, Back)
    BY <2>2 DEF Shares
  <2>5. SumOf(Back, Player) = SumOf(Due(lot), Givers(S, payee, Player))
    BY <2>1, <2>4, <1>3, TotalShared
  <2> QED
    BY <2>3, <2>5
<1>8. Paid \subseteq Bid
  <2> SUFFICES ASSUME NEW i \in S, payee[i] \in Player
               PROVE  i \in BidsOn(lot)
    OBVIOUS
  <2>1. lot[i].buyer # None
    BY <1>1
  <2> QED
    BY <2>1 DEF BidsOn, Valid
<1>9. SumOf(Due(lot), Paid) <= SumOf(Due(lot), Bid)
  <2>1. IsFiniteSet(Paid) /\ IsFiniteSet(Bid \ Paid) /\ Bid = Paid \cup (Bid \ Paid)
    BY <1>8, SlotsFinite
  <2>2. Paid \subseteq S /\ Bid \subseteq S
    OBVIOUS
  <2> HIDE DEF Paid, Bid
  <2>3. SumOf(Due(lot), Bid) = SumOf(Due(lot), Paid) + SumOf(Due(lot), Bid \ Paid)
    BY <1>2, <2>1, <2>2, TotalSplit
  <2>4. SumOf(Due(lot), Paid) \in Nat /\ SumOf(Due(lot), Bid \ Paid) \in Nat
    BY <1>2, <2>1, <2>2, TotalNat
  <2> QED
    BY <2>3, <2>4
<1>10. /\ SumOf(Worth(bank, g), Player) \in Int /\ SumOf(Due(lot), Paid) \in Int
       /\ SumOf(Due(lot), Bid) \in Int
  <2>1. SumOf(Worth(bank, g), Player) \in Int
    BY <1>3, <1>4, TotalInt
  <2>2. IsFiniteSet(Paid) /\ IsFiniteSet(Bid) /\ Paid \subseteq S /\ Bid \subseteq S
    BY SlotsFinite
  <2> HIDE DEF Paid, Bid
  <2>3. SumOf(Due(lot), Paid) \in Nat /\ SumOf(Due(lot), Bid) \in Nat
    BY <1>2, <2>2, TotalNat
  <2> QED
    BY <2>1, <2>3
<1> HIDE DEF Paid, Bid
<1>11. SumOf(Worth(bank', g), Player) <= SumOf(Worth(bank, g), Player) + SumOf(Due(lot), Bid)
  BY <1>6, <1>7, <1>9, <1>10
<1> QED
  BY <1>11 DEF Bid

-----------------------------------------------------------------------------
LEMMA WealthNext ==
  ASSUME LotsTyped', MoneyTyped'
  PROVE  /\ Wealth' = SumOf(Worth(bank', gold'), Player) + SumOf(Due(lot'), BidsOn(lot'))
         /\ SumOf(Worth(bank', gold'), Player) \in Int
         /\ SumOf(Due(lot'), BidsOn(lot')) \in Int
<1>1. (LotsTyped /\ MoneyTyped)' =>
        (/\ Wealth = SumOf(Worth(bank, gold), Player) + SumOf(Due(lot), BidsOn(lot))
         /\ SumOf(Worth(bank, gold), Player) \in Int
         /\ SumOf(Due(lot), BidsOn(lot)) \in Int)'
  BY WealthIs, PTL
<1> QED
  BY <1>1

LEMMA WorthInt ==
    ASSUME NEW b \in [Player -> Nat], NEW g \in [Player -> Nat]
    PROVE  \A p \in Player : Worth(b, g)[p] \in Int /\ Worth(b, g)[p] = b[p] + g[p]
BY DEF Worth

LEMMA DueNat ==
    ASSUME NEW L, NEW T, T \subseteq Slot, \A i \in T : L[i] \in Lot
    PROVE  /\ \A i \in T : Due(L)[i] \in Nat /\ Due(L)[i] = Refund(L[i].cost)
           /\ \A i \in T : Price(L)[i] \in Nat /\ Price(L)[i] <= Due(L)[i]
           /\ SumOf(Due(L), T) \in Nat /\ SumOf(Price(L), T) \in Nat
           /\ SumOf(Price(L), T) <= SumOf(Due(L), T)
<1>1. \A i \in T : /\ Due(L)[i] \in Nat /\ Due(L)[i] = Refund(L[i].cost)
                   /\ Price(L)[i] \in Nat /\ Price(L)[i] <= Due(L)[i]
  BY Rounding DEF Due, Price, Lot
<1>2. IsFiniteSet(T)
  BY SlotsFinite
<1>3. SumOf(Due(L), T) \in Nat /\ SumOf(Price(L), T) \in Nat
  BY <1>1, <1>2, TotalNat
<1>4. SumOf(Price(L), T) <= SumOf(Due(L), T)
  <2>1. \A i \in T : Price(L)[i] \in Int /\ Due(L)[i] \in Int /\ Price(L)[i] <= Due(L)[i]
    BY <1>1
  <2> QED
    BY <1>2, <2>1, TotalMonotone
<1> QED
  BY <1>1, <1>3, <1>4

\* Lots of the same stakes owe the same.
LEMMA DueSame ==
    ASSUME NEW L, NEW M, NEW T, T \subseteq Slot,
           \A i \in T : L[i] \in Lot /\ M[i].cost = L[i].cost
    PROVE  SumOf(Due(M), T) = SumOf(Due(L), T)
<1>1. \A i \in T : Due(M)[i] \in Int /\ Due(M)[i] = Due(L)[i]
  BY Rounding DEF Due, Lot
<1> QED
  BY <1>1, SlotsFinite, TotalSame

\* Nobody has more than before and the lots owe the same.
LEMMA CalmWealth ==
  ASSUME LotsTyped, MoneyTyped, LotsTyped', MoneyTyped',
         \A p \in Player : bank'[p] + gold'[p] <= bank[p] + gold[p],
         BidsOn(lot') = BidsOn(lot),
         \A i \in BidsOn(lot) : lot'[i].cost = lot[i].cost
  PROVE  Wealth' <= Wealth
<1>1. SumOf(Worth(bank', gold'), Player) <= SumOf(Worth(bank, gold), Player)
  <2>1. \A p \in Player : /\ Worth(bank', gold')[p] \in Int /\ Worth(bank, gold)[p] \in Int
                          /\ Worth(bank', gold')[p] <= Worth(bank, gold)[p]
    BY DEF Worth, MoneyTyped
  <2> QED
    BY <2>1, AuctionAssumption, TotalMonotone
<1>2. SumOf(Due(lot'), BidsOn(lot')) = SumOf(Due(lot), BidsOn(lot))
  <2>1. BidsOn(lot) \subseteq Slot /\ \A i \in BidsOn(lot) : lot[i] \in Lot
    BY DEF BidsOn, LotsTyped
  <2> QED
    BY <2>1, DueSame
<1> QED
  BY <1>1, <1>2, WealthIs, WealthNext

\* Lots are taken off the list, and their stakes go back.
LEMMA StruckWealth ==
  ASSUME LotsTyped, MoneyTyped, LotsTyped', MoneyTyped',
         NEW S \in SUBSET Slot, \A i \in S : Valid(i), NEW saved \in SUBSET Player, PayBack(S, saved),
         \A p \in Player : gold'[p] <= gold[p],
         BidsOn(lot') = BidsOn(lot) \ S,
         \A i \in BidsOn(lot') : lot'[i].cost = lot[i].cost
  PROVE  Wealth' <= Wealth
<1> DEFINE B == BidsOn(lot)
<1>1. B \subseteq Slot /\ \A i \in B : lot[i] \in Lot
  BY DEF BidsOn, LotsTyped
<1>2. BidsOn(lot') = B \ S
  OBVIOUS
<1>3. SumOf(Worth(bank', gold'), Player) <= SumOf(Worth(bank', gold), Player)
  <2>1. \A p \in Player : /\ Worth(bank', gold')[p] \in Int /\ Worth(bank', gold)[p] \in Int
                          /\ Worth(bank', gold')[p] <= Worth(bank', gold)[p]
    BY DEF Worth, MoneyTyped
  <2> QED
    BY <2>1, AuctionAssumption, TotalMonotone
<1>4. SumOf(Worth(bank', gold), Player)
        <= SumOf(Worth(bank, gold), Player) + SumOf(Due(lot), S \cap B)
  BY PayBackTotal DEF MoneyTyped
<1>5. SumOf(Due(lot'), B \ S) = SumOf(Due(lot), B \ S)
  BY <1>1, <1>2, DueSame
<1>6. SumOf(Due(lot), B) = SumOf(Due(lot), S \cap B) + SumOf(Due(lot), B \ S)
  <2> HIDE DEF B
  <2>1. /\ IsFiniteSet(S \cap B) /\ IsFiniteSet(B \ S)
        /\ (S \cap B) \cap (B \ S) = {} /\ B = (S \cap B) \cup (B \ S)
    BY <1>1, SlotsFinite
  <2>2. \A i \in (S \cap B) \cup (B \ S) : Due(lot)[i] \in Int
    <3>1. \A i \in B : Due(lot)[i] \in Nat
      BY <1>1, DueNat
    <3> QED
      BY <3>1
  <2>3. SumOf(Due(lot), (S \cap B) \cup (B \ S))
          = SumOf(Due(lot), S \cap B) + SumOf(Due(lot), B \ S)
    BY <2>1, <2>2, TotalSplit
  <2> QED
    BY <2>1, <2>3
<1>7. SumOf(Due(lot), S \cap B) \in Nat /\ SumOf(Due(lot), B \ S) \in Nat
  <2> HIDE DEF B
  <2>1. S \cap B \subseteq Slot /\ \A i \in S \cap B : lot[i] \in Lot
    BY <1>1
  <2>2. B \ S \subseteq Slot /\ \A i \in B \ S : lot[i] \in Lot
    BY <1>1
  <2> QED
    BY <2>1, <2>2, DueNat
<1>8. SumOf(Worth(bank', gold), Player) \in Int
  <2>1. \A p \in Player : Worth(bank', gold)[p] \in Int
    BY DEF Worth, MoneyTyped
  <2> QED
    BY <2>1, AuctionAssumption, TotalInt
<1>9. /\ Wealth = SumOf(Worth(bank, gold), Player) + SumOf(Due(lot), B)
      /\ SumOf(Worth(bank, gold), Player) \in Int /\ SumOf(Due(lot), B) \in Int
  BY WealthIs
<1>10. /\ Wealth' = SumOf(Worth(bank', gold'), Player) + SumOf(Due(lot'), B \ S)
       /\ SumOf(Worth(bank', gold'), Player) \in Int /\ SumOf(Due(lot'), B \ S) \in Int
  BY <1>2, WealthNext
<1> HIDE DEF B
<1> QED
  BY <1>3, <1>4, <1>5, <1>6, <1>7, <1>8, <1>9, <1>10

\* What a stake leaves is not below zero, and the lot is not paid too little.
LEMMA LeftOver ==
    ASSUME NEW b \in Nat, NEW c \in Nat, Affords(b, c), NEW rest \in Left(b, c)
    PROVE  rest \in Nat /\ rest + Refund(c) <= b
<1>1. \/ rest = b - ((11 * c + 9) \div 10)
      \/ rest = b - ((11 * c + 9) \div 10) - 1 /\ b - ((11 * c + 9) \div 10) > 0
  BY DEF Left
<1>2. (11 * c + 9) \div 10 \in Nat /\ (11 * c + 9) \div 10 <= b
  BY DEF Affords
<1> QED
  BY <1>1, <1>2, Rounding

\* What a stake does to the money: the last bidder has his back, the new one pays.
LEMMA StakePays ==
  ASSUME LotsTyped, MoneyTyped, NEW p \in Player, NEW i \in Slot, NEW c \in Bids, Stake(p, i, c)
  PROVE  \E paid \in [Player -> Nat] :
           /\ \/ paid = bank
              \/ \E q \in Player :
                   /\ lot[i].buyer # None
                   /\ paid = [bank EXCEPT ![q] = @ + Refund(lot[i].cost)]
           /\ lot[i].buyer \in Player =>
                paid = [bank EXCEPT ![lot[i].buyer] = @ + Refund(lot[i].cost)]
           /\ \E rest \in Nat : /\ bank' = [paid EXCEPT ![p] = rest]
                                /\ rest + Refund(c) <= paid[p]
<1>1. lot[i] \in Lot /\ lot[i].cost \in Nat /\ c \in Nat /\ lot[i].buyer \in Player \cup {None, Ghost}
  BY AuctionAssumption DEF Stake, LotsTyped, Valid, Lot
<1>2. Refund(lot[i].cost) \in Nat
  BY <1>1, Rounding
<1>3. PICK q \in Payees(lot[i].buyer) :
        LET paid == IF q = None THEN bank
                    ELSE [bank EXCEPT ![q] = @ + Refund(lot[i].cost)]
        IN \E rest \in Left(paid[p], c) : bank' = [paid EXCEPT ![p] = rest]
  BY DEF Stake
<1> DEFINE paid == IF q = None THEN bank ELSE [bank EXCEPT ![q] = @ + Refund(lot[i].cost)]
<1>4. PICK rest \in Left(paid[p], c) : bank' = [paid EXCEPT ![p] = rest]
  BY <1>3
<1>5. /\ q \in Player \cup {None}
      /\ q # None => lot[i].buyer # None
      /\ lot[i].buyer \in Player => q = lot[i].buyer /\ q # None
  BY <1>1, AuctionAssumption DEF Payees, InWorld
<1>6. paid \in [Player -> Nat] /\ paid[p] >= bank[p] /\ bank[p] \in Nat /\ paid[p] \in Nat
  BY <1>2, <1>5 DEF MoneyTyped
<1>7. Affords(bank[p], c)
  BY DEF Stake
<1>8. Affords(paid[p], c)
  BY <1>1, <1>6, <1>7 DEF Affords
<1>9. /\ \/ paid = bank
         \/ q \in Player /\ lot[i].buyer # None
            /\ paid = [bank EXCEPT ![q] = @ + Refund(lot[i].cost)]
      /\ lot[i].buyer \in Player =>
           paid = [bank EXCEPT ![lot[i].buyer] = @ + Refund(lot[i].cost)]
  BY <1>5
<1> HIDE DEF paid
<1>10. rest \in Nat /\ rest + Refund(c) <= paid[p]
  BY <1>1, <1>4, <1>6, <1>8, LeftOver
<1> QED
  BY <1>4, <1>6, <1>9, <1>10

\* A stake changes one lot.
LEMMA StakeLot ==
  ASSUME LotsTyped, NEW p \in Player, NEW i \in Slot, NEW c \in Bids, Stake(p, i, c)
  PROVE  /\ lot[i] \in Lot /\ c \in Nat
         /\ lot'[i].buyer = p /\ lot'[i].cost = c
         /\ \A j \in Slot : j # i => lot'[j] = lot[j]
         /\ LotsTyped' => lot'[i] \in Lot /\ BidsOn(lot') = BidsOn(lot) \cup {i}
<1>1. /\ lot \in [Slot -> Lot \cup {None}] /\ lot[i] \in Lot /\ c \in Nat
      /\ lot' = [lot EXCEPT ![i].buyer = p, ![i].cost = c, ![i].time = 0]
  BY AuctionAssumption DEF Stake, LotsTyped, Valid
<1>2. lot'[i] = [lot[i] EXCEPT !.buyer = p, !.cost = c, !.time = 0]
      /\ \A j \in Slot : j # i => lot'[j] = lot[j]
  BY <1>1
<1>3. DOMAIN lot[i] = {"obj", "sender", "buyer", "cost", "time"}
  BY <1>1 DEF Lot
<1>4. lot'[i].buyer = p /\ lot'[i].cost = c
  BY <1>2, <1>3
<1>5. lot'[i] # None
  <2>1. DOMAIN lot'[i] = {"obj", "sender", "buyer", "cost", "time"}
    BY <1>2, <1>3
  <2>2. lot'[i] \in Lot
    <3>1. lot'[i].obj = lot[i].obj /\ lot'[i].sender = lot[i].sender /\ lot'[i].time = 0
      BY <1>2, <1>3
    <3>2. lot'[i] = [k \in DOMAIN lot'[i] |-> lot'[i][k]]
      BY <1>2
    <3>3. lot'[i] = [obj |-> lot[i].obj, sender |-> lot[i].sender, buyer |-> p,
                     cost |-> c, time |-> 0]
      BY <1>4, <2>1, <3>1, <3>2
    <3>4. lot[i].obj \in Obj /\ lot[i].sender \in Player \cup {Ghost}
      BY <1>1 DEF Lot
    <3> QED
      BY <1>1, <3>3, <3>4 DEF Lot
  <2> QED
    BY <2>2, NoneIsNoLot
<1>6. ASSUME LotsTyped'
      PROVE  lot'[i] \in Lot /\ BidsOn(lot') = BidsOn(lot) \cup {i}
  <2>1. lot'[i] \in Lot
    BY <1>5, <1>6 DEF LotsTyped
  <2>2. p # None
    BY AuctionAssumption
  <2> QED
    BY <1>2, <1>4, <1>5, <2>1, <2>2 DEF BidsOn
<1> QED
  BY <1>1, <1>2, <1>4, <1>6

LEMMA StakeWealth ==
  ASSUME LotsTyped, MoneyTyped, LotsTyped', MoneyTyped',
         NEW p \in Player, NEW i \in Slot, NEW c \in Bids, Stake(p, i, c)
  PROVE  Wealth' <= Wealth
<1>1. PICK paid \in [Player -> Nat] :
        /\ \/ paid = bank
           \/ \E q \in Player : /\ lot[i].buyer # None
                                /\ paid = [bank EXCEPT ![q] = @ + Refund(lot[i].cost)]
        /\ \E rest \in Nat : /\ bank' = [paid EXCEPT ![p] = rest]
                             /\ rest + Refund(c) <= paid[p]
  BY StakePays
<1>2. /\ lot[i] \in Lot /\ c \in Nat
      /\ lot'[i].cost = c /\ lot'[i] \in Lot
      /\ \A j \in Slot : j # i => lot'[j] = lot[j]
      /\ BidsOn(lot') = BidsOn(lot) \cup {i}
  BY StakeLot
<1>3. Refund(c) \in Nat /\ Refund(lot[i].cost) \in Nat
  BY <1>2, Rounding DEF Lot
<1> DEFINE B    == BidsOn(lot)
           was  == Worth(bank, gold)
           mid  == Worth(paid, gold)
           now  == Worth(bank', gold)
           owed == IF i \in B THEN Refund(lot[i].cost) ELSE 0
<1>4. gold' = gold /\ IsFiniteSet(Player)
  BY AuctionAssumption DEF Stake
<1>5. \A x \in Player : was[x] \in Int /\ mid[x] \in Int /\ now[x] \in Int
  BY WorthInt DEF MoneyTyped
<1>6. SumOf(was, Player) \in Int /\ SumOf(mid, Player) \in Int /\ SumOf(now, Player) \in Int
  <2> HIDE DEF was, mid, now
  <2> QED
    BY <1>4, <1>5, TotalInt
<1>7. SumOf(mid, Player) <= SumOf(was, Player) + owed
  <2>1. CASE paid = bank
    BY <2>1, <1>3, <1>6
  <2>2. CASE \E q \in Player : /\ lot[i].buyer # None
                               /\ paid = [bank EXCEPT ![q] = @ + Refund(lot[i].cost)]
    <3>1. PICK q \in Player : /\ lot[i].buyer # None
                              /\ paid = [bank EXCEPT ![q] = @ + Refund(lot[i].cost)]
      BY <2>2
    <3>2. i \in B
      BY <3>1, <1>2, NoneIsNoLot DEF BidsOn
    <3>3. /\ mid[q] = was[q] + Refund(lot[i].cost)
          /\ \A x \in Player : x # q => mid[x] = was[x]
      BY <3>1, <1>3 DEF Worth, MoneyTyped
    <3> HIDE DEF was, mid
    <3>4. SumOf(mid, Player) = SumOf(was, Player) + mid[q] - was[q]
      BY <1>4, <1>5, <3>3, TotalChange
    <3> QED
      BY <1>3, <1>5, <1>6, <3>2, <3>3, <3>4
  <2> QED
    BY <1>1, <2>1, <2>2
<1>8. SumOf(now, Player) + Refund(c) <= SumOf(mid, Player)
  <2>1. now[p] + Refund(c) <= mid[p] /\ \A x \in Player : x # p => now[x] = mid[x]
    BY <1>1, <1>3 DEF Worth, MoneyTyped
  <2> HIDE DEF mid, now
  <2>2. SumOf(now, Player) = SumOf(mid, Player) + now[p] - mid[p]
    BY <1>4, <1>5, <2>1, TotalChange
  <2> QED
    BY <1>3, <1>5, <1>6, <2>1, <2>2
<1>9. B \subseteq Slot /\ B \ {i} \subseteq Slot /\ (\A j \in B : lot[j] \in Lot)
      /\ IsFiniteSet(B) /\ IsFiniteSet(B \ {i}) /\ IsFiniteSet(B \cup {i})
  <2>1. B \subseteq Slot /\ B \ {i} \subseteq Slot /\ B \cup {i} \subseteq Slot
        /\ (\A j \in B : lot[j] \in Lot)
    BY DEF BidsOn, LotsTyped
  <2> QED
    BY <2>1, SlotsFinite
<1> DEFINE rest == SumOf(Due(lot), B \ {i})
<1>10. SumOf(Due(lot), B) = rest + owed /\ rest \in Int
  <2> HIDE DEF B
  <2>1. \A j \in B : Due(lot)[j] \in Nat /\ Due(lot)[j] = Refund(lot[j].cost)
    BY <1>9, DueNat
  <2>2. CASE i \in B
    <3>1. /\ SumOf(Due(lot), B) = Due(lot)[i] + SumOf(Due(lot), B \ {i})
          /\ SumOf(Due(lot), B \ {i}) \in Int
      BY <1>9, <2>1, <2>2, TotalOne
    <3> QED
      BY <2>1, <2>2, <3>1
  <2>3. CASE i \notin B
    <3>1. B \ {i} = B
      BY <2>3
    <3>2. SumOf(Due(lot), B) \in Int
      BY <1>9, <2>1, TotalInt
    <3> QED
      BY <2>3, <3>1, <3>2
  <2> QED
    BY <2>2, <2>3
<1>11. SumOf(Due(lot'), B \cup {i}) = rest + Refund(c)
  <2> HIDE DEF B
  <2>1. B \cup {i} \subseteq Slot /\ \A j \in B \cup {i} : lot'[j] \in Lot
    BY <1>2, <1>9
  <2>2. \A j \in B \cup {i} : Due(lot')[j] \in Nat /\ Due(lot')[j] = Refund(lot'[j].cost)
    <3> DEFINE T == B \cup {i}
    <3>1. T \subseteq Slot /\ \A j \in T : lot'[j] \in Lot
      BY <2>1
    <3> HIDE DEF T
    <3>2. \A j \in T : Due(lot')[j] \in Nat /\ Due(lot')[j] = Refund(lot'[j].cost)
      BY <3>1, DueNat
    <3> QED
      BY <3>2 DEF T
  <2>3. SumOf(Due(lot'), B \cup {i}) = Due(lot')[i] + SumOf(Due(lot'), (B \cup {i}) \ {i})
    <3> DEFINE T == B \cup {i}
    <3>1. i \in T /\ IsFiniteSet(T) /\ \A j \in T : Due(lot')[j] \in Int
      BY <1>9, <2>2
    <3> HIDE DEF T
    <3>2. SumOf(Due(lot'), T) = Due(lot')[i] + SumOf(Due(lot'), T \ {i})
      BY <3>1, TotalOne
    <3> QED
      BY <3>2 DEF T
  <2>4. (B \cup {i}) \ {i} = B \ {i}
    OBVIOUS
  <2>5. SumOf(Due(lot'), B \ {i}) = SumOf(Due(lot), B \ {i})
    <3>1. \A j \in B \ {i} : lot[j] \in Lot /\ lot'[j].cost = lot[j].cost
      BY <1>2, <1>9
    <3> QED
      BY <1>9, <3>1, DueSame
  <2>6. Due(lot')[i] = Refund(c)
    BY <1>2, <2>2
  <2>7. SumOf(Due(lot'), (B \cup {i}) \ {i}) = rest
    BY <2>4, <2>5
  <2> QED
    BY <1>3, <1>10, <2>3, <2>6, <2>7
<1>12. Wealth = SumOf(was, Player) + SumOf(Due(lot), B)
  BY WealthIs
<1>13. Wealth' = SumOf(now, Player) + SumOf(Due(lot'), B \cup {i})
  BY <1>2, <1>4, WealthNext
<1>14. owed \in Nat
  BY <1>3
<1> HIDE DEF B, was, mid, now, owed, rest
<1> QED
  BY <1>3, <1>6, <1>7, <1>8, <1>10, <1>11, <1>12, <1>13, <1>14

\* A call leaves the lots that go on with their stakes.
LEMMA UpdateLots ==
  ASSUME LotsTyped, AuctionUpdate
  PROVE  /\ BidsOn(lot') = BidsOn(lot) \ {i \in Slot : LastCall(i)}
         /\ \A i \in BidsOn(lot') : lot'[i].cost = lot[i].cost /\ lot'[i].buyer = lot[i].buyer
<1>1. lot' = [i \in Slot |-> IF ~Valid(i) \/ i \in {j \in Slot : LastCall(j)} THEN None
                             ELSE CalledOnce(i)]
  BY DEF AuctionUpdate
<1>2. ASSUME NEW i \in Slot, Valid(i), ~LastCall(i)
      PROVE  /\ lot'[i] # None
             /\ lot'[i].cost = lot[i].cost /\ lot'[i].buyer = lot[i].buyer
  <2>1. lot[i] \in Lot /\ lot[i].time \in 0..3 /\ lot[i].time # 3
    BY <1>2 DEF LotsTyped, Valid, LastCall, Lot
  <2>2. CalledOnce(i) \in Lot
    BY <2>1 DEF CalledOnce, Lot
  <2>3. lot'[i] = CalledOnce(i)
    BY <1>1, <1>2
  <2>. QED  BY <2>1, <2>2, <2>3, NoneIsNoLot DEF CalledOnce, Lot
<1>3. \A i \in Slot : ~Valid(i) \/ LastCall(i) => lot'[i] = None
  BY <1>1
<1>. QED  BY <1>2, <1>3 DEF BidsOn, Valid

\* What the sellers get is no more than the bidders have paid.
LEMMA UpdateGold ==
  ASSUME LotsTyped, MoneyTyped, AuctionUpdate
  PROVE  \E got \in [Player -> Nat] :
           /\ gold' = [p \in Player |-> gold[p] + got[p]]
           /\ SumOf(got, Player) <= SumOf(Due(lot), BidsOn(lot) \cap {i \in Slot : LastCall(i)})
<1> DEFINE sold == BidsOn(lot) \cap {i \in Slot : LastCall(i)}
<1>1. {i \in {j \in Slot : LastCall(j)} : HasBid(i)} = sold
  BY DEF BidsOn, HasBid
<1> DEFINE ends == {i \in {j \in Slot : LastCall(j)} : HasBid(i)}
<1>a. \E payee \in [ends -> Player \cup {None}] :
        gold' = [p \in Player |->
                   gold[p] + MapThenSumSet(LAMBDA i : Proceeds(lot[i].cost),
                                           {i \in ends : payee[i] = p})]
  BY Zenon DEF AuctionUpdate
<1>b. ends = sold
  BY <1>1
<1> HIDE DEF ends, sold
<1>2. PICK payee \in [sold -> Player \cup {None}] :
        gold' = [p \in Player |->
                   gold[p] + MapThenSumSet(LAMBDA i : Proceeds(lot[i].cost),
                                           {i \in sold : payee[i] = p})]
  BY <1>a, <1>b, Zenon
<1> USE DEF sold
<1> DEFINE T(p) == {i \in sold : payee[i] = p}
           paid == {i \in sold : payee[i] \in Player}
           got  == [p \in Player |-> SumOf(Price(lot), T(p))]
<1>3. sold \subseteq Slot /\ \A i \in sold : lot[i] \in Lot
  BY DEF BidsOn, LotsTyped
<1>4. /\ \A p : T(p) \subseteq sold
      /\ paid \subseteq sold
  OBVIOUS
<1>5. \A p : Givers(sold, payee, {p}) = T(p)
  BY DEF Givers
<1>6. Givers(sold, payee, Player) = paid
  BY DEF Givers
<1>0. gold' = [p \in Player |->
                 gold[p] + MapThenSumSet(LAMBDA i : Proceeds(lot[i].cost), T(p))]
  BY <1>2
<1> HIDE DEF sold, T, paid
<1>7. ASSUME NEW p \in Player
      PROVE  /\ MapThenSumSet(LAMBDA i : Proceeds(lot[i].cost), T(p)) = SumOf(Price(lot), T(p))
             /\ SumOf(Price(lot), T(p)) \in Nat
  <2>1. T(p) \subseteq Slot /\ \A i \in T(p) : lot[i] \in Lot
    BY <1>3, <1>4
  <2>. QED  BY <2>1, PriceIs, DueNat
<1>8. got \in [Player -> Nat] /\ gold' = [p \in Player |-> gold[p] + got[p]]
  <2>1. got \in [Player -> Nat]
    BY <1>7
  <2>2. gold' = [p \in Player |-> gold[p] + SumOf(Price(lot), T(p))]
    BY <1>0, <1>7, Zenon
  <2>. QED  BY <2>1, <2>2
<1>9. Shares(sold, Price(lot), payee, Player, got)
  BY <1>5 DEF Shares
<1>10. /\ IsFiniteSet(sold) /\ IsFiniteSet(Player) /\ IsFiniteSet(paid)
       /\ IsFiniteSet(sold \ paid) /\ sold = paid \cup (sold \ paid)
  BY <1>3, <1>4, SlotsFinite, AuctionAssumption
<1>11. \A i \in sold : Price(lot)[i] \in Nat /\ Price(lot)[i] \in Int
  <2>1. \A i \in sold : Price(lot)[i] \in Nat
    BY <1>3, DueNat
  <2>. QED  BY <2>1
<1> HIDE DEF got
<1>12. SumOf(got, Player) = SumOf(Price(lot), paid)
  BY <1>6, <1>9, <1>10, <1>11, TotalShared
<1>13. SumOf(Price(lot), paid) <= SumOf(Price(lot), sold)
  <2>1. SumOf(Price(lot), sold) = SumOf(Price(lot), paid) + SumOf(Price(lot), sold \ paid)
    BY <1>4, <1>10, <1>11, TotalSplit
  <2>2. SumOf(Price(lot), paid) \in Nat /\ SumOf(Price(lot), sold \ paid) \in Nat
    BY <1>4, <1>10, <1>11, TotalNat
  <2>. QED  BY <2>1, <2>2
<1>14. /\ SumOf(Price(lot), sold) <= SumOf(Due(lot), sold)
       /\ SumOf(Price(lot), sold) \in Nat /\ SumOf(Due(lot), sold) \in Nat
       /\ SumOf(Price(lot), paid) \in Nat
  BY <1>3, <1>4, <1>10, <1>11, DueNat, TotalNat
<1>15. SumOf(got, Player) <= SumOf(Due(lot), sold)
  BY <1>12, <1>13, <1>14
<1>. QED  BY <1>8, <1>15 DEF sold

LEMMA UpdateWealth ==
  ASSUME LotsTyped, MoneyTyped, LotsTyped', MoneyTyped', AuctionUpdate
  PROVE  Wealth' <= Wealth
<1> DEFINE B    == BidsOn(lot)
           over == {i \in Slot : LastCall(i)}
<1>1. PICK got \in [Player -> Nat] :
        /\ gold' = [p \in Player |-> gold[p] + got[p]]
        /\ SumOf(got, Player) <= SumOf(Due(lot), B \cap over)
  BY UpdateGold
<1>2. bank' = bank /\ IsFiniteSet(Player)
  BY AuctionAssumption DEF AuctionUpdate
<1>3. /\ BidsOn(lot') = B \ over
      /\ \A i \in B \ over : lot'[i].cost = lot[i].cost
  BY UpdateLots
<1>4. B \subseteq Slot /\ \A i \in B : lot[i] \in Lot
  BY DEF BidsOn, LotsTyped
<1> HIDE DEF B, over
<1>5. /\ B \cap over \subseteq Slot /\ \A i \in B \cap over : lot[i] \in Lot
      /\ B \ over \subseteq Slot /\ \A i \in B \ over : lot[i] \in Lot
  BY <1>4
<1>6. IsFiniteSet(B \cap over) /\ IsFiniteSet(B \ over)
  BY <1>5, SlotsFinite
<1>7. SumOf(Due(lot), B \cap over) \in Nat /\ SumOf(Due(lot), B \ over) \in Nat
  BY <1>5, DueNat
<1>8. SumOf(Due(lot), B) = SumOf(Due(lot), B \cap over) + SumOf(Due(lot), B \ over)
  <2>1. (B \cap over) \cap (B \ over) = {} /\ B = (B \cap over) \cup (B \ over)
    OBVIOUS
  <2>2. \A i \in (B \cap over) \cup (B \ over) : Due(lot)[i] \in Int
    <3>1. \A i \in B : Due(lot)[i] \in Nat
      BY <1>4, DueNat
    <3>. QED  BY <3>1
  <2>3. SumOf(Due(lot), (B \cap over) \cup (B \ over))
          = SumOf(Due(lot), B \cap over) + SumOf(Due(lot), B \ over)
    BY <1>6, <2>1, <2>2, TotalSplit
  <2>. QED  BY <2>1, <2>3
<1>9. SumOf(Due(lot'), B \ over) = SumOf(Due(lot), B \ over)
  BY <1>3, <1>5, DueSame
<1>10. SumOf(Worth(bank', gold'), Player) = SumOf(Worth(bank, gold), Player) + SumOf(got, Player)
  <2>1. \A p \in Player : /\ Worth(bank, gold)[p] \in Int /\ got[p] \in Int
                          /\ Worth(bank', gold')[p] = Worth(bank, gold)[p] + got[p]
    BY <1>1, <1>2 DEF Worth, MoneyTyped
  <2>. QED  BY <1>2, <2>1, TotalAdds
<1>11. SumOf(got, Player) \in Int
  <2>1. \A p \in Player : got[p] \in Int
    OBVIOUS
  <2>. QED  BY <1>2, <2>1, TotalInt
<1>12. /\ Wealth = SumOf(Worth(bank, gold), Player) + SumOf(Due(lot), B)
       /\ SumOf(Worth(bank, gold), Player) \in Int
  BY WealthIs DEF B
<1>13. Wealth' = SumOf(Worth(bank', gold'), Player) + SumOf(Due(lot'), B \ over)
  BY <1>3, WealthNext
<1>. QED  BY <1>1, <1>7, <1>8, <1>9, <1>10, <1>11, <1>12, <1>13

-----------------------------------------------------------------------------
LEMMA MaxOfTwo ==
    ASSUME NEW a \in Nat, NEW b \in Nat
    PROVE  Max({a, b}) \in {a, b} /\ Max({a, b}) >= a /\ Max({a, b}) >= b
<1>1. \E x \in {a, b} : \A y \in {a, b} : x >= y
  OBVIOUS
<1>. QED  BY <1>1 DEF Max

\* Lots that are struck off owe nothing, the others what they did.
LEMMA StrikeOffBids ==
  ASSUME NEW S \in SUBSET Slot, lot' = [i \in Slot |-> IF i \in S THEN None ELSE lot[i]]
  PROVE  /\ BidsOn(lot') = BidsOn(lot) \ S
         /\ \A i \in Slot \ S : lot'[i] = lot[i]
         /\ \A i \in BidsOn(lot') : lot'[i].cost = lot[i].cost
  BY DEF BidsOn

\* What a purge strikes off owes nothing, nor does it change what the others owe.
LEMMA PurgeBids ==
  ASSUME LotsTyped, NEW p \in Player, Purge(p)
  PROVE  /\ BidsOn(lot') = BidsOn(lot) \ Carried(p)
         /\ \A i \in BidsOn(lot') : /\ lot'[i].cost = lot[i].cost
                                    /\ lot'[i].buyer \in {lot[i].buyer, Ghost}
<1>1. /\ \A i \in Slot : Valid(i)' => i \notin Carried(p) /\ Valid(i)
      /\ \A i \in Slot : Valid(i) /\ i \notin Carried(p) =>
           Valid(i)' /\ lot'[i].cost = lot[i].cost /\ lot'[i].buyer = Freed(p, lot[i].buyer)
  BY PurgedLots
<1>2. \A b : Freed(p, b) \in {b, Ghost} /\ (Freed(p, b) # None <=> b # None)
  BY AuctionAssumption DEF Freed
<1>. QED  BY <1>1, <1>2 DEF BidsOn, Valid

\* Whoever gives stakes back keeps the accounts typed.
LEMMA StrikeOffMoney ==
  ASSUME LotInv, MoneyTyped, NEW S \in SUBSET Slot, \A i \in S : Valid(i), StrikeOff(S)
  PROVE  bank' \in [Player -> Nat]
  BY PayBackGives DEF StrikeOff, LotInv

\* Nobody comes to owe anything.
LEMMA TradeMoney ==
  ASSUME LotInv, MoneyTyped, NEW p \in Player, Trade(p)
  PROVE  MoneyTyped'
<1>1. ASSUME NEW o \in Obj, NEW c \in Starts, Put(p, o, c)  PROVE MoneyTyped'
  BY <1>1 DEF Put, MoneyTyped
<1>2. ASSUME NEW i \in Slot, NEW c \in Bids, Stake(p, i, c)  PROVE MoneyTyped'
  <2>1. PICK paid \in [Player -> Nat] :
          \E rest \in Nat : bank' = [paid EXCEPT ![p] = rest]
    BY <1>2, StakePays DEF LotInv
  <2>2. gold' = gold
    BY <1>2 DEF Stake
  <2>. QED  BY <2>1, <2>2 DEF MoneyTyped
<1>3. ASSUME NEW i \in Slot, Struck(p, i)  PROVE MoneyTyped'
  <2>1. /\ Valid(i) /\ StrikeOff({i})
        /\ gold[p] >= Max({1, lot[i].cost \div 3})
        /\ gold' = [gold EXCEPT ![p] = @ - Max({1, lot[i].cost \div 3})]
    BY <1>3 DEF Struck
  <2>2. lot[i].cost \div 3 \in Nat
    BY <2>1 DEF LotInv, LotsTyped, Valid, Lot
  <2>3. Max({1, lot[i].cost \div 3}) \in Nat
    BY <2>2, MaxOfTwo
  <2>4. gold' \in [Player -> Nat]
    BY <2>1, <2>3 DEF MoneyTyped
  <2>5. bank' \in [Player -> Nat]
    BY <2>1, StrikeOffMoney
  <2>. QED  BY <2>4, <2>5 DEF MoneyTyped
<1>4. ASSUME NEW i \in Slot, Identify(p, i)  PROVE MoneyTyped'
  BY <1>4, AuctionAssumption DEF Identify, MoneyTyped
<1>5. ASSUME NEW s \in Sums, Deposit(p, s)  PROVE MoneyTyped'
  BY <1>5, AuctionAssumption DEF Deposit, MoneyTyped
<1>6. ASSUME NEW s \in Sums, Withdraw(p, s)  PROVE MoneyTyped'
  <2>1. /\ s \in Nat /\ s >= 2 /\ s <= bank[p]
        /\ bank' = [bank EXCEPT ![p] = @ - s]
        /\ gold' = [gold EXCEPT ![p] = @ + s - Max({1, s \div 10})]
    BY <1>6, AuctionAssumption DEF Withdraw
  <2>2. s \div 10 \in Nat /\ s \div 10 <= s
    BY <2>1
  <2>3. Max({1, s \div 10}) \in Nat /\ Max({1, s \div 10}) <= s
    BY <2>1, <2>2, MaxOfTwo
  <2>. QED  BY <2>1, <2>3 DEF MoneyTyped
<1>. QED  BY <1>1, <1>2, <1>3, <1>4, <1>5, <1>6 DEF Trade

LEMMA LifeMoney ==
  ASSUME LotInv, MoneyTyped, NEW p \in Player, Life(p)
  PROVE  MoneyTyped'
<1>1. Carried(p) \in SUBSET Slot /\ \A i \in Carried(p) : Valid(i)
  BY DEF Carried
<1>2. ASSUME NEW o \in Obj, Drop(p, o) \/ Get(p, o) \/ SetTrap(p, o) \/ Disarmed(p, o)
      PROVE  MoneyTyped'
  BY <1>2 DEF Drop, Get, SetTrap, Disarmed, MoneyTyped
<1>3. ASSUME NEW o \in Obj, NEW q \in Player, Give(p, q, o)  PROVE MoneyTyped'
  BY <1>3 DEF Give, MoneyTyped
<1>4. CASE Enter(p) \/ LinkBack(p)
  BY <1>4 DEF Enter, LinkBack, MoneyTyped
<1>8. CASE Quit(p)
  <2>1. bank' \in [Player -> Nat]
    BY <1>1, <1>8, StrikeOffMoney DEF Quit
  <2>. QED  BY <1>8, <2>1 DEF Quit, MoneyTyped
<1>5. CASE LinkLost(p)
  <2>1. bank' \in [Player -> Nat]
    BY <1>5, StrikesLots, StrikeOffMoney DEF LinkLost
  <2>. QED  BY <1>5, <2>1 DEF LinkLost, MoneyTyped
<1>6. CASE Die(p)
  <2>1. bank' \in [Player -> Nat]
    BY <1>6, StrikesLots, StrikeOffMoney DEF Die
  <2>. QED  BY <1>6, <2>1 DEF Die, MoneyTyped
<1>7. CASE Purge(p)
  <2>1. bank' \in [Player -> Nat]
    BY <1>1, <1>7, PayBackGives DEF Purge, LotInv
  <2>. QED  BY <1>7, <2>1 DEF Purge, MoneyTyped
<1>. QED  BY <1>2, <1>3, <1>4, <1>5, <1>6, <1>7, <1>8 DEF Life

LEMMA NextMoney == LotInv /\ MoneyTyped /\ [Next]_vars => MoneyTyped'
<1> SUFFICES ASSUME LotInv, MoneyTyped, [Next]_vars
             PROVE  MoneyTyped'
  OBVIOUS
<1>1. ASSUME NEW p \in Player, Trade(p) \/ Life(p)  PROVE MoneyTyped'
  BY <1>1, TradeMoney, LifeMoney
<1>2. ASSUME NEW o \in Obj, Destroy(o)  PROVE MoneyTyped'
  <2>1. LotsFor(o) \in SUBSET Slot /\ \A i \in LotsFor(o) : Valid(i)
    BY DEF LotsFor
  <2>2. bank' \in [Player -> Nat]
    BY <1>2, <2>1, StrikeOffMoney DEF Destroy
  <2>. QED  BY <1>2, <2>2 DEF Destroy, MoneyTyped
<1>3. CASE AuctionUpdate
  <2>1. PICK got \in [Player -> Nat] : gold' = [p \in Player |-> gold[p] + got[p]]
    BY <1>3, UpdateGold DEF LotInv
  <2>2. bank' = bank
    BY <1>3 DEF AuctionUpdate
  <2>. QED  BY <2>1, <2>2 DEF MoneyTyped
<1>4. CASE UNCHANGED vars
  BY <1>4 DEF vars, MoneyTyped
<1>5. CASE LoginLost
  <2>1. PICK S \in SUBSET LotsOf(Ghost) : StrikeOff(S)
    BY <1>5 DEF LoginLost
  <2>2. S \in SUBSET Slot /\ \A i \in S : Valid(i)
    BY DEF LotsOf
  <2>. QED  BY <1>5, <2>1, <2>2, StrikeOffMoney DEF LoginLost, MoneyTyped
<1>. QED  BY <1>1, <1>2, <1>3, <1>4, <1>5 DEF Next
-----------------------------------------------------------------------------
\* No command makes money.
LEMMA TradeWealth ==
  ASSUME LotInv, MoneyTyped, LotInv', MoneyTyped', NEW p \in Player, Trade(p)
  PROVE  Wealth' <= Wealth
<1>1. LotsTyped /\ LotsTyped'
  BY DEF LotInv
<1>2. ASSUME NEW o \in Obj, NEW c \in Starts, Put(p, o, c)  PROVE Wealth' <= Wealth
  <2>1. PICK i \in Slot :
          /\ ~Valid(i)
          /\ lot' = [lot EXCEPT ![i] = [obj |-> o, sender |-> p, buyer |-> None,
                                        cost |-> c, time |-> 0]]
    BY <1>2 DEF Put
  <2>2. lot'[i].buyer = None /\ \A j \in Slot : j # i => lot'[j] = lot[j]
    BY <1>1, <2>1 DEF LotsTyped
  <2>3. /\ BidsOn(lot') = BidsOn(lot)
        /\ \A j \in BidsOn(lot) : lot'[j].cost = lot[j].cost
    BY <2>1, <2>2 DEF BidsOn, Valid
  <2>4. \A q \in Player : bank'[q] + gold'[q] <= bank[q] + gold[q]
    BY <1>2 DEF Put, MoneyTyped
  <2>. QED  BY <1>1, <2>3, <2>4, CalmWealth
<1>3. ASSUME NEW i \in Slot, NEW c \in Bids, Stake(p, i, c)  PROVE Wealth' <= Wealth
  BY <1>1, <1>3, StakeWealth
<1>4. ASSUME NEW i \in Slot, Struck(p, i)  PROVE Wealth' <= Wealth
  <2>1. /\ Valid(i) /\ StrikeOff({i})
        /\ gold' = [gold EXCEPT ![p] = @ - Max({1, lot[i].cost \div 3})]
    BY <1>4 DEF Struck
  <2>2. lot[i].cost \div 3 \in Nat
    BY <1>1, <2>1 DEF LotsTyped, Valid, Lot
  <2>3. Max({1, lot[i].cost \div 3}) \in Nat
    BY <2>2, MaxOfTwo
  <2>4. \A q \in Player : gold'[q] <= gold[q]
    BY <2>1, <2>3 DEF MoneyTyped
  <2>5. /\ PayBack({i}, {})
        /\ lot' = [j \in Slot |-> IF j \in {i} THEN None ELSE lot[j]]
    BY <2>1 DEF StrikeOff
  <2>6. /\ BidsOn(lot') = BidsOn(lot) \ {i}
        /\ \A j \in BidsOn(lot') : lot'[j].cost = lot[j].cost
    BY <2>5, StrikeOffBids
  <2>. QED  BY <1>1, <2>1, <2>4, <2>5, <2>6, StruckWealth
<1>5. ASSUME lot' = lot, \A q \in Player : bank'[q] + gold'[q] <= bank[q] + gold[q]
      PROVE  Wealth' <= Wealth
  BY <1>1, <1>5, CalmWealth
<1>6. ASSUME NEW i \in Slot, Identify(p, i)  PROVE Wealth' <= Wealth
  BY <1>5, <1>6, AuctionAssumption DEF Identify, MoneyTyped
<1>7. ASSUME NEW s \in Sums, Deposit(p, s)  PROVE Wealth' <= Wealth
  BY <1>5, <1>7, AuctionAssumption DEF Deposit, MoneyTyped
<1>8. ASSUME NEW s \in Sums, Withdraw(p, s)  PROVE Wealth' <= Wealth
  <2>1. /\ s \in Nat /\ lot' = lot
        /\ bank' = [bank EXCEPT ![p] = @ - s]
        /\ gold' = [gold EXCEPT ![p] = @ + s - Max({1, s \div 10})]
    BY <1>8, AuctionAssumption DEF Withdraw
  <2>2. s \div 10 \in Nat
    BY <2>1
  <2>3. Max({1, s \div 10}) \in Nat
    BY <2>2, MaxOfTwo
  <2>4. \A q \in Player : bank'[q] + gold'[q] <= bank[q] + gold[q]
    BY <2>1, <2>3 DEF MoneyTyped
  <2>. QED  BY <1>5, <2>1, <2>4
<1>. QED  BY <1>2, <1>3, <1>4, <1>6, <1>7, <1>8 DEF Trade

\* Striking lots off makes no money.
LEMMA StrikeOffWealth ==
  ASSUME LotsTyped, MoneyTyped, LotsTyped', MoneyTyped',
         NEW T \in SUBSET Slot, \A i \in T : Valid(i), StrikeOff(T),
         \A q \in Player : gold'[q] <= gold[q]
  PROVE  Wealth' <= Wealth
<1>1. PayBack(T, {}) /\ lot' = [j \in Slot |-> IF j \in T THEN None ELSE lot[j]]
  BY DEF StrikeOff
<1>2. /\ BidsOn(lot') = BidsOn(lot) \ T
      /\ \A j \in BidsOn(lot') : lot'[j].cost = lot[j].cost
  BY <1>1, StrikeOffBids
<1>. QED  BY <1>1, <1>2, StruckWealth

\* Nothing that happens to players makes money.
LEMMA LifeWealth ==
  ASSUME LotInv, MoneyTyped, LotInv', MoneyTyped', NEW p \in Player, Life(p)
  PROVE  UNCHANGED <<bank, gold, lot>> \/ Wealth' <= Wealth
<1>1. LotsTyped /\ LotsTyped'
  BY DEF LotInv
<1>2. Carried(p) \in SUBSET Slot /\ \A i \in Carried(p) : Valid(i)
  BY DEF Carried
<1>3. ASSUME NEW T \in SUBSET Slot, \A i \in T : Valid(i), StrikeOff(T),
             \A q \in Player : gold'[q] <= gold[q]
      PROVE  Wealth' <= Wealth
  BY <1>1, <1>3, StrikeOffWealth
<1>4. ASSUME NEW o \in Obj, Drop(p, o) \/ Get(p, o) \/ SetTrap(p, o) \/ Disarmed(p, o)
      PROVE  UNCHANGED <<bank, gold, lot>>
  BY <1>4 DEF Drop, Get, SetTrap, Disarmed
<1>5. ASSUME NEW o \in Obj, NEW q \in Player, Give(p, q, o)
      PROVE  UNCHANGED <<bank, gold, lot>>
  BY <1>5 DEF Give
<1>6. CASE Enter(p) \/ LinkBack(p)
  BY <1>6 DEF Enter, LinkBack
<1>10. CASE Quit(p)
  <2>1. \A q \in Player : gold'[q] <= gold[q]
    BY <1>10 DEF Quit, MoneyTyped
  <2>. QED  BY <1>2, <1>3, <1>10, <2>1 DEF Quit
<1>7. CASE LinkLost(p)
  <2>1. \A q \in Player : gold'[q] <= gold[q]
    BY <1>7 DEF LinkLost, MoneyTyped
  <2>2. PICK T \in SUBSET Slot : (\A i \in T : Valid(i)) /\ StrikeOff(T)
    BY <1>7, StrikesLots DEF LinkLost
  <2>. QED  BY <1>3, <2>1, <2>2
<1>8. CASE Die(p)
  <2>1. gold' = [gold EXCEPT ![p] = 0] \/ gold' = gold
    BY <1>8 DEF Die
  <2>2. \A q \in Player : gold'[q] <= gold[q]
    BY <2>1 DEF MoneyTyped
  <2>3. PICK T \in SUBSET Slot : (\A i \in T : Valid(i)) /\ StrikeOff(T)
    BY <1>8, StrikesLots DEF Die
  <2>. QED  BY <1>3, <2>2, <2>3
<1>9. CASE Purge(p)
  <2>1. /\ BidsOn(lot') = BidsOn(lot) \ Carried(p)
        /\ \A j \in BidsOn(lot') : lot'[j].cost = lot[j].cost
    BY <1>1, <1>9, PurgeBids
  <2>0. PayBack(Carried(p), {p}) /\ gold' = gold
    BY <1>9, Zenon DEF Purge
  <2>2. \A q \in Player : gold'[q] <= gold[q]
    BY <2>0 DEF MoneyTyped
  <2> DEFINE saved == {p}
  <2>3. PayBack(Carried(p), saved) /\ saved \in SUBSET Player
    BY <2>0
  <2> HIDE DEF saved
  <2>. QED  BY <1>1, <1>2, <2>1, <2>2, <2>3, StruckWealth
<1>. QED  BY <1>4, <1>5, <1>6, <1>7, <1>8, <1>9, <1>10 DEF Life

LEMMA NextWealth ==
  LotInv /\ MoneyTyped /\ LotInv' /\ MoneyTyped' /\ Next
    => UNCHANGED <<bank, gold, lot>> \/ Wealth' <= Wealth
<1> SUFFICES ASSUME LotInv, MoneyTyped, LotInv', MoneyTyped', Next
             PROVE  UNCHANGED <<bank, gold, lot>> \/ Wealth' <= Wealth
  OBVIOUS
<1>1. ASSUME NEW p \in Player, Trade(p) \/ Life(p)
      PROVE  UNCHANGED <<bank, gold, lot>> \/ Wealth' <= Wealth
  BY <1>1, TradeWealth, LifeWealth
<1>2. ASSUME NEW o \in Obj, Destroy(o)  PROVE Wealth' <= Wealth
  <2>1. LotsFor(o) \in SUBSET Slot /\ \A i \in LotsFor(o) : Valid(i)
    BY DEF LotsFor
  <2>2. StrikeOff(LotsFor(o)) /\ \A q \in Player : gold'[q] <= gold[q]
    BY <1>2 DEF Destroy, MoneyTyped
  <2>. QED  BY <2>1, <2>2, StrikeOffWealth DEF LotInv
<1>3. CASE AuctionUpdate
  BY <1>3, UpdateWealth DEF LotInv
<1>4. CASE LoginLost
  <2>1. PICK S \in SUBSET LotsOf(Ghost) : StrikeOff(S)
    BY <1>4 DEF LoginLost
  <2>2. S \in SUBSET Slot /\ \A i \in S : Valid(i)
    BY DEF LotsOf
  <2>3. \A q \in Player : gold'[q] <= gold[q]
    BY <1>4 DEF LoginLost, MoneyTyped
  <2>. QED  BY <2>1, <2>2, <2>3, StrikeOffWealth DEF LotInv
<1>. QED  BY <1>1, <1>2, <1>3, <1>4 DEF Next

-----------------------------------------------------------------------------
\* What StakeAnswered says of one step.
Answered(i) ==
    (HasBid(i) /\ lot[i].buyer # Ghost) =>
       \/ lot'[i] # None /\ lot'[i].buyer \in {lot[i].buyer, Ghost}
       \/ bank'[lot[i].buyer] >= bank[lot[i].buyer] + Refund(lot[i].cost)
       \/ Purge(lot[i].buyer) /\ owner[lot[i].obj] = lot[i].buyer
       \/ AuctionUpdate /\ LastCall(i)

LEMMA SameAnswered ==
  ASSUME NEW i \in Slot, lot'[i] = lot[i]
  PROVE  Answered(i)
  BY DEF Answered, HasBid

\* A lot that is struck off gives its stake back.
LEMMA StruckAnswered ==
  ASSUME LotInv, MoneyTyped, NEW S \in SUBSET Slot, \A i \in S : Valid(i),
         NEW saved \in SUBSET Player, PayBack(S, saved), NEW i \in S, lot[i].buyer \notin saved
  PROVE  Answered(i)
<1> SUFFICES ASSUME HasBid(i), lot[i].buyer # Ghost
             PROVE  bank'[lot[i].buyer] >= bank[lot[i].buyer] + Refund(lot[i].cost)
  BY DEF Answered
<1>1. LotsTyped /\ lot[i] \in Lot
  BY DEF LotInv, LotsTyped, Valid
<1>2. lot[i].buyer \in Player
  BY <1>1 DEF HasBid, Lot
<1>. QED  BY <1>1, <1>2, PayBackGives

LEMMA StrikeOffAnswered ==
  ASSUME LotInv, MoneyTyped, NEW S \in SUBSET Slot, \A i \in S : Valid(i), StrikeOff(S),
         NEW i \in Slot
  PROVE  Answered(i)
<1>1. PayBack(S, {}) /\ lot' = [j \in Slot |-> IF j \in S THEN None ELSE lot[j]]
  BY DEF StrikeOff
<1>2. CASE i \in S
  BY <1>1, <1>2, StruckAnswered
<1>3. CASE i \notin S
  BY <1>1, <1>3, StrikeOffBids, SameAnswered
<1>. QED  BY <1>2, <1>3

\* An outbid player has his stake before the new one is written down.
LEMMA StakeAnswers ==
  ASSUME LotInv, MoneyTyped, NEW p \in Player, NEW i \in Slot, NEW c \in Bids, Stake(p, i, c),
         LotInv', NEW j \in Slot
  PROVE  Answered(j)
<1>1. LotsTyped /\ LotsTyped'
  BY DEF LotInv
<1>2. /\ lot'[i].buyer = p /\ lot'[i] \in Lot /\ lot[i] \in Lot
      /\ \A k \in Slot : k # i => lot'[k] = lot[k]
  BY <1>1, StakeLot
<1>3. CASE j # i
  BY <1>2, <1>3, SameAnswered
<1>4. CASE j = i
  <2> SUFFICES ASSUME HasBid(i), lot[i].buyer # Ghost, lot[i].buyer # p
               PROVE  bank'[lot[i].buyer] >= bank[lot[i].buyer] + Refund(lot[i].cost)
    BY <1>2, <1>4, NoneIsNoLot DEF Answered
  <2>1. lot[i].buyer \in Player /\ lot[i].cost \in Nat
    BY <1>2 DEF HasBid, Lot
  <2>2. PICK paid \in [Player -> Nat] :
          /\ paid = [bank EXCEPT ![lot[i].buyer] = @ + Refund(lot[i].cost)]
          /\ \E rest \in Nat : bank' = [paid EXCEPT ![p] = rest]
    BY <1>1, <2>1, StakePays
  <2>3. Refund(lot[i].cost) \in Nat
    BY <2>1, Rounding
  <2>. QED  BY <2>1, <2>2, <2>3 DEF MoneyTyped
<1>. QED  BY <1>3, <1>4

LEMMA TradeAnswered ==
  ASSUME LotInv, MoneyTyped, LotInv', NEW p \in Player, Trade(p), NEW j \in Slot
  PROVE  Answered(j)
<1>1. ASSUME NEW o \in Obj, NEW c \in Starts, Put(p, o, c)  PROVE Answered(j)
  <2>1. PICK i \in Slot :
          /\ ~Valid(i)
          /\ lot' = [lot EXCEPT ![i] = [obj |-> o, sender |-> p, buyer |-> None,
                                        cost |-> c, time |-> 0]]
    BY <1>1 DEF Put
  <2>2. CASE j = i
    BY <2>1, <2>2 DEF Answered, HasBid, Valid
  <2>3. CASE j # i
    <3>1. lot'[j] = lot[j]
      BY <2>1, <2>3 DEF LotInv, LotsTyped
    <3>. QED  BY <3>1, SameAnswered
  <2>. QED  BY <2>2, <2>3
<1>2. ASSUME NEW i \in Slot, NEW c \in Bids, Stake(p, i, c)  PROVE Answered(j)
  BY <1>2, StakeAnswers
<1>3. ASSUME NEW i \in Slot, Struck(p, i)  PROVE Answered(j)
  <2>1. StrikeOff({i}) /\ Valid(i)
    BY <1>3 DEF Struck
  <2>. QED  BY <2>1, StrikeOffAnswered
<1>4. ASSUME lot' = lot  PROVE Answered(j)
  BY <1>4, SameAnswered
<1>5. ASSUME NEW i \in Slot, Identify(p, i)  PROVE Answered(j)
  BY <1>4, <1>5 DEF Identify
<1>6. ASSUME NEW s \in Sums, Deposit(p, s) \/ Withdraw(p, s)  PROVE Answered(j)
  BY <1>4, <1>6 DEF Deposit, Withdraw
<1>. QED  BY <1>1, <1>2, <1>3, <1>5, <1>6 DEF Trade

LEMMA LifeAnswered ==
  ASSUME LotInv, MoneyTyped, LotInv', NEW p \in Player, Life(p), NEW j \in Slot
  PROVE  Answered(j)
<1>1. Carried(p) \in SUBSET Slot /\ \A i \in Carried(p) : Valid(i)
  BY DEF Carried
<1>2. CASE Quit(p)
  BY <1>1, <1>2, StrikeOffAnswered DEF Quit
<1>3. CASE lot' = lot
  BY <1>3, SameAnswered
<1>4. CASE Purge(p)
  <2>1. PayBack(Carried(p), {p}) /\ LotsTyped
    BY <1>4 DEF Purge, LotInv
  <2>2. CASE j \in Carried(p) /\ lot[j].buyer = p
    BY <1>4, <2>2 DEF Answered, Carried
  <2>3. CASE j \in Carried(p) /\ lot[j].buyer # p
    BY <1>1, <2>1, <2>3, StruckAnswered
  <2>4. CASE j \notin Carried(p)
    <3>1. /\ BidsOn(lot') = BidsOn(lot) \ Carried(p)
          /\ \A i \in BidsOn(lot') : lot'[i].buyer \in {lot[i].buyer, Ghost}
      BY <1>4, <2>1, PurgeBids
    <3>2. HasBid(j) => j \in BidsOn(lot')
      BY <2>4, <3>1 DEF HasBid, BidsOn
    <3>. QED  BY <3>1, <3>2 DEF Answered, BidsOn
  <2>. QED  BY <2>2, <2>3, <2>4
<1>5. ASSUME NEW o \in Obj, Drop(p, o) \/ Get(p, o) \/ SetTrap(p, o) \/ Disarmed(p, o)
      PROVE  lot' = lot
  BY <1>5 DEF Drop, Get, SetTrap, Disarmed
<1>6. ASSUME NEW o \in Obj, NEW q \in Player, Give(p, q, o)
      PROVE  lot' = lot
  BY <1>6 DEF Give
<1>7. Enter(p) \/ LinkBack(p) => lot' = lot
  BY DEF Enter, LinkBack
<1>8. CASE LinkLost(p) \/ Die(p)
  <2>1. PICK T \in SUBSET Slot : (\A i \in T : Valid(i)) /\ StrikeOff(T)
    BY <1>8, StrikesLots DEF LinkLost, Die
  <2>. QED  BY <2>1, StrikeOffAnswered
<1>. QED  BY <1>2, <1>3, <1>4, <1>5, <1>6, <1>7, <1>8 DEF Life

LEMMA NextAnswered ==
  LotInv /\ MoneyTyped /\ LotInv' /\ Next => \A j \in Slot : Answered(j)
<1> SUFFICES ASSUME LotInv, MoneyTyped, LotInv', Next, NEW j \in Slot
             PROVE  Answered(j)
  OBVIOUS
<1>1. ASSUME NEW p \in Player, Trade(p) \/ Life(p)  PROVE Answered(j)
  BY <1>1, TradeAnswered, LifeAnswered
<1>2. ASSUME NEW o \in Obj, Destroy(o)  PROVE Answered(j)
  <2>1. LotsFor(o) \in SUBSET Slot /\ \A i \in LotsFor(o) : Valid(i)
    BY DEF LotsFor
  <2>2. StrikeOff(LotsFor(o))
    BY <1>2 DEF Destroy
  <2>. QED  BY <2>1, <2>2, StrikeOffAnswered
<1>3. CASE AuctionUpdate
  <2>1. /\ BidsOn(lot') = BidsOn(lot) \ {i \in Slot : LastCall(i)}
        /\ \A i \in BidsOn(lot') : lot'[i].buyer = lot[i].buyer
    BY <1>3, UpdateLots DEF LotInv
  <2>2. HasBid(j) /\ ~LastCall(j) => j \in BidsOn(lot')
    BY <2>1 DEF HasBid, BidsOn
  <2>. QED  BY <1>3, <2>1, <2>2 DEF Answered, BidsOn
<1>4. CASE LoginLost
  <2>1. PICK S \in SUBSET LotsOf(Ghost) : StrikeOff(S)
    BY <1>4 DEF LoginLost
  <2>2. S \in SUBSET Slot /\ \A i \in S : Valid(i)
    BY DEF LotsOf
  <2>. QED  BY <2>1, <2>2, StrikeOffAnswered
<1>. QED  BY <1>1, <1>2, <1>3, <1>4 DEF Next
-----------------------------------------------------------------------------
\* What is known of lots and money together.
MoneyInv == LotInv /\ MoneyTyped

LEMMA InitMoneyInv == Init => MoneyInv
  BY InitLotInv, AuctionAssumption DEF Init, MoneyInv, MoneyTyped

LEMMA NextMoneyInv == MoneyInv /\ [Next]_vars => MoneyInv'
  BY NextLotInv, NextMoney DEF MoneyInv

\* Nobody comes to owe money, in his purse or with the bank: every price is asked for
\* before it is paid, and what the test lets through the rounded sum does not overdraw.
THEOREM NobodyOwes == Spec => []TypeOK
<1>1. MoneyInv => TypeOK
  BY DEF MoneyInv, LotInv, MoneyTyped, TypeOK
<1>. QED  BY InitMoneyInv, NextMoneyInv, <1>1, PTL DEF Spec

\* Stakes, refunds, sales and closings, in any order and for any sums, make no money.
THEOREM NoMoneyMade == Spec => MoneyNotMade
<1>1. MoneyInv /\ MoneyInv' /\ [Next]_vars
        => [UNCHANGED <<bank, gold, lot>> \/ Wealth' <= Wealth]_vars
  BY NextWealth DEF MoneyInv, vars
<1>. QED  BY InitMoneyInv, NextMoneyInv, <1>1, PTL DEF Spec, MoneyNotMade

\* A stake that did not win comes back in full, however the lot ends.
THEOREM StakesComeBack == Spec => StakeAnswered
<1>1. MoneyInv /\ MoneyInv' /\ [Next]_vars
        => [\A i \in Slot :
              (HasBid(i) /\ lot[i].buyer # Ghost) =>
                 LET b == lot[i].buyer
                 IN \/ lot'[i] # None /\ lot'[i].buyer \in {b, Ghost}
                    \/ bank'[b] >= bank[b] + Refund(lot[i].cost)
                    \/ Purge(b) /\ owner[lot[i].obj] = b
                    \/ AuctionUpdate /\ LastCall(i)]_vars
  BY NextAnswered DEF MoneyInv, vars, Answered
<1>. QED  BY InitMoneyInv, NextMoneyInv, <1>1, PTL DEF Spec, StakeAnswered
=============================================================================
