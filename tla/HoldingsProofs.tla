--------------------------- MODULE HoldingsProofs ---------------------------
(***************************************************************************)
(* What players and mobs hold, for any number of them.                     *)
(*                                                                         *)
(* Limits: no player ever has two objects of a limited kind, and what the  *)
(* table counts drifts from what there is in the named ways only.          *)
(* Coins: no pile is empty or mixed, and silver, gold and bronze are made  *)
(* and lost in the named ways only.                                        *)
(*                                                                         *)
(* The drift and the worth are sums over players, purses and piles: a step *)
(* is followed by the one or two summands that it changes (TotalProofs).   *)
(***************************************************************************)
EXTENDS Limits, Coins, TotalProofs

\* A bag with at most one.
Few == {b \in Bags : Held(b) <= 1}

\* The object for sale is where its seller has it, and who leads the bids is in the
\* world and has none: else he could come back from his file with one.
LotKept ==
    lot # None =>
        /\ lot.seller \in online /\ have[lot.seller]["loose"] = 1
        /\ lot.buyer # None => lot.buyer \in online /\ Held(have[lot.buyer]) = 0

LimitsInv ==
    /\ {room, mobs, stock, count} \subseteq Nat
    /\ max \in 1..MaxMax /\ saved \in Nat \X (1..MaxMax)
    /\ online \subseteq Player
    /\ lot \in {None} \cup [seller : Player, buyer : Player \cup {None}]
    /\ have \in [Player -> Few] /\ file \in [Player -> Few]
    /\ LotKept

-----------------------------------------------------------------------------
(* Bags *)

LEMMA NothingFew == Nothing \in Few /\ Held(Nothing) = 0
BY DEF Nothing, Few, Bags, Held, Spots

\* In a bag with at most one there is none or exactly one.
LEMMA FewHeld ==
  ASSUME NEW b \in Few
  PROVE  /\ Held(b) \in {0, 1}
         /\ \A s \in Spots : b[s] \in Nat /\ (b[s] > 0 => b[s] = 1 /\ Held(b) = 1)
BY DEF Few, Bags, Held, Spots

\* Whoever has none may get one.
LEMMA AddFew ==
  ASSUME NEW b \in Few, Held(b) = 0, NEW s \in Spots
  PROVE  [b EXCEPT ![s] = @ + 1] \in Few
BY DEF Few, Bags, Held, Spots

\* Whoever gives one away has none left.
LEMMA TakeFew ==
  ASSUME NEW b \in Few, NEW s \in Spots, b[s] > 0
  PROVE  /\ [b EXCEPT ![s] = @ - 1] \in Few
         /\ [b EXCEPT ![s] = @ + -1] \in Few
         /\ Held([b EXCEPT ![s] = @ - 1]) = 0
         /\ Held([b EXCEPT ![s] = @ + -1]) = 0
BY DEF Few, Bags, Held, Spots

LEMMA MoveFew ==
  ASSUME NEW b \in Few, NEW s \in Spots, NEW t \in Spots, s # t, b[s] > 0
  PROVE  [b EXCEPT ![s] = @ - 1, ![t] = @ + 1] \in Few
BY DEF Few, Bags, Held, Spots

LEMMA WornFew == ASSUME NEW b \in Few PROVE Worn(b) \in Few
BY DEF Worn, Nothing, Few, Bags, Held, Spots

\* Who has one for sale has one.
LEMMA SellerHas ==
  ASSUME NEW b \in Few, b["loose"] = 1 PROVE Held(b) = 1
BY DEF Few, Bags, Held, Spots

\* What extract_obj() leaves is no negative number.
LEMMA LessNat == ASSUME count \in Nat, NEW n \in Nat PROVE Less(n) \in Nat
BY DEF Less

-----------------------------------------------------------------------------
(* The actions *)

\* Objects come into the world, or go, with nobody.
LEMMA MakesKeep ==
  ASSUME LimitsInv, ResetRoom \/ ResetMob \/ ResetShop \/ ScriptLoad \/ EditorLoad
                    \/ WizLoad \/ Clone \/ Destroyed \/ StockGone \/ MobMoves
  PROVE  LimitsInv'
<1>. USE DEF LimitsInv, LotKept
<1>1. CASE ResetRoom \/ ResetMob \/ ResetShop \/ WizLoad \/ Clone
  BY <1>1 DEF ResetRoom, ResetMob, ResetShop, WizLoad, Clone
<1>2. CASE ScriptLoad \/ EditorLoad \/ StockGone \/ MobMoves
  BY <1>2 DEF ScriptLoad, EditorLoad, StockGone, MobMoves, table
<1>3. CASE Destroyed
  BY <1>3, LessNat DEF Destroyed
<1>. QED  BY <1>1, <1>2, <1>3

\* One more for a player who has none and wins none.
LEMMA GainKeeps ==
  ASSUME LimitsInv, NEW p \in online, ~HasLimit(p), NEW s \in Spots,
         have' = More(p, s, 1), UNCHANGED <<online, file, lot, table>>,
         {room', mobs', stock'} \subseteq Nat
  PROVE  LimitsInv'
<1>. USE DEF LimitsInv, LotKept
<1>1. p \in Player /\ have[p] \in Few /\ Held(have[p]) = 0
  BY FewHeld DEF HasLimit
<1>2. have' = [have EXCEPT ![p] = [have[p] EXCEPT ![s] = @ + 1]]
  BY <1>1 DEF More
<1>3. [have[p] EXCEPT ![s] = @ + 1] \in Few
  BY <1>1, AddFew
<1>4. lot # None => lot.seller # p /\ lot.buyer # p
  BY <1>1, SellerHas DEF HasLimit
<1>. QED  BY <1>1, <1>2, <1>3, <1>4 DEF table

\* One less for a player who sells nothing.
LEMMA LossKeeps ==
  ASSUME LimitsInv, NEW p \in Player, NEW s \in Spots, have[p][s] > 0,
         have' = More(p, s, -1), lot' = lot \/ lot' = None, lot' # None => lot.seller # p,
         UNCHANGED <<online, file, max, saved>>,
         {room', mobs', stock', count'} \subseteq Nat
  PROVE  LimitsInv'
<1>. USE DEF LimitsInv, LotKept
<1>1. have' = [have EXCEPT ![p] = [have[p] EXCEPT ![s] = @ + -1]]
  BY DEF More
<1>2. /\ [have[p] EXCEPT ![s] = @ + -1] \in Few
      /\ Held([have[p] EXCEPT ![s] = @ + -1]) = 0
  BY TakeFew
<1>. QED  BY <1>1, <1>2

\* From hand to hand.
LEMMA FromOtherKeeps ==
  ASSUME LimitsInv, NEW p \in Player, NEW q \in Player, FromOther(p, q)
  PROVE  LimitsInv'
<1>. USE DEF LimitsInv, LotKept
<1>1. PICK s \in Spots :
        /\ Free(p, s)
        /\ have' = [have EXCEPT ![p][s] = @ - 1, ![q][s] = @ + 1]
  BY DEF FromOther, Spots
<1>2. have[q] \in Few /\ Held(have[q]) = 0 /\ p # q
  BY FewHeld DEF FromOther, HasLimit
<1>3. have' = [have EXCEPT ![p] = [have[p] EXCEPT ![s] = @ - 1],
                           ![q] = [have[q] EXCEPT ![s] = @ + 1]]
  BY <1>1, <1>2
<1>4. /\ [have[p] EXCEPT ![s] = @ - 1] \in Few
      /\ Held([have[p] EXCEPT ![s] = @ - 1]) = 0
  BY <1>1, TakeFew DEF Free
<1>5. [have[q] EXCEPT ![s] = @ + 1] \in Few
  BY <1>2, AddFew
<1>6. lot # None => lot.seller # p /\ lot.seller # q /\ lot.buyer # q
  BY <1>1, <1>2, SellerHas DEF Free, FromOther, HasLimit
<1>. QED  BY <1>2, <1>3, <1>4, <1>5, <1>6 DEF FromOther, table

LEMMA RearrangeKeeps ==
  ASSUME LimitsInv, NEW p \in Player, Rearrange(p)
  PROVE  LimitsInv'
<1>. USE DEF LimitsInv, LotKept
<1>1. PICK s \in Spots, t \in Spots :
        /\ s # t /\ have[p][s] > 0
        /\ have' = [have EXCEPT ![p][s] = @ - 1, ![p][t] = @ + 1]
  BY DEF Rearrange
<1>2. have' = [have EXCEPT ![p] = [have[p] EXCEPT ![s] = @ - 1, ![t] = @ + 1]]
  BY <1>1
<1>3. [have[p] EXCEPT ![s] = @ - 1, ![t] = @ + 1] \in Few
  BY <1>1, MoveFew
<1>4. Held(have[p]) # 0
  BY <1>1, FewHeld
<1>5. lot # None => lot.seller # p /\ lot.buyer # p
  BY <1>4, LimitsAssumption DEF Rearrange
<1>. QED  BY <1>2, <1>3, <1>5 DEF Rearrange, table

\* Auctions.
LEMMA LotsKeep ==
  ASSUME LimitsInv, Sold \/ Unsold \/ \E p \in Player : PutUp(p) \/ Bid(p)
  PROVE  LimitsInv'
<1>. USE DEF LimitsInv, LotKept
<1>1. CASE Unsold
  BY <1>1 DEF Unsold, table
<1>2. ASSUME NEW p \in Player, PutUp(p) PROVE LimitsInv'
  <2>1. have[p]["loose"] = 1 /\ p \in online
    BY <1>2, FewHeld DEF PutUp, Free, Spots
  <2>. QED  BY <1>2, <2>1 DEF PutUp, table
<1>3. ASSUME NEW p \in Player, Bid(p) PROVE LimitsInv'
  <2>1. have[p] \in Few /\ Held(have[p]) = 0
    BY <1>3, FewHeld DEF Bid, HasLimit
  <2>. QED  BY <1>3, <2>1 DEF Bid, table
<1>4. CASE Sold
  <2>. DEFINE p == lot.seller
              r == lot.buyer
  <2>1. p \in Player /\ r \in Player /\ have[p] \in Few /\ have[r] \in Few
        /\ have[p]["loose"] > 0 /\ Held(have[r]) = 0
    BY <1>4 DEF Sold
  <2>2. p # r
    BY <1>4, <2>1, SellerHas DEF Sold
  <2>3. "loose" \in Spots
    BY DEF Spots
  <2>4. /\ [have[p] EXCEPT !["loose"] = @ - 1] \in Few
        /\ [have[r] EXCEPT !["loose"] = @ + 1] \in Few
    BY <2>1, <2>3, TakeFew, AddFew
  <2>5. \/ have' = [have EXCEPT ![p] = [have[p] EXCEPT !["loose"] = @ - 1],
                                ![r] = [have[r] EXCEPT !["loose"] = @ + 1]]
        \/ have' = [have EXCEPT ![p] = [have[p] EXCEPT !["loose"] = @ - 1]]
    BY <1>4, <2>1, <2>2 DEF Sold
  <2>6. have' \in [Player -> Few]
    BY <2>1, <2>4, <2>5
  <2>7. room' \in Nat
    BY <1>4 DEF Sold
  <2>. QED  BY <1>4, <2>6, <2>7 DEF Sold, table
<1>. QED  BY <1>1, <1>2, <1>3, <1>4

\* A player leaves the world, and his auctions: none holds him, or his is cancelled.
LEMMA LeavesKeeps ==
  ASSUME LimitsInv, NEW p \in Player, NEW b \in Few, Leaves(p, b), count' \in Nat,
         lot' = lot \/ lot' = None, lot' # None => p \notin {lot.seller, lot.buyer},
         UNCHANGED <<max, saved>>
  PROVE  LimitsInv'
<1>. USE DEF LimitsInv, LotKept, Leaves
<1>1. have' \in [Player -> Few] /\ file' \in [Player -> Few]
  BY NothingFew
<1>2. \A r \in Player : r # p => have'[r] = have[r]
  OBVIOUS
<1>. QED  BY <1>1, <1>2

LEMMA ComingsKeep ==
  ASSUME LimitsInv, NEW p \in Player,
         Save(p) \/ Login(p) \/ Quit(p) \/ QuitWithCopy(p) \/ Delete(p) \/ PurgePlayer(p)
  PROVE  LimitsInv'
<1>1. /\ have[p] \in Few /\ file[p] \in Few
      /\ Held(have[p]) \in Nat /\ Held(have[p]) - have[p]["worn"] \in Nat
      /\ Held(file[p]) - file[p]["worn"] \in Nat
  BY DEF LimitsInv, Few, Held, Bags, Spots
<1>2. CASE Save(p)
  BY <1>1, <1>2 DEF Save, LimitsInv, LotKept, table
<1>3. CASE Login(p)
  BY <1>1, <1>3 DEF Login, LimitsInv, LotKept, table
<1>4. CASE Quit(p)
  <2>1. count' \in Nat
    BY <1>1, <1>4, LessNat DEF Quit, LimitsInv
  <2>. QED  BY <1>1, <1>4, <2>1, WornFew, LeavesKeeps DEF Quit, CanQuit
<1>5. CASE QuitWithCopy(p)
  <2>. DEFINE n == Held(have[p]) - have[p]["worn"] + Held(file[p]) - file[p]["worn"]
  <2>1. n \in Nat
    BY <1>1 DEF Few, Held, Bags, Spots
  <2>2. count' = Less(n)
    BY <1>5 DEF QuitWithCopy
  <2>3. count' \in Nat
    BY <2>1, <2>2, LessNat DEF LimitsInv
  <2>. QED  BY <1>1, <1>5, <2>3, WornFew, LeavesKeeps DEF QuitWithCopy, CanQuit
<1>6. CASE Delete(p)
  <2>1. count' \in Nat
    BY <1>1, <1>6, LessNat DEF Delete, LimitsInv
  <2>. QED  BY <1>6, <2>1, NothingFew, LeavesKeeps DEF Delete, CanQuit
<1>7. CASE PurgePlayer(p)
  <2>1. count' \in Nat
    BY <1>1, <1>7, LessNat DEF PurgePlayer, LimitsInv
  <2>. QED  BY <1>1, <1>7, <2>1, LeavesKeeps DEF PurgePlayer, Cancelled
<1>. QED  BY <1>2, <1>3, <1>4, <1>5, <1>6, <1>7

\* What one player does with objects.
LEMMA MovesKeep ==
  ASSUME LimitsInv, NEW p \in Player,
         BuyWare(p) \/ Get(p) \/ Drop(p) \/ ToMob(p) \/ FromMob(p) \/ UsedUp(p) \/ Die(p)
  PROVE  LimitsInv'
<1>. USE DEF LimitsInv
<1>1. CASE BuyWare(p)
  BY <1>1, GainKeeps DEF BuyWare, Spots
<1>2. CASE Get(p)
  <2>1. room' \in Nat /\ mobs' \in Nat /\ stock' \in Nat /\ p \in online /\ ~HasLimit(p)
        /\ UNCHANGED <<online, file, lot, table>>
    BY <1>2 DEF Get
  <2>2. PICK s \in Spots : have' = More(p, s, 1)
    BY <1>2 DEF Get, Spots
  <2>. QED  BY <2>1, <2>2, GainKeeps
<1>3. CASE FromMob(p)
  BY <1>3, GainKeeps DEF FromMob, Spots
<1>4. CASE Drop(p)
  <2>1. PICK s \in Spots : Free(p, s) /\ have' = More(p, s, -1)
    BY <1>4 DEF Drop
  <2>. QED  BY <1>4, <2>1, LossKeeps DEF Drop, Free, table
<1>5. CASE ToMob(p)
  <2>1. PICK s \in Spots : Free(p, s) /\ have' = More(p, s, -1)
    BY <1>5 DEF ToMob, Spots
  <2>2. count' \in Nat /\ mobs' \in Nat
    BY <1>5, LessNat DEF ToMob
  <2>. QED  BY <1>5, <2>1, <2>2, LossKeeps DEF ToMob, Free
<1>6. CASE UsedUp(p)
  <2>1. PICK s \in Spots : have[p][s] > 0 /\ have' = More(p, s, -1)
    BY <1>6 DEF UsedUp
  <2>2. count' \in Nat
    BY <1>6, LessNat DEF UsedUp
  <2>. QED  BY <1>6, <2>1, <2>2, LossKeeps DEF UsedUp
<1>7. CASE Die(p)
  <2>1. Held(have[p]) \in Nat
    BY DEF Few, Held, Bags, Spots
  <2>. QED  BY <1>7, <2>1, NothingFew DEF Die, Cancelled, LotKept, table
<1>. QED  BY <1>1, <1>2, <1>3, <1>4, <1>5, <1>6, <1>7

\* The server starts again, in good order or not.
LEMMA BootKeeps ==
  ASSUME LimitsInv, Reboot \/ Crash \/ \E n \in 1..MaxMax : EditLimit(n)
  PROVE  LimitsInv'
<1>. USE DEF LimitsInv
<1>1. ASSUME NEW r \in Nat, Boot(r), file' \in [Player -> Few] PROVE LimitsInv'
  BY <1>1, NothingFew DEF Boot, LotKept
<1>2. CASE Reboot
  BY <1>1, <1>2 DEF Reboot
<1>3. CASE Crash
  BY <1>1, <1>3 DEF Crash
<1>4. CASE \E n \in 1..MaxMax : EditLimit(n)
  BY <1>4 DEF EditLimit, LotKept, things
<1>. QED  BY <1>2, <1>3, <1>4

LEMMA InitHolds == Init => LimitsInv
BY NothingFew, LimitsAssumption DEF Init, LimitsInv, LotKept

LEMMA NextKeeps == ASSUME LimitsInv, [Next]_vars PROVE LimitsInv'
<1>1. CASE Makes
  BY <1>1, MakesKeep, MovesKeep DEF Makes
<1>2. CASE Moves
  BY <1>2, MakesKeep, LotsKeep, MovesKeep, RearrangeKeeps, FromOtherKeeps DEF Moves
<1>3. CASE Ends
  BY <1>3, MakesKeep, MovesKeep DEF Ends
<1>4. CASE Comings
  BY <1>4, ComingsKeep DEF Comings
<1>5. CASE Reboot \/ Crash \/ \E n \in 1..MaxMax : EditLimit(n)
  BY <1>5, BootKeeps
<1>6. CASE UNCHANGED vars
  BY <1>6 DEF vars, things, table, LimitsInv, LotKept
<1>. QED  BY <1>1, <1>2, <1>3, <1>4, <1>5, <1>6 DEF Next

-----------------------------------------------------------------------------
(***************************************************************************)
(* The table and the world.  What the players count for is a sum, of which *)
(* a step changes one summand, or two.                                     *)
(***************************************************************************)

\* What each player has in the world, or brings back into it.
Counted(h, f, on) == [p \in Player |-> IF p \in on THEN Held(h[p]) ELSE Held(f[p])]

ByPlayers == SumOf(Counted(have, file, online), Player)

LEMMA HeldNat == ASSUME NEW b \in Few PROVE Held(b) \in Nat
BY DEF Few, Bags, Held, Spots

LEMMA HeldMore ==
  ASSUME NEW b \in Few, NEW s \in Spots
  PROVE  /\ Held([b EXCEPT ![s] = @ + 1]) = Held(b) + 1
         /\ Held([b EXCEPT ![s] = @ - 1]) = Held(b) - 1
         /\ Held([b EXCEPT ![s] = @ + -1]) = Held(b) - 1
BY DEF Few, Bags, Held, Spots

LEMMA HeldMoved ==
  ASSUME NEW b \in Few, NEW s \in Spots, NEW t \in Spots, s # t
  PROVE  Held([b EXCEPT ![s] = @ - 1, ![t] = @ + 1]) = Held(b)
BY DEF Few, Bags, Held, Spots

LEMMA HeldWorn == ASSUME NEW b \in Few PROVE Held(Worn(b)) = b["worn"] /\ b["worn"] \in Nat
BY DEF Worn, Nothing, Few, Bags, Held, Spots

LEMMA CountedNat ==
  ASSUME NEW h \in [Player -> Few], NEW f \in [Player -> Few], NEW on, NEW p \in Player
  PROVE  Counted(h, f, on)[p] \in Nat
BY HeldNat DEF Counted

LEMMA KnownIs ==
  ASSUME LimitsInv
  PROVE  /\ Known = room + mobs + ByPlayers /\ Known \in Nat /\ ByPlayers \in Nat
         /\ room \in Nat /\ mobs \in Nat /\ count \in Nat /\ max \in Nat
<1>1. \A p \in Player : Counted(have, file, online)[p] \in Nat
  BY CountedNat DEF LimitsInv
<1>2. ByPlayers \in Nat
  BY <1>1, TotalNat, LimitsAssumption DEF ByPlayers
<1>3. Known = room + mobs + ByPlayers
  BY DEF Known, ByPlayers, Counted
<1>. QED  BY <1>2, <1>3 DEF LimitsInv

LEMMA KnownNext ==
  ASSUME LimitsInv'
  PROVE  /\ Known' = room' + mobs' + ByPlayers' /\ Known' \in Nat /\ ByPlayers' \in Nat
         /\ room' \in Nat /\ mobs' \in Nat /\ count' \in Nat /\ max' \in Nat
<1>1. \A p \in Player : Counted(have', file', online')[p] \in Nat
  BY CountedNat DEF LimitsInv
<1>2. SumOf(Counted(have', file', online'), Player) \in Nat
  BY <1>1, TotalNat, LimitsAssumption
<1>3. ByPlayers' = SumOf(Counted(have', file', online'), Player)
  BY DEF ByPlayers
<1>4. Known' = room' + mobs' + ByPlayers'
  BY DEF Known, ByPlayers, Counted
<1>. QED  BY <1>2, <1>3, <1>4 DEF LimitsInv

\* Two players, who may be one, and nobody else.
LEMMA TwoChange ==
  ASSUME LimitsInv, LimitsInv', NEW p \in Player, NEW q \in Player,
         \A r \in Player \ {p, q} : r \in online' <=> r \in online,
         \A r \in Player \ {p, q} : have'[r] = have[r] /\ file'[r] = file[r]
  PROVE  LET C == Counted(have, file, online)
             D == Counted(have', file', online')
         IN  /\ p = q => ByPlayers' = ByPlayers + D[p] - C[p]
             /\ p # q => ByPlayers' = ByPlayers + D[p] - C[p] + D[q] - C[q]
<1> DEFINE C == Counted(have, file, online)
           D == Counted(have', file', online')
           M == [r \in Player |-> IF r = p THEN D[r] ELSE C[r]]
<1>1. \A r \in Player : C[r] \in Nat /\ D[r] \in Nat
  BY CountedNat DEF LimitsInv
<1>2. \A r \in Player \ {p, q} : D[r] = C[r]
  BY DEF Counted
<1>3. ByPlayers = SumOf(C, Player) /\ ByPlayers' = SumOf(D, Player)
  BY DEF ByPlayers, Counted
<1> HIDE DEF C, D
<1>4. \A r \in Player : C[r] \in Int /\ D[r] \in Int /\ M[r] \in Int
  BY <1>1
<1>5. \A r \in Player : r # p => M[r] = C[r]
  OBVIOUS
<1>6. \A r \in Player : r # q => D[r] = M[r]
  BY <1>2
<1>7. M[p] = D[p] /\ (q # p => M[q] = C[q])
  OBVIOUS
<1> HIDE DEF M
<1>8. SumOf(M, Player) = SumOf(C, Player) + M[p] - C[p]
  BY <1>4, <1>5, TotalChange, LimitsAssumption
<1>9. SumOf(D, Player) = SumOf(M, Player) + D[q] - M[q]
  BY <1>4, <1>6, TotalChange, LimitsAssumption
<1>10. SumOf(C, Player) \in Int
  BY <1>4, TotalInt, LimitsAssumption
<1>11. C[p] \in Int /\ D[p] \in Int /\ C[q] \in Int /\ D[q] \in Int
  BY <1>4
<1>. QED  BY <1>3, <1>7, <1>8, <1>9, <1>10, <1>11 DEF C, D

\* One player, who stays in the world.
LEMMA OneHas ==
  ASSUME LimitsInv, LimitsInv', NEW p \in online, NEW b \in Few,
         have' = [have EXCEPT ![p] = b], online' = online,
         \A r \in Player \ {p} : file'[r] = file[r]
  PROVE  ByPlayers' = ByPlayers + Held(b) - Held(have[p])
<1>1. p \in Player /\ have'[p] = b /\ \A r \in Player \ {p} : have'[r] = have[r]
  BY DEF LimitsInv
<1>2. ByPlayers' = ByPlayers + Counted(have', file', online')[p] - Counted(have, file, online)[p]
  BY <1>1, TwoChange
<1>. QED  BY <1>1, <1>2 DEF Counted

\* Nobody.
LEMMA NobodyHas ==
  ASSUME LimitsInv, \A r \in Player : Counted(have', file', online')[r] = Counted(have, file, online)[r]
  PROVE  ByPlayers' = ByPlayers
<1>1. Counted(have', file', online') = Counted(have, file, online)
  BY DEF Counted
<1>. QED  BY <1>1 DEF ByPlayers, Counted

\* What a step may do to the table: nothing is made that it does not know of; it knows of
\* nothing that is nowhere; the limit holds.
Unmade   == Known' - count' <= Known - count
Unlost   == count' - Known' <= count - Known \/ count' <= Known'
InLimits == count' <= count \/ count' <= max'

LEMMA FreeChange ==
  ASSUME LimitsInv, LimitsInv', UNCHANGED <<have, file, online>>
  PROVE  ByPlayers' = ByPlayers
BY NobodyHas DEF Counted

LEMMA MakesDrift ==
  ASSUME LimitsInv, LimitsInv'
  PROVE  /\ ResetRoom \/ ResetMob => Unmade /\ Unlost /\ InLimits
         /\ ResetShop => Unmade /\ InLimits
         /\ ScriptLoad \/ EditorLoad => Unlost /\ InLimits
         /\ WizLoad => Unmade /\ Unlost
         /\ Clone => Unmade
         /\ Destroyed \/ StockGone \/ MobMoves => Unmade /\ Unlost /\ InLimits
<1>. USE KnownIs, KnownNext, FreeChange DEF Unmade, Unlost, InLimits, Full, Less
<1>1. ResetRoom \/ ResetMob => Unmade /\ Unlost /\ InLimits
  BY DEF ResetRoom, ResetMob
<1>2. ResetShop => Unmade /\ InLimits
  BY DEF ResetShop
<1>3. ScriptLoad \/ EditorLoad => Unlost /\ InLimits
  BY DEF ScriptLoad, EditorLoad, table
<1>4. WizLoad => Unmade /\ Unlost
  BY DEF WizLoad
<1>5. Clone => Unmade
  BY DEF Clone
<1>6. Destroyed \/ StockGone \/ MobMoves => Unmade /\ Unlost /\ InLimits
  BY DEF Destroyed, StockGone, MobMoves, table
<1>. QED  BY <1>1, <1>2, <1>3, <1>4, <1>5, <1>6

LEMMA MovesDrift ==
  ASSUME LimitsInv, LimitsInv', NEW p \in Player,
         BuyWare(p) \/ Get(p) \/ Drop(p) \/ ToMob(p) \/ FromMob(p) \/ UsedUp(p) \/ Die(p)
  PROVE  /\ BuyWare(p) \/ Unmade
         /\ Unlost /\ InLimits
<1>0. have[p] \in Few /\ Held(have[p]) \in Nat /\ p \in online
  BY HeldNat DEF LimitsInv, BuyWare, Get, Drop, ToMob, FromMob, UsedUp, Die, Free
<1>1. CASE BuyWare(p) \/ Get(p) \/ FromMob(p)
  <2>1. PICK s \in Spots : have' = More(p, s, 1)
    BY <1>1 DEF BuyWare, Get, FromMob, Spots
  <2>2. /\ [have[p] EXCEPT ![s] = @ + 1] \in Few
        /\ have' = [have EXCEPT ![p] = [have[p] EXCEPT ![s] = @ + 1]]
        /\ online' = online /\ file' = file
    <3>1. Held(have[p]) = 0
      BY <1>0, <1>1 DEF BuyWare, Get, FromMob, HasLimit
    <3>. QED  BY <1>0, <1>1, <2>1, <3>1, AddFew DEF More, BuyWare, Get, FromMob
  <2>3. ByPlayers' = ByPlayers + 1
    <3>1. ByPlayers' = ByPlayers + Held([have[p] EXCEPT ![s] = @ + 1]) - Held(have[p])
      BY <1>0, <2>2, OneHas
    <3>2. Held([have[p] EXCEPT ![s] = @ + 1]) = Held(have[p]) + 1
      BY <1>0, HeldMore
    <3>3. ByPlayers \in Nat
      BY KnownIs
    <3>. QED  BY <1>0, <3>1, <3>2, <3>3
  <2>. QED  BY <1>1, <2>3, KnownIs, KnownNext DEF BuyWare, Get, FromMob, table, Unmade, Unlost, InLimits
<1>2. CASE Drop(p) \/ ToMob(p) \/ UsedUp(p)
  <2>1. PICK s \in Spots : have[p][s] > 0 /\ have' = More(p, s, -1)
    BY <1>2 DEF Drop, ToMob, UsedUp, Free, Spots
  <2>2. /\ [have[p] EXCEPT ![s] = @ + -1] \in Few
        /\ have' = [have EXCEPT ![p] = [have[p] EXCEPT ![s] = @ + -1]]
        /\ online' = online /\ file' = file
    BY <1>0, <1>2, <2>1, TakeFew DEF More, Drop, ToMob, UsedUp
  <2>3. ByPlayers' = ByPlayers - 1
    <3>1. ByPlayers' = ByPlayers + Held([have[p] EXCEPT ![s] = @ + -1]) - Held(have[p])
      BY <1>0, <2>2, OneHas
    <3>2. Held([have[p] EXCEPT ![s] = @ + -1]) = Held(have[p]) - 1
      BY <1>0, HeldMore
    <3>3. ByPlayers \in Nat
      BY KnownIs
    <3>. QED  BY <1>0, <3>1, <3>2, <3>3
  <2>. QED  BY <1>2, <2>3, KnownIs, KnownNext
            DEF Drop, ToMob, UsedUp, table, Less, Unmade, Unlost, InLimits
<1>3. CASE Die(p)
  <2>0. /\ have' = [have EXCEPT ![p] = Nothing] /\ online' = online
        /\ \A r \in Player \ {p} : file'[r] = file[r]
    BY <1>3 DEF Die, LimitsInv
  <2>1. ByPlayers' = ByPlayers + Held(Nothing) - Held(have[p])
    BY <1>0, <2>0, NothingFew, OneHas
  <2>2. ByPlayers' = ByPlayers - Held(have[p])
    BY <1>0, <2>1, NothingFew, KnownIs
  <2>. QED  BY <1>0, <1>3, <2>2, KnownIs, KnownNext DEF Die, table, Unmade, Unlost, InLimits
<1>. QED  BY <1>1, <1>2, <1>3

\* From hand to hand: one less, one more.
LEMMA PassedOn ==
  ASSUME LimitsInv, LimitsInv', NEW p \in online, NEW q \in online, p # q, NEW s \in Spots,
         have' = [have EXCEPT ![p] = [have[p] EXCEPT ![s] = @ - 1],
                              ![q] = [have[q] EXCEPT ![s] = @ + 1]],
         online' = online, file' = file
  PROVE  ByPlayers' = ByPlayers
<1>1. /\ p \in Player /\ q \in Player /\ have[p] \in Few /\ have[q] \in Few
      /\ Held(have[p]) \in Nat /\ Held(have[q]) \in Nat
  BY HeldNat DEF LimitsInv
<1>2. /\ Held(have'[p]) = Held(have[p]) - 1
      /\ Held(have'[q]) = Held(have[q]) + 1
      /\ \A r \in Player \ {p, q} : have'[r] = have[r]
  BY <1>1, HeldMore DEF LimitsInv
<1>3. ByPlayers' = ByPlayers + Counted(have', file', online')[p] - Counted(have, file, online)[p]
                             + Counted(have', file', online')[q] - Counted(have, file, online)[q]
  BY <1>1, <1>2, TwoChange
<1>4. ByPlayers \in Nat
  BY KnownIs
<1>. QED  BY <1>1, <1>2, <1>3, <1>4 DEF Counted

\* One less for p.
LEMMA OneLess ==
  ASSUME LimitsInv, LimitsInv', NEW p \in online, NEW s \in Spots, have[p][s] > 0,
         have' = [have EXCEPT ![p] = [have[p] EXCEPT ![s] = @ - 1]],
         online' = online, file' = file
  PROVE  ByPlayers' = ByPlayers - 1
<1>1. have[p] \in Few /\ Held(have[p]) \in Nat
  BY HeldNat DEF LimitsInv
<1>2. [have[p] EXCEPT ![s] = @ - 1] \in Few
  BY <1>1, TakeFew
<1>3. ByPlayers' = ByPlayers + Held([have[p] EXCEPT ![s] = @ - 1]) - Held(have[p])
  BY <1>2, OneHas
<1>4. Held([have[p] EXCEPT ![s] = @ - 1]) = Held(have[p]) - 1
  BY <1>1, HeldMore
<1>5. ByPlayers \in Nat
  BY KnownIs
<1>. QED  BY <1>1, <1>3, <1>4, <1>5

LEMMA FromOtherDrift ==
  ASSUME LimitsInv, LimitsInv', NEW p \in Player, NEW q \in Player, FromOther(p, q)
  PROVE  Unmade /\ Unlost /\ InLimits
<1>1. PICK s \in Spots :
        /\ Free(p, s)
        /\ have' = [have EXCEPT ![p][s] = @ - 1, ![q][s] = @ + 1]
  BY DEF FromOther, Spots
<1>2. /\ p \in online /\ q \in online /\ p # q /\ online' = online /\ file' = file
      /\ UNCHANGED <<room, mobs, count, max>>
  BY <1>1 DEF FromOther, Free, table
<1>3. have' = [have EXCEPT ![p] = [have[p] EXCEPT ![s] = @ - 1],
                           ![q] = [have[q] EXCEPT ![s] = @ + 1]]
  BY <1>1, <1>2 DEF LimitsInv
<1>4. ByPlayers' = ByPlayers
  BY <1>2, <1>3, PassedOn
<1>. QED  BY <1>2, <1>4, KnownIs, KnownNext DEF Unmade, Unlost, InLimits

LEMMA RearrangeDrift ==
  ASSUME LimitsInv, LimitsInv', NEW p \in Player, Rearrange(p)
  PROVE  Unmade /\ Unlost /\ InLimits
<1>1. PICK s \in Spots, t \in Spots :
        /\ s # t /\ have[p][s] > 0
        /\ have' = [have EXCEPT ![p][s] = @ - 1, ![p][t] = @ + 1]
  BY DEF Rearrange
<1>2. p \in online /\ online' = online /\ file' = file /\ UNCHANGED <<room, mobs, count, max>>
  BY DEF Rearrange, table
<1>3. have[p] \in Few /\ Held(have[p]) \in Nat
  BY HeldNat DEF LimitsInv
<1>. DEFINE b == [have[p] EXCEPT ![s] = @ - 1, ![t] = @ + 1]
<1>4. have' = [have EXCEPT ![p] = b]
  BY <1>1
<1>5. b \in Few /\ Held(b) = Held(have[p])
  BY <1>1, <1>3, MoveFew, HeldMoved
<1>. HIDE DEF b
<1>6. ByPlayers' = ByPlayers + Held(b) - Held(have[p])
  BY <1>2, <1>4, <1>5, OneHas
<1>7. ByPlayers' = ByPlayers
  BY <1>3, <1>5, <1>6, KnownIs
<1>. QED  BY <1>2, <1>7, KnownIs, KnownNext DEF Unmade, Unlost, InLimits

LEMMA LotsDrift ==
  ASSUME LimitsInv, LimitsInv', Sold \/ Unsold \/ \E p \in Player : PutUp(p) \/ Bid(p)
  PROVE  Unmade /\ Unlost /\ InLimits
<1>1. CASE Unsold \/ \E p \in Player : PutUp(p) \/ Bid(p)
  <2>1. UNCHANGED <<room, mobs, count, max, have, online, file>>
    BY <1>1 DEF Unsold, PutUp, Bid, table
  <2>. QED  BY <2>1, FreeChange, KnownIs, KnownNext DEF Unmade, Unlost, InLimits
<1>2. CASE Sold
  <2>. DEFINE p == lot.seller
              r == lot.buyer
  <2>1. /\ lot # None /\ r # None
        /\ p \in online /\ r \in online /\ have[p] \in Few /\ have[r] \in Few
        /\ p \in Player /\ r \in Player
        /\ have[p]["loose"] = 1 /\ Held(have[r]) = 0
    BY <1>2 DEF Sold, LimitsInv, LotKept
  <2>2. p # r
    BY <2>1, SellerHas
  <2>3. "loose" \in Spots
    BY DEF Spots
  <2>4. UNCHANGED <<mobs, count, max, online, file>>
    BY <1>2 DEF Sold, table
  <2>5. CASE /\ have' = [have EXCEPT ![p]["loose"] = @ - 1, ![r]["loose"] = @ + 1]
             /\ room' = room
    <3>1. have' = [have EXCEPT ![p] = [have[p] EXCEPT !["loose"] = @ - 1],
                               ![r] = [have[r] EXCEPT !["loose"] = @ + 1]]
      BY <2>1, <2>2, <2>5 DEF LimitsInv
    <3>2. ByPlayers' = ByPlayers
      BY <2>1, <2>2, <2>3, <2>4, <3>1, PassedOn
    <3>. QED  BY <2>4, <2>5, <3>2, KnownIs, KnownNext DEF Unmade, Unlost, InLimits
  <2>6. CASE /\ have' = [have EXCEPT ![p]["loose"] = @ - 1]
             /\ room' = room + 1
    <3>1. have' = [have EXCEPT ![p] = [have[p] EXCEPT !["loose"] = @ - 1]]
      BY <2>6
    <3>2. have[p]["loose"] > 0
      BY <2>1
    <3>3. ByPlayers' = ByPlayers - 1
      BY <2>1, <2>3, <2>4, <3>1, <3>2, OneLess
    <3>. QED  BY <2>4, <2>6, <3>3, KnownIs, KnownNext DEF Unmade, Unlost, InLimits
  <2>. QED  BY <1>2, <2>5, <2>6 DEF Sold
<1>. QED  BY <1>1, <1>2

\* Off the world, with b in the file: what he had is counted no more, what b holds is.
LEMMA OneLeaves ==
  ASSUME LimitsInv, LimitsInv', NEW p \in online, NEW b \in Few, Leaves(p, b)
  PROVE  ByPlayers' = ByPlayers + Held(b) - Held(have[p])
<1>1. /\ p \in Player /\ file'[p] = b /\ p \notin online'
      /\ \A r \in Player \ {p} : /\ have'[r] = have[r] /\ file'[r] = file[r]
                                 /\ r \in online' <=> r \in online
  BY DEF Leaves, LimitsInv
<1>2. ByPlayers' = ByPlayers + Counted(have', file', online')[p] - Counted(have, file, online)[p]
  BY <1>1, TwoChange
<1>. QED  BY <1>1, <1>2 DEF Counted

LEMMA ComingsDrift ==
  ASSUME LimitsInv, LimitsInv', NEW p \in Player,
         Save(p) \/ Login(p) \/ Quit(p) \/ QuitWithCopy(p) \/ Delete(p) \/ PurgePlayer(p)
  PROVE  /\ QuitWithCopy(p) \/ PurgePlayer(p) \/ Unmade
         /\ Unlost /\ InLimits
<1>1. /\ have[p] \in Few /\ file[p] \in Few
      /\ Held(have[p]) \in Nat /\ Held(file[p]) \in Nat
      /\ have[p]["worn"] \in Nat /\ have[p]["worn"] <= Held(have[p])
      /\ file[p]["worn"] \in Nat /\ file[p]["worn"] <= Held(file[p])
      /\ online \subseteq Player
  BY DEF LimitsInv, Few, Held, Bags, Spots
<1>2. CASE Save(p) \/ Login(p)
  <2>1. \A r \in Player : Counted(have', file', online')[r] = Counted(have, file, online)[r]
    BY <1>1, <1>2 DEF Save, Login, Counted, LimitsInv
  <2>2. UNCHANGED <<room, mobs, count, max>>
    BY <1>2 DEF Save, Login, table
  <2>. QED  BY <2>1, <2>2, NobodyHas, KnownIs, KnownNext DEF Unmade, Unlost, InLimits
<1>3. CASE Quit(p) \/ QuitWithCopy(p)
  <2>1. /\ Leaves(p, Worn(have[p])) /\ p \in online
        /\ UNCHANGED <<room, mobs, max>>
    BY <1>3 DEF Quit, QuitWithCopy, CanQuit, Leaves
  <2>2. Worn(have[p]) \in Few /\ Held(Worn(have[p])) = have[p]["worn"]
    BY <1>1, WornFew, HeldWorn
  <2>3. ByPlayers' = ByPlayers + Held(Worn(have[p])) - Held(have[p])
    BY <2>1, <2>2, OneLeaves
  <2>4. ByPlayers' = ByPlayers + have[p]["worn"] - Held(have[p])
    BY <2>2, <2>3
  <2>5. CASE Quit(p)
    <3>1. count' = Less(Held(have[p]) - have[p]["worn"])
      BY <2>5 DEF Quit
    <3>. QED  BY <1>1, <2>1, <2>4, <3>1, KnownIs, KnownNext
              DEF Less, Unmade, Unlost, InLimits
  <2>6. CASE QuitWithCopy(p)
    <3>1. count' = Less(Held(have[p]) - have[p]["worn"] + Held(file[p]) - file[p]["worn"])
      BY <2>6 DEF QuitWithCopy
    <3>. QED  BY <1>1, <2>1, <2>4, <2>6, <3>1, KnownIs, KnownNext
              DEF Less, Unlost, InLimits
  <2>. QED  BY <1>3, <2>5, <2>6
<1>4. CASE Delete(p)
  <2>1. /\ Leaves(p, Nothing) /\ p \in online /\ UNCHANGED <<room, mobs, max>>
        /\ count' = Less(Held(have[p]))
    BY <1>4 DEF Delete, CanQuit, Leaves
  <2>2. ByPlayers' = ByPlayers + Held(Nothing) - Held(have[p])
    BY <2>1, NothingFew, OneLeaves
  <2>3. ByPlayers' = ByPlayers - Held(have[p])
    BY <1>1, <2>2, NothingFew, KnownIs
  <2>. QED  BY <1>1, <2>1, <2>3, KnownIs, KnownNext DEF Less, Unmade, Unlost, InLimits
<1>5. CASE PurgePlayer(p)
  <2>1. /\ Leaves(p, have[p]) /\ p \in online /\ UNCHANGED <<room, mobs, max>>
        /\ count' = Less(Held(have[p]))
    BY <1>5 DEF PurgePlayer, Leaves
  <2>2. ByPlayers' = ByPlayers + Held(have[p]) - Held(have[p])
    BY <1>1, <2>1, OneLeaves
  <2>3. ByPlayers' = ByPlayers
    BY <1>1, <2>2, KnownIs
  <2>. QED  BY <1>1, <1>5, <2>1, <2>3, KnownIs, KnownNext DEF Less, Unlost, InLimits
<1>. QED  BY <1>2, <1>3, <1>4, <1>5

-----------------------------------------------------------------------------
\* No player ever has two objects of the kind, in the world or in his file.
THEOREM NeverTwo == Spec => []OnePerPlayer
<1>1. LimitsInv => OnePerPlayer
  BY FewHeld, LimitsAssumption DEF LimitsInv, LotKept, OnePerPlayer, TypeOK, Few
<1>2. LimitsInv /\ [Next]_vars => LimitsInv'
  BY NextKeeps
<1>. QED  BY <1>1, <1>2, InitHolds, PTL DEF Spec

\* The table drifts from the world in no other way than those that are named: what else
\* moves, makes or destroys objects, and the way of a player out of the world and back,
\* keeps it in step, for any number of players and objects.
THEOREM DriftsFewWays == Spec => DriftsOnlyBy
<1>1. LimitsInv /\ LimitsInv' /\ [Next]_vars =>
        [/\ Known' - count' > Known - count =>
              \/ ScriptLoad \/ EditorLoad \/ Reboot \/ Crash
              \/ \E p \in Player : BuyWare(p) \/ QuitWithCopy(p) \/ PurgePlayer(p)
         /\ count' - Known' > count - Known /\ count' > Known' =>
              ResetShop \/ Clone \/ Reboot \/ Crash
         /\ count' > count /\ count' > max' => WizLoad \/ Clone \/ Reboot \/ Crash]_vars
  <2>. SUFFICES ASSUME LimitsInv, LimitsInv', Next
       PROVE  /\ \/ Unmade \/ ScriptLoad \/ EditorLoad \/ Reboot \/ Crash
                 \/ \E p \in Player : BuyWare(p) \/ QuitWithCopy(p) \/ PurgePlayer(p)
              /\ Unlost \/ ResetShop \/ Clone \/ Reboot \/ Crash
              /\ InLimits \/ WizLoad \/ Clone \/ Reboot \/ Crash
    BY KnownIs, KnownNext DEF Unmade, Unlost, InLimits
  <2>1. CASE Makes
    BY <2>1, MakesDrift, MovesDrift DEF Makes
  <2>2. CASE Moves
    BY <2>2, MakesDrift, MovesDrift, LotsDrift, RearrangeDrift, FromOtherDrift DEF Moves
  <2>3. CASE Ends
    BY <2>3, MakesDrift, MovesDrift DEF Ends
  <2>4. CASE Comings
    BY <2>4, ComingsDrift DEF Comings
  <2>5. CASE \E n \in 1..MaxMax : EditLimit(n)
    <3>1. UNCHANGED <<room, mobs, have, online, file, count>>
      BY <2>5 DEF EditLimit, things
    <3>. QED  BY <3>1, FreeChange, KnownIs, KnownNext DEF Unmade, Unlost, InLimits
  <2>. QED  BY <2>1, <2>2, <2>3, <2>4, <2>5 DEF Next
<1>2. LimitsInv /\ [Next]_vars => LimitsInv'
  BY NextKeeps
<1>. QED  BY <1>1, <1>2, InitHolds, PTL DEF Spec, DriftsOnlyBy

-----------------------------------------------------------------------------
(***************************************************************************)
(* Coins: what the piles of a bag come to.                                 *)
(***************************************************************************)
\* A pile as create_money() makes it.
GoodPile == {x \in Pile : /\ x.of = "bronze" <=> x.b > 0
                          /\ x.of = "coins" => x.s + x.g > 0
                          /\ x.of = "bronze" => x.g = 0 /\ x.s = IF x.b = 1 THEN 1 ELSE 0}

GoodHeap(B) == IsABag(B) /\ DOMAIN B \subseteq GoodPile /\ IsFiniteSet(DOMAIN B)

\* What the piles of B come to where one of them comes to what w says.
InHeap(B, w) == SumOf([x \in DOMAIN B |-> B[x] * w[x]], DOMAIN B)

\* How many there are of x in B, times w.
Part(B, w, T) == [x \in T |-> IF x \in DOMAIN B THEN B[x] * w[x] ELSE 0]

LEMMA HeapCounts ==
  ASSUME NEW B, GoodHeap(B)
  PROVE  /\ \A x \in DOMAIN B : x \in GoodPile /\ x \in Pile /\ B[x] \in Nat /\ B[x] > 0
         /\ B = [x \in DOMAIN B |-> B[x]]
BY DEF GoodHeap, IsABag, GoodPile

LEMMA HeapParts ==
  ASSUME NEW B, GoodHeap(B), NEW w \in [Pile -> Int]
  PROVE  /\ \A x \in DOMAIN B : B[x] * w[x] \in Int
         /\ InHeap(B, w) \in Int
<1>1. \A x \in DOMAIN B : B[x] * w[x] \in Int
  BY HeapCounts
<1> DEFINE F == [x \in DOMAIN B |-> B[x] * w[x]]
<1>2. IsFiniteSet(DOMAIN B) /\ \A x \in DOMAIN B : F[x] \in Int
  BY <1>1 DEF GoodHeap
<1> HIDE DEF F
<1>3. SumOf(F, DOMAIN B) \in Int
  BY <1>2, TotalInt
<1>. QED  BY <1>1, <1>3 DEF F, InHeap

\* The sum may be taken over more than there is.
LEMMA HeapWide ==
  ASSUME NEW B, GoodHeap(B), NEW w \in [Pile -> Int], NEW T, IsFiniteSet(T), DOMAIN B \subseteq T
  PROVE  /\ SumOf(Part(B, w, T), T) = InHeap(B, w)
         /\ \A x \in T : Part(B, w, T)[x] \in Int
<1> DEFINE F == [x \in DOMAIN B |-> B[x] * w[x]]
           G == Part(B, w, T)
           D == DOMAIN B
<1>1. \A x \in D : F[x] \in Int /\ G[x] = F[x] /\ G[x] \in Int
  BY HeapParts DEF Part
<1>2. \A x \in T \ D : G[x] = 0
  BY DEF Part
<1>3. IsFiniteSet(D) /\ D \subseteq T
  BY DEF GoodHeap
<1>4. \A x \in T : G[x] \in Int
  BY <1>1, <1>2
<1> HIDE DEF F, G, D
<1>5. SumOf(G, T) = SumOf(G, D)
  BY <1>1, <1>2, <1>3, TotalZeros
<1>6. SumOf(F, D) = SumOf(G, D)
  BY <1>1, <1>3, TotalSame
<1>. QED  BY <1>4, <1>5, <1>6 DEF F, G, D, InHeap

\* Two heaps put together.
LEMMA HeapAdd ==
  ASSUME NEW B, GoodHeap(B), NEW C, GoodHeap(C)
  PROVE  /\ GoodHeap(B (+) C)
         /\ \A w \in [Pile -> Int] : InHeap(B (+) C, w) = InHeap(B, w) + InHeap(C, w)
<1> DEFINE T == DOMAIN B \cup DOMAIN C
           A == B (+) C
<1>1. DOMAIN A = T /\ IsFiniteSet(T)
  BY FS_Union DEF GoodHeap, (+)
<1>2. \A x \in T : A[x] = (IF x \in DOMAIN B THEN B[x] ELSE 0) + (IF x \in DOMAIN C THEN C[x] ELSE 0)
  BY DEF (+)
<1>3. \A x \in T : A[x] \in Nat /\ A[x] > 0
  BY <1>2, HeapCounts
<1>4. A = [x \in T |-> A[x]]
  BY DEF (+)
<1> HIDE DEF A
<1>5. A \in [T -> {n \in Nat : n > 0}]
  BY <1>3, <1>4
<1>6. GoodHeap(A)
  BY <1>1, <1>5 DEF GoodHeap, IsABag
<1>7. ASSUME NEW w \in [Pile -> Int]
      PROVE  InHeap(A, w) = InHeap(B, w) + InHeap(C, w)
  <2> DEFINE F == Part(B, w, T)
             G == Part(C, w, T)
             H == Part(A, w, T)
  <2>1. \A x \in T : H[x] = F[x] + G[x]
    <3>. SUFFICES ASSUME NEW x \in T
         PROVE  A[x] * w[x] = (IF x \in DOMAIN B THEN B[x] * w[x] ELSE 0)
                              + (IF x \in DOMAIN C THEN C[x] * w[x] ELSE 0)
      BY <1>1 DEF Part
    <3>1. x \in Pile /\ w[x] \in Int
      BY HeapCounts
    <3>2. /\ x \in DOMAIN B => B[x] \in Nat
          /\ x \in DOMAIN C => C[x] \in Nat
      BY HeapCounts
    <3>. QED  BY <1>2, <3>1, <3>2
  <2>2. /\ SumOf(F, T) = InHeap(B, w) /\ SumOf(G, T) = InHeap(C, w)
        /\ \A x \in T : F[x] \in Int /\ G[x] \in Int
    <3>1. DOMAIN B \subseteq T /\ DOMAIN C \subseteq T
      OBVIOUS
    <3>. HIDE DEF T
    <3>. QED  BY <1>1, <3>1, HeapWide
  <2>3. SumOf(H, T) = InHeap(A, w)
    <3>1. DOMAIN A \subseteq T
      BY <1>1
    <3>. HIDE DEF T
    <3>. QED  BY <1>1, <1>6, <3>1, HeapWide
  <2> HIDE DEF F, G, H, T
  <2>4. SumOf(H, T) = SumOf(F, T) + SumOf(G, T)
    BY <1>1, <2>1, <2>2, TotalAdds
  <2>. QED  BY <2>2, <2>3, <2>4
<1>. QED  BY <1>6, <1>7 DEF A

\* A heap of one pile, and of none.
LEMMA HeapOne ==
  ASSUME NEW x \in GoodPile
  PROVE  /\ GoodHeap(SetToBag({x}))
         /\ \A w \in [Pile -> Int] : InHeap(SetToBag({x}), w) = w[x]
<1> DEFINE B == SetToBag({x})
<1>1. B = [y \in {x} |-> 1] /\ DOMAIN B = {x} /\ B[x] = 1
  BY DEF SetToBag
<1>2. GoodHeap(B)
  <2>1. [y \in {x} |-> 1] \in [{x} -> {n \in Nat : n > 0}]
    OBVIOUS
  <2>. HIDE DEF B
  <2>. QED  BY <1>1, <2>1, FS_Singleton DEF GoodHeap, IsABag
<1>3. ASSUME NEW w \in [Pile -> Int] PROVE InHeap(B, w) = w[x]
  <2> DEFINE F == [y \in {x} |-> B[y] * w[y]]
  <2>1. F[x] = w[x] /\ w[x] \in Int
    BY <1>1 DEF GoodPile
  <2> HIDE DEF F
  <2>2. SumOf(F, {x}) = w[x]
    BY <2>1, TotalSingle
  <2>3. InHeap(B, w) = SumOf(F, {x})
    BY <1>1 DEF F, InHeap, SetToBag
  <2>. QED  BY <2>2, <2>3
<1>. QED  BY <1>2, <1>3 DEF B

LEMMA HeapNone ==
  /\ GoodHeap(EmptyBag)
  /\ \A w : InHeap(EmptyBag, w) = 0
<1>1. EmptyBag = [y \in {} |-> 1] /\ DOMAIN EmptyBag = {}
  BY DEF EmptyBag, SetToBag
<1>2. GoodHeap(EmptyBag)
  BY <1>1, FS_EmptySet DEF GoodHeap, IsABag
<1>3. ASSUME NEW w PROVE InHeap(EmptyBag, w) = 0
  <2> DEFINE F == [x \in DOMAIN EmptyBag |-> EmptyBag[x] * w[x]]
  <2>1. InHeap(EmptyBag, w) = SumOf(F, DOMAIN EmptyBag)
    BY DEF InHeap
  <2> HIDE DEF F
  <2>2. SumOf(F, DOMAIN EmptyBag) = SumOf(F, {})
    BY <1>1, Zenon
  <2>. QED  BY <2>1, <2>2, TotalNone
<1>. QED  BY <1>2, <1>3

\* One pile is taken away.
LEMMA HeapTake ==
  ASSUME NEW B, GoodHeap(B), NEW x \in DOMAIN B
  PROVE  /\ GoodHeap(B (-) SetToBag({x}))
         /\ \A w \in [Pile -> Int] : InHeap(B (-) SetToBag({x}), w) = InHeap(B, w) - w[x]
<1> DEFINE T == DOMAIN B
           A == B (-) SetToBag({x})
           U == {y \in T : y # x \/ B[x] > 1}
<1>1. /\ \A y \in T : B[y] \in Nat /\ B[y] > 0 /\ y \in Pile /\ y \in GoodPile
      /\ IsFiniteSet(T)
  BY HeapCounts DEF GoodHeap
<1>2. A = [y \in U |-> IF y = x THEN B[y] - 1 ELSE B[y]]
  <2>1. /\ DOMAIN SetToBag({x}) = {x} /\ SetToBag({x})[x] = 1
    BY DEF SetToBag
  <2>2. A = [y \in {d \in T : (IF d = x THEN B[d] - 1 ELSE B[d]) > 0} |->
               IF y = x THEN B[y] - 1 ELSE B[y]]
    BY <2>1 DEF (-)
  <2>3. {d \in T : (IF d = x THEN B[d] - 1 ELSE B[d]) > 0} = U
    BY <1>1
  <2>. QED  BY <2>2, <2>3
<1>3. U \subseteq T /\ IsFiniteSet(U)
  BY <1>1, FS_Subset
<1>4. DOMAIN A = U /\ A \in [U -> {n \in Nat : n > 0}]
  <2>1. \A y \in U : (IF y = x THEN B[y] - 1 ELSE B[y]) \in {n \in Nat : n > 0}
    BY <1>1
  <2>. HIDE DEF A, U
  <2>. QED  BY <1>2, <2>1
<1> HIDE DEF A
<1>5. GoodHeap(A)
  BY <1>1, <1>3, <1>4 DEF GoodHeap, IsABag
<1>6. ASSUME NEW w \in [Pile -> Int]
      PROVE  InHeap(A, w) = InHeap(B, w) - w[x]
  <2> DEFINE F == Part(B, w, T)
             G == Part(A, w, T)
  <2>1. \A y \in T : y # x => G[y] = F[y]
    BY <1>2, <1>4 DEF Part
  <2>2. G[x] = F[x] - w[x] /\ w[x] \in Int
    <3>1. w[x] \in Int /\ B[x] \in Nat /\ B[x] > 0
      BY <1>1
    <3>2. G[x] = (B[x] - 1) * w[x]
      <4>1. CASE B[x] > 1
        BY <1>2, <1>4, <4>1 DEF Part
      <4>2. CASE B[x] = 1
        <5>1. x \notin U
          BY <4>2
        <5>2. G[x] = 0
          BY <1>4, <5>1 DEF Part
        <5>. QED  BY <3>1, <4>2, <5>2
      <4>. QED  BY <3>1, <4>1, <4>2
    <3>3. F[x] = B[x] * w[x]
      BY DEF Part
    <3>. QED  BY <3>1, <3>2, <3>3
  <2>3. /\ SumOf(F, T) = InHeap(B, w) /\ InHeap(B, w) \in Int
        /\ \A y \in T : F[y] \in Int
    BY <1>1, HeapWide, HeapParts
  <2>4. /\ SumOf(G, T) = InHeap(A, w)
        /\ \A y \in T : G[y] \in Int
    BY <1>1, <1>3, <1>4, <1>5, HeapWide
  <2>5. x \in T
    OBVIOUS
  <2> HIDE DEF F, G, T
  <2>6. SumOf(G, T) = SumOf(F, T) + G[x] - F[x]
    BY <1>1, <2>1, <2>3, <2>4, <2>5, TotalChange
  <2>. QED  BY <2>2, <2>3, <2>4, <2>5, <2>6
<1>. QED  BY <1>5, <1>6 DEF A

\* Some of the piles are taken away, all of a kind.
LEMMA HeapWithout ==
  ASSUME GoodHeap(piles), NEW S, S \subseteq DOMAIN piles
  PROVE  /\ GoodHeap(Without(S)) /\ IsFiniteSet(S)
         /\ \A w \in [Pile -> Int] :
              /\ InHeap(piles, w) = InHeap(Without(S), w) + SumOf([x \in S |-> piles[x] * w[x]], S)
              /\ SumOf([x \in S |-> piles[x] * w[x]], S) \in Int
<1> DEFINE T == DOMAIN piles
           R == T \ S
           A == Without(S)
<1>1. /\ \A y \in T : piles[y] \in Nat /\ piles[y] > 0 /\ y \in Pile /\ y \in GoodPile
      /\ IsFiniteSet(T)
  BY HeapCounts DEF GoodHeap
<1>2. IsFiniteSet(S) /\ IsFiniteSet(R) /\ S \cap R = {} /\ S \subseteq T /\ R \subseteq T
  BY <1>1, FS_Subset
<1>3. DOMAIN A = R /\ A \in [R -> {n \in Nat : n > 0}] /\ \A y \in R : A[y] = piles[y]
  BY <1>1 DEF Without
<1> HIDE DEF A
<1>4. GoodHeap(A)
  BY <1>1, <1>2, <1>3 DEF GoodHeap, IsABag
<1>5. ASSUME NEW w \in [Pile -> Int]
      PROVE  /\ InHeap(piles, w) = InHeap(A, w) + SumOf([x \in S |-> piles[x] * w[x]], S)
             /\ SumOf([x \in S |-> piles[x] * w[x]], S) \in Int
  <2> DEFINE F == [x \in T |-> piles[x] * w[x]]
             G == [x \in S |-> piles[x] * w[x]]
             H == [x \in DOMAIN A |-> A[x] * w[x]]
  <2>1. \A y \in T : F[y] \in Int
    BY HeapParts
  <2>2. (\A y \in S : F[y] = G[y]) /\ (\A y \in R : F[y] = H[y])
    BY <1>2, <1>3
  <2>3. InHeap(piles, w) = SumOf(F, T) /\ InHeap(A, w) = SumOf(H, DOMAIN A)
    BY DEF InHeap
  <2>4. SumOf(H, DOMAIN A) = SumOf(H, R)
    BY <1>3, Zenon
  <2>5. SumOf(F, S \cup R) = SumOf(F, T)
    <3>1. S \cup R = T
      BY <1>2
    <3>. QED  BY <3>1, Zenon
  <2> HIDE DEF F, G, H, R, T
  <2>6. \A y \in S \cup R : F[y] \in Int
    BY <1>2, <2>1
  <2>7. SumOf(F, S \cup R) = SumOf(F, S) + SumOf(F, R)
    BY <1>2, <2>6, TotalSplit
  <2>8. SumOf(F, S) = SumOf(G, S) /\ SumOf(F, R) = SumOf(H, R)
    BY <1>2, <2>2, <2>6, TotalSame
  <2>9. SumOf(F, S) \in Int /\ SumOf(F, R) \in Int
    BY <1>2, <2>6, TotalInt
  <2>. QED  BY <2>3, <2>4, <2>5, <2>7, <2>8, <2>9 DEF G
<1>. QED  BY <1>2, <1>4, <1>5 DEF A

\* What lay in a corpse is worth the same on the ground.
Placeless(w) == \A x \in Pile : \A a \in {"ground", "corpse"} : w[[x EXCEPT !.at = a]] = w[x]

LEMMA PileMoved ==
  ASSUME NEW x \in Pile, NEW a \in {"ground", "corpse"}
  PROVE  /\ [x EXCEPT !.at = a] \in Pile
         /\ [x EXCEPT !.at = a].at = a
         /\ [x EXCEPT !.at = a].of = x.of /\ [x EXCEPT !.at = a].s = x.s
         /\ [x EXCEPT !.at = a].g = x.g /\ [x EXCEPT !.at = a].b = x.b
         /\ x.at = a => [x EXCEPT !.at = a] = x
         /\ \A e \in {"ground", "corpse"} : [[x EXCEPT !.at = a] EXCEPT !.at = e] = [x EXCEPT !.at = e]
         /\ x \in GoodPile => [x EXCEPT !.at = a] \in GoodPile
BY DEF Pile, GoodPile

LEMMA HeapFallen ==
  ASSUME GoodHeap(piles)
  PROVE  LET I == {x \in DOMAIN piles : x.at = "corpse"}
             U == {[x EXCEPT !.at = "ground"] : x \in I}
             C == [y \in U |-> piles[[y EXCEPT !.at = "corpse"]]]
         IN  /\ GoodHeap(C)
             /\ \A w \in [Pile -> Int] : Placeless(w) =>
                  InHeap(C, w) = SumOf([x \in I |-> piles[x] * w[x]], I)
<1> DEFINE I == {x \in DOMAIN piles : x.at = "corpse"}
           U == {[x EXCEPT !.at = "ground"] : x \in I}
           C == [y \in U |-> piles[[y EXCEPT !.at = "corpse"]]]
           down == [x \in I |-> [x EXCEPT !.at = "ground"]]
           up == [y \in U |-> [y EXCEPT !.at = "corpse"]]
<1>1. /\ \A y \in DOMAIN piles : piles[y] \in Nat /\ piles[y] > 0 /\ y \in Pile /\ y \in GoodPile
      /\ IsFiniteSet(DOMAIN piles)
  BY HeapCounts DEF GoodHeap
<1>2. \A x \in I : down[x] \in U /\ up[down[x]] = x /\ down[x] \in GoodPile
  BY <1>1, PileMoved
<1>3. ASSUME NEW y \in U
      PROVE  y \in Pile /\ y \in GoodPile /\ up[y] \in I /\ down[up[y]] = y
  <2>1. PICK x \in I : y = [x EXCEPT !.at = "ground"]
    OBVIOUS
  <2>2. x \in Pile /\ x \in GoodPile /\ x.at = "corpse"
    BY <1>1
  <2>3. y \in Pile /\ y \in GoodPile /\ [y EXCEPT !.at = "corpse"] = x
    BY <2>1, <2>2, PileMoved
  <2>4. up[y] = x /\ down[x] = y
    BY <2>1, <2>3
  <2>. QED  BY <2>3, <2>4
<1>4. IsFiniteSet(I) /\ IsFiniteSet(U)
  <2>1. IsFiniteSet(I)
    BY <1>1, FS_Subset
  <2>2. down \in Surjection(I, U)
    BY <1>2, <1>3 DEF Surjection
  <2> HIDE DEF down, I, U
  <2>. QED  BY <2>1, <2>2, FS_Surjection
<1>5. \A y \in U : C[y] = piles[up[y]]
  OBVIOUS
<1>6. GoodHeap(C)
  <2>1. C = [y \in U |-> C[y]] /\ DOMAIN C = U
    OBVIOUS
  <2>2. \A y \in U : C[y] \in Nat /\ C[y] > 0
    BY <1>1, <1>3, <1>5
  <2>3. U \subseteq GoodPile
    BY <1>3
  <2> HIDE DEF C, U
  <2>4. C \in [U -> {n \in Nat : n > 0}]
    BY <2>1, <2>2
  <2>. QED  BY <1>4, <2>1, <2>3, <2>4 DEF GoodHeap, IsABag
<1>7. ASSUME NEW w \in [Pile -> Int], Placeless(w)
      PROVE  InHeap(C, w) = SumOf([x \in I |-> piles[x] * w[x]], I)
  <2> DEFINE F == [x \in I |-> piles[x] * w[x]]
             H == [y \in U |-> C[y] * w[y]]
  <2>1. \A x \in I : F[x] \in Int
    BY HeapParts
  <2>2. \A y \in U : H[y] = F[up[y]]
    <3>1. ASSUME NEW y \in U PROVE w[up[y]] = w[y]
      BY <1>3, <1>7 DEF Placeless
    <3>2. \A y \in U : F[up[y]] = piles[up[y]] * w[up[y]] /\ H[y] = C[y] * w[y]
      BY <1>3
    <3> HIDE DEF F, H, U, C, up
    <3>. QED  BY <1>5, <3>1, <3>2
  <2>3. InHeap(C, w) = SumOf(H, U)
    BY DEF InHeap
  <2> HIDE DEF F, H, C, U, I, up, down
  <2>4. SumOf(H, U) = SumOf(F, I)
    BY <1>2, <1>3, <1>4, <2>1, <2>2, TotalRenamed
  <2>. QED  BY <2>3, <2>4 DEF F
<1>. QED  BY <1>6, <1>7

-----------------------------------------------------------------------------
(***************************************************************************)
(* Purses.                                                                 *)
(***************************************************************************)
\* What the purses of u come to where a sum comes to what v says.
InPurses(u, v) == SumOf([c \in Who |-> v[u[c]]], Who)

\* Sums come to what their parts come to.
Additive(v) == v \in [Sum -> Int] /\ \A x, y \in Sum : v[Plus(x, y)] = v[x] + v[y]

LEMMA WhoFinite == IsFiniteSet(Who)
BY CoinsAssumption, FS_Union DEF Who

LEMMA SumIs ==
  /\ \A s, g, b \in Nat : Coins(s, g, b) \in Sum
  /\ \A x \in Sum : x.s \in Nat /\ x.g \in Nat /\ x.b \in Nat /\ x = Coins(x.s, x.g, x.b)
  /\ NoCoins \in Sum
BY DEF Coins, Sum, NoCoins

LEMMA PlusIs ==
  ASSUME NEW x \in Sum, NEW y \in Sum
  PROVE  /\ Plus(x, y) \in Sum
         /\ Plus(x, y).b = x.b + y.b
         /\ Has(x, y) => Minus(x, y) \in Sum /\ Plus(Minus(x, y), y) = x
                         /\ Minus(x, y).b = x.b - y.b
BY DEF Sum, Plus, Minus, Coins, Has

LEMMA MinusComes ==
  ASSUME NEW v, Additive(v), NEW x \in Sum, NEW y \in Sum, Has(x, y)
  PROVE  /\ v[Minus(x, y)] = v[x] - v[y]
         /\ v[x] \in Int /\ v[y] \in Int
<1>1. Minus(x, y) \in Sum /\ Plus(Minus(x, y), y) = x
  BY PlusIs
<1>2. v[x] \in Int /\ v[y] \in Int /\ v[Minus(x, y)] \in Int
  BY <1>1 DEF Additive
<1>3. v[Plus(Minus(x, y), y)] = v[Minus(x, y)] + v[y]
  BY <1>1 DEF Additive
<1>. QED  BY <1>1, <1>2, <1>3

LEMMA PursesInt ==
  ASSUME NEW u \in [Who -> Sum], NEW v \in [Sum -> Int]
  PROVE  InPurses(u, v) \in Int
<1> DEFINE F == [c \in Who |-> v[u[c]]]
<1>1. \A c \in Who : F[c] \in Int
  OBVIOUS
<1> HIDE DEF F
<1>. QED  BY <1>1, WhoFinite, TotalInt DEF InPurses, F

\* One purse has changed.
LEMMA PurseChange ==
  ASSUME NEW u \in [Who -> Sum], NEW t \in [Who -> Sum], NEW v \in [Sum -> Int],
         NEW c \in Who, \A q \in Who \ {c} : t[q] = u[q]
  PROVE  InPurses(t, v) = InPurses(u, v) + v[t[c]] - v[u[c]]
<1> DEFINE F == [d \in Who |-> v[u[d]]]
           G == [d \in Who |-> v[t[d]]]
<1>1. /\ \A d \in Who : F[d] \in Int /\ G[d] \in Int
      /\ \A d \in Who : d # c => G[d] = F[d]
      /\ G[c] = v[t[c]] /\ F[c] = v[u[c]]
  OBVIOUS
<1> HIDE DEF F, G
<1>2. SumOf(G, Who) = SumOf(F, Who) + G[c] - F[c]
  BY <1>1, WhoFinite, TotalChange
<1>. QED  BY <1>1, <1>2 DEF InPurses, F, G

\* Two purses have changed.
LEMMA PurseChangeTwo ==
  ASSUME NEW u \in [Who -> Sum], NEW t \in [Who -> Sum], NEW v \in [Sum -> Int],
         NEW c \in Who, NEW d \in Who, c # d, \A q \in Who \ {c, d} : t[q] = u[q]
  PROVE  InPurses(t, v) = InPurses(u, v) + v[t[c]] - v[u[c]] + v[t[d]] - v[u[d]]
<1> DEFINE r == [u EXCEPT ![c] = t[c]]
<1>1. /\ r \in [Who -> Sum] /\ r[c] = t[c] /\ r[d] = u[d]
      /\ \A q \in Who \ {c} : r[q] = u[q]
      /\ \A q \in Who \ {d} : t[q] = r[q]
  OBVIOUS
<1> HIDE DEF r
<1>2. InPurses(r, v) = InPurses(u, v) + v[r[c]] - v[u[c]]
  BY <1>1, PurseChange
<1>3. InPurses(t, v) = InPurses(r, v) + v[t[d]] - v[r[d]]
  BY <1>1, PurseChange
<1>. QED  BY <1>1, <1>2, <1>3

-----------------------------------------------------------------------------
(* Whole numbers *)

LEMMA DivIs ==
  ASSUME NEW a \in Nat, NEW n \in Nat \ {0}
  PROVE  /\ a \div n \in Nat /\ a % n \in Nat
         /\ n * (a \div n) + (a % n) = a
         /\ a % n < n
OBVIOUS

LEMMA TimesLess ==
  ASSUME NEW m \in Nat, NEW n \in Nat, m <= n, NEW a \in Nat
  PROVE  m * a <= n * a /\ m * a \in Nat
OBVIOUS

LEMMA TimesOrder ==
  ASSUME NEW r \in Nat \ {0}, NEW a \in Nat, NEW c \in Nat, r * a < r * (c + 1)
  PROVE  a <= c
<1>. SUFFICES ASSUME a >= c + 1 PROVE FALSE
  OBVIOUS
<1>1. (c + 1) * r <= a * r
  BY TimesLess
<1>. QED  BY <1>1

\* m shares of a, where a payer who is not counted pays one less than it gives.
LEMMA SharesFit ==
  ASSUME NEW a \in Nat, NEW n \in Nat, n > 1, NEW m \in Nat, m <= n, NEW c \in {0, 1}
  PROVE  /\ a \div n \in Nat /\ m * (a \div n) \in Nat
         /\ (m - c) * (a \div n) \in Int /\ (m - c) * (a \div n) <= a
         /\ 2 * (a \div n) <= a
<1> DEFINE k == a \div n
<1>1. k \in Nat /\ n * k <= a /\ n * k \in Nat
  BY DivIs
<1> HIDE DEF k
<1>2. m * k <= n * k /\ m * k \in Nat /\ 2 * k <= n * k
  BY <1>1, TimesLess
<1>3. (m - c) * k = m * k - c * k /\ c * k \in Nat
  BY <1>1
<1>. QED  BY <1>1, <1>2, <1>3 DEF k

\* How many of r are needed for n.
LEMMA CeilIs ==
  ASSUME NEW r \in Nat \ {0}, NEW n \in Nat \ {0}, NEW g \in Nat, n <= r * g
  PROVE  LET q == (n + (r - 1)) \div r
         IN  q \in Nat /\ q <= g /\ n <= r * q /\ r * q \in Nat
<1> DEFINE a == n + (r - 1)
           q == a \div r
           m == a % r
<1>1. a \in Nat /\ a = n + (r - 1)
  OBVIOUS
<1> HIDE DEF a
<1>2. q \in Nat /\ m \in Nat /\ r * q + m = a /\ m < r
  BY <1>1, DivIs
<1> HIDE DEF q, m
<1>3. r * q \in Nat /\ r * g \in Nat /\ r * (g + 1) = r * g + r
  BY <1>2
<1>4. n <= r * q
  BY <1>1, <1>2, <1>3
<1>5. r * q < r * (g + 1)
  BY <1>1, <1>2, <1>3
<1>6. q <= g
  BY <1>2, <1>5, TimesOrder
<1>. QED  BY <1>2, <1>3, <1>4, <1>6 DEF q, a

-----------------------------------------------------------------------------
(* What sums are worth *)

WorthOf  == [x \in Sum |-> Worth(x)]
BronzeOf == [x \in Sum |-> x.b]
WorthIn  == [x \in Pile |-> Worth(x)]
BronzeIn == [x \in Pile |-> x.b]

LEMMA RateNat == Rate \in Nat /\ Rate > 0
BY CoinsAssumption

LEMMA WorthAdds ==
  ASSUME NEW x \in Sum, NEW y \in Sum
  PROVE  Worth(Plus(x, y)) = Worth(x) + Worth(y) /\ Worth(x) \in Nat
<1>1. /\ x.s \in Nat /\ x.g \in Nat /\ y.s \in Nat /\ y.g \in Nat
      /\ Plus(x, y).s = x.s + y.s /\ Plus(x, y).g = x.g + y.g
  BY DEF Sum, Plus, Coins
<1>. QED  BY <1>1, RateNat DEF Worth

LEMMA ValuesAdd == Additive(WorthOf) /\ Additive(BronzeOf)
<1>1. Additive(WorthOf)
  <2>1. WorthOf \in [Sum -> Int] /\ \A x \in Sum : WorthOf[x] = Worth(x)
    BY WorthAdds DEF WorthOf
  <2>. QED  BY <2>1, WorthAdds, PlusIs DEF Additive
<1>2. Additive(BronzeOf)
  BY PlusIs, SumIs DEF Additive, BronzeOf
<1>. QED  BY <1>1, <1>2

LEMMA ValuesPlace ==
  /\ WorthIn \in [Pile -> Int] /\ BronzeIn \in [Pile -> Int]
  /\ Placeless(WorthIn) /\ Placeless(BronzeIn)
<1>1. ASSUME NEW x \in Pile PROVE Worth(x) \in Int /\ x.b \in Int
  BY RateNat DEF Pile, Worth
<1>2. WorthIn \in [Pile -> Int] /\ BronzeIn \in [Pile -> Int]
  BY <1>1 DEF WorthIn, BronzeIn
<1>3. ASSUME NEW x \in Pile, NEW a \in {"ground", "corpse"}
      PROVE  LET y == [x EXCEPT !.at = a]
             IN  WorthIn[y] = WorthIn[x] /\ BronzeIn[y] = BronzeIn[x]
  <2> DEFINE y == [x EXCEPT !.at = a]
  <2>1. y \in Pile /\ y.s = x.s /\ y.g = x.g /\ y.b = x.b
    BY PileMoved
  <2> HIDE DEF y
  <2>2. WorthIn[y] = Worth(y) /\ WorthIn[x] = Worth(x)
    BY <2>1 DEF WorthIn
  <2>3. BronzeIn[y] = y.b /\ BronzeIn[x] = x.b
    BY <2>1 DEF BronzeIn
  <2>. QED  BY <2>1, <2>2, <2>3 DEF Worth, y
<1>. QED  BY <1>2, <1>3 DEF Placeless

\* Silver first, and the change out of gold in silver.
LEMMA DeductIs ==
  ASSUME NEW x \in Sum, NEW cost \in Nat \ {0}, Worth(x) >= cost
  PROVE  /\ Deduct(x, cost) \in Sum /\ Deduct(x, cost).b = x.b
         /\ Worth(Deduct(x, cost)) = Worth(x) - cost
<1> DEFINE k == GoldFor(x.s, cost)
           d == Deduct(x, cost)
<1>1. x.s \in Nat /\ x.g \in Nat /\ x.b \in Nat /\ x.s + Rate * x.g >= cost
      /\ Rate \in Nat /\ Rate > 0
  BY RateNat DEF Sum, Worth
<1>2. k \in Nat /\ k <= x.g /\ cost - Rate * k <= x.s /\ Rate * k \in Nat
  <2>1. CASE x.s >= cost
    BY <1>1, <2>1 DEF GoldFor
  <2>2. CASE x.s < cost
    <3> DEFINE r == Rate
               n == cost - x.s
               g == x.g
    <3>1. r \in Nat \ {0} /\ n \in Nat \ {0} /\ g \in Nat /\ n <= r * g
      <4>1. Rate * x.g \in Nat
        BY <1>1
      <4>. QED  BY <1>1, <2>2, <4>1
    <3>2. k = (n + (r - 1)) \div r
      <4>1. ~ (x.s >= cost) /\ cost - x.s + Rate - 1 = n + (r - 1)
        BY <1>1, <2>2
      <4>. QED  BY <4>1 DEF GoldFor
    <3>3. x.s = cost - n
      BY <1>1
    <3> HIDE DEF r, n, g, k
    <3>4. k \in Nat /\ k <= g /\ n <= r * k /\ r * k \in Nat
      BY <3>1, <3>2, CeilIs
    <3>5. cost - r * k <= cost - n
      BY <3>1, <3>4
    <3>. QED  BY <3>3, <3>4, <3>5 DEF r, g
  <2>. QED  BY <1>1, <2>1, <2>2
<1>3. d = [x EXCEPT !.g = @ - k, !.s = @ - (cost - Rate * k)]
  BY DEF Deduct
<1> HIDE DEF k, d
<1>4. d.s = x.s - (cost - Rate * k) /\ d.g = x.g - k /\ d.b = x.b
  BY <1>3 DEF Sum
<1>5. d.s \in Nat /\ d.g \in Nat
  BY <1>1, <1>2, <1>4
<1>6. d \in Sum
  BY <1>1, <1>3, <1>4, <1>5 DEF Sum
<1>7. d.s + Rate * d.g = x.s + Rate * x.g - cost
  BY <1>1, <1>2, <1>4
<1>8. Worth(d) = Worth(x) - cost
  <2>1. Rate * x.g \in Nat
    BY <1>1
  <2>. QED  BY <1>1, <1>7, <2>1 DEF Worth
<1>. QED  BY <1>4, <1>6, <1>8 DEF d

LEMMA PriceIs ==
  ASSUME NEW cost \in Nat \ {0}
  PROVE  Price(cost) \in Sum /\ Price(cost).b = 0 /\ Worth(Price(cost)) = cost
<1>1. cost % Rate \in Nat /\ cost \div Rate \in Nat /\ Rate * (cost \div Rate) + (cost % Rate) = cost
  BY DivIs, RateNat
<1>2. Price(cost).s = cost % Rate /\ Price(cost).g = cost \div Rate /\ Price(cost).b = 0
      /\ Price(cost) \in Sum
  BY <1>1 DEF Price, Coins, Sum
<1>. QED  BY <1>1, <1>2, RateNat DEF Worth

\* What create_money() makes of a sum.
LEMMA MoneyIs ==
  ASSUME NEW at \in {"ground", "corpse"}, NEW x \in Sum
  PROVE  LET m == Money(at, x)
         IN  /\ m \in GoodPile
             /\ x = NoCoins => Worth(m) = Slip /\ m.b = 0
             /\ x.s > 0 \/ x.g > 0 => Worth(m) = Worth(x) /\ m.b = 0
             /\ x.s = 0 /\ x.g = 0 /\ x # NoCoins =>
                  x.b > 0 /\ Worth(m) = (IF x.b = 1 THEN 1 ELSE 0) /\ m.b = x.b
<1> DEFINE m == Money(at, x)
<1>1. x.s \in Nat /\ x.g \in Nat /\ x.b \in Nat /\ x = Coins(x.s, x.g, x.b)
  BY SumIs
<1>2. Rate * 1 = Rate /\ Rate * 0 = 0 /\ Rate \in Nat
  BY RateNat
<1>3. CASE x = NoCoins
  <2>1. m = [at |-> at, of |-> "coins", s |-> 1, g |-> 1, b |-> 0]
    BY <1>3 DEF Money, Coins
  <2>2. x.s = 0 /\ x.g = 0
    BY <1>3 DEF NoCoins, Coins
  <2>. QED  BY <1>2, <1>3, <2>1, <2>2 DEF GoodPile, Pile, Worth, Slip
<1>4. CASE x # NoCoins /\ (x.s > 0 \/ x.g > 0)
  <2>1. m = [at |-> at, of |-> "coins", s |-> x.s, g |-> x.g, b |-> 0]
    BY <1>1, <1>4 DEF Money
  <2>. QED  BY <1>1, <1>4, <2>1 DEF GoodPile, Pile, Worth
<1>5. CASE x # NoCoins /\ x.s = 0 /\ x.g = 0
  <2>1. m = [at |-> at, of |-> "bronze", s |-> IF x.b = 1 THEN 1 ELSE 0, g |-> 0, b |-> x.b]
    BY <1>5 DEF Money
  <2>2. x.b > 0
    BY <1>1, <1>5 DEF NoCoins
  <2>. QED  BY <1>1, <1>2, <1>5, <2>1, <2>2 DEF GoodPile, Pile, Worth
<1>. QED  BY <1>1, <1>3, <1>4, <1>5

\* One more pile.
LEMMA OneMore ==
  ASSUME NEW B, GoodHeap(B), NEW at \in {"ground", "corpse"}, NEW x \in Sum
  PROVE  /\ GoodHeap(B (+) One(at, x))
         /\ InHeap(B (+) One(at, x), WorthIn) = InHeap(B, WorthIn) + Worth(Money(at, x))
         /\ InHeap(B (+) One(at, x), BronzeIn) = InHeap(B, BronzeIn) + Money(at, x).b
<1> DEFINE m == Money(at, x)
<1>1. m \in GoodPile /\ m \in Pile
  BY MoneyIs DEF GoodPile
<1> HIDE DEF m
<1>2. /\ GoodHeap(SetToBag({m}))
      /\ InHeap(SetToBag({m}), WorthIn) = WorthIn[m]
      /\ InHeap(SetToBag({m}), BronzeIn) = BronzeIn[m]
  BY <1>1, HeapOne, ValuesPlace
<1>3. WorthIn[m] = Worth(m) /\ BronzeIn[m] = m.b
  BY <1>1 DEF WorthIn, BronzeIn
<1>4. One(at, x) = SetToBag({m})
  BY DEF One, m
<1> DEFINE C == One(at, x)
<1> HIDE DEF C
<1>5. /\ GoodHeap(C) /\ InHeap(C, WorthIn) = Worth(m) /\ InHeap(C, BronzeIn) = m.b
  BY <1>2, <1>3, <1>4 DEF C
<1>6. /\ GoodHeap(B (+) C)
      /\ InHeap(B (+) C, WorthIn) = InHeap(B, WorthIn) + InHeap(C, WorthIn)
      /\ InHeap(B (+) C, BronzeIn) = InHeap(B, BronzeIn) + InHeap(C, BronzeIn)
  BY <1>5, HeapAdd, ValuesPlace
<1>. QED  BY <1>5, <1>6 DEF C, m

\* The same where nothing may be left.
LEMMA RestMore ==
  ASSUME NEW B, GoodHeap(B), NEW at \in {"ground", "corpse"}, NEW x \in Sum, x.b = 0
  PROVE  /\ GoodHeap(B (+) Rest(at, x))
         /\ InHeap(B (+) Rest(at, x), WorthIn) = InHeap(B, WorthIn) + Worth(x)
         /\ InHeap(B (+) Rest(at, x), BronzeIn) = InHeap(B, BronzeIn)
<1>0. InHeap(B, WorthIn) \in Int /\ InHeap(B, BronzeIn) \in Int
  BY HeapParts, ValuesPlace
<1>1. CASE x = NoCoins
  <2>1. Rest(at, x) = EmptyBag
    BY <1>1 DEF Rest
  <2>2. /\ GoodHeap(B (+) EmptyBag)
        /\ InHeap(B (+) EmptyBag, WorthIn) = InHeap(B, WorthIn) + InHeap(EmptyBag, WorthIn)
        /\ InHeap(B (+) EmptyBag, BronzeIn) = InHeap(B, BronzeIn) + InHeap(EmptyBag, BronzeIn)
    BY HeapAdd, HeapNone, ValuesPlace
  <2>3. Worth(x) = 0
    BY <1>1, RateNat DEF Worth, NoCoins, Coins
  <2>. QED  BY <1>0, <2>1, <2>2, <2>3, HeapNone
<1>2. CASE x # NoCoins
  <2>1. Rest(at, x) = One(at, x)
    BY <1>2 DEF Rest
  <2>2. x.s > 0 \/ x.g > 0
    BY <1>2, SumIs DEF NoCoins
  <2>3. Worth(Money(at, x)) = Worth(x) /\ Money(at, x).b = 0
    BY <2>2, MoneyIs
  <2>. QED  BY <1>0, <2>1, <2>3, OneMore
<1>. QED  BY <1>1, <1>2

\* What p mints who divides x among M.
Minted(p, M, x) ==
    IF p \in M THEN 0
    ELSE Worth(Coins(x.s \div Cardinality(M), x.g \div Cardinality(M), 0))

\* do_split(): the shares leave p's purse for those of R, but for the one that p keeps
\* without being counted.
LEMMA SplitKeeps ==
  ASSUME NEW u \in [Who -> Sum], NEW p \in Who, NEW M \in SUBSET Who, Cardinality(M) > 1,
         NEW R \in SUBSET (M \ {p}), NEW x \in Sum, u[p].s >= x.s, u[p].g >= x.g
  PROVE  LET t == Split(u, p, M, R, x)
             e == Minted(p, M, x)
         IN  /\ e \in Nat /\ 2 * e <= Worth(x)
             /\ t \in [Who -> Sum] /\ \A q \in Who : t[q].b = u[q].b
             /\ InPurses(t, WorthOf) = InPurses(u, WorthOf) + e
             /\ InPurses(t, BronzeOf) = InPurses(u, BronzeOf)
<1> DEFINE t == Split(u, p, M, R, x)
           e == Minted(p, M, x)
           n == Cardinality(M)
           c == IF p \in M THEN 0 ELSE 1
           m == Cardinality(R)
           s == x.s \div n
           g == x.g \div n
           share == Coins(s, g, 0)
           k == Worth(share)
           paid == Coins((m - c) * s, (m - c) * g, 0)
<1>1. /\ IsFiniteSet(R) /\ m \in Nat /\ R \subseteq Who /\ p \notin R /\ IsFiniteSet(Who)
      /\ n \in Nat /\ n > 1 /\ m <= n /\ c \in {0, 1} /\ (p \in M => c = 0) /\ (p \notin M => c = 1)
  <2>1. IsFiniteSet(Who) /\ IsFiniteSet(M) /\ R \subseteq M /\ R \subseteq Who /\ p \notin R
    BY WhoFinite, FS_Subset
  <2>2. IsFiniteSet(R) /\ m <= n /\ m \in Nat /\ n \in Nat
    BY <2>1, FS_Subset, FS_CardinalityType
  <2>. QED  BY <2>1, <2>2
<1>2. /\ x.s \in Nat /\ x.g \in Nat /\ \A q \in Who : u[q] \in Sum
  BY SumIs
<1> HIDE DEF m, n, c
<1>3. /\ s \in Nat /\ (m - c) * s \in Int /\ (m - c) * s <= x.s /\ 2 * s <= x.s
      /\ g \in Nat /\ (m - c) * g \in Int /\ (m - c) * g <= x.g /\ 2 * g <= x.g
  BY <1>1, <1>2, SharesFit
<1>4. t = [q \in Who |-> IF q \in R THEN Plus(u[q], share)
                         ELSE IF q = p THEN Minus(u[q], paid) ELSE u[q]]
  <2>1. share.s = s /\ share.g = g
    BY DEF Coins
  <2>2. t = [q \in Who |-> IF q \in R THEN Plus(u[q], share)
                           ELSE IF q = p
                                THEN Minus(u[q], Coins((m - c) * share.s, (m - c) * share.g, 0))
                           ELSE u[q]]
    BY DEF Split, m, n, c
  <2> HIDE DEF t, s, g, share
  <2>. QED  BY <2>1, <2>2
<1> HIDE DEF t, s, g
<1>5. share \in Sum /\ share.b = 0 /\ k \in Nat /\ k = s + Rate * g /\ Rate * g \in Nat
  <2>1. share \in Sum /\ share.s = s /\ share.g = g /\ share.b = 0
    BY <1>3, SumIs DEF Coins
  <2> HIDE DEF share
  <2>2. Rate * g \in Nat
    BY <1>3, RateNat
  <2>. QED  BY <1>3, <2>1, <2>2 DEF Worth
<1>6. /\ t[p] \in Sum /\ t[p].b = u[p].b /\ Worth(t[p]) = Worth(u[p]) - (m - c) * k
      /\ (m - c) * k \in Int
  <2>1. u[p].s \in Nat /\ u[p].g \in Nat /\ u[p].b \in Nat
    BY <1>2, SumIs
  <2>2. /\ t[p] = Coins(u[p].s - (m - c) * s, u[p].g - (m - c) * g, u[p].b - 0)
    <3>1. t[p] = Minus(u[p], paid)
      BY <1>1, <1>4
    <3>2. paid.s = (m - c) * s /\ paid.g = (m - c) * g /\ paid.b = 0
      BY DEF Coins
    <3> HIDE DEF paid
    <3>. QED  BY <3>1, <3>2 DEF Minus
  <2>3. /\ u[p].s - (m - c) * s \in Nat /\ u[p].g - (m - c) * g \in Nat
    BY <1>2, <1>3, <2>1
  <2>4. /\ t[p].s = u[p].s - (m - c) * s /\ t[p].g = u[p].g - (m - c) * g
        /\ t[p].b = u[p].b /\ t[p] \in Sum
    BY <2>1, <2>2, <2>3, SumIs DEF Coins
  <2>5. Rate * (u[p].g - (m - c) * g) = Rate * u[p].g - (m - c) * (Rate * g)
    BY <1>1, <1>3, <2>1, RateNat
  <2>6. (m - c) * k = (m - c) * s + (m - c) * (Rate * g)
    <3> HIDE DEF k
    <3>. QED  BY <1>1, <1>3, <1>5
  <2>7. Rate * u[p].g \in Nat /\ (m - c) * (Rate * g) \in Int
    BY <1>1, <1>5, <2>1, RateNat
  <2> HIDE DEF k
  <2>. QED  BY <1>3, <2>1, <2>4, <2>5, <2>6, <2>7 DEF Worth
<1>7. e \in Nat /\ e = c * k /\ 2 * e <= Worth(x)
  <2>1. e = IF p \in M THEN 0 ELSE k
    BY DEF Minted, n, s, g
  <2>2. 2 * k <= Worth(x) /\ Worth(x) \in Nat
    <3>1. Rate * (2 * g) <= Rate * x.g
      <4>1. 2 * g <= x.g /\ 2 * g \in Nat
        BY <1>3
      <4>. QED  BY <1>2, <4>1, RateNat
    <3>2. Rate * (2 * g) = 2 * (Rate * g) /\ Rate * x.g \in Nat
      BY <1>2, <1>3, RateNat
    <3> HIDE DEF k
    <3>. QED  BY <1>2, <1>3, <1>5, <3>1, <3>2 DEF Worth
  <2> HIDE DEF e, k
  <2>. QED  BY <1>1, <1>5, <2>1, <2>2
<1> HIDE DEF share, paid, e
<1>8. t \in [Who -> Sum] /\ \A q \in Who : t[q].b = u[q].b
  <2>. SUFFICES ASSUME NEW q \in Who PROVE t[q] \in Sum /\ t[q].b = u[q].b
    BY <1>4
  <2>1. u[q].b \in Nat
    BY <1>2, SumIs
  <2>2. CASE q \in R
    BY <1>2, <1>4, <1>5, <2>1, <2>2, PlusIs
  <2>3. CASE q = p
    BY <1>6, <2>3
  <2>4. CASE q \notin R /\ q # p
    BY <1>2, <1>4, <2>4
  <2>. QED  BY <2>2, <2>3, <2>4
<1>9. InPurses(t, BronzeOf) = InPurses(u, BronzeOf)
  <2> DEFINE F == [q \in Who |-> BronzeOf[u[q]]]
             G == [q \in Who |-> BronzeOf[t[q]]]
  <2>1. \A q \in Who : G[q] \in Int /\ G[q] = F[q]
    BY <1>2, <1>8, SumIs DEF BronzeOf
  <2> HIDE DEF F, G
  <2>2. SumOf(G, Who) = SumOf(F, Who)
    BY <1>1, <2>1, TotalSame
  <2>. QED  BY <2>2 DEF InPurses, F, G
<1>10. InPurses(t, WorthOf) = InPurses(u, WorthOf) + e
  <2> DEFINE F == [q \in Who |-> WorthOf[u[q]]]
             D == [q \in Who |-> IF q \in R THEN k ELSE IF q = p THEN - ((m - c) * k) ELSE 0]
             G == [q \in Who |-> WorthOf[t[q]]]
             P == R \cup {p}
  <2>1. ASSUME NEW q \in Who PROVE F[q] \in Int /\ D[q] \in Int /\ G[q] = F[q] + D[q]
    <3>1. F[q] = Worth(u[q]) /\ G[q] = Worth(t[q]) /\ Worth(u[q]) \in Nat
      BY <1>2, <1>8, WorthAdds DEF WorthOf
    <3>2. CASE q \in R
      <4>1. Worth(t[q]) = Worth(u[q]) + k
        BY <1>2, <1>4, <1>5, <3>2, WorthAdds
      <4>. QED  BY <1>5, <3>1, <3>2, <4>1
    <3>3. CASE q = p
      <4>1. D[q] = - ((m - c) * k)
        BY <1>1, <3>3
      <4> HIDE DEF k
      <4>. QED  BY <1>6, <3>1, <3>3, <4>1
    <3>4. CASE q \notin R /\ q # p
      BY <1>4, <3>1, <3>4
    <3>. QED  BY <3>2, <3>3, <3>4
  <2>2. IsFiniteSet(P) /\ P \subseteq Who /\ (\A q \in Who \ P : D[q] = 0)
    <3>1. IsFiniteSet({p})
      BY FS_Singleton
    <3>. QED  BY <1>1, <3>1, FS_Union
  <2>3. (\A q \in R : D[q] = k) /\ D[p] = - ((m - c) * k) /\ p \in P /\ P \ {p} = R
    BY <1>1
  <2>4. \A q \in Who : D[q] \in Int
    BY <2>1
  <2> HIDE DEF F, D, G, P, k
  <2>5. SumOf(G, Who) = SumOf(F, Who) + SumOf(D, Who)
    BY <1>1, <2>1, TotalAdds
  <2>6. SumOf(D, Who) = SumOf(D, P)
    BY <1>1, <2>2, <2>4, TotalZeros
  <2>7. SumOf(D, P) = D[p] + SumOf(D, P \ {p})
    BY <2>2, <2>3, <2>4, TotalOne
  <2>8. SumOf(D, P \ {p}) = SumOf(D, R)
    BY <2>3, Zenon
  <2>9. SumOf(D, R) = m * k
    <3>1. k \in Int
      BY <1>5
    <3>. QED  BY <1>1, <2>3, <3>1, TotalConst DEF m
  <2>10. SumOf(D, Who) = e
    <3>1. k \in Nat /\ m \in Nat /\ c \in {0, 1}
      BY <1>1, <1>5
    <3>2. (m - c) * k = m * k - c * k /\ m * k \in Nat /\ c * k \in Nat
      BY <3>1
    <3>. QED  BY <1>7, <2>3, <2>6, <2>7, <2>8, <2>9, <3>2
  <2>11. SumOf(F, Who) \in Int
    BY <1>1, <2>1, TotalInt
  <2>. QED  BY <2>5, <2>10, <2>11 DEF InPurses, F, G
<1>. QED  BY <1>7, <1>8, <1>9, <1>10 DEF t, e

-----------------------------------------------------------------------------
(***************************************************************************)
(* The invariant, and what a step does to the two sums.                    *)
(***************************************************************************)
CoinsInv ==
    /\ purse \in [Who -> Sum] /\ \A c \in Mob : purse[c].b = 0
    /\ GoodHeap(piles)

\* With t for purses there are w more of silver and gold and a more of bronze in them.
PurseStep(t, w, a) ==
    /\ t \in [Who -> Sum] /\ \A c \in Mob : t[c].b = 0
    /\ InPurses(t, WorthOf) = InPurses(purse, WorthOf) + w
    /\ InPurses(t, BronzeOf) = InPurses(purse, BronzeOf) + a

\* The same of the piles.
HeapStep(B, w, a) ==
    /\ GoodHeap(B)
    /\ InHeap(B, WorthIn) = InHeap(piles, WorthIn) + w
    /\ InHeap(B, BronzeIn) = InHeap(piles, BronzeIn) + a

\* The sums of the module, of any purses and piles.
LEMMA SumsAre ==
  ASSUME NEW u \in [Who -> Sum], NEW B, GoodHeap(B)
  PROVE  /\ SumOf([c \in Who |-> Worth(u[c])], Who) = InPurses(u, WorthOf)
         /\ SumOf([c \in Who |-> u[c].b], Who) = InPurses(u, BronzeOf)
         /\ SumOf([x \in DOMAIN B |-> B[x] * [y \in Pile |-> Worth(y)][x]], DOMAIN B)
              = InHeap(B, WorthIn)
         /\ SumOf([x \in DOMAIN B |-> B[x] * [y \in Pile |-> y.b][x]], DOMAIN B)
              = InHeap(B, BronzeIn)
         /\ InPurses(u, WorthOf) \in Int /\ InPurses(u, BronzeOf) \in Int
         /\ InHeap(B, WorthIn) \in Int /\ InHeap(B, BronzeIn) \in Int
<1>1. SumOf([c \in Who |-> Worth(u[c])], Who) = InPurses(u, WorthOf)
  <2> DEFINE F == [c \in Who |-> Worth(u[c])]
             G == [c \in Who |-> WorthOf[u[c]]]
  <2>1. \A c \in Who : F[c] \in Int /\ F[c] = G[c]
    BY WorthAdds DEF WorthOf
  <2> HIDE DEF F, G
  <2>2. SumOf(F, Who) = SumOf(G, Who)
    BY <2>1, WhoFinite, TotalSame
  <2>. QED  BY <2>2 DEF F, G, InPurses
<1>2. SumOf([c \in Who |-> u[c].b], Who) = InPurses(u, BronzeOf)
  <2> DEFINE F == [c \in Who |-> u[c].b]
             G == [c \in Who |-> BronzeOf[u[c]]]
  <2>1. \A c \in Who : F[c] \in Int /\ F[c] = G[c]
    BY SumIs DEF BronzeOf
  <2> HIDE DEF F, G
  <2>2. SumOf(F, Who) = SumOf(G, Who)
    BY <2>1, WhoFinite, TotalSame
  <2>. QED  BY <2>2 DEF F, G, InPurses
<1>3. /\ InPurses(u, WorthOf) \in Int /\ InPurses(u, BronzeOf) \in Int
      /\ InHeap(B, WorthIn) \in Int /\ InHeap(B, BronzeIn) \in Int
  BY PursesInt, HeapParts, ValuesAdd, ValuesPlace DEF Additive
<1>. QED  BY <1>1, <1>2, <1>3 DEF InHeap, WorthIn, BronzeIn

LEMMA TotalsAre ==
  ASSUME CoinsInv
  PROVE  /\ Total = InPurses(purse, WorthOf) + InHeap(piles, WorthIn)
         /\ Bronze = InPurses(purse, BronzeOf) + InHeap(piles, BronzeIn)
         /\ Total \in Int /\ Bronze \in Int
<1>1. purse \in [Who -> Sum] /\ GoodHeap(piles)
  BY DEF CoinsInv
<1>2. /\ Total = InPurses(purse, WorthOf) + InHeap(piles, WorthIn)
      /\ Bronze = InPurses(purse, BronzeOf) + InHeap(piles, BronzeIn)
  BY <1>1, SumsAre DEF Total, Bronze, InPiles
<1>3. /\ InPurses(purse, WorthOf) \in Int /\ InPurses(purse, BronzeOf) \in Int
      /\ InHeap(piles, WorthIn) \in Int /\ InHeap(piles, BronzeIn) \in Int
  BY <1>1, SumsAre
<1>. QED  BY <1>2, <1>3

LEMMA StepIs ==
  ASSUME CoinsInv, NEW w \in Int, NEW a \in Int, NEW y \in Int, NEW d \in Int,
         PurseStep(purse', w, a), HeapStep(piles', y, d)
  PROVE  /\ CoinsInv'
         /\ Total' = Total + w + y /\ Bronze' = Bronze + a + d
         /\ Total \in Int /\ Bronze \in Int
<1>1. CoinsInv'
  BY DEF PurseStep, HeapStep, CoinsInv
<1>2. /\ Total' = InPurses(purse', WorthOf) + InHeap(piles', WorthIn)
      /\ Bronze' = InPurses(purse', BronzeOf) + InHeap(piles', BronzeIn)
  BY SumsAre DEF PurseStep, HeapStep, Total, Bronze, InPiles
<1>3. /\ InPurses(purse, WorthOf) \in Int /\ InPurses(purse, BronzeOf) \in Int
      /\ InHeap(piles, WorthIn) \in Int /\ InHeap(piles, BronzeIn) \in Int
  BY SumsAre DEF CoinsInv
<1>. QED  BY <1>1, <1>2, <1>3, TotalsAre DEF PurseStep, HeapStep

LEMMA NoStep ==
  ASSUME CoinsInv
  PROVE  PurseStep(purse, 0, 0) /\ HeapStep(piles, 0, 0)
<1>1. /\ InPurses(purse, WorthOf) \in Int /\ InPurses(purse, BronzeOf) \in Int
      /\ InHeap(piles, WorthIn) \in Int /\ InHeap(piles, BronzeIn) \in Int
  BY SumsAre DEF CoinsInv
<1>. QED  BY <1>1 DEF CoinsInv, PurseStep, HeapStep

LEMMA Values ==
  ASSUME NEW x \in Sum
  PROVE  /\ WorthOf[x] = Worth(x) /\ BronzeOf[x] = x.b
         /\ Worth(x) \in Nat /\ x.b \in Nat
BY WorthAdds, SumIs DEF WorthOf, BronzeOf

\* One purse becomes y.
LEMMA PurseSet ==
  ASSUME CoinsInv, NEW c \in Who, NEW y \in Sum, c \in PC \/ y.b = 0
  PROVE  PurseStep([purse EXCEPT ![c] = y], Worth(y) - Worth(purse[c]), y.b - purse[c].b)
<1>1. purse \in [Who -> Sum] /\ purse[c] \in Sum /\ \A m \in Mob : purse[m].b = 0 /\ m \in Who
  BY DEF CoinsInv, Who
<1>2. InPurses(purse, WorthOf) \in Int /\ InPurses(purse, BronzeOf) \in Int
  BY <1>1, PursesInt, ValuesAdd DEF Additive
<1> DEFINE t == [purse EXCEPT ![c] = y]
<1>3. /\ InPurses(t, WorthOf) = InPurses(purse, WorthOf) + WorthOf[y] - WorthOf[purse[c]]
      /\ InPurses(t, BronzeOf) = InPurses(purse, BronzeOf) + BronzeOf[y] - BronzeOf[purse[c]]
  <2>1. WorthOf \in [Sum -> Int] /\ BronzeOf \in [Sum -> Int]
    BY ValuesAdd DEF Additive
  <2>2. /\ t \in [Who -> Sum] /\ t[c] = y
        /\ \A q \in Who \ {c} : t[q] = purse[q]
    BY <1>1
  <2> HIDE DEF t
  <2>. QED  BY <1>1, <2>1, <2>2, PurseChange
<1>4. t \in [Who -> Sum] /\ \A m \in Mob : t[m].b = 0
  <2>1. c \in PC => c \notin Mob
    BY CoinsAssumption
  <2>. QED  BY <1>1, <2>1
<1> HIDE DEF t
<1>5. /\ WorthOf[y] = Worth(y) /\ BronzeOf[y] = y.b /\ Worth(y) \in Nat /\ y.b \in Nat
      /\ WorthOf[purse[c]] = Worth(purse[c]) /\ BronzeOf[purse[c]] = purse[c].b
      /\ Worth(purse[c]) \in Nat /\ purse[c].b \in Nat
  BY <1>1, Values
<1>6. /\ InPurses(t, WorthOf) = InPurses(purse, WorthOf) + (Worth(y) - Worth(purse[c]))
      /\ InPurses(t, BronzeOf) = InPurses(purse, BronzeOf) + (y.b - purse[c].b)
  BY <1>2, <1>3, <1>5
<1>. QED  BY <1>4, <1>6 DEF t, PurseStep

\* Two purses become y and z.
LEMMA PurseSetTwo ==
  ASSUME CoinsInv, NEW c \in Who, NEW d \in Who, c # d, NEW y \in Sum, NEW z \in Sum,
         c \in PC \/ y.b = 0, d \in PC \/ z.b = 0
  PROVE  PurseStep([purse EXCEPT ![c] = y, ![d] = z],
                   Worth(y) + Worth(z) - (Worth(purse[c]) + Worth(purse[d])),
                   y.b + z.b - (purse[c].b + purse[d].b))
<1>1. /\ purse \in [Who -> Sum] /\ purse[c] \in Sum /\ purse[d] \in Sum
      /\ \A m \in Mob : purse[m].b = 0 /\ m \in Who
  BY DEF CoinsInv, Who
<1>2. InPurses(purse, WorthOf) \in Int /\ InPurses(purse, BronzeOf) \in Int
  BY <1>1, PursesInt, ValuesAdd DEF Additive
<1> DEFINE t == [purse EXCEPT ![c] = y, ![d] = z]
<1>3. /\ InPurses(t, WorthOf) = InPurses(purse, WorthOf) + WorthOf[y] - WorthOf[purse[c]]
                                  + WorthOf[z] - WorthOf[purse[d]]
      /\ InPurses(t, BronzeOf) = InPurses(purse, BronzeOf) + BronzeOf[y] - BronzeOf[purse[c]]
                                   + BronzeOf[z] - BronzeOf[purse[d]]
  <2>1. WorthOf \in [Sum -> Int] /\ BronzeOf \in [Sum -> Int]
    BY ValuesAdd DEF Additive
  <2>2. \A v \in [Sum -> Int] :
          InPurses(t, v) = InPurses(purse, v) + v[y] - v[purse[c]] + v[z] - v[purse[d]]
    <3>1. /\ t \in [Who -> Sum] /\ t[c] = y /\ t[d] = z
          /\ \A q \in Who \ {c, d} : t[q] = purse[q]
      BY <1>1
    <3> HIDE DEF t
    <3>. QED  BY <1>1, <3>1, PurseChangeTwo
  <2>. QED  BY <2>1, <2>2
<1>4. t \in [Who -> Sum] /\ \A m \in Mob : t[m].b = 0
  <2>1. \A e \in PC : e \notin Mob
    BY CoinsAssumption
  <2>. QED  BY <1>1, <2>1
<1> HIDE DEF t
<1>5. /\ \A x \in {y, z, purse[c], purse[d]} :
           WorthOf[x] = Worth(x) /\ BronzeOf[x] = x.b /\ Worth(x) \in Nat /\ x.b \in Nat
  BY <1>1, Values
<1>6. /\ InPurses(t, WorthOf) = InPurses(purse, WorthOf)
                                  + (Worth(y) + Worth(z) - (Worth(purse[c]) + Worth(purse[d])))
      /\ InPurses(t, BronzeOf) = InPurses(purse, BronzeOf)
                                   + (y.b + z.b - (purse[c].b + purse[d].b))
  BY <1>2, <1>3, <1>5
<1>. QED  BY <1>4, <1>6 DEF t, PurseStep

\* What one gets from another.
LEMMA MovedKeeps ==
  ASSUME CoinsInv, NEW c \in Who, NEW v \in Who, c # v, NEW x \in Sum, Has(purse[c], x),
         v \in PC \/ x.b = 0
  PROVE  PurseStep(Moved(c, v, x), 0, 0)
<1>1. purse \in [Who -> Sum] /\ purse[c] \in Sum /\ purse[v] \in Sum
      /\ \A m \in Mob : purse[m].b = 0
  BY DEF CoinsInv
<1> DEFINE y == Minus(purse[c], x)
           z == Plus(purse[v], x)
<1>2. /\ y \in Sum /\ Plus(y, x) = purse[c] /\ y.b = purse[c].b - x.b
      /\ z \in Sum /\ z.b = purse[v].b + x.b
  BY <1>1, PlusIs
<1>3. /\ \A q \in {x, y, z, purse[c], purse[v]} : Worth(q) \in Nat /\ q.b \in Nat
      /\ Worth(purse[c]) = Worth(y) + Worth(x)
      /\ Worth(z) = Worth(purse[v]) + Worth(x)
  <2> HIDE DEF y, z
  <2>1. Worth(Plus(y, x)) = Worth(y) + Worth(x)
    BY <1>2, WorthAdds
  <2>2. Worth(z) = Worth(purse[v]) + Worth(x)
    BY <1>1, WorthAdds DEF z
  <2>. QED  BY <1>1, <1>2, <2>1, <2>2, Values
<1>4. Moved(c, v, x) = [purse EXCEPT ![c] = y, ![v] = z]
  BY <1>1 DEF Moved
<1> HIDE DEF y, z
<1>5. (c \in PC \/ y.b = 0) /\ (v \in PC \/ z.b = 0)
  BY <1>1, <1>2, <1>3 DEF Who
<1>6. PurseStep(Moved(c, v, x), Worth(y) + Worth(z) - (Worth(purse[c]) + Worth(purse[v])),
                y.b + z.b - (purse[c].b + purse[v].b))
  BY <1>2, <1>4, <1>5, PurseSetTwo
<1>7. Worth(y) + Worth(z) - (Worth(purse[c]) + Worth(purse[v])) = 0
      /\ y.b + z.b - (purse[c].b + purse[v].b) = 0
  BY <1>2, <1>3
<1>. QED  BY <1>6, <1>7

\* What one gets from nowhere.
LEMMA PurseGets ==
  ASSUME CoinsInv, NEW c \in Who, NEW x \in Sum
  PROVE  LET a == IF c \in PC THEN x.b ELSE 0
             u == [purse EXCEPT ![c] = Plus(@, Picked(c, x))]
         IN  /\ PurseStep(u, Worth(x), a) /\ a \in Nat
             /\ u \in [Who -> Sum] /\ Has(u[c], Picked(c, x))
<1> DEFINE a == IF c \in PC THEN x.b ELSE 0
           p == Picked(c, x)
           z == Plus(purse[c], p)
           u == [purse EXCEPT ![c] = Plus(@, p)]
<1>1. /\ purse \in [Who -> Sum] /\ purse[c] \in Sum /\ \A m \in Mob : purse[m].b = 0
      /\ x.s \in Nat /\ x.g \in Nat /\ x.b \in Nat
  BY SumIs DEF CoinsInv
<1>2. p = Coins(x.s, x.g, a) /\ p \in Sum /\ p.b = a /\ a \in Nat /\ p.s = x.s /\ p.g = x.g
  BY <1>1 DEF Picked, Coins, Sum
<1>3. Worth(p) = Worth(x)
  BY <1>2 DEF Worth
<1> HIDE DEF p
<1>4. /\ z \in Sum /\ z.b = purse[c].b + a /\ Worth(z) = Worth(purse[c]) + Worth(x)
      /\ Worth(x) \in Nat /\ Worth(purse[c]) \in Nat /\ purse[c].b \in Nat /\ Has(z, p)
  <2>1. z \in Sum /\ z.b = purse[c].b + a
    BY <1>1, <1>2, PlusIs
  <2>2. Worth(z) = Worth(purse[c]) + Worth(p)
    BY <1>1, <1>2, WorthAdds
  <2>3. Has(z, p)
    BY <1>1, <1>2 DEF Sum, Plus, Coins, Has
  <2>. QED  BY <1>1, <1>3, <2>1, <2>2, <2>3, Values
<1>5. u = [purse EXCEPT ![c] = z] /\ u[c] = z
  BY <1>1
<1> HIDE DEF z, u
<1>6. c \in PC \/ z.b = 0
  BY <1>1, <1>4 DEF Who
<1>7. PurseStep(u, Worth(z) - Worth(purse[c]), z.b - purse[c].b)
  BY <1>4, <1>5, <1>6, PurseSet
<1>8. Worth(z) - Worth(purse[c]) = Worth(x) /\ z.b - purse[c].b = a
  BY <1>2, <1>4
<1>9. PurseStep(u, Worth(x), a)
  BY <1>7, <1>8, Zenon
<1>10. u \in [Who -> Sum]
  BY <1>9 DEF PurseStep
<1>. QED  BY <1>2, <1>4, <1>5, <1>9, <1>10 DEF u, p

\* The worth of what a mob mints by dividing x.
Extra(p, x) == {e \in Nat : 2 * e <= Worth(x) /\ (p \in PC => e = 0)}

LEMMA ExtraNone == ASSUME NEW p, NEW x \in Sum PROVE 0 \in Extra(p, x) /\ Extra(p, x) \subseteq Nat
BY Values DEF Extra

\* A group shares what p has.
LEMMA SharedKeeps ==
  ASSUME CoinsInv, NEW u, NEW w \in Int, NEW a \in Int, PurseStep(u, w, a), NEW p \in Who,
         NEW x \in Sum, u[p].s >= x.s, u[p].g >= x.g, Shared(u, p, x)
  PROVE  \E e \in Extra(p, x) : PurseStep(purse', w + e, a)
<1>1. u \in [Who -> Sum] /\ \A m \in Mob : u[m].b = 0 /\ m \in Who
  BY DEF PurseStep, Who
<1>2. PICK M \in SUBSET Who :
        /\ Cardinality(M) > 1
        /\ x.s >= Cardinality(M) \/ x.g >= Cardinality(M)
        /\ p \in PC => p \in M
        /\ \E R \in SUBSET (M \ {p}) : purse' = Split(u, p, M, R, x)
  BY DEF Shared
<1>3. PICK R \in SUBSET (M \ {p}) : purse' = Split(u, p, M, R, x)
  BY <1>2
<1> DEFINE e == Minted(p, M, x)
<1>4. /\ e \in Nat /\ 2 * e <= Worth(x)
      /\ purse' \in [Who -> Sum] /\ \A q \in Who : purse'[q].b = u[q].b
      /\ InPurses(purse', WorthOf) = InPurses(u, WorthOf) + e
      /\ InPurses(purse', BronzeOf) = InPurses(u, BronzeOf)
  BY <1>1, <1>2, <1>3, SplitKeeps
<1>5. p \in PC => e = 0
  BY <1>2 DEF Minted
<1> HIDE DEF e
<1>6. e \in Extra(p, x)
  BY <1>4, <1>5 DEF Extra
<1>7. PurseStep(purse', w + e, a)
  <2>1. InPurses(purse, WorthOf) \in Int
    BY SumsAre DEF CoinsInv
  <2>2. InPurses(u, WorthOf) = InPurses(purse, WorthOf) + w
    BY DEF PurseStep
  <2>3. InPurses(purse', WorthOf) = InPurses(purse, WorthOf) + (w + e)
    BY <1>4, <2>1, <2>2
  <2>. QED  BY <1>1, <1>4, <2>3 DEF PurseStep
<1>. QED  BY <1>6, <1>7

LEMMA TakesKeeps ==
  ASSUME CoinsInv, NEW c \in Who, NEW x \in Sum, Takes(c, x)
  PROVE  \E e \in Extra(c, x) :
           PurseStep(purse', Worth(x) + e, IF c \in PC THEN x.b ELSE 0)
<1> DEFINE a == IF c \in PC THEN x.b ELSE 0
           u == [purse EXCEPT ![c] = Plus(@, Picked(c, x))]
<1>1. PurseStep(u, Worth(x), a) /\ a \in Nat /\ Has(u[c], Picked(c, x))
  BY PurseGets
<1>2. u[c].s >= x.s /\ u[c].g >= x.g
  <2>1. Picked(c, x).s = x.s /\ Picked(c, x).g = x.g
    BY DEF Picked, Coins
  <2> HIDE DEF u
  <2>. QED  BY <1>1, <2>1 DEF Has
<1>3. Worth(x) \in Nat
  BY Values
<1>4. CASE purse' = u
  <2> HIDE DEF a, u
  <2>1. Worth(x) + 0 = Worth(x)
    BY <1>3
  <2>2. PurseStep(purse', Worth(x) + 0, a)
    BY <1>1, <1>4, <2>1, Zenon
  <2>. QED  BY <2>2, ExtraNone DEF a
<1>5. CASE Shared(u, c, x)
  <2> HIDE DEF a, u
  <2>. QED  BY <1>1, <1>2, <1>3, <1>5, SharedKeeps DEF a
<1>. QED  BY <1>4, <1>5 DEF Takes

-----------------------------------------------------------------------------
(***************************************************************************)
(* do_drop().                                                              *)
(***************************************************************************)
\* What the piles of S come to.
Come(S, w) == SumOf([x \in S |-> piles[x] * w[x]], S)

LEMMA GainIs ==
  ASSUME CoinsInv, NEW word \in Words
  PROVE  LET S == Gathered(word)
             y == GainOf(S)
         IN  /\ S \subseteq DOMAIN piles /\ y \in Sum
             /\ Come(S, WorthIn) \in Int /\ Come(S, BronzeIn) \in Int
             /\ word \in {"silver", "gold"} =>
                  y.b = 0 /\ Worth(y) = Come(S, WorthIn) /\ Come(S, BronzeIn) = 0
             /\ word = "bronze" => y.s = 0 /\ y.g = 0 /\ y.b <= Come(S, BronzeIn)
             /\ word \in {"coins", "other"} =>
                  y = NoCoins /\ Come(S, WorthIn) = 0 /\ Come(S, BronzeIn) = 0
<1> DEFINE S == Gathered(word)
           y == GainOf(S)
           FS == [x \in S |-> piles[x] * Gain(x).s]
           FG == [x \in S |-> piles[x] * Gain(x).g]
           FB == [x \in S |-> piles[x] * Gain(x).b]
           HW == [x \in S |-> piles[x] * WorthIn[x]]
           HB == [x \in S |-> piles[x] * BronzeIn[x]]
<1>1. /\ S \subseteq DOMAIN piles /\ IsFiniteSet(S)
      /\ \A x \in S : /\ x \in GoodPile /\ x \in Pile /\ piles[x] \in Nat /\ piles[x] > 0
                      /\ x.s \in Nat /\ x.g \in Nat /\ x.b \in Nat
                      /\ x.of \in {"coins", "bronze"}
  <2>1. S \subseteq DOMAIN piles
    BY DEF Gathered
  <2>2. IsFiniteSet(S)
    BY <2>1, FS_Subset DEF CoinsInv, GoodHeap
  <2> HIDE DEF S
  <2>3. \A x \in S : x \in GoodPile /\ x \in Pile /\ piles[x] \in Nat /\ piles[x] > 0
    BY <2>1, HeapCounts DEF CoinsInv
  <2>. QED  BY <2>1, <2>2, <2>3 DEF Pile
<1>2. /\ \A x \in S : x.of = "coins" =>
              Gain(x).s = x.s /\ Gain(x).g = x.g /\ Gain(x).b = 0 /\ x.b = 0
      /\ \A x \in S : x.of = "bronze" =>
              /\ Gain(x).s = 0 /\ Gain(x).g = 0 /\ Gain(x).b = IF x.b = 1 THEN 1 ELSE 0
              /\ x.g = 0 /\ x.b > 0 /\ x.s = Gain(x).b
  <2> HIDE DEF S
  <2>. QED  BY <1>1 DEF Gain, Coins, GoodPile
<1>3. \A x \in S : Gain(x).s \in Nat /\ Gain(x).g \in Nat /\ Gain(x).b \in Nat
  <2> HIDE DEF S
  <2>. QED  BY <1>1, <1>2
<1>4. \A x \in S : /\ WorthIn[x] = x.s + Rate * x.g /\ BronzeIn[x] = x.b
                   /\ Rate * x.g \in Nat /\ WorthIn[x] \in Nat
  <2> HIDE DEF S
  <2>1. \A x \in S : Rate * x.g \in Nat
    BY <1>1, RateNat
  <2>. QED  BY <1>1, <2>1 DEF WorthIn, BronzeIn, Worth
<1>5. \A x \in S : FS[x] \in Nat /\ FG[x] \in Nat /\ FB[x] \in Nat /\ HW[x] \in Int /\ HB[x] \in Int
  <2> HIDE DEF S
  <2>. QED  BY <1>1, <1>3, <1>4
<1>6. /\ y.s = SumOf(FS, S) /\ y.g = SumOf(FG, S) /\ y.b = SumOf(FB, S)
      /\ y = Coins(SumOf(FS, S), SumOf(FG, S), SumOf(FB, S))
      /\ Come(S, WorthIn) = SumOf(HW, S) /\ Come(S, BronzeIn) = SumOf(HB, S)
  <2> HIDE DEF S
  <2>. QED  BY DEF GainOf, Coins, Come
<1>7. /\ SumOf(FS, S) \in Nat /\ SumOf(FG, S) \in Nat /\ SumOf(FB, S) \in Nat
      /\ SumOf(HW, S) \in Int /\ SumOf(HB, S) \in Int
  <2> HIDE DEF FS, FG, FB, HW, HB, S, y
  <2>. QED  BY <1>1, <1>5, TotalNat, TotalInt
<1>8. ASSUME word \in {"silver", "gold"}
      PROVE  y.b = 0 /\ Worth(y) = SumOf(HW, S) /\ SumOf(HB, S) = 0
  <2>1. \A x \in S : x.of = "coins"
    BY <1>8 DEF Gathered
  <2> DEFINE RG == [x \in S |-> Rate * FG[x]]
  <2>2. \A x \in S : FB[x] = 0 /\ HB[x] = 0
    <3> HIDE DEF S
    <3>. QED  BY <1>1, <1>2, <1>4, <2>1
  <2>3. SumOf(FB, S) = 0 /\ SumOf(HB, S) = 0
    <3> HIDE DEF FS, FG, FB, HW, HB, S, y
    <3>1. SumOf(FB, S) = SumOf(FB, {}) /\ SumOf(HB, S) = SumOf(HB, {})
      BY <1>1, <2>2, TotalZeros
    <3>. QED  BY <3>1, TotalNone
  <2>4. \A x \in S : HW[x] = FS[x] + RG[x] /\ RG[x] \in Int
    <3> HIDE DEF S
    <3> TAKE x \in S
    <3>1. HW[x] = piles[x] * (x.s + Rate * x.g) /\ FS[x] = piles[x] * x.s
          /\ RG[x] = Rate * (piles[x] * x.g)
      BY <1>2, <1>4, <2>1
    <3>2. piles[x] \in Nat /\ x.s \in Nat /\ x.g \in Nat /\ Rate \in Nat
      BY <1>1, RateNat
    <3>. QED  BY <3>1, <3>2
  <2>5. SumOf(RG, S) = Rate * SumOf(FG, S)
    <3>1. \A x \in S : FG[x] \in Int /\ RG[x] = Rate * FG[x]
      BY <1>5
    <3> HIDE DEF FS, FG, FB, HW, HB, S, y, RG
    <3>. QED  BY <1>1, <3>1, RateNat, TotalScaled
  <2>6. SumOf(HW, S) = SumOf(FS, S) + SumOf(RG, S)
    <3>1. \A x \in S : FS[x] \in Int
      BY <1>5
    <3> HIDE DEF FS, FG, FB, HW, HB, S, y, RG
    <3>. QED  BY <1>1, <1>5, <2>4, <3>1, TotalAdds
  <2> HIDE DEF FS, FG, FB, HW, HB, S, y, RG
  <2>. QED  BY <1>6, <2>3, <2>5, <2>6 DEF Worth
<1>9. ASSUME word = "bronze"
      PROVE  y.s = 0 /\ y.g = 0 /\ y.b <= SumOf(HB, S)
  <2>1. \A x \in S : x.of = "bronze"
    BY <1>9 DEF Gathered
  <2>2. \A x \in S : FS[x] = 0 /\ FG[x] = 0
    <3> HIDE DEF S
    <3>. QED  BY <1>1, <1>2, <2>1
  <2>3. \A x \in S : FB[x] <= HB[x]
    <3> HIDE DEF S
    <3> TAKE x \in S
    <3>1. Gain(x).b <= x.b /\ Gain(x).b \in Nat /\ x.b \in Nat /\ piles[x] \in Nat
      BY <1>1, <1>2, <2>1
    <3>2. Gain(x).b * piles[x] <= x.b * piles[x]
      BY <3>1, TimesLess
    <3>. QED  BY <1>4, <3>1, <3>2
  <2> HIDE DEF FS, FG, FB, HW, HB, S, y
  <2>4. SumOf(FS, S) = 0 /\ SumOf(FG, S) = 0
    <3>1. SumOf(FS, S) = SumOf(FS, {}) /\ SumOf(FG, S) = SumOf(FG, {})
      BY <1>1, <2>2, TotalZeros
    <3>. QED  BY <3>1, TotalNone
  <2>5. SumOf(FB, S) <= SumOf(HB, S)
    <3>1. \A x \in S : FB[x] \in Int
      BY <1>5
    <3>. QED  BY <1>1, <1>5, <2>3, <3>1, TotalMonotone
  <2>. QED  BY <1>6, <2>4, <2>5
<1>10. ASSUME word \in {"coins", "other"}
       PROVE  y = NoCoins /\ SumOf(HW, S) = 0 /\ SumOf(HB, S) = 0
  <2>1. S = {}
    BY <1>10 DEF Gathered
  <2> HIDE DEF FS, FG, FB, HW, HB, S, y
  <2>. QED  BY <1>6, <2>1, TotalNone DEF NoCoins
<1>11. y \in Sum
  <2> HIDE DEF FS, FG, FB, HW, HB, S, y
  <2>. QED  BY <1>6, <1>7, SumIs
<1> HIDE DEF FS, FG, FB, HW, HB, S, y
<1>. QED  BY <1>1, <1>6, <1>7, <1>8, <1>9, <1>10, <1>11 DEF S, y

\* The bronze that lies there is worth its single coins, and where there are only such
\* all of it is gathered.
LEMMA BronzeGain ==
  ASSUME CoinsInv
  PROVE  LET S == Gathered("bronze")
         IN  /\ Come(S, WorthIn) = Singles
             /\ (\A x \in DOMAIN piles : ~ (x.at = "ground" /\ x.b > 1)) =>
                  GainOf(S).b = Come(S, BronzeIn)
<1> DEFINE T == DOMAIN piles
           S == Gathered("bronze")
           FB == [x \in S |-> piles[x] * Gain(x).b]
           HW == [x \in S |-> piles[x] * WorthIn[x]]
           HB == [x \in S |-> piles[x] * BronzeIn[x]]
           L  == [x \in T |-> IF x.at = "ground" /\ x.b = 1 THEN piles[x] ELSE 0]
<1>1. /\ S \subseteq T /\ IsFiniteSet(T) /\ IsFiniteSet(S)
      /\ \A x \in T : /\ x \in GoodPile /\ x \in Pile /\ piles[x] \in Nat
                      /\ x.s \in Nat /\ x.g \in Nat /\ x.b \in Nat
                      /\ x.of \in {"coins", "bronze"}
      /\ \A x \in T : x \in S <=> x.at = "ground" /\ x.of = "bronze"
  <2>1. \A x \in T : x \in GoodPile /\ x \in Pile /\ piles[x] \in Nat
    BY HeapCounts DEF CoinsInv
  <2>2. S \subseteq T /\ \A x \in T : x \in S <=> x.at = "ground" /\ x.of = "bronze"
    BY DEF Gathered
  <2>3. IsFiniteSet(T)
    BY DEF CoinsInv, GoodHeap
  <2>4. IsFiniteSet(S)
    BY <2>2, <2>3, FS_Subset
  <2> HIDE DEF S, T
  <2>. QED  BY <2>1, <2>2, <2>3, <2>4 DEF Pile
<1>2. \A x \in S : /\ x.b > 0 /\ x.g = 0 /\ x.s = IF x.b = 1 THEN 1 ELSE 0
                   /\ Gain(x).b = IF x.b = 1 THEN 1 ELSE 0
                   /\ WorthIn[x] = x.s /\ BronzeIn[x] = x.b /\ x.at = "ground"
  <2> HIDE DEF S, T
  <2>1. \A x \in S : x.b > 0 /\ x.g = 0 /\ x.s = IF x.b = 1 THEN 1 ELSE 0
    BY <1>1 DEF GoodPile
  <2>2. \A x \in S : Gain(x).b = IF x.b = 1 THEN 1 ELSE 0
    BY <1>1, <2>1 DEF Gain, Coins
  <2>3. \A x \in S : WorthIn[x] = Worth(x) /\ BronzeIn[x] = x.b
    BY <1>1 DEF WorthIn, BronzeIn
  <2>4. \A x \in S : Worth(x) = x.s
    BY <1>1, <2>1, RateNat DEF Worth
  <2>. QED  BY <1>1, <2>1, <2>2, <2>3, <2>4
<1>3. \A x \in S : HW[x] \in Int /\ HW[x] = L[x]
  <2>1. \A x \in S : HW[x] = piles[x] * x.s /\ L[x] = IF x.b = 1 THEN piles[x] ELSE 0
    <3> HIDE DEF S, T
    <3>. QED  BY <1>1, <1>2
  <2> HIDE DEF S, T, HW, L
  <2> TAKE x \in S
  <2>2. piles[x] \in Nat /\ piles[x] * 1 = piles[x] /\ piles[x] * 0 = 0
    BY <1>1
  <2>. QED  BY <1>2, <2>1, <2>2
<1>4. \A x \in T \ S : L[x] = 0
  <2> TAKE x \in T \ S
  <2>1. x.at = "ground" => x.of = "coins"
    BY <1>1
  <2>2. x.of = "coins" => x.b = 0
    BY <1>1 DEF GoodPile
  <2>. QED  BY <2>1, <2>2
<1>5. SumOf(L, T) = Singles
  BY DEF Singles
<1>6. SumOf(HW, S) = SumOf(L, T)
  <2> HIDE DEF S, T, HW, L
  <2>1. SumOf(HW, S) = SumOf(L, S)
    BY <1>1, <1>3, TotalSame
  <2>2. \A x \in S : L[x] \in Int
    BY <1>3
  <2>3. SumOf(L, T) = SumOf(L, S)
    BY <1>1, <1>4, <2>2, TotalZeros
  <2>. QED  BY <2>1, <2>3
<1>7. ASSUME \A x \in DOMAIN piles : ~ (x.at = "ground" /\ x.b > 1)
      PROVE  SumOf(FB, S) = SumOf(HB, S)
  <2>1. \A x \in S : FB[x] = piles[x] * Gain(x).b /\ HB[x] = piles[x] * BronzeIn[x]
    OBVIOUS
  <2>2. \A x \in S : FB[x] \in Int /\ FB[x] = HB[x]
    <3> HIDE DEF FB, HB
    <3> TAKE x \in S
    <3>1. x.b = 1
      BY <1>1, <1>2, <1>7
    <3>. QED  BY <1>1, <1>2, <2>1, <3>1
  <2> HIDE DEF FB, HB, S
  <2>. QED  BY <1>1, <2>2, TotalSame
<1>8. /\ Come(S, WorthIn) = SumOf(HW, S) /\ Come(S, BronzeIn) = SumOf(HB, S)
      /\ GainOf(S).b = SumOf(FB, S)
  <2> HIDE DEF S
  <2>. QED  BY DEF Come, GainOf, Coins
<1> HIDE DEF FB, HW, HB, L, S
<1>. QED  BY <1>5, <1>6, <1>7, <1>8 DEF S

\* A drop is a step of the purse and of the ground.
LEMMA DropSteps ==
  ASSUME CoinsInv, NEW c \in Who, NEW word \in Words, NEW n \in Sums, DropCoins(c, word, n)
  PROVE  LET x == IF c \in Mob THEN NoCoins ELSE Named(word, n)
             S == Gathered(word)
             m == Money("ground", Plus(x, GainOf(S)))
         IN  /\ x \in Sum /\ Plus(x, GainOf(S)) \in Sum
             /\ PurseStep(purse', 0 - Worth(x), 0 - x.b)
             /\ HeapStep(piles', Worth(m) - Come(S, WorthIn), m.b - Come(S, BronzeIn))
             /\ Worth(m) \in Nat /\ m.b \in Nat
<1> DEFINE x == IF c \in Mob THEN NoCoins ELSE Named(word, n)
           S == Gathered(word)
           z == Plus(x, GainOf(S))
           m == Money("ground", z)
<1>1. /\ Has(purse[c], x)
      /\ purse' = [purse EXCEPT ![c] = Minus(@, x)]
      /\ piles' = Without(S) (+) One("ground", z)
  BY DEF DropCoins
<1>2. purse \in [Who -> Sum] /\ purse[c] \in Sum /\ (c \in Mob => purse[c].b = 0) /\ GoodHeap(piles)
  BY DEF CoinsInv
<1>3. x \in Sum
  <2>1. n \in Nat
    BY CoinsAssumption
  <2>. QED  BY <2>1, SumIs DEF Named
<1>4. S \subseteq DOMAIN piles /\ GainOf(S) \in Sum
      /\ Come(S, WorthIn) \in Int /\ Come(S, BronzeIn) \in Int
  BY GainIs
<1>5. z \in Sum
  BY <1>3, <1>4, PlusIs
<1>6. PurseStep(purse', 0 - Worth(x), 0 - x.b)
  <2> DEFINE y == Minus(purse[c], x)
  <2>1. y \in Sum /\ Plus(y, x) = purse[c] /\ y.b = purse[c].b - x.b
    BY <1>1, <1>2, <1>3, PlusIs
  <2>2. purse' = [purse EXCEPT ![c] = y]
    BY <1>1
  <2>3. c \in Mob => x.b = 0
    BY DEF NoCoins, Coins
  <2> HIDE DEF y, x
  <2>4. Worth(purse[c]) = Worth(y) + Worth(x)
    BY <1>3, <2>1, WorthAdds
  <2>5. /\ Worth(y) \in Nat /\ Worth(x) \in Nat /\ Worth(purse[c]) \in Nat
        /\ y.b \in Nat /\ x.b \in Nat /\ purse[c].b \in Nat
    BY <1>2, <1>3, <2>1, Values
  <2>6. c \in PC \/ y.b = 0
    BY <1>2, <2>1, <2>3, <2>5 DEF Who
  <2>7. PurseStep(purse', Worth(y) - Worth(purse[c]), y.b - purse[c].b)
    BY <2>1, <2>2, <2>6, PurseSet
  <2>8. Worth(y) - Worth(purse[c]) = 0 - Worth(x) /\ y.b - purse[c].b = 0 - x.b
    BY <2>1, <2>4, <2>5
  <2>. QED  BY <2>7, <2>8, Zenon
<1> HIDE DEF x, S, z
<1>7. m \in GoodPile /\ Worth(m) \in Nat /\ m.b \in Nat
  <2>1. m \in GoodPile /\ m \in Pile
    BY <1>5, MoneyIs DEF GoodPile
  <2> HIDE DEF m
  <2>2. m.s \in Nat /\ m.g \in Nat /\ m.b \in Nat
    BY <2>1 DEF Pile
  <2>. QED  BY <2>1, <2>2, RateNat DEF Worth
<1>8. HeapStep(piles', Worth(m) - Come(S, WorthIn), m.b - Come(S, BronzeIn))
  <2> DEFINE B == Without(S)
  <2>1. /\ GoodHeap(B)
        /\ InHeap(piles, WorthIn) = InHeap(B, WorthIn) + Come(S, WorthIn)
        /\ InHeap(piles, BronzeIn) = InHeap(B, BronzeIn) + Come(S, BronzeIn)
    BY <1>2, <1>4, HeapWithout, ValuesPlace DEF Come
  <2> HIDE DEF B, m
  <2>2. InHeap(B, WorthIn) \in Int /\ InHeap(B, BronzeIn) \in Int
    BY <2>1, HeapParts, ValuesPlace
  <2>3. /\ GoodHeap(piles')
        /\ InHeap(piles', WorthIn) = InHeap(B, WorthIn) + Worth(m)
        /\ InHeap(piles', BronzeIn) = InHeap(B, BronzeIn) + m.b
    BY <1>1, <1>5, <2>1, OneMore DEF B, m
  <2>. QED  BY <1>4, <1>7, <2>1, <2>2, <2>3 DEF HeapStep
<1>. QED  BY <1>3, <1>5, <1>6, <1>7, <1>8 DEF x, S, z

LEMMA SinglesNat ==
  ASSUME CoinsInv
  PROVE  Singles \in Nat
<1> DEFINE L == [x \in DOMAIN piles |-> IF x.at = "ground" /\ x.b = 1 THEN piles[x] ELSE 0]
<1>1. \A x \in DOMAIN piles : L[x] \in Nat
  BY HeapCounts DEF CoinsInv
<1>2. IsFiniteSet(DOMAIN piles)
  BY DEF CoinsInv, GoodHeap
<1> HIDE DEF L
<1>3. SumOf(L, DOMAIN piles) \in Nat
  BY <1>1, <1>2, TotalNat
<1>. QED  BY <1>3 DEF L, Singles

LEMMA DropIs ==
  ASSUME CoinsInv, NEW c \in Who, NEW word \in Words, NEW n \in Sums, DropCoins(c, word, n)
  PROVE  /\ CoinsInv'
         /\ Total \in Int /\ Total' \in Int /\ Bronze \in Int /\ Bronze' \in Int
         /\ Total' > Total => \/ word = "other" /\ Total' = Total + Slip
                              \/ word = "bronze" /\ Total' <= Total + Slip
         /\ Total' < Total => word = "bronze" /\ Total' >= Total - Singles
         /\ Bronze' <= Bronze
         /\ Bronze' < Bronze =>
              word = "bronze" /\ \E x \in DOMAIN piles : x.at = "ground" /\ x.b > 1
<1> DEFINE x == IF c \in Mob THEN NoCoins ELSE Named(word, n)
           S == Gathered(word)
           y == GainOf(S)
           z == Plus(x, y)
           m == Money("ground", z)
           W == Come(S, WorthIn)
           B == Come(S, BronzeIn)
<1>1. /\ x \in Sum /\ z \in Sum
      /\ PurseStep(purse', 0 - Worth(x), 0 - x.b)
      /\ HeapStep(piles', Worth(m) - W, m.b - B)
      /\ Worth(m) \in Nat /\ m.b \in Nat
  BY DropSteps
<1>2. /\ y \in Sum /\ W \in Int /\ B \in Int
      /\ word \in {"silver", "gold"} => y.b = 0 /\ Worth(y) = W /\ B = 0
      /\ word = "bronze" => y.s = 0 /\ y.g = 0 /\ y.b <= B
      /\ word \in {"coins", "other"} => y = NoCoins /\ W = 0 /\ B = 0
  BY GainIs
<1>3. /\ word = "bronze" => W = Singles
      /\ word = "bronze" =>
           ((\A q \in DOMAIN piles : ~ (q.at = "ground" /\ q.b > 1)) => y.b = B)
  BY BronzeGain
<1>4. /\ (c \in Mob => word = "bronze") /\ n \in Nat /\ n > 0
      /\ word \in {"silver", "gold", "bronze", "coins", "other"}
  BY CoinsAssumption DEF DropCoins, Words
<1>5. /\ x.s = IF c \notin Mob /\ word \in {"silver", "coins"} THEN n ELSE 0
      /\ x.g = IF c \notin Mob /\ word = "gold" THEN n ELSE 0
      /\ x.b = IF c \notin Mob /\ word = "bronze" THEN n ELSE 0
  BY DEF Named, NoCoins, Coins
<1> HIDE DEF x, S, y, z, m, W, B
<1>6. /\ Worth(x) \in Nat /\ x.s \in Nat /\ x.g \in Nat /\ x.b \in Nat
      /\ Worth(y) \in Nat /\ y.s \in Nat /\ y.g \in Nat /\ y.b \in Nat
      /\ Worth(z) = Worth(x) + Worth(y) /\ Worth(z) \in Nat
      /\ z.s = x.s + y.s /\ z.g = x.g + y.g /\ z.b = x.b + y.b
  <2>1. Worth(z) = Worth(x) + Worth(y) /\ Worth(z) \in Nat /\ Worth(x) \in Nat /\ Worth(y) \in Nat
    BY <1>1, <1>2, WorthAdds, Values DEF z
  <2>2. z.s = x.s + y.s /\ z.g = x.g + y.g /\ z.b = x.b + y.b
    BY DEF z, Plus, Coins
  <2>. QED  BY <1>1, <1>2, <2>1, <2>2, SumIs
<1>7. /\ CoinsInv'
      /\ Total' = Total + (0 - Worth(x)) + (Worth(m) - W)
      /\ Bronze' = Bronze + (0 - x.b) + (m.b - B)
      /\ Total \in Int /\ Bronze \in Int
  <2>1. 0 - Worth(x) \in Int /\ 0 - x.b \in Int /\ Worth(m) - W \in Int /\ m.b - B \in Int
    BY <1>1, <1>2, <1>6
  <2>. QED  BY <1>1, <2>1, StepIs
<1>8. /\ z = NoCoins => Worth(m) = Slip /\ m.b = 0
      /\ z.s > 0 \/ z.g > 0 => Worth(m) = Worth(z) /\ m.b = 0
      /\ z.s = 0 /\ z.g = 0 /\ z # NoCoins =>
           z.b > 0 /\ Worth(m) = (IF z.b = 1 THEN 1 ELSE 0) /\ m.b = z.b
  BY <1>1, MoneyIs DEF m
<1>9. Slip \in Nat /\ Slip > 0
  BY RateNat DEF Slip
<1>10. CASE word \in {"silver", "gold"}
  <2>1. z.s > 0 \/ z.g > 0
    BY <1>4, <1>5, <1>6, <1>10
  <2>2. x.b = 0 /\ B = 0 /\ m.b = 0 /\ Worth(m) = Worth(x) + W
    BY <1>2, <1>5, <1>6, <1>8, <1>10, <2>1
  <2>3. Total' = Total /\ Bronze' = Bronze
    BY <1>1, <1>2, <1>6, <1>7, <2>2
  <2>. QED  BY <1>7, <2>3
<1>11. CASE word = "bronze"
  <2>1. x.s = 0 /\ x.g = 0 /\ y.s = 0 /\ y.g = 0 /\ z.s = 0 /\ z.g = 0
    BY <1>2, <1>5, <1>6, <1>11
  <2>2. Worth(x) = 0
    BY <2>1, RateNat DEF Worth
  <2>3. m.b = z.b
    <3>1. CASE z = NoCoins
      BY <1>8, <3>1 DEF NoCoins, Coins
    <3>2. CASE z # NoCoins
      BY <1>8, <2>1, <3>2
    <3>. QED  BY <3>1, <3>2
  <2>4. Worth(m) <= Slip /\ Worth(m) >= 0
    BY <1>1, <1>8, <1>9, <2>1
  <2>5. Total' = Total + Worth(m) - W /\ Bronze' = Bronze + y.b - B /\ W = Singles
    BY <1>1, <1>2, <1>3, <1>6, <1>7, <1>11, <2>2, <2>3
  <2>6. Singles \in Nat
    BY SinglesNat
  <2>7. Total' \in Int /\ Bronze' \in Int /\ Total' <= Total + Slip /\ Total' >= Total - Singles
    BY <1>1, <1>2, <1>6, <1>7, <1>9, <2>4, <2>5, <2>6
  <2>8. Bronze' <= Bronze /\ (Bronze' < Bronze => y.b # B)
    <3>1. y.b <= B /\ y.b \in Int /\ B \in Int /\ Bronze \in Int
      BY <1>2, <1>6, <1>7, <1>11
    <3>. QED  BY <2>5, <3>1
  <2>9. y.b # B => \E q \in DOMAIN piles : q.at = "ground" /\ q.b > 1
    BY <1>3, <1>11
  <2>. QED  BY <1>7, <1>11, <2>7, <2>8, <2>9
<1>12. CASE word = "coins"
  <2>1. z.s > 0 /\ y = NoCoins /\ x.b = 0
    BY <1>2, <1>4, <1>5, <1>6, <1>12
  <2>2. Worth(y) = 0
    BY <2>1, RateNat DEF Worth, NoCoins, Coins
  <2>3. Total' = Total /\ Bronze' = Bronze
    BY <1>1, <1>2, <1>6, <1>7, <1>8, <1>12, <2>1, <2>2
  <2>. QED  BY <1>7, <2>3
<1>13. CASE word = "other"
  <2>1. y = NoCoins /\ x.s = 0 /\ x.g = 0 /\ x.b = 0
    BY <1>2, <1>4, <1>5, <1>13
  <2>2. y.s = 0 /\ y.g = 0 /\ y.b = 0
    BY <2>1 DEF NoCoins, Coins
  <2>3. z = NoCoins
    BY <1>6, <2>1, <2>2 DEF z, Plus, Coins, NoCoins
  <2>4. Worth(x) = 0
    BY <2>1, RateNat DEF Worth
  <2>5. Total' = Total + Slip /\ Bronze' = Bronze
    BY <1>1, <1>2, <1>6, <1>7, <1>8, <1>13, <2>1, <2>3, <2>4
  <2>. QED  BY <1>7, <1>9, <1>13, <2>5
<1>. QED  BY <1>4, <1>10, <1>11, <1>12, <1>13

-----------------------------------------------------------------------------
(***************************************************************************)
(* The other steps.                                                        *)
(***************************************************************************)
\* Nothing is made and nothing is lost.
Even == CoinsInv' /\ Total' = Total /\ Bronze' = Bronze

\* A mob may mint, of a sum worth w, half as much.
Mints(c, w) ==
    /\ CoinsInv' /\ Total \in Int /\ Total' \in Int /\ Bronze \in Int /\ Bronze' \in Int
    /\ Total' >= Total /\ 2 * (Total' - Total) <= w
    /\ c \in PC => Total' = Total

LEMMA EvenMints == ASSUME CoinsInv, Even, NEW c, NEW w \in Nat PROVE Mints(c, w)
BY TotalsAre DEF Even, Mints

\* A pile is picked up as the sum it is.
LEMMA PileSum ==
  ASSUME NEW x \in Pile
  PROVE  LET y == Coins(x.s, x.g, x.b)
         IN  /\ y \in Sum /\ Worth(y) = Worth(x) /\ Worth(x) \in Nat /\ x.b \in Nat /\ y.b = x.b
             /\ WorthIn[x] = Worth(x) /\ BronzeIn[x] = x.b
             /\ \A c \in Who : Takes(c, x) => Takes(c, y)
<1> DEFINE y == Coins(x.s, x.g, x.b)
<1>1. x.s \in Nat /\ x.g \in Nat /\ x.b \in Nat
  BY DEF Pile
<1>2. y \in Sum /\ y.s = x.s /\ y.g = x.g /\ y.b = x.b
  BY <1>1, SumIs DEF Coins
<1> HIDE DEF y
<1>3. Worth(y) = Worth(x) /\ Worth(y) \in Nat
  BY <1>2, Values DEF Worth
<1>4. WorthIn[x] = Worth(x) /\ BronzeIn[x] = x.b
  BY DEF WorthIn, BronzeIn
<1>5. ASSUME NEW c \in Who, Takes(c, x) PROVE Takes(c, y)
  <2>1. Picked(c, x) = Picked(c, y)
    BY <1>2 DEF Picked
  <2>2. \A u : Shared(u, c, x) => Shared(u, c, y)
    BY <1>2 DEF Shared, Split
  <2>. QED  BY <1>2, <1>5, <2>1, <2>2 DEF Takes
<1>. QED  BY <1>1, <1>2, <1>3, <1>4, <1>5 DEF y

\* One pile less.
LEMMA HeapLess ==
  ASSUME CoinsInv, NEW x \in DOMAIN piles
  PROVE  /\ x \in Pile /\ x \in GoodPile /\ Worth(x) \in Nat /\ x.b \in Nat
         /\ HeapStep(piles (-) SetToBag({x}), 0 - Worth(x), 0 - x.b)
<1>1. GoodHeap(piles) /\ x \in Pile /\ x \in GoodPile
  BY HeapCounts DEF CoinsInv
<1>2. WorthIn[x] = Worth(x) /\ BronzeIn[x] = x.b /\ Worth(x) \in Nat /\ x.b \in Nat
  BY <1>1, PileSum
<1>3. InHeap(piles, WorthIn) \in Int /\ InHeap(piles, BronzeIn) \in Int
  BY <1>1, HeapParts, ValuesPlace
<1>. QED  BY <1>1, <1>2, <1>3, HeapTake, ValuesPlace DEF HeapStep

LEMMA GetIs ==
  ASSUME CoinsInv, NEW c \in Who, NEW x \in DOMAIN piles, GetCoins(c, x)
  PROVE  /\ Mints(c, Worth(x))
         /\ Bronze' <= Bronze /\ (Bronze' < Bronze => x.b > 0 /\ c \in Mob)
<1> DEFINE y == Coins(x.s, x.g, x.b)
           a == IF c \in PC THEN x.b ELSE 0
<1>1. /\ x \in Pile /\ Worth(x) \in Nat /\ x.b \in Nat
      /\ HeapStep(piles', 0 - Worth(x), 0 - x.b)
  BY HeapLess DEF GetCoins
<1>2. y \in Sum /\ Worth(y) = Worth(x) /\ y.b = x.b /\ Takes(c, y)
  BY <1>1, PileSum DEF GetCoins
<1> HIDE DEF y
<1>3. PICK e \in Extra(c, y) : PurseStep(purse', Worth(y) + e, IF c \in PC THEN y.b ELSE 0)
  BY <1>2, TakesKeeps
<1>4. e \in Nat /\ 2 * e <= Worth(x) /\ (c \in PC => e = 0)
  BY <1>2 DEF Extra
<1>5. PurseStep(purse', Worth(x) + e, a)
  BY <1>2, <1>3
<1>6. /\ a \in Int /\ 0 - Worth(x) \in Int /\ 0 - x.b \in Int /\ Worth(x) + e \in Int
      /\ a <= x.b /\ (a < x.b => c \in Mob /\ x.b > 0)
  BY <1>1, <1>4 DEF Who
<1> HIDE DEF a
<1>7. /\ CoinsInv' /\ Total' = Total + (Worth(x) + e) + (0 - Worth(x))
      /\ Bronze' = Bronze + a + (0 - x.b) /\ Total \in Int /\ Bronze \in Int
  BY <1>1, <1>5, <1>6, StepIs
<1>8. Total' = Total + e
  BY <1>1, <1>4, <1>7
<1>9. Mints(c, Worth(x))
  BY <1>1, <1>4, <1>6, <1>7, <1>8 DEF Mints
<1>. QED  BY <1>1, <1>6, <1>7, <1>9

LEMMA GoneIs ==
  ASSUME CoinsInv, NEW x \in DOMAIN piles, CoinsGone(x)
  PROVE  /\ CoinsInv' /\ Total \in Int /\ Total' \in Int /\ Total' <= Total
         /\ Bronze \in Int /\ Bronze' \in Int
         /\ Bronze' <= Bronze /\ (Bronze' < Bronze => x.b > 0)
<1>1. /\ x \in Pile /\ Worth(x) \in Nat /\ x.b \in Nat
      /\ HeapStep(piles', 0 - Worth(x), 0 - x.b)
  BY HeapLess DEF CoinsGone
<1> DEFINE n == 0
           v == 0 - Worth(x)
           b == 0 - x.b
<1>2. PurseStep(purse', n, n)
  BY NoStep DEF CoinsGone
<1>3. n \in Int /\ v \in Int /\ b \in Int /\ HeapStep(piles', v, b)
  BY <1>1
<1>4. n = 0 /\ v <= 0 /\ b <= 0 /\ (b < 0 => x.b > 0)
  BY <1>1
<1> HIDE DEF n, v, b
<1>5. CoinsInv' /\ Total' = Total + n + v /\ Bronze' = Bronze + n + b /\ Total \in Int /\ Bronze \in Int
  BY <1>2, <1>3, StepIs
<1>. QED  BY <1>3, <1>4, <1>5

\* One more pile, of any piles that are so much more or less than those there are.
LEMMA StepOneMore ==
  ASSUME CoinsInv, NEW B, NEW w \in Int, NEW a \in Int, HeapStep(B, w, a),
         NEW at \in {"ground", "corpse"}, NEW x \in Sum
  PROVE  /\ HeapStep(B (+) One(at, x), w + Worth(Money(at, x)), a + Money(at, x).b)
         /\ Worth(Money(at, x)) \in Nat /\ Money(at, x).b \in Nat
<1>1. InHeap(piles, WorthIn) \in Int /\ InHeap(piles, BronzeIn) \in Int
  BY HeapParts, ValuesPlace DEF CoinsInv
<1>2. Worth(Money(at, x)) \in Nat /\ Money(at, x).b \in Nat
  <2>1. Money(at, x) \in Pile
    BY MoneyIs DEF GoodPile
  <2>. QED  BY <2>1, PileSum
<1>3. /\ GoodHeap(B (+) One(at, x))
      /\ InHeap(B (+) One(at, x), WorthIn) = InHeap(B, WorthIn) + Worth(Money(at, x))
      /\ InHeap(B (+) One(at, x), BronzeIn) = InHeap(B, BronzeIn) + Money(at, x).b
  BY OneMore DEF HeapStep
<1>4. /\ InHeap(B, WorthIn) = InHeap(piles, WorthIn) + w
      /\ InHeap(B, BronzeIn) = InHeap(piles, BronzeIn) + a
  BY DEF HeapStep
<1> DEFINE C == B (+) One(at, x)
           m == Money(at, x)
<1> HIDE DEF C, m
<1>5. /\ InHeap(C, WorthIn) = InHeap(piles, WorthIn) + (w + Worth(m))
      /\ InHeap(C, BronzeIn) = InHeap(piles, BronzeIn) + (a + m.b)
  BY <1>1, <1>2, <1>3, <1>4 DEF C, m
<1>. QED  BY <1>2, <1>3, <1>5 DEF HeapStep, C, m

LEMMA StepRestMore ==
  ASSUME CoinsInv, NEW B, NEW w \in Int, NEW a \in Int, HeapStep(B, w, a),
         NEW at \in {"ground", "corpse"}, NEW x \in Sum, x.b = 0
  PROVE  HeapStep(B (+) Rest(at, x), w + Worth(x), a)
<1>1. InHeap(piles, WorthIn) \in Int /\ InHeap(piles, BronzeIn) \in Int
  BY HeapParts, ValuesPlace DEF CoinsInv
<1>2. Worth(x) \in Nat
  BY Values
<1>3. /\ GoodHeap(B (+) Rest(at, x))
      /\ InHeap(B (+) Rest(at, x), WorthIn) = InHeap(B, WorthIn) + Worth(x)
      /\ InHeap(B (+) Rest(at, x), BronzeIn) = InHeap(B, BronzeIn)
  BY RestMore DEF HeapStep
<1>4. /\ InHeap(B, WorthIn) = InHeap(piles, WorthIn) + w
      /\ InHeap(B, BronzeIn) = InHeap(piles, BronzeIn) + a
  BY DEF HeapStep
<1>. QED  BY <1>1, <1>2, <1>3, <1>4 DEF HeapStep

\* get_gold(): what lies in the pile is taken out of it or lies there again.
LEMMA GetGoldIs ==
  ASSUME CoinsInv, NEW p \in Who, NEW x \in DOMAIN piles, NEW n \in Nat \ {0}, GetGold(p, x, n)
  PROVE  Mints(p, Worth(x)) /\ Bronze' = Bronze
<1> DEFINE rest == Coins(x.s, x.g - n, 0)
           out == Coins(0, n, 0)
           less == piles (-) SetToBag({x})
           left == less (+) Rest(x.at, rest)
<1>1. /\ x.of = "coins" /\ x.g >= n
      /\ \/ piles' = left /\ Takes(p, out)
         \/ piles' = left (+) One(x.at, out) /\ UNCHANGED purse
  BY DEF GetGold
<1>2. /\ x \in Pile /\ x \in GoodPile /\ Worth(x) \in Nat /\ x.b \in Nat
      /\ HeapStep(less, 0 - Worth(x), 0 - x.b)
  BY HeapLess
<1>3. x.s \in Nat /\ x.g \in Nat /\ x.b = 0 /\ x.at \in {"ground", "corpse"}
  BY <1>1, <1>2 DEF Pile, GoodPile
<1>4. /\ rest \in Sum /\ rest.s = x.s /\ rest.g = x.g - n /\ rest.b = 0
      /\ out \in Sum /\ out.s = 0 /\ out.g = n /\ out.b = 0
  <2>1. x.g - n \in Nat
    BY <1>1, <1>3
  <2>. QED  BY <1>3, <2>1, SumIs DEF Coins
<1>5. Worth(rest) + Worth(out) = Worth(x) /\ Worth(rest) \in Nat /\ Worth(out) \in Nat
  <2> HIDE DEF rest, out
  <2>1. Worth(rest) \in Nat /\ Worth(out) \in Nat
    BY <1>4, Values
  <2>2. Rate * (x.g - n) + Rate * n = Rate * x.g
    BY <1>1, <1>3, RateNat
  <2>3. Rate * (x.g - n) \in Int /\ Rate * n \in Int /\ Rate * x.g \in Int
    BY <1>1, <1>3, RateNat
  <2>4. Worth(rest) = x.s + Rate * (x.g - n) /\ Worth(out) = 0 + Rate * n
        /\ Worth(x) = x.s + Rate * x.g
    BY <1>4 DEF Worth
  <2>. QED  BY <1>3, <2>1, <2>2, <2>3, <2>4
<1> HIDE DEF rest, out, less, left
<1>6. HeapStep(left, 0 - Worth(out), 0)
  <2>1. 0 - Worth(x) \in Int /\ 0 - x.b = 0
    BY <1>2, <1>3
  <2>2. HeapStep(less, 0 - Worth(x), 0)
    BY <1>2, <2>1, Zenon
  <2>3. HeapStep(left, (0 - Worth(x)) + Worth(rest), 0)
    BY <1>3, <1>4, <2>1, <2>2, StepRestMore DEF left
  <2>4. (0 - Worth(x)) + Worth(rest) = 0 - Worth(out)
    BY <1>2, <1>5
  <2>. QED  BY <2>3, <2>4, Zenon
<1>7. CASE piles' = left /\ Takes(p, out)
  <2>1. PICK e \in Extra(p, out) :
          PurseStep(purse', Worth(out) + e, IF p \in PC THEN out.b ELSE 0)
    BY <1>4, <1>7, TakesKeeps
  <2>2. (IF p \in PC THEN out.b ELSE 0) = 0 /\ 0 \in Int
    BY <1>4
  <2>3. PurseStep(purse', Worth(out) + e, 0)
    BY <2>1, <2>2, Zenon
  <2>4. e \in Nat /\ 2 * e <= Worth(out) /\ (p \in PC => e = 0)
    BY DEF Extra
  <2>5. 0 - Worth(out) \in Int /\ Worth(out) + e \in Int
    BY <1>5, <2>4
  <2>6. HeapStep(piles', 0 - Worth(out), 0)
    BY <1>6, <1>7
  <2>7. /\ CoinsInv' /\ Total' = Total + (Worth(out) + e) + (0 - Worth(out))
        /\ Bronze' = Bronze + 0 + 0 /\ Total \in Int /\ Bronze \in Int
    BY <2>2, <2>3, <2>5, <2>6, StepIs
  <2>8. Total' = Total + e
    BY <1>5, <2>4, <2>7
  <2>. QED  BY <1>2, <1>5, <2>4, <2>7, <2>8 DEF Mints
<1>8. CASE piles' = left (+) One(x.at, out) /\ UNCHANGED purse
  <2> DEFINE m == Money(x.at, out)
  <2>1. Worth(m) = Worth(out) /\ m.b = 0
    BY <1>3, <1>4, MoneyIs
  <2>2. HeapStep(piles', (0 - Worth(out)) + Worth(m), 0 + m.b)
    <3>1. 0 - Worth(out) \in Int
      BY <1>5
    <3>. QED  BY <1>3, <1>4, <1>6, <1>8, <3>1, StepOneMore
  <2> HIDE DEF m
  <2>3. (0 - Worth(out)) + Worth(m) = 0 /\ 0 + m.b = 0
    BY <1>5, <2>1
  <2>4. HeapStep(piles', 0, 0)
    BY <2>2, <2>3, Zenon
  <2>5. PurseStep(purse', 0, 0)
    BY <1>8, NoStep
  <2>6. Even
    BY <2>4, <2>5, StepIs DEF Even
  <2>. QED  BY <1>2, <2>6, EvenMints DEF Even
<1>. QED  BY <1>1, <1>7, <1>8

\* A step of the purses that keeps their sums, and nothing else.
LEMMA PursesEven ==
  ASSUME CoinsInv, PurseStep(purse', 0, 0), UNCHANGED piles
  PROVE  Even
<1>1. HeapStep(piles', 0, 0)
  BY NoStep
<1>2. /\ CoinsInv' /\ Total' = Total + 0 + 0
      /\ Bronze' = Bronze + 0 + 0 /\ Total \in Int /\ Bronze \in Int
  BY <1>1, StepIs
<1>. QED  BY <1>2 DEF Even

LEMMA GiveIs ==
  ASSUME CoinsInv, NEW c \in Who, NEW v \in Who, NEW word \in Words, NEW n \in Sums,
         Give(c, v, word, n)
  PROVE  Even
<1> DEFINE x == Named(word, n)
<1>1. /\ c # v /\ (word = "bronze" => v \in PC) /\ Has(purse[c], x)
      /\ purse' = Moved(c, v, x) /\ UNCHANGED piles
  BY DEF Give
<1>2. x \in Sum /\ (word # "bronze" => x.b = 0)
  <2>1. n \in Nat
    BY CoinsAssumption
  <2>. QED  BY <2>1, SumIs DEF Named, Coins
<1> HIDE DEF x
<1>3. PurseStep(purse', 0, 0)
  BY <1>1, <1>2, MovedKeeps
<1>. QED  BY <1>1, <1>3, PursesEven

LEMMA StealIs ==
  ASSUME CoinsInv, NEW c \in Who, NEW v \in Who, Steal(c, v)
  PROVE  Even
<1>1. PICK s \in 0..purse[v].s, g \in 0..purse[v].g, b \in 0..purse[v].b :
        /\ {c, v} \subseteq PC \/ b = 0
        /\ purse' = Moved(v, c, Coins(s, g, b))
  BY DEF Steal
<1>2. purse[v] \in Sum
  BY DEF CoinsInv
<1>3. purse[v].s \in Nat /\ purse[v].g \in Nat /\ purse[v].b \in Nat
  BY <1>2, SumIs
<1> DEFINE x == Coins(s, g, b)
<1>4. x \in Sum /\ x.b = b /\ Has(purse[v], x)
  BY <1>3, SumIs DEF Coins, Has
<1> HIDE DEF x
<1>5. c \in PC \/ x.b = 0
  BY <1>1, <1>4
<1>6. v # c /\ UNCHANGED piles /\ purse' = Moved(v, c, x)
  BY <1>1 DEF Steal, x
<1>7. PurseStep(purse', 0, 0)
  BY <1>4, <1>5, <1>6, MovedKeeps
<1>. QED  BY <1>6, <1>7, PursesEven

LEMMA BuyIs ==
  ASSUME CoinsInv, NEW c \in Who, NEW k \in Who, NEW cost \in Costs, Buy(c, k, cost)
  PROVE  Even
<1> DEFINE y == Deduct(purse[c], cost)
           z == Plus(purse[k], Price(cost))
<1>1. /\ purse \in [Who -> Sum] /\ purse[c] \in Sum /\ purse[k] \in Sum
      /\ \A m \in Mob : purse[m].b = 0
  BY DEF CoinsInv
<1>2. cost \in Nat \ {0} /\ Worth(purse[c]) >= cost /\ c # k /\ UNCHANGED piles
  BY CoinsAssumption DEF Buy
<1>3. /\ y \in Sum /\ y.b = purse[c].b /\ Worth(y) = Worth(purse[c]) - cost
  BY <1>1, <1>2, DeductIs
<1>4. /\ z \in Sum /\ z.b = purse[k].b + 0 /\ Worth(z) = Worth(purse[k]) + cost
  <2>1. Price(cost) \in Sum /\ Price(cost).b = 0 /\ Worth(Price(cost)) = cost
    BY <1>2, PriceIs
  <2> HIDE DEF z
  <2>2. /\ z \in Sum /\ z.b = purse[k].b + Price(cost).b
        /\ Worth(z) = Worth(purse[k]) + Worth(Price(cost))
    BY <1>1, <2>1, PlusIs, WorthAdds DEF z
  <2>. QED  BY <2>1, <2>2
<1>5. purse' = [purse EXCEPT ![c] = y, ![k] = z]
  BY <1>1, <1>2 DEF Buy
<1> HIDE DEF y, z
<1>6. /\ Worth(purse[c]) \in Nat /\ Worth(purse[k]) \in Nat
      /\ purse[c].b \in Nat /\ purse[k].b \in Nat
  BY <1>1, Values
<1>7. (c \in PC \/ y.b = 0) /\ (k \in PC \/ z.b = 0)
  BY <1>1, <1>3, <1>4, <1>6 DEF Who
<1>8. PurseStep(purse', Worth(y) + Worth(z) - (Worth(purse[c]) + Worth(purse[k])),
                y.b + z.b - (purse[c].b + purse[k].b))
  BY <1>2, <1>3, <1>4, <1>5, <1>7, PurseSetTwo
<1>9. /\ Worth(y) + Worth(z) - (Worth(purse[c]) + Worth(purse[k])) = 0
      /\ y.b + z.b - (purse[c].b + purse[k].b) = 0
  BY <1>2, <1>3, <1>4, <1>6
<1>10. PurseStep(purse', 0, 0)
  BY <1>8, <1>9, Zenon
<1>. QED  BY <1>2, <1>10, PursesEven

\* A step of the purses alone.
LEMMA PursesOnly ==
  ASSUME CoinsInv, NEW w \in Int, PurseStep(purse', w, 0), UNCHANGED piles
  PROVE  /\ CoinsInv' /\ Total' = Total + w /\ Bronze' = Bronze
         /\ Total \in Int /\ Bronze \in Int
<1>1. HeapStep(piles', 0, 0)
  BY NoStep
<1>2. /\ CoinsInv' /\ Total' = Total + w + 0
      /\ Bronze' = Bronze + 0 + 0 /\ Total \in Int /\ Bronze \in Int
  BY <1>1, StepIs
<1>. QED  BY <1>2

LEMMA ShareIs ==
  ASSUME CoinsInv, NEW c \in Who, NEW x \in Amounts, Share(c, x)
  PROVE  Mints(c, Worth(x)) /\ Bronze' = Bronze
<1>1. Has(purse[c], x) /\ Shared(purse, c, x) /\ UNCHANGED piles
  BY DEF Share
<1>2. x \in Sum /\ Worth(x) \in Nat
  <2>1. PICK s \in Sums \cup {0}, g \in Sums \cup {0} : x = Coins(s, g, 0)
    BY DEF Amounts
  <2>2. s \in Nat /\ g \in Nat
    BY CoinsAssumption
  <2>. QED  BY <2>1, <2>2, SumIs, Values
<1>3. PICK e \in Extra(c, x) : PurseStep(purse', 0 + e, 0)
  BY <1>1, <1>2, NoStep, SharedKeeps DEF Has
<1>4. e \in Nat /\ 2 * e <= Worth(x) /\ (c \in PC => e = 0) /\ 0 + e = e
  BY DEF Extra
<1>5. PurseStep(purse', e, 0)
  BY <1>3, <1>4, Zenon
<1>6. CoinsInv' /\ Total' = Total + e /\ Bronze' = Bronze /\ Total \in Int /\ Bronze \in Int
  BY <1>1, <1>4, <1>5, PursesOnly
<1>. QED  BY <1>2, <1>4, <1>6 DEF Mints

LEMMA PayIs ==
  ASSUME CoinsInv, NEW p \in Who, NEW cost \in Costs, Pay(p, cost)
  PROVE  CoinsInv' /\ Total' = Total - cost /\ Bronze' = Bronze /\ Total \in Int
<1> DEFINE y == Deduct(purse[p], cost)
<1>1. p \in Who /\ purse[p] \in Sum /\ (p \in PC \/ purse[p].b = 0)
  BY DEF CoinsInv, Who
<1>2. cost \in Nat \ {0} /\ Worth(purse[p]) >= cost /\ UNCHANGED piles
      /\ purse' = [purse EXCEPT ![p] = y]
  BY CoinsAssumption DEF Pay
<1>3. /\ y \in Sum /\ y.b = purse[p].b /\ Worth(y) = Worth(purse[p]) - cost
      /\ Worth(purse[p]) \in Nat /\ purse[p].b \in Nat
  BY <1>1, <1>2, DeductIs, Values
<1> HIDE DEF y
<1>4. PurseStep(purse', Worth(y) - Worth(purse[p]), y.b - purse[p].b)
  BY <1>1, <1>2, <1>3, PurseSet
<1>5. Worth(y) - Worth(purse[p]) = 0 - cost /\ y.b - purse[p].b = 0 /\ 0 - cost \in Int
  BY <1>2, <1>3
<1>6. PurseStep(purse', 0 - cost, 0)
  BY <1>4, <1>5, Zenon
<1>7. /\ CoinsInv' /\ Total' = Total + (0 - cost) /\ Bronze' = Bronze
      /\ Total \in Int /\ Bronze \in Int
  BY <1>2, <1>5, <1>6, PursesOnly
<1>. QED  BY <1>2, <1>7

\* A changer makes silver and gold, and bronze it does not touch.
LEMMA ChangerIs ==
  ASSUME CoinsInv, NEW p \in Who, NEW v \in Changer, NEW word \in Words, NEW n \in Sums,
         GiveChanger(p, v, word, n)
  PROVE  CoinsInv' /\ Bronze' = Bronze
<1> DEFINE x    == IF word = "bronze" THEN NoCoins ELSE Named(word, n)
           c    == Change(word, n)
           q    == Minus(purse[p], x)
           r    == Plus(purse[v], x)
           got  == Moved(p, v, x)
           full == IF word = "silver"
                   THEN IF c > got[v].g THEN [got[v] EXCEPT !.g = @ + c] ELSE got[v]
                   ELSE IF c > got[v].s THEN [got[v] EXCEPT !.s = @ + c] ELSE got[v]
           back == IF c < 1 THEN x
                   ELSE Coins(IF word = "silver" THEN (95 * n) \div 100 - c * Rate ELSE 0,
                              c, 0)
           paid == {NoCoins, Coins(back.s, 0, 0), Coins(0, back.g, 0), back}
<1>1. /\ p # v /\ Has(purse[p], x) /\ UNCHANGED piles
      /\ \/ \E y \in paid : purse' = [got EXCEPT ![p] = Plus(@, y), ![v] = NoCoins]
         \/ purse' = [got EXCEPT ![v] = full]
  BY DEF GiveChanger
<1>2. /\ purse \in [Who -> Sum] /\ purse[p] \in Sum /\ purse[v] \in Sum
      /\ v \in Who /\ v \in Mob /\ purse[v].b = 0 /\ n \in Nat /\ n > 0
      /\ (p \in Mob => purse[p].b = 0)
  BY CoinsAssumption DEF CoinsInv, Who
<1>3. x \in Sum /\ x.b = 0
  <2>1. word \in {"silver", "gold"} \/ word = "bronze"
    BY DEF GiveChanger
  <2>. QED  BY <1>2, <2>1, SumIs DEF Named, NoCoins, Coins
<1>4. c \in Nat /\ (word = "silver" => (95 * n) \div 100 - c * Rate \in Nat)
  <2>1. (95 * n) \div 100 \in Nat /\ (95 * n * Rate) \div 100 \in Nat
    <3>1. 95 * n \in Nat /\ 95 * n * Rate \in Nat /\ 100 \in Nat \ {0}
      BY <1>2, RateNat
    <3>. QED  BY <3>1, DivIs
  <2> DEFINE a == (95 * n) \div 100
  <2>a. a \in Nat
    BY <2>1
  <2> HIDE DEF a
  <2>2. a \in Nat /\ a \div Rate \in Nat /\ a % Rate \in Nat /\ Rate * (a \div Rate) + (a % Rate) = a
    BY <2>a, RateNat, DivIs
  <2>3. a - (a \div Rate) * Rate \in Nat
    BY <2>2, RateNat
  <2>. QED  BY <2>1, <2>2, <2>3 DEF Change, a
<1>5. q \in Sum /\ q.b = purse[p].b /\ r \in Sum /\ r.b = 0 /\ purse[p].b \in Nat
  <2> HIDE DEF x
  <2>1. q \in Sum /\ q.b = purse[p].b - x.b /\ r \in Sum /\ r.b = purse[v].b + x.b
    BY <1>1, <1>2, <1>3, PlusIs
  <2>2. purse[p].b \in Nat
    BY <1>2, Values
  <2>. QED  BY <1>2, <1>3, <2>1, <2>2
<1>6. got = [purse EXCEPT ![p] = q, ![v] = r] /\ got[p] = q /\ got[v] = r
  BY <1>1, <1>2 DEF Moved
<1> HIDE DEF x, c, q, r
<1>7. full \in Sum /\ full.b = 0
  <2>1. r.s \in Nat /\ r.g \in Nat /\ r.b \in Nat /\ r = Coins(r.s, r.g, r.b)
    BY <1>5, SumIs
  <2>2. full \in {r, [r EXCEPT !.g = @ + c], [r EXCEPT !.s = @ + c]}
    BY <1>6
  <2> HIDE DEF full, got, paid, back
  <2>3. [r EXCEPT !.g = @ + c] \in Sum /\ [r EXCEPT !.g = @ + c].b = 0
    BY <1>4, <1>5, <2>1 DEF Sum
  <2>4. [r EXCEPT !.s = @ + c] \in Sum /\ [r EXCEPT !.s = @ + c].b = 0
    BY <1>4, <1>5, <2>1 DEF Sum
  <2>. QED  BY <1>5, <2>2, <2>3, <2>4
<1>8. \A y \in paid : y \in Sum /\ y.b = 0
  <2>1. back \in Sum /\ back.b = 0
    BY <1>3, <1>4, SumIs DEF Coins
  <2> HIDE DEF full, got, back
  <2>2. back.s \in Nat /\ back.g \in Nat
    BY <2>1, SumIs
  <2>. QED  BY <2>1, <2>2, SumIs DEF NoCoins, Coins
<1> HIDE DEF full, paid, back
<1> DEFINE Two == \E y, z \in Sum :
                    y.b = purse[p].b /\ z.b = 0 /\ purse' = [purse EXCEPT ![p] = y, ![v] = z]
<1>9. Two
  <2>1. ASSUME NEW y \in paid, purse' = [got EXCEPT ![p] = Plus(@, y), ![v] = NoCoins]
        PROVE  Two
    <3> DEFINE t == Plus(q, y)
    <3>1. t \in Sum /\ t.b = purse[p].b
      <4>1. t \in Sum /\ t.b = q.b + y.b /\ y.b = 0
        BY <1>5, <1>8, PlusIs
      <4>. QED  BY <1>5, <4>1
    <3>2. purse' = [got EXCEPT ![p] = t, ![v] = NoCoins]
      BY <1>6, <2>1
    <3> HIDE DEF t, got
    <3>3. purse' = [purse EXCEPT ![p] = t, ![v] = NoCoins]
      BY <1>1, <1>2, <1>6, <3>2
    <3>4. NoCoins \in Sum /\ NoCoins.b = 0
      BY SumIs DEF NoCoins, Coins
    <3>. QED  BY <3>1, <3>3, <3>4
  <2>2. ASSUME purse' = [got EXCEPT ![v] = full]
        PROVE  Two
    <3> HIDE DEF got
    <3>1. purse' = [purse EXCEPT ![p] = q, ![v] = full]
      BY <1>1, <1>2, <1>6, <2>2
    <3>. QED  BY <1>5, <1>7, <3>1
  <2>. QED  BY <1>1, <2>1, <2>2
<1>10. PICK y \in Sum, z \in Sum :
         y.b = purse[p].b /\ z.b = 0 /\ purse' = [purse EXCEPT ![p] = y, ![v] = z]
  BY <1>9
<1> DEFINE w == Worth(y) + Worth(z) - (Worth(purse[p]) + Worth(purse[v]))
           b == y.b + z.b - (purse[p].b + purse[v].b)
<1>11. w \in Int /\ b = 0
  BY <1>2, <1>5, <1>10, Values
<1>12. PurseStep(purse', w, b)
  <2>1. (p \in PC \/ y.b = 0) /\ (v \in PC \/ z.b = 0)
    BY <1>2, <1>10 DEF Who
  <2>. QED  BY <1>1, <1>2, <1>10, <2>1, PurseSetTwo
<1> HIDE DEF w, b
<1>13. PurseStep(purse', w, 0)
  BY <1>11, <1>12
<1>. QED  BY <1>1, <1>11, <1>13, PursesOnly

\* A purse is emptied.
LEMMA PurseEmptied ==
  ASSUME CoinsInv, NEW c \in Who
  PROVE  /\ PurseStep([purse EXCEPT ![c] = NoCoins], 0 - Worth(purse[c]), 0 - purse[c].b)
         /\ purse[c] \in Sum /\ Worth(purse[c]) \in Nat /\ purse[c].b \in Nat
         /\ c \in Mob => purse[c].b = 0
<1>1. purse[c] \in Sum /\ (c \in Mob => purse[c].b = 0)
  BY DEF CoinsInv
<1>2. Worth(purse[c]) \in Nat /\ purse[c].b \in Nat
  BY <1>1, Values
<1>3. NoCoins \in Sum /\ NoCoins.b = 0 /\ Worth(NoCoins) = 0
  BY RateNat, SumIs DEF NoCoins, Coins, Worth
<1>4. PurseStep([purse EXCEPT ![c] = NoCoins], Worth(NoCoins) - Worth(purse[c]),
                NoCoins.b - purse[c].b)
  BY <1>3, PurseSet
<1>5. Worth(NoCoins) - Worth(purse[c]) = 0 - Worth(purse[c]) /\ NoCoins.b - purse[c].b = 0 - purse[c].b
  BY <1>2, <1>3
<1>6. PurseStep([purse EXCEPT ![c] = NoCoins], 0 - Worth(purse[c]), 0 - purse[c].b)
  BY <1>4, <1>5, Zenon
<1>. QED  BY <1>1, <1>2, <1>6

\* What the dead leave is what they had, and what create_money() makes where there was
\* none of the one or of the other.
LEMMA CorpseIs ==
  ASSUME CoinsInv, NEW c \in Who, MakeCorpse(c)
  PROVE  /\ CoinsInv' /\ Total \in Int /\ Total' \in Int /\ Total' >= Total
         /\ Total' > Total => c \in PC /\ Total' <= Total + Slip + 1
         /\ Bronze' = Bronze
<1> DEFINE x == purse[c]
           y == Coins(x.s, x.g, 0)
           z == Coins(0, 0, x.b)
           m == Money("corpse", y)
           k == Money("corpse", z)
<1>1. /\ PurseStep(purse', 0 - Worth(x), 0 - x.b)
      /\ x \in Sum /\ Worth(x) \in Nat /\ x.b \in Nat /\ (c \in Mob => x.b = 0)
  BY PurseEmptied DEF MakeCorpse
<1>2. /\ x.s \in Nat /\ x.g \in Nat /\ y \in Sum /\ z \in Sum
      /\ y.s = x.s /\ y.g = x.g /\ y.b = 0 /\ z.s = 0 /\ z.g = 0 /\ z.b = x.b
  BY <1>1, SumIs DEF Coins
<1> HIDE DEF x, y, z
<1>3. Worth(y) = Worth(x) /\ Slip \in Nat /\ Slip > 0
  BY <1>2, RateNat DEF Worth, Slip
<1>4. HeapStep(piles, 0, 0)
  BY NoStep
<1>5. CASE c \in Mob
  <2>1. piles' = piles (+) Rest("corpse", y)
    BY <1>5 DEF MakeCorpse, y, x
  <2>2. HeapStep(piles', 0 + Worth(y), 0)
    BY <1>2, <1>4, <2>1, StepRestMore
  <2>3. 0 - Worth(x) \in Int /\ 0 - x.b \in Int /\ 0 + Worth(y) \in Int /\ 0 - x.b = 0
    BY <1>1, <1>3, <1>5
  <2>4. /\ CoinsInv' /\ Total' = Total + (0 - Worth(x)) + (0 + Worth(y))
        /\ Bronze' = Bronze + (0 - x.b) + 0 /\ Total \in Int /\ Bronze \in Int
    BY <1>1, <2>2, <2>3, StepIs
  <2>5. Total' = Total /\ Bronze' = Bronze
    BY <1>1, <1>3, <2>3, <2>4
  <2>. QED  BY <2>4, <2>5
<1>6. CASE c \notin Mob /\ x = NoCoins
  <2>1. piles' = piles
    BY <1>6 DEF MakeCorpse, x
  <2>2. Worth(x) = 0 /\ x.b = 0
    BY <1>6, RateNat DEF Worth, NoCoins, Coins
  <2>3. 0 - Worth(x) \in Int /\ 0 - x.b \in Int
    BY <1>1
  <2>4. HeapStep(piles', 0, 0)
    BY <1>4, <2>1
  <2>5. /\ CoinsInv' /\ Total' = Total + (0 - Worth(x)) + 0
        /\ Bronze' = Bronze + (0 - x.b) + 0 /\ Total \in Int /\ Bronze \in Int
    BY <1>1, <2>3, <2>4, StepIs
  <2>. QED  BY <2>2, <2>5
<1>7. CASE c \notin Mob /\ x # NoCoins
  <2>1. piles' = piles (+) One("corpse", y) (+) One("corpse", z)
    BY <1>7 DEF MakeCorpse, y, z, x
  <2>2. /\ HeapStep(piles (+) One("corpse", y), 0 + Worth(m), 0 + m.b)
        /\ Worth(m) \in Nat /\ m.b \in Nat
    BY <1>2, <1>4, StepOneMore
  <2>3. /\ HeapStep(piles', (0 + Worth(m)) + Worth(k), (0 + m.b) + k.b)
        /\ Worth(k) \in Nat /\ k.b \in Nat
    <3> HIDE DEF m
    <3>1. 0 + Worth(m) \in Int /\ 0 + m.b \in Int
      BY <2>2
    <3>. QED  BY <1>2, <2>1, <2>2, <3>1, StepOneMore
  <2>4. /\ x.s > 0 \/ x.g > 0 => Worth(m) = Worth(x)
        /\ x.s = 0 /\ x.g = 0 => Worth(m) = Slip /\ Worth(x) = 0 /\ x.b > 0
        /\ m.b = 0
    <3>1. x.s > 0 \/ x.g > 0 => Worth(m) = Worth(y) /\ m.b = 0
      BY <1>2, MoneyIs
    <3>2. x.s = 0 /\ x.g = 0 => y = NoCoins
      BY DEF y, NoCoins
    <3>3. y = NoCoins => Worth(m) = Slip /\ m.b = 0
      BY <1>2, MoneyIs
    <3>4. x.s = 0 /\ x.g = 0 => Worth(x) = 0 /\ x.b > 0
      <4>1. x.s = 0 /\ x.g = 0 => Worth(x) = 0
        BY RateNat DEF Worth
      <4>2. x = Coins(x.s, x.g, x.b)
        BY <1>1, SumIs
      <4>. QED  BY <1>1, <1>7, <4>1, <4>2 DEF NoCoins
    <3> HIDE DEF m
    <3>. QED  BY <1>2, <1>3, <3>1, <3>2, <3>3, <3>4
  <2>5. /\ x.b = 0 => Worth(k) = Slip /\ k.b = 0
        /\ x.b > 0 => Worth(k) <= 1 /\ k.b = x.b
    <3>1. x.b = 0 => z = NoCoins
      BY DEF z, NoCoins
    <3>2. x.b > 0 => z # NoCoins
      BY <1>2 DEF NoCoins, Coins
    <3>3. /\ z = NoCoins => Worth(k) = Slip /\ k.b = 0
          /\ z # NoCoins => Worth(k) = (IF z.b = 1 THEN 1 ELSE 0) /\ k.b = z.b
      BY <1>2, MoneyIs
    <3> HIDE DEF k
    <3>. QED  BY <1>1, <1>2, <3>1, <3>2, <3>3
  <2> HIDE DEF m, k
  <2>6. /\ CoinsInv' /\ Total' = Total + (0 - Worth(x)) + ((0 + Worth(m)) + Worth(k))
        /\ Bronze' = Bronze + (0 - x.b) + ((0 + m.b) + k.b) /\ Total \in Int /\ Bronze \in Int
    <3>1. /\ 0 - Worth(x) \in Int /\ 0 - x.b \in Int
          /\ (0 + Worth(m)) + Worth(k) \in Int /\ (0 + m.b) + k.b \in Int
      BY <1>1, <2>2, <2>3
    <3>. QED  BY <1>1, <2>3, <3>1, StepIs
  <2>7. Bronze' = Bronze
    BY <1>1, <2>4, <2>5, <2>6
  <2>8. Worth(m) + Worth(k) >= Worth(x) /\ Worth(m) + Worth(k) <= Worth(x) + Slip + 1
    BY <1>1, <1>2, <1>3, <2>2, <2>3, <2>4, <2>5
  <2>9. c \in PC
    BY <1>7 DEF Who
  <2>. QED  BY <1>1, <1>3, <2>2, <2>3, <2>6, <2>7, <2>8, <2>9
<1>. QED  BY <1>5, <1>6, <1>7

LEMMA RotIs ==
  ASSUME CoinsInv, CorpseRots
  PROVE  Even
<1> DEFINE I == {x \in DOMAIN piles : x.at = "corpse"}
           U == {[x EXCEPT !.at = "ground"] : x \in I}
           C == [y \in U |-> piles[[y EXCEPT !.at = "corpse"]]]
           B == Without(I)
<1>1. piles' = B (+) C /\ UNCHANGED purse
  BY DEF CorpseRots
<1>2. GoodHeap(piles) /\ I \subseteq DOMAIN piles
  BY DEF CoinsInv
<1>3. /\ GoodHeap(C)
      /\ InHeap(C, WorthIn) = Come(I, WorthIn) /\ InHeap(C, BronzeIn) = Come(I, BronzeIn)
  <2>1. /\ WorthIn \in [Pile -> Int] /\ BronzeIn \in [Pile -> Int]
        /\ Placeless(WorthIn) /\ Placeless(BronzeIn)
    BY ValuesPlace
  <2>. QED  BY <1>2, <2>1, HeapFallen DEF Come
<1>4. /\ GoodHeap(B)
      /\ InHeap(piles, WorthIn) = InHeap(B, WorthIn) + Come(I, WorthIn)
      /\ InHeap(piles, BronzeIn) = InHeap(B, BronzeIn) + Come(I, BronzeIn)
      /\ Come(I, WorthIn) \in Int /\ Come(I, BronzeIn) \in Int
  <2> HIDE DEF I
  <2>. QED  BY <1>2, HeapWithout, ValuesPlace DEF Come
<1> HIDE DEF I, U, C, B
<1>5. /\ GoodHeap(piles')
      /\ InHeap(piles', WorthIn) = InHeap(B, WorthIn) + InHeap(C, WorthIn)
      /\ InHeap(piles', BronzeIn) = InHeap(B, BronzeIn) + InHeap(C, BronzeIn)
  BY <1>1, <1>3, <1>4, HeapAdd, ValuesPlace
<1>6. /\ InHeap(B, WorthIn) \in Int /\ InHeap(B, BronzeIn) \in Int
  BY <1>4, HeapParts, ValuesPlace
<1>7. HeapStep(piles', 0, 0)
  BY <1>3, <1>4, <1>5, <1>6 DEF HeapStep
<1>8. PurseStep(purse', 0, 0)
  BY <1>1, NoStep
<1>9. /\ CoinsInv' /\ Total' = Total + 0 + 0
      /\ Bronze' = Bronze + 0 + 0 /\ Total \in Int /\ Bronze \in Int
  BY <1>7, <1>8, StepIs
<1>. QED  BY <1>9 DEF Even

\* A step of the ground alone: a pile of silver or gold.
LEMMA GroundGets ==
  ASSUME CoinsInv, NEW x \in Sum, x.s > 0, piles' = piles (+) One("ground", x), UNCHANGED purse
  PROVE  CoinsInv' /\ Bronze' = Bronze /\ Total \in Int /\ Total' \in Int /\ Total' >= Total
<1> DEFINE m == Money("ground", x)
<1>1. /\ HeapStep(piles', 0 + Worth(m), 0 + m.b) /\ Worth(m) \in Nat
  BY NoStep, StepOneMore
<1>2. m.b = 0
  BY MoneyIs
<1> HIDE DEF m
<1>3. PurseStep(purse', 0, 0)
  BY NoStep
<1>4. /\ CoinsInv' /\ Total' = Total + 0 + (0 + Worth(m))
      /\ Bronze' = Bronze + 0 + (0 + m.b) /\ Total \in Int /\ Bronze \in Int
  <2>1. 0 + Worth(m) \in Int /\ 0 + m.b \in Int
    BY <1>1, <1>2
  <2>. QED  BY <1>1, <1>3, <2>1, StepIs
<1>. QED  BY <1>1, <1>2, <1>4

LEMMA SacrificeIs ==
  ASSUME CoinsInv, NEW p \in Who, NEW n \in Sums, Sacrifice(p, n)
  PROVE  CoinsInv' /\ Bronze' = Bronze /\ Total \in Int /\ Total' \in Int /\ Total' >= Total
<1> DEFINE x == Coins(n, 0, 0)
<1>1. \/ Takes(p, x) /\ UNCHANGED piles
      \/ piles' = piles (+) One("ground", x) /\ UNCHANGED purse
  BY DEF Sacrifice
<1>2. x \in Sum /\ x.s > 0 /\ x.b = 0 /\ p \in Who
  <2>1. n \in Nat /\ n > 0
    BY CoinsAssumption
  <2>. QED  BY <2>1, SumIs DEF Coins, Who
<1> HIDE DEF x
<1>3. CASE Takes(p, x) /\ UNCHANGED piles
  <2>1. PICK e \in Extra(p, x) : PurseStep(purse', Worth(x) + e, IF p \in PC THEN x.b ELSE 0)
    BY <1>2, <1>3, TakesKeeps
  <2>2. (IF p \in PC THEN x.b ELSE 0) = 0 /\ Worth(x) \in Nat /\ e \in Nat
    BY <1>2, Values DEF Extra
  <2>3. PurseStep(purse', Worth(x) + e, 0) /\ Worth(x) + e \in Int
    BY <2>1, <2>2
  <2>4. CoinsInv' /\ Total' = Total + (Worth(x) + e) /\ Bronze' = Bronze /\ Total \in Int
    BY <1>3, <2>3, PursesOnly
  <2>. QED  BY <2>2, <2>4
<1>4. CASE piles' = piles (+) One("ground", x) /\ UNCHANGED purse
  BY <1>2, <1>4, GroundGets
<1>. QED  BY <1>1, <1>3, <1>4

LEMMA DigIs ==
  ASSUME CoinsInv, NEW p \in PC, Dig(p)
  PROVE  CoinsInv' /\ Bronze' = Bronze /\ Total \in Int /\ Total' \in Int /\ Total' >= Total
<1>1. PICK s \in Sums, g \in Sums \cup {0}, b \in Sums \cup {0} :
        piles' = piles (+) One("ground", Coins(s, g, b)) /\ UNCHANGED purse
  BY DEF Dig
<1> DEFINE x == Coins(s, g, b)
<1>2. x \in Sum /\ x.s > 0
  <2>1. s \in Nat /\ s > 0 /\ g \in Nat /\ b \in Nat
    BY CoinsAssumption
  <2>. QED  BY <2>1, SumIs DEF Coins
<1>3. piles' = piles (+) One("ground", x) /\ UNCHANGED purse
  BY <1>1
<1> HIDE DEF x
<1>. QED  BY <1>2, <1>3, GroundGets

-----------------------------------------------------------------------------
(***************************************************************************)
(* The theorems.                                                           *)
(***************************************************************************)
\* What CoinsKept says of a step.
Kept ==
    /\ Total' > Total => CoinsMade
    /\ Total' < Total => CoinsLost
    /\ Bronze' <= Bronze
    /\ Bronze' < Bronze => BronzeLost

LEMMA EvenKept ==
  ASSUME CoinsInv, Even
  PROVE  CoinsInv' /\ Kept
<1>1. Total \in Int /\ Bronze \in Int
  BY TotalsAre
<1>. QED  BY <1>1 DEF Even, Kept

LEMMA CoinsStep ==
  ASSUME CoinsInv, CoinsNext
  PROVE  CoinsInv' /\ Kept
<1>0. Total \in Int /\ Bronze \in Int
  BY TotalsAre
<1>1. ASSUME NEW p \in PC, Dig(p) PROVE CoinsInv' /\ Kept
  <2>1. CoinsInv' /\ Bronze' = Bronze /\ Total' \in Int /\ Total' >= Total
    BY <1>1, DigIs
  <2>2. CoinsMade
    BY <1>1 DEF CoinsMade
  <2>3. ~ (Total' < Total) /\ Bronze' <= Bronze /\ ~ (Bronze' < Bronze)
    BY <1>0, <2>1
  <2>. QED  BY <2>1, <2>2, <2>3 DEF Kept
<1>2. ASSUME NEW c \in Who, Anybody(c) PROVE CoinsInv' /\ Kept
  <2>1. ASSUME NEW x \in DOMAIN piles, GetCoins(c, x) PROVE CoinsInv' /\ Kept
    <3>1. /\ Mints(c, Worth(x)) /\ Bronze' <= Bronze
          /\ Bronze' < Bronze => x.b > 0 /\ c \in Mob
      BY <2>1, GetIs
    <3>2. Bronze' < Bronze => BronzeLost
      BY <2>1, <3>1 DEF BronzeLost
    <3>3. Total' > Total => CoinsMade
      BY <1>0, <2>1, <3>1 DEF CoinsMade, Mints, Who
    <3>4. ~ (Total' < Total)
      BY <1>0, <3>1 DEF Mints
    <3>. QED  BY <3>1, <3>2, <3>3, <3>4 DEF Kept, Mints
  <2>2. ASSUME NEW v \in Who, Steal(c, v) PROVE CoinsInv' /\ Kept
    BY <2>2, StealIs, EvenKept
  <2>3. ASSUME NEW v \in Who, NEW w \in Words, NEW n \in Sums, Give(c, v, w, n)
        PROVE  CoinsInv' /\ Kept
    BY <2>3, GiveIs, EvenKept
  <2>4. ASSUME NEW v \in Who, NEW w \in Words, NEW n \in Sums, GiveChanger(c, v, w, n)
        PROVE  CoinsInv' /\ Kept
    <3>1. v \in Changer
      BY <2>4 DEF GiveChanger
    <3>2. CoinsInv' /\ Bronze' = Bronze
      BY <2>4, <3>1, ChangerIs
    <3>3. CoinsMade /\ CoinsLost
      BY <2>4, <3>1 DEF CoinsMade, CoinsLost
    <3>4. Bronze' <= Bronze /\ ~ (Bronze' < Bronze)
      BY <1>0, <3>2
    <3>. QED  BY <3>2, <3>3, <3>4 DEF Kept
  <2>5. ASSUME NEW v \in Who, NEW cost \in Costs, Buy(c, v, cost) PROVE CoinsInv' /\ Kept
    BY <2>5, BuyIs, EvenKept
  <2>6. ASSUME NEW w \in Words, NEW n \in Sums, DropCoins(c, w, n) PROVE CoinsInv' /\ Kept
    <3>1. /\ CoinsInv'
          /\ Total' > Total => \/ w = "other" /\ Total' = Total + Slip
                               \/ w = "bronze" /\ Total' <= Total + Slip
          /\ Total' < Total => w = "bronze" /\ Total' >= Total - Singles
          /\ Bronze' <= Bronze
          /\ Bronze' < Bronze => w = "bronze" /\ \E x \in DOMAIN piles : x.at = "ground" /\ x.b > 1
      BY <2>6, DropIs
    <3>2. Total' > Total => CoinsMade
      BY <2>6, <3>1 DEF CoinsMade
    <3>3. Total' < Total => CoinsLost
      BY <2>6, <3>1 DEF CoinsLost
    <3>4. Bronze' < Bronze => BronzeLost
      BY <2>6, <3>1 DEF BronzeLost
    <3>. QED  BY <3>1, <3>2, <3>3, <3>4 DEF Kept
  <2>7. ASSUME MakeCorpse(c) PROVE CoinsInv' /\ Kept
    <3>1. /\ CoinsInv' /\ Total' \in Int /\ Total' >= Total /\ Bronze' = Bronze
          /\ Total' > Total => c \in PC /\ Total' <= Total + Slip + 1
      BY <2>7, CorpseIs
    <3>2. Total' > Total => CoinsMade
      BY <2>7, <3>1 DEF CoinsMade
    <3>3. ~ (Total' < Total) /\ Bronze' <= Bronze /\ ~ (Bronze' < Bronze)
      BY <1>0, <3>1
    <3>. QED  BY <3>1, <3>2, <3>3 DEF Kept
  <2>8. ASSUME NEW x \in DOMAIN piles, GetsGold(c, x) PROVE CoinsInv' /\ Kept
    <3>1. PICK n \in Sums \cup ({x.g} \ {0}) : GetGold(c, x, n)
      BY <2>8 DEF GetsGold
    <3>2. n \in Nat \ {0}
      <4>1. x \in Pile
        BY HeapLess
      <4>. QED  BY <4>1, CoinsAssumption DEF Pile
    <3>3. Mints(c, Worth(x)) /\ Bronze' = Bronze
      BY <3>1, <3>2, GetGoldIs
    <3>4. Total' > Total => CoinsMade
      BY <1>0, <2>8, <3>3 DEF CoinsMade, Mints, Who
    <3>5. ~ (Total' < Total) /\ Bronze' <= Bronze /\ ~ (Bronze' < Bronze)
      BY <1>0, <3>3 DEF Mints
    <3>. QED  BY <3>3, <3>4, <3>5 DEF Kept, Mints
  <2>9. ASSUME NEW x \in Amounts, Share(c, x) PROVE CoinsInv' /\ Kept
    <3>1. Mints(c, Worth(x)) /\ Bronze' = Bronze
      BY <2>9, ShareIs
    <3>2. Total' > Total => CoinsMade
      BY <1>0, <2>9, <3>1 DEF CoinsMade, Mints, Who
    <3>3. ~ (Total' < Total) /\ Bronze' <= Bronze /\ ~ (Bronze' < Bronze)
      BY <1>0, <3>1 DEF Mints
    <3>. QED  BY <3>1, <3>2, <3>3 DEF Kept, Mints
  <2>10. ASSUME NEW n \in Sums, Sacrifice(c, n) PROVE CoinsInv' /\ Kept
    <3>1. CoinsInv' /\ Bronze' = Bronze /\ Total' \in Int /\ Total' >= Total
      BY <2>10, SacrificeIs
    <3>2. CoinsMade
      BY <2>10 DEF CoinsMade
    <3>3. ~ (Total' < Total) /\ Bronze' <= Bronze /\ ~ (Bronze' < Bronze)
      BY <1>0, <3>1
    <3>. QED  BY <3>1, <3>2, <3>3 DEF Kept
  <2>11. ASSUME NEW cost \in Costs, Pay(c, cost) PROVE CoinsInv' /\ Kept
    <3>1. CoinsInv' /\ Total' = Total - cost /\ Bronze' = Bronze /\ cost \in Nat
      BY <2>11, PayIs, CoinsAssumption
    <3>2. CoinsLost
      BY <2>11, <3>1 DEF CoinsLost
    <3>3. ~ (Total' > Total) /\ Bronze' <= Bronze /\ ~ (Bronze' < Bronze)
      BY <1>0, <3>1
    <3>. QED  BY <3>1, <3>2, <3>3 DEF Kept
  <2>. QED  BY <1>2, <2>1, <2>2, <2>3, <2>4, <2>5, <2>6, <2>7, <2>8, <2>9, <2>10, <2>11 DEF Anybody
<1>3. ASSUME NEW x \in DOMAIN piles, CoinsGone(x) PROVE CoinsInv' /\ Kept
  <2>1. /\ CoinsInv' /\ Total' \in Int /\ Total' <= Total
        /\ Bronze' <= Bronze /\ (Bronze' < Bronze => x.b > 0)
    BY <1>3, GoneIs
  <2>2. CoinsLost /\ (Bronze' < Bronze => BronzeLost)
    BY <1>3, <2>1 DEF CoinsLost, BronzeLost
  <2>3. ~ (Total' > Total)
    BY <1>0, <2>1
  <2>. QED  BY <2>1, <2>2, <2>3 DEF Kept
<1>4. ASSUME CorpseRots PROVE CoinsInv' /\ Kept
  BY <1>4, RotIs, EvenKept
<1>. QED  BY <1>1, <1>2, <1>3, <1>4 DEF CoinsNext

LEMMA CoinsStart == CoinsInit => CoinsInv
<1>. SUFFICES ASSUME CoinsInit PROVE CoinsInv
  OBVIOUS
<1>1. InitPurse \in [Who -> Sum] /\ \A c \in Mob : c \in Who
  BY CoinsAssumption DEF Who
<1>2. ASSUME NEW c \in Who PROVE purse[c] \in Sum /\ (c \in Mob => purse[c].b = 0)
  <2>1. InitPurse[c] \in Sum
    BY <1>1
  <2>2. [InitPurse[c] EXCEPT !.b = 0] \in Sum /\ [InitPurse[c] EXCEPT !.b = 0].b = 0
    BY <2>1 DEF Sum
  <2>3. purse[c] = IF c \in Mob THEN [InitPurse[c] EXCEPT !.b = 0] ELSE InitPurse[c]
    BY DEF CoinsInit
  <2>. QED  BY <2>1, <2>2, <2>3
<1>3. purse = [c \in Who |-> purse[c]]
  BY DEF CoinsInit
<1>4. purse \in [Who -> Sum]
  BY <1>2, <1>3
<1>5. GoodHeap(piles)
  BY HeapNone DEF CoinsInit
<1>. QED  BY <1>1, <1>2, <1>4, <1>5 DEF CoinsInv

LEMMA CoinsUnchanged == CoinsInv /\ UNCHANGED coinVars => CoinsInv'
BY DEF CoinsInv, coinVars, GoodHeap

\* What lies anywhere is as create_money() makes it: no pile is empty, bronze lies by
\* itself, and the one single coin of bronze has a silver one in it.
THEOREM CoinsAreSound == CoinsSpec => []CoinsInv
<1>1. CoinsInv /\ [CoinsNext]_coinVars => CoinsInv'
  BY CoinsStep, CoinsUnchanged
<1>. QED  BY <1>1, CoinsStart, PTL DEF CoinsSpec

\* No pile is empty and none is of two kinds (create_money() of act_obj.c): no command on
\* silver and gold can lose bronze.
THEOREM PilesAreSound == CoinsSpec => []PilesSound
<1>1. CoinsInv => PilesSound
  <2>. SUFFICES ASSUME CoinsInv PROVE PilesSound
    OBVIOUS
  <2>1. \A x \in DOMAIN piles : x \in GoodPile /\ x \in Pile /\ piles[x] \in Nat /\ piles[x] > 0
    BY HeapCounts DEF CoinsInv
  <2>2. CoinsTypeOK
    BY <2>1 DEF CoinsInv, CoinsTypeOK, GoodHeap
  <2>3. \A x \in DOMAIN piles : /\ x.of = "bronze" <=> x.b > 0
                                /\ x.of = "coins" => x.s + x.g > 0
    BY <2>1 DEF GoodPile
  <2>. QED  BY <2>1, <2>2, <2>3 DEF PilesSound
<1>. QED  BY <1>1, CoinsAreSound, PTL

\* Silver and gold are made and lost in the named ways only, and by no more than the
\* named sums; bronze is made in none.
THEOREM CoinsAreKept == CoinsSpec => CoinsKept
<1>1. CoinsInv /\ [CoinsNext]_coinVars =>
        [/\ Total' > Total => CoinsMade
         /\ Total' < Total => CoinsLost
         /\ Bronze' <= Bronze
         /\ Bronze' < Bronze => BronzeLost]_coinVars
  BY CoinsStep DEF Kept
<1>. QED  BY <1>1, CoinsAreSound, PTL DEF CoinsSpec, CoinsKept
=============================================================================
