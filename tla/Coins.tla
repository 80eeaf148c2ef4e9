------------------------------- MODULE Coins -------------------------------
(***************************************************************************)
(* Coins change hands in a room: dropped, picked up, shared, given, stolen, *)
(* changed, spent, and left behind by the dead.  Purses hold silver, gold  *)
(* and, those of players only, bronze.  Coins on the ground and in corpses *)
(* are objects, which create_money() makes of a sum and get_obj() turns    *)
(* into a sum again.                                                       *)
(***************************************************************************)
EXTENDS Integers, FiniteSets, Bags, Totals

CONSTANTS
    PC,
    Mob,
    Changer,     \* the mobs with ACT_IS_CHANGER
    Rate,        \* pieces of silver in one of gold (100)
    Sums,        \* amounts that are typed in
    Costs,       \* what goods cost, in silver
    InitPurse,   \* what everybody has at first
    MaxWorth,    \* bound on the silver and gold there is
    MaxPiles     \* bound on the objects that coins lie in

Who  == PC \cup Mob
Sum  == [s : Nat, g : Nat, b : Nat]
Pile == [at : {"ground", "corpse"}, of : {"coins", "bronze"},
         s : Nat, g : Nat, b : Nat]

ASSUME CoinsAssumption ==
    /\ IsFiniteSet(PC) /\ IsFiniteSet(Mob)
    /\ PC \cap Mob = {} /\ Changer \subseteq Mob
    /\ Rate \in Nat \ {0}
    /\ Sums \subseteq Nat \ {0} /\ Costs \subseteq Nat \ {0}
    /\ InitPurse \in [Who -> Sum]
    /\ MaxWorth \in Nat /\ MaxPiles \in Nat

VARIABLES
    purse,       \* ch->silver, ch->gold, ch->pcdata->bronze
    piles        \* the objects with ITEM_MONEY, as a bag

coinVars == <<purse, piles>>

CoinsTypeOK ==
    /\ purse \in [Who -> Sum]
    /\ \A c \in Mob : purse[c].b = 0
    /\ IsABag(piles) /\ DOMAIN piles \subseteq Pile

CoinsInit ==
    /\ purse = [c \in Who |-> IF c \in Mob THEN [InitPurse[c] EXCEPT !.b = 0]
                              ELSE InitPurse[c]]
    /\ piles = EmptyBag

-----------------------------------------------------------------------------
(***************************************************************************)
(* Sums and piles.                                                         *)
(***************************************************************************)
Coins(s, g, b) == [s |-> s, g |-> g, b |-> b]
NoCoins == Coins(0, 0, 0)
Plus(x, y) == Coins(x.s + y.s, x.g + y.g, x.b + y.b)
Minus(x, y) == Coins(x.s - y.s, x.g - y.g, x.b - y.b)

\* What a sum is worth in silver, bronze aside.
Worth(x) == x.s + Rate * x.g

InPiles(w) == SumOf([x \in DOMAIN piles |-> piles[x] * w[x]], DOMAIN piles)
Total  == SumOf([c \in Who |-> Worth(purse[c])], Who) + InPiles([x \in Pile |-> Worth(x)])
Bronze == SumOf([c \in Who |-> purse[c].b], Who) + InPiles([x \in Pile |-> x.b])

\* Mutant: an empty sum is let through.
Money_Empty(at, x) ==
    IF x.s = 0 /\ x.g = 0
    THEN [at |-> at, of |-> "bronze", s |-> IF x.b = 1 THEN 1 ELSE 0, g |-> 0, b |-> x.b]
    ELSE [at |-> at, of |-> "coins", s |-> x.s, g |-> x.g, b |-> 0]

\* create_money(): an empty sum is made one coin of each kind.  The prototype of the
\* single bronze coin has a silver one in value[0], and bronze in a mixed pile is
\* forgotten.
Money(at, x) ==
    LET y == IF x = NoCoins THEN Coins(1, 1, 1) ELSE x
    IN IF y.s = 0 /\ y.g = 0
       THEN [at |-> at, of |-> "bronze", s |-> IF y.b = 1 THEN 1 ELSE 0, g |-> 0,
             b |-> y.b]
       ELSE [at |-> at, of |-> "coins", s |-> y.s, g |-> y.g, b |-> 0]

\* A bag of one pile, or of none where there is nothing to make one of.
One(at, x)  == SetToBag({Money(at, x)})
Rest(at, x) == IF x = NoCoins THEN EmptyBag ELSE One(at, x)

\* Bounds.
Fits == BagCardinality(piles') <= MaxPiles /\ Total' <= MaxWorth

\* The gold that is needed beside all silver for what costs cost.
GoldFor(silver, cost) == IF silver >= cost THEN 0
                         ELSE (cost - silver + Rate - 1) \div Rate

\* deduct_cost(): silver first; the change out of gold comes back in silver.
Deduct(x, cost) ==
    LET gold == GoldFor(x.s, cost)
    IN [x EXCEPT !.g = @ - gold, !.s = @ - (cost - Rate * gold)]

\* cost coins of silver as the trader's purse gets them.
Price(cost) == Coins(cost % Rate, cost \div Rate, 0)

-----------------------------------------------------------------------------
(***************************************************************************)
(* do_drop().  "silver" and "gold" gather what lies there, "bronze" what   *)
(* bronze lies there, "coins" is silver that is not put to the rest, and   *)
(* "other" is a word that is let in and means nothing ("монеты").          *)
(***************************************************************************)
Words == {"silver", "gold", "bronze", "coins", "other"}

Named(word, n) ==
    Coins(IF word \in {"silver", "coins"} THEN n ELSE 0,
          IF word = "gold" THEN n ELSE 0,
          IF word = "bronze" THEN n ELSE 0)

Gathered(word) ==
    {x \in DOMAIN piles :
        /\ x.at = "ground"
        /\ \/ word \in {"silver", "gold"} /\ x.of = "coins"
           \/ word = "bronze" /\ x.of = "bronze"}

\* Of a heap of bronze the wrong number is read, which is none.
Gain(x) == IF x.of = "coins" THEN Coins(x.s, x.g, 0)
           ELSE Coins(0, 0, IF x.b = 1 THEN 1 ELSE x.s)

GainOf(S) == Coins(SumOf([x \in S |-> piles[x] * Gain(x).s], S),
                   SumOf([x \in S |-> piles[x] * Gain(x).g], S),
                   SumOf([x \in S |-> piles[x] * Gain(x).b], S))

Has(x, y) == x.s >= y.s /\ x.g >= y.g /\ x.b >= y.b

\* The piles without those of S.
Without(S) == [x \in (DOMAIN piles) \ S |-> piles[x]]

\* Mobs do this for bronze only, of which they have none.
DropCoins(c, word, n) ==
    LET x == IF c \in Mob THEN NoCoins ELSE Named(word, n)
        S == Gathered(word)
    IN /\ c \in Mob => word = "bronze"
       /\ Has(purse[c], x)
       /\ purse' = [purse EXCEPT ![c] = Minus(@, x)]
       /\ piles' = Without(S) (+) One("ground", Plus(x, GainOf(S)))

-----------------------------------------------------------------------------
(***************************************************************************)
(* do_get().                                                               *)
(***************************************************************************)
\* Mutant: what does not divide is lost.
Split_Rest(u, p, M, R, x) ==
    LET share == Coins(x.s \div Cardinality(M), x.g \div Cardinality(M), 0)
        kept  == Cardinality(M \ {p}) + 1 - Cardinality(R)
    IN [q \in Who |->
          IF q \in R THEN Plus(u[q], share)
          ELSE IF q = p THEN Plus(Minus(u[q], Coins(x.s, x.g, 0)),
                                  Coins(kept * share.s, kept * share.g, 0))
          ELSE u[q]]

\* do_split() by p of x among the members M, of whom those in R can carry their share;
\* p keeps the others' shares, what does not divide, and a share of its own whether it
\* is a member or not.
Split(u, p, M, R, x) ==
    LET share == Coins(x.s \div Cardinality(M), x.g \div Cardinality(M), 0)
        paid  == Cardinality(R) - IF p \in M THEN 0 ELSE 1
    IN [q \in Who |->
          IF q \in R THEN Plus(u[q], share)
          ELSE IF q = p THEN Minus(u[q], Coins(paid * share.s, paid * share.g, 0))
          ELSE u[q]]

\* Members are the players of p's group who are here, and the mobs that immortals
\* inhabit; a mob may divide, too, and is none.
Shared(u, p, x) ==
    \E M \in SUBSET Who :
        /\ Cardinality(M) > 1
        /\ x.s >= Cardinality(M) \/ x.g >= Cardinality(M)
        /\ p \in PC => p \in M
        /\ \E R \in SUBSET (M \ {p}) : purse' = Split(u, p, M, R, x)

\* A mob that picks up bronze has nothing to keep it in.
Picked(c, x) == Coins(x.s, x.g, IF c \in PC THEN x.b ELSE 0)

\* get_obj() of x by c, who has PLR_AUTOSPLIT (in a mob the same bit is ACT_WIMPY) and a
\* group, or not.
Takes(c, x) ==
    LET u == [purse EXCEPT ![c] = Plus(@, Picked(c, x))]
    IN \/ purse' = u
       \/ (x.s > 1 \/ x.g > 0) /\ Shared(u, c, x)

GetCoins(c, x) ==
    /\ BagIn(x, piles)
    /\ piles' = piles (-) SetToBag({x})
    /\ Takes(c, x)

\* get_gold(): n of gold, or all, out of one pile; the rest lies there again.  What
\* was taken out may be too heavy, and lies there, too.  Heaps of bronze do not answer
\* to the name.
GetGold(c, x, n) ==
    LET left == piles (-) SetToBag({x}) (+) Rest(x.at, Coins(x.s, x.g - n, 0))
    IN /\ BagIn(x, piles) /\ x.of = "coins" /\ x.g >= n
       /\ \/ piles' = left /\ Takes(c, Coins(0, n, 0))
          \/ piles' = left (+) One(x.at, Coins(0, n, 0)) /\ UNCHANGED purse

\* A number is typed in, or "all".
GetsGold(c, x) == \E n \in Sums \cup ({x.g} \ {0}) : GetGold(c, x, n)

-----------------------------------------------------------------------------
(***************************************************************************)
(* do_give() and its changers, do_split(), do_steal() and trade.           *)
(***************************************************************************)
Moved(c, v, x) == [purse EXCEPT ![c] = Minus(@, x), ![v] = Plus(@, x)]

\* A coin of bronze is for players only.
Give(c, v, word, n) ==
    LET x == Named(word, n)
    IN /\ c # v /\ v \notin Changer /\ word \in {"silver", "gold", "bronze"}
       /\ word = "bronze" => {c, v} \subseteq PC
       /\ Has(purse[c], x)
       /\ purse' = Moved(c, v, x)
       /\ UNCHANGED piles

\* What a changer gives for n: 95 of a hundred, whole pieces of gold for silver.
Change(word, n) == IF word = "silver" THEN ((95 * n) \div 100) \div Rate
                   ELSE (95 * n * Rate) \div 100

\* A changer tops up what it has by the change and gives it: change pieces of gold,
\* whatever it has got, and what of the silver is left over.  Then its purse is
\* emptied.  A gift it keeps, topped up.  It may not see who gives, or the change may
\* be too heavy.  The bronze of a mob counts as gold and costs it nothing.
GiveChanger(p, v, word, n) ==
    LET x    == IF word = "bronze" THEN NoCoins ELSE Named(word, n)
        c    == Change(word, n)
        got  == Moved(p, v, x)
        full == IF word = "silver"
                THEN IF c > got[v].g THEN [got[v] EXCEPT !.g = @ + c] ELSE got[v]
                ELSE IF c > got[v].s THEN [got[v] EXCEPT !.s = @ + c] ELSE got[v]
        back == IF c < 1 THEN x
                ELSE Coins(IF word = "silver" THEN (95 * n) \div 100 - c * Rate ELSE 0,
                           c, 0)
        paid == {NoCoins, Coins(back.s, 0, 0), Coins(0, back.g, 0), back}
    IN /\ p # v /\ v \in Changer
       /\ word \in {"silver", "gold"} \/ (word = "bronze" /\ p \in Mob)
       /\ Has(purse[p], x)
       /\ \/ /\ \E y \in paid :
                  /\ Has(full, y)
                  /\ purse' = [got EXCEPT ![p] = Plus(@, y), ![v] = NoCoins]
          \/ purse' = [got EXCEPT ![v] = full]
       /\ UNCHANGED piles

\* do_split() as a command, of silver and gold.
Amounts == {Coins(s, g, 0) : s \in Sums \cup {0}, g \in Sums \cup {0}}

Share(c, x) ==
    /\ Has(purse[c], x)
    /\ Shared(purse, c, x)
    /\ UNCHANGED piles

\* A part of each kind, of bronze only among players.
Steal(c, v) ==
    /\ c # v
    /\ \E s \in 0..purse[v].s, g \in 0..purse[v].g, b \in 0..purse[v].b :
         /\ {c, v} \subseteq PC \/ b = 0
         /\ purse' = Moved(v, c, Coins(s, g, b))
    /\ UNCHANGED piles

\* do_buy() of what costs cost, by c from k; do_sell() is the same the other way, and
\* do_heal() the same with a healer.
Buy(c, k, cost) ==
    /\ c # k /\ (c \in Mob \/ k \in Mob)
    /\ Worth(purse[c]) >= cost
    /\ purse' = [purse EXCEPT ![c] = Deduct(@, cost), ![k] = Plus(@, Price(cost))]
    /\ UNCHANGED piles

\* Stables and pet shops keep nothing of it.
Pay(c, cost) ==
    /\ Worth(purse[c]) >= cost
    /\ purse' = [purse EXCEPT ![c] = Deduct(@, cost)]
    /\ UNCHANGED piles

-----------------------------------------------------------------------------
(***************************************************************************)
(* Where coins come from and where they end.                               *)
(***************************************************************************)
\* make_corpse(): silver and gold in one pile and bronze in another, even where there
\* is none of the one or of the other.
MakeCorpse(c) ==
    LET x == purse[c]
    IN /\ purse' = [purse EXCEPT ![c] = NoCoins]
       /\ piles' = IF c \in Mob THEN piles (+) Rest("corpse", Coins(x.s, x.g, 0))
                   ELSE IF x = NoCoins THEN piles
                   ELSE piles (+) One("corpse", Coins(x.s, x.g, 0))
                              (+) One("corpse", Coins(0, 0, x.b))

\* What was in a corpse falls to the ground; nothing is put together.
CorpseRots ==
    LET InCorpse == {x \in DOMAIN piles : x.at = "corpse"}
        fallen   == {[x EXCEPT !.at = "ground"] : x \in InCorpse}
    IN /\ InCorpse # {}
       /\ piles' = Without(InCorpse)
                   (+) [y \in fallen |-> piles[[y EXCEPT !.at = "corpse"]]]
       /\ UNCHANGED purse

\* do_sacrifice() of something worth n: in the purse, or too heavy for it.
Sacrifice(c, n) ==
    /\ \/ Takes(c, Coins(n, 0, 0)) /\ UNCHANGED piles
       \/ piles' = piles (+) One("ground", Coins(n, 0, 0)) /\ UNCHANGED purse

\* do_dig(), a skill that no mob has.
Dig(p) ==
    \E s \in Sums, g, b \in Sums \cup {0} :
        /\ piles' = piles (+) One("ground", Coins(s, g, b)) /\ UNCHANGED purse

\* Sacrificed, purged, or gone with a container.
CoinsGone(x) ==
    /\ BagIn(x, piles)
    /\ piles' = piles (-) SetToBag({x})
    /\ UNCHANGED purse

-----------------------------------------------------------------------------
Anybody(c) ==
    \/ \E x \in DOMAIN piles : GetCoins(c, x) \/ GetsGold(c, x)
    \/ \E x \in Amounts : Share(c, x)
    \/ \E n \in Sums : Sacrifice(c, n)
    \/ \E cost \in Costs : Pay(c, cost)
    \/ \E v \in Who : \/ Steal(c, v)
                      \/ \E w \in Words, n \in Sums : \/ Give(c, v, w, n)
                                                      \/ GiveChanger(c, v, w, n)
                      \/ \E cost \in Costs : Buy(c, v, cost)
    \/ \E w \in Words, n \in Sums : DropCoins(c, w, n)
    \/ MakeCorpse(c)

CoinsNext ==
    /\ \/ \E c \in Who : Anybody(c)
       \/ \E p \in PC : Dig(p)
       \/ \E x \in DOMAIN piles : CoinsGone(x)
       \/ CorpseRots
    /\ Fits

CoinsSpec == CoinsInit /\ [][CoinsNext]_coinVars

-----------------------------------------------------------------------------
\* No pile is empty, and bronze lies by itself: so no command on gold and silver can
\* lose bronze.
PilesSound ==
    /\ CoinsTypeOK
    /\ \A x \in DOMAIN piles : /\ x.of = "bronze" <=> x.b > 0
                               /\ x.of = "coins" => x.s + x.g > 0
                               /\ piles[x] > 0

\* What create_money() makes of nothing, in silver.
Slip == Rate + 1

\* The silver ones of the single coins of bronze that lie there.
Singles == SumOf([x \in DOMAIN piles |-> IF x.at = "ground" /\ x.b = 1 THEN piles[x] ELSE 0],
                 DOMAIN piles)

\* The gods and the earth give some; a changer makes some; create_money() makes a coin of
\* each for the dead and for a drop of nothing, and a silver one of a single bronze; a
\* mob keeps a share of what it divides and pays that share out as well.
CoinsMade ==
    \/ \E p \in PC : Dig(p)
    \/ \E c \in Who, n \in Sums : Sacrifice(c, n)
    \/ \E c \in Who, v \in Changer, w \in Words, n \in Sums : GiveChanger(c, v, w, n)
    \/ \E c \in PC : MakeCorpse(c) /\ Total' <= Total + Slip + 1
    \/ \E c \in Who, n \in Sums : DropCoins(c, "other", n) /\ Total' = Total + Slip
    \/ \E c \in Who, n \in Sums : DropCoins(c, "bronze", n) /\ Total' <= Total + Slip
    \/ \E m \in Mob, x \in Amounts : Share(m, x) /\ 2 * (Total' - Total) <= Worth(x)
    \/ \E m \in Mob, x \in DOMAIN piles :
          (GetCoins(m, x) \/ GetsGold(m, x)) /\ 2 * (Total' - Total) <= Worth(x)

\* What is spent, changed or destroyed is gone, with the silver ones of single bronze.
CoinsLost ==
    \/ \E x \in DOMAIN piles : CoinsGone(x)
    \/ \E c \in Who, cost \in Costs : Pay(c, cost) /\ Total' = Total - cost
    \/ \E c \in Who, v \in Changer, w \in Words, n \in Sums : GiveChanger(c, v, w, n)
    \/ \E c \in Who, n \in Sums : DropCoins(c, "bronze", n) /\ Total' >= Total - Singles

\* Bronze is destroyed, picked up by a mob, or lies in a heap where more is dropped.
BronzeLost ==
    \/ \E x \in DOMAIN piles : x.b > 0 /\ (CoinsGone(x) \/ \E c \in Mob : GetCoins(c, x))
    \/ /\ \E x \in DOMAIN piles : x.at = "ground" /\ x.b > 1
       /\ \E c \in Who, n \in Sums : DropCoins(c, "bronze", n)

\* Dropping, picking up, sharing, giving, stealing, buying and selling in any order
\* neither make nor lose silver or gold but in those ways, and nobody makes bronze.
CoinsKept ==
    [][/\ Total' > Total => CoinsMade
       /\ Total' < Total => CoinsLost
       /\ Bronze' <= Bronze
       /\ Bronze' < Bronze => BronzeLost]_coinVars
=============================================================================
