---------------------------- MODULE ListProofs ------------------------------
(***************************************************************************)
(* Three components that are sequences at heart.  The records of the quest *)
(* givers, for any number of players and givers and any times, and the     *)
(* lists of the descriptors, with the loops of the pulse that walk along   *)
(* them, for any number of connections and any limits of silence, lose     *)
(* several elements at once and keep the others in their order.  The stack *)
(* of the programs that are being read, for any depth of blocks and calls  *)
(* and any number of mobiles, objects and rooms, changes at its top.       *)
(***************************************************************************)
EXTENDS Quest, GameLoop, Scripts, FiniteSetTheorems, SequenceTheorems, WellFoundedInduction,
        NaturalsInduction, TLAPS

Good == {x \in Quest : Agrees(x)}

\* The invariant: of groups only that they are groups of players.
QuestInv ==
    /\ online \subseteq Player
    /\ band \subseteq SUBSET Player
    /\ q \in [Player -> Good]

-----------------------------------------------------------------------------
(* Lists: which one is the first, and what is left of a list. *)

LEMMA MinIn ==
  ASSUME NEW K \in SUBSET Nat, K # {}
  PROVE  Min(K) \in K /\ \A k \in K : Min(K) <= k
<1> DEFINE R == OpToRel(<, Nat)
<1>1. PICK k \in K : \A j \in K : ~ (<<j, k>> \in R)
  <2>1. IsWellFoundedOn(R, Nat)
    BY NatLessThanWellFounded
  <2> HIDE DEF R
  <2>. QED  BY <2>1, WFMin
<1>2. ASSUME NEW j \in K PROVE k <= j
  <2>1. j < k => <<j, k>> \in R
    BY DEF OpToRel
  <2> HIDE DEF R
  <2>. QED  BY <1>1, <2>1
<1>. QED  BY <1>2 DEF Min

\* How many of K are not behind i.
Rank(K, i) == Cardinality(K \cap (1..i))

LEMMA Ranks ==
  ASSUME NEW n \in Nat, NEW K \in SUBSET (1..n)
  PROVE  /\ Cardinality(K) \in Nat
         /\ \A i \in K : Rank(K, i) \in 1..Cardinality(K)
         /\ \A i, k \in K : i < k => Rank(K, i) < Rank(K, k)
         /\ \A j \in 1..Cardinality(K) : \E i \in K : Rank(K, i) = j
<1>1. IsFiniteSet(K) /\ Cardinality(K) \in Nat
  <2>1. IsFiniteSet(1..n)
    BY FS_Interval
  <2>2. IsFiniteSet(K)
    BY <2>1, FS_Subset
  <2>. QED  BY <2>2, FS_CardinalityType
<1>2. \A i \in K : IsFiniteSet(K \cap (1..i)) /\ Rank(K, i) \in Nat /\ Rank(K, i) <= Cardinality(K)
  <2> TAKE i \in K
  <2>1. K \cap (1..i) \in SUBSET K
    OBVIOUS
  <2>. QED  BY <1>1, <2>1, FS_Subset, FS_CardinalityType DEF Rank
<1>3. ASSUME NEW i \in K PROVE Rank(K, i) # 0
  <2>1. i \in K \cap (1..i)
    BY <1>3
  <2>. QED  BY <1>2, <2>1, FS_EmptySet DEF Rank
<1>4. ASSUME NEW i \in K, NEW k \in K, i < k PROVE Rank(K, i) < Rank(K, k)
  <2> DEFINE A == K \cap (1..i)
             B == K \cap (1..k)
  <2>1. A \in SUBSET (B \ {k}) /\ k \in B
    BY <1>4
  <2>2. IsFiniteSet(B) /\ Cardinality(B) \in Nat
    BY <1>2 DEF Rank
  <2>3. IsFiniteSet(B \ {k}) /\ Cardinality(B \ {k}) = Cardinality(B) - 1
    BY <2>1, <2>2, FS_RemoveElement
  <2>4. Cardinality(A) <= Cardinality(B \ {k}) /\ Cardinality(A) \in Nat
    BY <2>1, <2>3, <1>2, FS_Subset DEF Rank
  <2>5. Cardinality(A) < Cardinality(B)
    <3> HIDE DEF A, B
    <3>. QED  BY <2>2, <2>3, <2>4
  <2>. QED  BY <2>5 DEF Rank
<1>5. ASSUME NEW i \in K PROVE Rank(K, i) \in 1..Cardinality(K)
  <2>1. Rank(K, i) \in Nat /\ Rank(K, i) <= Cardinality(K) /\ Rank(K, i) # 0
    BY <1>2, <1>3
  <2>. QED  BY <1>1, <2>1
<1> DEFINE f == [i \in K |-> Rank(K, i)]
           T == 1..Cardinality(K)
<1>6. f \in Injection(K, T)
  <2>1. f \in [K -> T]
    BY <1>5
  <2>2. ASSUME NEW i \in K, NEW k \in K, f[i] = f[k] PROVE i = k
    <3>0. Rank(K, i) = Rank(K, k)
      BY <2>2, Zenon
    <3>1. i \in Nat /\ k \in Nat /\ Rank(K, i) = Rank(K, k) /\ Rank(K, i) \in Nat
      <4>1. i \in 1..n /\ k \in 1..n
        OBVIOUS
      <4>2. Rank(K, i) \in Nat
        BY <1>2
      <4>3. i \in Nat /\ k \in Nat
        BY <4>1
      <4>. QED  BY <3>0, <4>2, <4>3
    <3>2. ~ (i < k) /\ ~ (k < i)
      BY <1>4, <3>1
    <3>. QED  BY <3>1, <3>2
  <2>. QED  BY <2>1, <2>2 DEF Injection, IsInjective
<1>7. IsFiniteSet(T) /\ Cardinality(T) = Cardinality(K)
  BY <1>1, FS_Interval
<1>8. f \in Surjection(K, T)
  <2> HIDE DEF f, T
  <2>. QED  BY <1>6, <1>7, FS_Injection
<1>9. \A j \in T : \E i \in K : f[i] = j
  BY <1>8 DEF Surjection
<1>. QED  BY <1>1, <1>4, <1>5, <1>9

LEMMA KeptIs ==
  ASSUME NEW S, NEW t \in Seq(S), NEW K \in SUBSET (1..Len(t))
  PROVE  /\ Kept(t, K) \in Seq(S)
         /\ \A i \in K : Rank(K, i) \in 1..Len(Kept(t, K)) /\ Kept(t, K)[Rank(K, i)] = t[i]
         /\ \A j \in 1..Len(Kept(t, K)) :
              \E i \in K : Rank(K, i) = j /\ Kept(t, K)[j] = t[i]
<1> DEFINE c(j) == CHOOSE i \in K : Rank(K, i) = j
           N == Cardinality(K)
<1>1. Kept(t, K) = [j \in 1..N |-> t[c(j)]]
  BY DEF Kept, Rank
<1>0. /\ N \in Nat
      /\ \A i \in K : Rank(K, i) \in 1..N
      /\ \A i, k \in K : i < k => Rank(K, i) < Rank(K, k)
      /\ \A j \in 1..N : \E i \in K : Rank(K, i) = j
  <2>1. Len(t) \in Nat
    OBVIOUS
  <2>. QED  BY <2>1, Ranks
<1>2. N \in Nat /\ \A i \in K : Rank(K, i) \in 1..N
  BY <1>0
<1>3. \A j \in 1..N : c(j) \in K /\ Rank(K, c(j)) = j
  BY <1>0
<1>4. \A i \in K : c(Rank(K, i)) = i
  <2> TAKE i \in K
  <2>1. c(Rank(K, i)) \in K /\ Rank(K, c(Rank(K, i))) = Rank(K, i)
    BY <1>2, <1>3
  <2>2. \A k \in K : Rank(K, k) = Rank(K, i) => k = i
    <3> TAKE k \in K
    <3>1. (i < k => Rank(K, i) < Rank(K, k)) /\ (k < i => Rank(K, k) < Rank(K, i))
      BY <1>0
    <3>2. Rank(K, i) \in 1..N /\ Rank(K, k) \in 1..N /\ i \in 1..Len(t) /\ k \in 1..Len(t)
      BY <1>2
    <3>. QED  BY <3>1, <3>2
  <2> HIDE DEF c
  <2>. QED  BY <2>1, <2>2
<1> HIDE DEF c, N
<1>5. ASSUME NEW j \in 1..N PROVE t[c(j)] \in S
  <2>1. c(j) \in 1..Len(t)
    BY <1>3
  <2>. QED  BY <2>1
<1>6. Kept(t, K) \in Seq(S) /\ Len(Kept(t, K)) = N
  BY <1>1, <1>2, <1>5
<1>7. \A j \in 1..N : Kept(t, K)[j] = t[c(j)]
  BY <1>1
<1>. QED  BY <1>2, <1>3, <1>4, <1>6, <1>7

-----------------------------------------------------------------------------
(* What is kept with one player *)

\* No quest takes longer than the longest.
LEMMA Longest == MaxTime \in Nat /\ \A t \in Times : t \in 1..MaxTime
<1>1. MaxTime \in Times /\ \A t \in Times : t <= MaxTime
  BY QuestAssumption DEF MaxTime
<1>. QED  BY <1>1, QuestAssumption

\* end_quest() leaves nothing behind.
LEMMA NoQuestGood == ASSUME NEW w \in 0..2 * Wait PROVE NoQuest(w) \in Good
BY Longest DEF NoQuest, Good, Quest, Agrees

\* q_update() keeps what it counts down in order.
LEMMA TickedGood == ASSUME NEW x \in Good PROVE Ticked(x) \in Good
<1>. USE QuestAssumption, Longest
<1>1. CASE x.wait > 0
  BY <1>1 DEF Ticked, Good, Quest, Agrees
<1>2. CASE x.wait = 0 /\ ~x.on
  BY <1>2 DEF Ticked, Good, Quest
<1>3. CASE x.wait = 0 /\ x.on /\ x.left <= 1
  <2>1. Ticked(x) = NoQuest(2 * Wait)
    BY <1>3 DEF Ticked, Good, Quest
  <2>2. 2 * Wait \in 0..2 * Wait
    OBVIOUS
  <2>. QED  BY <2>1, <2>2, NoQuestGood
<1>4. CASE x.wait = 0 /\ x.on /\ x.left > 1
  BY <1>4 DEF Ticked, Good, Quest, Agrees
<1>5. x.wait \in Nat /\ x.left \in Nat
  BY DEF Good, Quest
<1>. QED  BY <1>1, <1>2, <1>3, <1>4, <1>5

\* A quest is given to one who has none.
LEMMA GivenGood ==
  ASSUME NEW x \in Good, ~x.on, x.wait = 0, NEW s \in Quester, NEW t \in Times,
         NEW item \in BOOLEAN
  PROVE  /\ Given(x, s, t, item, IF item THEN x.mob ELSE "target", FALSE) \in Good
         /\ Given(x, s, t, FALSE, "target", TRUE) \in Good
BY Longest DEF Given, Good, Quest, Agrees

-----------------------------------------------------------------------------
(* The actions *)

\* Whoever is in a room with p and in p's group is a player.
LEMMA FellowsArePlayers ==
  ASSUME QuestInv, NEW p PROVE Fellows(p) \subseteq Player
BY DEF QuestInv, Fellows

\* Ending the quests of anybody.
LEMMA EndKeeps ==
  ASSUME QuestInv, NEW S, NEW w \in 0..2 * Wait, q' = EndQuest(S, w),
         UNCHANGED <<online, band>>
  PROVE  QuestInv'
BY NoQuestGood DEF QuestInv, EndQuest

LEMMA RequestKeeps ==
  ASSUME QuestInv, NEW p \in online, NEW s \in Quester, NEW here \in SUBSET Fellows(p),
         p \in here, Request(p, s, here)
  PROVE  QuestInv'
<1>. USE DEF QuestInv
<1>1. UNCHANGED <<online, band>>
  BY DEF Request
<1>2. \A f \in here : f \in Player /\ q[f] \in Good /\ ~q[f].on /\ q[f].wait = 0
  BY FellowsArePlayers DEF Request, Free
<1>3. CASE NothingFound(p, here)
  <2>1. \A f \in here : [q[f] EXCEPT !.wait = ShortWait] \in Good
    BY <1>2, QuestAssumption DEF Good, Quest, Agrees
  <2>. QED  BY <1>1, <1>3, <2>1 DEF NothingFound
<1>4. ASSUME NEW t \in Times, GiveSingle(p, s, t) PROVE QuestInv'
  <2>1. PICK item \in BOOLEAN :
          q' = [q EXCEPT ![p] =
                  Given(q[p], s, t, item, IF item THEN q[p].mob ELSE "target", FALSE)]
    BY <1>4 DEF GiveSingle
  <2>2. Given(q[p], s, t, item, IF item THEN q[p].mob ELSE "target", FALSE) \in Good
    BY <1>2, GivenGood
  <2>. QED  BY <1>1, <2>1, <2>2
<1>5. ASSUME NEW t \in Times, GiveGroup(p, s, here, t) PROVE QuestInv'
  <2>1. \A f \in here : Given(q[f], s, t, FALSE, "target", TRUE) \in Good
    BY <1>2, GivenGood
  <2>. QED  BY <1>1, <1>5, <2>1 DEF GiveGroup
<1>. QED  BY <1>3, <1>4, <1>5 DEF Request

LEMMA KillKeeps ==
  ASSUME QuestInv, NEW p \in online, Kill(p) PROVE QuestInv'
<1>. USE DEF QuestInv, Kill
<1>1. \A f \in Player : [q[f] EXCEPT !.mob = "done"] \in Good
  BY DEF Good, Quest, Agrees
<1>. QED  BY <1>1

LEMMA NextKeeps ==
  ASSUME QuestInv, [Next]_vars PROVE QuestInv'
<1>1. ASSUME NEW p \in online, NEW s \in Quester, AtGiver(p, s) PROVE QuestInv'
  <2>1. PICK here \in SUBSET Fellows(p) :
          p \in here /\ (Request(p, s, here) \/ Complete(p, s, here) \/ Quit(p, s, here))
    BY <1>1 DEF AtGiver
  <2>2. Wait \in 0..2 * Wait /\ 2 * Wait \in 0..2 * Wait
    BY QuestAssumption
  <2>3. CASE Request(p, s, here)
    BY <2>1, <2>3, RequestKeeps
  <2>4. CASE Complete(p, s, here)
    BY <2>2, <2>4, EndKeeps DEF Complete
  <2>5. CASE Quit(p, s, here)
    <3>1. UNCHANGED <<online, band>>
      BY <2>5 DEF Quit
    <3>2. q' = EndQuest(Sharing(p, here), 2 * Wait) \/ q' = q
      BY <2>5 DEF Quit
    <3>. QED  BY <2>2, <3>1, <3>2, EndKeeps DEF QuestInv
  <2>. QED  BY <2>1, <2>3, <2>4, <2>5
<1>2. ASSUME NEW p \in online, Kill(p) PROVE QuestInv'
  BY <1>2, KillKeeps
<1>3. CASE Tick
  BY <1>3, TickedGood DEF Tick, QuestInv
<1>4. CASE Regroup
  BY <1>4 DEF Regroup, Bands, QuestInv
<1>5. CASE Reboot
  BY <1>5 DEF Reboot, QuestInv
<1>6. ASSUME NEW p \in Player, Leave(p) PROVE QuestInv'
  BY <1>6 DEF Leave, Without, QuestInv
<1>7. ASSUME NEW p \in Player, Login(p) PROVE QuestInv'
  <2>1. PICK s \in Quester \cup {NoQuester} : q' = [q EXCEPT ![p].giver = s]
    BY <1>7 DEF Login
  <2>2. [q[p] EXCEPT !.giver = s] \in Good
    BY DEF QuestInv, Good, Quest, Agrees
  <2>. QED  BY <1>7, <2>1, <2>2 DEF Login, QuestInv
<1>8. ASSUME NEW s \in Quester, Replace(s) PROVE QuestInv'
  <2>1. \A p \in Player : [q[p] EXCEPT !.giver = NoQuester] \in Good
    BY DEF QuestInv, Good, Quest, Agrees
  <2>. QED  BY <1>8, <2>1 DEF Replace, QuestInv
<1>9. CASE UNCHANGED vars
  BY <1>9 DEF vars, QuestInv
<1>. QED  BY <1>1, <1>2, <1>3, <1>4, <1>5, <1>6, <1>7, <1>8, <1>9 DEF Next

LEMMA InitHolds == Init => QuestInv
<1>. SUFFICES ASSUME Init PROVE QuestInv
  OBVIOUS
<1>1. NoQuest(0) \in Good
  BY NoQuestGood, QuestAssumption
<1>. QED  BY <1>1 DEF Init, QuestInv

LEMMA InvHolds == Spec => []QuestInv
<1>1. Init => QuestInv
  BY InitHolds
<1>2. QuestInv /\ [Next]_vars => QuestInv'
  BY NextKeeps
<1>. QED  BY <1>1, <1>2, PTL DEF Spec

-----------------------------------------------------------------------------
(* What the givers remember *)

\* The first record of t that names p has n ticks left.
Lasts(p, t, n) ==
    /\ \E r \in ToSet(t) : p \in r.names
    /\ ~ (t[First(p, t)].time < n)

\* i is the place of the first record that names p.
Newest(p, t, i) ==
    i \in 1..Len(t) /\ p \in t[i].names /\ \A k \in 1..(i - 1) : p \notin t[k].names

LEMMA NewestIs ==
  ASSUME NEW t \in Seq(Record), NEW p
  PROVE  /\ \A i : Newest(p, t, i) => First(p, t) = i
         /\ \A r \in ToSet(t) : p \in r.names => Newest(p, t, First(p, t))
<1> DEFINE I == {i \in 1..Len(t) : p \in t[i].names}
<1>0. Len(t) \in Nat /\ I \subseteq Nat
  OBVIOUS
<1>1. First(p, t) = IF I # {} THEN Min(I) ELSE 0
  BY DEF First, SelectInSeq
<1>2. I # {} => Min(I) \in I /\ \A k \in I : Min(I) <= k
  <2> HIDE DEF I
  <2>. QED  BY <1>0, MinIn
<1>3. I # {} => Newest(p, t, Min(I))
  <2> SUFFICES ASSUME I # {} PROVE Newest(p, t, Min(I))
    OBVIOUS
  <2>1. Min(I) \in 1..Len(t) /\ p \in t[Min(I)].names
    BY <1>2
  <2>2. ASSUME NEW k \in 1..(Min(I) - 1), p \in t[k].names PROVE FALSE
    <3>1. k \in 1..Len(t) /\ ~ (Min(I) <= k)
      BY <2>1, <1>0
    <3>2. k \in I
      BY <2>2, <3>1
    <3>. QED  BY <1>2, <3>1, <3>2
  <2> HIDE DEF I
  <2>. QED  BY <2>1, <2>2 DEF Newest
<1>4. ASSUME NEW i, Newest(p, t, i) PROVE I # {} /\ Min(I) = i
  <2>1. i \in I
    BY <1>4 DEF Newest
  <2>2. Min(I) \in I /\ Min(I) <= i
    BY <1>2, <2>1
  <2>3. ~ (Min(I) \in 1..(i - 1))
    BY <1>4, <2>2 DEF Newest
  <2>4. Min(I) \in 1..Len(t) /\ i \in 1..Len(t)
    BY <2>1, <2>2
  <2> HIDE DEF I
  <2>. QED  BY <2>1, <2>2, <2>3, <2>4, <1>0
<1>5. ASSUME NEW r \in ToSet(t), p \in r.names PROVE I # {}
  <2>1. PICK i \in 1..Len(t) : r = t[i]
    BY <1>5 DEF ToSet
  <2>. QED  BY <1>5, <2>1
<1> HIDE DEF I
<1>. QED  BY <1>1, <1>3, <1>4, <1>5

LEMMA LastsIs ==
  ASSUME NEW t \in Seq(Record), NEW p, NEW n \in Nat
  PROVE  Lasts(p, t, n) <=> \E i \in 1..Len(t) : Newest(p, t, i) /\ t[i].time >= n
<1>0. ASSUME NEW i \in 1..Len(t)
      PROVE  t[i] \in Record /\ t[i].time \in Nat /\ t[i] \in ToSet(t)
  <2>1. t[i] \in Record
    OBVIOUS
  <2>2. t[i].time \in Nat
    BY <2>1, Longest DEF Record
  <2>. QED  BY <2>1, <2>2 DEF ToSet
<1>1. ASSUME Lasts(p, t, n) PROVE \E i \in 1..Len(t) : Newest(p, t, i) /\ t[i].time >= n
  <2> DEFINE i == First(p, t)
  <2>1. Newest(p, t, i)
    BY <1>1, NewestIs DEF Lasts
  <2>2. ~ (t[i].time < n)
    BY <1>1 DEF Lasts
  <2> HIDE DEF i
  <2>3. i \in 1..Len(t)
    BY <2>1 DEF Newest
  <2>4. t[i].time >= n
    BY <1>0, <2>2, <2>3
  <2>. QED  BY <2>1, <2>3, <2>4
<1>2. ASSUME NEW i \in 1..Len(t), Newest(p, t, i), t[i].time >= n PROVE Lasts(p, t, n)
  <2>1. First(p, t) = i
    BY <1>2, NewestIs
  <2>2. p \in t[i].names /\ t[i] \in ToSet(t)
    BY <1>0, <1>2 DEF Newest
  <2>3. ~ (t[i].time < n)
    BY <1>0, <1>2
  <2>. QED  BY <2>1, <2>2, <2>3 DEF Lasts
<1>. QED  BY <1>1, <1>2

\* q_update() takes out only records whose time is over, so the newest one that names p stays so.
LEMMA TickedRecords ==
  ASSUME NEW s \in Quester, records[s] \in Seq(Record)
  PROVE  /\ RecordsTicked(s) \in Seq(Record)
         /\ \A p : \A n \in Nat : n > 1 /\ Lasts(p, records[s], n) => Lasts(p, RecordsTicked(s), n - 1)
<1> DEFINE t == records[s]
           K == {i \in DOMAIN t : t[i].time > 1}
           u == Kept(t, K)
           v == [i \in DOMAIN u |-> [u[i] EXCEPT !.time = @ - 1]]
<1>1. RecordsTicked(s) = v
  BY DEF RecordsTicked, Lasting
<1>2. t \in Seq(Record) /\ Len(t) \in Nat /\ K \in SUBSET (1..Len(t))
      /\ \A i \in K : t[i].time > 1
  OBVIOUS
<1>3. /\ u \in Seq(Record)
      /\ \A i \in K : Rank(K, i) \in 1..Len(u) /\ u[Rank(K, i)] = t[i]
      /\ \A j \in 1..Len(u) : \E i \in K : Rank(K, i) = j /\ u[j] = t[i]
  <2> HIDE DEF t, K
  <2>. QED  BY <1>2, KeptIs
<1>4. \A i, k \in K : i < k => Rank(K, i) < Rank(K, k)
  <2> HIDE DEF t, K
  <2>. QED  BY <1>2, Ranks
<1>5. \A i \in 1..Len(t) : i \in K <=> t[i].time > 1
  OBVIOUS
<1> HIDE DEF t, K, u
<1>6. \A i \in DOMAIN u : [u[i] EXCEPT !.time = @ - 1] \in Record
  <2> TAKE i \in DOMAIN u
  <2>1. i \in 1..Len(u)
    BY <1>3
  <2>2. PICK k \in K : u[i] = t[k]
    BY <1>3, <2>1
  <2>3. t[k] \in Record /\ t[k].time > 1
    BY <1>2
  <2>. QED  BY <2>2, <2>3, Longest DEF Record
<1>7. v \in Seq(Record) /\ Len(v) = Len(u)
  BY <1>3, <1>6
<1>8. \A j \in 1..Len(v) : v[j].names = u[j].names /\ v[j].time = u[j].time - 1
  <2> TAKE j \in 1..Len(v)
  <2>1. j \in DOMAIN u /\ u[j] \in Record
    BY <1>3, <1>7
  <2>. QED  BY <2>1 DEF Record
<1> HIDE DEF v
<1>9. ASSUME NEW p, NEW n \in Nat, n > 1, Lasts(p, t, n) PROVE Lasts(p, v, n - 1)
  <2>1. PICK i \in 1..Len(t) : Newest(p, t, i) /\ t[i].time >= n
    BY <1>2, <1>9, LastsIs
  <2>2. t[i] \in Record /\ t[i].time \in Nat
    <3>1. t[i] \in Record
      BY <1>2
    <3>. QED  BY <3>1, Longest DEF Record
  <2>3. i \in K
    BY <1>5, <1>9, <2>1, <2>2
  <2> DEFINE j == Rank(K, i)
  <2>4. j \in 1..Len(v) /\ u[j] = t[i]
    BY <1>3, <1>7, <2>3
  <2> HIDE DEF j
  <2>5. p \in v[j].names /\ v[j].time >= n - 1
    BY <1>8, <2>1, <2>2, <2>4 DEF Newest
  <2>6. ASSUME NEW k \in 1..(j - 1), p \in v[k].names PROVE FALSE
    <3>0. Len(v) \in Nat
      BY <1>7
    <3>1. k \in 1..Len(v) /\ k < j
      BY <2>4, <3>0
    <3>2. PICK m \in K : Rank(K, m) = k /\ u[k] = t[m]
      BY <1>3, <1>7, <3>1
    <3>3. p \in t[m].names
      BY <1>8, <2>6, <3>1, <3>2
    <3>4. m \in 1..Len(t) /\ ~ (m \in 1..(i - 1))
      BY <1>2, <2>1, <3>3 DEF Newest
    <3>5. m = i \/ i < m
      BY <1>2, <2>1, <3>4
    <3>6. ~ (i < m)
      <4>1. i < m => j < k
        BY <1>4, <2>3, <3>2 DEF j
      <4>. QED  BY <4>1, <3>1, <2>4, <3>0
    <3>7. m # i
      BY <3>1, <3>2, <2>4, <3>0 DEF j
    <3>. QED  BY <3>5, <3>6, <3>7
  <2>7. Newest(p, v, j)
    BY <2>4, <2>5, <2>6 DEF Newest
  <2>8. n - 1 \in Nat
    BY <1>9
  <2>. QED  BY <1>7, <2>4, <2>5, <2>7, <2>8, LastsIs
<1>. QED  BY <1>1, <1>7, <1>9 DEF t

\* A new group comes in front of the others.
LEMMA AddedRecord ==
  ASSUME NEW t \in Seq(Record), NEW r \in Record
  PROVE  /\ <<r>> \o t \in Seq(Record)
         /\ \A p : \A n \in Nat :
              (IF p \in r.names THEN r.time >= n ELSE Lasts(p, t, n)) => Lasts(p, <<r>> \o t, n)
<1> DEFINE u == <<r>> \o t
<1>1. /\ u \in Seq(Record) /\ Len(u) = Len(t) + 1 /\ Len(t) \in Nat
      /\ u[1] = r /\ \A k \in 1..Len(t) : u[k + 1] = t[k]
  OBVIOUS
<1> HIDE DEF u
<1>2. \A k \in 2..Len(u) : k - 1 \in 1..Len(t) /\ u[k] = t[k - 1]
  BY <1>1
<1>3. ASSUME NEW p, NEW n \in Nat, p \in r.names, r.time >= n PROVE Lasts(p, u, n)
  <2>1. 1 \in 1..Len(u)
    BY <1>1
  <2>2. Newest(p, u, 1)
    BY <1>1, <1>3, <2>1 DEF Newest
  <2>. QED  BY <1>1, <1>3, <2>1, <2>2, LastsIs
<1>4. ASSUME NEW p, NEW n \in Nat, p \notin r.names, Lasts(p, t, n) PROVE Lasts(p, u, n)
  <2>1. PICK i \in 1..Len(t) : Newest(p, t, i) /\ t[i].time >= n
    BY <1>4, LastsIs
  <2>2. i + 1 \in 1..Len(u) /\ u[i + 1] = t[i]
    BY <1>1
  <2>3. ASSUME NEW k \in 1..i PROVE p \notin u[k].names
    <3>1. CASE k = 1
      BY <1>1, <1>4, <3>1
    <3>2. CASE k # 1
      <4>1. k \in 2..Len(u) /\ k - 1 \in 1..(i - 1)
        BY <1>1, <3>2
      <4>. QED  BY <1>2, <2>1, <4>1 DEF Newest
    <3>. QED  BY <3>1, <3>2
  <2>4. Newest(p, u, i + 1)
    <3>1. (i + 1) - 1 = i
      OBVIOUS
    <3>. QED  BY <2>1, <2>2, <2>3, <3>1 DEF Newest
  <2>. QED  BY <1>1, <2>1, <2>2, <2>4, LastsIs
<1>. QED  BY <1>1, <1>3, <1>4 DEF u

\* A record that is closed names those whom it named.
LEMMA ClosedRecord ==
  ASSUME NEW t \in Seq(Record), NEW i \in 1..Len(t)
  PROVE  LET u == [t EXCEPT ![i].time = 0]
         IN  /\ u \in Seq(Record)
             /\ \A p : \A n \in Nat : Lasts(p, t, n) /\ ~ Newest(p, t, i) => Lasts(p, u, n)
<1> DEFINE u == [t EXCEPT ![i].time = 0]
<1>1. t[i] \in Record /\ Len(t) \in Nat
  OBVIOUS
<1>2. [t[i] EXCEPT !.time = 0] \in Record
  BY <1>1, Longest DEF Record
<1>3. u \in Seq(Record) /\ Len(u) = Len(t)
  BY <1>2
<1>4. ASSUME NEW k \in 1..Len(t) PROVE u[k].names = t[k].names /\ (k # i => u[k] = t[k])
  BY <1>1, <1>4 DEF Record
<1> HIDE DEF u
<1>5. ASSUME NEW p, NEW n \in Nat, Lasts(p, t, n), ~ Newest(p, t, i) PROVE Lasts(p, u, n)
  <2>1. PICK j \in 1..Len(t) : Newest(p, t, j) /\ t[j].time >= n
    BY <1>5, LastsIs
  <2>2. j # i /\ u[j] = t[j]
    BY <1>4, <1>5, <2>1
  <2>3. ASSUME NEW k \in 1..(j - 1) PROVE p \notin u[k].names
    <3>1. k \in 1..Len(t)
      BY <1>1
    <3>. QED  BY <1>4, <2>1, <3>1 DEF Newest
  <2>4. Newest(p, u, j)
    BY <1>3, <2>1, <2>2, <2>3 DEF Newest
  <2>. QED  BY <1>3, <2>1, <2>2, <2>4, LastsIs
<1>. QED  BY <1>3, <1>5 DEF u

\* What is not yet in QuestInv of the types.
RecordsInv == band \in Bands /\ records \in [Quester -> Seq(Record)]

\* A giver who remembers p's group has p in its newest record that has p.
LEMMA PlaceOf ==
  ASSUME RecordsInv, NEW p, HasRecord(p)
  PROVE  /\ q[p].giver \in Quester /\ records[q[p].giver] \in Seq(Record)
         /\ Place(p) \in 1..Len(records[q[p].giver])
         /\ Newest(p, records[q[p].giver], Place(p))
<1> DEFINE t == records[q[p].giver]
<1>1. q[p].giver \in Quester /\ t \in Seq(Record)
  BY DEF HasRecord, RecordsInv
<1>2. \E r \in ToSet(t) : p \in r.names
  BY DEF HasRecord
<1>3. Place(p) = First(p, t)
  BY DEF Place
<1> HIDE DEF t
<1>4. Newest(p, t, Place(p))
  BY <1>1, <1>2, <1>3, NewestIs
<1>. QED  BY <1>1, <1>4 DEF Newest, t

\* The record of p's group is closed, and no other one is touched.
LEMMA ClosedIs ==
  ASSUME RecordsInv, NEW p, HasRecord(p)
  PROVE  /\ Closed(p) \in [Quester -> Seq(Record)]
         /\ \A s \in Quester \ {q[p].giver} : Closed(p)[s] = records[s]
         /\ \A c : \A n \in Nat :
              /\ Lasts(c, records[q[p].giver], n)
              /\ ~ Newest(c, records[q[p].giver], Place(p))
              => Lasts(c, Closed(p)[q[p].giver], n)
<1> DEFINE t == records[q[p].giver]
           u == [t EXCEPT ![Place(p)].time = 0]
<1>1. q[p].giver \in Quester /\ t \in Seq(Record) /\ Place(p) \in 1..Len(t)
  BY PlaceOf
<1>2. Closed(p) = [records EXCEPT ![q[p].giver] = u]
  BY DEF Closed
<1>3. u \in Seq(Record) /\ \A c : \A n \in Nat : Lasts(c, t, n) /\ ~ Newest(c, t, Place(p)) => Lasts(c, u, n)
  <2> HIDE DEF t
  <2>. QED  BY <1>1, ClosedRecord
<1> HIDE DEF u
<1>4. Closed(p)[q[p].giver] = u
  BY <1>1, <1>2 DEF RecordsInv
<1>. QED  BY <1>1, <1>2, <1>3, <1>4 DEF RecordsInv

LEMMA GroupIs ==
  ASSUME QuestInv, RecordsInv, NEW p, NEW s \in Quester, NEW here \in SUBSET Fellows(p),
         NEW time \in Times, GiveGroup(p, s, here, time)
  PROVE  /\ [names |-> here, time |-> time] \in Record
         /\ records' = [records EXCEPT ![s] = <<[names |-> here, time |-> time]>> \o records[s]]
         /\ records' \in [Quester -> Seq(Record)]
<1>1. [names |-> here, time |-> time] \in Record
  BY FellowsArePlayers, Longest DEF Record
<1>2. records' = [records EXCEPT ![s] = <<[names |-> here, time |-> time]>> \o records[s]]
  BY DEF GiveGroup
<1>3. <<[names |-> here, time |-> time]>> \o records[s] \in Seq(Record)
  BY <1>1, AddedRecord DEF RecordsInv
<1>. QED  BY <1>1, <1>2, <1>3 DEF RecordsInv

LEMMA RecordsKeep ==
  ASSUME QuestInv, RecordsInv, [Next]_vars PROVE RecordsInv'
<1>1. ASSUME NEW p \in online, NEW s \in Quester, AtGiver(p, s) PROVE RecordsInv'
  <2>1. PICK here \in SUBSET Fellows(p) :
          p \in here /\ (Request(p, s, here) \/ Complete(p, s, here) \/ Quit(p, s, here))
    BY <1>1 DEF AtGiver
  <2>2. CASE Request(p, s, here)
    <3>1. CASE UNCHANGED records
      BY <2>2, <3>1 DEF Request, RecordsInv
    <3>2. ASSUME NEW time \in Times, GiveGroup(p, s, here, time) PROVE RecordsInv'
      BY <2>2, <3>2, GroupIs DEF Request, RecordsInv
    <3>. QED  BY <2>2, <3>1, <3>2 DEF Request, NothingFound, GiveSingle
  <2>3. CASE Complete(p, s, here)
    <3>1. records' = records \/ (HasRecord(p) /\ records' = Closed(p))
      BY <2>3 DEF Complete, Passes, AllHere
    <3>. QED  BY <2>3, <3>1, ClosedIs DEF Complete, RecordsInv
  <2>4. CASE Quit(p, s, here)
    <3>1. records' = records \/ (HasRecord(p) /\ records' = Closed(p))
      BY <2>4 DEF Quit, AllHere
    <3>. QED  BY <2>4, <3>1, ClosedIs DEF Quit, RecordsInv
  <2>. QED  BY <2>1, <2>2, <2>3, <2>4
<1>2. ASSUME NEW p \in online, Kill(p) PROVE RecordsInv'
  BY <1>2 DEF Kill, RecordsInv
<1>3. CASE Tick
  <2>1. \A s \in Quester : RecordsTicked(s) \in Seq(Record)
    BY TickedRecords DEF RecordsInv
  <2>. QED  BY <1>3, <2>1 DEF Tick, RecordsInv
<1>4. CASE Regroup
  BY <1>4 DEF Regroup, RecordsInv
<1>5. CASE Reboot
  <2>1. {{p} : p \in Player} \in Bands
    BY DEF Bands
  <2>. QED  BY <1>5, <2>1 DEF Reboot, RecordsInv
<1>6. ASSUME NEW p \in Player, Leave(p) PROVE RecordsInv'
  <2> DEFINE B == Without({p})
  <2>1. \A X \in B : X = {p} \/ \E Y \in band : X = Y \ {p} /\ X # {}
    BY DEF Without
  <2>2. \A X, Y \in band : X = Y \/ X \cap Y = {}
    BY DEF RecordsInv, Bands
  <2>3. \A X, Y \in B : X = Y \/ X \cap Y = {}
    <3> SUFFICES ASSUME NEW X \in B, NEW Y \in B PROVE X = Y \/ X \cap Y = {}
      OBVIOUS
    <3> HIDE DEF B
    <3>1. CASE X = {p} \/ Y = {p}
      BY <2>1, <3>1
    <3>2. CASE X # {p} /\ Y # {p}
      <4>1. PICK V \in band : X = V \ {p}
        BY <2>1, <3>2
      <4>2. PICK W \in band : Y = W \ {p}
        BY <2>1, <3>2
      <4>3. V = W \/ V \cap W = {}
        BY <2>2
      <4>. QED  BY <4>1, <4>2, <4>3
    <3>. QED  BY <3>1, <3>2
  <2>4. B \subseteq (SUBSET Player) \ {{}}
    <3>1. \A Y \in band : Y \subseteq Player
      BY DEF RecordsInv, Bands
    <3>2. \A X \in B : X # {} /\ X \subseteq Player
      BY <2>1, <3>1
    <3>. QED  BY <3>2
  <2>5. UNION B = Player
    <3>1. ASSUME NEW f \in Player PROVE f \in UNION B
      <4>1. PICK Y \in band : f \in Y
        BY DEF RecordsInv, Bands
      <4>2. f = p \/ f \in Y \ {p}
        BY <4>1
      <4>3. {p} \in B /\ (Y \ {p} # {} => Y \ {p} \in B)
        BY DEF Without
      <4>. QED  BY <4>2, <4>3
    <3>. QED  BY <2>4, <3>1
  <2>6. B \in Bands
    <3> HIDE DEF B
    <3>. QED  BY <2>3, <2>4, <2>5 DEF Bands
  <2>. QED  BY <1>6, <2>6 DEF Leave, RecordsInv
<1>7. ASSUME NEW p \in Player, Login(p) PROVE RecordsInv'
  BY <1>7 DEF Login, RecordsInv
<1>8. ASSUME NEW s \in Quester, Replace(s) PROVE RecordsInv'
  BY <1>8 DEF Replace, RecordsInv
<1>9. CASE UNCHANGED vars
  BY <1>9 DEF vars, RecordsInv
<1>. QED  BY <1>1, <1>2, <1>3, <1>4, <1>5, <1>6, <1>7, <1>8, <1>9 DEF Next

LEMMA RecordsHold == Spec => [](QuestInv /\ RecordsInv)
<1>1. Init => RecordsInv
  <2>1. {{p} : p \in Player} \in Bands
    BY DEF Bands
  <2>2. [s \in Quester |-> <<>>] \in [Quester -> Seq(Record)]
    OBVIOUS
  <2>. QED  BY <2>1, <2>2 DEF Init, RecordsInv
<1>2. QuestInv /\ RecordsInv /\ [Next]_vars => RecordsInv'
  BY RecordsKeep
<1>. QED  BY <1>1, <1>2, InvHolds, PTL DEF Spec

-----------------------------------------------------------------------------
(* The theorems *)

\* What is kept with the players and what the givers remember fits together, whatever they and
\* the clock do.
THEOREM QuestAlwaysSound == Spec => []QuestSound
<1>1. QuestInv /\ RecordsInv => QuestSound
  BY DEF QuestInv, Good, RecordsInv, QuestSound, TypeOK
<1>. QED  BY <1>1, RecordsHold, PTL

LEMMA BehindIs ==
  ASSUME NEW p
  PROVE  /\ ~Behind(p) <=> /\ q[p].giver \in Quester
                           /\ Lasts(p, records[q[p].giver], q[p].left)
         /\ ~Behind(p)' <=> /\ q'[p].giver \in Quester
                            /\ Lasts(p, records'[q'[p].giver], q'[p].left)
BY DEF Behind, HasRecord, RecordOf, Place, Lasts

\* A record goes while a player of its group has time only by the two ways RecordKept names.
LEMMA Remembered ==
  ASSUME QuestInv, RecordsInv, Next, NEW p \in online \cap online', q'[p].on, q'[p].group,
         q[p].on => ~Behind(p), Behind(p)'
  PROVE  \/ \E s \in Quester : Replace(s)
         \/ \E c \in RecordOf(p).names : q[c].mob = "done" /\ AskedToQuit(c)
<1> DEFINE g == q[p].giver
<1>0. /\ p \in Player /\ q \in [Player -> Good] /\ q[p] \in Good
      /\ g \in Quester \cup {NoQuester} /\ q[p].left \in Nat
      /\ q[p].on => q[p].wait = 0 /\ q[p].left > 0
  <2>1. p \in Player /\ q \in [Player -> Good] /\ q[p] \in Good
    BY DEF QuestInv
  <2>. QED  BY <2>1, Longest DEF Good, Quest, Agrees
<1>1. q[p].on => g \in Quester /\ Lasts(p, records[g], q[p].left)
  BY BehindIs
<1>2. ~ (q'[p].giver \in Quester /\ Lasts(p, records'[q'[p].giver], q'[p].left))
  BY BehindIs
<1>3. ASSUME q'[p].on = q[p].on, q'[p].giver = g, q'[p].left = q[p].left,
             g \in Quester => records'[g] = records[g]
      PROVE  FALSE
  BY <1>1, <1>2, <1>3
<1>4. ASSUME NEW c \in online, NEW s \in Quester, NEW here \in SUBSET Fellows(c), c \in here,
             Request(c, s, here)
      PROVE  FALSE
  <2>1. CASE NothingFound(c, here)
    <3>1. q'[p] = q[p] \/ q'[p] = [q[p] EXCEPT !.wait = ShortWait]
      BY <1>0, <2>1 DEF NothingFound
    <3>2. q'[p].on = q[p].on /\ q'[p].giver = g /\ q'[p].left = q[p].left
      BY <1>0, <3>1 DEF Good, Quest
    <3>. QED  BY <1>3, <2>1, <3>2 DEF NothingFound
  <2>2. ASSUME NEW time \in Times, GiveSingle(c, s, time) PROVE FALSE
    <3>1. c # p => q'[p] = q[p]
      BY <1>0, <2>2 DEF GiveSingle
    <3>2. c = p => ~ q'[p].group
      BY <1>0, <2>2 DEF GiveSingle, Given
    <3>. QED  BY <1>3, <2>2, <3>1, <3>2 DEF GiveSingle
  <2>3. ASSUME NEW time \in Times, GiveGroup(c, s, here, time) PROVE FALSE
    <3> DEFINE r == [names |-> here, time |-> time]
    <3>1. /\ r \in Record /\ records[s] \in Seq(Record)
          /\ records' = [records EXCEPT ![s] = <<r>> \o records[s]]
          /\ records \in [Quester -> Seq(Record)]
      BY <2>3, GroupIs DEF RecordsInv
    <3>2. \A n \in Nat : (IF p \in here THEN time >= n ELSE Lasts(p, records[s], n))
                           => Lasts(p, <<r>> \o records[s], n)
      <4>1. r.names = here /\ r.time = time
        OBVIOUS
      <4> HIDE DEF r
      <4>. QED  BY <3>1, <4>1, AddedRecord
    <3> HIDE DEF r
    <3>3. CASE p \in here
      <4>1. q'[p].giver = s /\ q'[p].left = time
        BY <1>0, <2>3, <3>3 DEF GiveGroup, Given
      <4>2. time \in Nat /\ time >= time
        BY Longest
      <4>3. Lasts(p, <<r>> \o records[s], time)
        BY <3>2, <3>3, <4>2
      <4>. QED  BY <1>2, <3>1, <4>1, <4>3
    <3>4. CASE p \notin here
      <4>1. q'[p] = q[p]
        BY <1>0, <2>3, <3>4 DEF GiveGroup
      <4>2. g = s
        BY <1>3, <3>1, <4>1
      <4>3. Lasts(p, <<r>> \o records[s], q[p].left)
        BY <1>0, <1>1, <3>2, <3>4, <4>1, <4>2
      <4>. QED  BY <1>2, <3>1, <4>1, <4>2, <4>3
    <3>. QED  BY <3>3, <3>4
  <2>. QED  BY <1>4, <2>1, <2>2, <2>3 DEF Request
\* Another group's record, or an older one of the same players, may be closed at any time.
<1>5. ASSUME NEW c, HasRecord(c), records' = Closed(c), q'[p] = q[p]
      PROVE  g = q[c].giver /\ Newest(p, records[g], Place(c))
  <2>1. g = q[c].giver
    BY <1>3, <1>5, ClosedIs
  <2>2. g \in Quester /\ Lasts(p, records[g], q[p].left)
    BY <1>1, <1>5
  <2>3. ~ Newest(p, records[g], Place(c)) => Lasts(p, records'[g], q[p].left)
    BY <1>0, <1>5, <2>1, <2>2, ClosedIs
  <2>. QED  BY <1>2, <1>5, <2>1, <2>2, <2>3
<1>6. ASSUME NEW c \in online, NEW s \in Quester, NEW here \in SUBSET Fellows(c),
             Complete(c, s, here)
      PROVE  FALSE
  <2>1. p \notin Sharing(c, here) /\ q'[p] = q[p]
    BY <1>0, <1>6 DEF Complete, EndQuest, NoQuest
  <2>2. records' # records
    BY <1>3, <2>1
  <2>3. HasRecord(c) /\ AllHere(c, here) /\ records' = Closed(c)
    BY <1>6, <2>2 DEF Complete, Passes, AllHere
  <2>4. p \in RecordOf(c).names
    BY <1>5, <2>1, <2>3 DEF Newest, RecordOf
  <2>5. p \in here
    BY <2>3, <2>4 DEF AllHere
  <2>. QED  BY <2>1, <2>5 DEF Sharing
<1>7. ASSUME NEW c \in online, NEW s \in Quester, NEW here \in SUBSET Fellows(c), c \in here,
             Quit(c, s, here)
      PROVE  \E d \in RecordOf(p).names : q[d].mob = "done" /\ AskedToQuit(d)
  <2>1. CASE /\ q' = EndQuest(Sharing(c, here), 2 * Wait) /\ UNCHANGED records
    <3>1. q'[p] = q[p]
      BY <1>0, <2>1 DEF EndQuest, NoQuest
    <3>. QED  BY <1>3, <2>1, <3>1
  <2>2. CASE /\ q[c].group /\ AllHere(c, here) /\ q[c].mob = "done"
             /\ records' = Closed(c) /\ UNCHANGED q
    <3>1. HasRecord(c)
      BY <2>2 DEF AllHere
    <3>2. g = q[c].giver /\ Newest(p, records[g], Place(c))
      BY <1>5, <2>2, <3>1
    <3>3. Newest(c, records[g], Place(c)) /\ records[g] \in Seq(Record)
      BY <3>1, <3>2, PlaceOf
    <3>4. Place(p) = Place(c)
      <4>1. First(p, records[g]) = Place(c)
        BY <3>2, <3>3, NewestIs
      <4>. QED  BY <4>1 DEF Place
    <3>5. c \in RecordOf(p).names
      BY <3>3, <3>4 DEF RecordOf, Newest
    <3>. QED  BY <1>7, <2>2, <3>5 DEF AskedToQuit
  <2>. QED  BY <1>7, <2>1, <2>2 DEF Quit
<1>8. ASSUME NEW c \in online, Kill(c) PROVE FALSE
  <2>1. q'[p] = q[p] \/ q'[p] = [q[p] EXCEPT !.mob = "done"]
    BY <1>0, <1>8 DEF Kill
  <2>2. q'[p].on = q[p].on /\ q'[p].giver = g /\ q'[p].left = q[p].left
    BY <1>0, <2>1 DEF Good, Quest
  <2>. QED  BY <1>3, <1>8, <2>2 DEF Kill
<1>9. CASE Tick
  <2>1. q'[p] = Ticked(q[p])
    BY <1>0, <1>9 DEF Tick
  <2>2. q[p].on /\ q[p].left > 1 /\ q'[p] = [q[p] EXCEPT !.left = @ - 1]
    BY <1>0, <2>1 DEF Ticked, NoQuest, Good, Quest, Agrees
  <2>3. q'[p].giver = g /\ q'[p].left = q[p].left - 1
    BY <1>0, <2>2 DEF Good, Quest
  <2>4. g \in Quester /\ records[g] \in Seq(Record) /\ records'[g] = RecordsTicked(g)
    BY <1>1, <1>9, <2>2 DEF Tick, RecordsInv
  <2>5. Lasts(p, RecordsTicked(g), q[p].left - 1)
    BY <1>0, <1>1, <2>2, <2>4, TickedRecords
  <2>. QED  BY <1>2, <2>3, <2>4, <2>5
<1>10. CASE Regroup
  BY <1>3, <1>10 DEF Regroup
<1>11. CASE Reboot
  BY <1>11 DEF Reboot
<1>12. ASSUME NEW c \in Player, Leave(c) PROVE FALSE
  BY <1>3, <1>12 DEF Leave
<1>13. ASSUME NEW c \in Player, Login(c) PROVE FALSE
  <2>1. c # p /\ q'[p] = q[p]
    BY <1>0, <1>13 DEF Login
  <2>. QED  BY <1>3, <1>13, <2>1 DEF Login
<1>. QED  BY <1>4, <1>6, <1>7, <1>8, <1>9, <1>10, <1>11, <1>12, <1>13 DEF Next, AtGiver

\* The giver remembers a group as long as its players have time.
THEOREM RecordsStay == Spec => RecordKept
<1>. DEFINE Kept1 ==
       \A p \in online \cap online' :
         /\ q'[p].on /\ q'[p].group
         /\ q[p].on => ~Behind(p)
         => \/ ~Behind(p)'
            \/ \E s \in Quester : Replace(s)
            \/ \E c \in RecordOf(p).names : q[c].mob = "done" /\ AskedToQuit(c)
<1>1. QuestInv /\ RecordsInv /\ [Next]_vars => [Kept1]_vars
  BY Remembered
<1>. QED  BY <1>1, RecordsHold, PTL DEF Spec, RecordKept

\* One member of a group or a stranger to it makes p's quest end: with check_quest_complete()
\* passed, all who are in the record stand by.
LEMMA SharingEnds ==
  ASSUME QuestInv, NEW c \in Player, q[c].on, NEW here \in SUBSET Fellows(c), c \in here,
         q[c].group => ~HasRecord(c) \/ AllHere(c, here), NEW w \in 0..2 * Wait,
         q' = EndQuest(Sharing(c, here), w),
         NEW p \in Player, q[p].group
  PROVE  \/ \A n \in RecordOf(p).names : q[n].group => ~q'[n].on
         \/ \E d \in Player : /\ Ended(d)
                              /\ ~q[d].group \/ ~HasRecord(d) \/ RecordOf(d) # RecordOf(p)
<1>1. \A f \in Player \cap Sharing(c, here) : ~q'[f].on
  BY DEF EndQuest, NoQuest
<1>2. Ended(c)
  BY <1>1 DEF Ended, Sharing
<1>3. CASE ~q[c].group \/ ~HasRecord(c) \/ RecordOf(c) # RecordOf(p)
  BY <1>2, <1>3
<1>4. CASE q[c].group /\ HasRecord(c) /\ RecordOf(c) = RecordOf(p)
  <2>1. \A n \in RecordOf(p).names : n \in here
    BY <1>4 DEF AllHere
  <2>2. \A n \in here : n \in Player /\ (q[n].group => n \in Sharing(c, here))
    BY FellowsArePlayers DEF Sharing
  <2>. QED  BY <1>1, <2>1, <2>2
<1>. QED  BY <1>3, <1>4

\* Whoever ends a quest before its time does so by handing in or by getting out, his own or
\* another one's.
LEMMA EndsInTime ==
  ASSUME QuestInv, Next, NEW p \in Player, Ended(p), q[p].left > 1
  PROVE  \E c \in online, s \in Quester : \E here \in SUBSET Fellows(c) :
           c \in here /\ (Complete(c, s, here) \/ Quit(c, s, here))
<1>. USE DEF Ended
<1>1. q \in [Player -> Quest] /\ q[p].on /\ ~q'[p].on
  BY DEF QuestInv, Good
<1>2. ASSUME NEW c \in online, NEW s \in Quester, NEW here \in SUBSET Fellows(c),
             Request(c, s, here)
      PROVE FALSE
  <2>1. CASE NothingFound(c, here)
    BY <1>1, <2>1 DEF NothingFound, Quest
  <2>2. ASSUME NEW t \in Times, GiveSingle(c, s, t) PROVE FALSE
    BY <1>1, <2>2 DEF GiveSingle, Given
  <2>3. ASSUME NEW t \in Times, GiveGroup(c, s, here, t) PROVE FALSE
    BY <1>1, <2>3 DEF GiveGroup, Given
  <2>. QED  BY <1>2, <2>1, <2>2, <2>3 DEF Request
<1>3. ASSUME NEW c \in online, Kill(c) PROVE FALSE
  BY <1>1, <1>3 DEF Kill, Quest
<1>4. CASE Tick
  <2>1. q[p] \in Good
    BY DEF QuestInv
  <2>2. Ticked(q[p]).on
    BY <1>1, <2>1 DEF Ticked, Good, Quest, Agrees
  <2>. QED  BY <1>1, <1>4, <2>2 DEF Tick
<1>5. CASE Regroup \/ Reboot
  BY <1>1, <1>5 DEF Regroup, Reboot
<1>6. ASSUME NEW c \in Player, Leave(c) \/ Login(c) PROVE FALSE
  BY <1>1, <1>6 DEF Leave, Login, Quest
<1>7. ASSUME NEW s \in Quester, Replace(s) PROVE FALSE
  BY <1>1, <1>7 DEF Replace, Quest
<1>. QED  BY <1>2, <1>3, <1>4, <1>5, <1>6, <1>7 DEF Next, AtGiver

\* A group ends its quest together, as long as it has time and its giver knows it.
THEOREM GroupsEndTogether == Spec => EndsTogether
<1>. DEFINE Together ==
       \A p \in Player :
         Ended(p) /\ q[p].group /\ q[p].left > 1 /\ HasRecord(p)
           => \/ \A n \in RecordOf(p).names : q[n].group => ~q'[n].on
              \/ \E c \in Player : /\ Ended(c)
                                   /\ ~q[c].group \/ ~HasRecord(c)
                                         \/ RecordOf(c) # RecordOf(p)
<1>1. QuestInv /\ Next => Together
  <2>. SUFFICES ASSUME QuestInv, Next, NEW p \in Player,
                       Ended(p), q[p].group, q[p].left > 1
                PROVE  \/ \A n \in RecordOf(p).names : q[n].group => ~q'[n].on
                       \/ \E c \in Player : /\ Ended(c)
                                            /\ ~q[c].group \/ ~HasRecord(c)
                                                  \/ RecordOf(c) # RecordOf(p)
    OBVIOUS
  <2>1. PICK c \in online, s \in Quester : \E here \in SUBSET Fellows(c) :
          c \in here /\ (Complete(c, s, here) \/ Quit(c, s, here))
    BY EndsInTime
  <2>2. PICK here \in SUBSET Fellows(c) :
          c \in here /\ (Complete(c, s, here) \/ Quit(c, s, here))
    BY <2>1
  <2>3. c \in Player /\ Wait \in 0..2 * Wait /\ 2 * Wait \in 0..2 * Wait
    BY QuestAssumption DEF QuestInv
  <2>4. CASE Complete(c, s, here)
    BY <2>2, <2>3, <2>4, SharingEnds DEF Complete, Passes
  <2>5. CASE Quit(c, s, here)
    <3>1. /\ q[c].on /\ q' = EndQuest(Sharing(c, here), 2 * Wait)
          /\ q[c].group => ~HasRecord(c) \/ AllHere(c, here)
      BY <2>5 DEF Quit, Ended
    <3>. QED  BY <2>2, <2>3, <3>1, SharingEnds
  <2>. QED  BY <2>2, <2>4, <2>5
<1>2. QuestInv /\ [Next]_vars => [Together]_vars
  BY <1>1
<1>. QED  BY <1>2, InvHolds, PTL DEF Spec, EndsTogether
-----------------------------------------------------------------------------
(***************************************************************************)
(* The two lists of descriptors, and the loops that walk along them.       *)
(***************************************************************************)

\* Those from c on.
From(s, c) == {s[j] : j \in {j \in 1..Len(s) : \E k \in 1..j : s[k] = c}}

SoundLists(l, f) ==
    /\ l \in Seq(Desc) /\ f \in Seq(Desc)
    /\ NoRepeat(l) /\ NoRepeat(f) /\ Elems(l) \cap Elems(f) = {}

\* What is closed leaves one list for the other, and who stays keeps the order.
Shrinks ==
    /\ SoundLists(list', free')
    /\ Elems(list') \subseteq Elems(list)
    /\ Elems(list') \cup Elems(free') = Elems(list) \cup Elems(free)
    /\ \A c \in Elems(list') : From(list, c) \cap Elems(list') \subseteq From(list', c)

LEMMA ElemsIs ==
  ASSUME NEW S, NEW s \in Seq(S)
  PROVE  /\ Elems(s) \subseteq S
         /\ \A i \in 1..Len(s) : s[i] \in Elems(s)
         /\ \A x \in Elems(s) : \E i \in 1..Len(s) : s[i] = x
BY DEF Elems

LEMMA Joined ==
  ASSUME NEW S, NEW s \in Seq(S), NEW t \in Seq(S), NoRepeat(s), NoRepeat(t),
         Elems(s) \cap Elems(t) = {}
  PROVE  /\ s \o t \in Seq(S) /\ NoRepeat(s \o t)
         /\ Elems(s \o t) = Elems(s) \cup Elems(t)
<1> DEFINE r == s \o t
<1>1. /\ r \in Seq(S) /\ Len(r) = Len(s) + Len(t)
      /\ Len(s) \in Nat /\ Len(t) \in Nat
      /\ \A i \in 1..Len(s) : r[i] = s[i]
      /\ \A i \in 1..Len(t) : r[Len(s) + i] = t[i]
  OBVIOUS
<1> HIDE DEF r
<1>2. ASSUME NEW i \in 1..Len(r)
      PROVE  \/ i \in 1..Len(s) /\ r[i] = s[i]
             \/ i - Len(s) \in 1..Len(t) /\ r[i] = t[i - Len(s)]
  <2>1. CASE i <= Len(s)
    BY <1>1, <2>1
  <2>2. CASE ~ (i <= Len(s))
    <3>1. i - Len(s) \in 1..Len(t) /\ Len(s) + (i - Len(s)) = i
      BY <1>1, <2>2
    <3>. QED  BY <1>1, <3>1
  <2>. QED  BY <2>1, <2>2
<1>3. Elems(r) = Elems(s) \cup Elems(t)
  <2>1. ASSUME NEW i \in 1..Len(r) PROVE r[i] \in Elems(s) \cup Elems(t)
    BY <1>2, ElemsIs
  <2>2. ASSUME NEW i \in 1..Len(s) PROVE s[i] \in Elems(r)
    <3>1. i \in 1..Len(r)
      BY <1>1
    <3>. QED  BY <1>1, <3>1, ElemsIs
  <2>3. ASSUME NEW i \in 1..Len(t) PROVE t[i] \in Elems(r)
    <3>1. Len(s) + i \in 1..Len(r)
      BY <1>1
    <3>. QED  BY <1>1, <3>1, ElemsIs
  <2>. QED  BY <2>1, <2>2, <2>3 DEF Elems
<1>4. ASSUME NEW i \in 1..Len(r), NEW j \in 1..Len(r), r[i] = r[j] PROVE i = j
  <2>1. \/ i \in 1..Len(s) /\ r[i] = s[i]
        \/ i - Len(s) \in 1..Len(t) /\ r[i] = t[i - Len(s)]
    BY <1>2
  <2>2. \/ j \in 1..Len(s) /\ r[j] = s[j]
        \/ j - Len(s) \in 1..Len(t) /\ r[j] = t[j - Len(s)]
    BY <1>2
  <2>3. /\ \A k \in 1..Len(s) : s[k] \in Elems(s)
        /\ \A k \in 1..Len(t) : t[k] \in Elems(t)
    BY ElemsIs
  <2>4. CASE i \in 1..Len(s) /\ r[i] = s[i]
    <3>1. j \in 1..Len(s) /\ r[j] = s[j]
      BY <1>4, <2>2, <2>3, <2>4
    <3>. QED  BY <1>4, <2>4, <3>1 DEF NoRepeat
  <2>5. CASE i - Len(s) \in 1..Len(t) /\ r[i] = t[i - Len(s)]
    <3>1. j - Len(s) \in 1..Len(t) /\ r[j] = t[j - Len(s)]
      BY <1>4, <2>2, <2>3, <2>5
    <3>2. i - Len(s) = j - Len(s)
      BY <1>4, <2>5, <3>1 DEF NoRepeat
    <3>. QED  BY <1>1, <3>2
  <2>. QED  BY <2>1, <2>4, <2>5
<1>5. NoRepeat(r)
  BY <1>4 DEF NoRepeat
<1>. QED  BY <1>1, <1>3, <1>5 DEF r

\* A list without those of D.
Sans(t, D) == Kept(t, {i \in DOMAIN t : t[i] \notin D})

LEMMA Filtered ==
  ASSUME NEW S, NEW t \in Seq(S), NoRepeat(t), NEW D
  PROVE  LET u == Sans(t, D)
         IN  /\ u \in Seq(S) /\ NoRepeat(u) /\ Elems(u) = Elems(t) \ D
             /\ \A c \in Elems(u) : From(t, c) \cap Elems(u) \subseteq From(u, c)
<1> DEFINE K == {i \in DOMAIN t : t[i] \notin D}
           u == Kept(t, K)
<1>1. Len(t) \in Nat /\ K \in SUBSET (1..Len(t))
      /\ \A i \in 1..Len(t) : i \in K <=> t[i] \notin D
  OBVIOUS
<1> HIDE DEF K
<1>2. /\ u \in Seq(S)
      /\ \A i \in K : Rank(K, i) \in 1..Len(u) /\ u[Rank(K, i)] = t[i]
      /\ \A j \in 1..Len(u) : \E i \in K : Rank(K, i) = j /\ u[j] = t[i]
  BY <1>1, KeptIs
<1>3. \A i, k \in K : i < k => Rank(K, i) < Rank(K, k)
  BY <1>1, Ranks
<1> HIDE DEF u
<1>4. NoRepeat(u)
  <2> SUFFICES ASSUME NEW i \in 1..Len(u), NEW j \in 1..Len(u), u[i] = u[j] PROVE i = j
    BY DEF NoRepeat
  <2>1. PICK a \in K : Rank(K, a) = i /\ u[i] = t[a]
    BY <1>2
  <2>2. PICK b \in K : Rank(K, b) = j /\ u[j] = t[b]
    BY <1>2
  <2>3. a = b
    BY <1>1, <2>1, <2>2 DEF NoRepeat
  <2>. QED  BY <2>1, <2>2, <2>3
<1>5. Elems(u) = Elems(t) \ D
  <2>1. ASSUME NEW j \in 1..Len(u) PROVE u[j] \in Elems(t) \ D
    <3>1. PICK i \in K : u[j] = t[i]
      BY <1>2
    <3>. QED  BY <1>1, <3>1, ElemsIs
  <2>2. ASSUME NEW i \in 1..Len(t), t[i] \notin D PROVE t[i] \in Elems(u)
    <3>1. i \in K
      BY <1>1, <2>2
    <3>. QED  BY <1>2, <3>1, ElemsIs
  <2>. QED  BY <2>1, <2>2 DEF Elems
<1>6. ASSUME NEW c \in Elems(u), NEW d \in From(t, c) \cap Elems(u) PROVE d \in From(u, c)
  <2>1. PICK j \in 1..Len(t), k \in 1..Len(t) : k <= j /\ t[j] = d /\ t[k] = c
    <3>1. PICK j \in 1..Len(t) : t[j] = d /\ \E k \in 1..j : t[k] = c
      BY <1>6 DEF From
    <3>2. PICK k \in 1..j : t[k] = c
      BY <3>1
    <3>3. k \in 1..Len(t) /\ k <= j
      BY <1>1, <3>2
    <3>. QED  BY <3>1, <3>2, <3>3
  <2>2. j \in K /\ k \in K
    BY <1>1, <1>5, <1>6, <2>1
  <2>3. /\ Rank(K, j) \in 1..Len(u) /\ u[Rank(K, j)] = d
        /\ Rank(K, k) \in 1..Len(u) /\ u[Rank(K, k)] = c
    BY <1>2, <2>1, <2>2
  <2>4. Rank(K, k) <= Rank(K, j)
    <3>1. CASE k = j
      BY <2>3, <3>1
    <3>2. CASE k < j
      <4>1. Rank(K, k) < Rank(K, j)
        BY <1>3, <2>2, <3>2
      <4>. QED  BY <2>3, <4>1
    <3>. QED  BY <1>1, <2>1, <3>1, <3>2
  <2>5. Rank(K, k) \in 1..Rank(K, j)
    BY <2>3, <2>4
  <2>. QED  BY <2>3, <2>5 DEF From
<1>7. Sans(t, D) = u
  BY DEF Sans, u, K
<1>. QED  BY <1>2, <1>4, <1>5, <1>6, <1>7

LEMMA StayShrinks ==
  ASSUME SoundLists(list, free), UNCHANGED <<list, free>>
  PROVE  Shrinks
BY DEF Shrinks, SoundLists

\* close_socket() of any connections, in any order.
LEMMA CloseShrinks ==
  ASSUME SoundLists(list, free), NEW D \in SUBSET Listed, Close(D)
  PROVE  Shrinks /\ Elems(list') = Listed \ D
<1>0. /\ list \in Seq(Desc) /\ free \in Seq(Desc) /\ NoRepeat(list) /\ NoRepeat(free)
      /\ Elems(list) \cap Elems(free) = {} /\ Elems(list) = Listed
  BY DEF SoundLists, Listed
<1>1. list' = Sans(list, D)
  BY DEF Close, Sans
<1>2. /\ list' \in Seq(Desc) /\ NoRepeat(list') /\ Elems(list') = Listed \ D
      /\ \A c \in Elems(list') : From(list, c) \cap Elems(list') \subseteq From(list', c)
  BY <1>0, <1>1, Filtered
<1>3. PICK s \in [1..Cardinality(D) -> D] : Elems(s) = D /\ free' = s \o free
  BY DEF Close
<1>4. IsFiniteSet(D) /\ Cardinality(D) \in Nat
  <2> DEFINE n == Len(list)
             f == [i \in 1..n |-> list[i]]
  <2>1. n \in Nat /\ IsFiniteSet(1..n)
    BY <1>0, FS_Interval
  <2>2. f \in Surjection(1..n, Elems(list))
    BY <1>0, ElemsIs DEF Surjection, Elems
  <2>3. IsFiniteSet(Elems(list))
    <3> HIDE DEF f
    <3>. QED  BY <2>1, <2>2, FS_Surjection
  <2>. QED  BY <1>0, <2>3, FS_Subset, FS_CardinalityType
<1> DEFINE m == Cardinality(D)
<1>5. s \in Seq(D) /\ Len(s) = m /\ D \subseteq Desc
  <2>1. D \subseteq Desc
    BY <1>0, ElemsIs
  <2>2. s \in Seq(D) /\ Len(s) = m
    BY <1>3, <1>4
  <2>. QED  BY <2>1, <2>2
<1>6. NoRepeat(s)
  <2>1. IsFiniteSet(1..m) /\ Cardinality(1..m) = m
    BY <1>4, FS_Interval
  <2>2. s \in Surjection(1..m, D)
    <3>1. \A x \in D : \E i \in 1..m : s[i] = x
      BY <1>3, <1>5, ElemsIs
    <3>. QED  BY <1>3, <3>1 DEF Surjection
  <2>3. s \in Injection(1..m, D)
    BY <2>1, <2>2, FS_Surjection
  <2>4. \A i, j \in 1..m : s[i] = s[j] => i = j
    BY <2>3 DEF Injection, IsInjective
  <2>. QED  BY <1>5, <2>4 DEF NoRepeat
<1>7. s \in Seq(Desc)
  BY <1>5
<1>8. /\ free' \in Seq(Desc) /\ NoRepeat(free') /\ Elems(free') = D \cup Elems(free)
  BY <1>0, <1>3, <1>6, <1>7, Joined
<1>. QED  BY <1>0, <1>2, <1>8 DEF Shrinks, SoundLists

\* The link leads to the next one of the list, or to its end.
LEMMA AfterIs ==
  ASSUME NEW s \in Seq(Desc), NoRepeat(s), NEW c \in Elems(s)
  PROVE  \/ After(s, c) = None /\ From(s, c) = {c}
         \/ /\ After(s, c) \in Elems(s)
            /\ From(s, c) = {c} \cup From(s, After(s, c))
<1>1. PICK i \in 1..Len(s) : s[i] = c
  BY ElemsIs
<1>2. \A j \in 1..Len(s) : s[j] = c => j = i
  BY <1>1 DEF NoRepeat
<1> DEFINE at == CHOOSE j \in 1..Len(s) : s[j] = c
<1>3. at = i
  BY <1>1, <1>2
<1>4. After(s, c) = IF i = Len(s) THEN None ELSE s[i + 1]
  <2>1. After(s, c) = IF at = Len(s) THEN None ELSE s[at + 1]
    BY DEF After
  <2> HIDE DEF at
  <2>. QED  BY <1>3, <2>1
<1> HIDE DEF at
<1>5. From(s, c) = {s[j] : j \in i..Len(s)}
  <2>1. ASSUME NEW j \in 1..Len(s), NEW k \in 1..j, s[k] = c PROVE j \in i..Len(s)
    <3>1. k = i
      BY <1>2, <2>1
    <3>. QED  BY <3>1
  <2>2. ASSUME NEW j \in i..Len(s) PROVE j \in 1..Len(s) /\ \E k \in 1..j : s[k] = c
    <3>1. i \in 1..j
      BY <1>1
    <3>. QED  BY <1>1, <3>1
  <2>. QED  BY <2>1, <2>2 DEF From
<1>6. CASE i = Len(s)
  <2>1. i..Len(s) = {i}
    BY <1>6
  <2>. QED  BY <1>1, <1>4, <1>5, <1>6, <2>1
<1>7. CASE i # Len(s)
  <2>1. i + 1 \in 1..Len(s)
    BY <1>7
  <2>2. From(s, s[i + 1]) = {s[j] : j \in (i + 1)..Len(s)}
    <3>1. ASSUME NEW j \in 1..Len(s), NEW k \in 1..j, s[k] = s[i + 1] PROVE j \in (i + 1)..Len(s)
      <4>1. k \in 1..Len(s)
        OBVIOUS
      <4>2. k = i + 1
        BY <2>1, <3>1, <4>1 DEF NoRepeat
      <4>. QED  BY <4>2
    <3>2. ASSUME NEW j \in (i + 1)..Len(s)
          PROVE  j \in 1..Len(s) /\ \E k \in 1..j : s[k] = s[i + 1]
      <4>1. i + 1 \in 1..j
        OBVIOUS
      <4>. QED  BY <4>1
    <3>. QED  BY <3>1, <3>2 DEF From
  <2>3. i..Len(s) = {i} \cup ((i + 1)..Len(s))
    BY <1>7
  <2>4. From(s, c) = {c} \cup From(s, s[i + 1])
    BY <1>1, <1>5, <2>2, <2>3
  <2>. QED  BY <1>4, <1>7, <2>1, <2>4, ElemsIs
<1>. QED  BY <1>6, <1>7

\* The loops begin with the head of the list, so they have all of it before them.
LEMMA HeadIs ==
  ASSUME NEW s \in Seq(Desc)
  PROVE  /\ HeadOf(s) \in Elems(s) \cup {None}
         /\ Elems(s) \subseteq From(s, HeadOf(s))
<1>1. CASE s = <<>>
  BY <1>1 DEF HeadOf, Elems
<1>2. CASE s # <<>>
  <2>1. HeadOf(s) = s[1] /\ 1 \in 1..Len(s)
    BY <1>2 DEF HeadOf
  <2>2. ASSUME NEW j \in 1..Len(s) PROVE s[j] \in From(s, s[1])
    <3>1. 1 \in 1..j
      OBVIOUS
    <3>. QED  BY <3>1 DEF From
  <2>. QED  BY <2>1, <2>2, ElemsIs DEF Elems
<1>. QED  BY <1>1, <1>2

-----------------------------------------------------------------------------
(* The invariant of the pulse. *)

\* Who is in the dialogue is closed on time, so the counts stay within their bound.
Patient == \A d \in Listed : stage[d] = "playing" \/ idle[d] <= DialogLimit

\* Where the loop is; and, unless it was led astray, whom the input loop has still before it.
OnTheWay ==
    /\ cur \in Listed \cup Elems(free) \cup {None}
    /\ ~strayed =>
         /\ phase \in {"kick", "input", "output"} => cur \in Listed \cup {None}
         /\ phase = "input" => Listed \ served \subseteq From(list, cur)
         /\ phase = "update" => Listed \subseteq served

LoopInv == ListsSound /\ Patient /\ OnTheWay

LEMMA ListsAre ==
  ASSUME LoopInv
  PROVE  /\ SoundLists(list, free) /\ Listed = Elems(list)
         /\ Listed \subseteq Desc /\ Elems(free) \subseteq Desc
BY ElemsIs DEF LoopInv, ListsSound, LoopTypeOK, SoundLists, Listed

\* A pass of a body, whatever it closes, takes the loop one link further.
LEMMA GoOnWay ==
  ASSUME LoopInv, Shrinks, cur # None, phase \in {"kick", "input", "output"}, GoOn,
         served \subseteq served', phase = "input" => cur \in served'
  PROVE  OnTheWay'
<1>0. /\ SoundLists(list, free) /\ Listed = Elems(list) /\ Listed' = Elems(list')
      /\ list \in Seq(Desc) /\ free \in Seq(Desc) /\ NoRepeat(list) /\ NoRepeat(free)
      /\ Elems(list) \cap Elems(free) = {}
  BY ListsAre DEF SoundLists, Listed
<1>1. /\ phase' = phase /\ cur' = Link(list, free, cur)
      /\ strayed' = (strayed \/ cur' \notin Elems(list') \cup {None})
  BY DEF GoOn, Tracked
<1>2. cur \in Elems(list) \cup Elems(free)
  BY <1>0 DEF LoopInv, OnTheWay
<1>3. cur' \in Elems(list) \cup Elems(free) \cup {None}
  <2>1. CASE cur \in Elems(list)
    BY <1>0, <1>1, <2>1, AfterIs DEF Link
  <2>2. CASE cur \in Elems(free)
    <3>1. cur' = After(free, cur)
      BY <1>0, <1>1, <2>2 DEF Link
    <3>. QED  BY <1>0, <2>2, <3>1, AfterIs
  <2>. QED  BY <1>2, <2>1, <2>2
<1>4. ASSUME ~strayed', phase = "input" PROVE Elems(list') \ served' \subseteq From(list', cur')
  <2>1. ~strayed /\ cur' \in Elems(list') \cup {None}
    BY <1>1, <1>4
  <2>2. cur \in Elems(list) /\ Elems(list) \ served \subseteq From(list, cur)
    BY <1>0, <1>4, <2>1 DEF LoopInv, OnTheWay
  <2>3. cur' = After(list, cur)
    BY <1>1, <2>2 DEF Link
  <2>4. Elems(list') \ served' \subseteq From(list, cur) \ {cur}
    BY <1>4, <2>2 DEF Shrinks
  <2>5. CASE cur' = None /\ From(list, cur) = {cur}
    BY <2>4, <2>5
  <2>6. CASE cur' \in Elems(list) /\ From(list, cur) = {cur} \cup From(list, cur')
    <3>1. cur' # None
      BY <1>0, <2>6, ElemsIs, LoopAssumption
    <3>2. From(list, cur') \cap Elems(list') \subseteq From(list', cur')
      BY <2>1, <3>1 DEF Shrinks
    <3>. QED  BY <2>4, <2>6, <3>2
  <2>. QED  BY <1>0, <2>2, <2>3, <2>5, <2>6, AfterIs
<1>5. cur' \in Elems(list') \cup Elems(free') \cup {None}
  BY <1>3 DEF Shrinks
<1>6. ~strayed' => cur' \in Elems(list') \cup {None}
  BY <1>1
<1>7. phase' # "update"
  BY <1>1
<1>. QED  BY <1>0, <1>1, <1>4, <1>5, <1>6, <1>7 DEF OnTheWay

\* What a pass of a body keeps of the types, beside the lists.
Passed ==
    /\ Shrinks /\ GoOn /\ cur # None /\ phase \in {"kick", "input", "output"}
    /\ served' \in {served, served \cup {cur}} /\ (phase = "input" => cur \in served')
    /\ stage' \in [Desc -> Stages] /\ idle' \in [Desc -> 0..(DialogLimit + 1)]
    /\ down' \in BOOLEAN
    /\ Patient'

LEMMA PassKeeps ==
  ASSUME LoopInv, Passed PROVE LoopInv'
<1>1. cur \in Desc
  BY ListsAre DEF LoopInv, OnTheWay, Passed
<1>2. OnTheWay'
  BY GoOnWay DEF Passed
<1>3. /\ SoundLists(list', free')
      /\ phase' = phase /\ strayed' = (strayed \/ cur' \notin Elems(list') \cup {None})
  BY DEF Passed, Shrinks, GoOn, Tracked
<1>4. Elems(list') \subseteq Desc /\ Elems(free') \subseteq Desc
  BY <1>3, ElemsIs DEF SoundLists
<1>5. cur' \in Desc \cup {None}
  BY <1>2, <1>4 DEF OnTheWay, Listed
<1>6. served' \subseteq Desc /\ phase' \in Phases /\ strayed' \in BOOLEAN
  <2>1. served \subseteq Desc /\ phase \in Phases /\ strayed \in BOOLEAN
    BY DEF LoopInv, ListsSound, LoopTypeOK
  <2>. QED  BY <1>1, <1>3, <2>1 DEF Passed
<1>. QED  BY <1>2, <1>3, <1>5, <1>6 DEF LoopInv, ListsSound, LoopTypeOK, SoundLists, Passed

\* ++idle_tics of one who is not kept too long.
LEMMA CountedIs ==
  ASSUME LoopInv, NEW d \in Desc
  PROVE  /\ Counted(d) \in Nat
         /\ d \in Listed => Counted(d) \in 0..(DialogLimit + 1)
         /\ ~TooLong(d, Counted(d)) =>
              /\ Counted(d) \in 0..(DialogLimit + 1)
              /\ stage[d] = "playing" \/ Counted(d) <= DialogLimit
<1>1. /\ idle[d] \in 0..(DialogLimit + 1) /\ DialogLimit \in Nat /\ stage[d] \in Stages
      /\ NameLimit \in Nat /\ NameLimit <= DialogLimit
  BY LoopAssumption DEF LoopInv, ListsSound, LoopTypeOK
<1>2. d \in Listed => stage[d] = "playing" \/ idle[d] <= DialogLimit
  BY DEF LoopInv, Patient
<1>. QED  BY <1>1, <1>2 DEF Counted, TooLong

LEMMA TypesAre ==
  ASSUME LoopInv
  PROVE  /\ stage \in [Desc -> Stages] /\ idle \in [Desc -> 0..(DialogLimit + 1)]
         /\ phase \in Phases /\ cur \in Desc \cup {None} /\ served \subseteq Desc
         /\ down \in BOOLEAN /\ strayed \in BOOLEAN /\ DialogLimit \in Nat
         /\ \A d \in Listed : stage[d] = "playing" \/ idle[d] <= DialogLimit
BY LoopAssumption DEF LoopInv, ListsSound, LoopTypeOK, Patient

LEMMA StaysKeeps ==
  ASSUME LoopInv, Stays PROVE LoopInv'
<1>1. Shrinks
  BY ListsAre, StayShrinks DEF Stays
<1>2. cur \in Desc
  BY TypesAre DEF Stays
<1>3. /\ Counted(cur) \in 0..(DialogLimit + 1)
      /\ stage[cur] = "playing" \/ Counted(cur) <= DialogLimit
  BY <1>2, CountedIs DEF Stays
<1>4. idle' \in [Desc -> 0..(DialogLimit + 1)]
  BY <1>3, TypesAre DEF Stays
<1>5. Patient'
  <2>1. Listed' = Listed /\ stage' = stage /\ idle' = [idle EXCEPT ![cur] = Counted(cur)]
    BY DEF Stays, Listed
  <2>2. \A d \in Listed : d \in Desc /\ (stage[d] = "playing" \/ idle[d] <= DialogLimit)
    BY ListsAre, TypesAre
  <2>3. \A d \in Desc : idle'[d] = IF d = cur THEN Counted(cur) ELSE idle[d]
    BY <2>1, TypesAre
  <2>. QED  BY <1>3, <2>1, <2>2, <2>3 DEF Patient
<1>. QED  BY <1>1, <1>4, <1>5, PassKeeps, TypesAre DEF Passed, Stays

\* The body closes its own descriptor, and what else it closes.
LEMMA OwnClosed ==
  ASSUME LoopInv, CloseAndGoOn, cur # None
  PROVE  Shrinks /\ GoOn /\ down' = down /\ Listed' \subseteq Listed \ {cur} /\ cur \in Listed
<1>1. PICK O \in Others(cur) : Close(O \cup {cur})
  BY DEF CloseAndGoOn
<1>2. cur \in Listed /\ O \cup {cur} \in SUBSET Listed
  BY DEF CloseAndGoOn, Others
<1>3. Shrinks /\ Elems(list') = Listed \ (O \cup {cur})
  BY <1>1, <1>2, ListsAre, CloseShrinks
<1>. QED  BY <1>2, <1>3 DEF CloseAndGoOn, Listed

LEMMA KickedKeeps ==
  ASSUME LoopInv, KickedOut PROVE LoopInv'
<1>1. Shrinks /\ GoOn /\ down' = down /\ Listed' \subseteq Listed \ {cur} /\ cur \in Listed
  BY OwnClosed DEF KickedOut
<1>2. cur \in Desc
  BY TypesAre DEF KickedOut
<1>3. Counted(cur) \in 0..(DialogLimit + 1)
  BY <1>1, <1>2, CountedIs
<1>4. /\ idle' \in [Desc -> 0..(DialogLimit + 1)]
      /\ \A d \in Desc \ {cur} : idle'[d] = idle[d]
  BY <1>3, TypesAre DEF KickedOut
<1>5. Patient'
  BY <1>1, <1>4, ListsAre, TypesAre DEF Patient, KickedOut
<1>. QED  BY <1>1, <1>4, <1>5, PassKeeps, TypesAre DEF Passed, KickedOut

LEMMA ReadFailsKeeps ==
  ASSUME LoopInv, ReadFails PROVE LoopInv'
<1>1. Shrinks /\ GoOn /\ down' = down /\ Listed' \subseteq Listed \ {cur} /\ cur \in Listed
  BY OwnClosed DEF ReadFails
<1>2. /\ idle' \in [Desc -> 0..(DialogLimit + 1)]
      /\ \A d \in Desc \ {cur} : idle'[d] = idle[d]
  BY TypesAre DEF ReadFails
<1>3. Patient'
  BY <1>1, <1>2, ListsAre, TypesAre DEF Patient, ReadFails
<1>. QED  BY <1>1, <1>2, <1>3, PassKeeps, TypesAre DEF Passed, ReadFails

LEMMA InputKeeps ==
  ASSUME LoopInv, InputDone PROVE LoopInv'
<1>1. PICK O \in Others(cur), own \in BOOLEAN :
         /\ own => cur \in Listed
         /\ Close(O \cup (IF own THEN {cur} ELSE {}))
         /\ MayGoDown(O \cup (IF own THEN {cur} ELSE {}))
  BY DEF InputDone
<1> DEFINE D == O \cup (IF own THEN {cur} ELSE {})
<1>2. D \in SUBSET Listed
  BY <1>1 DEF Others
<1>3. Shrinks /\ Listed' \subseteq Listed
  <2>1. Close(D)
    BY <1>1
  <2> HIDE DEF D
  <2>. QED  BY <1>2, <2>1, ListsAre, CloseShrinks DEF Shrinks, Listed
<1>4. down' \in BOOLEAN
  BY <1>1, TypesAre DEF MayGoDown
<1>5. cur \in Desc
  BY TypesAre DEF InputDone
<1>6. PICK s \in Moves(stage[cur]) : stage' = [stage EXCEPT ![cur] = s]
  BY DEF InputDone
<1>7. s \in Stages /\ (stage[cur] = "playing" => s = "playing")
  BY DEF Moves, Stages
<1>8. stage' \in [Desc -> Stages] /\ idle' \in [Desc -> 0..(DialogLimit + 1)]
  BY <1>6, <1>7, TypesAre DEF InputDone
<1>9. ASSUME NEW d \in Desc, stage[d] = "playing" \/ idle[d] <= DialogLimit
      PROVE  stage'[d] = "playing" \/ idle'[d] <= DialogLimit
  <2>1. stage'[d] = IF d = cur THEN s ELSE stage[d]
    BY <1>6, TypesAre
  <2>2. idle'[d] = idle[d] \/ idle'[d] = 0
    BY TypesAre DEF InputDone
  <2>. QED  BY <1>7, <1>9, <2>1, <2>2, TypesAre
<1>10. Patient'
  <2>1. \A d \in Listed' : d \in Desc /\ (stage[d] = "playing" \/ idle[d] <= DialogLimit)
    BY <1>3, ListsAre, TypesAre
  <2>. QED  BY <1>9, <2>1 DEF Patient
<1>. QED  BY <1>3, <1>4, <1>8, <1>10, PassKeeps DEF Passed, InputDone

LEMMA OutputKeeps ==
  ASSUME LoopInv, OutputDone \/ OutputFails PROVE LoopInv'
<1>1. Shrinks /\ GoOn /\ down' = down /\ Listed' \subseteq Listed
  <2>1. CASE OutputDone
    BY <2>1, ListsAre, StayShrinks DEF OutputDone, Listed
  <2>2. CASE OutputFails
    BY <2>2, OwnClosed DEF OutputFails
  <2>. QED  BY <2>1, <2>2
<1>2. Patient'
  BY <1>1, TypesAre DEF Patient, OutputDone, OutputFails
<1>. QED  BY <1>1, <1>2, PassKeeps, TypesAre DEF Passed, OutputDone, OutputFails

\* A new process has nothing.
LEMMA NothingYet ==
  ASSUME LoopInit PROVE LoopInv
<1>1. list = <<>> /\ free = <<>> /\ <<>> \in Seq(Desc)
  BY DEF LoopInit
<1>2. Elems(<<>>) = {} /\ NoRepeat(<<>>)
  BY DEF Elems, NoRepeat
<1>3. 0 \in 0..(DialogLimit + 1)
  BY LoopAssumption
<1>4. LoopTypeOK
  BY <1>1, <1>3 DEF LoopInit, LoopTypeOK, Stages, Phases
<1>. QED  BY <1>1, <1>2, <1>4 DEF LoopInit, LoopInv, ListsSound, Patient, OnTheWay, Listed

LEMMA RestartKeeps ==
  ASSUME Restart PROVE LoopInv'
<1>1. list' = <<>> /\ free' = <<>> /\ <<>> \in Seq(Desc)
  BY DEF Restart
<1>2. Elems(<<>>) = {} /\ NoRepeat(<<>>)
  BY DEF Elems, NoRepeat
<1>3. 0 \in 0..(DialogLimit + 1)
  BY LoopAssumption
<1>4. LoopTypeOK'
  BY <1>1, <1>3 DEF Restart, LoopTypeOK, Stages, Phases
<1>. QED  BY <1>1, <1>2, <1>4 DEF Restart, LoopInv, ListsSound, Patient, OnTheWay, Listed

\* The loops of a pulse, or the last of them, begin with a list in order.
LEMMA BeginKeeps ==
  ASSUME LoopInv, SoundLists(list', free'), cur' = HeadOf(list'),
         stage' \in [Desc -> Stages], idle' \in [Desc -> 0..(DialogLimit + 1)],
         phase' \in {"kick", "input", "output"}, served' \subseteq Desc,
         down' \in BOOLEAN, strayed' \in BOOLEAN, Patient'
  PROVE  LoopInv'
<1>1. list' \in Seq(Desc) /\ Elems(list') \subseteq Desc /\ Listed' = Elems(list')
  BY ElemsIs DEF SoundLists, Listed
<1>2. cur' \in Elems(list') \cup {None} /\ Elems(list') \subseteq From(list', cur')
  BY <1>1, HeadIs
<1>3. OnTheWay'
  BY <1>1, <1>2 DEF OnTheWay
<1>4. LoopTypeOK'
  BY <1>1, <1>2 DEF LoopTypeOK, SoundLists, Phases
<1>. QED  BY <1>3, <1>4 DEF LoopInv, ListsSound, SoundLists

\* new_descriptor() takes one that is in neither list, from the free ones or beside them.
LEMMA FreshIs ==
  ASSUME LoopInv, NEW d \in Desc, Fresh(d)
  PROVE  /\ d \notin Elems(list)
         /\ Rest \in Seq(Desc) /\ NoRepeat(Rest)
         /\ d \notin Elems(Rest) /\ Elems(Rest) \subseteq Elems(free)
<1>0. /\ list \in Seq(Desc) /\ free \in Seq(Desc) /\ NoRepeat(free)
      /\ Elems(list) \cap Elems(free) = {} /\ Listed = Elems(list)
  BY ListsAre DEF SoundLists
<1>1. CASE free = <<>>
  <2>1. Rest = <<>> /\ d \notin Listed
    BY <1>1 DEF Fresh, Rest
  <2>. QED  BY <1>0, <2>1 DEF Elems, NoRepeat
<1>2. CASE free # <<>>
  <2>1. d = free[1] /\ Rest = Tail(free) /\ 1 \in 1..Len(free)
    BY <1>0, <1>2 DEF Fresh, Rest
  <2>2. /\ Rest \in Seq(Desc)
        /\ \A i \in 1..Len(Rest) : i + 1 \in 1..Len(free) /\ Rest[i] = free[i + 1]
    BY <1>0, <1>2, <2>1
  <2>3. d \in Elems(free)
    BY <1>0, <2>1, ElemsIs
  <2>4. ASSUME NEW i \in 1..Len(Rest) PROVE Rest[i] \in Elems(free) /\ Rest[i] # d
    <3>1. free[i + 1] \in Elems(free)
      BY <1>0, <2>2, ElemsIs
    <3>2. free[i + 1] = free[1] => i + 1 = 1
      BY <1>0, <2>1, <2>2 DEF NoRepeat
    <3>. QED  BY <2>1, <2>2, <3>1, <3>2
  <2>5. ASSUME NEW i \in 1..Len(Rest), NEW j \in 1..Len(Rest), Rest[i] = Rest[j] PROVE i = j
    <3>1. i + 1 = j + 1
      BY <1>0, <2>2, <2>5 DEF NoRepeat
    <3>. QED  BY <3>1
  <2>6. NoRepeat(Rest)
    BY <2>5 DEF NoRepeat
  <2>7. d \notin Elems(Rest) /\ Elems(Rest) \subseteq Elems(free)
    <3> HIDE DEF Rest
    <3>1. Elems(Rest) = {Rest[i] : i \in 1..Len(Rest)}
      BY DEF Elems
    <3>. QED  BY <2>4, <3>1
  <2>8. d \notin Elems(list)
    BY <1>0, <2>3
  <2>. QED  BY <2>2, <2>6, <2>7, <2>8
<1>. QED  BY <1>1, <1>2

\* One descriptor before the head of a list that it is not in.
LEMMA PutFirst ==
  ASSUME NEW s \in Seq(Desc), NoRepeat(s), NEW d \in Desc, d \notin Elems(s)
  PROVE  /\ <<d>> \o s \in Seq(Desc) /\ NoRepeat(<<d>> \o s)
         /\ Elems(<<d>> \o s) = {d} \cup Elems(s)
<1> DEFINE h == <<d>>
<1>1. h \in Seq(Desc) /\ Len(h) = 1 /\ h[1] = d
  OBVIOUS
<1> HIDE DEF h
<1>2. Elems(h) = {d} /\ NoRepeat(h)
  BY <1>1 DEF Elems, NoRepeat
<1>3. Elems(h) \cap Elems(s) = {}
  BY <1>2
<1>4. h \o s \in Seq(Desc) /\ NoRepeat(h \o s) /\ Elems(h \o s) = {d} \cup Elems(s)
  BY <1>1, <1>2, <1>3, Joined
<1>. QED  BY <1>4 DEF h

LEMMA PollKeeps ==
  ASSUME LoopInv, NobodyNew \/ \E d \in Desc : Accepted(d) \/ Banned(d)
  PROVE  LoopInv'
<1>0. /\ list \in Seq(Desc) /\ free \in Seq(Desc) /\ NoRepeat(list) /\ NoRepeat(free)
      /\ Elems(list) \cap Elems(free) = {} /\ Listed = Elems(list) /\ SoundLists(list, free)
  BY ListsAre DEF SoundLists
<1>1. StartLoops
  BY DEF NobodyNew, Accepted, Banned
<1>2. /\ cur' = HeadOf(list') /\ phase' = "kick" /\ served' = {} /\ strayed' = FALSE
      /\ down' \in BOOLEAN
  BY <1>1, TypesAre DEF StartLoops
<1>3. CASE NobodyNew
  <2>1. Patient'
    BY <1>3, TypesAre DEF NobodyNew, Patient, Listed
  <2>. QED  BY <1>0, <1>2, <1>3, <2>1, BeginKeeps, TypesAre DEF NobodyNew
<1>4. ASSUME NEW d \in Desc, Accepted(d) \/ Banned(d) PROVE LoopInv'
  <2>1. Fresh(d) /\ Zeroed(d)
    BY <1>4 DEF Accepted, Banned
  <2>2. /\ d \notin Elems(list) /\ Rest \in Seq(Desc) /\ NoRepeat(Rest)
        /\ d \notin Elems(Rest) /\ Elems(Rest) \subseteq Elems(free)
    BY <2>1, FreshIs
  <2>3. SoundLists(list', free') /\ Elems(list') \subseteq Elems(list) \cup {d}
    <3>1. CASE Accepted(d)
      <4>1. list' = <<d>> \o list /\ free' = Rest
        BY <3>1 DEF Accepted
      <4>2. /\ list' \in Seq(Desc) /\ NoRepeat(list') /\ Elems(list') = {d} \cup Elems(list)
        BY <1>0, <2>2, <4>1, PutFirst
      <4>. QED  BY <1>0, <2>2, <4>1, <4>2 DEF SoundLists
    <3>2. CASE Banned(d)
      <4>1. list' = list /\ free' = <<d>> \o Rest
        BY <3>2 DEF Banned
      <4>2. /\ free' \in Seq(Desc) /\ NoRepeat(free') /\ Elems(free') = {d} \cup Elems(Rest)
        BY <2>2, <4>1, PutFirst
      <4>. QED  BY <1>0, <2>2, <4>1, <4>2 DEF SoundLists
    <3>. QED  BY <1>4, <3>1, <3>2
  <2>4. /\ stage' \in [Desc -> Stages] /\ idle' \in [Desc -> 0..(DialogLimit + 1)]
        /\ idle'[d] = 0
        /\ \A c \in Desc \ {d} : stage'[c] = stage[c] /\ idle'[c] = idle[c]
    BY <2>1, TypesAre DEF Zeroed, Stages
  <2>5. Patient'
    <3>1. ASSUME NEW c \in Listed' PROVE stage'[c] = "playing" \/ idle'[c] <= DialogLimit
      <4>1. c = d \/ (c \in Listed /\ c \in Desc \ {d})
        BY <1>0, <2>3, ListsAre DEF Listed
      <4>. QED  BY <2>4, <4>1, TypesAre
    <3>. QED  BY <3>1 DEF Patient
  <2>. QED  BY <1>2, <2>3, <2>4, <2>5, BeginKeeps
<1>. QED  BY <1>3, <1>4

LEMMA UpdatedKeeps ==
  ASSUME LoopInv, Updated PROVE LoopInv'
<1>1. PICK D \in SUBSET Listed : Close(D) /\ MayGoDown(D)
  BY DEF Updated
<1>2. Shrinks /\ Listed' \subseteq Listed
  BY <1>1, ListsAre, CloseShrinks DEF Shrinks, Listed
<1>3. down' \in BOOLEAN
  BY <1>1, TypesAre DEF MayGoDown
<1>4. Patient'
  BY <1>2, TypesAre DEF Patient, Updated
<1>. QED  BY <1>2, <1>3, <1>4, BeginKeeps, TypesAre DEF Shrinks, Updated

LEMMA EndsKeeps ==
  ASSUME LoopInv, LoopEnds PROVE LoopInv'
<1>0. /\ SoundLists(list, free) /\ Listed = Elems(list) /\ list \in Seq(Desc)
      /\ None \notin Elems(list)
  BY ListsAre, LoopAssumption DEF SoundLists
<1>1. Listed' = Listed /\ Patient' /\ SoundLists(list', free')
  BY <1>0 DEF LoopEnds, LoopInv, Patient, Listed
<1>2. CASE phase = "kick"
  <2>1. phase' = "input" /\ cur' = HeadOf(list')
    BY <1>2 DEF LoopEnds
  <2>. QED  BY <1>1, <2>1, BeginKeeps, TypesAre DEF LoopEnds
<1>3. CASE phase \in {"input", "output"}
  <2>1. From(list, None) = {}
    <3>1. ASSUME NEW j \in 1..Len(list), NEW k \in 1..j PROVE list[k] # None
      <4>1. k \in 1..Len(list)
        BY <1>0
      <4>. QED  BY <1>0, <4>1, ElemsIs
    <3>. QED  BY <3>1 DEF From
  <2>2. /\ cur = None /\ cur' = None
        /\ \/ phase = "input" /\ phase' = "update"
           \/ phase = "output" /\ phase' = "poll"
    BY <1>3 DEF LoopEnds
  <2>3. ~strayed /\ phase = "input" => Listed \subseteq served
    BY <2>1, <2>2 DEF LoopInv, OnTheWay
  <2>4. OnTheWay'
    BY <1>1, <2>2, <2>3 DEF OnTheWay, LoopEnds
  <2>5. LoopTypeOK'
    BY <2>2 DEF LoopEnds, LoopInv, ListsSound, LoopTypeOK, Phases
  <2>. QED  BY <1>1, <2>4, <2>5 DEF LoopInv, ListsSound, SoundLists
<1>. QED  BY <1>2, <1>3 DEF LoopEnds

LEMMA LoopInvKept ==
  ASSUME LoopInv, [LoopNext]_loopVars PROVE LoopInv'
<1>1. CASE UNCHANGED loopVars
  BY <1>1 DEF loopVars, LoopInv, ListsSound, LoopTypeOK, Patient, OnTheWay, Listed
<1>2. CASE LoopNext
  <2>1. CASE NobodyNew \/ \E d \in Desc : Accepted(d) \/ Banned(d)
    BY <2>1, PollKeeps
  <2>2. CASE Down \/ ClosedAgain
    BY <2>2, RestartKeeps DEF Down, ClosedAgain
  <2>. QED  BY <1>2, <2>1, <2>2, StaysKeeps, KickedKeeps, ReadFailsKeeps, InputKeeps,
               UpdatedKeeps, OutputKeeps, EndsKeeps DEF LoopNext
<1>. QED  BY <1>1, <1>2

LEMMA LoopInvHolds == LoopSpec => []LoopInv
BY NothingYet, LoopInvKept, PTL DEF LoopSpec

\* Whatever is closed where and by whom, descriptor_list and descriptor_free, which share
\* their link field, never share a descriptor, and neither runs in a circle.
THEOREM DescriptorListsSound == LoopSpec => []ListsSound
<1>1. LoopInv => ListsSound
  BY DEF LoopInv
<1>. QED  BY <1>1, LoopInvHolds, PTL

\* Unless a loop was led astray, every connection there at the end of the input loop has been
\* come to in this pulse.
THEOREM EverybodyServed == LoopSpec => []AllServed
<1>1. LoopInv => AllServed
  BY DEF LoopInv, OnTheWay, AllServed
<1>. QED  BY <1>1, LoopInvHolds, PTL

\* Only the next connection of the list, closed by the body that has just run, leads a loop
\* from a connection to a descriptor that is nobody's.
THEOREM LoopsStrayByNextOnly == LoopSpec => StraysByNextOnly
<1>. DEFINE Straight == cur \in Listed /\ cur' \notin Elems(list') \cup {None}
                          => cur' = Link(list, free, cur) /\ cur' \in Listed
<1>1. ASSUME LoopInv, LoopInv', LoopNext PROVE Straight
  <2>. SUFFICES ASSUME cur \in Listed, cur' \notin Elems(list') \cup {None}
                PROVE  cur' = Link(list, free, cur) /\ cur' \in Listed
    OBVIOUS
  <2>0. /\ list \in Seq(Desc) /\ NoRepeat(list) /\ Listed = Elems(list) /\ list' \in Seq(Desc)
    BY <1>1, ListsAre DEF SoundLists, LoopInv, ListsSound, LoopTypeOK
  <2>1. ~ (cur' = HeadOf(list')) /\ cur' # None
    BY <2>0, HeadIs
  <2>2. CASE cur' = Link(list, free, cur)
    <3>1. cur' = After(list, cur)
      BY <2>0, <2>2 DEF Link
    <3>. QED  BY <2>0, <2>1, <2>2, <3>1, AfterIs
  <2>3. cur' = Link(list, free, cur)
    BY <1>1, <2>1 DEF LoopNext, NobodyNew, Accepted, Banned, StartLoops, Down, ClosedAgain, Restart,
          Stays, KickedOut, ReadFails, InputDone, Updated, OutputDone, OutputFails, LoopEnds,
          CloseAndGoOn, GoOn
  <2>. QED  BY <2>2, <2>3
<1>2. LoopInv /\ LoopInv' /\ [LoopNext]_loopVars => [Straight]_loopVars
  BY <1>1
<1>. QED  BY <1>2, LoopInvHolds, PTL DEF LoopSpec, StraysByNextOnly

-----------------------------------------------------------------------------
(***************************************************************************)
(* Scripts: blocks nest and calls are counted.  Every activation holds a   *)
(* frame of GoodFrame: what a line makes of a good frame is a good frame,  *)
(* and the other activations are left alone.                               *)
(***************************************************************************)
GoodFrame == {f \in Frame : Nested(f)}

ScriptsInv == BlocksNest /\ LeavesClean

-----------------------------------------------------------------------------
(* The stack *)

\* The invariant in terms of good frames.
LEMMA GoodStack ==
  ASSUME NEW s \in Seq(Frame)
  PROVE  (\A i \in DOMAIN s : Nested(s[i])) <=> s \in Seq(GoodFrame)
<1>1. ASSUME \A i \in DOMAIN s : Nested(s[i]) PROVE s \in Seq(GoodFrame)
  <2>1. \A i \in 1..Len(s) : s[i] \in GoodFrame
    BY <1>1, LenProperties, ElementOfSeq DEF GoodFrame
  <2>. QED  BY <2>1, LenProperties, SubSeqProperties, SubSeqFull
<1>2. ASSUME s \in Seq(GoodFrame) PROVE \A i \in DOMAIN s : Nested(s[i])
  <2>1. \A i \in 1..Len(s) : s[i] \in GoodFrame
    BY <1>2, ElementOfSeq
  <2>. QED  BY <2>1, LenProperties DEF GoodFrame
<1>. QED  BY <1>1, <1>2

\* Good frames are frames.
LEMMA GoodTyped == ASSUME NEW s \in Seq(GoodFrame) PROVE s \in Seq(Frame)
  BY SeqMonotonic DEF GoodFrame

LEMMA StackIsGood == ASSUME ScriptsInv PROVE stack \in Seq(GoodFrame)
  BY GoodStack DEF ScriptsInv, BlocksNest, ScriptTypeOK

\* The program that is read has a good frame, and is counted.
LEMMA TopGood ==
  ASSUME ScriptsInv, Running
  PROVE  /\ Top \in GoodFrame /\ Level \in Levels /\ Level \in 0..Level
         /\ Len(stack) \in Nat \ {0} /\ call_level \in 1..MaxCall
<1>1. stack \in Seq(GoodFrame) /\ Len(stack) \in Nat \ {0}
  BY StackIsGood, EmptySeq DEF Running
<1>2. Top \in GoodFrame
  BY <1>1, ElementOfSeq DEF Top
<1>3. call_level \in 1..MaxCall
  BY <1>1, ScriptsAssumption DEF ScriptsInv, BlocksNest, LeavesClean, ScriptTypeOK
<1>. QED  BY <1>1, <1>2, <1>3, ScriptsAssumption DEF GoodFrame, Frame, Level, Levels

\* A line that leaves a good frame leaves a good stack of the same height.
LEMMA NowGood ==
  ASSUME ScriptsInv, Running, NEW f \in GoodFrame
  PROVE  Now(f) \in Seq(GoodFrame) /\ Len(Now(f)) = Len(stack)
<1>1. stack \in Seq(GoodFrame) /\ Len(stack) \in 1..Len(stack)
  BY StackIsGood, TopGood
<1>. QED  BY <1>1, ExceptSeq DEF Now

\* A program that ends leaves the activations below it as they were.
LEMMA PoppedGood ==
  ASSUME ScriptsInv, Running
  PROVE  Popped \in Seq(GoodFrame) /\ Len(Popped) = Len(stack) - 1
<1>1. stack \in Seq(GoodFrame) /\ Len(stack) \in Nat \ {0}
  BY StackIsGood, TopGood
<1>2. PICK k \in Nat : Len(stack) = k + 1
  BY <1>1
<1>3. \A i \in 1..k : stack[i] \in GoodFrame
  BY <1>1, <1>2, ElementOfSeq
<1>4. SubSeq(stack, 1, k) \in Seq(GoodFrame)
  BY <1>3, SubSeqProperties
<1>5. Len(SubSeq(stack, 1, k)) = k
  BY <1>3, SubSeqProperties
<1>6. Len(stack) - 1 = k
  BY <1>2
<1>. QED  BY <1>4, <1>5, <1>6 DEF Popped

\* A call or a trigger puts a good frame on top.
LEMMA StartsGood ==
  ASSUME ScriptTypeOK, NEW b \in Seq(GoodFrame), Len(b) = Len(stack), Starts(b)
  PROVE  /\ stack' \in Seq(GoodFrame) /\ Len(stack') = Len(stack) + 1
         /\ call_level' = call_level + 1 /\ call_level' \in 0..MaxCall
<1>1. PICK s \in (Mob \cap living) \cup Thing, c \in living \cup {Null} :
        stack' = Append(b, NewFrame(s, c))
  BY DEF Starts
<1>2. NewFrame(s, c) \in Frame
  BY ScriptsAssumption DEF NewFrame, Frame, Levels, Self, ScriptTypeOK
<1>3. Nested(NewFrame(s, c))
  BY ScriptsAssumption DEF NewFrame, Nested, Levels
<1>4. NewFrame(s, c) \in GoodFrame
  BY <1>2, <1>3 DEF GoodFrame
<1>5. stack' \in Seq(GoodFrame) /\ Len(stack') = Len(b) + 1
  BY <1>1, <1>4
<1>6. call_level' = call_level + 1 /\ call_level' \in 0..MaxCall
  BY ScriptsAssumption DEF Starts, ScriptTypeOK
<1>. QED  BY <1>5, <1>6

-----------------------------------------------------------------------------
(* What lines make of a frame *)

\* "if" opens a block one level deeper: with the outcome e of its condition where the
\* block around is carried out, and with FALSE where it is not.
LEMMA IfGood ==
  ASSUME NEW f \in GoodFrame, f.level + 1 < MaxNested, NEW e \in BOOLEAN,
         e => f.cond[f.level], NEW g \in Frame,
         g.level = f.level + 1,
         \A l \in Levels : l # f.level + 1 => g.cond[l] = f.cond[l],
         g.cond[f.level + 1] = e,
         \A l \in Levels \ {f.level, f.level + 1} : g.state[l] = f.state[l],
         g.state[f.level] = "begin", g.state[f.level + 1] # "begin"
  PROVE  g \in GoodFrame
<1>1. f.level \in Nat /\ f.level + 1 \in Levels /\ 0 \in Levels
  BY ScriptsAssumption DEF GoodFrame, Frame, Levels
<1>2. g.cond[0]
  BY <1>1 DEF GoodFrame, Nested
<1>3. \A l \in Levels : g.state[l] = "begin" <=> l < g.level
  BY <1>1 DEF GoodFrame, Nested, Levels
<1>4. ASSUME NEW l \in 1..g.level, g.cond[l] PROVE g.cond[l - 1]
  <2>1. CASE l = f.level + 1
    BY <1>1, <1>4, <2>1, ScriptsAssumption DEF Levels
  <2>2. CASE l # f.level + 1
    <3>1. l \in 1..f.level /\ l \in Levels /\ l - 1 \in Levels
      BY <1>1, <2>2, ScriptsAssumption DEF Levels
    <3>2. f.cond[l] => f.cond[l - 1]
      BY <3>1 DEF GoodFrame, Nested
    <3>. QED  BY <1>1, <1>4, <2>2, <3>1, <3>2
  <2>. QED  BY <2>1, <2>2
<1>. QED  BY <1>2, <1>3, <1>4 DEF GoodFrame, Nested

\* "or", "and", "else" and commands change the innermost block alone, and turn it on only
\* where the block around is carried out.
LEMMA InnerGood ==
  ASSUME NEW f \in GoodFrame, NEW g \in Frame, g.level = f.level,
         \A l \in Levels \ {f.level} : g.cond[l] = f.cond[l] /\ g.state[l] = f.state[l],
         g.state[f.level] # "begin",
         f.level = 0 => g.cond[0],
         f.level > 0 /\ g.cond[f.level] => f.cond[f.level - 1]
  PROVE  g \in GoodFrame
<1>1. f.level \in Levels /\ 0 \in Levels
  BY ScriptsAssumption DEF GoodFrame, Frame, Levels
<1>2. g.cond[0]
  BY <1>1 DEF GoodFrame, Nested
<1>3. \A l \in Levels : g.state[l] = "begin" <=> l < g.level
  BY <1>1 DEF GoodFrame, Nested, Levels
<1>4. ASSUME NEW l \in 1..g.level, g.cond[l] PROVE g.cond[l - 1]
  <2>1. l \in Levels /\ l - 1 \in Levels \ {f.level}
    BY <1>1, ScriptsAssumption DEF Levels
  <2>2. l # f.level /\ f.cond[l] => f.cond[l - 1]
    BY <1>1 DEF GoodFrame, Nested
  <2>. QED  BY <1>1, <1>4, <2>1, <2>2 DEF Levels
<1>. QED  BY <1>2, <1>3, <1>4 DEF GoodFrame, Nested

\* "endif" closes the innermost block, and what is left beyond the level does not matter.
LEMMA EndifGood ==
  ASSUME NEW f \in GoodFrame, f.level > 0, NEW g \in Frame, g.level = f.level - 1,
         \A l \in Levels \ {f.level} : g.cond[l] = f.cond[l],
         \A l \in Levels \ {f.level, f.level - 1} : g.state[l] = f.state[l],
         g.state[f.level] # "begin", g.state[f.level - 1] # "begin"
  PROVE  g \in GoodFrame
<1>1. f.level \in Levels /\ f.level - 1 \in Levels /\ 0 \in Levels
  BY ScriptsAssumption DEF GoodFrame, Frame, Levels
<1>2. g.cond[0]
  BY <1>1 DEF GoodFrame, Nested
<1>3. \A l \in Levels : g.state[l] = "begin" <=> l < g.level
  BY <1>1 DEF GoodFrame, Nested, Levels
<1>4. ASSUME NEW l \in 1..g.level, g.cond[l] PROVE g.cond[l - 1]
  <2>1. l \in 1..f.level /\ l \in Levels \ {f.level} /\ l - 1 \in Levels \ {f.level}
    BY <1>1, ScriptsAssumption DEF Levels
  <2>2. f.cond[l] => f.cond[l - 1]
    BY <2>1 DEF GoodFrame, Nested
  <2>. QED  BY <1>4, <2>1, <2>2
<1>. QED  BY <1>2, <1>3, <1>4 DEF GoodFrame, Nested

-----------------------------------------------------------------------------
(* The steps *)

\* A line that ends no program and leaves a good frame keeps the invariant.
LEMMA LineKeeps ==
  ASSUME ScriptsInv, Running, NEW f \in GoodFrame, stack' = Now(f), Goes,
         Show_output' \in BOOLEAN, target' \in [Self -> Char \cup {Null}],
         living' \subseteq Char
  PROVE  ScriptsInv'
<1>1. stack' \in Seq(GoodFrame) /\ Len(stack') = Len(stack) /\ Len(stack) # 0
  BY NowGood, TopGood
<1>2. stack' # <<>>
  BY <1>1, EmptySeq
<1>3. ScriptTypeOK'
  BY <1>1, GoodTyped DEF ScriptsInv, BlocksNest, ScriptTypeOK, Goes
<1>4. LeavesClean'
  BY <1>1, <1>2 DEF ScriptsInv, LeavesClean, Running, Goes
<1>5. BlocksNest'
  BY <1>1, <1>3, GoodTyped, GoodStack DEF BlocksNest
<1>. QED  BY <1>4, <1>5 DEF ScriptsInv

\* A program that ends, with its level of calls or without, keeps it, too.
LEMMA EndsKeep ==
  ASSUME ScriptsInv, Running, stack' = Popped, UNCHANGED world,
         Show_output' \in BOOLEAN, cut' \in BOOLEAN, Show_output' \/ cut',
         \/ call_level' = call_level - 1 /\ lost' = lost
         \/ call_level' = call_level /\ lost' = lost + 1
  PROVE  ScriptsInv'
<1>1. stack' \in Seq(GoodFrame) /\ Len(stack') = Len(stack) - 1
  BY PoppedGood
<1>2. ScriptTypeOK'
  <2>1. stack' \in Seq(Frame)
    BY <1>1, GoodTyped
  <2>2. call_level' \in 0..MaxCall /\ lost' \in Nat
    BY TopGood, ScriptsAssumption DEF ScriptsInv, BlocksNest, ScriptTypeOK
  <2>. QED  BY <2>1, <2>2 DEF ScriptsInv, BlocksNest, ScriptTypeOK, world
<1>3. BlocksNest'
  BY <1>1, <1>2, GoodTyped, GoodStack DEF BlocksNest
<1>4. LeavesClean'
  BY <1>1, TopGood DEF ScriptsInv, BlocksNest, LeavesClean, ScriptTypeOK
<1>. QED  BY <1>3, <1>4 DEF ScriptsInv

\* A new program on a good stack of the same height keeps it.
LEMMA StartKeeps ==
  ASSUME ScriptsInv, NEW b \in Seq(GoodFrame), Len(b) = Len(stack), Starts(b),
         UNCHANGED <<Show_output, lost, cut>>
  PROVE  ScriptsInv'
<1>1. /\ stack' \in Seq(GoodFrame) /\ Len(stack') = Len(stack) + 1
      /\ call_level' = call_level + 1 /\ call_level' \in 0..MaxCall
  BY StartsGood DEF ScriptsInv, BlocksNest
<1>2. Len(stack) \in Nat /\ stack' # <<>>
  BY <1>1, StackIsGood, LenProperties, EmptySeq
<1>3. ScriptTypeOK'
  BY <1>1, GoodTyped DEF ScriptsInv, BlocksNest, ScriptTypeOK, Starts, world
<1>4. BlocksNest'
  BY <1>1, <1>3, GoodTyped, GoodStack DEF BlocksNest
<1>5. LeavesClean'
  BY <1>1, <1>2 DEF ScriptsInv, BlocksNest, LeavesClean, ScriptTypeOK, Running
<1>. QED  BY <1>4, <1>5 DEF ScriptsInv

\* Characters that come, go, are remembered and forgotten are characters.
LEMMA LivesTyped ==
  ASSUME ScriptTypeOK, Lives
  PROVE  target' \in [Self -> Char \cup {Null}] /\ living' \subseteq Char
<1>1. CASE \E S \in SUBSET living : Extract(S)
  BY <1>1 DEF Extract, Forgotten, ScriptTypeOK
<1>2. CASE \E p \in PC, pets \in SUBSET Mob : QuitGame(p, pets)
  BY <1>2 DEF QuitGame, Forgotten, ScriptTypeOK
<1>3. CASE \E c \in Char : Create(c)
  BY <1>3 DEF Create, ScriptTypeOK, Self, Char
<1>. QED  BY <1>1, <1>2, <1>3 DEF Lives

LEMMA AsksTyped ==
  ASSUME ScriptsInv, Running, Evaluates \/ Remembers
  PROVE  target' \in [Self -> Char \cup {Null}] /\ living' \subseteq Char
<1>1. Top.self \in Self /\ Top.ch \in Char \cup {Null}
  BY TopGood DEF GoodFrame, Frame
<1>. QED  BY <1>1 DEF Evaluates, Remembers, ScriptsInv, BlocksNest, ScriptTypeOK

\* The frame that a line begins with, in terms of Top and Level.
LEMMA TopParts ==
  ASSUME ScriptsInv, Running
  PROVE  /\ Top \in GoodFrame /\ Top \in Frame /\ Level = Top.level
         /\ Level \in Levels /\ Level \in Nat /\ 0 \in Levels
         /\ \A l \in Levels : Top.state[l] = "begin" <=> l < Level
         /\ Level > 0 => Level - 1 \in Levels
  BY TopGood, ScriptsAssumption DEF GoodFrame, Frame, Nested, Level, Levels

LEMMA IfKeeps == ASSUME ScriptsInv, If PROVE ScriptsInv'
<1>1. Running /\ Level + 1 < MaxNested
  BY DEF If
<1>2. /\ Level \in Levels /\ Level \in Nat /\ Top \in GoodFrame /\ Top \in Frame
      /\ Level = Top.level /\ \A l \in Levels : Top.state[l] = "begin" <=> l < Level
  BY <1>1, TopParts
<1>3. Level + 1 \in Levels
  BY <1>1, <1>2, ScriptsAssumption DEF Levels
<1>4. ASSUME NEW e \in BOOLEAN, e => Top.cond[Level]
      PROVE  /\ [Opened EXCEPT !.cond[Level + 1] = e] \in GoodFrame
             /\ [Opened EXCEPT !.cond[Level + 1] = e, !.state[Level + 1] = "end"] \in GoodFrame
  <2>. DEFINE f == [Opened EXCEPT !.cond[Level + 1] = e]
              g == [Opened EXCEPT !.cond[Level + 1] = e, !.state[Level + 1] = "end"]
  <2>1. f \in Frame /\ g \in Frame
    BY <1>2, <1>3 DEF Opened, Frame
  <2>2. /\ f.level = Level + 1 /\ g.level = Level + 1
        /\ \A l \in Levels : l # Level + 1 => f.cond[l] = Top.cond[l] /\ g.cond[l] = Top.cond[l]
        /\ f.cond[Level + 1] = e /\ g.cond[Level + 1] = e
    BY <1>2, <1>3 DEF Opened, Frame
  <2>3. /\ \A l \in Levels \ {Level, Level + 1} :
             f.state[l] = Top.state[l] /\ g.state[l] = Top.state[l]
        /\ f.state[Level] = "begin" /\ g.state[Level] = "begin"
        /\ f.state[Level + 1] # "begin" /\ g.state[Level + 1] # "begin"
    BY <1>2, <1>3 DEF Opened, Frame
  <2>. HIDE DEF f, g
  <2>4. f \in GoodFrame
    BY <1>1, <1>2, <1>4, <2>1, <2>2, <2>3, IfGood
  <2>5. g \in GoodFrame
    BY <1>1, <1>2, <1>4, <2>1, <2>2, <2>3, IfGood
  <2>. QED  BY <2>4, <2>5 DEF f, g
<1>5. CASE ~Top.cond[Level] /\ stack' = Now([Opened EXCEPT !.cond[Level + 1] = FALSE])
           /\ UNCHANGED world
  <2>1. [Opened EXCEPT !.cond[Level + 1] = FALSE] \in GoodFrame
    BY <1>4
  <2>. QED  BY <1>1, <1>5, <2>1, LineKeeps
            DEF If, world, ScriptsInv, BlocksNest, ScriptTypeOK
<1>6. CASE Top.cond[Level] /\ Evaluates /\ \E e \in BOOLEAN :
             stack' = Now([Opened EXCEPT !.cond[Level + 1] = e, !.state[Level + 1] = "end"])
  <2>1. PICK e \in BOOLEAN :
          stack' = Now([Opened EXCEPT !.cond[Level + 1] = e, !.state[Level + 1] = "end"])
    BY <1>6
  <2>2. [Opened EXCEPT !.cond[Level + 1] = e, !.state[Level + 1] = "end"] \in GoodFrame
    BY <1>4, <1>6
  <2>. QED  BY <1>1, <1>6, <2>1, <2>2, LineKeeps, AsksTyped
            DEF If, ScriptsInv, BlocksNest, ScriptTypeOK
<1>. QED  BY <1>5, <1>6 DEF If

LEMMA OrAndKeeps == ASSUME ScriptsInv, OrAnd PROVE ScriptsInv'
<1>1. Running /\ InIf /\ ~Dead
  BY DEF OrAnd
<1>2. PICK e \in BOOLEAN : stack' = Now([Top EXCEPT !.cond[Level] = e])
  BY DEF OrAnd
<1>. DEFINE g == [Top EXCEPT !.cond[Level] = e]
<1>3. /\ g \in Frame /\ g.level = Level /\ g.state = Top.state
      /\ \A l \in Levels \ {Level} : g.cond[l] = Top.cond[l]
  BY <1>1, TopParts DEF Frame
<1>4. g.state[Level] # "begin"
  BY <1>1, <1>3, TopParts
<1>5. Level > 0 /\ Top.cond[Level - 1]
  BY <1>1 DEF InIf, Dead
<1>. HIDE DEF g
<1>6. g \in GoodFrame
  BY <1>1, <1>3, <1>4, <1>5, TopParts, InnerGood
<1>7. stack' = Now(g)
  BY <1>2 DEF g
<1>. QED  BY <1>1, <1>6, <1>7, LineKeeps, AsksTyped DEF OrAnd, ScriptsInv, BlocksNest, ScriptTypeOK

LEMMA ElseKeeps == ASSUME ScriptsInv, Else PROVE ScriptsInv'
<1>1. Running /\ InIf /\ ~Dead
  BY DEF Else
<1>. DEFINE g == [Top EXCEPT !.state[Level] = "in", !.cond[Level] = ~@]
<1>2. /\ g \in Frame /\ g.level = Level /\ g.state[Level] = "in"
      /\ \A l \in Levels \ {Level} : g.cond[l] = Top.cond[l] /\ g.state[l] = Top.state[l]
  BY <1>1, TopParts DEF Frame
<1>3. Level > 0 /\ Top.cond[Level - 1]
  BY <1>1 DEF InIf, Dead
<1>4. stack' = Now(g)
  BY DEF Else
<1>. HIDE DEF g
<1>5. g \in GoodFrame
  BY <1>1, <1>2, <1>3, TopParts, InnerGood
<1>. QED  BY <1>1, <1>4, <1>5, LineKeeps DEF Else, world, ScriptsInv, BlocksNest, ScriptTypeOK

LEMMA EndifKeeps == ASSUME ScriptsInv, Endif PROVE ScriptsInv'
<1>1. Running /\ InIf /\ Level > 0
  BY DEF Endif, InIf
<1>. DEFINE g == [Top EXCEPT !.cond[Level] = TRUE,
                             !.state = [@ EXCEPT ![Level] = "in", ![Level - 1] = "end"],
                             !.level = Level - 1]
<1>2. /\ g \in Frame /\ g.level = Level - 1
      /\ g.state[Level] # "begin" /\ g.state[Level - 1] # "begin"
      /\ \A l \in Levels \ {Level} : g.cond[l] = Top.cond[l]
      /\ \A l \in Levels \ {Level, Level - 1} : g.state[l] = Top.state[l]
  BY <1>1, TopParts DEF Frame
<1>3. stack' = Now(g)
  BY DEF Endif
<1>. HIDE DEF g
<1>4. g \in GoodFrame
  BY <1>1, <1>2, TopParts, EndifGood
<1>. QED  BY <1>1, <1>3, <1>4, LineKeeps DEF Endif, world, ScriptsInv, BlocksNest, ScriptTypeOK

LEMMA ShowKeeps == ASSUME ScriptsInv, Output PROVE ScriptsInv'
<1>1. ScriptTypeOK'
  BY DEF Output, Goes, world, ScriptsInv, BlocksNest, ScriptTypeOK
<1>. QED  BY <1>1 DEF Output, Goes, Running, ScriptsInv, BlocksNest, LeavesClean

LEMMA EndingsKeep ==
  ASSUME ScriptsInv, Break \/ Ends \/ Refused \/ Malformed PROVE ScriptsInv'
<1>. Show_output \in BOOLEAN
  BY DEF ScriptsInv, BlocksNest, ScriptTypeOK
<1>1. CASE Break
  BY <1>1, EndsKeep DEF Break, Returns
<1>2. CASE Ends
  BY <1>2, EndsKeep DEF Ends, Returns
<1>3. CASE Refused
  BY <1>3, EndsKeep DEF Refused, Returns
<1>4. CASE Malformed
  BY <1>4, EndsKeep DEF Malformed, GivesUp, world
<1>. QED  BY <1>1, <1>2, <1>3, <1>4

LEMMA CommandKeeps == ASSUME ScriptsInv, Command PROVE ScriptsInv'
<1>1. Running /\ Carried /\ UNCHANGED <<Show_output, lost, cut>>
  BY DEF Command
<1>. DEFINE g == [Top EXCEPT !.state[Level] = "in"]
<1>2. /\ g \in Frame /\ g.level = Level /\ g.cond = Top.cond /\ g.state[Level] = "in"
      /\ \A l \in Levels \ {Level} : g.state[l] = Top.state[l]
  BY <1>1, TopParts DEF Frame
<1>3. \/ stack' = Now(g) /\ (Lives \/ Remembers \/ UNCHANGED world) /\ UNCHANGED call_level
      \/ Starts(Now(g))
  BY DEF Command
<1>. HIDE DEF g
<1>4. Top.cond[0] /\ (Level > 0 /\ Top.cond[Level] => Top.cond[Level - 1])
  BY <1>1, TopParts DEF GoodFrame, Nested
<1>5. g \in GoodFrame
  BY <1>1, <1>2, <1>4, TopParts, InnerGood
<1>6. CASE stack' = Now(g) /\ (Lives \/ Remembers \/ UNCHANGED world) /\ UNCHANGED call_level
  <2>1. target' \in [Self -> Char \cup {Null}] /\ living' \subseteq Char
    BY <1>1, <1>6, LivesTyped, AsksTyped DEF world, ScriptsInv, BlocksNest, ScriptTypeOK
  <2>. QED  BY <1>1, <1>5, <1>6, <2>1, LineKeeps DEF Goes, ScriptsInv, BlocksNest, ScriptTypeOK
<1>7. CASE Starts(Now(g))
  BY <1>1, <1>5, <1>7, NowGood, StartKeeps
<1>. QED  BY <1>3, <1>6, <1>7

LEMMA OutsideKeeps == ASSUME ScriptsInv, Outside PROVE ScriptsInv'
<1>1. CASE Lives /\ UNCHANGED <<stack, call_level>>
  <2>1. ScriptTypeOK'
    BY <1>1, LivesTyped DEF Outside, ScriptsInv, BlocksNest, ScriptTypeOK
  <2>. QED  BY <1>1, <2>1 DEF Outside, Running, ScriptsInv, BlocksNest, LeavesClean
<1>2. CASE Starts(stack)
  BY <1>2, StackIsGood, StartKeeps DEF Outside
<1>. QED  BY <1>1, <1>2 DEF Outside

LEMMA StepKeeps == ASSUME ScriptsInv, [ScriptNext]_scriptVars PROVE ScriptsInv'
<1>1. CASE UNCHANGED scriptVars
  BY <1>1 DEF scriptVars, world, Running, ScriptsInv, BlocksNest, LeavesClean, ScriptTypeOK
<1>. QED
  BY <1>1, IfKeeps, OrAndKeeps, ElseKeeps, EndifKeeps, ShowKeeps, EndingsKeep,
     CommandKeeps, OutsideKeeps DEF ScriptNext

-----------------------------------------------------------------------------
\* For any number of actors and any depths, whatever the programs say: both parts hold
\* in every state.
THEOREM ScriptsSafe == ScriptSpec => []ScriptsInv
<1>1. ScriptInit => ScriptsInv
  <2>1. ASSUME ScriptInit PROVE ScriptTypeOK
    <3>1. stack \in Seq(Frame)
      BY <2>1, EmptySeq DEF ScriptInit
    <3>2. call_level \in 0..MaxCall /\ lost \in Nat
      BY <2>1, ScriptsAssumption DEF ScriptInit
    <3>3. target \in [Self -> Char \cup {Null}] /\ living \subseteq Char
      BY <2>1 DEF ScriptInit
    <3>4. Show_output \in BOOLEAN /\ cut \in BOOLEAN
      BY <2>1 DEF ScriptInit
    <3>. QED  BY <3>1, <3>2, <3>3, <3>4 DEF ScriptTypeOK
  <2>2. ASSUME ScriptInit PROVE LeavesClean
    <3>1. Len(stack) = 0
      BY <2>2, EmptySeq DEF ScriptInit
    <3>. QED  BY <2>2, <3>1 DEF ScriptInit, LeavesClean
  <2>3. ASSUME ScriptInit PROVE stack \in Seq(GoodFrame)
    BY <2>3, EmptySeq DEF ScriptInit
  <2>. QED  BY <2>1, <2>2, <2>3, GoodTyped, GoodStack DEF ScriptsInv, BlocksNest
<1>2. ScriptsInv /\ [ScriptNext]_scriptVars => ScriptsInv'
  BY StepKeeps
<1>. QED  BY <1>1, <1>2, PTL DEF ScriptSpec

\* The blocks of every program nest at every line.
THEOREM BlocksAlwaysNest == ScriptSpec => []BlocksNest
<1>1. ScriptsInv => BlocksNest
  BY DEF ScriptsInv
<1>. QED  BY <1>1, ScriptsSafe, PTL

\* The calls are counted, but for the malformed programs, and silence has an author.
THEOREM AlwaysLeavesClean == ScriptSpec => []LeavesClean
<1>1. ScriptsInv => LeavesClean
  BY DEF ScriptsInv
<1>. QED  BY <1>1, ScriptsSafe, PTL
-----------------------------------------------------------------------------
(* Who is remembered *)

\* The one way in which each thing that happens to characters and pointers makes h stale.
StaleBy(h) ==
    \/ h \in Thing
    \/ \E p \in PC, pets \in SUBSET Mob : QuitGame(p, pets) /\ target[h] = p
    \/ Running /\ h = Top.self /\ Top.ch = target'[h] /\ Top.ch \notin living

LEMMA LivesStale ==
  ASSUME ScriptTypeOK, Lives, NEW h \in Stale' \ Stale PROVE StaleBy(h)
<1>. SUFFICES ASSUME h \notin Thing PROVE StaleBy(h)
  BY DEF StaleBy
<1>1. /\ h \in Mob \cap living' /\ target'[h] \notin living' \cup {Null}
      /\ h \in living => target[h] \in living \cup {Null}
  BY DEF Stale
<1>2. h \in Self
  BY <1>1 DEF Self
<1>3. CASE \E S \in SUBSET living : Extract(S)
  BY <1>1, <1>2, <1>3 DEF Extract, Forgotten
<1>4. CASE \E p \in PC, pets \in SUBSET Mob : QuitGame(p, pets)
  <2>1. PICK p \in PC, pets \in SUBSET Mob : QuitGame(p, pets)
    BY <1>4
  <2>2. target[h] = p
    BY <1>1, <1>2, <2>1 DEF QuitGame, Forgotten
  <2>. QED  BY <2>1, <2>2 DEF StaleBy
<1>5. CASE \E c \in Char : Create(c)
  BY <1>1, <1>2, <1>5 DEF Create, ScriptTypeOK
<1>. QED  BY <1>3, <1>4, <1>5 DEF Lives

LEMMA AsksStale ==
  ASSUME ScriptTypeOK, Running, Evaluates \/ Remembers, NEW h \in Stale' \ Stale PROVE StaleBy(h)
<1>. SUFFICES ASSUME h \notin Thing PROVE StaleBy(h)
  BY DEF StaleBy
<1>1. /\ h \in Mob \cap living' /\ target'[h] \notin living' \cup {Null}
      /\ h \in living => target[h] \in living \cup {Null}
  BY DEF Stale
<1>2. h \in Self /\ living' = living
  BY <1>1 DEF Self, Evaluates, Remembers
<1>3. h = Top.self /\ target'[h] = Top.ch
  BY <1>1, <1>2 DEF Evaluates, Remembers, ScriptTypeOK
<1>. QED  BY <1>1, <1>2, <1>3 DEF StaleBy

\* Who is remembered and has left the world is one of those that StaleOnlyBy names.
THEOREM StaleFewWays == ScriptSpec => StaleOnlyBy
<1>1. ASSUME ScriptsInv, [ScriptNext]_scriptVars, NEW h \in Stale' \ Stale PROVE StaleBy(h)
  <2>1. ScriptTypeOK
    BY <1>1 DEF ScriptsInv, BlocksNest
  <2>2. CASE UNCHANGED world
    BY <1>1, <2>2 DEF Stale, world
  <2>3. CASE Running /\ (Evaluates \/ Remembers)
    BY <1>1, <2>1, <2>3, AsksStale
  <2>4. CASE Lives
    BY <1>1, <2>1, <2>4, LivesStale
  <2>5. UNCHANGED world \/ (Running /\ (Evaluates \/ Remembers)) \/ Lives
    BY <1>1 DEF ScriptNext, scriptVars, If, OrAnd, Else, Endif, Output, Break, Ends, Refused, Malformed,
       Command, Outside, Returns, GivesUp, Starts
  <2>. QED  BY <2>2, <2>3, <2>4, <2>5
<1>2. ScriptsInv /\ [ScriptNext]_scriptVars =>
        [\A h \in Stale' \ Stale :
           \/ h \in Thing
           \/ \E p \in PC, pets \in SUBSET Mob : QuitGame(p, pets) /\ target[h] = p
           \/ Running /\ h = Top.self /\ Top.ch = target'[h] /\ Top.ch \notin living]_scriptVars
  BY <1>1 DEF StaleBy
<1>. QED  BY <1>2, ScriptsSafe, PTL DEF ScriptSpec, StaleOnlyBy
=============================================================================
