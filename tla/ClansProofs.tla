---------------------------- MODULE ClansProofs ----------------------------
(***************************************************************************)
(* All that the runs check of Clans, for any number of players and clans.  *)
(*                                                                         *)
(* Diplomacy and membership meet nowhere but in NoCivilWar: the first      *)
(* rests on Peaceful, the second on the types and on Settled.              *)
(***************************************************************************)
EXTENDS Clans, FiniteSetTheorems, TLAPS

\* No clan is at war with an ally it has named, or with itself.
Peaceful == \A t \in war : t \notin ally /\ t[1] # t[2]

\* Who is in a clan has agreed to nothing.
Settled == \A p \in Player : clan[p] \in Real \cap valid => ready[p] = None

ClanInv == TypeOK /\ Settled

-----------------------------------------------------------------------------
(* War *)

LEMMA InitPeaceful == Init => Peaceful
  BY DEF Init, Peaceful

\* Each declaration asks for what the other kind has left.
LEMMA DiplomacyPeaceful ==
  ASSUME Peaceful, NEW c, NEW d, Ally(c, d) \/ War(c, d) \/ Peace(c, d), c \in Clan
  PROVE  Peaceful'
<1>1. CASE Ally(c, d)
  <2>1. war' = war /\ ally' \subseteq ally \cup {<<c, d>>}
    BY <1>1 DEF Ally
  <2>2. <<c, d>> \in ally' => <<c, d>> \notin war
    BY <1>1 DEF Ally, InWar, Peaceful
  <2>. QED  BY <2>1, <2>2 DEF Peaceful
<1>2. CASE War(c, d)
  BY <1>2 DEF War, Peaceful
<1>3. CASE Peace(c, d)
  BY <1>3 DEF Peace, Peaceful
<1>. QED  BY <1>1, <1>2, <1>3

\* All else leaves the flags alone, or clears some.
LEMMA StepPeaceful == ASSUME Peaceful, [Next]_vars PROVE Peaceful'
<1>1. CASE \E by \in Player, c \in Clan, d \in Clan : Diplomacy(by, c, d)
  BY <1>1, DiplomacyPeaceful DEF Diplomacy
<1>2. CASE Reboot
  BY <1>2 DEF Reboot, Peaceful
<1>3. CASE UNCHANGED <<war, ally>>
  BY <1>3 DEF Peaceful
<1>. QED
  BY <1>1, <1>2, <1>3 DEF Next, vars, table, players, Enter, Accept, Joins, Expel, Grow, Shrink,
     Delete, AtheistDies, NameMaster, NameDeputy, DropDeputy, DeleteClan, SaveClans, Save, Quit,
     Login, ReadFile, SaveBack, LoginBy

\* Whatever is declared, a clan has no enemy in itself.
LEMMA NoWarWithin == ASSUME Peaceful, NEW c PROVE ~InWar(c, c)
  BY DEF Peaceful, InWar, Mutual

\* Nobody attacks one of his own clan on sight.
THEOREM NoCivilWarEver == Spec => []NoCivilWar
<1>1. Peaceful => NoCivilWar
  BY NoWarWithin DEF NoCivilWar, Enemies
<1>. QED  BY InitPeaceful, StepPeaceful, <1>1, PTL DEF Spec

-----------------------------------------------------------------------------
(* Types *)

LEMMA CountedTyped ==
  ASSUME count \in [Real -> Int], NEW c, NEW n \in Int
  PROVE  Counted(c, n) \in [Real -> Int]
  BY DEF Counted

LEMMA InitTyped == Init => ClanInv
<1>. SUFFICES ASSUME Init PROVE ClanInv
  OBVIOUS
<1>1. \A c \in Real : Cardinality({p \in Player : clan[p] = c}) \in Int
  <2>. TAKE c \in Real
  <2>1. IsFiniteSet({p \in Player : clan[p] = c})
    BY ClansAssumption, FS_Subset
  <2>. QED  BY <2>1, FS_CardinalityType
<1>2. count \in [Real -> Int]
  BY <1>1 DEF Init
<1>. QED  BY <1>2, ClansAssumption DEF Init, ClanInv, TypeOK, Settled, Line

LEMMA MembersTyped ==
  ASSUME ClanInv, NEW p \in Player,
         \/ \E c \in Clan : Enter(p, c) \/ Accept(p, c)
         \/ \E by \in Player \cup {None} : Expel(by, p)
         \/ Grow(p) \/ Shrink(p)
  PROVE  ClanInv'
<1>. USE ClansAssumption DEF ClanInv, TypeOK, Rare, Line
<1>1. ASSUME NEW c \in Clan, Enter(p, c) PROVE ClanInv'
  BY <1>1 DEF Enter, IsClan, Settled, Real, table
<1>2. ASSUME NEW c \in Clan, Accept(p, c) PROVE ClanInv'
  <2>1. count' \in [Real -> Int]
    BY <1>2, CountedTyped DEF Accept, Joins
  <2>2. rare' \in 0..MaxRare /\ boots' \in 0..rare'
    BY <1>2 DEF Accept
  <2>. QED  BY <1>2, <2>1, <2>2 DEF Accept, Joins, Settled
<1>3. ASSUME NEW by \in Player \cup {None}, Expel(by, p) PROVE ClanInv'
  <2>1. count' \in [Real -> Int]
    BY <1>3, CountedTyped DEF Expel
  <2>2. rare' \in 0..MaxRare /\ boots' \in 0..rare'
    BY <1>3 DEF Expel
  <2>. QED  BY <1>3, <2>1, <2>2 DEF Expel, Expelled, Free, Settled, Real
<1>4. ASSUME Grow(p) PROVE ClanInv'
  BY <1>4 DEF Grow, Free, Settled, Real, table
<1>5. ASSUME Shrink(p) PROVE ClanInv'
  <2>1. count' \in [Real -> Int]
    BY <1>5, CountedTyped DEF Shrink
  <2>. QED  BY <1>5, <2>1 DEF Shrink, Settled, Real
<1>. QED  BY <1>1, <1>2, <1>3, <1>4, <1>5

LEMMA DeathsTyped ==
  ASSUME ClanInv, NEW p \in Player,
         Delete(p) \/ (\E b \in BOOLEAN : AtheistDies(p, b) \/ Login(p, b)) \/ Save(p) \/ Quit(p)
  PROVE  ClanInv'
<1>. USE ClansAssumption DEF ClanInv, TypeOK, Rare, Line
<1>1. ASSUME Delete(p) PROVE ClanInv'
  <2>1. count' \in [Real -> Int]
    BY <1>1, CountedTyped DEF Delete
  <2>. QED  BY <1>1, <2>1 DEF Delete, Unlinked, Settled, Real
<1>2. ASSUME NEW b \in BOOLEAN, AtheistDies(p, b) PROVE ClanInv'
  <2>1. count' \in [Real -> Int]
    BY <1>2, CountedTyped DEF AtheistDies
  <2>2. rare' \in 0..MaxRare /\ boots' \in 0..rare'
    BY <1>2 DEF AtheistDies
  <2>. QED  BY <1>2, <2>1, <2>2 DEF AtheistDies, Unlinked, Settled, Real, players
<1>3. ASSUME NEW b \in BOOLEAN, Login(p, b) PROVE ClanInv'
  BY <1>3 DEF Login, Enters, Free, Settled, Real, table
<1>4. ASSUME Save(p) PROVE ClanInv'
  BY <1>4 DEF Save, Written, Settled, Real, table
<1>5. ASSUME Quit(p) PROVE ClanInv'
  BY <1>5 DEF Quit, Written, Settled, Real, table
<1>. QED  BY <1>1, <1>2, <1>3, <1>4, <1>5

\* A connection and the file of p.
LEMMA LoginsTyped ==
  ASSUME ClanInv, NEW d \in Conn,
         \/ \E p \in Player : ReadFile(d, p)
         \/ SaveBack(d) \/ \E b \in BOOLEAN : LoginBy(d, b)
  PROVE  ClanInv'
<1>. USE ClansAssumption DEF ClanInv, TypeOK, Rare, Line, table
<1>1. ASSUME NEW p \in Player, ReadFile(d, p) PROVE ClanInv'
  <2>1. copy' \in [Conn -> Copy \cup {None}]
    BY <1>1 DEF ReadFile, Copy
  <2>. QED  BY <1>1, <2>1 DEF ReadFile, Settled
<1>2. ASSUME SaveBack(d) PROVE ClanInv'
  <2>. DEFINE p == copy[d].of
              c == Written(copy[d].clan)
  <2>1. p \in Player /\ c \in Line \ {NoFile}
    BY <1>2 DEF SaveBack, Copy, Written
  <2>2. /\ file' = [file EXCEPT ![p] = c]
        /\ clan' = IF p \in playing THEN clan ELSE [clan EXCEPT ![p] = c]
        /\ copy' = [copy EXCEPT ![d] = None]
        /\ UNCHANGED <<table, saved, playing, ready, boots, rare>>
    BY <1>2 DEF SaveBack
  <2>. HIDE DEF p, c
  <2>. QED  BY <2>1, <2>2 DEF Settled, Real
<1>3. ASSUME NEW b \in BOOLEAN, LoginBy(d, b) PROVE ClanInv'
  <2>. DEFINE p == copy[d].of
              c == copy[d].clan
              x == Enters(c, b)
  <2>1. p \in Player /\ Written(c) \in Line /\ x \in Line \ {NoFile}
    BY <1>3 DEF LoginBy, Copy, Written, Enters, Free
  <2>2. /\ p \notin playing /\ playing' = playing \cup {p}
        /\ file' = file \/ file' = [file EXCEPT ![p] = Written(c)]
        /\ clan' = [clan EXCEPT ![p] = x]
        /\ copy' = [copy EXCEPT ![d] = None]
        /\ UNCHANGED <<table, saved, ready, boots, rare>>
    BY <1>3 DEF LoginBy
  <2>. HIDE DEF p, c, x
  <2>. QED  BY <2>1, <2>2 DEF Settled, Real
<1>. QED  BY <1>1, <1>2, <1>3

LEMMA LeadersTyped ==
  ASSUME ClanInv, NEW by \in Player \cup {None}, NEW c \in Clan,
         (\E p \in Player : NameMaster(by, c, p) \/ NameDeputy(by, c, p)) \/ DropDeputy(by, c)
  PROVE  ClanInv'
<1>. USE ClansAssumption DEF ClanInv, TypeOK, Rare, TableSaved, players, Settled
<1>1. ASSUME NEW p \in Player, NameMaster(by, c, p) PROVE ClanInv'
  <2>1. rare' \in 0..MaxRare /\ boots' \in 0..rare'
    BY <1>1 DEF NameMaster
  <2>. QED  BY <1>1, <2>1 DEF NameMaster
<1>2. ASSUME NEW p \in Player, NameDeputy(by, c, p) PROVE ClanInv'
  <2>1. rare' \in 0..MaxRare /\ boots' \in 0..rare'
    BY <1>2 DEF NameDeputy
  <2>. QED  BY <1>2, <2>1 DEF NameDeputy
<1>3. ASSUME DropDeputy(by, c) PROVE ClanInv'
  <2>1. rare' \in 0..MaxRare /\ boots' \in 0..rare'
    BY <1>3 DEF DropDeputy
  <2>. QED  BY <1>3, <2>1 DEF DropDeputy
<1>. QED  BY <1>1, <1>2, <1>3

LEMMA ClansTyped ==
  ASSUME ClanInv,
         \/ \E by \in Player, c \in Clan, d \in Clan : Diplomacy(by, c, d)
         \/ \E c \in Clan : DeleteClan(c)
         \/ SaveClans \/ Reboot
  PROVE  ClanInv'
<1>. USE ClansAssumption DEF ClanInv, TypeOK, Rare, TableSaved, players, Settled, table
<1>1. ASSUME NEW by \in Player, NEW c \in Clan, NEW d \in Clan, Diplomacy(by, c, d) PROVE ClanInv'
  <2>1. war' \subseteq Clan \X Clan /\ ally' \subseteq Clan \X Clan
    BY <1>1 DEF Diplomacy, Ally, War, Peace
  <2>. QED  BY <1>1, <2>1 DEF Diplomacy
<1>2. ASSUME NEW c \in Clan, DeleteClan(c) PROVE ClanInv'
  BY <1>2 DEF DeleteClan
<1>3. ASSUME SaveClans PROVE ClanInv'
  BY <1>3 DEF SaveClans
<1>4. ASSUME Reboot PROVE ClanInv'
  BY <1>4 DEF Reboot, Written, Line
<1>. QED  BY <1>1, <1>2, <1>3, <1>4

LEMMA StepTyped == ASSUME ClanInv, [Next]_vars PROVE ClanInv'
<1>1. CASE UNCHANGED vars
  BY <1>1 DEF vars, ClanInv, TypeOK, Settled
<1>. QED  BY <1>1, MembersTyped, DeathsTyped, LoginsTyped, LeadersTyped, ClansTyped DEF Next

\* The types of the clans, their tables and their players.
THEOREM TypesHold == Spec => []TypeOK
<1>1. ClanInv => TypeOK
  BY DEF ClanInv
<1>. QED  BY InitTyped, StepTyped, <1>1, PTL DEF Spec

-----------------------------------------------------------------------------
(* Members *)

\* What one step does to the members of clan c, when it moves p at most.
LEMMA OneMoves ==
  ASSUME TypeOK, NEW p \in Player, NEW x, clan' = [clan EXCEPT ![p] = x], NEW c
  PROVE  Cardinality(Members(c)') - Cardinality(Members(c)) =
           (IF x = c THEN 1 ELSE 0) - (IF clan[p] = c THEN 1 ELSE 0)
<1>. DEFINE N == Members(c) \ {p}
<1>1. IsFiniteSet(N) /\ p \notin N
  BY ClansAssumption, FS_Subset DEF Members
<1>2. Cardinality(N) \in Nat /\ Cardinality(N \cup {p}) = Cardinality(N) + 1
  BY <1>1, FS_CardinalityType, FS_AddElement
<1>3. Members(c) = IF clan[p] = c THEN N \cup {p} ELSE N
  BY DEF Members
<1>4. Members(c)' = IF x = c THEN N \cup {p} ELSE N
  BY DEF Members, TypeOK
<1>. HIDE DEF N
<1>. QED  BY <1>2, <1>3, <1>4

\* The count of clan c goes the way of its members.
Follows(c) == count'[c] - count[c] = Cardinality(Members(c)') - Cardinality(Members(c))

LEMMA NobodyMoves ==
  ASSUME TypeOK, UNCHANGED <<clan, count>>, NEW c \in Real
  PROVE  Follows(c)
<1>1. IsFiniteSet(Members(c)) /\ Members(c)' = Members(c)
  BY ClansAssumption, FS_Subset DEF Members
<1>2. Cardinality(Members(c)) \in Nat
  BY <1>1, FS_CardinalityType
<1>. QED  BY <1>1, <1>2 DEF Follows, TypeOK

\* p leaves clan d, whether it exists or not, and is counted out of it.
LEMMA MovesOut ==
  ASSUME TypeOK, NEW p \in Player, NEW x, NEW c \in Real \cap valid, x # c,
         clan' = [clan EXCEPT ![p] = x],
         count' = Counted(clan[p], -1) \/ (clan[p] # c /\ count' = count)
  PROVE  Follows(c)
<1>1. Cardinality(Members(c)') - Cardinality(Members(c)) = 0 - (IF clan[p] = c THEN 1 ELSE 0)
  BY OneMoves
<1>2. count'[c] = count[c] - (IF clan[p] = c THEN 1 ELSE 0)
  BY DEF Counted, TypeOK
<1>. QED  BY <1>1, <1>2 DEF Follows, TypeOK

\* p stays in clan c or out of it, and is not counted.
LEMMA StaysPut ==
  ASSUME TypeOK, NEW p \in Player, NEW x, NEW c \in Real, (x = c) <=> (clan[p] = c),
         clan' = [clan EXCEPT ![p] = x], count' = count
  PROVE  Follows(c)
<1>1. Cardinality(Members(c)') - Cardinality(Members(c)) =
        (IF x = c THEN 1 ELSE 0) - (IF clan[p] = c THEN 1 ELSE 0)
  BY OneMoves
<1>. QED  BY <1>1 DEF Follows, TypeOK

\* What a connection writes back moves one player, and only from what is not in his file.
LEMMA OldFile ==
  ASSUME ClanInv, NEW d \in Conn, SaveBack(d) \/ \E old \in BOOLEAN : LoginBy(d, old)
  PROVE  /\ UNCHANGED <<valid, count, master, boots>>
         /\ \E p \in Player, x \in Line :
              /\ clan' = [clan EXCEPT ![p] = x]
              /\ Overwritten(p) \/ \A c \in Real \cap valid : (x = c) <=> (clan[p] = c)
<1>. USE ClansAssumption DEF ClanInv, TypeOK, Line, Copy, Real, table
<1>1. CASE SaveBack(d)
  <2>. DEFINE p == copy[d].of
              x == IF p \in playing THEN clan[p] ELSE Written(copy[d].clan)
  <2>1. p \in Player /\ x \in Line /\ UNCHANGED <<valid, count, master, boots>>
    BY <1>1 DEF SaveBack, Written
  <2>2. clan' = [clan EXCEPT ![p] = x]
    BY <1>1, <2>1 DEF SaveBack
  <2>3. ASSUME copy[d].clan = clan[p] PROVE \A c \in Real \cap valid : (x = c) <=> (clan[p] = c)
    BY <2>3 DEF Written
  <2>4. ASSUME copy[d].clan # clan[p] PROVE Overwritten(p)
    BY <1>1, <2>4 DEF Overwritten, SaveBack
  <2>. HIDE DEF p, x
  <2>. QED  BY <2>1, <2>2, <2>3, <2>4
<1>2. ASSUME NEW old \in BOOLEAN, LoginBy(d, old)
      PROVE  /\ UNCHANGED <<valid, count, master, boots>>
             /\ \E p \in Player, x \in Line :
                  /\ clan' = [clan EXCEPT ![p] = x]
                  /\ Overwritten(p) \/ \A c \in Real \cap valid : (x = c) <=> (clan[p] = c)
  <2>. DEFINE p == copy[d].of
              x == Enters(copy[d].clan, old)
  <2>1. p \in Player /\ x \in Line /\ UNCHANGED <<valid, count, master, boots>>
    BY <1>2 DEF LoginBy, Enters, Free
  <2>2. clan' = [clan EXCEPT ![p] = x]
    BY <1>2 DEF LoginBy
  <2>3. ASSUME copy[d].clan = clan[p] PROVE \A c \in Real \cap valid : (x = c) <=> (clan[p] = c)
    BY <2>3 DEF Enters, Free
  <2>4. ASSUME copy[d].clan # clan[p] PROVE Overwritten(p)
    BY <1>2, <2>4 DEF Overwritten, LoginBy
  <2>. HIDE DEF p, x
  <2>. QED  BY <2>1, <2>2, <2>3, <2>4
<1>. QED  BY <1>1, <1>2

LEMMA StepCounts ==
  ASSUME ClanInv, Next, boots' = boots, NEW c \in Real \cap valid \cap valid'
  PROVE  Follows(c) \/ Drifts(c)
<1>. USE ClansAssumption DEF ClanInv, Real, Free
<1>t. /\ c \in Clan /\ c # Independent /\ c # None /\ c # NoFile
      /\ clan \in [Player -> Line] /\ valid \subseteq Clan
  BY DEF TypeOK
<1>1. ASSUME NEW p \in Player, NEW d \in Clan, Accept(p, d) PROVE Follows(c)
  <2>1. /\ clan' = [clan EXCEPT ![p] = d] /\ count' = Counted(d, 1)
        /\ ready[p] # None
    BY <1>1, <1>t DEF Accept, Joins
  <2>2. clan[p] # c
    BY <2>1 DEF Settled
  <2>3. Cardinality(Members(c)') - Cardinality(Members(c)) =
          (IF d = c THEN 1 ELSE 0) - (IF clan[p] = c THEN 1 ELSE 0)
    BY <2>1, OneMoves
  <2>4. count'[c] = count[c] + (IF d = c THEN 1 ELSE 0)
    BY <2>1 DEF Counted, TypeOK
  <2>. QED  BY <2>2, <2>3, <2>4 DEF Follows, TypeOK
<1>2. ASSUME NEW by \in Player \cup {None}, NEW p \in Player, Expel(by, p) PROVE Follows(c)
  <2>1. CASE clan[p] = Independent
    <3>1. clan' = [clan EXCEPT ![p] = None] /\ count' = Counted(clan[p], -1)
      BY <1>2, <1>t, <2>1 DEF Expel, Expelled
    <3>. QED  BY <3>1, <1>t, MovesOut
  <2>2. CASE clan[p] # Independent
    <3>1. clan' = [clan EXCEPT ![p] = Free] /\ count' = Counted(clan[p], -1)
      BY <1>2, <1>t, <2>2 DEF Expel, Expelled
    <3>. QED  BY <3>1, <1>t, MovesOut
  <2>. QED  BY <2>1, <2>2
<1>3. ASSUME NEW p \in Player, Grow(p) PROVE Follows(c)
  <2>1. clan' = [clan EXCEPT ![p] = Free] /\ count' = count /\ clan[p] # c
    BY <1>3 DEF Grow, table, IsClan
  <2>. QED  BY <2>1, <1>t, StaysPut
<1>4. ASSUME NEW p \in Player, Shrink(p) PROVE Follows(c)
  BY <1>4, <1>t, MovesOut DEF Shrink
<1>5. ASSUME NEW p \in Player, Delete(p) PROVE Follows(c)
  BY <1>5, <1>t, MovesOut DEF Delete, Unlinked, IsClan
<1>6. ASSUME NEW p \in Player, AtheistDies(p, FALSE) PROVE Follows(c)
  BY <1>6, <1>t, MovesOut DEF AtheistDies, Unlinked, IsClan
<1>7. ASSUME NEW p \in Player, Quit(p) PROVE Follows(c)
  <2>1. clan' = [clan EXCEPT ![p] = Written(clan[p])] /\ count' = count
    BY <1>7, <1>t DEF Quit, table
  <2>2. (Written(clan[p]) = c) <=> (clan[p] = c)
    BY <1>t DEF Written
  <2>. QED  BY <2>1, <2>2, StaysPut
<1>8. ASSUME NEW p \in Player, NEW old \in BOOLEAN, Login(p, old) PROVE Follows(c)
  <2>1. clan' = [clan EXCEPT ![p] = Enters(clan[p], old)] /\ count' = count
    BY <1>8, <1>t DEF Login, table
  <2>2. (Enters(clan[p], old) = c) <=> (clan[p] = c)
    BY <1>t DEF Enters
  <2>. QED  BY <2>1, <2>2, StaysPut
<1>9. ASSUME NEW p \in Player, AtheistDies(p, TRUE) PROVE Follows(c) \/ Drifts(c)
  <2>1. /\ p \in Atheist /\ clan' = clan
        /\ count' = IF IsClan(p) THEN Counted(clan[p], -1) ELSE count
    BY <1>9 DEF AtheistDies
  <2>2. CASE clan[p] = c
    <3>1. count'[c] = count[c] - 1
      BY <2>1, <2>2, <1>t DEF Counted, IsClan, TypeOK
    <3>. QED  BY <1>9, <2>1, <2>2, <3>1 DEF Drifts
  <2>3. CASE clan[p] # c
    <3>1. clan' = [clan EXCEPT ![p] = clan[p]]
      BY <1>t, <2>1
    <3>. QED  BY <2>1, <2>3, <3>1, <1>t, MovesOut DEF IsClan
  <2>. QED  BY <2>2, <2>3
<1>12. ASSUME NEW d \in Conn, SaveBack(d) \/ \E old \in BOOLEAN : LoginBy(d, old)
       PROVE  Follows(c) \/ Drifts(c)
  <2>1. UNCHANGED count
    BY <1>12, OldFile
  <2>2. PICK p \in Player, x \in Line :
          /\ clan' = [clan EXCEPT ![p] = x]
          /\ Overwritten(p) \/ \A b \in Real \cap valid : (x = b) <=> (clan[p] = b)
    BY <1>12, OldFile
  <2>3. CASE (x = c) <=> (clan[p] = c)
    BY <2>1, <2>2, <2>3, StaysPut
  <2>4. CASE ~((x = c) <=> (clan[p] = c))
    <3>1. Overwritten(p) /\ c \in {clan[p], clan'[p]}
      BY <1>t, <2>2, <2>4
    <3>. QED  BY <2>1, <3>1 DEF Drifts
  <2>. QED  BY <2>3, <2>4
<1>10. CASE UNCHANGED <<clan, count>>
  BY <1>10, NobodyMoves
<1>11. ~Reboot
  BY <1>t DEF Reboot, TypeOK
<1>. QED
  BY <1>1, <1>2, <1>3, <1>4, <1>5, <1>6, <1>7, <1>8, <1>9, <1>10, <1>11, <1>12
  DEF Next, Enter, NameMaster, NameDeputy, DropDeputy, Diplomacy, DeleteClan, SaveClans, Save,
      ReadFile, table, players

\* While the server runs, the count of a clan follows its members, but for the atheist
\* who is kept and the old file.
THEOREM CountFollows == Spec => CountKept
<1>1. ASSUME ClanInv, [Next]_vars
      PROVE  [\/ boots' # boots
              \/ \A c \in Real \cap valid \cap valid' :
                   \/ count'[c] - count[c] = Cardinality(Members(c)') - Cardinality(Members(c))
                   \/ Drifts(c)]_vars
  BY <1>1, StepCounts DEF Follows
<1>. QED  BY InitTyped, StepTyped, <1>1, PTL DEF Spec, CountKept

-----------------------------------------------------------------------------
(* What becomes of the members of a clan *)

LEMMA StepPoachesNobody ==
  ASSUME ClanInv, Next, boots' = boots, NEW p \in Player, clan[p] \in Real \cap valid
  PROVE  clan'[p] \in {clan[p], Independent, None, NoFile} \/ Overwritten(p)
<1>. USE ClansAssumption DEF ClanInv, TypeOK, Free
<1>1. ASSUME NEW r \in Player, NEW d \in Clan, Accept(r, d) PROVE p # r /\ clan'[p] = clan[p]
  <2>1. ready[r] # None /\ clan' = [clan EXCEPT ![r] = d]
    BY <1>1 DEF Accept, Joins
  <2>. QED  BY <2>1 DEF Settled
<1>2. ASSUME NEW by \in Player \cup {None}, NEW r \in Player, Expel(by, r)
      PROVE  clan'[p] \in {clan[p], Independent, None}
  BY <1>2 DEF Expel, Expelled
<1>3. ASSUME NEW r \in Player, Grow(r) \/ Shrink(r) \/ Delete(r) \/ Quit(r)
      PROVE  clan'[p] \in {clan[p], Independent, None, NoFile}
  BY <1>3 DEF Grow, Shrink, Delete, Unlinked, Quit, Written
<1>4. ASSUME NEW r \in Player, NEW b \in BOOLEAN, AtheistDies(r, b) \/ Login(r, b)
      PROVE  clan'[p] \in {clan[p], Independent, None, NoFile}
  BY <1>4 DEF AtheistDies, Unlinked, Login, Enters
<1>5. ASSUME NEW d \in Conn, SaveBack(d) \/ \E old \in BOOLEAN : LoginBy(d, old)
      PROVE  clan'[p] = clan[p] \/ Overwritten(p)
  BY <1>5, OldFile DEF Line
<1>6. ~Reboot
  BY DEF Reboot
<1>. QED
  BY <1>1, <1>2, <1>3, <1>4, <1>5, <1>6 DEF Next, Enter, NameMaster, NameDeputy, DropDeputy,
     Diplomacy, DeleteClan, SaveClans, Save, ReadFile, table, players

\* Nobody goes from one clan straight to another, but by an old file.
THEOREM NobodyPoached == Spec => NeverPoached
<1>1. ASSUME ClanInv, [Next]_vars
      PROVE  [\/ boots' # boots
              \/ \A p \in Player : clan[p] \in Real \cap valid =>
                   \/ clan'[p] \in {clan[p], Independent, None, NoFile}
                   \/ Overwritten(p)]_vars
  BY <1>1, StepPoachesNobody
<1>. QED  BY InitTyped, StepTyped, <1>1, PTL DEF Spec, NeverPoached

LEMMA StepKeepsMaster ==
  ASSUME ClanInv, Next, boots' = boots,
         NEW c \in Real \cap valid, NEW p \in Player, master[c] = p, clan[p] = c,
         ~Overwritten(p), ~Shrink(p), ~\E b \in BOOLEAN : AtheistDies(p, b)
  PROVE  clan'[p] = c
<1>. USE DEF ClanInv, TypeOK
<1>1. IsMaster(p, c) /\ c \in Clan
  BY DEF IsMaster, IsClan, Real
<1>2. ASSUME NEW r \in Player, NEW d \in Clan, Accept(r, d) PROVE clan'[p] = clan[p]
  BY <1>1, <1>2 DEF Accept, Joins
<1>3. ASSUME NEW by \in Player \cup {None}, NEW r \in Player, Expel(by, r)
      PROVE  clan'[p] = clan[p]
  BY <1>3 DEF Expel, MayExpel
<1>4. ASSUME NEW r \in Player, Grow(r) \/ Shrink(r) \/ Delete(r) \/ Quit(r)
      PROVE  clan'[p] = clan[p]
  BY <1>1, <1>4 DEF Grow, Shrink, IsClan, Delete, Unlinked, Quit, Written
<1>5. ASSUME NEW r \in Player, NEW b \in BOOLEAN, AtheistDies(r, b) \/ Login(r, b)
      PROVE  clan'[p] = clan[p]
  BY <1>1, <1>5 DEF AtheistDies, Unlinked, Login, Enters, IsMaster, IsClan
<1>6. ASSUME NEW d \in Conn, SaveBack(d) \/ \E old \in BOOLEAN : LoginBy(d, old)
      PROVE  clan'[p] = clan[p]
  BY <1>6, OldFile DEF Line
<1>7. ~Reboot
  BY DEF Reboot
<1>. QED
  BY <1>2, <1>3, <1>4, <1>5, <1>6, <1>7 DEF Next, Enter, NameMaster, NameDeputy, DropDeputy,
     Diplomacy, DeleteClan, SaveClans, Save, ReadFile, table, players

\* Only his level, his death or an old file takes a master out of his clan.
THEOREM MastersStay == Spec => MasterStays
<1>1. ASSUME ClanInv, [Next]_vars
      PROVE  [\A c \in Real \cap valid : \A p \in Player :
                (master[c] = p /\ clan[p] = c) =>
                   \/ clan'[p] = c \/ boots' # boots \/ Overwritten(p)
                   \/ Shrink(p) \/ \E b \in BOOLEAN : AtheistDies(p, b)]_vars
  BY <1>1, StepKeepsMaster
<1>. QED  BY InitTyped, StepTyped, <1>1, PTL DEF Spec, MasterStays
=============================================================================
