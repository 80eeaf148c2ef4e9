------------------------------- MODULE Clans -------------------------------
(***************************************************************************)
(* Clans: who is in which, how many they are, who leads them, and which of *)
(* them are at war or allied.  clan_table is in memory and in clans.txt,   *)
(* the clan of a player in memory while he plays and in his own file; the  *)
(* two are saved by different commands.  A connection that is logging in   *)
(* has read the file, and may write what it has read back to it.           *)
(***************************************************************************)
EXTENDS Integers, FiniteSets

CONSTANTS
    Player,
    Conn,           \* connections that are logging in
    Clan,           \* the entries 1.. of clan_table
    Independent,    \* CLAN_INDEPEND, the clan of those who are in no other
    None,           \* clan 0; an empty name
    NoFile,         \* there is no file with the player's name
    Atheist,        \* the players created as atheists
    MaxPlayers,     \* MAX_CLAN_PLAYERS (150)
    MaxRare         \* bound on the rare: what immortals do, an atheist who is
                    \* kept, a login with a wrong letter, a start of the server

ASSUME ClansAssumption ==
    /\ Independent \in Clan /\ None \notin Clan \cup Player
    /\ NoFile \notin Clan \cup {None}
    /\ IsFiniteSet(Player) /\ Atheist \subseteq Player
    /\ {MaxPlayers, MaxRare} \subseteq Nat

VARIABLES
    valid,          \* the clans that there are
    war, ally,      \* clan_war, clan_alliance: pairs <<who, with whom>>
    master, deputy, \* clanmaster, clanmaster2: names
    count,          \* clan_table[].count
    saved,          \* what of it clans.txt has
    playing,        \* the players in the game
    clan,           \* ch->clan of those, the line "Clan" in the file of others
    file,           \* that line of everybody's file
    copy,           \* what a connection has read of a file, if it may write it
    ready,          \* ch->clan_ready
    boots,          \* how often the server has been started again
    rare            \* the counter for MaxRare

table   == <<valid, war, ally, master, deputy, count>>
players == <<playing, clan, ready, file, copy>>
vars    == <<valid, war, ally, master, deputy, count, saved,
             playing, clan, ready, file, copy, boots, rare>>

Real == Clan \ {Independent}
Line == Clan \cup {None, NoFile}
Copy == [of : Player, clan : Line]

TypeOK ==
    /\ valid \subseteq Clan
    /\ war \subseteq Clan \X Clan /\ ally \subseteq Clan \X Clan
    /\ master \in [Clan -> Player \cup {None}] /\ deputy \in [Clan -> Player \cup {None}]
    /\ count \in [Real -> Int]
    /\ saved \in [valid : SUBSET Clan, deputy : [Clan -> Player \cup {None}], count : [Real -> Int]]
    /\ playing \subseteq Player
    /\ clan \in [Player -> Line] /\ ready \in [Player -> Clan \cup {None}]
    /\ file \in [Player -> Line] /\ copy \in [Conn -> Copy \cup {None}]
    /\ rare \in 0..MaxRare /\ boots \in 0..rare
    /\ \A p \in Player : IF p \in playing THEN clan[p] # NoFile
                          ELSE ready[p] = None /\ clan[p] = file[p]

-----------------------------------------------------------------------------
IsClan(p) == clan[p] \in valid                         \* is_clan()

IsMaster(p, c) == IsClan(p) /\ clan[p] = c /\ master[c] = p

\* The deputy decides while the master is not seen in the world: whether he
\* can be seen is not modelled.
IsDeputy(p, c) == IsClan(p) /\ clan[p] = c /\ deputy[c] = p

Leads(p, c) == p \in playing /\ (IsMaster(p, c) \/ IsDeputy(p, c))

Mutual(c, d) == <<c, d>> \in ally /\ <<d, c>> \in ally

\* Declared by one of the two, or on one by an ally of the other.
InWar(c, d) ==
    \/ <<c, d>> \in war \/ <<d, c>> \in war
    \/ \E i \in Clan : (<<i, c>> \in war /\ Mutual(d, i)) \/ (<<i, d>> \in war /\ Mutual(c, i))

\* Those who attack each other on sight, check_clan_war().
Enemies(p, r) == IsClan(p) /\ IsClan(r) /\ InWar(clan[p], clan[r])

\* count++ and count-- of clan c; that of the independent is read by nobody.
Counted(c, n) == [d \in Real |-> IF d = c THEN count[d] + n ELSE count[d]]

\* clan_lookup(CLAN_INDEPEND)
Free == IF Independent \in valid THEN Independent ELSE None

TableSaved == [valid |-> valid', deputy |-> deputy', count |-> count']

Rare == rare < MaxRare /\ rare' = rare + 1

\* What fwrite_char() writes of clan c.
Written(c) == IF c \in valid THEN c ELSE None

Init ==
    /\ valid = Clan /\ war = {} /\ ally = {}
    /\ playing = Player /\ clan \in [Player -> Clan \cup {None}]
    /\ file = clan /\ copy = [d \in Conn |-> None]
    /\ ready = [p \in Player |-> None]
    /\ master \in {m \in [Clan -> Player \cup {None}] :
                     \A c \in Clan : m[c] # None => clan[m[c]] = c}
    /\ deputy = [c \in Clan |-> None]
    /\ count = [c \in Real |-> Cardinality({p \in Player : clan[p] = c})]
    /\ saved = [valid |-> valid, deputy |-> deputy, count |-> count]
    /\ boots = 0 /\ rare = 0

-----------------------------------------------------------------------------
(* Members *)

\* Mutant: a member of any clan may agree to join another one.
Enter_Any(p, c) ==
    /\ p \in playing /\ c \in valid
    /\ ready' = [ready EXCEPT ![p] = c]
    /\ UNCHANGED <<table, saved, playing, clan, file, copy, boots, rare>>

\* clan enter: p agrees to join c.
Enter(p, c) ==
    /\ p \in playing /\ c \in valid
    /\ IsClan(p) => clan[p] = Independent
    /\ ready' = [ready EXCEPT ![p] = c]
    /\ UNCHANGED <<table, saved, playing, clan, file, copy, boots, rare>>

\* Mutant: he is not counted.
Joins_Uncounted(p, c) ==
    /\ p \in playing /\ ~\E d \in Clan : IsMaster(p, d)
    /\ ready[p] = c
    /\ c \in Real => count[c] < MaxPlayers
    /\ clan' = [clan EXCEPT ![p] = c] /\ ready' = [ready EXCEPT ![p] = None]
    /\ count' = count

\* p joins c, whatever clan he was in.
Joins(p, c) ==
    /\ p \in playing /\ ~\E d \in Clan : IsMaster(p, d)
    /\ ready[p] = c
    /\ c \in Real => count[c] < MaxPlayers
    /\ clan' = [clan EXCEPT ![p] = c] /\ ready' = [ready EXCEPT ![p] = None]
    /\ count' = Counted(c, 1)

\* clan accept, by the master, his deputy or an immortal.
Accept(p, c) ==
    /\ c \in valid
    /\ ((\E by \in Player : Leads(by, c)) /\ UNCHANGED rare) \/ Rare
    /\ Joins(p, c)
    /\ UNCHANGED <<valid, war, ally, master, deputy, saved, playing, file, copy, boots>>

\* What becomes of somebody of clan c who is expelled: he is independent, or
\* was and is nothing.
Expelled(c) == IF c # Independent THEN Free ELSE None

\* Mutant: an offline master is expelled like anybody.
MayExpel_Offline(by, p, c) ==
    /\ c \in valid /\ ~(p \in playing /\ master[c] = p)
    /\ by # p /\ (by \in Player => Leads(by, c))

\* by, a leader or an immortal (None), may expel p, who is in c.
MayExpel(by, p, c) ==
    /\ c \in valid /\ master[c] # p
    /\ by # p /\ (by \in Player => Leads(by, c))

\* clan expel: of somebody in the game, or else in the player's file, whoever may
\* have read it by then.
Expel(by, p) ==
    /\ MayExpel(by, p, clan[p])
    /\ clan' = [clan EXCEPT ![p] = Expelled(@)] /\ count' = Counted(clan[p], -1)
    /\ file' = IF p \in playing THEN file ELSE clan'
    /\ IF by = None THEN Rare ELSE UNCHANGED rare
    /\ UNCHANGED <<valid, war, ally, master, deputy, saved, playing, ready, copy, boots>>

-----------------------------------------------------------------------------
(* Levels, death and deletion *)

\* advance_level(): at MAX_NOCLAN_LEVEL whoever is in no clan is independent.
Grow(p) ==
    /\ p \in playing /\ ~IsClan(p) /\ clan' = [clan EXCEPT ![p] = Free]
    /\ UNCHANGED <<table, saved, playing, ready, file, copy, boots, rare>>

\* advance_level() below MIN_CLAN_LEVEL, after an immortal has lowered him.
Shrink(p) ==
    /\ p \in playing /\ IsClan(p) /\ Rare
    /\ clan' = [clan EXCEPT ![p] = None] /\ count' = Counted(clan[p], -1)
    /\ UNCHANGED <<valid, war, ally, master, deputy, saved, playing, ready, file, copy, boots>>

\* He leaves the game for good, and his name is free.
Unlinked(p) ==
    /\ playing' = playing \ {p} /\ clan' = [clan EXCEPT ![p] = NoFile]
    /\ file' = [file EXCEPT ![p] = NoFile] /\ ready' = [ready EXCEPT ![p] = None]

\* do_delete(): a master may not.
Delete(p) ==
    /\ p \in playing /\ ~\E c \in Clan : IsMaster(p, c)
    /\ count' = IF IsClan(p) THEN Counted(clan[p], -1) ELSE count
    /\ Unlinked(p)
    /\ UNCHANGED <<valid, war, ally, master, deputy, saved, copy, boots, rare>>

\* An atheist dies, in raw_kill().  do_quit() may refuse him, for a deal or a
\* quest of his: he stays in the game, and in his clan, without a file.
AtheistDies(p, refused) ==
    /\ p \in playing \cap Atheist
    /\ count' = IF IsClan(p) THEN Counted(clan[p], -1) ELSE count
    /\ IF refused THEN /\ Rare /\ file' = [file EXCEPT ![p] = NoFile]
                       /\ UNCHANGED <<playing, clan, ready>>
       ELSE Unlinked(p) /\ UNCHANGED rare
    /\ UNCHANGED <<valid, war, ally, master, deputy, saved, copy, boots>>

-----------------------------------------------------------------------------
(* Leaders *)

\* clan clanmaster.  An immortal may name a member of any clan.
NameMaster(by, c, p) ==
    /\ c \in valid /\ p \in playing /\ IsClan(p)
    /\ IF by = None THEN Rare
       ELSE by \in playing /\ IsMaster(by, c) /\ by # p /\ clan[p] = c /\ UNCHANGED rare
    /\ master' = [master EXCEPT ![c] = p]
    /\ UNCHANGED <<valid, war, ally, deputy, count, players, boots>>
    /\ saved' = TableSaved

\* clan замкланмастер.
NameDeputy(by, c, p) ==
    /\ c \in valid /\ p \in playing /\ IsClan(p)
    /\ IF by = None THEN Rare
       ELSE by \in playing /\ IsMaster(by, c) /\ by # p /\ clan[p] = c /\ UNCHANGED rare
    /\ deputy' = [deputy EXCEPT ![c] = p]
    /\ UNCHANGED <<valid, war, ally, master, count, players, boots>>
    /\ saved' = TableSaved

\* clan замкланмастер убрать: this is not saved.
DropDeputy(by, c) ==
    /\ c \in valid
    /\ IF by = None THEN Rare ELSE by \in playing /\ IsMaster(by, c) /\ UNCHANGED rare
    /\ deputy' = [deputy EXCEPT ![c] = None]
    /\ UNCHANGED <<valid, war, ally, master, count, saved, players, boots>>

-----------------------------------------------------------------------------
(* War and peace *)

\* Mutant: it is asked only whether the other has declared war.
Ally_Other(c, d) ==
    /\ d \in valid \ {c, Independent}
    /\ \/ <<c, d>> \in ally /\ ally' = ally \ {<<c, d>>}
       \/ <<c, d>> \notin ally /\ <<d, c>> \notin war /\ ally' = ally \cup {<<c, d>>}
    /\ UNCHANGED war

\* clan alliance: one side of it, declared or ended.
Ally(c, d) ==
    /\ d \in valid \ {c, Independent}
    /\ \/ <<c, d>> \in ally /\ ally' = ally \ {<<c, d>>}
       \/ <<c, d>> \notin ally /\ ~InWar(c, d) /\ ally' = ally \cup {<<c, d>>}
    /\ UNCHANGED war

\* clan war: not on an ally, nor on an ally of an ally.
War(c, d) ==
    /\ d \in valid \ {c, Independent}
    /\ <<c, d>> \notin war /\ <<c, d>> \notin ally
    /\ ~\E j \in Clan : Mutual(c, j) /\ Mutual(d, j)
    /\ war' = war \cup {<<c, d>>} /\ UNCHANGED ally

\* clan peace: the end of a war that c has declared.
Peace(c, d) ==
    /\ d \in valid /\ <<c, d>> \in war
    /\ war' = war \ {<<c, d>>} /\ UNCHANGED ally

Diplomacy(by, c, d) ==
    /\ c \in valid /\ Leads(by, c)
    /\ Ally(c, d) \/ War(c, d) \/ Peace(c, d)
    /\ UNCHANGED <<valid, master, deputy, count, players, boots, rare>>
    /\ saved' = TableSaved

\* clan delete: what it was to the others stays in clan_war and clan_alliance.
DeleteClan(c) ==
    /\ c \in valid /\ Rare
    /\ valid' = valid \ {c}
    /\ UNCHANGED <<war, ally, master, deputy, count, players, boots>>
    /\ saved' = TableSaved

-----------------------------------------------------------------------------
(* Files *)

\* save_clans(), from the immortals' commands on clans and from string_add().
SaveClans ==
    /\ UNCHANGED <<table, players, boots, rare>>
    /\ saved' = TableSaved /\ saved' # saved

\* save_char_obj() of somebody in the game: now and then, and when he quits.
Save(p) ==
    /\ p \in playing /\ file' = [file EXCEPT ![p] = Written(clan[p])]
    /\ UNCHANGED <<table, saved, playing, clan, ready, copy, boots, rare>>

Quit(p) ==
    /\ p \in playing /\ playing' = playing \ {p}
    /\ clan' = [clan EXCEPT ![p] = Written(@)] /\ ready' = [ready EXCEPT ![p] = None]
    /\ file' = [file EXCEPT ![p] = Written(clan[p])]
    /\ UNCHANGED <<table, saved, copy, boots, rare>>

\* The clan of somebody who enters with c in his file: he is independent if he is in
\* none and old enough.  Without a file he is a new player.
Enters(c, old) == IF c \in valid THEN c ELSE IF old /\ c # NoFile THEN Free ELSE None

\* A login.  The file is read once more at the end: what was read at first matters only
\* to those who write it back, below.
Login(p, old) ==
    /\ p \notin playing /\ playing' = playing \cup {p}
    /\ clan' = [clan EXCEPT ![p] = Enters(@, old)]
    /\ UNCHANGED <<table, saved, ready, file, copy, boots, rare>>

\* The name is given, maybe after another connection is gone, and the file of p is read
\* or not there.
ReadFile(d, p) ==
    /\ Rare /\ copy' = [copy EXCEPT ![d] = [of |-> p, clan |-> file[p]]]
    /\ UNCHANGED <<table, saved, playing, clan, ready, file, boots>>

\* A wrong answer to the letter of the registration: what was read is saved, with one
\* error more, and the connection is closed.
SaveBack(d) ==
    /\ copy[d] \in Copy /\ copy[d].clan # NoFile
    /\ LET p == copy[d].of
           c == Written(copy[d].clan)
       IN /\ file' = [file EXCEPT ![p] = c]
          /\ clan' = IF p \in playing THEN clan ELSE [clan EXCEPT ![p] = c]
    /\ copy' = [copy EXCEPT ![d] = None]
    /\ UNCHANGED <<table, saved, playing, ready, boots, rare>>

\* The end of a login with errors counted: what was read is saved without them, and then
\* read again.  A new player enters even if there is a file by now.
LoginBy(d, old) ==
    /\ copy[d] \in Copy
    /\ LET p == copy[d].of
           c == copy[d].clan
       IN /\ p \notin playing /\ playing' = playing \cup {p}
          /\ file' = IF c = NoFile THEN file ELSE [file EXCEPT ![p] = Written(c)]
          /\ clan' = [clan EXCEPT ![p] = Enters(c, old)]
    /\ copy' = [copy EXCEPT ![d] = None]
    /\ UNCHANGED <<table, saved, ready, boots, rare>>

\* for_reboot() saves whoever has a connection, those who are logging in as well, and
\* not the clans; then the clans are read from clans.txt: what was declared by, or to,
\* one that is not in it is gone.
Reboot ==
    /\ Rare /\ boots' = boots + 1
    /\ valid' = saved.valid /\ deputy' = saved.deputy /\ count' = saved.count
    /\ war' = war \cap (saved.valid \X saved.valid)
    /\ ally' = ally \cap (saved.valid \X saved.valid)
    /\ playing' = {} /\ copy' = [d \in Conn |-> None]
    /\ file' \in [Player -> Line]
    /\ \A p \in Player :
         \/ file'[p] = file[p]
         \/ p \in playing /\ file'[p] = Written(clan[p])
         \/ \E c \in Line \ {NoFile} : /\ \E d \in Conn : copy[d] = [of |-> p, clan |-> c]
                                       /\ file'[p] = Written(c)
    /\ clan' = file' /\ ready' = [p \in Player |-> None]
    /\ UNCHANGED <<master, saved>>

-----------------------------------------------------------------------------
Next ==
    \/ \E p \in Player, c \in Clan : Enter(p, c) \/ Accept(p, c)
    \/ \E by \in Player \cup {None}, p \in Player : Expel(by, p)
    \/ \E p \in Player : Grow(p) \/ Shrink(p) \/ Delete(p) \/ Save(p) \/ Quit(p)
    \/ \E p \in Player, b \in BOOLEAN : AtheistDies(p, b) \/ Login(p, b)
    \/ \E by \in Player \cup {None}, c \in Clan, p \in Player :
         NameMaster(by, c, p) \/ NameDeputy(by, c, p)
    \/ \E by \in Player \cup {None}, c \in Clan : DropDeputy(by, c)
    \/ \E by \in Player, c \in Clan, d \in Clan : Diplomacy(by, c, d)
    \/ \E c \in Clan : DeleteClan(c)
    \/ SaveClans \/ Reboot
    \/ \E d \in Conn : \/ \E p \in Player : ReadFile(d, p)
                       \/ SaveBack(d)
                       \/ \E b \in BOOLEAN : LoginBy(d, b)

Spec == Init /\ [][Next]_vars

-----------------------------------------------------------------------------
Members(c) == {p \in Player : clan[p] = c}

(* Nobody attacks one of his own clan on sight: whatever the clans declare,  *)
(* in any order, none is at war with itself through its own allies.          *)
NoCivilWar == \A p, r \in playing : clan[p] = clan[r] => ~Enemies(p, r)

\* What p had in his file when somebody gave his name, which is not what he has now, is
\* written back, with the letter wrong or at the end of the login.
Overwritten(p) ==
    \E d \in Conn : /\ copy[d] \in Copy /\ copy[d].of = p /\ copy[d].clan # clan[p]
                    /\ SaveBack(d) \/ \E old \in BOOLEAN : LoginBy(d, old)

\* The count of c and its members part: an atheist of c whom do_quit() keeps is counted
\* out of it, or one who has joined or left c has his old file back.
Drifts(c) ==
    \/ count'[c] = count[c] - 1 /\ \E p \in Atheist : clan[p] = c /\ AtheistDies(p, TRUE)
    \/ UNCHANGED count /\ \E p \in Player : c \in {clan[p], clan'[p]} /\ Overwritten(p)

(* While the server runs, the count of a clan that exists follows its        *)
(* members, in the game or not, but for those two ways to drift.             *)
CountKept ==
    [][\/ boots' # boots
       \/ \A c \in Real \cap valid \cap valid' :
            \/ count'[c] - count[c] = Cardinality(Members(c)') - Cardinality(Members(c))
            \/ Drifts(c)]_vars

(* Nobody goes from one clan straight to another: do_clan_accept() does not  *)
(* ask what clan he is in, what he agreed to has to be gone by then.  Only   *)
(* an old file does that.                                                    *)
NeverPoached ==
    [][\/ boots' # boots
       \/ \A p \in Player : clan[p] \in Real \cap valid =>
            \/ clan'[p] \in {clan[p], Independent, None, NoFile}
            \/ Overwritten(p)]_vars

(* The master of a clan is in it until another one is named, but for his     *)
(* level, his death or an old file of his: neither he, nor his deputy while  *)
(* he is away, nor an immortal takes him out.                                *)
MasterStays ==
    [][\A c \in Real \cap valid : \A p \in Player :
         (master[c] = p /\ clan[p] = c) =>
            \/ clan'[p] = c \/ boots' # boots \/ Overwritten(p)
            \/ Shrink(p) \/ \E b \in BOOLEAN : AtheistDies(p, b)]_vars
=============================================================================
