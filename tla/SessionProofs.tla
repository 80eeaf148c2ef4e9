--------------------------- MODULE SessionProofs ---------------------------
(***************************************************************************)
(* Proofs about Session.                                                   *)
(*                                                                         *)
(* Part 1: a connection and its character always point at each other, and  *)
(* no two connections create the same character.  "Links" says the first   *)
(* of any connections, characters and world, because some handlers close   *)
(* connections first and hand over a body afterwards.                      *)
(*                                                                         *)
(* Part 2: the closed server.  A player is in the world once; no copy of a *)
(* character that is about to become a body is older than its file, and no *)
(* body is; only a login that fails can take a player's file back; and     *)
(* every behaviour is one that Presence allows.                            *)
(***************************************************************************)
EXTENDS SessionPresence, TLAPS

LinkTypes(cn, dc, ch, cl) ==
    /\ cn \in [Desc -> ConStates]
    /\ dc \in [Desc -> Char \cup {None}]
    /\ ch \in [Char -> CharData \cup {None}]
    /\ cl \subseteq Char

Owner(cn, dc, ch, cl, d) ==
    /\ cn[d] = "PLAYING" => dc[d] \in cl
    /\ cn[d] \in LoginStates => dc[d] \in Char \ cl
    /\ cn[d] \in NamelessStates \cup {"FREE"} => dc[d] = None
    /\ dc[d] # None => ch[dc[d]] # None /\ ch[dc[d]].desc = d

Owned(dc, ch, cl, c) ==
    /\ c \in cl => ch[c] # None
    /\ ch[c] # None => (\/ ch[c].desc = None /\ c \in cl
                        \/ ch[c].desc # None /\ dc[ch[c].desc] = c)

Links(cn, dc, ch, cl) ==
    /\ LinkTypes(cn, dc, ch, cl)
    /\ \A d \in Desc : Owner(cn, dc, ch, cl, d)
    /\ \A c \in Char : Owned(dc, ch, cl, c)

LEMMA LinksNow ==
    ASSUME TypeOK, LinkConsistent
    PROVE  Links(con, dchar, char, char_list)
BY DEF TypeOK, LinkConsistent, Links, LinkTypes, Owner, Owned

LEMMA LinksNext ==
    ASSUME Links(con', dchar', char', char_list')
    PROVE  LinkConsistent'
BY DEF LinkConsistent, Links, LinkTypes, Owner, Owned

\* The kinds of dialogue states exclude each other.
LEMMA States ==
    /\ \A s \in ConStates : \/ s = "PLAYING"
                            \/ s \in LoginStates
                            \/ s \in NamelessStates \cup {"FREE"}
    /\ "PLAYING" \notin LoginStates
    /\ "PLAYING" \notin NamelessStates \cup {"FREE"}
    /\ \A s \in LoginStates : s \notin NamelessStates \cup {"FREE"}
    /\ LoginStates \subseteq ConStates /\ NamelessStates \subseteq ConStates
    /\ "PLAYING" \in ConStates /\ "FREE" \in ConStates
BY DEF ConStates, NamelessStates, LoginStates, MotdStates, CreationStates, NextCon

\* Every connection has at most one character, and the other way round.
LEMMA Owners ==
    ASSUME NEW cn, NEW dc, NEW ch, NEW cl, Links(cn, dc, ch, cl)
    PROVE  /\ \A d \in Desc : dc[d] # None => dc[d] \in Char
           /\ \A d, e \in Desc : dc[d] # None /\ dc[d] = dc[e] => d = e
           /\ \A d \in Desc : dc[d] # None => cn[d] = "PLAYING" \/ cn[d] \in LoginStates
           /\ \A d \in Desc : cn[d] = "PLAYING" => dc[d] \in cl
           /\ \A d \in Desc : cn[d] # "PLAYING" => dc[d] \notin cl
BY States, NoneAssumption DEF Links, LinkTypes, Owner

\* Losing its connection leaves a character one.
LEMMA Unlinked ==
    ASSUME NEW r \in CharData, NEW d \in Desc \cup {None}
    PROVE  /\ [r EXCEPT !.desc = d] \in CharData
           /\ [r EXCEPT !.desc = d].desc = d
BY DEF CharData

\* Taking over a body is idling no more.
LEMMA Relinked ==
    ASSUME NEW r \in CharData, NEW d \in Desc
    PROVE  /\ [r EXCEPT !.desc = d, !.timer = 0] \in CharData
           /\ [r EXCEPT !.desc = d, !.timer = 0].desc = d
<1>1. 0 \in 0..(IdleTimer + 1)
  BY TimerAssumption
<1>2. [r EXCEPT !.desc = d] \in CharData
  BY Unlinked
<1>3. [[r EXCEPT !.desc = d] EXCEPT !.timer = 0] \in CharData
  BY <1>1, <1>2 DEF CharData
<1> QED BY <1>3 DEF CharData

-----------------------------------------------------------------------------
\* Closing connections keeps the links.
LEMMA CloseLinks ==
    ASSUME Links(con, dchar, char, char_list), NEW D \in SUBSET Desc
    PROVE  Links(CloseCon(D), CloseDchar(D), CloseChar(D), char_list)
<1> DEFINE cn == CloseCon(D)
           dc == CloseDchar(D)
           ch == CloseChar(D)
<1>1. \A c \in Char : c \in Playing(D) => char[c] \in CharData /\ c \in char_list
  <2>1. \A c \in Char : c \in char_list => char[c] \in CharData
    BY DEF Links, LinkTypes, Owned
  <2>2. \A c \in Char : c \in Playing(D) => c \in char_list
    BY Owners DEF Playing
  <2> QED BY <2>1, <2>2
<1>2. \A c \in Char : c \in NotPlaying(D) => c \notin char_list
  BY Owners, NoneAssumption DEF NotPlaying
<1>3. \A c \in Char :
        /\ c \in Playing(D) => ch[c] \in CharData /\ ch[c].desc = None
        /\ c \in NotPlaying(D) => ch[c] = None
        /\ c \notin Playing(D) \cup NotPlaying(D) => ch[c] = char[c]
  <2>1. \A c \in Char : c \in NotPlaying(D) => c \notin Playing(D)
    BY <1>1, <1>2
  <2> QED BY <1>1, <2>1, Unlinked DEF CloseChar
<1>4. ch \in [Char -> CharData \cup {None}]
  <2>1. \A c \in Char : ch[c] \in CharData \cup {None}
    BY <1>3 DEF Links, LinkTypes
  <2> QED BY <2>1 DEF CloseChar
<1>5. LinkTypes(cn, dc, ch, char_list)
  BY <1>4, States DEF Links, LinkTypes, CloseCon, CloseDchar
<1>6. \A d \in Desc :
        /\ d \in D => cn[d] = "FREE" /\ dc[d] = None
        /\ d \notin D => cn[d] = con[d] /\ dc[d] = dchar[d]
  BY DEF CloseCon, CloseDchar
<1>7. \A d \in Desc : d \notin D /\ dchar[d] # None => ch[dchar[d]] = char[dchar[d]]
  BY <1>3, Owners DEF Playing, NotPlaying
<1>8. ASSUME NEW d \in Desc
      PROVE  Owner(cn, dc, ch, char_list, d)
  <2>1. CASE d \in D
    BY <1>6, <2>1, States DEF Owner
  <2>2. CASE d \notin D
    <3>1. Owner(con, dchar, char, char_list, d)
      BY DEF Links
    <3> QED BY <1>6, <1>7, <2>2, <3>1 DEF Owner
  <2> QED BY <2>1, <2>2
<1>9. ASSUME NEW c \in Char
      PROVE  Owned(dc, ch, char_list, c)
  <2>0. Owned(dchar, char, char_list, c) /\ char[c] \in CharData \cup {None}
    BY DEF Links, LinkTypes
  <2>1. CASE c \in Playing(D)
    BY <2>1, <1>1, <1>3, DataAssumption DEF DataAssumption, Owned
  <2>2. CASE c \in NotPlaying(D)
    BY <2>2, <1>2, <1>3 DEF Owned
  <2>3. CASE c \notin Playing(D) \cup NotPlaying(D)
    <3>1. ch[c] = char[c]
      BY <2>3, <1>3
    <3>2. CASE char[c] # None /\ char[c].desc # None
      <4>1. char[c].desc \in Desc /\ dchar[char[c].desc] = c
        BY <2>0, <3>2 DEF Owned, CharData
      <4>2. char[c].desc \notin D
        BY <4>1, <2>3 DEF Playing, NotPlaying
      <4> QED BY <3>1, <3>2, <4>1, <4>2, <1>6, <2>0 DEF Owned
    <3>3. CASE ~(char[c] # None /\ char[c].desc # None)
      BY <3>1, <3>3, <2>0 DEF Owned
    <3> QED BY <3>2, <3>3
  <2> QED BY <2>1, <2>2, <2>3
<1> QED BY <1>5, <1>8, <1>9 DEF Links

\* A connection that is logging in hands its character back.
LEMMA DropLinks ==
    ASSUME NEW cn, NEW dc, NEW ch, NEW cl, Links(cn, dc, ch, cl),
           NEW d \in Desc, cn[d] \in LoginStates
    PROVE  Links([cn EXCEPT ![d] = "GET_NAME"], [dc EXCEPT ![d] = None],
                 [ch EXCEPT ![dc[d]] = None], cl)
<1> DEFINE cn2 == [cn EXCEPT ![d] = "GET_NAME"]
           dc2 == [dc EXCEPT ![d] = None]
           ch2 == [ch EXCEPT ![dc[d]] = None]
<1>1. dc[d] \in Char /\ dc[d] \notin cl /\ dc[d] # None
  BY NoneAssumption DEF Links, Owner
<1>2. /\ "GET_NAME" \in ConStates /\ "GET_NAME" # "PLAYING"
      /\ "GET_NAME" \notin LoginStates
  BY DEF ConStates, NamelessStates, LoginStates, MotdStates, CreationStates, NextCon
<1>3. LinkTypes(cn2, dc2, ch2, cl)
  BY <1>1, <1>2 DEF Links, LinkTypes
<1>4. ASSUME NEW e \in Desc
      PROVE  Owner(cn2, dc2, ch2, cl, e)
  <2>1. CASE e = d
    BY <1>2, <2>1 DEF Links, LinkTypes, Owner
  <2>2. CASE e # d
    <3>1. cn2[e] = cn[e] /\ dc2[e] = dc[e] /\ Owner(cn, dc, ch, cl, e)
      BY <2>2 DEF Links, LinkTypes
    <3>2. dc[e] # None => ch2[dc[e]] = ch[dc[e]]
      <4>1. dc[e] # None => dc[e] \in Char /\ dc[e] # dc[d]
        BY <1>1, <2>2, Owners
      <4> QED BY <4>1 DEF Links, LinkTypes
    <3> QED BY <3>1, <3>2 DEF Owner
  <2> QED BY <2>1, <2>2
<1>5. ASSUME NEW c \in Char
      PROVE  Owned(dc2, ch2, cl, c)
  <2>0. Owned(dc, ch, cl, c) /\ ch[c] \in CharData \cup {None}
    BY DEF Links, LinkTypes
  <2>1. CASE c = dc[d]
    BY <1>1, <2>1 DEF Owned, Links, LinkTypes
  <2>2. CASE c # dc[d]
    <3>1. ch2[c] = ch[c]
      BY <2>2, <1>1 DEF Links, LinkTypes
    <3>2. ch[c] # None /\ ch[c].desc # None => ch[c].desc \in Desc /\ ch[c].desc # d
      BY <2>0, <2>2 DEF Owned, CharData
    <3> QED BY <2>0, <3>1, <3>2 DEF Owned, Links, LinkTypes
  <2> QED BY <2>1, <2>2
<1> QED BY <1>3, <1>4, <1>5 DEF Links

\* A connection that is logging in takes over a body.
LEMMA TakeLinks ==
    ASSUME NEW cn, NEW dc, NEW ch, NEW cl, Links(cn, dc, ch, cl),
           NEW d \in Desc, cn[d] \in LoginStates,
           NEW c \in cl, ch[c].desc = None
    PROVE  Links([cn EXCEPT ![d] = "PLAYING"], [dc EXCEPT ![d] = c],
                 [ch EXCEPT ![dc[d]] = None, ![c].desc = d, ![c].timer = 0], cl)
<1> DEFINE cn2 == [cn EXCEPT ![d] = "PLAYING"]
           dc2 == [dc EXCEPT ![d] = c]
           ch2 == [ch EXCEPT ![dc[d]] = None, ![c].desc = d, ![c].timer = 0]
<1>1. dc[d] \in Char /\ dc[d] \notin cl /\ dc[d] # None
  BY NoneAssumption DEF Links, Owner
<1>2. c \in Char /\ c # dc[d] /\ ch[c] \in CharData /\ c # None
  BY <1>1, NoneAssumption DEF Links, LinkTypes, Owned
<1>3. ch2[c] \in CharData /\ ch2[c].desc = d
  <2>1. ch2[c] = [ch[c] EXCEPT !.desc = d, !.timer = 0]
    BY <1>1, <1>2 DEF Links, LinkTypes
  <2>2. ch[c] \in CharData
    BY <1>2
  <2>3. /\ [ch[c] EXCEPT !.desc = d, !.timer = 0] \in CharData
        /\ [ch[c] EXCEPT !.desc = d, !.timer = 0].desc = d
    BY <2>2, Relinked, Zenon
  <2> QED BY <2>1, <2>3, Zenon
<1>4. \A x \in Char : /\ x = dc[d] => ch2[x] = None
                      /\ x # c /\ x # dc[d] => ch2[x] = ch[x]
  BY <1>1, <1>2 DEF Links, LinkTypes
<1>5. ch2 \in [Char -> CharData \cup {None}]
  <2>1. \A x \in Char : ch2[x] \in CharData \cup {None}
    BY <1>3, <1>4 DEF Links, LinkTypes
  <2> QED BY <2>1 DEF Links, LinkTypes
<1>6. LinkTypes(cn2, dc2, ch2, cl)
  BY <1>2, <1>5, States DEF Links, LinkTypes
<1>7. ASSUME NEW e \in Desc
      PROVE  Owner(cn2, dc2, ch2, cl, e)
  <2>1. CASE e = d
    <3>1. cn2[e] = "PLAYING" /\ dc2[e] = c
      BY <2>1 DEF Links, LinkTypes
    <3>2. ch2[c] # None
      BY <1>3, DataAssumption
    <3> QED BY <1>3, <2>1, <3>1, <3>2, States DEF Owner
  <2>2. CASE e # d
    <3>1. cn2[e] = cn[e] /\ dc2[e] = dc[e] /\ Owner(cn, dc, ch, cl, e)
      BY <2>2 DEF Links, LinkTypes
    <3>2. dc[e] # None => dc[e] # c /\ dc[e] # dc[d] /\ dc[e] \in Char
      <4>1. dc[e] # None => ch[dc[e]].desc = e
        BY <3>1 DEF Owner
      <4>2. dc[e] # None => dc[e] # c
        BY <4>1, NoneAssumption
      <4> QED BY <2>2, <4>2, Owners
    <3> QED BY <1>4, <3>1, <3>2 DEF Owner
  <2> QED BY <2>1, <2>2
<1>8. ASSUME NEW x \in Char
      PROVE  Owned(dc2, ch2, cl, x)
  <2>0. Owned(dc, ch, cl, x) /\ ch[x] \in CharData \cup {None}
    BY DEF Links, LinkTypes
  <2>1. CASE x = c
    BY <1>3, <2>1, DataAssumption, NoneAssumption DEF Owned, Links, LinkTypes
  <2>2. CASE x = dc[d]
    BY <1>1, <1>4, <2>2 DEF Owned
  <2>3. CASE x # c /\ x # dc[d]
    <3>1. ch[x] # None /\ ch[x].desc # None => ch[x].desc \in Desc /\ ch[x].desc # d
      BY <2>0, <2>3 DEF Owned, CharData
    <3> QED BY <1>4, <2>0, <2>3, <3>1 DEF Owned, Links, LinkTypes
  <2> QED BY <2>1, <2>2, <2>3
<1> QED BY <1>6, <1>7, <1>8 DEF Links

\* Nobody is there.
LEMMA NoLinks ==
    Links([d \in Desc |-> "FREE"], [d \in Desc |-> None], [c \in Char |-> None], {})
BY States DEF Links, LinkTypes, Owner, Owned

\* The dialogue goes on and the characters change, but not their connections.
LEMMA SameLinks ==
    ASSUME NEW cn, NEW dc, NEW ch, NEW cl, Links(cn, dc, ch, cl),
           NEW cn2 \in [Desc -> ConStates], NEW ch2 \in [Char -> CharData \cup {None}],
           \A d \in Desc : \/ cn2[d] = cn[d]
                           \/ cn[d] \in LoginStates /\ cn2[d] \in LoginStates
                           \/ /\ cn[d] \in NamelessStates \cup {"FREE"}
                              /\ cn2[d] \in NamelessStates \cup {"FREE"},
           \A c \in Char : \/ ch2[c] = ch[c]
                           \/ /\ ch[c] # None /\ ch2[c] # None
                              /\ ch2[c].desc = ch[c].desc
    PROVE  Links(cn2, dc, ch2, cl)
<1>1. LinkTypes(cn2, dc, ch2, cl)
  BY DEF Links, LinkTypes
<1>2. ASSUME NEW d \in Desc
      PROVE  Owner(cn2, dc, ch2, cl, d)
  <2>1. Owner(cn, dc, ch, cl, d) /\ (dc[d] # None => dc[d] \in Char)
    BY DEF Links, LinkTypes
  <2>2. dc[d] # None => ch2[dc[d]] # None /\ ch2[dc[d]].desc = d
    BY <2>1 DEF Owner
  <2> QED BY <2>1, <2>2, States DEF Owner
<1>3. ASSUME NEW c \in Char
      PROVE  Owned(dc, ch2, cl, c)
  BY DEF Links, Owned
<1> QED BY <1>1, <1>2, <1>3 DEF Links

\* Bodies leave the world, and connections are closed along with them.
LEMMA RemoveLinks ==
    ASSUME Links(con, dchar, char, char_list), NEW S \in SUBSET char_list,
           NEW ch \in [Char -> CharData \cup {None}],
           \A c \in Char : \/ ch[c] = char[c]
                           \/ /\ char[c] # None /\ ch[c] # None
                              /\ ch[c].desc = char[c].desc
    PROVE  Links(CloseCon(Toasted(S)), CloseDchar(Toasted(S)),
                 [c \in Char |-> IF c \in Removed(S) THEN None ELSE ch[c]],
                 char_list \ Removed(S))
<1> DEFINE T   == Toasted(S)
           cn2 == CloseCon(T)
           dc2 == CloseDchar(T)
           ch2 == [c \in Char |-> IF c \in Removed(S) THEN None ELSE ch[c]]
           cl2 == char_list \ Removed(S)
<1>1. LinkTypes(cn2, dc2, ch2, cl2)
  BY States DEF Links, LinkTypes, CloseCon, CloseDchar
<1>2. \A d \in Desc :
        /\ d \in T => cn2[d] = "FREE" /\ dc2[d] = None
        /\ d \notin T => cn2[d] = con[d] /\ dc2[d] = dchar[d]
  BY DEF CloseCon, CloseDchar
<1>3. ASSUME NEW d \in Desc, d \notin T, dchar[d] # None
      PROVE  dchar[d] \notin Removed(S)
  <2>1. dchar[d] \notin S
    BY <1>3 DEF Toasted
  <2>2. \A e \in T : e \in Desc /\ dchar[e] # dchar[d]
    BY <1>3, Owners DEF Toasted
  <2> QED BY <2>1, <2>2 DEF Removed
<1>4. ASSUME NEW d \in Desc
      PROVE  Owner(cn2, dc2, ch2, cl2, d)
  <2>1. CASE d \in T
    BY <1>2, <2>1, States DEF Owner
  <2>2. CASE d \notin T
    <3>1. Owner(con, dchar, char, char_list, d) /\ (dchar[d] # None => dchar[d] \in Char)
      BY DEF Links, LinkTypes
    <3>2. con[d] = "PLAYING" => dchar[d] # None
      BY <3>1, NoneAssumption DEF Owner, Links, LinkTypes
    <3>3. dchar[d] # None => ch2[dchar[d]] # None /\ ch2[dchar[d]].desc = d
      BY <1>3, <2>2, <3>1 DEF Owner
    <3> QED BY <1>2, <1>3, <2>2, <3>1, <3>2, <3>3 DEF Owner
  <2> QED BY <2>1, <2>2
<1>5. ASSUME NEW c \in Char
      PROVE  Owned(dc2, ch2, cl2, c)
  <2>0. Owned(dchar, char, char_list, c) /\ char[c] \in CharData \cup {None}
    BY DEF Links, LinkTypes
  <2>1. CASE c \in Removed(S)
    BY <2>1 DEF Owned
  <2>2. CASE c \notin Removed(S)
    <3>1. /\ ch2[c] # None => char[c] # None /\ ch2[c].desc = char[c].desc
          /\ char[c] # None => ch2[c] # None
      BY <2>2
    <3>2. char[c] # None /\ char[c].desc # None =>
             char[c].desc \in Desc /\ char[c].desc \notin T
      <4>1. char[c] # None /\ char[c].desc # None =>
               char[c].desc \in Desc /\ dchar[char[c].desc] = c
        BY <2>0 DEF Owned, CharData
      <4> QED BY <4>1, <2>2 DEF Removed
    <3> QED BY <1>2, <2>0, <2>2, <3>1, <3>2 DEF Owned
  <2> QED BY <2>1, <2>2
<1> QED BY <1>1, <1>4, <1>5 DEF Links

\* The name is typed: a character is loaded for the connection.
LEMMA AttachLinks ==
    ASSUME Links(con, dchar, char, char_list),
           NEW d \in Desc, con[d] \in NamelessStates,
           NEW s \in LoginStates, NEW c \in Char, char[c] = None,
           NEW r \in CharData, r.desc = d
    PROVE  Links([con EXCEPT ![d] = s], [dchar EXCEPT ![d] = c],
                 [char EXCEPT ![c] = r], char_list)
<1> DEFINE cn2 == [con EXCEPT ![d] = s]
           dc2 == [dchar EXCEPT ![d] = c]
           ch2 == [char EXCEPT ![c] = r]
<1>1. c \notin char_list /\ r # None /\ c # None
  BY DataAssumption, NoneAssumption DEF Links, Owned
<1>2. LinkTypes(cn2, dc2, ch2, char_list)
  BY States DEF Links, LinkTypes
<1>3. \A e \in Desc : dchar[e] # None => dchar[e] \in Char /\ dchar[e] # c
  BY DEF Links, LinkTypes, Owner
<1>4. ASSUME NEW e \in Desc
      PROVE  Owner(cn2, dc2, ch2, char_list, e)
  <2>1. CASE e = d
    BY <1>1, <2>1, States DEF Links, LinkTypes, Owner
  <2>2. CASE e # d
    BY <1>3, <2>2 DEF Links, LinkTypes, Owner
  <2> QED BY <2>1, <2>2
<1>5. ASSUME NEW x \in Char
      PROVE  Owned(dc2, ch2, char_list, x)
  <2>0. Owned(dchar, char, char_list, x) /\ char[x] \in CharData \cup {None}
    BY DEF Links, LinkTypes
  <2>1. CASE x = c
    BY <1>1, <2>1, NoneAssumption DEF Owned, Links, LinkTypes
  <2>2. CASE x # c
    <3>1. dchar[d] = None
      BY DEF Links, Owner
    <3>2. char[x] # None /\ char[x].desc # None => char[x].desc \in Desc /\ char[x].desc # d
      BY <2>0, <3>1, NoneAssumption DEF Owned, CharData
    <3> QED BY <2>0, <2>2, <3>2 DEF Owned, Links, LinkTypes
  <2> QED BY <2>1, <2>2
<1> QED BY <1>2, <1>4, <1>5 DEF Links

\* A character enters the world.
LEMMA EnterLinks ==
    ASSUME Links(con, dchar, char, char_list),
           NEW d \in Desc, con[d] \in LoginStates,
           NEW r \in CharData, r.desc = d
    PROVE  Links([con EXCEPT ![d] = "PLAYING"], dchar,
                 [char EXCEPT ![dchar[d]] = r], char_list \cup {dchar[d]})
<1> DEFINE cn2 == [con EXCEPT ![d] = "PLAYING"]
           ch2 == [char EXCEPT ![dchar[d]] = r]
           cl2 == char_list \cup {dchar[d]}
<1>1. dchar[d] \in Char /\ dchar[d] \notin char_list /\ r # None /\ dchar[d] # None
  BY DataAssumption, NoneAssumption DEF Links, Owner
<1>2. LinkTypes(cn2, dchar, ch2, cl2)
  BY <1>1, States DEF Links, LinkTypes
<1>3. ASSUME NEW e \in Desc
      PROVE  Owner(cn2, dchar, ch2, cl2, e)
  <2>1. CASE e = d
    BY <1>1, <2>1, States DEF Links, LinkTypes, Owner
  <2>2. CASE e # d
    <3>1. dchar[e] # None => dchar[e] \in Char /\ dchar[e] # dchar[d]
      BY <1>1, <2>2, Owners
    <3>2. cn2[e] = con[e] /\ Owner(con, dchar, char, char_list, e)
      BY <2>2 DEF Links, LinkTypes
    <3>3. con[e] \in LoginStates => dchar[e] # None
      BY <3>2, NoneAssumption DEF Owner
    <3> QED BY <3>1, <3>2, <3>3, <1>1 DEF Owner, Links, LinkTypes
  <2> QED BY <2>1, <2>2
<1>4. ASSUME NEW x \in Char
      PROVE  Owned(dchar, ch2, cl2, x)
  <2>1. CASE x = dchar[d]
    BY <1>1, <2>1, NoneAssumption DEF Owned, Links, LinkTypes
  <2>2. CASE x # dchar[d]
    BY <1>1, <2>2 DEF Owned, Links, LinkTypes
  <2> QED BY <2>1, <2>2
<1> QED BY <1>2, <1>3, <1>4 DEF Links

-----------------------------------------------------------------------------
(***************************************************************************)
(* Every step keeps the types and the links.                               *)
(***************************************************************************)
LinkInv == TypeOK /\ LinkConsistent

LinkInvNext == /\ Links(con', dchar', char', char_list')
               /\ newer' \subseteq Desc \X Desc
               /\ file' \in [Name -> FileData \cup {None}]
               /\ nextId' \in 0..MaxId

LEMMA InvNow ==
    ASSUME LinkInv
    PROVE  /\ Links(con, dchar, char, char_list)
           /\ newer \subseteq Desc \X Desc
           /\ file \in [Name -> FileData \cup {None}]
           /\ nextId \in 0..MaxId
BY LinksNow DEF LinkInv, TypeOK

LEMMA InvNext ==
    ASSUME LinkInvNext
    PROVE  LinkInv'
BY LinksNext DEF LinkInv, LinkInvNext, TypeOK, Links, LinkTypes

\* What a connection's character is in each kind of state.
LEMMA CharOf ==
    ASSUME LinkInv, NEW d \in Desc
    PROVE  /\ con[d] = "PLAYING" \/ con[d] \in LoginStates =>
                dchar[d] \in Char /\ char[dchar[d]] \in CharData
                /\ char[dchar[d]].desc = d
           /\ con[d] = "PLAYING" => dchar[d] \in char_list
BY NoneAssumption DEF LinkInv, TypeOK, LinkConsistent

LEMMA BodyOf ==
    ASSUME LinkInv, NEW c \in char_list
    PROVE  c \in Char /\ char[c] \in CharData
BY DEF LinkInv, TypeOK, LinkConsistent

\* What is saved is a file.
LEMMA SavedType ==
    ASSUME LinkInv, NEW r \in CharData
    PROVE  Snap(r) \in FileData /\ Saved(r) \in [Name -> FileData \cup {None}]
<1>1. Snap(r) \in FileData
  BY DEF CharData, FileData, Snap
<1>2. r.name \in Name
  BY DEF CharData
<1> QED BY <1>1, <1>2, InvNow DEF Saved

\* What is loaded is a character of its connection.
LEMMA LoadType ==
    ASSUME NEW d \in Desc, NEW n \in Name, NEW f \in FileData
    PROVE  /\ Load(d, n, f) \in CharData
           /\ Load(d, n, f).desc = d /\ Load(d, n, f).name = n
<1>1. 0 \in 0..(IdleTimer + 1)
  BY TimerAssumption
<1> QED BY <1>1 DEF Load, FileData, CharData

\* A change of a character that neither moves it nor gives it away.
LEMMA CharStep ==
    ASSUME LinkInv, NEW c \in Char, char[c] # None,
           NEW r \in CharData, r.desc = char[c].desc,
           con' = con, dchar' = dchar, char_list' = char_list,
           char' = [char EXCEPT ![c] = r]
    PROVE  Links(con', dchar', char', char_list')
<1>1. Links(con, dchar, char, char_list)
  BY InvNow
<1>2. con' \in [Desc -> ConStates] /\ char' \in [Char -> CharData \cup {None}]
  BY <1>1 DEF Links, LinkTypes
<1>3. \A x \in Char : \/ char'[x] = char[x]
                      \/ /\ char[x] # None /\ char'[x] # None
                         /\ char'[x].desc = char[x].desc
  BY <1>1, DataAssumption DEF Links, LinkTypes
<1>4. Links(con', dchar, char', char_list)
  BY <1>1, <1>2, <1>3, SameLinks
<1> QED BY <1>4

\* A step of the dialogue from one kind of state to the same kind.
LEMMA GotoStep ==
    ASSUME LinkInv, NEW d \in Desc, NEW s \in ConStates, Goto(d, s),
           \/ con[d] \in LoginStates /\ s \in LoginStates
           \/ /\ con[d] \in NamelessStates \cup {"FREE"}
              /\ s \in NamelessStates \cup {"FREE"}
    PROVE  LinkInvNext
<1>1. Links(con, dchar, char, char_list)
  BY InvNow
<1>2. con' \in [Desc -> ConStates] /\ char \in [Char -> CharData \cup {None}]
  BY <1>1 DEF Links, LinkTypes, Goto
<1>3. \A x \in Desc : \/ con'[x] = con[x]
                      \/ con[x] \in LoginStates /\ con'[x] \in LoginStates
                      \/ /\ con[x] \in NamelessStates \cup {"FREE"}
                         /\ con'[x] \in NamelessStates \cup {"FREE"}
  BY <1>1 DEF Links, LinkTypes, Goto
<1>4. Links(con', dchar, char, char_list)
  BY <1>1, <1>2, <1>3, SameLinks
<1> QED BY <1>4, InvNow DEF LinkInvNext, Goto

LEMMA CloseStep ==
    ASSUME LinkInv, NEW D \in SUBSET Desc, CloseSocket(D)
    PROVE  Links(con', dchar', char', char_list') /\ newer' \subseteq Desc \X Desc
BY InvNow, CloseLinks DEF CloseSocket, CloseNewer

LEMMA QuitStep ==
    ASSUME LinkInv, NEW S \in SUBSET char_list, Quit(S)
    PROVE  Links(con', dchar', char', char_list') /\ newer' \subseteq Desc \X Desc
<1>1. Links(con, dchar, char, char_list) /\ char \in [Char -> CharData \cup {None}]
  BY InvNow DEF Links, LinkTypes
<1> QED BY <1>1, InvNow, RemoveLinks DEF Quit, CloseNewer

LEMMA DropStep ==
    ASSUME LinkInv, NEW d \in Desc, con[d] \in LoginStates, AskNameAgain(d)
    PROVE  LinkInvNext
BY InvNow, DropLinks DEF AskNameAgain, LinkInvNext

LEMMA RestartStep ==
    ASSUME LinkInv, Restart
    PROVE  /\ Links(con', dchar', char', char_list')
           /\ newer' \subseteq Desc \X Desc /\ nextId' \in 0..MaxId
BY InvNow, NoLinks DEF Restart

-----------------------------------------------------------------------------
LEMMA LoginStep ==
    ASSUME LinkInv, NEW d \in Desc, Login(d)
    PROVE  LinkInvNext
<1>0. /\ "GET_CODEPAGE" \in NamelessStates /\ "GET_NAME" \in NamelessStates
      /\ {"GET_OLD_PASSWORD", "GET_NUM_REGANSWER", "BREAK_CONNECT", "CONFIRM_NEW_NAME",
          "GET_NEW_PASSWORD"} \subseteq LoginStates
      /\ CreationStates \subseteq LoginStates
      /\ MotdStates \subseteq LoginStates
      /\ "READ_MOTD" \in LoginStates /\ "READ_IMOTD" \in LoginStates
  BY DEF NamelessStates, LoginStates, CreationStates, MotdStates, NextCon
<1>1. CASE Accept(d)
  <2>1. Links(con, dchar, char, char_list)
    BY InvNow
  <2>2. con' \in [Desc -> ConStates] /\ char \in [Char -> CharData \cup {None}]
    BY <1>0, <1>1, <2>1, States DEF Accept, Links, LinkTypes
  <2>3. \A x \in Desc : \/ con'[x] = con[x]
                        \/ /\ con[x] \in NamelessStates \cup {"FREE"}
                           /\ con'[x] \in NamelessStates \cup {"FREE"}
    BY <1>0, <1>1, <2>1 DEF Accept, Links, LinkTypes
  <2>4. Links(con', dchar, char, char_list)
    BY <2>1, <2>2, <2>3, SameLinks
  <2>5. newer' \subseteq Desc \X Desc
    BY <1>1, InvNow DEF Accept, Live
  <2> QED BY <1>1, <2>4, <2>5, InvNow DEF LinkInvNext, Accept
<1>2. CASE GetCodepage(d)
  BY <1>0, <1>2, GotoStep, States DEF GetCodepage
<1>3. CASE EmptyName(d)
  BY <1>3, CloseStep, InvNow DEF EmptyName, LinkInvNext
<1>4. ASSUME NEW n \in Name, NEW c \in Char, NEW r \in BOOLEAN, GetName(d, n, c, r)
      PROVE  LinkInvNext
  <2> DEFINE f    == IF file[n] = None THEN Blank ELSE file[n]
             fOld == file[n] # None \/ Bodies(n) # {}
             next == IF r \/ (~fOld /\ NewLock) THEN "FREE"
                     ELSE IF fOld THEN "GET_OLD_PASSWORD" ELSE "CONFIRM_NEW_NAME"
  <2>1. nextId' \in 0..MaxId /\ file' \in [Name -> FileData \cup {None}]
    BY <1>4, InvNow, BoundAssumption DEF GetName
  <2>2. CASE next = "FREE"
    <3>1. CloseSocket({d})
      BY <1>4, <2>2 DEF GetName
    <3> QED BY <2>1, <3>1, CloseStep DEF LinkInvNext
  <2>3. CASE next # "FREE"
    <3>1. f \in FileData
      <4>1. CASE file[n] = None
        <5>1. nextId + 1 \in 0..MaxId /\ 0 \in 0..MaxVer /\ 0 \in 0..MaxErrs
          BY <1>4, <4>1, InvNow, BoundAssumption DEF GetName
        <5> QED BY <4>1, <5>1 DEF Blank, FileData
      <4>2. CASE file[n] # None
        BY <4>2, InvNow
      <4> QED BY <4>1, <4>2
    <3>2. Load(d, n, f) \in CharData /\ Load(d, n, f).desc = d
      BY <3>1, LoadType
    <3>3. next \in LoginStates
      BY <1>0, <2>3
    <3>4. /\ con[d] \in NamelessStates /\ char[c] = None
          /\ con' = [con EXCEPT ![d] = next]
          /\ dchar' = [dchar EXCEPT ![d] = c]
          /\ char' = [char EXCEPT ![c] = Load(d, n, f)]
          /\ newer' = newer /\ char_list' = char_list
      BY <1>0, <1>4, <2>3 DEF GetName
    <3> HIDE DEF f, next
    <3>5. Links(con', dchar', char', char_list')
      BY <3>2, <3>3, <3>4, InvNow, AttachLinks
    <3> QED BY <2>1, <3>4, <3>5, InvNow DEF LinkInvNext
  <2> QED BY <2>2, <2>3
<1>5. CASE OldPassword(d)
  BY <1>0, <1>5, GotoStep, States DEF OldPassword
<1>6. CASE BadPassword(d)
  BY <1>6, CloseStep, InvNow DEF BadPassword, LinkInvNext
<1>7. CASE RightAnswer(d)
  <2>1. CASE \E s \in MotdStates \cup {"BREAK_CONNECT"} : Goto(d, s)
    BY <1>0, <1>7, <2>1, GotoStep, States DEF RightAnswer
  <2>2. ASSUME NEW c \in LinkDead(char[dchar[d]].name),
               con' = [con EXCEPT ![d] = "PLAYING"],
               dchar' = [dchar EXCEPT ![d] = c],
               char' = TakeBody(d, c, char),
               UNCHANGED <<newer, char_list, file, nextId>>
        PROVE  LinkInvNext
    <3>1. c \in char_list /\ char[c].desc = None /\ con[d] \in LoginStates
      BY <1>0, <1>7 DEF LinkDead, Bodies, RightAnswer
    <3>2. Links(con', dchar', char', char_list)
      BY <2>2, <3>1, InvNow, TakeLinks DEF TakeBody
    <3> QED BY <2>2, <3>2, InvNow DEF LinkInvNext
  <2> QED BY <1>7, <2>1, <2>2 DEF RightAnswer
<1>8. CASE WrongAnswer(d)
  <2> DEFINE c == char[dchar[d]]
             e == IF c.errs = MaxErrs THEN MaxErrs ELSE c.errs + 1
  <2>1. c \in CharData
    BY <1>0, <1>8, CharOf DEF WrongAnswer
  <2>2. e \in 0..MaxErrs
    BY <2>1, BoundAssumption DEF CharData
  <2>3. [c EXCEPT !.errs = e] \in CharData
    BY <2>1, <2>2 DEF CharData
  <2>4. Saved([c EXCEPT !.errs = e]) \in [Name -> FileData \cup {None}]
    BY <2>3, SavedType
  <2> QED BY <1>8, <2>4, CloseStep, InvNow DEF WrongAnswer, LinkInvNext
<1>9. CASE BreakConnectYes(d)
  <2> DEFINE n  == char[dchar[d]].name
             D  == {e \in Desc \ {d} : Named(e, n)}
             ch == CloseChar(D)
             B  == {c \in Bodies(n) : ch[c].desc = None}
  <2>1. Links(CloseCon(D), CloseDchar(D), ch, char_list)
    BY InvNow, CloseLinks
  <2>2. CloseCon(D)[d] \in LoginStates /\ CloseDchar(D)[d] = dchar[d]
    BY <1>0, <1>9 DEF BreakConnectYes, CloseCon, CloseDchar
  <2>3. newer' \subseteq Desc \X Desc
    BY <1>9, InvNow DEF BreakConnectYes, CloseNewer
  <2>4. UNCHANGED <<char_list, file, nextId>>
    BY <1>9 DEF BreakConnectYes
  <2>5. ASSUME NEW c \in B,
               con' = [CloseCon(D) EXCEPT ![d] = "PLAYING"],
               dchar' = [CloseDchar(D) EXCEPT ![d] = c],
               char' = TakeBody(d, c, ch)
        PROVE  LinkInvNext
    <3>1. c \in char_list /\ ch[c].desc = None
      BY DEF Bodies
    <3> HIDE DEF ch, D
    <3>2. Links(con', dchar', char', char_list)
      BY <2>1, <2>2, <2>5, <3>1, TakeLinks DEF TakeBody
    <3> QED BY <2>3, <2>4, <3>2, InvNow DEF LinkInvNext
  <2>6. ASSUME con' = [CloseCon(D) EXCEPT ![d] = "GET_NAME"],
               dchar' = [CloseDchar(D) EXCEPT ![d] = None],
               char' = [ch EXCEPT ![dchar[d]] = None]
        PROVE  LinkInvNext
    <3> HIDE DEF ch, D
    <3>1. Links(con', dchar', char', char_list)
      BY <2>1, <2>2, <2>6, DropLinks
    <3> QED BY <2>3, <2>4, <3>1, InvNow DEF LinkInvNext
  <2> QED BY <1>9, <2>5, <2>6 DEF BreakConnectYes
<1>10. CASE BreakConnectNo(d)
  BY <1>0, <1>10, DropStep DEF BreakConnectNo
<1>11. CASE ConfirmNameYes(d)
  <2>1. CASE Goto(d, "GET_NEW_PASSWORD")
    BY <1>0, <1>11, <2>1, GotoStep, States DEF ConfirmNameYes
  <2>2. CASE CloseSocket({d}) /\ UNCHANGED <<file, nextId>>
    BY <2>2, CloseStep, InvNow DEF LinkInvNext
  <2>3. CASE Restart /\ UNCHANGED file
    BY <2>3, RestartStep, InvNow DEF LinkInvNext
  <2> QED BY <1>11, <2>1, <2>2, <2>3 DEF ConfirmNameYes
<1>12. CASE ConfirmNameNo(d)
  BY <1>0, <1>12, DropStep DEF ConfirmNameNo
<1>13. CASE Create(d)
  <2> DEFINE c == dchar[d]
  <2>1. c \in Char /\ char[c] \in CharData /\ con[d] \in LoginStates
    BY <1>0, <1>13, CharOf DEF Create
  <2>2. \A t \in CreationStates : NextCon[t] \subseteq LoginStates
    BY DEF LoginStates, CreationStates, MotdStates, NextCon
  <2>3. PICK s \in LoginStates : con' = [con EXCEPT ![d] = s]
    BY <1>13, <2>2 DEF Create
  <2>4. PICK r \in CharData : /\ r.desc = char[c].desc
                              /\ char' = [char EXCEPT ![c] = r]
    <3>1. ASSUME NEW a \in BOOLEAN
          PROVE  /\ [char[c] EXCEPT !.ans = a] \in CharData
                 /\ [char[c] EXCEPT !.ans = a].desc = char[c].desc
                 /\ [char[c] EXCEPT !.ath = a] \in CharData
                 /\ [char[c] EXCEPT !.ath = a].desc = char[c].desc
      BY <2>1 DEF CharData
    <3>2. char = [char EXCEPT ![c] = char[c]]
      BY InvNow DEF Links, LinkTypes
    <3>3. CASE char' = [char EXCEPT ![c].ans = TRUE]
      BY <3>1, <3>3
    <3>4. CASE \E a \in BOOLEAN : char' = [char EXCEPT ![c].ath = a]
      BY <3>1, <3>4
    <3>5. CASE char' = char
      BY <2>1, <3>2, <3>5
    <3> QED BY <1>13, <3>3, <3>4, <3>5 DEF Create
  <2>5. UNCHANGED <<dchar, newer, char_list, file, nextId>>
    BY <1>13 DEF Create
  <2> HIDE DEF c
  <2>6. Links(con, dchar, char, char_list)
    BY InvNow
  <2>7. con' \in [Desc -> ConStates] /\ char' \in [Char -> CharData \cup {None}]
    BY <2>3, <2>4, <2>6, States DEF Links, LinkTypes
  <2>8. \A x \in Desc : \/ con'[x] = con[x]
                        \/ con[x] \in LoginStates /\ con'[x] \in LoginStates
    BY <2>1, <2>3, <2>6 DEF Links, LinkTypes
  <2>9. \A x \in Char : \/ char'[x] = char[x]
                        \/ /\ char[x] # None /\ char'[x] # None
                           /\ char'[x].desc = char[x].desc
    BY <2>1, <2>4, <2>6, DataAssumption DEF Links, LinkTypes
  <2>10. Links(con', dchar, char', char_list)
    BY <2>6, <2>7, <2>8, <2>9, SameLinks
  <2> QED BY <2>5, <2>10, InvNow DEF LinkInvNext
<1>14. CASE ReadImotd(d)
  BY <1>0, <1>14, GotoStep, States DEF ReadImotd
<1>15. CASE ReadMotd(d)
  <2> DEFINE c == dchar[d]
             n == char[c].name
             f == IF char[c].errs > 0 THEN Saved([char[c] EXCEPT !.errs = 0]) ELSE file
  <2>1. c \in Char /\ char[c] \in CharData /\ char[c].desc = d /\ con[d] \in LoginStates
    BY <1>0, <1>15, CharOf DEF ReadMotd
  <2>2. n \in Name
    BY <2>1 DEF CharData
  <2>3. f \in [Name -> FileData \cup {None}]
    <3>1. [char[c] EXCEPT !.errs = 0] \in CharData
      BY <2>1, BoundAssumption DEF CharData
    <3> QED BY <3>1, SavedType, InvNow
  <2>4. PICK r \in CharData : /\ r.desc = d
                              /\ char' = [char EXCEPT ![c] = r]
                              /\ file' \in [Name -> FileData \cup {None}]
    <3>1. CASE char' = [char EXCEPT ![c].level = 1] /\ UNCHANGED file
      <4>1. [char[c] EXCEPT !.level = 1] \in CharData
            /\ [char[c] EXCEPT !.level = 1].desc = d
        BY <2>1 DEF CharData
      <4> QED BY <3>1, <4>1, InvNow
    <3>2. CASE /\ f[n] # None
               /\ char' = [char EXCEPT ![c] = Load(d, n, f[n])]
               /\ file' = f
      <4>1. f[n] \in FileData
        BY <2>2, <2>3, <3>2
      <4>2. Load(d, n, f[n]) \in CharData /\ Load(d, n, f[n]).desc = d
        BY <2>2, <4>1, LoadType
      <4> HIDE DEF f, n
      <4> QED BY <2>3, <3>2, <4>2
    <3> QED BY <1>15, <3>1, <3>2 DEF ReadMotd
  <2>5. /\ con' = [con EXCEPT ![d] = "PLAYING"]
        /\ char_list' = char_list \cup {c}
        /\ UNCHANGED <<dchar, newer, nextId>>
    BY <1>15 DEF ReadMotd
  <2>6. Links(con', dchar, char', char_list')
    BY <2>1, <2>4, <2>5, InvNow, EnterLinks
  <2> QED BY <2>4, <2>5, <2>6, InvNow DEF LinkInvNext
<1>16. CASE FileGone(d)
  BY <1>16, CloseStep, InvNow DEF FileGone, LinkInvNext
<1> QED BY <1>1, <1>2, <1>3, <1>4, <1>5, <1>6, <1>7, <1>8, <1>9, <1>10, <1>11, <1>12,
           <1>13, <1>14, <1>15, <1>16 DEF Login

LEMMA ConnectionStep ==
    ASSUME LinkInv, NEW d \in Desc, Close(d) \/ Player(d)
    PROVE  LinkInvNext
<1>1. con[d] = "PLAYING" =>
         /\ dchar[d] \in char_list
         /\ Saved(char[dchar[d]]) \in [Name -> FileData \cup {None}]
  BY CharOf, SavedType
<1>2. CASE LinkFails(d)
  BY <1>1, <1>2, CloseStep, InvNow DEF LinkFails, LinkInvNext
<1>3. CASE TimedOut(d)
  BY <1>3, CloseStep, InvNow DEF TimedOut, LinkInvNext
<1>4. CASE Disconnect(d)
  BY <1>4, CloseStep, InvNow DEF Disconnect, LinkInvNext
<1>5. CASE Command(d)
  <2> DEFINE c == dchar[d]
  <2>1. c \in Char /\ char[c] \in CharData
    BY <1>5, CharOf DEF Command
  <2>2. PICK v \in {char[c].ver, char[c].ver + 1}, h \in SUBSET Holds :
            /\ v <= MaxVer
            /\ char' = [char EXCEPT ![c].ver = v, ![c].timer = 0, ![c].voided = FALSE,
                                    ![c].hold = char[c].hold \cup h]
    BY <1>5 DEF Command
  <2>3. char' = [char EXCEPT ![c] = [char[c] EXCEPT !.ver = v, !.timer = 0, !.voided = FALSE,
                                                    !.hold = char[c].hold \cup h]]
    BY <2>1, <2>2, InvNow DEF Links, LinkTypes
  <2>4. v \in 0..MaxVer /\ 0 \in 0..(IdleTimer + 1) /\ char[c].hold \cup h \in SUBSET Holds
    BY <2>1, <2>2, BoundAssumption, TimerAssumption DEF CharData
  <2>5. [char[c] EXCEPT !.ver = v, !.timer = 0, !.voided = FALSE,
                        !.hold = char[c].hold \cup h] \in CharData
    BY <2>1, <2>4 DEF CharData
  <2>6. [char[c] EXCEPT !.ver = v, !.timer = 0, !.voided = FALSE,
                        !.hold = char[c].hold \cup h].desc = char[c].desc
    BY <2>1 DEF CharData
  <2>7. char[c] # None
    BY <2>1, DataAssumption
  <2>8. UNCHANGED <<con, dchar, newer, char_list, file, nextId>>
    BY <1>5 DEF Command
  <2> HIDE DEF c
  <2>9. Links(con', dchar', char', char_list')
    BY <2>1, <2>3, <2>5, <2>6, <2>7, <2>8, CharStep
  <2> QED BY <2>8, <2>9, InvNow DEF LinkInvNext
<1>6. CASE RegAnswer(d)
  <2>1. dchar[d] \in Char /\ char[dchar[d]] \in CharData
    BY <1>6, CharOf DEF RegAnswer
  <2>2. /\ [char[dchar[d]] EXCEPT !.ans = TRUE] \in CharData
        /\ [char[dchar[d]] EXCEPT !.ans = TRUE].desc = char[dchar[d]].desc
    BY <2>1 DEF CharData
  <2>3. char' = [char EXCEPT ![dchar[d]] = [char[dchar[d]] EXCEPT !.ans = TRUE]]
    BY <1>6 DEF RegAnswer
  <2>4. char[dchar[d]] # None
    BY <2>1, DataAssumption
  <2>5. UNCHANGED <<con, dchar, newer, char_list, file, nextId>>
    BY <1>6 DEF RegAnswer
  <2>6. Links(con', dchar', char', char_list')
    BY <2>1, <2>2, <2>3, <2>4, <2>5, CharStep
  <2> QED BY <2>5, <2>6, InvNow DEF LinkInvNext
<1>7. CASE QuitCommand(d)
  BY <1>1, <1>7, QuitStep, InvNow DEF QuitCommand, LinkInvNext
<1>8. CASE DeleteCommand(d)
  <2>1. file' \in [Name -> FileData \cup {None}]
    BY <1>8, InvNow DEF DeleteCommand
  <2> QED BY <1>1, <1>8, <2>1, QuitStep, InvNow DEF DeleteCommand, LinkInvNext
<1> QED BY <1>2, <1>3, <1>4, <1>5, <1>6, <1>7, <1>8 DEF Close, Player

LEMMA BodyStep ==
    ASSUME LinkInv, NEW c \in Char, Body(c)
    PROVE  LinkInvNext
<1>1. c \in char_list /\ char[c] \in CharData /\ char[c] # None
  <2>1. c \in char_list
    BY DEF Body, WorldActs, Settle, Save, Die, AtheistDies
  <2> QED BY <2>1, BodyOf, DataAssumption
<1>2. CASE WorldActs(c)
  <2>1. PICK v \in {char[c].ver, char[c].ver + 1}, h \in SUBSET Holds :
            /\ v <= MaxVer
            /\ char' = [char EXCEPT ![c].ver = v, ![c].hold = char[c].hold \cup h]
    BY <1>2 DEF WorldActs
  <2>2. v \in 0..MaxVer /\ char[c].hold \cup h \in SUBSET Holds
    BY <1>1, <2>1, BoundAssumption DEF CharData
  <2>3. /\ [char[c] EXCEPT !.ver = v, !.hold = char[c].hold \cup h] \in CharData
        /\ [char[c] EXCEPT !.ver = v, !.hold = char[c].hold \cup h].desc = char[c].desc
    BY <1>1, <2>2 DEF CharData
  <2>4. char' = [char EXCEPT ![c] = [char[c] EXCEPT !.ver = v, !.hold = char[c].hold \cup h]]
    BY <2>1, InvNow DEF Links, LinkTypes
  <2>5. UNCHANGED <<con, dchar, newer, char_list, file, nextId>>
    BY <1>2 DEF WorldActs
  <2>6. Links(con', dchar', char', char_list')
    BY <1>1, <2>3, <2>4, <2>5, CharStep
  <2> QED BY <2>5, <2>6, InvNow DEF LinkInvNext
<1>3. CASE Settle(c)
  <2>1. PICK h \in char[c].hold : char' = [char EXCEPT ![c].hold = char[c].hold \ {h}]
    BY <1>3 DEF Settle
  <2>2. /\ [char[c] EXCEPT !.hold = char[c].hold \ {h}] \in CharData
        /\ [char[c] EXCEPT !.hold = char[c].hold \ {h}].desc = char[c].desc
    BY <1>1 DEF CharData
  <2>3. char' = [char EXCEPT ![c] = [char[c] EXCEPT !.hold = char[c].hold \ {h}]]
    BY <2>1
  <2>4. UNCHANGED <<con, dchar, newer, char_list, file, nextId>>
    BY <1>3 DEF Settle
  <2>5. Links(con', dchar', char', char_list')
    BY <1>1, <2>2, <2>3, <2>4, CharStep
  <2> QED BY <2>4, <2>5, InvNow DEF LinkInvNext
<1>4. CASE Save(c)
  BY <1>1, <1>4, SavedType, InvNow DEF Save, LinkInvNext
<1>5. Dead(c) \in CharData /\ Dead(c).desc = char[c].desc
  <2> DEFINE v == IF char[c].ver = MaxVer THEN MaxVer ELSE char[c].ver + 1
             h == char[c].hold \ {"fight"}
  <2>1. v \in 0..MaxVer /\ h \in SUBSET Holds
    BY <1>1, BoundAssumption DEF CharData
  <2>2. Dead(c) = [char[c] EXCEPT !.ver = v, !.hold = h]
    BY DEF Dead
  <2> HIDE DEF v, h
  <2> QED BY <1>1, <2>1, <2>2 DEF CharData
<1>6. CASE Die(c)
  <2>1. Links(con', dchar', char', char_list')
    BY <1>1, <1>5, <1>6, CharStep DEF Die
  <2> QED BY <1>5, <1>6, <2>1, SavedType, InvNow DEF Die, LinkInvNext
<1>7. CASE AtheistDies(c)
  <2>1. file' \in [Name -> FileData \cup {None}] /\ nextId' \in 0..MaxId
    BY <1>7, InvNow DEF AtheistDies
  <2>2. CASE Quit({c})
    BY <1>1, <2>1, <2>2, QuitStep DEF LinkInvNext
  <2>3. CASE char' = [char EXCEPT ![c] = Dead(c)] /\ UNCHANGED <<con, dchar, newer, char_list>>
    <3>1. Links(con', dchar', char', char_list')
      BY <1>1, <1>5, <2>3, CharStep
    <3> QED BY <2>1, <2>3, <3>1, InvNow DEF LinkInvNext
  <2> QED BY <1>7, <2>2, <2>3 DEF AtheistDies
<1> QED BY <1>2, <1>3, <1>4, <1>6, <1>7 DEF Body

\* A tick changes a body, not its connection.
LEMMA TickedType ==
    ASSUME LinkInv, NEW c \in char_list
    PROVE  /\ Ticked(c) \in CharData
           /\ Ticked(c).desc = char[c].desc /\ Ticked(c).name = char[c].name
<1> DEFINE t    == IF char[c].timer > IdleTimer THEN char[c].timer ELSE char[c].timer + 1
           void == t >= VoidTimer /\ ~char[c].voided
           b    == char[c].voided \/ void
           h    == IF void THEN char[c].hold \ {"fight"} ELSE char[c].hold
<1>1. char[c] \in CharData
  BY BodyOf
<1>2. t \in 0..(IdleTimer + 1)
  BY <1>1, TimerAssumption DEF CharData
<1>3. b \in BOOLEAN
  BY <1>1 DEF CharData
<1>4. h \in SUBSET Holds
  BY <1>1 DEF CharData
<1>5. Ticked(c) = [char[c] EXCEPT !.timer = t, !.voided = b, !.hold = h]
  BY DEF Ticked
<1> HIDE DEF t, void, b, h
<1> QED BY <1>1, <1>2, <1>3, <1>4, <1>5 DEF CharData

LEMMA TickStep ==
    ASSUME LinkInv, CharUpdate
    PROVE  LinkInvNext
<1> DEFINE gone  == Removed(Quitting)
           saved == (char_list \ gone) \cup Quitting
           ch    == [c \in Char |-> IF c \in char_list THEN Ticked(c) ELSE char[c]]
<1>1. Links(con, dchar, char, char_list)
  BY InvNow
<1>2. Quitting \in SUBSET char_list
  BY DEF Quitting
<1>3. ch \in [Char -> CharData \cup {None}]
  BY <1>1, TickedType DEF Links, LinkTypes
<1>4. \A c \in Char : \/ ch[c] = char[c]
                      \/ /\ char[c] # None /\ ch[c] # None
                         /\ ch[c].desc = char[c].desc
  BY BodyOf, TickedType, DataAssumption
<1>5. char' = [c \in Char |-> IF c \in gone THEN None ELSE ch[c]]
  BY DEF CharUpdate
<1>6. /\ con' = CloseCon(Toasted(Quitting)) /\ dchar' = CloseDchar(Toasted(Quitting))
      /\ char_list' = char_list \ gone /\ newer' = CloseNewer(Toasted(Quitting))
      /\ nextId' = nextId
  BY DEF CharUpdate
<1>7. Links(con', dchar', char', char_list')
  <2> HIDE DEF ch
  <2> QED BY <1>1, <1>2, <1>3, <1>4, <1>5, <1>6, RemoveLinks
<1>8. newer' \subseteq Desc \X Desc
  BY <1>6, InvNow DEF CloseNewer
<1>9. file' \in [Name -> FileData \cup {None}]
  <2>1. PICK last \in [Name -> saved \cup {None}] :
          file' = [n \in Name |-> IF last[n] = None THEN file[n]
                                  ELSE Snap(Ticked(last[n]))]
    BY DEF CharUpdate
  <2>2. \A n \in Name : last[n] # None => Snap(Ticked(last[n])) \in FileData
    <3>1. saved \subseteq char_list
      BY <1>2
    <3> QED BY <3>1, TickedType, SavedType
  <2> QED BY <2>1, <2>2, InvNow
<1> QED BY <1>6, <1>7, <1>8, <1>9, InvNow DEF LinkInvNext

LEMMA RebootStep ==
    ASSUME LinkInv, Reboot
    PROVE  LinkInvNext
<1>1. file' \in [Name -> FileData \cup {None}]
  <2>1. PICK last \in [Name -> Desc \cup {None}] :
          /\ \A n \in Name :
               LET D == {d \in Desc : Named(d, n)}
               IN IF D = {} THEN last[n] = None
                  ELSE /\ last[n] \in D
                       /\ \A d \in D \ {last[n]} : <<d, last[n]>> \in newer
          /\ file' = [n \in Name |-> IF last[n] = None THEN file[n]
                                     ELSE Snap(char[dchar[last[n]]])]
    BY DEF Reboot
  <2>2. \A n \in Name : last[n] # None => last[n] \in Desc /\ dchar[last[n]] # None
    BY <2>1 DEF Named
  <2>3. \A n \in Name : last[n] # None => Snap(char[dchar[last[n]]]) \in FileData
    BY <2>2, CharOf, SavedType, InvNow, Owners
  <2> QED BY <2>1, <2>3, InvNow
<1>2. Restart
  BY DEF Reboot
<1> QED BY <1>1, <1>2, RestartStep DEF LinkInvNext

\* LinkInv is inductive.
LEMMA LinkInvInit == Init => LinkInv
<1> SUFFICES ASSUME Init PROVE LinkInv
  OBVIOUS
<1>1. TypeOK
  BY States, InitFileAssumption, BoundAssumption DEF Init, Memory, TypeOK
<1>2. LinkConsistent
  BY States DEF Init, Memory, LinkConsistent
<1> QED BY <1>1, <1>2 DEF LinkInv

LEMMA LinkInvStep == LinkInv /\ [Next]_vars => LinkInv'
<1> SUFFICES ASSUME LinkInv, [Next]_vars PROVE LinkInv'
  OBVIOUS
<1>1. ASSUME NEW d \in Desc, Login(d) \/ Close(d) \/ Player(d)
      PROVE  LinkInv'
  BY <1>1, LoginStep, ConnectionStep, InvNext
<1>2. ASSUME NEW c \in Char, Body(c)
      PROVE  LinkInv'
  BY <1>2, BodyStep, InvNext
<1>3. CASE CharUpdate
  BY <1>3, TickStep, InvNext
<1>4. CASE Reboot
  BY <1>4, RebootStep, InvNext
<1>5. CASE Crash
  BY <1>5, RestartStep, InvNow, InvNext DEF Crash, LinkInvNext
<1>6. CASE UNCHANGED vars
  BY <1>6 DEF vars, LinkInv, TypeOK, LinkConsistent
<1> QED BY <1>1, <1>2, <1>3, <1>4, <1>5, <1>6 DEF Next

\* Every variable has its type in every reachable state, for any number of
\* connections, characters, names and any player directory.
THEOREM TypeCorrect == Spec => []TypeOK
<1>1. LinkInv => TypeOK
  BY DEF LinkInv
<1> QED BY <1>1, LinkInvInit, LinkInvStep, PTL DEF Spec

\* A connection and its character always point at each other, whatever mixture of
\* logins, takeovers, losses of link, deaths, ticks and deletions comes before.
THEOREM LinksAlwaysConsistent == Spec => []LinkConsistent
<1>1. LinkInv => LinkConsistent
  BY DEF LinkInv
<1> QED BY <1>1, LinkInvInit, LinkInvStep, PTL DEF Spec
-----------------------------------------------------------------------------
(***************************************************************************)
(* Two connections never create characters with one name.                  *)
(***************************************************************************)

\* A character that is not in the world keeps its name as long as it is there.
KeepsNames(ch) == \A x \in Char \ char_list :
                     char[x] # None /\ ch[x] # None => ch[x].name = char[x].name

LEMMA CreationStrings ==
    /\ CreationStates \subseteq LoginStates
    /\ \A s \in {"FREE", "PLAYING", "GET_CODEPAGE", "GET_NAME", "GET_OLD_PASSWORD",
                 "GET_NUM_REGANSWER", "BREAK_CONNECT", "CONFIRM_NEW_NAME"} \cup MotdStates :
          s \notin CreationStates
BY DEF CreationStates, NextCon, LoginStates, MotdStates

\* The steps in which nobody begins a creation.
LEMMA CreationKept ==
    ASSUME LinkInv, LinkInv', OneCreation, KeepsNames(char'),
           \A d \in Desc : con'[d] \in CreationStates =>
                              con[d] \in CreationStates /\ dchar'[d] = dchar[d]
    PROVE  OneCreation'
<1>1. \A d \in Desc : con'[d] \in CreationStates =>
         /\ dchar[d] \in Char \ char_list /\ char[dchar[d]] # None
         /\ char'[dchar[d]] # None /\ dchar'[d] = dchar[d]
  BY CreationStrings, NoneAssumption DEF LinkInv, LinkConsistent
<1>2. \A d \in Desc : con'[d] \in CreationStates =>
         char'[dchar'[d]].name = char[dchar[d]].name
  BY <1>1 DEF KeepsNames
<1> QED BY <1>2 DEF OneCreation

\* Closing connections, and taking over a body, change the name of no character.
LEMMA CloseNames ==
    ASSUME LinkInv, NEW D \in SUBSET Desc
    PROVE  /\ KeepsNames(CloseChar(D))
           /\ \A d \in Desc : CloseCon(D)[d] \in CreationStates =>
                 con[d] \in CreationStates /\ CloseDchar(D)[d] = dchar[d]
<1>1. \A x \in Char \ char_list : x \notin Playing(D)
  BY CharOf DEF Playing
<1> QED BY <1>1, CreationStrings DEF KeepsNames, CloseChar, CloseCon, CloseDchar

LEMMA TakeNames ==
    ASSUME LinkInv, NEW d \in Desc, NEW c \in char_list, NEW ch, KeepsNames(ch),
           ch \in [Char -> CharData \cup {None}]
    PROVE  KeepsNames(TakeBody(d, c, ch))
BY BodyOf DEF KeepsNames, TakeBody

LEMMA LoginNames ==
    ASSUME LinkInv, NEW d \in Desc, Login(d)
    PROVE  /\ KeepsNames(char')
           /\ \A e \in Desc : con'[e] \in CreationStates /\ ~ConfirmNameYes(d) =>
                 con[e] \in CreationStates /\ dchar'[e] = dchar[e]
<1> USE CreationStrings DEF MotdStates
<1>0. /\ con \in [Desc -> ConStates] /\ dchar \in [Desc -> Char \cup {None}]
      /\ char \in [Char -> CharData \cup {None}]
  BY InvNow DEF Links, LinkTypes
<1>1. CASE \/ Accept(d) \/ GetCodepage(d) \/ OldPassword(d) \/ ReadImotd(d)
           \/ \E s \in MotdStates \cup {"BREAK_CONNECT", "GET_NEW_PASSWORD"} :
                 (RightAnswer(d) \/ ConfirmNameYes(d)) /\ Goto(d, s)
  BY <1>0, <1>1 DEF Accept, GetCodepage, OldPassword, ReadImotd, Goto, KeepsNames,
                    RightAnswer
<1>2. CASE CloseSocket({d})
  BY <1>2, CloseNames DEF CloseSocket
<1>3. ASSUME NEW n \in Name, NEW c \in Char, NEW r \in BOOLEAN, GetName(d, n, c, r),
             ~CloseSocket({d})
      PROVE  /\ KeepsNames(char')
             /\ \A e \in Desc : con'[e] \in CreationStates =>
                   con[e] \in CreationStates /\ dchar'[e] = dchar[e]
  <2>1. /\ char[c] = None /\ con[d] = "GET_NAME"
        /\ \E f : char' = [char EXCEPT ![c] = Load(d, n, f)]
        /\ dchar' = [dchar EXCEPT ![d] = c]
        /\ \E s \in {"GET_OLD_PASSWORD", "CONFIRM_NEW_NAME"} : con' = [con EXCEPT ![d] = s]
    BY <1>3 DEF GetName
  <2> QED BY <1>0, <2>1 DEF KeepsNames
<1>4. ASSUME NEW c \in LinkDead(char[dchar[d]].name),
             con' = [con EXCEPT ![d] = "PLAYING"], dchar' = [dchar EXCEPT ![d] = c],
             char' = TakeBody(d, c, char)
      PROVE  /\ KeepsNames(char')
             /\ \A e \in Desc : con'[e] \in CreationStates =>
                   con[e] \in CreationStates /\ dchar'[e] = dchar[e]
  <2>1. c \in char_list /\ KeepsNames(char)
    BY DEF LinkDead, Bodies, KeepsNames
  <2> QED BY <1>0, <1>4, <2>1, TakeNames
<1>5. CASE BreakConnectYes(d)
  <2> DEFINE n  == char[dchar[d]].name
             D  == {e \in Desc \ {d} : Named(e, n)}
             ch == CloseChar(D)
  <2>1. /\ CloseCon(D) \in [Desc -> ConStates]
        /\ CloseDchar(D) \in [Desc -> Char \cup {None}]
        /\ ch \in [Char -> CharData \cup {None}] /\ KeepsNames(ch)
    BY InvNow, CloseLinks, CloseNames DEF Links, LinkTypes
  <2>2. \A e \in Desc : CloseCon(D)[e] \in CreationStates =>
           con[e] \in CreationStates /\ CloseDchar(D)[e] = dchar[e]
    BY CloseNames
  <2>3. ASSUME NEW c \in Bodies(n), con' = [CloseCon(D) EXCEPT ![d] = "PLAYING"],
               dchar' = [CloseDchar(D) EXCEPT ![d] = c], char' = TakeBody(d, c, ch)
        PROVE  /\ KeepsNames(char')
               /\ \A e \in Desc : con'[e] \in CreationStates =>
                     con[e] \in CreationStates /\ dchar'[e] = dchar[e]
    <3>1. c \in char_list
      BY DEF Bodies
    <3> HIDE DEF n, D, ch
    <3> QED BY <2>1, <2>2, <2>3, <3>1, TakeNames
  <2>4. ASSUME con' = [CloseCon(D) EXCEPT ![d] = "GET_NAME"],
               dchar' = [CloseDchar(D) EXCEPT ![d] = None],
               char' = [ch EXCEPT ![dchar[d]] = None]
        PROVE  /\ KeepsNames(char')
               /\ \A e \in Desc : con'[e] \in CreationStates =>
                     con[e] \in CreationStates /\ dchar'[e] = dchar[e]
    <3> HIDE DEF n, D, ch
    <3> QED BY <2>1, <2>2, <2>4 DEF KeepsNames
  <2> QED BY <1>5, <2>3, <2>4 DEF BreakConnectYes
<1>6. CASE BreakConnectNo(d) \/ ConfirmNameNo(d)
  BY <1>0, <1>6 DEF BreakConnectNo, ConfirmNameNo, AskNameAgain, KeepsNames
<1>7. CASE ConfirmNameYes(d) /\ Restart
  BY <1>7 DEF Restart, KeepsNames
<1>8. CASE Create(d)
  <2>1. \A e \in Desc : con'[e] \in CreationStates => con[e] \in CreationStates
    BY <1>0, <1>8 DEF Create
  <2>2. KeepsNames(char')
    BY <1>0, <1>8 DEF Create, KeepsNames, CharData
  <2> QED BY <1>8, <2>1, <2>2 DEF Create
<1>9. CASE ReadMotd(d)
  <2>1. \A e \in Desc : con'[e] \in CreationStates => con[e] \in CreationStates
    BY <1>0, <1>9 DEF ReadMotd
  <2>2. KeepsNames(char')
    BY <1>0, <1>9 DEF ReadMotd, KeepsNames, CharData, Load
  <2> QED BY <1>9, <2>1, <2>2 DEF ReadMotd
<1> QED BY <1>1, <1>2, <1>3, <1>4, <1>5, <1>6, <1>7, <1>8, <1>9
        DEF Login, EmptyName, BadPassword, WrongAnswer, RightAnswer, ConfirmNameYes, FileGone

\* A new name that is confirmed has no rival in the dialogue.
LEMMA ConfirmCreation ==
    ASSUME LinkInv, LinkInv', OneCreation, NEW d \in Desc, ConfirmNameYes(d)
    PROVE  OneCreation'
<1>1. CASE Rivals(d) = {} /\ Goto(d, "GET_NEW_PASSWORD")
  <2>1. \A e \in Desc : con'[e] \in CreationStates => e = d \/ con[e] \in CreationStates
    BY <1>1, InvNow DEF Goto, Links, LinkTypes
  <2>2. \A e \in Desc \ {d} : con[e] \in CreationStates =>
           char[dchar[e]].name # char[dchar[d]].name
    BY <1>1, CreationStrings, CharOf, NoneAssumption DEF Rivals, Named
  <2> QED BY <1>1, <2>1, <2>2 DEF Goto, OneCreation
<1>2. CASE CloseSocket({d})
  BY <1>2, CloseNames, CreationKept DEF CloseSocket
<1>3. CASE Restart
  BY <1>3, CreationStrings DEF Restart, OneCreation
<1> QED BY <1>1, <1>2, <1>3 DEF ConfirmNameYes

\* Outside the dialogue a character without a body is only freed.
LEMMA PlayNames ==
    ASSUME LinkInv,
           \/ \E d \in Desc : Close(d) \/ Player(d)
           \/ \E c \in Char : Body(c)
           \/ CharUpdate
    PROVE  /\ KeepsNames(char')
           /\ \A e \in Desc : con'[e] \in CreationStates =>
                 con[e] \in CreationStates /\ dchar'[e] = dchar[e]
<1>0. char \in [Char -> CharData \cup {None}]
  BY InvNow DEF Links, LinkTypes
<1>1. ASSUME NEW d \in Desc, Close(d)
      PROVE  CloseSocket({d})
  BY <1>1 DEF Close, LinkFails, TimedOut, Disconnect
<1>2. ASSUME NEW S, Quit(S)
      PROVE  /\ KeepsNames(char')
             /\ \A e \in Desc : con'[e] \in CreationStates =>
                   con[e] \in CreationStates /\ dchar'[e] = dchar[e]
  BY <1>2, CreationStrings DEF Quit, KeepsNames, CloseCon, CloseDchar
<1>3. ASSUME NEW c \in char_list, \A x \in Char \ {c} : char'[x] = char[x],
             con' = con, dchar' = dchar
      PROVE  /\ KeepsNames(char')
             /\ \A e \in Desc : con'[e] \in CreationStates =>
                   con[e] \in CreationStates /\ dchar'[e] = dchar[e]
  BY <1>3 DEF KeepsNames
<1>4. ASSUME NEW d \in Desc, Player(d)
      PROVE  \/ Quit({dchar[d]})
             \/ /\ dchar[d] \in char_list /\ con' = con /\ dchar' = dchar
                /\ \A x \in Char \ {dchar[d]} : char'[x] = char[x]
  BY <1>0, <1>4, CharOf DEF Player, Command, RegAnswer, QuitCommand, DeleteCommand
<1>5. ASSUME NEW c \in Char, Body(c)
      PROVE  \/ Quit({c})
             \/ /\ c \in char_list /\ con' = con /\ dchar' = dchar
                /\ \A x \in Char \ {c} : char'[x] = char[x]
  BY <1>0, <1>5 DEF Body, WorldActs, Settle, Save, Die, AtheistDies
<1>6. CASE CharUpdate
  BY <1>6, CreationStrings DEF CharUpdate, KeepsNames, CloseCon, CloseDchar
<1> QED BY <1>1, <1>2, <1>3, <1>4, <1>5, <1>6, CloseNames DEF CloseSocket

\* Two connections never create characters with one name, whoever else logs in,
\* plays or is cut off: a new name is refused as long as a rival holds it.
THEOREM CreatedOnce == Spec => []OneCreation
<1>1. Init => OneCreation
  BY CreationStrings DEF Init, Memory, OneCreation
<1>2. LinkInv /\ OneCreation /\ [Next]_vars => OneCreation'
  <2> SUFFICES ASSUME LinkInv, OneCreation, [Next]_vars PROVE OneCreation'
    OBVIOUS
  <2>1. LinkInv'
    BY LinkInvStep
  <2>2. ASSUME NEW d \in Desc, Login(d)
        PROVE  OneCreation'
    BY <2>1, <2>2, ConfirmCreation, LoginNames, CreationKept
  <2>3. CASE \/ \E d \in Desc : Close(d) \/ Player(d)
             \/ \E c \in Char : Body(c)
             \/ CharUpdate
    BY <2>1, <2>3, PlayNames, CreationKept
  <2>4. CASE Reboot \/ Crash
    BY <2>4, CreationStrings DEF Reboot, Crash, Restart, OneCreation
  <2>5. CASE UNCHANGED vars
    BY <2>5 DEF vars, OneCreation
  <2> QED BY <2>2, <2>3, <2>4, <2>5 DEF Next
<1> QED BY <1>1, <1>2, LinkInvInit, LinkInvStep, PTL DEF Spec

-----------------------------------------------------------------------------
(***************************************************************************)
(* One body per name.                                                      *)
(***************************************************************************)

Good(r) == r.ans /\ ~r.ath /\ r.level = 1

\* The inductive invariant.  Nobody can skip the registration question (Good), so
\* that everybody passes check_playing() before the message of the day; and the
\* file of a body exists, so that its name is never taken for a new one.
RegInv ==
    /\ \A n \in Name : file[n] # None => Good(file[n])
    /\ \A c \in Char : char[c] # None => Good(char[c])
    /\ \A d \in Desc : con[d] \notin {"CONFIRM_NEW_NAME"} \cup CreationStates
    /\ \A c \in char_list : file[char[c].name] # None
    /\ \A c1, c2 \in char_list : char[c1].name = char[c2].name => c1 = c2
    /\ \A d \in Desc : con[d] \in MotdStates =>
          \A c \in char_list : char[c].name # char[dchar[d]].name
    /\ \A d, e \in Desc :
          (/\ con[d] \in MotdStates /\ con[e] \in MotdStates
           /\ char[dchar[d]].name = char[dchar[e]].name) => d = e

\* The states in which a connection neither waits to enter the world nor creates a
\* character.
Neutral == {"FREE", "GET_CODEPAGE", "GET_NAME", "GET_OLD_PASSWORD", "GET_NUM_REGANSWER",
            "BREAK_CONNECT", "PLAYING"}

SameWho(r, s) == /\ r.name = s.name /\ r.ans = s.ans
                 /\ r.ath = s.ath /\ r.level = s.level

LEMMA NeutralStates ==
    /\ \A s \in Neutral : /\ s \notin {"CONFIRM_NEW_NAME"} \cup CreationStates
                          /\ s \notin MotdStates
    /\ \A s \in MotdStates : /\ s \notin {"CONFIRM_NEW_NAME"} \cup CreationStates
                             /\ s \in LoginStates /\ s # "PLAYING"
BY DEF Neutral, MotdStates, CreationStates, NextCon, LoginStates

\* The steps in which nobody comes closer to the world.
LEMMA Keeps ==
    ASSUME LinkInv, LinkInv', RegInv,
           \A n \in Name : file'[n] # None => Good(file'[n]),
           \A c \in Char : char'[c] # None => char[c] # None /\ SameWho(char'[c], char[c]),
           char_list' \subseteq char_list,
           \A c \in char_list' : file'[char[c].name] # None,
           \A d \in Desc : \/ con'[d] = con[d] /\ dchar'[d] = dchar[d]
                           \/ con'[d] \in Neutral
                           \/ /\ con[d] \in MotdStates /\ con'[d] \in MotdStates
                              /\ dchar'[d] = dchar[d]
    PROVE  RegInv'
<1>1. \A c \in char_list' : c \in Char /\ c \in char_list /\ char'[c].name = char[c].name
  BY DEF LinkInv, TypeOK, LinkConsistent, SameWho
<1>2. \A d \in Desc : con'[d] \in MotdStates =>
         /\ con[d] \in MotdStates /\ dchar'[d] = dchar[d] /\ dchar[d] \in Char
         /\ char'[dchar[d]].name = char[dchar[d]].name
  BY NeutralStates, NoneAssumption DEF LinkInv, TypeOK, LinkConsistent, SameWho
<1>3. \A c \in Char : char'[c] # None => Good(char'[c])
  BY DEF RegInv, Good, SameWho
<1>4. \A d \in Desc : con'[d] \notin {"CONFIRM_NEW_NAME"} \cup CreationStates
  BY NeutralStates DEF RegInv
<1>5. \A c \in char_list' : file'[char'[c].name] # None
  BY <1>1
<1>6. \A c1, c2 \in char_list' : char'[c1].name = char'[c2].name => c1 = c2
  BY <1>1 DEF RegInv
<1>7. \A d \in Desc : con'[d] \in MotdStates =>
          \A c \in char_list' : char'[c].name # char'[dchar'[d]].name
  BY <1>1, <1>2 DEF RegInv
<1>8. \A d, e \in Desc :
          (/\ con'[d] \in MotdStates /\ con'[e] \in MotdStates
           /\ char'[dchar'[d]].name = char'[dchar'[e]].name) => d = e
  BY <1>2 DEF RegInv
<1> QED BY <1>3, <1>4, <1>5, <1>6, <1>7, <1>8 DEF RegInv

\* Saving a good character leaves good files, and none fewer.
LEMMA SavedGood ==
    ASSUME LinkInv, RegInv, NEW r \in CharData, Good(r)
    PROVE  /\ \A n \in Name : Saved(r)[n] # None => Good(Saved(r)[n])
           /\ \A n \in Name : file[n] # None => Saved(r)[n] # None
<1>1. Good(Snap(r)) /\ Snap(r) # None
  BY SavedType, DataAssumption DEF Snap, Good
<1>2. \A n \in Name : Saved(r)[n] = IF n = r.name THEN Snap(r) ELSE file[n]
  BY InvNow DEF Saved
<1> QED BY <1>1, <1>2 DEF RegInv

\* Closing connections.
LEMMA CloseWho ==
    ASSUME LinkInv, NEW D \in SUBSET Desc
    PROVE  /\ \A c \in Char : CloseChar(D)[c] # None =>
                char[c] # None /\ SameWho(CloseChar(D)[c], char[c])
           /\ \A d \in Desc : \/ CloseCon(D)[d] = con[d] /\ CloseDchar(D)[d] = dchar[d]
                              \/ CloseCon(D)[d] \in Neutral
<1>1. ASSUME NEW c \in Char, CloseChar(D)[c] # None
      PROVE  char[c] # None /\ SameWho(CloseChar(D)[c], char[c])
  <2>1. CASE c \in Playing(D)
    <3>1. c \in char_list
      BY <2>1, CharOf DEF Playing
    <3>2. char[c] \in CharData
      BY <3>1, BodyOf
    <3>3. CloseChar(D)[c] = [char[c] EXCEPT !.desc = None]
      BY <2>1 DEF CloseChar
    <3> QED BY <3>2, <3>3, DataAssumption DEF SameWho, CharData
  <2>2. CASE c \notin Playing(D)
    BY <1>1, <2>2 DEF CloseChar, SameWho
  <2> QED BY <2>1, <2>2
<1>2. \A d \in Desc : \/ CloseCon(D)[d] = con[d] /\ CloseDchar(D)[d] = dchar[d]
                      \/ CloseCon(D)[d] \in Neutral
  BY DEF CloseCon, CloseDchar, Neutral
<1> QED BY <1>1, <1>2

\* A step that closes connections and saves at most one character.
LEMMA CloseReg ==
    ASSUME LinkInv, LinkInv', RegInv, NEW D \in SUBSET Desc, CloseSocket(D),
           \/ file' = file
           \/ \E r \in CharData : Good(r) /\ file' = Saved(r)
    PROVE  RegInv'
<1>1. /\ \A n \in Name : file'[n] # None => Good(file'[n])
      /\ \A n \in Name : file[n] # None => file'[n] # None
  BY SavedGood DEF RegInv
<1>2. \A c \in char_list : char[c].name \in Name
  BY BodyOf DEF CharData
<1>3. /\ char_list' = char_list
      /\ \A c \in char_list' : file'[char[c].name] # None
  BY <1>1, <1>2 DEF CloseSocket, RegInv
<1> QED BY <1>1, <1>3, CloseWho, Keeps DEF CloseSocket

\* A step that only changes one character's play, and perhaps saves it.
LEMMA CharReg ==
    ASSUME LinkInv, LinkInv', RegInv,
           NEW c \in Char, char[c] # None, NEW r, SameWho(r, char[c]),
           char' = [char EXCEPT ![c] = r],
           UNCHANGED <<con, dchar, char_list>>,
           \/ file' = file
           \/ \E s \in CharData : Good(s) /\ file' = Saved(s)
    PROVE  RegInv'
<1>1. /\ \A n \in Name : file'[n] # None => Good(file'[n])
      /\ \A n \in Name : file[n] # None => file'[n] # None
  BY SavedGood DEF RegInv
<1>2. \A x \in char_list : char[x].name \in Name
  BY BodyOf DEF CharData
<1>3. \A x \in char_list' : file'[char[x].name] # None
  BY <1>1, <1>2 DEF RegInv
<1>4. \A x \in Char : char'[x] # None => char[x] # None /\ SameWho(char'[x], char[x])
  BY InvNow DEF Links, LinkTypes, SameWho
<1> QED BY <1>1, <1>3, <1>4, Keeps

LEMMA CharGood ==
    ASSUME LinkInv, RegInv
    PROVE  /\ \A d \in Desc : con[d] = "PLAYING" \/ con[d] \in LoginStates =>
                /\ dchar[d] \in Char /\ char[dchar[d]] \in CharData
                /\ char[dchar[d]] # None /\ Good(char[dchar[d]])
           /\ \A c \in char_list : /\ c \in Char /\ char[c] \in CharData
                                   /\ char[c] # None /\ Good(char[c])
BY CharOf, BodyOf, DataAssumption DEF RegInv

-----------------------------------------------------------------------------
\* A connection moves between states of the dialogue, not towards the world.
LEMMA GotoReg ==
    ASSUME LinkInv, LinkInv', RegInv, NEW d \in Desc, NEW s, Goto(d, s),
           s \in Neutral \/ (con[d] \in MotdStates /\ s \in MotdStates)
    PROVE  RegInv'
<1>1. \A x \in Desc : \/ con'[x] = con[x] /\ dchar'[x] = dchar[x]
                      \/ con'[x] \in Neutral
                      \/ /\ con[x] \in MotdStates /\ con'[x] \in MotdStates
                         /\ dchar'[x] = dchar[x]
  BY InvNow DEF Goto, Links, LinkTypes
<1>2. UNCHANGED <<char, char_list, file>>
  BY DEF Goto
<1> QED BY <1>1, <1>2, Keeps DEF RegInv, SameWho

\* A connection that has passed check_playing() and finds no body of its name.
LEMMA EntranceReg ==
    ASSUME LinkInv, LinkInv', RegInv, NEW d \in Desc, con[d] = "GET_NUM_REGANSWER",
           NEW s \in MotdStates, Goto(d, s),
           ~AlreadyPlaying(d, char[dchar[d]].name), LinkDead(char[dchar[d]].name) = {}
    PROVE  RegInv'
<1> DEFINE n == char[dchar[d]].name
<1>1. con[d] \in LoginStates
  BY DEF LoginStates
<1>2. \A e \in Desc \ {d} : con[e] = "PLAYING" \/ con[e] \in MotdStates =>
         char[dchar[e]].name # n
  <2>1. \A e \in Desc : con[e] = "PLAYING" \/ con[e] \in MotdStates =>
           dchar[e] # None /\ con[e] \notin {"GET_NAME", "GET_OLD_PASSWORD"}
    BY CharGood, NeutralStates, NoneAssumption DEF Neutral
  <2> QED BY <2>1 DEF AlreadyPlaying, Named
<1>3. \A c \in char_list : char[c].name # n
  <2>1. ASSUME NEW c \in char_list, char[c].name = n
        PROVE  FALSE
    <3>1. char[c].desc # None
      BY <2>1 DEF LinkDead, Bodies
    <3>2. char[c].desc \in Desc /\ dchar[char[c].desc] = c
      BY <3>1, CharGood DEF LinkInv, LinkConsistent, CharData
    <3>3. con[char[c].desc] = "PLAYING"
      BY <3>2, InvNow, Owners, CharGood, NoneAssumption
    <3>4. char[c].desc # d
      BY <3>3
    <3> QED BY <1>2, <2>1, <3>2, <3>3, <3>4
  <2> QED BY <2>1
<1>4. /\ \A e \in Desc : con'[e] = IF e = d THEN s ELSE con[e]
      /\ UNCHANGED <<dchar, char, char_list, file>>
  BY InvNow DEF Goto, Links, LinkTypes
<1>5. \A e \in Desc : con'[e] \notin {"CONFIRM_NEW_NAME"} \cup CreationStates
  BY <1>4, NeutralStates DEF RegInv
<1>6. \A e \in Desc : con'[e] \in MotdStates =>
         \A c \in char_list : char[c].name # char[dchar[e]].name
  BY <1>3, <1>4 DEF RegInv
<1>7. \A e, f \in Desc :
         (/\ con'[e] \in MotdStates /\ con'[f] \in MotdStates
          /\ char[dchar[e]].name = char[dchar[f]].name) => e = f
  BY <1>2, <1>4 DEF RegInv
<1> QED BY <1>4, <1>5, <1>6, <1>7 DEF RegInv

\* A character enters the world.
LEMMA EnterReg ==
    ASSUME LinkInv, LinkInv', RegInv, NEW d \in Desc, ReadMotd(d)
    PROVE  RegInv'
<1> DEFINE c == dchar[d]
           n == char[c].name
           f == IF char[c].errs > 0 THEN Saved([char[c] EXCEPT !.errs = 0]) ELSE file
<1>1. con[d] \in LoginStates /\ con[d] \in MotdStates
  BY DEF LoginStates, MotdStates, ReadMotd
<1>2. /\ c \in Char /\ char[c] \in CharData /\ char[c] # None /\ Good(char[c])
      /\ n \in Name
  BY <1>1, CharGood DEF CharData
<1>3. /\ f[n] # None /\ file' = f
      /\ char' = [char EXCEPT ![c] = Load(d, n, f[n])]
      /\ con' = [con EXCEPT ![d] = "PLAYING"]
      /\ char_list' = char_list \cup {c}
      /\ UNCHANGED dchar
  BY <1>2 DEF ReadMotd, Good
<1>4. /\ \A m \in Name : f[m] # None => Good(f[m])
      /\ \A m \in Name : file[m] # None => f[m] # None
  <2>1. [char[c] EXCEPT !.errs = 0] \in CharData /\ Good([char[c] EXCEPT !.errs = 0])
    BY <1>2, BoundAssumption DEF CharData, Good
  <2> QED BY <2>1, SavedGood DEF RegInv
<1>5. Good(f[n])
  BY <1>2, <1>3, <1>4
<1> HIDE DEF f, n
<1>6. SameWho(Load(d, n, f[n]), char[c])
  <2>1. f[n] \in FileData
    BY <1>2, <1>3 DEF LinkInv, TypeOK
  <2>2. /\ f[n].ans = TRUE /\ f[n].ath = FALSE /\ f[n].level = 1
        /\ char[c].ans = TRUE /\ char[c].ath = FALSE /\ char[c].level = 1
    BY <1>2, <1>5, <2>1 DEF Good, FileData, CharData
  <2> QED BY <2>2 DEF Load, SameWho, n
<1>7. \A x \in Char : /\ char'[x] # None => char[x] # None /\ SameWho(char'[x], char[x])
                      /\ char[x] # None => char'[x].name = char[x].name
  BY <1>2, <1>3, <1>6, InvNow DEF SameWho, Links, LinkTypes
<1>8. \A x \in Char : char'[x] # None => Good(char'[x])
  BY <1>7 DEF RegInv, Good, SameWho
<1>9. \A e \in Desc : con'[e] = IF e = d THEN "PLAYING" ELSE con[e]
  BY <1>3, InvNow DEF Links, LinkTypes
<1>10. \A e \in Desc : con'[e] \notin {"CONFIRM_NEW_NAME"} \cup CreationStates
  BY <1>9, NeutralStates DEF RegInv, Neutral
<1>11. \A x \in char_list : char[x].name # n
  BY <1>1 DEF RegInv, n
<1>12. \A x \in char_list' : /\ x \in Char /\ char[x] # None /\ char[x].name \in Name
                             /\ char'[x].name = char[x].name
  BY <1>2, <1>3, <1>7, CharGood DEF CharData
<1>13. \A x \in char_list' : file'[char'[x].name] # None
  <2>1. \A x \in char_list : f[char[x].name] # None
    BY <1>3, <1>4, <1>12 DEF RegInv
  <2>2. f[char[c].name] # None
    BY <1>3 DEF n
  <2> QED BY <1>3, <1>12, <2>1, <2>2
<1>14. \A x, y \in char_list' : char'[x].name = char'[y].name => x = y
  BY <1>3, <1>11, <1>12 DEF RegInv, n
<1>15. \A e \in Desc : con'[e] \in MotdStates =>
          /\ e # d /\ con[e] \in MotdStates /\ char[dchar[e]].name # n
          /\ char'[dchar[e]].name = char[dchar[e]].name
  BY <1>1, <1>7, <1>9, CharGood, NeutralStates DEF RegInv, n, Neutral
<1>16. \A e \in Desc : con'[e] \in MotdStates =>
          \A x \in char_list' : char'[x].name # char'[dchar'[e]].name
  BY <1>3, <1>12, <1>15 DEF RegInv, n
<1>17. \A e, g \in Desc :
          (/\ con'[e] \in MotdStates /\ con'[g] \in MotdStates
           /\ char'[dchar'[e]].name = char'[dchar'[g]].name) => e = g
  BY <1>3, <1>15 DEF RegInv
<1> QED BY <1>3, <1>4, <1>8, <1>10, <1>13, <1>14, <1>16, <1>17 DEF RegInv

-----------------------------------------------------------------------------
\* The process ends.
LEMMA EndReg ==
    ASSUME LinkInv, LinkInv', RegInv, Restart,
           \A n \in Name : file'[n] # None => Good(file'[n])
    PROVE  RegInv'
<1>1. \A d \in Desc : con'[d] \in Neutral
  BY DEF Restart, Neutral
<1> QED BY <1>1, Keeps DEF Restart

\* Bodies leave the world, after they are saved or their names are deleted.
LEMMA QuitReg ==
    ASSUME LinkInv, LinkInv', RegInv, NEW c \in char_list, Quit({c}),
           \/ file' = Saved(char[c])
           \/ file' = [file EXCEPT ![char[c].name] = None]
    PROVE  RegInv'
<1>1. /\ c \in Char /\ char[c] \in CharData /\ Good(char[c])
      /\ char[c].name \in Name
  BY CharGood DEF CharData
<1>2. /\ \A n \in Name : file'[n] # None => Good(file'[n])
      /\ \A n \in Name : n # char[c].name /\ file[n] # None => file'[n] # None
  BY <1>1, SavedGood, InvNow DEF RegInv
<1>3. char_list' \subseteq char_list /\ c \notin char_list'
  BY DEF Quit, Removed
<1>4. \A x \in char_list' : file'[char[x].name] # None
  <2>1. \A x \in char_list' : char[x].name # char[c].name /\ char[x].name \in Name
    BY <1>3, CharGood DEF RegInv, CharData
  <2> QED BY <1>2, <1>3, <2>1 DEF RegInv
<1>5. \A x \in Char : char'[x] # None => char[x] # None /\ SameWho(char'[x], char[x])
  BY DEF Quit, SameWho
<1>6. \A d \in Desc : \/ con'[d] = con[d] /\ dchar'[d] = dchar[d]
                      \/ con'[d] \in Neutral
  BY DEF Quit, CloseCon, CloseDchar, Neutral
<1> QED BY <1>2, <1>3, <1>4, <1>5, <1>6, Keeps

LEMMA GetNameReg ==
    ASSUME NewLock, LinkInv, LinkInv', RegInv,
           NEW d \in Desc, NEW n \in Name, NEW c \in Char, NEW r \in BOOLEAN,
           GetName(d, n, c, r)
    PROVE  RegInv'
<1> DEFINE f    == IF file[n] = None THEN Blank ELSE file[n]
           fOld == file[n] # None \/ Bodies(n) # {}
           next == IF r \/ (~fOld /\ NewLock) THEN "FREE"
                   ELSE IF fOld THEN "GET_OLD_PASSWORD" ELSE "CONFIRM_NEW_NAME"
<1>1. CASE next = "FREE"
  <2>1. CloseSocket({d}) /\ file' = file
    BY <1>1 DEF GetName
  <2> QED BY <2>1, CloseReg
<1>2. CASE next # "FREE"
  <2>1. file[n] # None /\ next = "GET_OLD_PASSWORD"
    <3>1. Bodies(n) # {} => file[n] # None
      BY DEF RegInv, Bodies
    <3> QED BY <1>2, <3>1
  <2>2. /\ con' = [con EXCEPT ![d] = "GET_OLD_PASSWORD"]
        /\ dchar' = [dchar EXCEPT ![d] = c]
        /\ char' = [char EXCEPT ![c] = Load(d, n, file[n])]
        /\ UNCHANGED <<char_list, file>> /\ char[c] = None
    BY <1>2, <2>1 DEF GetName
  <2>3. Good(Load(d, n, file[n]))
    BY <2>1 DEF RegInv, Good, Load
  <2>4. /\ \A x \in Char : char'[x] = IF x = c THEN Load(d, n, file[n]) ELSE char[x]
        /\ \A e \in Desc : con'[e] = IF e = d THEN "GET_OLD_PASSWORD" ELSE con[e]
        /\ \A e \in Desc : e # d => dchar'[e] = dchar[e]
    BY <2>2, InvNow DEF Links, LinkTypes
  <2>5. \A x \in char_list : x \in Char /\ char'[x] = char[x]
    BY <2>2, <2>4, CharGood
  <2>6. \A e \in Desc : con'[e] \in MotdStates =>
           /\ con[e] \in MotdStates /\ dchar'[e] = dchar[e]
           /\ char'[dchar[e]] = char[dchar[e]]
    <3>1. \A e \in Desc : con[e] \in MotdStates => dchar[e] \in Char /\ char[dchar[e]] # None
      BY CharGood, NeutralStates
    <3>2. "GET_OLD_PASSWORD" \notin MotdStates
      BY DEF MotdStates
    <3> QED BY <2>2, <2>4, <3>1, <3>2
  <2>7. \A e \in Desc : con'[e] \notin {"CONFIRM_NEW_NAME"} \cup CreationStates
    BY <2>4, NeutralStates DEF RegInv, Neutral
  <2>8. \A x \in Char : char'[x] # None => Good(char'[x])
    BY <2>3, <2>4 DEF RegInv
  <2>9. /\ \A x \in char_list' : file'[char'[x].name] # None
        /\ \A x, y \in char_list' : char'[x].name = char'[y].name => x = y
    BY <2>2, <2>5 DEF RegInv
  <2>10. \A e \in Desc : con'[e] \in MotdStates =>
           \A x \in char_list' : char'[x].name # char'[dchar'[e]].name
    BY <2>2, <2>5, <2>6 DEF RegInv
  <2>11. \A e, g \in Desc :
           (/\ con'[e] \in MotdStates /\ con'[g] \in MotdStates
            /\ char'[dchar'[e]].name = char'[dchar'[g]].name) => e = g
    BY <2>6 DEF RegInv
  <2> QED BY <2>2, <2>7, <2>8, <2>9, <2>10, <2>11 DEF RegInv
<1> QED BY <1>1, <1>2

LEMMA TakeWho ==
    ASSUME LinkInv, NEW d \in Desc, con[d] \in LoginStates, NEW D \in SUBSET Desc,
           NEW c \in char_list, NEW ch, ch = CloseChar(D) \/ ch = char,
           ch[c] # None
    PROVE  \A x \in Char : TakeBody(d, c, ch)[x] # None =>
              char[x] # None /\ SameWho(TakeBody(d, c, ch)[x], char[x])
<1>1. dchar[d] \in Char /\ c \in Char /\ char[c] \in CharData /\ dchar[d] # c
  BY CharOf, BodyOf, InvNow, Owners, States
<1>2. \A x \in Char : ch[x] # None => char[x] # None /\ SameWho(ch[x], char[x])
  BY CloseWho DEF SameWho
<1>3. ch \in [Char -> CharData \cup {None}]
  BY InvNow, CloseLinks DEF Links, LinkTypes
<1>4. \A x \in Char : /\ x = dchar[d] => TakeBody(d, c, ch)[x] = None
                      /\ x # dchar[d] /\ x # c => TakeBody(d, c, ch)[x] = ch[x]
  BY <1>1, <1>3 DEF TakeBody
<1>5. TakeBody(d, c, ch)[c] = [ch[c] EXCEPT !.desc = d, !.timer = 0]
  BY <1>1, <1>3 DEF TakeBody
<1>6. SameWho([ch[c] EXCEPT !.desc = d, !.timer = 0], ch[c])
  BY <1>1, <1>3 DEF SameWho, CharData
<1>7. SameWho(TakeBody(d, c, ch)[c], char[c]) /\ char[c] # None
  BY <1>1, <1>2, <1>5, <1>6 DEF SameWho
<1> QED BY <1>2, <1>4, <1>7

LEMMA LoginReg ==
    ASSUME NewLock, LinkInv, LinkInv', RegInv, NEW d \in Desc, Login(d)
    PROVE  RegInv'
<1>1. CASE Accept(d)
  <2>1. \A x \in Desc : \/ con'[x] = con[x] /\ dchar'[x] = dchar[x]
                        \/ con'[x] \in Neutral
    BY <1>1, InvNow DEF Accept, Links, LinkTypes, Neutral
  <2> QED BY <1>1, <2>1, Keeps DEF Accept, RegInv, SameWho
<1>2. CASE GetCodepage(d)
  BY <1>2, GotoReg DEF GetCodepage, Neutral
<1>3. CASE EmptyName(d)
  BY <1>3, CloseReg DEF EmptyName
<1>4. CASE \E n \in Name, c \in Char, r \in BOOLEAN : GetName(d, n, c, r)
  BY <1>4, GetNameReg
<1>5. CASE OldPassword(d)
  <2>1. con[d] \in LoginStates
    BY <1>5 DEF OldPassword, LoginStates
  <2>2. Goto(d, "GET_NUM_REGANSWER")
    BY <1>5, <2>1, CharGood DEF OldPassword, Good
  <2> QED BY <2>2, GotoReg DEF Neutral
<1>6. CASE BadPassword(d)
  BY <1>6, CloseReg DEF BadPassword
<1>7. CASE RightAnswer(d)
  <2> DEFINE n == char[dchar[d]].name
  <2>0. con[d] \in LoginStates
    BY <1>7 DEF RightAnswer, LoginStates
  <2>1. CASE Goto(d, "BREAK_CONNECT")
    BY <2>1, GotoReg DEF Neutral
  <2>2. ASSUME NEW c \in LinkDead(n),
               con' = [con EXCEPT ![d] = "PLAYING"],
               dchar' = [dchar EXCEPT ![d] = c],
               char' = TakeBody(d, c, char),
               UNCHANGED <<newer, char_list, file, nextId>>
        PROVE  RegInv'
    <3>1. c \in char_list /\ char[c] # None
      BY CharGood DEF LinkDead, Bodies
    <3>2. \A x \in Char : char'[x] # None => char[x] # None /\ SameWho(char'[x], char[x])
      BY <2>0, <2>2, <3>1, TakeWho
    <3>3. \A x \in Desc : \/ con'[x] = con[x] /\ dchar'[x] = dchar[x]
                          \/ con'[x] \in Neutral
      BY <2>2, InvNow DEF Links, LinkTypes, Neutral
    <3> QED BY <2>2, <3>2, <3>3, Keeps DEF RegInv
  <2>3. CASE ~AlreadyPlaying(d, n) /\ LinkDead(n) = {} /\ \E s \in MotdStates : Goto(d, s)
    BY <1>7, <2>3, EntranceReg DEF RightAnswer
  <2> QED BY <1>7, <2>1, <2>2, <2>3 DEF RightAnswer
<1>8. CASE WrongAnswer(d)
  <2> DEFINE c == char[dchar[d]]
             e == IF c.errs = MaxErrs THEN MaxErrs ELSE c.errs + 1
  <2>1. con[d] \in LoginStates
    BY <1>8 DEF WrongAnswer, LoginStates
  <2>2. c \in CharData /\ Good(c)
    BY <2>1, CharGood
  <2>3. e \in 0..MaxErrs
    BY <2>2, BoundAssumption DEF CharData
  <2>4. [c EXCEPT !.errs = e] \in CharData /\ Good([c EXCEPT !.errs = e])
    <3> HIDE DEF e
    <3> QED BY <2>2, <2>3 DEF CharData, Good
  <2> QED BY <1>8, <2>4, CloseReg DEF WrongAnswer
<1>9. CASE BreakConnectYes(d)
  <2> DEFINE n  == char[dchar[d]].name
             D  == {e \in Desc \ {d} : Named(e, n)}
             ch == CloseChar(D)
             B  == {c \in Bodies(n) : ch[c].desc = None}
  <2>1. con[d] \in LoginStates /\ UNCHANGED <<char_list, file>>
    BY <1>9 DEF BreakConnectYes, LoginStates
  <2>2. /\ CloseCon(D) \in [Desc -> ConStates] /\ CloseDchar(D) \in [Desc -> Char \cup {None}]
        /\ ch \in [Char -> CharData \cup {None}]
        /\ \A c \in char_list : ch[c] # None
    BY InvNow, CloseLinks DEF Links, LinkTypes, Owned
  <2>3. ASSUME NEW s \in Neutral, NEW c,
               con' = [CloseCon(D) EXCEPT ![d] = s],
               dchar' = [CloseDchar(D) EXCEPT ![d] = c]
        PROVE  \A x \in Desc : \/ con'[x] = con[x] /\ dchar'[x] = dchar[x]
                               \/ con'[x] \in Neutral
    BY <2>2, <2>3, CloseWho
  <2>4. ASSUME NEW c \in B,
               con' = [CloseCon(D) EXCEPT ![d] = "PLAYING"],
               dchar' = [CloseDchar(D) EXCEPT ![d] = c],
               char' = TakeBody(d, c, ch)
        PROVE  RegInv'
    <3>1. c \in char_list
      BY DEF Bodies
    <3>2. \A x \in Char : char'[x] # None => char[x] # None /\ SameWho(char'[x], char[x])
      BY <2>1, <2>2, <2>4, <3>1, TakeWho
    <3>3. \A x \in Desc : \/ con'[x] = con[x] /\ dchar'[x] = dchar[x]
                          \/ con'[x] \in Neutral
      BY <2>3, <2>4 DEF Neutral
    <3> QED BY <2>1, <3>2, <3>3, Keeps DEF RegInv
  <2>5. ASSUME con' = [CloseCon(D) EXCEPT ![d] = "GET_NAME"],
               dchar' = [CloseDchar(D) EXCEPT ![d] = None],
               char' = [ch EXCEPT ![dchar[d]] = None]
        PROVE  RegInv'
    <3>1. \A x \in Char : char'[x] # None => char[x] # None /\ SameWho(char'[x], char[x])
      BY <2>2, <2>5, CloseWho
    <3>2. \A x \in Desc : \/ con'[x] = con[x] /\ dchar'[x] = dchar[x]
                          \/ con'[x] \in Neutral
      BY <2>3, <2>5 DEF Neutral
    <3> QED BY <2>1, <3>1, <3>2, Keeps DEF RegInv
  <2> QED BY <1>9, <2>4, <2>5 DEF BreakConnectYes
<1>10. CASE BreakConnectNo(d)
  <2>1. \A x \in Char : char'[x] # None => char[x] # None /\ SameWho(char'[x], char[x])
    BY <1>10, InvNow DEF BreakConnectNo, AskNameAgain, Links, LinkTypes, SameWho
  <2>2. \A x \in Desc : \/ con'[x] = con[x] /\ dchar'[x] = dchar[x]
                        \/ con'[x] \in Neutral
    BY <1>10, InvNow DEF BreakConnectNo, AskNameAgain, Links, LinkTypes, Neutral
  <2> QED BY <1>10, <2>1, <2>2, Keeps DEF BreakConnectNo, AskNameAgain, RegInv
<1>11. CASE ConfirmNameYes(d) \/ ConfirmNameNo(d) \/ Create(d)
  BY <1>11 DEF RegInv, ConfirmNameYes, ConfirmNameNo, Create
<1>12. CASE ReadImotd(d)
  BY <1>12, GotoReg DEF ReadImotd, MotdStates
<1>13. CASE ReadMotd(d)
  BY <1>13, EnterReg
<1>14. CASE FileGone(d)
  BY <1>14, CloseReg DEF FileGone
<1> QED BY <1>1, <1>2, <1>3, <1>4, <1>5, <1>6, <1>7, <1>8, <1>9, <1>10, <1>11, <1>12,
           <1>13, <1>14 DEF Login

LEMMA ConnectionReg ==
    ASSUME LinkInv, LinkInv', RegInv, NEW d \in Desc, Close(d) \/ Player(d)
    PROVE  RegInv'
<1>1. con[d] = "PLAYING" =>
         /\ dchar[d] \in char_list /\ dchar[d] \in Char
         /\ char[dchar[d]] \in CharData /\ char[dchar[d]] # None /\ Good(char[dchar[d]])
  BY CharOf, CharGood
<1>2. CASE LinkFails(d)
  BY <1>1, <1>2, CloseReg DEF LinkFails
<1>3. CASE TimedOut(d) \/ Disconnect(d)
  BY <1>3, CloseReg DEF TimedOut, Disconnect
<1>4. CASE Command(d)
  <2> DEFINE c == dchar[d]
  <2>1. PICK v \in {char[c].ver, char[c].ver + 1}, h \in SUBSET Holds :
            char' = [char EXCEPT ![c].ver = v, ![c].timer = 0, ![c].voided = FALSE,
                                 ![c].hold = char[c].hold \cup h]
    BY <1>4 DEF Command
  <2>2. char' = [char EXCEPT ![c] = [char[c] EXCEPT !.ver = v, !.timer = 0, !.voided = FALSE,
                                                    !.hold = char[c].hold \cup h]]
    BY <1>1, <1>4, <2>1, InvNow DEF Links, LinkTypes, Command
  <2>3. SameWho([char[c] EXCEPT !.ver = v, !.timer = 0, !.voided = FALSE,
                                !.hold = char[c].hold \cup h], char[c])
    BY <1>1, <1>4 DEF SameWho, CharData, Command
  <2>4. UNCHANGED <<con, dchar, char_list, file>>
    BY <1>4 DEF Command
  <2>5. c \in Char /\ char[c] # None
    BY <1>1, <1>4 DEF Command
  <2> HIDE DEF c
  <2> QED BY <2>2, <2>3, <2>4, <2>5, CharReg
<1>5. CASE RegAnswer(d)
  BY <1>1, <1>5 DEF RegAnswer, Good
<1>6. CASE QuitCommand(d)
  BY <1>1, <1>6, QuitReg DEF QuitCommand
<1>7. CASE DeleteCommand(d)
  BY <1>1, <1>7, QuitReg DEF DeleteCommand
<1> QED BY <1>2, <1>3, <1>4, <1>5, <1>6, <1>7 DEF Close, Player

LEMMA BodyReg ==
    ASSUME LinkInv, LinkInv', RegInv, NEW c \in Char, Body(c)
    PROVE  RegInv'
<1>1. c \in char_list /\ char[c] \in CharData /\ char[c] # None /\ Good(char[c])
  <2>1. c \in char_list
    BY DEF Body, WorldActs, Settle, Save, Die, AtheistDies
  <2> QED BY <2>1, CharGood
<1>2. CASE WorldActs(c)
  <2>1. PICK v \in {char[c].ver, char[c].ver + 1}, h \in SUBSET Holds :
            char' = [char EXCEPT ![c].ver = v, ![c].hold = char[c].hold \cup h]
    BY <1>2 DEF WorldActs
  <2>2. char' = [char EXCEPT ![c] = [char[c] EXCEPT !.ver = v, !.hold = char[c].hold \cup h]]
    BY <2>1, InvNow DEF Links, LinkTypes
  <2>3. SameWho([char[c] EXCEPT !.ver = v, !.hold = char[c].hold \cup h], char[c])
    BY <1>1 DEF SameWho, CharData
  <2> QED BY <1>1, <1>2, <2>2, <2>3, CharReg DEF WorldActs
<1>3. CASE Settle(c)
  <2>1. PICK h \in char[c].hold : char' = [char EXCEPT ![c].hold = char[c].hold \ {h}]
    BY <1>3 DEF Settle
  <2>2. char' = [char EXCEPT ![c] = [char[c] EXCEPT !.hold = char[c].hold \ {h}]]
    BY <2>1
  <2>3. SameWho([char[c] EXCEPT !.hold = char[c].hold \ {h}], char[c])
    BY <1>1 DEF SameWho, CharData
  <2> QED BY <1>1, <1>3, <2>2, <2>3, CharReg DEF Settle
<1>4. CASE Save(c)
  <2>1. char' = [char EXCEPT ![c] = char[c]] /\ SameWho(char[c], char[c])
    BY <1>4, InvNow DEF Save, Links, LinkTypes, SameWho
  <2> QED BY <1>1, <1>4, <2>1, CharReg DEF Save
<1>5. CASE Die(c)
  <2>1. Dead(c) \in CharData /\ SameWho(Dead(c), char[c]) /\ Good(Dead(c))
    <3> DEFINE v == IF char[c].ver = MaxVer THEN MaxVer ELSE char[c].ver + 1
               h == char[c].hold \ {"fight"}
    <3>1. v \in 0..MaxVer /\ h \in SUBSET Holds
      BY <1>1, BoundAssumption DEF CharData
    <3>2. Dead(c) = [char[c] EXCEPT !.ver = v, !.hold = h]
      BY DEF Dead
    <3> HIDE DEF v, h
    <3> QED BY <1>1, <3>1, <3>2 DEF CharData, SameWho, Good
  <2> QED BY <1>1, <1>5, <2>1, CharReg DEF Die
<1>6. CASE AtheistDies(c)
  BY <1>1, <1>6 DEF AtheistDies, Good
<1> QED BY <1>2, <1>3, <1>4, <1>5, <1>6 DEF Body

LEMMA TickedGood ==
    ASSUME LinkInv, RegInv, NEW c \in char_list
    PROVE  /\ SameWho(Ticked(c), char[c]) /\ Ticked(c) \in CharData
           /\ Good(Snap(Ticked(c))) /\ Snap(Ticked(c)) # None
<1> DEFINE t    == IF char[c].timer > IdleTimer THEN char[c].timer ELSE char[c].timer + 1
           void == t >= VoidTimer /\ ~char[c].voided
           b    == char[c].voided \/ void
           h    == IF void THEN char[c].hold \ {"fight"} ELSE char[c].hold
<1>1. Ticked(c) = [char[c] EXCEPT !.timer = t, !.voided = b, !.hold = h]
  BY DEF Ticked
<1> HIDE DEF t, void, b, h
<1>2. SameWho(Ticked(c), char[c])
  BY <1>1, CharGood DEF CharData, SameWho
<1>3. Good(Ticked(c)) /\ Ticked(c) \in CharData
  BY <1>2, CharGood, TickedType DEF SameWho, Good
<1>4. Good(Snap(Ticked(c)))
  BY <1>3 DEF Snap, Good
<1> QED BY <1>2, <1>3, <1>4, SavedType, DataAssumption

LEMMA TickReg ==
    ASSUME LinkInv, LinkInv', RegInv, CharUpdate
    PROVE  RegInv'
<1> DEFINE gone  == Removed(Quitting)
           saved == (char_list \ gone) \cup Quitting
<1>1. saved \subseteq char_list
  BY DEF Quitting
<1>2. PICK last \in [Name -> saved \cup {None}] :
          file' = [n \in Name |-> IF last[n] = None THEN file[n]
                                  ELSE Snap(Ticked(last[n]))]
  BY DEF CharUpdate
<1>3. /\ \A n \in Name : file'[n] # None => Good(file'[n])
      /\ \A n \in Name : file[n] # None => file'[n] # None
  <2>1. \A n \in Name : last[n] # None => last[n] \in char_list
    BY <1>1
  <2> QED BY <1>2, <2>1, TickedGood DEF RegInv
<1>4. char_list' \subseteq char_list
  BY DEF CharUpdate
<1>5. \A c \in char_list' : file'[char[c].name] # None
  BY <1>3, <1>4, CharGood DEF RegInv, CharData
<1>6. \A c \in Char : char'[c] # None => char[c] # None /\ SameWho(char'[c], char[c])
  <2>1. \A c \in Char : \/ char'[c] = None
                        \/ c \in char_list /\ char'[c] = Ticked(c)
                        \/ char'[c] = char[c]
    BY DEF CharUpdate
  <2> QED BY <2>1, TickedGood, CharGood DEF SameWho
<1>7. \A d \in Desc : \/ con'[d] = con[d] /\ dchar'[d] = dchar[d]
                      \/ con'[d] \in Neutral
  BY DEF CharUpdate, CloseCon, CloseDchar, Neutral
<1> QED BY <1>3, <1>4, <1>5, <1>6, <1>7, Keeps

LEMMA RebootReg ==
    ASSUME LinkInv, LinkInv', RegInv, Reboot
    PROVE  RegInv'
<1>1. PICK last \in [Name -> Desc \cup {None}] :
        /\ \A n \in Name :
             LET D == {d \in Desc : Named(d, n)}
             IN IF D = {} THEN last[n] = None
                ELSE /\ last[n] \in D
                     /\ \A d \in D \ {last[n]} : <<d, last[n]>> \in newer
        /\ file' = [n \in Name |-> IF last[n] = None THEN file[n]
                                   ELSE Snap(char[dchar[last[n]]])]
  BY DEF Reboot
<1>2. \A n \in Name : last[n] # None => last[n] \in Desc /\ dchar[last[n]] # None
  BY <1>1 DEF Named
<1>3. \A d \in Desc : dchar[d] # None => Good(char[dchar[d]])
  BY CharGood, InvNow, Owners
<1>4. \A n \in Name : last[n] # None => Good(Snap(char[dchar[last[n]]]))
  BY <1>2, <1>3 DEF Snap, Good
<1>5. \A n \in Name : file'[n] # None => Good(file'[n])
  BY <1>1, <1>4 DEF RegInv
<1>6. Restart
  BY DEF Reboot
<1> QED BY <1>5, <1>6, EndReg
-----------------------------------------------------------------------------
LEMMA RegInvInit == Registered /\ Init => RegInv
<1> SUFFICES ASSUME Registered, Init PROVE RegInv
  OBVIOUS
<1>1. \A n \in Name : file[n] # None => Good(file[n])
  BY DEF Registered, Init, Good
<1>2. \A d \in Desc : con[d] \in Neutral
  BY DEF Init, Memory, Neutral
<1> QED BY <1>1, <1>2, NeutralStates DEF Init, Memory, RegInv

LEMMA RegInvStep == NewLock /\ LinkInv /\ RegInv /\ [Next]_vars => RegInv'
<1> SUFFICES ASSUME NewLock, LinkInv, RegInv, [Next]_vars PROVE RegInv'
  OBVIOUS
<1>1. LinkInv'
  BY LinkInvStep
<1>2. ASSUME NEW d \in Desc, Login(d) \/ Close(d) \/ Player(d)
      PROVE  RegInv'
  BY <1>1, <1>2, LoginReg, ConnectionReg
<1>3. ASSUME NEW c \in Char, Body(c)
      PROVE  RegInv'
  BY <1>1, <1>3, BodyReg
<1>4. CASE CharUpdate
  BY <1>1, <1>4, TickReg
<1>5. CASE Reboot
  BY <1>1, <1>5, RebootReg
<1>6. CASE Crash
  BY <1>1, <1>6, EndReg DEF Crash, RegInv
<1>7. CASE UNCHANGED vars
  BY <1>7 DEF vars, RegInv
<1> QED BY <1>2, <1>3, <1>4, <1>5, <1>6, <1>7 DEF Next

\* The invariant of a closed server; of any other server it says nothing.
ClosedInv == LinkInv /\ (Registered => RegInv)

LEMMA ClosedInvAlways == Spec => []ClosedInv
<1>1. Init => ClosedInv
  BY LinkInvInit, RegInvInit DEF ClosedInv
<1>2. ClosedInv /\ [Next]_vars => ClosedInv'
  BY LinkInvStep, RegInvStep DEF ClosedInv, Registered
<1> QED BY <1>1, <1>2, PTL DEF Spec

\* On a closed server where every player has a registration answer nobody is in the
\* world twice, for any number of connections, names and characters.
THEOREM PlaysOnceWhenRegistered == Spec => []OneBodyPerName
<1>1. ClosedInv => OneBodyPerName
  BY DEF ClosedInv, RegInv, OneBodyPerName
<1> QED BY <1>1, ClosedInvAlways, PTL

\* There, too, whoever waits to enter the world waits alone and has no body in it.
THEOREM EntersAlone == Spec => []OneEntrance
<1>1. ClosedInv => OneEntrance
  <2> SUFFICES ASSUME LinkInv, RegInv
               PROVE  \A d \in Desc : con[d] \in MotdStates =>
                        LET n == char[dchar[d]].name
                        IN /\ Bodies(n) = {}
                           /\ \A e \in Desc : con[e] \in MotdStates /\ Named(e, n) => d = e
    BY DEF ClosedInv, OneEntrance
  <2> QED BY DEF RegInv, Bodies, Named
<1> QED BY <1>1, ClosedInvAlways, PTL

-----------------------------------------------------------------------------
(***************************************************************************)
(* Copies and files.                                                       *)
(***************************************************************************)

\* The inductive invariant.  A character has the identifier of its file, by which
\* do_quit() finds the copies of a body.  A copy is never ahead of the body of its
\* name, and while there is no body it is what the file holds.
FreshInv ==
    /\ \A c \in Char : char[c] # None =>
          /\ file[char[c].name] # None
          /\ char[c].id = file[char[c].name].id
    /\ \A c \in char_list : file[char[c].name].ver <= char[c].ver
    /\ \A x \in Char \ char_list : char[x] # None =>
          /\ \A c \in char_list : char[c].name = char[x].name => char[x].ver <= char[c].ver
          /\ (\A c \in char_list : char[c].name # char[x].name)
                => char[x].ver = file[char[x].name].ver

SameCopy(r, s) == r.name = s.name /\ r.id = s.id /\ r.ver = s.ver

LEMMA Typed ==
    ASSUME LinkInv
    PROVE  /\ char_list \subseteq Char
           /\ \A c \in char_list : char[c] # None
           /\ \A c \in Char : char[c] # None =>
                /\ char[c] \in CharData /\ char[c].name \in Name /\ char[c].ver \in Nat
           /\ \A n \in Name : file[n] # None => file[n] \in FileData /\ file[n].ver \in Nat
<1>1. 0..MaxVer \subseteq Nat
  BY BoundAssumption
<1> QED BY <1>1 DEF LinkInv, TypeOK, LinkConsistent, CharData, FileData

LEMMA TypedNext ==
    ASSUME LinkInv'
    PROVE  /\ char_list' \subseteq Char
           /\ \A c \in char_list' : char'[c] # None
           /\ \A c \in Char : char'[c] # None =>
                /\ char'[c] \in CharData /\ char'[c].name \in Name /\ char'[c].ver \in Nat
           /\ \A n \in Name : file'[n] # None => file'[n] \in FileData /\ file'[n].ver \in Nat
<1>1. 0..MaxVer \subseteq Nat
  BY BoundAssumption
<1> QED BY <1>1 DEF LinkInv, TypeOK, LinkConsistent, CharData, FileData

\* The steps in which characters stay what they are, or go, and a body goes only
\* with its copies; files change only for what a body has.
LEMMA FreshKeeps ==
    ASSUME LinkInv, LinkInv', RegInv, FreshInv,
           \A x \in Char : char'[x] # None =>
              /\ char[x] # None /\ char'[x].name = char[x].name /\ char'[x].id = char[x].id
              /\ x \notin char_list => x \notin char_list' /\ char'[x].ver = char[x].ver
              /\ x \in char_list => char[x].ver <= char'[x].ver,
           \A x \in Char, c \in char_list :
              char'[x] # None /\ char[c].name = char[x].name => c \in char_list',
           \A x \in Char : char'[x] # None =>
              LET n == char[x].name
              IN /\ file'[n] # None /\ file'[n].id = file[n].id
                 /\ \/ file'[n].ver = file[n].ver
                    \/ \E b \in char_list' : char[b].name = n /\ file'[n].ver <= char'[b].ver
    PROVE  FreshInv'
<1>1. \A b \in char_list' : /\ b \in char_list /\ b \in Char /\ char'[b] # None
                            /\ char'[b].name = char[b].name /\ char[b].ver <= char'[b].ver
  BY TypedNext
<1>2. \A c \in Char : char'[c] # None =>
         /\ file'[char'[c].name] # None
         /\ char'[c].id = file'[char'[c].name].id
  BY DEF FreshInv
<1>3. \A c \in char_list' : file'[char'[c].name].ver <= char'[c].ver
  <2> SUFFICES ASSUME NEW c \in char_list' PROVE file'[char[c].name].ver <= char'[c].ver
    BY <1>1
  <2>1. file[char[c].name].ver <= char[c].ver /\ char[c].name \in Name
    BY <1>1, Typed DEF FreshInv
  <2>2. /\ file[char[c].name].ver \in Nat /\ char[c].ver \in Nat /\ char'[c].ver \in Nat
        /\ char[c].ver <= char'[c].ver
    BY <1>1, <2>1, Typed, TypedNext DEF FreshInv
  <2>3. CASE file'[char[c].name].ver = file[char[c].name].ver
    BY <2>1, <2>2, <2>3
  <2>4. ASSUME NEW b \in char_list', char[b].name = char[c].name,
               file'[char[c].name].ver <= char'[b].ver
        PROVE  file'[char[c].name].ver <= char'[c].ver
    <3>1. b = c
      BY <1>1, <2>4 DEF RegInv
    <3> QED BY <2>4, <3>1
  <2> QED BY <1>1, <2>3, <2>4
<1>4. ASSUME NEW x \in Char \ char_list', char'[x] # None
      PROVE  /\ \A c \in char_list' :
                   char'[c].name = char'[x].name => char'[x].ver <= char'[c].ver
             /\ (\A c \in char_list' : char'[c].name # char'[x].name)
                   => char'[x].ver = file'[char'[x].name].ver
  <2>1. x \notin char_list
    BY <1>4
  <2>2. /\ char[x] # None /\ char'[x].ver = char[x].ver /\ char'[x].name = char[x].name
    BY <1>4, <2>1
  <2>3. ASSUME NEW c \in char_list', char'[c].name = char'[x].name
        PROVE  char'[x].ver <= char'[c].ver
    <3>1. char[x].ver <= char[c].ver /\ char[c].ver <= char'[c].ver
      BY <1>1, <2>1, <2>2, <2>3 DEF FreshInv
    <3>2. char[x].ver \in Nat /\ char[c].ver \in Nat /\ char'[c].ver \in Nat
      BY <1>1, <2>2, Typed, TypedNext
    <3> QED BY <2>2, <3>1, <3>2
  <2>4. ASSUME \A c \in char_list' : char'[c].name # char'[x].name
        PROVE  char'[x].ver = file'[char'[x].name].ver
    <3>1. \A c \in char_list : char[c].name # char[x].name
      BY <1>1, <1>4, <2>2, <2>4
    <3>2. file'[char[x].name].ver = file[char[x].name].ver
      BY <1>1, <1>4, <3>1
    <3> QED BY <2>1, <2>2, <3>1, <3>2 DEF FreshInv
  <2> QED BY <2>3, <2>4
<1> QED BY <1>2, <1>3, <1>4 DEF FreshInv

\* Saving a character: its file gets no newer than the body, and where there is none
\* it stays what it is.
LEMMA SavedFresh ==
    ASSUME LinkInv, FreshInv, NEW x \in Char, char[x] # None,
           NEW r \in CharData, SameCopy(r, char[x])
    PROVE  \A n \in Name : file[n] # None =>
              /\ Saved(r)[n] # None /\ Saved(r)[n].id = file[n].id
              /\ \/ Saved(r)[n].ver = file[n].ver
                 \/ \E b \in char_list : char[b].name = n /\ Saved(r)[n].ver <= char[b].ver
<1> SUFFICES ASSUME NEW n \in Name, file[n] # None
             PROVE  /\ Saved(r)[n] # None /\ Saved(r)[n].id = file[n].id
                    /\ \/ Saved(r)[n].ver = file[n].ver
                       \/ \E b \in char_list :
                             char[b].name = n /\ Saved(r)[n].ver <= char[b].ver
  OBVIOUS
<1>1. Saved(r)[n] = IF n = r.name THEN Snap(r) ELSE file[n]
  BY InvNow DEF Saved
<1>2. CASE n # r.name
  BY <1>1, <1>2
<1>3. CASE n = r.name
  <2>1. /\ Saved(r)[n] = Snap(r) /\ Snap(r) # None
        /\ Snap(r).id = char[x].id /\ Snap(r).ver = char[x].ver /\ n = char[x].name
    BY <1>1, <1>3, SavedType, DataAssumption DEF Snap, SameCopy
  <2>2. CASE x \in char_list
    BY <2>1, <2>2, Typed DEF FreshInv
  <2>3. CASE x \notin char_list
    BY <2>1, <2>3, Typed DEF FreshInv
  <2> QED BY <2>2, <2>3
<1> QED BY <1>2, <1>3

\* Closing connections changes nobody but in his link.
LEMMA CloseCopy ==
    ASSUME LinkInv, NEW D \in SUBSET Desc
    PROVE  \A c \in Char : CloseChar(D)[c] # None =>
              char[c] # None /\ SameCopy(CloseChar(D)[c], char[c])
<1> SUFFICES ASSUME NEW c \in Char, CloseChar(D)[c] # None
             PROVE  char[c] # None /\ SameCopy(CloseChar(D)[c], char[c])
  OBVIOUS
<1>1. CASE c \in Playing(D)
  <2>1. c \in char_list
    BY <1>1, CharOf DEF Playing
  <2>2. char[c] \in CharData
    BY <2>1, BodyOf
  <2>3. CloseChar(D)[c] = [char[c] EXCEPT !.desc = None]
    BY <1>1 DEF CloseChar
  <2> QED BY <2>2, <2>3, DataAssumption DEF SameCopy, CharData
<1>2. CASE c \notin Playing(D)
  BY <1>2 DEF CloseChar, SameCopy
<1> QED BY <1>1, <1>2

\* The steps in which every character that stays is the same copy, bodies stay, and
\* at most one character is saved as it is.
LEMMA SameFresh ==
    ASSUME LinkInv, LinkInv', RegInv, FreshInv, char_list' = char_list,
           \A c \in Char : char'[c] # None => char[c] # None /\ SameCopy(char'[c], char[c]),
           \/ file' = file
           \/ \E x \in Char, r \in CharData :
                 char[x] # None /\ SameCopy(r, char[x]) /\ file' = Saved(r)
    PROVE  FreshInv'
<1>1. \A n \in Name : file[n] # None =>
         /\ file'[n] # None /\ file'[n].id = file[n].id
         /\ \/ file'[n].ver = file[n].ver
            \/ \E b \in char_list : char[b].name = n /\ file'[n].ver <= char[b].ver
  BY SavedFresh
<1>2. \A c \in char_list : c \in Char /\ char'[c].ver = char[c].ver
  BY TypedNext DEF SameCopy
<1>3. \A x \in Char : char'[x] # None =>
         /\ char[x] # None /\ char'[x].name = char[x].name /\ char'[x].id = char[x].id
         /\ char'[x].ver = char[x].ver /\ char[x].ver <= char'[x].ver
         /\ char[x].name \in Name /\ file[char[x].name] # None
  BY Typed DEF SameCopy, FreshInv
<1> QED BY <1>1, <1>2, <1>3, FreshKeeps

LEMMA CloseFresh ==
    ASSUME LinkInv, LinkInv', RegInv, FreshInv, NEW D \in SUBSET Desc, CloseSocket(D),
           \/ file' = file
           \/ \E x \in Char, r \in CharData :
                 char[x] # None /\ SameCopy(r, char[x]) /\ file' = Saved(r)
    PROVE  FreshInv'
BY CloseCopy, SameFresh DEF CloseSocket

\* A body plays, and is perhaps saved.
LEMMA BodyFresh ==
    ASSUME LinkInv, LinkInv', RegInv, FreshInv, NEW c \in char_list, NEW r \in CharData,
           r.name = char[c].name, r.id = char[c].id, char[c].ver <= r.ver,
           char' = [char EXCEPT ![c] = r], char_list' = char_list,
           file' = file \/ file' = Saved(r)
    PROVE  FreshInv'
<1>1. c \in Char /\ char[c] # None /\ char[c].name \in Name
  BY Typed
<1>2. \A x \in Char : char'[x] = IF x = c THEN r ELSE char[x]
  BY InvNow DEF Links, LinkTypes
<1>3. \A x \in Char : char'[x] # None =>
         /\ char[x] # None /\ char'[x].name = char[x].name /\ char'[x].id = char[x].id
         /\ x \notin char_list => x \notin char_list' /\ char'[x].ver = char[x].ver
         /\ x \in char_list => char[x].ver <= char'[x].ver
  BY <1>1, <1>2, Typed
<1>4. \A n \in Name : file'[n] = file[n] \/ (n = char[c].name /\ file'[n] = Snap(r))
  BY InvNow DEF Saved
<1>5. Snap(r) # None /\ Snap(r).id = char[c].id /\ Snap(r).ver = r.ver /\ r.ver \in Nat
  BY SavedType, DataAssumption, BoundAssumption DEF Snap, CharData
<1>6. ASSUME NEW x \in Char, char'[x] # None
      PROVE  LET n == char[x].name
             IN /\ file'[n] # None /\ file'[n].id = file[n].id
                /\ \/ file'[n].ver = file[n].ver
                   \/ \E b \in char_list' : char[b].name = n /\ file'[n].ver <= char'[b].ver
  <2>1. /\ char[x].name \in Name /\ file[char[x].name] # None
        /\ file[char[c].name].id = char[c].id
    BY <1>1, <1>3, <1>6, Typed DEF FreshInv
  <2>2. char'[c].ver = r.ver
    BY <1>1, <1>2
  <2> QED BY <1>4, <1>5, <2>1, <2>2
<1> QED BY <1>3, <1>6, FreshKeeps

-----------------------------------------------------------------------------
\* do_quit() finds every copy of a body that goes: they have its identifier.
LEMMA Toasting ==
    ASSUME LinkInv, RegInv, FreshInv, NEW S \in SUBSET char_list,
           NEW x \in Char \ Removed(S), char[x] # None,
           NEW b \in char_list \cap Removed(S)
    PROVE  char[b].name # char[x].name
<1> SUFFICES ASSUME char[b].name = char[x].name PROVE FALSE
  OBVIOUS
<1>1. char[b].id = char[x].id /\ b # x
  BY Typed DEF FreshInv
<1>2. PICK s \in S : char[s].id = char[b].id
  BY DEF Removed, Toasted
<1>3. x \notin char_list
  BY <1>1, Typed DEF RegInv
<1>4. char[x].desc \in Desc /\ dchar[char[x].desc] = x
  BY <1>3, Typed DEF LinkInv, LinkConsistent, CharData
<1>5. char[x].desc \in Toasted(S)
  BY <1>1, <1>2, <1>4, NoneAssumption DEF Toasted
<1> QED BY <1>4, <1>5 DEF Removed

LEMMA QuitFresh ==
    ASSUME LinkInv, LinkInv', RegInv, FreshInv, NEW c \in char_list, Quit({c}),
           \/ file' = Saved(char[c])
           \/ file' = [file EXCEPT ![char[c].name] = None]
    PROVE  FreshInv'
<1>1. \A x \in Char : char'[x] = IF x \in Removed({c}) THEN None ELSE char[x]
  BY DEF Quit
<1>2. char_list' = char_list \ Removed({c}) /\ c \in Removed({c})
  BY DEF Quit, Removed
<1>3. char[c].name \in Name /\ \A n \in Name : n # char[c].name => file'[n] = file[n]
  BY Typed, InvNow DEF Saved
<1>4. \A x \in Char : char'[x] # None =>
         /\ x \notin Removed({c}) /\ char[x] # None /\ char'[x] = char[x]
         /\ char[x].name # char[c].name
         /\ char[x].name \in Name /\ char[x].ver \in Nat
  BY <1>1, <1>2, Toasting, Typed
<1>5. \A x \in Char, b \in char_list :
         char'[x] # None /\ char[b].name = char[x].name => b \in char_list'
  BY <1>2, <1>4, Toasting
<1>6. \A x \in Char : char'[x] # None =>
         /\ file'[char[x].name] = file[char[x].name] /\ file[char[x].name] # None
         /\ char[x].ver <= char'[x].ver
         /\ x \notin char_list => x \notin char_list'
  BY <1>2, <1>3, <1>4 DEF FreshInv
<1> QED BY <1>4, <1>5, <1>6, FreshKeeps

\* The process ends: no character is left.
LEMMA EndFresh == ASSUME Restart PROVE FreshInv'
BY DEF Restart, FreshInv

\* The name is typed: the copy that is loaded is what the file holds.
LEMMA GetNameFresh ==
    ASSUME NewLock, LinkInv, LinkInv', RegInv, FreshInv,
           NEW d \in Desc, NEW n \in Name, NEW c \in Char, NEW r \in BOOLEAN,
           GetName(d, n, c, r)
    PROVE  FreshInv'
<1> DEFINE f    == IF file[n] = None THEN Blank ELSE file[n]
           fOld == file[n] # None \/ Bodies(n) # {}
           next == IF r \/ (~fOld /\ NewLock) THEN "FREE"
                   ELSE IF fOld THEN "GET_OLD_PASSWORD" ELSE "CONFIRM_NEW_NAME"
<1>1. CASE next = "FREE"
  <2>1. CloseSocket({d}) /\ file' = file
    BY <1>1 DEF GetName
  <2> QED BY <2>1, CloseFresh
<1>2. CASE next # "FREE"
  <2>1. file[n] # None /\ next = "GET_OLD_PASSWORD"
    <3>1. Bodies(n) # {} => file[n] # None
      BY DEF RegInv, Bodies
    <3> QED BY <1>2, <3>1
  <2>2. /\ char' = [char EXCEPT ![c] = Load(d, n, file[n])]
        /\ UNCHANGED <<char_list, file>> /\ char[c] = None
    BY <1>2, <2>1 DEF GetName
  <2>3. \A x \in Char : char'[x] = IF x = c THEN Load(d, n, file[n]) ELSE char[x]
    BY <2>2, InvNow DEF Links, LinkTypes
  <2>4. /\ char'[c].name = n /\ char'[c].id = file[n].id /\ char'[c].ver = file[n].ver
    BY <2>3 DEF Load
  <2>5. c \notin char_list /\ \A x \in char_list : x \in Char /\ char'[x] = char[x]
    BY <2>2, <2>3, Typed
  <2>6. \A x \in char_list : char[x].name = n => char'[c].ver <= char[x].ver
    BY <2>4 DEF FreshInv
  <2> QED BY <2>1, <2>2, <2>3, <2>4, <2>5, <2>6 DEF FreshInv
<1> QED BY <1>1, <1>2

\* The message of the day has been read: who enters has no body in the world, and is
\* what the file holds, which is only rewritten for its count of failures.
LEMMA Entrance ==
    ASSUME LinkInv, RegInv, FreshInv, NEW d \in Desc, ReadMotd(d)
    PROVE  \E c \in Char \ char_list, n \in Name :
              /\ char_list' = char_list \cup {c}
              /\ \A x \in char_list : char[x].name # n
              /\ file[n] # None /\ file'[n] # None
              /\ file'[n].id = file[n].id /\ file'[n].ver = file[n].ver
              /\ \A m \in Name : m # n => file'[m] = file[m]
              /\ char'[c].name = n /\ char'[c].id = file[n].id
              /\ char'[c].ver = file[n].ver /\ char'[c].desc # None
              /\ \A x \in Char \ {c} : char'[x] = char[x]
<1> DEFINE c == dchar[d]
           n == char[c].name
           f == IF char[c].errs > 0 THEN Saved([char[c] EXCEPT !.errs = 0]) ELSE file
<1>1. con[d] \in LoginStates /\ con[d] \in MotdStates
  BY DEF LoginStates, MotdStates, ReadMotd
<1>2. /\ c \in Char /\ char[c] \in CharData /\ char[c] # None /\ Good(char[c])
      /\ n \in Name /\ c \notin char_list
  BY <1>1, CharGood DEF CharData, LinkInv, LinkConsistent
<1>3. /\ f[n] # None /\ file' = f
      /\ char' = [char EXCEPT ![c] = Load(d, n, f[n])]
      /\ char_list' = char_list \cup {c}
  BY <1>2 DEF ReadMotd, Good
<1>4. \A x \in char_list : char[x].name # n
  BY <1>1 DEF RegInv
<1>5. file[n] # None /\ char[c].id = file[n].id /\ char[c].ver = file[n].ver
  BY <1>2, <1>4 DEF FreshInv
<1>6. /\ f[n].id = file[n].id /\ f[n].ver = file[n].ver
      /\ \A m \in Name : m # n => f[m] = file[m]
  <2>1. CASE char[c].errs > 0
    <3>1. f = [file EXCEPT ![n] = Snap([char[c] EXCEPT !.errs = 0])]
      BY <1>2, <2>1 DEF Saved, CharData
    <3>2. /\ Snap([char[c] EXCEPT !.errs = 0]).id = char[c].id
          /\ Snap([char[c] EXCEPT !.errs = 0]).ver = char[c].ver
      BY <1>2 DEF Snap, CharData
    <3> HIDE DEF f
    <3> QED BY <1>2, <1>5, <3>1, <3>2, InvNow
  <2>2. CASE ~(char[c].errs > 0)
    BY <2>2
  <2> QED BY <2>1, <2>2
<1> HIDE DEF f
<1>7. \A x \in Char : char'[x] = IF x = c THEN Load(d, n, f[n]) ELSE char[x]
  BY <1>3, InvNow DEF Links, LinkTypes
<1>8. /\ char'[c].name = n /\ char'[c].id = file[n].id /\ char'[c].ver = file[n].ver
      /\ char'[c].desc # None
  BY <1>2, <1>6, <1>7, NoneAssumption DEF Load
<1> HIDE DEF c, n
<1> QED BY <1>2, <1>3, <1>4, <1>5, <1>6, <1>7, <1>8

LEMMA EnterFresh ==
    ASSUME LinkInv, RegInv, FreshInv, NEW d \in Desc, ReadMotd(d)
    PROVE  FreshInv'
<1>1. PICK c \in Char \ char_list, n \in Name :
         /\ char_list' = char_list \cup {c}
         /\ \A x \in char_list : char[x].name # n
         /\ file[n] # None /\ file'[n] # None
         /\ file'[n].id = file[n].id /\ file'[n].ver = file[n].ver
         /\ \A m \in Name : m # n => file'[m] = file[m]
         /\ char'[c].name = n /\ char'[c].id = file[n].id
         /\ char'[c].ver = file[n].ver
         /\ \A x \in Char \ {c} : char'[x] = char[x]
  BY Entrance
<1>2. file[n].ver \in Nat
  BY <1>1, Typed
<1>3. \A x \in Char \ {c} : char[x] # None => char[x].name \in Name
  BY Typed
<1>4. \A x \in Char : char'[x] # None =>
          file'[char'[x].name] # None /\ char'[x].id = file'[char'[x].name].id
  BY <1>1, <1>3 DEF FreshInv
<1>5. \A x \in char_list' : file'[char'[x].name].ver <= char'[x].ver
  <2>1. file'[char'[c].name].ver <= char'[c].ver
    BY <1>1, <1>2
  <2>2. \A x \in char_list : file'[char'[x].name].ver <= char'[x].ver
    BY <1>1, <1>3, Typed DEF FreshInv
  <2> QED BY <1>1, <2>1, <2>2
<1>6. ASSUME NEW x \in Char \ char_list', char'[x] # None
      PROVE  /\ \A b \in char_list' :
                   char'[b].name = char'[x].name => char'[x].ver <= char'[b].ver
             /\ (\A b \in char_list' : char'[b].name # char'[x].name)
                   => char'[x].ver = file'[char'[x].name].ver
  <2>1. x \in Char \ char_list /\ x # c /\ char[x] # None /\ char'[x] = char[x]
    BY <1>1, <1>6
  <2>2. CASE char[x].name = n
    <3>1. char[x].ver = file[n].ver
      BY <1>1, <2>1, <2>2 DEF FreshInv
    <3>2. \A b \in char_list' : char'[b].name = n => b = c
      BY <1>1, Typed
    <3> QED BY <1>1, <1>2, <2>1, <2>2, <3>1, <3>2
  <2>3. CASE char[x].name # n
    <3>1. file'[char[x].name] = file[char[x].name]
      BY <1>1, <1>3, <2>1, <2>3
    <3>2. \A b \in char_list : b # c /\ char'[b] = char[b]
      BY <1>1, Typed
    <3> QED BY <1>1, <2>1, <2>3, <3>1, <3>2 DEF FreshInv
  <2> QED BY <2>2, <2>3
<1> QED BY <1>4, <1>5, <1>6 DEF FreshInv

\* A connection takes over a body: its own copy is freed, the body is left alone.
LEMMA TakeCopy ==
    ASSUME LinkInv, NEW d \in Desc, con[d] \in LoginStates, NEW D \in SUBSET Desc,
           NEW c \in char_list, NEW ch, ch = CloseChar(D) \/ ch = char,
           ch[c] # None
    PROVE  \A x \in Char : TakeBody(d, c, ch)[x] # None =>
              char[x] # None /\ SameCopy(TakeBody(d, c, ch)[x], char[x])
<1>1. dchar[d] \in Char /\ c \in Char /\ char[c] \in CharData /\ dchar[d] # c
  BY CharOf, BodyOf, InvNow, Owners, States
<1>2. \A x \in Char : ch[x] # None => char[x] # None /\ SameCopy(ch[x], char[x])
  BY CloseCopy DEF SameCopy
<1>3. ch \in [Char -> CharData \cup {None}]
  BY InvNow, CloseLinks DEF Links, LinkTypes
<1>4. \A x \in Char : /\ x = dchar[d] => TakeBody(d, c, ch)[x] = None
                      /\ x # dchar[d] /\ x # c => TakeBody(d, c, ch)[x] = ch[x]
  BY <1>1, <1>3 DEF TakeBody
<1>5. TakeBody(d, c, ch)[c] = [ch[c] EXCEPT !.desc = d, !.timer = 0]
  BY <1>1, <1>3 DEF TakeBody
<1>6. SameCopy([ch[c] EXCEPT !.desc = d, !.timer = 0], ch[c])
  BY <1>1, <1>3 DEF SameCopy, CharData
<1>7. SameCopy(TakeBody(d, c, ch)[c], char[c]) /\ char[c] # None
  BY <1>1, <1>2, <1>5, <1>6 DEF SameCopy
<1> QED BY <1>2, <1>4, <1>7

-----------------------------------------------------------------------------
\* A connection that fails the registration question saves its own copy.
LEMMA WrongCopy ==
    ASSUME LinkInv, RegInv, NEW d \in Desc, WrongAnswer(d)
    PROVE  \E r \in CharData : /\ SameCopy(r, char[dchar[d]]) /\ file' = Saved(r)
                               /\ dchar[d] \in Char /\ char[dchar[d]] # None
                               /\ con[d] \in LoginStates /\ con'[d] = "FREE"
<1> DEFINE c == char[dchar[d]]
           e == IF c.errs = MaxErrs THEN MaxErrs ELSE c.errs + 1
<1>1. con[d] \in LoginStates
  BY DEF WrongAnswer, LoginStates
<1>2. c \in CharData /\ c # None /\ dchar[d] \in Char
  BY <1>1, CharGood
<1>3. e \in 0..MaxErrs
  BY <1>2, BoundAssumption DEF CharData
<1>4. [c EXCEPT !.errs = e] \in CharData /\ SameCopy([c EXCEPT !.errs = e], c)
  <2> HIDE DEF e
  <2> QED BY <1>2, <1>3 DEF CharData, SameCopy
<1>5. file' = Saved([c EXCEPT !.errs = e]) /\ con'[d] = "FREE"
  BY DEF WrongAnswer, CloseSocket, CloseCon
<1> QED BY <1>1, <1>2, <1>4, <1>5

\* The other answers of the dialogue leave every character what it is, or free it;
\* only a name that is typed brings a new one.
LEMMA LoginCopies ==
    ASSUME LinkInv, LinkInv', RegInv, NEW d \in Desc, Login(d), ~ReadMotd(d)
    PROVE  /\ char_list' = char_list
           /\ \A x \in Char : char[x] # None /\ char'[x] # None => SameCopy(char'[x], char[x])
           /\ \/ \A x \in Char : char'[x] # None => char[x] # None
              \/ \E n \in Name, c \in Char, r \in BOOLEAN : GetName(d, n, c, r)
<1>1. CASE \/ Accept(d) \/ GetCodepage(d) \/ OldPassword(d) \/ ReadImotd(d)
           \/ RightAnswer(d) /\ char' = char
  BY <1>1 DEF Accept, GetCodepage, OldPassword, ReadImotd, RightAnswer, Goto, SameCopy
<1>2. CASE EmptyName(d) \/ BadPassword(d) \/ FileGone(d) \/ WrongAnswer(d)
  <2>1. CloseSocket({d})
    BY <1>2 DEF EmptyName, BadPassword, FileGone, WrongAnswer
  <2> QED BY <2>1, CloseCopy DEF CloseSocket
<1>3. ASSUME NEW n \in Name, NEW c \in Char, NEW r \in BOOLEAN, GetName(d, n, c, r)
      PROVE  /\ char_list' = char_list
             /\ \A x \in Char : char[x] # None /\ char'[x] # None =>
                   SameCopy(char'[x], char[x])
  <2>1. CASE CloseSocket({d})
    BY <2>1, CloseCopy DEF CloseSocket
  <2>2. CASE /\ char_list' = char_list
             /\ \E f : char' = [char EXCEPT ![c] = Load(d, n, f)]
    BY <1>3, <2>2 DEF GetName, SameCopy
  <2> QED BY <1>3, <2>1, <2>2 DEF GetName
<1>4. CASE RightAnswer(d) /\ char' # char
  <2>0. con[d] \in LoginStates
    BY <1>4 DEF RightAnswer, LoginStates
  <2>1. PICK c \in LinkDead(char[dchar[d]].name) :
          char' = TakeBody(d, c, char) /\ UNCHANGED char_list
    BY <1>4 DEF RightAnswer, Goto
  <2>2. c \in char_list /\ char[c] # None
    BY CharGood DEF LinkDead, Bodies
  <2> QED BY <2>0, <2>1, <2>2, TakeCopy
<1>5. CASE BreakConnectYes(d)
  <2> DEFINE n  == char[dchar[d]].name
             D  == {e \in Desc \ {d} : Named(e, n)}
             ch == CloseChar(D)
             B  == {c \in Bodies(n) : ch[c].desc = None}
  <2>1. con[d] \in LoginStates /\ UNCHANGED char_list
    BY <1>5 DEF BreakConnectYes, LoginStates
  <2>2. /\ ch \in [Char -> CharData \cup {None}]
        /\ \A c \in char_list : ch[c] # None
    BY InvNow, CloseLinks DEF Links, LinkTypes, Owned
  <2>3. ASSUME NEW c \in B, char' = TakeBody(d, c, ch)
        PROVE  \A x \in Char : char'[x] # None => char[x] # None /\ SameCopy(char'[x], char[x])
    <3>1. c \in char_list
      BY DEF Bodies
    <3> QED BY <2>1, <2>2, <2>3, <3>1, TakeCopy
  <2>4. ASSUME char' = [ch EXCEPT ![dchar[d]] = None]
        PROVE  \A x \in Char : char'[x] # None => char[x] # None /\ SameCopy(char'[x], char[x])
    BY <2>2, <2>4, CloseCopy
  <2> QED BY <1>5, <2>1, <2>3, <2>4 DEF BreakConnectYes
<1>6. CASE BreakConnectNo(d)
  BY <1>6, InvNow DEF BreakConnectNo, AskNameAgain, Links, LinkTypes, SameCopy
<1>7. CASE ConfirmNameYes(d) \/ ConfirmNameNo(d) \/ Create(d)
  BY <1>7 DEF RegInv, ConfirmNameYes, ConfirmNameNo, Create
<1> QED BY <1>1, <1>2, <1>3, <1>4, <1>5, <1>6, <1>7 DEF Login

\* Only a failed registration question and the message of the day write a file.
LEMMA LoginFiles ==
    ASSUME RegInv, NEW d \in Desc, Login(d), ~WrongAnswer(d), ~ReadMotd(d)
    PROVE  UNCHANGED file
BY DEF RegInv, Login, Accept, GetCodepage, EmptyName, GetName, OldPassword, BadPassword,
       RightAnswer, BreakConnectYes, BreakConnectNo, ConfirmNameYes, ConfirmNameNo,
       Create, ReadImotd, FileGone, Goto, AskNameAgain

LEMMA LoginFresh ==
    ASSUME NewLock, LinkInv, LinkInv', RegInv, FreshInv, NEW d \in Desc, Login(d)
    PROVE  FreshInv'
<1>1. CASE ReadMotd(d)
  BY <1>1, EnterFresh
<1>2. CASE \E n \in Name, c \in Char, r \in BOOLEAN : GetName(d, n, c, r)
  BY <1>2, GetNameFresh
<1>3. ASSUME char_list' = char_list,
             \A x \in Char : char'[x] # None => char[x] # None /\ SameCopy(char'[x], char[x])
      PROVE  FreshInv'
  <2>1. CASE WrongAnswer(d)
    BY <1>3, <2>1, WrongCopy, SameFresh
  <2>2. CASE ~WrongAnswer(d) /\ ~ReadMotd(d)
    BY <1>3, <2>2, LoginFiles, SameFresh
  <2> QED BY <1>1, <2>1, <2>2
<1> QED BY <1>1, <1>2, <1>3, LoginCopies

\* A body plays: r is what it becomes, which may be saved.
Plays(c, r) ==
    /\ c \in char_list /\ r \in CharData
    /\ r.name = char[c].name /\ r.id = char[c].id /\ char[c].ver <= r.ver
    /\ char' = [char EXCEPT ![c] = r]
    /\ char_list' = char_list
    /\ file' = file \/ file' = Saved(r)

LEMMA PlayerPlays ==
    ASSUME LinkInv, LinkInv', RegInv, NEW d \in Desc, Command(d)
    PROVE  \E r : Plays(dchar[d], r)
<1> DEFINE c == dchar[d]
<1>1. /\ c \in char_list /\ c \in Char /\ char[c] \in CharData /\ char[c].ver \in Nat
  BY CharOf, CharGood, Typed DEF Command
<1>2. PICK v \in {char[c].ver, char[c].ver + 1}, h \in SUBSET Holds :
          /\ v <= MaxVer
          /\ char' = [char EXCEPT ![c].ver = v, ![c].timer = 0, ![c].voided = FALSE,
                                  ![c].hold = char[c].hold \cup h]
  BY DEF Command
<1>3. PICK r : r = [char[c] EXCEPT !.ver = v, !.timer = 0, !.voided = FALSE,
                                   !.hold = char[c].hold \cup h]
  OBVIOUS
<1>4. char' = [char EXCEPT ![c] = r] /\ char'[c] = r
  BY <1>1, <1>2, <1>3, InvNow DEF Links, LinkTypes
<1>5. r.name = char[c].name /\ r.id = char[c].id /\ char[c].ver <= r.ver
  BY <1>1, <1>2, <1>3 DEF CharData
<1>6. UNCHANGED <<char_list, file>>
  BY DEF Command
<1>7. r \in CharData
  BY <1>1, <1>4, <1>6, TypedNext
<1> QED BY <1>1, <1>4, <1>5, <1>6, <1>7 DEF Plays

LEMMA BodyPlays ==
    ASSUME LinkInv, LinkInv', RegInv, NEW c \in Char, Body(c)
    PROVE  \E r : Plays(c, r)
<1>1. /\ c \in char_list /\ char[c] \in CharData /\ char[c] # None /\ Good(char[c])
      /\ char[c].ver \in Nat
  <2>1. c \in char_list
    BY DEF Body, WorldActs, Settle, Save, Die, AtheistDies
  <2> QED BY <2>1, CharGood, Typed
<1>2. CASE WorldActs(c)
  <2>1. PICK v \in {char[c].ver, char[c].ver + 1}, h \in SUBSET Holds :
            char' = [char EXCEPT ![c].ver = v, ![c].hold = char[c].hold \cup h]
    BY <1>2 DEF WorldActs
  <2>2. PICK r : r = [char[c] EXCEPT !.ver = v, !.hold = char[c].hold \cup h]
    OBVIOUS
  <2>3. char' = [char EXCEPT ![c] = r] /\ char'[c] = r
    BY <2>1, <2>2, InvNow DEF Links, LinkTypes
  <2>4. r.name = char[c].name /\ r.id = char[c].id /\ char[c].ver <= r.ver
    BY <1>1, <2>1, <2>2 DEF CharData
  <2>5. UNCHANGED <<char_list, file>>
    BY <1>2 DEF WorldActs
  <2>6. r \in CharData
    BY <1>1, <2>3, <2>5, TypedNext
  <2> QED BY <1>1, <2>3, <2>4, <2>5, <2>6 DEF Plays
<1>3. CASE Settle(c)
  <2>1. PICK h \in char[c].hold : char' = [char EXCEPT ![c].hold = char[c].hold \ {h}]
    BY <1>3 DEF Settle
  <2>2. PICK r : r = [char[c] EXCEPT !.hold = char[c].hold \ {h}]
    OBVIOUS
  <2>3. char' = [char EXCEPT ![c] = r] /\ char'[c] = r
    BY <2>1, <2>2, InvNow DEF Links, LinkTypes
  <2>4. r.name = char[c].name /\ r.id = char[c].id /\ char[c].ver <= r.ver
    BY <1>1, <2>2 DEF CharData
  <2>5. UNCHANGED <<char_list, file>>
    BY <1>3 DEF Settle
  <2>6. r \in CharData
    BY <1>1, <2>3, <2>5, TypedNext
  <2> QED BY <1>1, <2>3, <2>4, <2>5, <2>6 DEF Plays
<1>4. CASE Save(c)
  <2>1. char' = [char EXCEPT ![c] = char[c]]
    BY <1>4, InvNow DEF Save, Links, LinkTypes
  <2>2. char_list' = char_list /\ file' = Saved(char[c])
    BY <1>4 DEF Save
  <2>3. char[c].ver <= char[c].ver
    BY <1>1
  <2> QED BY <1>1, <2>1, <2>2, <2>3 DEF Plays
<1>5. CASE Die(c)
  <2> DEFINE v == IF char[c].ver = MaxVer THEN MaxVer ELSE char[c].ver + 1
             h == char[c].hold \ {"fight"}
  <2>1. char[c].ver <= v /\ v \in 0..MaxVer /\ h \in SUBSET Holds
    BY <1>1, BoundAssumption DEF CharData
  <2>2. Dead(c) = [char[c] EXCEPT !.ver = v, !.hold = h]
    BY DEF Dead
  <2> HIDE DEF v, h
  <2>3. /\ Dead(c) \in CharData /\ Dead(c).name = char[c].name
        /\ Dead(c).id = char[c].id /\ char[c].ver <= Dead(c).ver
    BY <1>1, <2>1, <2>2 DEF CharData
  <2> QED BY <1>1, <1>5, <2>3 DEF Die, Plays
<1>6. CASE AtheistDies(c)
  BY <1>1, <1>6 DEF AtheistDies, Good
<1> QED BY <1>2, <1>3, <1>4, <1>5, <1>6 DEF Body

LEMMA PlaysFresh ==
    ASSUME LinkInv, LinkInv', RegInv, FreshInv, NEW c, NEW r, Plays(c, r)
    PROVE  FreshInv'
BY BodyFresh DEF Plays

LEMMA ConnectionFresh ==
    ASSUME LinkInv, LinkInv', RegInv, FreshInv, NEW d \in Desc, Close(d) \/ Player(d)
    PROVE  FreshInv'
<1>1. con[d] = "PLAYING" =>
         /\ dchar[d] \in char_list /\ dchar[d] \in Char
         /\ char[dchar[d]] \in CharData /\ char[dchar[d]] # None /\ Good(char[dchar[d]])
  BY CharOf, CharGood
<1>2. CASE LinkFails(d)
  <2>1. SameCopy(char[dchar[d]], char[dchar[d]])
    BY DEF SameCopy
  <2> QED BY <1>1, <1>2, <2>1, CloseFresh DEF LinkFails
<1>3. CASE TimedOut(d) \/ Disconnect(d)
  BY <1>3, CloseFresh DEF TimedOut, Disconnect
<1>4. CASE Command(d)
  BY <1>4, PlayerPlays, PlaysFresh
<1>5. CASE RegAnswer(d)
  BY <1>1, <1>5 DEF RegAnswer, Good
<1>6. CASE QuitCommand(d)
  BY <1>1, <1>6, QuitFresh DEF QuitCommand
<1>7. CASE DeleteCommand(d)
  BY <1>1, <1>7, QuitFresh DEF DeleteCommand
<1> QED BY <1>2, <1>3, <1>4, <1>5, <1>6, <1>7 DEF Close, Player

\* The tick changes nobody's name, identifier or play.
LEMMA TickedCopy ==
    ASSUME LinkInv, RegInv, NEW c \in char_list
    PROVE  SameCopy(Ticked(c), char[c]) /\ Ticked(c) # None
<1> DEFINE t    == IF char[c].timer > IdleTimer THEN char[c].timer ELSE char[c].timer + 1
           void == t >= VoidTimer /\ ~char[c].voided
           b    == char[c].voided \/ void
           h    == IF void THEN char[c].hold \ {"fight"} ELSE char[c].hold
<1>1. Ticked(c) = [char[c] EXCEPT !.timer = t, !.voided = b, !.hold = h]
  BY DEF Ticked
<1> HIDE DEF t, void, b, h
<1> QED BY <1>1, CharGood, TickedGood, DataAssumption DEF CharData, SameCopy

\* What the tick writes is what a body has.
LEMMA TickSaves ==
    ASSUME LinkInv, RegInv, CharUpdate
    PROVE  \A n \in Name : \/ file'[n] = file[n]
                           \/ \E b \in Bodies(n) : file'[n] = Snap(Ticked(b))
<1>1. PICK last \in [Name -> ((char_list \ Removed(Quitting)) \cup Quitting) \cup {None}] :
         /\ \A n \in Name : \/ last[n] = None
                            \/ last[n] \in Bodies(n)
         /\ file' = [n \in Name |-> IF last[n] = None THEN file[n]
                                    ELSE Snap(Ticked(last[n]))]
  BY DEF CharUpdate
<1> QED BY <1>1

LEMMA TickFresh ==
    ASSUME LinkInv, LinkInv', RegInv, FreshInv, CharUpdate
    PROVE  FreshInv'
<1> DEFINE gone == Removed(Quitting)
<1>1. Quitting \in SUBSET char_list
  BY DEF Quitting
<1>2. /\ char_list' = char_list \ gone
      /\ \A x \in Char : /\ x \in gone => char'[x] = None
                         /\ x \in char_list \ gone => char'[x] = Ticked(x)
                         /\ x \notin gone \cup char_list => char'[x] = char[x]
  BY DEF CharUpdate
<1> HIDE DEF gone
<1>3. \A x \in Char : char'[x] # None =>
         /\ x \notin gone /\ char[x] # None /\ SameCopy(char'[x], char[x])
         /\ char[x].name \in Name /\ char[x].ver \in Nat
         /\ x \notin char_list => x \notin char_list'
  BY <1>2, TickedCopy, Typed DEF SameCopy
<1>4. \A x \in Char, b \in char_list :
         char'[x] # None /\ char[b].name = char[x].name => b \in char_list'
  <2>1. \A x \in Char \ gone, b \in char_list \cap gone :
           char[x] # None => char[b].name # char[x].name
    BY <1>1, Toasting DEF gone
  <2> QED BY <1>2, <1>3, <2>1
<1>5. ASSUME NEW x \in Char, char'[x] # None
      PROVE  LET n == char[x].name
             IN /\ file'[n] # None /\ file'[n].id = file[n].id
                /\ \/ file'[n].ver = file[n].ver
                   \/ \E b \in char_list' : char[b].name = n /\ file'[n].ver <= char'[b].ver
  <2> DEFINE n == char[x].name
  <2>1. n \in Name /\ file[n] # None
    BY <1>3, <1>5 DEF FreshInv
  <2>2. CASE file'[n] = file[n]
    BY <2>1, <2>2
  <2>3. ASSUME NEW b \in Bodies(n), file'[n] = Snap(Ticked(b))
        PROVE  /\ file'[n] # None /\ file'[n].id = file[n].id
               /\ \E y \in char_list' : char[y].name = n /\ file'[n].ver <= char'[y].ver
    <3>1. b \in char_list /\ char[b].name = n
      BY DEF Bodies
    <3>2. /\ b \in Char /\ char[b].id = file[n].id /\ char[b].ver \in Nat
          /\ b \in char_list' /\ b \notin gone
      BY <1>2, <1>4, <1>5, <3>1, Typed DEF FreshInv
    <3>3. /\ file'[n].id = char[b].id /\ file'[n].ver = char[b].ver /\ file'[n] # None
      BY <2>3, <3>1, TickedCopy, TickedGood DEF Snap, SameCopy
    <3>4. char'[b].ver = char[b].ver
      BY <1>2, <3>1, <3>2, TickedCopy DEF SameCopy
    <3> QED BY <3>1, <3>2, <3>3, <3>4
  <2> QED BY <2>1, <2>2, <2>3, TickSaves
<1>6. \A x \in Char : char'[x] # None =>
         /\ char'[x].name = char[x].name /\ char'[x].id = char[x].id
         /\ char'[x].ver = char[x].ver /\ char[x].ver <= char'[x].ver
  BY <1>3 DEF SameCopy
<1> QED BY <1>3, <1>4, <1>5, <1>6, FreshKeeps
-----------------------------------------------------------------------------
LEMMA FreshInvStep == NewLock /\ LinkInv /\ RegInv /\ FreshInv /\ [Next]_vars => FreshInv'
<1> SUFFICES ASSUME NewLock, LinkInv, RegInv, FreshInv, [Next]_vars PROVE FreshInv'
  OBVIOUS
<1>1. LinkInv'
  BY LinkInvStep
<1>2. ASSUME NEW d \in Desc, Login(d) \/ Close(d) \/ Player(d)
      PROVE  FreshInv'
  BY <1>1, <1>2, LoginFresh, ConnectionFresh
<1>3. ASSUME NEW c \in Char, Body(c)
      PROVE  FreshInv'
  BY <1>1, <1>3, BodyPlays, PlaysFresh
<1>4. CASE CharUpdate
  BY <1>1, <1>4, TickFresh
<1>5. CASE Reboot \/ Crash
  BY <1>5, EndFresh DEF Reboot, Crash
<1>6. CASE UNCHANGED vars
  BY <1>6 DEF vars, FreshInv
<1> QED BY <1>2, <1>3, <1>4, <1>5, <1>6 DEF Next

FreshClosed == ClosedInv /\ (Registered => FreshInv)

LEMMA FreshAlways == Spec => []FreshClosed
<1>1. Init => FreshClosed
  BY LinkInvInit, RegInvInit DEF FreshClosed, ClosedInv, Init, Memory, FreshInv
<1>2. FreshClosed /\ [Next]_vars => FreshClosed'
  BY LinkInvStep, RegInvStep, FreshInvStep DEF FreshClosed, ClosedInv, Registered
<1> QED BY <1>1, <1>2, PTL DEF Spec

\* On a closed server no body is older than its file, so that saving it loses nothing,
\* and whoever is about to enter the world is what the file holds.
THEOREM CopiesStayFresh == Spec => []CopiesFresh
<1>1. FreshClosed => BodyAheadOfFile
  <2> SUFFICES ASSUME LinkInv, RegInv, FreshInv, NEW c \in char_list
               PROVE  file[char[c].name] # None /\ char[c].ver >= file[char[c].name].ver
    BY DEF FreshClosed, ClosedInv, BodyAheadOfFile
  <2>1. /\ c \in Char /\ char[c] # None /\ char[c].ver \in Nat /\ char[c].name \in Name
        /\ file[char[c].name] # None
    BY Typed DEF FreshInv
  <2>2. file[char[c].name].ver \in Nat /\ file[char[c].name].ver <= char[c].ver
    BY <2>1, Typed DEF FreshInv
  <2> QED BY <2>1, <2>2
<1>2. FreshClosed => MotdFresh
  <2> SUFFICES ASSUME LinkInv, RegInv, FreshInv, NEW d \in Desc, con[d] \in MotdStates
               PROVE  /\ file[char[dchar[d]].name] # None
                      /\ file[char[dchar[d]].name].ver = char[dchar[d]].ver
    BY DEF FreshClosed, ClosedInv, MotdFresh
  <2>1. con[d] \in LoginStates
    BY NeutralStates
  <2>2. dchar[d] \in Char \ char_list /\ char[dchar[d]] # None
    BY <2>1, CharGood DEF LinkInv, LinkConsistent
  <2>3. \A c \in char_list : char[c].name # char[dchar[d]].name
    BY DEF RegInv
  <2> QED BY <2>2, <2>3 DEF FreshInv
<1> QED BY <1>1, <1>2, FreshAlways, PTL DEF CopiesFresh
-----------------------------------------------------------------------------
\* What a step may do to the file of n: leave the character there as it is, write
\* what a body is, or what a connection was that logged in and is closed, or delete
\* it.  It never gives it another identifier.
BodyWrites(n) ==
    \E c \in Bodies(n) : file'[n].ver \in Nat /\ char[c].ver <= file'[n].ver
LoginWrites(n) ==
    \E d \in Desc : /\ con[d] \in LoginStates /\ con'[d] = "FREE"
                    /\ Named(d, n) /\ file'[n].ver = char[dchar[d]].ver
SameFile(n) == \E x \in Char : /\ char[x] # None /\ char[x].name = n
                               /\ file'[n].id = char[x].id
Written(n) == \/ file'[n] = file[n] \/ file'[n] = None
              \/ /\ SameFile(n)
                 /\ file'[n].ver = file[n].ver \/ BodyWrites(n) \/ LoginWrites(n)

LEMMA BodySaved ==
    ASSUME LinkInv, RegInv, NEW c \in char_list, NEW r \in CharData,
           r.name = char[c].name, r.id = char[c].id, char[c].ver <= r.ver,
           file' = Saved(r), NEW n \in Name
    PROVE  Written(n)
<1>1. file'[n] = IF n = r.name THEN Snap(r) ELSE file[n]
  BY InvNow DEF Saved
<1>2. Snap(r).ver = r.ver /\ r.ver \in Nat /\ Snap(r).id = r.id
  BY BoundAssumption DEF Snap, CharData
<1>3. CASE n = r.name
  <2>1. c \in Bodies(n) /\ c \in Char /\ char[c] # None
    BY <1>3, Typed DEF Bodies
  <2> QED BY <1>1, <1>2, <1>3, <2>1 DEF Written, BodyWrites, SameFile
<1> QED BY <1>1, <1>3 DEF Written

LEMMA LoginWritten ==
    ASSUME LinkInv, RegInv, FreshInv, NEW d \in Desc, Login(d), NEW n \in Name
    PROVE  Written(n)
<1>1. CASE WrongAnswer(d)
  <2>1. PICK r \in CharData : /\ SameCopy(r, char[dchar[d]]) /\ file' = Saved(r)
                              /\ dchar[d] \in Char /\ char[dchar[d]] # None
                              /\ con[d] \in LoginStates /\ con'[d] = "FREE"
    BY <1>1, WrongCopy
  <2>2. file'[n] = IF n = r.name THEN Snap(r) ELSE file[n]
    BY <2>1, InvNow DEF Saved
  <2>3. CASE n = r.name
    <3>1. /\ file'[n].ver = char[dchar[d]].ver /\ file'[n].id = char[dchar[d]].id
          /\ Named(d, n)
      BY <2>1, <2>2, <2>3, NoneAssumption DEF Snap, SameCopy, Named
    <3> QED BY <2>1, <3>1 DEF Written, LoginWrites, SameFile, Named
  <2> QED BY <2>2, <2>3 DEF Written
<1>2. CASE ReadMotd(d)
  <2> DEFINE c == dchar[d]
             m == char[c].name
             s == [char[c] EXCEPT !.errs = 0]
  <2>1. con[d] \in LoginStates /\ con[d] \in MotdStates
    BY <1>2 DEF LoginStates, MotdStates, ReadMotd
  <2>2. /\ c \in Char \ char_list /\ char[c] \in CharData /\ char[c] # None
        /\ m \in Name
    BY <2>1, CharGood DEF CharData, LinkInv, LinkConsistent
  <2>3. char[c].ver = file[m].ver
    BY <2>1, <2>2 DEF RegInv, FreshInv
  <2>4. file' = file \/ file' = Saved(s)
    BY <1>2 DEF ReadMotd
  <2>5. s.name = m /\ Snap(s).ver = char[c].ver /\ Snap(s).id = char[c].id
    BY <2>2 DEF CharData, Snap
  <2>6. \/ file'[n] = file[n]
        \/ n = m /\ file'[n] = Snap(s)
    BY <2>4, <2>5, InvNow DEF Saved
  <2> HIDE DEF s
  <2> QED BY <2>2, <2>3, <2>5, <2>6 DEF Written, SameFile
<1>3. CASE ~WrongAnswer(d) /\ ~ReadMotd(d)
  BY <1>3, LoginFiles DEF Written
<1> QED BY <1>1, <1>2, <1>3

LEMMA ConnectionWritten ==
    ASSUME LinkInv, RegInv, NEW d \in Desc, Close(d) \/ Player(d), NEW n \in Name
    PROVE  Written(n)
<1>1. ASSUME con[d] = "PLAYING", file' = Saved(char[dchar[d]])
      PROVE  Written(n)
  <2>1. /\ dchar[d] \in char_list /\ char[dchar[d]] \in CharData
        /\ char[dchar[d]].ver <= char[dchar[d]].ver
    BY <1>1, CharOf, CharGood, BoundAssumption DEF CharData
  <2> QED BY <1>1, <2>1, BodySaved
<1>2. CASE DeleteCommand(d)
  BY <1>2, InvNow DEF DeleteCommand, Written
<1>3. CASE UNCHANGED file
  BY <1>3 DEF Written
<1> QED BY <1>1, <1>2, <1>3 DEF Close, LinkFails, TimedOut, Disconnect,
                                Player, Command, RegAnswer, QuitCommand

LEMMA BodyWritten ==
    ASSUME LinkInv, LinkInv', RegInv, NEW c \in Char, Body(c), NEW n \in Name
    PROVE  Written(n)
BY BodyPlays, BodySaved DEF Plays, Written

\* A reboot closes every connection, and saves what each of them owns.
LEMMA RebootWritten ==
    ASSUME LinkInv, RegInv, Reboot, NEW n \in Name
    PROVE  Written(n)
<1>1. PICK last \in [Name -> Desc \cup {None}] :
        /\ \A m \in Name : last[m] = None \/ (last[m] \in Desc /\ Named(last[m], m))
        /\ file' = [m \in Name |-> IF last[m] = None THEN file[m]
                                   ELSE Snap(char[dchar[last[m]]])]
  BY DEF Reboot
<1>2. CASE last[n] = None
  BY <1>1, <1>2 DEF Written
<1>3. CASE last[n] # None
  <2> DEFINE d == last[n]
  <2>1. d \in Desc /\ Named(d, n) /\ file'[n] = Snap(char[dchar[d]])
    BY <1>1, <1>3
  <2> HIDE DEF d
  <2>2. con[d] = "PLAYING" \/ con[d] \in LoginStates
    BY <2>1, InvNow, Owners DEF Named
  <2>3. /\ dchar[d] \in Char /\ char[dchar[d]] # None /\ char[dchar[d]].ver \in Nat
        /\ file'[n].ver = char[dchar[d]].ver /\ SameFile(n)
    BY <2>1, <2>2, CharGood, Typed DEF Snap, SameFile, Named
  <2>4. CASE con[d] = "PLAYING"
    <3>1. dchar[d] \in Bodies(n) /\ char[dchar[d]].ver <= file'[n].ver
      BY <2>1, <2>3, <2>4, CharOf DEF Bodies, Named
    <3> QED BY <2>3, <3>1 DEF Written, BodyWrites
  <2>5. CASE con[d] \in LoginStates
    <3>1. con'[d] = "FREE"
      BY <2>1 DEF Reboot, Restart, Memory
    <3> QED BY <2>1, <2>3, <2>5, <3>1 DEF Written, LoginWrites
  <2> QED BY <2>2, <2>4, <2>5
<1> QED BY <1>2, <1>3

LEMMA StepWritten ==
    ASSUME LinkInv, LinkInv', RegInv, FreshInv, [Next]_vars, NEW n \in Name
    PROVE  Written(n)
<1>1. ASSUME NEW d \in Desc, Login(d) \/ Close(d) \/ Player(d)
      PROVE  Written(n)
  BY <1>1, LoginWritten, ConnectionWritten
<1>2. ASSUME NEW c \in Char, Body(c)
      PROVE  Written(n)
  BY <1>2, BodyWritten
<1>3. CASE CharUpdate
  <2>1. CASE file'[n] = file[n]
    BY <2>1 DEF Written
  <2>2. ASSUME NEW b \in Bodies(n), file'[n] = Snap(Ticked(b))
        PROVE  Written(n)
    <3>1. /\ file'[n].ver = char[b].ver /\ char[b].ver \in Nat
          /\ file'[n].id = char[b].id /\ b \in Char /\ char[b] # None /\ char[b].name = n
      BY <2>2, TickedCopy, Typed DEF Bodies, Snap, SameCopy
    <3> QED BY <3>1 DEF Written, BodyWrites, SameFile
  <2> QED BY <1>3, <2>1, <2>2, TickSaves
<1>4. CASE Reboot
  BY <1>4, RebootWritten
<1>5. CASE Crash \/ UNCHANGED vars
  BY <1>5 DEF Crash, vars, Written
<1> QED BY <1>1, <1>2, <1>3, <1>4, <1>5 DEF Next

\* On a closed server only a login that fails, or that a reboot cuts short, takes the
\* file of a player back to an older character: bodies are never older than it.
THEOREM OnlyLoginsRollBack == Spec => RollBackOnlyByLogin
<1> DEFINE Safe(n) == (/\ file[n] # None /\ file'[n] # None
                       /\ file'[n].ver < file[n].ver) => LoginWrites(n)
<1>1. ASSUME LinkInv, LinkInv', RegInv, FreshInv, [Next]_vars, NEW n \in Name
      PROVE  Safe(n)
  <2> SUFFICES ASSUME file[n] # None, file'[n] # None, file'[n].ver < file[n].ver
               PROVE  LoginWrites(n)
    OBVIOUS
  <2>1. file[n].ver \in Nat
    BY <1>1, Typed
  <2>2. file'[n].ver # file[n].ver /\ file'[n] # file[n]
    BY <2>1
  <2>3. ~BodyWrites(n)
    <3> SUFFICES ASSUME NEW c \in Bodies(n), file'[n].ver \in Nat,
                        char[c].ver <= file'[n].ver
                 PROVE  FALSE
      BY DEF BodyWrites
    <3>1. file[n].ver <= char[c].ver /\ char[c].ver \in Nat
      BY <1>1, Typed DEF Bodies, FreshInv
    <3> QED BY <2>1, <3>1
  <2> QED BY <1>1, <2>2, <2>3, StepWritten DEF Written
<1>2. FreshClosed /\ [Next]_vars =>
        [Registered => \A n \in Name : Safe(n)]_vars
  BY <1>1, LinkInvStep DEF FreshClosed, ClosedInv
<1>3. [Registered => \A n \in Name : Safe(n)]_vars =>
        [Registered =>
           \A n \in Name :
              (/\ file[n] # None /\ file'[n] # None
               /\ file'[n].ver < file[n].ver)
              => \E d \in Desc : /\ con[d] \in LoginStates /\ con'[d] = "FREE"
                                 /\ Named(d, n)
                                 /\ file'[n].ver = char[dchar[d]].ver]_vars
  BY DEF LoginWrites
<1> HIDE DEF Safe
<1> QED BY <1>2, <1>3, FreshAlways, PTL DEF Spec, RollBackOnlyByLogin
-----------------------------------------------------------------------------
(***************************************************************************)
(* What a player may rely on: a closed server implements Presence.         *)
(***************************************************************************)

\* get_pc_id() never gives an identifier twice: what do_quit() takes for a copy of
\* the player who leaves is never another player.
OwnIds ==
    \A m, n \in Name : InitFile[m] # None /\ InitFile[n] # None
                       /\ InitFile[m].id = InitFile[n].id => m = n

FileIds ==
    \A m, n \in Name : file[m] # None /\ file[n] # None /\ file[m].id = file[n].id => m = n

LEMMA FileIdsStep ==
    ASSUME LinkInv, LinkInv', RegInv, FreshInv, FileIds, [Next]_vars
    PROVE  FileIds'
<1>1. \A n \in Name : file'[n] # None => file[n] # None /\ file'[n].id = file[n].id
  BY StepWritten DEF Written, SameFile, FreshInv
<1> QED BY <1>1 DEF FileIds

\* What one player may do in a step of Presence.
Moves(n) == P!Enter(n) \/ P!Play(n) \/ P!Leave(n) \/ P!Relapse(n) \/ P!Same(n)

\* A player has one body, or none.
LEMMA Lone ==
    ASSUME LinkInv, RegInv, NEW n \in Name, NEW c \in char_list, char[c].name = n
    PROVE  /\ Bodies(n) = {c} /\ Played(n) = char[c].ver
           /\ WhereIs(n) = IF char[c].desc = None THEN "linkdead" ELSE "linked"
<1>1. Bodies(n) = {c}
  BY DEF RegInv, Bodies
<1>2. LinkDead(n) = {} <=> char[c].desc # None
  BY <1>1 DEF LinkDead
<1> QED BY <1>1, <1>2 DEF Played, WhereIs

LEMMA LoneNext ==
    ASSUME LinkInv', RegInv', NEW n \in Name, NEW c \in char_list', char'[c].name = n
    PROVE  /\ Bodies(n)' = {c} /\ Played(n)' = char'[c].ver
           /\ WhereIs(n)' = IF char'[c].desc = None THEN "linkdead" ELSE "linked"
<1>1. Bodies(n)' = {c}
  BY DEF RegInv, Bodies
<1>2. LinkDead(n)' = {} <=> char'[c].desc # None
  BY <1>1 DEF LinkDead
<1> QED BY <1>1, <1>2 DEF Played, WhereIs

LEMMA Away ==
    ASSUME NEW n
    PROVE  /\ (\A c \in char_list : char[c].name # n) => WhereIs(n) = "away" /\ Played(n) = 0
           /\ (\A c \in char_list' : char'[c].name # n) => WhereIs(n)' = "away" /\ Played(n)' = 0
BY DEF WhereIs, Played, Bodies

\* The view of Presence at a name.
LEMMA View ==
    ASSUME NEW n \in Name
    PROVE  /\ P!Enter(n) <=>
                /\ WhereIs(n) = "away" /\ WhereIs(n)' = "linked"
                /\ Kept(file)[n] # None
                /\ Played(n)' = Kept(file)[n] /\ Kept(file')[n] = Kept(file)[n]
           /\ P!Play(n) <=>
                /\ WhereIs(n) # "away" /\ WhereIs(n)' # "away"
                /\ Played(n)' >= Played(n)
                /\ Kept(file')[n] \in {Kept(file)[n], Played(n)'}
           /\ P!Leave(n) <=>
                /\ WhereIs(n) # "away" /\ WhereIs(n)' = "away"
                /\ Played(n)' = 0 /\ Kept(file')[n] \in {Played(n), None}
           /\ P!Overwritten(n) <=>
                /\ WhereIs(n) # "away" /\ Kept(file)[n] # None /\ Kept(file')[n] # None
                /\ Kept(file')[n] <= Played(n)
           /\ P!Relapse(n) <=>
                /\ WhereIs(n)' = WhereIs(n) /\ Played(n)' = Played(n) /\ P!Overwritten(n)
           /\ P!Same(n) <=>
                /\ WhereIs(n)' = WhereIs(n) /\ Played(n)' = Played(n)
                /\ Kept(file')[n] = Kept(file)[n]
BY DEF P!Enter, P!Play, P!Leave, P!Overwritten, P!Relapse, P!Same

\* A player who has a body keeps it, and one who has none stays away; the file keeps
\* what it has, or gets what the body then is.
LEMMA InPlace ==
    ASSUME LinkInv, LinkInv', RegInv, RegInv', NEW n \in Name,
           \A c \in char_list : char[c].name = n =>
              c \in char_list' /\ char'[c].name = n /\ char[c].ver <= char'[c].ver,
           \A c \in char_list' : char'[c].name = n => c \in char_list /\ char[c].name = n,
           \/ file'[n] = file[n]
           \/ /\ file'[n] # None
              /\ \E c \in char_list : char[c].name = n /\ file'[n].ver = char'[c].ver
    PROVE  Moves(n)
<1>1. CASE \A c \in char_list : char[c].name # n
  <2>1. WhereIs(n)' = WhereIs(n) /\ Played(n)' = Played(n) /\ file'[n] = file[n]
    BY <1>1, Away
  <2> QED BY <2>1, View DEF Moves, Kept
<1>2. ASSUME NEW c \in char_list, char[c].name = n
      PROVE  Moves(n)
  <2>1. c \in char_list' /\ char'[c].name = n /\ char[c].ver <= char'[c].ver
    BY <1>2
  <2>2. /\ WhereIs(n) # "away" /\ WhereIs(n)' # "away"
        /\ Played(n) = char[c].ver /\ Played(n)' = char'[c].ver
    BY <1>2, <2>1, Lone, LoneNext
  <2>3. char[c].ver \in Nat /\ char'[c].ver \in Nat
    BY <2>1, Typed, TypedNext
  <2>4. file'[n] = file[n] \/ (file'[n] # None /\ file'[n].ver = char'[c].ver)
    BY <1>2 DEF RegInv
  <2>5. Kept(file')[n] = Kept(file)[n] \/ Kept(file')[n] = char'[c].ver
    BY <2>4 DEF Kept
  <2>6. Played(n)' >= Played(n)
    BY <2>1, <2>2, <2>3
  <2> QED BY <2>2, <2>5, <2>6, View DEF Moves
<1> QED BY <1>1, <1>2

\* A player leaves, and what he was is in his file.
LEMMA Leaving ==
    ASSUME LinkInv, RegInv, NEW n \in Name, NEW c \in char_list, char[c].name = n,
           \A x \in char_list' : char'[x].name # n,
           file'[n] = None \/ (file'[n] # None /\ file'[n].ver = char[c].ver)
    PROVE  Moves(n)
<1>1. WhereIs(n) # "away" /\ Played(n) = char[c].ver
  BY Lone
<1>2. WhereIs(n)' = "away" /\ Played(n)' = 0
  BY Away
<1>3. Kept(file')[n] \in {Played(n), None}
  BY <1>1 DEF Kept
<1> QED BY <1>1, <1>2, <1>3, View DEF Moves

\* do_quit() takes no other body along.
LEMMA OnlyThey ==
    ASSUME LinkInv, RegInv, FreshInv, FileIds, NEW S \in SUBSET char_list
    PROVE  \A c \in char_list : c \in Removed(S) => c \in S
<1> SUFFICES ASSUME NEW c \in char_list, c \in Removed(S), c \notin S PROVE FALSE
  OBVIOUS
<1>1. PICK s \in S : char[s].id = char[c].id
  BY DEF Removed, Toasted
<1>2. char[s].name = char[c].name
  BY <1>1, Typed DEF FreshInv, FileIds
<1> QED BY <1>1, <1>2 DEF RegInv

\* A step of the dialogue: one player may enter, and one copy be saved over a file.
LEMMA LoginMoves ==
    ASSUME LinkInv, LinkInv', RegInv, RegInv', FreshInv,
           NEW d \in Desc, Login(d), NEW n \in Name
    PROVE  Moves(n)
<1>1. CASE ReadMotd(d)
  <2>1. PICK c \in Char \ char_list, m \in Name :
           /\ char_list' = char_list \cup {c}
           /\ \A x \in char_list : char[x].name # m
           /\ file[m] # None /\ file'[m] # None /\ file'[m].ver = file[m].ver
           /\ \A k \in Name : k # m => file'[k] = file[k]
           /\ char'[c].name = m /\ char'[c].ver = file[m].ver /\ char'[c].desc # None
           /\ \A x \in Char \ {c} : char'[x] = char[x]
    BY <1>1, Entrance
  <2>2. CASE n = m
    <3>1. WhereIs(n) = "away"
      BY <2>1, <2>2, Away
    <3>2. WhereIs(n)' = "linked" /\ Played(n)' = file[n].ver
      BY <2>1, <2>2, LoneNext
    <3>3. Kept(file)[n] = file[n].ver /\ Kept(file')[n] = file[n].ver
      BY <2>1, <2>2 DEF Kept
    <3>4. file[n].ver # None
      BY <2>1, <2>2, Typed, KeptAssumption
    <3> QED BY <3>1, <3>2, <3>3, <3>4, View DEF Moves
  <2>3. CASE n # m
    <3>1. \A x \in char_list : x # c /\ char'[x] = char[x] /\ char[x].ver <= char[x].ver
      BY <2>1, Typed
    <3> QED BY <2>1, <2>3, <3>1, InPlace
  <2> QED BY <2>2, <2>3
<1>2. CASE WrongAnswer(d)
  <2> DEFINE x == dchar[d]
  <2>1. PICK r \in CharData : /\ SameCopy(r, char[x]) /\ file' = Saved(r)
                              /\ x \in Char /\ char[x] # None /\ con[d] \in LoginStates
    BY <1>2, WrongCopy
  <2>2. x \in Char \ char_list /\ char[x].ver \in Nat
    BY <2>1, Typed DEF LinkInv, LinkConsistent
  <2>3. char_list' = char_list /\ \A c \in char_list : char'[c] = char[c]
    <3>1. CloseSocket({d}) /\ con[d] # "PLAYING"
      BY <1>2 DEF WrongAnswer
    <3> QED BY <2>2, <3>1, Typed DEF CloseSocket, CloseChar, Playing, NotPlaying
  <2>4. file'[n] = IF n = char[x].name THEN Snap(r) ELSE file[n]
    BY <2>1, InvNow DEF Saved, SameCopy
  <2>5. Snap(r) # None /\ Snap(r).ver = char[x].ver
    BY <2>1, SavedType, DataAssumption DEF Snap, SameCopy
  <2> HIDE DEF x
  <2>6. CASE n # char[x].name
    <3>1. \A c \in char_list : char[c].ver <= char[c].ver
      BY Typed
    <3> QED BY <2>3, <2>4, <2>6, <3>1, InPlace
  <2>7. CASE n = char[x].name /\ \A c \in char_list : char[c].name # n
    <3>1. file[n] # None /\ file[n].ver = char[x].ver
      BY <2>2, <2>1, <2>7 DEF FreshInv
    <3>2. Kept(file')[n] = Kept(file)[n]
      BY <2>4, <2>5, <2>7, <3>1 DEF Kept
    <3>3. WhereIs(n)' = WhereIs(n) /\ Played(n)' = Played(n)
      BY <2>3, <2>7, Away
    <3> QED BY <3>2, <3>3, View DEF Moves
  <2>8. ASSUME n = char[x].name, NEW c \in char_list, char[c].name = n
        PROVE  Moves(n)
    <3>1. /\ WhereIs(n) # "away" /\ WhereIs(n)' = WhereIs(n)
          /\ Played(n) = char[c].ver /\ Played(n)' = char[c].ver
      BY <2>3, <2>8, Lone, LoneNext
    <3>2. char[x].ver <= char[c].ver /\ file[n] # None
      BY <2>1, <2>2, <2>8 DEF FreshInv
    <3>3. file[n].ver \in Nat
      BY <3>2, Typed
    <3>4. Kept(file)[n] # None /\ Kept(file')[n] = char[x].ver /\ char[x].ver # None
      BY <2>2, <2>4, <2>5, <2>8, <3>2, <3>3, KeptAssumption DEF Kept
    <3> QED BY <3>1, <3>2, <3>4, View DEF Moves
  <2> QED BY <2>6, <2>7, <2>8
<1>3. CASE ~ReadMotd(d) /\ ~WrongAnswer(d)
  <2>1. char_list' = char_list /\ file' = file
    BY <1>3, LoginCopies, LoginFiles
  <2>2. \A c \in char_list : SameCopy(char'[c], char[c]) /\ char[c].ver <= char'[c].ver
    BY <1>3, <2>1, LoginCopies, Typed, TypedNext DEF SameCopy
  <2> QED BY <2>1, <2>2, InPlace DEF SameCopy
<1> QED BY <1>1, <1>2, <1>3

\* A body plays.
LEMMA PlaysMoves ==
    ASSUME LinkInv, LinkInv', RegInv, RegInv', NEW c, NEW r, Plays(c, r), NEW n \in Name
    PROVE  Moves(n)
<1>1. c \in Char /\ char_list \subseteq Char /\ \A x \in Char : char[x] # None => char[x].ver \in Nat
  BY Typed DEF Plays
<1>2. \A x \in Char : char'[x] = IF x = c THEN r ELSE char[x]
  BY <1>1, InvNow DEF Plays, Links, LinkTypes
<1>3. \A x \in char_list : char'[x].name = char[x].name /\ char[x].ver <= char'[x].ver
  BY <1>1, <1>2, Typed DEF Plays
<1>4. file'[n] = file[n] \/ (n = char[c].name /\ file'[n] = Snap(r))
  BY InvNow DEF Plays, Saved
<1>5. Snap(r) # None /\ Snap(r).ver = r.ver
  BY SavedType, DataAssumption DEF Plays, Snap
<1> QED BY <1>1, <1>2, <1>3, <1>4, <1>5, InPlace DEF Plays

\* A connection is closed.
LEMMA CloseMoves ==
    ASSUME LinkInv, LinkInv', RegInv, RegInv', NEW d \in Desc, Close(d), NEW n \in Name
    PROVE  Moves(n)
<1>1. CloseSocket({d})
  BY DEF Close, LinkFails, TimedOut, Disconnect
<1>2. /\ char_list' = char_list
      /\ \A x \in char_list : /\ char'[x].name = char[x].name /\ char'[x].ver = char[x].ver
                              /\ char[x].ver <= char'[x].ver
  <2>1. char_list' = char_list /\ char' = CloseChar({d})
    BY <1>1 DEF CloseSocket
  <2>2. \A x \in char_list : x \in Char /\ char'[x] # None /\ char[x].ver \in Nat
    BY <2>1, Typed, TypedNext
  <2>3. \A x \in char_list : SameCopy(char'[x], char[x])
    BY <2>1, <2>2, CloseCopy
  <2> QED BY <2>1, <2>2, <2>3 DEF SameCopy
<1>3. CASE file' = file
  BY <1>2, <1>3, InPlace
<1>4. CASE con[d] = "PLAYING" /\ file' = Saved(char[dchar[d]])
  <2> DEFINE c == dchar[d]
  <2>1. c \in char_list /\ char[c] \in CharData
    BY <1>4, CharOf
  <2>2. file'[n] = IF n = char[c].name THEN Snap(char[c]) ELSE file[n]
    BY <1>4, InvNow DEF Saved
  <2>3. Snap(char[c]) # None /\ Snap(char[c]).ver = char[c].ver
    BY <2>1, SavedType, DataAssumption DEF Snap
  <2> HIDE DEF c
  <2> QED BY <1>2, <2>1, <2>2, <2>3, InPlace
<1> QED BY <1>3, <1>4 DEF Close, LinkFails, TimedOut, Disconnect

\* A player quits or deletes himself: he leaves, everybody else stays.
LEMMA QuitMoves ==
    ASSUME LinkInv, LinkInv', RegInv, RegInv', FreshInv, FileIds,
           NEW c \in char_list, Quit({c}), NEW n \in Name,
           \/ file' = Saved(char[c])
           \/ file' = [file EXCEPT ![char[c].name] = None]
    PROVE  Moves(n)
<1>1. char_list' = char_list \ {c}
  BY OnlyThey DEF Quit, Removed
<1>2. \A x \in char_list' : char'[x] = char[x] /\ char[x].ver <= char[x].ver
  BY <1>1, Typed DEF Quit
<1>3. CASE n = char[c].name
  <2>1. \A x \in char_list' : char'[x].name # n
    BY <1>1, <1>2, <1>3 DEF RegInv
  <2>2. file'[n] = None \/ (file'[n] # None /\ file'[n].ver = char[c].ver)
    BY <1>3, InvNow, BodyOf, SavedType, DataAssumption DEF Saved, Snap
  <2> QED BY <1>3, <2>1, <2>2, Leaving
<1>4. CASE n # char[c].name
  <2>1. file'[n] = file[n]
    BY <1>4, InvNow DEF Saved
  <2> QED BY <1>1, <1>2, <1>4, <2>1, InPlace
<1> QED BY <1>3, <1>4

LEMMA PlayerMoves ==
    ASSUME LinkInv, LinkInv', RegInv, RegInv', FreshInv, FileIds,
           NEW d \in Desc, Player(d), NEW n \in Name
    PROVE  Moves(n)
<1>1. con[d] = "PLAYING" => dchar[d] \in char_list /\ Good(char[dchar[d]])
  BY CharOf, CharGood
<1>2. CASE Command(d)
  BY <1>2, PlayerPlays, PlaysMoves
<1>3. CASE RegAnswer(d)
  BY <1>1, <1>3 DEF RegAnswer, Good
<1>4. CASE QuitCommand(d) \/ DeleteCommand(d)
  BY <1>1, <1>4, QuitMoves DEF QuitCommand, DeleteCommand
<1> QED BY <1>2, <1>3, <1>4 DEF Player

\* The tick: whoever has idled too long leaves, everybody else is saved where he is.
LEMMA TickMoves ==
    ASSUME LinkInv, LinkInv', RegInv, RegInv', FreshInv, FileIds, CharUpdate,
           NEW n \in Name
    PROVE  Moves(n)
<1>1. Quitting \subseteq char_list
  BY DEF Quitting
<1>2. \A c \in char_list : c \in Removed(Quitting) <=> c \in Quitting
  BY <1>1, OnlyThey DEF Removed
<1>3. /\ char_list' = char_list \ Quitting
      /\ \A c \in char_list \ Quitting : char'[c] = Ticked(c)
  BY <1>2, Typed DEF CharUpdate
<1>4. \A c \in char_list : SameCopy(Ticked(c), char[c]) /\ char[c].ver <= Ticked(c).ver
  BY TickedCopy, Typed DEF SameCopy
<1>5. /\ (\A c \in char_list : char[c].name # n) => file'[n] = file[n]
      /\ \A c \in char_list : char[c].name = n => file'[n] = Snap(Ticked(c))
  <2> DEFINE saved == (char_list \ Removed(Quitting)) \cup Quitting
  <2>1. saved = char_list
    BY <1>1, <1>2
  <2> HIDE DEF saved
  <2>2. PICK last \in [Name -> saved \cup {None}] :
           /\ \A m \in Name : IF Bodies(m) \cap saved = {} THEN last[m] = None
                              ELSE last[m] \in Bodies(m)
           /\ file' = [m \in Name |-> IF last[m] = None THEN file[m]
                                      ELSE Snap(Ticked(last[m]))]
    BY DEF CharUpdate, saved
  <2>3. (\A c \in char_list : char[c].name # n) => last[n] = None
    BY <2>1, <2>2 DEF Bodies
  <2>4. \A c \in char_list : char[c].name = n => last[n] = c /\ last[n] # None
    BY <2>1, <2>2, Lone, Typed, NoneAssumption
  <2> QED BY <2>2, <2>3, <2>4
<1>6. ASSUME NEW c \in char_list, char[c].name = n
      PROVE  file'[n] # None /\ file'[n].ver = char[c].ver
  <2>1. file'[n] = Snap(Ticked(c)) /\ Snap(Ticked(c)) # None
    BY <1>5, <1>6, TickedGood
  <2>2. Snap(Ticked(c)).ver = Ticked(c).ver
    BY DEF Snap
  <2> QED BY <1>4, <2>1, <2>2 DEF SameCopy
<1>7. CASE \A c \in char_list : char[c].name # n
  BY <1>3, <1>4, <1>5, <1>7, InPlace DEF SameCopy
<1>8. ASSUME NEW c \in char_list, char[c].name = n, c \in Quitting
      PROVE  Moves(n)
  <2>1. \A x \in char_list' : char'[x].name # n
    BY <1>3, <1>4, <1>8 DEF RegInv, SameCopy
  <2> QED BY <1>6, <1>8, <2>1, Leaving
<1>9. ASSUME NEW c \in char_list, char[c].name = n, c \notin Quitting
      PROVE  Moves(n)
  <2>1. char'[c].ver = char[c].ver
    BY <1>3, <1>4, <1>9 DEF SameCopy
  <2>2. \A x \in char_list : char[x].name = n => x = c
    BY <1>9 DEF RegInv
  <2> QED BY <1>3, <1>4, <1>6, <1>9, <2>1, <2>2, InPlace DEF SameCopy
<1> QED BY <1>7, <1>8, <1>9

\* The end of the process: everybody is away with what was kept, or with what one of
\* the connections that are closed had.
LEMMA EndMoves ==
    ASSUME LinkInv, RegInv, FreshInv, Reboot \/ Crash
    PROVE  P!End
<1>1. Restart
  BY DEF Reboot, Crash
<1>2. \A n \in Name : WhereIs(n)' = "away" /\ Played(n)' = 0
  BY <1>1, Away DEF Restart
<1>3. ASSUME NEW n \in Name
      PROVE  Kept(file')[n] = Kept(file)[n] \/ P!Overwritten(n)
  <2>1. CASE file'[n] = file[n]
    BY <2>1 DEF Kept
  <2>2. ASSUME NEW d \in Desc, Named(d, n), file'[n] = Snap(char[dchar[d]])
        PROVE  Kept(file')[n] = Kept(file)[n] \/ P!Overwritten(n)
    <3> DEFINE x == dchar[d]
    <3>1. con[d] = "PLAYING" \/ con[d] \in LoginStates
      BY <2>2, InvNow, Owners DEF Named
    <3>2. /\ x \in Char /\ char[x] \in CharData /\ char[x] # None /\ char[x].name = n
          /\ char[x].ver \in Nat /\ file[n] # None
      BY <2>2, <3>1, CharGood, Typed DEF Named, FreshInv
    <3>3. file'[n] # None /\ file'[n].ver = char[x].ver
      BY <2>2, <3>2, SavedType, DataAssumption DEF Snap
    <3>4. Kept(file')[n] = char[x].ver /\ Kept(file)[n] = file[n].ver
      BY <3>2, <3>3 DEF Kept
    <3>5. file[n].ver \in Nat
      BY <3>2, Typed
    <3> HIDE DEF x
    <3>6. CASE \A c \in char_list : char[c].name # n
      <4>1. char[x].ver = file[n].ver
        BY <3>2, <3>6 DEF FreshInv
      <4> QED BY <3>4, <4>1
    <3>7. ASSUME NEW c \in char_list, char[c].name = n
          PROVE  P!Overwritten(n)
      <4>1. WhereIs(n) # "away" /\ Played(n) = char[c].ver
        BY <3>7, Lone
      <4>2. char[x].ver <= char[c].ver
        <5>1. CASE x \in char_list
          BY <3>2, <3>7, <5>1 DEF RegInv
        <5>2. CASE x \notin char_list
          BY <3>2, <3>7, <5>2 DEF FreshInv
        <5> QED BY <5>1, <5>2
      <4>3. char[x].ver # None /\ file[n].ver # None
        BY <3>2, <3>5, KeptAssumption
      <4> QED BY <3>4, <4>1, <4>2, <4>3, View
    <3> QED BY <3>6, <3>7
  <2>3. file'[n] = file[n] \/ \E d \in Desc : Named(d, n) /\ file'[n] = Snap(char[dchar[d]])
    <3>1. CASE Crash
      BY <3>1 DEF Crash
    <3>2. CASE Reboot
      <4>1. PICK last \in [Name -> Desc \cup {None}] :
              /\ \A m \in Name : last[m] = None \/ (last[m] \in Desc /\ Named(last[m], m))
              /\ file' = [m \in Name |-> IF last[m] = None THEN file[m]
                                         ELSE Snap(char[dchar[last[m]]])]
        BY <3>2 DEF Reboot
      <4> QED BY <4>1
    <3> QED BY <3>1, <3>2
  <2> QED BY <2>1, <2>2, <2>3
<1> QED BY <1>2, <1>3 DEF P!End

LEMMA StepMoves ==
    ASSUME LinkInv, LinkInv', RegInv, RegInv', FreshInv, FileIds, [Next]_vars
    PROVE  [P!Next]_(P!vars)
<1>1. [n \in Name |-> WhereIs(n)]' \in [Name -> {"away", "linked", "linkdead"}]
  BY DEF WhereIs
<1>2. ASSUME \A n \in Name : Moves(n)
      PROVE  P!Next
  BY <1>1, <1>2 DEF P!Next, P!Step, Moves
<1>3. CASE \E d \in Desc : Login(d) \/ Close(d) \/ Player(d)
  BY <1>2, <1>3, LoginMoves, CloseMoves, PlayerMoves
<1>4. CASE \E c \in Char : Body(c)
  BY <1>2, <1>4, BodyPlays, PlaysMoves
<1>5. CASE CharUpdate
  BY <1>2, <1>5, TickMoves
<1>6. CASE Reboot \/ Crash
  BY <1>1, <1>6, EndMoves DEF P!Next
<1>7. CASE UNCHANGED vars
  <2>1. \A n \in Name : WhereIs(n)' = WhereIs(n) /\ Played(n)' = Played(n)
    BY <1>7 DEF vars, WhereIs, Played, LinkDead, Bodies
  <2>2. Kept(file') = Kept(file)
    BY <1>7 DEF vars
  <2> QED BY <2>1, <2>2 DEF P!vars
<1> QED BY <1>3, <1>4, <1>5, <1>6, <1>7 DEF Next

\* On a closed server connections, dialogues, takeovers, timeouts and stale copies
\* stay invisible: for the player it is the life that Presence describes, for any
\* number of players, connections and characters.
THEOREM ClosedServerImplementsPresence == Registered /\ OwnIds /\ Spec => ImplementsPresence
<1> SUFFICES ASSUME Registered, OwnIds PROVE Spec => ImplementsPresence
  OBVIOUS
<1>1. Init => FileIds
  BY DEF Init, OwnIds, FileIds
<1>2. FreshClosed /\ FileIds /\ [Next]_vars => FileIds'
  BY LinkInvStep, FileIdsStep DEF FreshClosed, ClosedInv
<1>3. Init => P!Init
  BY Away DEF Init, Memory, P!Init
<1>4. FreshClosed /\ FileIds /\ [Next]_vars => [P!Next]_(P!vars)
  BY LinkInvStep, RegInvStep, StepMoves DEF FreshClosed, ClosedInv, Registered
<1> QED BY <1>1, <1>2, <1>3, <1>4, FreshAlways, PTL DEF Spec, ImplementsPresence, P!Spec
=============================================================================
