---------------------------- MODULE FightProofs ----------------------------
(***************************************************************************)
(* Proofs about Fight: the two lists are sound, no fight points out of the *)
(* world, and a walk over char_list that never lost its next character     *)
(* gives everybody his turn, once, and brings back all the dead.           *)
(*                                                                         *)
(* First what the two operations on sequences do to their order ("From"),  *)
(* then the blows, which only thin the world out ("Thins"), and then the   *)
(* walks: while nothing was cut, those who wait are those from the saved   *)
(* character on.                                                           *)
(***************************************************************************)
EXTENDS Fight, Integers, FiniteSetTheorems, SequenceTheorems, WellFoundedInduction,
        NaturalsInduction, TLAPS

\* What stands in q at c or behind it.
From(q, c) == {q[j] : j \in {j \in 1..Len(q) : \E i \in 1..Len(q) : i <= j /\ q[i] = c}}

Distinct(q) == \A i, j \in 1..Len(q) : q[i] = q[j] => i = j

-----------------------------------------------------------------------------
(* Sequences. *)

LEMMA Positions ==
  ASSUME NEW S, NEW q \in Seq(S)
  PROVE  /\ ToSet(q) = {q[i] : i \in 1..Len(q)} /\ ToSet(q) \subseteq S
         /\ IsInjective(q) <=> Distinct(q)
         /\ \A i \in 1..Len(q) : q[i] \in S
  BY DEF ToSet, IsInjective, Distinct

\* Two lists are sound together if each is, and they have nobody in common.
LEMMA TwoLists ==
  ASSUME NEW S, NEW p \in Seq(S), NEW q \in Seq(S)
  PROVE  IsInjective(p \o q) <=>
           Distinct(p) /\ Distinct(q) /\ ToSet(p) \cap ToSet(q) = {}
<1> DEFINE r == p \o q
<1>1. /\ r \in Seq(S) /\ Len(r) = Len(p) + Len(q)
      /\ \A i \in 1..Len(p) : r[i] = p[i]
      /\ \A i \in 1..Len(q) : r[Len(p) + i] = q[i]
      /\ Len(p) \in Nat /\ Len(q) \in Nat
  OBVIOUS
<1>2. IsInjective(r) <=> Distinct(r)
  BY <1>1, Positions
<1>3. ASSUME Distinct(r) PROVE Distinct(p) /\ Distinct(q) /\ ToSet(p) \cap ToSet(q) = {}
  <2>1. Distinct(p)
    BY <1>1, <1>3 DEF Distinct
  <2>2. Distinct(q)
    <3> SUFFICES ASSUME NEW i \in 1..Len(q), NEW j \in 1..Len(q), q[i] = q[j] PROVE i = j
      BY DEF Distinct
    <3>1. Len(p) + i \in 1..Len(r) /\ Len(p) + j \in 1..Len(r) /\ r[Len(p) + i] = r[Len(p) + j]
      BY <1>1
    <3>2. Len(p) + i = Len(p) + j
      BY <3>1, <1>3 DEF Distinct
    <3>. QED  BY <3>2, <1>1
  <2>3. ASSUME NEW i \in 1..Len(p), NEW j \in 1..Len(q), p[i] = q[j] PROVE FALSE
    <3>1. i \in 1..Len(r) /\ Len(p) + j \in 1..Len(r) /\ r[i] = r[Len(p) + j]
      BY <1>1, <2>3
    <3>2. i = Len(p) + j
      BY <3>1, <1>3 DEF Distinct
    <3>. QED  BY <3>2, <1>1
  <2>. QED  BY <2>1, <2>2, <2>3, Positions
<1>4. ASSUME Distinct(p), Distinct(q), ToSet(p) \cap ToSet(q) = {} PROVE Distinct(r)
  <2> SUFFICES ASSUME NEW i \in 1..Len(r), NEW j \in 1..Len(r), r[i] = r[j] PROVE i = j
    BY DEF Distinct
  <2> DEFINE a(k) == k - Len(p)
  <2>0. ASSUME NEW k \in 1..Len(r)
        PROVE  \/ k \in 1..Len(p) /\ r[k] = p[k] /\ r[k] \in ToSet(p)
               \/ a(k) \in 1..Len(q) /\ r[k] = q[a(k)] /\ r[k] \in ToSet(q)
    <3>1. CASE k <= Len(p)
      BY <3>1, <1>1, Positions
    <3>2. CASE k > Len(p)
      <4>1. a(k) \in 1..Len(q) /\ k = Len(p) + a(k)
        BY <3>2, <1>1
      <4>. QED  BY <4>1, <1>1, Positions
    <3>. QED  BY <3>1, <3>2, <1>1
  <2>1. CASE i \in 1..Len(p) /\ j \in 1..Len(p)
    BY <2>1, <1>1, <1>4 DEF Distinct
  <2>2. CASE a(i) \in 1..Len(q) /\ a(j) \in 1..Len(q)
    <3>1. r[i] = q[a(i)] /\ r[j] = q[a(j)]
      <4>1. i = Len(p) + a(i) /\ j = Len(p) + a(j)
        BY <1>1
      <4>. QED  BY <4>1, <2>2, <1>1
    <3>2. a(i) = a(j)
      BY <3>1, <2>2, <1>4 DEF Distinct
    <3>. QED  BY <3>2, <1>1
  <2>. QED  BY <2>0, <2>1, <2>2, <1>4
<1>. QED  BY <1>2, <1>3, <1>4

\* Who is taken out leaves the others in their order.
LEMMA RemoveFirstIs ==
  ASSUME NEW S, NEW s \in Seq(S), Distinct(s), NEW x
  PROVE  LET t == RemoveFirst(s, x)
         IN  /\ t \in Seq(S) /\ Distinct(t) /\ ToSet(t) = ToSet(s) \ {x}
             /\ \A c \in ToSet(t) : From(t, c) = From(s, c) \cap ToSet(t)
<1> DEFINE t == RemoveFirst(s, x)
<1>0. Len(s) \in Nat
  OBVIOUS
<1>1. CASE x \notin ToSet(s)
  <2>1. t = s
    BY <1>1, Positions DEF RemoveFirst
  <2>2. \A c : From(s, c) \subseteq ToSet(s)
    BY Positions DEF From
  <2>. QED  BY <1>1, <2>1, <2>2
<1>2. CASE x \in ToSet(s)
  <2>1. PICK i \in 1..Len(s) : s[i] = x
    BY <1>2, Positions
  <2>2. {k \in 1..Len(s) : s[k] = x} = {i}
    BY <2>1 DEF Distinct
  <2>3. SelectInSeq(s, LAMBDA v : v = x) = i
    BY <2>2 DEF SelectInSeq, Min
  <2>4. t = SubSeq(s, 1, i - 1) \o SubSeq(s, i + 1, Len(s))
    BY <2>1, <2>3 DEF RemoveFirst, RemoveAt
  <2>5. /\ t \in Seq(S) /\ Len(t) = Len(s) - 1
        /\ \A k \in 1..Len(t) : t[k] = IF k < i THEN s[k] ELSE s[k + 1]
    <3> DEFINE a == SubSeq(s, 1, i - 1)
               b == SubSeq(s, i + 1, Len(s))
    <3>1. a \in Seq(S) /\ Len(a) = i - 1 /\ \A k \in 1..(i - 1) : a[k] = s[k]
      BY <1>0
    <3>2. b \in Seq(S) /\ Len(b) = Len(s) - i /\ \A k \in 1..(Len(s) - i) : b[k] = s[i + k]
      BY <1>0
    <3> HIDE DEF a, b
    <3>3. /\ a \o b \in Seq(S) /\ Len(a \o b) = Len(s) - 1
          /\ \A k \in 1..(i - 1) : (a \o b)[k] = a[k]
          /\ \A k \in i..(Len(s) - 1) : (a \o b)[k] = b[k - (i - 1)]
      <4>1. /\ a \o b \in Seq(S) /\ Len(a \o b) = Len(a) + Len(b)
            /\ \A k \in 1..(Len(a) + Len(b)) :
                 (a \o b)[k] = IF k <= Len(a) THEN a[k] ELSE b[k - Len(a)]
        BY <3>1, <3>2, ConcatProperties
      <4>2. \A k \in (Len(a) + 1)..(Len(a) + Len(b)) : (a \o b)[k] = b[k - Len(a)]
        BY <3>1, <3>2, <4>1, <1>0
      <4>4. \A k \in 1..Len(a) : (a \o b)[k] = a[k]
        BY <3>1, <3>2, <4>1, <1>0
      <4>3. Len(a) + Len(b) = Len(s) - 1 /\ Len(a) + 1 = i
        BY <3>1, <3>2, <1>0
      <4>. QED  BY <3>1, <4>1, <4>2, <4>3, <4>4
    <3>4. \A k \in i..(Len(s) - 1) : k - (i - 1) \in 1..(Len(s) - i) /\ i + (k - (i - 1)) = k + 1
      BY <1>0
    <3>5. t = a \o b
      BY <2>4 DEF a, b
    <3>6. \A k \in 1..(Len(s) - 1) : (a \o b)[k] = IF k < i THEN s[k] ELSE s[k + 1]
      BY <3>1, <3>2, <3>3, <3>4, <1>0
    <3>. QED  BY <3>3, <3>5, <3>6
  <2> DEFINE up(k) == IF k < i THEN k ELSE k + 1
             dn(k) == IF k < i THEN k ELSE k - 1
  <2>6. \A k \in 1..Len(t) : up(k) \in 1..Len(s) /\ t[k] = s[up(k)] /\ up(k) # i
    BY <2>5, <1>0
  <2>7. \A k \in 1..Len(s) : k # i => dn(k) \in 1..Len(t) /\ s[k] = t[dn(k)] /\ up(dn(k)) = k
    BY <2>5, <1>0
  <2>8. Distinct(t)
    <3> SUFFICES ASSUME NEW j \in 1..Len(t), NEW k \in 1..Len(t), t[j] = t[k] PROVE j = k
      BY DEF Distinct
    <3>1. up(j) = up(k)
      BY <2>6 DEF Distinct
    <3>. QED  BY <3>1, <2>5, <1>0
  <2>9. ToSet(t) = ToSet(s) \ {x}
    <3>1. ToSet(t) \subseteq ToSet(s) \ {x}
      BY <2>1, <2>5, <2>6, Positions DEF Distinct
    <3>2. ToSet(s) \ {x} \subseteq ToSet(t)
      BY <2>1, <2>5, <2>7, Positions
    <3>. QED  BY <3>1, <3>2
  <2>10. ASSUME NEW c \in ToSet(t) PROVE From(t, c) = From(s, c) \cap ToSet(t)
    <3>0. ToSet(t) = {t[k] : k \in 1..Len(t)}
      BY <2>5, Positions
    <3>1. ASSUME NEW d \in From(t, c) PROVE d \in From(s, c) \cap ToSet(t)
      <4>1. PICK j \in 1..Len(t), k \in 1..Len(t) : k <= j /\ d = t[j] /\ t[k] = c
        BY <3>1 DEF From
      <4>2. k \in 1..Len(t) /\ up(k) <= up(j)
        BY <4>1, <2>5, <1>0
      <4>3. up(j) \in 1..Len(s) /\ s[up(j)] = d /\ up(k) \in 1..Len(s) /\ s[up(k)] = c
        BY <4>1, <4>2, <2>6, <1>0
      <4>. QED  BY <4>1, <4>2, <4>3, <3>0 DEF From
    <3>2. ASSUME NEW d \in From(s, c) \cap ToSet(t) PROVE d \in From(t, c)
      <4>1. PICK j \in 1..Len(s), k \in 1..Len(s) : k <= j /\ d = s[j] /\ s[k] = c
        BY <3>2 DEF From
      <4>2. j # i /\ k # i /\ k \in 1..Len(s)
        BY <4>1, <2>1, <2>9, <1>0
      <4>3. dn(j) \in 1..Len(t) /\ t[dn(j)] = d /\ dn(k) \in 1..Len(t) /\ dn(k) <= dn(j)
            /\ t[dn(k)] = c
        BY <4>1, <4>2, <2>7, <1>0, <2>5
      <4>. QED  BY <4>3 DEF From
    <3>. QED  BY <3>1, <3>2
  <2>. QED  BY <2>5, <2>8, <2>9, <2>10
<1>. QED  BY <1>1, <1>2

\* A newcomer in front is behind nobody.
LEMMA InFront ==
  ASSUME NEW S, NEW s \in Seq(S), Distinct(s), NEW x \in S, x \notin ToSet(s)
  PROVE  LET t == <<x>> \o s
         IN  /\ t \in Seq(S) /\ Distinct(t) /\ ToSet(t) = ToSet(s) \cup {x}
             /\ \A c \in ToSet(s) : From(t, c) = From(s, c)
<1> DEFINE t == <<x>> \o s
<1>1. /\ t \in Seq(S) /\ Len(t) = Len(s) + 1 /\ t[1] = x /\ Len(s) \in Nat
      /\ \A k \in 1..Len(s) : t[k + 1] = s[k]
  OBVIOUS
<1> HIDE DEF t
<1>2. \A k \in 2..Len(t) : k - 1 \in 1..Len(s) /\ t[k] = s[k - 1]
  BY <1>1
<1>3. \A k \in 1..Len(s) : s[k] # x
  BY Positions
<1>4. Distinct(t)
  <2> SUFFICES ASSUME NEW j \in 1..Len(t), NEW k \in 1..Len(t), t[j] = t[k] PROVE j = k
    BY DEF Distinct
  <2>1. CASE j = 1 \/ k = 1
    BY <2>1, <1>1, <1>2, <1>3
  <2>2. CASE j \in 2..Len(t) /\ k \in 2..Len(t)
    <3>1. j - 1 = k - 1
      BY <2>2, <1>2 DEF Distinct
    <3>. QED  BY <3>1
  <2>. QED  BY <2>1, <2>2, <1>1
<1>5. ToSet(t) = ToSet(s) \cup {x}
  <2>0. ToSet(t) = {t[k] : k \in 1..Len(t)} /\ ToSet(s) = {s[k] : k \in 1..Len(s)}
    BY <1>1, Positions
  <2>1. ASSUME NEW k \in 1..Len(t) PROVE t[k] \in {s[j] : j \in 1..Len(s)} \cup {x}
    <3>1. k = 1 \/ k \in 2..Len(t)
      BY <1>1
    <3>. QED  BY <3>1, <1>1, <1>2
  <2>2. ASSUME NEW k \in 1..Len(s) PROVE s[k] \in {t[j] : j \in 1..Len(t)}
    <3>1. k + 1 \in 1..Len(t)
      BY <1>1
    <3>. QED  BY <3>1, <1>1
  <2>3. 1 \in 1..Len(t)
    BY <1>1
  <2>. QED  BY <2>0, <2>1, <2>2, <2>3, <1>1
<1>6. ASSUME NEW c \in ToSet(s) PROVE From(t, c) = From(s, c)
  <2>0. c # x
    BY <1>6
  <2>1. ASSUME NEW d \in From(t, c) PROVE d \in From(s, c)
    <3>1. PICK j \in 1..Len(t), k \in 1..Len(t) : k <= j /\ d = t[j] /\ t[k] = c
      BY <2>1 DEF From
    <3>2. k # 1 /\ j # 1
      BY <3>1, <2>0, <1>1
    <3>3. j - 1 \in 1..Len(s) /\ s[j - 1] = d /\ k - 1 \in 1..Len(s)
          /\ k - 1 <= j - 1 /\ s[k - 1] = c
      BY <3>1, <3>2, <1>1, <1>2
    <3>. QED  BY <3>3 DEF From
  <2>2. ASSUME NEW d \in From(s, c) PROVE d \in From(t, c)
    <3>1. PICK j \in 1..Len(s), k \in 1..Len(s) : k <= j /\ d = s[j] /\ s[k] = c
      BY <2>2 DEF From
    <3>2. j + 1 \in 1..Len(t) /\ t[j + 1] = d /\ k + 1 \in 1..Len(t)
          /\ k + 1 <= j + 1 /\ t[k + 1] = c
      BY <3>1, <1>1
    <3>. QED  BY <3>2 DEF From
  <2>. QED  BY <2>1, <2>2
<1>. QED  BY <1>1, <1>4, <1>5, <1>6 DEF t

-----------------------------------------------------------------------------
(* Worlds. *)

\* A fight is of two who are in the world.
Fights(u) == \A s \in Chars : u.fight[s] # None => {s, u.fight[s]} \subseteq Listed(u)

Mobs(u) == \A m \in u.mob : m \in u.valid <=> m \in Listed(u)

Apart(u) == Distinct(u.list) /\ Distinct(u.free) /\ Listed(u) \cap Freed(u) = {}

Whole(u) == u \in Worlds /\ Apart(u) /\ Mobs(u) /\ Fights(u)

\* Who is there, v keeps in the order of u; who leaves is no longer valid.
Order(u, v) ==
    /\ Listed(v) \subseteq Listed(u)
    /\ \A c \in Listed(v) : From(v.list, c) = From(u.list, c) \cap Listed(v)

Thins(u, v) ==
    /\ Whole(v) /\ Order(u, v)
    /\ v.mob = u.mob /\ v.valid \subseteq u.valid
    /\ v.valid \cap Listed(u) \subseteq Listed(v)

LEMMA Typed ==
  ASSUME NEW u \in Worlds
  PROVE  /\ u.list \in Seq(Chars) /\ u.free \in Seq(Chars)
         /\ u.mob \subseteq Chars /\ u.valid \subseteq Chars
         /\ u.fight \in [Chars -> Chars \cup {None}]
         /\ u.master \in [Chars -> Chars \cup {None}]
         /\ Listed(u) \subseteq Chars /\ Freed(u) \subseteq Chars
<1>1. /\ u.list \in Seq(Chars) /\ u.free \in Seq(Chars)
      /\ u.mob \subseteq Chars /\ u.valid \subseteq Chars
      /\ u.fight \in [Chars -> Chars \cup {None}]
      /\ u.master \in [Chars -> Chars \cup {None}]
  BY DEF Worlds
<1>. QED  BY <1>1, Positions DEF Listed, Freed

LEMMA FromListed ==
  ASSUME NEW S, NEW q \in Seq(S), NEW c
  PROVE  From(q, c) \subseteq ToSet(q)
  BY Positions DEF From

\* ListsSound and FightingAlive are what makes a world whole.
LEMMA WholeIs ==
  TypeOK => (Whole(w) <=> ListsSound /\ FightingAlive)
<1> SUFFICES ASSUME TypeOK PROVE Whole(w) <=> ListsSound /\ FightingAlive
  OBVIOUS
<1>1. w \in Worlds
  BY DEF TypeOK
<1>2. IsInjective(w.list \o w.free) <=> Apart(w)
  BY <1>1, Typed, TwoLists DEF Apart, Listed, Freed
<1>. QED  BY <1>1, <1>2 DEF Whole, ListsSound, FightingAlive, Fights, Mobs

\* The link of somebody in the world leads to who stands behind him, and to no other.
LEMMA LinkOn ==
  ASSUME NEW u, Whole(u), NEW c \in Listed(u)
  PROVE  \/ Link(u, c) = None /\ From(u.list, c) = {c}
         \/ /\ Link(u, c) \in Listed(u)
            /\ c \in From(u.list, c)
            /\ From(u.list, Link(u, c)) = From(u.list, c) \ {c}
<1> DEFINE q == u.list
           next == {j \in DOMAIN q : j > 1 /\ q[j - 1] = c}
<1>1. q \in Seq(Chars) /\ Distinct(q) /\ Len(q) \in Nat
  BY Typed DEF Whole, Apart
<1>2. PICK i \in 1..Len(q) : q[i] = c
  BY <1>1, Positions DEF Listed
<1>3. Link(u, c) = IF next = {} THEN None ELSE q[CHOOSE j \in next : TRUE]
  BY DEF Link
<1>4. \A j \in next : j = i + 1 /\ j \in 1..Len(q)
  BY <1>1, <1>2 DEF Distinct
<1>5. c \in From(q, c)
  BY <1>2 DEF From
<1>6. From(q, c) = {q[j] : j \in i..Len(q)}
  <2>1. ASSUME NEW d \in From(q, c) PROVE d \in {q[j] : j \in i..Len(q)}
    <3>1. PICK j \in 1..Len(q), k \in 1..Len(q) : k <= j /\ d = q[j] /\ q[k] = c
      BY <2>1 DEF From
    <3>2. k = i
      BY <1>1, <1>2, <3>1 DEF Distinct
    <3>. QED  BY <3>1, <3>2, <1>1
  <2>2. ASSUME NEW j \in i..Len(q) PROVE q[j] \in From(q, c)
    <3>1. j \in 1..Len(q) /\ i <= j
      BY <1>1
    <3>. QED  BY <3>1, <1>2 DEF From
  <2>. QED  BY <2>1, <2>2
<1>7. CASE i = Len(q)
  <2>1. next = {}
    BY <1>4, <1>7, <1>1
  <2>2. From(q, c) = {c}
    BY <1>6, <1>7, <1>2, <1>1
  <2>. QED  BY <2>1, <2>2, <1>3
<1>8. CASE i < Len(q)
  <2>1. i + 1 \in next /\ i + 1 \in 1..Len(q)
    BY <1>8, <1>1, <1>2
  <2>2. Link(u, c) = q[i + 1]
    BY <2>1, <1>3, <1>4
  <2>3. From(q, q[i + 1]) = {q[j] : j \in (i + 1)..Len(q)}
    <3>1. ASSUME NEW d \in From(q, q[i + 1]) PROVE d \in {q[j] : j \in (i + 1)..Len(q)}
      <4>1. PICK j \in 1..Len(q), k \in 1..Len(q) : k <= j /\ d = q[j] /\ q[k] = q[i + 1]
        BY <3>1 DEF From
      <4>2. k = i + 1
        BY <1>1, <2>1, <4>1 DEF Distinct
      <4>. QED  BY <4>1, <4>2, <1>1
    <3>2. ASSUME NEW j \in (i + 1)..Len(q) PROVE q[j] \in From(q, q[i + 1])
      <4>1. j \in 1..Len(q) /\ i + 1 \in 1..Len(q) /\ i + 1 <= j
        BY <1>1
      <4>. QED  BY <4>1 DEF From
    <3>. QED  BY <3>1, <3>2
  <2>4. \A j \in i..Len(q) : q[j] # c <=> j \in (i + 1)..Len(q)
    BY <1>1, <1>2 DEF Distinct
  <2>5. From(q, q[i + 1]) = From(q, c) \ {c}
    <3>1. (i + 1)..Len(q) \subseteq i..Len(q)
      BY <1>1
    <3>. QED  BY <2>3, <2>4, <1>6, <3>1
  <2>6. q[i + 1] \in Listed(u)
    BY <2>1, <1>1, Positions DEF Listed
  <2>. QED  BY <2>2, <2>5, <2>6, <1>5
<1>. QED  BY <1>7, <1>8, <1>1

LEMMA LinkTyped ==
  ASSUME NEW u \in Worlds, NEW c
  PROVE  Link(u, c) \in Chars \cup {None}
<1> DEFINE q == IF c \in Listed(u) THEN u.list ELSE u.free
           next == {j \in DOMAIN q : j > 1 /\ q[j - 1] = c}
<1>1. q \in Seq(Chars)
  BY Typed
<1>2. Link(u, c) = IF next = {} THEN None ELSE q[CHOOSE j \in next : TRUE]
  BY DEF Link
<1>3. \A j \in next : q[j] \in Chars
  BY <1>1
<1>. QED  BY <1>2, <1>3

\* The walk begins before everybody.
LEMMA FromHead ==
  ASSUME NEW u, Whole(u)
  PROVE  \/ u.list = <<>> /\ Listed(u) = {}
         \/ u.list # <<>> /\ Head(u.list) \in Listed(u) /\ From(u.list, Head(u.list)) = Listed(u)
<1>1. u.list \in Seq(Chars)
  BY Typed DEF Whole
<1>2. CASE u.list = <<>>
  <2>1. Len(u.list) = 0 /\ ToSet(u.list) = {u.list[j] : j \in 1..Len(u.list)}
    BY <1>1, <1>2, Positions
  <2>2. 1..Len(u.list) = {}
    BY <2>1
  <2>. QED  BY <1>2, <2>1, <2>2 DEF Listed
<1>3. CASE u.list # <<>>
  <2>1. Len(u.list) \in Nat \ {0} /\ Head(u.list) = u.list[1]
    BY <1>1, <1>3
  <2>2. 1 \in 1..Len(u.list) /\ \A j \in 1..Len(u.list) : 1 <= j
    BY <2>1
  <2>3. From(u.list, u.list[1]) = {u.list[j] : j \in 1..Len(u.list)}
    BY <2>2 DEF From
  <2>4. ToSet(u.list) = {u.list[j] : j \in 1..Len(u.list)}
    BY <1>1, Positions
  <2>. QED  BY <2>1, <2>2, <2>3, <2>4, <1>3 DEF Listed
<1>. QED  BY <1>2, <1>3

-----------------------------------------------------------------------------
(* Thinning out. *)

LEMMA OrderSame ==
  ASSUME NEW u \in Worlds, NEW v \in Worlds, v.list = u.list
  PROVE  Order(u, v)
  BY Typed, FromListed DEF Order, Listed

LEMMA OrderTransitive ==
  ASSUME NEW u, NEW v, NEW x, Order(u, v), Order(v, x)
  PROVE  Order(u, x)
  BY DEF Order

LEMMA ThinsItself ==
  ASSUME NEW u, Whole(u)
  PROVE  Thins(u, u)
  BY OrderSame DEF Thins, Whole

LEMMA ThinsTransitive ==
  ASSUME NEW u, NEW v, NEW x, Thins(u, v), Thins(v, x)
  PROVE  Thins(u, x)
  BY OrderTransitive DEF Thins

\* Where only fights and masters change, all depends on the fights.
LEMMA SameLists ==
  ASSUME NEW u, Whole(u), NEW v \in Worlds,
         v.list = u.list, v.free = u.free, v.mob = u.mob, v.valid = u.valid,
         \A s \in Chars : v.fight[s] # None => {s, v.fight[s]} \subseteq Listed(u)
  PROVE  Thins(u, v)
<1>1. Listed(v) = Listed(u) /\ Freed(v) = Freed(u)
  BY DEF Listed, Freed
<1>2. Order(u, v)
  BY OrderSame DEF Whole
<1>. QED  BY <1>1, <1>2, Typed DEF Thins, Whole, Apart, Mobs, Fights

LEMMA StopFightingIs ==
  ASSUME NEW u \in Worlds, NEW s, NEW both \in BOOLEAN
  PROVE  LET v == StopFighting(u, s, both)
         IN  /\ v \in Worlds
             /\ v.list = u.list /\ v.free = u.free /\ v.mob = u.mob /\ v.valid = u.valid
             /\ v.master = u.master
             /\ \A f \in Chars : v.fight[f] \in {u.fight[f], None}
             /\ s \in Listed(u) => v.fight[s] = None
             /\ both => \A f \in Listed(u) : v.fight[f] # s \/ v.fight[f] = None
  BY Typed DEF StopFighting, Worlds

LEMMA StopFightingThins ==
  ASSUME NEW u, Whole(u), NEW s, NEW both \in BOOLEAN
  PROVE  Thins(u, StopFighting(u, s, both))
  BY StopFightingIs, SameLists DEF Whole, Fights

\* After it nobody fights s, nor s anybody.
LEMMA NobodyFights ==
  ASSUME NEW u, Whole(u), NEW s \in Chars
  PROVE  LET v == StopFighting(u, s, TRUE)
         IN  v.fight[s] = None /\ \A f \in Chars : v.fight[f] # s
<1> DEFINE v == StopFighting(u, s, TRUE)
<1>1. \A f \in Chars \ Listed(u) : u.fight[f] = None
  BY DEF Whole, Fights
<1>2. /\ \A f \in Chars : v.fight[f] \in {u.fight[f], None}
      /\ s \in Listed(u) => v.fight[s] = None
      /\ \A f \in Listed(u) : v.fight[f] # s \/ v.fight[f] = None
  BY StopFightingIs DEF Whole
<1>. QED  BY <1>1, <1>2, NoneIsNobody

LEMMA SetFightingThins ==
  ASSUME NEW u, Whole(u), NEW s \in Listed(u), NEW v \in Listed(u)
  PROVE  Thins(u, SetFighting(u, s, v))
<1>1. s \in Chars /\ v \in Chars
  BY Typed DEF Whole
<1>2. CASE u.fight[s] # None
  BY <1>2, ThinsItself DEF SetFighting
<1>3. CASE u.fight[s] = None
  <2> DEFINE x == [u EXCEPT !.fight[s] = v]
  <2>1. /\ x \in Worlds /\ x.list = u.list /\ x.free = u.free /\ x.mob = u.mob
        /\ x.valid = u.valid /\ x.fight = [u.fight EXCEPT ![s] = v]
    BY <1>1 DEF Whole, Worlds
  <2>2. \A f \in Chars : x.fight[f] # None => {f, x.fight[f]} \subseteq Listed(u)
    BY <1>1, <2>1, Typed DEF Whole, Fights
  <2>. QED  BY <1>3, <2>1, <2>2, SameLists DEF SetFighting
<1>. QED  BY <1>2, <1>3

\* Whatever becomes of the masters.
LEMMA MastersThin ==
  ASSUME NEW u, Whole(u), NEW m \in [Chars -> Chars \cup {None}]
  PROVE  Thins(u, [u EXCEPT !.master = m])
<1> DEFINE x == [u EXCEPT !.master = m]
<1>1. /\ x \in Worlds /\ x.list = u.list /\ x.free = u.free /\ x.mob = u.mob
      /\ x.valid = u.valid /\ x.fight = u.fight
  BY DEF Whole, Worlds
<1>. QED  BY <1>1, SameLists DEF Whole, Fights

LEMMA DieFollowerThins ==
  ASSUME NEW u, Whole(u), NEW s
  PROVE  Thins(u, DieFollower(u, s))
<1>1. [m \in Chars |-> IF m = s \/ u.master[m] = s THEN None ELSE u.master[m]]
        \in [Chars -> Chars \cup {None}]
  BY Typed DEF Whole
<1>. QED  BY <1>1, MastersThin DEF DieFollower

\* Taken out of the lists, and freed: nobody may fight him any more.
LEMMA LeavesThin ==
  ASSUME NEW u, Whole(u), NEW s \in Chars,
         \A f \in Chars : u.fight[f] # s, u.fight[s] = None
  PROVE  /\ Thins(u, FreeChar(Unlisted(u, s), s))
         /\ s \notin FreeChar(Unlisted(u, s), s).valid
<1> DEFINE v == Unlisted(u, s)
           x == FreeChar(v, s)
<1>0. /\ u \in Worlds /\ u.list \in Seq(Chars) /\ u.free \in Seq(Chars)
      /\ Distinct(u.list) /\ Distinct(u.free) /\ Listed(u) \cap Freed(u) = {}
  BY Typed DEF Whole, Apart
<1>1. /\ v.list \in Seq(Chars) /\ Distinct(v.list) /\ ToSet(v.list) = Listed(u) \ {s}
      /\ \A c \in ToSet(v.list) : From(v.list, c) = From(u.list, c) \cap ToSet(v.list)
  <2>1. v.list = RemoveFirst(u.list, s)
    BY <1>0 DEF Unlisted, Worlds
  <2>. QED  BY <2>1, <1>0, RemoveFirstIs DEF Listed
<1>2. v.free \in Seq(Chars) /\ Distinct(v.free) /\ ToSet(v.free) = Freed(u) \ {s}
  <2>1. v.free = RemoveFirst(u.free, s)
    BY <1>0 DEF Unlisted, Worlds
  <2>. QED  BY <2>1, <1>0, RemoveFirstIs DEF Freed
<1>3. v \in Worlds /\ v.mob = u.mob /\ v.valid = u.valid /\ v.fight = u.fight
  BY <1>0, <1>1, <1>2 DEF Unlisted, Worlds
<1>4. /\ x \in Worlds /\ x.list = v.list /\ x.mob = u.mob /\ x.fight = u.fight
      /\ x.valid = u.valid \ {s}
      /\ Distinct(x.free) /\ Freed(x) \subseteq Freed(u) \cup {s}
  <2>1. CASE s \in v.valid
    <3>1. x = [v EXCEPT !.free = <<s>> \o @, !.valid = @ \ {s}]
      BY <2>1 DEF FreeChar
    <3>2. <<s>> \o v.free \in Seq(Chars) /\ Distinct(<<s>> \o v.free)
          /\ ToSet(<<s>> \o v.free) = ToSet(v.free) \cup {s}
      BY <1>2, InFront
    <3>3. /\ x \in Worlds /\ x.list = v.list /\ x.mob = u.mob /\ x.fight = u.fight
          /\ x.valid = u.valid \ {s} /\ x.free = <<s>> \o v.free
      BY <3>1, <3>2, <1>3 DEF Worlds
    <3>. QED  BY <3>2, <3>3, <1>2 DEF Freed
  <2>2. CASE s \notin v.valid
    <3>1. x = v
      BY <2>2 DEF FreeChar
    <3>. QED  BY <3>1, <2>2, <1>2, <1>3 DEF Freed
  <2>. QED  BY <2>1, <2>2
<1>5. Listed(x) = Listed(u) \ {s}
  BY <1>1, <1>4 DEF Listed
<1>6. Order(u, x)
  BY <1>1, <1>4, <1>5 DEF Order, Listed
<1>7. Apart(x)
  BY <1>0, <1>1, <1>4, <1>5 DEF Apart
<1>8. Mobs(x)
  BY <1>4, <1>5 DEF Whole, Mobs
<1>9. Fights(x)
  BY <1>4, <1>5 DEF Whole, Fights
<1>. QED  BY <1>4, <1>5, <1>6, <1>7, <1>8, <1>9 DEF Thins, Whole

LEMMA ExtractMobThins ==
  ASSUME NEW u, Whole(u), NEW s \in Chars
  PROVE  Thins(u, ExtractMob(u, s)) /\ s \notin ExtractMob(u, s).valid
<1>1. CASE s \notin u.valid
  BY <1>1, ThinsItself DEF ExtractMob
<1>2. CASE s \in u.valid
  <2> DEFINE a == DieFollower(u, s)
             b == StopFighting(a, s, TRUE)
             c == FreeChar(Unlisted(b, s), s)
  <2>1. Thins(u, a)
    BY DieFollowerThins
  <2>2. Whole(a)
    BY <2>1 DEF Thins
  <2>3. Thins(a, b) /\ Whole(b)
    BY <2>2, StopFightingThins DEF Thins
  <2>4. b.fight[s] = None /\ \A f \in Chars : b.fight[f] # s
    BY <2>2, NobodyFights
  <2>5. Thins(b, c) /\ s \notin c.valid
    BY <2>3, <2>4, LeavesThin
  <2>6. ExtractMob(u, s) = c
    BY <1>2 DEF ExtractMob
  <2> HIDE DEF a, b, c
  <2>. QED  BY <2>1, <2>3, <2>5, <2>6, ThinsTransitive
<1>. QED  BY <1>1, <1>2

-----------------------------------------------------------------------------
(* The servants that are sent away, one after the other: SendAway folds     *)
(* ExtractMob over the list.  What a fold comes to on the positions in T is *)
(* g[T]; there is one such g, and by it all are Thins of the world before.  *)

LEMMA SmallestSet ==
  ASSUME NEW S, IsFiniteSet(S), NEW B \in SUBSET (SUBSET S), B # {}
  PROVE  \E s \in B : \A t \in B : t \subseteq s => t = s
<1>1. IsWellFoundedOn(StrictSubsetOrdering(S), SUBSET S)
  BY FS_StrictSubsetOrderingWellFounded, FS_FiniteSubsetsOfFinite
<1>2. PICK s \in B : \A t \in B : ~ (<<t, s>> \in StrictSubsetOrdering(S))
  BY <1>1, WFMin
<1>. QED  BY <1>2 DEF StrictSubsetOrdering

LEMMA MaxIn ==
  ASSUME NEW n \in Nat, NEW s \in SUBSET (1..n), s # {}
  PROVE  Max(s) \in s
<1> DEFINE B == {k \in Nat : \A y \in s : y <= k}
           R == OpToRel(<, Nat)
<1>1. n \in B
  OBVIOUS
<1>2. PICK k \in B : \A j \in B : ~ (<<j, k>> \in R)
  <2>1. B \subseteq Nat /\ B # {}
    BY <1>1
  <2>2. IsWellFoundedOn(R, Nat)
    BY NatLessThanWellFounded
  <2> HIDE DEF B, R
  <2>. QED  BY <2>1, <2>2, WFMin
<1>3. k \in Nat /\ \A y \in s : y <= k
  OBVIOUS
<1>4. k \in s
  <2> SUFFICES ASSUME k \notin s PROVE FALSE
    OBVIOUS
  <2>1. \A y \in s : y \in 1..n /\ y <= k - 1
    BY <1>3
  <2>2. PICK y \in s : TRUE
    OBVIOUS
  <2>3. k - 1 \in Nat
    BY <2>1, <2>2, <1>3
  <2>4. k - 1 \in B
    BY <2>1, <2>3
  <2>5. <<k - 1, k>> \in R
    BY <2>3, <1>3 DEF OpToRel
  <2> HIDE DEF B, R
  <2>. QED  BY <2>4, <2>5, <1>2
<1>. QED  BY <1>3, <1>4 DEF Max

IsFold(u, gone, T, g) ==
    g = [s \in SUBSET T |->
           IF s = {} THEN u
           ELSE IF u.list[Max(s)] \in gone
                THEN ExtractMob(g[s \ {Max(s)}], u.list[Max(s)])
                ELSE g[s \ {Max(s)}]]

\* A fold takes out of each set some element of it.
Chosen(D) == IsFiniteSet(D) /\ \A s \in (SUBSET D) \ {{}} : Max(s) \in s

LEMMA FoldUnique ==
  ASSUME NEW u, NEW gone, NEW D, Chosen(D)
  PROVE  \A T, U \in SUBSET D : \A g, h : IsFold(u, gone, T, g) /\ IsFold(u, gone, U, h)
            => \A s \in (SUBSET T) \cap (SUBSET U) : g[s] = h[s]
<1> SUFFICES ASSUME NEW T \in SUBSET D, NEW U \in SUBSET D, NEW g, NEW h,
                    IsFold(u, gone, T, g), IsFold(u, gone, U, h),
                    NEW s \in (SUBSET T) \cap (SUBSET U)
             PROVE  g[s] = h[s]
  OBVIOUS
<1> DEFINE B == {t \in SUBSET (T \cap U) : g[t] # h[t]}
<1> SUFFICES ASSUME B # {} PROVE FALSE
  OBVIOUS
<1>1. B \in SUBSET (SUBSET D) /\ \A t \in SUBSET (T \cap U) : t \in B <=> g[t] # h[t]
  OBVIOUS
<1>2. \A t \in B : t \subseteq T /\ t \subseteq U
  OBVIOUS
<1> HIDE DEF B
<1>4. PICK t \in B : \A r \in B : r \subseteq t => r = t
  BY <1>1, SmallestSet DEF Chosen
<1>5. /\ \A r \in SUBSET T : g[r] = IF r = {} THEN u
                                    ELSE IF u.list[Max(r)] \in gone
                                         THEN ExtractMob(g[r \ {Max(r)}], u.list[Max(r)])
                                         ELSE g[r \ {Max(r)}]
      /\ \A r \in SUBSET U : h[r] = IF r = {} THEN u
                                    ELSE IF u.list[Max(r)] \in gone
                                         THEN ExtractMob(h[r \ {Max(r)}], u.list[Max(r)])
                                         ELSE h[r \ {Max(r)}]
  BY DEF IsFold
<1>6. t \in SUBSET T /\ t \in SUBSET U /\ t \in SUBSET D /\ g[t] # h[t]
  BY <1>1, <1>2
<1>7. t # {}
  BY <1>5, <1>6
<1>8. Max(t) \in t
  BY <1>6, <1>7 DEF Chosen
<1> DEFINE r == t \ {Max(t)}
<1>9. r \in SUBSET T /\ r \in SUBSET U /\ r \notin B
  BY <1>4, <1>6, <1>8
<1>10. g[r] = h[r]
  BY <1>1, <1>9
<1> HIDE DEF r
<1>11. /\ g[t] = IF u.list[Max(t)] \in gone THEN ExtractMob(g[r], u.list[Max(t)]) ELSE g[r]
       /\ h[t] = IF u.list[Max(t)] \in gone THEN ExtractMob(h[r], u.list[Max(t)]) ELSE h[r]
  BY <1>5, <1>6, <1>7 DEF r
<1>. QED  BY <1>6, <1>10, <1>11

LEMMA FoldExists ==
  ASSUME NEW u, NEW gone, NEW D, Chosen(D)
  PROVE  \E g : IsFold(u, gone, D, g)
<1> DEFINE B == {t \in SUBSET D : ~ \E g : IsFold(u, gone, t, g)}
<1>0. /\ B \in SUBSET (SUBSET D)
      /\ \A t \in SUBSET D : t \notin B => \E g : IsFold(u, gone, t, g)
      /\ \A t \in B : t \in SUBSET D /\ ~ \E g : IsFold(u, gone, t, g)
  OBVIOUS
<1> HIDE DEF B
<1> SUFFICES ASSUME B # {} PROVE FALSE
  BY <1>0
<1>1. PICK t \in B : \A r \in B : r \subseteq t => r = t
  BY <1>0, SmallestSet DEF Chosen
<1>2. \A r \in SUBSET t : r # t => \E g : IsFold(u, gone, r, g)
  BY <1>0, <1>1
<1> DEFINE part == [r \in SUBSET t |-> CHOOSE g : IsFold(u, gone, r, g)]
           P(r) == part[r][r]
           Next1(r) == IF u.list[Max(r)] \in gone
                       THEN ExtractMob(P(r \ {Max(r)}), u.list[Max(r)])
                       ELSE P(r \ {Max(r)})
           h == [r \in SUBSET t |-> IF r = {} THEN u ELSE Next1(r)]
<1>3. ASSUME NEW r \in SUBSET t, r # t
      PROVE  IsFold(u, gone, r, part[r])
  <2>1. part[r] = CHOOSE g : IsFold(u, gone, r, g)
    OBVIOUS
  <2>2. \E g : IsFold(u, gone, r, g)
    BY <1>2, <1>3
  <2> HIDE DEF part
  <2>. QED  BY <2>1, <2>2
<1> HIDE DEF part
<1>4. ASSUME NEW r \in SUBSET t, r # {}
      PROVE  Max(r) \in r /\ r \ {Max(r)} \in SUBSET t /\ r \ {Max(r)} # t
  BY <1>0, <1>4 DEF Chosen
<1>5. ASSUME NEW r \in SUBSET t, r # t
      PROVE  h[r] = P(r)
  <2>1. IsFold(u, gone, r, part[r])
    BY <1>3, <1>5
  <2>2. part[r][r] = IF r = {} THEN u
                     ELSE IF u.list[Max(r)] \in gone
                          THEN ExtractMob(part[r][r \ {Max(r)}], u.list[Max(r)])
                          ELSE part[r][r \ {Max(r)}]
    BY <2>1 DEF IsFold
  <2>3. CASE r = {}
    BY <2>2, <2>3
  <2>4. CASE r # {}
    <3> DEFINE q == r \ {Max(r)}
    <3>1. q \in SUBSET t /\ q # t
      BY <2>4, <1>4
    <3>2. IsFold(u, gone, q, part[q])
      BY <1>3, <3>1
    <3>3. q \subseteq q /\ q \subseteq r /\ q \subseteq D /\ r \subseteq D
      BY <1>0
    <3>4. P(q) = part[r][q]
      <4> HIDE DEF q
      <4>1. \A T, U \in SUBSET D : \A g, k : IsFold(u, gone, T, g) /\ IsFold(u, gone, U, k)
               => \A s \in (SUBSET T) \cap (SUBSET U) : g[s] = k[s]
        BY FoldUnique
      <4>2. q \in SUBSET D /\ r \in SUBSET D /\ q \in (SUBSET q) \cap (SUBSET r)
        BY <3>3
      <4>3. \A g, k : IsFold(u, gone, q, g) /\ IsFold(u, gone, r, k) => g[q] = k[q]
        BY <4>1, <4>2
      <4>4. part[q][q] = part[r][q]
        BY <2>1, <3>2, <4>3
      <4>. QED  BY <4>4
    <3>. QED  BY <2>2, <2>4, <3>4
  <2>. QED  BY <2>3, <2>4
<1>6. ASSUME NEW r \in SUBSET t, r # {}
      PROVE  h[r] = IF u.list[Max(r)] \in gone
                    THEN ExtractMob(h[r \ {Max(r)}], u.list[Max(r)])
                    ELSE h[r \ {Max(r)}]
  <2>1. h[r \ {Max(r)}] = P(r \ {Max(r)})
    BY <1>4, <1>5, <1>6
  <2>. QED  BY <2>1, <1>6
<1>7. h = [r \in SUBSET t |->
             IF r = {} THEN u
             ELSE IF u.list[Max(r)] \in gone
                  THEN ExtractMob(h[r \ {Max(r)}], u.list[Max(r)])
                  ELSE h[r \ {Max(r)}]]
  BY <1>6
<1>8. IsFold(u, gone, t, h)
  <2> HIDE DEF h
  <2>. QED  BY <1>7 DEF IsFold
<1>. QED  BY <1>0, <1>8

LEMMA SendAwayThins ==
  ASSUME NEW u, Whole(u), NEW gone
  PROVE  Thins(u, SendAway(u, gone))
<1> DEFINE n == Len(u.list)
           D == 1..n
           lib == CHOOSE g : IsFold(u, gone, D, g)
<1>1. u.list \in Seq(Chars) /\ n \in Nat /\ DOMAIN u.list = D
      /\ \A i \in D : u.list[i] \in Chars
  BY Typed DEF Whole
<1>2. SendAway(u, gone) = lib[D]
  BY <1>1 DEF SendAway, FoldLeft, MapThenFoldSet, IsFold
<1>13. Chosen(D)
  <2>1. IsFiniteSet(1..n)
    BY <1>1, FS_Interval
  <2>2. ASSUME NEW s, s \subseteq 1..n, s # {} PROVE Max(s) \in s
    BY <1>1, <2>2, MaxIn
  <2>. QED  BY <2>1, <2>2 DEF Chosen
<1>3. IsFold(u, gone, D, lib)
  <2>1. \E g : IsFold(u, gone, D, g)
    BY <1>13, FoldExists
  <2>. QED  BY <2>1
<1> HIDE DEF lib, D
<1> DEFINE B == {s \in SUBSET D : ~ Thins(u, lib[s])}
<1> SUFFICES ASSUME B # {} PROVE FALSE
  BY <1>2
<1>4. B \in SUBSET (SUBSET D) /\ \A t \in SUBSET D : t \in B <=> ~ Thins(u, lib[t])
  OBVIOUS
<1> HIDE DEF B
<1>5. PICK t \in B : \A r \in B : r \subseteq t => r = t
  BY <1>4, <1>13, SmallestSet DEF Chosen
<1>6. t \in SUBSET D /\ ~ Thins(u, lib[t])
  BY <1>4
<1>7. lib[t] = IF t = {} THEN u
               ELSE IF u.list[Max(t)] \in gone
                    THEN ExtractMob(lib[t \ {Max(t)}], u.list[Max(t)])
                    ELSE lib[t \ {Max(t)}]
  BY <1>3, <1>6 DEF IsFold
<1>8. t # {}
  BY <1>6, <1>7, ThinsItself
<1>9. Max(t) \in t
  BY <1>6, <1>8, <1>13 DEF Chosen
<1> DEFINE r == t \ {Max(t)}
<1>10. Thins(u, lib[r])
  <2>1. r \in SUBSET D /\ r \subseteq t /\ r # t
    BY <1>6, <1>9
  <2>. QED  BY <2>1, <1>4, <1>5
<1>11. u.list[Max(t)] \in Chars
  BY <1>1, <1>6, <1>9
<1>12. Thins(lib[r], ExtractMob(lib[r], u.list[Max(t)]))
  BY <1>10, <1>11, ExtractMobThins DEF Thins
<1>. QED  BY <1>6, <1>7, <1>8, <1>10, <1>12, ThinsTransitive

-----------------------------------------------------------------------------
(* Deaths, departures and blows. *)

LEMMA Whole2 == ASSUME NEW u, NEW v, Thins(u, v) PROVE Whole(v)
  BY DEF Thins

LEMMA ExtractDeadThins ==
  ASSUME NEW u, Whole(u), NEW s \in Chars, s \notin u.mob, NEW gone
  PROVE  LET v == ExtractDead(u, s, gone) IN Thins(u, v) /\ s \notin v.valid
<1> DEFINE a == SendAway(u, gone)
           b == DieFollower(a, s)
           c == StopFighting(b, s, TRUE)
           v == [c EXCEPT !.valid = @ \ {s}]
<1>1. Thins(u, a)
  BY SendAwayThins
<1>2. Thins(a, b)
  BY <1>1, Whole2, DieFollowerThins
<1>3. Thins(b, c)
  BY <1>2, Whole2, StopFightingThins
<1>4. Thins(u, c)
  BY <1>1, <1>2, <1>3, ThinsTransitive
<1>5. ExtractDead(u, s, gone) = v
  BY DEF ExtractDead
<1> HIDE DEF a, b, c
<1>6. Whole(c) /\ c \in Worlds /\ c.mob = u.mob
  BY <1>4 DEF Thins, Whole
<1>7. /\ v \in Worlds /\ v.list = c.list /\ v.free = c.free /\ v.mob = c.mob
      /\ v.valid = c.valid \ {s} /\ v.fight = c.fight
  BY <1>6 DEF Worlds
<1> HIDE DEF v
<1>8. Listed(v) = Listed(c) /\ Freed(v) = Freed(c) /\ Order(c, v)
  BY <1>6, <1>7, OrderSame DEF Listed, Freed
<1>9. Thins(c, v)
  BY <1>6, <1>7, <1>8 DEF Thins, Whole, Apart, Mobs, Fights
<1>. QED  BY <1>4, <1>5, <1>7, <1>9, ThinsTransitive

LEMMA ExtractForQuitThins ==
  ASSUME NEW u, Whole(u), NEW s \in Chars, NEW gone
  PROVE  Thins(u, ExtractForQuit(u, s, gone))
<1> DEFINE a == SendAway(u, gone)
           b == DieFollower(a, s)
           c == StopFighting(b, s, TRUE)
           v == FreeChar(Unlisted(c, s), s)
<1>1. Thins(u, a)
  BY SendAwayThins
<1>2. Thins(a, b)
  BY <1>1, Whole2, DieFollowerThins
<1>3. Thins(b, c)
  BY <1>2, Whole2, StopFightingThins
<1>4. c.fight[s] = None /\ \A f \in Chars : c.fight[f] # s
  BY <1>2, Whole2, NobodyFights
<1>5. ExtractForQuit(u, s, gone) = v
  BY DEF ExtractForQuit
<1> HIDE DEF a, b, c
<1>6. Thins(c, v)
  BY <1>3, <1>4, Whole2, LeavesThin
<1> HIDE DEF v
<1>. QED  BY <1>1, <1>2, <1>3, <1>5, <1>6, ThinsTransitive

LEMMA RawKillThins ==
  ASSUME NEW u, Whole(u), NEW v \in Chars, NEW x \in RawKill(u, v)
  PROVE  Thins(u, x)
<1> DEFINE a == StopFighting(u, v, TRUE)
<1>1. Thins(u, a) /\ Whole(a) /\ a.mob = u.mob
  BY StopFightingThins DEF Thins
<1>2. CASE v \in u.mob
  <2>1. x = ExtractMob(a, v)
    BY <1>2 DEF RawKill
  <2> HIDE DEF a
  <2>. QED  BY <1>1, <2>1, ExtractMobThins, ThinsTransitive
<1>3. CASE v \notin u.mob
  <2>1. PICK gone \in SUBSET Servants(a, v) :
          x = ExtractDead(a, v, gone) \/ x = ExtractForQuit(ExtractDead(a, v, gone), v, {})
    BY <1>3 DEF RawKill
  <2> HIDE DEF a
  <2> DEFINE d == ExtractDead(a, v, gone)
  <2>2. Thins(a, d) /\ Whole(d)
    BY <1>1, <1>3, ExtractDeadThins, Whole2
  <2>3. Thins(d, ExtractForQuit(d, v, {}))
    BY <2>2, ExtractForQuitThins
  <2> HIDE DEF d
  <2>. QED  BY <1>1, <2>1, <2>2, <2>3, ThinsTransitive DEF d
<1>. QED  BY <1>2, <1>3

LEMMA QuarrelThins ==
  ASSUME NEW u, Whole(u), NEW s \in Chars, NEW v \in Chars
  PROVE  Thins(u, Quarrel(u, s, v))
<1>1. CASE Lord(u, s) # Lord(u, v)
  BY <1>1, ThinsItself DEF Quarrel
<1>2. CASE Lord(u, s) = Lord(u, v)
  <2> DEFINE m == [u.master EXCEPT ![s] = None, ![v] = None]
  <2>1. m \in [Chars -> Chars \cup {None}]
    BY Typed DEF Whole
  <2>2. Quarrel(u, s, v) = [u EXCEPT !.master = m]
    BY <1>2 DEF Quarrel
  <2> HIDE DEF m
  <2>. QED  BY <2>1, <2>2, MastersThin
<1>. QED  BY <1>1, <1>2

\* A blow by somebody who is in the world if he is valid, at somebody of whom the same holds.
LEMMA BlowsThin ==
  ASSUME NEW u, Whole(u), NEW s \in Chars, NEW v \in Chars,
         s \in u.valid => s \in Listed(u), v \in u.valid => v \in Listed(u),
         NEW x \in Blows(u, s, v)
  PROVE  Thins(u, x)
<1>1. CASE ~({s, v} \subseteq u.valid)
  BY <1>1, ThinsItself DEF Blows
<1>2. CASE {s, v} \subseteq u.valid /\ s = v
  BY <1>2, ThinsItself, RawKillThins DEF Blows
<1>3. CASE {s, v} \subseteq u.valid /\ s # v
  <2>0. s \in Listed(u) /\ v \in Listed(u)
    BY <1>3
  <2> DEFINE struck == {Quarrel(Engaged(u, s, v), s, v), Quarrel(u, s, v)}
  <2>1. \/ x = u
        \/ x = SetFighting(u, v, s)
        \/ \E a \in struck : \/ x = a
                             \/ x = StopFighting(a, v, FALSE)
                             \/ x = StopFighting(a, v, TRUE)
                             \/ x \in RawKill(a, v)
                             \/ x \in RawKill(a, s)
    BY <1>3 DEF Blows
  <2>2. Thins(u, SetFighting(u, v, s))
    BY <2>0, SetFightingThins
  <2>3. Thins(u, Engaged(u, s, v))
    <3> DEFINE b == SetFighting(u, v, s)
    <3>1. Whole(b) /\ Listed(b) = Listed(u)
      BY <2>2 DEF Thins, SetFighting, Listed
    <3>2. Engaged(u, s, v) = SetFighting(b, s, v)
      BY DEF Engaged
    <3> HIDE DEF b
    <3>3. Thins(b, SetFighting(b, s, v))
      BY <3>1, <2>0, SetFightingThins
    <3>. QED  BY <2>2, <3>2, <3>3, ThinsTransitive DEF b
  <2>4. ASSUME NEW a \in struck PROVE Thins(u, a)
    <3>1. CASE a = Quarrel(u, s, v)
      BY <3>1, QuarrelThins
    <3>2. CASE a = Quarrel(Engaged(u, s, v), s, v)
      BY <3>2, <2>3, Whole2, QuarrelThins, ThinsTransitive
    <3>. QED  BY <3>1, <3>2, <2>4
  <2> HIDE DEF struck
  <2>5. ASSUME NEW a \in struck,
               \/ x = a
               \/ x = StopFighting(a, v, FALSE)
               \/ x = StopFighting(a, v, TRUE)
               \/ x \in RawKill(a, v)
               \/ x \in RawKill(a, s)
        PROVE  Thins(u, x)
    <3>1. Thins(u, a) /\ Whole(a)
      BY <2>4, Whole2
    <3>2. x = a \/ Thins(a, x)
      BY <2>5, <3>1, StopFightingThins, RawKillThins
    <3>. QED  BY <3>1, <3>2, ThinsTransitive
  <2>. QED  BY <2>1, <2>2, <2>5, ThinsItself
<1>. QED  BY <1>1, <1>2, <1>3

LEMMA HarmThins ==
  ASSUME NEW u, Whole(u), NEW s \in Chars, NEW x \in Harm(u, s)
  PROVE  Thins(u, x)
  BY ThinsItself, RawKillThins DEF Harm

LEMMA ScriptsThin ==
  ASSUME NEW u, Whole(u), NEW s \in Chars, s \in u.valid => s \in Listed(u),
         NEW x \in Scripts(u, s)
  PROVE  Thins(u, x)
<1>1. Listed(u) \subseteq Chars
  BY Typed DEF Whole
<1>2. \/ x = u
      \/ \E v \in Listed(u) : x \in Blows(u, s, v)
      \/ \E m \in Listed(u) : x = ExtractMob(u, m)
      \/ \E v \in Listed(u) : x = StopFighting(u, v, TRUE)
  BY DEF Scripts
<1>3. ASSUME NEW v \in Listed(u), x \in Blows(u, s, v) PROVE Thins(u, x)
  BY <1>1, <1>3, BlowsThin
<1>4. ASSUME NEW m \in Listed(u), x = ExtractMob(u, m) PROVE Thins(u, x)
  BY <1>1, <1>4, ExtractMobThins
<1>5. ASSUME NEW v \in Listed(u), x = StopFighting(u, v, TRUE) PROVE Thins(u, x)
  BY <1>5, StopFightingThins
<1>. QED  BY <1>2, <1>3, <1>4, <1>5, ThinsItself

-----------------------------------------------------------------------------
(* Those who come, and those who come back. *)

\* v may have somebody new in front; who is valid in it, was it or is in the world.
Gains(u, v) ==
    /\ Whole(v) /\ Listed(u) \subseteq Listed(v)
    /\ \A c \in Listed(u) : From(v.list, c) = From(u.list, c)
    /\ v.valid \subseteq u.valid \cup Listed(v)
    /\ Dead(u) \subseteq Dead(v)

LEMMA NewCharGains ==
  ASSUME NEW u, Whole(u), NEW s \in Fresh(u), NEW mob \in BOOLEAN
  PROVE  Gains(u, NewChar(u, s, mob))
<1> DEFINE v == NewChar(u, s, mob)
<1>0. /\ u \in Worlds /\ u.list \in Seq(Chars) /\ u.free \in Seq(Chars)
      /\ u.mob \subseteq Chars /\ u.valid \subseteq Chars
      /\ u.fight \in [Chars -> Chars \cup {None}] /\ u.master \in [Chars -> Chars \cup {None}]
      /\ Distinct(u.list) /\ Distinct(u.free) /\ Listed(u) \cap Freed(u) = {}
      /\ Listed(u) \subseteq Chars /\ Freed(u) \subseteq Chars
  BY Typed DEF Whole, Apart
<1>1. s \in Chars /\ s \notin Listed(u)
  <2>1. CASE u.free = <<>>
    BY <2>1 DEF Fresh
  <2>2. CASE u.free # <<>>
    <3>1. s = u.free[1] /\ 1 \in 1..Len(u.free)
      BY <1>0, <2>2 DEF Fresh
    <3>2. Freed(u) = {u.free[i] : i \in 1..Len(u.free)}
      BY <1>0, Positions DEF Freed
    <3>. QED  BY <1>0, <3>1, <3>2
  <2>. QED  BY <2>1, <2>2
<1>2. /\ v.list = <<s>> \o u.list /\ v.free = RemoveFirst(u.free, s)
      /\ v.mob = (IF mob THEN u.mob \cup {s} ELSE u.mob \ {s})
      /\ v.valid = u.valid \cup {s}
      /\ v.fight = [u.fight EXCEPT ![s] = None] /\ v.master = [u.master EXCEPT ![s] = None]
      /\ v = [list |-> v.list, free |-> v.free, mob |-> v.mob, valid |-> v.valid,
              fight |-> v.fight, master |-> v.master]
  BY DEF NewChar
<1> HIDE DEF v
<1>3. /\ v.list \in Seq(Chars) /\ Distinct(v.list) /\ Listed(v) = Listed(u) \cup {s}
      /\ \A c \in Listed(u) : From(v.list, c) = From(u.list, c)
  <2>1. s \notin ToSet(u.list)
    BY <1>1 DEF Listed
  <2>. QED  BY <1>0, <1>1, <1>2, <2>1, InFront DEF Listed
<1>4. v.free \in Seq(Chars) /\ Distinct(v.free) /\ Freed(v) = Freed(u) \ {s}
  BY <1>0, <1>2, RemoveFirstIs DEF Freed
<1>5. v \in Worlds
  <2>1. /\ v.mob \in SUBSET Chars /\ v.valid \in SUBSET Chars
        /\ v.fight \in [Chars -> Chars \cup {None}] /\ v.master \in [Chars -> Chars \cup {None}]
    BY <1>0, <1>1, <1>2
  <2>. QED  BY <1>2, <1>3, <1>4, <2>1 DEF Worlds
<1>6. Mobs(v)
  BY <1>1, <1>2, <1>3 DEF Whole, Mobs
<1>7. Fights(v)
  BY <1>0, <1>1, <1>2, <1>3 DEF Whole, Fights
<1>8. Dead(u) \subseteq Dead(v)
  BY <1>1, <1>2, <1>3 DEF Dead
<1>. QED  BY <1>0, <1>2, <1>3, <1>4, <1>5, <1>6, <1>7, <1>8 DEF Gains, Whole, Apart, v

LEMMA ValidatedIs ==
  ASSUME NEW u, Whole(u), NEW s \in Chars
  PROVE  LET v == Validated(u, s)
         IN  /\ Whole(v) /\ Order(u, v) /\ v.list = u.list
             /\ Dead(v) = Dead(u) \ {s}
<1> DEFINE v == Validated(u, s)
<1>1. CASE s \in u.mob
  <2>1. v = u /\ s \notin Dead(u)
    BY <1>1 DEF Validated, Dead
  <2>. QED  BY <2>1, OrderSame DEF Whole
<1>2. CASE s \notin u.mob
  <2>1. v = [u EXCEPT !.valid = @ \cup {s}]
    BY <1>2 DEF Validated
  <2>2. /\ v \in Worlds /\ v.list = u.list /\ v.free = u.free /\ v.mob = u.mob
        /\ v.fight = u.fight /\ v.valid = u.valid \cup {s}
    BY <2>1 DEF Whole, Worlds
  <2> HIDE DEF v
  <2>3. Listed(v) = Listed(u) /\ Freed(v) = Freed(u) /\ Order(u, v)
    BY <2>2, OrderSame DEF Listed, Freed, Whole
  <2>. QED  BY <1>2, <2>2, <2>3 DEF Whole, Apart, Mobs, Fights, Dead, v
<1>. QED  BY <1>1, <1>2

-----------------------------------------------------------------------------
(* The walks. *)

\* Who stands in the list from n on.
Rest(u, n) == IF n = None THEN {} ELSE From(u.list, n)

\* While nothing was cut, those who wait are those from the saved character on, and of those
\* who were dead when violence_update() began, the ones that are still dead wait.
Turns(u, k) ==
    /\ k.extra => k.cut
    /\ k.dead \subseteq Dead(u)
    /\ k.loop # "none" /\ ~k.cut =>
         /\ k.nxt \in Listed(u) \cup {None}
         /\ k.due = Rest(u, k.nxt)
         /\ k.loop = "violence" => k.dead \subseteq k.due

\* Who has the turn or is struck is in the world, if he is valid: so the blows of a turn are
\* of people in the world, though the pointers are old.
Acting == {"fall", "self", "strike", "sweep", "assist"}

Present(u, c) == c \in u.valid => c \in Listed(u)

Hands(u, k) ==
    /\ k.stage # "next" => k.cur \in Chars /\ k.loop # "none"
    /\ k.stage \in Acting => Present(u, k.cur)
    /\ k.stage \in {"strike", "assist"} => k.victim \in Chars
    /\ k.stage = "assist" => Present(u, k.victim)
    /\ k.loop = "none" => k = Idle

FightInv ==
    /\ Whole(w) /\ walk \in Walks
    /\ Turns(w, walk) /\ Hands(w, walk)

\* A step of a walk that keeps the order, as Recorded() records it.
LEMMA RecordedTurns ==
  ASSUME FightInv, NEW u, Whole(u), Order(w, u),
         NEW k \in Walks, k.loop = walk.loop, k.nxt = walk.nxt, k.due = walk.due,
         k.dead = walk.dead, k.extra = walk.extra, k.cut = walk.cut
  PROVE  /\ Recorded(u, k) \in Walks
         /\ Turns(u, Recorded(u, k))
<1> DEFINE r == Recorded(u, k)
<1>1. /\ r \in Walks
      /\ r.due = walk.due \cap Listed(u) /\ r.dead = walk.dead \cap Dead(u)
      /\ r.cut = (walk.cut \/ walk.nxt \in Listed(w) \ Listed(u))
      /\ r.loop = walk.loop /\ r.nxt = walk.nxt /\ r.extra = walk.extra
  BY DEF Recorded, Walks
<1> HIDE DEF r
<1>2. Turns(w, walk)
  BY DEF FightInv
<1>3. ASSUME r.loop # "none", ~r.cut
      PROVE  /\ r.nxt \in Listed(u) \cup {None}
             /\ r.due = Rest(u, r.nxt)
             /\ r.loop = "violence" => r.dead \subseteq r.due
  <2>1. /\ walk.nxt \in Listed(w) \cup {None} /\ walk.due = Rest(w, walk.nxt)
        /\ walk.loop = "violence" => walk.dead \subseteq walk.due
        /\ walk.nxt \in Listed(u) \cup {None}
    BY <1>1, <1>2, <1>3 DEF Turns
  <2>2. r.due = Rest(u, r.nxt)
    BY <1>1, <2>1 DEF Rest, Order
  <2>3. Dead(u) \subseteq Listed(u)
    BY DEF Dead
  <2>. QED  BY <1>1, <2>1, <2>2, <2>3
<1>. QED  BY <1>1, <1>2, <1>3 DEF Turns, r

LEMMA PresentKept ==
  ASSUME NEW u, NEW v, Thins(u, v), NEW c, Present(u, c)
  PROVE  Present(v, c)
  BY DEF Thins, Present

LEMMA StepInv ==
  ASSUME FightInv, walk.loop # "none", NEW u, Whole(u), Order(w, u),
         NEW k \in Walks, k.loop = walk.loop, k.nxt = walk.nxt, k.due = walk.due,
         k.dead = walk.dead, k.extra = walk.extra, k.cut = walk.cut, Hands(u, k),
         w' = u, walk' = Recorded(u, k)
  PROVE  FightInv'
<1> DEFINE r == Recorded(u, k)
<1>1. r \in Walks /\ Turns(u, r)
  BY RecordedTurns
<1>2. r.stage = k.stage /\ r.cur = k.cur /\ r.victim = k.victim /\ r.loop = k.loop
  BY DEF Recorded, Walks
<1> HIDE DEF r
<1>3. Hands(u, r)
  BY <1>2 DEF Hands
<1>. QED  BY <1>1, <1>3 DEF FightInv, r

\* Most steps thin the world out and go on to another stage of the turn.
LEMMA StepThins ==
  ASSUME FightInv, walk.loop # "none", NEW u, Thins(w, u), NEW stage \in Stages,
         Step(u, stage),
         stage # "next" => walk.cur \in Chars,
         stage \in Acting => Present(w, walk.cur),
         stage \in {"strike", "assist"} => walk.victim \in Chars,
         stage = "assist" => Present(w, walk.victim)
  PROVE  FightInv'
<1> DEFINE k == [walk EXCEPT !.stage = stage]
<1>1. /\ k \in Walks /\ k.loop = walk.loop /\ k.nxt = walk.nxt /\ k.due = walk.due
      /\ k.dead = walk.dead /\ k.extra = walk.extra /\ k.cut = walk.cut
      /\ k.stage = stage /\ k.cur = walk.cur /\ k.victim = walk.victim
  BY DEF FightInv, Walks
<1>2. w' = u /\ walk' = Recorded(u, k)
  BY DEF Step
<1> HIDE DEF k
<1>3. Hands(u, k)
  BY <1>1, PresentKept DEF Hands
<1>. QED  BY <1>1, <1>2, <1>3, StepInv DEF Thins

\* The second test of IS_VALID.
LEMMA GoOnInv ==
  ASSUME FightInv, walk.loop # "none", NEW u, Thins(w, u), NEW stage \in Stages,
         GoOn(u, stage), walk.cur \in Chars, Present(w, walk.cur),
         stage = "strike" => walk.victim \in Chars, stage # "assist"
  PROVE  FightInv'
<1>1. CASE walk.cur \in u.valid
  <2>1. Step(u, stage)
    BY <1>1 DEF GoOn
  <2>. QED  BY <2>1, StepThins
<1>2. CASE walk.cur \notin u.valid
  <2> DEFINE v == Validated(u, walk.cur)
             k == [walk EXCEPT !.stage = "next"]
  <2>1. w' = v /\ walk' = Recorded(v, k)
    BY <1>2 DEF GoOn, Step
  <2>2. Whole(v) /\ Order(u, v)
    BY ValidatedIs, Whole2
  <2>3. Order(w, v)
    BY <2>2, OrderTransitive DEF Thins
  <2>4. /\ k \in Walks /\ k.loop = walk.loop /\ k.nxt = walk.nxt /\ k.due = walk.due
        /\ k.dead = walk.dead /\ k.extra = walk.extra /\ k.cut = walk.cut
        /\ k.stage = "next"
    BY DEF FightInv, Walks, Stages
  <2> HIDE DEF v, k
  <2>5. Hands(v, k)
    BY <2>4 DEF Hands, Acting
  <2>. QED  BY <2>1, <2>2, <2>3, <2>4, <2>5, StepInv
<1>. QED  BY <1>1, <1>2

LEMMA BeginInv ==
  ASSUME FightInv, NEW loop \in {"violence", "update"}, Begin(loop)
  PROVE  FightInv'
<1> DEFINE h == IF w.list = <<>> THEN None ELSE Head(w.list)
           k == [loop |-> loop, stage |-> "next", cur |-> None, nxt |-> h,
                 victim |-> None, asked |-> {}, due |-> Listed(w), dead |-> Dead(w),
                 extra |-> FALSE, cut |-> FALSE]
<1>1. walk' = k /\ w' = w
  <2>1. walk' = [Idle EXCEPT !.loop = loop, !.nxt = h, !.due = Listed(w), !.dead = Dead(w)]
    BY DEF Begin
  <2> HIDE DEF h
  <2>2. w' = w
    BY DEF Begin
  <2>. QED  BY <2>1, <2>2 DEF Idle
<1>2. /\ k.loop = loop /\ k.stage = "next" /\ k.cur = None /\ k.victim = None /\ k.asked = {}
      /\ k.due = Listed(w) /\ k.dead = Dead(w) /\ k.extra = FALSE /\ k.cut = FALSE
      /\ k.nxt = (IF w.list = <<>> THEN None ELSE Head(w.list))
      /\ k = [loop |-> k.loop, stage |-> k.stage, cur |-> k.cur, nxt |-> k.nxt,
              victim |-> k.victim, asked |-> k.asked, due |-> k.due, dead |-> k.dead,
              extra |-> k.extra, cut |-> k.cut]
  OBVIOUS
<1> HIDE DEF k
<1>3. Whole(w) /\ Listed(w) \subseteq Chars /\ Dead(w) \subseteq Listed(w)
  BY Typed DEF FightInv, Whole, Dead
<1>4. k.nxt \in Listed(w) \cup {None} /\ k.due = Rest(w, k.nxt)
  BY <1>2, <1>3, FromHead, NoneIsNobody DEF Rest
<1>5. k \in Walks
  <2>1. /\ k.loop \in Loops /\ k.stage \in Stages /\ k.cur \in Chars \cup {None}
        /\ k.nxt \in Chars \cup {None} /\ k.victim \in Chars \cup {None}
        /\ k.asked \in SUBSET Chars /\ k.due \in SUBSET Chars /\ k.dead \in SUBSET Chars
        /\ k.extra \in BOOLEAN /\ k.cut \in BOOLEAN
    BY <1>2, <1>3, <1>4 DEF Loops, Stages
  <2>. QED  BY <1>2, <2>1 DEF Walks
<1>6. Turns(w, k)
  BY <1>2, <1>3, <1>4 DEF Turns
<1>7. Hands(w, k)
  BY <1>2 DEF Hands, Acting
<1>. QED  BY <1>1, <1>3, <1>5, <1>6, <1>7 DEF FightInv

LEMMA IdleInv ==
  ASSUME FightInv, walk.loop = "none", UNCHANGED walk, Whole(w')
  PROVE  FightInv'
<1>1. walk = Idle /\ walk' = Idle
  BY DEF FightInv, Hands
<1>2. /\ Idle.extra = FALSE /\ Idle.dead = {} /\ Idle.loop = "none" /\ Idle.stage = "next"
  BY DEF Idle
<1>3. Turns(w', Idle) /\ Hands(w', Idle)
  BY <1>2 DEF Turns, Hands, Acting
<1>. QED  BY <1>1, <1>3 DEF FightInv

LEMMA EndInv ==
  ASSUME FightInv, End
  PROVE  FightInv'
<1>1. walk' = Idle /\ w' = w
  BY DEF End
<1>2. /\ Idle.extra = FALSE /\ Idle.dead = {} /\ Idle.loop = "none" /\ Idle.stage = "next"
  BY DEF Idle
<1>3. Turns(w, Idle) /\ Hands(w, Idle)
  BY <1>2 DEF Turns, Hands, Acting
<1>4. Idle \in Walks
  BY DEF Idle, Walks, Loops, Stages
<1>. QED  BY <1>1, <1>3, <1>4 DEF FightInv

\* The turn of the saved character, of which the link gives the next.
LEMMA TurnIs ==
  ASSUME FightInv, walk.loop # "none", walk.nxt # None, NEW stage \in Stages
  PROVE  LET k == Turn(stage)
         IN  /\ k \in Walks /\ k.loop = walk.loop /\ k.stage = stage /\ k.cur = walk.nxt
             /\ walk.nxt \in Chars
             /\ k.extra => k.cut
             /\ k.cut = walk.cut /\ k.dead = walk.dead
             /\ ~k.cut => /\ k.nxt \in Listed(w) \cup {None}
                          /\ k.due = Rest(w, k.nxt)
                          /\ k.due = walk.due \ {walk.nxt} /\ k.due \subseteq Listed(w)
                          /\ walk.loop = "violence" => k.dead \subseteq walk.due
<1> DEFINE k == Turn(stage)
<1>0. w \in Worlds /\ Whole(w) /\ walk \in Walks /\ Turns(w, walk)
  BY DEF FightInv, Whole
<1>1. walk.nxt \in Chars
  BY <1>0 DEF Walks
<1>2. Link(w, walk.nxt) \in Chars \cup {None}
  BY <1>0, LinkTyped
<1>3. /\ k \in Walks /\ k.loop = walk.loop /\ k.stage = stage /\ k.cur = walk.nxt
      /\ k.nxt = Link(w, walk.nxt) /\ k.due = walk.due \ {walk.nxt} /\ k.dead = walk.dead
      /\ k.cut = walk.cut /\ k.extra = (walk.extra \/ walk.nxt \notin walk.due)
  BY <1>0, <1>1, <1>2 DEF Turn, Walks
<1> HIDE DEF k
<1>4. ASSUME ~k.cut
      PROVE  /\ k.nxt \in Listed(w) \cup {None}
             /\ k.due = Rest(w, k.nxt)
             /\ k.due \subseteq Listed(w)
             /\ walk.nxt \in walk.due
             /\ walk.loop = "violence" => k.dead \subseteq walk.due
  <2>1. /\ walk.nxt \in Listed(w) /\ walk.due = From(w.list, walk.nxt)
        /\ walk.loop = "violence" => walk.dead \subseteq walk.due
    BY <1>0, <1>3, <1>4 DEF Turns, Rest
  <2>2. walk.due \subseteq Listed(w)
    BY <1>0, <2>1, Typed, FromListed DEF Listed
  <2>3. CASE Link(w, walk.nxt) = None /\ walk.due = {walk.nxt}
    BY <1>3, <2>1, <2>2, <2>3 DEF Rest
  <2>4. CASE /\ Link(w, walk.nxt) \in Listed(w) /\ walk.nxt \in walk.due
             /\ From(w.list, Link(w, walk.nxt)) = walk.due \ {walk.nxt}
    <3>1. Link(w, walk.nxt) # None
      BY <1>0, <2>4, Typed, NoneIsNobody
    <3>. QED  BY <1>3, <2>1, <2>2, <2>4, <3>1 DEF Rest
  <2>. QED  BY <1>0, <2>1, <2>3, <2>4, LinkOn
<1>5. k.extra => k.cut
  BY <1>0, <1>3, <1>4 DEF Turns
<1>. QED  BY <1>1, <1>3, <1>4, <1>5 DEF k

LEMMA TakeViolenceInv ==
  ASSUME FightInv, TakeViolence
  PROVE  FightInv'
<1>0. /\ walk.loop = "violence" /\ walk.loop # "none" /\ walk.nxt # None
      /\ Whole(w) /\ walk.dead \subseteq Dead(w)
  BY DEF TakeViolence, In, FightInv, Turns
<1>1. CASE walk.nxt \in w.valid /\ walk' = Turn("room") /\ UNCHANGED w
  <2> DEFINE k == Turn("room")
  <2>1. /\ k \in Walks /\ k.loop = walk.loop /\ k.stage = "room" /\ k.cur \in Chars
        /\ k.extra => k.cut
        /\ k.dead = walk.dead
        /\ ~k.cut => /\ k.nxt \in Listed(w) \cup {None} /\ k.due = Rest(w, k.nxt)
                     /\ k.due = walk.due \ {walk.nxt} /\ k.dead \subseteq walk.due
    BY <1>0, TurnIs DEF Stages
  <2> HIDE DEF k
  <2>2. walk.nxt \notin Dead(w)
    BY <1>1 DEF Dead
  <2>3. Turns(w, k)
    BY <1>0, <2>1, <2>2 DEF Turns
  <2>4. Hands(w, k)
    BY <1>0, <2>1 DEF Hands, Acting
  <2>. QED  BY <1>0, <1>1, <2>1, <2>3, <2>4 DEF FightInv, k
<1>2. CASE /\ walk.nxt \notin w.valid
           /\ w' = Validated(w, walk.nxt)
           /\ walk' = Recorded(w', Turn("next"))
  <2> DEFINE k == Turn("next")
             v == Validated(w, walk.nxt)
             r == Recorded(v, k)
  <2>1. /\ k \in Walks /\ k.loop = walk.loop /\ k.stage = "next" /\ walk.nxt \in Chars
        /\ k.extra => k.cut
        /\ k.dead = walk.dead
        /\ ~k.cut => /\ k.nxt \in Listed(w) \cup {None} /\ k.due = Rest(w, k.nxt)
                     /\ k.due = walk.due \ {walk.nxt} /\ k.dead \subseteq walk.due
                     /\ k.due \subseteq Listed(w)
    BY <1>0, TurnIs DEF Stages
  <2>2. Whole(v) /\ v.list = w.list /\ Dead(v) = Dead(w) \ {walk.nxt}
    BY <1>0, <2>1, ValidatedIs
  <2> HIDE DEF k, v
  <2>3. Listed(v) = Listed(w)
    BY <2>2 DEF Listed
  <2>4. /\ r \in Walks /\ r.loop = walk.loop /\ r.stage = "next" /\ r.extra = k.extra
        /\ r.due = k.due \cap Listed(v) /\ r.dead = walk.dead \cap Dead(v)
        /\ r.cut = k.cut /\ r.nxt = k.nxt
    BY <2>1, <2>3 DEF Recorded, Walks
  <2> HIDE DEF r
  <2>5. Turns(v, r)
    <3>1. r.extra => r.cut
      BY <2>1, <2>4
    <3>2. ASSUME ~r.cut
          PROVE  r.nxt \in Listed(v) \cup {None} /\ r.due = Rest(v, r.nxt) /\ r.dead \subseteq r.due
      <4>1. /\ k.nxt \in Listed(w) \cup {None} /\ k.due = Rest(w, k.nxt)
            /\ k.due = walk.due \ {walk.nxt} /\ walk.dead \subseteq walk.due
            /\ k.due \subseteq Listed(w)
        BY <2>1, <2>4, <3>2
      <4>2. r.due = k.due
        BY <2>3, <2>4, <4>1
      <4>3. Rest(v, r.nxt) = Rest(w, k.nxt)
        BY <2>2, <2>4 DEF Rest
      <4>. QED  BY <2>2, <2>3, <2>4, <4>1, <4>2, <4>3
    <3>. QED  BY <2>4, <3>1, <3>2 DEF Turns
  <2>6. Hands(v, r)
    BY <1>0, <2>4 DEF Hands, Acting
  <2>7. w' = v /\ walk' = r
    BY <1>2 DEF v, r, k
  <2>. QED  BY <2>2, <2>4, <2>5, <2>6, <2>7 DEF FightInv
<1>. QED  BY <1>1, <1>2 DEF TakeViolence

LEMMA TakeUpdateInv ==
  ASSUME FightInv, TakeUpdate
  PROVE  FightInv'
<1>0. /\ walk.loop = "update" /\ walk.loop # "none" /\ walk.nxt # None
      /\ Whole(w) /\ walk.dead \subseteq Dead(w)
  BY DEF TakeUpdate, In, FightInv, Turns
<1>1. PICK stage \in {"tick", "next"} : walk' = Turn(stage)
  BY DEF TakeUpdate
<1> DEFINE k == Turn(stage)
<1>2. /\ k \in Walks /\ k.loop = walk.loop /\ k.stage = stage /\ k.cur \in Chars
      /\ k.extra => k.cut
      /\ k.dead = walk.dead
      /\ ~k.cut => k.nxt \in Listed(w) \cup {None} /\ k.due = Rest(w, k.nxt)
  BY <1>0, TurnIs DEF Stages
<1> HIDE DEF k
<1>3. Turns(w, k)
  BY <1>0, <1>2 DEF Turns
<1>4. Hands(w, k)
  BY <1>0, <1>2 DEF Hands, Acting
<1>5. w' = w /\ walk' = k
  BY <1>1 DEF TakeUpdate, k
<1>. QED  BY <1>0, <1>2, <1>3, <1>4, <1>5 DEF FightInv

LEMMA RoomHarmInv ==
  ASSUME FightInv, RoomHarm
  PROVE  FightInv'
<1>0. /\ walk.loop # "none" /\ walk.cur \in Chars /\ Whole(w)
  BY DEF RoomHarm, In, FightInv, Hands
<1>1. PICK u \in IF walk.cur \in Listed(w) THEN Harm(w, walk.cur) ELSE {w} :
        \/ Step(u, "next")
        \/ /\ walk.cur \in Listed(u)
           /\ w' = u
           /\ walk' = Recorded(u, [walk EXCEPT !.stage = "fall", !.victim = u.fight[walk.cur]])
  BY DEF RoomHarm
<1>2. Thins(w, u)
  BY <1>0, HarmThins, ThinsItself
<1>3. CASE Step(u, "next")
  BY <1>0, <1>2, <1>3, StepThins DEF Stages, Acting
<1>4. CASE /\ walk.cur \in Listed(u)
           /\ w' = u
           /\ walk' = Recorded(u, [walk EXCEPT !.stage = "fall", !.victim = u.fight[walk.cur]])
  <2> DEFINE k == [walk EXCEPT !.stage = "fall", !.victim = u.fight[walk.cur]]
  <2>1. Whole(u) /\ Order(w, u) /\ u.fight[walk.cur] \in Chars \cup {None}
    BY <1>0, <1>2, Typed DEF Thins, Whole
  <2>2. /\ k \in Walks /\ k.loop = walk.loop /\ k.nxt = walk.nxt /\ k.due = walk.due
        /\ k.dead = walk.dead /\ k.extra = walk.extra /\ k.cut = walk.cut
        /\ k.stage = "fall" /\ k.cur = walk.cur
    BY <2>1 DEF FightInv, Walks, Stages
  <2>3. w' = u /\ walk' = Recorded(u, k)
    BY <1>4
  <2> HIDE DEF k
  <2>4. Hands(u, k)
    BY <1>0, <1>4, <2>2 DEF Hands, Present
  <2>. QED  BY <1>0, <2>1, <2>2, <2>3, <2>4, StepInv
<1>. QED  BY <1>1, <1>3, <1>4

LEMMA FallInv ==
  ASSUME FightInv, Fall
  PROVE  FightInv'
<1>0. /\ walk.loop # "none" /\ walk.cur \in Chars /\ Whole(w) /\ Present(w, walk.cur)
  BY DEF Fall, In, FightInv, Hands, Acting
<1>1. PICK u \in {w} \cup Harm(StopFighting(w, walk.cur, TRUE), walk.cur) : GoOn(u, "self")
  BY DEF Fall
<1> DEFINE a == StopFighting(w, walk.cur, TRUE)
<1>2. Thins(w, a)
  BY <1>0, StopFightingThins
<1>3. Thins(w, u)
  <2>1. Whole(a)
    BY <1>2, Whole2
  <2>2. CASE u = w
    BY <1>0, <2>2, ThinsItself
  <2>3. CASE u \in Harm(a, walk.cur)
    <3> HIDE DEF a
    <3>1. Thins(a, u)
      BY <1>0, <2>1, <2>3, HarmThins
    <3>. QED  BY <1>2, <3>1, ThinsTransitive
  <2>. QED  BY <1>1, <2>2, <2>3
<1>. QED  BY <1>0, <1>1, <1>3, GoOnInv DEF Stages

LEMMA SelfInv ==
  ASSUME FightInv, Self
  PROVE  FightInv'
<1>0. /\ walk.loop # "none" /\ walk.cur \in Chars /\ Whole(w) /\ Present(w, walk.cur)
      /\ walk.victim \in Chars \cup {None}
  BY DEF Self, In, FightInv, Hands, Acting, Walks
<1>1. PICK u \in IF walk.cur \in w.mob THEN Scripts(w, walk.cur) ELSE {w} :
        \/ Step(u, "next")
        \/ GoOn(u, IF walk.victim = None THEN "next" ELSE "strike")
  BY DEF Self
<1>2. Thins(w, u)
  BY <1>0, ScriptsThin, ThinsItself DEF Present
<1>3. CASE Step(u, "next")
  BY <1>0, <1>2, <1>3, StepThins DEF Stages, Acting
<1>4. CASE GoOn(u, IF walk.victim = None THEN "next" ELSE "strike")
  <2>1. CASE walk.victim = None
    BY <1>0, <1>2, <1>4, <2>1, GoOnInv DEF Stages
  <2>2. CASE walk.victim # None
    BY <1>0, <1>2, <1>4, <2>2, GoOnInv DEF Stages
  <2>. QED  BY <2>1, <2>2
<1>. QED  BY <1>1, <1>3, <1>4

LEMMA StrikeInv ==
  ASSUME FightInv, Strike
  PROVE  FightInv'
<1>0. /\ walk.loop # "none" /\ walk.cur \in Chars /\ walk.victim \in Chars
      /\ Whole(w) /\ Present(w, walk.cur)
  BY DEF Strike, In, FightInv, Hands, Acting
<1>1. PICK u : Step(u, "sweep") /\ \/ walk.victim \in Listed(w) /\ u \in Blows(w, walk.cur, walk.victim)
                                   \/ u = StopFighting(w, walk.cur, TRUE)
                                   \/ u = StopFighting(w, walk.cur, FALSE)
  BY DEF Strike
<1>2. Thins(w, u)
  BY <1>0, <1>1, BlowsThin, StopFightingThins DEF Present
<1>. QED  BY <1>0, <1>1, <1>2, StepThins DEF Stages

LEMMA SweepOtherInv ==
  ASSUME FightInv, SweepOther
  PROVE  FightInv'
<1>0. /\ walk.loop # "none" /\ walk.cur \in Chars
      /\ Whole(w) /\ Present(w, walk.cur) /\ Listed(w) \subseteq Chars
  BY Typed DEF SweepOther, In, FightInv, Hands, Acting, Whole
<1>1. PICK v \in Listed(w) : \E u \in Blows(w, walk.cur, v) : Step(u, "sweep")
  BY DEF SweepOther
<1>2. PICK u \in Blows(w, walk.cur, v) : Step(u, "sweep")
  BY <1>1
<1>3. Thins(w, u)
  BY <1>0, <1>1, BlowsThin DEF Present
<1>. QED  BY <1>0, <1>2, <1>3, StepThins DEF Stages

LEMMA SweepEndsInv ==
  ASSUME FightInv, SweepEnds
  PROVE  FightInv'
<1> DEFINE f == w.fight[walk.cur]
           k == [walk EXCEPT !.victim = f, !.stage = IF f = None THEN "next" ELSE "assist"]
<1>0. /\ walk.loop # "none" /\ walk.cur \in Chars /\ Whole(w) /\ Present(w, walk.cur)
      /\ walk \in Walks /\ Turns(w, walk)
  BY DEF SweepEnds, In, FightInv, Hands, Acting
<1>1. walk' = k /\ w' = w
  BY DEF SweepEnds
<1>2. f \in Chars \cup {None} /\ (f # None => f \in Listed(w))
  BY <1>0, Typed DEF Whole, Fights
<1> HIDE DEF f
<1>3. /\ k \in Walks /\ k.loop = walk.loop /\ k.nxt = walk.nxt /\ k.due = walk.due
      /\ k.dead = walk.dead /\ k.extra = walk.extra /\ k.cut = walk.cut /\ k.cur = walk.cur
      /\ k.victim = f /\ k.stage = IF f = None THEN "next" ELSE "assist"
  BY <1>0, <1>2 DEF Walks, Stages
<1> HIDE DEF k
<1>4. Turns(w, k)
  BY <1>0, <1>3 DEF Turns
<1>5. Hands(w, k)
  BY <1>0, <1>2, <1>3 DEF Hands, Present
<1>. QED  BY <1>0, <1>1, <1>3, <1>4, <1>5 DEF FightInv

LEMMA AssistInv ==
  ASSUME FightInv, Assist
  PROVE  FightInv'
<1>0. /\ walk.loop # "none" /\ walk.cur \in Chars /\ walk.victim \in Chars
      /\ Whole(w) /\ Present(w, walk.cur) /\ Present(w, walk.victim) /\ Listed(w) \subseteq Chars
      /\ walk.stage = "assist" /\ walk \in Walks
  BY Typed DEF Assist, In, FightInv, Hands, Acting, Whole
<1>1. PICK r \in Listed(w) :
        \E t \in {walk.victim} \cup (IF r \in w.mob THEN Listed(w) \ {r} ELSE {}) :
        \E u \in Blows(w, r, t) :
           w' = u /\ walk' = Recorded(u, [walk EXCEPT !.asked = @ \cup {r}])
  BY DEF Assist
<1>2. PICK t \in {walk.victim} \cup Listed(w) :
        \E u \in Blows(w, r, t) :
           w' = u /\ walk' = Recorded(u, [walk EXCEPT !.asked = @ \cup {r}])
  BY <1>1
<1>3. PICK u \in Blows(w, r, t) :
           w' = u /\ walk' = Recorded(u, [walk EXCEPT !.asked = @ \cup {r}])
  BY <1>2
<1>4. t \in Chars /\ r \in Chars /\ (t \in w.valid => t \in Listed(w))
  BY <1>0 DEF Present
<1>5. Thins(w, u)
  BY <1>0, <1>4, BlowsThin
<1> DEFINE k == [walk EXCEPT !.asked = @ \cup {r}]
<1>6. /\ k \in Walks /\ k.loop = walk.loop /\ k.nxt = walk.nxt /\ k.due = walk.due
      /\ k.dead = walk.dead /\ k.extra = walk.extra /\ k.cut = walk.cut
      /\ k.stage = "assist" /\ k.cur = walk.cur /\ k.victim = walk.victim
  BY <1>0, <1>4 DEF Walks
<1>7. w' = u /\ walk' = Recorded(u, k)
  BY <1>3
<1> HIDE DEF k
<1>8. Hands(u, k)
  BY <1>0, <1>5, <1>6, PresentKept DEF Hands
<1>. QED  BY <1>0, <1>5, <1>6, <1>7, <1>8, StepInv DEF Thins

LEMMA FightTriggersInv ==
  ASSUME FightInv, FightTriggers
  PROVE  FightInv'
<1>0. /\ walk.loop # "none" /\ walk.cur \in Chars /\ Whole(w) /\ Present(w, walk.cur)
  BY DEF FightTriggers, In, FightInv, Hands, Acting
<1>1. PICK u \in IF walk.cur \in w.valid THEN Scripts(w, walk.cur) ELSE {w} : Step(u, "next")
  BY DEF FightTriggers
<1>2. Thins(w, u)
  BY <1>0, ScriptsThin, ThinsItself DEF Present
<1>. QED  BY <1>0, <1>1, <1>2, StepThins DEF Stages, Acting

\* The turns of char_update().
LEMMA UpdateInv ==
  ASSUME FightInv, Limbo \/ NoLimbo \/ TickQuit \/ QuitRefused \/ Stays \/ Ills
  PROVE  FightInv'
<1>0. /\ walk.loop # "none" /\ walk.cur \in Chars /\ Whole(w) /\ Listed(w) \subseteq Chars
  BY Typed DEF Limbo, NoLimbo, TickQuit, QuitRefused, Stays, Ills, In, FightInv, Hands, Whole
<1>1. ASSUME NEW u, Thins(w, u), NEW stage \in {"quit", "next", "ills"}, Step(u, stage)
      PROVE  FightInv'
  BY <1>0, <1>1, StepThins DEF Stages, Acting
<1>2. CASE Limbo
  <2> DEFINE u == StopFighting(w, walk.cur, TRUE)
  <2>1. Thins(w, u)
    BY <1>0, StopFightingThins
  <2>2. \/ Step(u, "quit")
        \/ \E m \in Listed(w) : Step(ExtractMob(u, m), "quit")
    BY <1>2 DEF Limbo
  <2> HIDE DEF u
  <2>3. ASSUME NEW m \in Listed(w) PROVE Thins(w, ExtractMob(u, m))
    BY <1>0, <2>1, Whole2, ExtractMobThins, ThinsTransitive
  <2>. QED  BY <1>1, <2>1, <2>2, <2>3
<1>3. CASE NoLimbo
  BY <1>0, <1>1, <1>3, ThinsItself DEF NoLimbo
<1>4. CASE TickQuit
  <2>1. PICK gone : Step(ExtractForQuit(w, walk.cur, gone), "next")
    BY <1>4 DEF TickQuit
  <2>2. Thins(w, ExtractForQuit(w, walk.cur, gone))
    BY <1>0, ExtractForQuitThins
  <2>. QED  BY <1>1, <2>1, <2>2
<1>5. CASE QuitRefused
  BY <1>0, <1>1, <1>5, ThinsItself DEF QuitRefused
<1>6. CASE Stays
  <2> DEFINE m == [w.master EXCEPT ![walk.cur] = None]
  <2>1. \/ Step(w, "ills")
        \/ Step(ExtractMob(w, walk.cur), "ills")
        \/ Step([w EXCEPT !.master = m], "ills")
    BY <1>6 DEF Stays
  <2>2. m \in [Chars -> Chars \cup {None}]
    BY <1>0, Typed DEF Whole
  <2> HIDE DEF m
  <2>3. Thins(w, w) /\ Thins(w, ExtractMob(w, walk.cur)) /\ Thins(w, [w EXCEPT !.master = m])
    BY <1>0, <2>2, ThinsItself, ExtractMobThins, MastersThin
  <2>. QED  BY <1>1, <2>1, <2>3
<1>7. CASE Ills
  <2>1. PICK u \in IF walk.cur \in Listed(w) THEN Harm(w, walk.cur) ELSE {w} : Step(u, "next")
    BY <1>7 DEF Ills
  <2>2. Thins(w, u)
    BY <1>0, HarmThins, ThinsItself
  <2>. QED  BY <1>1, <2>1, <2>2
<1>. QED  BY <1>2, <1>3, <1>4, <1>5, <1>6, <1>7

\* Between the walks anything that thins the world out will do.
LEMMA PlayersInv ==
  ASSUME FightInv, Players
  PROVE  FightInv'
<1>0. /\ walk.loop = "none" /\ UNCHANGED walk /\ Whole(w) /\ Listed(w) \subseteq Chars
      /\ w \in Worlds /\ w.fight \in [Chars -> Chars \cup {None}]
      /\ w.master \in [Chars -> Chars \cup {None}]
  BY Typed DEF Players, Attack, Flee, Rescue, Charm, Quit, Purge, Commands, FightInv, Whole
<1>1. ASSUME Thins(w, w') PROVE FightInv'
  BY <1>0, <1>1, IdleInv, Whole2
<1>2. CASE Attack
  <2>1. PICK s \in Listed(w), v \in Listed(w) : w' \in Blows(w, s, v)
    BY <1>2 DEF Attack
  <2>2. Thins(w, w')
    BY <1>0, <2>1, BlowsThin
  <2>. QED  BY <1>1, <2>2
<1>3. CASE Flee
  BY <1>0, <1>1, <1>3, StopFightingThins DEF Flee
<1>4. CASE Rescue
  <2>1. PICK s \in Listed(w), v \in Listed(w) :
          /\ w.fight[v] # None
          /\ LET f == w.fight[v]
                 u == StopFighting(StopFighting(w, f, FALSE), v, FALSE)
             IN  w' = SetFighting(SetFighting(SetFighting(u, s, f), f, s), v, f)
    BY <1>4 DEF Rescue
  <2> DEFINE f == w.fight[v]
             a == StopFighting(w, f, FALSE)
             b == StopFighting(a, v, FALSE)
             c == SetFighting(b, s, f)
             d == SetFighting(c, f, s)
             e == SetFighting(d, v, f)
  <2>2. f \in Listed(w)
    BY <1>0, <2>1 DEF Whole, Fights
  <2>3. w' = e
    BY <2>1
  <2> HIDE DEF f
  <2>4. Thins(w, a) /\ Whole(a) /\ Listed(a) = Listed(w)
    BY <1>0, StopFightingThins, StopFightingIs, Whole2 DEF Listed
  <2> HIDE DEF a
  <2>5. Thins(a, b) /\ Whole(b) /\ Listed(b) = Listed(w)
    BY <2>4, StopFightingThins, StopFightingIs, Whole2 DEF Listed, Whole
  <2> HIDE DEF b
  <2>6. Thins(b, c) /\ Whole(c)
    BY <2>1, <2>2, <2>5, SetFightingThins, Whole2
  <2>7. Listed(c) = Listed(w)
    BY <2>5 DEF SetFighting, Listed
  <2> HIDE DEF c
  <2>8. Thins(c, d) /\ Whole(d)
    BY <2>1, <2>2, <2>6, <2>7, SetFightingThins, Whole2
  <2>9. Listed(d) = Listed(w)
    BY <2>7 DEF SetFighting, Listed
  <2> HIDE DEF d
  <2>10. Thins(d, e)
    BY <2>1, <2>2, <2>8, <2>9, SetFightingThins
  <2>11. Whole(e)
    BY <2>10, Whole2
  <2>. QED  BY <1>0, <2>3, <2>11, IdleInv
<1>5. CASE Charm
  <2>1. PICK s \in Listed(w), m \in Listed(w) : w' = [w EXCEPT !.master = [w.master EXCEPT ![m] = s]]
    BY <1>5 DEF Charm
  <2> DEFINE n == [w.master EXCEPT ![m] = s]
  <2>2. n \in [Chars -> Chars \cup {None}] /\ w' = [w EXCEPT !.master = n]
    BY <1>0, <2>1
  <2> HIDE DEF n
  <2>. QED  BY <1>0, <1>1, <2>2, MastersThin
<1>6. CASE Quit
  <2>1. PICK s \in Listed(w) : \E gone : w' = ExtractForQuit(w, s, gone)
    BY <1>6 DEF Quit
  <2>2. PICK gone : w' = ExtractForQuit(w, s, gone)
    BY <2>1
  <2>. QED  BY <1>0, <1>1, <2>2, ExtractForQuitThins
<1>7. CASE Purge
  <2>1. PICK m \in Listed(w) : w' = ExtractMob(w, m)
    BY <1>7 DEF Purge
  <2>. QED  BY <1>0, <1>1, <2>1, ExtractMobThins
<1>. QED  BY <1>2, <1>3, <1>4, <1>5, <1>6, <1>7 DEF Players

LEMMA ArriveInv ==
  ASSUME FightInv, Arrive
  PROVE  FightInv'
<1>0. Whole(w) /\ walk \in Walks /\ Turns(w, walk) /\ Hands(w, walk)
  BY DEF FightInv
<1>1. PICK s \in Fresh(w), mob \in BOOLEAN : w' = NewChar(w, s, mob) /\ walk' = walk
  BY DEF Arrive
<1>2. Gains(w, w')
  BY <1>0, <1>1, NewCharGains
<1>3. Turns(w', walk)
  BY <1>0, <1>2 DEF Gains, Turns, Rest
<1>4. \A c : Present(w, c) => Present(w', c)
  BY <1>2 DEF Gains, Present
<1>5. Hands(w', walk)
  BY <1>0, <1>4 DEF Hands
<1>. QED  BY <1>0, <1>1, <1>2, <1>3, <1>5 DEF FightInv, Gains

LEMMA NextFightInv == FightInv /\ [Next]_vars => FightInv'
<1> SUFFICES ASSUME FightInv, [Next]_vars PROVE FightInv'
  OBVIOUS
<1>1. CASE Violence
  BY <1>1, BeginInv, TakeViolenceInv, RoomHarmInv, FallInv, SelfInv, StrikeInv, SweepOtherInv,
     SweepEndsInv, AssistInv, FightTriggersInv DEF Violence
<1>2. CASE Update
  BY <1>2, BeginInv, TakeUpdateInv, UpdateInv DEF Update
<1>3. CASE End \/ Players \/ Arrive
  BY <1>3, EndInv, PlayersInv, ArriveInv
<1>4. CASE UNCHANGED vars
  BY <1>4 DEF vars, FightInv
<1>. QED  BY <1>1, <1>2, <1>3, <1>4 DEF Next

LEMMA InitFightInv == Init => FightInv
<1> SUFFICES ASSUME Init PROVE FightInv
  OBVIOUS
<1>1. /\ w.list = <<>> /\ w.free = <<>> /\ w.mob = {} /\ w.valid = {}
      /\ \A c \in Chars : w.fight[c] = None
      /\ w \in Worlds
  BY DEF Init, Worlds
<1>2. Listed(w) = {} /\ Freed(w) = {}
  <2>1. ToSet(<<>>) = {}
    BY DEF ToSet
  <2>. QED  BY <1>1, <2>1 DEF Listed, Freed
<1>3. Distinct(w.list) /\ Distinct(w.free)
  BY <1>1 DEF Distinct
<1>4. Whole(w)
  BY <1>1, <1>2, <1>3 DEF Whole, Apart, Mobs, Fights
<1>5. walk = Idle
  BY DEF Init
<1>6. /\ Idle.extra = FALSE /\ Idle.dead = {} /\ Idle.loop = "none" /\ Idle.stage = "next"
  BY DEF Idle
<1>7. Idle \in Walks
  BY DEF Idle, Walks, Loops, Stages
<1>8. Turns(w, Idle) /\ Hands(w, Idle)
  BY <1>6 DEF Turns, Hands, Acting
<1>. QED  BY <1>4, <1>5, <1>7, <1>8 DEF FightInv

-----------------------------------------------------------------------------
\* The lists never share a structure, and freed mobs stay out of the game, whatever a body of a
\* walk kills, frees, creates and validates (free_char(), new_char(), violence_update()).
THEOREM ListsAlwaysSound == Spec => []ListsSound
<1>1. FightInv => ListsSound
  BY WholeIs DEF FightInv, Whole, TypeOK
<1>. QED  BY InitFightInv, NextFightInv, <1>1, PTL DEF Spec

\* No fight points out of the world: every way out passes stop_fighting(), and no blow of an
\* old pointer strikes who has left.
THEOREM FightsOnlyTheLiving == Spec => []FightingAlive
<1>1. FightInv => FightingAlive
  BY WholeIs DEF FightInv, Whole, TypeOK
<1>. QED  BY InitFightInv, NextFightInv, <1>1, PTL DEF Spec

\* LIST_FOREACH_SAFE gives everybody his turn, and nobody two, in a walk whose saved character
\* was not removed, whatever else its bodies removed and created.
THEOREM EverybodyHasHisTurn == Spec => []TurnsLostByCutOnly
<1>1. FightInv => TurnsLostByCutOnly
  BY DEF FightInv, Turns, Rest, TurnsLostByCutOnly, WholeWalk
<1>. QED  BY InitFightInv, NextFightInv, <1>1, PTL DEF Spec

\* violence_update() brings back all who were dead when it began, if nothing was cut.
THEOREM AllTheDeadReturn == Spec => []DeadReturn
<1>1. FightInv => DeadReturn
  BY DEF FightInv, Turns, Rest, DeadReturn, WholeWalk
<1>. QED  BY InitFightInv, NextFightInv, <1>1, PTL DEF Spec
=============================================================================
