----------------------------- MODULE TotalProofs -----------------------------
(***************************************************************************)
(* Sums over finite sets.  The library's sum is a function on the subsets  *)
(* of a set, defined by itself; what holds of every sum is shown of a      *)
(* smallest set for which it fails.                                        *)
(***************************************************************************)
EXTENDS Totals, Folds, FiniteSetTheorems, WellFoundedInduction, TLAPS

\* The library's sums take the elements of a set in the order of CHOOSE.
Some(s) == CHOOSE x \in s : TRUE

\* g is the sum of F over every subset of S, defined as the library does.
IsSum(F, S, g) == g = [s \in SUBSET S |-> IF s = {} THEN 0 ELSE F[Some(s)] + g[s \ {Some(s)}]]

\* Every non-empty set of finite sets has a smallest one.
LEMMA Smallest ==
    ASSUME NEW S, IsFiniteSet(S), NEW B \in SUBSET (SUBSET S), B # {}
    PROVE  \E s \in B : \A t \in B : t \subseteq s => t = s
<1>1. IsWellFoundedOn(StrictSubsetOrdering(S), SUBSET S)
  BY FS_StrictSubsetOrderingWellFounded, FS_FiniteSubsetsOfFinite
<1>2. \E s \in B : \A t \in B : ~ (<<t, s>> \in StrictSubsetOrdering(S))
  BY <1>1, WFMin
<1>3. PICK s \in B : \A t \in B : ~ (<<t, s>> \in StrictSubsetOrdering(S))
  BY <1>2
<1>4. \A t \in B : t \subseteq s => t = s
  BY <1>3 DEF StrictSubsetOrdering
<1> QED
  BY <1>4

LEMMA SomeIn ==
    ASSUME NEW s, s # {}
    PROVE  Some(s) \in s
BY DEF Some

LEMMA SumValues ==
    ASSUME NEW S, NEW F, \A x \in S : F[x] \in Int, NEW g, IsSum(F, S, g)
    PROVE  /\ g[{}] = 0
           /\ \A s \in (SUBSET S) \ {{}} : g[s] = F[Some(s)] + g[s \ {Some(s)}]
BY DEF IsSum

\* Two such sums agree where both are defined.
LEMMA SumUnique ==
    ASSUME NEW S, IsFiniteSet(S), NEW F, \A x \in S : F[x] \in Int, NEW T, NEW U, T \subseteq S, U \subseteq S,
           NEW g, NEW h, IsSum(F, T, g), IsSum(F, U, h), NEW s, s \subseteq T, s \subseteq U
    PROVE  g[s] = h[s]
<1> DEFINE B == {t \in SUBSET (T \cap U) : g[t] # h[t]}
<1> SUFFICES ASSUME B # {} PROVE FALSE
  OBVIOUS
<1>1. /\ B \in SUBSET (SUBSET S) /\ B \subseteq SUBSET (T \cap U)
      /\ \A t \in SUBSET (T \cap U) : t \in B <=> g[t] # h[t]
  OBVIOUS
<1> HIDE DEF B
<1>2. PICK t \in B : \A r \in B : r \subseteq t => r = t
  BY <1>1, Smallest
<1>3. /\ \A r \in SUBSET T : g[r] = IF r = {} THEN 0 ELSE F[Some(r)] + g[r \ {Some(r)}]
      /\ \A r \in SUBSET U : h[r] = IF r = {} THEN 0 ELSE F[Some(r)] + h[r \ {Some(r)}]
  BY DEF IsSum
<1>4. t # {}
  BY <1>1, <1>3
<1>5. Some(t) \in t
  BY <1>4, SomeIn
<1>6. t \ {Some(t)} \notin B
  BY <1>2, <1>5
<1>7. g[t \ {Some(t)}] = h[t \ {Some(t)}] /\ g[t] # h[t]
  BY <1>1, <1>6
<1>8. g[t] = F[Some(t)] + g[t \ {Some(t)}] /\ h[t] = F[Some(t)] + h[t \ {Some(t)}]
  BY <1>1, <1>3, <1>4
<1> QED
  BY <1>7, <1>8

LEMMA SumInt ==
    ASSUME NEW S, IsFiniteSet(S), NEW F, \A x \in S : F[x] \in Int, NEW g, IsSum(F, S, g), NEW s \in SUBSET S
    PROVE  g[s] \in Int
<1> DEFINE B == {t \in SUBSET S : g[t] \notin Int}
<1> SUFFICES ASSUME B # {} PROVE FALSE
  OBVIOUS
<1>0. B \in SUBSET (SUBSET S) /\ \A t \in SUBSET S : t \in B <=> g[t] \notin Int
  OBVIOUS
<1> HIDE DEF B
<1>1. PICK t \in B : \A r \in B : r \subseteq t => r = t
  BY <1>0, Smallest
<1>2. \A r \in SUBSET S : g[r] = IF r = {} THEN 0 ELSE F[Some(r)] + g[r \ {Some(r)}]
  BY DEF IsSum
<1>3. t \in SUBSET S /\ g[t] \notin Int
  BY <1>0
<1>4. t # {}
  <2>1. g[{}] = 0
    BY SumValues
  <2> QED
    BY <1>3, <2>1
<1>5. Some(t) \in t
  BY <1>4, SomeIn
<1>6. g[t \ {Some(t)}] \in Int
  BY <1>0, <1>1, <1>3, <1>5
<1>7. F[Some(t)] \in Int
  BY <1>3, <1>5
<1>8. g[t] = F[Some(t)] + g[t \ {Some(t)}]
  BY <1>2, <1>3, <1>4
<1> QED
  BY <1>3, <1>6, <1>7, <1>8

\* There is one.
LEMMA SumExists ==
    ASSUME NEW S, IsFiniteSet(S), NEW F, \A x \in S : F[x] \in Int
    PROVE  \E g : IsSum(F, S, g)
<1> DEFINE B == {t \in SUBSET S : ~ \E g : IsSum(F, t, g)}
<1>0. /\ B \in SUBSET (SUBSET S)
      /\ \A t \in SUBSET S : t \notin B => \E g : IsSum(F, t, g)
      /\ \A t \in B : ~ \E g : IsSum(F, t, g)
  OBVIOUS
<1> HIDE DEF B
<1> SUFFICES ASSUME B # {} PROVE FALSE
  BY <1>0
<1>1. PICK t \in B : \A r \in B : r \subseteq t => r = t
  BY <1>0, Smallest
<1>2. \A r \in SUBSET t : r # t => \E g : IsSum(F, r, g)
  BY <1>0, <1>1
<1> DEFINE part == [r \in SUBSET t |-> CHOOSE g : IsSum(F, r, g)]
           h == [r \in SUBSET t |-> IF r = {} THEN 0
                                    ELSE F[Some(r)] + part[r \ {Some(r)}][r \ {Some(r)}]]
<1>3. ASSUME NEW r \in SUBSET t, r # t
      PROVE  IsSum(F, r, part[r])
  <2>1. part[r] = CHOOSE g : IsSum(F, r, g)
    OBVIOUS
  <2>2. \E g : IsSum(F, r, g)
    BY <1>2, <1>3
  <2> HIDE DEF part
  <2> QED
    BY <2>1, <2>2
<1> HIDE DEF part
<1>4. ASSUME NEW r \in SUBSET t, r # t
      PROVE  h[r] = part[r][r]
  <2>1. IsSum(F, r, part[r])
    BY <1>3, <1>4
  <2>2. part[r][r] = IF r = {} THEN 0 ELSE F[Some(r)] + part[r][r \ {Some(r)}]
    BY <2>1 DEF IsSum
  <2>3. CASE r = {}
    BY <2>2, <2>3
  <2>4. CASE r # {}
    <3> DEFINE q == r \ {Some(r)}
    <3>1. Some(r) \in r /\ q \in SUBSET t /\ q # t
      BY <2>4, SomeIn
    <3>2. IsSum(F, q, part[q])
      BY <1>3, <3>1
    <3> HIDE DEF q
    <3>3. part[q][q] = part[r][q]
      <4>1. q \subseteq q /\ q \subseteq r /\ q \subseteq S /\ r \subseteq S
        BY <1>0 DEF q
      <4>2. ASSUME NEW a, NEW b, IsSum(F, r, a), IsSum(F, q, b)
            PROVE  b[q] = a[q]
        BY <4>1, <4>2, SumUnique
      <4> QED
        BY <2>1, <3>2, <4>2
    <3> QED
      BY <2>2, <2>4, <3>3 DEF q
  <2> QED
    BY <2>3, <2>4
<1>5. \A r \in SUBSET t : h[r] = IF r = {} THEN 0 ELSE F[Some(r)] + h[r \ {Some(r)}]
  <2> SUFFICES ASSUME NEW r \in SUBSET t, r # {}
               PROVE  h[r] = F[Some(r)] + h[r \ {Some(r)}]
    OBVIOUS
  <2>1. Some(r) \in r
    BY SomeIn
  <2>2. r \ {Some(r)} \in SUBSET t /\ r \ {Some(r)} # t
    BY <2>1
  <2> QED
    BY <1>4, <2>2
<1>6. h = [r \in SUBSET t |-> IF r = {} THEN 0 ELSE F[Some(r)] + h[r \ {Some(r)}]]
  BY <1>5
<1>7. IsSum(F, t, h)
  BY <1>6 DEF IsSum
<1> QED
  BY <1>0, <1>7

LEMMA TotalIs ==
    ASSUME NEW F, NEW S, NEW g, IsSum(F, S, g), \A h : IsSum(F, S, h) => h = g
    PROVE  SumOf(F, S) = g[S]
<1> DEFINE lib == CHOOSE h : IsSum(F, S, h)
<1>1. SumOf(F, S) = lib[S]
  BY DEF SumOf, MapThenSumSet, MapThenFoldSet, IsSum, Some
<1>2. IsSum(F, S, lib)
  OBVIOUS
<1> HIDE DEF lib
<1> QED
  BY <1>1, <1>2


LEMMA TotalPart ==
    ASSUME NEW S, IsFiniteSet(S), NEW F, \A x \in S : F[x] \in Int, NEW g, IsSum(F, S, g),
           NEW s, s \subseteq S
    PROVE  SumOf(F, s) = g[s] /\ SumOf(F, s) \in Int
<1>1. IsFiniteSet(s) /\ \A x \in s : F[x] \in Int
  BY FS_Subset
<1>2. PICK h : IsSum(F, s, h)
  BY <1>1, SumExists
<1>3. ASSUME NEW k, IsSum(F, s, k)
      PROVE  k = h
  <2>1. \A r \in SUBSET s : k[r] = h[r]
    BY <1>1, <1>2, <1>3, SumUnique
  <2>2. /\ k = [r \in SUBSET s |-> IF r = {} THEN 0 ELSE F[Some(r)] + k[r \ {Some(r)}]]
        /\ h = [r \in SUBSET s |-> IF r = {} THEN 0 ELSE F[Some(r)] + h[r \ {Some(r)}]]
    BY <1>2, <1>3 DEF IsSum
  <2>3. k = [r \in SUBSET s |-> k[r]] /\ h = [r \in SUBSET s |-> h[r]]
    BY <2>2
  <2> QED
    BY <2>1, <2>3
<1>4. SumOf(F, s) = h[s]
  BY <1>2, <1>3, TotalIs
<1>5. h[s] = g[s]
  BY <1>2, SumUnique
<1>6. g[s] \in Int
  BY SumInt
<1> QED
  BY <1>4, <1>5, <1>6

\* The sum over nothing is zero.
LEMMA TotalNone ==
    ASSUME NEW F
    PROVE  SumOf(F, {}) = 0
<1>1. IsFiniteSet({}) /\ \A x \in {} : F[x] \in Int
  BY FS_EmptySet
<1>2. PICK g : IsSum(F, {}, g)
  BY <1>1, SumExists
<1>3. SumOf(F, {}) = g[{}]
  BY <1>1, <1>2, TotalPart
<1>4. g[{}] = 0
  BY <1>2 DEF IsSum
<1> QED
  BY <1>3, <1>4

\* Any element may be counted first.
LEMMA TotalOne ==
    ASSUME NEW S, IsFiniteSet(S), NEW F, \A x \in S : F[x] \in Int, NEW x \in S
    PROVE  /\ SumOf(F, S) = F[x] + SumOf(F, S \ {x})
           /\ SumOf(F, S) \in Int /\ SumOf(F, S \ {x}) \in Int /\ F[x] \in Int
<1>1. PICK g : IsSum(F, S, g)
  BY SumExists
<1> DEFINE B == {t \in SUBSET S : \E y \in t : g[t] # F[y] + g[t \ {y}]}
<1>2. /\ B \in SUBSET (SUBSET S)
      /\ \A t \in B : \E y \in t : g[t] # F[y] + g[t \ {y}]
      /\ \A t \in SUBSET S : t \notin B => \A y \in t : g[t] = F[y] + g[t \ {y}]
  OBVIOUS
<1> HIDE DEF B
<1>3. B = {}
  <2> SUFFICES ASSUME B # {} PROVE FALSE
    OBVIOUS
  <2>1. PICK t \in B : \A r \in B : r \subseteq t => r = t
    BY <1>2, Smallest
  <2>2. PICK y \in t : g[t] # F[y] + g[t \ {y}]
    BY <1>2
  <2> DEFINE z == Some(t)
  <2>3. z \in t /\ t \subseteq S
    BY <1>2, SomeIn
  <2>4. g[t] = F[z] + g[t \ {z}]
    <3>1. \A r \in SUBSET S : g[r] = IF r = {} THEN 0 ELSE F[Some(r)] + g[r \ {Some(r)}]
      BY <1>1 DEF IsSum
    <3>2. t # {} /\ t \in SUBSET S
      BY <2>3
    <3> QED
      BY <3>1, <3>2
  <2>5. y # z
    BY <2>2, <2>4
  <2>6. t \ {y} \notin B /\ t \ {z} \notin B
    BY <2>1, <2>3
  <2> HIDE DEF z
  <2>7. g[t \ {y}] = F[z] + g[(t \ {y}) \ {z}] /\ g[t \ {z}] = F[y] + g[(t \ {z}) \ {y}]
    BY <1>2, <2>3, <2>5, <2>6
  <2>8. (t \ {z}) \ {y} = (t \ {y}) \ {z}
    OBVIOUS
  <2> DEFINE rest == g[(t \ {y}) \ {z}]
  <2>9. rest \in Int /\ F[y] \in Int /\ F[z] \in Int
    <3>1. (t \ {y}) \ {z} \subseteq S
      BY <2>3
    <3> QED
      BY <1>1, <2>3, <3>1, SumInt
  <2>10. g[t \ {y}] = F[z] + rest /\ g[t \ {z}] = F[y] + rest
    BY <2>7, <2>8
  <2> HIDE DEF rest
  <2> QED
    BY <2>2, <2>4, <2>9, <2>10
<1>4. g[S] = F[x] + g[S \ {x}]
  BY <1>2, <1>3
<1>5. SumOf(F, S) = g[S] /\ SumOf(F, S) \in Int
  BY <1>1, TotalPart
<1>6. SumOf(F, S \ {x}) = g[S \ {x}] /\ SumOf(F, S \ {x}) \in Int
  BY <1>1, TotalPart
<1> QED
  BY <1>4, <1>5, <1>6

LEMMA TotalInt ==
    ASSUME NEW S, IsFiniteSet(S), NEW F, \A x \in S : F[x] \in Int
    PROVE  SumOf(F, S) \in Int
<1>1. CASE S = {}
  BY <1>1, TotalNone
<1>2. CASE S # {}
  BY <1>2, TotalOne
<1> QED
  BY <1>1, <1>2

\* Sums follow their summands.
LEMMA TotalMonotone ==
    ASSUME NEW S, IsFiniteSet(S), NEW F, NEW G,
           \A x \in S : F[x] \in Int /\ G[x] \in Int /\ F[x] <= G[x]
    PROVE  SumOf(F, S) <= SumOf(G, S)
<1> DEFINE B == {t \in SUBSET S : ~ (SumOf(F, t) <= SumOf(G, t))}
<1>1. /\ B \in SUBSET (SUBSET S)
      /\ \A t \in SUBSET S : t \notin B => SumOf(F, t) <= SumOf(G, t)
      /\ \A t \in B : ~ (SumOf(F, t) <= SumOf(G, t))
  OBVIOUS
<1> HIDE DEF B
<1> SUFFICES ASSUME B # {} PROVE FALSE
  BY <1>1
<1>2. PICK t \in B : \A r \in B : r \subseteq t => r = t
  BY <1>1, Smallest
<1>3. IsFiniteSet(t) /\ t \subseteq S
  BY <1>1, FS_Subset
<1>4. t # {}
  <2>1. SumOf(F, {}) = 0 /\ SumOf(G, {}) = 0
    BY TotalNone
  <2> QED
    BY <1>1, <2>1
<1>5. PICK x \in t : TRUE
  BY <1>4
<1>6. /\ SumOf(F, t) = F[x] + SumOf(F, t \ {x})
      /\ SumOf(F, t \ {x}) \in Int
  BY <1>3, TotalOne
<1>7. /\ SumOf(G, t) = G[x] + SumOf(G, t \ {x})
      /\ SumOf(G, t \ {x}) \in Int
  BY <1>3, TotalOne
<1>8. SumOf(F, t \ {x}) <= SumOf(G, t \ {x})
  BY <1>1, <1>2, <1>3
<1>9. F[x] \in Int /\ G[x] \in Int /\ F[x] <= G[x] /\ ~ (SumOf(F, t) <= SumOf(G, t))
  BY <1>1, <1>3
<1> QED
  BY <1>6, <1>7, <1>8, <1>9

LEMMA TotalSame ==
    ASSUME NEW S, IsFiniteSet(S), NEW F, NEW G,
           \A x \in S : F[x] \in Int /\ F[x] = G[x]
    PROVE  SumOf(F, S) = SumOf(G, S)
<1>1. SumOf(F, S) <= SumOf(G, S)
  BY TotalMonotone
<1>2. SumOf(G, S) <= SumOf(F, S)
  BY TotalMonotone
<1>3. SumOf(F, S) \in Int /\ SumOf(G, S) \in Int
  BY TotalInt
<1> QED
  BY <1>1, <1>2, <1>3

LEMMA TotalNat ==
    ASSUME NEW S, IsFiniteSet(S), NEW F, \A x \in S : F[x] \in Nat
    PROVE  SumOf(F, S) \in Nat
<1> DEFINE B == {t \in SUBSET S : SumOf(F, t) \notin Nat}
<1>1. /\ B \in SUBSET (SUBSET S)
      /\ \A t \in SUBSET S : t \notin B => SumOf(F, t) \in Nat
      /\ \A t \in B : SumOf(F, t) \notin Nat
  OBVIOUS
<1> HIDE DEF B
<1> SUFFICES ASSUME B # {} PROVE FALSE
  BY <1>1
<1>2. PICK t \in B : \A r \in B : r \subseteq t => r = t
  BY <1>1, Smallest
<1>3. IsFiniteSet(t) /\ t \subseteq S
  BY <1>1, FS_Subset
<1>4. t # {}
  <2>1. SumOf(F, {}) = 0
    BY TotalNone
  <2>2. {} \notin B
    BY <1>1, <2>1
  <2> QED
    BY <2>2
<1>5. PICK x \in t : TRUE
  BY <1>4
<1>6. SumOf(F, t) = F[x] + SumOf(F, t \ {x})
  BY <1>3, TotalOne
<1>7. SumOf(F, t \ {x}) \in Nat
  BY <1>1, <1>2, <1>3
<1>8. F[x] \in Nat /\ SumOf(F, t) \notin Nat
  BY <1>1, <1>3
<1> QED
  BY <1>6, <1>7, <1>8

\* A sum over two sets that have nothing in common.
LEMMA TotalSplit ==
    ASSUME NEW S, NEW T, IsFiniteSet(S), IsFiniteSet(T), S \cap T = {}, NEW F,
           \A x \in S \cup T : F[x] \in Int
    PROVE  SumOf(F, S \cup T) = SumOf(F, S) + SumOf(F, T)
<1> DEFINE B == {t \in SUBSET T : SumOf(F, S \cup t) # SumOf(F, S) + SumOf(F, t)}
<1>1. /\ B \in SUBSET (SUBSET T)
      /\ \A t \in SUBSET T : t \notin B => SumOf(F, S \cup t) = SumOf(F, S) + SumOf(F, t)
      /\ \A t \in B : SumOf(F, S \cup t) # SumOf(F, S) + SumOf(F, t)
  OBVIOUS
<1> HIDE DEF B
<1> SUFFICES ASSUME B # {} PROVE FALSE
  BY <1>1
<1>2. PICK t \in B : \A r \in B : r \subseteq t => r = t
  BY <1>1, Smallest
<1>3. IsFiniteSet(t) /\ t \subseteq T /\ IsFiniteSet(S \cup t)
  BY <1>1, FS_Subset, FS_Union
<1>4. SumOf(F, S) \in Int
  BY TotalInt
<1>5. t # {}
  <2>1. SumOf(F, {}) = 0 /\ S \cup {} = S
    BY TotalNone
  <2>2. SumOf(F, S \cup {}) = SumOf(F, S) + SumOf(F, {})
    BY <1>4, <2>1
  <2>3. {} \notin B
    BY <1>1, <2>2
  <2> QED
    BY <2>3
<1>6. PICK x \in t : TRUE
  BY <1>5
<1>7. /\ SumOf(F, t) = F[x] + SumOf(F, t \ {x})
      /\ SumOf(F, t \ {x}) \in Int /\ F[x] \in Int
  BY <1>3, TotalOne
<1>8. (S \cup t) \ {x} = S \cup (t \ {x})
  BY <1>3
<1>9. SumOf(F, S \cup t) = F[x] + SumOf(F, S \cup (t \ {x}))
  <2>1. SumOf(F, S \cup t) = F[x] + SumOf(F, (S \cup t) \ {x})
    <3>1. x \in S \cup t /\ \A y \in S \cup t : F[y] \in Int
      BY <1>3
    <3> QED
      BY <1>3, <3>1, TotalOne
  <2> QED
    BY <1>8, <2>1
<1>10. SumOf(F, S \cup (t \ {x})) = SumOf(F, S) + SumOf(F, t \ {x})
  <2>1. t \ {x} \notin B /\ t \ {x} \in SUBSET T
    BY <1>2, <1>3
  <2> QED
    BY <1>1, <2>1
<1>11. SumOf(F, S \cup t) # SumOf(F, S) + SumOf(F, t)
  BY <1>1
<1> QED
  BY <1>4, <1>7, <1>9, <1>10, <1>11

\* The sum of sums.
LEMMA TotalAdds ==
    ASSUME NEW S, IsFiniteSet(S), NEW F, NEW G, NEW H,
           \A x \in S : F[x] \in Int /\ G[x] \in Int /\ H[x] = F[x] + G[x]
    PROVE  SumOf(H, S) = SumOf(F, S) + SumOf(G, S)
<1> DEFINE B == {t \in SUBSET S : SumOf(H, t) # SumOf(F, t) + SumOf(G, t)}
<1>1. /\ B \in SUBSET (SUBSET S)
      /\ \A t \in SUBSET S : t \notin B => SumOf(H, t) = SumOf(F, t) + SumOf(G, t)
      /\ \A t \in B : SumOf(H, t) # SumOf(F, t) + SumOf(G, t)
  OBVIOUS
<1> HIDE DEF B
<1> SUFFICES ASSUME B # {} PROVE FALSE
  BY <1>1
<1>2. PICK t \in B : \A r \in B : r \subseteq t => r = t
  BY <1>1, Smallest
<1>3. IsFiniteSet(t) /\ t \subseteq S
  BY <1>1, FS_Subset
<1>4. t # {}
  <2>1. SumOf(F, {}) = 0 /\ SumOf(G, {}) = 0 /\ SumOf(H, {}) = 0
    BY TotalNone
  <2> QED
    BY <1>1, <2>1
<1>5. PICK x \in t : TRUE
  BY <1>4
<1>6. /\ SumOf(F, t) = F[x] + SumOf(F, t \ {x})
      /\ SumOf(F, t \ {x}) \in Int
  BY <1>3, TotalOne
<1>7. /\ SumOf(G, t) = G[x] + SumOf(G, t \ {x})
      /\ SumOf(G, t \ {x}) \in Int
  BY <1>3, TotalOne
<1>8. SumOf(H, t) = H[x] + SumOf(H, t \ {x})
  <2>1. \A y \in t : H[y] \in Int
    BY <1>3
  <2> QED
    BY <1>3, <2>1, TotalOne
<1>9. SumOf(H, t \ {x}) = SumOf(F, t \ {x}) + SumOf(G, t \ {x})
  BY <1>1, <1>2, <1>3
<1>10. F[x] \in Int /\ G[x] \in Int /\ H[x] = F[x] + G[x]
  BY <1>3
<1>11. SumOf(H, t) # SumOf(F, t) + SumOf(G, t)
  BY <1>1
<1> QED
  BY <1>6, <1>7, <1>8, <1>9, <1>10, <1>11

\* Who in S gives to one of Q.
Givers(S, whom, Q) == {i \in S : whom[i] \in Q}

\* H is what each one in Q gets.
Shares(S, F, whom, Q, H) == \A q \in Q : H[q] = SumOf(F, Givers(S, whom, {q}))

\* What everyone in Q gets, of what each i in S gives to whom[i].
LEMMA TotalShared ==
    ASSUME NEW S, IsFiniteSet(S), NEW F, \A i \in S : F[i] \in Int, NEW whom,
           NEW Q, IsFiniteSet(Q), NEW H, Shares(S, F, whom, Q, H)
    PROVE  SumOf(H, Q) = SumOf(F, Givers(S, whom, Q))
<1> DEFINE From(t) == Givers(S, whom, t)
           B == {t \in SUBSET Q : SumOf(H, t) # SumOf(F, From(t))}
<1>1. /\ B \in SUBSET (SUBSET Q)
      /\ \A t \in SUBSET Q : t \notin B => SumOf(H, t) = SumOf(F, From(t))
      /\ \A t \in B : SumOf(H, t) # SumOf(F, From(t))
  OBVIOUS
<1> HIDE DEF B
<1>2. \A t : From(t) \subseteq S /\ IsFiniteSet(From(t)) /\ \A i \in From(t) : F[i] \in Int
  BY FS_Subset DEF Givers
<1> HIDE DEF From
<1>3. SUFFICES ASSUME B # {} PROVE FALSE
  <2>1. Q \in SUBSET Q /\ From(Q) = Givers(S, whom, Q)
    BY DEF From
  <2> QED
    BY <1>1, <2>1
<1>4. PICK t \in B : \A r \in B : r \subseteq t => r = t
  BY <1>1, <1>3, Smallest
<1>5. IsFiniteSet(t) /\ t \subseteq Q
  BY <1>1, FS_Subset
<1>6. t # {}
  <2>1. SumOf(F, {}) = 0 /\ SumOf(H, {}) = 0 /\ From({}) = {}
    BY TotalNone DEF From, Givers
  <2> QED
    BY <1>1, <2>1
<1>7. PICK q \in t : TRUE
  BY <1>6
<1>8. \A p \in Q : H[p] = SumOf(F, From({p})) /\ H[p] \in Int
  <2>1. ASSUME NEW p \in Q
        PROVE  H[p] = SumOf(F, From({p}))
    BY DEF From, Shares
  <2>2. \A p \in Q : SumOf(F, From({p})) \in Int
    BY <1>2, TotalInt
  <2> QED
    BY <2>1, <2>2
<1>9. SumOf(H, t) = H[q] + SumOf(H, t \ {q})
  <2>1. \A p \in t : H[p] \in Int
    BY <1>5, <1>8
  <2> QED
    BY <1>5, <2>1, TotalOne
<1>10. SumOf(H, t \ {q}) = SumOf(F, From(t \ {q}))
  BY <1>1, <1>4, <1>5
<1>11. SumOf(F, From(t)) = SumOf(F, From({q})) + SumOf(F, From(t \ {q}))
  <2>1. /\ From(t) = From({q}) \cup From(t \ {q})
        /\ From({q}) \cap From(t \ {q}) = {}
    BY DEF From, Givers
  <2>2. \A i \in From({q}) \cup From(t \ {q}) : F[i] \in Int
    BY <1>2
  <2>3. SumOf(F, From({q}) \cup From(t \ {q})) = SumOf(F, From({q})) + SumOf(F, From(t \ {q}))
    BY <1>2, <2>1, <2>2, TotalSplit
  <2> QED
    BY <2>1, <2>3
<1>12. SumOf(H, t) # SumOf(F, From(t)) /\ H[q] = SumOf(F, From({q}))
  BY <1>1, <1>5, <1>8
<1> QED
  BY <1>9, <1>10, <1>11, <1>12

\* One summand has changed.
LEMMA TotalChange ==
    ASSUME NEW S, IsFiniteSet(S), NEW F, NEW G,
           \A y \in S : F[y] \in Int /\ G[y] \in Int, NEW x \in S,
           \A y \in S : y # x => G[y] = F[y]
    PROVE  SumOf(G, S) = SumOf(F, S) + G[x] - F[x]
<1>1. /\ SumOf(F, S) = F[x] + SumOf(F, S \ {x})
      /\ SumOf(F, S \ {x}) \in Int
  BY TotalOne
<1>2. SumOf(G, S) = G[x] + SumOf(G, S \ {x})
  BY TotalOne
<1>3. SumOf(F, S \ {x}) = SumOf(G, S \ {x})
  <2>1. IsFiniteSet(S \ {x}) /\ \A y \in S \ {x} : F[y] \in Int /\ F[y] = G[y]
    BY FS_RemoveElement
  <2> QED
    BY <2>1, TotalSame
<1>4. F[x] \in Int /\ G[x] \in Int
  OBVIOUS
<1> QED
  BY <1>1, <1>2, <1>3, <1>4

\* All summands are the same.
LEMMA TotalConst ==
    ASSUME NEW S, IsFiniteSet(S), NEW F, NEW k \in Int, \A x \in S : F[x] = k
    PROVE  SumOf(F, S) = Cardinality(S) * k
<1> DEFINE B == {t \in SUBSET S : SumOf(F, t) # Cardinality(t) * k}
<1>1. /\ B \in SUBSET (SUBSET S)
      /\ \A t \in SUBSET S : t \notin B => SumOf(F, t) = Cardinality(t) * k
      /\ \A t \in B : SumOf(F, t) # Cardinality(t) * k
  OBVIOUS
<1> HIDE DEF B
<1> SUFFICES ASSUME B # {} PROVE FALSE
  BY <1>1
<1>2. PICK t \in B : \A r \in B : r \subseteq t => r = t
  BY <1>1, Smallest
<1>3. IsFiniteSet(t) /\ t \subseteq S
  BY <1>1, FS_Subset
<1>4. t # {}
  <2>1. SumOf(F, {}) = 0 /\ Cardinality({}) * k = 0
    BY TotalNone, FS_EmptySet
  <2> QED
    BY <1>1, <2>1
<1>5. PICK x \in t : TRUE
  BY <1>4
<1>6. SumOf(F, t) = F[x] + SumOf(F, t \ {x})
  BY <1>3, TotalOne
<1>7. SumOf(F, t \ {x}) = Cardinality(t \ {x}) * k
  BY <1>1, <1>2, <1>3
<1>8. /\ Cardinality(t \ {x}) = Cardinality(t) - 1 /\ Cardinality(t) \in Nat
  BY <1>3, FS_RemoveElement, FS_CardinalityType
<1> DEFINE n == Cardinality(t)
<1>9. n \in Int /\ SumOf(F, t) = k + (n - 1) * k
  BY <1>3, <1>6, <1>7, <1>8
<1>10. SumOf(F, t) # n * k
  BY <1>1
<1> HIDE DEF n
<1> QED
  BY <1>9, <1>10

\* Every summand is multiplied.
LEMMA TotalScaled ==
    ASSUME NEW S, IsFiniteSet(S), NEW F, NEW G, NEW k \in Int,
           \A x \in S : F[x] \in Int /\ G[x] = k * F[x]
    PROVE  SumOf(G, S) = k * SumOf(F, S)
<1> DEFINE B == {t \in SUBSET S : SumOf(G, t) # k * SumOf(F, t)}
<1>1. /\ B \in SUBSET (SUBSET S)
      /\ \A t \in SUBSET S : t \notin B => SumOf(G, t) = k * SumOf(F, t)
      /\ \A t \in B : SumOf(G, t) # k * SumOf(F, t)
  OBVIOUS
<1> HIDE DEF B
<1> SUFFICES ASSUME B # {} PROVE FALSE
  BY <1>1
<1>2. PICK t \in B : \A r \in B : r \subseteq t => r = t
  BY <1>1, Smallest
<1>3. IsFiniteSet(t) /\ t \subseteq S
  BY <1>1, FS_Subset
<1>4. t # {}
  <2>1. SumOf(F, {}) = 0 /\ SumOf(G, {}) = 0 /\ k * 0 = 0
    BY TotalNone
  <2> QED
    BY <1>1, <2>1
<1>5. PICK x \in t : TRUE
  BY <1>4
<1>6. /\ SumOf(F, t) = F[x] + SumOf(F, t \ {x})
      /\ SumOf(F, t \ {x}) \in Int /\ F[x] \in Int
  BY <1>3, TotalOne
<1>7. SumOf(G, t) = G[x] + SumOf(G, t \ {x})
  <2>1. \A y \in t : G[y] \in Int
    BY <1>3
  <2> QED
    BY <1>3, <2>1, TotalOne
<1>8. SumOf(G, t \ {x}) = k * SumOf(F, t \ {x}) /\ G[x] = k * F[x]
  BY <1>1, <1>2, <1>3
<1> DEFINE a == F[x]
           r == SumOf(F, t \ {x})
<1>9. a \in Int /\ r \in Int /\ SumOf(F, t) = a + r /\ SumOf(G, t) = k * a + k * r
  BY <1>6, <1>7, <1>8
<1>10. SumOf(G, t) # k * SumOf(F, t)
  BY <1>1
<1> HIDE DEF a, r
<1> QED
  BY <1>9, <1>10

\* What adds nothing need not be counted.
LEMMA TotalZeros ==
    ASSUME NEW T, IsFiniteSet(T), NEW S, S \subseteq T, NEW F,
           \A x \in S : F[x] \in Int, \A x \in T \ S : F[x] = 0
    PROVE  SumOf(F, T) = SumOf(F, S)
<1>1. IsFiniteSet(S) /\ IsFiniteSet(T \ S)
  BY FS_Subset
<1>2. SumOf(F, T \ S) = 0
  <2> DEFINE U == T \ S
  <2>1. IsFiniteSet(U) /\ \A x \in U : F[x] = 0
    BY <1>1
  <2> HIDE DEF U
  <2>2. SumOf(F, U) = Cardinality(U) * 0
    BY <2>1, TotalConst
  <2> QED
    BY <2>1, <2>2, FS_CardinalityType DEF U
<1>3. SumOf(F, S \cup (T \ S)) = SumOf(F, S) + SumOf(F, T \ S)
  <2>1. S \cap (T \ S) = {} /\ \A x \in S \cup (T \ S) : F[x] \in Int
    OBVIOUS
  <2> QED
    BY <1>1, <2>1, TotalSplit
<1>4. SumOf(F, S \cup (T \ S)) = SumOf(F, T)
  <2>1. S \cup (T \ S) = T
    OBVIOUS
  <2> QED
    BY <2>1, Zenon
<1>5. SumOf(F, S) \in Int
  BY <1>1, TotalInt
<1> QED
  BY <1>2, <1>3, <1>4, <1>5

\* The sum over one element.
LEMMA TotalSingle ==
    ASSUME NEW x, NEW F, F[x] \in Int
    PROVE  SumOf(F, {x}) = F[x]
<1>1. IsFiniteSet({x}) /\ \A y \in {x} : F[y] \in Int
  BY FS_Singleton
<1>2. SumOf(F, {x}) = F[x] + SumOf(F, {x} \ {x})
  BY <1>1, TotalOne
<1>3. {x} \ {x} = {}
  OBVIOUS
<1> QED
  BY <1>2, <1>3, TotalNone

\* The same summands under other names.
LEMMA TotalRenamed ==
    ASSUME NEW S, IsFiniteSet(S), NEW F, \A x \in S : F[x] \in Int,
           NEW Q, IsFiniteSet(Q), NEW H, NEW whom, NEW back,
           \A x \in S : whom[x] \in Q /\ back[whom[x]] = x,
           \A y \in Q : back[y] \in S /\ whom[back[y]] = y /\ H[y] = F[back[y]]
    PROVE  SumOf(H, Q) = SumOf(F, S)
<1>1. \A y \in Q : Givers(S, whom, {y}) = {back[y]}
  BY DEF Givers
<1>2. Shares(S, F, whom, Q, H)
  <2>1. \A y \in Q : SumOf(F, {back[y]}) = F[back[y]]
    BY TotalSingle
  <2> QED
    BY <1>1, <2>1 DEF Shares
<1>3. Givers(S, whom, Q) = S
  BY DEF Givers
<1> QED
  BY <1>2, <1>3, TotalShared
=============================================================================
