------------------------ MODULE MarketInventoryProofs ------------------------
(***************************************************************************)
(* Theorems about Market and about Inventory for any number of characters, *)
(* items, slots, rows and calls that run at the same time.  The two models *)
(* have nothing to do with each other; their proofs share the lemmas about *)
(* sums over finite sets, by which gold and items are counted.             *)
(*                                                                         *)
(* Inventory: the variables keep their types (BagTyping); no item is lost  *)
(* in a restart or hides another (BagsAreKept); what moves items neither   *)
(* makes nor loses any (MovesLoseNothing).  BagIsKept looks only at slots  *)
(* that no call has in its hand and says nothing of what waiting calls     *)
(* know; inductive is Kept.  As long as it is not torn, every call's hand  *)
(* and copies fit the slots and the rows (CallFits), slots in no hand are  *)
(* blank or what their rows say, no slot is in two hands, no id in two     *)
(* slots but for the part that a split has not inserted, and ids that are  *)
(* yet to come have no row (Whole); and as long as no item strayed either, *)
(* the owner of a row says where it is, every row that the character loads *)
(* is shown, and the rows of others are in slots of their own (Owned).     *)
(*                                                                         *)
(* Market: the variables keep their types, also when calls meet, nobody's  *)
(* gold goes below zero (NoDebt), and neither goods nor gold are doubled   *)
(* or lost in sales, but for an item in whose slot a purchase puts another *)
(* (SalesBalance).                                                         *)
(*                                                                         *)
(* NoDebt is not inductive.  What makes it so is that a character has at   *)
(* most one call under way that will spend gold, and still has the gold    *)
(* which that call looked at (Thrift).                                     *)
(*                                                                         *)
(* Neither are the goods of SalesBalance.  As long as no two calls have    *)
(* met, calls have places and rows of their own (Apart), what they know is *)
(* still so (CallsFit), an item is in two places only if these are those   *)
(* of one purchase (ItemsFit), and the shelf is what the rows that are not *)
(* sold say (StoreFits).  Of the gold every step moves one purse, one call *)
(* and one row at most, in amounts that cancel out: lemmas about SumOf say *)
(* that a sum changes by what one of its numbers does.                     *)
(***************************************************************************)
EXTENDS Market, Inventory, FiniteSetTheorems, WellFoundedInduction, TLAPS
-----------------------------------------------------------------------------
(* Sums *)

\* The element that the fold takes from a set, and the function that sums over subsets.
First(s) == CHOOSE x \in s : TRUE
IsSum(S, f, it) ==
  it = [s \in SUBSET S |-> IF s = {} THEN 0 ELSE f[First(s)] + it[s \ {First(s)}]]

\* A sum is what such a function gives for the whole set.
LEMMA SumIs ==
  ASSUME NEW S, NEW f
  PROVE  SumOf(S, f) = (CHOOSE it : IsSum(S, f, it))[S]
  BY DEF SumOf, MapThenSumSet, MapThenFoldSet, IsSum, First

\* Among subsets of a finite set there is a least one: induction over them.
LEMMA LeastSubset ==
  ASSUME NEW S, IsFiniteSet(S), NEW X \in SUBSET (SUBSET S), X # {}
  PROVE  \E m \in X : \A s \in SUBSET m : s # m => s \notin X
<1>1. X \subseteq FiniteSubsetsOf(S)
  BY FS_FiniteSubsetsOfFinite
<1>2. PICK m \in X : \A s \in X : <<s, m>> \notin StrictSubsetOrdering(S)
  BY <1>1, FS_StrictSubsetOrderingWellFounded, WFMin, Zenon
<1>3. ASSUME NEW s \in SUBSET m, s # m, s \in X PROVE FALSE
  <2>1. <<s, m>> \in StrictSubsetOrdering(S)
    BY <1>3 DEF StrictSubsetOrdering
  <2> QED
    BY <1>2, <1>3, <2>1
<1> QED
  BY <1>3

\* The element taken first is one of the set.
LEMMA FirstIn ==
  ASSUME NEW s, s # {}
  PROVE  First(s) \in s
  BY DEF First

\* Functions that sum agree where what they sum does.
LEMMA SumsAgree ==
  ASSUME NEW S, NEW T, IsFiniteSet(T), T \subseteq S, NEW f, NEW g, NEW it, NEW jt,
         IsSum(S, f, it), IsSum(T, g, jt), \A x \in T : f[x] = g[x]
  PROVE  \A s \in SUBSET T : it[s] = jt[s]
<1> DEFINE X == {s \in SUBSET T : it[s] # jt[s]}
<1> SUFFICES ASSUME X # {} PROVE FALSE
  OBVIOUS
<1>0. X \in SUBSET (SUBSET T) /\ IsFiniteSet(T)
  OBVIOUS
<1>1. PICK m \in X : \A s \in SUBSET m : s # m => s \notin X
  <2> HIDE DEF X
  <2> QED
    BY <1>0, LeastSubset
<1>2. /\ it[m] = IF m = {} THEN 0 ELSE f[First(m)] + it[m \ {First(m)}]
      /\ jt[m] = IF m = {} THEN 0 ELSE g[First(m)] + jt[m \ {First(m)}]
  BY <1>1 DEF IsSum
<1>3. m # {} /\ First(m) \in m /\ First(m) \in T
  BY <1>1, <1>2, FirstIn
<1>4. it[m \ {First(m)}] = jt[m \ {First(m)}]
  BY <1>1, <1>3
<1> QED
  BY <1>1, <1>2, <1>3, <1>4

\* A function that sums over subsets gives the sum of each.
LEMMA SumPart ==
  ASSUME NEW S, IsFiniteSet(S), NEW f, NEW it, IsSum(S, f, it), NEW T \in SUBSET S
  PROVE  SumOf(T, f) = it[T]
<1> DEFINE jt == CHOOSE i : IsSum(T, f, i)
           kt == [s \in SUBSET T |-> it[s]]
<1>1. IsFiniteSet(T)
  BY FS_Subset
<1>2. IsSum(T, f, kt)
  <2>1. \A s \in SUBSET T : it[s] = IF s = {} THEN 0 ELSE f[First(s)] + it[s \ {First(s)}]
    BY DEF IsSum
  <2>2. \A s \in SUBSET T : s \ {First(s)} \in SUBSET T
    OBVIOUS
  <2> QED
    BY <2>1, <2>2 DEF IsSum
<1>3. IsSum(T, f, jt)
  <2> HIDE DEF kt
  <2> QED
    BY <1>2
<1>4. jt[T] = it[T]
  <2>1. T \subseteq S /\ T \in SUBSET T /\ \A x \in T : f[x] = f[x]
    OBVIOUS
  <2>2. \A s \in SUBSET T : it[s] = jt[s]
    <3>1. PICK lt : lt = jt
      OBVIOUS
    <3>2. IsSum(T, f, lt) /\ IsSum(S, f, it)
      <4> HIDE DEF jt
      <4> QED
        BY <1>3, <3>1
    <3>3. \A s \in SUBSET T : it[s] = lt[s]
      <4> HIDE DEF jt, kt
      <4> QED
        BY <1>1, <3>2, <2>1, SumsAgree
    <3> HIDE DEF jt
    <3> QED
      BY <3>1, <3>3
  <2> QED
    BY <2>1, <2>2
<1> QED
  BY <1>4, SumIs

\* There is a function that sums over the subsets of a finite set.
LEMMA SumExists ==
  ASSUME NEW S, IsFiniteSet(S), NEW f
  PROVE  \E it : IsSum(S, f, it)
<1> DEFINE X == {s \in SUBSET S : \A it : ~IsSum(s, f, it)}
<1> SUFFICES ASSUME X # {} PROVE FALSE
  OBVIOUS
<1>0. X \in SUBSET (SUBSET S)
  OBVIOUS
<1>1. PICK m \in X : \A s \in SUBSET m : s # m => s \notin X
  <2> HIDE DEF X
  <2> QED
    BY <1>0, LeastSubset
<1> DEFINE rest(s) == s \ {First(s)}
           sum(s) == IF s = {} THEN 0 ELSE f[First(s)] + SumOf(rest(s), f)
           h == [s \in SUBSET m |-> sum(s)]
<1>2. ASSUME NEW s \in SUBSET m, s # m PROVE SumOf(s, f) = sum(s)
  <2>1. IsFiniteSet(s)
    BY <1>1, FS_Subset
  <2>2. PICK it : IsSum(s, f, it)
    BY <1>1, <1>2
  <2>3. SumOf(s, f) = it[s] /\ SumOf(rest(s), f) = it[rest(s)]
    BY <2>1, <2>2, SumPart
  <2>4. it[s] = IF s = {} THEN 0 ELSE f[First(s)] + it[rest(s)]
    BY <2>2 DEF IsSum
  <2> QED
    BY <2>3, <2>4
<1>3. ASSUME NEW s \in SUBSET m PROVE h[s] = IF s = {} THEN 0 ELSE f[First(s)] + h[rest(s)]
  <2>1. CASE s # {}
    <3>1. rest(s) \in SUBSET m /\ rest(s) # m
      BY <2>1, FirstIn
    <3>2. h[rest(s)] = SumOf(rest(s), f)
      <4> HIDE DEF rest
      <4> QED
        BY <1>2, <3>1
    <3> QED
      BY <2>1, <3>2
  <2>2. CASE s = {}
    BY <2>2
  <2> QED
    BY <2>1, <2>2
<1>4. IsSum(m, f, h)
  <2>1. h = [s \in SUBSET m |-> h[s]]
    OBVIOUS
  <2>2. h = [s \in SUBSET m |-> IF s = {} THEN 0 ELSE f[First(s)] + h[s \ {First(s)}]]
    <3> HIDE DEF h
    <3> QED
      BY <1>3, <2>1 DEF rest
  <2> HIDE DEF h
  <2> QED
    BY <2>2 DEF IsSum
<1> QED
  <2> HIDE DEF h
  <2> QED
    BY <1>1, <1>4

\* A sum over the empty set, and over others by the element taken first.
LEMMA SumFirst ==
  ASSUME NEW S, IsFiniteSet(S), NEW f
  PROVE  SumOf(S, f) = IF S = {} THEN 0 ELSE f[First(S)] + SumOf(S \ {First(S)}, f)
<1>1. PICK it : IsSum(S, f, it)
  BY SumExists
<1>2. SumOf(S, f) = it[S] /\ SumOf(S \ {First(S)}, f) = it[S \ {First(S)}]
  BY <1>1, SumPart
<1> QED
  BY <1>1, <1>2 DEF IsSum

\* Sums of the same numbers are the same.
LEMMA SumSame ==
  ASSUME NEW S, IsFiniteSet(S), NEW f, NEW g, \A x \in S : f[x] = g[x]
  PROVE  SumOf(S, f) = SumOf(S, g)
<1>1. PICK it : IsSum(S, f, it)
  BY SumExists
<1>2. PICK jt : IsSum(S, g, jt)
  BY SumExists
<1>3. it[S] = jt[S]
  <2>1. S \subseteq S /\ S \in SUBSET S
    OBVIOUS
  <2>2. \A s \in SUBSET S : it[s] = jt[s]
    BY <1>1, <1>2, <2>1, SumsAgree
  <2> QED
    BY <2>1, <2>2
<1>4. SumOf(S, f) = it[S] /\ SumOf(S, g) = jt[S]
  BY <1>1, <1>2, SumPart
<1> QED
  BY <1>3, <1>4

\* A sum of numbers is a number.
LEMMA SumInt ==
  ASSUME NEW S, IsFiniteSet(S), NEW f, \A x \in S : f[x] \in Int
  PROVE  SumOf(S, f) \in Int
<1> DEFINE X == {s \in SUBSET S : SumOf(s, f) \notin Int}
<1> SUFFICES ASSUME X # {} PROVE FALSE
  OBVIOUS
<1>0. X \in SUBSET (SUBSET S) /\ IsFiniteSet(S)
  OBVIOUS
<1>1. PICK m \in X : \A s \in SUBSET m : s # m => s \notin X
  <2> HIDE DEF X
  <2> QED
    BY <1>0, LeastSubset
<1>2. SumOf(m, f) = IF m = {} THEN 0 ELSE f[First(m)] + SumOf(m \ {First(m)}, f)
  <2>1. IsFiniteSet(m)
    BY <1>1, FS_Subset
  <2> QED
    BY <2>1, SumFirst
<1>3. m # {} /\ First(m) \in m /\ First(m) \in S
  BY <1>1, <1>2, FirstIn
<1>4. SumOf(m \ {First(m)}, f) \in Int
  BY <1>1, <1>3
<1> QED
  BY <1>1, <1>2, <1>3, <1>4

\* The order in which a sum is made does not matter: any element may be taken out.
LEMMA SumWithout ==
  ASSUME NEW S, IsFiniteSet(S), NEW f, \A x \in S : f[x] \in Int, NEW y \in S
  PROVE  SumOf(S, f) = f[y] + SumOf(S \ {y}, f)
<1> DEFINE X == {s \in SUBSET S : \E z \in s : SumOf(s, f) # f[z] + SumOf(s \ {z}, f)}
<1> SUFFICES ASSUME X # {} PROVE FALSE
  OBVIOUS
<1>0. X \in SUBSET (SUBSET S) /\ IsFiniteSet(S)
  OBVIOUS
<1>1. PICK m \in X : \A s \in SUBSET m : s # m => s \notin X
  <2> HIDE DEF X
  <2> QED
    BY <1>0, LeastSubset
<1>2. PICK z \in m : SumOf(m, f) # f[z] + SumOf(m \ {z}, f)
  BY <1>1
<1> DEFINE x == First(m)
           mx == m \ {x}
           mz == m \ {z}
           mm == m \ {x, z}
<1>3. /\ x \in m /\ x \in S /\ z \in S /\ m \in SUBSET S
      /\ IsFiniteSet(m) /\ IsFiniteSet(mx) /\ IsFiniteSet(mz) /\ IsFiniteSet(mm)
  BY <1>1, <1>2, FirstIn, FS_Subset
<1>b. ASSUME NEW s \in SUBSET m, s # m, NEW w \in s
      PROVE  SumOf(s, f) = f[w] + SumOf(s \ {w}, f)
  BY <1>1, <1>b
<1>4. SumOf(m, f) = f[x] + SumOf(mx, f)
  BY <1>2, <1>3, SumFirst
<1>5. x # z
  BY <1>2, <1>4
<1>6. SumOf(mx, f) = f[z] + SumOf(mm, f)
  <2>1. mx \in SUBSET m /\ mx # m /\ mx \in SUBSET S /\ z \in mx /\ mx \ {z} = mm
    BY <1>2, <1>3, <1>5
  <2> HIDE DEF mx, mm
  <2> QED
    BY <1>b, <2>1
<1>7. SumOf(mz, f) = f[x] + SumOf(mm, f)
  <2>1. mz \in SUBSET m /\ mz # m /\ mz \in SUBSET S /\ x \in mz /\ mz \ {x} = mm
    BY <1>2, <1>3, <1>5
  <2> HIDE DEF mz, mm, x
  <2> QED
    BY <1>b, <2>1
<1>8. f[x] \in Int /\ f[z] \in Int /\ SumOf(mm, f) \in Int
  <2>1. \A w \in mm : f[w] \in Int
    BY <1>3
  <2> HIDE DEF mm, x
  <2> QED
    BY <1>3, <2>1, SumInt
<1> HIDE DEF x, mx, mz, mm
<1> QED
  BY <1>2, <1>4, <1>6, <1>7, <1>8 DEF mz

\* What changes in one place changes the sum by as much.
LEMMA SumChanged ==
  ASSUME NEW S, IsFiniteSet(S), NEW f, NEW g, \A x \in S : f[x] \in Int /\ g[x] \in Int,
         NEW y \in S, \A x \in S : x # y => f[x] = g[x]
  PROVE  SumOf(S, g) = SumOf(S, f) + g[y] - f[y]
<1> DEFINE T == S \ {y}
<1>1. IsFiniteSet(T)
  BY FS_Subset
<1>2. SumOf(S, f) = f[y] + SumOf(T, f) /\ SumOf(S, g) = g[y] + SumOf(T, g)
  BY SumWithout
<1>3. SumOf(T, f) = SumOf(T, g) /\ SumOf(T, f) \in Int
  <2>1. \A x \in T : f[x] = g[x] /\ f[x] \in Int
    OBVIOUS
  <2> HIDE DEF T
  <2> QED
    BY <1>1, <2>1, SumSame, SumInt
<1> HIDE DEF T
<1> QED
  BY <1>2, <1>3

\* What changes in two places, and is as much in both together, leaves the sum alone.
LEMMA SumShifted ==
  ASSUME NEW S, IsFiniteSet(S), NEW f, NEW g, \A x \in S : f[x] \in Int /\ g[x] \in Int,
         NEW y \in S, NEW z \in S, y # z, f[y] + f[z] = g[y] + g[z],
         \A x \in S : x # y /\ x # z => f[x] = g[x]
  PROVE  SumOf(S, g) = SumOf(S, f)
<1>1. PICK h : h = [x \in S |-> IF x = y THEN g[x] ELSE f[x]]
  OBVIOUS
<1>2. /\ \A x \in S : h[x] \in Int /\ (x # y => h[x] = f[x]) /\ (x # z => h[x] = g[x])
      /\ h[y] = g[y] /\ h[z] = f[z]
  BY <1>1
<1>3. SumOf(S, h) = SumOf(S, f) + h[y] - f[y]
  BY <1>2, SumChanged
<1>4. SumOf(S, g) = SumOf(S, h) + g[z] - h[z]
  BY <1>2, SumChanged
<1>5. SumOf(S, f) \in Int
  BY SumInt
<1> QED
  BY <1>2, <1>3, <1>4, <1>5

\* A sum does not depend on which number stands where.
LEMMA SumPermuted ==
  ASSUME NEW S, IsFiniteSet(S), NEW f, NEW g, NEW b \in [S -> S],
         \A x \in S : f[x] \in Int /\ g[x] = f[b[x]],
         \A x, y \in S : x # y => b[x] # b[y],
         \A y \in S : \E x \in S : b[x] = y
  PROVE  SumOf(S, g) = SumOf(S, f)
<1> DEFINE Image(s) == {b[x] : x \in s}
           X == {s \in SUBSET S : SumOf(s, g) # SumOf(Image(s), f)}
<1>0. X \in SUBSET (SUBSET S)
  OBVIOUS
<1>1. ASSUME X # {} PROVE FALSE
  <2>1. PICK m \in X : \A s \in SUBSET m : s # m => s \notin X
    <3> HIDE DEF X
    <3> QED
      BY <1>0, <1>1, LeastSubset
  <2>2. m \in SUBSET S /\ IsFiniteSet(m) /\ SumOf(m, g) # SumOf(Image(m), f)
    BY <2>1, FS_Subset
  <2>3. CASE m = {}
    <3>1. Image(m) = {}
      BY <2>3
    <3> HIDE DEF Image
    <3>2. SumOf(m, g) = 0 /\ SumOf(Image(m), f) = 0
      BY <2>2, <2>3, <3>1, SumFirst
    <3> QED
      BY <2>2, <3>2
  <2>4. ASSUME NEW x \in m PROVE FALSE
    <3>1. SumOf(m \ {x}, g) = SumOf(Image(m \ {x}), f)
      BY <2>1, <2>4
    <3>2. Image(m \ {x}) = Image(m) \ {b[x]} /\ b[x] \in Image(m) /\ Image(m) \in SUBSET S
      BY <2>2, <2>4
    <3>3. IsFiniteSet(Image(m))
      <4> HIDE DEF Image
      <4> QED
        BY <3>2, FS_Subset
    <3>4. \A y \in m : g[y] \in Int
      BY <2>2
    <3>5. \A y \in Image(m) : f[y] \in Int
      <4> HIDE DEF Image
      <4> QED
        BY <3>2
    <3>6. SumOf(m, g) = g[x] + SumOf(m \ {x}, g)
      BY <2>2, <2>4, <3>4, SumWithout
    <3>7. SumOf(Image(m), f) = f[b[x]] + SumOf(Image(m) \ {b[x]}, f)
      <4> HIDE DEF Image
      <4> QED
        BY <3>2, <3>3, <3>5, SumWithout
    <3>8. g[x] = f[b[x]]
      BY <2>2, <2>4
    <3> HIDE DEF Image
    <3> QED
      BY <2>2, <3>1, <3>2, <3>6, <3>7, <3>8
  <2> QED
    BY <2>3, <2>4
<1>2. SumOf(S, g) = SumOf(Image(S), f)
  BY <1>1
<1>3. Image(S) = S
  OBVIOUS
<1> QED
  BY <1>2, <1>3

\* A sum of equal numbers is a product.
LEMMA SumEqual ==
  ASSUME NEW S, IsFiniteSet(S), NEW f, NEW n \in Int, \A x \in S : f[x] = n
  PROVE  SumOf(S, f) = Cardinality(S) * n
<1> DEFINE X == {s \in SUBSET S : SumOf(s, f) # Cardinality(s) * n}
<1> SUFFICES ASSUME X # {} PROVE FALSE
  OBVIOUS
<1>0. X \in SUBSET (SUBSET S)
  OBVIOUS
<1>1. PICK m \in X : \A s \in SUBSET m : s # m => s \notin X
  <2> HIDE DEF X
  <2> QED
    BY <1>0, LeastSubset
<1>2. IsFiniteSet(m) /\ SumOf(m, f) # Cardinality(m) * n
  BY <1>1, FS_Subset
<1>3. SumOf(m, f) = IF m = {} THEN 0 ELSE f[First(m)] + SumOf(m \ {First(m)}, f)
  BY <1>2, SumFirst
<1>4. CASE m = {}
  <2>1. Cardinality(m) = 0
    BY <1>4, FS_EmptySet
  <2> QED
    BY <1>2, <1>3, <1>4, <2>1
<1>5. CASE m # {}
  <2>1. PICK x \in m : x = First(m)
    BY <1>5, FirstIn
  <2>2. f[x] = n
    BY <1>1
  <2>3. SumOf(m \ {x}, f) = Cardinality(m \ {x}) * n
    BY <1>1
  <2>4. PICK a \in Nat : a = Cardinality(m \ {x}) /\ Cardinality(m) = a + 1
    <3>1. IsFiniteSet(m \ {x}) /\ Cardinality(m \ {x}) = Cardinality(m) - 1
      BY <1>2, FS_RemoveElement
    <3>2. Cardinality(m) \in Nat /\ Cardinality(m \ {x}) \in Nat
      BY <1>2, <3>1, FS_CardinalityType
    <3> QED
      BY <3>1, <3>2
  <2>5. (a + 1) * n = n + a * n
    OBVIOUS
  <2> QED
    BY <1>2, <1>3, <1>5, <2>1, <2>2, <2>3, <2>4, <2>5
<1> QED
  BY <1>4, <1>5

-----------------------------------------------------------------------------
(* Inventory *)

\* A set of numbers has a least one.
LEMMA LeastNumber ==
  ASSUME NEW T \in SUBSET Nat, T # {}
  PROVE  \E x \in T : \A y \in T : x <= y
<1> DEFINE B == {1..n : n \in T}
<1>1. B \subseteq FiniteSubsetsOf(Nat) /\ B # {}
  <2>1. \A n \in T : IsFiniteSet(1..n) /\ (1..n) \in SUBSET Nat
    BY FS_Interval
  <2> QED BY <2>1 DEF FiniteSubsetsOf
<1>2. PICK b \in B : \A c \in B : <<c, b>> \notin StrictSubsetOrdering(Nat)
  BY <1>1, FS_StrictSubsetOrderingWellFounded, WFMin, Zenon
<1>3. PICK x \in T : b = 1..x
  OBVIOUS
<1>4. ASSUME NEW y \in T, y < x PROVE FALSE
  <2>1. (1..y) \in SUBSET (1..x) /\ x \in (1..x) \ (1..y)
    BY <1>4
  <2>2. <<1..y, b>> \in StrictSubsetOrdering(Nat)
    BY <1>3, <2>1 DEF StrictSubsetOrdering
  <2> QED BY <1>2, <2>2
<1> QED BY <1>4

\* The smallest number of a set is one of it.
LEMMA MinIn ==
  ASSUME NEW T \in SUBSET Nat, T # {}
  PROVE  Min(T) \in T
<1>1. PICK x \in T : \A y \in T : x <= y
  BY LeastNumber
<1> QED BY <1>1 DEF Min

-----------------------------------------------------------------------------
(* Types *)

\* The calls that wait for the database and what they know; the types of the variables,
\* with the copies that are held of just the slots in hand.
Ops == {"idle", "add", "split", "empty", "delete", "blank", "combine", "arrange"}
CallRecs ==
  [op : Ops, hand : SUBSET AllSlots, todo : SUBSET AllSlots,
   held : {<<>>} \cup UNION {[h -> SlotRecs] : h \in SUBSET AllSlots}]
Types ==
  /\ BagTypeOK
  /\ calls \in [Workers -> CallRecs]
  /\ \A w \in Workers : calls[w].op \in {"add", "split", "arrange"} =>
                          calls[w].held \in [calls[w].hand -> SlotRecs]

\* What is done with a slot's record leaves one.
LEMMA RecTypes ==
  /\ NewSlot \in SlotRecs /\ AtRest \in CallRecs
  /\ \A r \in SlotRecs : /\ r.id \in 0..MaxRow /\ r.kind \in Kinds \cup {0}
                         /\ r.qty \in 0..MaxQty /\ r.owner \in Owners \cup {Null}
  /\ \A r \in SlotRecs, q \in 0..MaxQty : [r EXCEPT !.qty = q] \in SlotRecs
  /\ \A r \in SlotRecs, o \in Owners \cup {Null} : [r EXCEPT !.owner = o] \in SlotRecs
  /\ \A r \in SlotRecs, n \in 0..MaxRow : [r EXCEPT !.id = n] \in SlotRecs
  /\ \A r \in SlotRecs, s \in AllSlots : RowAt(s, r) \in RowRecs
  BY InventoryAssumption DEF NewSlot, SlotRecs, AtRest, CallRecs, Ops, RowAt, RowRecs, AllSlots

\* Updating and deleting leave rows.
LEMMA TableTypes ==
  ASSUME NEW table \in [RowIds -> RowRecs \cup {Null}], NEW s \in AllSlots, NEW r \in SlotRecs
  PROVE  /\ Update(table, s, r) \in [RowIds -> RowRecs \cup {Null}]
         /\ Delete(table, r) \in [RowIds -> RowRecs \cup {Null}]
<1>1. RowAt(s, r) \in RowRecs
  BY RecTypes
<1> QED BY <1>1 DEF Update, Delete

\* A call that begins takes a worker that is idle.
LEMMA BeginsOne ==
  ASSUME Types, NEW op, NEW hand, NEW held, NEW todo, Begins(op, hand, held, todo)
  PROVE  \E w \in Workers :
           /\ calls[w] = AtRest
           /\ calls' = [calls EXCEPT ![w] = [op |-> op, hand |-> hand, held |-> held, todo |-> todo]]
<1> DEFINE idle == {w \in Workers : calls[w] = AtRest}
<1>1. idle \in SUBSET Nat
  BY InventoryAssumption DEF Workers
<1>2. idle # {} /\ calls' = [calls EXCEPT ![Min(idle)] = [op |-> op, hand |-> hand, held |-> held, todo |-> todo]]
  BY DEF Begins
<1>3. Min(idle) \in idle
  <2> HIDE DEF idle
  <2> QED BY <1>1, <1>2, MinIn
<1> QED BY <1>2, <1>3

\* What the calls keep when one begins, or ends.
WaitsOK ==
  /\ calls \in [Workers -> CallRecs]
  /\ \A w \in Workers :
       /\ calls[w].op \in {"add", "split", "arrange"} => calls[w].held \in [calls[w].hand -> SlotRecs]
       /\ calls[w].todo \subseteq calls[w].hand
       /\ calls[w].held = <<>> \/ calls[w].held \in [calls[w].hand -> SlotRecs]
\* The types of the other variables.
RestOK ==
  /\ char \in Owners
  /\ slot \in [AllSlots -> SlotRecs]
  /\ rows \in [RowIds -> RowRecs \cup {Null}]
  /\ inserted \in 0..MaxRow
  /\ lock \in {"free", "busy", "timer", "jam"}
  /\ arranging \subseteq Parts
  /\ torn \in BOOLEAN /\ strayed \in BOOLEAN

\* These are the parts of Types.
LEMMA TypesParts == Types <=> WaitsOK /\ RestOK
<1>1. ASSUME WaitsOK, RestOK PROVE Types
  <2>1. \A w \in Workers : /\ calls[w].op \in Ops /\ calls[w].hand \subseteq AllSlots
    BY <1>1 DEF WaitsOK, CallRecs
  <2> QED BY <1>1, <2>1 DEF WaitsOK, RestOK, Types, BagTypeOK, Ops
<1> QED BY <1>1 DEF WaitsOK, RestOK, Types, BagTypeOK

\* A call that begins to wait leaves the calls their types.
LEMMA BeginsTypes ==
  ASSUME Types, NEW op \in Ops, NEW hand \in SUBSET AllSlots, NEW held, NEW todo \in SUBSET hand,
         Begins(op, hand, held, todo), held \in [hand -> SlotRecs] \/ (held = <<>> /\ op \notin {"add", "split", "arrange"})
  PROVE  WaitsOK'
<1>1. PICK w \in Workers :
           /\ calls[w] = AtRest
           /\ calls' = [calls EXCEPT ![w] = [op |-> op, hand |-> hand, held |-> held, todo |-> todo]]
  BY BeginsOne
<1>2. [op |-> op, hand |-> hand, held |-> held, todo |-> todo] \in CallRecs
  BY DEF CallRecs
<1>3. WaitsOK
  BY TypesParts
<1>4. calls' \in [Workers -> CallRecs]
  BY <1>1, <1>2, <1>3 DEF WaitsOK
<1>5. \A v \in Workers : calls'[v] = IF v = w THEN [op |-> op, hand |-> hand, held |-> held, todo |-> todo] ELSE calls[v]
  BY <1>1, <1>3 DEF WaitsOK
<1> QED BY <1>3, <1>4, <1>5 DEF WaitsOK

\* So does one that ends.
LEMMA EndsTypes ==
  ASSUME Types, NEW w \in Workers, Ends(w)
  PROVE  WaitsOK'
<1>1. AtRest \in CallRecs
  BY RecTypes
<1>2. WaitsOK
  BY TypesParts
<1> QED BY <1>1, <1>2 DEF WaitsOK, Ends, AtRest

\* An action of Inventory (a disjunct of BagNext), for the case splits below.
BagStep ==
  \/ \E s, t \in AllSlots : ReplaceItem(s, t) \/ SwapItems(s, t) \/ CombineItems(s, t)
  \/ \E s, t \in AllSlots, n \in 1..MaxQty : SplitItem(s, t, n)
  \/ \E k \in Kinds : AddItem(k)
  \/ \E s \in AllSlots : RemoveItem(s) \/ DecrementItem(s)
  \/ \E w \in Workers : \/ FinishInsert(w) \/ DeleteItemRow(w) \/ FinishRemove(w) \/ EmptySlot(w)
                        \/ SaveCopy(w) \/ FinishArrange(w)
  \/ SwapRefused \/ Unlock
  \/ \E p \in Parts : BeginArrange(p) \/ CoolDown(p)
  \/ \E c \in Owners : LoadAgain(c) \/ Crash(c)

\* Every step of BagNext is one of these.
LEMMA NextIsBagStep == BagNext => BagStep
  BY DEF BagNext, BagStep, Moving, ArrangeBag, ArrangeBank, Parts

\* Of rows in some order there is a last one.
LEMMA LastRow ==
  ASSUME NEW order \in Bijection(RowIds, RowIds), NEW set \in SUBSET RowIds, set # {}
  PROVE  \E n \in set : \A m \in set : order[m] <= order[n]
<1> DEFINE Before(n) == MaxRow - order[n]
           T == {Before(n) : n \in set}
<1>1. \A n \in set : order[n] \in 1..MaxRow
  BY DEF Bijection, Injection, RowIds
<1>2. \A n \in set : Before(n) \in Nat
  BY <1>1, InventoryAssumption
<1>3. T \in SUBSET Nat /\ T # {}
  <2> HIDE DEF Before
  <2> QED BY <1>2
<1>4. PICK x \in T : \A y \in T : x <= y
  <2> HIDE DEF T
  <2> QED BY <1>3, LeastNumber
<1>5. PICK n \in set : x = Before(n)
  OBVIOUS
<1>6. \A m \in set : Before(n) <= Before(m)
  <2> HIDE DEF Before
  <2> QED BY <1>4, <1>5 <1> QED BY <1>1, <1>6, InventoryAssumption

\* What is loaded are slots.
LEMMA LoadTypes ==
  ASSUME Types, NEW c \in Owners, NEW order \in Bijection(RowIds, RowIds)
  PROVE  InventorySlots(c, order) \in [AllSlots -> SlotRecs]
<1> DEFINE Last(set) == CHOOSE n \in set : \A m \in set : order[m] <= order[n]
<1>1. ASSUME NEW set \in SUBSET RowIds, set # {} PROVE Last(set) \in set
  <2>1. PICK n \in set : \A m \in set : order[m] <= order[n]
    BY <1>1, LastRow
  <2> QED BY <2>1
<1>2. \A n \in RowIds : rows[n] # Null => FromRow(n) \in SlotRecs
  BY InventoryAssumption DEF Types, BagTypeOK, FromRow, RowRecs, SlotRecs, RowIds
<1>3. ASSUME NEW s \in AllSlots PROVE InventorySlots(c, order)[s] \in SlotRecs
  <2> DEFINE found == {n \in RowIds : Loads(c, n) /\ rows[n].at = s}
             shared == {n \in found : rows[n].owner = Null}
  <2>1. InventorySlots(c, order)[s] = IF found = {} THEN NewSlot
          ELSE IF shared = {} THEN FromRow(Last(found)) ELSE FromRow(Last(shared))
    BY DEF InventorySlots
  <2>2. \A n \in found : FromRow(n) \in SlotRecs
    BY <1>2 DEF Loads
  <2>3. found \in SUBSET RowIds /\ shared \in SUBSET RowIds /\ shared \subseteq found
    OBVIOUS
  <2>4. NewSlot \in SlotRecs
    BY RecTypes
  <2> HIDE DEF found, shared, Last
  <2> QED BY <1>1, <2>1, <2>2, <2>3, <2>4
<1> QED BY <1>3 DEF InventorySlots

\* Every step keeps the types.
LEMMA TypesStep == Types /\ [BagNext]_bagVars => Types'
<1> SUFFICES ASSUME Types, [BagNext]_bagVars PROVE Types'
  OBVIOUS
<1>t. WaitsOK /\ RestOK
  BY TypesParts
<1>q. WaitsOK' /\ RestOK' => Types'
  BY TypesParts, PTL
<1>0. CASE bagVars' = bagVars
  BY <1>0, <1>t, <1>q DEF WaitsOK, RestOK, bagVars
<1>1. ASSUME NEW s \in AllSlots, NEW t \in AllSlots, ReplaceItem(s, t) PROVE Types'
  <2> DEFINE item == [slot[s] EXCEPT !.owner = OwnerAt(s, t)]
  <2>1. item \in SlotRecs /\ NewSlot \in SlotRecs
    <3>1. slot[s] \in SlotRecs /\ OwnerAt(s, t) \in Owners \cup {Null}
      BY <1>t, RecTypes DEF OwnerAt, RestOK
    <3> QED BY <3>1, RecTypes
  <2>2. /\ slot' = [slot EXCEPT ![t] = item, ![s] = NewSlot] /\ rows' = Update(rows, t, item)
        /\ UNCHANGED <<char, inserted, lock, calls, arranging, strayed>> /\ torn' \in BOOLEAN
    BY <1>1 DEF ReplaceItem, Touches
  <2>3. rows' \in [RowIds -> RowRecs \cup {Null}]
    BY <1>t, <2>1, <2>2, TableTypes DEF RestOK
  <2> HIDE DEF item
  <2> QED BY <1>t, <1>q, <2>1, <2>2, <2>3 DEF WaitsOK, RestOK
<1>2. ASSUME NEW s \in AllSlots, NEW t \in AllSlots, SwapItems(s, t) PROVE Types'
  <2>1. slot[s] \in SlotRecs /\ slot[t] \in SlotRecs
    BY <1>t DEF RestOK
  <2>2. Update(rows, s, slot[t]) \in [RowIds -> RowRecs \cup {Null}]
    BY <1>t, <2>1, TableTypes DEF RestOK
  <2>3. rows' \in [RowIds -> RowRecs \cup {Null}]
    BY <1>2, <2>1, <2>2, TableTypes DEF SwapItems
  <2> QED BY <1>2, <1>t, <1>q, <2>1, <2>3 DEF WaitsOK, RestOK, SwapItems, Touches, Crosses
<1>3. ASSUME NEW s \in AllSlots, NEW t \in AllSlots, CombineItems(s, t) PROVE Types'
  <2> DEFINE item == [slot[t] EXCEPT !.qty = @ + slot[s].qty]
  <2>1. slot[s] \in SlotRecs /\ slot[t] \in SlotRecs /\ NewSlot \in SlotRecs
    BY <1>t, RecTypes DEF RestOK
  <2>2. slot[t].qty + slot[s].qty \in 0..MaxQty
    BY <1>3, <2>1, RecTypes, InventoryAssumption DEF CombineItems
  <2>3. item \in SlotRecs
    BY <2>1, <2>2, RecTypes
  <2>4. /\ slot' = [slot EXCEPT ![t] = item]
        /\ rows' = Delete(Update(rows, t, item), slot[s])
        /\ Begins("combine", {s}, <<>>, {}) /\ lock' = "busy"
        /\ UNCHANGED <<char, inserted, arranging, strayed>> /\ torn' \in BOOLEAN
    BY <1>3 DEF CombineItems, Touches
  <2> HIDE DEF item
  <2>5. Update(rows, t, item) \in [RowIds -> RowRecs \cup {Null}]
    BY <1>t, <2>3, TableTypes DEF RestOK
  <2>6. rows' \in [RowIds -> RowRecs \cup {Null}]
    BY <2>1, <2>4, <2>5, TableTypes
  <2>7. WaitsOK'
    <3>1. {s} \in SUBSET AllSlots /\ "combine" \in Ops
      BY DEF Ops
    <3> QED BY <2>4, <3>1, BeginsTypes
  <2> QED BY <1>t, <1>q, <2>3, <2>4, <2>6, <2>7 DEF RestOK
<1>4. ASSUME NEW s \in AllSlots, NEW t \in AllSlots, NEW n \in 1..MaxQty, SplitItem(s, t, n) PROVE Types'
  <2> DEFINE rest == [slot[s] EXCEPT !.qty = @ - n]
             part == [slot[s] EXCEPT !.qty = n]
  <2>1. slot[s] \in SlotRecs /\ slot[t] \in SlotRecs
    BY <1>t DEF RestOK
  <2>2. n \in 1..slot[s].qty /\ slot[s].qty \in 0..MaxQty /\ MaxQty \in Nat
    BY <1>4, <2>1, RecTypes, InventoryAssumption DEF SplitItem
  <2>3. rest \in SlotRecs /\ part \in SlotRecs
    <3>1. n \in 0..MaxQty /\ slot[s].qty - n \in 0..MaxQty
      BY <2>2
    <3> QED BY <2>1, <3>1, RecTypes
  <2>4. /\ slot' = [slot EXCEPT ![t] = part, ![s] = rest]
        /\ \/ rows' = Delete(rows, slot[s]) /\ Begins("empty", {s, t}, <<>>, {s})
           \/ rows' = Update(rows, s, rest) /\ Begins("split", {t}, [x \in {t} |-> part], {})
        /\ lock' = "busy" /\ torn' \in BOOLEAN /\ strayed' \in BOOLEAN
        /\ UNCHANGED <<char, inserted, arranging>>
    BY <1>4, <1>t DEF SplitItem, Touches, Crosses, RestOK
  <2> HIDE DEF rest, part
  <2>5. WaitsOK'
    <3>1. CASE Begins("split", {t}, [x \in {t} |-> part], {})
      <4>1. PICK held : held = [x \in {t} |-> part]
        OBVIOUS
      <4>2. /\ held \in [{t} -> SlotRecs] /\ {t} \in SUBSET AllSlots /\ "split" \in Ops
            /\ Begins("split", {t}, held, {}) /\ {} \in SUBSET {t}
        BY <2>3, <3>1, <4>1 DEF Ops
      <4> QED BY <4>2, BeginsTypes
    <3>2. CASE Begins("empty", {s, t}, <<>>, {s})
      <4>1. {s, t} \in SUBSET AllSlots /\ "empty" \in Ops /\ {s} \in SUBSET {s, t}
        BY DEF Ops
      <4> QED BY <3>2, <4>1, BeginsTypes
    <3> QED BY <2>4, <3>1, <3>2
  <2>6. rows' \in [RowIds -> RowRecs \cup {Null}]
    BY <2>1, <2>3, <2>4, <1>t, TableTypes DEF RestOK
  <2> QED BY <1>t, <1>q, <2>3, <2>4, <2>5, <2>6 DEF RestOK
<1>5. ASSUME NEW k \in Kinds, AddItem(k) PROVE Types'
  <2> DEFINE s == Min(Target(k))
             item == [id |-> slot[s].id, kind |-> k, owner |-> char,
                      qty |-> IF slot[s].kind = k THEN slot[s].qty + 1 ELSE 1]
  <2>1. s \in AllSlots
    <3>1. Target(k) \in SUBSET AllSlots /\ Target(k) # {} /\ AllSlots \subseteq Nat
      BY <1>5, InventoryAssumption DEF AddItem, Target, FindItem, FindFreeSlots, AllSlots
    <3> HIDE DEF s
    <3>2. Min(Target(k)) \in Target(k)
      BY <3>1, MinIn
    <3> QED BY <3>1, <3>2 DEF s
  <2>2. item \in SlotRecs
    <3>1. slot[s] \in SlotRecs /\ item.qty <= MaxQty /\ char \in Owners
      BY <1>5, <1>t, <2>1 DEF RestOK, AddItem
    <3>2. slot[s].id \in 0..MaxRow /\ slot[s].qty \in 0..MaxQty
      BY <3>1, RecTypes
    <3>3. item.qty \in 0..MaxQty
      BY <3>1, <3>2, InventoryAssumption
    <3> HIDE DEF s
    <3> QED BY <3>1, <3>2, <3>3 DEF SlotRecs
  <2>3. /\ slot' = [slot EXCEPT ![s] = item] /\ torn' \in BOOLEAN
        /\ UNCHANGED <<char, inserted, lock, arranging, strayed>>
        /\ \/ rows' = Update(rows, s, item) /\ UNCHANGED calls
           \/ Begins("add", {s}, [x \in {s} |-> item], {}) /\ UNCHANGED rows
    BY <1>5 DEF AddItem, Touches
  <2> HIDE DEF s, item
  <2>4. WaitsOK'
    <3>1. CASE UNCHANGED calls
      BY <3>1, <1>t DEF WaitsOK
    <3>2. CASE Begins("add", {s}, [x \in {s} |-> item], {})
      <4>1. PICK held : held = [x \in {s} |-> item]
        OBVIOUS
      <4>2. /\ held \in [{s} -> SlotRecs] /\ {s} \in SUBSET AllSlots /\ "add" \in Ops
            /\ Begins("add", {s}, held, {}) /\ {} \in SUBSET {s}
        BY <2>1, <2>2, <3>2, <4>1 DEF Ops
      <4> QED BY <4>2, BeginsTypes
    <3> QED BY <2>3, <3>1, <3>2
  <2>5. rows' \in [RowIds -> RowRecs \cup {Null}]
    BY <1>t, <2>1, <2>2, <2>3, TableTypes DEF RestOK
  <2> QED BY <1>t, <1>q, <2>1, <2>2, <2>3, <2>4, <2>5 DEF RestOK
<1>6. ASSUME NEW s \in AllSlots, RemoveItem(s) PROVE Types'
  <2>1. WaitsOK'
    <3>1. {s} \in SUBSET AllSlots /\ "delete" \in Ops
      BY DEF Ops
    <3>2. Begins("delete", {s}, <<>>, {})
      BY <1>6 DEF RemoveItem
    <3> QED BY <3>1, <3>2, BeginsTypes
  <2> QED BY <1>6, <1>t, <1>q, <2>1 DEF RestOK, RemoveItem, Touches
<1>7. ASSUME NEW s \in AllSlots, DecrementItem(s) PROVE Types'
  <2> DEFINE item == [slot[s] EXCEPT !.qty = @ - 1]
  <2>1. item \in SlotRecs
    <3>1. slot[s] \in SlotRecs /\ slot[s].qty > 0
      BY <1>7, <1>t DEF RestOK, DecrementItem
    <3>2. slot[s].qty - 1 \in 0..MaxQty
      BY <3>1, RecTypes, InventoryAssumption
    <3> QED BY <3>1, <3>2, RecTypes
  <2>2. /\ slot' = [slot EXCEPT ![s] = item] /\ torn' \in BOOLEAN
        /\ UNCHANGED <<char, inserted, lock, arranging, strayed>>
        /\ \/ rows' = Update(rows, s, slot'[s]) /\ UNCHANGED calls
           \/ Begins("delete", {s}, <<>>, {}) /\ UNCHANGED rows
    BY <1>7, <1>t DEF DecrementItem, Touches, RestOK
  <2>3. slot'[s] = item
    BY <2>2, <1>t DEF RestOK
  <2> HIDE DEF item
  <2>4. WaitsOK'
    <3>1. CASE UNCHANGED calls
      BY <3>1, <1>t DEF WaitsOK
    <3>2. CASE Begins("delete", {s}, <<>>, {})
      <4>1. {s} \in SUBSET AllSlots /\ "delete" \in Ops
        BY DEF Ops
      <4> QED BY <3>2, <4>1, BeginsTypes
    <3> QED BY <2>2, <3>1, <3>2
  <2>5. rows' \in [RowIds -> RowRecs \cup {Null}]
    BY <1>t, <2>1, <2>2, <2>3, TableTypes DEF RestOK
  <2> QED BY <1>t, <1>q, <2>1, <2>2, <2>4, <2>5 DEF RestOK
<1>8. ASSUME NEW w \in Workers, FinishInsert(w) PROVE Types'
  <2>1. WaitsOK'
    BY <1>8, EndsTypes DEF FinishInsert
  <2>2. PICK s \in calls[w].hand :
          /\ inserted' = inserted + 1 /\ inserted < MaxRow
          /\ rows' = [rows EXCEPT ![inserted'] = RowAt(s, calls[w].held[s])]
          /\ slot' = [slot EXCEPT ![s].id = inserted']
          /\ lock' \in {lock, "free"} /\ UNCHANGED <<char, arranging, torn, strayed>>
    BY <1>8 DEF FinishInsert
  <2>3. s \in AllSlots /\ calls[w].held[s] \in SlotRecs
    BY <1>8, <1>t DEF WaitsOK, CallRecs, FinishInsert
  <2>4. inserted' \in RowIds /\ inserted' \in 0..MaxRow
    BY <1>t, <2>2, InventoryAssumption DEF RestOK, RowIds
  <2>5. RowAt(s, calls[w].held[s]) \in RowRecs /\ [slot[s] EXCEPT !.id = inserted'] \in SlotRecs
    BY <1>t, <2>3, <2>4, RecTypes DEF RestOK
  <2> QED BY <1>t, <1>q, <2>1, <2>2, <2>3, <2>4, <2>5 DEF RestOK
<1>9. ASSUME NEW w \in Workers, DeleteItemRow(w) PROVE Types'
  <2>1. PICK s \in calls[w].hand : rows' = Delete(rows, slot[s])
    BY <1>9 DEF DeleteItemRow
  <2>2. s \in AllSlots
    BY <1>t DEF WaitsOK, CallRecs
  <2>3. rows' \in [RowIds -> RowRecs \cup {Null}]
    BY <1>t, <2>1, <2>2, TableTypes DEF RestOK
  <2>4. WaitsOK'
    BY <1>9, <1>t DEF WaitsOK, CallRecs, DeleteItemRow, Ops
  <2> QED BY <1>9, <1>t, <1>q, <2>3, <2>4 DEF RestOK, DeleteItemRow
<1>10. ASSUME NEW w \in Workers, FinishRemove(w) PROVE Types'
  <2>1. WaitsOK' /\ NewSlot \in SlotRecs
    BY <1>10, EndsTypes, RecTypes DEF FinishRemove
  <2>2. lock' \in {lock, "free"}
    BY <1>10 DEF FinishRemove
  <2> QED BY <1>10, <1>t, <1>q, <2>1, <2>2 DEF RestOK, FinishRemove
<1>11. ASSUME NEW w \in Workers, SaveCopy(w) PROVE Types'
  <2> DEFINE s == Min(calls[w].todo)
  <2>1. s \in calls[w].todo
    <3>1. calls[w].todo \in SUBSET Nat /\ calls[w].todo # {}
      BY <1>11, <1>t, InventoryAssumption DEF WaitsOK, CallRecs, SaveCopy
    <3>2. Min(calls[w].todo) \in calls[w].todo
      BY <3>1, MinIn
    <3> QED BY <3>2
  <2>2. rows' = Update(rows, s, calls[w].held[s]) /\ calls' = [calls EXCEPT ![w].todo = @ \ {s}]
        /\ calls[w].op = "arrange" /\ UNCHANGED <<char, slot, inserted, lock, arranging, torn, strayed>>
    BY <1>11 DEF SaveCopy
  <2> HIDE DEF s
  <2>3. s \in AllSlots /\ calls[w].held[s] \in SlotRecs
    BY <1>t, <2>1, <2>2 DEF WaitsOK, CallRecs
  <2>4. rows' \in [RowIds -> RowRecs \cup {Null}]
    BY <1>t, <2>2, <2>3, TableTypes DEF RestOK
  <2>5. WaitsOK'
    BY <1>t, <2>2 DEF WaitsOK, CallRecs
  <2> QED BY <1>t, <1>q, <2>2, <2>4, <2>5 DEF RestOK
<1>12. ASSUME NEW w \in Workers, FinishArrange(w) PROVE Types'
  <2>1. WaitsOK'
    BY <1>12, EndsTypes DEF FinishArrange
  <2>2. calls[w].held \in [calls[w].hand -> SlotRecs]
    BY <1>12, <1>t DEF WaitsOK, FinishArrange
  <2> QED BY <1>12, <1>t, <1>q, <2>1, <2>2 DEF RestOK, FinishArrange
<1>13. CASE SwapRefused \/ Unlock
  BY <1>13, <1>t, <1>q DEF WaitsOK, RestOK, SwapRefused, Unlock
<1>14. ASSUME NEW p \in Parts, BeginArrange(p) PROVE Types'
  <2>1. PICK f \in Bijection(p, p) : Begins("arrange", p, [s \in p |-> slot[f[s]]], p)
    BY <1>14 DEF BeginArrange
  <2>2. p \in SUBSET AllSlots /\ f \in [p -> p] /\ "arrange" \in Ops
    BY DEF Parts, AllSlots, Bijection, Injection, Ops
  <2>3. [s \in p |-> slot[f[s]]] \in [p -> SlotRecs] /\ p \in SUBSET p
    BY <1>t, <2>2 DEF RestOK
  <2>4. WaitsOK'
    <3>1. PICK held : held = [s \in p |-> slot[f[s]]]
      OBVIOUS
    <3> QED BY <2>1, <2>2, <2>3, <3>1, BeginsTypes
  <2> QED BY <1>14, <1>t, <1>q, <2>4 DEF RestOK, BeginArrange, Touches
<1>15. ASSUME NEW p \in Parts, CoolDown(p) PROVE Types'
  BY <1>15, <1>t, <1>q DEF WaitsOK, RestOK, CoolDown
<1>16. ASSUME NEW c \in Owners, LoadAgain(c) PROVE Types'
  <2>1. slot' \in [AllSlots -> SlotRecs]
    BY <1>16, LoadTypes DEF LoadAgain
  <2> QED BY <1>16, <1>t, <1>q, <2>1 DEF WaitsOK, RestOK, LoadAgain
<1>17. ASSUME NEW c \in Owners, Crash(c) PROVE Types'
  <2>1. slot' \in [AllSlots -> SlotRecs]
    BY <1>17, LoadTypes DEF Crash
  <2>2. AtRest \in CallRecs /\ calls' = [w \in Workers |-> AtRest]
    BY <1>17, RecTypes DEF Crash
  <2>3. WaitsOK'
    BY <2>2 DEF WaitsOK, AtRest
  <2> QED BY <1>17, <1>t, <1>q, <2>1, <2>3 DEF RestOK, Crash
<1>18. ASSUME NEW w \in Workers, EmptySlot(w) PROVE Types'
  <2>1. PICK h, g : h = calls[w].hand \ calls[w].todo /\ g = [t \in h |-> slot[t]]
    OBVIOUS
  <2>2. h \in SUBSET AllSlots /\ g \in [h -> SlotRecs]
    BY <1>t, <2>1 DEF WaitsOK, CallRecs, RestOK
  <2>3. PICK r : r = [op |-> "split", hand |-> h, held |-> g, todo |-> {}]
    OBVIOUS
  <2>4. calls' = [calls EXCEPT ![w] = r]
    BY <1>18, <2>1, <2>3 DEF EmptySlot
  <2>5. r \in CallRecs
    BY <2>2, <2>3 DEF CallRecs, Ops
  <2>6. \A v \in Workers : calls'[v] = IF v = w THEN r ELSE calls[v]
    BY <1>t, <2>4 DEF WaitsOK
  <2>7. WaitsOK'
    BY <1>t, <2>2, <2>3, <2>4, <2>5, <2>6 DEF WaitsOK
  <2>8. NewSlot \in SlotRecs
    BY RecTypes
  <2> QED BY <1>18, <1>t, <1>q, <2>7, <2>8 DEF RestOK, EmptySlot
<1> QED
  BY <1>0, <1>1, <1>2, <1>3, <1>4, <1>5, <1>6, <1>7, <1>8, <1>9, <1>10, <1>11, <1>12, <1>13,
     <1>14, <1>15, <1>16, <1>17, <1>18, NextIsBagStep DEF BagStep

\* At the start.
LEMMA TypesInit == BagInit => Types
<1> SUFFICES ASSUME BagInit PROVE WaitsOK /\ RestOK
  BY TypesParts
<1>1. NewSlot \in SlotRecs /\ AtRest \in CallRecs
  BY RecTypes
<1>2. WaitsOK
  BY <1>1 DEF BagInit, WaitsOK, AtRest
<1>3. 0 \in 0..MaxRow
  BY InventoryAssumption
<1>4. rows \in [RowIds -> RowRecs \cup {Null}] /\ slot \in [AllSlots -> SlotRecs] /\ arranging \subseteq Parts
  BY <1>1 DEF BagInit
<1> QED BY <1>2, <1>3, <1>4 DEF BagInit, RestOK

-----------------------------------------------------------------------------
(* What is kept *)

\* A slot has a part of a stack that is being split, whose row is not there yet.
PartOf(c) ==
  CASE c.op = "split" -> c.hand
    [] c.op = "empty" -> c.hand \ c.todo
    [] OTHER -> {}
Split(s) == \E w \in Workers : s \in PartOf(calls[w])

\* An item that has a row.
Known(r) == r.kind # 0 /\ r.id # 0

\* What a call that waits has in its hand.
InsertFits(c) ==
  \E s \in AllSlots : /\ c.hand = {s} /\ c.held[s] = slot[s] /\ slot[s].kind # 0
                      /\ c.op = "add" <=> slot[s].id = 0
RemoveFits(c) ==
  \E s \in AllSlots : /\ c.hand = {s} /\ Known(slot[s])
                      /\ c.op = "delete" => rows[slot[s].id] # Null /\ rows[slot[s].id].at = s
                      /\ c.op # "delete" => rows[slot[s].id] = Null
EmptyFits(c) ==
  \E s, t \in AllSlots : /\ s # t /\ c.hand = {s, t} /\ c.todo = {s} /\ Known(slot[t])
                         /\ slot[s].id = slot[t].id /\ rows[slot[s].id] = Null
                         /\ slot[s].qty = 0
ArrangeFits(c) ==
  /\ c.hand \in Parts
  /\ \E f \in Bijection(c.hand, c.hand) : \A s \in c.hand : c.held[s] = slot[f[s]]
  /\ \A s \in c.hand :
       \/ c.held[s] = NewSlot
       \/ /\ Known(c.held[s])
          /\ \E x \in c.hand : /\ rows[c.held[s].id] = RowAt(x, c.held[s])
                               /\ s \notin c.todo => x = s
CallFits(w) ==
  /\ calls[w].op = "idle" => calls[w] = AtRest
  /\ calls[w].op \in {"add", "split"} => InsertFits(calls[w])
  /\ calls[w].op \in {"delete", "blank", "combine"} => RemoveFits(calls[w])
  /\ calls[w].op = "empty" => EmptyFits(calls[w])
  /\ calls[w].op = "arrange" => ArrangeFits(calls[w])

\* A slot in nobody's hand is blank, or what its row says.
SlotFits(s) ==
  \/ slot[s] = NewSlot
  \/ Known(slot[s]) /\ rows[slot[s].id] = RowAt(s, slot[s])

\* No slot is in two hands.
HandsApart == \A v, w \in Workers : v # w => calls[v].hand \cap calls[w].hand = {}

\* An id is in one slot, but for the part that a split has not yet inserted as a row.
IdsApart ==
  \A s, t \in AllSlots : s # t /\ slot[s].id = slot[t].id /\ slot[s].id # 0 => Split(s) \/ Split(t)

\* The database gives every row an id of its own.
FreshIds ==
  /\ \A n \in RowIds : n > inserted => rows[n] = Null
  /\ \A s \in AllSlots : slot[s].id <= inserted

\* Rows are of items, and items are of the character online, or in the bank.
RowsFit ==
  /\ \A n \in RowIds : rows[n] # Null => rows[n].kind # 0
  /\ \A s \in AllSlots : slot[s].kind # 0 => slot[s].owner \in {char, Null}

\* What holds as long as no call met another in a slot.
Whole ==
  /\ \A w \in Workers : CallFits(w)
  /\ \A s \in AllSlots : s \notin InHand => SlotFits(s)
  /\ HandsApart /\ IdsApart /\ FreshIds /\ RowsFit

\* Unless an item got to the bank, or from there, with its character_id: who owns it is
\* where it is, every row that the character loads is in a slot, and so are those of others.
OwnersFit ==
  /\ \A n \in RowIds : rows[n] # Null => (rows[n].owner = Null <=> rows[n].at \in Bank)
  /\ \A s \in AllSlots : slot[s].kind # 0 => (slot[s].owner = Null <=> s \in Bank)
Shown == \A n \in RowIds : Loads(char, n) => \E s \in AllSlots : slot[s].id = n /\ ~Split(s)
OthersApart ==
  \A m, n \in RowIds :
    /\ m # n /\ rows[m] # Null /\ rows[n] # Null
    /\ rows[m].owner = rows[n].owner /\ rows[m].owner \notin {char, Null}
    => rows[m].at # rows[n].at
Owned == OwnersFit /\ Shown /\ OthersApart

\* The invariant.
Kept == ~torn => Whole /\ (~strayed => Owned)

\* The types of what is used below.
LEMMA PartTypes ==
  ASSUME Types
  PROVE  /\ \A s \in AllSlots : /\ slot[s] \in SlotRecs /\ slot[s].id \in 0..MaxRow
                                /\ (slot[s].id # 0 => slot[s].id \in RowIds)
                                /\ slot[s].qty \in 0..MaxQty /\ slot[s].owner \in Owners \cup {Null}
         /\ \A n \in RowIds : rows[n] # Null => rows[n] \in RowRecs
         /\ \A s \in AllSlots, r \in SlotRecs : RowAt(s, r) # Null
         /\ inserted \in Nat /\ RowIds \subseteq Nat
         /\ \A w \in Workers : calls[w] \in CallRecs /\ calls[w].hand \subseteq AllSlots
                               /\ calls[w].op \in Ops /\ calls[w].todo \subseteq calls[w].hand
<1>1. \A s \in AllSlots : slot[s] \in SlotRecs /\ slot[s].id \in 0..MaxRow
                          /\ slot[s].qty \in 0..MaxQty /\ slot[s].owner \in Owners \cup {Null}
  BY RecTypes DEF Types, BagTypeOK
<1>m. MaxRow \in Nat
  BY InventoryAssumption
<1>2. \A s \in AllSlots : slot[s].id # 0 => slot[s].id \in RowIds
  BY <1>1, <1>m DEF RowIds
<1>3. \A s \in AllSlots, r \in SlotRecs : RowAt(s, r) # Null
  BY RecTypes, InventoryAssumption
<1>4. \A w \in Workers : calls[w] \in CallRecs
  BY DEF Types
<1>5. \A w \in Workers : calls[w].hand \subseteq AllSlots /\ calls[w].op \in Ops /\ calls[w].todo \subseteq calls[w].hand
  BY <1>4 DEF Types, BagTypeOK, CallRecs
<1> QED BY <1>1, <1>2, <1>3, <1>4, <1>5, InventoryAssumption DEF Types, BagTypeOK, RowIds

\* The same, named, and so of the next state too.
WellTyped ==
  /\ \A s \in AllSlots : /\ slot[s] \in SlotRecs /\ slot[s].id \in 0..MaxRow
                         /\ (slot[s].id # 0 => slot[s].id \in RowIds)
                         /\ slot[s].qty \in 0..MaxQty /\ slot[s].owner \in Owners \cup {Null}
  /\ \A n \in RowIds : rows[n] # Null => rows[n] \in RowRecs
  /\ inserted \in Nat
  /\ \A w \in Workers : calls[w] \in CallRecs /\ calls[w].hand \subseteq AllSlots

\* After a step, likewise.
LEMMA PartTypesNext == Types' => WellTyped'
<1>1. Types => WellTyped
  BY PartTypes DEF WellTyped
<1> QED BY <1>1, PTL

\* A part is in the hand of its call.
LEMMA PartInHand ==
  ASSUME NEW c
  PROVE  /\ PartOf(c) \subseteq c.hand
         /\ c.op \notin {"split", "empty"} => PartOf(c) = {}
  BY DEF PartOf

\* What a step does that writes slots of S and changes calls of U: others stay, and the rows
\* it writes are new or those of its slots, as are the ids it gives them.
Acts(S, U) ==
  /\ char' = char /\ inserted' >= inserted
  /\ \A x \in AllSlots \ S : slot'[x] = slot[x]
  /\ \A n \in RowIds : \/ rows'[n] = rows[n]
                       \/ n \in (inserted + 1)..inserted'
                       \/ \E x \in S : slot[x].id = n /\ ~Split(x)
  /\ \A n \in RowIds : \/ rows'[n] = rows[n] \/ rows'[n] = Null
                       \/ rows'[n].kind # 0 /\ rows'[n].owner \in {char, Null}
  /\ \A x \in S : \/ slot'[x].id = 0
                  \/ slot'[x].id \in (inserted + 1)..inserted'
                  \/ \E y \in S : slot'[x].id = slot[y].id /\ ~Split(y)
  /\ \A x \in S : slot'[x].kind # 0 => slot'[x].owner \in {char, Null}
  /\ \A w \in Workers \ U : calls'[w] = calls[w] /\ calls[w].hand \cap S = {}
  /\ \A w \in U : calls[w].hand \subseteq S /\ calls'[w].hand \subseteq S
  /\ \A v, w \in U : v = w

\* It leaves alone what other calls have in hand.
LEMMA OthersFit ==
  ASSUME Types, Types', Whole, NEW S \in SUBSET AllSlots, NEW U \in SUBSET Workers, Acts(S, U),
         NEW w \in Workers \ U
  PROVE  CallFits(w)'
<1>1. calls'[w] = calls[w] /\ calls[w].hand \cap S = {} /\ calls[w].hand \subseteq AllSlots
  BY PartTypes DEF Acts
<1>2. \A s \in calls[w].hand : slot'[s] = slot[s]
  BY <1>1 DEF Acts
<1>3. ASSUME NEW s \in calls[w].hand, s \notin PartOf(calls[w]), slot[s].id # 0
      PROVE  rows'[slot[s].id] = rows[slot[s].id]
  <2>1. s \in AllSlots /\ slot[s].id \in RowIds /\ slot[s].id <= inserted /\ inserted \in Nat
    BY <1>1, <1>3, PartTypes DEF Whole, FreshIds
  <2>2. ASSUME NEW x \in S, slot[x].id = slot[s].id, ~Split(x) PROVE FALSE
    <3>1. x # s
      BY <1>1
    <3>2. Split(s)
      BY <1>3, <2>1, <2>2, <3>1 DEF Whole, IdsApart
    <3>3. PICK v \in Workers : s \in PartOf(calls[v])
      BY <3>2 DEF Split
    <3> QED BY <1>3, <3>3, PartInHand DEF Whole, HandsApart
  <2>3. slot[s].id \notin (inserted + 1)..inserted'
    BY <2>1
  <2> QED BY <2>1, <2>2, <2>3 DEF Acts
<1>4. CallFits(w)
  BY DEF Whole
<1>5. calls[w].op \in {"add", "split"} => InsertFits(calls[w])'
  BY <1>1, <1>2, <1>4 DEF CallFits, InsertFits
<1>6. calls[w].op \in {"delete", "blank", "combine"} => RemoveFits(calls[w])'
  <2> SUFFICES ASSUME calls[w].op \in {"delete", "blank", "combine"} PROVE RemoveFits(calls[w])'
    OBVIOUS
  <2>1. PartOf(calls[w]) = {}
    BY PartInHand
  <2> QED BY <1>1, <1>2, <1>3, <1>4, <2>1 DEF CallFits, RemoveFits, Known
<1>8. calls[w].op = "empty" => EmptyFits(calls[w])'
  <2> SUFFICES ASSUME calls[w].op = "empty" PROVE EmptyFits(calls[w])'
    OBVIOUS
  <2>1. PICK s \in AllSlots, t \in AllSlots :
           /\ s # t /\ calls[w].hand = {s, t} /\ calls[w].todo = {s} /\ Known(slot[t])
           /\ slot[s].id = slot[t].id /\ rows[slot[s].id] = Null /\ slot[s].qty = 0
    BY <1>4 DEF CallFits, EmptyFits
  <2>2. s \notin PartOf(calls[w])
    BY <2>1 DEF PartOf
  <2> QED BY <1>1, <1>2, <1>3, <2>1, <2>2 DEF EmptyFits, Known
<1>7. calls[w].op = "arrange" => ArrangeFits(calls[w])'
  <2> SUFFICES ASSUME calls[w].op = "arrange" PROVE ArrangeFits(calls[w])'
    OBVIOUS
  <2>0. PartOf(calls[w]) = {}
    BY PartInHand
  <2>1. ArrangeFits(calls[w])
    BY <1>4 DEF CallFits
  <2>2. PICK f \in Bijection(calls[w].hand, calls[w].hand) :
             \A s \in calls[w].hand : calls[w].held[s] = slot[f[s]]
    BY <2>1 DEF ArrangeFits
  <2>3. \A s \in calls[w].hand : f[s] \in calls[w].hand
    BY DEF Bijection, Injection
  <2>4. \A s \in calls[w].hand : calls[w].held[s] = slot'[f[s]]
    BY <1>2, <2>2, <2>3
  <2>5. \A s \in calls[w].hand : Known(calls[w].held[s]) =>
             rows'[calls[w].held[s].id] = rows[calls[w].held[s].id]
    BY <1>3, <2>0, <2>2, <2>3 DEF Known
  <2> QED BY <1>1, <2>1, <2>4, <2>5 DEF ArrangeFits
<1> QED BY <1>1, <1>4, <1>5, <1>6, <1>7, <1>8 DEF CallFits

\* It leaves alone the other slots.
LEMMA OtherSlots ==
  ASSUME Types, Types', Whole, NEW S \in SUBSET AllSlots, NEW U \in SUBSET Workers, Acts(S, U),
         NEW s \in AllSlots \ S, s \notin InHand
  PROVE  SlotFits(s)'
<1>1. slot'[s] = slot[s] /\ SlotFits(s)
  BY DEF Acts, Whole
<1>2. ASSUME Known(slot[s]) PROVE rows'[slot[s].id] = rows[slot[s].id]
  <2>1. slot[s].id \in RowIds /\ slot[s].id <= inserted /\ inserted \in Nat
    BY <1>2, PartTypes DEF Whole, FreshIds, Known
  <2>2. ASSUME NEW x \in S, slot[x].id = slot[s].id, ~Split(x) PROVE FALSE
    <3>1. Split(s)
      BY <1>2, <2>2 DEF Whole, IdsApart, Known
    <3> QED BY <3>1, PartInHand DEF Split, InHand
  <2>3. slot[s].id \notin (inserted + 1)..inserted'
    BY <2>1
  <2> QED BY <2>1, <2>2, <2>3 DEF Acts
<1> QED BY <1>1, <1>2 DEF SlotFits, Known

\* What such a step has to do itself for Whole to be kept.
LEMMA ActsWhole ==
  ASSUME Types, Types', Whole, NEW S \in SUBSET AllSlots, NEW U \in SUBSET Workers, Acts(S, U),
         \A w \in U : CallFits(w)',
         \A s \in S : s \notin InHand' => SlotFits(s)',
         \A s, t \in S : s # t /\ slot'[s].id = slot'[t].id /\ slot'[s].id # 0 => Split(s)' \/ Split(t)'
  PROVE  Whole'
<1>1. \A w \in Workers : CallFits(w)'
  BY OthersFit
<1>2. ASSUME NEW s \in AllSlots, s \notin InHand' PROVE SlotFits(s)'
  <2>1. CASE s \in S
    BY <1>2, <2>1
  <2>2. CASE s \notin S
    <3>1. s \notin InHand
      BY <1>2, <2>2 DEF InHand, Acts
    <3> QED BY <2>2, <3>1, OtherSlots
  <2> QED BY <2>1, <2>2
<1>3. HandsApart'
  BY DEF Whole, HandsApart, Acts
<1>4. ASSUME NEW s \in S, NEW t \in AllSlots \ S, slot'[s].id = slot'[t].id, slot'[s].id # 0 PROVE Split(t)'
  <2>1. slot'[t] = slot[t] /\ slot[t].id <= inserted /\ slot[t].id \in 0..MaxRow /\ inserted \in Nat
    BY PartTypes DEF Acts, Whole, FreshIds
  <2>2. slot'[s].id \notin (inserted + 1)..inserted'
    BY <1>4, <2>1
  <2>3. PICK y \in S : slot'[s].id = slot[y].id /\ ~Split(y)
    BY <1>4, <2>2 DEF Acts
  <2>4. Split(t)
    BY <1>4, <2>1, <2>3 DEF Whole, IdsApart
  <2>5. PICK w \in Workers : t \in PartOf(calls[w])
    BY <2>4 DEF Split
  <2>6. calls'[w] = calls[w]
    BY <2>5, PartInHand DEF Acts
  <2> QED BY <2>5, <2>6 DEF Split
<1>5. ASSUME NEW s \in AllSlots \ S, NEW t \in AllSlots \ S, s # t, slot'[s].id = slot'[t].id, slot'[s].id # 0
      PROVE  Split(s)' \/ Split(t)'
  <2>1. Split(s) \/ Split(t)
    BY <1>5 DEF Acts, Whole, IdsApart
  <2>2. ASSUME NEW x \in AllSlots \ S, Split(x) PROVE Split(x)'
    <3>1. PICK w \in Workers : x \in PartOf(calls[w])
      BY <2>2 DEF Split
    <3>2. calls'[w] = calls[w]
      BY <3>1, PartInHand DEF Acts
    <3> QED BY <3>1, <3>2 DEF Split
  <2> QED BY <2>1, <2>2
<1>6. IdsApart'
  <2> SUFFICES ASSUME NEW s \in AllSlots, NEW t \in AllSlots, s # t, slot'[s].id = slot'[t].id, slot'[s].id # 0
               PROVE  Split(s)' \/ Split(t)'
    BY DEF IdsApart
  <2> QED BY <1>4, <1>5
<1>7. FreshIds'
  <2>1. /\ inserted \in Nat /\ inserted' \in Nat /\ inserted' >= inserted /\ RowIds \subseteq Nat
        /\ \A s \in AllSlots : slot[s].id <= inserted /\ slot[s].id \in 0..MaxRow /\ slot'[s].id \in 0..MaxRow
        /\ \A n \in RowIds : n > inserted => rows[n] = Null
    BY PartTypes, PartTypesNext DEF Acts, Whole, FreshIds, WellTyped
  <2>2. ASSUME NEW n \in RowIds, n > inserted' PROVE rows'[n] = Null
    <3>1. n \in Nat /\ n > inserted /\ n \notin (inserted + 1)..inserted'
      BY <2>1, <2>2
    <3>2. \A x \in S : slot[x].id # n
      BY <2>1, <3>1
    <3> QED BY <2>1, <3>1, <3>2 DEF Acts
  <2>3. ASSUME NEW s \in AllSlots PROVE slot'[s].id <= inserted'
    <3>1. CASE s \notin S
      <4>1. slot'[s] = slot[s]
        BY <3>1 DEF Acts
      <4> QED BY <2>1, <4>1
    <3>2. CASE s \in S
      <4>1. \/ slot'[s].id = 0 \/ slot'[s].id \in (inserted + 1)..inserted'
            \/ \E y \in S : slot'[s].id = slot[y].id
        BY <3>2 DEF Acts
      <4> QED BY <2>1, <4>1
    <3> QED BY <3>1, <3>2
  <2> QED BY <2>2, <2>3 DEF FreshIds
<1>8. RowsFit'
  BY DEF RowsFit, Whole, Acts
<1> QED BY <1>1, <1>2, <1>3, <1>6, <1>7, <1>8 DEF Whole

\* And for what belongs to whom.
LEMMA ActsOwned ==
  ASSUME Types, Types', Whole, Owned, NEW S \in SUBSET AllSlots, NEW U \in SUBSET Workers, Acts(S, U),
         \A x \in S : slot[x].id # 0 /\ ~Split(x) =>
            rows'[slot[x].id] = Null \/ \E y \in S : slot'[y].id = slot[x].id /\ ~Split(y)',
         \A n \in (inserted + 1)..inserted' : \E y \in S : slot'[y].id = n /\ ~Split(y)',
         \A n \in RowIds : \/ rows'[n] = rows[n] \/ rows'[n] = Null
                           \/ rows'[n].owner = Null <=> rows'[n].at \in Bank,
         \A x \in S : slot'[x].kind # 0 => (slot'[x].owner = Null <=> x \in Bank)
  PROVE  Owned'
<1>1. OwnersFit'
  <2>1. \A n \in RowIds : rows'[n] # Null => (rows'[n].owner = Null <=> rows'[n].at \in Bank)
    BY DEF Owned, OwnersFit
  <2>2. \A x \in AllSlots : slot'[x].kind # 0 => (slot'[x].owner = Null <=> x \in Bank)
    BY DEF Owned, OwnersFit, Acts
  <2> QED BY <2>1, <2>2 DEF OwnersFit
<1>2. Shown'
  <2> SUFFICES ASSUME NEW n \in RowIds, Loads(char, n)' PROVE \E s \in AllSlots : slot'[s].id = n /\ ~Split(s)'
    BY DEF Shown
  <2>0. rows'[n] # Null /\ n # 0 /\ char' = char
    BY PartTypes DEF Loads, RowIds, Acts
  <2>1. ASSUME NEW x \in S, slot[x].id = n, ~Split(x) PROVE \E s \in AllSlots : slot'[s].id = n /\ ~Split(s)'
    BY <2>0, <2>1
  <2>2. CASE rows'[n] = rows[n]
    <3>1. Loads(char, n)
      BY <2>0, <2>2 DEF Loads
    <3>2. PICK s \in AllSlots : slot[s].id = n /\ ~Split(s)
      BY <3>1 DEF Owned, Shown
    <3>3. CASE s \notin S
      <4>1. ~Split(s)'
        <5> SUFFICES ASSUME NEW w \in Workers, s \in PartOf(calls'[w]) PROVE FALSE
          BY DEF Split
        <5>1. s \in calls'[w].hand
          BY PartInHand
        <5>2. calls'[w] = calls[w]
          BY <3>3, <5>1 DEF Acts
        <5> QED BY <3>2, <5>2 DEF Split
      <4> QED BY <3>2, <3>3, <4>1 DEF Acts
    <3> QED BY <2>1, <3>2, <3>3
  <2>3. CASE n \in (inserted + 1)..inserted'
    BY <2>3
  <2> QED BY <2>1, <2>2, <2>3 DEF Acts
<1>3. OthersApart'
  <2>1. \A n \in RowIds : rows'[n] # Null /\ rows'[n].owner \notin {char', Null} => rows'[n] = rows[n]
    BY DEF Acts
  <2> QED BY <2>1 DEF OthersApart, Owned, Acts
<1> QED BY <1>1, <1>2, <1>3 DEF Owned

\* What is known of a slot in nobody's hand.
LEMMA OutOfHand ==
  ASSUME Types, Whole, NEW s \in AllSlots, s \notin InHand
  PROVE  /\ ~Split(s)
         /\ slot[s].kind = 0 => slot[s] = NewSlot
         /\ slot[s].kind # 0 => /\ slot[s].id \in RowIds /\ slot[s].id # 0
                                /\ rows[slot[s].id] = RowAt(s, slot[s]) /\ rows[slot[s].id] # Null
                                /\ slot[s].owner \in {char, Null}
         /\ \A t \in AllSlots : t # s /\ t \notin InHand /\ slot[s].id # 0 => slot[t].id # slot[s].id
<1>1. \A t \in AllSlots : t \notin InHand => ~Split(t)
  BY PartInHand DEF Split, InHand
<1>2. SlotFits(s)
  BY DEF Whole
<1>3. slot[s].kind # 0 => slot[s].id \in RowIds /\ rows[slot[s].id] = RowAt(s, slot[s]) /\ rows[slot[s].id] # Null
  BY <1>2, PartTypes DEF SlotFits, Known, NewSlot
<1>4. slot[s].kind # 0 => slot[s].owner \in {char, Null} /\ slot[s].id # 0
  BY <1>2 DEF Whole, RowsFit, SlotFits, Known, NewSlot
<1>5. slot[s].kind = 0 => slot[s] = NewSlot
  BY <1>2 DEF SlotFits, Known
<1> QED BY <1>1, <1>3, <1>4, <1>5 DEF Whole, IdsApart

\* An update of a row that is there.
LEMMA Updated ==
  ASSUME NEW table \in [RowIds -> RowRecs \cup {Null}], NEW s, NEW r,
         r.id \in RowIds, r.id # 0, table[r.id] # Null
  PROVE  /\ Update(table, s, r) = [table EXCEPT ![r.id] = RowAt(s, r)]
         /\ \A n \in RowIds : Update(table, s, r)[n] = IF n = r.id THEN RowAt(s, r) ELSE table[n]
  BY DEF Update

\* A step that touches slots meets none in hand, as long as nothing is torn.
LEMMA TouchFree ==
  ASSUME NEW S, Touches(S), ~torn'
  PROVE  S \cap InHand = {} /\ ~torn
  BY DEF Touches

\* Moving an item to a blank slot keeps what is whole, and who owns it unless it strays.
LEMMA ReplaceKeeps ==
  ASSUME Types, Types', Whole, ~torn', NEW s \in AllSlots, NEW t \in AllSlots, ReplaceItem(s, t)
  PROVE  Whole' /\ (Owned /\ ~strayed' => Owned')
<1> DEFINE item == [slot[s] EXCEPT !.owner = OwnerAt(s, t)]
           S == {s, t}
<1>1. /\ slot' = [slot EXCEPT ![t] = item, ![s] = NewSlot] /\ rows' = Update(rows, t, item)
      /\ UNCHANGED <<char, inserted, lock, calls, arranging, strayed>>
      /\ slot[s].kind # 0 /\ slot[t].kind = 0 /\ Touches(S)
  BY DEF ReplaceItem
<1>2. S \cap InHand = {} /\ S \in SUBSET AllSlots /\ s # t /\ s \notin InHand /\ t \notin InHand
  BY <1>1, TouchFree
<1>3. /\ slot \in [AllSlots -> SlotRecs] /\ rows \in [RowIds -> RowRecs \cup {Null}] /\ inserted \in Nat
      /\ slot[s] \in SlotRecs /\ char \in Owners
  BY PartTypes DEF Types, BagTypeOK
<1>4. /\ item.id = slot[s].id /\ item.kind = slot[s].kind /\ item.qty = slot[s].qty
      /\ item.owner = OwnerAt(s, t) /\ OwnerAt(s, t) \in {char, Null}
  <2>1. slot[s].owner \in {char, Null}
    BY <1>1, <1>2, OutOfHand
  <2> QED BY <1>3, <2>1 DEF OwnerAt, SlotRecs
<1>5. /\ slot[s].id \in RowIds /\ slot[s].id # 0 /\ rows[slot[s].id] # Null
      /\ ~Split(s) /\ ~Split(t) /\ slot[t].id = 0
  BY <1>1, <1>2, OutOfHand DEF NewSlot
<1>6. \A n \in RowIds : rows'[n] = IF n = slot[s].id THEN RowAt(t, item) ELSE rows[n]
  <2> HIDE DEF item
  <2> QED BY <1>1, <1>3, <1>4, <1>5, Updated
<1>7. \A x \in AllSlots : slot'[x] = IF x = t THEN item ELSE IF x = s THEN NewSlot ELSE slot[x]
  <2> HIDE DEF item
  <2> QED BY <1>1, <1>2, <1>3
<1>8. InHand' = InHand /\ \A x \in AllSlots : Split(x)' <=> Split(x)
  BY <1>1 DEF InHand, Split
<1>9. RowAt(t, item).kind # 0 /\ RowAt(t, item).owner = OwnerAt(s, t) /\ RowAt(t, item).at = t
  BY <1>1, <1>4 DEF RowAt
<1> HIDE DEF item
<1>10. Acts(S, {})
  <2>1. \A w \in Workers : calls[w].hand \cap S = {}
    BY <1>2 DEF InHand
  <2>2. \A n \in RowIds : rows'[n] = rows[n] \/ (n = slot[s].id /\ rows'[n].kind # 0 /\ rows'[n].owner \in {char, Null})
    BY <1>4, <1>6, <1>9
  <2>3. slot'[s] = NewSlot /\ slot'[t] = item
    BY <1>2, <1>7
  <2> QED BY <1>1, <1>2, <1>3, <1>4, <1>5, <1>7, <2>1, <2>2, <2>3 DEF Acts, NewSlot
<1>11. Whole'
  <2>1. SlotFits(s)' /\ SlotFits(t)'
    <3>1. slot'[s] = NewSlot /\ slot'[t] = item /\ rows'[item.id] = RowAt(t, item)
      BY <1>2, <1>4, <1>5, <1>6, <1>7
    <3> QED BY <3>1, <1>1, <1>4, <1>5 DEF SlotFits, Known
  <2>2. \A x, y \in S : x # y => slot'[x].id = 0 \/ slot'[y].id = 0
    BY <1>2, <1>7 DEF NewSlot
  <2>3. {} \in SUBSET Workers
    OBVIOUS
  <2> QED BY <1>2, <1>10, <2>1, <2>2, <2>3, ActsWhole
<1>12. ASSUME Owned, ~strayed' PROVE Owned'
  <2>1. OwnerAt(s, t) = Null <=> t \in Bank
    <3>1. Null # char
      BY <1>3, InventoryAssumption
    <3>2. slot[s].owner = Null <=> s \in Bank
      BY <1>1, <1>12 DEF Owned, OwnersFit
    <3> QED BY <3>1, <3>2 DEF OwnerAt, Crosses
  <2>2. \A n \in RowIds : \/ rows'[n] = rows[n] \/ rows'[n] = Null
                          \/ rows'[n].owner = Null <=> rows'[n].at \in Bank
    BY <1>6, <1>9, <2>1
  <2>3. \A x \in S : slot'[x].kind # 0 => (slot'[x].owner = Null <=> x \in Bank)
    BY <1>4, <1>7, <2>1 DEF NewSlot
  <2>4. \A x \in S : slot[x].id # 0 => \E y \in S : slot'[y].id = slot[x].id /\ ~Split(y)'
    BY <1>2, <1>4, <1>5, <1>7, <1>8
  <2>5. \A n \in (inserted + 1)..inserted' : FALSE
    BY <1>1, <1>3
  <2>6. {} \in SUBSET Workers
    OBVIOUS
  <2> HIDE DEF S
  <2> QED BY <1>2, <1>10, <1>12, <2>2, <2>3, <2>4, <2>5, <2>6, ActsOwned
<1> QED BY <1>11, <1>12

\* Swapping two items does.
LEMMA SwapKeeps ==
  ASSUME Types, Types', Whole, ~torn', NEW s \in AllSlots, NEW t \in AllSlots, SwapItems(s, t)
  PROVE  Whole' /\ (Owned /\ ~strayed' => Owned')
<1> DEFINE S == {s, t}
           once == Update(rows, s, slot[t])
<1>1. /\ slot' = [slot EXCEPT ![s] = slot[t], ![t] = slot[s]] /\ rows' = Update(once, t, slot[s])
      /\ UNCHANGED <<char, inserted, calls>> /\ strayed' = (strayed \/ Crosses(s, t))
      /\ slot[s].kind # 0 /\ slot[t].kind # 0 /\ Touches(S) /\ s # t
  BY DEF SwapItems
<1>2. S \cap InHand = {} /\ S \in SUBSET AllSlots /\ s \notin InHand /\ t \notin InHand
  BY <1>1, TouchFree
<1>3. /\ slot \in [AllSlots -> SlotRecs] /\ rows \in [RowIds -> RowRecs \cup {Null}] /\ inserted \in Nat
      /\ slot[s] \in SlotRecs /\ slot[t] \in SlotRecs
  BY PartTypes DEF Types, BagTypeOK
<1>4. /\ slot[s].id \in RowIds /\ slot[s].id # 0 /\ rows[slot[s].id] # Null
      /\ slot[t].id \in RowIds /\ slot[t].id # 0 /\ rows[slot[t].id] # Null
      /\ ~Split(s) /\ ~Split(t) /\ slot[s].id # slot[t].id
      /\ slot[s].owner \in {char, Null} /\ slot[t].owner \in {char, Null}
  BY <1>1, <1>2, OutOfHand
<1>5. once \in [RowIds -> RowRecs \cup {Null}]
  BY <1>3, TableTypes
<1>6. \A n \in RowIds : once[n] = IF n = slot[t].id THEN RowAt(s, slot[t]) ELSE rows[n]
  BY <1>3, <1>4, Updated
<1>7. once[slot[s].id] # Null
  BY <1>4, <1>6
<1>8. \A n \in RowIds : rows'[n] = IF n = slot[s].id THEN RowAt(t, slot[s])
                                   ELSE IF n = slot[t].id THEN RowAt(s, slot[t]) ELSE rows[n]
  <2> HIDE DEF once
  <2> QED BY <1>1, <1>4, <1>5, <1>6, <1>7, Updated
<1>9. \A x \in AllSlots : slot'[x] = IF x = t THEN slot[s] ELSE IF x = s THEN slot[t] ELSE slot[x]
  BY <1>1, <1>3
<1>10. InHand' = InHand /\ \A x \in AllSlots : Split(x)' <=> Split(x)
  BY <1>1 DEF InHand, Split
<1>11. /\ RowAt(t, slot[s]).kind # 0 /\ RowAt(t, slot[s]).owner = slot[s].owner /\ RowAt(t, slot[s]).at = t
       /\ RowAt(s, slot[t]).kind # 0 /\ RowAt(s, slot[t]).owner = slot[t].owner /\ RowAt(s, slot[t]).at = s
  BY <1>1 DEF RowAt
<1>12. Acts(S, {})
  <2>1. \A w \in Workers : calls[w].hand \cap S = {}
    BY <1>2 DEF InHand
  <2>2. \A n \in RowIds : \/ rows'[n] = rows[n]
                          \/ n \in {slot[s].id, slot[t].id} /\ rows'[n].kind # 0 /\ rows'[n].owner \in {char, Null}
    BY <1>4, <1>8, <1>11
  <2>3. slot'[s] = slot[t] /\ slot'[t] = slot[s]
    BY <1>1, <1>9
  <2> QED BY <1>1, <1>2, <1>3, <1>4, <1>9, <2>1, <2>2, <2>3 DEF Acts
<1>13. Whole'
  <2>1. SlotFits(s)' /\ SlotFits(t)'
    <3>1. slot'[s] = slot[t] /\ slot'[t] = slot[s]
          /\ rows'[slot[s].id] = RowAt(t, slot[s]) /\ rows'[slot[t].id] = RowAt(s, slot[t])
      BY <1>1, <1>4, <1>8, <1>9
    <3> QED BY <3>1, <1>1, <1>4 DEF SlotFits, Known
  <2>2. \A x, y \in S : x # y => slot'[x].id # slot'[y].id
    BY <1>4, <1>9
  <2>3. {} \in SUBSET Workers
    OBVIOUS
  <2> QED BY <1>2, <1>12, <2>1, <2>2, <2>3, ActsWhole
<1>14. ASSUME Owned, ~strayed' PROVE Owned'
  <2>1. /\ slot[s].owner = Null <=> s \in Bank
        /\ slot[t].owner = Null <=> t \in Bank
        /\ s \in Bank <=> t \in Bank
    BY <1>1, <1>14 DEF Owned, OwnersFit, Crosses
  <2>2. \A n \in RowIds : rows'[n] = rows[n] \/ (rows'[n].owner = Null <=> rows'[n].at \in Bank)
    BY <1>8, <1>11, <2>1
  <2>3. \A x \in S : slot'[x].owner = Null <=> x \in Bank
    BY <1>9, <2>1
  <2>4. \A x \in S : \E y \in S : slot'[y].id = slot[x].id /\ ~Split(y)'
    BY <1>2, <1>4, <1>9, <1>10
  <2>5. \A n \in (inserted + 1)..inserted' : FALSE
    BY <1>1, <1>3
  <2>6. {} \in SUBSET Workers
    OBVIOUS
  <2> HIDE DEF S
  <2> QED BY <1>2, <1>12, <1>14, <2>2, <2>3, <2>4, <2>5, <2>6, ActsOwned
<1> QED BY <1>13, <1>14

\* A call that begins has its slots in hand, beside those of the others.
LEMMA BeginsHand ==
  ASSUME Types, NEW op, NEW hand \in SUBSET AllSlots, NEW held, NEW todo, Begins(op, hand, held, todo)
  PROVE  \E w \in Workers :
           /\ calls[w] = AtRest /\ calls'[w] = [op |-> op, hand |-> hand, held |-> held, todo |-> todo]
           /\ \A v \in Workers \ {w} : calls'[v] = calls[v]
           /\ InHand' = InHand \cup hand
           /\ \A x \in AllSlots : Split(x)' <=>
                Split(x) \/ (op = "split" /\ x \in hand) \/ (op = "empty" /\ x \in hand \ todo)
<1>1. PICK w \in Workers :
           /\ calls[w] = AtRest
           /\ calls' = [calls EXCEPT ![w] = [op |-> op, hand |-> hand, held |-> held, todo |-> todo]]
  BY BeginsOne
<1>2. /\ calls'[w] = [op |-> op, hand |-> hand, held |-> held, todo |-> todo]
      /\ \A v \in Workers \ {w} : calls'[v] = calls[v]
  BY <1>1 DEF Types
<1>3. calls'[w].op = op /\ calls'[w].hand = hand /\ calls[w].op = "idle" /\ calls[w].hand = {}
  BY <1>1, <1>2 DEF AtRest
<1>4. InHand' = InHand \cup hand
  BY <1>2, <1>3 DEF InHand
<1>5. \A x \in AllSlots : Split(x)' <=>
        Split(x) \/ (op = "split" /\ x \in hand) \/ (op = "empty" /\ x \in hand \ todo)
  BY <1>2, <1>3 DEF Split, PartOf
<1> QED BY <1>1, <1>2, <1>4, <1>5

\* Combining two stacks does, with the slot that is emptied in hand.
LEMMA CombineKeeps ==
  ASSUME Types, Types', Whole, ~torn', NEW s \in AllSlots, NEW t \in AllSlots, CombineItems(s, t)
  PROVE  Whole' /\ (Owned /\ ~strayed' => Owned')
<1> DEFINE S == {s, t}
           item == [slot[t] EXCEPT !.qty = @ + slot[s].qty]
           once == Update(rows, t, item)
<1>1. /\ slot' = [slot EXCEPT ![t] = item] /\ rows' = Delete(once, slot[s])
      /\ Begins("combine", {s}, <<>>, {})
      /\ UNCHANGED <<char, inserted, strayed>>
      /\ slot[s].kind # 0 /\ slot[t].kind # 0 /\ Touches(S) /\ s # t
      /\ slot[t].qty + slot[s].qty \in 0..MaxQty
  <2>1. slot[s].qty \in Nat /\ slot[t].qty \in Nat /\ MaxQty \in Nat
    BY PartTypes, InventoryAssumption
  <2> QED BY <2>1, InventoryAssumption DEF CombineItems
<1>2. S \cap InHand = {} /\ S \in SUBSET AllSlots /\ s \notin InHand /\ t \notin InHand
  BY <1>1, TouchFree
<1>3. /\ slot \in [AllSlots -> SlotRecs] /\ rows \in [RowIds -> RowRecs \cup {Null}] /\ inserted \in Nat
      /\ slot[s] \in SlotRecs /\ slot[t] \in SlotRecs
  BY PartTypes DEF Types, BagTypeOK
<1>4. /\ slot[s].id \in RowIds /\ slot[s].id # 0 /\ rows[slot[s].id] # Null
      /\ slot[t].id \in RowIds /\ slot[t].id # 0 /\ rows[slot[t].id] # Null
      /\ ~Split(s) /\ ~Split(t) /\ slot[s].id # slot[t].id
      /\ slot[t].owner \in {char, Null} /\ slot[s].owner \in {char, Null}
  BY <1>1, <1>2, OutOfHand
<1>5. item \in SlotRecs /\ item.id = slot[t].id /\ item.kind = slot[t].kind /\ item.owner = slot[t].owner
  BY <1>1, <1>3, RecTypes DEF SlotRecs
<1>11. RowAt(t, item).kind # 0 /\ RowAt(t, item).owner = slot[t].owner /\ RowAt(t, item).at = t
  BY <1>1, <1>5 DEF RowAt
<1> HIDE DEF item
<1>6. \A n \in RowIds : once[n] = IF n = slot[t].id THEN RowAt(t, item) ELSE rows[n]
  BY <1>3, <1>4, <1>5, Updated
<1>7. once \in [RowIds -> RowRecs \cup {Null}]
  BY <1>3, <1>5, TableTypes
<1>8. \A n \in RowIds : rows'[n] = IF n = slot[s].id THEN Null
                                   ELSE IF n = slot[t].id THEN RowAt(t, item) ELSE rows[n]
  <2> HIDE DEF once
  <2> QED BY <1>1, <1>4, <1>6, <1>7 DEF Delete
<1>9. \A x \in AllSlots : slot'[x] = IF x = t THEN item ELSE slot[x]
  BY <1>1, <1>3
<1>10. PICK w \in Workers :
         /\ calls[w] = AtRest /\ calls'[w] = [op |-> "combine", hand |-> {s}, held |-> <<>>, todo |-> {}]
         /\ \A v \in Workers \ {w} : calls'[v] = calls[v]
         /\ InHand' = InHand \cup {s}
         /\ \A x \in AllSlots : Split(x)' <=> Split(x)
  <2>1. {s} \in SUBSET AllSlots
    OBVIOUS
  <2>2. \E w \in Workers :
           /\ calls[w] = AtRest /\ calls'[w] = [op |-> "combine", hand |-> {s}, held |-> <<>>, todo |-> {}]
           /\ \A v \in Workers \ {w} : calls'[v] = calls[v]
           /\ InHand' = InHand \cup {s}
           /\ \A x \in AllSlots : Split(x)' <=>
                Split(x) \/ ("combine" = "split" /\ x \in {s}) \/ ("combine" = "empty" /\ x \in {s} \ {})
    BY <1>1, <2>1, BeginsHand
  <2> QED BY <2>2
<1>12. Acts(S, {w})
  <2>1. \A v \in Workers : calls[v].hand \cap S = {}
    BY <1>2 DEF InHand
  <2>2. \A n \in RowIds : \/ rows'[n] = rows[n]
                          \/ /\ n \in {slot[s].id, slot[t].id}
                             /\ rows'[n] = Null \/ (rows'[n].kind # 0 /\ rows'[n].owner \in {char, Null})
    BY <1>4, <1>8, <1>11
  <2>3. slot'[s] = slot[s] /\ slot'[t] = item
    BY <1>1, <1>9
  <2>4. calls[w].hand = {} /\ calls'[w].hand = {s}
    BY <1>10 DEF AtRest
  <2> QED BY <1>1, <1>2, <1>3, <1>4, <1>5, <1>9, <1>10, <2>1, <2>2, <2>3, <2>4 DEF Acts
<1>13. Whole'
  <2>0. slot'[s] = slot[s] /\ slot'[t] = item
    BY <1>1, <1>9
  <2>1. SlotFits(t)'
    <3>1. rows'[item.id] = RowAt(t, item)
      BY <1>4, <1>5, <1>8
    <3> QED BY <2>0, <3>1, <1>1, <1>4, <1>5 DEF SlotFits, Known
  <2>2. CallFits(w)'
    <3>1. calls'[w].op = "combine" /\ calls'[w].hand = {s} /\ rows'[slot'[s].id] = Null
      BY <1>4, <1>8, <1>10, <2>0
    <3> QED BY <1>1, <1>4, <2>0, <3>1 DEF CallFits, RemoveFits, Known
  <2>3. s \in InHand'
    BY <1>10
  <2>4. {w} \in SUBSET Workers
    OBVIOUS
  <2>5. \A x \in S : x \notin InHand' => SlotFits(x)'
    BY <2>1, <2>3
  <2>6. \A x, y \in S : x # y => slot'[x].id # slot'[y].id
    BY <1>4, <1>5, <2>0
  <2> QED BY <1>2, <1>12, <2>2, <2>4, <2>5, <2>6, ActsWhole
<1>14. ASSUME Owned, ~strayed' PROVE Owned'
  <2>1. (slot[t].owner = Null <=> t \in Bank) /\ (slot[s].owner = Null <=> s \in Bank)
    BY <1>1, <1>14 DEF Owned, OwnersFit
  <2>2. \A n \in RowIds : \/ rows'[n] = rows[n] \/ rows'[n] = Null
                          \/ rows'[n].owner = Null <=> rows'[n].at \in Bank
    BY <1>8, <1>11, <2>1
  <2>3. \A x \in S : slot'[x].kind # 0 => (slot'[x].owner = Null <=> x \in Bank)
    BY <1>5, <1>9, <2>1
  <2>4. \A x \in S : \/ rows'[slot[x].id] = Null
                     \/ \E y \in S : slot'[y].id = slot[x].id /\ ~Split(y)'
    BY <1>1, <1>2, <1>4, <1>5, <1>8, <1>9, <1>10
  <2>5. \A n \in (inserted + 1)..inserted' : FALSE
    BY <1>1, <1>3
  <2>6. {w} \in SUBSET Workers
    OBVIOUS
  <2> HIDE DEF S
  <2> QED BY <1>2, <1>12, <1>14, <2>2, <2>3, <2>4, <2>5, <2>6, ActsOwned
<1> QED BY <1>13, <1>14

\* Splitting a stack does, with the part held until its row is inserted, and with the slot
\* that is emptied in hand.
LEMMA SplitKeeps ==
  ASSUME Types, Types', Whole, ~torn',
         NEW s \in AllSlots, NEW t \in AllSlots, NEW n \in 1..MaxQty, SplitItem(s, t, n)
  PROVE  Whole' /\ (Owned /\ ~strayed' => Owned')
<1> DEFINE S == {s, t}
           rest == [slot[s] EXCEPT !.qty = @ - n]
           part == [slot[s] EXCEPT !.qty = n]
           copy == [x \in {t} |-> part]
           all == n = slot[s].qty
<1>1. /\ slot' = [slot EXCEPT ![t] = part, ![s] = rest]
      /\ all => rows' = Delete(rows, slot[s]) /\ Begins("empty", {s, t}, <<>>, {s})
      /\ ~all => rows' = Update(rows, s, rest) /\ Begins("split", {t}, copy, {})
      /\ UNCHANGED <<char, inserted>> /\ strayed' = (strayed \/ Crosses(s, t))
      /\ slot[t].kind = 0 /\ n \in 1..slot[s].qty /\ Touches(S)
  BY DEF SplitItem
<1>2. S \cap InHand = {} /\ S \in SUBSET AllSlots /\ s \notin InHand /\ t \notin InHand
  BY <1>1, TouchFree
<1>3. /\ slot \in [AllSlots -> SlotRecs] /\ rows \in [RowIds -> RowRecs \cup {Null}] /\ inserted \in Nat
      /\ slot[s] \in SlotRecs /\ slot[t] \in SlotRecs /\ slot[s].qty \in Nat
  BY PartTypes DEF Types, BagTypeOK
<1>4. slot[s].kind # 0 /\ s # t
  <2>1. slot[s] # NewSlot
    BY <1>1, <1>3 DEF NewSlot
  <2> QED BY <1>1, <1>2, <2>1, OutOfHand
<1>5. /\ slot[s].id \in RowIds /\ slot[s].id # 0 /\ rows[slot[s].id] # Null
      /\ ~Split(s) /\ ~Split(t) /\ slot[t].id = 0 /\ slot[s].owner \in {char, Null}
  BY <1>1, <1>2, <1>4, OutOfHand DEF NewSlot
<1>6. /\ part.id = slot[s].id /\ part.kind = slot[s].kind /\ part.owner = slot[s].owner
      /\ rest.id = slot[s].id /\ rest.kind = slot[s].kind /\ rest.owner = slot[s].owner
      /\ all => rest.qty = 0
  BY <1>3 DEF SlotRecs
<1>7. copy[t] = part
  OBVIOUS
<1> HIDE DEF rest, part, copy, all
<1>8. \A m \in RowIds : rows'[m] = IF m = slot[s].id THEN IF all THEN Null ELSE RowAt(s, rest)
                                   ELSE rows[m]
  <2>1. CASE all
    BY <1>1, <1>3, <1>5, <2>1 DEF Delete
  <2>2. CASE ~all
    <3>2. \A m \in RowIds : Update(rows, s, rest)[m] = IF m = rest.id THEN RowAt(s, rest) ELSE rows[m]
      BY <1>3, <1>5, <1>6, Updated
    <3> QED BY <1>1, <1>6, <2>2, <3>2
  <2> QED BY <2>1, <2>2
<1>9. slot'[s] = rest /\ slot'[t] = part /\ \A x \in AllSlots \ S : slot'[x] = slot[x]
  BY <1>1, <1>3, <1>4
<1>10. PICK w \in Workers :
         /\ calls[w] = AtRest
         /\ all => calls'[w] = [op |-> "empty", hand |-> {s, t}, held |-> <<>>, todo |-> {s}]
         /\ ~all => calls'[w] = [op |-> "split", hand |-> {t}, held |-> copy, todo |-> {}]
         /\ \A v \in Workers \ {w} : calls'[v] = calls[v]
         /\ s \in InHand' <=> all
         /\ t \in InHand'
         /\ \A x \in AllSlots : Split(x)' <=> Split(x) \/ x = t
  <2>1. CASE all
    <3>1. PICK op, hand, todo : op = "empty" /\ hand = {s, t} /\ todo = {s}
      OBVIOUS
    <3>2. Begins(op, hand, <<>>, todo) /\ hand \in SUBSET AllSlots
      BY <1>1, <2>1, <3>1
    <3>3. \E w \in Workers :
             /\ calls[w] = AtRest /\ calls'[w] = [op |-> op, hand |-> hand, held |-> <<>>, todo |-> todo]
             /\ \A v \in Workers \ {w} : calls'[v] = calls[v]
             /\ InHand' = InHand \cup hand
             /\ \A x \in AllSlots : Split(x)' <=>
                  Split(x) \/ (op = "split" /\ x \in hand) \/ (op = "empty" /\ x \in hand \ todo)
      BY <3>2, BeginsHand
    <3> QED BY <1>4, <2>1, <3>1, <3>3
  <2>2. CASE ~all
    <3>1. PICK held : held = copy
      OBVIOUS
    <3>2. Begins("split", {t}, held, {}) /\ {t} \in SUBSET AllSlots
      BY <1>1, <2>2, <3>1
    <3>3. \E w \in Workers :
             /\ calls[w] = AtRest /\ calls'[w] = [op |-> "split", hand |-> {t}, held |-> held, todo |-> {}]
             /\ \A v \in Workers \ {w} : calls'[v] = calls[v]
             /\ InHand' = InHand \cup {t}
             /\ \A x \in AllSlots : Split(x)' <=>
                  Split(x) \/ ("split" = "split" /\ x \in {t}) \/ ("split" = "empty" /\ x \in {t} \ {})
      BY <3>2, BeginsHand
    <3> QED BY <1>2, <1>4, <2>2, <3>1, <3>3
  <2> QED BY <2>1, <2>2
<1>11. RowAt(s, rest).kind = rest.kind /\ RowAt(s, rest).owner = rest.owner /\ RowAt(s, rest).at = s
  BY DEF RowAt
<1>12. Acts(S, {w})
  <2>1. \A v \in Workers : calls[v].hand \cap S = {}
    BY <1>2 DEF InHand
  <2>2. \A m \in RowIds : \/ rows'[m] = rows[m]
                          \/ /\ m = slot[s].id
                             /\ rows'[m] = Null \/ (rows'[m].kind # 0 /\ rows'[m].owner \in {char, Null})
    BY <1>4, <1>5, <1>6, <1>8, <1>11
  <2>3. \A x \in S : slot'[x].id = slot[s].id
    BY <1>6, <1>9
  <2>4. \A x \in S : slot'[x].kind # 0 => slot'[x].owner \in {char, Null}
    BY <1>5, <1>6, <1>9
  <2>5. calls[w].hand = {} /\ calls'[w].hand \subseteq S
    <3>1. calls'[w].hand = {t} \/ calls'[w].hand = {s, t}
      BY <1>10
    <3> QED BY <1>10, <3>1 DEF AtRest
  <2> QED BY <1>1, <1>3, <1>5, <1>9, <1>10, <2>1, <2>2, <2>3, <2>4, <2>5 DEF Acts
<1>13. Whole'
  <2>1. ~all => SlotFits(s)'
    BY <1>4, <1>5, <1>6, <1>8, <1>9 DEF SlotFits, Known
  <2>2. CallFits(w)'
    <3>2. slot'[t].kind # 0 /\ slot'[t].id # 0 /\ slot'[s].id = slot'[t].id
      BY <1>4, <1>5, <1>6, <1>9
    <3>3. CASE all
      <4>1. /\ calls'[w].op = "empty" /\ calls'[w].hand = {s, t} /\ calls'[w].todo = {s}
            /\ rows'[slot'[s].id] = Null /\ slot'[s].qty = 0
        BY <1>5, <1>6, <1>8, <1>9, <1>10, <3>3
      <4> QED BY <1>4, <3>2, <4>1 DEF CallFits, EmptyFits, Known
    <3>4. CASE ~all
      <4>1. calls'[w].op = "split" /\ calls'[w].hand = {t} /\ calls'[w].held[t] = part
        BY <1>7, <1>10, <3>4
      <4> QED BY <1>9, <3>2, <4>1 DEF CallFits, InsertFits
    <3> QED BY <3>3, <3>4
  <2>3. Split(t)' /\ t \in InHand'
    BY <1>10
  <2>4. {w} \in SUBSET Workers
    OBVIOUS
  <2>5. \A x \in S : x \notin InHand' => SlotFits(x)'
    BY <1>10, <2>1, <2>3
  <2>6. \A x, y \in S : x # y /\ slot'[x].id = slot'[y].id /\ slot'[x].id # 0 => Split(x)' \/ Split(y)'
    BY <2>3
  <2> QED BY <1>2, <1>12, <2>2, <2>4, <2>5, <2>6, ActsWhole
<1>14. ASSUME Owned, ~strayed' PROVE Owned'
  <2>1. (slot[s].owner = Null <=> s \in Bank) /\ (s \in Bank <=> t \in Bank)
    BY <1>1, <1>4, <1>14 DEF Owned, OwnersFit, Crosses
  <2>2. \A m \in RowIds : \/ rows'[m] = rows[m] \/ rows'[m] = Null
                          \/ rows'[m].owner = Null <=> rows'[m].at \in Bank
    BY <1>6, <1>8, <1>11, <2>1
  <2>3. \A x \in S : slot'[x].kind # 0 => (slot'[x].owner = Null <=> x \in Bank)
    BY <1>6, <1>9, <2>1
  <2>4. \A x \in S : slot[x].id # 0 => \/ rows'[slot[x].id] = Null
                                       \/ \E y \in S : slot'[y].id = slot[x].id /\ ~Split(y)'
    <3>1. ~Split(s)'
      BY <1>4, <1>5, <1>10
    <3> QED BY <1>5, <1>6, <1>8, <1>9, <3>1
  <2>5. \A m \in (inserted + 1)..inserted' : FALSE
    BY <1>1, <1>3
  <2>6. {w} \in SUBSET Workers
    OBVIOUS
  <2> HIDE DEF S
  <2> QED BY <1>2, <1>12, <1>14, <2>2, <2>3, <2>4, <2>5, <2>6, ActsOwned
<1> QED BY <1>13, <1>14

\* Adding items does, to a stack or to a blank slot that is then held.
LEMMA AddKeeps ==
  ASSUME Types, Types', Whole, ~torn', NEW k \in Kinds, AddItem(k)
  PROVE  Whole' /\ (Owned /\ ~strayed' => Owned')
<1>2. PICK s \in AllSlots : s = Min(Target(k)) /\ s \in Bag /\ (slot[s].kind = 0 \/ slot[s].kind = k) /\ k # 0
  <2>1. Target(k) \in SUBSET Nat /\ Target(k) # {} /\ \A x \in Target(k) : x \in Bag /\ slot[x].kind \in {0, k}
    BY InventoryAssumption DEF AddItem, Target, FindItem, FindFreeSlots, AllSlots
  <2>2. Min(Target(k)) \in Target(k)
    BY <2>1, MinIn <2> QED BY <2>1, <2>2, InventoryAssumption DEF AllSlots
<1> DEFINE item == [id |-> slot[s].id, kind |-> k, owner |-> char,
                    qty |-> IF slot[s].kind = k THEN slot[s].qty + 1 ELSE 1]
           copy == [x \in {s} |-> item]
<1>1. /\ slot' = [slot EXCEPT ![s] = item] /\ Touches({s})
      /\ UNCHANGED <<char, inserted, strayed>>
      /\ \/ item.id # 0 /\ rows' = Update(rows, s, item) /\ UNCHANGED calls
         \/ item.id = 0 /\ Begins("add", {s}, copy, {}) /\ UNCHANGED rows
  BY <1>2 DEF AddItem
<1>3. {s} \cap InHand = {} /\ s \notin InHand
  BY <1>1, TouchFree
<1>4. item.id = slot[s].id /\ item.kind = k /\ item.owner = char /\ copy[s] = item
  OBVIOUS
<1> HIDE DEF item, copy
<1>5. /\ slot \in [AllSlots -> SlotRecs] /\ rows \in [RowIds -> RowRecs \cup {Null}] /\ inserted \in Nat
      /\ char # Null /\ s \notin Bank
  BY <1>2, PartTypes, InventoryAssumption DEF Types, BagTypeOK
<1>6. /\ slot[s].kind = 0 => slot[s].id = 0
      /\ slot[s].kind # 0 => slot[s].id \in RowIds /\ slot[s].id # 0 /\ rows[slot[s].id] # Null
      /\ ~Split(s)
  BY <1>2, <1>3, OutOfHand DEF NewSlot
<1>7. slot'[s] = item /\ \A x \in AllSlots \ {s} : slot'[x] = slot[x]
  BY <1>1, <1>2, <1>5
<1>8. /\ \A w \in Workers : calls[w].hand \cap {s} = {}
      /\ \A m \in (inserted + 1)..inserted' : FALSE
      /\ {s} \in SUBSET AllSlots
  BY <1>1, <1>2, <1>3, <1>5 DEF InHand
<1>9. CASE item.id # 0 /\ rows' = Update(rows, s, item) /\ UNCHANGED calls
  <2>1. slot[s].id \in RowIds /\ slot[s].id # 0 /\ rows[slot[s].id] # Null
    BY <1>4, <1>6, <1>9
  <2>2. \A m \in RowIds : rows'[m] = IF m = slot[s].id THEN RowAt(s, item) ELSE rows[m]
    <3>1. \A m \in RowIds : Update(rows, s, item)[m] = IF m = item.id THEN RowAt(s, item) ELSE rows[m]
      BY <1>4, <1>5, <2>1, Updated
    <3> QED BY <1>4, <1>9, <3>1
  <2>3. RowAt(s, item).kind # 0 /\ RowAt(s, item).owner = char /\ RowAt(s, item).at = s
    BY <1>2, <1>4 DEF RowAt
  <2>4. InHand' = InHand /\ \A x \in AllSlots : Split(x)' <=> Split(x)
    BY <1>9 DEF InHand, Split
  <2>5. {} \in SUBSET Workers
    OBVIOUS
  <2>6. Acts({s}, {})
    <3>1. \A m \in RowIds : \/ rows'[m] = rows[m]
                            \/ m = slot[s].id /\ rows'[m].kind # 0 /\ rows'[m].owner = char
      BY <2>2, <2>3
    <3> QED BY <1>1, <1>4, <1>5, <1>6, <1>7, <1>8, <1>9, <3>1 DEF Acts
  <2>7. SlotFits(s)'
    BY <1>2, <1>4, <1>7, <2>1, <2>2 DEF SlotFits, Known
  <2>8. Whole'
    BY <1>8, <2>5, <2>6, <2>7, ActsWhole
  <2>9. ASSUME Owned, ~strayed' PROVE Owned'
    <3>1. \A m \in RowIds : rows'[m] = rows[m] \/ (rows'[m].owner = Null <=> rows'[m].at \in Bank)
      BY <1>5, <2>2, <2>3
    <3>2. slot'[s].owner = Null <=> s \in Bank
      BY <1>4, <1>5, <1>7
    <3>3. slot'[s].id = slot[s].id /\ ~Split(s)'
      BY <1>2, <1>4, <1>6, <1>7, <2>4
    <3> QED BY <1>8, <2>5, <2>6, <2>9, <3>1, <3>2, <3>3, ActsOwned
  <2> QED BY <2>8, <2>9
<1>10. CASE item.id = 0 /\ Begins("add", {s}, copy, {}) /\ UNCHANGED rows
  <2>1. PICK w \in Workers :
         /\ calls[w] = AtRest /\ calls'[w] = [op |-> "add", hand |-> {s}, held |-> copy, todo |-> {}]
         /\ \A v \in Workers \ {w} : calls'[v] = calls[v]
         /\ InHand' = InHand \cup {s}
    <3>1. PICK op, hand, held, todo : op = "add" /\ hand = {s} /\ held = copy /\ todo = {}
      OBVIOUS
    <3>2. Begins(op, hand, held, todo) /\ hand \in SUBSET AllSlots
      BY <1>10, <3>1
    <3>3. \E w \in Workers :
           /\ calls[w] = AtRest /\ calls'[w] = [op |-> op, hand |-> hand, held |-> held, todo |-> todo]
           /\ \A v \in Workers \ {w} : calls'[v] = calls[v]
           /\ InHand' = InHand \cup hand
           /\ \A x \in AllSlots : Split(x)' <=> Split(x) \/ (op = "split" /\ x \in hand)
                                                        \/ (op = "empty" /\ x \in hand \ todo)
      BY <3>2, BeginsHand
    <3> QED BY <3>1, <3>3
  <2>2. {w} \in SUBSET Workers /\ calls[w].hand = {}
    BY <2>1 DEF AtRest
  <2>3. Acts({s}, {w})
    <3>1. \A m \in RowIds : rows'[m] = rows[m]
      BY <1>10
    <3>2. slot'[s].id = 0 /\ slot'[s].owner = char /\ calls'[w].hand = {s}
      BY <1>4, <1>7, <1>10, <2>1
    <3> QED BY <1>1, <1>5, <1>7, <1>8, <2>1, <2>2, <3>1, <3>2 DEF Acts
  <2>4. CallFits(w)'
    <3>1. calls'[w].op = "add" /\ calls'[w].hand = {s} /\ calls'[w].held[s] = item
      BY <1>4, <2>1
    <3>2. slot'[s].kind # 0 /\ slot'[s].id = 0
      BY <1>2, <1>4, <1>7, <1>10
    <3> QED BY <1>2, <1>7, <3>1, <3>2 DEF CallFits, InsertFits
  <2>5. Whole'
    <3>1. s \in InHand'
      BY <2>1
    <3> QED BY <1>8, <2>2, <2>3, <2>4, <3>1, ActsWhole
  <2>6. ASSUME Owned, ~strayed' PROVE Owned'
    <3>1. \A m \in RowIds : rows'[m] = rows[m]
      BY <1>10
    <3>2. slot'[s].owner = Null <=> s \in Bank
      BY <1>4, <1>5, <1>7
    <3>3. slot[s].id = 0
      BY <1>4, <1>10
    <3> QED BY <1>8, <2>2, <2>3, <2>6, <3>1, <3>2, <3>3, ActsOwned
  <2> QED BY <2>5, <2>6
<1> QED BY <1>1, <1>9, <1>10

\* A removal begins at a slot whose item has a row there.
LEMMA BeginsRemoval ==
  ASSUME Types, Types', Whole, ~torn', NEW s \in AllSlots, Touches({s}), slot[s].kind # 0,
         Begins("delete", {s}, <<>>, {}), UNCHANGED <<char, rows, inserted>>,
         NEW q \in 0..MaxQty, slot' = [slot EXCEPT ![s].qty = q]
  PROVE  Whole' /\ (Owned => Owned')
<1>1. {s} \cap InHand = {} /\ s \notin InHand /\ {s} \in SUBSET AllSlots
  BY TouchFree
<1>2. /\ slot \in [AllSlots -> SlotRecs] /\ inserted \in Nat /\ slot[s] \in SlotRecs
  BY PartTypes DEF Types, BagTypeOK
<1>3. /\ slot[s].id \in RowIds /\ slot[s].id # 0 /\ rows[slot[s].id] # Null
      /\ ~Split(s) /\ rows[slot[s].id] = RowAt(s, slot[s]) /\ slot[s].owner \in {char, Null}
  BY <1>1, OutOfHand
<1>4. PICK w \in Workers :
         /\ calls[w] = AtRest /\ calls'[w] = [op |-> "delete", hand |-> {s}, held |-> <<>>, todo |-> {}]
         /\ \A v \in Workers \ {w} : calls'[v] = calls[v]
         /\ InHand' = InHand \cup {s}
         /\ \A x \in AllSlots : Split(x)' <=> Split(x) \/ ("delete" = "split" /\ x \in {s})
                                                      \/ ("delete" = "empty" /\ x \in {s} \ {})
  <2>1. \E w \in Workers :
         /\ calls[w] = AtRest /\ calls'[w] = [op |-> "delete", hand |-> {s}, held |-> <<>>, todo |-> {}]
         /\ \A v \in Workers \ {w} : calls'[v] = calls[v]
         /\ InHand' = InHand \cup {s}
         /\ \A x \in AllSlots : Split(x)' <=> Split(x) \/ ("delete" = "split" /\ x \in {s})
                                                      \/ ("delete" = "empty" /\ x \in {s} \ {})
    BY <1>1, BeginsHand
  <2> QED BY <2>1
<1>5. /\ slot'[s].id = slot[s].id /\ slot'[s].kind = slot[s].kind /\ slot'[s].owner = slot[s].owner
      /\ \A x \in AllSlots \ {s} : slot'[x] = slot[x]
  BY <1>2 DEF SlotRecs
<1>6. /\ \A v \in Workers : calls[v].hand \cap {s} = {}
      /\ \A m \in (inserted + 1)..inserted' : FALSE
      /\ \A m \in RowIds : rows'[m] = rows[m]
  BY <1>1, <1>2 DEF InHand
<1>7. {w} \in SUBSET Workers /\ calls[w].hand = {} /\ calls'[w].hand = {s}
  BY <1>4 DEF AtRest
<1>8. Acts({s}, {w})
  BY <1>2, <1>3, <1>4, <1>5, <1>6, <1>7 DEF Acts
<1>9. CallFits(w)'
  <2>1. calls'[w].op = "delete" /\ rows'[slot'[s].id] = RowAt(s, slot[s])
    BY <1>3, <1>4, <1>5, <1>6
  <2>2. RowAt(s, slot[s]).at = s
    BY DEF RowAt
  <2> QED BY <1>3, <1>5, <1>6, <1>7, <2>1, <2>2 DEF CallFits, RemoveFits, Known
<1>10. Whole'
  <2>1. s \in InHand'
    BY <1>4
  <2> QED BY <1>1, <1>7, <1>8, <1>9, <2>1, ActsWhole
<1>11. ASSUME Owned PROVE Owned'
  <2>1. slot'[s].owner = Null <=> s \in Bank
    BY <1>5, <1>11 DEF Owned, OwnersFit
  <2>2. ~Split(s)'
    BY <1>3, <1>4
  <2> QED BY <1>1, <1>5, <1>6, <1>7, <1>8, <1>11, <2>1, <2>2, ActsOwned
<1> QED BY <1>10, <1>11

\* Removing an item begins with its row; nothing in memory changes.
LEMMA RemoveKeeps ==
  ASSUME Types, Types', Whole, ~torn', NEW s \in AllSlots, RemoveItem(s)
  PROVE  Whole' /\ (Owned /\ ~strayed' => Owned')
<1>1. slot \in [AllSlots -> SlotRecs] /\ slot[s] \in SlotRecs /\ slot[s].qty \in 0..MaxQty
  BY PartTypes DEF Types, BagTypeOK
<1>2. [slot EXCEPT ![s].qty = slot[s].qty] = slot
  <2>1. [slot[s] EXCEPT !.qty = slot[s].qty] = slot[s]
    BY <1>1 DEF SlotRecs
  <2> QED BY <1>1, <2>1
<1>3. /\ Touches({s}) /\ slot[s].kind # 0 /\ Begins("delete", {s}, <<>>, {})
      /\ UNCHANGED <<char, rows, inserted>> /\ slot' = [slot EXCEPT ![s].qty = slot[s].qty]
  BY <1>2 DEF RemoveItem
<1> QED BY <1>1, <1>3, BeginsRemoval

\* Taking one item of a stack does.
LEMMA DecrementKeeps ==
  ASSUME Types, Types', Whole, ~torn', NEW s \in AllSlots, DecrementItem(s)
  PROVE  Whole' /\ (Owned /\ ~strayed' => Owned')
<1> DEFINE item == [slot[s] EXCEPT !.qty = @ - 1]
<1>1. /\ slot' = [slot EXCEPT ![s] = item] /\ Touches({s}) /\ slot[s].qty > 0
      /\ UNCHANGED <<char, inserted, strayed>>
      /\ \/ rows' = Update(rows, s, slot'[s]) /\ UNCHANGED calls
         \/ Begins("delete", {s}, <<>>, {}) /\ UNCHANGED rows
  <2>1. slot \in [AllSlots -> SlotRecs]
    BY DEF Types, BagTypeOK
  <2> QED BY <2>1 DEF DecrementItem
<1>2. {s} \cap InHand = {} /\ s \notin InHand /\ {s} \in SUBSET AllSlots
  BY <1>1, TouchFree
<1>3. /\ slot \in [AllSlots -> SlotRecs] /\ rows \in [RowIds -> RowRecs \cup {Null}] /\ inserted \in Nat
      /\ slot[s] \in SlotRecs /\ slot[s].qty \in 0..MaxQty /\ slot[s].qty - 1 \in 0..MaxQty
  <2>1. slot[s].qty \in 0..MaxQty
    BY PartTypes
  <2>2. slot[s].qty - 1 \in 0..MaxQty
    BY <1>1, <2>1, InventoryAssumption
  <2> QED BY <2>1, <2>2, PartTypes DEF Types, BagTypeOK
<1>4. slot[s].kind # 0
  <2>1. slot[s] # NewSlot
    BY <1>1, <1>3 DEF NewSlot
  <2> QED BY <1>2, <2>1, OutOfHand
<1>5. /\ slot[s].id \in RowIds /\ slot[s].id # 0 /\ rows[slot[s].id] # Null
      /\ ~Split(s) /\ slot[s].owner \in {char, Null}
  BY <1>2, <1>4, OutOfHand
<1>6. item.id = slot[s].id /\ item.kind = slot[s].kind /\ item.owner = slot[s].owner
  BY <1>3 DEF SlotRecs
<1>7. slot'[s] = item /\ \A x \in AllSlots \ {s} : slot'[x] = slot[x]
  BY <1>1, <1>3
<1>8. CASE Begins("delete", {s}, <<>>, {}) /\ UNCHANGED rows
  <2>1. PICK q \in 0..MaxQty : q = slot[s].qty - 1
    BY <1>3
  <2>2. slot' = [slot EXCEPT ![s].qty = q]
    BY <1>1, <2>1
  <2>3. UNCHANGED <<char, rows, inserted>>
    BY <1>1, <1>8
  <2> QED BY <1>1, <1>4, <1>8, <2>2, <2>3, BeginsRemoval
<1>9. CASE rows' = Update(rows, s, slot'[s]) /\ UNCHANGED calls
  <2> HIDE DEF item
  <2>1. \A m \in RowIds : rows'[m] = IF m = slot[s].id THEN RowAt(s, item) ELSE rows[m]
    <3>1. \A m \in RowIds : Update(rows, s, item)[m] = IF m = item.id THEN RowAt(s, item) ELSE rows[m]
      BY <1>3, <1>5, <1>6, Updated
    <3> QED BY <1>6, <1>7, <1>9, <3>1
  <2>2. RowAt(s, item).kind # 0 /\ RowAt(s, item).owner = slot[s].owner /\ RowAt(s, item).at = s
    BY <1>4, <1>6 DEF RowAt
  <2>3. InHand' = InHand /\ \A x \in AllSlots : Split(x)' <=> Split(x)
    BY <1>9 DEF InHand, Split
  <2>4. /\ {} \in SUBSET Workers /\ \A v \in Workers : calls[v].hand \cap {s} = {}
        /\ \A m \in (inserted + 1)..inserted' : FALSE
    BY <1>1, <1>2, <1>3 DEF InHand
  <2>5. Acts({s}, {})
    <3>1. \A m \in RowIds : \/ rows'[m] = rows[m]
                            \/ m = slot[s].id /\ rows'[m].kind # 0 /\ rows'[m].owner \in {char, Null}
      BY <1>5, <2>1, <2>2
    <3> QED BY <1>1, <1>3, <1>5, <1>6, <1>7, <1>9, <2>4, <3>1 DEF Acts
  <2>6. SlotFits(s)'
    BY <1>4, <1>5, <1>6, <1>7, <2>1 DEF SlotFits, Known
  <2>7. Whole'
    BY <1>2, <2>4, <2>5, <2>6, ActsWhole
  <2>8. ASSUME Owned, ~strayed' PROVE Owned'
    <3>1. slot[s].owner = Null <=> s \in Bank
      BY <1>4, <2>8 DEF Owned, OwnersFit
    <3>2. \A m \in RowIds : rows'[m] = rows[m] \/ (rows'[m].owner = Null <=> rows'[m].at \in Bank)
      BY <2>1, <2>2, <3>1
    <3>3. slot'[s].id = slot[s].id /\ ~Split(s)' /\ (slot'[s].owner = Null <=> s \in Bank)
      BY <1>5, <1>6, <1>7, <2>3, <3>1
    <3> QED BY <1>2, <2>4, <2>5, <2>8, <3>2, <3>3, ActsOwned
  <2> QED BY <2>7, <2>8
<1> QED BY <1>1, <1>8, <1>9

\* An arrangement begins with copies of the slots, sorted, and takes all of them in hand.
LEMMA BeginArrangeKeeps ==
  ASSUME Types, Types', Whole, ~torn', NEW p \in Parts, BeginArrange(p)
  PROVE  Whole' /\ (Owned /\ ~strayed' => Owned')
<1>1. PICK f \in Bijection(p, p) : Begins("arrange", p, [s \in p |-> slot[f[s]]], p)
  BY DEF BeginArrange
<1>2. p \in SUBSET AllSlots /\ f \in [p -> p] /\ UNCHANGED <<char, slot, rows, inserted, strayed>> /\ Touches(p)
  BY DEF Parts, AllSlots, Bijection, Injection, BeginArrange
<1>3. p \cap InHand = {}
  BY <1>2, TouchFree
<1>4. PICK copies : copies = [s \in p |-> slot[f[s]]]
  OBVIOUS
<1>5. PICK w \in Workers :
         /\ calls[w] = AtRest /\ calls'[w] = [op |-> "arrange", hand |-> p, held |-> copies, todo |-> p]
         /\ \A v \in Workers \ {w} : calls'[v] = calls[v]
         /\ InHand' = InHand \cup p
         /\ \A x \in AllSlots : Split(x)' <=> Split(x) \/ ("arrange" = "split" /\ x \in p)
                                                      \/ ("arrange" = "empty" /\ x \in p \ p)
  <2>1. Begins("arrange", p, copies, p)
    BY <1>1, <1>4
  <2>2. \E w \in Workers :
         /\ calls[w] = AtRest /\ calls'[w] = [op |-> "arrange", hand |-> p, held |-> copies, todo |-> p]
         /\ \A v \in Workers \ {w} : calls'[v] = calls[v]
         /\ InHand' = InHand \cup p
         /\ \A x \in AllSlots : Split(x)' <=> Split(x) \/ ("arrange" = "split" /\ x \in p)
                                                      \/ ("arrange" = "empty" /\ x \in p \ p)
    BY <1>2, <2>1, BeginsHand
  <2> QED BY <2>2
<1>6. \A s \in p : /\ ~Split(s) /\ s \in AllSlots
                   /\ \/ slot[s] = NewSlot
                      \/ Known(slot[s]) /\ rows[slot[s].id] = RowAt(s, slot[s])
                   /\ slot[s].kind # 0 => slot[s].owner \in {char, Null}
  BY <1>2, <1>3, OutOfHand DEF Known, Whole, RowsFit
<1>7. /\ {w} \in SUBSET Workers /\ calls[w].hand = {} /\ calls'[w].hand = p /\ calls'[w].op = "arrange"
      /\ \A v \in Workers : calls[v].hand \cap p = {}
      /\ inserted \in Nat
  BY <1>3, <1>5, PartTypes DEF AtRest, InHand
<1>8. \A m \in (inserted + 1)..inserted' : FALSE
  BY <1>2, <1>7
<1>9. Acts(p, {w})
  BY <1>2, <1>5, <1>6, <1>7 DEF Acts
<1>10. CallFits(w)'
  <2>1. \A s \in p : calls'[w].held[s] = slot'[f[s]]
    BY <1>2, <1>4, <1>5
  <2>2. \A s \in p : f[s] \in p
    BY <1>2
  <2>3. \A s \in p : \/ calls'[w].held[s] = NewSlot
                     \/ /\ Known(calls'[w].held[s])
                        /\ \E x \in p : rows'[calls'[w].held[s].id] = RowAt(x, calls'[w].held[s])
    BY <1>2, <1>6, <2>1, <2>2
  <2>4. calls'[w].todo = p
    BY <1>5
  <2>5. ArrangeFits(calls[w])'
    BY <1>7, <2>1, <2>3, <2>4 DEF ArrangeFits
  <2> QED BY <1>7, <2>5 DEF CallFits
<1>11. Whole'
  <2>1. \A s \in p : s \in InHand'
    BY <1>5
  <2>2. \A s, t \in p : s # t /\ slot'[s].id = slot'[t].id /\ slot'[s].id # 0 => Split(s)' \/ Split(t)'
    BY <1>2, <1>6 DEF Whole, IdsApart
  <2> QED BY <1>2, <1>7, <1>9, <1>10, <2>1, <2>2, ActsWhole
<1>12. ASSUME Owned PROVE Owned'
  <2>1. \A x \in p : slot'[x].id = slot[x].id /\ ~Split(x)'
    BY <1>2, <1>5, <1>6
  <2>2. \A x \in p : slot'[x].kind # 0 => (slot'[x].owner = Null <=> x \in Bank)
    BY <1>2, <1>12 DEF Owned, OwnersFit
  <2> QED BY <1>2, <1>7, <1>8, <1>9, <1>12, <2>1, <2>2, ActsOwned
<1> QED BY <1>11, <1>12

-----------------------------------------------------------------------------
(* The second halves of calls *)

\* What a call does to its own slots, and then forgets or goes on with.
LEMMA OwnHand ==
  ASSUME Types, Whole, NEW w \in Workers
  PROVE  /\ calls[w].hand \in SUBSET AllSlots
         /\ \A v \in Workers \ {w} : calls[v].hand \cap calls[w].hand = {}
         /\ calls[w].op \notin {"split", "empty"} => \A s \in calls[w].hand : ~Split(s)
         /\ inserted \in Nat
  BY PartTypes, PartInHand DEF Whole, HandsApart, Split

\* An idle call fits.
LEMMA IdleFits ==
  ASSUME NEW w, calls'[w] = AtRest
  PROVE  CallFits(w)'
  BY DEF CallFits, AtRest

\* With the call that ended its hand is free.
LEMMA EndsHand ==
  ASSUME Types, Whole, NEW w \in Workers, Ends(w)
  PROVE  /\ calls'[w] = AtRest /\ calls'[w].hand = {} /\ \A v \in Workers \ {w} : calls'[v] = calls[v]
         /\ \A s \in calls[w].hand : ~Split(s)'
<1>1. calls'[w] = AtRest /\ \A v \in Workers \ {w} : calls'[v] = calls[v]
  BY DEF Types, Ends
<1>2. PartOf(AtRest) = {} /\ \A c : PartOf(c) \subseteq c.hand
  BY PartInHand DEF AtRest
<1> QED BY <1>1, <1>2, OwnHand DEF AtRest, Split

\* The row is inserted, and the item gets its id in the slot that was held.
LEMMA FinishInsertKeeps ==
  ASSUME Types, Types', Whole, NEW w \in Workers, FinishInsert(w)
  PROVE  Whole' /\ (Owned /\ ~strayed' => Owned')
<1>1. /\ calls[w].op \in {"add", "split"} /\ Ends(w) /\ inserted' = inserted + 1 /\ inserted < MaxRow
      /\ UNCHANGED <<char, torn, strayed>>
  BY DEF FinishInsert
<1>2. PICK s \in AllSlots : /\ calls[w].hand = {s} /\ calls[w].held[s] = slot[s] /\ slot[s].kind # 0
  BY <1>1 DEF Whole, CallFits, InsertFits
<1>3. /\ rows' = [rows EXCEPT ![inserted'] = RowAt(s, slot[s])]
      /\ slot' = [slot EXCEPT ![s].id = inserted']
  BY <1>2 DEF FinishInsert
<1>4. /\ slot \in [AllSlots -> SlotRecs] /\ rows \in [RowIds -> RowRecs \cup {Null}] /\ inserted \in Nat
      /\ slot[s] \in SlotRecs /\ inserted' \in RowIds /\ inserted' # 0
  BY <1>1, PartTypes, InventoryAssumption DEF Types, BagTypeOK, RowIds
<1>5. /\ slot'[s].id = inserted' /\ slot'[s].kind = slot[s].kind /\ slot'[s].owner = slot[s].owner
      /\ RowAt(s, slot'[s]) = RowAt(s, slot[s])
      /\ \A x \in AllSlots \ {s} : slot'[x] = slot[x]
  BY <1>3, <1>4 DEF SlotRecs, RowAt
<1>6. \A n \in RowIds : rows'[n] = IF n = inserted' THEN RowAt(s, slot[s]) ELSE rows[n]
  BY <1>3, <1>4
<1>7. RowAt(s, slot[s]).kind # 0 /\ RowAt(s, slot[s]).owner = slot[s].owner /\ RowAt(s, slot[s]).at = s
  BY <1>2 DEF RowAt
<1>8. slot[s].owner \in {char, Null}
  BY <1>2 DEF Whole, RowsFit
<1>9. inserted' \in (inserted + 1)..inserted' /\ \A n \in (inserted + 1)..inserted' : n = inserted'
  BY <1>1, <1>4
<1>10. /\ calls'[w] = AtRest /\ calls'[w].hand = {} /\ \A v \in Workers \ {w} : calls'[v] = calls[v]
       /\ ~Split(s)' /\ \A v \in Workers \ {w} : calls[v].hand \cap {s} = {}
  BY <1>1, <1>2, EndsHand, OwnHand
<1>11. Acts({s}, {w}) /\ {w} \in SUBSET Workers /\ {s} \in SUBSET AllSlots
  <2>1. \A n \in RowIds : \/ rows'[n] = rows[n]
                          \/ n = inserted' /\ rows'[n].kind # 0 /\ rows'[n].owner \in {char, Null}
    BY <1>6, <1>7, <1>8
  <2>2. inserted' >= inserted
    BY <1>1, <1>4
  <2> QED BY <1>1, <1>2, <1>5, <1>8, <1>9, <1>10, <2>1, <2>2 DEF Acts
<1>12. Whole'
  <2>1. CallFits(w)'
    BY <1>10, IdleFits
  <2>2. SlotFits(s)'
    BY <1>2, <1>4, <1>5, <1>6 DEF SlotFits, Known
  <2> QED BY <1>11, <2>1, <2>2, ActsWhole
<1>13. ASSUME Owned PROVE Owned'
  <2>1. slot[s].owner = Null <=> s \in Bank
    BY <1>2, <1>13 DEF Owned, OwnersFit
  <2>2. \A n \in RowIds : rows'[n] = rows[n] \/ (rows'[n].owner = Null <=> rows'[n].at \in Bank)
    BY <1>6, <1>7, <2>1
  <2>3. \A n \in (inserted + 1)..inserted' : \E y \in {s} : slot'[y].id = n /\ ~Split(y)'
    BY <1>5, <1>9, <1>10
  <2>4. slot[s].id # 0 => Split(s)
    BY <1>1, <1>2 DEF Whole, CallFits, InsertFits, Split, PartOf
  <2> QED BY <1>5, <1>11, <1>13, <2>1, <2>2, <2>3, <2>4, ActsOwned
<1> QED BY <1>12, <1>13

\* The row of an item to be removed is deleted; the slot stays in hand.
LEMMA DeleteRowKeeps ==
  ASSUME Types, Types', Whole, NEW w \in Workers, DeleteItemRow(w)
  PROVE  Whole' /\ (Owned /\ ~strayed' => Owned')
<1>1. /\ calls[w].op = "delete" /\ UNCHANGED <<char, slot, inserted>>
      /\ calls' = [calls EXCEPT ![w].op = "blank"]
  BY DEF DeleteItemRow
<1>2. PICK s \in AllSlots : calls[w].hand = {s} /\ Known(slot[s]) /\ rows[slot[s].id] # Null
  BY <1>1 DEF Whole, CallFits, RemoveFits
<1>3. rows' = Delete(rows, slot[s])
  BY <1>2 DEF DeleteItemRow
<1>4. slot[s].id \in RowIds /\ slot[s].id # 0 /\ inserted \in Nat /\ rows \in [RowIds -> RowRecs \cup {Null}]
  BY <1>2, PartTypes DEF Known, Types, BagTypeOK
<1>5. \A n \in RowIds : rows'[n] = IF n = slot[s].id THEN Null ELSE rows[n]
  BY <1>3, <1>4 DEF Delete
<1>6. /\ calls'[w].op = "blank" /\ calls'[w].hand = {s} /\ \A v \in Workers \ {w} : calls'[v] = calls[v]
  <2>1. calls[w] \in CallRecs /\ calls \in [Workers -> CallRecs]
    BY DEF Types
  <2> QED BY <1>1, <1>2, <2>1 DEF CallRecs
<1>7. \A v \in Workers \ {w} : calls[v].hand \cap {s} = {}
  BY <1>2, OwnHand
<1>8. ~Split(s) /\ ~Split(s)'
  <2>1. ~Split(s)
    BY <1>1, <1>2, OwnHand
  <2>2. PartOf(calls'[w]) = {}
    BY <1>6, PartInHand
  <2> QED BY <1>6, <2>1, <2>2 DEF Split
<1>9. slot'[s].kind # 0 => slot'[s].owner \in {char, Null}
  BY <1>1 DEF Whole, RowsFit
<1>10. Acts({s}, {w}) /\ {w} \in SUBSET Workers /\ {s} \in SUBSET AllSlots
  <2>1. inserted' >= inserted
    BY <1>1, <1>4
  <2> QED BY <1>1, <1>2, <1>4, <1>5, <1>6, <1>7, <1>8, <1>9, <2>1 DEF Acts
<1>11. Whole'
  <2>1. CallFits(w)'
    BY <1>1, <1>2, <1>4, <1>5, <1>6 DEF CallFits, RemoveFits, Known
  <2>2. s \in InHand'
    BY <1>6 DEF InHand
  <2> QED BY <1>10, <2>1, <2>2, ActsWhole
<1>12. ASSUME Owned PROVE Owned'
  <2>1. slot'[s].kind # 0 => (slot'[s].owner = Null <=> s \in Bank)
    BY <1>1, <1>12 DEF Owned, OwnersFit
  <2>2. \A m \in (inserted + 1)..inserted' : FALSE
    BY <1>1, <1>4
  <2> QED BY <1>4, <1>5, <1>10, <1>12, <2>1, <2>2, ActsOwned
<1> QED BY <1>11, <1>12

\* Then the slot is blanked.
LEMMA FinishRemoveKeeps ==
  ASSUME Types, Types', Whole, NEW w \in Workers, FinishRemove(w)
  PROVE  Whole' /\ (Owned /\ ~strayed' => Owned')
<1>1. /\ calls[w].op \in {"blank", "combine"} /\ UNCHANGED <<char, rows, inserted>> /\ Ends(w)
      /\ slot' = [x \in AllSlots |-> IF x \in calls[w].hand THEN NewSlot ELSE slot[x]]
  BY DEF FinishRemove
<1>2. PICK s \in AllSlots : calls[w].hand = {s} /\ Known(slot[s]) /\ rows[slot[s].id] = Null
  BY <1>1 DEF Whole, CallFits, RemoveFits
<1>3. slot'[s] = NewSlot /\ \A x \in AllSlots \ {s} : slot'[x] = slot[x]
  BY <1>1, <1>2
<1>4. /\ calls'[w] = AtRest /\ calls'[w].hand = {} /\ \A v \in Workers \ {w} : calls'[v] = calls[v]
      /\ \A v \in Workers \ {w} : calls[v].hand \cap {s} = {}
      /\ inserted \in Nat
  BY <1>1, <1>2, EndsHand, OwnHand
<1>5. \A m \in (inserted + 1)..inserted' : FALSE
  BY <1>1, <1>4
<1>6. Acts({s}, {w}) /\ {w} \in SUBSET Workers /\ {s} \in SUBSET AllSlots
  <2>1. inserted' >= inserted
    BY <1>1, <1>4
  <2> QED BY <1>1, <1>2, <1>3, <1>4, <2>1 DEF Acts, NewSlot
<1>7. Whole'
  <2>1. CallFits(w)'
    BY <1>4, IdleFits
  <2>2. SlotFits(s)'
    BY <1>3 DEF SlotFits
  <2> QED BY <1>6, <2>1, <2>2, ActsWhole
<1>8. ASSUME Owned PROVE Owned'
  <2>1. slot'[s].kind = 0 /\ rows'[slot[s].id] = Null
    BY <1>1, <1>2, <1>3 DEF NewSlot
  <2>2. \A n \in RowIds : rows'[n] = rows[n]
    BY <1>1
  <2> QED BY <1>5, <1>6, <1>8, <2>1, <2>2, ActsOwned
<1> QED BY <1>7, <1>8

\* So is the slot that a split emptied, and the part is held then.
LEMMA EmptySlotKeeps ==
  ASSUME Types, Types', Whole, NEW w \in Workers, EmptySlot(w)
  PROVE  Whole' /\ (Owned /\ ~strayed' => Owned')
<1>1. /\ calls[w].op = "empty" /\ UNCHANGED <<char, rows, inserted>>
      /\ slot' = [x \in AllSlots |-> IF x \in calls[w].todo THEN NewSlot ELSE slot[x]]
  BY DEF EmptySlot
<1>2. PICK s \in AllSlots, t \in AllSlots :
        /\ s # t /\ calls[w].hand = {s, t} /\ calls[w].todo = {s} /\ Known(slot[t])
        /\ slot[s].id = slot[t].id /\ rows[slot[s].id] = Null
  BY <1>1 DEF Whole, CallFits, EmptyFits
<1> DEFINE S == {s, t}
<1>3. slot'[s] = NewSlot /\ \A x \in AllSlots \ {s} : slot'[x] = slot[x]
  BY <1>1, <1>2
<1>4. /\ calls'[w].op = "split" /\ calls'[w].hand = {t} /\ calls'[w].held[t] = slot[t]
      /\ \A v \in Workers \ {w} : calls'[v] = calls[v]
  <2>1. calls[w].hand \ calls[w].todo = {t}
    BY <1>2
  <2>2. calls' = [calls EXCEPT ![w] = [op |-> "split", hand |-> {t}, held |-> [x \in {t} |-> slot[x]], todo |-> {}]]
    BY <2>1 DEF EmptySlot
  <2> QED BY <2>2 DEF Types
<1>5. \A v \in Workers \ {w} : calls[v].hand \cap S = {}
  BY <1>2, OwnHand
<1>6. ~Split(s)
  <2>1. s \notin PartOf(calls[w])
    BY <1>1, <1>2 DEF PartOf
  <2>2. \A v \in Workers \ {w} : s \notin PartOf(calls[v])
    BY <1>5, PartInHand
  <2> QED BY <2>1, <2>2 DEF Split
<1>7. Split(t)' /\ t \in InHand'
  BY <1>4 DEF Split, PartOf, InHand
<1>8. inserted \in Nat /\ slot[t].owner \in {char, Null} /\ slot[t].kind # 0 /\ slot[t].id # 0
  BY <1>2, OwnHand DEF Whole, RowsFit, Known
<1>9. Acts(S, {w}) /\ {w} \in SUBSET Workers /\ S \in SUBSET AllSlots
  <2>1. inserted' >= inserted
    BY <1>1, <1>8
  <2>2. slot'[t] = slot[t]
    BY <1>2, <1>3
  <2> QED BY <1>1, <1>2, <1>3, <1>4, <1>5, <1>6, <1>8, <2>1, <2>2 DEF Acts, NewSlot
<1>10. Whole'
  <2>1. CallFits(w)'
    BY <1>2, <1>3, <1>4, <1>8 DEF CallFits, InsertFits
  <2>2. \A x \in S : x \notin InHand' => SlotFits(x)'
    BY <1>3, <1>7 DEF SlotFits
  <2>3. \A x, y \in S : x # y /\ slot'[x].id = slot'[y].id /\ slot'[x].id # 0 => Split(x)' \/ Split(y)'
    BY <1>7
  <2> HIDE DEF S
  <2> QED BY <1>9, <2>1, <2>2, <2>3, ActsWhole
<1>11. ASSUME Owned PROVE Owned'
  <2>1. \A x \in S : rows'[slot[x].id] = Null
    BY <1>1, <1>2
  <2>2. \A x \in S : slot'[x].kind # 0 => (slot'[x].owner = Null <=> x \in Bank)
    BY <1>2, <1>3, <1>11 DEF Owned, OwnersFit, NewSlot
  <2>3. \A n \in RowIds : rows'[n] = rows[n]
    BY <1>1
  <2>4. \A m \in (inserted + 1)..inserted' : FALSE
    BY <1>1, <1>8
  <2> HIDE DEF S
  <2> QED BY <1>9, <1>11, <2>1, <2>2, <2>3, <2>4, ActsOwned
<1> QED BY <1>10, <1>11

\* What an arrangement of p knows: its copies are the slots, each once, and their rows.
Copies(p, held) ==
  /\ \A s, t \in p : s # t /\ held[s].id # 0 => held[s].id # held[t].id
  /\ \A s \in p : \E x \in p : held[s] = slot[x] /\ ~Split(x)
  /\ \A x \in p : \E s \in p : held[s] = slot[x]
\* What the rows say of them: the slots they came from, or, once saved, where they will be.
CopyRows(p, held, todo) ==
  \A s \in p :
    \/ held[s] = NewSlot
    \/ /\ held[s].kind # 0 /\ held[s].id # 0 /\ held[s].id \in RowIds /\ rows[held[s].id] # Null
       /\ held[s].owner \in {char, Null}
       /\ \E x \in p : rows[held[s].id] = RowAt(x, held[s]) /\ (s \notin todo => x = s)

\* An arrangement that is under way has such copies.
LEMMA Arranged ==
  ASSUME Types, Whole, NEW w \in Workers, calls[w].op = "arrange"
  PROVE  \E p \in Parts : \E held \in [p -> SlotRecs], todo \in SUBSET p :
           /\ p = calls[w].hand /\ held = calls[w].held /\ todo = calls[w].todo /\ p \in SUBSET AllSlots
           /\ Copies(p, held) /\ CopyRows(p, held, todo)
           /\ \A x, y \in p : x \in Bank <=> y \in Bank
<1>1. ArrangeFits(calls[w]) /\ calls[w].hand \in SUBSET AllSlots /\ calls[w].todo \subseteq calls[w].hand
      /\ calls[w].held \in [calls[w].hand -> SlotRecs] /\ calls[w].hand \in Parts
  BY PartTypes DEF Whole, CallFits, Types, ArrangeFits
<1>2. PICK p \in Parts : p = calls[w].hand /\ p \in SUBSET AllSlots
  BY <1>1
<1>3. PICK held \in [p -> SlotRecs] : held = calls[w].held
  BY <1>1, <1>2
<1>4. PICK todo \in SUBSET p : todo = calls[w].todo
  BY <1>1, <1>2
<1>5. PICK f \in Bijection(p, p) : \A s \in p : held[s] = slot[f[s]]
  BY <1>1, <1>2, <1>3 DEF ArrangeFits
<1>6. /\ f \in [p -> p] /\ \A s, t \in p : s # t => f[s] # f[t]
      /\ \A x \in p : \E s \in p : f[s] = x
  BY DEF Bijection, Injection, Surjection, IsInjective
<1>7. \A x \in p : ~Split(x)
  BY <1>2, OwnHand
<1>8. \A s, t \in p : s # t /\ held[s].id # 0 => held[s].id # held[t].id
  BY <1>2, <1>5, <1>6, <1>7 DEF Whole, IdsApart
<1>9. Copies(p, held)
  BY <1>5, <1>6, <1>7, <1>8 DEF Copies
<1>10. CopyRows(p, held, todo)
  <2> SUFFICES ASSUME NEW s \in p, held[s] # NewSlot
               PROVE  /\ held[s].kind # 0 /\ held[s].id # 0 /\ held[s].id \in RowIds /\ rows[held[s].id] # Null
                      /\ held[s].owner \in {char, Null}
                      /\ \E x \in p : rows[held[s].id] = RowAt(x, held[s]) /\ (s \notin todo => x = s)
    BY DEF CopyRows
  <2>1. /\ held[s].kind # 0 /\ held[s].id # 0
        /\ \E x \in p : rows[held[s].id] = RowAt(x, held[s]) /\ (s \notin todo => x = s)
    BY <1>1, <1>2, <1>3, <1>4 DEF ArrangeFits, Known
  <2>2. held[s] = slot[f[s]] /\ f[s] \in AllSlots
    BY <1>2, <1>5, <1>6
  <2>3. held[s].id \in RowIds /\ held[s].owner \in {char, Null} /\ rows[held[s].id] # Null
    BY <1>2, <2>1, <2>2, PartTypes DEF Whole, RowsFit
  <2> QED BY <2>1, <2>3
<1>11. \A x, y \in p : x \in Bank <=> y \in Bank
  BY InventoryAssumption DEF Parts
<1> QED BY <1>2, <1>3, <1>4, <1>9, <1>10, <1>11

\* A copy is saved under its new slot number.
LEMMA SaveCopyKeeps ==
  ASSUME Types, Types', Whole, NEW w \in Workers, SaveCopy(w)
  PROVE  Whole' /\ (Owned /\ ~strayed' => Owned')
<1>1. /\ calls[w].op = "arrange" /\ UNCHANGED <<char, slot, inserted>>
  BY DEF SaveCopy
<1>0. PICK p \in Parts : \E held \in [p -> SlotRecs], todo \in SUBSET p :
           /\ p = calls[w].hand /\ held = calls[w].held /\ todo = calls[w].todo /\ p \in SUBSET AllSlots
           /\ Copies(p, held) /\ CopyRows(p, held, todo)
           /\ \A x, y \in p : x \in Bank <=> y \in Bank
  BY <1>1, Arranged
<1>a. PICK held \in [p -> SlotRecs], todo \in SUBSET p :
           /\ p = calls[w].hand /\ held = calls[w].held /\ todo = calls[w].todo /\ p \in SUBSET AllSlots
           /\ Copies(p, held) /\ CopyRows(p, held, todo)
           /\ \A x, y \in p : x \in Bank <=> y \in Bank
  BY <1>0
<1>2. PICK s \in todo : rows' = Update(rows, s, held[s]) /\ calls' = [calls EXCEPT ![w].todo = @ \ {s}]
  <2>1. todo \in SUBSET Nat /\ todo # {}
    BY <1>a, InventoryAssumption DEF SaveCopy
  <2>2. Min(todo) \in todo
    BY <2>1, MinIn
  <2> QED BY <1>a, <2>2 DEF SaveCopy
<1>3. s \in p /\ held[s] \in SlotRecs /\ rows \in [RowIds -> RowRecs \cup {Null}] /\ inserted \in Nat
  BY PartTypes DEF Types, BagTypeOK
<1>b. held[s] # NewSlot => /\ held[s].kind # 0 /\ held[s].id # 0 /\ held[s].id \in RowIds
                           /\ rows[held[s].id] # Null /\ held[s].owner \in {char, Null}
  BY <1>a, <1>3 DEF CopyRows
<1>4. \A n \in RowIds : rows'[n] = IF held[s] # NewSlot /\ n = held[s].id THEN RowAt(s, held[s]) ELSE rows[n]
  <2>1. CASE held[s] = NewSlot
    BY <1>2, <2>1 DEF Update, NewSlot
  <2>2. CASE held[s] # NewSlot
    <3>1. PICK r : r = held[s]
      OBVIOUS
    <3>2. \A n \in RowIds : Update(rows, s, r)[n] = IF n = r.id THEN RowAt(s, r) ELSE rows[n]
      BY <1>3, <1>b, <2>2, <3>1, Updated
    <3> QED BY <1>2, <2>2, <3>1, <3>2
  <2> QED BY <2>1, <2>2
<1>5. /\ calls'[w].op = "arrange" /\ calls'[w].hand = p /\ calls'[w].held = held
      /\ calls'[w].todo = todo \ {s} /\ \A v \in Workers \ {w} : calls'[v] = calls[v]
  <2>1. calls[w] \in CallRecs /\ calls \in [Workers -> CallRecs]
    BY DEF Types
  <2> QED BY <1>1, <1>2, <1>a, <2>1 DEF CallRecs
<1>6. \A v \in Workers \ {w} : calls[v].hand \cap p = {}
  BY <1>a, OwnHand
<1>7. \A x \in p : ~Split(x) /\ ~Split(x)' /\ x \in InHand' /\ x \in AllSlots
  <2>1. \A x \in p : ~Split(x)
    BY <1>1, <1>a, OwnHand
  <2>2. PartOf(calls'[w]) = {}
    BY <1>5, PartInHand
  <2>3. \A x \in p : ~Split(x)'
    BY <1>5, <2>1, <2>2 DEF Split
  <2> QED BY <1>a, <1>5, <2>1, <2>3 DEF InHand
<1>8. PICK y \in p : held[s] = slot[y]
  BY <1>3, <1>a DEF Copies
<1>9. RowAt(s, held[s]).kind = held[s].kind /\ RowAt(s, held[s]).at = s /\ RowAt(s, held[s]).owner = held[s].owner
  BY DEF RowAt
<1>10. Acts(p, {w}) /\ {w} \in SUBSET Workers
  <2>1. inserted' >= inserted
    BY <1>1, <1>3
  <2>2. \A n \in RowIds : \/ rows'[n] = rows[n]
                          \/ /\ n = slot[y].id /\ rows'[n].kind # 0 /\ rows'[n].owner \in {char, Null}
    BY <1>4, <1>8, <1>9, <1>b
  <2>3. \A x \in p : slot'[x].kind # 0 => slot'[x].owner \in {char, Null}
    BY <1>1, <1>a DEF Whole, RowsFit
  <2> QED BY <1>1, <1>a, <1>5, <1>6, <1>7, <2>1, <2>2, <2>3 DEF Acts
<1>11. Whole'
  <2>1. CallFits(w)'
    <3>1. ASSUME NEW u \in p, held[u] # NewSlot
          PROVE  /\ Known(held[u])
                 /\ \E x \in p : rows'[held[u].id] = RowAt(x, held[u]) /\ (u \notin todo \ {s} => x = u)
      <4>1. /\ Known(held[u]) /\ held[u].id \in RowIds
            /\ \E x \in p : rows[held[u].id] = RowAt(x, held[u]) /\ (u \notin todo => x = u)
        BY <1>a, <3>1 DEF CopyRows, Known
      <4>2. CASE u = s
        BY <1>3, <1>4, <3>1, <4>1, <4>2
      <4>3. CASE u # s
        <5>1. held[u].id # held[s].id
          BY <1>a, <1>3, <4>1, <4>3 DEF Known, Copies
        <5> QED BY <1>4, <4>1, <4>3, <5>1
      <4> QED BY <4>2, <4>3
    <3>2. PICK f \in Bijection(p, p) : \A u \in p : held[u] = slot'[f[u]]
      BY <1>1, <1>a DEF Whole, CallFits, ArrangeFits
    <3>3. ArrangeFits(calls[w])'
      BY <1>5, <3>1, <3>2 DEF ArrangeFits
    <3> QED BY <1>5, <3>3 DEF CallFits
  <2>2. \A x, z \in p : x # z /\ slot'[x].id = slot'[z].id /\ slot'[x].id # 0 => Split(x)' \/ Split(z)'
    BY <1>1, <1>7 DEF Whole, IdsApart
  <2>3. p \in SUBSET AllSlots /\ \A x \in p : x \notin InHand' => SlotFits(x)'
    BY <1>a, <1>7
  <2> QED BY <1>10, <2>1, <2>2, <2>3, ActsWhole
<1>12. ASSUME Owned PROVE Owned'
  <2>1. held[s] # NewSlot => (held[s].owner = Null <=> s \in Bank)
    BY <1>3, <1>8, <1>a, <1>b, <1>12 DEF Owned, OwnersFit
  <2>2. \A n \in RowIds : rows'[n] = rows[n] \/ (rows'[n].owner = Null <=> rows'[n].at \in Bank)
    BY <1>4, <1>9, <2>1
  <2>3. \A x \in p : slot'[x].id = slot[x].id /\ (slot'[x].kind # 0 => (slot'[x].owner = Null <=> x \in Bank))
    BY <1>1, <1>a, <1>12 DEF Owned, OwnersFit
  <2>4. \A m \in (inserted + 1)..inserted' : FALSE
    BY <1>1, <1>3
  <2>5. p \in SUBSET AllSlots /\ \A x \in p : \E z \in p : slot'[z].id = slot[x].id /\ ~Split(z)'
    BY <1>a, <1>7, <2>3
  <2> QED BY <1>10, <1>12, <2>2, <2>3, <2>4, <2>5, ActsOwned
<1> QED BY <1>11, <1>12

\* All copies are saved, and become the slots.
LEMMA FinishArrangeKeeps ==
  ASSUME Types, Types', Whole, NEW w \in Workers, FinishArrange(w)
  PROVE  Whole' /\ (Owned /\ ~strayed' => Owned')
<1>1. /\ calls[w].op = "arrange" /\ calls[w].todo = {} /\ UNCHANGED <<char, rows, inserted>> /\ Ends(w)
      /\ slot' = [s \in AllSlots |-> IF s \in calls[w].hand THEN calls[w].held[s] ELSE slot[s]]
  BY DEF FinishArrange
<1>0. PICK p \in Parts : \E held \in [p -> SlotRecs], todo \in SUBSET p :
           /\ p = calls[w].hand /\ held = calls[w].held /\ todo = calls[w].todo /\ p \in SUBSET AllSlots
           /\ Copies(p, held) /\ CopyRows(p, held, todo)
           /\ \A x, y \in p : x \in Bank <=> y \in Bank
  BY <1>1, Arranged
<1>a. PICK held \in [p -> SlotRecs] :
           /\ p = calls[w].hand /\ held = calls[w].held /\ p \in SUBSET AllSlots
           /\ Copies(p, held) /\ CopyRows(p, held, {})
           /\ \A x, y \in p : x \in Bank <=> y \in Bank
  BY <1>0, <1>1
<1>2. /\ \A s \in p : slot'[s] = held[s] /\ \E x \in p : slot'[s] = slot[x] /\ ~Split(x)
      /\ \A s \in AllSlots \ p : slot'[s] = slot[s]
      /\ \A x \in p : \E s \in p : slot'[s] = slot[x]
      /\ \A s, t \in p : s # t /\ slot'[s].id = slot'[t].id => slot'[s].id = 0
      /\ p \in SUBSET AllSlots
  <2>1. p \in SUBSET AllSlots /\ p = calls[w].hand /\ held = calls[w].held
    BY <1>a
  <2>2. \A s \in p : slot'[s] = held[s]
    BY <1>1, <2>1
  <2>3. \A s \in AllSlots \ p : slot'[s] = slot[s]
    BY <1>1, <2>1
  <2>4. Copies(p, held)
    BY <1>a
  <2>5. \A s \in p : \E x \in p : slot'[s] = slot[x] /\ ~Split(x)
    BY <2>2, <2>4 DEF Copies
  <2>6. \A x \in p : \E s \in p : slot'[s] = slot[x]
    BY <2>2, <2>4 DEF Copies
  <2>7. \A s, t \in p : s # t /\ slot'[s].id = slot'[t].id => slot'[s].id = 0
    BY <2>2, <2>4 DEF Copies
  <2> QED BY <2>1, <2>2, <2>3, <2>5, <2>6, <2>7
<1>3. /\ calls'[w] = AtRest /\ calls'[w].hand = {} /\ \A v \in Workers \ {w} : calls'[v] = calls[v]
      /\ \A v \in Workers \ {w} : calls[v].hand \cap p = {}
      /\ inserted \in Nat
      /\ \A s \in p : ~Split(s)'
  BY <1>1, <1>a, EndsHand, OwnHand
<1>4. Acts(p, {w}) /\ {w} \in SUBSET Workers
  <2>1. inserted' >= inserted
    BY <1>1, <1>3
  <2>2. ASSUME NEW x \in p, slot'[x].kind # 0 PROVE slot'[x].owner \in {char, Null}
    <3>1. PICK y \in p : slot'[x] = slot[y] /\ y \in AllSlots
      BY <1>2
    <3> QED BY <2>2, <3>1 DEF Whole, RowsFit
  <2>3. \A x \in p : \E y \in p : slot'[x].id = slot[y].id /\ ~Split(y)
    BY <1>2
  <2> QED BY <1>1, <1>a, <1>2, <1>3, <2>1, <2>2, <2>3 DEF Acts
<1>5. Whole'
  <2>1. CallFits(w)'
    BY <1>3, IdleFits
  <2>2. ASSUME NEW s \in p PROVE SlotFits(s)'
    <3>1. \/ slot'[s] = NewSlot
          \/ /\ slot'[s].kind # 0 /\ slot'[s].id # 0
             /\ rows'[slot'[s].id] = RowAt(s, slot'[s])
      BY <1>1, <1>2, <1>a DEF CopyRows
    <3> QED BY <3>1 DEF SlotFits, Known
  <2>3. \A s \in p : s \notin InHand' => SlotFits(s)'
    BY <2>2
  <2>4. \A s, t \in p : s # t /\ slot'[s].id = slot'[t].id /\ slot'[s].id # 0 => Split(s)' \/ Split(t)'
    BY <1>2
  <2>5. p \in SUBSET AllSlots
    BY <1>2
  <2> QED BY <1>4, <2>1, <2>3, <2>4, <2>5, ActsWhole
<1>6. ASSUME Owned PROVE Owned'
  <2>1. ASSUME NEW x \in p, slot'[x].kind # 0 PROVE slot'[x].owner = Null <=> x \in Bank
    <3>1. PICK y \in p : slot'[x] = slot[y] /\ y \in AllSlots
      BY <1>2
    <3>2. slot[y].owner = Null <=> y \in Bank
      BY <1>6, <2>1, <3>1 DEF Owned, OwnersFit
    <3> QED BY <1>a, <3>1, <3>2
  <2>2. \A m \in (inserted + 1)..inserted' : FALSE
    BY <1>1, <1>3
  <2>3. \A n \in RowIds : rows'[n] = rows[n]
    BY <1>1
  <2> QED BY <1>2, <1>3, <1>4, <1>6, <2>1, <2>2, <2>3, ActsOwned
<1> QED BY <1>5, <1>6

-----------------------------------------------------------------------------
(* Loading *)

\* Parts that are being arranged.
Arranging == UNION {calls[w].hand : w \in {v \in Workers : calls[v].op = "arrange"}}

\* A row that the character online loads is where its item is, unless that is being arranged.
LEMMA PlaceOf ==
  ASSUME Types, Whole, Shown, NEW n \in RowIds, Loads(char, n), rows[n].at \notin Arranging
  PROVE  slot[rows[n].at].id = n /\ rows[n].at \in AllSlots
<1>1. PICK s \in AllSlots : slot[s].id = n /\ ~Split(s)
  BY DEF Shown
<1>2. rows[n] # Null /\ n # 0
  BY PartTypes DEF Loads, RowIds
<1>3. CASE s \notin InHand
  <2>1. slot[s] # NewSlot
    BY <1>1, <1>2 DEF NewSlot
  <2>2. rows[n] = RowAt(s, slot[s])
    BY <1>1, <1>3, <2>1 DEF Whole, SlotFits
  <2> QED BY <1>1, <2>2 DEF RowAt
<1>4. CASE s \in InHand
  <2>1. PICK w \in Workers : s \in calls[w].hand
    BY <1>4 DEF InHand
  <2>2. CallFits(w) /\ calls[w].op \in Ops
    BY PartTypes DEF Whole
  <2>3. calls[w].op # "idle"
    BY <2>1, <2>2 DEF CallFits, AtRest
  <2>4. calls[w].op \notin {"add", "split"}
    <3>1. calls[w].op # "split"
      BY <1>1, <2>1 DEF Split, PartOf
    <3> QED BY <1>1, <1>2, <2>1, <2>2, <3>1 DEF CallFits, InsertFits
  <2>7. calls[w].op \notin {"blank", "combine", "empty"}
    <3>1. calls[w].op \in {"blank", "combine"} => rows[slot[s].id] = Null
      BY <2>1, <2>2 DEF CallFits, RemoveFits
    <3>2. calls[w].op = "empty" => rows[slot[s].id] = Null
      BY <2>1, <2>2 DEF CallFits, EmptyFits
    <3> QED BY <1>1, <1>2, <3>1, <3>2
  <2>5. CASE calls[w].op = "delete"
    BY <1>1, <2>1, <2>2, <2>5 DEF CallFits, RemoveFits
  <2>6. CASE calls[w].op = "arrange"
    <3>1. PICK p \in Parts : \E held \in [p -> SlotRecs], todo \in SUBSET p :
             /\ p = calls[w].hand /\ held = calls[w].held /\ todo = calls[w].todo /\ p \in SUBSET AllSlots
             /\ Copies(p, held) /\ CopyRows(p, held, todo)
             /\ \A x, y \in p : x \in Bank <=> y \in Bank
      BY <2>6, Arranged
    <3>2. PICK held \in [p -> SlotRecs], todo \in SUBSET p :
             /\ p = calls[w].hand /\ Copies(p, held) /\ CopyRows(p, held, todo)
      BY <3>1
    <3>3. PICK u \in p : held[u] = slot[s]
      BY <2>1, <3>2 DEF Copies
    <3>4. held[u] # NewSlot
      BY <1>1, <1>2, <3>3 DEF NewSlot
    <3>5. PICK x \in p : rows[n] = RowAt(x, held[u])
      BY <1>1, <3>2, <3>3, <3>4 DEF CopyRows
    <3>6. rows[n].at \in calls[w].hand
      BY <3>2, <3>5 DEF RowAt
    <3> QED BY <2>6, <3>6 DEF Arranging
  <2> QED BY <2>2, <2>3, <2>4, <2>5, <2>6, <2>7 DEF Ops
<1> QED BY <1>3, <1>4

\* Two rows that a character loads are not in one slot, unless that is being arranged.
LEMMA LoadsApart ==
  ASSUME Types, Whole, Owned, NEW c, NEW m \in RowIds, NEW n \in RowIds, m # n,
         Loads(c, m), Loads(c, n), rows[n].at \notin Arranging
  PROVE  rows[m].at # rows[n].at
<1>1. SUFFICES ASSUME rows[m].at = rows[n].at PROVE FALSE
  OBVIOUS
<1>2. rows[m].owner = rows[n].owner
  BY <1>1 DEF Loads, Owned, OwnersFit
<1>3. CASE rows[m].owner \in {char, Null}
  <2>1. slot[rows[m].at].id = m
    BY <1>1, <1>3, PlaceOf DEF Loads, Owned
  <2>2. slot[rows[n].at].id = n
    BY <1>2, <1>3, PlaceOf DEF Loads, Owned
  <2> QED BY <1>1, <2>1, <2>2
<1>4. CASE rows[m].owner \notin {char, Null}
  BY <1>1, <1>2, <1>4 DEF Owned, OthersApart, Loads
<1> QED BY <1>3, <1>4

\* What a character finds in a slot when it is loaded.
LEMMA Loaded ==
  ASSUME Types, NEW c \in Owners, NEW order \in Bijection(RowIds, RowIds), NEW s \in AllSlots
  PROVE  /\ \/ InventorySlots(c, order)[s] = NewSlot
            \/ \E n \in RowIds : /\ Loads(c, n) /\ rows[n].at = s
                                 /\ InventorySlots(c, order)[s] = FromRow(n)
         /\ \A n \in RowIds : /\ Loads(c, n) /\ rows[n].at = s
                              /\ \A m \in RowIds \ {n} : Loads(c, m) => rows[m].at # s
                              => InventorySlots(c, order)[s] = FromRow(n)
<1> DEFINE Last(set) == CHOOSE n \in set : \A m \in set : order[m] <= order[n]
           found == {n \in RowIds : Loads(c, n) /\ rows[n].at = s}
           shared == {n \in found : rows[n].owner = Null}
<1>1. ASSUME NEW set \in SUBSET RowIds, set # {} PROVE Last(set) \in set
  <2>1. PICK n \in set : \A m \in set : order[m] <= order[n]
    BY <1>1, LastRow
  <2> QED BY <2>1
<1>2. InventorySlots(c, order)[s] = IF found = {} THEN NewSlot
        ELSE IF shared = {} THEN FromRow(Last(found)) ELSE FromRow(Last(shared))
  BY DEF InventorySlots
<1>3. found \in SUBSET RowIds /\ shared \in SUBSET found /\ shared \in SUBSET RowIds
  OBVIOUS
<1>4. PICK got : got = InventorySlots(c, order)[s]
  OBVIOUS
<1>5. (got = NewSlot /\ found = {}) \/ \E n \in found : got = FromRow(n)
  <2> HIDE DEF found, shared, Last
  <2> QED BY <1>1, <1>2, <1>3, <1>4
<1>6. ASSUME NEW n \in RowIds, Loads(c, n), rows[n].at = s, \A m \in RowIds \ {n} : Loads(c, m) => rows[m].at # s
      PROVE  got = FromRow(n)
  <2>1. found = {n}
    BY <1>6
  <2> QED BY <1>5, <2>1
<1> QED BY <1>4, <1>5, <1>6

\* Loading a character, with no arrangement under way.
LEMMA LoadKeeps ==
  ASSUME Types, Types', Whole, NEW c \in Owners, char' = c, UNCHANGED <<rows, inserted>>,
         \A w \in Workers : calls[w].op # "arrange", \A w \in Workers : calls'[w] = AtRest,
         NEW order \in Bijection(RowIds, RowIds), slot' = InventorySlots(c, order)
  PROVE  Whole' /\ (Owned => Owned')
<1>1. \A s \in AllSlots : \/ slot'[s] = NewSlot
                          \/ \E n \in RowIds : Loads(c, n) /\ rows[n].at = s /\ slot'[s] = FromRow(n)
  BY Loaded
<1>2. \A n \in RowIds : Loads(c, n) => /\ rows[n] # Null /\ rows[n] \in RowRecs /\ rows[n].at \in AllSlots
                                       /\ rows[n].kind # 0 /\ rows[n].owner \in {c, Null}
                                       /\ n # 0 /\ n <= inserted
  <2>1. \A n \in RowIds : n # 0 /\ n \in Nat /\ inserted \in Nat
    BY PartTypes DEF RowIds
  <2>2. \A n \in RowIds : rows[n] # Null => n <= inserted
    BY <2>1 DEF Whole, FreshIds
  <2>3. \A n \in RowIds : Loads(c, n) => rows[n] # Null /\ rows[n] \in RowRecs /\ rows[n].at \in AllSlots
    BY PartTypes DEF Loads, RowRecs
  <2> QED BY <2>1, <2>2, <2>3 DEF Loads, Whole, RowsFit
<1>3. \A n \in RowIds : rows[n] \in RowRecs => rows[n] = RowAt(rows[n].at, FromRow(n))
  BY DEF RowAt, FromRow, RowRecs
<1>4. \A w \in Workers : CallFits(w)' /\ calls'[w].hand = {} /\ calls'[w].op = "idle"
  BY IdleFits DEF AtRest
<1>5. \A s \in AllSlots : ~Split(s)'
  BY <1>4, PartInHand DEF Split
<1>6. \A s \in AllSlots : SlotFits(s)'
  <2> SUFFICES ASSUME NEW s \in AllSlots, slot'[s] # NewSlot PROVE SlotFits(s)'
    BY DEF SlotFits
  <2>1. PICK n \in RowIds : Loads(c, n) /\ rows[n].at = s /\ slot'[s] = FromRow(n)
    BY <1>1
  <2>2. slot'[s].id = n /\ slot'[s].kind = rows[n].kind
    BY <2>1 DEF FromRow
  <2>3. rows'[n] = RowAt(s, slot'[s])
    BY <1>2, <1>3, <2>1
  <2> QED BY <1>2, <2>1, <2>2, <2>3 DEF SlotFits, Known
<1>7. HandsApart'
  BY <1>4 DEF HandsApart
<1>8. \A s \in AllSlots : /\ slot'[s].id # 0 => slot'[s].id \in RowIds /\ rows[slot'[s].id].at = s
                          /\ slot'[s].id <= inserted
                          /\ slot'[s].kind # 0 => \E n \in RowIds : /\ Loads(c, n) /\ rows[n].at = s
                                                                    /\ slot'[s].owner = rows[n].owner
  <2> SUFFICES ASSUME NEW s \in AllSlots
               PROVE  /\ slot'[s].id # 0 => slot'[s].id \in RowIds /\ rows[slot'[s].id].at = s
                      /\ slot'[s].id <= inserted
                      /\ slot'[s].kind # 0 => \E n \in RowIds : /\ Loads(c, n) /\ rows[n].at = s
                                                                /\ slot'[s].owner = rows[n].owner
    OBVIOUS
  <2>1. CASE slot'[s] = NewSlot
    <3>1. slot'[s].id = 0 /\ slot'[s].kind = 0 /\ inserted \in Nat
      BY <2>1, PartTypes DEF NewSlot
    <3> QED BY <3>1
  <2>2. ASSUME NEW n \in RowIds, Loads(c, n), rows[n].at = s, slot'[s] = FromRow(n)
        PROVE  /\ slot'[s].id = n /\ slot'[s].owner = rows[n].owner /\ n <= inserted
    BY <1>2, <2>2 DEF FromRow
  <2> QED BY <1>1, <2>1, <2>2
<1>9. IdsApart'
  BY <1>8 DEF IdsApart
<1>10. FreshIds'
  BY <1>8 DEF Whole, FreshIds
<1>11. RowsFit'
  BY <1>2, <1>8 DEF Whole, RowsFit
<1>12. ASSUME Owned PROVE Owned'
  <2>1. Arranging = {}
    BY DEF Arranging
  <2>2. \A m, n \in RowIds : m # n /\ Loads(c, m) /\ Loads(c, n) => rows[m].at # rows[n].at
    BY <1>12, <2>1, LoadsApart
  <2>3. Shown'
    <3> SUFFICES ASSUME NEW n \in RowIds, Loads(char, n)' PROVE \E s \in AllSlots : slot'[s].id = n /\ ~Split(s)'
      BY DEF Shown
    <3>1. Loads(c, n)
      BY DEF Loads
    <3>2. slot'[rows[n].at] = FromRow(n) /\ rows[n].at \in AllSlots
      BY <1>2, <2>2, <3>1, Loaded
    <3> QED BY <1>5, <3>2 DEF FromRow
  <2>4. OwnersFit'
    <3>1. \A n \in RowIds : rows'[n] # Null => (rows'[n].owner = Null <=> rows'[n].at \in Bank)
      BY <1>12 DEF Owned, OwnersFit
    <3>2. \A s \in AllSlots : slot'[s].kind # 0 => (slot'[s].owner = Null <=> s \in Bank)
      BY <1>2, <1>8, <1>12 DEF Owned, OwnersFit
    <3> QED BY <3>1, <3>2 DEF OwnersFit
  <2>5. OthersApart'
    <3> SUFFICES ASSUME NEW m \in RowIds, NEW n \in RowIds, m # n, rows[m] # Null, rows[n] # Null,
                        rows[m].owner = rows[n].owner, rows[m].owner \notin {c, Null}
                 PROVE  rows[m].at # rows[n].at
      BY DEF OthersApart
    <3>1. CASE rows[m].owner = char
      <4>1. Loads(char, m) /\ Loads(char, n)
        BY <3>1 DEF Loads
      <4> QED BY <1>12, <2>1, <4>1, LoadsApart
    <3>2. CASE rows[m].owner # char
      BY <1>12, <3>2 DEF Owned, OthersApart
    <3> QED BY <3>1, <3>2
  <2> QED BY <2>3, <2>4, <2>5 DEF Owned
<1> QED BY <1>4, <1>6, <1>7, <1>9, <1>10, <1>11, <1>12 DEF Whole

-----------------------------------------------------------------------------
(* The invariant *)

\* History is not forgotten.
Remember == (~torn' => ~torn) /\ (~strayed' => ~strayed)

\* No step forgets it.
LEMMA Remembered ==
  ASSUME BagStep, Types
  PROVE  Remember
<1>1. torn \in BOOLEAN /\ strayed \in BOOLEAN
  BY DEF Types, BagTypeOK
<1>2. ASSUME torn' = torn, strayed' = strayed PROVE Remember
  BY <1>2 DEF Remember
<1>3. ASSUME ~torn, strayed' = strayed PROVE Remember
  BY <1>3 DEF Remember
<1>4. ASSUME NEW s \in AllSlots, NEW t \in AllSlots, ReplaceItem(s, t) \/ CombineItems(s, t) PROVE Remember
  <2>1. ~torn /\ strayed' = strayed
    BY <1>4 DEF ReplaceItem, CombineItems, Touches
  <2> QED BY <1>3, <2>1
<1>5. ASSUME NEW s \in AllSlots, NEW t \in AllSlots, SwapItems(s, t) PROVE Remember
  <2>1. ~torn /\ strayed' = (strayed \/ Crosses(s, t))
    BY <1>5 DEF SwapItems, Touches
  <2> QED BY <2>1 DEF Remember
<1>6. ASSUME NEW s \in AllSlots, NEW t \in AllSlots, NEW n, SplitItem(s, t, n) PROVE Remember
  <2>1. ~torn /\ strayed' = (strayed \/ Crosses(s, t))
    BY <1>6 DEF SplitItem, Touches
  <2> QED BY <2>1 DEF Remember
<1>7. ASSUME NEW k, AddItem(k) PROVE Remember
  <2>1. ~torn /\ strayed' = strayed
    BY <1>7 DEF AddItem, Touches
  <2> QED BY <1>3, <2>1
<1>8. ASSUME NEW s, RemoveItem(s) \/ DecrementItem(s) PROVE Remember
  <2>1. ~torn /\ strayed' = strayed
    BY <1>8 DEF RemoveItem, DecrementItem, Touches
  <2> QED BY <1>3, <2>1
<1>9. ASSUME NEW w, \/ FinishInsert(w) \/ DeleteItemRow(w) \/ FinishRemove(w) \/ EmptySlot(w)
                    \/ SaveCopy(w) \/ FinishArrange(w)
      PROVE  Remember
  <2>1. torn' = torn /\ strayed' = strayed
    BY <1>9 DEF FinishInsert, DeleteItemRow, FinishRemove, EmptySlot, SaveCopy, FinishArrange
  <2> QED BY <1>2, <2>1
<1>10. ASSUME SwapRefused \/ Unlock PROVE Remember
  BY <1>2, <1>10 DEF SwapRefused, Unlock
<1>11. ASSUME NEW p, BeginArrange(p) PROVE Remember
  <2>1. ~torn /\ strayed' = strayed
    BY <1>11 DEF BeginArrange, Touches
  <2> QED BY <1>3, <2>1
<1>12. ASSUME NEW p, CoolDown(p) PROVE Remember
  BY <1>2, <1>12 DEF CoolDown
<1>13. ASSUME NEW c, LoadAgain(c) PROVE Remember
  BY <1>2, <1>13 DEF LoadAgain
<1>14. ASSUME NEW c, Crash(c) PROVE Remember
  <2>1. torn' = (torn \/ \E w \in Workers : calls[w].op = "arrange") /\ strayed' = strayed
    BY <1>14 DEF Crash
  <2> QED BY <2>1 DEF Remember
<1> QED BY <1>4, <1>5, <1>6, <1>7, <1>8, <1>9, <1>10, <1>11, <1>12, <1>13, <1>14 DEF BagStep

\* A step that writes neither slots nor rows nor calls.
LEMMA SameKept ==
  ASSUME UNCHANGED <<char, slot, rows, inserted, calls>>
  PROVE  (Whole => Whole') /\ (Owned => Owned')
<1>1. \A w \in Workers : CallFits(w) => CallFits(w)'
  BY DEF CallFits, InsertFits, RemoveFits, EmptyFits, ArrangeFits, Known
<1>2. \A s \in AllSlots : (SlotFits(s) => SlotFits(s)') /\ (Split(s)' <=> Split(s))
  BY DEF SlotFits, Known, Split
<1>3. InHand' = InHand
  BY DEF InHand
<1>4. (HandsApart => HandsApart') /\ (FreshIds => FreshIds') /\ (RowsFit => RowsFit')
  BY DEF HandsApart, FreshIds, RowsFit
<1>5. IdsApart => IdsApart'
  BY <1>2 DEF IdsApart
<1>6. Whole => Whole'
  BY <1>1, <1>2, <1>3, <1>4, <1>5 DEF Whole
<1>7. Shown => Shown'
  BY <1>2 DEF Shown, Loads
<1>8. (OwnersFit => OwnersFit') /\ (OthersApart => OthersApart')
  BY DEF OwnersFit, OthersApart
<1> QED BY <1>6, <1>7, <1>8 DEF Owned

\* At the start.
LEMMA KeptInit == BagInit => Kept
<1> SUFFICES ASSUME BagInit PROVE Whole /\ Owned
  BY DEF Kept
<1>1. /\ \A s \in AllSlots : slot[s] = NewSlot
      /\ \A n \in RowIds : rows[n] = Null
      /\ \A w \in Workers : calls[w] = AtRest
      /\ inserted = 0
  BY DEF BagInit
<1>2. \A w \in Workers : CallFits(w) /\ calls[w].hand = {}
  BY <1>1 DEF CallFits, AtRest
<1>3. \A s \in AllSlots : SlotFits(s) /\ slot[s].id = 0 /\ slot[s].kind = 0
  BY <1>1 DEF SlotFits, NewSlot
<1>4. HandsApart /\ IdsApart /\ FreshIds /\ RowsFit
  BY <1>1, <1>2, <1>3 DEF HandsApart, IdsApart, FreshIds, RowsFit
<1>5. OwnersFit /\ Shown /\ OthersApart
  BY <1>1, <1>3 DEF OwnersFit, Shown, OthersApart, Loads
<1> QED BY <1>2, <1>3, <1>4, <1>5 DEF Whole, Owned

\* Every step keeps it.
LEMMA KeptStep == Types /\ Types' /\ Kept /\ [BagNext]_bagVars => Kept'
<1> SUFFICES ASSUME Types, Types', Kept, [BagNext]_bagVars PROVE Kept'
  OBVIOUS
<1>0. CASE bagVars' = bagVars
  BY <1>0, SameKept DEF bagVars, Kept
<1>n. CASE BagNext
  <2> SUFFICES ASSUME ~torn' PROVE Whole' /\ (~strayed' => Owned')
    BY DEF Kept
  <2>r. BagStep /\ ~torn /\ (~strayed' => ~strayed)
    BY <1>n, NextIsBagStep, Remembered DEF Remember
  <2>w. Whole /\ (~strayed' => Owned)
    BY <2>r DEF Kept
  <2>1. SUFFICES Whole' /\ (Owned /\ ~strayed' => Owned')
    BY <2>w
  <2>2. ASSUME NEW s \in AllSlots, NEW t \in AllSlots,
               ReplaceItem(s, t) \/ SwapItems(s, t) \/ CombineItems(s, t)
        PROVE  Whole' /\ (Owned /\ ~strayed' => Owned')
    BY <2>2, <2>w, ReplaceKeeps, SwapKeeps, CombineKeeps
  <2>3. ASSUME NEW s \in AllSlots, NEW t \in AllSlots, NEW n \in 1..MaxQty, SplitItem(s, t, n)
        PROVE  Whole' /\ (Owned /\ ~strayed' => Owned')
    BY <2>3, <2>w, SplitKeeps
  <2>4. ASSUME NEW k \in Kinds, AddItem(k)
        PROVE  Whole' /\ (Owned /\ ~strayed' => Owned')
    BY <2>4, <2>w, AddKeeps
  <2>5. ASSUME NEW s \in AllSlots, RemoveItem(s) \/ DecrementItem(s)
        PROVE  Whole' /\ (Owned /\ ~strayed' => Owned')
    BY <2>5, <2>w, RemoveKeeps, DecrementKeeps
  <2>6. ASSUME NEW w \in Workers,
               \/ FinishInsert(w) \/ DeleteItemRow(w) \/ FinishRemove(w) \/ EmptySlot(w)
               \/ SaveCopy(w) \/ FinishArrange(w)
        PROVE  Whole' /\ (Owned /\ ~strayed' => Owned')
    BY <2>6, <2>w, FinishInsertKeeps, DeleteRowKeeps, FinishRemoveKeeps, EmptySlotKeeps, SaveCopyKeeps,
       FinishArrangeKeeps
  <2>7. ASSUME SwapRefused \/ Unlock PROVE Whole' /\ (Owned /\ ~strayed' => Owned')
    BY <2>7, <2>w, SameKept DEF SwapRefused, Unlock
  <2>8. ASSUME NEW p \in Parts, BeginArrange(p) \/ CoolDown(p)
        PROVE  Whole' /\ (Owned /\ ~strayed' => Owned')
    <3>1. CASE BeginArrange(p)
      BY <3>1, <2>w, BeginArrangeKeeps
    <3>2. CASE CoolDown(p)
      BY <3>2, <2>w, SameKept DEF CoolDown
    <3> QED BY <2>8, <3>1, <3>2
  <2>9. ASSUME NEW c \in Owners, LoadAgain(c) PROVE Whole' /\ (Owned /\ ~strayed' => Owned')
    <3>1. PICK order \in Bijection(RowIds, RowIds) : slot' = InventorySlots(c, order)
      BY <2>9 DEF LoadAgain
    <3>2. char' = c /\ UNCHANGED <<rows, inserted>> /\ \A w \in Workers : calls'[w] = AtRest
      BY <2>9 DEF LoadAgain
    <3>3. \A w \in Workers : calls[w].op # "arrange"
      BY <2>9 DEF LoadAgain, AtRest
    <3> QED BY <2>w, <3>1, <3>2, <3>3, LoadKeeps
  <2>10. ASSUME NEW c \in Owners, Crash(c) PROVE Whole' /\ (Owned /\ ~strayed' => Owned')
    <3>1. PICK order \in Bijection(RowIds, RowIds) : slot' = InventorySlots(c, order)
      BY <2>10 DEF Crash
    <3>2. char' = c /\ UNCHANGED <<rows, inserted>> /\ \A w \in Workers : calls'[w] = AtRest
      BY <2>10 DEF Crash
    <3>3. \A w \in Workers : calls[w].op # "arrange"
      BY <2>10 DEF Crash
    <3> QED BY <2>w, <3>1, <3>2, <3>3, LoadKeeps
  <2> QED BY <2>r, <2>2, <2>3, <2>4, <2>5, <2>6, <2>7, <2>8, <2>9, <2>10 DEF BagStep
<1> QED BY <1>0, <1>n

\* The types and the invariant hold in every state.
LEMMA KeptAlways == BagSpec => [](Types /\ Kept)
<1>1. BagInit => Types /\ Kept
  BY TypesInit, KeptInit
<1>2. Types /\ Kept /\ [BagNext]_bagVars => (Types /\ Kept)'
  BY TypesStep, KeptStep
<1> QED BY <1>1, <1>2, PTL DEF BagSpec

\* Types.
THEOREM BagTyping == BagSpec => []BagTypeOK
<1>1. Types => BagTypeOK
  BY DEF Types
<1> QED BY <1>1, KeptAlways, PTL

\* What a character carries.
THEOREM BagsAreKept == BagSpec => []BagIsKept
<1>1. ASSUME Types, Kept PROVE SavedAsHeld
  <2> SUFFICES ASSUME ~torn, NEW s \in AllSlots, s \notin InHand, slot[s].kind # 0
               PROVE  slot[s].id # 0 /\ rows[slot[s].id] = RowAt(s, slot[s])
    BY DEF SavedAsHeld
  <2> QED BY <1>1, OutOfHand DEF Kept
<1>2. ASSUME Types, Kept PROVE NoneHidden
  <2> SUFFICES ASSUME ~torn, ~strayed, NEW c \in Owners, NEW n \in RowIds, Loads(c, n), rows[n].at \notin InHand
               PROVE  /\ c = char => slot[rows[n].at].id = n
                      /\ \A m \in RowIds \ {n} : Loads(c, m) => rows[m].at # rows[n].at
    BY DEF NoneHidden
  <2>1. rows[n].at \notin Arranging
    BY DEF Arranging, InHand
  <2>2. Whole /\ Owned
    BY <1>2 DEF Kept
  <2>3. c = char => slot[rows[n].at].id = n
    BY <1>2, <2>1, <2>2, PlaceOf DEF Owned
  <2>4. \A m \in RowIds \ {n} : Loads(c, m) => rows[m].at # rows[n].at
    BY <1>2, <2>1, <2>2, LoadsApart
  <2> QED BY <2>3, <2>4
<1>3. Types /\ Kept => BagIsKept
  BY <1>1, <1>2 DEF BagIsKept
<1> QED BY <1>3, KeptAlways, PTL

-----------------------------------------------------------------------------
(* What moves *)

\* How many items of a kind there are is a sum over the places, in every state.
HeldSums == \A k \in Kinds : Held(k) = SumOf(AllSlots, Count(k))

\* It is one by definition; named, so that it can be read of the next state too.
LEMMA HeldIsSum == HeldSums
BY DEF HeldSums, Held, SumOf

\* What is counted are numbers.
LEMMA CountInt ==
  ASSUME Types, NEW k \in Kinds
  PROVE  /\ IsFiniteSet(AllSlots) /\ \A s \in AllSlots : Count(k)[s] \in Int
         /\ Held(k) = SumOf(AllSlots, Count(k))
<1>m. MaxQty \in Nat
  BY InventoryAssumption
<1>1. \A s \in AllSlots : slot[s].qty \in Int
  BY <1>m, PartTypes
<1>2. \A s \in AllSlots : Count(k)[s] \in Int
  BY <1>1 DEF Count
<1>3. Held(k) = SumOf(AllSlots, Count(k))
  BY HeldIsSum DEF HeldSums
<1> QED BY <1>2, <1>3, InventoryAssumption

\* After a step, likewise.
LEMMA CountIntNext ==
  ASSUME Types', NEW k \in Kinds
  PROVE  /\ \A s \in AllSlots : Count(k)'[s] \in Int
         /\ Held(k)' = SumOf(AllSlots, Count(k)')
<1>m. MaxQty \in Nat
  BY InventoryAssumption
<1>1. \A s \in AllSlots : slot'[s].qty \in Int
  BY <1>m, PartTypesNext DEF WellTyped
<1>2. \A s \in AllSlots : Count(k)'[s] \in Int
  BY <1>1 DEF Count
<1>3. HeldSums'
  BY HeldIsSum, PTL
<1>4. Held(k)' = SumOf(AllSlots, Count(k)')
  BY <1>3 DEF HeldSums
<1> QED BY <1>2, <1>4

\* Slots that will be blank are in hands, so that a step that meets none in hand spares them.
LEMMA Spared ==
  ASSUME NEW S, Touches(S), ~torn'
  PROVE  S \cap Doomed = {}
<1>1. Doomed \subseteq InHand
  BY DEF Doomed, InHand
<1> QED BY <1>1, TouchFree

\* A call that begins adds its hand to them, if it is one that blanks it.
LEMMA DoomedBegins ==
  ASSUME Types, NEW op, NEW hand \in SUBSET AllSlots, NEW held, NEW todo, Begins(op, hand, held, todo)
  PROVE  Doomed' = IF op \in {"blank", "combine"} THEN Doomed \cup hand ELSE Doomed
<1>1. PICK w \in Workers :
           /\ calls[w] = AtRest
           /\ calls' = [calls EXCEPT ![w] = [op |-> op, hand |-> hand, held |-> held, todo |-> todo]]
  BY BeginsOne
<1>2. /\ calls'[w].op = op /\ calls'[w].hand = hand /\ calls[w].op = "idle"
      /\ \A v \in Workers \ {w} : calls'[v] = calls[v]
  BY <1>1 DEF Types, AtRest
<1> QED BY <1>2 DEF Doomed

\* A call that never blanks its hand leaves them as they are.
LEMMA DoomedStays ==
  ASSUME NEW w \in Workers, \A v \in Workers \ {w} : calls'[v] = calls[v],
         calls[w].op \notin {"blank", "combine"}, calls'[w].op \notin {"blank", "combine"}
  PROVE  Doomed' = Doomed
  BY DEF Doomed

\* A step that leaves as much in every slot loses nothing.
LEMMA EachKeeps ==
  ASSUME Types, Types', NEW k \in Kinds, \A x \in AllSlots : Count(k)'[x] = Count(k)[x]
  PROVE  Held(k)' = Held(k)
<1>1. Count(k)' = Count(k)
  BY DEF Count
<1> QED BY <1>1, CountInt, CountIntNext

\* A step that writes two slots and leaves as much in both together loses nothing.
LEMMA PairKeeps ==
  ASSUME Types, Types', NEW k \in Kinds, NEW s \in AllSlots, NEW t \in AllSlots, s # t,
         \A x \in AllSlots : x # s /\ x # t => slot'[x] = slot[x], Doomed' \ {s, t} = Doomed \ {s, t},
         Count(k)[s] + Count(k)[t] = Count(k)'[s] + Count(k)'[t]
  PROVE  Held(k)' = Held(k)
<1>1. PICK f, g : f = Count(k) /\ g = Count(k)'
  OBVIOUS
<1>2. IsFiniteSet(AllSlots) /\ \A x \in AllSlots : f[x] \in Int /\ g[x] \in Int
  BY <1>1, CountInt, CountIntNext
<1>3. \A x \in AllSlots : x # s /\ x # t => f[x] = g[x]
  BY <1>1 DEF Count
<1>4. f[s] + f[t] = g[s] + g[t]
  BY <1>1
<1>5. SumOf(AllSlots, g) = SumOf(AllSlots, f)
  BY <1>2, <1>3, <1>4, SumShifted
<1> QED BY <1>1, <1>5, CountInt, CountIntNext

\* What moves items neither makes nor loses any.
LEMMA MovesKeep ==
  ASSUME Types, Types', Kept, Moving, ~torn', NEW k \in Kinds
  PROVE  Held(k)' = Held(k)
<1>0. slot \in [AllSlots -> SlotRecs] /\ k # 0 /\ NewSlot.kind = 0 /\ NewSlot.qty = 0
  BY InventoryAssumption DEF Types, BagTypeOK, NewSlot
<1>1. ASSUME NEW s \in AllSlots, NEW t \in AllSlots, ReplaceItem(s, t) PROVE Held(k)' = Held(k)
  <2> DEFINE item == [slot[s] EXCEPT !.owner = OwnerAt(s, t)]
  <2>1. /\ slot' = [slot EXCEPT ![t] = item, ![s] = NewSlot]
        /\ slot[s].kind # 0 /\ slot[t].kind = 0 /\ Touches({s, t}) /\ UNCHANGED calls
    BY <1>1 DEF ReplaceItem
  <2>2. item.kind = slot[s].kind /\ item.qty = slot[s].qty
    BY <1>0 DEF SlotRecs
  <2> HIDE DEF item
  <2>3. s # t
    BY <2>1
  <2>4. slot'[s] = NewSlot /\ slot'[t] = item /\ \A x \in AllSlots : x # s /\ x # t => slot'[x] = slot[x]
    BY <1>0, <2>1, <2>3
  <2>7. Doomed' = Doomed /\ s \notin Doomed /\ t \notin Doomed
    <3>1. Doomed' = Doomed
      BY <2>1 DEF Doomed
    <3> QED BY <2>1, <3>1, Spared
  <2>5. /\ Count(k)[t] = 0 /\ Count(k)'[s] = 0 /\ Count(k)'[t] = Count(k)[s]
    BY <1>0, <2>1, <2>2, <2>4, <2>7 DEF Count
  <2>6. Count(k)[s] \in Int
    BY CountInt
  <2> QED BY <2>3, <2>4, <2>5, <2>6, <2>7, PairKeeps
<1>2. ASSUME NEW s \in AllSlots, NEW t \in AllSlots, SwapItems(s, t) PROVE Held(k)' = Held(k)
  <2>1. s # t /\ slot' = [slot EXCEPT ![s] = slot[t], ![t] = slot[s]] /\ Touches({s, t}) /\ UNCHANGED calls
    BY <1>2 DEF SwapItems
  <2>2. slot'[s] = slot[t] /\ slot'[t] = slot[s] /\ \A x \in AllSlots : x # s /\ x # t => slot'[x] = slot[x]
    BY <1>0, <2>1
  <2>6. Doomed' = Doomed /\ s \notin Doomed /\ t \notin Doomed
    <3>1. Doomed' = Doomed
      BY <2>1 DEF Doomed
    <3> QED BY <2>1, <3>1, Spared
  <2>3. Count(k)'[s] = Count(k)[t] /\ Count(k)'[t] = Count(k)[s]
    BY <2>2, <2>6 DEF Count
  <2>4. Count(k)[s] \in Int /\ Count(k)[t] \in Int
    BY CountInt
  <2>5. Count(k)[s] + Count(k)[t] = Count(k)'[s] + Count(k)'[t]
    BY <2>3, <2>4
  <2> QED BY <2>1, <2>2, <2>5, <2>6, PairKeeps
<1>3. ASSUME NEW s \in AllSlots, NEW t \in AllSlots, CombineItems(s, t) PROVE Held(k)' = Held(k)
  <2> DEFINE item == [slot[t] EXCEPT !.qty = @ + slot[s].qty]
  <2>1. /\ slot' = [slot EXCEPT ![t] = item]
        /\ slot[s].kind = slot[t].kind /\ s # t
        /\ Begins("combine", {s}, <<>>, {}) /\ Touches({s, t})
    BY <1>3 DEF CombineItems
  <2>2. /\ item.kind = slot[t].kind /\ item.qty = slot[t].qty + slot[s].qty
        /\ slot[t].qty \in Int /\ slot[s].qty \in Int
    <3>1. slot[t] \in SlotRecs /\ slot[s] \in SlotRecs /\ MaxQty \in Nat
      BY <1>0, InventoryAssumption
    <3> QED BY <3>1 DEF SlotRecs
  <2> HIDE DEF item
  <2>3. slot'[t] = item /\ \A x \in AllSlots : x # s /\ x # t => slot'[x] = slot[x]
    BY <1>0, <2>1
  <2>7. Doomed' = Doomed \cup {s} /\ s \notin Doomed /\ t \notin Doomed
    <3>1. PICK op, hand, held : op = "combine" /\ hand = {s} /\ held = <<>>
      OBVIOUS
    <3>2. hand \in SUBSET AllSlots /\ Begins(op, hand, held, {})
      BY <2>1, <3>1
    <3>3. Doomed' = IF op \in {"blank", "combine"} THEN Doomed \cup hand ELSE Doomed
      BY <3>2, DoomedBegins
    <3> QED BY <2>1, <3>1, <3>3, Spared
  <2>4. Count(k)'[s] = 0 /\ Count(k)'[t] = Count(k)[t] + Count(k)[s]
    <3>1. s \in Doomed' /\ t \notin Doomed'
      BY <2>1, <2>7
    <3> QED BY <1>0, <2>1, <2>2, <2>3, <2>7, <3>1 DEF Count
  <2>5. Count(k)[s] \in Int /\ Count(k)[t] \in Int
    BY CountInt
  <2>6. Count(k)[s] + Count(k)[t] = Count(k)'[s] + Count(k)'[t]
    BY <2>4, <2>5
  <2>8. Doomed' \ {s, t} = Doomed \ {s, t}
    BY <2>7
  <2> QED BY <2>1, <2>3, <2>6, <2>8, PairKeeps
<1>4. ASSUME NEW s \in AllSlots, NEW t \in AllSlots, NEW n \in 1..MaxQty, SplitItem(s, t, n)
      PROVE  Held(k)' = Held(k)
  <2> DEFINE rest == [slot[s] EXCEPT !.qty = @ - n]
             part == [slot[s] EXCEPT !.qty = n]
             copy == [x \in {t} |-> part]
  <2>1. /\ slot' = [slot EXCEPT ![t] = part, ![s] = rest] /\ n \in 1..slot[s].qty
        /\ slot[t].kind = 0 /\ Touches({s, t})
        /\ Begins("empty", {s, t}, <<>>, {s}) \/ Begins("split", {t}, copy, {})
    BY <1>4 DEF SplitItem
  <2>2. slot[s] \in SlotRecs /\ slot[s].qty \in Int /\ n \in Int
    <3>1. slot[s] \in SlotRecs /\ MaxQty \in Nat
      BY <1>0, InventoryAssumption
    <3> QED BY <3>1 DEF SlotRecs
  <2>3. s # t
    <3>1. Whole /\ t \notin InHand
      BY <2>1, TouchFree DEF Kept, Touches
    <3>2. slot[t] = NewSlot
      BY <2>1, <3>1, OutOfHand
    <3> QED BY <1>0, <2>1, <3>2
  <2>4. /\ part.kind = slot[s].kind /\ part.qty = n
        /\ rest.kind = slot[s].kind /\ rest.qty = slot[s].qty - n
    BY <1>0, <2>2 DEF SlotRecs
  <2> HIDE DEF part, rest, copy
  <2>8. Doomed' = Doomed /\ s \notin Doomed /\ t \notin Doomed
    <3>1. PICK op, hand, held, todo :
             Begins(op, hand, held, todo) /\ op \in {"empty", "split"} /\ hand \in SUBSET AllSlots
      BY <2>1
    <3>2. Doomed' = IF op \in {"blank", "combine"} THEN Doomed \cup hand ELSE Doomed
      BY <3>1, DoomedBegins
    <3> QED BY <2>1, <3>1, <3>2, Spared
  <2>5. slot'[s] = rest /\ slot'[t] = part /\ \A x \in AllSlots : x # s /\ x # t => slot'[x] = slot[x]
    BY <1>0, <2>1, <2>3
  <2>6. Count(k)[t] = 0 /\ Count(k)'[s] + Count(k)'[t] = Count(k)[s]
    BY <1>0, <2>1, <2>2, <2>4, <2>5, <2>8 DEF Count
  <2>7. Count(k)[s] \in Int /\ Count(k)'[s] \in Int /\ Count(k)'[t] \in Int
    BY CountInt, CountIntNext
  <2> QED BY <2>3, <2>5, <2>6, <2>7, <2>8, PairKeeps
<1>5. ASSUME NEW w \in Workers, FinishArrange(w) PROVE Held(k)' = Held(k)
  <2>1. /\ calls[w].op = "arrange" /\ torn' = torn /\ Ends(w)
        /\ slot' = [s \in AllSlots |-> IF s \in calls[w].hand THEN calls[w].held[s] ELSE slot[s]]
    BY <1>5 DEF FinishArrange
  <2>2. PICK p : p = calls[w].hand
    OBVIOUS
  <2>3. PICK f \in Bijection(p, p) : \A s \in p : calls[w].held[s] = slot[f[s]]
    BY <2>1, <2>2 DEF Kept, Whole, CallFits, ArrangeFits
  <2>4. /\ f \in [p -> p] /\ \A s, t \in p : s # t => f[s] # f[t]
        /\ \A x \in p : \E s \in p : f[s] = x
    BY DEF Bijection, Injection, Surjection, IsInjective
  <2>5. p \in SUBSET AllSlots
    BY <2>2, PartTypes
  <2>6. PICK b : b = [s \in AllSlots |-> IF s \in p THEN f[s] ELSE s]
    OBVIOUS
  <2>7. /\ b \in [AllSlots -> AllSlots] /\ \A s, t \in AllSlots : s # t => b[s] # b[t]
        /\ \A x \in AllSlots : \E s \in AllSlots : b[s] = x
    BY <2>4, <2>5, <2>6
  <2>8. \A s \in AllSlots : slot'[s] = slot[b[s]]
    BY <2>1, <2>2, <2>3, <2>6
  <2>d. Doomed' = Doomed /\ \A s \in p : s \notin Doomed
    <3>1. /\ calls'[w].op = "idle" /\ \A v \in Workers \ {w} : calls'[v] = calls[v]
          /\ \A v \in Workers \ {w} : calls[v].hand \cap p = {}
      BY <2>1, <2>2, EndsHand, OwnHand DEF AtRest, Kept
    <3>2. Doomed' = Doomed
      BY <2>1, <3>1, DoomedStays
    <3> QED BY <2>1, <3>1, <3>2 DEF Doomed
  <2>e. \A s \in AllSlots : b[s] \in Doomed <=> s \in Doomed
    BY <2>4, <2>6, <2>d
  <2>9. PICK u, v : u = Count(k) /\ v = Count(k)'
    OBVIOUS
  <2>10. IsFiniteSet(AllSlots) /\ \A s \in AllSlots : u[s] \in Int
    BY <2>9, CountInt
  <2>11. \A s \in AllSlots : v[s] = u[b[s]]
    BY <2>7, <2>8, <2>9, <2>d, <2>e DEF Count
  <2>12. SumOf(AllSlots, v) = SumOf(AllSlots, u)
    BY <2>7, <2>10, <2>11, SumPermuted
  <2> QED BY <2>9, <2>12, CountInt, CountIntNext
<1>6. ASSUME NEW w \in Workers, FinishRemove(w) PROVE Held(k)' = Held(k)
  <2>1. /\ calls[w].op \in {"blank", "combine"} /\ torn' = torn /\ Ends(w)
        /\ slot' = [x \in AllSlots |-> IF x \in calls[w].hand THEN NewSlot ELSE slot[x]]
    BY <1>6 DEF FinishRemove
  <2>2. calls'[w].op = "idle" /\ \A v \in Workers \ {w} : calls'[v] = calls[v]
    BY <2>1, EndsHand DEF AtRest, Kept
  <2>3. \A x \in calls[w].hand : x \in Doomed
    BY <2>1 DEF Doomed
  <2>4. \A x \in AllSlots \ calls[w].hand : x \in Doomed' <=> x \in Doomed
    BY <2>2 DEF Doomed
  <2>5. \A x \in AllSlots : Count(k)'[x] = Count(k)[x]
    BY <1>0, <2>1, <2>3, <2>4 DEF Count
  <2> QED BY <2>5, EachKeeps
<1>7. ASSUME NEW w \in Workers, EmptySlot(w) PROVE Held(k)' = Held(k)
  <2>1. /\ calls[w].op = "empty" /\ torn' = torn
        /\ slot' = [x \in AllSlots |-> IF x \in calls[w].todo THEN NewSlot ELSE slot[x]]
    BY <1>7 DEF EmptySlot
  <2>2. calls'[w].op = "split" /\ \A v \in Workers \ {w} : calls'[v] = calls[v]
    <3>1. PICK hand, held : calls' = [calls EXCEPT ![w] = [op |-> "split", hand |-> hand, held |-> held, todo |-> {}]]
      BY <1>7 DEF EmptySlot
    <3> QED BY <3>1 DEF Types
  <2>3. Doomed' = Doomed
    BY <2>1, <2>2, DoomedStays
  <2>4. PICK s \in AllSlots : calls[w].todo = {s} /\ slot[s].qty = 0
    BY <2>1 DEF Kept, Whole, CallFits, EmptyFits
  <2>5. \A x \in AllSlots : Count(k)'[x] = Count(k)[x]
    BY <1>0, <2>1, <2>3, <2>4 DEF Count
  <2> QED BY <2>5, EachKeeps
<1> QED BY <1>1, <1>2, <1>3, <1>4, <1>5, <1>6, <1>7 DEF Moving

\* The player's moves, and arranging, lose nothing and double nothing.
THEOREM MovesLoseNothing == BagSpec => NothingLostInMoves
<1>1. Types /\ Types' /\ Kept /\ [BagNext]_bagVars => [MovesKeepAll]_bagVars
  BY MovesKeep DEF MovesKeepAll
<1> QED BY <1>1, KeptAlways, PTL DEF BagSpec, NothingLostInMoves

-----------------------------------------------------------------------------
(* Market *)

\* An action of Market (a disjunct of Next), for the case splits below.
Step ==
  \/ \E c \in Chars : OpenSale(c) \/ CloseSale(c) \/ RegisterItem(c)
  \/ \E c \in Chars, d \in Chars : BuySaleItem(c, d)
  \/ \E c \in Chars, i \in Items :
       BuyConsignmentItem(c, i) \/ CancelItem(c, i) \/ Claim(c, i) \/ Gain(c, i)
  \/ \E c \in Chars, s \in Slots : Lose(c, s)
  \/ \E k \in Running :
       \/ Create(k) \/ CopyItem(k) \/ FinishSale(k) \/ FinishRegister(k)
       \/ FinishBuy(k) \/ MarkSold(k) \/ FinishCancel(k) \/ DeleteRow(k)

\* Every step of Next is one of these.
LEMMA NextIsStep == Next => Step
  BY DEF Next, Step, Shop, Consign, Others, GoOn

\* The parts of TypeOK.
GoodsOK ==
  /\ bag \in [Chars -> [Slots -> Items \cup {None}]]
  /\ away \subseteq Items /\ shelf \subseteq Items /\ buried \subseteq Items
  /\ where \in [Items -> Refs]
\* The gold, the offers, the calls and the history.
GoldOK  == gold \in [Chars -> -MaxGold..MaxGold]
TradeOK == sale \in [Chars -> Sales_ \cup {None}] /\ cons \in [Items -> Rows \cup {None}]
CallsOK == call \in [Calls -> CallStates]
PastOK  == fees \in Nat /\ crossed \in BOOLEAN /\ hasty \in BOOLEAN

\* These are the parts of TypeOK.
LEMMA TypeParts == TypeOK <=> GoodsOK /\ GoldOK /\ TradeOK /\ CallsOK /\ PastOK
  BY DEF TypeOK, GoodsOK, GoldOK, TradeOK, CallsOK, PastOK

-----------------------------------------------------------------------------
(* What the types say of the helpers *)

\* The content of an object is an item or nothing.
LEMMA ContentType ==
  ASSUME GoodsOK, NEW r \in Refs
  PROVE  Content(r) \in Items \cup {None}
  BY MarketAssumption DEF GoodsOK, Content, Refs, Places

\* What a running call knows, by what it waits for.
LEMMA CallIs ==
  ASSUME CallsOK, NEW k \in Calls
  PROVE  /\ At(k, "opening") => call[k] \in Opening
         /\ At(k, "paid") => call[k] \in Paid
         /\ At(k, "copied") => call[k] \in Copied
         /\ At(k, "registering") => call[k] \in Registering
         /\ At(k, "buying") \/ At(k, "cancelling") => call[k] \in Placing
         /\ At(k, "marking") => call[k] \in Marking
         /\ At(k, "deleting") => call[k] \in Deleting
<1>1. call[k] \in CallStates
  BY DEF CallsOK
<1> QED
  BY <1>1 DEF CallStates, At, Idle, Opening, Paid, Copied, Registering, Placing, Marking,
              Deleting

\* Calls keep their types when one begins or ends.
LEMMA BeginType ==
  ASSUME CallsOK, NEW r \in CallStates, Begin(r)
  PROVE  CallsOK'
  BY DEF CallsOK, Begin

\* An end of a call, likewise.
LEMMA EndType ==
  ASSUME CallsOK, NEW k, End(k)
  PROVE  CallsOK'
  BY DEF CallsOK, End, CallStates

\* The history keeps its types.
LEMMA NoteType ==
  ASSUME PastOK, NEW m, NEW p, NEW f \in Nat, Note(m, p, f)
  PROVE  PastOK'
<1>1. crossed' \in BOOLEAN
  BY DEF Note
<1>2. hasty' \in BOOLEAN
  BY DEF Note
<1>3. fees' \in Nat
  BY DEF Note, PastOK
<1> QED
  BY <1>1, <1>2, <1>3 DEF PastOK

\* Clearing an object keeps the bags bags.
LEMMA ClearedType ==
  ASSUME GoodsOK, NEW r
  PROVE  Cleared(r) \in [Chars -> [Slots -> Items \cup {None}]]
  BY DEF GoodsOK, Cleared, Places

-----------------------------------------------------------------------------
(* Steps *)

\* Every step keeps the types.
LEMMA StepType ==
  ASSUME TypeOK, Step
  PROVE  TypeOK'
<1>0. GoodsOK /\ GoldOK /\ TradeOK /\ CallsOK /\ PastOK
  BY TypeParts
<1>a. UNCHANGED goods => GoodsOK'
  BY <1>0 DEF GoodsOK, goods
<1>b. UNCHANGED gold => GoldOK'
  BY <1>0 DEF GoldOK
<1>c. UNCHANGED trade => TradeOK'
  BY <1>0 DEF TradeOK, trade
<1>d. UNCHANGED call => CallsOK'
  BY <1>0 DEF CallsOK
<1>e. UNCHANGED past => PastOK'
  BY <1>0 DEF PastOK, past
<1> SUFFICES GoodsOK' /\ GoldOK' /\ TradeOK' /\ CallsOK' /\ PastOK'
  BY DEF TypeOK, GoodsOK, GoldOK, TradeOK, CallsOK, PastOK
<1> DEFINE Goal == GoodsOK' /\ GoldOK' /\ TradeOK' /\ CallsOK' /\ PastOK'
<1>1. ASSUME NEW c \in Chars, OpenSale(c) PROVE Goal
  <2>1. PICK n \in 1..NumSales, S \in SUBSET (Slots \ FreeSlots(c)) :
          Begin([at |-> "opening", by |-> c, no |-> n, items |-> S])
    BY <1>1 DEF OpenSale
  <2>2. [at |-> "opening", by |-> c, no |-> n, items |-> S] \in CallStates
    BY DEF CallStates, Opening
  <2>3. CallsOK'
    BY <1>0, <2>1, <2>2, BeginType
  <2> QED
    BY <1>1, <1>a, <1>b, <1>c, <1>e, <2>3 DEF OpenSale
<1>2. ASSUME NEW c \in Chars, CloseSale(c) PROVE Goal
  <2>1. TradeOK'
    BY <1>0, <1>2 DEF CloseSale, TradeOK
  <2> QED
    BY <1>2, <1>a, <1>b, <1>d, <1>e, <2>1 DEF CloseSale
<1>3. ASSUME NEW c \in Chars, RegisterItem(c) PROVE Goal
  <2>1. PICK s \in Slots \ FreeSlots(c) :
          /\ cons' = [cons EXCEPT ![bag[c][s]] = [seller |-> c, sold |-> FALSE]]
          /\ Begin([at |-> "registering", by |-> c, from |-> <<c, s>>, row |-> bag[c][s]])
          /\ Note(MeetsAt({<<c, s>>}) \/ MeetsRow(bag[c][s]), Spending(c) # {}, 0)
    BY <1>3 DEF RegisterItem
  <2>2. bag[c][s] \in Items
    BY <1>0 DEF GoodsOK, FreeSlots
  <2>3. [at |-> "registering", by |-> c, from |-> <<c, s>>, row |-> bag[c][s]] \in CallStates
    BY <2>2 DEF CallStates, Registering, Refs, Places
  <2>4. CallsOK'
    BY <1>0, <2>1, <2>3, BeginType
  <2>5. TradeOK'
    BY <1>0, <1>3, <2>1 DEF RegisterItem, TradeOK, Rows
  <2>6. PastOK'
    BY <1>0, <2>1, NoteType
  <2> QED
    BY <1>3, <1>a, <1>b, <2>4, <2>5, <2>6 DEF RegisterItem
<1>4. ASSUME NEW c \in Chars, NEW d \in Chars, BuySaleItem(c, d) PROVE Goal
  <2> DEFINE new(s, t) == [at |-> "paid", by |-> c, to |-> t, from |-> <<d, s>>, seller |-> d,
                slot |-> s, no |-> sale[d].no, gold |-> gold[d], cost |-> Price[bag[d][s]]]
  <2>1. PICK s \in sale[d].items \ sale[d].sold, t \in Slots :
          /\ bag[d][s] # None
          /\ InBounds(gold[c] - Price[bag[d][s]])
          /\ gold' = [gold EXCEPT ![c] = @ - Price[bag[d][s]]]
          /\ Begin(new(s, t))
          /\ Note(MeetsAt({<<c, t>>, <<d, s>>}), Spending(c) # {}, 0)
    BY <1>4 DEF BuySaleItem
  <2>2. sale[d] \in Sales_ /\ s \in Slots /\ t \in Slots
    BY <1>0, <1>4 DEF BuySaleItem, TradeOK, Sales_, FreeSlots
  <2>3. bag[d][s] \in Items /\ Price[bag[d][s]] \in Nat
    BY <1>0, <2>1, <2>2, MarketAssumption DEF GoodsOK
  <2>4. new(s, t) \in CallStates
    <3>1. new(s, t) \in Paid
      BY <1>0, <2>2, <2>3 DEF Paid, Refs, Places, Sales_, GoldOK
    <3> QED
      BY <3>1 DEF CallStates
  <2>5. CallsOK'
    BY <1>0, <2>1, <2>4, BeginType
  <2>6. GoldOK'
    BY <1>0, <2>1, <2>3, MarketAssumption DEF GoldOK, InBounds
  <2>7. PastOK'
    BY <1>0, <2>1, NoteType
  <2> QED
    BY <1>4, <1>a, <1>c, <2>5, <2>6, <2>7 DEF BuySaleItem
<1>5. ASSUME NEW c \in Chars, NEW i \in Items, BuyConsignmentItem(c, i) PROVE Goal
  <2> DEFINE new(s) == [at |-> "buying", by |-> c, to |-> s, row |-> i,
                        seller |-> cons[i].seller, item |-> Content(where[i])]
  <2>1. PICK s \in Slots :
          /\ Begin(new(s))
          /\ Note(MeetsRow(i) \/ MeetsAt({where[i], <<c, s>>}), Spending(c) # {}, 0)
    BY <1>5 DEF BuyConsignmentItem
  <2>2. Content(where[i]) \in Items
    BY <1>0, <1>5, ContentType DEF BuyConsignmentItem, GoodsOK
  <2>3. cons[i].seller \in Chars
    BY <1>0, <1>5 DEF BuyConsignmentItem, TradeOK, Rows
  <2>4. new(s) \in CallStates
    BY <2>2, <2>3 DEF CallStates, Placing
  <2>5. CallsOK' /\ PastOK'
    BY <1>0, <2>1, <2>4, BeginType, NoteType
  <2> QED
    BY <1>5, <1>a, <1>b, <1>c, <2>5 DEF BuyConsignmentItem, trade
<1>6. ASSUME NEW c \in Chars, NEW i \in Items, CancelItem(c, i) PROVE Goal
  <2> DEFINE new(s) == [at |-> "cancelling", by |-> c, to |-> s, row |-> i,
                        seller |-> cons[i].seller, item |-> Content(where[i])]
  <2>1. PICK s \in Slots :
          /\ Begin(new(s))
          /\ Note(MeetsRow(i) \/ MeetsAt({where[i], <<c, s>>}), FALSE, 0)
    BY <1>6 DEF CancelItem
  <2>2. Content(where[i]) \in Items
    BY <1>0, <1>6, ContentType DEF CancelItem, GoodsOK
  <2>5. cons[i].seller \in Chars
    BY <1>0, <1>6 DEF CancelItem, TradeOK, Rows
  <2>3. new(s) \in CallStates
    BY <2>2, <2>5 DEF CallStates, Placing
  <2>4. CallsOK' /\ PastOK'
    BY <1>0, <2>1, <2>3, BeginType, NoteType
  <2> QED
    BY <1>6, <1>a, <1>b, <1>c, <2>4 DEF CancelItem, trade
<1>7. ASSUME NEW c \in Chars, NEW i \in Items, Claim(c, i) PROVE Goal
  <2>1. [at |-> "deleting", row |-> i] \in CallStates
    BY DEF CallStates, Deleting
  <2>2. CallsOK' /\ PastOK'
    BY <1>0, <1>7, <2>1, BeginType, NoteType DEF Claim
  <2>3. GoldOK'
    BY <1>0, <1>7, MarketAssumption DEF Claim, GoldOK, InBounds
  <2> QED
    BY <1>7, <1>a, <1>c, <2>2, <2>3 DEF Claim, trade
<1>8. ASSUME NEW c \in Chars, NEW i \in Items, Gain(c, i) PROVE Goal
  <2>1. PICK s \in Slots :
          /\ bag' = [bag EXCEPT ![c][s] = i]
          /\ where' = [where EXCEPT ![i] = <<c, s>>]
          /\ Note(MeetsAt({<<c, s>>}), FALSE, 0)
    BY <1>8 DEF Gain
  <2>2. PastOK'
    BY <1>0, <2>1, NoteType
  <2>3. GoodsOK'
    BY <1>0, <1>8, <2>1 DEF Gain, GoodsOK, Refs, Places
  <2> QED
    BY <1>8, <1>b, <1>c, <1>d, <2>2, <2>3 DEF Gain
<1>9. ASSUME NEW c \in Chars, NEW s \in Slots, Lose(c, s) PROVE Goal
  <2>1. PastOK'
    BY <1>0, <1>9, NoteType DEF Lose
  <2>2. GoodsOK'
    BY <1>0, <1>9 DEF Lose, GoodsOK
  <2> QED
    BY <1>9, <1>b, <1>c, <1>d, <2>1, <2>2 DEF Lose
<1>10. ASSUME NEW k \in Running, Create(k) PROVE Goal
  <2>1. call[k] \in Opening
    BY <1>0, <1>10, CallIs DEF Create, Running
  <2>2. TradeOK'
    BY <1>0, <1>10, <2>1 DEF Create, TradeOK, Opening, Sales_
  <2>3. CallsOK'
    BY <1>0, <1>10, EndType DEF Create
  <2> QED
    BY <1>10, <1>a, <1>b, <1>e, <2>2, <2>3 DEF Create
<1>11. ASSUME NEW k \in Running, CopyItem(k) PROVE Goal
  <2> DEFINE c == call[k]
             p == <<c.by, c.to>>
             old == bag[c.by][c.to]
             i == Content(c.from)
  <2>1. c \in Paid /\ k \in Calls
    BY <1>0, <1>11, CallIs DEF CopyItem, Running
  <2>2. /\ old \in Items \cup {None} /\ p \in Refs
        /\ i \in Items \cup {None}
    BY <1>0, <2>1, ContentType DEF Paid, GoodsOK, Refs, Places
  <2>3. GoodsOK'
    <3>1. bag' = [bag EXCEPT ![c.by][c.to] = i]
      BY <1>11 DEF CopyItem
    <3>2. where' = [j \in Items |->
                      IF j = i THEN p ELSE IF where[j] = p THEN old ELSE where[j]]
      BY <1>11 DEF CopyItem
    <3>3. bag' \in [Chars -> [Slots -> Items \cup {None}]]
      BY <1>0, <2>2, <3>1 DEF GoodsOK
    <3>4. where' \in [Items -> Refs]
      BY <1>0, <2>2, <3>2 DEF GoodsOK, Refs
    <3>5. away' = away /\ shelf' = shelf /\ buried' = buried \cup ({old} \ {None})
      BY <1>11 DEF CopyItem
    <3>6. buried' \subseteq Items
      BY <1>0, <2>2, <3>5 DEF GoodsOK
    <3> QED
      BY <1>0, <3>3, <3>4, <3>5, <3>6 DEF GoodsOK
  <2>4. GoldOK'
    BY <1>0, <1>11, <2>1, MarketAssumption DEF CopyItem, GoldOK, InBounds, Paid
  <2>5. CallsOK'
    <3> DEFINE new == [at |-> "copied", by |-> c.by, to |-> c.to, from |-> c.from,
                       seller |-> c.seller, slot |-> c.slot, no |-> c.no]
    <3>1. new \in CallStates
      BY <2>1 DEF Paid, Copied, CallStates
    <3>2. ASSUME NEW m \in Calls, Has(m, "from") PROVE [call[m] EXCEPT !.from = old] \in CallStates
      <4>1. call[m] \in Paid \cup Copied \cup Registering
        BY <1>0, <3>2 DEF CallsOK, CallStates, Has, Idle, Opening, Placing, Marking, Deleting
      <4>2. CASE call[m] \in Paid
        BY <2>2, <4>2 DEF Paid, CallStates, Refs
      <4>3. CASE call[m] \in Copied
        BY <2>2, <4>3 DEF Copied, CallStates, Refs
      <4>4. CASE call[m] \in Registering
        BY <2>2, <4>4 DEF Registering, CallStates, Refs
      <4> QED
        BY <4>1, <4>2, <4>3, <4>4
    <3>3. call' = [m \in Calls |->
                     IF m = k THEN new
                     ELSE IF Has(m, "from") /\ call[m].from = p
                          THEN [call[m] EXCEPT !.from = old] ELSE call[m]]
      BY <1>11 DEF CopyItem
    <3> QED
      BY <1>0, <3>1, <3>2, <3>3 DEF CallsOK
  <2>6. PastOK'
    BY <1>0, <1>11, NoteType DEF CopyItem
  <2> QED
    BY <1>11, <1>c, <2>3, <2>4, <2>5, <2>6 DEF CopyItem
<1>12. ASSUME NEW k \in Running, FinishSale(k) PROVE Goal
  <2>1. call[k] \in Copied
    BY <1>0, <1>12, CallIs DEF FinishSale, Running
  <2>2. CallsOK'
    BY <1>0, <1>12, EndType DEF FinishSale
  <2>3. GoodsOK'
    BY <1>0, <1>12, ClearedType DEF FinishSale, GoodsOK
  <2>4. TradeOK'
    <3>1. cons' = cons
      BY <1>12 DEF FinishSale
    <3>2. sale' \in [Chars -> Sales_ \cup {None}]
      BY <1>0, <1>12, <2>1 DEF FinishSale, TradeOK, Sales_, Copied
    <3> QED
      BY <1>0, <3>1, <3>2 DEF TradeOK
  <2> QED
    BY <1>12, <1>b, <1>e, <2>2, <2>3, <2>4 DEF FinishSale
<1>13. ASSUME NEW k \in Running, FinishRegister(k) PROVE Goal
  <2>1. call[k] \in Registering
    BY <1>0, <1>13, CallIs DEF FinishRegister, Running
  <2>2. Content(call[k].from) \in Items \cup {None}
    BY <1>0, <2>1, ContentType DEF Registering
  <2>3. Fee[call[k].row] \in Nat
    BY <2>1, MarketAssumption DEF Registering
  <2>4. CallsOK' /\ PastOK'
    BY <1>0, <1>13, <2>3, EndType, NoteType DEF FinishRegister
  <2>5. GoldOK'
    BY <1>0, <1>13, <2>1, <2>3, MarketAssumption DEF FinishRegister, GoldOK, InBounds, Registering
  <2>6. GoodsOK'
    <3>1. bag' \in [Chars -> [Slots -> Items \cup {None}]]
      BY <1>0, <1>13, ClearedType DEF FinishRegister
    <3>2. where' \in [Items -> Refs]
      BY <1>0, <1>13, <2>2 DEF FinishRegister, GoodsOK, Refs
    <3>3. shelf' \subseteq Items /\ away' \subseteq Items /\ buried' \subseteq Items
      BY <1>0, <1>13, <2>2 DEF FinishRegister, GoodsOK
    <3> QED
      BY <3>1, <3>2, <3>3 DEF GoodsOK
  <2> QED
    BY <1>13, <1>c, <2>4, <2>5, <2>6 DEF FinishRegister
<1>14. ASSUME NEW k \in Running, call[k] \in Placing, Placed(k), UNCHANGED <<away, buried>>
       PROVE GoodsOK'
  BY <1>0, <1>14 DEF Placed, GoodsOK, Placing, Refs, Places
<1>15. ASSUME NEW k \in Running, FinishBuy(k) PROVE Goal
  <2>1. call[k] \in Placing /\ k \in Calls
    BY <1>0, <1>15, CallIs DEF FinishBuy, Running
  <2>2. GoodsOK'
    BY <1>14, <1>15, <2>1 DEF FinishBuy
  <2>3. GoldOK'
    BY <1>0, <1>15, <2>1, MarketAssumption DEF FinishBuy, GoldOK, InBounds, Placing
  <2>4. [at |-> "marking", row |-> call[k].row, seller |-> call[k].seller] \in CallStates
    BY <2>1 DEF Placing, Marking, CallStates
  <2>5. CallsOK'
    BY <1>0, <1>15, <2>4 DEF FinishBuy, CallsOK
  <2> QED
    BY <1>15, <1>c, <1>e, <2>2, <2>3, <2>5 DEF FinishBuy
<1>16. ASSUME NEW k \in Running, MarkSold(k) PROVE Goal
  <2>1. call[k] \in Marking
    BY <1>0, <1>16, CallIs DEF MarkSold, Running
  <2>2. TradeOK'
    BY <1>0, <1>16, <2>1 DEF MarkSold, TradeOK, Rows, Marking
  <2>3. CallsOK'
    BY <1>0, <1>16, EndType DEF MarkSold
  <2> QED
    BY <1>16, <1>a, <1>b, <1>e, <2>2, <2>3 DEF MarkSold
<1>17. ASSUME NEW k \in Running, FinishCancel(k) PROVE Goal
  <2>1. call[k] \in Placing /\ k \in Calls
    BY <1>0, <1>17, CallIs DEF FinishCancel, Running
  <2>2. GoodsOK'
    BY <1>14, <1>17, <2>1 DEF FinishCancel
  <2>3. [at |-> "deleting", row |-> call[k].row] \in CallStates
    BY <2>1 DEF Placing, Deleting, CallStates
  <2>4. CallsOK'
    BY <1>0, <1>17, <2>3 DEF FinishCancel, CallsOK
  <2> QED
    BY <1>17, <1>b, <1>c, <1>e, <2>2, <2>4 DEF FinishCancel
<1>18. ASSUME NEW k \in Running, DeleteRow(k) PROVE Goal
  <2>1. call[k] \in Deleting
    BY <1>0, <1>18, CallIs DEF DeleteRow, Running
  <2>2. TradeOK'
    BY <1>0, <1>18, <2>1 DEF DeleteRow, TradeOK, Deleting
  <2>3. CallsOK'
    BY <1>0, <1>18, EndType DEF DeleteRow
  <2> QED
    BY <1>18, <1>a, <1>b, <1>e, <2>2, <2>3 DEF DeleteRow
<1> QED
  BY <1>1, <1>2, <1>3, <1>4, <1>5, <1>6, <1>7, <1>8, <1>9, <1>10, <1>11, <1>12, <1>13,
     <1>15, <1>16, <1>17, <1>18 DEF Step

\* At the start, and through a step that changes nothing.
LEMMA InitType == Init => TypeOK
<1> SUFFICES ASSUME Init PROVE TypeOK
  OBVIOUS
<1>1. GoodsOK /\ TradeOK /\ PastOK
  BY DEF Init, GoodsOK, TradeOK, PastOK, Refs
<1>2. GoldOK
  BY MarketAssumption DEF Init, GoldOK
<1>3. CallsOK
  <2>1. Idle \in CallStates
    BY DEF CallStates
  <2> QED
    BY <2>1 DEF Init, CallsOK
<1> QED
  BY <1>1, <1>2, <1>3, TypeParts

\* A step that changes nothing keeps the types.
LEMMA StutterType == TypeOK /\ UNCHANGED vars => TypeOK'
  BY DEF TypeOK, vars, goods, trade, past

\* The variables keep their types, also when calls have met (BuySaleItem, RegisterItem,
\* BuyConsignmentItem, ClaimConsignmentItem).
THEOREM MarketTyping == Spec => []TypeOK
<1>1. TypeOK /\ [Next]_vars => TypeOK'
  BY NextIsStep, StepType, StutterType
<1> QED
  BY InitType, <1>1, PTL DEF Spec

-----------------------------------------------------------------------------
(* Debts *)

\* What a call that spends will take.
Cost(k) == IF At(k, "registering") THEN Fee[call[k].row] ELSE Price[call[k].row]

\* As long as no two calls met and none was hasty, nobody has debts or a second call that
\* spends, and who has one still has the gold it will take.
Thrift ==
  ~crossed /\ ~hasty =>
    \A c \in Chars :
      /\ gold[c] >= 0
      /\ \A k \in Spending(c) : gold[c] >= Cost(k)
      /\ \A k, m \in Spending(c) : k = m

\* What a call will take is no less than nothing.
LEMMA CostIsNat ==
  ASSUME CallsOK, NEW c \in Chars, NEW k \in Spending(c)
  PROVE  Cost(k) \in Nat
<1>1. k \in Calls /\ (At(k, "registering") \/ At(k, "buying"))
  BY DEF Spending, Running, At
<1>2. call[k].row \in Items
  BY <1>1, CallIs DEF Registering, Placing
<1> QED
  BY <1>2, MarketAssumption DEF Cost

\* A step keeps Thrift that takes nobody's gold and begins no call that spends.
LEMMA ThriftKept ==
  ASSUME TypeOK, Thrift,
         ~crossed' => ~crossed, ~crossed' /\ ~hasty' => ~hasty,
         ~crossed' => \A c \in Chars : gold'[c] >= gold[c] /\ gold'[c] \in Int,
         \A c \in Chars : \A k \in Spending(c)' : k \in Spending(c) /\ Cost(k)' = Cost(k)
  PROVE  Thrift'
<1> SUFFICES ASSUME ~crossed', ~hasty', NEW c \in Chars
             PROVE  /\ gold'[c] >= 0
                    /\ \A k \in Spending(c)' : gold'[c] >= Cost(k)'
                    /\ \A k, m \in Spending(c)' : k = m
  BY DEF Thrift
<1>1. /\ gold[c] >= 0
      /\ \A k \in Spending(c) : gold[c] >= Cost(k)
      /\ \A k, m \in Spending(c) : k = m
  BY DEF Thrift
<1>2. gold[c] \in Int /\ gold'[c] \in Int /\ gold'[c] >= gold[c]
  BY MarketAssumption DEF TypeOK
<1>3. \A k \in Spending(c) : Cost(k) \in Nat
  BY CostIsNat, TypeParts
<1> QED
  BY <1>1, <1>2, <1>3

\* After a step that leaves a call as it was, or makes it one that does not spend, the
\* calls that spend did so before, and take as much.
NoNewSpending ==
  \A c \in Chars : \A k \in Spending(c)' : k \in Spending(c) /\ Cost(k)' = Cost(k)

\* No call begins to spend where calls stay, or come to a state in which none does.
LEMMA OthersSpend ==
  ASSUME \A k \in Calls : call'[k] = call[k] \/ call'[k].at \notin {"registering", "buying"}
  PROVE  NoNewSpending
  BY DEF NoNewSpending, Spending, Running, Cost, At, Has

\* A call that begins and will not spend.
LEMMA BeginOther ==
  ASSUME CallsOK, NEW r, r.at \notin {"registering", "buying"}, Begin(r)
  PROVE  NoNewSpending
<1>1. PICK k \in Calls : call' = [call EXCEPT ![k] = r]
  BY DEF Begin
<1>2. \A m \in Calls : call'[m] = call[m] \/ call'[m] = r
  BY <1>1 DEF CallsOK
<1> QED
  BY <1>2, OthersSpend

\* A call that ends.
LEMMA EndOther ==
  ASSUME CallsOK, NEW k, End(k)
  PROVE  NoNewSpending
<1>1. \A m \in Calls : call'[m] = call[m] \/ call'[m] = Idle
  BY DEF CallsOK, End
<1>2. Idle.at = "idle"
  BY DEF Idle
<1> QED
  BY <1>1, <1>2, OthersSpend

\* The call with which c begins to spend is the only new one.
LEMMA BeginSpending ==
  ASSUME CallsOK, NEW c \in Chars, NEW r, "row" \in DOMAIN r, r.by = c,
         r.at \in {"registering", "buying"}, Begin(r)
  PROVE  \E k \in Calls :
           /\ k \notin Spending(c)
           /\ Spending(c)' \subseteq Spending(c) \cup {k}
           /\ Cost(k)' = IF r.at = "registering" THEN Fee[r.row] ELSE Price[r.row]
           /\ \A m \in Spending(c) : Cost(m)' = Cost(m)
           /\ \A d \in Chars \ {c} :
                \A m \in Spending(d)' : m \in Spending(d) /\ Cost(m)' = Cost(m)
<1>1. PICK k \in Calls \ Running : call' = [call EXCEPT ![k] = r]
  BY DEF Begin
<1>2. call'[k] = r /\ \A m \in Calls : m # k => call'[m] = call[m]
  BY <1>1 DEF CallsOK
<1>3. \A d \in Chars : k \notin Spending(d)
  BY DEF Spending
<1>4. \A d \in Chars : \A m \in Spending(d)' : m = k \/ m \in Spending(d)
  BY <1>2 DEF Spending, Running, Has
<1>5. \A d \in Chars \ {c} : k \notin Spending(d)'
  BY <1>2 DEF Spending, Running, Has
<1>6. \A d \in Chars : \A m \in Spending(d) : Cost(m)' = Cost(m)
  BY <1>2, <1>3 DEF Spending, Running, Cost, At
<1>7. Cost(k)' = IF r.at = "registering" THEN Fee[r.row] ELSE Price[r.row]
  BY <1>2 DEF Cost, At
<1> QED
  BY <1>1, <1>3, <1>4, <1>5, <1>6, <1>7

\* A call that spends is the only one of its character, ends, and takes what it looked at.
LEMMA SpendThrift ==
  ASSUME TypeOK, Thrift, NEW c \in Chars, NEW k \in Spending(c), NoNewSpending,
         k \notin Spending(c)',
         ~crossed' => ~crossed, ~crossed' /\ ~hasty' => ~hasty,
         gold' = [gold EXCEPT ![c] = @ - Cost(k)]
  PROVE  Thrift'
<1> SUFFICES ASSUME ~crossed', ~hasty', NEW d \in Chars
             PROVE  /\ gold'[d] >= 0
                    /\ \A m \in Spending(d)' : gold'[d] >= Cost(m)'
                    /\ \A m, n \in Spending(d)' : m = n
  BY DEF Thrift
<1>1. /\ gold[d] >= 0
      /\ \A m \in Spending(d) : gold[d] >= Cost(m)
      /\ \A m, n \in Spending(d) : m = n
  BY DEF Thrift
<1>2. gold[d] \in Int /\ Cost(k) \in Nat
  BY CostIsNat, TypeParts, MarketAssumption DEF TypeOK
<1>3. gold'[d] = IF d = c THEN gold[d] - Cost(k) ELSE gold[d]
  BY DEF TypeOK
<1>4. CASE d = c
  <2>1. Spending(c)' = {}
    BY <1>1, <1>4 DEF NoNewSpending
  <2> QED
    BY <1>1, <1>2, <1>3, <1>4, <2>1
<1>5. CASE d # c
  BY <1>1, <1>2, <1>3, <1>5 DEF NoNewSpending
<1> QED
  BY <1>4, <1>5

\* A call that begins to spend is the first of its character, which has the gold.
LEMMA BeginThrift ==
  ASSUME TypeOK, Thrift, NEW c \in Chars, NEW r, "row" \in DOMAIN r, r.by = c,
         r.at \in {"registering", "buying"}, Begin(r),
         Affords(c, IF r.at = "registering" THEN Fee[r.row] ELSE Price[r.row]),
         ~crossed' => ~crossed, ~crossed' /\ ~hasty' => ~hasty /\ Spending(c) = {},
         UNCHANGED gold
  PROVE  Thrift'
<1> SUFFICES ASSUME ~crossed', ~hasty', NEW d \in Chars
             PROVE  /\ gold[d] >= 0
                    /\ \A m \in Spending(d)' : gold[d] >= Cost(m)'
                    /\ \A m, n \in Spending(d)' : m = n
  BY DEF Thrift
<1>1. /\ gold[d] >= 0
      /\ \A m \in Spending(d) : gold[d] >= Cost(m)
      /\ \A m, n \in Spending(d) : m = n
  BY DEF Thrift
<1>2. PICK k \in Calls :
        /\ Spending(c)' \subseteq Spending(c) \cup {k}
        /\ Cost(k)' = IF r.at = "registering" THEN Fee[r.row] ELSE Price[r.row]
        /\ \A e \in Chars \ {c} :
             \A m \in Spending(e)' : m \in Spending(e) /\ Cost(m)' = Cost(m)
  BY BeginSpending, TypeParts
<1>3. CASE d = c
  <2>1. Spending(c)' \subseteq {k}
    BY <1>2
  <2>2. gold[c] \in Int
    BY MarketAssumption DEF TypeOK
  <2> QED
    BY <1>1, <1>2, <1>3, <2>1, <2>2 DEF Affords
<1>4. CASE d # c
  BY <1>1, <1>2, <1>4
<1> QED
  BY <1>3, <1>4

\* Every step keeps Thrift.
LEMMA StepThrift ==
  ASSUME TypeOK, Thrift, Step
  PROVE  Thrift'
<1>0. GoodsOK /\ GoldOK /\ TradeOK /\ CallsOK /\ PastOK
  BY TypeParts
<1>a. ASSUME NEW m, NEW p, NEW f, Note(m, p, f)
      PROVE  (~crossed' => ~crossed) /\ (~crossed' /\ ~hasty' => ~hasty /\ ~p /\ ~m)
  BY <1>a, <1>0 DEF Note, PastOK
<1>b. UNCHANGED past => (~crossed' => ~crossed) /\ (~crossed' /\ ~hasty' => ~hasty)
  BY DEF past
<1>c. UNCHANGED gold => \A c \in Chars : gold'[c] >= gold[c] /\ gold'[c] \in Int
  BY <1>0, MarketAssumption DEF GoldOK
<1>d. UNCHANGED call => NoNewSpending
  BY OthersSpend
<1>1. ASSUME NEW c \in Chars, OpenSale(c) PROVE Thrift'
  <2>1. NoNewSpending
    BY <1>0, <1>1, BeginOther DEF OpenSale
  <2> QED
    BY <1>1, <2>1, <1>b, <1>c, ThriftKept DEF OpenSale, NoNewSpending
<1>2. ASSUME NEW c \in Chars, CloseSale(c) PROVE Thrift'
  BY <1>2, <1>b, <1>c, <1>d, ThriftKept DEF CloseSale, NoNewSpending
<1>3. ASSUME NEW c \in Chars, RegisterItem(c) PROVE Thrift'
  <2> DEFINE r(s) == [at |-> "registering", by |-> c, from |-> <<c, s>>, row |-> bag[c][s]]
  <2>1. PICK s \in Slots \ FreeSlots(c) :
          /\ Affords(c, Fee[bag[c][s]])
          /\ Begin(r(s))
          /\ Note(MeetsAt({<<c, s>>}) \/ MeetsRow(bag[c][s]), Spending(c) # {}, 0)
    BY <1>3 DEF RegisterItem
  <2>2. "row" \in DOMAIN r(s) /\ r(s).by = c /\ r(s).at = "registering"
    OBVIOUS
  <2>3. UNCHANGED gold
    BY <1>3 DEF RegisterItem
  <2>4. Affords(c, IF r(s).at = "registering" THEN Fee[r(s).row] ELSE Price[r(s).row])
    BY <2>1
  <2>5. (~crossed' => ~crossed) /\ (~crossed' /\ ~hasty' => ~hasty /\ Spending(c) = {})
    BY <2>1, <1>a
  <2> HIDE DEF r
  <2> QED
    BY <2>1, <2>2, <2>3, <2>4, <2>5, BeginThrift
<1>4. ASSUME NEW c \in Chars, NEW d \in Chars, BuySaleItem(c, d) PROVE Thrift'
  <2> DEFINE r(s, t) == [at |-> "paid", by |-> c, to |-> t, from |-> <<d, s>>, seller |-> d,
                slot |-> s, no |-> sale[d].no, gold |-> gold[d], cost |-> Price[bag[d][s]]]
  <2>1. PICK s \in sale[d].items \ sale[d].sold, t \in Slots :
          /\ bag[d][s] # None
          /\ Affords(c, Price[bag[d][s]])
          /\ gold' = [gold EXCEPT ![c] = @ - Price[bag[d][s]]]
          /\ Begin(r(s, t))
          /\ Note(MeetsAt({<<c, t>>, <<d, s>>}), Spending(c) # {}, 0)
    BY <1>4 DEF BuySaleItem
  <2>2. NoNewSpending
    <3>1. r(s, t).at = "paid"
      OBVIOUS
    <3> HIDE DEF r
    <3> QED
      BY <1>0, <2>1, <3>1, BeginOther
  <2>3. sale[d] \in Sales_ /\ s \in Slots
    BY <1>0, <1>4 DEF BuySaleItem, TradeOK, Sales_
  <2>4. Price[bag[d][s]] \in Nat
    BY <1>0, <2>1, <2>3, MarketAssumption DEF GoodsOK
  <2>5. (~crossed' => ~crossed) /\ (~crossed' /\ ~hasty' => ~hasty /\ Spending(c) = {})
    BY <2>1, <1>a
  <2> SUFFICES ASSUME ~crossed', ~hasty', NEW e \in Chars
               PROVE  /\ gold'[e] >= 0
                      /\ \A m \in Spending(e)' : gold'[e] >= Cost(m)'
                      /\ \A m, n \in Spending(e)' : m = n
    BY DEF Thrift
  <2>6. /\ gold[e] >= 0
        /\ \A m \in Spending(e) : gold[e] >= Cost(m)
        /\ \A m, n \in Spending(e) : m = n
    BY <2>5 DEF Thrift
  <2>7. gold[e] \in Int /\ gold'[e] = IF e = c THEN gold[e] - Price[bag[d][s]] ELSE gold[e]
    BY <1>0, <2>1, MarketAssumption DEF GoldOK
  <2>8. CASE e = c
    <3>1. Spending(c)' = {}
      BY <2>2, <2>5 DEF NoNewSpending
    <3> QED
      BY <2>1, <2>4, <2>6, <2>7, <2>8, <3>1 DEF Affords
  <2>9. CASE e # c
    BY <2>2, <2>6, <2>7, <2>9 DEF NoNewSpending
  <2> QED
    BY <2>8, <2>9
<1>5. ASSUME NEW c \in Chars, NEW i \in Items, BuyConsignmentItem(c, i) PROVE Thrift'
  <2> DEFINE r(s) == [at |-> "buying", by |-> c, to |-> s, row |-> i,
                      seller |-> cons[i].seller, item |-> Content(where[i])]
  <2>1. PICK s \in Slots :
          /\ Begin(r(s))
          /\ Note(MeetsRow(i) \/ MeetsAt({where[i], <<c, s>>}), Spending(c) # {}, 0)
    BY <1>5 DEF BuyConsignmentItem
  <2>2. "row" \in DOMAIN r(s) /\ r(s).by = c /\ r(s).at = "buying" /\ r(s).row = i
    OBVIOUS
  <2>3. UNCHANGED gold /\ Affords(c, Price[i])
    BY <1>5 DEF BuyConsignmentItem
  <2>4. Affords(c, IF r(s).at = "registering" THEN Fee[r(s).row] ELSE Price[r(s).row])
    BY <2>2, <2>3
  <2>5. (~crossed' => ~crossed) /\ (~crossed' /\ ~hasty' => ~hasty /\ Spending(c) = {})
    BY <2>1, <1>a
  <2> HIDE DEF r
  <2> QED
    BY <2>1, <2>2, <2>3, <2>4, <2>5, BeginThrift
<1>6. ASSUME NEW c \in Chars, NEW i \in Items, CancelItem(c, i) PROVE Thrift'
  <2> DEFINE r(s) == [at |-> "cancelling", by |-> c, to |-> s, row |-> i,
                      seller |-> cons[i].seller, item |-> Content(where[i])]
  <2>1. PICK s \in Slots :
          Begin(r(s)) /\ Note(MeetsRow(i) \/ MeetsAt({where[i], <<c, s>>}), FALSE, 0)
    BY <1>6 DEF CancelItem
  <2>2. r(s).at = "cancelling"
    OBVIOUS
  <2>3. NoNewSpending
    <3> HIDE DEF r
    <3> QED
      BY <1>0, <2>1, <2>2, BeginOther
  <2>4. (~crossed' => ~crossed) /\ (~crossed' /\ ~hasty' => ~hasty)
    BY <2>1, <1>a
  <2>5. UNCHANGED gold
    BY <1>6 DEF CancelItem
  <2> QED
    BY <2>3, <2>4, <2>5, <1>c, ThriftKept DEF NoNewSpending
<1>7. ASSUME NEW c \in Chars, NEW i \in Items, Claim(c, i) PROVE Thrift'
  <2>1. NoNewSpending
    BY <1>0, <1>7, BeginOther DEF Claim
  <2>2. (~crossed' => ~crossed) /\ (~crossed' /\ ~hasty' => ~hasty)
    BY <1>7, <1>a DEF Claim
  <2>3. \A d \in Chars : gold'[d] >= gold[d] /\ gold'[d] \in Int
    BY <1>0, <1>7, MarketAssumption DEF Claim, GoldOK
  <2> QED
    BY <2>1, <2>2, <2>3, ThriftKept DEF NoNewSpending
<1>8. ASSUME NEW c \in Chars, NEW i \in Items, Gain(c, i) PROVE Thrift'
  <2>1. (~crossed' => ~crossed) /\ (~crossed' /\ ~hasty' => ~hasty)
    BY <1>8, <1>a DEF Gain
  <2> QED
    BY <1>8, <2>1, <1>c, <1>d, ThriftKept DEF Gain, NoNewSpending
<1>9. ASSUME NEW c \in Chars, NEW s \in Slots, Lose(c, s) PROVE Thrift'
  <2>1. (~crossed' => ~crossed) /\ (~crossed' /\ ~hasty' => ~hasty)
    BY <1>9, <1>a DEF Lose
  <2> QED
    BY <1>9, <2>1, <1>c, <1>d, ThriftKept DEF Lose, NoNewSpending
<1>10. ASSUME NEW k \in Running,
              Create(k) \/ FinishSale(k) \/ MarkSold(k) \/ DeleteRow(k)
       PROVE  Thrift'
  <2>1. NoNewSpending
    BY <1>0, <1>10, EndOther DEF Create, FinishSale, MarkSold, DeleteRow
  <2>2. UNCHANGED gold /\ UNCHANGED past
    BY <1>10 DEF Create, FinishSale, MarkSold, DeleteRow
  <2> QED
    BY <2>1, <2>2, <1>b, <1>c, ThriftKept DEF NoNewSpending
<1>11. ASSUME NEW k \in Running, CopyItem(k) PROVE Thrift'
  <2> DEFINE old == bag[call[k].by][call[k].to]
  <2>1. call[k] \in Paid /\ k \in Calls
    BY <1>0, <1>11, CallIs DEF CopyItem, Running
  <2>2. NoNewSpending
    <3>1. call' = [m \in Calls |->
            IF m = k THEN [at |-> "copied", by |-> call[k].by, to |-> call[k].to,
                           from |-> call[k].from, seller |-> call[k].seller,
                           slot |-> call[k].slot, no |-> call[k].no]
            ELSE IF Has(m, "from") /\ call[m].from = <<call[k].by, call[k].to>>
                 THEN [call[m] EXCEPT !.from = old] ELSE call[m]]
      BY <1>11 DEF CopyItem
    <3>2. call'[k].at = "copied"
      BY <2>1, <3>1
    <3>3. ASSUME NEW m \in Calls, m # k
          PROVE  /\ DOMAIN call'[m] = DOMAIN call[m]
                 /\ \A f \in DOMAIN call[m] : f # "from" => call'[m][f] = call[m][f]
      BY <3>1, <3>3
    <3>4. ASSUME NEW c \in Chars, NEW m \in Spending(c)'
          PROVE  m \in Spending(c) /\ Cost(m)' = Cost(m)
      <4>1. m \in Calls /\ m # k
        BY <3>2, <3>4 DEF Spending, Running
      <4>2. "by" \in DOMAIN call[m] /\ call'[m].by = call[m].by
        BY <3>3, <3>4, <4>1 DEF Spending, Has
      <4>3. \/ "row" \in DOMAIN call[m]
            \/ call[m].at \in {"idle", "opening", "paid", "copied"}
        BY <1>0, <4>1 DEF CallsOK, CallStates, Idle, Opening, Paid, Copied, Registering,
          Placing, Marking, Deleting
      <4>4. "at" \in DOMAIN call[m]
        BY <1>0, <4>1 DEF CallsOK, CallStates, Idle, Opening, Paid, Copied, Registering,
          Placing, Marking, Deleting
      <4>5. call'[m].at = call[m].at
        BY <3>3, <4>1, <4>4
      <4>6. call[m].at \in {"registering", "buying"}
        BY <3>4, <4>5 DEF Spending
      <4>7. call'[m].row = call[m].row
        BY <3>3, <4>1, <4>3, <4>6
      <4>8. call[m] # Idle
        BY <4>6 DEF Idle
      <4>9. m \in Spending(c)
        BY <3>4, <4>1, <4>2, <4>6, <4>8 DEF Spending, Running, Has
      <4> QED
        BY <4>5, <4>7, <4>9 DEF Cost, At
    <3> QED
      BY <3>4 DEF NoNewSpending
  <2>3. (~crossed' => ~crossed) /\ (~crossed' /\ ~hasty' => ~hasty)
    BY <1>11, <1>a DEF CopyItem
  <2>4. ~crossed' => \A d \in Chars : gold'[d] >= gold[d] /\ gold'[d] \in Int
    <3>1. ~crossed' => gold[call[k].seller] = call[k].gold
      BY <1>11 DEF CopyItem, Note
    <3>2. gold' = [gold EXCEPT ![call[k].seller] = call[k].gold + call[k].cost]
      BY <1>11 DEF CopyItem
    <3> QED
      BY <1>0, <2>1, <3>1, <3>2, MarketAssumption DEF GoldOK, Paid
  <2> QED
    BY <2>2, <2>3, <2>4, ThriftKept DEF NoNewSpending
<1>12. ASSUME NEW k \in Running, FinishRegister(k) PROVE Thrift'
  <2>1. call[k] \in Registering /\ k \in Calls
    BY <1>0, <1>12, CallIs DEF FinishRegister, Running
  <2>a. PICK c \in Chars : c = call[k].by
    BY <2>1 DEF Registering
  <2>2. k \in Spending(c) /\ Cost(k) = Fee[call[k].row]
    BY <1>12, <2>1, <2>a DEF Spending, Has, Cost, At, Registering, FinishRegister
  <2>3. NoNewSpending
    BY <1>0, <1>12, EndOther DEF FinishRegister
  <2>4. k \notin Spending(c)'
    BY <1>0, <1>12, <2>1 DEF Spending, Running, FinishRegister, End, CallsOK
  <2>5. gold' = [gold EXCEPT ![c] = @ - Cost(k)]
    BY <1>12, <2>2, <2>a DEF FinishRegister
  <2>6. (~crossed' => ~crossed) /\ (~crossed' /\ ~hasty' => ~hasty)
    BY <1>12, <1>a DEF FinishRegister
  <2> QED
    BY <2>2, <2>3, <2>4, <2>5, <2>6, SpendThrift
<1>13. ASSUME NEW k \in Running, FinishBuy(k) PROVE Thrift'
  <2>1. call[k] \in Placing /\ k \in Calls
    BY <1>0, <1>13, CallIs DEF FinishBuy, Running
  <2>a. PICK c \in Chars : c = call[k].by
    BY <2>1 DEF Placing
  <2>2. k \in Spending(c) /\ Cost(k) = Price[call[k].row]
    BY <1>13, <2>1, <2>a DEF Spending, Has, Cost, At, Placing, FinishBuy
  <2>3. call' = [call EXCEPT ![k] =
                   [at |-> "marking", row |-> call[k].row, seller |-> call[k].seller]]
    BY <1>13 DEF FinishBuy
  <2>4. call'[k].at = "marking" /\ \A m \in Calls : m # k => call'[m] = call[m]
    BY <1>0, <2>1, <2>3 DEF CallsOK
  <2>5. NoNewSpending
    BY <2>4, OthersSpend
  <2>6. k \notin Spending(c)'
    BY <2>4 DEF Spending
  <2>7. gold' = [gold EXCEPT ![c] = @ - Cost(k)]
    BY <1>13, <2>2, <2>a DEF FinishBuy
  <2>8. UNCHANGED past
    BY <1>13 DEF FinishBuy
  <2> QED
    BY <2>2, <2>5, <2>6, <2>7, <2>8, <1>b, SpendThrift
<1>14. ASSUME NEW k \in Running, FinishCancel(k) PROVE Thrift'
  <2>1. call' = [call EXCEPT ![k] = [at |-> "deleting", row |-> call[k].row]]
    BY <1>14 DEF FinishCancel
  <2>2. \A m \in Calls : call'[m] = call[m] \/ call'[m].at = "deleting"
    BY <1>0, <2>1 DEF CallsOK
  <2>3. NoNewSpending
    BY <2>2, OthersSpend
  <2>4. UNCHANGED gold /\ UNCHANGED past
    BY <1>14 DEF FinishCancel
  <2> QED
    BY <2>3, <2>4, <1>b, <1>c, ThriftKept DEF NoNewSpending
<1> QED
  BY <1>1, <1>2, <1>3, <1>4, <1>5, <1>6, <1>7, <1>8, <1>9, <1>10, <1>11, <1>12, <1>13,
     <1>14 DEF Step

\* Nobody's gold goes below zero, unless gold that one call looked at was spent by another
\* or two calls met (RegisterItem, BuyConsignmentItem, BuySaleItem).
THEOREM MarketNoDebt == Spec => []NoDebt
<1>1. Init => Thrift
  BY MarketAssumption DEF Init, Thrift, Spending, Running, Idle
<1>2. TypeOK /\ Thrift /\ [Next]_vars => Thrift'
  <2>1. Thrift /\ UNCHANGED vars => Thrift'
    BY DEF Thrift, vars, past, Spending, Running, Has, Cost, At
  <2> QED
    BY <2>1, NextIsStep, StepThrift
<1>3. TypeOK /\ Thrift => NoDebt
  BY MarketAssumption DEF TypeOK, Thrift, NoDebt
<1> QED
  BY <1>1, <1>2, <1>3, MarketTyping, PTL DEF Spec

-----------------------------------------------------------------------------
(* Where items are while no two calls have met *)

\* The places and the row that a call has to itself, by what it knows.
HoldsOf(r) ==
  (IF "to" \in DOMAIN r THEN {<<r.by, r.to>>} ELSE {})
    \cup (IF "from" \in DOMAIN r THEN {r.from} ELSE {})
RowOf(r) == IF "row" \in DOMAIN r THEN {r.row} ELSE {}

\* Calls that have not met have different places and different rows.
Apart ==
  \A k, m \in Calls : k # m =>
    /\ HoldsOf(call[k]) \cap HoldsOf(call[m]) = {}
    /\ RowOf(call[k]) \cap RowOf(call[m]) = {}

\* The item is on consignment and not sold.
Unsold(i) == cons[i] # None /\ ~cons[i].sold

\* What a call knows is still so.
Fits(r) ==
  /\ r.at = "paid" =>
       r.from \in Places /\ r.from # <<r.by, r.to>> /\ Content(r.from) # None
  /\ r.at = "copied" =>
       /\ r.from \in Places /\ r.from # <<r.by, r.to>>
       /\ bag[r.by][r.to] = Content(r.from) /\ Content(r.from) # None
  /\ r.at = "registering" => r.from \in Places /\ Content(r.from) = r.row /\ Unsold(r.row)
  /\ r.at \in {"buying", "cancelling"} =>
       bag[r.by][r.to] = None /\ r.item = r.row /\ r.row \in shelf /\ Unsold(r.row)
  /\ r.at = "marking" => r.row \notin shelf /\ Unsold(r.row)
  /\ r.at = "deleting" => r.row \notin shelf /\ cons[r.row] # None
\* So it is of every call.
CallsFit == \A k \in Calls : Fits(call[k])

\* Where items are: in two places only if they are the places of a purchase.
ItemsFit ==
  /\ \A p, q \in Places : p # q /\ Content(p) = Content(q) /\ Content(p) # None =>
       \E k \in Calls : call[k].at = "copied" /\ HoldsOf(call[k]) = {p, q}
  /\ \A p \in Places : Content(p) \notin shelf \cup away \cup buried
  /\ shelf \cap away = {} /\ buried \cap (shelf \cup away) = {}
  /\ \A i \in Items : i \in shelf \cup away \cup buried \/ \E p \in Places : Content(p) = i
  /\ \A i \in shelf : where[i] = i

\* The shelf is what the rows that are not sold say, but for those a call is at work on.
StoreFits ==
  /\ \A i \in shelf : Unsold(i)
  /\ \A i \in Items : Unsold(i) => i \in shelf \/ \E k \in Calls : i \in RowOf(call[k])

\* Goods are where they should be, each once.
HeldOnce == Apart /\ CallsFit /\ ItemsFit /\ StoreFits

\* A call that has met nothing at some places, or at a row, holds none of them.
LEMMA NotMet ==
  ASSUME NEW k \in Calls
  PROVE  /\ \A ps : ~MeetsAt(ps) => HoldsOf(call[k]) \cap ps = {}
         /\ \A i : ~MeetsRow(i) => i \notin RowOf(call[k])
<1>1. CASE call[k] = Idle
  BY <1>1 DEF HoldsOf, RowOf, Idle
<1>2. CASE call[k] # Idle
  <2>1. k \in Running /\ Holds(k) = HoldsOf(call[k])
    BY <1>2 DEF Running, Holds, HoldsOf, Has
  <2>2. ASSUME NEW ps, ~MeetsAt(ps) PROVE HoldsOf(call[k]) \cap ps = {}
    BY <2>1, <2>2 DEF MeetsAt
  <2>3. ASSUME NEW i, ~MeetsRow(i) PROVE i \notin RowOf(call[k])
    BY <2>1, <2>3 DEF MeetsRow, RowOf, Has
  <2> QED
    BY <2>2, <2>3
<1> QED
  BY <1>1, <1>2

\* A call that begins or goes on keeps apart from the others if what it takes is apart.
LEMMA StaysApart ==
  ASSUME CallsOK, Apart, NEW k \in Calls, NEW r, call' = [call EXCEPT ![k] = r],
         \A m \in Calls \ {k} : /\ HoldsOf(r) \cap HoldsOf(call[m]) = {}
                                /\ RowOf(r) \cap RowOf(call[m]) = {}
  PROVE  Apart'
<1>1. call'[k] = r /\ \A m \in Calls \ {k} : call'[m] = call[m]
  BY DEF CallsOK
<1>2. ASSUME NEW m \in Calls, NEW n \in Calls, m # n
      PROVE  /\ HoldsOf(call'[m]) \cap HoldsOf(call'[n]) = {}
             /\ RowOf(call'[m]) \cap RowOf(call'[n]) = {}
  <2> HIDE DEF HoldsOf, RowOf
  <2>1. CASE m = k
    BY <1>1, <1>2, <2>1
  <2>2. CASE n = k
    BY <1>1, <1>2, <2>2
  <2>3. CASE m # k /\ n # k
    BY <1>1, <1>2, <2>3 DEF Apart
  <2> QED
    BY <2>1, <2>2, <2>3
<1> QED
  BY <1>2 DEF Apart, HoldsOf, RowOf

\* So does one that lets go of what it has.
LEMMA LetsGo ==
  ASSUME CallsOK, Apart, NEW k \in Calls, NEW r, call' = [call EXCEPT ![k] = r],
         HoldsOf(r) \subseteq HoldsOf(call[k]), RowOf(r) \subseteq RowOf(call[k])
  PROVE  Apart'
<1>1. \A m \in Calls \ {k} : /\ HoldsOf(r) \cap HoldsOf(call[m]) = {}
                             /\ RowOf(r) \cap RowOf(call[m]) = {}
  BY DEF Apart
<1> QED
  BY <1>1, StaysApart

\* What calls know stays so where nothing changes at their places and their rows.
LEMMA StillFits ==
  ASSUME CallsOK, CallsFit, NEW M \in SUBSET Calls, NEW P, NEW R,
         \A m \in M : /\ call'[m] = call[m]
                      /\ HoldsOf(call[m]) \cap P = {} /\ RowOf(call[m]) \cap R = {},
         \A p \in Places \ P : Content(p)' = Content(p),
         \A i \in Items \ R : cons'[i] = cons[i] /\ (i \in shelf' <=> i \in shelf)
  PROVE  \A m \in M : Fits(call[m])'
<1> SUFFICES ASSUME NEW m \in M PROVE Fits(call[m])'
  OBVIOUS
<1>0. PICK r \in CallStates : r = call[m] /\ r = call'[m] /\ Fits(r)
  BY DEF CallsOK, CallsFit
<1>1. HoldsOf(r) \cap P = {} /\ RowOf(r) \cap R = {}
  BY <1>0
<1>2. Fits(r)'
  <2>1. CASE r \in Paid
    <3>1. r.from \notin P /\ <<r.by, r.to>> \notin P /\ <<r.by, r.to>> \in Places
      BY <1>1, <2>1 DEF HoldsOf, Paid, Places
    <3> QED
      BY <1>0, <2>1, <3>1 DEF Fits, Paid, Content
  <2>2. CASE r \in Copied
    <3>1. r.from \notin P /\ <<r.by, r.to>> \notin P /\ <<r.by, r.to>> \in Places
      BY <1>1, <2>2 DEF HoldsOf, Copied, Places
    <3> QED
      BY <1>0, <2>2, <3>1 DEF Fits, Copied, Content
  <2>3. CASE r \in Registering
    <3>1. r.from \notin P /\ r.row \in Items \ R
      BY <1>1, <2>3 DEF HoldsOf, RowOf, Registering
    <3> QED
      BY <1>0, <2>3, <3>1 DEF Fits, Registering, Content, Unsold
  <2>4. CASE r \in Placing
    <3>1. <<r.by, r.to>> \notin P /\ <<r.by, r.to>> \in Places /\ r.row \in Items \ R
      BY <1>1, <2>4 DEF HoldsOf, RowOf, Placing, Places
    <3> QED
      BY <1>0, <2>4, <3>1 DEF Fits, Placing, Content, Unsold
  <2>5. CASE r \in Marking \cup Deleting
    <3>1. r.row \in Items \ R
      BY <1>1, <2>5 DEF RowOf, Marking, Deleting
    <3> QED
      BY <1>0, <2>5, <3>1 DEF Fits, Marking, Deleting, Unsold
  <2>6. CASE r \in Opening \cup {Idle}
    BY <2>6 DEF Fits, Opening, Idle
  <2> QED
    BY <2>1, <2>2, <2>3, <2>4, <2>5, <2>6 DEF CallStates
<1> QED
  BY <1>0, <1>2 DEF Fits, Content, Unsold

\* What is held does not depend on shops, gold and history.
LEMMA HeldSame ==
  ASSUME HeldOnce, UNCHANGED goods, UNCHANGED cons, UNCHANGED call
  PROVE  HeldOnce'
  BY DEF HeldOnce, Apart, CallsFit, Fits, ItemsFit, StoreFits, Unsold, Content, HoldsOf, RowOf, goods

\* Items stay where they are: in two places only those of a purchase.
LEMMA SameItems ==
  ASSUME ItemsFit, UNCHANGED goods,
         \A k \in Calls : call[k].at = "copied" => call'[k] = call[k]
  PROVE  ItemsFit'
<1>1. ASSUME NEW p \in Places, NEW q \in Places, p # q,
             Content(p)' = Content(q)', Content(p)' # None
      PROVE  \E k \in Calls : call'[k].at = "copied" /\ HoldsOf(call'[k]) = {p, q}
  <2>1. Content(p) = Content(q) /\ Content(p) # None
    BY <1>1 DEF Content, goods
  <2>2. PICK k \in Calls : call[k].at = "copied" /\ HoldsOf(call[k]) = {p, q}
    BY <1>1, <2>1 DEF ItemsFit
  <2> QED
    BY <2>2
<1>2. /\ \A p \in Places : Content(p)' \notin shelf' \cup away' \cup buried'
      /\ shelf' \cap away' = {} /\ buried' \cap (shelf' \cup away') = {}
      /\ \A i \in Items : i \in shelf' \cup away' \cup buried' \/ \E p \in Places : Content(p)' = i
      /\ \A i \in shelf' : where'[i] = i
  BY DEF ItemsFit, Content, goods
<1> QED
  BY <1>1, <1>2 DEF ItemsFit, Content, HoldsOf

\* The store is kept when rows change that nobody else is at.
LEMMA SameStore ==
  ASSUME TypeOK, StoreFits, NEW k \in Calls, \A m \in Calls \ {k} : call'[m] = call[m],
         NEW R, R = RowOf(call[k]) \cup RowOf(call'[k]),
         \A i \in Items \ R : cons'[i] = cons[i] /\ (i \in shelf' <=> i \in shelf),
         \A i \in Items \cap R : /\ i \in shelf' => Unsold(i)'
                                 /\ Unsold(i)' => i \in shelf' \/ i \in RowOf(call'[k]),
         shelf' \subseteq Items
  PROVE  StoreFits'
<1>1. ASSUME NEW i \in shelf' PROVE Unsold(i)'
  BY DEF StoreFits, Unsold
<1>2. ASSUME NEW i \in Items, Unsold(i)'
      PROVE  i \in shelf' \/ \E m \in Calls : i \in RowOf(call'[m])
  <2>1. CASE i \in R
    BY <1>2, <2>1
  <2>2. CASE i \notin R /\ i \notin shelf
    <3>1. Unsold(i)
      BY <1>2, <2>2 DEF Unsold
    <3>2. PICK m \in Calls : i \in RowOf(call[m])
      BY <2>2, <3>1 DEF StoreFits
    <3>3. m # k
      BY <2>2, <3>2
    <3> QED
      BY <3>2, <3>3
  <2> QED
    BY <2>1, <2>2
<1> QED
  BY <1>1, <1>2 DEF StoreFits, Unsold, RowOf

\* A call begins or goes on, and no item moves.
LEMMA QuietHeld ==
  ASSUME TypeOK, HeldOnce, NEW k \in Calls, NEW r, call' = [call EXCEPT ![k] = r],
         UNCHANGED goods, call[k].at # "copied",
         \A m \in Calls \ {k} : /\ HoldsOf(r) \cap HoldsOf(call[m]) = {}
                                /\ RowOf(r) \cap RowOf(call[m]) = {},
         \A i \in Items \ (RowOf(call[k]) \cup RowOf(r)) : cons'[i] = cons[i],
         \A i \in Items \cap (RowOf(call[k]) \cup RowOf(r)) :
           /\ i \in shelf => Unsold(i)'
           /\ Unsold(i)' => i \in shelf \/ i \in RowOf(r),
         Fits(call[k])'
  PROVE  HeldOnce'
<1>0. CallsOK /\ Apart /\ CallsFit /\ ItemsFit /\ StoreFits /\ shelf \subseteq Items
  BY TypeParts DEF HeldOnce, GoodsOK
<1>1. call'[k] = r /\ \A m \in Calls \ {k} : call'[m] = call[m]
  BY <1>0 DEF CallsOK
<1>2. shelf' = shelf /\ bag' = bag
  BY DEF goods
<1>3. Apart'
  BY <1>0, StaysApart
<1>4. ItemsFit'
  <2>1. \A m \in Calls : call[m].at = "copied" => call'[m] = call[m]
    BY <1>1
  <2> QED
    BY <1>0, <2>1, SameItems
<1>5. StoreFits'
  <2>1. PICK R : R = RowOf(call[k]) \cup RowOf(r)
    OBVIOUS
  <2>2. R = RowOf(call[k]) \cup RowOf(call'[k])
    BY <1>1, <2>1
  <2>3. \A i \in Items \ R : cons'[i] = cons[i] /\ (i \in shelf' <=> i \in shelf)
    BY <1>2, <2>1
  <2>4. \A i \in Items \cap R : /\ i \in shelf' => Unsold(i)'
                                /\ Unsold(i)' => i \in shelf' \/ i \in RowOf(call'[k])
    BY <1>1, <1>2, <2>1
  <2> QED
    BY <1>0, <1>1, <1>2, <2>2, <2>3, <2>4, SameStore
<1>6. CallsFit'
  <2>1. PICK M \in SUBSET Calls : M = Calls \ {k}
    OBVIOUS
  <2>2. PICK P, R : P = {} /\ R = RowOf(call[k]) \cup RowOf(r)
    OBVIOUS
  <2>3. \A m \in M : /\ call'[m] = call[m]
                     /\ HoldsOf(call[m]) \cap P = {} /\ RowOf(call[m]) \cap R = {}
    BY <1>0, <1>1, <2>1, <2>2 DEF Apart
  <2>4. /\ \A p \in Places \ P : Content(p)' = Content(p)
        /\ \A i \in Items \ R : cons'[i] = cons[i] /\ (i \in shelf' <=> i \in shelf)
    BY <1>2, <2>2 DEF Content
  <2>5. \A m \in M : Fits(call[m])'
    BY <1>0, <2>1, <2>3, <2>4, StillFits
  <2> QED
    BY <2>1, <2>5 DEF CallsFit
<1> QED
  BY <1>3, <1>4, <1>5, <1>6 DEF HeldOnce

\* A call that begins, and meets none.
LEMMA BeginHeld ==
  ASSUME TypeOK, HeldOnce, NEW r, Begin(r), UNCHANGED goods,
         NEW P, HoldsOf(r) \subseteq P, ~MeetsAt(P), \A i \in RowOf(r) : ~MeetsRow(i),
         \A i \in Items \ RowOf(r) : cons'[i] = cons[i],
         \A i \in Items \cap RowOf(r) : i \in shelf => Unsold(i)',
         \A k \in Calls : call'[k] = r => Fits(call[k])'
  PROVE  HeldOnce'
<1>1. PICK k \in Calls \ Running : call' = [call EXCEPT ![k] = r]
  BY DEF Begin
<1>2. call[k].at # "copied" /\ RowOf(call[k]) = {}
  BY <1>1 DEF Running, Idle, RowOf
<1>3. Fits(call[k])'
  <2>1. call'[k] = r
    BY <1>1, TypeParts DEF CallsOK
  <2> QED
    BY <1>1, <2>1
<1>4. \A m \in Calls \ {k} : /\ HoldsOf(r) \cap HoldsOf(call[m]) = {}
                             /\ RowOf(r) \cap RowOf(call[m]) = {}
  BY NotMet
<1> QED
  BY <1>1, <1>2, <1>3, <1>4, QuietHeld

\* A row of the store is there.
LEMMA RowIsNotNone ==
  ASSUME NEW c \in Chars
  PROVE  [seller |-> c, sold |-> TRUE] # None /\ [seller |-> c, sold |-> FALSE] # None
<1>1. [seller |-> c, sold |-> TRUE] \in Rows /\ [seller |-> c, sold |-> FALSE] \in Rows
  BY DEF Rows
<1>2. None \notin Rows
  BY MarketAssumption
<1> QED
  BY <1>1, <1>2

\* OpenSale, RegisterItem, BuySaleItem, BuyConsignmentItem, CancelItem and Claim.
LEMMA BeginsHeld ==
  ASSUME TypeOK, HeldOnce, ~crossed', NEW c \in Chars,
         \/ OpenSale(c) \/ RegisterItem(c) \/ \E d \in Chars : BuySaleItem(c, d)
         \/ \E i \in Items : BuyConsignmentItem(c, i) \/ CancelItem(c, i) \/ Claim(c, i)
  PROVE  HeldOnce'
<1>0. GoodsOK /\ GoldOK /\ TradeOK /\ CallsOK /\ PastOK
  BY TypeParts
<1>a. ASSUME NEW m, NEW p, NEW f, Note(m, p, f) PROVE ~m
  BY <1>a, <1>0 DEF Note, PastOK
<1>b. /\ \A i \in shelf : Unsold(i) /\ i \in Items /\ where[i] = i
      /\ \A i \in Items : Unsold(i) => i \in shelf \/ \E k \in Calls : i \in RowOf(call[k])
  BY <1>0 DEF HeldOnce, StoreFits, ItemsFit, GoodsOK
<1>c. ASSUME UNCHANGED cons
      PROVE  \A i \in Items : cons'[i] = cons[i] /\ (i \in shelf => Unsold(i)')
  BY <1>b, <1>c DEF Unsold
<1>1. CASE OpenSale(c)
  <2>1. PICK n \in 1..NumSales, S \in SUBSET (Slots \ FreeSlots(c)) :
          Begin([at |-> "opening", by |-> c, no |-> n, items |-> S])
    BY <1>1 DEF OpenSale
  <2>2. PICK r : r = [at |-> "opening", by |-> c, no |-> n, items |-> S]
    OBVIOUS
  <2>3. HoldsOf(r) = {} /\ RowOf(r) = {}
    BY <2>2 DEF HoldsOf, RowOf
  <2>4. ~MeetsAt({})
    BY DEF MeetsAt
  <2>5. \A k \in Calls : call'[k] = r => Fits(call[k])'
    BY <2>2 DEF Fits
  <2>6. UNCHANGED goods /\ UNCHANGED cons
    BY <1>1 DEF OpenSale, trade
  <2> QED
    BY <1>c, <2>1, <2>2, <2>3, <2>4, <2>5, <2>6, BeginHeld
<1>2. CASE RegisterItem(c)
  <2>1. PICK s \in Slots \ FreeSlots(c) :
          /\ cons[bag[c][s]] = None
          /\ cons' = [cons EXCEPT ![bag[c][s]] = [seller |-> c, sold |-> FALSE]]
          /\ Begin([at |-> "registering", by |-> c, from |-> <<c, s>>, row |-> bag[c][s]])
          /\ Note(MeetsAt({<<c, s>>}) \/ MeetsRow(bag[c][s]), Spending(c) # {}, 0)
    BY <1>2 DEF RegisterItem
  <2>2. PICK i \in Items : i = bag[c][s]
    BY <1>0 DEF GoodsOK, FreeSlots
  <2>3. PICK r : r = [at |-> "registering", by |-> c, from |-> <<c, s>>, row |-> i]
    OBVIOUS
  <2>4. HoldsOf(r) = {<<c, s>>} /\ RowOf(r) = {i}
    BY <2>3 DEF HoldsOf, RowOf
  <2>5. ~MeetsAt({<<c, s>>}) /\ ~MeetsRow(i)
    BY <1>a, <2>1, <2>2
  <2>6. /\ \A j \in Items \ {i} : cons'[j] = cons[j]
        /\ cons'[i] = [seller |-> c, sold |-> FALSE]
    BY <1>0, <2>1, <2>2 DEF TradeOK
  <2>7. UNCHANGED goods
    BY <1>2 DEF RegisterItem
  <2>8. Unsold(i)'
    BY <2>6, RowIsNotNone DEF Unsold
  <2>9. \A k \in Calls : call'[k] = r => Fits(call[k])'
    BY <2>2, <2>3, <2>6, <2>7, <2>8 DEF Fits, Content, Places, goods, Unsold
  <2> QED
    BY <2>1, <2>2, <2>3, <2>4, <2>5, <2>6, <2>7, <2>8, <2>9, BeginHeld
<1>3. ASSUME NEW d \in Chars, BuySaleItem(c, d) PROVE HeldOnce'
  <2> DEFINE new(s, t) == [at |-> "paid", by |-> c, to |-> t, from |-> <<d, s>>, seller |-> d,
                slot |-> s, no |-> sale[d].no, gold |-> gold[d], cost |-> Price[bag[d][s]]]
  <2>1. PICK s \in sale[d].items \ sale[d].sold, t \in Slots :
          /\ bag[d][s] # None
          /\ Begin(new(s, t))
          /\ Note(MeetsAt({<<c, t>>, <<d, s>>}), Spending(c) # {}, 0)
    BY <1>3 DEF BuySaleItem
  <2>a. <<d, s>> # <<c, t>>
    BY <1>3 DEF BuySaleItem
  <2>2. PICK r : r = new(s, t)
    OBVIOUS
  <2>3. HoldsOf(r) = {<<c, t>>, <<d, s>>} /\ RowOf(r) = {}
    BY <2>2 DEF HoldsOf, RowOf
  <2>4. ~MeetsAt({<<c, t>>, <<d, s>>})
    BY <1>a, <2>1
  <2>5. UNCHANGED goods /\ UNCHANGED cons
    BY <1>3 DEF BuySaleItem, trade
  <2>6. s \in Slots /\ t \in Slots
    BY <1>0, <1>3 DEF BuySaleItem, TradeOK, Sales_, FreeSlots
  <2>7. \A k \in Calls : call'[k] = r => Fits(call[k])'
    BY <2>1, <2>2, <2>5, <2>6, <2>a DEF Fits, Content, Places, goods
  <2> HIDE DEF new
  <2> QED
    BY <1>c, <2>1, <2>2, <2>3, <2>4, <2>5, <2>7, BeginHeld
<1>4. ASSUME NEW i \in Items, Unsold(i), ~MeetsRow(i) PROVE i \in shelf /\ Content(where[i]) = i
  <2>1. i \in shelf
    BY <1>4, <1>b, NotMet
  <2> QED
    BY <1>b, <2>1, MarketAssumption DEF Content
<1>5. ASSUME NEW i \in Items, BuyConsignmentItem(c, i) PROVE HeldOnce'
  <2> DEFINE new(s) == [at |-> "buying", by |-> c, to |-> s, row |-> i,
                        seller |-> cons[i].seller, item |-> Content(where[i])]
  <2>1. PICK s \in Slots :
          /\ FindFreeSlot(c, s) /\ Begin(new(s))
          /\ Note(MeetsRow(i) \/ MeetsAt({where[i], <<c, s>>}), Spending(c) # {}, 0)
    BY <1>5 DEF BuyConsignmentItem
  <2>2. PICK r : r = new(s)
    OBVIOUS
  <2>3. HoldsOf(r) = {<<c, s>>} /\ RowOf(r) = {i}
    BY <2>2 DEF HoldsOf, RowOf
  <2>4. ~MeetsAt({where[i], <<c, s>>}) /\ ~MeetsRow(i)
    BY <1>a, <2>1
  <2>5. UNCHANGED goods /\ UNCHANGED cons /\ Unsold(i)
    BY <1>5 DEF BuyConsignmentItem, Unsold
  <2>6. i \in shelf /\ Content(where[i]) = i
    BY <1>4, <2>4, <2>5
  <2>7. bag[c][s] = None
    BY <2>1 DEF FindFreeSlot, FreeSlots
  <2>8. \A k \in Calls : call'[k] = r => Fits(call[k])'
    BY <2>2, <2>5, <2>6, <2>7 DEF Fits, Unsold, goods
  <2> HIDE DEF new
  <2> QED
    BY <1>c, <2>1, <2>2, <2>3, <2>4, <2>5, <2>8, BeginHeld
<1>6. ASSUME NEW i \in Items, CancelItem(c, i) PROVE HeldOnce'
  <2> DEFINE new(s) == [at |-> "cancelling", by |-> c, to |-> s, row |-> i,
                        seller |-> cons[i].seller, item |-> Content(where[i])]
  <2>1. PICK s \in Slots :
          /\ FindFreeSlot(c, s) /\ Begin(new(s))
          /\ Note(MeetsRow(i) \/ MeetsAt({where[i], <<c, s>>}), FALSE, 0)
    BY <1>6 DEF CancelItem
  <2>2. PICK r : r = new(s)
    OBVIOUS
  <2>3. HoldsOf(r) = {<<c, s>>} /\ RowOf(r) = {i}
    BY <2>2 DEF HoldsOf, RowOf
  <2>4. ~MeetsAt({where[i], <<c, s>>}) /\ ~MeetsRow(i)
    BY <1>a, <2>1
  <2>5. UNCHANGED goods /\ UNCHANGED cons
    BY <1>6 DEF CancelItem
  <2>a. Unsold(i)
    BY <1>6 DEF CancelItem, Unsold
  <2>6. i \in shelf /\ Content(where[i]) = i
    BY <1>4, <2>4, <2>a
  <2>7. bag[c][s] = None
    BY <2>1 DEF FindFreeSlot, FreeSlots
  <2>8. \A k \in Calls : call'[k] = r => Fits(call[k])'
    BY <2>2, <2>5, <2>6, <2>7, <2>a DEF Fits, Unsold, goods
  <2> HIDE DEF new
  <2> QED
    BY <1>c, <2>1, <2>2, <2>3, <2>4, <2>5, <2>8, BeginHeld
<1>7. ASSUME NEW i \in Items, Claim(c, i) PROVE HeldOnce'
  <2>1. PICK r : r = [at |-> "deleting", row |-> i]
    OBVIOUS
  <2>2. HoldsOf(r) = {} /\ RowOf(r) = {i}
    BY <2>1 DEF HoldsOf, RowOf
  <2>3. ~MeetsAt({})
    BY DEF MeetsAt
  <2>4. Begin(r) /\ ~MeetsRow(i) /\ UNCHANGED goods /\ UNCHANGED cons
    BY <1>7, <1>a, <2>1 DEF Claim
  <2>5. cons[i] # None /\ cons[i].sold
    BY <1>7 DEF Claim
  <2>6. i \notin shelf /\ cons[i] # None
    BY <1>b, <2>5 DEF Unsold
  <2>7. \A k \in Calls : call'[k] = r => Fits(call[k])'
    BY <2>1, <2>4, <2>6 DEF Fits, goods
  <2> QED
    BY <1>c, <2>2, <2>3, <2>4, <2>7, BeginHeld
<1> QED
  BY <1>1, <1>2, <1>3, <1>5, <1>6, <1>7

\* Create, MarkSold and DeleteRow.
LEMMA EndsHeld ==
  ASSUME TypeOK, HeldOnce, NEW k \in Running, Create(k) \/ MarkSold(k) \/ DeleteRow(k)
  PROVE  HeldOnce'
<1>0. /\ CallsOK /\ TradeOK /\ k \in Calls
      /\ call' = [call EXCEPT ![k] = Idle] /\ UNCHANGED goods
      /\ HoldsOf(Idle) = {} /\ RowOf(Idle) = {}
  BY TypeParts DEF Running, Create, MarkSold, DeleteRow, End, HoldsOf, RowOf, Idle
<1>1. Fits(call[k])'
  <2>1. call'[k] = Idle
    BY <1>0 DEF CallsOK
  <2> QED
    BY <2>1 DEF Fits, Idle
<1>2. Fits(call[k])
  BY <1>0 DEF HeldOnce, CallsFit
<1>3. /\ call[k].at # "copied"
      /\ \A i \in Items \ (RowOf(call[k]) \cup RowOf(Idle)) : cons'[i] = cons[i]
      /\ \A i \in Items \cap (RowOf(call[k]) \cup RowOf(Idle)) : i \notin shelf /\ ~Unsold(i)'
  <2>1. CASE Create(k)
    <3>1. RowOf(call[k]) = {}
      BY <1>0, <2>1, CallIs DEF Create, RowOf, Opening
    <3> QED
      BY <1>0, <2>1, <3>1 DEF Create, At
  <2>2. CASE MarkSold(k)
    <3>1. PICK i \in Items, c \in Chars : i = call[k].row /\ c = call[k].seller
      BY <1>0, <2>2, CallIs DEF MarkSold, Marking
    <3>2. RowOf(call[k]) = {i}
      BY <1>0, <2>2, <3>1, CallIs DEF MarkSold, Marking, RowOf
    <3>3. i \notin shelf /\ cons[i] # None
      BY <1>2, <2>2, <3>1 DEF MarkSold, At, Fits, Unsold
    <3>4. cons' = [cons EXCEPT ![i] = [seller |-> c, sold |-> TRUE]]
      BY <2>2, <3>1, <3>3 DEF MarkSold
    <3>5. cons'[i] = [seller |-> c, sold |-> TRUE] /\ \A j \in Items \ {i} : cons'[j] = cons[j]
      BY <1>0, <3>4 DEF TradeOK
    <3>6. ~Unsold(i)'
      BY <3>5 DEF Unsold
    <3> QED
      BY <1>0, <2>2, <3>2, <3>3, <3>5, <3>6 DEF MarkSold, At
  <2>3. CASE DeleteRow(k)
    <3>1. PICK i \in Items : i = call[k].row
      BY <1>0, <2>3, CallIs DEF DeleteRow, Deleting
    <3>2. RowOf(call[k]) = {i}
      BY <1>0, <2>3, <3>1, CallIs DEF DeleteRow, Deleting, RowOf
    <3>3. i \notin shelf
      BY <1>2, <2>3, <3>1 DEF DeleteRow, At, Fits
    <3>4. cons'[i] = None /\ \A j \in Items \ {i} : cons'[j] = cons[j]
      BY <1>0, <2>3, <3>1 DEF TradeOK, DeleteRow
    <3>5. ~Unsold(i)'
      BY <3>4 DEF Unsold
    <3> QED
      BY <1>0, <2>3, <3>2, <3>3, <3>4, <3>5 DEF DeleteRow, At
  <2> QED
    BY <2>1, <2>2, <2>3
<1> QED
  BY <1>0, <1>1, <1>3, QuietHeld

-----------------------------------------------------------------------------
(* Items that move *)

\* One place changes.
LEMMA OnePlace ==
  ASSUME GoodsOK, NEW c \in Chars, NEW s \in Slots, NEW v, bag' = [bag EXCEPT ![c][s] = v]
  PROVE  /\ <<c, s>> \in Places /\ Content(<<c, s>>)' = v
         /\ \A q \in Places : q # <<c, s>> => Content(q)' = Content(q)
<1>1. <<c, s>> \in Places /\ Content(<<c, s>>)' = v
  BY DEF GoodsOK, Places, Content
<1>2. ASSUME NEW d \in Chars, NEW t \in Slots, <<d, t>> # <<c, s>>
      PROVE  bag'[d][t] = bag[d][t]
  BY <1>2 DEF GoodsOK
<1>3. ASSUME NEW q \in Places, q # <<c, s>> PROVE Content(q)' = Content(q)
  <2>1. q[1] \in Chars /\ q[2] \in Slots /\ q = <<q[1], q[2]>>
    BY DEF Places
  <2>2. bag'[q[1]][q[2]] = bag[q[1]][q[2]]
    BY <1>2, <1>3, <2>1
  <2> QED
    BY <2>2 DEF Content
<1> QED
  BY <1>1, <1>3

\* An item that is away or in the store comes into a free slot.
LEMMA ComesIn ==
  ASSUME GoodsOK, ItemsFit, NEW i \in shelf \cup away, NEW p \in Places, Content(p) = None,
         Content(p)' = i, \A q \in Places : q # p => Content(q)' = Content(q),
         shelf' \in {shelf, shelf \ {i}}, away' \in {away, away \ {i}}, buried' = buried,
         i \notin shelf' \cup away', where' = [where EXCEPT ![i] = p],
         \A k \in Calls : call[k].at = "copied" => call'[k] = call[k]
  PROVE  ItemsFit'
<1>0. /\ i \in Items /\ i # None /\ i \notin buried
      /\ \A q \in Places : Content(q) # i
  BY MarketAssumption DEF GoodsOK, ItemsFit
<1>1. ASSUME NEW q \in Places, NEW r \in Places, q # r,
             Content(q)' = Content(r)', Content(q)' # None
      PROVE  \E k \in Calls : call'[k].at = "copied" /\ HoldsOf(call'[k]) = {q, r}
  <2>1. q # p /\ r # p
    BY <1>0, <1>1
  <2>2. Content(q) = Content(r) /\ Content(q) # None
    BY <1>1, <2>1
  <2>3. PICK k \in Calls : call[k].at = "copied" /\ HoldsOf(call[k]) = {q, r}
    BY <1>1, <2>2 DEF ItemsFit
  <2> QED
    BY <2>3
<1>2. ASSUME NEW q \in Places PROVE Content(q)' \notin shelf' \cup away' \cup buried'
  BY <1>0 DEF ItemsFit
<1>3. shelf' \cap away' = {} /\ buried' \cap (shelf' \cup away') = {}
  BY DEF ItemsFit
<1>4. ASSUME NEW j \in Items PROVE j \in shelf' \cup away' \cup buried' \/ \E q \in Places : Content(q)' = j
  <2>1. CASE j = i
    BY <2>1
  <2>2. CASE j # i
    <3>1. j \in shelf \cup away \cup buried \/ \E q \in Places : Content(q) = j
      BY DEF ItemsFit
    <3>2. j # None
      BY MarketAssumption
    <3> QED
      BY <2>2, <3>1, <3>2
  <2> QED
    BY <2>1, <2>2
<1>5. ASSUME NEW j \in shelf' PROVE where'[j] = j
  BY <1>0 DEF ItemsFit, GoodsOK
<1> QED
  BY <1>1, <1>2, <1>3, <1>4, <1>5 DEF ItemsFit, Content, HoldsOf

\* An item leaves its slot, which no purchase has, for the store or for good.
LEMMA GoesOut ==
  ASSUME GoodsOK, ItemsFit, NEW p \in Places, NEW i \in Items, Content(p) = i,
         Content(p)' = None, \A q \in Places : q # p => Content(q)' = Content(q),
         \/ shelf' = shelf \cup {i} /\ away' = away /\ where' = [where EXCEPT ![i] = i]
         \/ shelf' = shelf /\ away' = away \cup {i} /\ where' = where,
         buried' = buried,
         \A k \in Calls : call[k].at = "copied" => call'[k] = call[k] /\ p \notin HoldsOf(call[k])
  PROVE  ItemsFit'
<1>0. /\ i \notin shelf \cup away \cup buried /\ i # None
      /\ \A q \in Places : q # p => Content(q) # i
  <2>1. i \notin shelf \cup away \cup buried /\ i # None
    BY MarketAssumption DEF ItemsFit
  <2>2. ASSUME NEW q \in Places, q # p, Content(q) = i PROVE FALSE
    <3>1. PICK k \in Calls : call[k].at = "copied" /\ HoldsOf(call[k]) = {p, q}
      BY <2>1, <2>2 DEF ItemsFit
    <3> QED
      BY <3>1
  <2> QED
    BY <2>1, <2>2
<1>1. ASSUME NEW q \in Places, NEW r \in Places, q # r,
             Content(q)' = Content(r)', Content(q)' # None
      PROVE  \E k \in Calls : call'[k].at = "copied" /\ HoldsOf(call'[k]) = {q, r}
  <2>1. q # p /\ r # p
    BY <1>0, <1>1
  <2>2. Content(q) = Content(r) /\ Content(q) # None
    BY <1>1, <2>1
  <2>3. PICK k \in Calls : call[k].at = "copied" /\ HoldsOf(call[k]) = {q, r}
    BY <1>1, <2>2 DEF ItemsFit
  <2> QED
    BY <2>3
<1>2. ASSUME NEW q \in Places PROVE Content(q)' \notin shelf' \cup away' \cup buried'
  <2>1. CASE q = p
    BY <2>1, MarketAssumption DEF GoodsOK
  <2>2. CASE q # p
    BY <1>0, <2>2 DEF ItemsFit
  <2> QED
    BY <2>1, <2>2
<1>3. shelf' \cap away' = {} /\ buried' \cap (shelf' \cup away') = {}
  BY <1>0 DEF ItemsFit
<1>4. ASSUME NEW j \in Items PROVE j \in shelf' \cup away' \cup buried' \/ \E q \in Places : Content(q)' = j
  <2>1. CASE j = i
    BY <2>1
  <2>2. CASE j # i
    <3>1. j \in shelf \cup away \cup buried \/ \E q \in Places : Content(q) = j
      BY DEF ItemsFit
    <3> QED
      BY <2>2, <3>1
  <2> QED
    BY <2>1, <2>2
<1>5. ASSUME NEW j \in shelf' PROVE where'[j] = j
  BY <1>0 DEF ItemsFit, GoodsOK
<1> QED
  BY <1>1, <1>2, <1>3, <1>4, <1>5 DEF ItemsFit, Content, HoldsOf

\* Lose and Gain.
LEMMA OthersHeld ==
  ASSUME TypeOK, HeldOnce, ~crossed', NEW c \in Chars,
         (\E s \in Slots : Lose(c, s)) \/ \E i \in Items : Gain(c, i)
  PROVE  HeldOnce'
<1>0. /\ GoodsOK /\ CallsOK /\ PastOK
      /\ Apart /\ CallsFit /\ ItemsFit /\ StoreFits
  BY TypeParts DEF HeldOnce
<1>1. UNCHANGED call /\ UNCHANGED cons /\ UNCHANGED shelf /\ UNCHANGED buried
  BY DEF Lose, Gain, trade
<1>2. Apart' /\ StoreFits'
  BY <1>0, <1>1 DEF Apart, HoldsOf, RowOf, StoreFits, Unsold
<1>3. ASSUME NEW p \in Places, ~MeetsAt({p}), \A q \in Places : q # p => Content(q)' = Content(q)
      PROVE  CallsFit'
  <2>a. PICK M \in SUBSET Calls : M = Calls
    OBVIOUS
  <2>1. PICK P, R : P = {p} /\ R = {}
    OBVIOUS
  <2>2. \A m \in M : /\ call'[m] = call[m]
                     /\ HoldsOf(call[m]) \cap P = {} /\ RowOf(call[m]) \cap R = {}
    BY <1>1, <1>3, <2>a, <2>1, NotMet
  <2>3. /\ \A q \in Places \ P : Content(q)' = Content(q)
        /\ \A i \in Items \ R : cons'[i] = cons[i] /\ (i \in shelf' <=> i \in shelf)
    BY <1>1, <1>3, <2>1
  <2>4. \A m \in M : Fits(call[m])'
    BY <1>0, <2>2, <2>3, StillFits
  <2> QED
    BY <2>a, <2>4 DEF CallsFit
<1>a. ASSUME NEW m, NEW p, NEW f, Note(m, p, f) PROVE ~m
  BY <1>a, <1>0 DEF Note, PastOK
<1>4. ASSUME NEW s \in Slots, Lose(c, s) PROVE HeldOnce'
  <2>1. PICK p \in Places : p = <<c, s>>
    BY DEF Places
  <2>2. PICK i \in Items : i = bag[c][s]
    BY <1>0, <1>4 DEF Lose, GoodsOK
  <2>3. /\ Content(p) = i /\ Content(p)' = None
        /\ \A q \in Places : q # p => Content(q)' = Content(q)
    <3>1. Content(p) = i
      BY <2>1, <2>2 DEF Content
    <3> QED
      BY <1>0, <1>4, <2>1, <3>1, OnePlace DEF Lose
  <2>4. ~MeetsAt({p})
    BY <1>4, <1>a, <2>1 DEF Lose
  <2>5. shelf' = shelf /\ away' = away \cup {i} /\ where' = where
    BY <1>4, <2>2 DEF Lose
  <2>6. \A k \in Calls : call[k].at = "copied" => call'[k] = call[k] /\ p \notin HoldsOf(call[k])
    BY <1>1, <2>4, NotMet
  <2>7. ItemsFit'
    BY <1>0, <1>1, <2>3, <2>5, <2>6, GoesOut
  <2> QED
    BY <1>2, <1>3, <2>3, <2>4, <2>7 DEF HeldOnce
<1>5. ASSUME NEW i \in Items, Gain(c, i) PROVE HeldOnce'
  <2>1. PICK s \in Slots : /\ FindFreeSlot(c, s) /\ bag' = [bag EXCEPT ![c][s] = i]
                           /\ where' = [where EXCEPT ![i] = <<c, s>>]
                           /\ Note(MeetsAt({<<c, s>>}), FALSE, 0)
    BY <1>5 DEF Gain
  <2>2. PICK p \in Places : p = <<c, s>>
    BY DEF Places
  <2>3. /\ Content(p) = None /\ Content(p)' = i
        /\ \A q \in Places : q # p => Content(q)' = Content(q)
    <3>1. Content(p) = None
      BY <2>1, <2>2 DEF Content, FindFreeSlot, FreeSlots
    <3> QED
      BY <1>0, <2>1, <2>2, <3>1, OnePlace
  <2>4. ~MeetsAt({p})
    BY <1>a, <2>1, <2>2
  <2>5. /\ i \in shelf \cup away /\ shelf' = shelf /\ away' = away \ {i}
        /\ i \notin shelf' \cup away' /\ where' = [where EXCEPT ![i] = p]
    BY <1>0, <1>1, <1>5, <2>1, <2>2 DEF Gain, ItemsFit
  <2>6. \A k \in Calls : call[k].at = "copied" => call'[k] = call[k]
    BY <1>1
  <2>7. ItemsFit'
    BY <1>0, <1>1, <2>3, <2>5, <2>6, ComesIn
  <2> QED
    BY <1>2, <1>3, <2>3, <2>4, <2>7 DEF HeldOnce
<1> QED
  BY <1>4, <1>5

\* What a call does at its own places and its row leaves what the others know.
LEMMA OwnPlaces ==
  ASSUME CallsOK, Apart, CallsFit, NEW k \in Calls, NEW r, call' = [call EXCEPT ![k] = r],
         \A q \in Places : q \notin HoldsOf(call[k]) => Content(q)' = Content(q),
         \A i \in Items : i \notin RowOf(call[k]) =>
           cons'[i] = cons[i] /\ (i \in shelf' <=> i \in shelf)
  PROVE  /\ call'[k] = r
         /\ \A m \in Calls \ {k} : call'[m] = call[m] /\ Fits(call[m])'
<1>1. call'[k] = r /\ \A m \in Calls \ {k} : call'[m] = call[m]
  BY DEF CallsOK
<1>a. PICK M \in SUBSET Calls : M = Calls \ {k}
  OBVIOUS
<1>2. PICK P, R : P = HoldsOf(call[k]) /\ R = RowOf(call[k])
  OBVIOUS
<1>3. \A m \in M : /\ call'[m] = call[m]
                   /\ HoldsOf(call[m]) \cap P = {} /\ RowOf(call[m]) \cap R = {}
  BY <1>1, <1>a, <1>2 DEF Apart
<1>4. /\ \A q \in Places \ P : Content(q)' = Content(q)
      /\ \A i \in Items \ R : cons'[i] = cons[i] /\ (i \in shelf' <=> i \in shelf)
  BY <1>2
<1>5. \A m \in M : Fits(call[m])'
  BY <1>3, <1>4, StillFits
<1> QED
  BY <1>1, <1>a, <1>5

\* CopyItem changes no other call: nobody else has the buyer's slot.
LEMMA CopyCall ==
  ASSUME CallsOK, Apart, NEW k \in Running, CopyItem(k)
  PROVE  call' = [call EXCEPT ![k] =
           [at |-> "copied", by |-> call[k].by, to |-> call[k].to, from |-> call[k].from,
            seller |-> call[k].seller, slot |-> call[k].slot, no |-> call[k].no]]
<1> DEFINE r == [at |-> "copied", by |-> call[k].by, to |-> call[k].to,
                 from |-> call[k].from, seller |-> call[k].seller,
                 slot |-> call[k].slot, no |-> call[k].no]
<1>1. PICK p : p = <<call[k].by, call[k].to>>
  OBVIOUS
<1>2. k \in Calls /\ p \in HoldsOf(call[k])
  BY <1>1, CallIs DEF CopyItem, Running, Paid, HoldsOf
<1>3. ASSUME NEW m \in Calls \ {k} PROVE ~(Has(m, "from") /\ call[m].from = p)
  <2>1. p \notin HoldsOf(call[m])
    BY <1>2 DEF Apart
  <2> QED
    BY <2>1 DEF HoldsOf, Has
<1>4. call' = [m \in Calls |->
        IF m = k THEN r
        ELSE IF Has(m, "from") /\ call[m].from = p
             THEN [call[m] EXCEPT !.from = bag[call[k].by][call[k].to]] ELSE call[m]]
  BY <1>1 DEF CopyItem
<1> HIDE DEF r
<1>5. call' = [call EXCEPT ![k] = r]
  BY <1>2, <1>3, <1>4 DEF CallsOK
<1> QED
  BY <1>5 DEF r

\* CopyItem: the item of the seller's slot is in the buyer's, too, and what was there is
\* buried: no other slot has it.
LEMMA CopyHeld ==
  ASSUME TypeOK, HeldOnce, NEW k \in Running, CopyItem(k)
  PROVE  HeldOnce'
<1>0. /\ GoodsOK /\ CallsOK /\ Apart /\ CallsFit /\ ItemsFit /\ StoreFits /\ k \in Calls
      /\ call[k] \in Paid /\ Fits(call[k])
  BY TypeParts, CallIs DEF HeldOnce, CallsFit, Running, CopyItem
<1>1. PICK c \in Chars, s \in Slots, f \in Places :
        c = call[k].by /\ s = call[k].to /\ f = call[k].from
  BY <1>0 DEF Paid, Fits
<1>2. PICK p \in Places : p = <<c, s>>
  BY DEF Places
<1>3. Content(f) # None /\ f # p
  BY <1>0, <1>1, <1>2 DEF Paid, Fits
<1>4. PICK i \in Items : i = Content(f)
  BY <1>0, <1>3, ContentType DEF Refs
<1>5. HoldsOf(call[k]) = {p, f} /\ RowOf(call[k]) = {}
  BY <1>0, <1>1, <1>2 DEF Paid, HoldsOf, RowOf
<1>6. PICK r : r = [at |-> "copied", by |-> call[k].by, to |-> call[k].to,
                    from |-> call[k].from, seller |-> call[k].seller,
                    slot |-> call[k].slot, no |-> call[k].no]
  OBVIOUS
<1>7. call' = [call EXCEPT ![k] = r]
  BY <1>0, <1>6, CopyCall
<1>8. HoldsOf(r) = {p, f} /\ RowOf(r) = {} /\ r.at = "copied"
  BY <1>1, <1>2, <1>6 DEF HoldsOf, RowOf
<1>a. PICK o : o = Content(p)
  OBVIOUS
<1>b. o \in Items \cup {None} /\ o = bag[c][s]
  BY <1>0, <1>2, <1>a DEF GoodsOK, Content
<1>c. ASSUME NEW q \in Places, q # p, o # None PROVE Content(q) # o
  <2>1. SUFFICES ASSUME Content(q) = o PROVE FALSE
    OBVIOUS
  <2>2. PICK m \in Calls : call[m].at = "copied" /\ HoldsOf(call[m]) = {p, q}
    BY <1>0, <1>a, <1>c, <2>1 DEF ItemsFit
  <2>3. m # k
    BY <1>0, <2>2 DEF Paid
  <2> QED
    BY <1>0, <1>5, <2>2, <2>3 DEF Apart
<1>9. /\ bag' = [bag EXCEPT ![c][s] = i] /\ shelf' = shelf /\ away' = away /\ cons' = cons
      /\ buried' = buried \cup ({o} \ {None})
  BY <1>1, <1>4, <1>b DEF CopyItem, trade
<1>d. o # i /\ (o # None => o \notin shelf \cup away)
  BY <1>0, <1>3, <1>4, <1>a, <1>c DEF ItemsFit
<1>10. /\ Content(p)' = i /\ Content(f)' = i
       /\ \A q \in Places : q # p => Content(q)' = Content(q)
  BY <1>0, <1>2, <1>3, <1>4, <1>9, OnePlace
<1>11. /\ call'[k] = r
       /\ \A m \in Calls \ {k} : call'[m] = call[m] /\ Fits(call[m])'
  BY <1>0, <1>5, <1>7, <1>9, <1>10, OwnPlaces
<1>12. Apart'
  BY <1>0, <1>5, <1>7, <1>8, LetsGo
<1>13. CallsFit'
  <2>1. Fits(call[k])'
    <3>1. bag'[c][s] = i
      BY <1>2, <1>10 DEF Content
    <3>2. f # <<c, s>> /\ i # None
      BY <1>2, <1>3, <1>4
    <3>3. r.at = "copied" /\ r.by = c /\ r.to = s /\ r.from = f
      BY <1>1, <1>6
    <3> QED
      BY <1>10, <1>11, <3>1, <3>2, <3>3 DEF Fits
  <2> QED
    BY <1>11, <2>1 DEF CallsFit
<1>14. ItemsFit'
  <2>1. ASSUME NEW q \in Places, NEW t \in Places, q # t,
               Content(q)' = Content(t)', Content(q)' # None
        PROVE  \E m \in Calls : call'[m].at = "copied" /\ HoldsOf(call'[m]) = {q, t}
    <3>1. ASSUME NEW u \in Places, u # p, Content(u)' = i PROVE u = f
      <4>1. SUFFICES ASSUME u # f PROVE FALSE
        OBVIOUS
      <4>2. Content(u) = Content(f)
        BY <1>4, <1>10, <3>1
      <4>3. PICK m \in Calls : call[m].at = "copied" /\ HoldsOf(call[m]) = {u, f}
        BY <1>0, <1>3, <4>1, <4>2 DEF ItemsFit
      <4>4. m # k
        BY <1>0, <4>3 DEF Paid
      <4> QED
        BY <1>0, <1>5, <4>3, <4>4 DEF Apart
    <3>2. CASE q = p \/ t = p
      <4>1. {q, t} = {p, f}
        BY <1>10, <2>1, <3>1, <3>2
      <4> QED
        BY <1>0, <1>8, <1>11, <4>1
    <3>3. CASE q # p /\ t # p
      <4>1. Content(q) = Content(t) /\ Content(q) # None
        BY <1>10, <2>1, <3>3
      <4>2. PICK m \in Calls : call[m].at = "copied" /\ HoldsOf(call[m]) = {q, t}
        BY <1>0, <2>1, <4>1 DEF ItemsFit
      <4>3. m # k
        BY <1>0, <4>2 DEF Paid
      <4> QED
        BY <1>11, <4>2, <4>3
    <3> QED
      BY <3>2, <3>3
  <2>2. i \notin shelf \cup away \cup buried
    BY <1>0, <1>4 DEF ItemsFit
  <2>3. ASSUME NEW q \in Places PROVE Content(q)' \notin shelf' \cup away' \cup buried'
    <3>1. CASE q = p
      BY <1>9, <1>10, <1>d, <2>2, <3>1
    <3>2. CASE q # p
      BY <1>0, <1>9, <1>10, <1>c, <3>2 DEF ItemsFit
    <3> QED
      BY <3>1, <3>2
  <2>6. shelf' \cap away' = {} /\ buried' \cap (shelf' \cup away') = {}
    BY <1>0, <1>9, <1>d DEF ItemsFit
  <2>4. ASSUME NEW j \in Items PROVE j \in shelf' \cup away' \cup buried' \/ \E q \in Places : Content(q)' = j
    <3>1. j \in shelf \cup away \cup buried \/ \E q \in Places : Content(q) = j
      BY <1>0 DEF ItemsFit
    <3>2. j # None
      BY MarketAssumption
    <3>3. CASE j = o
      BY <1>9, <3>2, <3>3
    <3>4. CASE j # o
      BY <1>9, <1>10, <1>a, <3>1, <3>4
    <3> QED
      BY <3>3, <3>4
  <2>5. ASSUME NEW j \in shelf' PROVE where'[j] = j
    <3>1. j \in Items /\ j # i /\ where[j] = j /\ j # p
      BY <1>0, <1>9, <2>2, <2>5, MarketAssumption DEF ItemsFit, GoodsOK
    <3>2. where' = [u \in Items |->
                      IF u = i THEN p ELSE IF where[u] = p THEN bag[c][s] ELSE where[u]]
      BY <1>1, <1>2, <1>4 DEF CopyItem
    <3> QED
      BY <3>1, <3>2
  <2> QED
    BY <2>1, <2>3, <2>4, <2>5, <2>6 DEF ItemsFit, Content, HoldsOf
<1>15. StoreFits'
  <2>1. \A i2 \in Items : (\E m \in Calls : i2 \in RowOf(call[m]))
          => \E m \in Calls : i2 \in RowOf(call'[m])
    BY <1>5, <1>11
  <2> QED
    BY <1>0, <1>9, <2>1 DEF StoreFits, Unsold, RowOf
<1> QED
  BY <1>12, <1>13, <1>14, <1>15 DEF HeldOnce

\* FinishSale: the seller's slot becomes blank.
LEMMA SoldHeld ==
  ASSUME TypeOK, HeldOnce, NEW k \in Running, FinishSale(k)
  PROVE  HeldOnce'
<1>0. /\ GoodsOK /\ CallsOK /\ Apart /\ CallsFit /\ ItemsFit /\ StoreFits /\ k \in Calls
      /\ call[k] \in Copied /\ Fits(call[k])
  BY TypeParts, CallIs DEF HeldOnce, CallsFit, Running, FinishSale
<1>1. PICK c \in Chars, s \in Slots, f \in Places :
        c = call[k].by /\ s = call[k].to /\ f = call[k].from
  BY <1>0 DEF Copied, Fits
<1>2. PICK p \in Places : p = <<c, s>>
  BY DEF Places
<1>3. Content(p) = Content(f) /\ Content(f) # None /\ f # p
  BY <1>0, <1>1, <1>2 DEF Copied, Fits, Content
<1>5. HoldsOf(call[k]) = {p, f} /\ RowOf(call[k]) = {}
  BY <1>0, <1>1, <1>2 DEF Copied, HoldsOf, RowOf
<1>6. HoldsOf(Idle) = {} /\ RowOf(Idle) = {}
  BY DEF HoldsOf, RowOf, Idle
<1>7. call' = [call EXCEPT ![k] = Idle]
  BY DEF FinishSale, End
<1>9. /\ bag' = [bag EXCEPT ![f[1]][f[2]] = None] /\ buried' = buried
      /\ shelf' = shelf /\ away' = away /\ where' = where /\ cons' = cons
  BY <1>1 DEF FinishSale, Cleared
<1>10. Content(f)' = None /\ \A q \in Places : q # f => Content(q)' = Content(q)
  <2>1. f[1] \in Chars /\ f[2] \in Slots /\ f = <<f[1], f[2]>>
    BY DEF Places
  <2> QED
    BY <1>0, <1>9, <2>1, OnePlace
<1>11. /\ call'[k] = Idle
       /\ \A m \in Calls \ {k} : call'[m] = call[m] /\ Fits(call[m])'
  BY <1>0, <1>5, <1>7, <1>9, <1>10, OwnPlaces
<1>12. Apart'
  BY <1>0, <1>6, <1>7, LetsGo
<1>13. CallsFit'
  <2>1. Fits(call[k])'
    BY <1>11 DEF Fits, Idle
  <2> QED
    BY <1>11, <2>1 DEF CallsFit
<1>14. ItemsFit'
  <2>1. ASSUME NEW q \in Places, NEW t \in Places, q # t,
               Content(q)' = Content(t)', Content(q)' # None
        PROVE  \E m \in Calls : call'[m].at = "copied" /\ HoldsOf(call'[m]) = {q, t}
    <3>1. q # f /\ t # f
      BY <1>10, <2>1
    <3>2. Content(q) = Content(t) /\ Content(q) # None
      BY <1>10, <2>1, <3>1
    <3>3. PICK m \in Calls : call[m].at = "copied" /\ HoldsOf(call[m]) = {q, t}
      BY <1>0, <2>1, <3>2 DEF ItemsFit
    <3>4. m # k
      BY <1>5, <3>1, <3>3
    <3> QED
      BY <1>11, <3>3, <3>4
  <2>2. ASSUME NEW q \in Places PROVE Content(q)' \notin shelf' \cup away' \cup buried'
    BY <1>0, <1>9, <1>10, MarketAssumption DEF ItemsFit, GoodsOK
  <2>3. /\ shelf' \cap away' = {} /\ buried' \cap (shelf' \cup away') = {}
        /\ \A j \in shelf' : where'[j] = j
    BY <1>0, <1>9 DEF ItemsFit
  <2>4. ASSUME NEW j \in Items PROVE j \in shelf' \cup away' \cup buried' \/ \E q \in Places : Content(q)' = j
    <3>1. j \in shelf \cup away \cup buried \/ \E q \in Places : Content(q) = j
      BY <1>0 DEF ItemsFit
    <3> QED
      BY <1>3, <1>9, <1>10, <3>1
  <2> QED
    BY <2>1, <2>2, <2>3, <2>4 DEF ItemsFit, Content, HoldsOf
<1>15. StoreFits'
  <2>1. \A i2 \in Items : (\E m \in Calls : i2 \in RowOf(call[m]))
          => \E m \in Calls : i2 \in RowOf(call'[m])
    BY <1>5, <1>11
  <2> QED
    BY <1>0, <1>9, <2>1 DEF StoreFits, Unsold, RowOf
<1> QED
  BY <1>12, <1>13, <1>14, <1>15 DEF HeldOnce

\* FinishRegister: what is in the slot goes on the shelf.
LEMMA RegisterHeld ==
  ASSUME TypeOK, HeldOnce, NEW k \in Running, FinishRegister(k)
  PROVE  HeldOnce'
<1>0. /\ GoodsOK /\ CallsOK /\ Apart /\ CallsFit /\ ItemsFit /\ StoreFits /\ k \in Calls
      /\ call[k] \in Registering /\ Fits(call[k])
  BY TypeParts, CallIs DEF HeldOnce, CallsFit, Running, FinishRegister
<1>1. PICK f \in Places, i \in Items : f = call[k].from /\ i = call[k].row
  BY <1>0 DEF Registering, Fits
<1>2. Content(f) = i /\ Unsold(i) /\ i # None
  BY <1>0, <1>1, MarketAssumption DEF Registering, Fits
<1>3. HoldsOf(call[k]) = {f} /\ RowOf(call[k]) = {i}
  BY <1>0, <1>1 DEF Registering, HoldsOf, RowOf
<1>4. HoldsOf(Idle) = {} /\ RowOf(Idle) = {}
  BY DEF HoldsOf, RowOf, Idle
<1>5. call' = [call EXCEPT ![k] = Idle]
  BY DEF FinishRegister, End
<1>6. /\ bag' = [bag EXCEPT ![f[1]][f[2]] = None] /\ shelf' = shelf \cup {i}
      /\ away' = away /\ where' = [where EXCEPT ![i] = i] /\ cons' = cons
      /\ buried' = buried
  BY <1>1, <1>2 DEF FinishRegister, Cleared, trade
<1>7. Content(f)' = None /\ \A q \in Places : q # f => Content(q)' = Content(q)
  <2>1. f[1] \in Chars /\ f[2] \in Slots /\ f = <<f[1], f[2]>>
    BY DEF Places
  <2> QED
    BY <1>0, <1>6, <2>1, OnePlace
<1>8. /\ call'[k] = Idle
      /\ \A m \in Calls \ {k} : call'[m] = call[m] /\ Fits(call[m])'
  BY <1>0, <1>3, <1>5, <1>6, <1>7, OwnPlaces
<1>9. Apart'
  BY <1>0, <1>4, <1>5, LetsGo
<1>10. CallsFit'
  <2>1. Fits(call[k])'
    BY <1>8 DEF Fits, Idle
  <2> QED
    BY <1>8, <2>1 DEF CallsFit
<1>11. ItemsFit'
  <2>1. \A m \in Calls : call[m].at = "copied" => call'[m] = call[m] /\ f \notin HoldsOf(call[m])
    <3>1. call[k].at # "copied"
      BY <1>0 DEF Registering
    <3> QED
      BY <1>0, <1>3, <1>8, <3>1 DEF Apart
  <2> QED
    BY <1>0, <1>2, <1>6, <1>7, <2>1, GoesOut
<1>12. StoreFits'
  <2>1. Unsold(i)' /\ i \in shelf'
    BY <1>2, <1>6 DEF Unsold
  <2>2. PICK R : R = {i}
    OBVIOUS
  <2>3. R = RowOf(call[k]) \cup RowOf(call'[k])
    BY <1>3, <1>4, <1>8, <2>2
  <2>4. /\ \A j \in Items \ R : cons'[j] = cons[j] /\ (j \in shelf' <=> j \in shelf)
        /\ \A j \in Items \cap R : /\ j \in shelf' => Unsold(j)'
                                   /\ Unsold(j)' => j \in shelf' \/ j \in RowOf(call'[k])
        /\ shelf' \subseteq Items
    <3>1. \A j \in Items \ R : cons'[j] = cons[j] /\ (j \in shelf' <=> j \in shelf)
      BY <1>6, <2>2
    <3>2. ASSUME NEW j \in Items \cap R PROVE j \in shelf' /\ Unsold(j)'
      BY <2>1, <2>2 DEF Unsold
    <3> QED
      BY <1>0, <1>6, <3>1, <3>2 DEF GoodsOK
  <2> QED
    BY <1>0, <1>8, <2>3, <2>4, SameStore
<1> QED
  BY <1>9, <1>10, <1>11, <1>12 DEF HeldOnce

\* FinishBuy and FinishCancel: what is on the shelf comes into the slot.
LEMMA PlacedHeld ==
  ASSUME TypeOK, HeldOnce, NEW k \in Running, FinishBuy(k) \/ FinishCancel(k)
  PROVE  HeldOnce'
<1>0. /\ GoodsOK /\ CallsOK /\ Apart /\ CallsFit /\ ItemsFit /\ StoreFits /\ k \in Calls
      /\ call[k] \in Placing /\ Fits(call[k])
  BY TypeParts, CallIs DEF HeldOnce, CallsFit, Running, FinishBuy, FinishCancel
<1>1. PICK c \in Chars, s \in Slots, i \in Items :
        c = call[k].by /\ s = call[k].to /\ i = call[k].row
  BY <1>0 DEF Placing
<1>2. PICK p \in Places : p = <<c, s>>
  BY DEF Places
<1>3. Content(p) = None /\ i = call[k].item /\ i \in shelf /\ Unsold(i)
  BY <1>0, <1>1, <1>2 DEF Placing, Fits, Content
<1>4. HoldsOf(call[k]) = {p} /\ RowOf(call[k]) = {i}
  BY <1>0, <1>1, <1>2 DEF Placing, HoldsOf, RowOf
<1>5. PICK r : /\ call' = [call EXCEPT ![k] = r] /\ HoldsOf(r) = {} /\ RowOf(r) = {i}
               /\ r.row = i /\ r.at \in {"marking", "deleting"}
  <2>1. CASE FinishBuy(k)
    <3>1. PICK r : r = [at |-> "marking", row |-> call[k].row, seller |-> call[k].seller]
      OBVIOUS
    <3>2. HoldsOf(r) = {} /\ RowOf(r) = {i} /\ r.row = i /\ r.at = "marking"
      BY <1>1, <3>1 DEF HoldsOf, RowOf
    <3>3. call' = [call EXCEPT ![k] = r]
      BY <2>1, <3>1 DEF FinishBuy
    <3> QED
      BY <3>2, <3>3
  <2>2. CASE FinishCancel(k)
    <3>1. PICK r : r = [at |-> "deleting", row |-> call[k].row]
      OBVIOUS
    <3>2. HoldsOf(r) = {} /\ RowOf(r) = {i} /\ r.row = i /\ r.at = "deleting"
      BY <1>1, <3>1 DEF HoldsOf, RowOf
    <3>3. call' = [call EXCEPT ![k] = r]
      BY <2>2, <3>1 DEF FinishCancel
    <3> QED
      BY <3>2, <3>3
  <2> QED
    BY <2>1, <2>2
<1>6. /\ bag' = [bag EXCEPT ![c][s] = i] /\ shelf' = shelf \ {i} /\ away' = away
      /\ where' = [where EXCEPT ![i] = p] /\ cons' = cons /\ buried' = buried
  BY <1>1, <1>2, <1>3 DEF FinishBuy, FinishCancel, Placed, trade
<1>7. Content(p)' = i /\ \A q \in Places : q # p => Content(q)' = Content(q)
  BY <1>0, <1>2, <1>6, OnePlace
<1>8. /\ call'[k] = r
      /\ \A m \in Calls \ {k} : call'[m] = call[m] /\ Fits(call[m])'
  BY <1>0, <1>4, <1>5, <1>6, <1>7, OwnPlaces
<1>9. Apart'
  BY <1>0, <1>4, <1>5, LetsGo
<1>10. CallsFit'
  <2>1. Fits(call[k])'
    BY <1>3, <1>5, <1>6, <1>8 DEF Fits, Unsold
  <2> QED
    BY <1>8, <2>1 DEF CallsFit
<1>11. ItemsFit'
  <2>1. \A m \in Calls : call[m].at = "copied" => call'[m] = call[m]
    <3>1. call[k].at # "copied"
      BY <1>0 DEF Placing
    <3> QED
      BY <1>8, <3>1
  <2>2. i \notin shelf' \cup away' /\ i \in shelf \cup away
    BY <1>0, <1>3, <1>6 DEF ItemsFit
  <2> QED
    BY <1>0, <1>3, <1>6, <1>7, <2>1, <2>2, ComesIn
<1>12. StoreFits'
  <2>1. PICK R : R = {i}
    OBVIOUS
  <2>2. R = RowOf(call[k]) \cup RowOf(call'[k])
    BY <1>4, <1>5, <1>8, <2>1
  <2>3. /\ \A j \in Items \ R : cons'[j] = cons[j] /\ (j \in shelf' <=> j \in shelf)
        /\ \A j \in Items \cap R : j \notin shelf' /\ j \in RowOf(call'[k])
        /\ shelf' \subseteq Items
    BY <1>0, <1>5, <1>6, <1>8, <2>1 DEF GoodsOK
  <2> QED
    BY <1>0, <1>8, <2>2, <2>3, SameStore
<1> QED
  BY <1>9, <1>10, <1>11, <1>12 DEF HeldOnce

\* Every step that no meeting spoils keeps what is held.
LEMMA HeldStep ==
  ASSUME TypeOK, HeldOnce, Step, ~crossed'
  PROVE  HeldOnce'
<1>1. ASSUME NEW c \in Chars, CloseSale(c) PROVE HeldOnce'
  BY <1>1, HeldSame DEF CloseSale
<1>2. ASSUME NEW c \in Chars,
             \/ OpenSale(c) \/ RegisterItem(c) \/ \E d \in Chars : BuySaleItem(c, d)
             \/ \E i \in Items : BuyConsignmentItem(c, i) \/ CancelItem(c, i) \/ Claim(c, i)
      PROVE  HeldOnce'
  BY <1>2, BeginsHeld
<1>3. ASSUME NEW c \in Chars, (\E s \in Slots : Lose(c, s)) \/ \E i \in Items : Gain(c, i)
      PROVE  HeldOnce'
  BY <1>3, OthersHeld
<1>4. ASSUME NEW k \in Running,
             \/ Create(k) \/ CopyItem(k) \/ FinishSale(k) \/ FinishRegister(k)
             \/ FinishBuy(k) \/ MarkSold(k) \/ FinishCancel(k) \/ DeleteRow(k)
      PROVE  HeldOnce'
  BY <1>4, EndsHeld, CopyHeld, SoldHeld, RegisterHeld, PlacedHeld
<1> QED
  BY <1>1, <1>2, <1>3, <1>4 DEF Step

\* Nothing is under way, in the store or in a bag at the start.
LEMMA InitHeld == Init => HeldOnce
<1> SUFFICES ASSUME Init PROVE HeldOnce
  OBVIOUS
<1>1. \A k \in Calls : call[k] = Idle
  BY DEF Init
<1>2. HoldsOf(Idle) = {} /\ RowOf(Idle) = {}
  BY DEF HoldsOf, RowOf, Idle
<1>3. Apart
  BY <1>1, <1>2 DEF Apart
<1>4. CallsFit
  BY <1>1 DEF CallsFit, Fits, Idle
<1>5. \A p \in Places : Content(p) = None
  BY DEF Init, Content, Places
<1>6. ItemsFit
  BY <1>5, MarketAssumption DEF ItemsFit, Init
<1>7. StoreFits
  BY DEF StoreFits, Unsold, Init
<1> QED
  BY <1>3, <1>4, <1>6, <1>7 DEF HeldOnce

\* Calls that have met stay so.
LEMMA StaysUncrossed ==
  ASSUME TypeOK, Step, ~crossed'
  PROVE  ~crossed
<1>1. ASSUME NEW m, NEW p, NEW f, Note(m, p, f) PROVE ~crossed
  BY <1>1 DEF Note, TypeOK
<1>2. UNCHANGED past => ~crossed
  BY DEF past
<1>3. ASSUME NEW c \in Chars, OpenSale(c) \/ CloseSale(c) PROVE UNCHANGED past
  BY <1>3 DEF OpenSale, CloseSale
<1>4. ASSUME NEW c \in Chars, RegisterItem(c) PROVE ~crossed
  BY <1>1, <1>4 DEF RegisterItem
<1>5. ASSUME NEW c \in Chars, NEW d \in Chars, BuySaleItem(c, d) PROVE ~crossed
  BY <1>1, <1>5 DEF BuySaleItem
<1>6. ASSUME NEW c \in Chars, NEW i \in Items,
             BuyConsignmentItem(c, i) \/ CancelItem(c, i) \/ Claim(c, i) \/ Gain(c, i)
      PROVE  ~crossed
  BY <1>1, <1>6 DEF BuyConsignmentItem, CancelItem, Claim, Gain
<1>7. ASSUME NEW c \in Chars, NEW s \in Slots, Lose(c, s) PROVE ~crossed
  BY <1>1, <1>7 DEF Lose
<1>8. ASSUME NEW k \in Running, CopyItem(k) \/ FinishRegister(k) PROVE ~crossed
  BY <1>1, <1>8 DEF CopyItem, FinishRegister
<1>9. ASSUME NEW k \in Running, \/ Create(k) \/ FinishSale(k) \/ FinishBuy(k)
                                \/ MarkSold(k) \/ FinishCancel(k) \/ DeleteRow(k)
      PROVE  UNCHANGED past
  BY <1>9 DEF Create, FinishSale, FinishBuy, MarkSold, FinishCancel, DeleteRow
<1> QED
  BY <1>2, <1>3, <1>4, <1>5, <1>6, <1>7, <1>8, <1>9 DEF Step

\* While no two calls have met, what is held is so.
HeldApart == ~crossed => HeldOnce

\* It is so in every reachable state: HeldOnce is inductive beside the types.
LEMMA HeldAlways == Spec => []HeldApart
<1>1. Init => HeldApart
  BY InitHeld DEF HeldApart
<1>2. TypeOK /\ HeldApart /\ [Next]_vars => HeldApart'
  <2> SUFFICES ASSUME TypeOK, HeldApart, [Next]_vars, ~crossed' PROVE HeldOnce'
    BY DEF HeldApart
  <2>1. CASE UNCHANGED vars
    <3>1. UNCHANGED goods /\ UNCHANGED cons /\ UNCHANGED call /\ ~crossed
      BY <2>1 DEF vars, trade, past
    <3> QED
      BY <3>1, HeldSame DEF HeldApart
  <2>2. CASE Step
    <3>1. ~crossed
      BY <2>2, StaysUncrossed
    <3> QED
      BY <2>2, <3>1, HeldStep DEF HeldApart
  <2> QED
    BY <2>1, <2>2, NextIsStep
<1> QED
  BY <1>1, <1>2, MarketTyping, PTL DEF Spec

\* Each item is in one place, or in both of a purchase.
LEMMA HeldGoods ==
  ASSUME TypeOK, HeldApart
  PROVE  GoodsKept
<1>1. ItemOnce
  <2> SUFFICES ASSUME ~crossed, NEW i \in Items
               PROVE  \/ Cardinality(Bags(i)) + Cardinality({i} \cap shelf)
                           + Cardinality({i} \cap away) + Cardinality({i} \cap buried) = 1
                      \/ /\ i \notin shelf \cup away \cup buried
                         /\ \E k \in Running : At(k, "copied") /\ Bags(i) = Holds(k)
    BY DEF ItemOnce
  <2>1. Apart /\ ItemsFit
    BY DEF HeldApart, HeldOnce
  <2>2. Cardinality({}) = 0 /\ Cardinality({i}) = 1 /\ \A p : Cardinality({p}) = 1
    BY FS_EmptySet, FS_Singleton
  <2>3. CASE i \in shelf \cup away \cup buried
    <3>1. Bags(i) = {}
      BY <2>1, <2>3 DEF Bags, ItemsFit
    <3>2. \/ {i} \cap shelf = {i} /\ {i} \cap away = {} /\ {i} \cap buried = {}
          \/ {i} \cap shelf = {} /\ {i} \cap away = {i} /\ {i} \cap buried = {}
          \/ {i} \cap shelf = {} /\ {i} \cap away = {} /\ {i} \cap buried = {i}
      BY <2>1, <2>3 DEF ItemsFit
    <3> QED
      BY <2>2, <3>1, <3>2
  <2>4. CASE i \notin shelf \cup away \cup buried
    <3>1. PICK p \in Places : Content(p) = i
      BY <2>1, <2>4 DEF ItemsFit
    <3>2. {i} \cap shelf = {} /\ {i} \cap away = {} /\ {i} \cap buried = {}
      BY <2>4
    <3>3. CASE \A q \in Places : Content(q) = i => q = p
      <4>1. Bags(i) = {p}
        BY <3>1, <3>3 DEF Bags
      <4> QED
        BY <2>2, <3>2, <4>1
    <3>4. ASSUME NEW q \in Places, Content(q) = i, q # p
          PROVE  \E k \in Running : At(k, "copied") /\ Bags(i) = Holds(k)
      <4>0. i # None
        BY MarketAssumption
      <4>1. PICK k \in Calls : call[k].at = "copied" /\ HoldsOf(call[k]) = {p, q}
        BY <2>1, <3>1, <3>4, <4>0 DEF ItemsFit
      <4>2. k \in Running /\ At(k, "copied") /\ Holds(k) = {p, q}
        BY <4>1 DEF Running, Idle, At, Holds, HoldsOf, Has
      <4>3. ASSUME NEW t \in Places, Content(t) = i, t # p PROVE t = q
        <5>1. PICK m \in Calls : call[m].at = "copied" /\ HoldsOf(call[m]) = {p, t}
          BY <2>1, <3>1, <4>0, <4>3 DEF ItemsFit
        <5>2. m = k
          BY <2>1, <4>1, <5>1 DEF Apart
        <5> QED
          BY <3>4, <4>1, <4>3, <5>1, <5>2
      <4>4. Bags(i) = {p, q}
        BY <3>1, <3>4, <4>3 DEF Bags
      <4> QED
        BY <4>2, <4>4
    <3> QED
      BY <2>4, <3>3, <3>4
  <2> QED
    BY <2>3, <2>4
<1>2. StoreMatches
  <2> SUFFICES ASSUME ~crossed, NEW i \in Items
               PROVE  /\ i \in shelf => Unsold(i)
                      /\ Unsold(i) => i \in shelf \/ MeetsRow(i)
    BY DEF StoreMatches, Unsold
  <2>1. StoreFits
    BY DEF HeldApart, HeldOnce
  <2>2. ASSUME NEW k \in Calls, i \in RowOf(call[k]) PROVE MeetsRow(i)
    BY <2>2, NotMet
  <2> QED
    BY <2>1, <2>2 DEF StoreFits
<1> QED
  BY <1>1, <1>2 DEF GoodsKept

-----------------------------------------------------------------------------
(* Gold *)

\* The terms of SalesBalance.
GoldSum    == SumOf(Chars, gold)
TransitSum == SumOf(Calls, [k \in Calls |-> InTransit(k)])
OwedSum    == SumOf(Items, [i \in Items |-> Owed(i)])

\* Somebody's gold changes.
LEMMA GoldMoves ==
  ASSUME GoldOK, GoldOK', NEW c \in Chars, \A d \in Chars : d # c => gold'[d] = gold[d]
  PROVE  GoldSum' = GoldSum + gold'[c] - gold[c]
<1>1. PICK f : f = gold
  OBVIOUS
<1>2. PICK g : g = gold'
  OBVIOUS
<1>3. IsFiniteSet(Chars) /\ \A d \in Chars : f[d] \in Int /\ g[d] \in Int
  BY <1>1, <1>2, MarketAssumption DEF GoldOK
<1>4. SumOf(Chars, g) = SumOf(Chars, f) + g[c] - f[c]
  BY <1>1, <1>2, <1>3, SumChanged
<1> QED
  BY <1>1, <1>2, <1>4 DEF GoldSum

\* What is in transit and what is owed are numbers, of finitely many calls.
Amounts ==
  /\ \A k \in Calls : InTransit(k) \in Int
  /\ \A i \in Items : Owed(i) \in Int
  /\ IsFiniteSet(Calls)

\* So it is when the types are as they should be.
LEMMA AmountsInt == TypeOK => Amounts
<1> SUFFICES ASSUME TypeOK PROVE Amounts
  OBVIOUS
<1>1. CallsOK
  BY TypeParts
<1>2. ASSUME NEW k \in Calls PROVE InTransit(k) \in Int
  <2>1. At(k, "paid") => call[k].cost \in Int
    BY <1>1, CallIs DEF Paid
  <2>2. At(k, "marking") \/ At(k, "deleting") => Price[call[k].row] \in Int
    BY <1>1, CallIs, MarketAssumption DEF Marking, Deleting
  <2> QED
    BY <2>1, <2>2 DEF InTransit
<1>3. \A i \in Items : Owed(i) \in Int
  BY MarketAssumption DEF Owed
<1>4. IsFiniteSet(Calls)
  BY FS_Interval, MarketAssumption DEF Calls
<1> QED
  BY <1>2, <1>3, <1>4 DEF Amounts

\* So it is after a step.
LEMMA AmountsNext == TypeOK' => Amounts'
  BY AmountsInt, PTL

\* The sums of gold, of what is in transit and of what is owed are numbers.
LEMMA SumsInt ==
  ASSUME TypeOK
  PROVE  GoldSum \in Int /\ TransitSum \in Int /\ OwedSum \in Int
<1>1. PICK f : f = [k \in Calls |-> InTransit(k)]
  OBVIOUS
<1>2. PICK g : g = [i \in Items |-> Owed(i)]
  OBVIOUS
<1>3. PICK h : h = gold
  OBVIOUS
<1>4. /\ IsFiniteSet(Calls) /\ \A k \in Calls : f[k] \in Int
      /\ IsFiniteSet(Items) /\ \A i \in Items : g[i] \in Int
      /\ IsFiniteSet(Chars) /\ \A c \in Chars : h[c] \in Int
  BY <1>1, <1>2, <1>3, AmountsInt, MarketAssumption DEF TypeOK, Amounts
<1>5. SumOf(Calls, f) \in Int /\ SumOf(Items, g) \in Int /\ SumOf(Chars, h) \in Int
  BY <1>4, SumInt
<1> QED
  BY <1>1, <1>2, <1>3, <1>5 DEF GoldSum, TransitSum, OwedSum

\* What one call has in transit changes.
LEMMA TransitMoves ==
  ASSUME TypeOK, TypeOK', NEW k \in Calls, NEW R,
         \A m \in Calls \ {k} : call'[m] = call[m] /\ RowOf(call[m]) \cap R = {},
         \A i \in Items \ R : cons'[i] = cons[i]
  PROVE  TransitSum' = TransitSum + InTransit(k)' - InTransit(k)
<1>1. PICK f : f = [m \in Calls |-> InTransit(m)]
  OBVIOUS
<1>2. PICK g : g = [m \in Calls |-> InTransit(m)']
  OBVIOUS
<1>3. ASSUME NEW m \in Calls \ {k} PROVE InTransit(m)' = InTransit(m)
  <2>1. call'[m] = call[m]
    OBVIOUS
  <2>2. At(m, "deleting") => cons'[call[m].row] = cons[call[m].row]
    <3>1. SUFFICES ASSUME At(m, "deleting") PROVE call[m].row \in Items \ R
      OBVIOUS
    <3>2. call[m] \in Deleting
      BY <3>1, TypeParts, CallIs
    <3>3. call[m].row \in Items /\ call[m].row \in RowOf(call[m])
      BY <3>2 DEF Deleting, RowOf
    <3> QED
      BY <3>3
  <2> QED
    BY <2>1, <2>2 DEF InTransit, At
<1>4. /\ IsFiniteSet(Calls) /\ \A m \in Calls : f[m] \in Int /\ g[m] \in Int
      /\ \A m \in Calls : m # k => f[m] = g[m]
  <2>1. \A m \in Calls : InTransit(m)' \in Int
    BY AmountsNext DEF Amounts
  <2> QED
    BY <1>1, <1>2, <1>3, <2>1, AmountsInt DEF Amounts
<1>5. SumOf(Calls, g) = SumOf(Calls, f) + g[k] - f[k]
  BY <1>4, SumChanged
<1> QED
  BY <1>1, <1>2, <1>5 DEF TransitSum

\* A call begins.
LEMMA BeginMoves ==
  ASSUME TypeOK, TypeOK', NEW r, Begin(r), NEW R, \A i \in R : ~MeetsRow(i),
         \A i \in Items \ R : cons'[i] = cons[i]
  PROVE  \E k \in Calls : call'[k] = r /\ TransitSum' = TransitSum + InTransit(k)'
<1>1. PICK k \in Calls \ Running : call' = [call EXCEPT ![k] = r]
  BY DEF Begin
<1>2. call'[k] = r /\ \A m \in Calls \ {k} : call'[m] = call[m] /\ RowOf(call[m]) \cap R = {}
  BY <1>1, NotMet DEF TypeOK
<1>3. InTransit(k) = 0
  BY <1>1 DEF InTransit, At, Running, Idle
<1>4. TransitSum' = TransitSum + InTransit(k)' - InTransit(k)
  BY <1>2, TransitMoves
<1>5. TransitSum \in Int /\ InTransit(k)' \in Int
  BY SumsInt, AmountsNext DEF Amounts
<1> QED
  BY <1>2, <1>3, <1>4, <1>5

\* A call goes on or ends.
LEMMA GoOnMoves ==
  ASSUME TypeOK, TypeOK', Apart, NEW k \in Calls, NEW r, call' = [call EXCEPT ![k] = r],
         \A i \in Items : i \notin RowOf(call[k]) => cons'[i] = cons[i]
  PROVE  call'[k] = r /\ TransitSum' = TransitSum + InTransit(k)' - InTransit(k)
<1>1. call'[k] = r /\ \A m \in Calls \ {k} : call'[m] = call[m]
  BY DEF TypeOK
<1>2. PICK R : R = RowOf(call[k])
  OBVIOUS
<1>3. \A m \in Calls \ {k} : RowOf(call[m]) \cap R = {}
  BY <1>2 DEF Apart
<1>4. \A i \in Items \ R : cons'[i] = cons[i]
  BY <1>2
<1> QED
  BY <1>1, <1>3, <1>4, TransitMoves

\* What is owed for one row changes.
LEMMA OwedMoves ==
  ASSUME TypeOK, TypeOK', NEW i \in Items, \A j \in Items : j # i => cons'[j] = cons[j]
  PROVE  OwedSum' = OwedSum + Owed(i)' - Owed(i)
<1>1. PICK f : f = [j \in Items |-> Owed(j)]
  OBVIOUS
<1>2. PICK g : g = [j \in Items |-> Owed(j)']
  OBVIOUS
<1>3. \A j \in Items : j # i => Owed(j)' = Owed(j)
  BY DEF Owed
<1>4. /\ IsFiniteSet(Items) /\ \A j \in Items : f[j] \in Int /\ g[j] \in Int
      /\ \A j \in Items : j # i => f[j] = g[j]
  <2>1. \A j \in Items : Owed(j)' \in Int
    BY AmountsNext DEF Amounts
  <2> QED
    BY <1>1, <1>2, <1>3, <2>1, AmountsInt, MarketAssumption DEF Amounts
<1>5. SumOf(Items, g) = SumOf(Items, f) + g[i] - f[i]
  BY <1>4, SumChanged
<1> QED
  BY <1>1, <1>2, <1>5 DEF OwedSum

\* What all have, and what is on the way.
Total == GoldSum + TransitSum + OwedSum + fees

\* The history adds a commission.
LEMMA NoteFees ==
  ASSUME TypeOK, ~crossed', NEW m, NEW p, NEW f, Note(m, p, f)
  PROVE  ~m /\ fees' = fees + f
  BY DEF Note, TypeOK

\* Sums of what does not change do not change.
LEMMA TotalParts ==
  ASSUME TypeOK
  PROVE  /\ UNCHANGED gold => GoldSum' = GoldSum
         /\ UNCHANGED cons => OwedSum' = OwedSum
         /\ GoldSum \in Int /\ TransitSum \in Int /\ OwedSum \in Int /\ fees \in Int
<1>1. UNCHANGED gold => GoldSum' = GoldSum
  BY DEF GoldSum
<1>2. UNCHANGED cons => OwedSum' = OwedSum
  BY DEF OwedSum, Owed
<1> QED
  BY <1>1, <1>2, SumsInt DEF TypeOK

\* Nothing changes that counts, though a call may begin.
LEMMA NothingMoves ==
  ASSUME TypeOK, UNCHANGED gold, UNCHANGED cons, UNCHANGED fees, TransitSum' = TransitSum
  PROVE  Total' = Total
  BY TotalParts DEF Total

\* What the actions of characters move.
LEMMA CharTotal ==
  ASSUME TypeOK, TypeOK', HeldOnce, ~crossed', NEW c \in Chars,
         \/ OpenSale(c) \/ CloseSale(c) \/ RegisterItem(c) \/ \E d \in Chars : BuySaleItem(c, d)
         \/ \E i \in Items :
              BuyConsignmentItem(c, i) \/ CancelItem(c, i) \/ Claim(c, i) \/ Gain(c, i)
         \/ \E s \in Slots : Lose(c, s)
  PROVE  Total' = Total
<1>0. /\ GoodsOK /\ GoldOK /\ GoldOK' /\ TradeOK /\ fees \in Nat
      /\ Apart /\ StoreFits
  BY TypeParts DEF HeldOnce, TypeOK, GoldOK, TradeOK
<1>1. ASSUME UNCHANGED gold, UNCHANGED cons, UNCHANGED call, UNCHANGED fees PROVE Total' = Total
  <2>1. TransitSum' = TransitSum
    BY <1>1 DEF TransitSum, InTransit, At
  <2> QED
    BY <1>1, <2>1, NothingMoves
<1>2. ASSUME NEW r, Begin(r), UNCHANGED cons PROVE
        \E k \in Calls : call'[k] = r /\ TransitSum' = TransitSum + InTransit(k)'
  <2>1. PICK R : R = {}
    OBVIOUS
  <2>2. (\A i \in R : ~MeetsRow(i)) /\ \A i \in Items \ R : cons'[i] = cons[i]
    BY <1>2, <2>1
  <2> QED
    BY <1>2, <2>2, BeginMoves
<1>3. ASSUME NEW r, Begin(r), r.at \in {"opening", "buying", "cancelling"},
             UNCHANGED gold, UNCHANGED cons, UNCHANGED fees
      PROVE  Total' = Total
  <2>1. PICK k \in Calls : call'[k] = r /\ TransitSum' = TransitSum + InTransit(k)'
    BY <1>2, <1>3
  <2>2. InTransit(k)' = 0
    BY <1>3, <2>1 DEF InTransit, At
  <2>3. TransitSum' = TransitSum
    BY <2>1, <2>2, TotalParts
  <2> QED
    BY <1>3, <2>3, NothingMoves
<1>4. CASE OpenSale(c)
  <2>1. PICK n \in 1..NumSales, S \in SUBSET (Slots \ FreeSlots(c)) :
          Begin([at |-> "opening", by |-> c, no |-> n, items |-> S])
    BY <1>4 DEF OpenSale
  <2>2. PICK r : r = [at |-> "opening", by |-> c, no |-> n, items |-> S]
    OBVIOUS
  <2>3. r.at = "opening"
    BY <2>2
  <2>4. UNCHANGED gold /\ UNCHANGED cons /\ UNCHANGED fees
    BY <1>4 DEF OpenSale, trade, past
  <2> QED
    BY <1>3, <2>1, <2>2, <2>3, <2>4
<1>5. CASE CloseSale(c)
  BY <1>1, <1>5 DEF CloseSale, past
<1>6. CASE RegisterItem(c)
  <2>1. PICK s \in Slots \ FreeSlots(c) :
          /\ cons[bag[c][s]] = None
          /\ cons' = [cons EXCEPT ![bag[c][s]] = [seller |-> c, sold |-> FALSE]]
          /\ Begin([at |-> "registering", by |-> c, from |-> <<c, s>>, row |-> bag[c][s]])
          /\ Note(MeetsAt({<<c, s>>}) \/ MeetsRow(bag[c][s]), Spending(c) # {}, 0)
    BY <1>6 DEF RegisterItem
  <2>2. PICK i \in Items : i = bag[c][s]
    BY <1>0 DEF GoodsOK, FreeSlots
  <2>3. PICK r : r = [at |-> "registering", by |-> c, from |-> <<c, s>>, row |-> i]
    OBVIOUS
  <2>a. fees' = fees
    <3>1. \E m, p : Note(m, p, 0)
      BY <2>1
    <3> QED
      BY <1>0, <3>1, NoteFees
  <2>b. ~MeetsRow(i)
    BY <2>1, <2>2 DEF Note, TypeOK
  <2>4. ~MeetsRow(i) /\ fees' = fees
    BY <2>a, <2>b
  <2>5. /\ \A j \in Items : j # i => cons'[j] = cons[j]
        /\ cons'[i] = [seller |-> c, sold |-> FALSE] /\ cons[i] = None
    BY <1>0, <2>1, <2>2 DEF TradeOK
  <2>6. PICK R : R = {i}
    OBVIOUS
  <2>7. (\A j \in R : ~MeetsRow(j)) /\ \A j \in Items \ R : cons'[j] = cons[j]
    BY <2>4, <2>5, <2>6
  <2>8. Begin(r)
    BY <2>1, <2>2, <2>3
  <2>9. PICK k \in Calls : call'[k] = r /\ TransitSum' = TransitSum + InTransit(k)'
    BY <2>7, <2>8, BeginMoves
  <2>10. InTransit(k)' = 0
    BY <2>3, <2>9 DEF InTransit, At
  <2>11. OwedSum' = OwedSum + Owed(i)' - Owed(i)
    BY <2>5, OwedMoves
  <2>12. Owed(i)' = 0 /\ Owed(i) = 0
    BY <2>5 DEF Owed
  <2>13. GoldSum' = GoldSum
    BY <1>6, TotalParts DEF RegisterItem
  <2> QED
    BY <2>4, <2>9, <2>10, <2>11, <2>12, <2>13, TotalParts DEF Total
<1>7. ASSUME NEW d \in Chars, BuySaleItem(c, d) PROVE Total' = Total
  <2> DEFINE new(s, t) == [at |-> "paid", by |-> c, to |-> t, from |-> <<d, s>>, seller |-> d,
                slot |-> s, no |-> sale[d].no, gold |-> gold[d], cost |-> Price[bag[d][s]]]
  <2>1. PICK s \in sale[d].items \ sale[d].sold, t \in Slots :
          /\ bag[d][s] # None
          /\ gold' = [gold EXCEPT ![c] = @ - Price[bag[d][s]]]
          /\ Begin(new(s, t))
          /\ Note(MeetsAt({<<c, t>>, <<d, s>>}), Spending(c) # {}, 0)
    BY <1>7 DEF BuySaleItem
  <2>2. sale[d] \in Sales_ /\ s \in Slots
    BY <1>0, <1>7 DEF BuySaleItem, TradeOK, Sales_
  <2>3. PICK x \in Nat : x = Price[bag[d][s]]
    BY <1>0, <2>1, <2>2, MarketAssumption DEF GoodsOK
  <2>4. PICK r : r = new(s, t)
    OBVIOUS
  <2>5. r.at = "paid" /\ r.cost = x
    BY <2>3, <2>4
  <2>6. UNCHANGED cons
    BY <1>7 DEF BuySaleItem, trade
  <2> HIDE DEF new
  <2>7. PICK k \in Calls : call'[k] = r /\ TransitSum' = TransitSum + InTransit(k)'
    BY <1>2, <2>1, <2>4, <2>6
  <2>8. InTransit(k)' = x
    BY <2>5, <2>7 DEF InTransit, At
  <2>9. /\ \A e \in Chars : e # c => gold'[e] = gold[e]
        /\ gold'[c] = gold[c] - x /\ gold[c] \in Int
    BY <1>0, <2>1, <2>3, MarketAssumption DEF GoldOK
  <2>10. GoldSum' = GoldSum + gold'[c] - gold[c]
    BY <1>0, <2>9, GoldMoves
  <2>11. fees' = fees /\ OwedSum' = OwedSum
    BY <1>0, <2>1, <2>6, NoteFees, TotalParts
  <2> QED
    BY <2>7, <2>8, <2>9, <2>10, <2>11, TotalParts DEF Total
<1>8. ASSUME NEW i \in Items, BuyConsignmentItem(c, i) \/ CancelItem(c, i) PROVE Total' = Total
  <2>1. UNCHANGED gold /\ UNCHANGED cons
    BY <1>8 DEF BuyConsignmentItem, CancelItem
  <2>2. \E r : Begin(r) /\ r.at \in {"buying", "cancelling"}
    <3>1. CASE BuyConsignmentItem(c, i)
      <4>1. PICK s \in Slots :
              Begin([at |-> "buying", by |-> c, to |-> s, row |-> i,
                     seller |-> cons[i].seller, item |-> Content(where[i])])
        BY <3>1 DEF BuyConsignmentItem
      <4>2. PICK r : r = [at |-> "buying", by |-> c, to |-> s, row |-> i,
                          seller |-> cons[i].seller, item |-> Content(where[i])]
        OBVIOUS
      <4>3. Begin(r) /\ r.at = "buying"
        BY <4>1, <4>2
      <4> QED
        BY <4>3
    <3>2. CASE CancelItem(c, i)
      <4>1. PICK s \in Slots :
              Begin([at |-> "cancelling", by |-> c, to |-> s, row |-> i,
                     seller |-> cons[i].seller, item |-> Content(where[i])])
        BY <3>2 DEF CancelItem
      <4>2. PICK r : r = [at |-> "cancelling", by |-> c, to |-> s, row |-> i,
                          seller |-> cons[i].seller, item |-> Content(where[i])]
        OBVIOUS
      <4>3. Begin(r) /\ r.at = "cancelling"
        BY <4>1, <4>2
      <4> QED
        BY <4>3
    <3> QED
      BY <1>8, <3>1, <3>2
  <2>3. fees' = fees
    <3>1. \E m, p : Note(m, p, 0)
      BY <1>8 DEF BuyConsignmentItem, CancelItem
    <3> QED
      BY <1>0, <3>1, NoteFees
  <2> QED
    BY <1>3, <2>1, <2>2, <2>3
<1>9. ASSUME NEW i \in Items, Claim(c, i) PROVE Total' = Total
  <2>1. PICK r : r = [at |-> "deleting", row |-> i]
    OBVIOUS
  <2>2. Begin(r) /\ UNCHANGED cons /\ cons[i].sold
    BY <1>9, <2>1 DEF Claim
  <2>3. PICK k \in Calls : call'[k] = r /\ TransitSum' = TransitSum + InTransit(k)'
    BY <1>2, <2>2
  <2>4. PICK x \in Nat : x = Price[i]
    BY MarketAssumption
  <2>5. InTransit(k)' = -x
    BY <2>1, <2>2, <2>3, <2>4 DEF InTransit, At
  <2>6. /\ \A e \in Chars : e # c => gold'[e] = gold[e]
        /\ gold'[c] = gold[c] + x /\ gold[c] \in Int
    BY <1>0, <1>9, <2>4, MarketAssumption DEF GoldOK, Claim
  <2>7. GoldSum' = GoldSum + gold'[c] - gold[c]
    BY <1>0, <2>6, GoldMoves
  <2>8. fees' = fees /\ OwedSum' = OwedSum
    <3>1. \E m, p : Note(m, p, 0)
      BY <1>9 DEF Claim
    <3> QED
      BY <1>0, <2>2, <3>1, NoteFees, TotalParts
  <2> QED
    BY <2>3, <2>5, <2>6, <2>7, <2>8, TotalParts DEF Total
<1>10. ASSUME NEW i \in Items, Gain(c, i) PROVE Total' = Total
  <2>1. \E m, p : Note(m, p, 0)
    BY <1>10 DEF Gain
  <2>2. fees' = fees
    BY <1>0, <2>1, NoteFees
  <2> QED
    BY <1>1, <1>10, <2>2 DEF Gain, trade
<1>11. ASSUME NEW s \in Slots, Lose(c, s) PROVE Total' = Total
  <2>1. \E m, p : Note(m, p, 0)
    BY <1>11 DEF Lose
  <2>2. fees' = fees
    BY <1>0, <2>1, NoteFees
  <2> QED
    BY <1>1, <1>11, <2>2 DEF Lose, trade
<1> QED
  BY <1>4, <1>5, <1>6, <1>7, <1>8, <1>9, <1>10, <1>11

\* What the calls that go on move.
LEMMA CallTotal ==
  ASSUME TypeOK, TypeOK', HeldOnce, ~crossed', NEW k \in Running,
         \/ Create(k) \/ CopyItem(k) \/ FinishSale(k) \/ FinishRegister(k)
         \/ FinishBuy(k) \/ MarkSold(k) \/ FinishCancel(k) \/ DeleteRow(k)
  PROVE  Total' = Total
<1>0. /\ CallsOK /\ GoldOK /\ GoldOK' /\ TradeOK /\ fees \in Nat
      /\ Apart /\ Fits(call[k]) /\ k \in Calls
  BY TypeParts DEF HeldOnce, CallsFit, Running, TypeOK, GoldOK, TradeOK, CallsOK
\* A call takes a step with rows as they are.
<1>1. ASSUME NEW r, call' = [call EXCEPT ![k] = r], UNCHANGED cons
      PROVE  call'[k] = r /\ TransitSum' = TransitSum + InTransit(k)' - InTransit(k)
  <2>1. \A i \in Items : i \notin RowOf(call[k]) => cons'[i] = cons[i]
    BY <1>1
  <2> QED
    BY <1>0, <1>1, <2>1, GoOnMoves
<1>2. CASE Create(k) \/ FinishSale(k)
  <2>1. call' = [call EXCEPT ![k] = Idle] /\ UNCHANGED cons /\ UNCHANGED gold /\ UNCHANGED fees
    BY <1>2 DEF Create, FinishSale, End, past
  <2>2. call'[k] = Idle /\ TransitSum' = TransitSum + InTransit(k)' - InTransit(k)
    BY <1>1, <2>1
  <2>3. InTransit(k) = 0 /\ InTransit(k)' = 0
    BY <1>2, <2>2 DEF InTransit, At, Idle, Create, FinishSale
  <2>4. TransitSum' = TransitSum
    BY <2>2, <2>3, TotalParts
  <2> QED
    BY <2>1, <2>4, NothingMoves
<1>3. CASE CopyItem(k)
  <2>1. call[k] \in Paid
    BY <1>0, <1>3, CallIs DEF CopyItem
  <2>2. PICK d \in Chars, x \in Nat : d = call[k].seller /\ x = call[k].cost
    BY <2>1 DEF Paid
  <2>3. PICK r : r = [at |-> "copied", by |-> call[k].by, to |-> call[k].to,
                      from |-> call[k].from, seller |-> call[k].seller,
                      slot |-> call[k].slot, no |-> call[k].no]
    OBVIOUS
  <2>4. call' = [call EXCEPT ![k] = r] /\ UNCHANGED cons
    <3>1. call' = [call EXCEPT ![k] = r]
      BY <1>0, <1>3, <2>3, CopyCall
    <3> QED
      BY <1>3, <3>1 DEF CopyItem, trade
  <2>5. call'[k] = r /\ TransitSum' = TransitSum + InTransit(k)' - InTransit(k)
    BY <1>1, <2>4
  <2>6. InTransit(k) = x /\ InTransit(k)' = 0
    <3>1. call[k].at = "paid"
      BY <2>1 DEF Paid
    <3>2. call'[k].at = "copied"
      BY <2>3, <2>5
    <3> QED
      BY <2>2, <3>1, <3>2 DEF InTransit, At
  <2>7. gold[d] = call[k].gold
    BY <1>3, <2>2 DEF CopyItem, Note, TypeOK
  <2>8. /\ \A e \in Chars : e # d => gold'[e] = gold[e]
        /\ gold'[d] = gold[d] + x /\ gold[d] \in Int
    BY <1>0, <1>3, <2>2, <2>7, MarketAssumption DEF GoldOK, CopyItem
  <2>9. GoldSum' = GoldSum + gold'[d] - gold[d]
    BY <1>0, <2>8, GoldMoves
  <2>10. fees' = fees /\ OwedSum' = OwedSum
    <3>1. \E m, p : Note(m, p, 0)
      BY <1>3 DEF CopyItem
    <3> QED
      BY <1>0, <2>4, <3>1, NoteFees, TotalParts
  <2> QED
    BY <2>5, <2>6, <2>8, <2>9, <2>10, TotalParts DEF Total
<1>4. CASE FinishRegister(k)
  <2>1. call[k] \in Registering
    BY <1>0, <1>4, CallIs DEF FinishRegister
  <2>2. PICK c \in Chars, x \in Nat : c = call[k].by /\ x = Fee[call[k].row]
    BY <2>1, MarketAssumption DEF Registering
  <2>3. call' = [call EXCEPT ![k] = Idle] /\ UNCHANGED cons
    BY <1>4 DEF FinishRegister, End, trade
  <2>4. call'[k] = Idle /\ TransitSum' = TransitSum + InTransit(k)' - InTransit(k)
    BY <1>1, <2>3
  <2>5. InTransit(k) = 0 /\ InTransit(k)' = 0
    BY <1>4, <2>4 DEF InTransit, At, Idle, FinishRegister
  <2>6. /\ \A e \in Chars : e # c => gold'[e] = gold[e]
        /\ gold'[c] = gold[c] - x /\ gold[c] \in Int
    BY <1>0, <1>4, <2>2, MarketAssumption DEF GoldOK, FinishRegister
  <2>7. GoldSum' = GoldSum + gold'[c] - gold[c]
    BY <1>0, <2>6, GoldMoves
  <2>8. fees' = fees + x /\ OwedSum' = OwedSum
    <3>1. \E m, p : Note(m, p, x)
      BY <1>4, <2>2 DEF FinishRegister
    <3> QED
      BY <1>0, <2>3, <3>1, NoteFees, TotalParts
  <2> QED
    BY <2>4, <2>5, <2>6, <2>7, <2>8, TotalParts DEF Total
<1>5. CASE FinishBuy(k)
  <2>1. call[k] \in Placing
    BY <1>0, <1>5, CallIs DEF FinishBuy
  <2>2. PICK c \in Chars, x \in Nat : c = call[k].by /\ x = Price[call[k].row]
    BY <2>1, MarketAssumption DEF Placing
  <2>3. PICK r : r = [at |-> "marking", row |-> call[k].row, seller |-> call[k].seller]
    OBVIOUS
  <2>4. call' = [call EXCEPT ![k] = r] /\ UNCHANGED cons /\ fees' = fees
    BY <1>5, <2>3 DEF FinishBuy, trade, past
  <2>5. call'[k] = r /\ TransitSum' = TransitSum + InTransit(k)' - InTransit(k)
    BY <1>1, <2>4
  <2>6. InTransit(k) = 0 /\ InTransit(k)' = x
    BY <1>5, <2>2, <2>3, <2>5 DEF InTransit, At, FinishBuy
  <2>7. /\ \A e \in Chars : e # c => gold'[e] = gold[e]
        /\ gold'[c] = gold[c] - x /\ gold[c] \in Int
    BY <1>0, <1>5, <2>2, MarketAssumption DEF GoldOK, FinishBuy
  <2>8. GoldSum' = GoldSum + gold'[c] - gold[c]
    BY <1>0, <2>7, GoldMoves
  <2> QED
    BY <2>4, <2>5, <2>6, <2>7, <2>8, TotalParts DEF Total
<1>6. CASE FinishCancel(k)
  <2>1. call[k] \in Placing /\ Unsold(call[k].row)
    BY <1>0, <1>6, CallIs DEF FinishCancel, Fits, At
  <2>2. PICK r : r = [at |-> "deleting", row |-> call[k].row]
    OBVIOUS
  <2>3. /\ call' = [call EXCEPT ![k] = r] /\ UNCHANGED cons /\ UNCHANGED gold /\ UNCHANGED fees
    BY <1>6, <2>2 DEF FinishCancel, trade, past
  <2>4. call'[k] = r /\ TransitSum' = TransitSum + InTransit(k)' - InTransit(k)
    BY <1>1, <2>3
  <2>5. InTransit(k) = 0 /\ InTransit(k)' = 0
    BY <1>6, <2>1, <2>2, <2>3, <2>4 DEF InTransit, At, FinishCancel, Unsold
  <2>6. TransitSum' = TransitSum
    BY <2>4, <2>5, TotalParts
  <2> QED
    BY <2>3, <2>6, NothingMoves
\* The row of a call changes.
<1>7. ASSUME NEW i \in Items, call[k] \in Marking \cup Deleting, i = call[k].row, End(k),
             \A j \in Items : j # i => cons'[j] = cons[j],
             Owed(i)' + InTransit(k)' = Owed(i) + InTransit(k), UNCHANGED gold, UNCHANGED fees
      PROVE  Total' = Total
  <2>1. RowOf(call[k]) = {i}
    BY <1>7 DEF RowOf, Marking, Deleting
  <2>2. call' = [call EXCEPT ![k] = Idle]
    BY <1>7 DEF End
  <2>3. \A j \in Items : j \notin RowOf(call[k]) => cons'[j] = cons[j]
    BY <1>7, <2>1
  <2>4. TransitSum' = TransitSum + InTransit(k)' - InTransit(k)
    BY <1>0, <2>2, <2>3, GoOnMoves
  <2>5. OwedSum' = OwedSum + Owed(i)' - Owed(i)
    BY <1>7, OwedMoves
  <2>6. /\ InTransit(k) \in Int /\ InTransit(k)' \in Int
        /\ Owed(i) \in Int /\ Owed(i)' \in Int
    BY <1>0, AmountsInt, AmountsNext DEF Amounts
  <2>7. GoldSum' = GoldSum
    BY <1>7, TotalParts
  <2> QED
    BY <1>7, <2>4, <2>5, <2>6, <2>7, TotalParts DEF Total
<1>8. CASE MarkSold(k)
  <2>1. call[k] \in Marking
    BY <1>0, <1>8, CallIs DEF MarkSold
  <2>2. PICK i \in Items, c \in Chars : i = call[k].row /\ c = call[k].seller
    BY <2>1 DEF Marking
  <2>3. Unsold(i)
    BY <1>0, <1>8, <2>2 DEF Fits, MarkSold, At
  <2>4. cons' = [cons EXCEPT ![i] = [seller |-> c, sold |-> TRUE]]
    BY <1>8, <2>2, <2>3 DEF MarkSold, Unsold
  <2>5. /\ \A j \in Items : j # i => cons'[j] = cons[j]
        /\ cons'[i] = [seller |-> c, sold |-> TRUE] /\ cons'[i] # None
    BY <1>0, <2>4, RowIsNotNone DEF TradeOK
  <2>6. End(k) /\ UNCHANGED gold /\ UNCHANGED fees
    BY <1>8 DEF MarkSold, past
  <2>7. call'[k] = Idle
    BY <1>0, <2>6 DEF End, CallsOK
  <2>8. InTransit(k) = Price[i] /\ InTransit(k)' = 0
    BY <1>8, <2>2, <2>7 DEF InTransit, At, MarkSold, Idle
  <2>9. Owed(i) = 0 /\ Owed(i)' = Price[i]
    BY <2>3, <2>5 DEF Owed, Unsold
  <2>10. Price[i] \in Int
    BY MarketAssumption
  <2> QED
    BY <1>7, <2>1, <2>2, <2>5, <2>6, <2>8, <2>9, <2>10
<1>9. CASE DeleteRow(k)
  <2>1. call[k] \in Deleting
    BY <1>0, <1>9, CallIs DEF DeleteRow
  <2>2. PICK i \in Items : i = call[k].row
    BY <2>1 DEF Deleting
  <2>3. cons[i] # None
    BY <1>0, <1>9, <2>2 DEF Fits, DeleteRow, At
  <2>4. cons'[i] = None /\ \A j \in Items : j # i => cons'[j] = cons[j]
    BY <1>0, <1>9, <2>2 DEF DeleteRow, TradeOK
  <2>5. End(k) /\ UNCHANGED gold /\ UNCHANGED fees
    BY <1>9 DEF DeleteRow, past
  <2>6. call'[k] = Idle
    BY <1>0, <2>5 DEF End, CallsOK
  <2>7. InTransit(k) = (IF cons[i].sold THEN -Price[i] ELSE 0) /\ InTransit(k)' = 0
    BY <1>9, <2>2, <2>6 DEF InTransit, At, DeleteRow, Idle
  <2>8. Owed(i) = (IF cons[i].sold THEN Price[i] ELSE 0) /\ Owed(i)' = 0
    BY <2>3, <2>4 DEF Owed
  <2>9. Price[i] \in Int
    BY MarketAssumption
  <2>10. Owed(i)' + InTransit(k)' = Owed(i) + InTransit(k)
    BY <2>7, <2>8, <2>9
  <2> QED
    BY <1>7, <2>1, <2>2, <2>4, <2>5, <2>10
<1> QED
  BY <1>2, <1>3, <1>4, <1>5, <1>6, <1>8, <1>9

\* Everybody starts with the same, and nothing is on the way.
LEMMA InitTotal == Init => Total = Cardinality(Chars) * StartGold
<1> SUFFICES ASSUME Init PROVE Total = Cardinality(Chars) * StartGold
  OBVIOUS
<1>1. PICK f : f = [k \in Calls |-> InTransit(k)]
  OBVIOUS
<1>2. PICK g : g = [i \in Items |-> Owed(i)]
  OBVIOUS
<1>3. PICK h : h = gold
  OBVIOUS
<1>4. IsFiniteSet(Calls) /\ IsFiniteSet(Items) /\ IsFiniteSet(Chars) /\ StartGold \in Int
  BY FS_Interval, MarketAssumption DEF Calls
<1>5. \A k \in Calls : f[k] = 0
  BY <1>1 DEF Init, InTransit, At, Idle
<1>6. \A i \in Items : g[i] = 0
  BY <1>2 DEF Init, Owed
<1>7. \A c \in Chars : h[c] = StartGold
  BY <1>3 DEF Init
<1>8. /\ SumOf(Calls, f) = Cardinality(Calls) * 0 /\ SumOf(Items, g) = Cardinality(Items) * 0
      /\ SumOf(Chars, h) = Cardinality(Chars) * StartGold
  BY <1>4, <1>5, <1>6, <1>7, SumEqual
<1>9. /\ Cardinality(Calls) \in Nat /\ Cardinality(Items) \in Nat /\ Cardinality(Chars) \in Nat
  BY <1>4, FS_CardinalityType
<1>10. fees = 0
  BY DEF Init
<1>11. PICK a \in Int : a = Cardinality(Chars) * StartGold
  BY <1>4, <1>9
<1>12. Cardinality(Calls) * 0 = 0 /\ Cardinality(Items) * 0 = 0
  BY <1>9
<1> QED
  BY <1>1, <1>2, <1>3, <1>8, <1>10, <1>11, <1>12 DEF Total, GoldSum, TransitSum, OwedSum

\* While no two calls have met, gold is where it was or on the way.
GoldApart == ~crossed => Total = Cardinality(Chars) * StartGold

\* It is so in every reachable state.
LEMMA GoldAlways == Spec => []GoldApart
<1>1. Init => GoldApart
  BY InitTotal DEF GoldApart
<1>2. TypeOK /\ TypeOK' /\ HeldApart /\ GoldApart /\ [Next]_vars => GoldApart'
  <2> SUFFICES ASSUME TypeOK, TypeOK', HeldApart, GoldApart, [Next]_vars, ~crossed'
               PROVE  ~crossed /\ Total' = Total
    BY DEF GoldApart
  <2>1. CASE UNCHANGED vars
    <3>1. /\ UNCHANGED gold /\ UNCHANGED cons /\ UNCHANGED call /\ UNCHANGED fees
          /\ UNCHANGED crossed
      BY <2>1 DEF vars, trade, past
    <3>2. TransitSum' = TransitSum
      BY <3>1 DEF TransitSum, InTransit, At
    <3> QED
      BY <3>1, <3>2, NothingMoves
  <2>2. CASE Step
    <3>1. ~crossed
      BY <2>2, StaysUncrossed
    <3>2. HeldOnce
      BY <3>1 DEF HeldApart
    <3>3. ASSUME NEW c \in Chars,
         \/ OpenSale(c) \/ CloseSale(c) \/ RegisterItem(c) \/ \E d \in Chars : BuySaleItem(c, d)
         \/ \E i \in Items :
              BuyConsignmentItem(c, i) \/ CancelItem(c, i) \/ Claim(c, i) \/ Gain(c, i)
         \/ \E s \in Slots : Lose(c, s)
          PROVE  Total' = Total
      BY <3>2, <3>3, CharTotal
    <3>4. ASSUME NEW k \in Running,
         \/ Create(k) \/ CopyItem(k) \/ FinishSale(k) \/ FinishRegister(k)
         \/ FinishBuy(k) \/ MarkSold(k) \/ FinishCancel(k) \/ DeleteRow(k)
          PROVE  Total' = Total
      BY <3>2, <3>4, CallTotal
    <3>5. Total' = Total
      BY <2>2, <3>3, <3>4 DEF Step
    <3> QED
      BY <3>1, <3>5
  <2> QED
    BY <2>1, <2>2, NextIsStep
<1> QED
  BY <1>1, <1>2, MarketTyping, HeldAlways, PTL DEF Spec

\* What is sold is neither doubled nor lost, nor is anything else but what a purchase has
\* buried, and neither is what is paid for it.
THEOREM SalesAreBalanced == Spec => []SalesBalance
<1>1. TypeOK /\ HeldApart => GoodsKept
  BY HeldGoods
<1>2. GoldApart => GoldKept
  BY DEF GoldApart, GoldKept, Total, GoldSum, TransitSum, OwedSum
<1> QED
  BY <1>1, <1>2, MarketTyping, HeldAlways, GoldAlways, PTL DEF SalesBalance
=============================================================================
