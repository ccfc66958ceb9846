-------------------------- MODULE BelongingsProofs --------------------------
(***************************************************************************)
(* Proofs about Belongings: what a character carries, through every handler *)
(* of modules Use, Workshop and Npc, every timer, and everything its pet    *)
(* does.                                                                    *)
(*                                                                          *)
(* A handler is a chain of operations on a record.  After says what every   *)
(* link of the chain keeps: items are whole, rows follow, nothing becomes   *)
(* in use and no form that is seen is lost on the way; there is one lemma   *)
(* for each operation (SaveAfter, DecrementAfter, AddItemAfter, ...) and    *)
(* one for each fold of them (SpentAfter, GivenAfter, ...).  Sound says     *)
(* what holds between handlers, of the character and the uses that have     *)
(* begun; there is one lemma for each handler (...Sound).  What switches    *)
(* items and what a minute takes do not go by After, and have a part each.  *)
(***************************************************************************)
EXTENDS Belongings, FiniteSetTheorems, WellFoundedInduction, TLAPS
-----------------------------------------------------------------------------
(* Least elements, and folds *)

\* Among subsets of a finite set there is a least one: induction over them.
LEMMA LeastSubset ==
  ASSUME NEW S, IsFiniteSet(S), NEW X \in SUBSET (SUBSET S), X # {}
  PROVE  \E m \in X : \A s \in SUBSET m : s # m => s \notin X
<1>1. X \subseteq FiniteSubsetsOf(S)
  BY FS_FiniteSubsetsOfFinite
<1>2. PICK m \in X : \A s \in X : <<s, m>> \notin StrictSubsetOrdering(S)
  BY <1>1, FS_StrictSubsetOrderingWellFounded, WFMin, Zenon
<1>3. ASSUME NEW s \in SUBSET m, s # m, s \in X PROVE FALSE
  <2>1. <<s, m>> \in StrictSubsetOrdering(S)
    BY <1>3 DEF StrictSubsetOrdering
  <2> QED
    BY <1>2, <1>3, <2>1
<1> QED
  BY <1>3

\* Two make a finite set.
LEMMA PairIsFinite ==
  ASSUME NEW a, NEW b
  PROVE  IsFiniteSet({a, b})
<1>1. IsFiniteSet({a})
  BY FS_Singleton
<1>2. IsFiniteSet({a} \cup {b})
  BY <1>1, FS_AddElement
<1>3. {a, b} = {a} \cup {b}
  OBVIOUS
<1> QED
  BY <1>2, <1>3

\* A finite set of numbers has a least one.
LEMMA MinIn ==
  ASSUME NEW S, IsFiniteSet(S), S \subseteq Nat, S # {}
  PROVE  Min(S) \in S /\ \A y \in S : Min(S) <= y
<1> DEFINE X == {T \in SUBSET S : T # {} /\ ~\E x \in T : \A y \in T : x <= y}
<1> SUFFICES X = {}
  BY DEF Min
<1> SUFFICES ASSUME X # {} PROVE FALSE
  OBVIOUS
<1>1. PICK m \in X : \A s \in SUBSET m : s # m => s \notin X
  <2>1. X \in SUBSET (SUBSET S)
    OBVIOUS
  <2> HIDE DEF X
  <2> QED
    BY <2>1, LeastSubset
<1>2. PICK x \in m : TRUE
  OBVIOUS
<1>3. m \ {x} # {}
  <2> SUFFICES ASSUME m = {x} PROVE FALSE
    OBVIOUS
  <2>1. x \in Nat /\ x <= x
    BY <1>2
  <2> QED
    BY <2>1
<1>4. PICK z \in m \ {x} : \A y \in m \ {x} : z <= y
  BY <1>1, <1>2, <1>3
<1>5. x \in Nat /\ z \in Nat /\ m \subseteq Nat
  BY <1>1, <1>2, <1>4
<1>6. CASE x <= z
  <2>1. \A y \in m : x <= y
    BY <1>4, <1>5, <1>6
  <2> QED
    BY <1>1, <1>2, <2>1
<1>7. CASE z <= x
  <2>1. \A y \in m : z <= y
    BY <1>4, <1>5, <1>7
  <2> QED
    BY <1>1, <1>4, <2>1
<1> QED
  BY <1>5, <1>6, <1>7

\* And a greatest one.
LEMMA MaxIn ==
  ASSUME NEW S, IsFiniteSet(S), S \subseteq Nat, S # {}
  PROVE  Max(S) \in S /\ \A y \in S : y <= Max(S)
<1> DEFINE X == {T \in SUBSET S : T # {} /\ ~\E x \in T : \A y \in T : x >= y}
<1> SUFFICES X = {}
  <2>1. \E x \in S : \A y \in S : x >= y
    OBVIOUS
  <2>2. Max(S) \in S /\ \A y \in S : Max(S) >= y
    BY <2>1 DEF Max
  <2> QED
    BY <2>2
<1> SUFFICES ASSUME X # {} PROVE FALSE
  OBVIOUS
<1>1. PICK m \in X : \A s \in SUBSET m : s # m => s \notin X
  <2>1. X \in SUBSET (SUBSET S)
    OBVIOUS
  <2> HIDE DEF X
  <2> QED
    BY <2>1, LeastSubset
<1>2. PICK x \in m : TRUE
  OBVIOUS
<1>3. m \ {x} # {}
  <2> SUFFICES ASSUME m = {x} PROVE FALSE
    OBVIOUS
  <2>1. x \in Nat /\ x >= x
    BY <1>2
  <2> QED
    BY <2>1
<1>4. PICK z \in m \ {x} : \A y \in m \ {x} : z >= y
  BY <1>1, <1>2, <1>3
<1>5. x \in Nat /\ z \in Nat /\ m \subseteq Nat
  BY <1>1, <1>2, <1>4
<1>6. CASE x >= z
  <2>1. \A y \in m : x >= y
    BY <1>4, <1>5, <1>6
  <2> QED
    BY <1>1, <1>2, <2>1
<1>7. CASE z >= x
  <2>1. \A y \in m : z >= y
    BY <1>4, <1>5, <1>7
  <2> QED
    BY <1>1, <1>4, <2>1
<1> QED
  BY <1>5, <1>6, <1>7

\* A fold that takes the elements of S as pick does, and stays in B: base is in B, and so is
\* what step makes of an element and what is in B.
Foldable(S, pick, base, step, B) ==
  /\ IsFiniteSet(S) /\ base \in B
  /\ \A T \in (SUBSET S) \ {{}} : pick[T] \in T
  /\ \A x \in S : step[x] \in [B -> B]

\* it folds step over the subsets of S, as far as what it folds is in B.
Folds(S, pick, base, step, B, it) ==
  \A T \in SUBSET S :
    IF T = {} THEN it[T] = base
    ELSE it[T \ {pick[T]}] \in B => it[T] = step[pick[T]][it[T \ {pick[T]}]]

\* What folds steps within B stays in B.
LEMMA FoldStays ==
  ASSUME NEW S, NEW pick, NEW base, NEW step, NEW B, Foldable(S, pick, base, step, B),
         NEW it, Folds(S, pick, base, step, B, it)
  PROVE  \A T \in SUBSET S : it[T] \in B
<1> DEFINE X == {T \in SUBSET S : it[T] \notin B}
<1> SUFFICES ASSUME X # {} PROVE FALSE
  OBVIOUS
<1>1. PICK m \in X : \A s \in SUBSET m : s # m => s \notin X
  <2>1. X \in SUBSET (SUBSET S) /\ IsFiniteSet(S)
    BY DEF Foldable
  <2> HIDE DEF X
  <2> QED
    BY <2>1, LeastSubset
<1>2. m # {}
  BY <1>1 DEF Folds, Foldable
<1>3. pick[m] \in m /\ pick[m] \in S
  BY <1>1, <1>2 DEF Foldable
<1>4. it[m \ {pick[m]}] \in B
  BY <1>1, <1>3
<1>5. it[m] = step[pick[m]][it[m \ {pick[m]}]]
  BY <1>1, <1>2, <1>4 DEF Folds
<1>6. step[pick[m]] \in [B -> B]
  BY <1>3 DEF Foldable
<1> QED
  BY <1>1, <1>4, <1>5, <1>6

\* Two that fold the same over a set agree on it.
LEMMA FoldsAgree ==
  ASSUME NEW S, NEW pick, NEW base, NEW step, NEW B, Foldable(S, pick, base, step, B),
         NEW it, Folds(S, pick, base, step, B, it), NEW jt, Folds(S, pick, base, step, B, jt)
  PROVE  \A T \in SUBSET S : it[T] = jt[T]
<1> DEFINE X == {T \in SUBSET S : it[T] # jt[T]}
<1> SUFFICES ASSUME X # {} PROVE FALSE
  OBVIOUS
<1>1. PICK m \in X : \A s \in SUBSET m : s # m => s \notin X
  <2>1. X \in SUBSET (SUBSET S) /\ IsFiniteSet(S)
    BY DEF Foldable
  <2> HIDE DEF X
  <2> QED
    BY <2>1, LeastSubset
<1>2. m # {}
  BY <1>1 DEF Folds
<1>3. pick[m] \in m /\ pick[m] \in S
  BY <1>1, <1>2 DEF Foldable
<1>4. it[m \ {pick[m]}] = jt[m \ {pick[m]}]
  BY <1>1, <1>3
<1>5. it[m \ {pick[m]}] \in B /\ jt[m \ {pick[m]}] \in B
  <2>1. m \ {pick[m]} \in SUBSET S
    BY <1>1
  <2>2. \A T \in SUBSET S : it[T] \in B
    BY FoldStays
  <2>3. \A T \in SUBSET S : jt[T] \in B
    BY FoldStays
  <2> QED
    BY <2>1, <2>2, <2>3
<1>6. it[m] = step[pick[m]][it[m \ {pick[m]}]] /\ jt[m] = step[pick[m]][jt[m \ {pick[m]}]]
  BY <1>1, <1>2, <1>5 DEF Folds
<1> QED
  BY <1>1, <1>4, <1>6

\* A fold over S is one over what S includes.
LEMMA FoldsPart ==
  ASSUME NEW S, NEW pick, NEW base, NEW step, NEW B, Foldable(S, pick, base, step, B),
         NEW T \in SUBSET S
  PROVE  /\ Foldable(T, pick, base, step, B)
         /\ \A it : Folds(S, pick, base, step, B, it) => Folds(T, pick, base, step, B, it)
<1>1. IsFiniteSet(T)
  BY FS_Subset DEF Foldable
<1> QED
  BY <1>1 DEF Foldable, Folds

\* Folds by functions of the subsets.
FoldsIn(S, pick, base, step, B) ==
  {it \in [SUBSET S -> B] : Folds(S, pick, base, step, B, it)}

\* There is one that folds.
LEMMA FoldExists ==
  ASSUME NEW S, NEW pick, NEW base, NEW step, NEW B, Foldable(S, pick, base, step, B)
  PROVE  FoldsIn(S, pick, base, step, B) # {}
<1> DEFINE On(T) == FoldsIn(T, pick, base, step, B)
           X == {T \in SUBSET S : On(T) = {}}
<1>1. ASSUME X # {} PROVE FALSE
  <2>1. PICK m \in X : \A s \in SUBSET m : s # m => s \notin X
    <3>1. X \in SUBSET (SUBSET S) /\ IsFiniteSet(S)
      BY DEF Foldable
    <3> HIDE DEF X
    <3> QED
      BY <1>1, <3>1, LeastSubset
  <2>2. m \in SUBSET S /\ On(m) = {} /\ \A T \in (SUBSET m) \ {m} : On(T) # {}
    BY <2>1
  <2>3. PICK of : \A T \in (SUBSET m) \ {m} : of[T] \in On(T)
    <3> DEFINE f == [T \in (SUBSET m) \ {m} |-> CHOOSE it : it \in On(T)]
    <3>1. \A T \in (SUBSET m) \ {m} : f[T] \in On(T)
      <4> HIDE DEF On
      <4> QED
        BY <2>2
    <3> HIDE DEF f
    <3> QED
      BY <3>1
  <2>4. ASSUME NEW T \in (SUBSET m) \ {m}, NEW V \in SUBSET T PROVE of[T][V] = of[V][V]
    <3>1. V \in (SUBSET m) \ {m} /\ T \in SUBSET S /\ V \in SUBSET S
      BY <2>2, <2>4
    <3>2. Folds(T, pick, base, step, B, of[T]) /\ Folds(V, pick, base, step, B, of[V])
      BY <2>3, <2>4, <3>1 DEF FoldsIn
    <3>3. Foldable(T, pick, base, step, B) /\ Foldable(V, pick, base, step, B)
      BY <3>1, FoldsPart
    <3>4. PICK i, j : i = of[T] /\ j = of[V]
      OBVIOUS
    <3>5. Folds(V, pick, base, step, B, i) /\ Folds(V, pick, base, step, B, j)
      BY <3>2, <3>3, <3>4, FoldsPart
    <3>6. \A W \in SUBSET V : i[W] = j[W]
      BY <3>3, <3>5, FoldsAgree
    <3> QED
      BY <3>4, <3>6
  <2> DEFINE last == IF m = {} THEN base ELSE step[pick[m]][of[m \ {pick[m]}][m \ {pick[m]}]]
             h == [T \in SUBSET m |-> IF T # m THEN of[T][T] ELSE last]
  <2>5. \A T \in (SUBSET m) \ {m} : of[T] \in [SUBSET T -> B] /\ of[T][T] \in B
    BY <2>3 DEF FoldsIn
  <2>6. m # {} => pick[m] \in m /\ m \ {pick[m]} \in (SUBSET m) \ {m} /\ step[pick[m]] \in [B -> B]
    <3>1. m # {} => pick[m] \in m
      BY <2>2 DEF Foldable
    <3> QED
      BY <2>2, <3>1 DEF Foldable
  <2>7. last \in B
    BY <2>5, <2>6 DEF Foldable
  <2>8. h \in [SUBSET m -> B]
    <3> HIDE DEF last
    <3> QED
      BY <2>5, <2>7
  <2>9. ASSUME NEW T \in SUBSET m
        PROVE  IF T = {} THEN h[T] = base
               ELSE h[T \ {pick[T]}] \in B => h[T] = step[pick[T]][h[T \ {pick[T]}]]
    <3>1. T # {} => pick[T] \in T
      BY <2>2 DEF Foldable
    <3>2. CASE T = m
      <4>1. T # {} => h[T \ {pick[T]}] = of[T \ {pick[T]}][T \ {pick[T]}]
        <5> HIDE DEF last
        <5> QED
          BY <2>6, <3>2
      <4>2. h[T] = last
        <5> HIDE DEF last
        <5> QED
          BY <3>2
      <4> HIDE DEF h
      <4> QED
        BY <3>2, <4>1, <4>2
    <3>3. CASE T # m
      <4>1. h[T] = of[T][T]
        <5> HIDE DEF last
        <5> QED
          BY <3>3
      <4>2. T # {} => T \ {pick[T]} \in (SUBSET m) \ {m}
        BY <3>3
      <4>3. T # {} => h[T \ {pick[T]}] = of[T \ {pick[T]}][T \ {pick[T]}]
        <5> HIDE DEF last
        <5> QED
          BY <4>2
      <4>4. T # {} => of[T][T \ {pick[T]}] = of[T \ {pick[T]}][T \ {pick[T]}]
        <5>1. T \ {pick[T]} \in SUBSET T /\ T \in (SUBSET m) \ {m}
          BY <3>3
        <5> QED
          BY <2>4, <5>1
      <4>5. Folds(T, pick, base, step, B, of[T]) /\ T \in SUBSET T
        BY <2>3, <3>3 DEF FoldsIn
      <4> HIDE DEF h
      <4> QED
        BY <4>1, <4>3, <4>4, <4>5 DEF Folds
    <3> QED
      BY <3>2, <3>3
  <2>10. h \in On(m)
    <3> HIDE DEF h
    <3> QED
      BY <2>8, <2>9 DEF FoldsIn, Folds
  <2> HIDE DEF h, On
  <2> QED
    BY <2>2, <2>10
<1>2. S \notin X
  BY <1>1
<1> QED
  BY <1>2

-----------------------------------------------------------------------------
(* What handlers make of a character *)

\* Items as they should be, of any quantity.
FitItems ==
  {i \in ItemRecs(Nat) : /\ i.codes = 1..i.plus /\ i.socks \subseteq 1..i.sockets
                         /\ i.on => i.kind # 0 /\ Type[i.kind] \in Switched
                         /\ i.id <=> i.kind # 0
                         /\ i.kind = 0 => i.qty = 0}
FitRows == {i \in FitItems : i.kind # 0}
Spirits == {buffs \in SUBSET Buffs : ~({"fire", "water"} \subseteq buffs)}

\* Records that a handler works on, with gold out of G.
Holdings(G) ==
  [slot : [Slots -> FitItems], row : [Slots -> FitRows \cup {None}], gold : G,
   buffs : Spirits, marks : SUBSET Kinds, jam : BOOLEAN, held : BOOLEAN, stuck : BOOLEAN,
   ticks : BOOLEAN, morphed : BOOLEAN, behind : SUBSET Slots]

\* Only what is in the bag is in use, and saved as in use.
OnInBag(b) ==
  \A s \in Slots : b.slot[s].on \/ (b.row[s] # None /\ b.row[s].on) => s \in Bag

\* The row says what the slot does, or will once it is saved; E: slots still to save.
Follows(b, s) == IF b.slot[s].kind = 0 THEN b.row[s] = None
                 ELSE b.slot[s].id /\ b.row[s] = b.slot[s]
Savable(b, s) == b.slot[s].kind # 0 /\ b.row[s] # None
RowsKept(b, E) ==
  \A s \in Slots \ b.behind : Follows(b, s) \/ (s \in E /\ Savable(b, s))

IsForm(b, s) == b.slot[s].on /\ TypeAt(b, s) = "form"

\* From a on nothing was switched on; a form that is seen was not taken off, and no mark of
\* what can be switched was lost.  F: slots that keep their kind, D: slots of what cannot be
\* switched on.
Tame(a, b, F, D) ==
  /\ \A s \in Slots : b.slot[s].on => a.slot[s].on /\ KindOf(b, s) = KindOf(a, s)
  /\ b.morphed => a.morphed /\ \A s \in Slots : IsForm(a, s) => IsForm(b, s)
  /\ \A k \in a.marks : Type[k] \in Switched => k \in b.marks
  /\ \A s \in F : KindOf(b, s) = KindOf(a, s) /\ b.slot[s].qty >= a.slot[s].qty
  /\ \A s \in D : TypeAt(b, s) \notin Switched

\* What the operations of a handler that began with a may have made of it.
After(a, G, E, F, D) ==
  {b \in Holdings(G) : /\ OnInBag(b) /\ RowsKept(b, E) /\ Tame(a, b, F, D)
                       /\ a.slot \in [Slots -> FitItems]}

\* What the assumptions on slots and kinds come to.
LEMMA GoodsFacts ==
  /\ Slots \subseteq Nat /\ IsFiniteSet(Slots) /\ Bag \subseteq Slots
  /\ Kinds \subseteq Nat \ {0} /\ IsFiniteSet(Kinds) /\ Stackable \subseteq Kinds
  /\ \A k \in Stackable : Type[k] \notin Switched
  /\ None \notin FitItems
  /\ MaxPlus \in Nat /\ MaxSockets \in Nat /\ MaxQty \in Nat /\ MaxGold \in Nat
<1>1. None \notin FitItems
  BY GoodsAssumption DEF FitItems
<1> QED
  BY <1>1, GoodsAssumption DEF Slots

\* The fields of an item as it should be.
LEMMA ItemFields ==
  ASSUME NEW i \in FitItems
  PROVE  /\ i.kind \in Kinds \cup {0} /\ i.qty \in Nat /\ i.plus \in 0..MaxPlus
         /\ i.codes = 1..i.plus /\ i.sockets \in 0..MaxSockets /\ i.socks \subseteq 1..i.sockets
         /\ i.socks \subseteq 1..MaxSockets /\ i.on \in BOOLEAN /\ i.id \in BOOLEAN
         /\ i.on => i.kind # 0 /\ Type[i.kind] \in Switched
         /\ i.id <=> i.kind # 0
         /\ i.kind = 0 => i.qty = 0
  BY DEF FitItems, ItemRecs

\* An empty slot is as it should be.
LEMMA BlankFits == NewSlot \in FitItems
<1>1. NewSlot \in ItemRecs(Nat)
  BY GoodsFacts DEF NewSlot, ItemRecs
<1>2. NewSlot.codes = 1..NewSlot.plus
  BY DEF NewSlot
<1>3. NewSlot.socks \subseteq 1..NewSlot.sockets /\ ~NewSlot.on /\ NewSlot.id = FALSE
      /\ NewSlot.qty = 0 /\ NewSlot.kind = 0
  BY DEF NewSlot
<1> QED
  BY <1>1, <1>2, <1>3 DEF FitItems

\* From b to y one slot s changes: it is saved, needs it not, or is to be saved (L), it is
\* not switched on, and what is in F and D is kept.
Moves(b, y, s, E, L, F, D) ==
  /\ \A t \in Slots \ {s} :
       /\ y.slot[t] = b.slot[t] /\ y.row[t] = b.row[t]
       /\ t \in y.behind <=> t \in b.behind
       /\ t \in E => t \in L
  /\ s \in y.behind \/ Follows(y, s) \/ (s \in L /\ Savable(y, s))
  /\ y.slot[s].on => b.slot[s].on /\ KindOf(y, s) = KindOf(b, s)
  /\ y.row[s] # None /\ y.row[s].on => s \in Bag
  /\ y.morphed => b.morphed /\ (IsForm(b, s) => IsForm(y, s))
  /\ \A k \in b.marks : Type[k] \in Switched => k \in y.marks
  /\ s \in F => KindOf(y, s) = KindOf(b, s) /\ y.slot[s].qty >= b.slot[s].qty
  /\ s \in D => TypeAt(y, s) \notin Switched

\* Such a step keeps a record in After.
LEMMA OneSlot ==
  ASSUME NEW a, NEW G, NEW H, NEW E, NEW L, NEW F \in SUBSET Slots, NEW D \in SUBSET Slots,
         NEW b \in After(a, G, E, F, D), NEW s \in Slots, NEW y \in Holdings(H),
         Moves(b, y, s, E, L, F, D)
  PROVE  y \in After(a, H, L, F, D)
<1> USE DEF Moves
<1>0. b \in Holdings(G) /\ OnInBag(b) /\ RowsKept(b, E) /\ Tame(a, b, F, D)
      /\ a.slot \in [Slots -> FitItems]
  BY DEF After
<1>1. OnInBag(y)
  BY <1>0 DEF OnInBag
<1>2. RowsKept(y, L)
  <2> SUFFICES ASSUME NEW t \in Slots \ y.behind
               PROVE  Follows(y, t) \/ (t \in L /\ Savable(y, t))
    BY DEF RowsKept
  <2>1. CASE t = s
    BY <2>1
  <2>2. CASE t # s
    <3>1. Follows(b, t) \/ (t \in E /\ Savable(b, t))
      BY <1>0, <2>2 DEF RowsKept
    <3> QED
      BY <2>2, <3>1 DEF Follows, Savable
  <2> QED
    BY <2>1, <2>2
<1>3. Tame(a, y, F, D)
  <2>1. \A t \in Slots : y.slot[t].on => a.slot[t].on /\ KindOf(y, t) = KindOf(a, t)
    BY <1>0 DEF Tame, KindOf
  <2>2. y.morphed => a.morphed /\ \A t \in Slots : IsForm(a, t) => IsForm(y, t)
    <3> SUFFICES ASSUME y.morphed PROVE a.morphed /\ \A t \in Slots : IsForm(a, t) => IsForm(y, t)
      OBVIOUS
    <3>1. a.morphed /\ \A t \in Slots : IsForm(a, t) => IsForm(b, t)
      BY <1>0 DEF Tame
    <3>2. \A t \in Slots \ {s} : IsForm(b, t) => IsForm(y, t)
      BY DEF IsForm, TypeAt, KindOf
    <3> QED
      BY <3>1, <3>2
  <2>3. \A k \in a.marks : Type[k] \in Switched => k \in y.marks
    BY <1>0 DEF Tame
  <2>4. \A t \in F : KindOf(y, t) = KindOf(a, t) /\ y.slot[t].qty >= a.slot[t].qty
    <3> SUFFICES ASSUME NEW t \in F
                 PROVE  KindOf(y, t) = KindOf(a, t) /\ y.slot[t].qty >= a.slot[t].qty
      OBVIOUS
    <3>1. KindOf(b, t) = KindOf(a, t) /\ b.slot[t].qty >= a.slot[t].qty
      BY <1>0 DEF Tame
    <3>2. KindOf(y, t) = KindOf(b, t) /\ y.slot[t].qty >= b.slot[t].qty
      <4>1. CASE t = s
        BY <4>1
      <4>2. CASE t # s
        <5>1. y.slot[t] = b.slot[t] /\ b.slot[t] \in FitItems
          BY <1>0, <4>2 DEF Holdings
        <5> QED
          BY <5>1, ItemFields DEF KindOf
      <4> QED
        BY <4>1, <4>2
    <3>3. a.slot[t] \in FitItems /\ b.slot[t] \in FitItems /\ y.slot[t] \in FitItems
      BY <1>0 DEF Holdings
    <3>4. a.slot[t].qty \in Nat /\ b.slot[t].qty \in Nat /\ y.slot[t].qty \in Nat
      BY <3>3, ItemFields
    <3> QED
      BY <3>1, <3>2, <3>4
  <2>5. \A t \in D : TypeAt(y, t) \notin Switched
    BY <1>0 DEF Tame, TypeAt, KindOf
  <2> QED
    BY <2>1, <2>2, <2>3, <2>4, <2>5 DEF Tame
<1> QED
  BY <1>0, <1>1, <1>2, <1>3 DEF After

-----------------------------------------------------------------------------
(* The operations of Goods *)

\* What After says of a record.
LEMMA AfterFacts ==
  ASSUME NEW a, NEW G, NEW E, NEW F, NEW D, NEW b \in After(a, G, E, F, D)
  PROVE  /\ b \in Holdings(G) /\ OnInBag(b) /\ RowsKept(b, E) /\ Tame(a, b, F, D)
         /\ a.slot \in [Slots -> FitItems]
         /\ b.slot \in [Slots -> FitItems] /\ b.row \in [Slots -> FitRows \cup {None}]
         /\ b.gold \in G /\ b.buffs \in Spirits /\ b.marks \subseteq Kinds
         /\ b.jam \in BOOLEAN /\ b.held \in BOOLEAN /\ b.stuck \in BOOLEAN
         /\ b.ticks \in BOOLEAN /\ b.morphed \in BOOLEAN /\ b.behind \subseteq Slots
  BY DEF After, Holdings

\* What is in a slot, and in its row.
LEMMA SlotFacts ==
  ASSUME NEW a, NEW G, NEW E, NEW F, NEW D, NEW b \in After(a, G, E, F, D), NEW s \in Slots
  PROVE  /\ b.slot[s] \in FitItems /\ b.row[s] \in FitRows \cup {None}
         /\ b.slot[s].kind \in Kinds \cup {0} /\ b.slot[s].qty \in Nat
         /\ b.slot[s].on => TypeAt(b, s) \in Switched /\ s \in Bag
         /\ b.slot[s].id <=> b.slot[s].kind # 0
         /\ b.slot[s].qty # 0 => b.slot[s].kind # 0
         /\ s \notin b.behind => Follows(b, s) \/ (s \in E /\ Savable(b, s))
         /\ b.row[s] # None /\ b.row[s].on => s \in Bag
         /\ s \in D => TypeAt(b, s) \notin Switched
         /\ s \in F => KindOf(b, s) = KindOf(a, s) /\ b.slot[s].qty >= a.slot[s].qty
<1>1. b.slot[s] \in FitItems /\ b.row[s] \in FitRows \cup {None}
  BY AfterFacts
<1>2. OnInBag(b) /\ RowsKept(b, E) /\ Tame(a, b, F, D)
  BY AfterFacts
<1>3. s \notin b.behind => Follows(b, s) \/ (s \in E /\ Savable(b, s))
  BY <1>2 DEF RowsKept
<1>4. b.slot[s].on => TypeAt(b, s) \in Switched
  BY <1>1, ItemFields DEF TypeAt, KindOf
<1>5. /\ b.slot[s].on => s \in Bag
      /\ b.row[s] # None /\ b.row[s].on => s \in Bag
  BY <1>2 DEF OnInBag
<1>6. /\ s \in D => TypeAt(b, s) \notin Switched
      /\ s \in F => KindOf(b, s) = KindOf(a, s) /\ b.slot[s].qty >= a.slot[s].qty
  BY <1>2 DEF Tame
<1> QED
  BY <1>1, <1>3, <1>4, <1>5, <1>6, ItemFields

\* Less may be asked of it.
LEMMA AfterLess ==
  ASSUME NEW a, NEW G, NEW E, NEW F, NEW D, NEW b \in After(a, G, E, F, D),
         NEW H, G \subseteq H, NEW L, E \subseteq L, NEW M \in SUBSET F, NEW C \in SUBSET D
  PROVE  b \in After(a, H, L, M, C)
<1>1. b \in Holdings(H)
  BY DEF After, Holdings
<1>2. RowsKept(b, L)
  BY DEF After, RowsKept
<1>3. Tame(a, b, M, C)
  BY DEF After, Tame
<1> QED
  BY <1>1, <1>2, <1>3 DEF After

\* Saving a slot: it needs not be saved any more.
LEMMA SaveAfter ==
  ASSUME NEW a, NEW G, NEW E, NEW L, NEW F \in SUBSET Slots, NEW D \in SUBSET Slots,
         NEW b \in After(a, G, E, F, D), NEW s \in Slots, E \subseteq L \cup {s}
  PROVE  Save(b, s) \in After(a, G, L, F, D)
<1> DEFINE y == Save(b, s)
<1>1. b \in Holdings(G) /\ b.slot[s] \in FitItems
  BY AfterFacts
<1>2. CASE ~b.slot[s].id \/ b.row[s] = None
  <2>1. y = b
    BY <1>2 DEF Save
  <2>2. s \in b.behind \/ Follows(b, s)
    BY <1>2, SlotFacts DEF Savable
  <2>3. b \in After(a, G, L, F, D)
    <3>1. RowsKept(b, L)
      BY <2>2 DEF After, RowsKept
    <3> QED
      BY <3>1 DEF After
  <2> QED
    BY <2>1, <2>3
<1>3. CASE b.slot[s].id /\ b.row[s] # None
  <2>1. y = [b EXCEPT !.row = [b.row EXCEPT ![s] = b.slot[s]], !.behind = b.behind \ {s}]
    BY <1>3 DEF Save
  <2>2. y \in Holdings(G)
    <3>1. b.slot[s] \in FitRows
      BY <1>1, <1>3, ItemFields DEF FitRows
    <3>2. [b.row EXCEPT ![s] = b.slot[s]] \in [Slots -> FitRows \cup {None}]
      BY <1>1, <3>1 DEF Holdings
    <3> QED
      BY <1>1, <2>1, <3>2 DEF Holdings
  <2>3. /\ y.slot = b.slot /\ y.row = [b.row EXCEPT ![s] = b.slot[s]] /\ y.marks = b.marks
        /\ y.morphed = b.morphed /\ y.behind = b.behind \ {s}
    BY <1>1, <2>1 DEF Holdings
  <2>4. \A t \in Slots \ {s} : /\ y.slot[t] = b.slot[t] /\ y.row[t] = b.row[t]
                               /\ t \in y.behind <=> t \in b.behind
                               /\ t \in E => t \in L
    BY <1>1, <2>3 DEF Holdings
  <2>5. b.slot[s].kind # 0 /\ y.row[s] = b.slot[s]
    BY <1>1, <1>3, <2>3, ItemFields DEF Holdings
  <2>6. Follows(y, s)
    BY <1>3, <2>3, <2>5 DEF Follows
  <2>7. y.row[s].on => s \in Bag
    BY <2>5, SlotFacts
  <2>8. y.slot[s].qty >= b.slot[s].qty /\ (s \in D => TypeAt(y, s) \notin Switched)
    BY <2>3, SlotFacts DEF TypeAt, KindOf
  <2>9. KindOf(y, s) = KindOf(b, s) /\ (IsForm(b, s) => IsForm(y, s))
    BY <2>3 DEF KindOf, IsForm, TypeAt
  <2> HIDE DEF y
  <2>10. Moves(b, y, s, E, L, F, D)
    BY <2>3, <2>4, <2>5, <2>6, <2>7, <2>8, <2>9 DEF Moves
  <2>11. y \in After(a, G, L, F, D)
    BY <2>2, <2>10, OneSlot
  <2> QED
    BY <2>11 DEF y
<1> QED
  BY <1>1, <1>2, <1>3, ItemFields

\* What was changed and is not saved.
LEMMA UnsavedAfter ==
  ASSUME NEW a, NEW G, NEW E, NEW L, NEW F \in SUBSET Slots, NEW D \in SUBSET Slots,
         NEW b \in After(a, G, E, F, D), NEW s \in Slots, E \subseteq L \cup {s}
  PROVE  Unsaved(b, s) \in After(a, G, L, F, D)
<1> DEFINE y == Unsaved(b, s)
<1>1. b \in Holdings(G)
  BY AfterFacts
<1>2. CASE b.slot[s] = b.row[s]
  <2>1. s \in b.behind \/ Follows(b, s)
    BY <1>2, SlotFacts DEF Savable, Follows
  <2>2. RowsKept(b, L)
    BY <2>1 DEF After, RowsKept
  <2> QED
    BY <1>2, <2>2 DEF After, Unsaved
<1>3. CASE b.slot[s] # b.row[s]
  <2>1. y = [b EXCEPT !.behind = b.behind \cup {s}]
    BY <1>3 DEF Unsaved
  <2>2. y \in Holdings(G)
    BY <1>1, <2>1 DEF Holdings
  <2>3. /\ y.slot = b.slot /\ y.row = b.row /\ y.marks = b.marks
        /\ y.morphed = b.morphed /\ y.behind = b.behind \cup {s}
    BY <1>1, <2>1 DEF Holdings
  <2>4. \A t \in Slots \ {s} : /\ y.slot[t] = b.slot[t] /\ y.row[t] = b.row[t]
                               /\ t \in y.behind <=> t \in b.behind
                               /\ t \in E => t \in L
    BY <2>3
  <2>5. y.row[s] # None /\ y.row[s].on => s \in Bag
    BY <2>3, SlotFacts
  <2>6. y.slot[s].qty >= b.slot[s].qty /\ (s \in D => TypeAt(y, s) \notin Switched)
    BY <2>3, SlotFacts DEF TypeAt, KindOf
  <2>7. KindOf(y, s) = KindOf(b, s) /\ (IsForm(b, s) => IsForm(y, s))
    BY <2>3 DEF KindOf, IsForm, TypeAt
  <2>8. s \in y.behind
    BY <2>3
  <2> HIDE DEF y
  <2>9. Moves(b, y, s, E, L, F, D)
    BY <2>3, <2>4, <2>5, <2>6, <2>7, <2>8 DEF Moves
  <2>10. y \in After(a, G, L, F, D)
    BY <2>2, <2>9, OneSlot
  <2> QED
    BY <2>10 DEF y
<1> QED
  BY <1>2, <1>3

\* InventorySlot.Delete on its own: the slot is left unsaved, which is known.
LEMMA DeleteRowAfter ==
  ASSUME NEW a, NEW G, NEW E, NEW F \in SUBSET Slots, NEW D \in SUBSET Slots,
         NEW b \in After(a, G, E, F, D), NEW s \in Slots
  PROVE  DeleteRow(b, s) \in After(a, G, E, F, D)
<1> DEFINE y == DeleteRow(b, s)
<1>1. b \in Holdings(G)
  BY AfterFacts
<1>2. y = [b EXCEPT !.row = [b.row EXCEPT ![s] = None], !.behind = b.behind \cup {s}]
  BY DEF DeleteRow
<1>3. y \in Holdings(G)
  <2>1. [b.row EXCEPT ![s] = None] \in [Slots -> FitRows \cup {None}]
    BY <1>1 DEF Holdings
  <2> QED
    BY <1>1, <2>1 DEF Holdings, DeleteRow
<1>4. /\ y.slot = b.slot /\ y.row = [b.row EXCEPT ![s] = None] /\ y.marks = b.marks
      /\ y.morphed = b.morphed /\ y.behind = b.behind \cup {s}
  BY <1>1, <1>2 DEF Holdings
<1>5. \A t \in Slots \ {s} : /\ y.slot[t] = b.slot[t] /\ y.row[t] = b.row[t]
                             /\ t \in y.behind <=> t \in b.behind
                             /\ t \in E => t \in E
  BY <1>1, <1>4 DEF Holdings
<1>6. y.row[s] = None /\ s \in y.behind
  BY <1>1, <1>4 DEF Holdings
<1>7. y.slot[s].qty >= b.slot[s].qty /\ (s \in D => TypeAt(y, s) \notin Switched)
  BY <1>4, SlotFacts DEF TypeAt, KindOf
<1>8. KindOf(y, s) = KindOf(b, s) /\ (IsForm(b, s) => IsForm(y, s))
  BY <1>4 DEF KindOf, IsForm, TypeAt
<1> HIDE DEF y
<1>9. Moves(b, y, s, E, E, F, D)
  BY <1>4, <1>5, <1>6, <1>7, <1>8 DEF Moves
<1>10. y \in After(a, G, E, F, D)
  BY <1>3, <1>9, OneSlot
<1> QED
  BY <1>10 DEF y

\* Another item in a slot that has one, which is to be saved.
LEMMA EditAfter ==
  ASSUME NEW a, NEW G, NEW E, NEW L, NEW F \in SUBSET Slots, NEW D \in SUBSET Slots,
         NEW b \in After(a, G, E, F, D), NEW s \in Slots, NEW i \in FitRows,
         E \cup {s} \subseteq L, b.slot[s].kind # 0,
         i.on => b.slot[s].on /\ i.kind = b.slot[s].kind,
         IsForm(b, s) => i.on /\ i.kind = b.slot[s].kind,
         s \in F => i.kind = b.slot[s].kind /\ i.qty >= b.slot[s].qty,
         s \in D => Type[i.kind] \notin Switched
  PROVE  [b EXCEPT !.slot[s] = i] \in After(a, G, L, F, D)
<1> DEFINE y == [b EXCEPT !.slot[s] = i]
<1>1. b \in Holdings(G) /\ i \in FitItems /\ i.kind # 0 /\ i.id
  BY AfterFacts, ItemFields DEF FitRows
<1>2. y = [b EXCEPT !.slot = [b.slot EXCEPT ![s] = i]]
  OBVIOUS
<1>3. y \in Holdings(G)
  <2>1. [b.slot EXCEPT ![s] = i] \in [Slots -> FitItems]
    BY <1>1 DEF Holdings
  <2> QED
    BY <1>1, <2>1 DEF Holdings
<1>4. /\ y.slot = [b.slot EXCEPT ![s] = i] /\ y.row = b.row /\ y.marks = b.marks
      /\ y.morphed = b.morphed /\ y.behind = b.behind
  BY <1>1, <1>2 DEF Holdings
<1>5. y.slot[s] = i
  BY <1>1, <1>4 DEF Holdings
<1> HIDE DEF y
<1>6. \A t \in Slots \ {s} : /\ y.slot[t] = b.slot[t] /\ y.row[t] = b.row[t]
                             /\ t \in y.behind <=> t \in b.behind
                             /\ t \in E => t \in L
  BY <1>1, <1>4 DEF Holdings
<1>7. s \in y.behind \/ Follows(y, s) \/ (s \in L /\ Savable(y, s))
  <2>1. s \in b.behind \/ Follows(b, s) \/ Savable(b, s)
    BY SlotFacts
  <2>2. Follows(b, s) => b.row[s] # None
    BY SlotFacts, GoodsFacts DEF Follows
  <2> QED
    BY <1>1, <1>4, <1>5, <2>1, <2>2 DEF Savable
<1>8. y.row[s] # None /\ y.row[s].on => s \in Bag
  BY <1>4, SlotFacts
<1>9. KindOf(y, s) = i.kind /\ TypeAt(y, s) = Type[i.kind]
  BY <1>1, <1>5 DEF KindOf, TypeAt
<1>10. KindOf(b, s) = b.slot[s].kind /\ TypeAt(b, s) = Type[b.slot[s].kind]
  BY DEF KindOf, TypeAt
<1>11. y.morphed => b.morphed /\ (IsForm(b, s) => IsForm(y, s))
  BY <1>4, <1>5, <1>9, <1>10 DEF IsForm
<1>12. Moves(b, y, s, E, L, F, D)
  BY <1>4, <1>5, <1>6, <1>7, <1>8, <1>9, <1>10, <1>11 DEF Moves
<1>13. y \in After(a, G, L, F, D)
  BY <1>3, <1>12, OneSlot
<1> QED
  BY <1>13 DEF y

\* A slot is emptied, and who loses a form there is seen without it.
LEMMA RemoveItemAfter ==
  ASSUME NEW a, NEW G, NEW E, NEW F \in SUBSET Slots, NEW D \in SUBSET Slots,
         NEW b \in After(a, G, E, F, D), NEW s \in Slots \ F
  PROVE  RemoveItem(b, s) \in After(a, G, E, F, D)
<1> DEFINE y == RemoveItem(b, s)
<1>1. CASE b.stuck
  BY <1>1 DEF RemoveItem
<1>2. CASE ~b.stuck
  <2>1. b \in Holdings(G)
    BY AfterFacts
  <2>2. y = [b EXCEPT !.slot = [b.slot EXCEPT ![s] = NewSlot],
                      !.row = [b.row EXCEPT ![s] = None],
                      !.behind = b.behind \ {s}, !.morphed = b.morphed /\ ~IsForm(b, s)]
    BY <1>2, <2>1 DEF RemoveItem, Blanked, IsForm, Holdings
  <2>3. y \in Holdings(G)
    <3>1. [b.slot EXCEPT ![s] = NewSlot] \in [Slots -> FitItems]
      BY <2>1, BlankFits DEF Holdings
    <3>2. [b.row EXCEPT ![s] = None] \in [Slots -> FitRows \cup {None}]
      BY <2>1 DEF Holdings
    <3>3. (b.morphed /\ ~IsForm(b, s)) \in BOOLEAN
      OBVIOUS
    <3> HIDE DEF y
    <3> QED
      BY <2>1, <2>2, <3>1, <3>2, <3>3 DEF Holdings
  <2> HIDE DEF y
  <2>4. /\ y.slot = [b.slot EXCEPT ![s] = NewSlot] /\ y.row = [b.row EXCEPT ![s] = None]
        /\ y.marks = b.marks /\ y.morphed = (b.morphed /\ ~IsForm(b, s))
        /\ y.behind = b.behind \ {s}
    BY <2>1, <2>2 DEF Holdings
  <2>5. \A t \in Slots \ {s} : /\ y.slot[t] = b.slot[t] /\ y.row[t] = b.row[t]
                               /\ t \in y.behind <=> t \in b.behind
                               /\ t \in E => t \in E
    BY <2>1, <2>4 DEF Holdings
  <2>6. y.slot[s] = NewSlot /\ y.row[s] = None
    BY <2>1, <2>4 DEF Holdings
  <2>7. Follows(y, s) /\ ~y.slot[s].on /\ TypeAt(y, s) = "none"
    BY <2>6 DEF Follows, NewSlot, TypeAt, KindOf
  <2>8. Moves(b, y, s, E, E, F, D)
    BY <2>4, <2>5, <2>6, <2>7 DEF Moves, Switched
  <2>9. y \in After(a, G, E, F, D)
    BY <2>3, <2>8, OneSlot
  <2> QED
    BY <2>9 DEF y
<1>3. b.stuck \in BOOLEAN
  BY AfterFacts
<1> QED
  BY <1>1, <1>2, <1>3

\* DecrementItem: of what may be switched on, the last one is not taken here, since that
\* would leave who is seen as a form without it.
LEMMA DecrementAfter ==
  ASSUME NEW a, NEW G, NEW E, NEW F \in SUBSET Slots, NEW D \in SUBSET Slots,
         NEW b \in After(a, G, E, F, D), NEW s \in Slots, NEW n \in Nat,
         s \in F => n = 0,
         n < b.slot[s].qty \/ (s \notin F /\ TypeAt(b, s) \notin Switched)
  PROVE  DecrementItem(b, s, n) \in After(a, G, E, F, D)
<1> DEFINE y == DecrementItem(b, s, n)
<1>1. b \in Holdings(G) /\ b.slot[s] \in FitItems /\ b.stuck \in BOOLEAN /\ b.jam \in BOOLEAN
      /\ b.slot[s].qty \in Nat
  BY AfterFacts, SlotFacts
<1>2. CASE b.stuck
  BY <1>2 DEF DecrementItem
<1>3. CASE ~b.stuck /\ n < b.slot[s].qty
  <2> DEFINE i == [b.slot[s] EXCEPT !.qty = b.slot[s].qty - n]
             x == [b EXCEPT !.slot[s] = i]
  <2>1. y = Save(x, s)
    BY <1>3 DEF DecrementItem
  <2>2. b.slot[s].kind # 0 /\ b.slot[s] \in ItemRecs(Nat)
    BY <1>1, <1>3, ItemFields DEF FitItems
  <2>3. i.kind = b.slot[s].kind /\ i.on = b.slot[s].on /\ i.plus = b.slot[s].plus
        /\ i.codes = b.slot[s].codes /\ i.sockets = b.slot[s].sockets
        /\ i.socks = b.slot[s].socks /\ i.id = b.slot[s].id /\ i.qty = b.slot[s].qty - n
    BY <2>2 DEF ItemRecs
  <2>4. b.slot[s].qty - n \in Nat
    BY <1>1, <1>3
  <2>5. i \in FitRows
    <3>1. i \in ItemRecs(Nat)
      BY <2>2, <2>4 DEF ItemRecs
    <3> HIDE DEF i
    <3> QED
      BY <1>1, <2>2, <2>3, <3>1, ItemFields DEF FitRows, FitItems
  <2>6. s \in F => i.qty >= b.slot[s].qty
    BY <1>1, <2>3
  <2>7. s \in D => Type[i.kind] \notin Switched
    BY <2>2, <2>3, SlotFacts DEF TypeAt, KindOf
  <2> HIDE DEF i
  <2>8. [b EXCEPT !.slot[s] = i] \in After(a, G, E \cup {s}, F, D)
    BY <2>2, <2>3, <2>5, <2>6, <2>7, EditAfter DEF IsForm
  <2>9. x \in After(a, G, E \cup {s}, F, D)
    BY <2>8
  <2> HIDE DEF x
  <2>10. Save(x, s) \in After(a, G, E, F, D)
    BY <2>9, SaveAfter
  <2> QED
    BY <2>1, <2>10
<1>4. CASE ~b.stuck /\ ~(n < b.slot[s].qty)
  <2>1. s \notin F /\ TypeAt(b, s) \notin Switched /\ ~b.slot[s].on
    BY <1>4, SlotFacts
  <2>2. ~IsForm(b, s)
    BY <2>1 DEF IsForm
  <2>3. CASE b.jam
    <3> DEFINE i == [b.slot[s] EXCEPT !.qty = 0]
    <3>1. y = [b EXCEPT !.slot = [b.slot EXCEPT ![s] = i], !.stuck = TRUE,
                        !.behind = b.behind \cup {s}]
      BY <1>1, <1>4, <2>3 DEF DecrementItem, Holdings
    <3>2. i \in FitItems /\ i.kind = b.slot[s].kind /\ i.on = b.slot[s].on
      BY <1>1 DEF FitItems, ItemRecs
    <3> HIDE DEF i
    <3>3. y \in Holdings(G)
      <4>1. [b.slot EXCEPT ![s] = i] \in [Slots -> FitItems]
        BY <1>1, <3>2 DEF Holdings
      <4> HIDE DEF y
      <4> QED
        BY <1>1, <3>1, <4>1 DEF Holdings
    <3> HIDE DEF y
    <3>4. /\ y.slot = [b.slot EXCEPT ![s] = i] /\ y.row = b.row /\ y.marks = b.marks
          /\ y.morphed = b.morphed /\ y.behind = b.behind \cup {s}
      BY <1>1, <3>1 DEF Holdings
    <3>5. \A t \in Slots \ {s} : /\ y.slot[t] = b.slot[t] /\ y.row[t] = b.row[t]
                                 /\ t \in y.behind <=> t \in b.behind
                                 /\ t \in E => t \in E
      BY <1>1, <3>4 DEF Holdings
    <3>6. y.slot[s] = i /\ s \in y.behind
      BY <1>1, <3>4 DEF Holdings
    <3>7. TypeAt(y, s) \notin Switched
      BY <2>1, <3>2, <3>6 DEF TypeAt, KindOf
    <3>8. y.row[s] # None /\ y.row[s].on => s \in Bag
      BY <3>4, SlotFacts
    <3>9. Moves(b, y, s, E, E, F, D)
      BY <2>1, <2>2, <3>2, <3>4, <3>5, <3>6, <3>7, <3>8 DEF Moves
    <3>10. y \in After(a, G, E, F, D)
      BY <3>3, <3>9, OneSlot
    <3> QED
      BY <3>10 DEF y
  <2>4. CASE ~b.jam
    <3>1. y = [b EXCEPT !.slot = [b.slot EXCEPT ![s] = NewSlot],
                        !.row = [b.row EXCEPT ![s] = None],
                        !.behind = b.behind \ {s}, !.marks = b.marks \ {KindOf(b, s)}]
      BY <1>1, <1>4, <2>4 DEF DecrementItem, Blanked, Holdings
    <3>2. y \in Holdings(G)
      <4>1. [b.slot EXCEPT ![s] = NewSlot] \in [Slots -> FitItems]
        BY <1>1, BlankFits DEF Holdings
      <4>2. [b.row EXCEPT ![s] = None] \in [Slots -> FitRows \cup {None}]
        BY <1>1 DEF Holdings
      <4> HIDE DEF y
      <4> QED
        BY <1>1, <3>1, <4>1, <4>2 DEF Holdings
    <3> HIDE DEF y
    <3>3. /\ y.slot = [b.slot EXCEPT ![s] = NewSlot] /\ y.row = [b.row EXCEPT ![s] = None]
          /\ y.marks = b.marks \ {KindOf(b, s)} /\ y.morphed = b.morphed
          /\ y.behind = b.behind \ {s}
      BY <1>1, <3>1 DEF Holdings
    <3>4. \A t \in Slots \ {s} : /\ y.slot[t] = b.slot[t] /\ y.row[t] = b.row[t]
                                 /\ t \in y.behind <=> t \in b.behind
                                 /\ t \in E => t \in E
      BY <1>1, <3>3 DEF Holdings
    <3>5. y.slot[s] = NewSlot /\ y.row[s] = None
      BY <1>1, <3>3 DEF Holdings
    <3>6. Follows(y, s) /\ ~y.slot[s].on /\ TypeAt(y, s) = "none"
      BY <3>5 DEF Follows, NewSlot, TypeAt, KindOf
    <3>7. \A k \in b.marks : Type[k] \in Switched => k \in y.marks
      <4>1. b.marks \subseteq Kinds
        BY AfterFacts
      <4>2. 0 \notin Kinds
        BY GoodsFacts
      <4> QED
        BY <2>1, <3>3, <4>1, <4>2 DEF TypeAt
    <3>8. Moves(b, y, s, E, E, F, D)
      BY <2>1, <2>2, <3>3, <3>4, <3>5, <3>6, <3>7 DEF Moves, Switched
    <3>9. y \in After(a, G, E, F, D)
      BY <3>2, <3>8, OneSlot
    <3> QED
      BY <3>9 DEF y
  <2> QED
    BY <1>1, <2>3, <2>4
<1> QED
  BY <1>1, <1>2, <1>3, <1>4

\* What may be put in a slot: an item that is whole and not in use.
Offers == {i \in ItemRecs(Nat) : ~i.on /\ [i EXCEPT !.id = TRUE] \in FitRows}

\* What is put in a slot gets an id, and another quantity when it joins others.
LEMMA OfferFacts ==
  ASSUME NEW i \in Offers
  PROVE  /\ [i EXCEPT !.id = TRUE] \in FitRows /\ [i EXCEPT !.id = TRUE].kind = i.kind
         /\ [i EXCEPT !.id = TRUE].qty = i.qty /\ ~[i EXCEPT !.id = TRUE].on
         /\ i.kind \in Kinds /\ i.qty \in Nat
         /\ \A n \in Nat : [i EXCEPT !.qty = n] \in Offers /\ [i EXCEPT !.qty = n].kind = i.kind
                            /\ [i EXCEPT !.qty = n].qty = n
<1>1. i \in ItemRecs(Nat) /\ ~i.on /\ [i EXCEPT !.id = TRUE] \in FitRows
  BY DEF Offers
<1>2. /\ [i EXCEPT !.id = TRUE].kind = i.kind /\ [i EXCEPT !.id = TRUE].qty = i.qty
      /\ [i EXCEPT !.id = TRUE].on = i.on /\ i.qty \in Nat
  BY <1>1 DEF ItemRecs
<1>3. i.kind \in Kinds
  BY <1>1, <1>2, ItemFields DEF FitRows
<1>4. ASSUME NEW n \in Nat
      PROVE  [i EXCEPT !.qty = n] \in Offers /\ [i EXCEPT !.qty = n].kind = i.kind
             /\ [i EXCEPT !.qty = n].qty = n
  <2> DEFINE j == [i EXCEPT !.qty = n]
  <2>1. j \in ItemRecs(Nat) /\ j.kind = i.kind /\ j.qty = n /\ ~j.on
    BY <1>1 DEF ItemRecs
  <2>2. [j EXCEPT !.id = TRUE] = [[i EXCEPT !.id = TRUE] EXCEPT !.qty = n]
    BY <1>1 DEF ItemRecs
  <2>3. [[i EXCEPT !.id = TRUE] EXCEPT !.qty = n] \in FitRows
    <3>1. PICK x : x = [i EXCEPT !.id = TRUE]
      OBVIOUS
    <3>2. x \in FitRows /\ x \in ItemRecs(Nat)
      BY <1>1, <3>1 DEF FitRows, FitItems
    <3>3. [x EXCEPT !.qty = n] \in FitRows
      BY <3>2 DEF FitRows, FitItems, ItemRecs
    <3> QED
      BY <3>1, <3>3
  <2>4. j \in Offers
    BY <2>1, <2>2, <2>3 DEF Offers
  <2> QED
    BY <2>1, <2>4
<1> QED
  BY <1>1, <1>2, <1>3, <1>4

\* What a handler makes anew may be put in a slot.
LEMMA NewItemOffered ==
  ASSUME NEW k \in Kinds, NEW n \in Nat
  PROVE  NewItem(k, n) \in Offers /\ NewItem(k, n).kind = k
<1>1. PICK o : o = NewSlot
  OBVIOUS
<1>2. /\ o \in ItemRecs(Nat) /\ o.plus = 0 /\ o.codes = {} /\ o.sockets = 0 /\ o.socks = {}
      /\ o.on = FALSE /\ k # 0
  BY <1>1, BlankFits, GoodsFacts DEF FitItems, NewSlot
<1>3. PICK i : i = NewItem(k, n)
  OBVIOUS
<1>4. i = [o EXCEPT !.kind = k, !.qty = n]
  BY <1>1, <1>3 DEF NewItem
<1>5. i \in ItemRecs(Nat) /\ ~i.on /\ i.kind = k
  BY <1>2, <1>4 DEF ItemRecs
<1>6. PICK j : j = [i EXCEPT !.id = TRUE]
  OBVIOUS
<1>7. /\ j \in ItemRecs(Nat) /\ j.kind = k /\ j.plus = 0 /\ j.codes = {} /\ j.sockets = 0
      /\ j.socks = {} /\ j.on = FALSE /\ j.id = TRUE
  BY <1>2, <1>4, <1>5, <1>6 DEF ItemRecs
<1>8. j.codes = 1..j.plus /\ j.socks \subseteq 1..j.sockets
  BY <1>7
<1>9. j \in FitRows
  BY <1>2, <1>7, <1>8 DEF FitRows, FitItems
<1>10. i \in Offers
  BY <1>5, <1>6, <1>9 DEF Offers
<1> QED
  BY <1>3, <1>5, <1>10

\* And so may what comes with upgrades.
LEMMA UpgradedOffered ==
  ASSUME NEW k \in Kinds, NEW q \in 0..MaxPlus
  PROVE  Upgraded(k, q) \in Offers /\ Upgraded(k, q).kind = k
<1>1. PICK o : o = NewSlot
  OBVIOUS
<1>2. /\ o \in ItemRecs(Nat) /\ o.sockets = 0 /\ o.socks = {} /\ o.on = FALSE /\ k # 0
  BY <1>1, BlankFits, GoodsFacts DEF FitItems, NewSlot
<1>3. PICK i : i = Upgraded(k, q)
  OBVIOUS
<1>4. i = [o EXCEPT !.kind = k, !.qty = 1, !.plus = q, !.codes = 1..q]
  BY <1>1, <1>3 DEF Upgraded
<1>5. 1..q \subseteq 1..MaxPlus
  BY GoodsFacts
<1>6. i \in ItemRecs(Nat) /\ ~i.on /\ i.kind = k
  BY <1>2, <1>4, <1>5 DEF ItemRecs
<1>7. PICK j : j = [i EXCEPT !.id = TRUE]
  OBVIOUS
<1>8. /\ j \in ItemRecs(Nat) /\ j.kind = k /\ j.plus = q /\ j.codes = 1..q /\ j.sockets = 0
      /\ j.socks = {} /\ j.on = FALSE /\ j.id = TRUE
  BY <1>2, <1>4, <1>6, <1>7 DEF ItemRecs
<1>9. j.codes = 1..j.plus /\ j.socks \subseteq 1..j.sockets
  BY <1>8
<1>10. j \in FitRows
  BY <1>2, <1>8, <1>9 DEF FitRows, FitItems
<1>11. i \in Offers
  BY <1>6, <1>7, <1>10 DEF Offers
<1> QED
  BY <1>3, <1>6, <1>11

\* AddItem with a slot: over what is there, if that is not in use.
LEMMA AddItemAtAfter ==
  ASSUME NEW a, NEW G, NEW E, NEW F \in SUBSET Slots, NEW D \in SUBSET Slots,
         NEW b \in After(a, G, E, F, D), NEW s \in Slots \ D, NEW i \in Offers,
         ~b.slot[s].on, s \in F => i.kind = b.slot[s].kind /\ i.qty >= b.slot[s].qty
  PROVE  AddItemAt(b, s, i) \in After(a, G, E, F, D)
<1>1. b \in Holdings(G) /\ b.stuck \in BOOLEAN /\ b.slot[s] \in FitItems
  BY AfterFacts
<1>2. CASE b.stuck
  BY <1>2 DEF AddItemAt
<1>3. ~IsForm(b, s)
  BY DEF IsForm
<1>4. PICK new : new = [i EXCEPT !.id = TRUE]
  OBVIOUS
<1>5. new \in FitRows /\ new \in FitItems /\ new.kind = i.kind /\ new.qty = i.qty /\ ~new.on
      /\ new.kind # 0 /\ new.id
  BY <1>4, OfferFacts, ItemFields DEF FitRows
<1>6. CASE ~b.stuck /\ b.slot[s].id
  <2>1. AddItemAt(b, s, i) = Save([b EXCEPT !.slot[s] = new], s)
    BY <1>4, <1>6 DEF AddItemAt
  <2>2. b.slot[s].kind # 0
    BY <1>1, <1>6, ItemFields
  <2>3. PICK x : x = [b EXCEPT !.slot[s] = new]
    OBVIOUS
  <2>4. [b EXCEPT !.slot[s] = new] \in After(a, G, E \cup {s}, F, D)
    BY <1>3, <1>5, <2>2, EditAfter
  <2>5. Save(x, s) \in After(a, G, E, F, D)
    BY <2>3, <2>4, SaveAfter
  <2> QED
    BY <2>1, <2>3, <2>5
<1>7. CASE ~b.stuck /\ ~b.slot[s].id
  <2> DEFINE y == AddItemAt(b, s, i)
  <2>1. y = [b EXCEPT !.slot = [b.slot EXCEPT ![s] = new], !.row = [b.row EXCEPT ![s] = new],
                      !.behind = b.behind \ {s}]
    BY <1>4, <1>7 DEF AddItemAt
  <2> HIDE DEF y
  <2>2. y \in Holdings(G)
    <3>1. [b.slot EXCEPT ![s] = new] \in [Slots -> FitItems]
      BY <1>1, <1>5 DEF Holdings
    <3>2. [b.row EXCEPT ![s] = new] \in [Slots -> FitRows \cup {None}]
      BY <1>1, <1>5 DEF Holdings
    <3> QED
      BY <1>1, <2>1, <3>1, <3>2 DEF Holdings
  <2>3. /\ y.slot = [b.slot EXCEPT ![s] = new] /\ y.row = [b.row EXCEPT ![s] = new]
        /\ y.marks = b.marks /\ y.morphed = b.morphed /\ y.behind = b.behind \ {s}
    BY <1>1, <2>1 DEF Holdings
  <2>4. \A t \in Slots \ {s} : /\ y.slot[t] = b.slot[t] /\ y.row[t] = b.row[t]
                               /\ t \in y.behind <=> t \in b.behind
                               /\ t \in E => t \in E
    BY <1>1, <2>3 DEF Holdings
  <2>5. y.slot[s] = new /\ y.row[s] = new
    BY <1>1, <2>3 DEF Holdings
  <2>6. Follows(y, s) /\ ~y.slot[s].on /\ ~y.row[s].on
    BY <1>5, <2>5 DEF Follows
  <2>7. s \in F => KindOf(y, s) = KindOf(b, s) /\ y.slot[s].qty >= b.slot[s].qty
    BY <1>5, <2>5 DEF KindOf
  <2>8. Moves(b, y, s, E, E, F, D)
    BY <1>3, <2>3, <2>4, <2>6, <2>7 DEF Moves
  <2>9. y \in After(a, G, E, F, D)
    BY <2>2, <2>8, OneSlot
  <2> QED
    BY <2>9 DEF y
<1>8. b.slot[s].id \in BOOLEAN
  BY <1>1, ItemFields
<1> QED
  BY <1>1, <1>2, <1>6, <1>7, <1>8

\* The slots that hold a kind, and the first of them.
LEMMA HasFacts ==
  ASSUME NEW b, NEW k
  PROVE  /\ Has(b, k) \subseteq Slots
         /\ Has(b, k) # {} => Min(Has(b, k)) \in Has(b, k)
         /\ \A s \in Has(b, k) : s \in Slots /\ KindOf(b, s) = k
<1>1. Has(b, k) \subseteq Slots /\ IsFiniteSet(Has(b, k)) /\ Has(b, k) \subseteq Nat
  BY GoodsFacts, FS_Subset DEF Has
<1>2. Has(b, k) # {} => Min(Has(b, k)) \in Has(b, k)
  BY <1>1, MinIn
<1> QED
  BY <1>1, <1>2 DEF Has

\* FindFreeSlots and FindFreeSlot: what they find is in the bag and empty.
LEMMA FreeFacts ==
  ASSUME NEW b
  PROVE  /\ FindFreeSlots(b) \subseteq Bag
         /\ FindFreeSlot(b) # {} => Min(FindFreeSlot(b)) \in FindFreeSlots(b)
         /\ \A s \in FindFreeSlot(b) : s \in FindFreeSlots(b)
         /\ \A s \in FindFreeSlots(b) : s \in Slots /\ s \in Bag /\ b.slot[s].kind = 0
<1> DEFINE S == FindFreeSlots(b)
<1>1. S \subseteq Slots /\ IsFiniteSet(S) /\ S \subseteq Nat /\ S \subseteq Bag
  BY GoodsFacts, FS_Subset DEF FindFreeSlots
<1>2. S # {} => Min(S) \in S
  BY <1>1, MinIn
<1>3. S # {} => FindFreeSlot(b) = {Min(S)} /\ Min(S) \in Nat
  BY <1>1, <1>2 DEF FindFreeSlot
<1>4. S = {} => FindFreeSlot(b) = {}
  BY DEF FindFreeSlot
<1>5. ASSUME S # {} PROVE Min({Min(S)}) = Min(S)
  <2>1. IsFiniteSet({Min(S)}) /\ {Min(S)} \subseteq Nat
    BY <1>3, <1>5, FS_Singleton
  <2> QED
    BY <2>1, MinIn
<1>6. \A s \in S : s \in Slots /\ s \in Bag /\ b.slot[s].kind = 0
  BY <1>1 DEF FindFreeSlots, KindOf
<1> HIDE DEF S
<1>7. /\ FindFreeSlot(b) # {} => Min(FindFreeSlot(b)) \in S
      /\ \A s \in FindFreeSlot(b) : s \in S
  BY <1>2, <1>3, <1>4, <1>5
<1> QED
  BY <1>1, <1>6, <1>7 DEF S

\* Where an item goes: to others of its kind, or to a slot that is free.
LEMMA TargetFacts ==
  ASSUME NEW b, NEW i
  PROVE  /\ \A s \in Target(b, i) : s \in Slots
         /\ Stacks(b, i) = {} => \A s \in Target(b, i) : s \in FindFreeSlots(b)
         /\ Stacks(b, i) # {} => i.kind \in Stackable /\ \A s \in Target(b, i) : KindOf(b, s) = i.kind
<1>1. ASSUME NEW q
      PROVE  \A s \in FindItemInInventoryByPlus(b, i.kind, q) : s \in Has(b, i.kind)
  <2> DEFINE S == {s \in Has(b, i.kind) : b.slot[s].plus = q}
  <2>1. IsFiniteSet(S) /\ S \subseteq Nat
    BY HasFacts, GoodsFacts, FS_Subset
  <2>2. S # {} => Min(S) \in S
    BY <2>1, MinIn
  <2>3. FindItemInInventoryByPlus(b, i.kind, q) = IF S = {} THEN {} ELSE {Min(S)}
    BY DEF FindItemInInventoryByPlus
  <2> QED
    BY <2>2, <2>3
<1>2. \A s \in FindItemInInventory(b, i.kind) : s \in Has(b, i.kind)
  BY HasFacts DEF FindItemInInventory
<1>3. \A s \in Stacks(b, i) : s \in Has(b, i.kind)
  BY <1>1, <1>2 DEF Stacks
<1>4. Stacks(b, i) # {} => i.kind \in Stackable
  BY DEF Stacks
<1> QED
  BY <1>3, <1>4, FreeFacts, HasFacts DEF Target

\* AddItem without a slot: nothing that is in use is written over.
LEMMA AddItemAfter ==
  ASSUME NEW a, NEW G, NEW E, NEW F \in SUBSET Slots, \A s \in F : KindOf(a, s) # 0,
         NEW b \in After(a, G, E, F, {}), NEW i \in Offers
  PROVE  AddItem(b, i) \in After(a, G, E, F, {})
<1>1. CASE b.stuck \/ Target(b, i) = {}
  BY <1>1 DEF AddItem
<1>2. CASE ~(b.stuck \/ Target(b, i) = {})
  <2>1. PICK s : s = CHOOSE t \in Target(b, i) : TRUE
    OBVIOUS
  <2>2. s \in Target(b, i)
    BY <1>2, <2>1
  <2>3. s \in Slots
    BY <2>2, TargetFacts
  <2>4. PICK old : old = IF Stacks(b, i) = {} THEN 0 ELSE b.slot[s].qty
    OBVIOUS
  <2>5. AddItem(b, i) = AddItemAt(b, s, [i EXCEPT !.qty = @ + old])
    BY <1>2, <2>1, <2>4 DEF AddItem
  <2>6. b.slot[s].qty \in Nat /\ old \in Nat /\ b.slot[s] \in FitItems
    BY <2>3, <2>4, SlotFacts
  <2>7. i.qty \in Nat /\ i.qty + old \in Nat /\ i.kind \in Kinds
    <3>1. i.qty \in Nat /\ i.kind \in Kinds
      BY OfferFacts
    <3> QED
      BY <2>6, <3>1
  <2>8. PICK j : j = [i EXCEPT !.qty = i.qty + old]
    OBVIOUS
  <2>9. j \in Offers /\ j.kind = i.kind /\ j.qty = i.qty + old
    BY <2>7, <2>8, OfferFacts
  <2>10. ~b.slot[s].on
    <3>1. CASE Stacks(b, i) = {}
      <4>1. b.slot[s].kind = 0
        BY <2>2, <3>1, TargetFacts, FreeFacts
      <4> QED
        BY <2>6, <4>1, ItemFields
    <3>2. CASE Stacks(b, i) # {}
      <4>1. KindOf(b, s) = i.kind /\ i.kind \in Stackable
        BY <2>2, <3>2, TargetFacts
      <4> QED
        BY <2>6, <4>1, ItemFields, GoodsFacts DEF KindOf
    <3> QED
      BY <3>1, <3>2
  <2>11. s \in F => j.kind = b.slot[s].kind /\ j.qty >= b.slot[s].qty
    <3> SUFFICES ASSUME s \in F PROVE j.kind = b.slot[s].kind /\ j.qty >= b.slot[s].qty
      OBVIOUS
    <3>1. KindOf(b, s) = KindOf(a, s) /\ KindOf(a, s) # 0
      BY <2>3, SlotFacts
    <3>2. Stacks(b, i) # {}
      BY <2>2, <3>1, TargetFacts, FreeFacts DEF KindOf
    <3>3. KindOf(b, s) = i.kind
      BY <2>2, <3>2, TargetFacts
    <3> QED
      BY <2>4, <2>6, <2>7, <2>9, <3>2, <3>3 DEF KindOf
  <2>12. AddItemAt(b, s, j) \in After(a, G, E, F, {})
    BY <2>3, <2>9, <2>10, <2>11, AddItemAtAfter
  <2> QED
    BY <2>5, <2>8, <2>12
<1> QED
  BY <1>1, <1>2

\* Gold that is given, or taken: the bounds on it come last.
LEMMA LootGoldAfter ==
  ASSUME NEW a, NEW G, NEW E, NEW F, NEW D, NEW b \in After(a, G, E, F, D), NEW n
  PROVE  \E H : LootGold(b, n) \in After(a, H, E, F, D)
<1>1. CASE b.stuck
  BY <1>1 DEF LootGold
<1>2. CASE ~b.stuck
  <2>1. PICK y : y = [b EXCEPT !.gold = b.gold + n]
    OBVIOUS
  <2>2. b \in Holdings(G)
    BY AfterFacts
  <2>3. y \in Holdings({b.gold + n})
    BY <2>1, <2>2 DEF Holdings
  <2>4. /\ y.slot = b.slot /\ y.row = b.row /\ y.marks = b.marks /\ y.morphed = b.morphed
        /\ y.behind = b.behind
    BY <2>1, <2>2 DEF Holdings
  <2>5. OnInBag(y) /\ RowsKept(y, E)
    BY <2>4 DEF After, OnInBag, RowsKept, Follows, Savable
  <2>6. Tame(a, y, F, D)
    <3>1. \A s \in Slots : KindOf(y, s) = KindOf(b, s) /\ TypeAt(y, s) = TypeAt(b, s)
      BY <2>4 DEF TypeAt, KindOf
    <3>2. Tame(a, b, F, D)
      BY AfterFacts
    <3> QED
      BY <2>4, <3>2 DEF Tame, IsForm, TypeAt, KindOf
  <2>7. y \in After(a, {b.gold + n}, E, F, D)
    BY <2>3, <2>5, <2>6, AfterFacts DEF After
  <2> QED
    BY <1>2, <2>1, <2>7 DEF LootGold
<1> QED
  BY <1>1, <1>2, AfterFacts

\* What a fold takes first.
AnyOf(T) == CHOOSE x \in T : TRUE

\* One of each slot of S is used up.
LEMMA SpentAfter ==
  ASSUME NEW a, NEW G, NEW E, NEW F \in SUBSET Slots, NEW D \in SUBSET Slots,
         NEW b \in After(a, G, E, F, D), NEW S \in SUBSET D, S \cap F = {}
  PROVE  Spent(b, S) \in After(a, G, E, F, D)
<1> DEFINE B == After(a, G, E, F, D)
           pick == [T \in (SUBSET S) \ {{}} |-> AnyOf(T)]
           step == [s \in S |-> [x \in B |-> DecrementItem(x, s, 1)]]
           Once(it) == it = [T \in SUBSET S |->
                               IF T = {} THEN b
                               ELSE DecrementItem(it[T \ {AnyOf(T)}], AnyOf(T), 1)]
<1>1. Spent(b, S) = (CHOOSE it : Once(it))[S]
  BY DEF Spent, FoldSet, MapThenFoldSet, AnyOf
<1>2. Foldable(S, pick, b, step, B)
  <2>1. \A s \in S, x \in B : DecrementItem(x, s, 1) \in B
    <3>1. ASSUME NEW s \in S, NEW x \in B PROVE DecrementItem(x, s, 1) \in B
      <4>1. s \in D /\ s \in Slots /\ s \notin F
        OBVIOUS
      <4>2. TypeAt(x, s) \notin Switched
        BY <4>1, SlotFacts
      <4> QED
        BY <4>1, <4>2, DecrementAfter
    <3> QED
      BY <3>1
  <2>2. \A T \in (SUBSET S) \ {{}} : pick[T] \in T
    BY DEF AnyOf
  <2>3. IsFiniteSet(S) /\ b \in B
    BY GoodsFacts, FS_Subset
  <2>4. \A s \in S : step[s] \in [B -> B]
    <3> HIDE DEF B
    <3> QED
      BY <2>1
  <2> HIDE DEF B, pick, step
  <2> QED
    BY <2>2, <2>3, <2>4 DEF Foldable
<1>3. \A T \in (SUBSET S) \ {{}} : pick[T] = AnyOf(T) /\ pick[T] \in T
  BY <1>2 DEF Foldable
<1>4. \A s \in S, x \in B : step[s][x] = DecrementItem(x, s, 1)
  <2> HIDE DEF B
  <2> QED
    OBVIOUS
<1> HIDE DEF B, pick, step
<1>5. PICK f \in [SUBSET S -> B] : Folds(S, pick, b, step, B, f)
  <2>1. FoldsIn(S, pick, b, step, B) # {}
    BY <1>2, FoldExists
  <2> QED
    BY <2>1 DEF FoldsIn
<1>6. Once(f)
  <2>1. ASSUME NEW T \in SUBSET S, T # {}
        PROVE  f[T] = DecrementItem(f[T \ {AnyOf(T)}], AnyOf(T), 1)
    <3>1. f[T \ {pick[T]}] \in B
      BY <1>5
    <3>2. f[T] = step[pick[T]][f[T \ {pick[T]}]]
      BY <1>5, <2>1, <3>1 DEF Folds
    <3>3. f[T] = DecrementItem(f[T \ {pick[T]}], pick[T], 1)
      BY <1>3, <1>4, <2>1, <3>1, <3>2
    <3> QED
      BY <1>3, <2>1, <3>3
  <2>2. f[{}] = b
    BY <1>5 DEF Folds
  <2> QED
    BY <1>5, <2>1, <2>2
<1>7. PICK g : g = CHOOSE it : Once(it)
  OBVIOUS
<1>8. Once(g)
  <2> HIDE DEF Once
  <2> QED
    BY <1>6, <1>7
<1>9. Folds(S, pick, b, step, B, g)
  <2>1. ASSUME NEW T \in SUBSET S, T # {}, g[T \ {pick[T]}] \in B
        PROVE  g[T] = step[pick[T]][g[T \ {pick[T]}]]
    <3>1. g[T] = DecrementItem(g[T \ {pick[T]}], pick[T], 1)
      BY <1>3, <1>8, <2>1
    <3> QED
      BY <1>3, <1>4, <2>1, <3>1, ZenonT(40)
  <2>2. g[{}] = b
    BY <1>8
  <2> QED
    BY <2>1, <2>2 DEF Folds
<1> HIDE DEF Once
<1>10. g[S] \in B
  BY <1>2, <1>9, FoldStays
<1> QED
  BY <1>1, <1>7, <1>10 DEF B

\* The slots of S are emptied.
LEMMA GoneAfter ==
  ASSUME NEW a, NEW G, NEW E, NEW F \in SUBSET Slots, NEW D \in SUBSET Slots,
         NEW b \in After(a, G, E, F, D), NEW S \in SUBSET Slots, S \cap F = {}
  PROVE  Gone(b, S) \in After(a, G, E, F, D)
<1> DEFINE B == After(a, G, E, F, D)
           pick == [T \in (SUBSET S) \ {{}} |-> AnyOf(T)]
           step == [s \in S |-> [x \in B |-> RemoveItem(x, s)]]
           Once(it) == it = [T \in SUBSET S |->
                               IF T = {} THEN b
                               ELSE RemoveItem(it[T \ {AnyOf(T)}], AnyOf(T))]
<1>1. Gone(b, S) = (CHOOSE it : Once(it))[S]
  BY DEF Gone, FoldSet, MapThenFoldSet, AnyOf
<1>2. Foldable(S, pick, b, step, B)
  <2>1. \A s \in S, x \in B : RemoveItem(x, s) \in B
    <3>1. ASSUME NEW s \in S, NEW x \in B PROVE RemoveItem(x, s) \in B
      BY RemoveItemAfter
    <3> QED
      BY <3>1
  <2>2. \A T \in (SUBSET S) \ {{}} : pick[T] \in T
    BY DEF AnyOf
  <2>3. IsFiniteSet(S) /\ b \in B
    BY GoodsFacts, FS_Subset
  <2>4. \A s \in S : step[s] \in [B -> B]
    <3> HIDE DEF B
    <3> QED
      BY <2>1
  <2> HIDE DEF B, pick, step
  <2> QED
    BY <2>2, <2>3, <2>4 DEF Foldable
<1>3. \A T \in (SUBSET S) \ {{}} : pick[T] = AnyOf(T) /\ pick[T] \in T
  BY <1>2 DEF Foldable
<1>4. \A s \in S, x \in B : step[s][x] = RemoveItem(x, s)
  <2> HIDE DEF B
  <2> QED
    OBVIOUS
<1> HIDE DEF B, pick, step
<1>5. PICK f \in [SUBSET S -> B] : Folds(S, pick, b, step, B, f)
  <2>1. FoldsIn(S, pick, b, step, B) # {}
    BY <1>2, FoldExists
  <2> QED
    BY <2>1 DEF FoldsIn
<1>6. Once(f)
  <2>1. ASSUME NEW T \in SUBSET S, T # {}
        PROVE  f[T] = RemoveItem(f[T \ {AnyOf(T)}], AnyOf(T))
    <3>1. f[T \ {pick[T]}] \in B
      BY <1>5
    <3>2. f[T] = step[pick[T]][f[T \ {pick[T]}]]
      BY <1>5, <2>1, <3>1 DEF Folds
    <3>3. f[T] = RemoveItem(f[T \ {pick[T]}], pick[T])
      BY <1>3, <1>4, <2>1, <3>1, <3>2
    <3> QED
      BY <1>3, <2>1, <3>3
  <2>2. f[{}] = b
    BY <1>5 DEF Folds
  <2> QED
    BY <1>5, <2>1, <2>2
<1>7. PICK g : g = CHOOSE it : Once(it)
  OBVIOUS
<1>8. Once(g)
  <2> HIDE DEF Once
  <2> QED
    BY <1>6, <1>7
<1>9. Folds(S, pick, b, step, B, g)
  <2>1. ASSUME NEW T \in SUBSET S, T # {}, g[T \ {pick[T]}] \in B
        PROVE  g[T] = step[pick[T]][g[T \ {pick[T]}]]
    <3>1. g[T] = RemoveItem(g[T \ {pick[T]}], pick[T])
      BY <1>3, <1>8, <2>1
    <3> QED
      BY <1>3, <1>4, <2>1, <3>1
  <2>2. g[{}] = b
    BY <1>8
  <2> QED
    BY <2>1, <2>2 DEF Folds
<1> HIDE DEF Once
<1>10. g[S] \in B
  BY <1>2, <1>9, FoldStays
<1> QED
  BY <1>1, <1>7, <1>10 DEF B

\* What a rite asks for loses its rows.
LEMMA BurntAfter ==
  ASSUME NEW E, NEW F \in SUBSET Slots, NEW D \in SUBSET Slots,
         NEW G, c \in After(c, G, E, F, D), NEW rite \in {"divine", "dark"}, Offered(rite)
  PROVE  Burnt(rite) \in After(c, G, E, F, D)
<1>0. PICK S : S = DOMAIN Tribute[rite]
  OBVIOUS
<1>a. IsFiniteSet(S) /\ \A k \in S : Min(Has(c, k)) \in Slots
  <2>1. S \subseteq Kinds
    BY <1>0, NpcAssumption
  <2>2. \A k \in S : Has(c, k) # {}
    BY <1>0 DEF Offered
  <2> QED
    BY <2>1, <2>2, HasFacts, GoodsFacts, FS_Subset
<1> DEFINE B == After(c, G, E, F, D)
           pick == [T \in (SUBSET S) \ {{}} |-> AnyOf(T)]
           step == [s \in S |-> [x \in B |-> DeleteRow(x, Min(Has(c, s)))]]
           Once(it) == it = [T \in SUBSET S |->
                               IF T = {} THEN c
                               ELSE DeleteRow(it[T \ {AnyOf(T)}], Min(Has(c, AnyOf(T))))]
<1>1. Burnt(rite) = (CHOOSE it : Once(it))[S]
  BY <1>0 DEF Burnt, FoldSet, MapThenFoldSet, AnyOf
<1>2. Foldable(S, pick, c, step, B)
  <2>1. \A s \in S, x \in B : DeleteRow(x, Min(Has(c, s))) \in B
    <3>1. ASSUME NEW s \in S, NEW x \in B PROVE DeleteRow(x, Min(Has(c, s))) \in B
      BY <1>a, DeleteRowAfter
    <3> QED
      BY <3>1
  <2>2. \A T \in (SUBSET S) \ {{}} : pick[T] \in T
    BY DEF AnyOf
  <2>3. IsFiniteSet(S) /\ c \in B
    BY <1>a
  <2>4. \A s \in S : step[s] \in [B -> B]
    <3> HIDE DEF B
    <3> QED
      BY <2>1
  <2> HIDE DEF B, pick, step
  <2> QED
    BY <2>2, <2>3, <2>4 DEF Foldable
<1>3. \A T \in (SUBSET S) \ {{}} : pick[T] = AnyOf(T) /\ pick[T] \in T
  BY <1>2 DEF Foldable
<1>4. \A s \in S, x \in B : step[s][x] = DeleteRow(x, Min(Has(c, s)))
  <2> HIDE DEF B
  <2> QED
    OBVIOUS
<1> HIDE DEF B, pick, step
<1>5. PICK f \in [SUBSET S -> B] : Folds(S, pick, c, step, B, f)
  <2>1. FoldsIn(S, pick, c, step, B) # {}
    BY <1>2, FoldExists
  <2> QED
    BY <2>1 DEF FoldsIn
<1>6. Once(f)
  <2>1. ASSUME NEW T \in SUBSET S, T # {}
        PROVE  f[T] = DeleteRow(f[T \ {AnyOf(T)}], Min(Has(c, AnyOf(T))))
    <3>1. f[T \ {pick[T]}] \in B
      BY <1>5
    <3>2. f[T] = step[pick[T]][f[T \ {pick[T]}]]
      BY <1>5, <2>1, <3>1 DEF Folds
    <3>3. f[T] = DeleteRow(f[T \ {pick[T]}], Min(Has(c, pick[T])))
      BY <1>3, <1>4, <2>1, <3>1, <3>2
    <3> QED
      BY <1>3, <2>1, <3>3
  <2>2. f[{}] = c
    BY <1>5 DEF Folds
  <2> QED
    BY <1>5, <2>1, <2>2
<1>7. PICK g : g = CHOOSE it : Once(it)
  OBVIOUS
<1>8. Once(g)
  <2> HIDE DEF Once
  <2> QED
    BY <1>6, <1>7
<1>9. Folds(S, pick, c, step, B, g)
  <2>1. ASSUME NEW T \in SUBSET S, T # {}, g[T \ {pick[T]}] \in B
        PROVE  g[T] = step[pick[T]][g[T \ {pick[T]}]]
    <3>1. g[T] = DeleteRow(g[T \ {pick[T]}], Min(Has(c, pick[T])))
      BY <1>3, <1>8, <2>1
    <3> QED
      BY <1>3, <1>4, <2>1, <3>1
  <2>2. g[{}] = c
    BY <1>8
  <2> QED
    BY <2>1, <2>2 DEF Folds
<1> HIDE DEF Once
<1>10. g[S] \in B
  BY <1>2, <1>9, FoldStays
<1> QED
  BY <1>1, <1>7, <1>10 DEF B

\* What comes out of a gift box is added piece by piece.
LEMMA ChosenAfter ==
  ASSUME NEW a, NEW G, NEW E, NEW F \in SUBSET Slots, \A s \in F : KindOf(a, s) # 0,
         NEW b \in After(a, G, E, F, {}), NEW f, IsFiniteSet(DOMAIN f),
         \A k \in DOMAIN f : f[k] \in Offers
  PROVE  Chosen(b, f) \in After(a, G, E, F, {})
<1>a. PICK S : S = DOMAIN f
  OBVIOUS
<1>b. IsFiniteSet(S) /\ \A k \in S : f[k] \in Offers
  BY <1>a
<1> DEFINE B == After(a, G, E, F, {})
           pick == [T \in (SUBSET S) \ {{}} |-> AnyOf(T)]
           step == [s \in S |-> [x \in B |-> AddItem(x, f[s])]]
           Once(it) == it = [T \in SUBSET S |->
                               IF T = {} THEN b
                               ELSE AddItem(it[T \ {AnyOf(T)}], f[AnyOf(T)])]
<1>1. Chosen(b, f) = (CHOOSE it : Once(it))[S]
  BY <1>a DEF Chosen, FoldSet, MapThenFoldSet, AnyOf
<1>2. Foldable(S, pick, b, step, B)
  <2>1. \A s \in S, x \in B : AddItem(x, f[s]) \in B
    <3>1. ASSUME NEW s \in S, NEW x \in B PROVE AddItem(x, f[s]) \in B
      BY <1>b, AddItemAfter
    <3> QED
      BY <3>1
  <2>2. \A T \in (SUBSET S) \ {{}} : pick[T] \in T
    BY DEF AnyOf
  <2>3. IsFiniteSet(S) /\ b \in B
    BY <1>b
  <2>4. \A s \in S : step[s] \in [B -> B]
    <3> HIDE DEF B
    <3> QED
      BY <2>1
  <2> HIDE DEF B, pick, step
  <2> QED
    BY <2>2, <2>3, <2>4 DEF Foldable
<1>3. \A T \in (SUBSET S) \ {{}} : pick[T] = AnyOf(T) /\ pick[T] \in T
  BY <1>2 DEF Foldable
<1>4. \A s \in S, x \in B : step[s][x] = AddItem(x, f[s])
  <2> HIDE DEF B
  <2> QED
    OBVIOUS
<1> HIDE DEF B, pick, step
<1>5. PICK h \in [SUBSET S -> B] : Folds(S, pick, b, step, B, h)
  <2>1. FoldsIn(S, pick, b, step, B) # {}
    BY <1>2, FoldExists
  <2> QED
    BY <2>1 DEF FoldsIn
<1>6. Once(h)
  <2>1. ASSUME NEW T \in SUBSET S, T # {}
        PROVE  h[T] = AddItem(h[T \ {AnyOf(T)}], f[AnyOf(T)])
    <3>1. h[T \ {pick[T]}] \in B
      BY <1>5
    <3>2. h[T] = step[pick[T]][h[T \ {pick[T]}]]
      BY <1>5, <2>1, <3>1 DEF Folds
    <3>3. h[T] = AddItem(h[T \ {pick[T]}], f[pick[T]])
      BY <1>3, <1>4, <2>1, <3>1, <3>2
    <3> QED
      BY <1>3, <2>1, <3>3
  <2>2. h[{}] = b
    BY <1>5 DEF Folds
  <2> QED
    BY <1>5, <2>1, <2>2
<1>7. PICK g : g = CHOOSE it : Once(it)
  OBVIOUS
<1>8. Once(g)
  <2> HIDE DEF Once
  <2> QED
    BY <1>6, <1>7
<1>9. Folds(S, pick, b, step, B, g)
  <2>1. ASSUME NEW T \in SUBSET S, T # {}, g[T \ {pick[T]}] \in B
        PROVE  g[T] = step[pick[T]][g[T \ {pick[T]}]]
    <3>1. g[T] = AddItem(g[T \ {pick[T]}], f[pick[T]])
      BY <1>3, <1>8, <2>1
    <3> QED
      BY <1>3, <1>4, <2>1, <3>1
  <2>2. g[{}] = b
    BY <1>8
  <2> QED
    BY <2>1, <2>2 DEF Folds
<1> HIDE DEF Once
<1>10. g[S] \in B
  BY <1>2, <1>9, FoldStays
<1> QED
  BY <1>1, <1>7, <1>10 DEF B

\* What a dismantled item melts into.
LEMMA YieldAfter ==
  ASSUME NEW a, NEW G, NEW E, NEW F \in SUBSET Slots, \A s \in F : KindOf(a, s) # 0,
         NEW b \in After(a, G, E, F, {}), NEW k \in Kinds
  PROVE  Yield(b, k) \in After(a, G, E, F, {})
<1>1. PICK i : i = NewItem(k, 1)
  OBVIOUS
<1>2. i \in Offers
  BY <1>1, NewItemOffered
<1>3. CASE FindFreeSlot(b) = {}
  <2>1. AddItem(b, i) \in After(a, G, E, F, {})
    BY <1>2, AddItemAfter
  <2> QED
    BY <1>1, <1>3, <2>1 DEF Yield
<1>4. CASE FindFreeSlot(b) # {}
  <2>1. PICK s \in Slots : s = Min(FindFreeSlot(b)) /\ b.slot[s].kind = 0
    BY <1>4, FreeFacts
  <2>2. ~b.slot[s].on /\ s \notin F
    <3>1. b.slot[s] \in FitItems /\ (s \in F => KindOf(b, s) = KindOf(a, s))
      BY SlotFacts
    <3> QED
      BY <2>1, <3>1, ItemFields DEF KindOf
  <2>3. AddItemAt(b, s, i) \in After(a, G, E, F, {})
    BY <1>2, <2>2, AddItemAtAfter
  <2> QED
    BY <1>1, <1>4, <2>1, <2>3 DEF Yield
<1> QED
  BY <1>3, <1>4

Placed(b, k) == IF HasRoom(b, k) THEN Yield(b, k) ELSE b

\* And all of it, as far as there is room.
LEMMA PiecesAfter ==
  ASSUME NEW a, NEW G, NEW E, NEW F \in SUBSET Slots, \A s \in F : KindOf(a, s) # 0,
         NEW b \in After(a, G, E, F, {}), NEW S \in SUBSET Kinds
  PROVE  Pieces(b, S) \in After(a, G, E, F, {})
<1> DEFINE B == After(a, G, E, F, {})
           pick == [T \in (SUBSET S) \ {{}} |-> AnyOf(T)]
           step == [s \in S |-> [x \in B |-> Placed(x, s)]]
           Once(it) == it = [T \in SUBSET S |->
                               IF T = {} THEN b
                               ELSE Placed(it[T \ {AnyOf(T)}], AnyOf(T))]
<1>1. Pieces(b, S) = (CHOOSE it : Once(it))[S]
  BY DEF Pieces, FoldSet, MapThenFoldSet, Placed, AnyOf
<1>2. Foldable(S, pick, b, step, B)
  <2>1. \A s \in S, x \in B : Placed(x, s) \in B
    <3>1. ASSUME NEW s \in S, NEW x \in B PROVE Placed(x, s) \in B
      <4>1. Yield(x, s) \in B
        BY YieldAfter
      <4> QED
        BY <4>1 DEF Placed
    <3> QED
      BY <3>1
  <2>2. \A T \in (SUBSET S) \ {{}} : pick[T] \in T
    BY DEF AnyOf
  <2>3. IsFiniteSet(S) /\ b \in B
    BY GoodsFacts, FS_Subset
  <2>4. \A s \in S : step[s] \in [B -> B]
    <3> HIDE DEF B
    <3> QED
      BY <2>1
  <2> HIDE DEF B, pick, step
  <2> QED
    BY <2>2, <2>3, <2>4 DEF Foldable
<1>3. \A T \in (SUBSET S) \ {{}} : pick[T] = AnyOf(T) /\ pick[T] \in T
  BY <1>2 DEF Foldable
<1>4. \A s \in S, x \in B : step[s][x] = Placed(x, s)
  <2> HIDE DEF B
  <2> QED
    OBVIOUS
<1> HIDE DEF B, pick, step
<1>5. PICK f \in [SUBSET S -> B] : Folds(S, pick, b, step, B, f)
  <2>1. FoldsIn(S, pick, b, step, B) # {}
    BY <1>2, FoldExists
  <2> QED
    BY <2>1 DEF FoldsIn
<1>6. Once(f)
  <2>1. ASSUME NEW T \in SUBSET S, T # {}
        PROVE  f[T] = Placed(f[T \ {AnyOf(T)}], AnyOf(T))
    <3>1. f[T \ {pick[T]}] \in B
      BY <1>5
    <3>2. f[T] = step[pick[T]][f[T \ {pick[T]}]]
      BY <1>5, <2>1, <3>1 DEF Folds
    <3>3. f[T] = Placed(f[T \ {pick[T]}], pick[T])
      BY <1>3, <1>4, <2>1, <3>1, <3>2
    <3> QED
      BY <1>3, <2>1, <3>3
  <2>2. f[{}] = b
    BY <1>5 DEF Folds
  <2> QED
    BY <1>5, <2>1, <2>2
<1>7. PICK g : g = CHOOSE it : Once(it)
  OBVIOUS
<1>8. Once(g)
  <2> HIDE DEF Once
  <2> QED
    BY <1>6, <1>7
<1>9. Folds(S, pick, b, step, B, g)
  <2>1. ASSUME NEW T \in SUBSET S, T # {}, g[T \ {pick[T]}] \in B
        PROVE  g[T] = step[pick[T]][g[T \ {pick[T]}]]
    <3>1. g[T] = Placed(g[T \ {pick[T]}], pick[T])
      BY <1>3, <1>8, <2>1
    <3> QED
      BY <1>3, <1>4, <2>1, <3>1
  <2>2. g[{}] = b
    BY <1>8
  <2> QED
    BY <2>1, <2>2 DEF Folds
<1> HIDE DEF Once
<1>10. g[S] \in B
  BY <1>2, <1>9, FoldStays
<1> QED
  BY <1>1, <1>7, <1>10 DEF B

\* What is given next, as long as there was room.
GiveTo(r, item) == IF r.full \/ Target(r.b, item) = {} THEN [r EXCEPT !.full = TRUE]
                   ELSE [r EXCEPT !.b = AddItem(@, item)]
Greatest(T) == Max(T)

\* Gifts are given one after another, until there is no room.
LEMMA GivenAfter ==
  ASSUME NEW a, NEW G, NEW E, NEW F \in SUBSET Slots, \A s \in F : KindOf(a, s) # 0,
         NEW b \in After(a, G, E, F, {}), NEW q, NEW n \in Nat, DOMAIN q = 1..n,
         \A i \in 1..n : q[i] \in Offers
  PROVE  Given(b, q) \in After(a, G, E, F, {})
<1>a. PICK S, r0 : S = 1..n /\ r0 = [b |-> b, full |-> FALSE]
  OBVIOUS
<1>b. IsFiniteSet(S) /\ S \subseteq Nat /\ S = DOMAIN q /\ \A i \in S : q[i] \in Offers
  BY <1>a, FS_Interval
<1> DEFINE B == [b : After(a, G, E, F, {}), full : BOOLEAN]
           pick == [T \in (SUBSET S) \ {{}} |-> Greatest(T)]
           step == [s \in S |-> [x \in B |-> GiveTo(x, q[s])]]
           Once(it) == it = [T \in SUBSET S |->
                               IF T = {} THEN r0
                               ELSE GiveTo(it[T \ {Greatest(T)}], q[Greatest(T)])]
<1>1. Given(b, q) = (CHOOSE it : Once(it))[S].b
  BY <1>a, <1>b DEF Given, FoldLeft, MapThenFoldSet, Greatest, GiveTo
<1>2. Foldable(S, pick, r0, step, B)
  <2>1. \A s \in S, x \in B : GiveTo(x, q[s]) \in B
    <3>1. ASSUME NEW s \in S, NEW x \in B PROVE GiveTo(x, q[s]) \in B
      <4>1. x.b \in After(a, G, E, F, {}) /\ x.full \in BOOLEAN /\ q[s] \in Offers
        BY <1>b
      <4>2. AddItem(x.b, q[s]) \in After(a, G, E, F, {})
        BY <4>1, AddItemAfter
      <4> QED
        BY <4>1, <4>2 DEF GiveTo
    <3> QED
      BY <3>1
  <2>2. \A T \in (SUBSET S) \ {{}} : pick[T] \in T
    <3> SUFFICES ASSUME NEW T \in (SUBSET S) \ {{}} PROVE Greatest(T) \in T
      OBVIOUS
    <3>1. IsFiniteSet(T) /\ T \subseteq Nat
      BY <1>b, FS_Subset
    <3> QED
      BY <3>1, MaxIn DEF Greatest
  <2>3. IsFiniteSet(S) /\ r0 \in B
    BY <1>a, <1>b
  <2>4. \A s \in S : step[s] \in [B -> B]
    <3> HIDE DEF B
    <3> QED
      BY <2>1
  <2> HIDE DEF B, pick, step
  <2> QED
    BY <2>2, <2>3, <2>4 DEF Foldable
<1>3. \A T \in (SUBSET S) \ {{}} : pick[T] = Greatest(T) /\ pick[T] \in T
  BY <1>2 DEF Foldable
<1>4. \A s \in S, x \in B : step[s][x] = GiveTo(x, q[s])
  <2> HIDE DEF B
  <2> QED
    OBVIOUS
<1> HIDE DEF B, pick, step
<1>5. PICK f \in [SUBSET S -> B] : Folds(S, pick, r0, step, B, f)
  <2>1. FoldsIn(S, pick, r0, step, B) # {}
    BY <1>2, FoldExists
  <2> QED
    BY <2>1 DEF FoldsIn
<1>6. Once(f)
  <2>1. ASSUME NEW T \in SUBSET S, T # {}
        PROVE  f[T] = GiveTo(f[T \ {Greatest(T)}], q[Greatest(T)])
    <3>1. f[T \ {pick[T]}] \in B
      BY <1>5
    <3>2. f[T] = step[pick[T]][f[T \ {pick[T]}]]
      BY <1>5, <2>1, <3>1 DEF Folds
    <3>3. f[T] = GiveTo(f[T \ {pick[T]}], q[pick[T]])
      BY <1>3, <1>4, <2>1, <3>1, <3>2
    <3> QED
      BY <1>3, <2>1, <3>3
  <2>2. f[{}] = r0
    BY <1>5 DEF Folds
  <2> QED
    BY <1>5, <2>1, <2>2
<1>7. PICK g : g = CHOOSE it : Once(it)
  OBVIOUS
<1>8. Once(g)
  <2> HIDE DEF Once
  <2> QED
    BY <1>6, <1>7
<1>9. Folds(S, pick, r0, step, B, g)
  <2>1. ASSUME NEW T \in SUBSET S, T # {}, g[T \ {pick[T]}] \in B
        PROVE  g[T] = step[pick[T]][g[T \ {pick[T]}]]
    <3>1. g[T] = GiveTo(g[T \ {pick[T]}], q[pick[T]])
      BY <1>3, <1>8, <2>1
    <3> QED
      BY <1>3, <1>4, <2>1, <3>1
  <2>2. g[{}] = r0
    BY <1>8
  <2> QED
    BY <2>1, <2>2 DEF Folds
<1> HIDE DEF Once
<1>10. g[S] \in B
  BY <1>2, <1>9, FoldStays
<1> QED
  BY <1>1, <1>7, <1>10 DEF B

\* The gifts of an NPC are kinds.
LEMMA GivenKindsAfter ==
  ASSUME NEW a, NEW G, NEW E, NEW F \in SUBSET Slots, \A s \in F : KindOf(a, s) # 0,
         NEW b \in After(a, G, E, F, {}), NEW ks \in Seq(Kinds)
  PROVE  GivenKinds(b, ks) \in After(a, G, E, F, {})
<1>1. PICK q : q = [i \in DOMAIN ks |-> NewItem(ks[i], 1)]
  OBVIOUS
<1>2. PICK n \in Nat : DOMAIN ks = 1..n /\ \A i \in 1..n : ks[i] \in Kinds
  <2>1. Len(ks) \in Nat /\ DOMAIN ks = 1..Len(ks) /\ \A i \in 1..Len(ks) : ks[i] \in Kinds
    OBVIOUS
  <2> QED
    BY <2>1
<1>3. \A i \in 1..n : q[i] \in Offers
  <2> SUFFICES ASSUME NEW i \in 1..n PROVE q[i] \in Offers
    OBVIOUS
  <2>1. q[i] = NewItem(ks[i], 1) /\ ks[i] \in Kinds
    BY <1>1, <1>2
  <2> QED
    BY <2>1, NewItemOffered
<1>4. DOMAIN q = 1..n
  BY <1>1, <1>2
<1>5. Given(b, q) \in After(a, G, E, F, {})
  BY <1>3, <1>4, GivenAfter
<1> QED
  BY <1>1, <1>5 DEF GivenKinds

\* How the character is seen after the form in s, when it was seen as m before.
SeenBy(s, m, last, bar) == s \notin last /\ ~(m /\ bar)
SeenPick == [T \in SUBSET Nat |-> Greatest(T)]
SeenStep(last, bar) == [s \in Nat |-> [m \in BOOLEAN |-> SeenBy(s, m, last, bar)]]
Seeing(S, seen, last, bar, g) ==
  /\ Folds(S, SeenPick, seen, SeenStep(last, bar), BOOLEAN, g)
  /\ SeenAs(S, seen, last, bar) = g[S]

\* The forms are passed from the first slot to the last.
LEMMA SeenAsFolds ==
  ASSUME NEW S, IsFiniteSet(S), S \subseteq Nat, NEW seen \in BOOLEAN, NEW last, NEW bar
  PROVE  /\ Foldable(S, SeenPick, seen, SeenStep(last, bar), BOOLEAN)
         /\ \E g : Seeing(S, seen, last, bar, g)
<1> DEFINE B == BOOLEAN
           pick == SeenPick
           step == SeenStep(last, bar)
           Once(it) == it = [T \in SUBSET S |->
                               IF T = {} THEN seen
                               ELSE SeenBy(Greatest(T), it[T \ {Greatest(T)}], last, bar)]
<1>1. SeenAs(S, seen, last, bar) = (CHOOSE it : Once(it))[S]
  BY DEF SeenAs, MapThenFoldSet, Greatest, SeenBy
<1>2. Foldable(S, pick, seen, step, B)
  <2>1. \A s \in S, x \in B : SeenBy(s, x, last, bar) \in B
    <3>1. ASSUME NEW s \in S, NEW x \in B PROVE SeenBy(s, x, last, bar) \in B
      BY DEF SeenBy
    <3> QED
      BY <3>1
  <2>2. \A T \in (SUBSET S) \ {{}} : pick[T] \in T
    <3> SUFFICES ASSUME NEW T \in (SUBSET S) \ {{}} PROVE pick[T] \in T
      OBVIOUS
    <3>1. IsFiniteSet(T) /\ T \subseteq Nat
      BY FS_Subset
    <3>2. pick[T] = Greatest(T)
      BY <3>1 DEF SeenPick
    <3> QED
      BY <3>1, <3>2, MaxIn DEF Greatest
  <2>3. IsFiniteSet(S) /\ seen \in B
    OBVIOUS
  <2>4. \A s \in S : step[s] \in [B -> B]
    <3> SUFFICES ASSUME NEW s \in S PROVE step[s] \in [B -> B]
      OBVIOUS
    <3>1. step[s] = [x \in B |-> SeenBy(s, x, last, bar)]
      BY DEF SeenStep
    <3>2. \A x \in B : SeenBy(s, x, last, bar) \in B
      BY <2>1
    <3> HIDE DEF B, step
    <3> QED
      BY <3>1, <3>2
  <2> HIDE DEF B, pick, step
  <2> QED
    BY <2>2, <2>3, <2>4 DEF Foldable
<1>3. \A T \in (SUBSET S) \ {{}} : pick[T] = Greatest(T) /\ pick[T] \in T
  BY <1>2 DEF Foldable, SeenPick
<1>4. \A s \in S, x \in B : step[s][x] = SeenBy(s, x, last, bar)
  BY DEF SeenStep
<1> HIDE DEF B, pick, step
<1>5. PICK f \in [SUBSET S -> B] : Folds(S, pick, seen, step, B, f)
  <2>1. FoldsIn(S, pick, seen, step, B) # {}
    BY <1>2, FoldExists
  <2> QED
    BY <2>1 DEF FoldsIn
<1>6. Once(f)
  <2>1. ASSUME NEW T \in SUBSET S, T # {}
        PROVE  f[T] = SeenBy(Greatest(T), f[T \ {Greatest(T)}], last, bar)
    <3>1. f[T \ {pick[T]}] \in B
      BY <1>5
    <3>2. f[T] = step[pick[T]][f[T \ {pick[T]}]]
      BY <1>5, <2>1, <3>1 DEF Folds
    <3>3. f[T] = SeenBy(pick[T], f[T \ {pick[T]}], last, bar)
      BY <1>3, <1>4, <2>1, <3>1, <3>2
    <3> QED
      BY <1>3, <2>1, <3>3
  <2>2. f[{}] = seen
    BY <1>5 DEF Folds
  <2> QED
    BY <1>5, <2>1, <2>2
<1>7. PICK g : g = CHOOSE it : Once(it)
  OBVIOUS
<1>8. Once(g)
  <2> HIDE DEF Once
  <2> QED
    BY <1>6, <1>7
<1>9. Folds(S, pick, seen, step, B, g)
  <2>1. ASSUME NEW T \in SUBSET S, T # {}, g[T \ {pick[T]}] \in B
        PROVE  g[T] = step[pick[T]][g[T \ {pick[T]}]]
    <3>1. g[T] = SeenBy(pick[T], g[T \ {pick[T]}], last, bar)
      BY <1>3, <1>8, <2>1
    <3> QED
      BY <1>3, <1>4, <2>1, <3>1
  <2>2. g[{}] = seen
    BY <1>8
  <2> QED
    BY <2>1, <2>2 DEF Folds
<1> HIDE DEF Once
<1> QED
  BY <1>1, <1>2, <1>7, <1>9 DEF B, pick, step, Seeing

\* The last of them decides, from how the character was seen before it.
LastDecides(S, seen, last, bar) ==
  S # {} => SeenAs(S, seen, last, bar)
              = SeenBy(Max(S), SeenAs(S \ {Max(S)}, seen, last, bar), last, bar)

\* How the character is seen after them follows from the last one and from how it was seen
\* before that.
LEMMA SeenAsFacts ==
  ASSUME NEW S, IsFiniteSet(S), S \subseteq Nat, NEW seen \in BOOLEAN, NEW last, NEW bar
  PROVE  /\ SeenAs(S, seen, last, bar) \in BOOLEAN
         /\ S = {} => SeenAs(S, seen, last, bar) = seen
         /\ LastDecides(S, seen, last, bar)
<1>0. PICK step : step = SeenStep(last, bar)
  OBVIOUS
<1>1. Foldable(S, SeenPick, seen, step, BOOLEAN)
  BY <1>0, SeenAsFolds
<1>a. PICK g : Seeing(S, seen, last, bar, g)
  BY SeenAsFolds
<1>2. Folds(S, SeenPick, seen, step, BOOLEAN, g) /\ SeenAs(S, seen, last, bar) = g[S]
  BY <1>0, <1>a DEF Seeing
<1>3. \A T \in SUBSET S : g[T] \in BOOLEAN
  BY <1>1, <1>2, FoldStays
<1>4. ASSUME S # {}
      PROVE  g[S] = SeenBy(Max(S), SeenAs(S \ {Max(S)}, seen, last, bar), last, bar)
  <2>1. PICK m : m = Max(S)
    OBVIOUS
  <2>2. m \in S /\ m \in Nat
    BY <1>4, <2>1, MaxIn
  <2>3. PICK T : T = S \ {m}
    OBVIOUS
  <2>4. T \in SUBSET S /\ IsFiniteSet(T) /\ T \subseteq Nat
    BY <2>3, FS_Subset
  <2>a. PICK h : Seeing(T, seen, last, bar, h)
    BY <2>4, SeenAsFolds
  <2>5. Folds(T, SeenPick, seen, step, BOOLEAN, h) /\ SeenAs(T, seen, last, bar) = h[T]
    BY <1>0, <2>a DEF Seeing
  <2>6. Foldable(T, SeenPick, seen, step, BOOLEAN) /\ Folds(T, SeenPick, seen, step, BOOLEAN, g)
    BY <1>1, <1>2, <2>4, FoldsPart
  <2>7. g[T] = h[T]
    <3>1. \A V \in SUBSET T : g[V] = h[V]
      BY <2>5, <2>6, FoldsAgree
    <3> QED
      BY <3>1
  <2>8. SeenPick[S] = m
    BY <2>1 DEF SeenPick, Greatest
  <2>9. g[T] \in BOOLEAN
    BY <1>3, <2>4
  <2>10. g[S] = step[m][g[T]]
    BY <1>2, <1>4, <2>3, <2>8, <2>9 DEF Folds
  <2>11. step[m][g[T]] = SeenBy(m, g[T], last, bar)
    BY <1>0, <2>2, <2>9 DEF SeenStep
  <2> QED
    BY <2>1, <2>3, <2>5, <2>7, <2>10, <2>11
<1>5. S = {} => g[S] = seen
  BY <1>2 DEF Folds
<1> QED
  BY <1>2, <1>3, <1>4, <1>5 DEF LastDecides

-----------------------------------------------------------------------------
(* What holds of the character between the handlers *)

WornForm(b) == b.morphed => \E s \in Slots : IsForm(b, s)
Kept(b) ==
  /\ b \in Characters /\ b \in Holdings(0..MaxGold) /\ ~b.stuck
  /\ OnInBag(b) /\ RowsKept(b, {}) /\ WornForm(b)

\* Whose uses have begun, in the slots S, are there, in the bag.
InHand(b, S) ==
  \A s \in S : s \in Bag /\ TypeAt(b, s) \in {"timed", "eyeball"} /\ b.slot[s].qty >= 1

Single(b) ==
  \A s, t \in Slots :
    b.slot[s].on /\ b.slot[t].on /\ KindOf(b, s) = KindOf(b, t) =>
      s = t \/ KindOf(b, s) \in Exempt

\* Of a kind that may be in use once, one is switched on whose kind is marked, if any other
\* was.
Guarded(b, S) ==
  \A s \in S : KindOf(b, s) \notin Exempt =>
    /\ ~b.slot[s].on
    /\ \A t \in Slots : b.slot[t].on /\ KindOf(b, t) = KindOf(b, s) => KindOf(b, s) \in b.marks

Sound(b, S, m) == Kept(b) /\ InHand(b, S) /\ (~m => Single(b) /\ Guarded(b, S))

\* A handler has run: Runs and RunsLocked.
Ended(b, y) ==
  /\ Fits(b)
  /\ y \in {[b EXCEPT !.stuck = FALSE], [b EXCEPT !.stuck = FALSE, !.held = @ \/ b.stuck]}

\* Runs and RunsLocked end a handler.
LEMMA RunsEnds ==
  ASSUME NEW b
  PROVE  (Runs(b) => Ended(b, c')) /\ (RunsLocked(b) => Ended(b, c'))
  BY DEF Runs, RunsLocked, Ended

\* What fits is a character.
LEMMA FitsCharacter ==
  ASSUME NEW G, NEW b \in Holdings(G), Fits(b)
  PROVE  b \in Characters /\ b \in Holdings(0..MaxGold)
<1>1. b.gold \in 0..MaxGold
  BY DEF Fits
<1>2. b \in Holdings(0..MaxGold)
  BY <1>1 DEF Holdings
<1>3. \A i \in FitItems : i.qty <= MaxQty => i \in SlotRecs
  <2> SUFFICES ASSUME NEW i \in FitItems, i.qty <= MaxQty PROVE i \in SlotRecs
    OBVIOUS
  <2>1. i \in ItemRecs(Nat) /\ i.qty \in 0..MaxQty
    BY GoodsFacts, ItemFields DEF FitItems
  <2> QED
    BY <2>1 DEF SlotRecs, ItemRecs
<1>4. b.slot \in [Slots -> SlotRecs]
  <2>1. \A s \in Slots : b.slot[s] \in FitItems /\ b.slot[s].qty <= MaxQty
    BY DEF Holdings, Fits
  <2>2. \A s \in Slots : b.slot[s] \in SlotRecs
    BY <1>3, <2>1
  <2> QED
    BY <2>2 DEF Holdings
<1>5. b.row \in [Slots -> SlotRecs \cup {None}]
  <2>1. \A s \in Slots : b.row[s] # None => b.row[s] \in FitItems /\ b.row[s].qty <= MaxQty
    BY DEF Holdings, Fits, FitRows
  <2>2. \A s \in Slots : b.row[s] \in SlotRecs \cup {None}
    BY <1>3, <2>1
  <2> QED
    BY <2>2 DEF Holdings
<1>6. b.buffs \subseteq Buffs
  BY DEF Holdings, Spirits
<1> QED
  BY <1>1, <1>2, <1>4, <1>5, <1>6 DEF Holdings, Characters

\* What a handler leaves is as sound as what it began with.
LEMMA RunsSound ==
  ASSUME NEW a, NEW G, NEW S \in SUBSET Slots, NEW m, WornForm(a), InHand(a, S),
         ~m => Single(a) /\ Guarded(a, S),
         NEW b \in After(a, G, {}, S, {}), NEW y, Ended(b, y)
  PROVE  Sound(y, S, m)
<1>0. b \in Holdings(G) /\ OnInBag(b) /\ RowsKept(b, {}) /\ Tame(a, b, S, {})
      /\ a.slot \in [Slots -> FitItems]
  BY AfterFacts
<1>1. b \in Characters /\ b \in Holdings(0..MaxGold)
  BY <1>0, FitsCharacter DEF Ended
<1>2. PICK h \in BOOLEAN : y = [b EXCEPT !.stuck = FALSE, !.held = h]
  <2>1. b.held \in BOOLEAN /\ b.stuck \in BOOLEAN
    BY AfterFacts
  <2>2. [b EXCEPT !.stuck = FALSE] = [b EXCEPT !.stuck = FALSE, !.held = b.held]
    BY <1>0 DEF Holdings
  <2>3. (b.held \/ b.stuck) \in BOOLEAN
    BY <2>1
  <2>4. y = [b EXCEPT !.stuck = FALSE, !.held = b.held]
        \/ y = [b EXCEPT !.stuck = FALSE, !.held = (b.held \/ b.stuck)]
    BY <1>0, <2>2 DEF Ended, Holdings
  <2> QED
    BY <2>1, <2>3, <2>4
<1>3. y \in Characters /\ y \in Holdings(0..MaxGold)
  BY <1>1, <1>2 DEF Holdings, Characters
<1>4. /\ y.slot = b.slot /\ y.row = b.row /\ y.marks = b.marks /\ y.morphed = b.morphed
      /\ y.behind = b.behind /\ y.stuck = FALSE
  BY <1>0, <1>2 DEF Holdings
<1>5. OnInBag(y) /\ RowsKept(y, {}) /\ Tame(a, y, S, {})
  <2>1. OnInBag(y)
    BY <1>0, <1>4 DEF OnInBag
  <2>2. RowsKept(y, {})
    BY <1>0, <1>4 DEF RowsKept, Follows
  <2>3. Tame(a, y, S, {})
    BY <1>0, <1>4 DEF Tame, IsForm, TypeAt, KindOf
  <2> QED
    BY <2>1, <2>2, <2>3
<1>6. WornForm(y)
  BY <1>5 DEF WornForm, Tame
<1>7. Kept(y)
  BY <1>3, <1>4, <1>5, <1>6 DEF Kept
<1>8. InHand(y, S)
  <2> SUFFICES ASSUME NEW s \in S
               PROVE  /\ s \in Bag /\ TypeAt(y, s) \in {"timed", "eyeball"}
                      /\ y.slot[s].qty >= 1
    BY DEF InHand
  <2>1. /\ s \in Bag /\ TypeAt(a, s) \in {"timed", "eyeball"} /\ a.slot[s].qty >= 1
    BY DEF InHand
  <2>2. KindOf(y, s) = KindOf(a, s) /\ y.slot[s].qty >= a.slot[s].qty
    BY <1>5 DEF Tame
  <2>3. y.slot[s].qty \in Nat /\ a.slot[s].qty \in Nat
    BY <1>0, <1>3, ItemFields DEF Holdings
  <2> QED
    BY <2>1, <2>2, <2>3 DEF TypeAt
<1>9. ASSUME ~m PROVE Single(y) /\ Guarded(y, S)
  <2>1. Single(a) /\ Guarded(a, S)
    BY <1>9
  <2>2. \A s \in Slots : y.slot[s].on => a.slot[s].on /\ KindOf(y, s) = KindOf(a, s)
    BY <1>5 DEF Tame
  <2>3. Single(y)
    BY <2>1, <2>2 DEF Single
  <2>4. Guarded(y, S)
    <3> SUFFICES ASSUME NEW s \in S, KindOf(y, s) \notin Exempt
                 PROVE  /\ ~y.slot[s].on
                        /\ \A t \in Slots : y.slot[t].on /\ KindOf(y, t) = KindOf(y, s) =>
                             KindOf(y, s) \in y.marks
      BY DEF Guarded
    <3>1. KindOf(y, s) = KindOf(a, s) /\ KindOf(y, s) # 0 /\ Type[KindOf(a, s)] \in Switched
      BY <1>5 DEF Tame, InHand, TypeAt, Switched
    <3>2. ~a.slot[s].on /\ \A t \in Slots : a.slot[t].on /\ KindOf(a, t) = KindOf(a, s) =>
                             KindOf(a, s) \in a.marks
      BY <2>1, <3>1 DEF Guarded
    <3>3. KindOf(a, s) \in a.marks => KindOf(a, s) \in y.marks
      BY <1>5, <3>1 DEF Tame
    <3> QED
      BY <2>2, <3>1, <3>2, <3>3
  <2> QED
    BY <2>3, <2>4
<1> QED
  BY <1>7, <1>8, <1>9 DEF Sound

\* A handler begins with what is there.
LEMMA StartAfter ==
  ASSUME NEW b, Kept(b), NEW E, NEW F \in SUBSET Slots, NEW D \in SUBSET Slots,
         \A s \in D : TypeAt(b, s) \notin Switched
  PROVE  b \in After(b, 0..MaxGold, E, F, D)
<1>1. b \in Holdings(0..MaxGold) /\ OnInBag(b) /\ RowsKept(b, E)
  BY DEF Kept, RowsKept
<1>2. \A s \in Slots : b.slot[s].qty \in Nat
  BY <1>1, ItemFields DEF Holdings
<1>3. Tame(b, b, F, D)
  BY <1>2 DEF Tame
<1> QED
  BY <1>1, <1>3 DEF After, Holdings

\* And with what a buff has changed.
LEMMA BuffsAfter ==
  ASSUME NEW a, NEW G, NEW E, NEW F, NEW D, NEW b \in After(a, G, E, F, D), NEW X \in Spirits
  PROVE  [b EXCEPT !.buffs = X] \in After(a, G, E, F, D)
<1>1. PICK y : y = [b EXCEPT !.buffs = X]
  OBVIOUS
<1>2. b \in Holdings(G)
  BY AfterFacts
<1>3. y \in Holdings(G)
  BY <1>1, <1>2 DEF Holdings
<1>4. /\ y.slot = b.slot /\ y.row = b.row /\ y.marks = b.marks /\ y.morphed = b.morphed
      /\ y.behind = b.behind
  BY <1>1, <1>2 DEF Holdings
<1>5. OnInBag(y) /\ RowsKept(y, E)
  BY <1>4 DEF After, OnInBag, RowsKept, Follows, Savable
<1>6. Tame(a, b, F, D)
  BY AfterFacts
<1>7. Tame(a, y, F, D)
  BY <1>4, <1>6 DEF Tame, IsForm, TypeAt, KindOf
<1> QED
  BY <1>1, <1>3, <1>5, <1>7, AfterFacts DEF After

-----------------------------------------------------------------------------
(* Using things up *)

\* Slots whose use has begun hold something that can be switched.
LEMMA HandFacts ==
  ASSUME NEW b, NEW S, InHand(b, S)
  PROVE  /\ S \in SUBSET Slots
         /\ \A s \in S : /\ s \in Bag /\ KindOf(b, s) # 0 /\ b.slot[s].qty >= 1
                         /\ TypeAt(b, s) = Type[KindOf(b, s)] /\ TypeAt(b, s) \in Switched
                         /\ TypeAt(b, s) \in {"timed", "eyeball"}
<1>1. \A s \in S : s \in Bag /\ TypeAt(b, s) \in {"timed", "eyeball"} /\ b.slot[s].qty >= 1
  BY DEF InHand
<1>2. \A s \in S : KindOf(b, s) # 0
  BY <1>1 DEF TypeAt
<1> QED
  BY <1>1, <1>2, GoodsFacts DEF TypeAt, Switched

\* What comes after b, and ends, is as sound as b.
LEMMA Handled ==
  ASSUME NEW b, NEW S, NEW m, Sound(b, S, m),
         NEW G, NEW x \in After(b, G, {}, S, {}), NEW y, Ended(x, y)
  PROVE  Sound(y, S, m)
<1>1. Kept(b) /\ InHand(b, S) /\ (~m => Single(b) /\ Guarded(b, S)) /\ WornForm(b)
  BY DEF Sound, Kept
<1>2. S \in SUBSET Slots
  BY <1>1, HandFacts
<1> QED
  BY <1>1, <1>2, RunsSound

\* Some of what is not switched on is used up.
LEMMA UpAfter ==
  ASSUME NEW b, NEW S, NEW m, Sound(b, S, m), NEW s \in Slots, TypeAt(b, s) \notin Switched,
         NEW G, NEW x \in After(b, G, {}, S \cup {s}, {}), NEW n \in Nat
  PROVE  DecrementItem(x, s, n) \in After(b, G, {}, S, {})
<1>1. InHand(b, S)
  BY DEF Sound
<1>2. S \in SUBSET Slots /\ s \notin S
  BY <1>1, HandFacts
<1>3. KindOf(x, s) = KindOf(b, s)
  <2>1. s \in S \cup {s}
    OBVIOUS
  <2> QED
    BY <2>1, SlotFacts
<1>4. x \in After(b, G, {}, S, {})
  <2>1. S \in SUBSET (S \cup {s})
    OBVIOUS
  <2> QED
    BY <2>1, AfterLess
<1>5. TypeAt(x, s) \notin Switched
  BY <1>3 DEF TypeAt
<1> QED
  BY <1>2, <1>4, <1>5, DecrementAfter

\* A handler starts, with s in mind.
LEMMA StartsUp ==
  ASSUME NEW b, NEW S, NEW m, Sound(b, S, m), NEW s \in Slots
  PROVE  /\ b \in After(b, 0..MaxGold, {}, S \cup {s}, {}) /\ b \in After(b, 0..MaxGold, {}, S, {})
         /\ S \cup {s} \in SUBSET Slots
         /\ KindOf(b, s) # 0 => \A t \in S \cup {s} : KindOf(b, t) # 0
<1>1. Kept(b) /\ InHand(b, S)
  BY DEF Sound
<1>2. S \in SUBSET Slots /\ \A t \in S : KindOf(b, t) # 0
  BY <1>1, HandFacts
<1>3. S \cup {s} \in SUBSET Slots
  BY <1>2
<1> QED
  BY <1>1, <1>2, <1>3, StartAfter

\* The plain case of UseConsumable: one is used up.
LEMMA UsePlainSound ==
  ASSUME Sound(c, using, met), NEW s \in Bag, UsePlain(s)
  PROVE  Sound(c', using, met)
<1>1. s \in Slots /\ TypeAt(c, s) \notin Switched /\ Runs(DecrementItem(c, s, 1))
  BY GoodsFacts DEF UsePlain, Switched
<1>2. c \in After(c, 0..MaxGold, {}, using \cup {s}, {})
  BY <1>1, StartsUp
<1>3. DecrementItem(c, s, 1) \in After(c, 0..MaxGold, {}, using, {})
  BY <1>1, <1>2, UpAfter
<1> QED
  BY <1>1, <1>3, RunsEnds, Handled

\* What is used on a pet is used up, or nothing is.
LEMMA UsePetItemSound ==
  ASSUME Sound(c, using, met), NEW s \in Bag, UsePetItem(s)
  PROVE  Sound(c', using, met)
<1>1. s \in Slots /\ TypeAt(c, s) \notin Switched
  BY GoodsFacts DEF UsePetItem, Switched
<1>2. PICK n \in Nat : Runs(DecrementItem(c, s, n))
  <2>1. \E f \in BOOLEAN : Runs(DecrementItem(c, s, IF f THEN 1 ELSE 0))
    BY DEF UsePetItem
  <2> QED
    BY <2>1
<1>3. c \in After(c, 0..MaxGold, {}, using \cup {s}, {})
  BY <1>1, StartsUp
<1>4. DecrementItem(c, s, n) \in After(c, 0..MaxGold, {}, using, {})
  BY <1>1, <1>3, UpAfter
<1> QED
  BY <1>2, <1>4, RunsEnds, Handled

\* A spirit is refused while one works, so that the two never do together.
LEMMA UseBuffItemSound ==
  ASSUME Sound(c, using, met), NEW s \in Bag, UseBuffItem(s)
  PROVE  Sound(c', using, met)
<1>1. s \in Slots /\ TypeAt(c, s) \notin Switched /\ KindOf(c, s) # 0
  BY GoodsFacts DEF UseBuffItem, Switched, TypeAt
<1>2. PICK k : k = KindOf(c, s)
  OBVIOUS
<1>3. PICK X : X = c.buffs \cup {Type[k]}
  OBVIOUS
<1>4. PICK x : x = [c EXCEPT !.buffs = X]
  OBVIOUS
<1>5. c \in Holdings(0..MaxGold) /\ c.buffs \in Spirits /\ k \in Kinds
  <2>1. c \in Holdings(0..MaxGold)
    BY DEF Sound, Kept
  <2>2. c.buffs \in Spirits /\ c.slot[s] \in FitItems
    BY <1>1, <2>1 DEF Holdings
  <2> QED
    BY <1>1, <1>2, <2>1, <2>2, ItemFields DEF KindOf
<1>6. X \in Spirits
  <2>1. Type[k] \in {"bag", "fire", "water"} /\ Opposed(k) \cap c.buffs = {}
    BY <1>1, <1>2 DEF UseBuffItem, TypeAt
  <2> QED
    BY <1>3, <1>5, <2>1 DEF Opposed, Spirits, Buffs
<1>7. x \in After(c, 0..MaxGold, {}, using \cup {s}, {})
  BY <1>1, <1>4, <1>6, StartsUp, BuffsAfter
<1>8. PICK z : /\ \E n \in Nat : Runs(DecrementItem(z, s, n))
               /\ (z = x \/ \E g \in Gives[k] : z = AddItem(x, NewItem(g, 1)))
  <2>1. \/ Runs(DecrementItem(x, s, 1))
        \/ \E g \in Gives[k], f \in BOOLEAN :
             Runs(DecrementItem(AddItem(x, NewItem(g, 1)), s, IF f THEN 1 ELSE 0))
    BY <1>2, <1>3, <1>4 DEF UseBuffItem
  <2> QED
    BY <2>1
<1>9. z \in After(c, 0..MaxGold, {}, using \cup {s}, {})
  <2>1. CASE z = x
    BY <1>7, <2>1
  <2>2. ASSUME NEW g \in Gives[k], z = AddItem(x, NewItem(g, 1))
        PROVE  z \in After(c, 0..MaxGold, {}, using \cup {s}, {})
    <3>1. g \in Kinds
      BY <1>5, UseAssumption
    <3>2. PICK i \in Offers : i = NewItem(g, 1)
      BY <3>1, NewItemOffered
    <3>3. using \cup {s} \in SUBSET Slots /\ \A t \in using \cup {s} : KindOf(c, t) # 0
      BY <1>1, StartsUp
    <3>4. AddItem(x, i) \in After(c, 0..MaxGold, {}, using \cup {s}, {})
      BY <1>7, <3>3, AddItemAfter
    <3> QED
      BY <2>2, <3>2, <3>4
  <2> QED
    BY <1>8, <2>1, <2>2
<1>10. PICK n \in Nat : Runs(DecrementItem(z, s, n))
  BY <1>8
<1>11. DecrementItem(z, s, n) \in After(c, 0..MaxGold, {}, using, {})
  BY <1>1, <1>9, UpAfter
<1> QED
  BY <1>10, <1>11, RunsEnds, Handled

\* FindItemInInventory finds the first slot of a kind.
LEMMA FoundFacts ==
  ASSUME NEW b, NEW k, FindItemInInventory(b, k) # {}
  PROVE  Min(FindItemInInventory(b, k)) \in Has(b, k) /\ Has(b, k) # {}
<1>1. Has(b, k) # {}
  BY DEF FindItemInInventory
<1>2. PICK m : m = Min(Has(b, k))
  OBVIOUS
<1>3. m \in Has(b, k) /\ m \in Nat
  BY <1>1, <1>2, HasFacts, GoodsFacts
<1>4. FindItemInInventory(b, k) = {m}
  BY <1>1, <1>2 DEF FindItemInInventory
<1>5. Min({m}) = m
  <2>1. IsFiniteSet({m}) /\ {m} \subseteq Nat /\ {m} # {}
    BY <1>3, FS_Singleton
  <2>2. Min({m}) \in {m}
    BY <2>1, MinIn
  <2> QED
    BY <2>2
<1> QED
  BY <1>1, <1>3, <1>4, <1>5

\* What comes out of a box may be put in a slot.
LEMMA RewardsOffered ==
  ASSUME NEW k \in Kinds
  PROVE  Rewards(k) \subseteq Offers
<1>1. \A q \in 1..MaxPlus : Upgraded(k, q) \in Offers
  <2> SUFFICES ASSUME NEW q \in 1..MaxPlus PROVE Upgraded(k, q) \in Offers
    OBVIOUS
  <2>1. q \in 0..MaxPlus
    BY GoodsFacts
  <2> QED
    BY <2>1, UpgradedOffered
<1>2. NewItem(k, 1) \in Offers
  BY NewItemOffered
<1> QED
  BY <1>1, <1>2 DEF Rewards

\* A fortune box: key and gold go first, then comes the reward, then goes the box.
LEMMA OpenFortuneBoxSound ==
  ASSUME Sound(c, using, met), NEW s \in Bag, OpenFortuneBox(s)
  PROVE  Sound(c', using, met)
<1>1. s \in Slots /\ TypeAt(c, s) \notin Switched /\ KindOf(c, s) # 0
  BY GoodsFacts DEF OpenFortuneBox, Switched, TypeAt
<1>2. PICK k : k = KindOf(c, s)
  OBVIOUS
<1>3. k \in Kinds
  <2>1. c \in Holdings(0..MaxGold)
    BY DEF Sound, Kept
  <2>2. c.slot[s] \in FitItems
    BY <1>1, <2>1 DEF Holdings
  <2> QED
    BY <1>1, <1>2, <2>2, ItemFields DEF KindOf
<1>4. PICK F : F = using \cup {s}
  OBVIOUS
<1>5. F \in SUBSET Slots /\ (\A t \in F : KindOf(c, t) # 0) /\ c \in After(c, 0..MaxGold, {}, F, {})
  BY <1>1, <1>4, StartsUp
<1>6. PICK opened : opened = IF Key[k] = 0 THEN c
                             ELSE DecrementItem(c, Min(FindItemInInventory(c, Key[k])), 1)
  OBVIOUS
<1>7. opened \in After(c, 0..MaxGold, {}, F, {})
  <2>1. CASE Key[k] = 0
    BY <1>5, <1>6, <2>1
  <2>2. CASE Key[k] # 0
    <3>1. FindItemInInventory(c, Key[k]) # {}
      BY <1>2, <2>2 DEF OpenFortuneBox
    <3>2. PICK m : m = Min(FindItemInInventory(c, Key[k]))
      OBVIOUS
    <3>3. m \in Slots /\ KindOf(c, m) = Key[k]
      BY <3>1, <3>2, FoundFacts, HasFacts
    <3>4. Key[k] # k /\ Type[Key[k]] \notin Switched
      BY <1>3, <2>2, UseAssumption
    <3>5. TypeAt(c, m) \notin Switched /\ m # s
      BY <1>2, <2>2, <3>3, <3>4 DEF TypeAt
    <3>6. m \notin using
      <4>1. InHand(c, using)
        BY DEF Sound
      <4> QED
        BY <3>5, <4>1, HandFacts
    <3>7. m \notin F
      BY <1>4, <3>5, <3>6
    <3>8. DecrementItem(c, m, 1) \in After(c, 0..MaxGold, {}, F, {})
      BY <1>5, <3>3, <3>5, <3>7, DecrementAfter
    <3> QED
      BY <1>6, <2>2, <3>2, <3>8
  <2> QED
    BY <2>1, <2>2
<1>8. PICK paid : paid = LootGold(opened, -Cost[k])
  OBVIOUS
<1>9. PICK H : paid \in After(c, H, {}, F, {})
  BY <1>7, <1>8, LootGoldAfter
<1>10. \/ RunsLocked(paid)
       \/ \E g \in Gives[k] : \E reward \in Rewards(g) :
            RunsLocked(DecrementItem(AddItem(paid, reward), s, 1))
  BY <1>2, <1>6, <1>8 DEF OpenFortuneBox
<1>11. CASE RunsLocked(paid)
  <2>1. using \in SUBSET F
    BY <1>4
  <2>2. paid \in After(c, H, {}, using, {})
    BY <1>9, <2>1, AfterLess
  <2> QED
    BY <1>11, <2>2, RunsEnds, Handled
<1>12. ASSUME NEW g \in Gives[k], NEW i \in Rewards(g),
              RunsLocked(DecrementItem(AddItem(paid, i), s, 1))
       PROVE  Sound(c', using, met)
  <2>1. g \in Kinds
    BY <1>3, UseAssumption
  <2>2. i \in Offers
    BY <2>1, RewardsOffered
  <2>3. PICK z : z = AddItem(paid, i)
    OBVIOUS
  <2>4. z \in After(c, H, {}, using \cup {s}, {})
    BY <1>4, <1>5, <1>9, <2>2, <2>3, AddItemAfter
  <2>5. DecrementItem(z, s, 1) \in After(c, H, {}, using, {})
    BY <1>1, <2>4, UpAfter
  <2> QED
    BY <1>12, <2>3, <2>5, RunsEnds, Handled
<1> QED
  BY <1>10, <1>11, <1>12

\* A gift box: paid for, emptied piece by piece, and used up.
LEMMA OpenGiftBoxSound ==
  ASSUME Sound(c, using, met), NEW s \in Bag, OpenGiftBox(s)
  PROVE  Sound(c', using, met)
<1>1. s \in Slots /\ TypeAt(c, s) \notin Switched /\ KindOf(c, s) # 0
  BY GoodsFacts DEF OpenGiftBox, Switched, TypeAt
<1>2. PICK k : k = KindOf(c, s)
  OBVIOUS
<1>3. k \in Kinds
  <2>1. c \in Holdings(0..MaxGold)
    BY DEF Sound, Kept
  <2>2. c.slot[s] \in FitItems
    BY <1>1, <2>1 DEF Holdings
  <2> QED
    BY <1>1, <1>2, <2>2, ItemFields DEF KindOf
<1>4. PICK F : F = using \cup {s}
  OBVIOUS
<1>5. F \in SUBSET Slots /\ (\A t \in F : KindOf(c, t) # 0) /\ c \in After(c, 0..MaxGold, {}, F, {})
  BY <1>1, <1>4, StartsUp
<1>6. PICK paid : paid = LootGold(c, -Cost[k])
  OBVIOUS
<1>7. PICK H : paid \in After(c, H, {}, F, {})
  BY <1>5, <1>6, LootGoldAfter
<1>8. \/ RunsLocked(DecrementItem(paid, s, 0))
      \/ \E f \in [Gives[k] -> UNION {Rewards(g) : g \in Gives[k]}] :
           /\ \A g \in Gives[k] : f[g] \in Rewards(g)
           /\ RunsLocked(DecrementItem(Chosen(paid, f), s, 1))
  BY <1>2, <1>6 DEF OpenGiftBox
<1>9. CASE RunsLocked(DecrementItem(paid, s, 0))
  <2>1. DecrementItem(paid, s, 0) \in After(c, H, {}, using, {})
    BY <1>1, <1>4, <1>7, UpAfter
  <2> QED
    BY <1>9, <2>1, RunsEnds, Handled
<1>10. ASSUME NEW f \in [Gives[k] -> UNION {Rewards(g) : g \in Gives[k]}],
              \A g \in Gives[k] : f[g] \in Rewards(g),
              RunsLocked(DecrementItem(Chosen(paid, f), s, 1))
       PROVE  Sound(c', using, met)
  <2>1. DOMAIN f = Gives[k] /\ Gives[k] \subseteq Kinds
    BY <1>3, UseAssumption
  <2>2. IsFiniteSet(DOMAIN f)
    BY <2>1, GoodsFacts, FS_Subset
  <2>3. \A g \in DOMAIN f : f[g] \in Offers
    BY <1>10, <2>1, RewardsOffered
  <2>4. PICK z : z = Chosen(paid, f)
    OBVIOUS
  <2>5. z \in After(c, H, {}, using \cup {s}, {})
    BY <1>4, <1>5, <1>7, <2>2, <2>3, <2>4, ChosenAfter
  <2>6. DecrementItem(z, s, 1) \in After(c, H, {}, using, {})
    BY <1>1, <2>5, UpAfter
  <2> QED
    BY <1>10, <2>4, <2>6, RunsEnds, Handled
<1> QED
  BY <1>8, <1>9, <1>10

\* Those that use up some of a slot, whose row may be gone by then.
LEMMA SpendingSound ==
  ASSUME Sound(c, using, met), NEW s \in Slots, TypeAt(c, s) \notin Switched, NEW n \in Nat,
         NEW x \in {c, DeleteRow(c, s)}, Ended(DecrementItem(x, s, n), c')
  PROVE  Sound(c', using, met)
<1>1. c \in After(c, 0..MaxGold, {}, using \cup {s}, {}) /\ using \cup {s} \in SUBSET Slots
  BY StartsUp
<1>2. DeleteRow(c, s) \in After(c, 0..MaxGold, {}, using \cup {s}, {})
  BY <1>1, DeleteRowAfter
<1>3. DecrementItem(x, s, n) \in After(c, 0..MaxGold, {}, using, {})
  BY <1>1, <1>2, UpAfter
<1> QED
  BY <1>3, Handled

\* The scrolls that undo a career, whose row goes before the item.
LEMMA UseTransformSound ==
  ASSUME Sound(c, using, met), NEW s \in Bag, UseTransform(s)
  PROVE  Sound(c', using, met)
<1>1. s \in Slots /\ TypeAt(c, s) \notin Switched
  BY GoodsFacts DEF UseTransform, Switched
<1>2. Ended(DecrementItem(DeleteRow(c, s), s, 1), c')
  BY RunsEnds DEF UseTransform
<1> QED
  BY <1>1, <1>2, SpendingSound

\* And tonics.
LEMMA UseTonicSound ==
  ASSUME Sound(c, using, met), NEW s \in Bag, UseTonic(s)
  PROVE  Sound(c', using, met)
<1>1. s \in Slots /\ TypeAt(c, s) \notin Switched
  BY GoodsFacts DEF UseTonic, Switched
<1>2. Ended(DecrementItem(DeleteRow(c, s), s, 1), c')
  BY RunsEnds DEF UseTonic
<1> QED
  BY <1>1, <1>2, SpendingSound

\* A cash card is used up.
LEMMA UseCardSound ==
  ASSUME Sound(c, using, met), NEW s \in Bag, UseCard(s)
  PROVE  Sound(c', using, met)
<1>1. s \in Slots /\ TypeAt(c, s) \notin Switched
  BY GoodsFacts DEF UseCard, Switched
<1>2. Ended(DecrementItem(c, s, 1), c')
  BY RunsEnds DEF UseCard
<1> QED
  BY <1>1, <1>2, SpendingSound

\* The faction scroll, which stays in its slot without a row.
LEMMA UseFactionScrollSound ==
  ASSUME Sound(c, using, met), NEW s \in Bag, UseFactionScroll(s)
  PROVE  Sound(c', using, met)
<1>1. s \in Slots /\ TypeAt(c, s) \notin Switched
  BY GoodsFacts DEF UseFactionScroll, Switched
<1>2. Ended(DecrementItem(DeleteRow(c, s), s, 0), c')
  BY RunsEnds DEF UseFactionScroll
<1> QED
  BY <1>1, <1>2, SpendingSound

\* A filler potion, of which any part is used.
LEMMA UseFillerPotionSound ==
  ASSUME Sound(c, using, met), NEW s \in Bag, UseFillerPotion(s)
  PROVE  Sound(c', using, met)
<1>1. s \in Slots /\ TypeAt(c, s) \notin Switched
  BY GoodsFacts DEF UseFillerPotion, Switched
<1>2. PICK n \in 0..c.slot[s].qty : Runs(DecrementItem(c, s, n))
  BY DEF UseFillerPotion
<1>3. n \in Nat
  OBVIOUS
<1>4. Ended(DecrementItem(c, s, n), c')
  BY <1>2, RunsEnds
<1> QED
  BY <1>1, <1>3, <1>4, SpendingSound

\* A book is used up when it is learned.
LEMMA LearnSound ==
  ASSUME Sound(c, using, met), NEW s \in Bag, Learn(s)
  PROVE  Sound(c', using, met)
<1>1. s \in Slots /\ TypeAt(c, s) \notin Switched
  BY GoodsFacts DEF Learn, Switched
<1>2. Ended(DecrementItem(c, s, 1), c')
  BY RunsEnds DEF Learn
<1> QED
  BY <1>1, <1>2, SpendingSound

\* FireworkHandler takes one of the first stack.
LEMMA LightFireworkSound ==
  ASSUME Sound(c, using, met), NEW s \in Bag, LightFirework(s)
  PROVE  Sound(c', using, met)
<1>1. s \in Slots /\ TypeAt(c, s) \notin Switched
  BY GoodsFacts DEF LightFirework, Switched
<1>2. Ended(DecrementItem(c, s, 1), c')
  BY RunsEnds DEF LightFirework
<1> QED
  BY <1>1, <1>2, SpendingSound

\* RemoveItemHandler and DestroyItemHandler: what is thrown away was not about to be
\* switched.
LEMMA DiscardSound ==
  ASSUME Sound(c, using, met), NEW s \in Bag, Discard(s)
  PROVE  Sound(c', using, met)
<1>1. s \in Slots /\ s \notin using /\ Runs(RemoveItem(c, s))
  BY GoodsFacts DEF Discard
<1>2. c \in After(c, 0..MaxGold, {}, using, {}) /\ using \in SUBSET Slots
  BY <1>1, StartsUp
<1>3. RemoveItem(c, s) \in After(c, 0..MaxGold, {}, using, {})
  BY <1>1, <1>2, RemoveItemAfter
<1> QED
  BY <1>1, <1>3, RunsEnds, Handled

\* A beat of the pet may take food.
LEMMA PetNextSound ==
  ASSUME Sound(c, using, met), PetNext
  PROVE  Sound(c', using, met)
<1>1. CASE c' = c
  BY <1>1
<1>2. CASE Food # {} /\ Runs(DecrementItem(c, Min(Food), 1))
  <2>1. IsFiniteSet(Food) /\ Food \subseteq Nat /\ Food \subseteq Slots
    BY GoodsFacts, FS_Subset DEF Food
  <2>2. PICK s : s = Min(Food)
    OBVIOUS
  <2>3. s \in Food /\ s \in Slots
    BY <1>2, <2>1, <2>2, MinIn
  <2>4. TypeAt(c, s) \notin Switched
    BY <2>3 DEF Food, Switched
  <2>5. Ended(DecrementItem(c, s, 1), c')
    BY <1>2, <2>2, RunsEnds
  <2> QED
    BY <2>3, <2>4, <2>5, SpendingSound
<1>3. c' = c \/ (Food # {} /\ Runs(DecrementItem(c, Min(Food), 1)))
  BY DEF PetNext, PetHandler, Arrive, SpellEnds, TogglePet, DealDamageToPet
<1> QED
  BY <1>1, <1>2, <1>3

-----------------------------------------------------------------------------
(* Switching on and off *)

\* Nothing is taken, and the slot is saved.
LEMMA NoneTaken ==
  ASSUME NEW G, NEW b \in Holdings(G), NEW s \in Slots, ~b.stuck, b.slot[s].qty >= 1
  PROVE  DecrementItem(b, s, 0) = Save(b, s)
<1>1. b.slot[s] \in FitItems /\ b.slot[s].qty \in Nat /\ b.slot[s] \in ItemRecs(Nat)
  BY ItemFields DEF Holdings, FitItems
<1>2. 0 < b.slot[s].qty /\ b.slot[s].qty - 0 = b.slot[s].qty
  BY <1>1
<1>3. PICK i : i = [b.slot[s] EXCEPT !.qty = b.slot[s].qty - 0]
  OBVIOUS
<1>4. i = b.slot[s]
  BY <1>1, <1>2, <1>3 DEF ItemRecs
<1>5. [b EXCEPT !.slot[s] = i] = b
  BY <1>4 DEF Holdings
<1> QED
  BY <1>2, <1>3, <1>5 DEF DecrementItem

\* The item in s is switched, with the marks M, by one that is then seen as a form or not.
Turned(b, s, M, w) ==
  [b EXCEPT !.slot = [b.slot EXCEPT ![s] = [b.slot[s] EXCEPT !.on = ~b.slot[s].on]],
            !.marks = M, !.morphed = w]

\* What switching changes: one slot, the marks, and how the character is seen.
Switches(x, b, s, M, w) ==
  /\ ~x.stuck /\ x.marks = M /\ x.morphed = w
  /\ \A t \in Slots : /\ KindOf(x, t) = KindOf(b, t) /\ TypeAt(x, t) = TypeAt(b, t)
                      /\ x.slot[t].qty = b.slot[t].qty
                      /\ x.slot[t].on <=> IF t = s THEN ~b.slot[s].on ELSE b.slot[t].on

\* And nothing else.
LEMMA TurnedFacts ==
  ASSUME NEW b, Kept(b), NEW s \in Bag, TypeAt(b, s) \in Switched, NEW M \in SUBSET Kinds,
         NEW w \in BOOLEAN, NEW F \in SUBSET Slots, NEW x, x = Turned(b, s, M, w)
  PROVE  x \in After(x, 0..MaxGold, {s}, F, {}) /\ Switches(x, b, s, M, w)
<1>2. PICK i : i = [b.slot[s] EXCEPT !.on = ~b.slot[s].on]
  OBVIOUS
<1>3. b \in Holdings(0..MaxGold) /\ ~b.stuck /\ OnInBag(b) /\ RowsKept(b, {}) /\ s \in Slots
  BY GoodsFacts DEF Kept
<1>4. b.slot[s] \in FitItems /\ b.slot[s].kind # 0 /\ Type[b.slot[s].kind] \in Switched
  BY <1>3 DEF Holdings, TypeAt, KindOf, Switched
<1>5. /\ i \in ItemRecs(Nat) /\ i.kind = b.slot[s].kind /\ i.qty = b.slot[s].qty
      /\ i.plus = b.slot[s].plus /\ i.codes = b.slot[s].codes /\ i.sockets = b.slot[s].sockets
      /\ i.socks = b.slot[s].socks /\ i.id = b.slot[s].id /\ i.on = ~b.slot[s].on
  <2>1. b.slot[s] \in ItemRecs(Nat)
    BY <1>4 DEF FitItems
  <2> QED
    BY <1>2, <2>1 DEF ItemRecs
<1>6. i \in FitItems
  BY <1>4, <1>5, ItemFields DEF FitItems
<1>7. x = [b EXCEPT !.slot = [b.slot EXCEPT ![s] = i], !.marks = M, !.morphed = w]
  BY <1>2 DEF Turned
<1>8. x \in Holdings(0..MaxGold)
  <2>1. [b.slot EXCEPT ![s] = i] \in [Slots -> FitItems]
    BY <1>3, <1>6 DEF Holdings
  <2> QED
    BY <1>3, <1>7, <2>1 DEF Holdings
<1>9. /\ x.slot = [b.slot EXCEPT ![s] = i] /\ x.row = b.row /\ x.marks = M /\ x.morphed = w
      /\ x.behind = b.behind /\ x.stuck = b.stuck
  BY <1>3, <1>7 DEF Holdings
<1>10. x.slot[s] = i /\ \A t \in Slots \ {s} : x.slot[t] = b.slot[t]
  BY <1>3, <1>9 DEF Holdings
<1>11. OnInBag(x)
  BY <1>3, <1>9, <1>10 DEF OnInBag
<1>12. RowsKept(x, {s})
  <2> SUFFICES ASSUME NEW t \in Slots \ x.behind
               PROVE  Follows(x, t) \/ (t \in {s} /\ Savable(x, t))
    BY DEF RowsKept
  <2>1. Follows(b, t)
    BY <1>3, <1>9 DEF RowsKept
  <2>2. CASE t = s
    <3>1. b.row[s] # None
      BY <1>4, <2>1, <2>2, GoodsFacts DEF Follows
    <3> QED
      BY <1>4, <1>5, <1>9, <1>10, <2>2, <3>1 DEF Savable
  <2>3. CASE t # s
    BY <1>9, <1>10, <2>1, <2>3 DEF Follows
  <2> QED
    BY <2>2, <2>3
<1>13. Tame(x, x, F, {})
  <2>1. \A t \in Slots : x.slot[t].qty \in Nat
    BY <1>8, ItemFields DEF Holdings
  <2> QED
    BY <2>1 DEF Tame
<1>14. x \in After(x, 0..MaxGold, {s}, F, {})
  BY <1>8, <1>11, <1>12, <1>13 DEF After, Holdings
<1>15. \A t \in Slots : /\ KindOf(x, t) = KindOf(b, t) /\ TypeAt(x, t) = TypeAt(b, t)
                        /\ x.slot[t].qty = b.slot[t].qty
                        /\ x.slot[t].on <=> IF t = s THEN ~b.slot[s].on ELSE b.slot[t].on
  BY <1>5, <1>10, ZenonT(60) DEF KindOf, TypeAt
<1> QED
  BY <1>3, <1>9, <1>14, <1>15 DEF Switches

\* When the item in s may be switched, with marks M, and be seen as w, while the uses S
\* go on: who is seen as a form will wear one, and, unless a use was met, the switched item
\* is the only one of its kind in use, and a use of its kind that goes on finds it marked.
MayTurn(b, S, s, n, m, M, w) ==
  /\ w => \E t \in Slots : TypeAt(b, t) = "form" /\ (b.slot[t].on <=> t # s)
  /\ ~m => /\ ~n
           /\ \A t \in Slots : b.slot[t].on /\ KindOf(b, t) = KindOf(b, s) =>
                                 t = s \/ KindOf(b, s) \in Exempt
           /\ \A k \in b.marks : k # KindOf(b, s) => k \in M
           /\ \A t \in S : KindOf(b, t) = KindOf(b, s) /\ KindOf(b, s) \notin Exempt =>
                             t # s /\ (~b.slot[s].on => KindOf(b, s) \in M)

\* Saved, what is switched is sound, for the uses S that go on.
LEMMA TurnedSound ==
  ASSUME NEW b, NEW T, NEW n, Sound(b, T, n), NEW S \in SUBSET T, NEW m, NEW s \in Bag,
         TypeAt(b, s) \in Switched, NEW M \in SUBSET Kinds, NEW w \in BOOLEAN,
         MayTurn(b, S, s, n, m, M, w),
         NEW y, Ended(Save(Turned(b, s, M, w), s), y)
  PROVE  Sound(y, S, m)
<1>1. Kept(b) /\ InHand(b, T) /\ (~n => Single(b) /\ Guarded(b, T))
  BY DEF Sound
<1>b. /\ w => \E t \in Slots : TypeAt(b, t) = "form" /\ (b.slot[t].on <=> t # s)
      /\ ~m => /\ ~n
               /\ \A t \in Slots : b.slot[t].on /\ KindOf(b, t) = KindOf(b, s) =>
                                     t = s \/ KindOf(b, s) \in Exempt
               /\ \A k \in b.marks : k # KindOf(b, s) => k \in M
               /\ \A t \in S : KindOf(b, t) = KindOf(b, s) /\ KindOf(b, s) \notin Exempt =>
                                 t # s /\ (~b.slot[s].on => KindOf(b, s) \in M)
  BY DEF MayTurn
<1>2. T \in SUBSET Slots /\ S \in SUBSET Slots /\ s \in Slots
  BY <1>1, HandFacts, GoodsFacts
<1>3. PICK x : x = Turned(b, s, M, w)
  OBVIOUS
<1>a. x \in After(x, 0..MaxGold, {s}, S, {}) /\ Switches(x, b, s, M, w)
  BY <1>1, <1>2, <1>3, TurnedFacts
<1>4. /\ x \in After(x, 0..MaxGold, {s}, S, {})
      /\ x.marks = M /\ x.morphed = w
      /\ \A t \in Slots : /\ KindOf(x, t) = KindOf(b, t) /\ TypeAt(x, t) = TypeAt(b, t)
                          /\ x.slot[t].qty = b.slot[t].qty
                          /\ x.slot[t].on <=> IF t = s THEN ~b.slot[s].on ELSE b.slot[t].on
  BY <1>a DEF Switches
<1>5. Save(x, s) \in After(x, 0..MaxGold, {}, S, {})
  BY <1>2, <1>4, SaveAfter
<1>6. WornForm(x)
  <2> SUFFICES ASSUME w PROVE \E t \in Slots : IsForm(x, t)
    BY <1>4 DEF WornForm
  <2>1. PICK t \in Slots : TypeAt(b, t) = "form" /\ (b.slot[t].on <=> t # s)
    BY <1>b
  <2>2. x.slot[t].on
    BY <1>4, <2>1
  <2> QED
    BY <1>4, <2>1, <2>2 DEF IsForm
<1>7. InHand(x, S)
  BY <1>1, <1>2, <1>4 DEF InHand
<1>8. ASSUME ~m PROVE Single(x) /\ Guarded(x, S)
  <2>1. Single(b) /\ Guarded(b, T)
    BY <1>1, <1>8, <1>b
  <2>2. \A t \in Slots : b.slot[t].on /\ KindOf(b, t) = KindOf(b, s) =>
                           t = s \/ KindOf(b, s) \in Exempt
    BY <1>8, <1>b
  <2>3. Single(x)
    BY <1>4, <2>1, <2>2 DEF Single
  <2>4. ASSUME NEW t \in S, KindOf(b, t) \notin Exempt
        PROVE  /\ ~x.slot[t].on
               /\ \A u \in Slots : x.slot[u].on /\ KindOf(x, u) = KindOf(x, t) =>
                                     KindOf(x, t) \in x.marks
    <3>1. /\ t \in Slots /\ ~b.slot[t].on
          /\ \A u \in Slots : b.slot[u].on /\ KindOf(b, u) = KindOf(b, t) =>
                                KindOf(b, t) \in b.marks
      BY <1>2, <2>1, <2>4 DEF Guarded
    <3>2. CASE KindOf(b, t) = KindOf(b, s)
      <4>1. t # s /\ (~b.slot[s].on => KindOf(b, s) \in M)
        BY <1>8, <1>b, <2>4, <3>2
      <4>2. b.slot[s].on => \A u \in Slots : b.slot[u].on /\ KindOf(b, u) = KindOf(b, s) => u = s
        BY <2>2, <2>4, <3>2
      <4>3. ~x.slot[t].on
        BY <1>4, <3>1, <4>1
      <4>4. ASSUME NEW u \in Slots, x.slot[u].on, KindOf(x, u) = KindOf(x, t)
            PROVE  KindOf(x, t) \in x.marks
        <5>1. KindOf(b, u) = KindOf(b, s)
          BY <1>2, <1>4, <3>1, <3>2, <4>4
        <5>2. CASE u = s
          BY <1>2, <1>4, <3>1, <3>2, <4>1, <4>4, <5>2
        <5>3. CASE u # s
          <6>1. b.slot[u].on
            BY <1>4, <4>4, <5>3
          <6>2. ~b.slot[s].on
            BY <4>2, <5>1, <5>3, <6>1
          <6> QED
            BY <1>4, <3>1, <3>2, <4>1, <6>2
        <5> QED
          BY <5>2, <5>3
      <4> QED
        BY <4>3, <4>4
    <3>3. CASE KindOf(b, t) # KindOf(b, s)
      <4>1. \A k \in b.marks : k # KindOf(b, s) => k \in x.marks
        BY <1>4, <1>8, <1>b
      <4>2. t # s
        BY <3>3
      <4>3. \A u \in Slots : KindOf(x, u) = KindOf(x, t) => u # s /\ KindOf(b, u) = KindOf(b, t)
        BY <1>2, <1>4, <3>1, <3>3
      <4> QED
        BY <1>4, <3>1, <3>3, <4>1, <4>2, <4>3
    <3> QED
      BY <3>2, <3>3
  <2>5. Guarded(x, S)
    BY <1>2, <1>4, <2>4 DEF Guarded
  <2> QED
    BY <2>3, <2>5
<1> QED
  BY <1>2, <1>3, <1>5, <1>6, <1>7, <1>8, RunsSound

\* With other marks, and seen in another way.
Marked(d, M) == [d EXCEPT !.marks = M]
Seen(d, w) == [d EXCEPT !.morphed = w]

\* Switching, by what Toggle and the handlers make of it.
LEMMA ToggleTurned ==
  ASSUME NEW G, NEW b \in Holdings(G), NEW s \in Slots
  PROVE  /\ Toggle(b, s) = Turned(b, s, b.marks, b.morphed)
         /\ \A w : [Toggle(b, s) EXCEPT !.morphed = w] = Turned(b, s, b.marks, w)
         /\ \A M : [Toggle(b, s) EXCEPT !.marks = M] = Turned(b, s, M, b.morphed)
         /\ Toggle(b, s).slot[s].on = ~b.slot[s].on
<1>1. b.slot[s] \in ItemRecs(Nat)
  BY DEF Holdings, FitItems
<1>2. PICK i : i = [b.slot[s] EXCEPT !.on = ~b.slot[s].on]
  OBVIOUS
<1>3. PICK d : d = [b EXCEPT !.slot = [b.slot EXCEPT ![s] = i]]
  OBVIOUS
<1>4. Toggle(b, s) = d
  BY <1>2, <1>3 DEF Toggle
<1>5. i.on = ~b.slot[s].on
  BY <1>1, <1>2 DEF ItemRecs
<1>6. \A M, w : Turned(b, s, M, w) = Seen(Marked(d, M), w)
  BY <1>2, <1>3 DEF Turned, Seen, Marked
<1>7. Marked(d, b.marks) = d
  BY <1>3 DEF Holdings, Marked
<1>8. \A M : Seen(Marked(d, M), b.morphed) = Marked(d, M)
  BY <1>3 DEF Holdings, Marked, Seen
<1>9. \A w : Turned(b, s, b.marks, w) = Seen(d, w)
  BY <1>6, <1>7
<1>10. \A M : Turned(b, s, M, b.morphed) = Marked(d, M)
  BY <1>6, <1>8
<1>11. Turned(b, s, b.marks, b.morphed) = d
  BY <1>7, <1>10
<1>12. d.slot[s] = i
  BY <1>3 DEF Holdings
<1>13. \A w : [Toggle(b, s) EXCEPT !.morphed = w] = Turned(b, s, b.marks, w)
  BY <1>4, <1>9 DEF Seen
<1>14. \A M : [Toggle(b, s) EXCEPT !.marks = M] = Turned(b, s, M, b.morphed)
  BY <1>4, <1>10 DEF Marked
<1>15. Toggle(b, s).slot[s].on = ~b.slot[s].on
  BY <1>4, <1>5, <1>12
<1> QED
  BY <1>4, <1>11, <1>13, <1>14, <1>15

\* What is taken off the switched item, as none, is its saving.
LEMMA TurnedSaved ==
  ASSUME NEW b, Kept(b), NEW s \in Bag, TypeAt(b, s) \in Switched, b.slot[s].qty >= 1,
         NEW M \in SUBSET Kinds, NEW w \in BOOLEAN
  PROVE  DecrementItem(Turned(b, s, M, w), s, 0) = Save(Turned(b, s, M, w), s)
<1>1. PICK x : x = Turned(b, s, M, w)
  OBVIOUS
<1>2. s \in Slots /\ {} \in SUBSET Slots
  BY GoodsFacts
<1>a. x \in After(x, 0..MaxGold, {s}, {}, {}) /\ Switches(x, b, s, M, w)
  BY <1>1, <1>2, TurnedFacts
<1>3. x \in After(x, 0..MaxGold, {s}, {}, {}) /\ ~x.stuck /\ x.slot[s].qty = b.slot[s].qty
  BY <1>2, <1>a DEF Switches
<1>4. x \in Holdings(0..MaxGold)
  BY <1>3 DEF After
<1>5. DecrementItem(x, s, 0) = Save(x, s)
  BY <1>2, <1>3, <1>4, NoneTaken
<1> QED
  BY <1>1, <1>5

\* When the marks may become M while the uses T go on: what is marked and of a kind of
\* theirs stays so, unless a use was met.
MayMark(b, T, m, n, M) ==
  ~n => ~m /\ \A t \in T : KindOf(b, t) \in b.marks => KindOf(b, t) \in M

\* Fewer uses, other marks, as long as what is begun stays guarded, and the mutex.
LEMMA MarkedSound ==
  ASSUME NEW b, NEW S, NEW m, Sound(b, S, m), NEW T \in SUBSET S, NEW n,
         NEW M \in SUBSET Kinds, NEW j \in BOOLEAN, MayMark(b, T, m, n, M),
         NEW y, y = [b EXCEPT !.marks = M, !.jam = j]
  PROVE  Sound(y, T, n)
<1>1. Kept(b) /\ InHand(b, S) /\ (~m => Single(b) /\ Guarded(b, S))
  BY DEF Sound
<1>a. ~n => ~m /\ \A t \in T : KindOf(b, t) \in b.marks => KindOf(b, t) \in M
  BY DEF MayMark
<1>2. b \in Holdings(0..MaxGold) /\ b \in Characters
  BY <1>1 DEF Kept
<1>3. /\ y.slot = b.slot /\ y.row = b.row /\ y.marks = M /\ y.morphed = b.morphed
      /\ y.behind = b.behind /\ y.stuck = b.stuck
  BY <1>2 DEF Holdings
<1>4. y \in Holdings(0..MaxGold)
  BY <1>2 DEF Holdings
<1>5. y \in Characters
  BY <1>2 DEF Characters
<1>6. Kept(y)
  <2>1. OnInBag(y)
    BY <1>1, <1>3 DEF Kept, OnInBag
  <2>2. RowsKept(y, {})
    BY <1>1, <1>3 DEF Kept, RowsKept, Follows
  <2>3. WornForm(y)
    BY <1>1, <1>3 DEF Kept, WornForm, IsForm, TypeAt, KindOf
  <2> QED
    BY <1>1, <1>3, <1>4, <1>5, <2>1, <2>2, <2>3 DEF Kept
<1>7. InHand(y, T)
  BY <1>1, <1>3 DEF InHand, TypeAt, KindOf
<1>8. ASSUME ~n PROVE Single(y) /\ Guarded(y, T)
  <2>1. Single(y)
    BY <1>1, <1>3, <1>8, <1>a DEF Single, KindOf
  <2>2. Guarded(y, T)
    BY <1>1, <1>3, <1>8, <1>a DEF Guarded, KindOf
  <2> QED
    BY <2>1, <2>2
<1> QED
  BY <1>6, <1>7, <1>8 DEF Sound

\* A form is switched only when it agrees with how the character is seen, so that who is
\* seen as a form wears one.
LEMMA UseFormSound ==
  ASSUME Sound(c, using, met), NEW s \in Bag, UseForm(s)
  PROVE  Sound(c', using, met)
<1>1. Kept(c) /\ InHand(c, using) /\ s \in Slots /\ using \in SUBSET using
  BY GoodsFacts DEF Sound
<1>2. c \in Holdings(0..MaxGold) /\ c.marks \in SUBSET Kinds
  BY <1>1 DEF Kept, Holdings
<1>3. /\ TypeAt(c, s) = "form" /\ TypeAt(c, s) \in Switched /\ 1 <= c.slot[s].qty
      /\ ~FindItemInUsed(c, KindOf(c, s))
  BY DEF UseForm, Usable, CanDecrement, Switched
<1>4. c.slot[s].qty \in Nat /\ 0 < c.slot[s].qty /\ c.slot[s].qty >= 1 /\ c.slot[s].on \in BOOLEAN
  <2>1. c.slot[s].qty \in Nat /\ c.slot[s].on \in BOOLEAN
    BY <1>1, <1>2, ItemFields DEF Holdings
  <2> QED
    BY <1>3, <2>1
<1>5. CASE Runs(DecrementItem(c, s, 0))
  <2>1. c \in After(c, 0..MaxGold, {}, using, {}) /\ using \in SUBSET Slots
    BY <1>1, StartsUp, HandFacts
  <2>2. DecrementItem(c, s, 0) \in After(c, 0..MaxGold, {}, using, {})
    BY <1>1, <1>4, <2>1, DecrementAfter
  <2> QED
    BY <1>5, <2>2, RunsEnds, Handled
<1>6. CASE Runs(DecrementItem([Toggle(c, s) EXCEPT !.morphed = ~c.slot[s].on], s, 0))
  <2>1. PICK w : w = ~c.slot[s].on
    OBVIOUS
  <2>2. w \in BOOLEAN /\ Runs(DecrementItem(Turned(c, s, c.marks, w), s, 0))
    BY <1>1, <1>2, <1>4, <1>6, <2>1, ToggleTurned
  <2>3. Ended(Save(Turned(c, s, c.marks, w), s), c')
    BY <1>1, <1>2, <1>3, <1>4, <2>2, TurnedSaved, RunsEnds
  <2>4. w => \E t \in Slots : TypeAt(c, t) = "form" /\ (c.slot[t].on <=> t # s)
    BY <1>1, <1>3, <2>1
  <2>5. \A t \in Slots : c.slot[t].on /\ KindOf(c, t) = KindOf(c, s) =>
                           t = s \/ KindOf(c, s) \in Exempt
    BY <1>3 DEF FindItemInUsed
  <2>6. \A t \in using : KindOf(c, t) # KindOf(c, s)
    BY <1>1, <1>3 DEF InHand, TypeAt
  <2>7. MayTurn(c, using, s, met, met, c.marks, w)
    BY <1>3, <2>4, <2>5, <2>6 DEF MayTurn
  <2> QED
    BY <1>1, <1>2, <1>3, <2>2, <2>3, <2>7, TurnedSound
<1> QED
  BY <1>5, <1>6 DEF UseForm

\* A use begins only when none of its kind, if one may be, is in use.
LEMMA BeginTimedUseSound ==
  ASSUME Sound(c, using, met), NEW s \in Bag, BeginTimedUse(s)
  PROVE  Sound(c, using \cup {s}, met)
<1>1. Kept(c) /\ InHand(c, using) /\ (~met => Single(c) /\ Guarded(c, using)) /\ s \in Slots
  BY GoodsFacts DEF Sound
<1>2. /\ TypeAt(c, s) \in {"timed", "eyeball"} /\ 1 <= c.slot[s].qty
      /\ ~FindItemInUsed(c, KindOf(c, s))
  BY DEF BeginTimedUse, Usable, CanDecrement
<1>3. c.slot[s].qty >= 1
  <2>1. c.slot[s].qty \in Nat
    BY <1>1, ItemFields DEF Kept, Holdings
  <2> QED
    BY <1>2, <2>1
<1>4. InHand(c, using \cup {s})
  BY <1>1, <1>2, <1>3 DEF InHand
<1>5. KindOf(c, s) \in Exempt \/ \A t \in Slots : ~(KindOf(c, t) = KindOf(c, s) /\ c.slot[t].on)
  BY <1>2 DEF FindItemInUsed
<1>6. ~met => Guarded(c, using \cup {s})
  BY <1>1, <1>5 DEF Guarded
<1> QED
  BY <1>1, <1>4, <1>6 DEF Sound

\* And it ends by switching the item, unless one of its kind was marked meanwhile.
LEMMA EndTimedUseSound ==
  ASSUME Sound(c, using, met), NEW s \in Bag, EndTimedUse(s)
  PROVE  Sound(c', using \ {s}, met)
<1>1. Kept(c) /\ InHand(c, using) /\ (~met => Single(c) /\ Guarded(c, using)) /\ s \in Slots
  BY GoodsFacts DEF Sound
<1>2. c \in Holdings(0..MaxGold) /\ c.marks \in SUBSET Kinds /\ c.morphed \in BOOLEAN
  BY <1>1 DEF Kept, Holdings
<1>3. /\ s \in using /\ TypeAt(c, s) \in {"timed", "eyeball"} /\ TypeAt(c, s) \in Switched
      /\ c.slot[s].qty >= 1 /\ KindOf(c, s) # 0 /\ KindOf(c, s) \in Kinds
  <2>1. KindOf(c, s) \in Kinds \cup {0}
    BY <1>1, <1>2, ItemFields DEF Holdings, KindOf
  <2> QED
    BY <1>1, <2>1, HandFacts DEF EndTimedUse
<1>4. CASE c' = c \/ c' = [c EXCEPT !.jam = TRUE]
  <2>1. PICK j \in BOOLEAN : c' = [c EXCEPT !.marks = c.marks, !.jam = j]
    <3>1. c = [c EXCEPT !.marks = c.marks, !.jam = c.jam] /\ c.jam \in BOOLEAN
      BY <1>2 DEF Holdings
    <3>2. [c EXCEPT !.jam = TRUE] = [c EXCEPT !.marks = c.marks, !.jam = TRUE]
      BY <1>2 DEF Holdings
    <3> QED
      BY <1>4, <3>1, <3>2
  <2>2. using \ {s} \in SUBSET using
    OBVIOUS
  <2>3. MayMark(c, using \ {s}, met, met, c.marks)
    BY DEF MayMark
  <2> QED
    BY <1>2, <2>1, <2>2, <2>3, MarkedSound
<1> DEFINE marked == IF Toggle(c, s).slot[s].on THEN c.marks \cup {KindOf(c, s)}
                     ELSE c.marks \ {KindOf(c, s)}
<1>5. CASE /\ ~(~c.slot[s].on /\ KindOf(c, s) \in c.marks)
           /\ Runs(DecrementItem([Toggle(c, s) EXCEPT !.marks = marked], s, 0))
  <2>1. /\ marked \in SUBSET Kinds
        /\ \A k \in c.marks : k # KindOf(c, s) => k \in marked
    BY <1>2, <1>3
  <2>2. ~c.slot[s].on => KindOf(c, s) \in marked
    BY <1>1, <1>2, ToggleTurned
  <2> HIDE DEF marked
  <2>3. Runs(DecrementItem(Turned(c, s, marked, c.morphed), s, 0))
    BY <1>1, <1>2, <1>5, ToggleTurned
  <2>4. Ended(Save(Turned(c, s, marked, c.morphed), s), c')
    BY <1>1, <1>2, <1>3, <2>1, <2>3, TurnedSaved, RunsEnds
  <2>5. c.morphed => \E t \in Slots : TypeAt(c, t) = "form" /\ (c.slot[t].on <=> t # s)
    <3> SUFFICES ASSUME c.morphed
                 PROVE  \E t \in Slots : TypeAt(c, t) = "form" /\ (c.slot[t].on <=> t # s)
      OBVIOUS
    <3>1. PICK t \in Slots : c.slot[t].on /\ TypeAt(c, t) = "form"
      BY <1>1 DEF Kept, WornForm, IsForm
    <3>2. t # s
      BY <1>3, <3>1
    <3> QED
      BY <3>1, <3>2
  <2>6. ~met => \A t \in Slots : c.slot[t].on /\ KindOf(c, t) = KindOf(c, s) =>
                                   t = s \/ KindOf(c, s) \in Exempt
    BY <1>1, <1>3, <1>5 DEF Guarded
  <2>7. using \ {s} \in SUBSET using /\ \A t \in using \ {s} : t # s
    OBVIOUS
  <2>8. MayTurn(c, using \ {s}, s, met, met, marked, c.morphed)
    BY <2>1, <2>2, <2>5, <2>6, <2>7 DEF MayTurn
  <2> QED
    BY <1>2, <1>3, <2>1, <2>4, <2>7, <2>8, TurnedSound
<1> QED
  BY <1>4, <1>5 DEF EndTimedUse

\* The activation, unless it met the use of one of the kind.
LEMMA ActivateTimeLimitedSound ==
  ASSUME Sound(c, using, met), NEW s \in Bag, ActivateTimeLimited(s)
  PROVE  Sound(c', using, met \/ Beginning(KindOf(c, s)))
<1>1. Kept(c) /\ InHand(c, using) /\ s \in Slots
  BY GoodsFacts DEF Sound
<1>2. c \in Holdings(0..MaxGold) /\ c.marks \in SUBSET Kinds /\ c.morphed \in BOOLEAN
  BY <1>1 DEF Kept, Holdings
<1>3. /\ TypeAt(c, s) \in Switched /\ \A t \in Has(c, KindOf(c, s)) : ~c.slot[t].on
      /\ Runs(Save(Toggle(c, s), s))
  BY DEF ActivateTimeLimited, Switched
<1>4. \A t \in Slots : KindOf(c, t) = KindOf(c, s) => ~c.slot[t].on
  BY <1>3 DEF Has
<1>5. Ended(Save(Turned(c, s, c.marks, c.morphed), s), c')
  BY <1>1, <1>2, <1>3, ToggleTurned, RunsEnds
<1>6. c.morphed => \E t \in Slots : TypeAt(c, t) = "form" /\ (c.slot[t].on <=> t # s)
  <2> SUFFICES ASSUME c.morphed
               PROVE  \E t \in Slots : TypeAt(c, t) = "form" /\ (c.slot[t].on <=> t # s)
    OBVIOUS
  <2>1. PICK t \in Slots : c.slot[t].on /\ TypeAt(c, t) = "form"
    BY <1>1 DEF Kept, WornForm, IsForm
  <2>2. t # s
    BY <1>1, <1>4, <2>1
  <2> QED
    BY <2>1, <2>2
<1>7. PICK m : m = (met \/ Beginning(KindOf(c, s)))
  OBVIOUS
<1>8. ~m => ~met /\ \A t \in using : KindOf(c, t) # KindOf(c, s)
  BY <1>7 DEF Beginning
<1>9. using \in SUBSET using
  OBVIOUS
<1>a. MayTurn(c, using, s, met, m, c.marks, c.morphed)
  BY <1>1, <1>4, <1>6, <1>8 DEF MayTurn
<1>10. Sound(c', using, m)
  BY <1>2, <1>3, <1>5, <1>9, <1>a, TurnedSound
<1> QED
  BY <1>7, <1>10

\* The timer of an eyeball, unless it met the use of one.
LEMMA EyeballClosesSound ==
  ASSUME Sound(c, using, met), NEW s \in Bag, EyeballCloses(s)
  PROVE  Sound(c', using, met')
<1>1. Kept(c) /\ InHand(c, using) /\ s \in Slots /\ ~c.stuck /\ c \in Characters
  BY GoodsFacts DEF Sound, Kept
<1>2. PICK x : x = IF KindOf(c, s) = 0 THEN c ELSE DeleteRow(c, s)
  OBVIOUS
<1>3. c \in After(c, 0..MaxGold, {}, using, {}) /\ using \in SUBSET Slots
  BY <1>1, StartsUp, HandFacts
<1>4. x \in After(c, 0..MaxGold, {}, using, {})
  BY <1>1, <1>2, <1>3, DeleteRowAfter
<1>5. x \in Holdings(0..MaxGold)
  BY <1>4 DEF After
<1>6. x.stuck = FALSE /\ x.marks = c.marks /\ x.slot = c.slot /\ x.jam = c.jam
  BY <1>1, <1>2 DEF DeleteRow, Characters
<1>7. [x EXCEPT !.stuck = FALSE] = x
  BY <1>5, <1>6 DEF Holdings
<1>8. Fits(x)
  <2>1. c.row \in [Slots -> SlotRecs \cup {None}] /\ c.slot \in [Slots -> SlotRecs]
    BY <1>1 DEF Characters
  <2>2. \A t \in Slots : x.row[t] \in SlotRecs \cup {None}
    BY <1>1, <1>2, <2>1 DEF DeleteRow, Characters
  <2>3. x.gold \in 0..MaxGold
    BY <1>5 DEF Holdings
  <2> QED
    BY <1>6, <2>1, <2>2, <2>3, GoodsFacts DEF Fits, SlotRecs, ItemRecs
<1>9. Ended(x, x)
  BY <1>7, <1>8 DEF Ended
<1>10. Sound(x, using, met)
  BY <1>4, <1>9, Handled
<1>11. CASE c' = x /\ met' = met
  BY <1>10, <1>11
<1>12. CASE /\ c' = [x EXCEPT !.marks = {k \in x.marks : Type[k] # "eyeball"}]
            /\ met' = (met \/ \E t \in using : TypeAt(c, t) = "eyeball")
  <2>1. PICK M : M = {k \in x.marks : Type[k] # "eyeball"}
    OBVIOUS
  <2>2. M \in SUBSET Kinds /\ x.jam \in BOOLEAN
    BY <1>5, <2>1 DEF Holdings
  <2>3. c' = [x EXCEPT !.marks = M, !.jam = x.jam]
    BY <1>5, <1>12, <2>1 DEF Holdings
  <2>4. ~met' => ~met /\ \A t \in using : KindOf(x, t) \in x.marks => KindOf(x, t) \in M
    <3>1. \A t \in using : KindOf(x, t) # 0 /\ TypeAt(c, t) = Type[KindOf(x, t)]
      BY <1>1, <1>6, HandFacts DEF KindOf
    <3> QED
      BY <1>12, <2>1, <3>1
  <2>5. using \in SUBSET using
    OBVIOUS
  <2>6. MayMark(x, using, met, met', M)
    BY <2>4 DEF MayMark
  <2> QED
    BY <1>10, <2>2, <2>3, <2>5, <2>6, MarkedSound
<1> QED
  BY <1>2, <1>6, <1>11, <1>12 DEF EyeballCloses

-----------------------------------------------------------------------------
(* What a minute takes *)

\* In z the slot s has one unit less than in b, as DecrementItem leaves it.
UnitLess(b, s, z) ==
  /\ 1 < b.slot[s].qty =>
       /\ z.slot[s] = [b.slot[s] EXCEPT !.qty = b.slot[s].qty - 1]
       /\ IF ~b.slot[s].id \/ b.row[s] = None
          THEN z.row[s] = b.row[s] /\ (s \in z.behind <=> s \in b.behind)
          ELSE z.row[s] = z.slot[s] /\ s \notin z.behind
  /\ ~(1 < b.slot[s].qty) /\ b.jam =>
       /\ z.slot[s] = [b.slot[s] EXCEPT !.qty = 0]
       /\ z.row[s] = b.row[s] /\ s \in z.behind
  /\ ~(1 < b.slot[s].qty) /\ ~b.jam =>
       z.slot[s] = NewSlot /\ z.row[s] = None /\ s \notin z.behind

\* What one unit less makes of a slot.
LEMMA UnitTaken ==
  ASSUME NEW G, NEW b \in Holdings(G), NEW s \in Slots, ~b.stuck,
         NEW z, z = DecrementItem(b, s, 1)
  PROVE  UnitLess(b, s, z)
<1>1. CASE 1 < b.slot[s].qty
  <2>1. PICK i : i = [b.slot[s] EXCEPT !.qty = b.slot[s].qty - 1]
    OBVIOUS
  <2>2. PICK d : d = [b EXCEPT !.slot[s] = i]
    OBVIOUS
  <2>3. z = Save(d, s)
    BY <1>1, <2>1, <2>2 DEF DecrementItem
  <2>4. d.slot[s] = i /\ d.row = b.row /\ d.behind = b.behind
    BY <2>2 DEF Holdings
  <2>5. i.id = b.slot[s].id
    <3>1. b.slot[s] \in ItemRecs(Nat)
      BY DEF Holdings, FitItems
    <3> QED
      BY <2>1, <3>1 DEF ItemRecs
  <2>6. CASE ~b.slot[s].id \/ b.row[s] = None
    <3>1. z = d
      BY <2>3, <2>4, <2>5, <2>6 DEF Save
    <3> QED
      BY <1>1, <2>1, <2>4, <2>6, <3>1 DEF UnitLess
  <2>7. CASE ~(~b.slot[s].id \/ b.row[s] = None)
    <3>1. PICK R, B : R = [d.row EXCEPT ![s] = d.slot[s]] /\ B = d.behind \ {s}
      OBVIOUS
    <3>2. z = [d EXCEPT !.row = R, !.behind = B]
      BY <2>3, <2>4, <2>5, <2>7, <3>1 DEF Save
    <3>3. z.slot = d.slot /\ z.row = R /\ z.behind = B
      BY <2>2, <3>2 DEF Holdings
    <3>4. R[s] = d.slot[s]
      BY <2>4, <3>1 DEF Holdings
    <3> QED
      BY <1>1, <2>1, <2>4, <2>7, <3>1, <3>3, <3>4 DEF UnitLess
  <2> QED
    BY <2>6, <2>7
<1>2. CASE ~(1 < b.slot[s].qty) /\ b.jam
  <2>1. PICK L, B : L = [b.slot EXCEPT ![s] = [b.slot[s] EXCEPT !.qty = 0]] /\ B = b.behind \cup {s}
    OBVIOUS
  <2>2. z = [b EXCEPT !.slot = L, !.stuck = TRUE, !.behind = B]
    BY <1>2, <2>1 DEF DecrementItem
  <2>3. z.slot = L /\ z.row = b.row /\ z.behind = B
    BY <2>2 DEF Holdings
  <2>4. L[s] = [b.slot[s] EXCEPT !.qty = 0]
    BY <2>1 DEF Holdings
  <2> QED
    BY <1>2, <2>1, <2>3, <2>4 DEF UnitLess
<1>3. CASE ~(1 < b.slot[s].qty) /\ ~b.jam
  <2>1. PICK L, R, B : /\ L = [b.slot EXCEPT ![s] = NewSlot]
                       /\ R = [b.row EXCEPT ![s] = None] /\ B = b.behind \ {s}
    OBVIOUS
  <2>2. PICK d : d = [b EXCEPT !.slot = L, !.row = R, !.behind = B]
    OBVIOUS
  <2>3. Blanked(b, s) = d
    BY <2>1, <2>2 DEF Blanked
  <2>4. d.slot = L /\ d.row = R /\ d.behind = B
    BY <2>2 DEF Holdings
  <2>5. L[s] = NewSlot /\ R[s] = None
    BY <2>1 DEF Holdings
  <2>6. PICK M : M = d.marks \ {KindOf(b, s)}
    OBVIOUS
  <2>7. z = [d EXCEPT !.marks = M]
    BY <1>3, <2>3, <2>6 DEF DecrementItem
  <2>8. z.slot = d.slot /\ z.row = d.row /\ z.behind = d.behind
    BY <2>2, <2>7 DEF Holdings
  <2> QED
    BY <1>3, <2>1, <2>4, <2>5, <2>8 DEF UnitLess
<1> QED
  BY <1>1, <1>2, <1>3

\* The slot s of b, of which a unit was taken if d, and which was taken off if off: i, with
\* the row r, and left unsaved if h.
Ages(b, s, d, off, i, r, h) ==
  LET o == IF d THEN DecrementItem(b, s, 1) ELSE b
  IN /\ i = [o.slot[s] EXCEPT !.on = o.slot[s].on /\ ~off]
     /\ r = o.row[s]
     /\ h <=> off \/ s \in o.behind

\* What is left of it is no more than it was.
Shrinks(b, s, d, off, i, r, h) ==
  /\ i \in FitItems /\ i \in SlotRecs
  /\ r \in FitRows \cup {None} /\ r \in SlotRecs \cup {None}
  /\ i.on => b.slot[s].on /\ i.kind = b.slot[s].kind
  /\ r # None /\ r.on => s \in Bag
  /\ ~h => IF i.kind = 0 THEN r = None ELSE i.id /\ r = i
  /\ ~d \/ 1 < b.slot[s].qty \/ b.jam =>
       i.kind = b.slot[s].kind /\ (~off => (i.on <=> b.slot[s].on))
  /\ ~d => i.qty = b.slot[s].qty
  /\ 1 < b.slot[s].qty => i.qty >= 1
  /\ d /\ ~(1 < b.slot[s].qty) /\ ~b.jam => ~i.on

\* The item j with n units, and in use or not.
Another(j, n, w) == [j EXCEPT !.qty = n, !.on = w]

\* It is so for each of the cases there are: a unit less, the last one, and the last one
\* while the mutex is locked.
LEMMA AgesShrinks ==
  ASSUME NEW b, Kept(b), NEW s \in Slots, NEW d \in BOOLEAN, NEW off \in BOOLEAN,
         NEW i, NEW r, NEW h, Ages(b, s, d, off, i, r, h)
  PROVE  Shrinks(b, s, d, off, i, r, h)
<1>1. /\ b \in Holdings(0..MaxGold) /\ b \in Characters /\ ~b.stuck
      /\ OnInBag(b) /\ RowsKept(b, {})
  BY DEF Kept
<1>2. PICK j : j = b.slot[s]
  OBVIOUS
<1>3. /\ j \in FitItems /\ j \in SlotRecs /\ b.row[s] \in FitRows \cup {None}
      /\ b.row[s] \in SlotRecs \cup {None} /\ j \in ItemRecs(Nat)
  BY <1>1, <1>2 DEF Holdings, Characters, FitItems
<1>4. /\ j.kind \in Kinds \cup {0} /\ j.qty \in Nat /\ j.on \in BOOLEAN /\ j.id \in BOOLEAN
      /\ (j.on => j.kind # 0) /\ (j.id <=> j.kind # 0) /\ (j.kind = 0 => j.qty = 0)
      /\ j.qty <= MaxQty /\ MaxQty \in Nat
  <2>1. j.qty \in 0..MaxQty
    BY <1>3 DEF SlotRecs, ItemRecs
  <2> QED
    BY <1>3, <2>1, ItemFields, GoodsFacts
<1>5. (j.on => s \in Bag) /\ (b.row[s] # None /\ b.row[s].on => s \in Bag)
  BY <1>1, <1>2 DEF OnInBag
<1>6. s \notin b.behind => IF j.kind = 0 THEN b.row[s] = None ELSE j.id /\ b.row[s] = j
  BY <1>1, <1>2 DEF RowsKept, Follows
<1>a. j.qty \in 0..MaxQty /\ 0 \in 0..MaxQty
  BY <1>4
<1>7. \A n \in 0..MaxQty, w \in BOOLEAN :
        (w => j.on) /\ (j.kind = 0 => n = 0) => /\ Another(j, n, w) \in FitItems
                                                /\ Another(j, n, w) \in SlotRecs
  <2>1. SUFFICES ASSUME NEW n \in 0..MaxQty, NEW w \in BOOLEAN, w => j.on, j.kind = 0 => n = 0
                 PROVE  Another(j, n, w) \in FitItems /\ Another(j, n, w) \in SlotRecs
    OBVIOUS
  <2>2. PICK k : k = Another(j, n, w)
    OBVIOUS
  <2>3. n \in Nat
    BY <1>4
  <2>4. k \in SlotRecs /\ k \in ItemRecs(Nat)
    BY <1>3, <2>2, <2>3 DEF SlotRecs, ItemRecs, Another
  <2>5. /\ k.kind = j.kind /\ k.plus = j.plus /\ k.codes = j.codes /\ k.sockets = j.sockets
        /\ k.socks = j.socks /\ k.id = j.id /\ k.qty = n /\ (k.on <=> w)
    BY <1>3, <2>2 DEF ItemRecs, Another
  <2>6. k \in FitItems
    BY <1>3, <2>1, <2>4, <2>5 DEF FitItems
  <2> QED
    BY <2>2, <2>4, <2>6
<1>8. \A n, w : /\ Another(j, n, w).kind = j.kind /\ Another(j, n, w).qty = n
                /\ Another(j, n, w).on = w /\ Another(j, n, w).id = j.id
  BY <1>3 DEF ItemRecs, Another
<1>9. CASE ~d
  <2>1. i = [j EXCEPT !.on = j.on /\ ~off] /\ r = b.row[s] /\ (h <=> off \/ s \in b.behind)
    BY <1>2, <1>9 DEF Ages
  <2>2. PICK w \in BOOLEAN : w = (j.on /\ ~off)
    BY <1>4
  <2>3. i = Another(j, j.qty, w)
    BY <1>3, <2>1, <2>2 DEF ItemRecs, Another
  <2>4. i \in FitItems /\ i \in SlotRecs
    <3>1. w => j.on
      BY <2>2
    <3> QED
      BY <1>4, <1>7, <1>a, <2>3, <3>1
  <2>5. i.kind = j.kind /\ i.qty = j.qty /\ i.on = w /\ i.id = j.id
    BY <1>8, <2>3
  <2>6. ~off => i = j
    BY <1>3, <1>4, <2>1 DEF ItemRecs
  <2> QED
    BY <1>2, <1>3, <1>4, <1>5, <1>6, <1>9, <2>1, <2>2, <2>4, <2>5, <2>6 DEF Shrinks
<1>10. CASE d
  <2>1. PICK z : z = DecrementItem(b, s, 1)
    OBVIOUS
  <2>2. /\ i = [z.slot[s] EXCEPT !.on = z.slot[s].on /\ ~off] /\ r = z.row[s]
        /\ h <=> off \/ s \in z.behind
    BY <1>10, <2>1 DEF Ages
  <2>a. UnitLess(b, s, z)
    BY <1>1, <2>1, UnitTaken
  <2>3. CASE 1 < j.qty
    <3>1. /\ z.slot[s] = [j EXCEPT !.qty = j.qty - 1]
          /\ IF ~j.id \/ b.row[s] = None
             THEN z.row[s] = b.row[s] /\ (s \in z.behind <=> s \in b.behind)
             ELSE z.row[s] = z.slot[s] /\ s \notin z.behind
      BY <1>2, <2>a, <2>3 DEF UnitLess
    <3>2. j.qty - 1 \in 0..MaxQty /\ j.qty - 1 >= 1 /\ j.kind # 0
      BY <1>4, <2>3
    <3>3. PICK k : k = z.slot[s]
      OBVIOUS
    <3>4. PICK w \in BOOLEAN : w = (j.on /\ ~off)
      BY <1>4
    <3>5. k = Another(j, j.qty - 1, j.on)
      BY <1>3, <3>1, <3>3 DEF ItemRecs, Another
    <3>6. k \in FitItems /\ k \in SlotRecs
      BY <1>4, <1>7, <3>2, <3>5
    <3>7. k.kind = j.kind /\ k.qty = j.qty - 1 /\ k.on = j.on /\ k.id = j.id
      BY <1>8, <3>5
    <3>8. i = Another(j, j.qty - 1, w)
      <4>1. i = [k EXCEPT !.on = w]
        BY <2>2, <3>3, <3>4, <3>7
      <4> QED
        BY <1>3, <3>5, <4>1 DEF ItemRecs, Another
    <3>9. i \in FitItems /\ i \in SlotRecs
      <4>1. w => j.on
        BY <3>4
      <4> QED
        BY <1>4, <1>7, <3>2, <3>8, <4>1
    <3>10. i.kind = j.kind /\ i.qty = j.qty - 1 /\ i.on = w /\ i.id = j.id
      BY <1>8, <3>8
    <3>11. ~off => i = k
      BY <3>4, <3>5, <3>8, <1>4
    <3>12. r \in FitRows \cup {None} /\ r \in SlotRecs \cup {None} /\ (r # None /\ r.on => s \in Bag)
      BY <1>3, <1>5, <2>2, <3>1, <3>2, <3>3, <3>6, <3>7 DEF FitRows
    <3>13. ~h => IF i.kind = 0 THEN r = None ELSE i.id /\ r = i
      <4>1. CASE ~j.id \/ b.row[s] = None
        <5>1. ~h => s \notin b.behind
          BY <2>2, <3>1, <4>1
        <5>2. j.id
          BY <1>4, <3>2
        <5>3. ~h => b.row[s] = j
          BY <1>6, <3>2, <5>1
        <5> QED
          BY <1>4, <3>2, <4>1, <5>2, <5>3, GoodsFacts, <1>3 DEF SlotRecs, ItemRecs
      <4>2. CASE ~(~j.id \/ b.row[s] = None)
        <5>1. r = k /\ j.id
          BY <2>2, <3>1, <3>3, <4>2
        <5>2. ~h => ~off
          BY <2>2
        <5> QED
          BY <3>2, <3>10, <3>11, <5>1, <5>2
      <4> QED
        BY <4>1, <4>2
    <3> QED
      BY <1>2, <1>4, <1>10, <2>3, <3>2, <3>4, <3>9, <3>10, <3>12, <3>13 DEF Shrinks
  <2>4. CASE ~(1 < j.qty) /\ b.jam
    <3>1. z.slot[s] = [j EXCEPT !.qty = 0] /\ z.row[s] = b.row[s] /\ s \in z.behind
      BY <1>2, <2>a, <2>4 DEF UnitLess
    <3>2. PICK w \in BOOLEAN : w = (j.on /\ ~off)
      BY <1>4
    <3>3. i = Another(j, 0, w)
      BY <1>3, <2>2, <3>1, <3>2 DEF ItemRecs, Another
    <3>4. i \in FitItems /\ i \in SlotRecs
      <4>1. w => j.on
        BY <3>2
      <4> QED
        BY <1>4, <1>7, <1>a, <3>3, <4>1
    <3>5. i.kind = j.kind /\ i.qty = 0 /\ i.on = w /\ i.id = j.id
      BY <1>8, <3>3
    <3> QED
      BY <1>2, <1>3, <1>4, <1>5, <1>10, <2>2, <2>4, <3>1, <3>2, <3>4, <3>5 DEF Shrinks
  <2>5. CASE ~(1 < j.qty) /\ ~b.jam
    <3>1. z.slot[s] = NewSlot /\ z.row[s] = None /\ s \notin z.behind
      BY <1>2, <2>a, <2>5 DEF UnitLess
    <3>2. NewSlot.on = FALSE /\ NewSlot.kind = 0 /\ NewSlot.id = FALSE
      BY DEF NewSlot
    <3>3. i = NewSlot
      <4>1. i = [NewSlot EXCEPT !.on = FALSE]
        BY <2>2, <3>1, <3>2
      <4> QED
        BY <4>1 DEF NewSlot
    <3>4. NewSlot \in SlotRecs
      BY GoodsFacts DEF NewSlot, SlotRecs, ItemRecs
    <3> QED
      BY <1>2, <1>10, <2>2, <2>5, <3>1, <3>2, <3>3, <3>4, BlankFits DEF Shrinks
  <2> QED
    BY <2>3, <2>4, <2>5
<1> QED
  BY <1>9, <1>10

\* What a minute looks at, in HandleLimitedItems.
Lasts(b, minute) == {s \in Due(b) : minute /\ b.slot[s].qty <= 1}
Waiting(b, minute) == b.jam /\ Lasts(b, minute) # {}
Reached(b, minute) ==
  IF Waiting(b, minute) THEN {s \in Due(b) : s <= Min(Lasts(b, minute))} ELSE Due(b)
OneLess(b, minute, s) == IF minute /\ s \in Reached(b, minute) THEN DecrementItem(b, s, 1) ELSE b
Forms(b, minute) ==
  {s \in Reached(b, minute) \cap Bag :
     TypeAt(b, s) = "form" /\ ~(Waiting(b, minute) /\ s \in Lasts(b, minute))}
SeenIn(b, minute, bar, S) == SeenAs(S, b.morphed, Lasts(b, minute), bar)
Bared(b, minute, bar) ==
  {s \in Forms(b, minute) \ Lasts(b, minute) :
     bar /\ SeenIn(b, minute, bar, {t \in Forms(b, minute) : t < s})}

\* HandleLimitedItems, with its local definitions named.
LEMMA AgedIs ==
  ASSUME NEW b, NEW minute, NEW bar
  PROVE  HandleLimitedItems(b, minute, bar) =
           [b EXCEPT
             !.slot = [s \in Slots |->
                         [OneLess(b, minute, s).slot[s] EXCEPT
                            !.on = OneLess(b, minute, s).slot[s].on /\ s \notin Bared(b, minute, bar)]],
             !.row = [s \in Slots |-> OneLess(b, minute, s).row[s]],
             !.behind = Bared(b, minute, bar) \cup {s \in Slots : s \in OneLess(b, minute, s).behind},
             !.marks = IF Waiting(b, minute) THEN b.marks
                       ELSE b.marks \ {KindOf(b, s) : s \in Lasts(b, minute)},
             !.morphed = SeenIn(b, minute, bar, Forms(b, minute)),
             !.stuck = Waiting(b, minute)]
BY DEF HandleLimitedItems, Lasts, Waiting, Reached, OneLess, Forms, SeenIn, Bared

\* Due slots, and the forms among them.
LEMMA DueFacts ==
  ASSUME NEW b, NEW minute
  PROVE  /\ Forms(b, minute) \subseteq Reached(b, minute) \cap Bag
         /\ Reached(b, minute) \subseteq Due(b) /\ Lasts(b, minute) \subseteq Due(b)
         /\ Due(b) \subseteq Slots /\ Forms(b, minute) \subseteq Nat
         /\ IsFiniteSet(Forms(b, minute)) /\ \A bar : Bared(b, minute, bar) \subseteq Forms(b, minute)
<1>1. /\ Reached(b, minute) \subseteq Due(b) /\ Due(b) \subseteq Slots
      /\ Lasts(b, minute) \subseteq Due(b)
  BY DEF Reached, Due, Lasts
<1>2. Forms(b, minute) \subseteq Reached(b, minute) \cap Bag
  BY DEF Forms
<1>3. Forms(b, minute) \subseteq Slots
  BY <1>1, <1>2
<1>4. IsFiniteSet(Forms(b, minute)) /\ Forms(b, minute) \subseteq Nat
  BY <1>3, GoodsFacts, FS_Subset
<1>5. \A bar : Bared(b, minute, bar) \subseteq Forms(b, minute)
  BY DEF Bared
<1> QED
  BY <1>1, <1>2, <1>4, <1>5

\* y is what a minute, or the look at a change of map, makes of b, slot by slot.
AgedInto(b, minute, bar, y) ==
  /\ \A s \in Slots :
       Shrinks(b, s, minute /\ s \in Reached(b, minute), s \in Bared(b, minute, bar),
               y.slot[s], y.row[s], s \in y.behind)
  /\ y.marks = IF Waiting(b, minute) THEN b.marks
               ELSE b.marks \ {KindOf(b, s) : s \in Lasts(b, minute)}
  /\ y.morphed = SeenIn(b, minute, bar, Forms(b, minute))
  /\ y \in Holdings(0..MaxGold) /\ y \in Characters /\ ~y.stuck

\* Where the handler of ticks w stays as it was in b, y is x with its own handler ended.
TicksOn(b, w, x, y) == w = b.ticks => y = [x EXCEPT !.stuck = FALSE]

\* The record that HandleLimitedItems makes, slot by slot, once its handler has ended.
LEMMA AgedFacts ==
  ASSUME NEW b, Kept(b), NEW minute \in BOOLEAN, NEW bar,
         NEW x, x = HandleLimitedItems(b, minute, bar), NEW w \in BOOLEAN,
         NEW y, y = [x EXCEPT !.ticks = w, !.stuck = FALSE]
  PROVE  AgedInto(b, minute, bar, y) /\ TicksOn(b, w, x, y)
<1>1. b \in Holdings(0..MaxGold) /\ b \in Characters
  BY DEF Kept
<1> DEFINE slot == [s \in Slots |->
                      [OneLess(b, minute, s).slot[s] EXCEPT
                         !.on = OneLess(b, minute, s).slot[s].on /\ s \notin Bared(b, minute, bar)]]
           row == [s \in Slots |-> OneLess(b, minute, s).row[s]]
           behind == Bared(b, minute, bar) \cup {s \in Slots : s \in OneLess(b, minute, s).behind}
           marks == IF Waiting(b, minute) THEN b.marks
                    ELSE b.marks \ {KindOf(b, s) : s \in Lasts(b, minute)}
           seen == SeenIn(b, minute, bar, Forms(b, minute))
<1>2. x = [b EXCEPT !.slot = slot, !.row = row, !.behind = behind, !.marks = marks,
                    !.morphed = seen, !.stuck = Waiting(b, minute)]
  BY AgedIs
<1>3. \A s \in Slots :
        /\ slot[s] = [OneLess(b, minute, s).slot[s] EXCEPT
                         !.on = OneLess(b, minute, s).slot[s].on /\ s \notin Bared(b, minute, bar)]
        /\ row[s] = OneLess(b, minute, s).row[s]
        /\ s \in behind <=> s \in Bared(b, minute, bar) \/ s \in OneLess(b, minute, s).behind
  OBVIOUS
<1>4. marks \subseteq Kinds
  BY <1>1 DEF Holdings
<1>5. seen \in BOOLEAN
  <2>1. b.morphed \in BOOLEAN
    BY <1>1 DEF Holdings
  <2> QED
    BY <2>1, DueFacts, SeenAsFacts DEF SeenIn
<1>6. behind \subseteq Slots
  <2>1. Bared(b, minute, bar) \subseteq Slots
    BY DueFacts
  <2> QED
    BY <2>1
<1>7. slot = [s \in Slots |-> slot[s]] /\ row = [s \in Slots |-> row[s]]
  OBVIOUS
<1>8. marks = IF Waiting(b, minute) THEN b.marks
              ELSE b.marks \ {KindOf(b, s) : s \in Lasts(b, minute)}
  OBVIOUS
<1>9. seen = SeenIn(b, minute, bar, Forms(b, minute))
  OBVIOUS
<1> HIDE DEF slot, row, behind, marks, seen
<1>10. TicksOn(b, w, x, y)
  <2>1. [x EXCEPT !.stuck = FALSE] = [x EXCEPT !.ticks = b.ticks, !.stuck = FALSE]
    BY <1>1, <1>2 DEF Holdings
  <2> QED
    BY <2>1 DEF TicksOn
<1>11. y = [b EXCEPT !.slot = slot, !.row = row, !.behind = behind, !.marks = marks,
                     !.morphed = seen, !.ticks = w, !.stuck = FALSE]
  BY <1>1, <1>2 DEF Holdings
<1>12. /\ y.slot = slot /\ y.row = row /\ y.behind = behind /\ y.marks = marks
       /\ y.morphed = seen /\ ~y.stuck
  BY <1>1, <1>11 DEF Holdings
<1>13. ASSUME NEW s \in Slots
       PROVE  Shrinks(b, s, minute /\ s \in Reached(b, minute), s \in Bared(b, minute, bar),
                      slot[s], row[s], s \in behind)
  <2>1. PICK d \in BOOLEAN : d = (minute /\ s \in Reached(b, minute))
    OBVIOUS
  <2>2. PICK off \in BOOLEAN : off <=> s \in Bared(b, minute, bar)
    OBVIOUS
  <2>a. PICK h \in BOOLEAN : h <=> s \in behind
    OBVIOUS
  <2>3. PICK i, r : i = slot[s] /\ r = row[s]
    OBVIOUS
  <2>4. OneLess(b, minute, s) = IF d THEN DecrementItem(b, s, 1) ELSE b
    BY <2>1 DEF OneLess
  <2>5. Ages(b, s, d, off, i, r, h)
    BY <1>3, <2>2, <2>3, <2>4, <2>a DEF Ages
  <2>6. Shrinks(b, s, d, off, i, r, h)
    BY <2>5, AgesShrinks
  <2> QED
    BY <2>1, <2>2, <2>3, <2>6, <2>a DEF Shrinks
<1>14. slot \in [Slots -> FitItems] /\ row \in [Slots -> FitRows \cup {None}]
  <2>1. \A s \in Slots : slot[s] \in FitItems /\ row[s] \in FitRows \cup {None}
    BY <1>13 DEF Shrinks
  <2> QED
    BY <1>7, <2>1
<1>15. slot \in [Slots -> SlotRecs] /\ row \in [Slots -> SlotRecs \cup {None}]
  <2>1. \A s \in Slots : slot[s] \in SlotRecs /\ row[s] \in SlotRecs \cup {None}
    BY <1>13 DEF Shrinks
  <2> QED
    BY <1>7, <2>1
<1>16. y \in Holdings(0..MaxGold)
  BY <1>1, <1>4, <1>5, <1>6, <1>11, <1>14 DEF Holdings
<1>17. y \in Characters
  BY <1>1, <1>4, <1>5, <1>6, <1>11, <1>15 DEF Characters
<1>18. \A s \in Slots :
         Shrinks(b, s, minute /\ s \in Reached(b, minute), s \in Bared(b, minute, bar),
                 y.slot[s], y.row[s], s \in y.behind)
  BY <1>12, <1>13
<1> QED
  BY <1>8, <1>9, <1>10, <1>12, <1>16, <1>17, <1>18 DEF AgedInto

\* Who is seen as a form after a minute has one on: the last of those that were passed.
LEMMA AgedForm ==
  ASSUME NEW b, Kept(b), NEW minute \in BOOLEAN, NEW bar, NEW y, AgedInto(b, minute, bar, y)
  PROVE  WornForm(y)
<1> SUFFICES ASSUME y.morphed PROVE \E s \in Slots : IsForm(y, s)
  BY DEF WornForm
<1>a. /\ \A s \in Slots :
           Shrinks(b, s, minute /\ s \in Reached(b, minute), s \in Bared(b, minute, bar),
                   y.slot[s], y.row[s], s \in y.behind)
      /\ y.morphed = SeenIn(b, minute, bar, Forms(b, minute))
  BY DEF AgedInto
<1> DEFINE forms == Forms(b, minute)
<1>1. forms \subseteq Nat /\ IsFiniteSet(forms) /\ forms \subseteq Slots
  BY DueFacts
<1>2. b.morphed \in BOOLEAN
  BY DEF Kept, Holdings
<1>3. \A t \in Slots : b.slot[t].on => t \in Bag /\ KindOf(b, t) # 0
  BY ItemFields DEF Kept, Holdings, OnInBag, KindOf
<1>4. CASE forms = {}
  <2>1. b.morphed
    BY <1>1, <1>2, <1>4, <1>a, SeenAsFacts DEF SeenIn
  <2>2. PICK t \in Slots : IsForm(b, t)
    BY <2>1 DEF Kept, WornForm
  <2>3. b.slot[t].on /\ TypeAt(b, t) = "form" /\ t \in Bag /\ t \in Due(b)
    BY <1>3, <2>2 DEF IsForm, Due
  <2>4. t \notin Reached(b, minute) \/ (Waiting(b, minute) /\ t \in Lasts(b, minute))
    BY <1>4, <2>3 DEF Forms
  <2>5. t \notin Reached(b, minute) \/ b.jam
    BY <2>4 DEF Waiting
  <2>6. t \notin Bared(b, minute, bar)
    BY <1>4, DueFacts
  <2>7. y.slot[t].on /\ KindOf(y, t) = KindOf(b, t)
    BY <1>a, <2>3, <2>5, <2>6 DEF Shrinks, KindOf
  <2>8. IsForm(y, t)
    BY <2>3, <2>7 DEF IsForm, TypeAt
  <2> QED
    BY <2>8
<1>5. CASE forms # {}
  <2>1. PICK t : t = Max(forms)
    OBVIOUS
  <2>2. t \in forms /\ \A u \in forms : u <= t
    <3> HIDE DEF forms
    <3> QED
      BY <1>1, <1>5, <2>1, MaxIn
  <2>3. SeenAs(forms, b.morphed, Lasts(b, minute), bar)
          = SeenBy(t, SeenAs(forms \ {t}, b.morphed, Lasts(b, minute), bar), Lasts(b, minute), bar)
    <3> HIDE DEF forms
    <3>1. LastDecides(forms, b.morphed, Lasts(b, minute), bar)
      BY <1>1, <1>2, SeenAsFacts
    <3> QED
      BY <1>5, <2>1, <3>1 DEF LastDecides
  <2>4. y.morphed = SeenAs(forms, b.morphed, Lasts(b, minute), bar)
    BY <1>a DEF SeenIn
  <2>5. /\ t \notin Lasts(b, minute)
        /\ ~(SeenAs(forms \ {t}, b.morphed, Lasts(b, minute), bar) /\ bar)
    <3> HIDE DEF forms
    <3> QED
      BY <2>3, <2>4 DEF SeenBy
  <2>6. {u \in forms : u < t} = forms \ {t}
    <3>1. \A u \in forms : u \in Nat /\ t \in Nat /\ u <= t
      BY <1>1, <2>2
    <3>2. \A u \in forms : u < t <=> u # t
      BY <3>1
    <3> HIDE DEF forms
    <3> QED
      BY <3>2
  <2>7. t \notin Bared(b, minute, bar)
    <3> SUFFICES ASSUME t \in Bared(b, minute, bar) PROVE FALSE
      OBVIOUS
    <3>1. bar /\ SeenIn(b, minute, bar, {u \in forms : u < t})
      BY DEF Bared
    <3>2. SeenAs(forms \ {t}, b.morphed, Lasts(b, minute), bar)
      <4> HIDE DEF forms
      <4> QED
        BY <2>6, <3>1 DEF SeenIn
    <3> QED
      BY <2>5, <3>1, <3>2
  <2>8. t \in Slots /\ t \in Bag /\ t \in Due(b) /\ TypeAt(b, t) = "form"
    BY <2>2, DueFacts DEF Forms
  <2>9. b.slot[t].on
    BY <2>8, GoodsAssumption DEF Due
  <2>10. minute => 1 < b.slot[t].qty
    <3>1. b.slot[t].qty \in Nat
      BY <2>8, ItemFields DEF Kept, Holdings
    <3>2. minute => ~(b.slot[t].qty <= 1)
      BY <2>5, <2>8 DEF Lasts
    <3> QED
      BY <3>1, <3>2
  <2>11. y.slot[t].on /\ KindOf(y, t) = KindOf(b, t)
    BY <1>a, <2>7, <2>8, <2>9, <2>10 DEF Shrinks, KindOf
  <2>12. IsForm(y, t)
    BY <2>8, <2>11 DEF IsForm, TypeAt
  <2> QED
    BY <2>8, <2>12
<1> QED
  BY <1>4, <1>5

\* When a minute may pass while the uses S go on: it takes none of theirs, and the marks it
\* takes with what is worn are of no kind of theirs, unless a use was met.
MayAge(b, S, minute, m, n) ==
  /\ minute => \A s \in S : ~b.slot[s].on \/ b.slot[s].qty > 1
  /\ ~n => ~m /\ (minute => \A s \in Worn, t \in S : KindOf(b, t) # KindOf(b, s))

\* A minute leaves what is sound so, but for the marks that what is worn takes with it.
LEMMA AgedSound ==
  ASSUME NEW b, NEW S, NEW m, Sound(b, S, m), NEW minute \in BOOLEAN, NEW bar, NEW n,
         MayAge(b, S, minute, m, n),
         NEW x, x = HandleLimitedItems(b, minute, bar), NEW w \in BOOLEAN,
         NEW y, y = [x EXCEPT !.ticks = w, !.stuck = FALSE]
  PROVE  Sound(y, S, n)
<1>1. Kept(b) /\ InHand(b, S) /\ (~m => Single(b) /\ Guarded(b, S))
  BY DEF Sound
<1>a. AgedInto(b, minute, bar, y)
  BY <1>1, AgedFacts
<1>b. /\ minute => \A s \in S : ~b.slot[s].on \/ b.slot[s].qty > 1
      /\ ~n => ~m /\ (minute => \A s \in Worn, t \in S : KindOf(b, t) # KindOf(b, s))
  BY DEF MayAge
<1>2. /\ \A s \in Slots :
           Shrinks(b, s, minute /\ s \in Reached(b, minute), s \in Bared(b, minute, bar),
                   y.slot[s], y.row[s], s \in y.behind)
      /\ y.marks = IF Waiting(b, minute) THEN b.marks
                   ELSE b.marks \ {KindOf(b, s) : s \in Lasts(b, minute)}
      /\ y.morphed = SeenIn(b, minute, bar, Forms(b, minute))
      /\ y \in Holdings(0..MaxGold) /\ y \in Characters /\ ~y.stuck
  BY <1>a DEF AgedInto
<1>3. WornForm(y)
  BY <1>1, <1>a, AgedForm
<1>4. OnInBag(y)
  <2>1. \A s \in Slots : b.slot[s].on => s \in Bag
    BY <1>1 DEF Kept, OnInBag
  <2>2. \A s \in Slots : (y.slot[s].on => b.slot[s].on) /\ (y.row[s] # None /\ y.row[s].on => s \in Bag)
    BY <1>2 DEF Shrinks
  <2> QED
    BY <2>1, <2>2 DEF OnInBag
<1>5. RowsKept(y, {})
  BY <1>2 DEF Shrinks, RowsKept, Follows
<1>6. Kept(y)
  BY <1>2, <1>3, <1>4, <1>5 DEF Kept
<1>7. \A s \in Slots : b.slot[s].qty \in Nat
  BY <1>1, ItemFields DEF Kept, Holdings
<1>8. ASSUME NEW s \in S
      PROVE  /\ s \in Slots /\ s \in Bag /\ KindOf(y, s) = KindOf(b, s) /\ y.slot[s].qty >= 1
             /\ KindOf(b, s) # 0
  <2>1. s \in Slots /\ s \in Bag /\ b.slot[s].qty >= 1 /\ KindOf(b, s) # 0
    BY <1>1, HandFacts
  <2>2. CASE minute /\ s \in Reached(b, minute)
    <3>1. s \in Due(b)
      BY <2>2, DueFacts
    <3>2. b.slot[s].on
      BY <2>1, <3>1, GoodsAssumption DEF Due
    <3>3. 1 < b.slot[s].qty
      BY <1>7, <1>b, <2>1, <2>2, <3>2
    <3> QED
      BY <1>2, <2>1, <3>3 DEF Shrinks, KindOf
  <2>3. CASE ~(minute /\ s \in Reached(b, minute))
    BY <1>2, <2>1, <2>3 DEF Shrinks, KindOf
  <2> QED
    BY <2>1, <2>2, <2>3
<1>9. InHand(y, S)
  BY <1>1, <1>8 DEF InHand, TypeAt
<1>10. \A s \in Slots : y.slot[s].on => b.slot[s].on /\ KindOf(y, s) = KindOf(b, s)
  BY <1>2 DEF Shrinks, KindOf
<1>11. ASSUME ~n PROVE Single(y) /\ Guarded(y, S)
  <2>1. Single(b) /\ Guarded(b, S)
    BY <1>1, <1>11, <1>b
  <2>2. Single(y)
    BY <1>10, <2>1 DEF Single
  <2>3. ASSUME NEW s \in S, KindOf(y, s) \notin Exempt
        PROVE  /\ ~y.slot[s].on
               /\ \A t \in Slots : y.slot[t].on /\ KindOf(y, t) = KindOf(y, s) =>
                                     KindOf(y, s) \in y.marks
    <3>1. s \in Slots /\ KindOf(y, s) = KindOf(b, s)
      BY <1>8
    <3>2. /\ ~b.slot[s].on
          /\ \A t \in Slots : b.slot[t].on /\ KindOf(b, t) = KindOf(b, s) => KindOf(b, s) \in b.marks
      BY <2>1, <2>3, <3>1 DEF Guarded
    <3>3. ASSUME NEW t \in Slots, y.slot[t].on, KindOf(y, t) = KindOf(y, s),
                 KindOf(y, s) \notin y.marks
          PROVE  FALSE
      <4>1. b.slot[t].on /\ KindOf(b, t) = KindOf(b, s) /\ KindOf(b, s) \in b.marks
        BY <1>10, <3>1, <3>2, <3>3
      <4>2. ~Waiting(b, minute)
        BY <1>2, <3>1, <3>3, <4>1
      <4>3. PICK v \in Lasts(b, minute) : KindOf(b, v) = KindOf(b, s)
        BY <1>2, <3>1, <3>3, <4>1, <4>2
      <4>4. minute /\ v \in Slots /\ b.slot[v].qty <= 1 /\ v \in Due(b) /\ ~b.jam
        BY <4>2, <4>3, DueFacts DEF Lasts, Waiting
      <4>5. v \notin Worn
        BY <1>11, <1>b, <4>3, <4>4
      <4>6. b.slot[v].on
        BY <4>4, <4>5 DEF Due
      <4>7. v = t
        BY <2>1, <2>3, <3>1, <4>1, <4>3, <4>4, <4>6 DEF Single
      <4>8. v \in Reached(b, minute) /\ ~(1 < b.slot[v].qty)
        BY <1>7, <4>2, <4>4 DEF Reached
      <4>9. ~y.slot[v].on
        BY <1>2, <4>4, <4>8 DEF Shrinks
      <4> QED
        BY <3>3, <4>7, <4>9
    <3>4. ~y.slot[s].on
      BY <1>10, <3>1, <3>2
    <3> QED
      BY <3>3, <3>4
  <2>4. Guarded(y, S)
    BY <2>3 DEF Guarded
  <2> QED
    BY <2>2, <2>4
<1> QED
  BY <1>6, <1>9, <1>11 DEF Sound

\* Buffs are apart from what else is sound.
LEMMA BuffedSound ==
  ASSUME NEW b, NEW S, NEW m, Sound(b, S, m), NEW X \in Spirits,
         NEW y, y = [b EXCEPT !.buffs = X]
  PROVE  Sound(y, S, m)
<1>1. Kept(b) /\ InHand(b, S) /\ (~m => Single(b) /\ Guarded(b, S))
  BY DEF Sound
<1>2. b \in Holdings(0..MaxGold) /\ b \in Characters
  BY <1>1 DEF Kept
<1>3. /\ y.slot = b.slot /\ y.row = b.row /\ y.marks = b.marks /\ y.morphed = b.morphed
      /\ y.behind = b.behind /\ y.stuck = b.stuck
  BY <1>2 DEF Holdings
<1>4. y \in Holdings(0..MaxGold)
  BY <1>2 DEF Holdings
<1>5. y \in Characters
  BY <1>2 DEF Characters, Spirits
<1>6. OnInBag(y)
  BY <1>1, <1>3 DEF Kept, OnInBag
<1>7. RowsKept(y, {})
  BY <1>1, <1>3 DEF Kept, RowsKept, Follows
<1>8. WornForm(y)
  BY <1>1, <1>3 DEF Kept, WornForm, IsForm, TypeAt, KindOf
<1>9. Kept(y)
  BY <1>1, <1>3, <1>4, <1>5, <1>6, <1>7, <1>8 DEF Kept
<1>10. InHand(y, S)
  BY <1>1, <1>3 DEF InHand, TypeAt, KindOf
<1>11. ~m => Single(y)
  BY <1>1, <1>3 DEF Single, KindOf
<1>12. ~m => Guarded(y, S)
  BY <1>1, <1>3 DEF Guarded, KindOf
<1> QED
  BY <1>9, <1>10, <1>11, <1>12 DEF Sound

\* A second of Handler: what it does to marks is admitted by the history it sets.
LEMMA TickSound ==
  ASSUME Sound(c, using, met), NEW minute \in BOOLEAN, NEW gone \in SUBSET c.buffs,
         Tick(minute, gone)
  PROVE  Sound(c', using, met')
<1>1. c \in Holdings(0..MaxGold)
  BY DEF Sound, Kept
<1>2. PICK X : X = c.buffs \ gone
  OBVIOUS
<1>3. X \in Spirits
  BY <1>1, <1>2 DEF Holdings, Spirits
<1>4. PICK b : b = [c EXCEPT !.buffs = X]
  OBVIOUS
<1>5. Sound(b, using, met)
  BY <1>3, <1>4, BuffedSound
<1>6. b.slot = c.slot
  BY <1>1, <1>4 DEF Holdings
<1>7. PICK x : x = HandleLimitedItems(b, minute, arena)
  OBVIOUS
<1>8. /\ c' = [x EXCEPT !.ticks = ~x.stuck, !.stuck = FALSE]
      /\ met' = (met \/ (minute /\ \E s \in Worn : Beginning(KindOf(c, s))))
      /\ (minute => MayPass)
  BY <1>2, <1>4, <1>7 DEF Tick
<1>9. PICK w \in BOOLEAN : w = ~x.stuck
  OBVIOUS
<1>10. minute => \A s \in using : ~b.slot[s].on \/ b.slot[s].qty > 1
  BY <1>6, <1>8 DEF MayPass
<1>11. ~met' => ~met /\ (minute => \A s \in Worn, t \in using : KindOf(b, t) # KindOf(b, s))
  BY <1>6, <1>8 DEF Beginning, KindOf
<1>12. c' = [x EXCEPT !.ticks = w, !.stuck = FALSE]
  BY <1>8, <1>9
<1>13. MayAge(b, using, minute, met, met')
  BY <1>10, <1>11 DEF MayAge
<1> QED
  BY <1>5, <1>7, <1>12, <1>13, AgedSound

\* ChangeMap, where forms may be taken off and a minute may pass.
LEMMA ChangeMapSound ==
  ASSUME Sound(c, using, met), NEW minute \in BOOLEAN, ChangeMap(minute)
  PROVE  Sound(c', using, met)
<1>1. using = {} /\ Kept(c)
  BY DEF ChangeMap, Sound
<1>2. CASE c' = c
  BY <1>2
<1>3. CASE c' = [HandleLimitedItems(c, minute, ~arena) EXCEPT !.stuck = FALSE]
  <2>1. PICK bar : bar = ~arena
    OBVIOUS
  <2>2. PICK x : x = HandleLimitedItems(c, minute, bar)
    OBVIOUS
  <2>3. PICK w \in BOOLEAN : w = c.ticks
    BY <1>1 DEF Kept, Holdings
  <2>4. PICK y : y = [x EXCEPT !.ticks = w, !.stuck = FALSE]
    OBVIOUS
  <2>5. TicksOn(c, w, x, y)
    BY <1>1, <2>2, <2>4, AgedFacts
  <2>6. c' = y
    BY <1>3, <2>1, <2>2, <2>3, <2>5 DEF TicksOn
  <2>7. MayAge(c, using, minute, met, met)
    BY <1>1 DEF MayAge
  <2>8. Sound(y, using, met)
    BY <2>2, <2>4, <2>7, AgedSound
  <2> QED
    BY <2>6, <2>8
<1> QED
  BY <1>2, <1>3 DEF ChangeMap

\* Who comes back has what the rows say, and in use only what was in use when it left,
\* unless that had been taken off or used up without being saved.
LEMMA ComeBackSound ==
  ASSUME Sound(c, using, met), ComeBack
  PROVE  Sound(c', using, met')
<1>1. /\ Kept(c) /\ (~met => Single(c)) /\ using = {} /\ c' = LoadedAgain(c)
      /\ met' = (met \/ \E s \in Slots : Revived(c, s))
  BY DEF ComeBack, Sound
<1>2. c \in Holdings(0..MaxGold) /\ c \in Characters /\ ~c.stuck /\ OnInBag(c)
  BY <1>1 DEF Kept
<1> DEFINE slot == [s \in Slots |-> IF c.row[s] = None THEN NewSlot ELSE c.row[s]]
<1>3. \A s \in Slots : /\ c.row[s] \in FitRows \cup {None}
                       /\ slot[s] = IF c.row[s] = None THEN NewSlot ELSE c.row[s]
  BY <1>2 DEF Holdings
<1>4. slot \in [Slots -> FitItems]
  BY <1>3, BlankFits DEF FitRows
<1>5. slot \in [Slots -> SlotRecs]
  <2>1. NewSlot \in SlotRecs
    BY GoodsFacts DEF NewSlot, SlotRecs, ItemRecs
  <2>2. c.row \in [Slots -> SlotRecs \cup {None}]
    BY <1>2 DEF Characters
  <2> QED
    BY <2>1, <2>2
<1>6. c' = [c EXCEPT !.slot = slot, !.marks = {}, !.jam = FALSE, !.held = FALSE, !.ticks = TRUE,
                     !.morphed = FALSE, !.behind = {}]
  BY <1>1 DEF LoadedAgain
<1> HIDE DEF slot
<1>7. c' \in Holdings(0..MaxGold)
  BY <1>2, <1>4, <1>6 DEF Holdings
<1>8. c' \in Characters
  BY <1>2, <1>5, <1>6 DEF Characters
<1>9. PICK y : y = c'
  OBVIOUS
<1>10. /\ y.slot = slot /\ y.row = c.row /\ y.morphed = FALSE /\ y.behind = {} /\ ~y.stuck
  BY <1>2, <1>6, <1>9 DEF Holdings
<1>11. NewSlot.on = FALSE /\ NewSlot.kind = 0
  BY DEF NewSlot
<1>12. OnInBag(y)
  BY <1>2, <1>3, <1>10, <1>11 DEF OnInBag
<1>13. RowsKept(y, {})
  <2>1. \A i \in FitRows : i.kind # 0 /\ i.id
    BY ItemFields DEF FitRows
  <2> QED
    BY <1>3, <1>10, <1>11, <2>1, GoodsFacts DEF RowsKept, Follows
<1>14. Kept(y)
  BY <1>7, <1>8, <1>9, <1>10, <1>12, <1>13 DEF Kept, WornForm
<1>15. ASSUME ~met' PROVE Single(y)
  <2>1. Single(c) /\ \A s \in Slots : ~Revived(c, s)
    BY <1>1, <1>15
  <2>2. ASSUME NEW s \in Slots, y.slot[s].on
        PROVE  c.slot[s].on /\ KindOf(c, s) = KindOf(y, s)
    <3>1. c.row[s] # None /\ y.slot[s] = c.row[s]
      BY <1>3, <1>10, <1>11, <2>2
    <3> QED
      BY <2>1, <2>2, <3>1 DEF Revived, KindOf
  <2> QED
    BY <2>1, <2>2 DEF Single
<1>16. Sound(y, using, met')
  BY <1>1, <1>14, <1>15 DEF Sound, InHand, Guarded
<1> QED
  BY <1>9, <1>16

-----------------------------------------------------------------------------
(* The workshop *)

\* The item j with plus p and the codes of that, and n sockets with codes in S.
Shaped(j, p, n, S) == [j EXCEPT !.plus = p, !.codes = 1..p, !.sockets = n, !.socks = S]

\* A whole item of the kind of j, in use if j is.
Resembles(i, j) == i \in FitRows /\ i.kind = j.kind /\ (i.on <=> j.on)

\* An item with another plus and other sockets is whole, and else the same.
LEMMA Reshaped ==
  ASSUME NEW j \in FitItems, j.kind # 0, NEW p \in 0..MaxPlus, NEW n \in 0..MaxSockets,
         NEW S \in SUBSET (1..n)
  PROVE  Resembles(Shaped(j, p, n, S), j)
<1>1. j \in ItemRecs(Nat)
  BY DEF FitItems
<1>a. PICK i : i = Shaped(j, p, n, S)
  OBVIOUS
<1>2. 1..p \subseteq 1..MaxPlus /\ S \subseteq 1..MaxSockets
  BY GoodsFacts
<1>3. i \in ItemRecs(Nat)
  BY <1>1, <1>2, <1>a DEF ItemRecs, Shaped
<1>4. /\ i.kind = j.kind /\ i.qty = j.qty /\ i.on = j.on /\ i.id = j.id
      /\ i.plus = p /\ i.codes = 1..p /\ i.sockets = n /\ i.socks = S
  BY <1>1, <1>a DEF ItemRecs, Shaped
<1> QED
  BY <1>3, <1>4, <1>a, ItemFields DEF FitRows, FitItems, Resembles

\* What strengthening, lowering, and opening sockets make of an item.
LEMMA UpgradeShapes ==
  ASSUME NEW j \in FitItems, j.kind # 0, NEW k \in Nat
  PROVE  Resembles(Upgrade(j, k), j)
<1>1. j.plus \in 0..MaxPlus /\ j.codes = 1..j.plus /\ j.sockets \in 0..MaxSockets
      /\ j.socks \in SUBSET (1..j.sockets) /\ j \in ItemRecs(Nat)
  BY ItemFields DEF FitItems
<1>2. CASE j.plus >= MaxPlus
  BY <1>2 DEF Upgrade, FitRows, Resembles
<1>3. CASE ~(j.plus >= MaxPlus)
  <2>1. PICK p : p = Min({j.plus + k, MaxPlus})
    OBVIOUS
  <2>2. p \in j.plus..MaxPlus /\ p \in 0..MaxPlus
    <3> DEFINE T == {j.plus + k, MaxPlus}
    <3>1. T \subseteq Nat /\ T # {} /\ IsFiniteSet(T)
      <4>1. T \subseteq Nat /\ T # {}
        BY <1>1, GoodsFacts
      <4>2. IsFiniteSet(T)
        BY PairIsFinite
      <4> QED
        BY <4>1, <4>2
    <3>2. Min(T) \in T /\ \A y \in T : Min(T) <= y
      <4> HIDE DEF T
      <4> QED
        BY <3>1, MinIn
    <3>3. p \in Nat /\ p <= MaxPlus /\ (p = j.plus + k \/ p = MaxPlus)
      BY <2>1, <3>1, <3>2
    <3> QED
      BY <1>1, <3>3, GoodsFacts
  <2>3. (1..j.plus) \cup ((j.plus + 1)..p) = 1..p
    BY <1>1, <2>2, GoodsFacts
  <2>4. Upgrade(j, k) = [j EXCEPT !.plus = p, !.codes = j.codes \cup (j.plus + 1)..p]
    BY <1>3, <2>1 DEF Upgrade
  <2>5. Upgrade(j, k) = Shaped(j, p, j.sockets, j.socks)
    BY <1>1, <2>3, <2>4 DEF ItemRecs, Shaped
  <2> QED
    BY <1>1, <2>2, <2>5, Reshaped
<1> QED
  BY <1>2, <1>3

\* A failure takes the codes above the plus that is left.
LEMMA LoweredShapes ==
  ASSUME NEW j \in FitItems, j.kind # 0, NEW k \in Nat
  PROVE  Resembles(Lowered(j, k), j)
<1>1. j.plus \in 0..MaxPlus /\ j.codes = 1..j.plus /\ j.sockets \in 0..MaxSockets
      /\ j.socks \in SUBSET (1..j.sockets) /\ j \in ItemRecs(Nat)
  BY ItemFields DEF FitItems
<1>2. PICK p : p = IF j.plus < k THEN 0 ELSE j.plus - k
  OBVIOUS
<1>3. p \in 0..MaxPlus /\ p <= j.plus
  BY <1>1, <1>2, GoodsFacts
<1>4. {i \in 1..j.plus : i <= p} = 1..p
  BY <1>1, <1>3, GoodsFacts
<1>5. Lowered(j, k) = [j EXCEPT !.plus = p, !.codes = {i \in j.codes : i <= p}]
  BY <1>2 DEF Lowered
<1>6. Lowered(j, k) = Shaped(j, p, j.sockets, j.socks)
  BY <1>1, <1>4, <1>5 DEF ItemRecs, Shaped
<1> QED
  BY <1>1, <1>3, <1>6, Reshaped

\* Sockets are opened, and hold codes only when they are open.
LEMMA SocketShapes ==
  ASSUME NEW j \in FitItems, j.kind # 0, NEW n \in 0..MaxSockets, NEW S \in SUBSET (1..n),
         NEW i, i = [j EXCEPT !.sockets = n, !.socks = S]
  PROVE  Resembles(i, j)
<1>1. j.plus \in 0..MaxPlus /\ j.codes = 1..j.plus /\ j \in ItemRecs(Nat)
  BY ItemFields DEF FitItems
<1>2. i = Shaped(j, j.plus, n, S)
  BY <1>1 DEF ItemRecs, Shaped
<1> QED
  BY <1>1, <1>2, Reshaped

\* A change of an item that stays of its kind, and in use if it was: to be saved, or saved.
LEMMA ChangedAfter ==
  ASSUME NEW a, NEW G, NEW E, NEW D \in SUBSET Slots,
         NEW b \in After(a, G, E, {}, D), NEW s \in Slots, NEW i \in FitRows,
         i.kind = KindOf(b, s), i.on <=> b.slot[s].on
  PROVE  /\ [b EXCEPT !.slot[s] = i] \in After(a, G, E \cup {s}, {}, D)
         /\ Changed(b, s, i) \in After(a, G, E, {}, D)
<1>1. i.kind # 0 /\ b.slot[s].kind = i.kind
  BY DEF FitRows, KindOf
<1>2. s \in D => Type[i.kind] \notin Switched
  BY <1>1, SlotFacts DEF TypeAt, KindOf
<1>3. E \cup {s} \subseteq E \cup {s} /\ {} \in SUBSET Slots
  OBVIOUS
<1>4. PICK x : x = [b EXCEPT !.slot[s] = i]
  OBVIOUS
<1>a. /\ i.on => b.slot[s].on /\ i.kind = b.slot[s].kind
      /\ IsForm(b, s) => i.on /\ i.kind = b.slot[s].kind
  BY <1>1 DEF IsForm
<1>b. s \notin {}
  OBVIOUS
<1>5. x \in After(a, G, E \cup {s}, {}, D)
  BY <1>1, <1>2, <1>3, <1>4, <1>a, <1>b, EditAfter
<1>6. Save(x, s) \in After(a, G, E, {}, D)
  BY <1>3, <1>5, SaveAfter
<1> QED
  BY <1>4, <1>5, <1>6 DEF Changed

\* What is in the slots that packets name.
LEMMA FilledFacts ==
  ASSUME NEW m, Sound(c, {}, m), NEW s \in Filled(c)
  PROVE  /\ s \in Slots /\ s \in Bag /\ c.slot[s] \in FitItems /\ c.slot[s].kind = KindOf(c, s)
         /\ KindOf(c, s) \in Kinds /\ KindOf(c, s) # 0 /\ TypeAt(c, s) = Type[KindOf(c, s)]
<1>1. s \in Bag /\ s \in Slots /\ KindOf(c, s) # 0
  BY GoodsFacts DEF Filled, CanDecrement
<1>2. c.slot[s] \in FitItems
  BY <1>1 DEF Sound, Kept, Holdings
<1> QED
  BY <1>1, <1>2, ItemFields DEF KindOf, TypeAt

\* A free slot holds nothing that is in use.
LEMMA FreeFilled ==
  ASSUME NEW m, Sound(c, {}, m), NEW t \in FindFreeSlots(c)
  PROVE  t \in Slots /\ ~c.slot[t].on /\ KindOf(c, t) = 0 /\ t \notin Filled(c)
<1>1. t \in Slots /\ c.slot[t].kind = 0
  BY FreeFacts
<1>2. c.slot[t] \in FitItems
  BY <1>1 DEF Sound, Kept, Holdings
<1> QED
  BY <1>1, <1>2, ItemFields DEF KindOf, Filled, CanDecrement

\* A handler of the workshop begins, those in D are not switched on and off, and it ends.
LEMMA Begun ==
  ASSUME NEW m, Sound(c, {}, m), NEW E, NEW D \in SUBSET Slots,
         \A t \in D : TypeAt(c, t) \notin Switched
  PROVE  /\ c \in After(c, 0..MaxGold, E, {}, D)
         /\ \A n : \E H : LootGold(c, n) \in After(c, H, E, {}, D)
         /\ \A n : LootGold(c, n).slot = c.slot
<1>1. Kept(c) /\ {} \in SUBSET Slots
  BY DEF Sound
<1>2. c \in After(c, 0..MaxGold, E, {}, D)
  BY <1>1, StartAfter
<1>3. \A n : LootGold(c, n).slot = c.slot
  BY <1>1 DEF LootGold, Kept, Holdings
<1> QED
  BY <1>2, <1>3, LootGoldAfter

\* A handler of the workshop ends.
LEMMA Made ==
  ASSUME NEW m, Sound(c, {}, m), NEW G, NEW F, NEW D, NEW x \in After(c, G, {}, F, D), Runs(x)
  PROVE  Sound(c', {}, m)
<1>1. {} \in SUBSET F /\ {} \in SUBSET D /\ G \subseteq G /\ {} \subseteq {}
  OBVIOUS
<1>2. x \in After(c, G, {}, {}, {})
  BY <1>1, AfterLess
<1> QED
  BY <1>2, RunsEnds, Handled

\* Helpers of all sorts are not switched on and off.
LEMMA AidsIdle ==
  ASSUME NEW m, Sound(c, {}, m), NEW S \in SUBSET Filled(c),
         \A t \in S : TypeAt(c, t) \in Aids \cup {"stone", "recipe", "fusion", "enchant", "pair"}
  PROVE  S \in SUBSET Slots /\ \A t \in S : TypeAt(c, t) \notin Switched
BY FilledFacts DEF Aids, Switched

\* BSUpgrade: whatever comes of it, the item has the codes of its plus.
LEMMA StrengthenSound ==
  ASSUME NEW m, Sound(c, {}, m), NEW s \in Filled(c), NEW stones \in SUBSET Filled(c),
         NEW luck \in SUBSET Filled(c), NEW scale \in SUBSET Filled(c),
         \A t \in stones \cup luck \cup scale : TypeAt(c, t) \in Aids \cup {"stone"},
         Strengthen(s, stones, luck, scale)
  PROVE  Sound(c', {}, m)
<1> DEFINE D == stones \cup luck \cup scale
<1>1. D \in SUBSET Slots /\ \A t \in D : TypeAt(c, t) \notin Switched
  BY AidsIdle
<1>2. stones \in SUBSET D /\ luck \in SUBSET D /\ scale \in SUBSET D
  OBVIOUS
<1> HIDE DEF D
<1>3. PICK item : item = c.slot[s]
  OBVIOUS
<1>4. s \in Slots /\ item \in FitItems /\ item.kind = KindOf(c, s) /\ item.kind # 0
  BY <1>3, FilledFacts, SMTT(30)
<1> DEFINE bagua == \E t \in luck : TypeAt(c, t) = "bagua"
           scaled == \E t \in scale : TypeAt(c, t) = "scale"
           cost == Fee[item.kind] * (item.plus + 1) * 2 ^ (Cardinality(stones) - 1)
           paid == LootGold(c, -cost)
           Better(n) == {Changed(paid, s, Upgrade(item, Max({n, 1}) + k)) :
                           k \in IF bagua THEN 0..4 ELSE {0}}
           Worse(n) == IF bagua THEN {}
                       ELSE IF TypeAt(c, s) = "htgear" \/ scaled
                       THEN {[paid EXCEPT !.slot[s] = Lowered(item, IF scaled THEN 1 ELSE n)]}
                       ELSE {RemoveItem(paid, s)}
<1>5. PICK first \in stones : \E worked \in Better(c.slot[first].plus) \cup Worse(c.slot[first].plus) :
        LET rest == Spent(Spent(Spent(worked, stones), luck), scale)
        IN Runs(IF rest.stuck THEN Unsaved(rest, s) ELSE Save(rest, s))
  BY <1>3, ZenonT(60) DEF Strengthen
<1>6. PICK n : n = c.slot[first].plus
  OBVIOUS
<1>7. n \in Nat
  <2>1. first \in Slots
    BY <1>1, <1>2
  <2>2. c.slot[first] \in FitItems
    BY <2>1 DEF Sound, Kept, Holdings
  <2> QED
    BY <1>6, <2>2, ItemFields, GoodsFacts
<1>8. Max({n, 1}) \in Nat
  <2> DEFINE T == {n, 1}
  <2>1. T \subseteq Nat /\ T # {} /\ IsFiniteSet(T)
    <3>1. T \subseteq Nat /\ T # {}
      BY <1>7
    <3>2. IsFiniteSet(T)
      BY PairIsFinite
    <3> QED
      BY <3>1, <3>2
  <2>2. Max(T) \in T
    <3> HIDE DEF T
    <3> QED
      BY <2>1, MaxIn
  <2> QED
    BY <2>1, <2>2
<1>9. PICK worked \in Better(n) \cup Worse(n) :
        LET rest == Spent(Spent(Spent(worked, stones), luck), scale)
        IN Runs(IF rest.stuck THEN Unsaved(rest, s) ELSE Save(rest, s))
  BY <1>5, <1>6
<1>10. PICK H : \E x : x = paid /\ x \in After(c, H, {s}, {}, D)
  BY <1>1, Begun
<1>11. PICK b : b = paid
  OBVIOUS
<1>12. b \in After(c, H, {s}, {}, D) /\ b.slot = c.slot
  BY <1>1, <1>10, <1>11, Begun
<1> HIDE DEF paid
<1>13. KindOf(b, s) = item.kind /\ b.slot[s].on = item.on
  BY <1>3, <1>12 DEF KindOf
<1>14. worked \in After(c, H, {s}, {}, D)
  <2>1. \A k \in Nat : Changed(b, s, Upgrade(item, k)) \in After(c, H, {s}, {}, D)
    BY <1>1, <1>4, <1>12, <1>13, UpgradeShapes, ChangedAfter DEF Resembles
  <2>2. \A k \in Nat : [b EXCEPT !.slot[s] = Lowered(item, k)] \in After(c, H, {s}, {}, D)
    <3> SUFFICES ASSUME NEW k \in Nat
                 PROVE  [b EXCEPT !.slot[s] = Lowered(item, k)] \in After(c, H, {s}, {}, D)
      OBVIOUS
    <3>1. PICK i : i = Lowered(item, k)
      OBVIOUS
    <3>2. i \in FitRows /\ i.kind = KindOf(b, s) /\ (i.on <=> b.slot[s].on)
      BY <1>4, <1>13, <3>1, LoweredShapes DEF Resembles
    <3>3. [b EXCEPT !.slot[s] = i] \in After(c, H, {s} \cup {s}, {}, D)
      BY <1>1, <1>4, <1>12, <3>2, ChangedAfter
    <3>4. {s} \cup {s} = {s}
      OBVIOUS
    <3> QED
      BY <3>1, <3>3, <3>4
  <2>3. RemoveItem(b, s) \in After(c, H, {s}, {}, D)
    BY <1>1, <1>4, <1>12, RemoveItemAfter
  <2>4. CASE worked \in Better(n)
    <3>1. PICK k \in IF bagua THEN 0..4 ELSE {0} : worked = Changed(b, s, Upgrade(item, Max({n, 1}) + k))
      BY <1>11, <2>4
    <3>2. Max({n, 1}) + k \in Nat
      BY <1>8
    <3> QED
      BY <2>1, <3>1, <3>2
  <2>5. CASE worked \in Worse(n)
    <3>1. PICK k \in Nat : worked \in {[b EXCEPT !.slot[s] = Lowered(item, k)], RemoveItem(b, s)}
      BY <1>7, <1>11, <2>5
    <3> QED
      BY <2>2, <2>3, <3>1
  <2> QED
    BY <1>9, <2>4, <2>5
<1>15. PICK rest : rest = Spent(Spent(Spent(worked, stones), luck), scale)
  OBVIOUS
<1>16. rest \in After(c, H, {s}, {}, D)
  <2>1. PICK x : x = Spent(worked, stones)
    OBVIOUS
  <2>2. x \in After(c, H, {s}, {}, D)
    BY <1>1, <1>2, <1>14, <2>1, SpentAfter
  <2>3. PICK y : y = Spent(x, luck)
    OBVIOUS
  <2>4. y \in After(c, H, {s}, {}, D)
    BY <1>1, <1>2, <2>2, <2>3, SpentAfter
  <2>5. Spent(y, scale) \in After(c, H, {s}, {}, D)
    BY <1>1, <1>2, <2>4, SpentAfter
  <2> QED
    BY <1>15, <2>1, <2>3, <2>5
<1>17. {s} \subseteq {} \cup {s}
  OBVIOUS
<1>18. Unsaved(rest, s) \in After(c, H, {}, {}, D) /\ Save(rest, s) \in After(c, H, {}, {}, D)
  BY <1>1, <1>4, <1>16, <1>17, UnsavedAfter, SaveAfter
<1> QED
  BY <1>9, <1>15, <1>18, Made

\* What is spent in up to three goes, and what one change of the item in s makes.
LEMMA SpentThrice ==
  ASSUME NEW a, NEW G, NEW E, NEW D \in SUBSET Slots, NEW b \in After(a, G, E, {}, D),
         NEW S \in SUBSET D, NEW T \in SUBSET D, NEW U \in SUBSET D
  PROVE  /\ Spent(b, S) \in After(a, G, E, {}, D)
         /\ Spent(Spent(Spent(b, S), T), U) \in After(a, G, E, {}, D)
<1>1. PICK x : x = Spent(b, S)
  OBVIOUS
<1>2. x \in After(a, G, E, {}, D)
  BY <1>1, SpentAfter
<1>3. PICK y : y = Spent(x, T)
  OBVIOUS
<1>4. y \in After(a, G, E, {}, D)
  BY <1>2, <1>3, SpentAfter
<1>5. Spent(y, U) \in After(a, G, E, {}, D)
  BY <1>4, SpentAfter
<1> QED
  BY <1>1, <1>2, <1>3, <1>5

\* Something new in a slot that was free.
LEMMA PutAfter ==
  ASSUME NEW m, Sound(c, {}, m), NEW G, NEW E, NEW D \in SUBSET Filled(c),
         NEW b \in After(c, G, E, {}, D), NEW to \in FindFreeSlots(c), NEW k \in Kinds,
         NEW n \in Nat
  PROVE  AddItemAt(b, to, NewItem(k, n)) \in After(c, G, E, {}, D)
<1>1. to \in Slots \ D /\ ~c.slot[to].on /\ D \in SUBSET Slots
  BY FreeFilled, FilledFacts
<1>2. ~b.slot[to].on
  BY <1>1, AfterFacts DEF Tame
<1>3. PICK i : i = NewItem(k, n)
  OBVIOUS
<1>4. i \in Offers
  BY <1>3, NewItemOffered
<1>5. AddItemAt(b, to, i) \in After(c, G, E, {}, D)
  BY <1>1, <1>2, <1>4, AddItemAtAfter
<1> QED
  BY <1>3, <1>5

\* BSProduction: what the recipe needs is spent, and what it makes is put in a free slot.
LEMMA ProductionSound ==
  ASSUME NEW m, Sound(c, {}, m), NEW s \in Filled(c), NEW materials \in SUBSET Filled(c),
         NEW special \in SUBSET Filled(c), \A t \in special : TypeAt(c, t) \in Aids,
         NEW to \in FindFreeSlots(c), Production(s, materials, special, to)
  PROVE  Sound(c', {}, m)
<1> DEFINE D == {s} \cup materials \cup special
<1>1. PICK k : k = KindOf(c, s)
  OBVIOUS
<1>2. k \in Kinds /\ Makes[k] \in Kinds /\ \A j \in Needs[k] : Type[j] \notin Switched
  BY <1>1, FilledFacts, WorkshopAssumption
<1>3. D \in SUBSET Slots /\ D \in SUBSET Filled(c) /\ \A t \in D : TypeAt(c, t) \notin Switched
  <2>1. \A t \in materials : TypeAt(c, t) \notin Switched
    <3>1. \A t \in materials : KindOf(c, t) \in Needs[k]
      BY <1>1 DEF Production
    <3> QED
      BY <1>2, <3>1, FilledFacts
  <2>2. TypeAt(c, s) \notin Switched
    BY DEF Production, Switched
  <2>3. \A t \in special : TypeAt(c, t) \notin Switched
    BY DEF Aids, Switched
  <2> QED
    BY <2>1, <2>2, <2>3, FilledFacts
<1>4. {s} \in SUBSET D /\ materials \in SUBSET D /\ special \in SUBSET D
  OBVIOUS
<1> HIDE DEF D
<1>5. PICK paid : paid = LootGold(c, -Fee[k])
  OBVIOUS
<1>6. PICK H : paid \in After(c, H, {}, {}, D)
  BY <1>3, <1>5, Begun
<1>7. PICK made : made = AddItemAt(paid, to, NewItem(Makes[k], 1))
  OBVIOUS
<1>8. made \in After(c, H, {}, {}, D)
  BY <1>2, <1>3, <1>6, <1>7, PutAfter
<1>9. PICK b \in {paid, made} : Runs(Spent(Spent(Spent(b, {s}), materials), special))
  BY <1>1, <1>5, <1>7 DEF Production
<1>10. b \in After(c, H, {}, {}, D)
  BY <1>6, <1>8, <1>9
<1>11. Spent(Spent(Spent(b, {s}), materials), special) \in After(c, H, {}, {}, D)
  BY <1>3, <1>4, <1>10, SpentThrice
<1> QED
  BY <1>9, <1>11, Made

\* AdvancedFusion, when it succeeds, fails, and destroys.
LEMMA AdvancedFusionSound ==
  ASSUME NEW m, Sound(c, {}, m), NEW s \in Filled(c), NEW parts \in SUBSET Filled(c),
         NEW special \in SUBSET Filled(c), NEW to \in FindFreeSlots(c),
         AdvancedFusion(s, parts, special, to)
  PROVE  Sound(c', {}, m)
<1>1. PICK k : k = KindOf(c, s)
  OBVIOUS
<1>2. k \in Kinds /\ Makes[k] \in Kinds
  BY <1>1, FilledFacts, WorkshopAssumption
<1>3. \A b \in {f.b : f \in Fused(k, parts, to)} : \E H : b \in After(c, H, {}, {}, {})
  <2>1. PICK paid : paid = LootGold(c, -Fee[k])
    OBVIOUS
  <2>2. PICK H : paid \in After(c, H, {}, {}, {})
    BY <2>1, Begun
  <2>3. {} \in SUBSET Filled(c)
    OBVIOUS
  <2>4. AddItemAt(paid, to, NewItem(Makes[k], 1)) \in After(c, H, {}, {}, {})
    BY <1>2, <2>2, <2>3, PutAfter
  <2>5. c \in After(c, 0..MaxGold, {}, {}, {})
    BY Begun
  <2>6. \A f \in Fused(k, parts, to) : f.b \in {c, paid, AddItemAt(paid, to, NewItem(Makes[k], 1))}
    BY <2>1 DEF Fused
  <2> QED
    BY <2>2, <2>4, <2>5, <2>6
<1>4. PICK b, lost :
        /\ b \in {f.b : f \in Fused(k, parts, to)} /\ lost \subseteq parts \cup {s}
        /\ Runs(Gone(Gone(b, lost), special))
  <2> DEFINE all == parts \cup {s}
             less == IF k \in Breaks THEN all ELSE {t \in all : KindOf(c, t) \in Fragile}
  <2>1. PICK f \in Fused(k, parts, to) : Runs(Gone(Gone(f.b, IF f.success THEN all ELSE less), special))
    BY <1>1 DEF AdvancedFusion
  <2>2. PICK lost : lost = IF f.success THEN all ELSE less
    OBVIOUS
  <2>3. lost \subseteq all
    BY <2>2
  <2>4. Runs(Gone(Gone(f.b, lost), special)) /\ f.b \in {g.b : g \in Fused(k, parts, to)}
    BY <2>1, <2>2
  <2> QED
    BY <2>3, <2>4
<1>5. PICK H : b \in After(c, H, {}, {}, {})
  BY <1>3, <1>4
<1>6. lost \in SUBSET Slots /\ special \in SUBSET Slots /\ {} \in SUBSET Slots
  BY <1>4, FilledFacts
<1>7. PICK x : x = Gone(b, lost)
  OBVIOUS
<1>8. x \in After(c, H, {}, {}, {})
  BY <1>5, <1>6, <1>7, GoneAfter
<1>9. Gone(x, special) \in After(c, H, {}, {}, {})
  BY <1>6, <1>8, GoneAfter
<1> QED
  BY <1>4, <1>7, <1>9, Made

\* Dismantle: the item is gone and its pieces come.
LEMMA DismantleSound ==
  ASSUME NEW m, Sound(c, {}, m), NEW s \in Filled(c), NEW special \in SUBSET Filled(c),
         Dismantle(s, special)
  PROVE  Sound(c', {}, m)
<1>1. PICK k : k = KindOf(c, s)
  OBVIOUS
<1>2. k \in Kinds /\ Melts[k] \in SUBSET Kinds
  BY <1>1, FilledFacts, WorkshopAssumption
<1>3. PICK x \in Melted(k) : Runs(Gone(x, {s} \cup special))
  BY <1>1 DEF Dismantle
<1>4. \E H : x \in After(c, H, {}, {}, {})
  <2>1. PICK paid : paid = LootGold(c, SellPrice[k] - Fee[k])
    OBVIOUS
  <2>2. PICK H : paid \in After(c, H, {}, {}, {})
    BY <2>1, Begun
  <2>3. \A ks \in SUBSET Melts[k] : Pieces(paid, ks) \in After(c, H, {}, {}, {})
    BY <1>2, <2>2, PiecesAfter
  <2>4. x = c \/ \E ks \in SUBSET Melts[k] : x = Pieces(paid, ks)
    BY <2>1 DEF Melted
  <2> QED
    BY <2>3, <2>4, Begun
<1>5. PICK H : x \in After(c, H, {}, {}, {})
  BY <1>4
<1>6. PICK S : S = {s} \cup special
  OBVIOUS
<1>7. S \in SUBSET Slots /\ {} \in SUBSET Slots
  BY <1>6, FilledFacts
<1>8. Gone(x, S) \in After(c, H, {}, {}, {})
  BY <1>5, <1>7, GoneAfter
<1> QED
  BY <1>3, <1>6, <1>8, Made

\* Extraction: the plus goes from the item to what is made.
LEMMA ExtractionSound ==
  ASSUME NEW m, Sound(c, {}, m), NEW s \in Filled(c), NEW special \in SUBSET Filled(c),
         Extraction(s, special)
  PROVE  Sound(c', {}, m)
<1>1. PICK item : item = c.slot[s]
  OBVIOUS
<1>2. /\ s \in Slots /\ item \in FitItems /\ item.kind = KindOf(c, s) /\ item.kind # 0
      /\ item.kind \in Kinds /\ Makes[item.kind] \in Kinds
  BY <1>1, FilledFacts, WorkshopAssumption
<1>3. item.plus \in 1..MaxPlus /\ item.codes = 1..item.plus /\ item \in ItemRecs(Nat)
      /\ item.sockets \in 0..MaxSockets /\ item.socks \in SUBSET (1..item.sockets)
  <2>1. item.plus \in 0..MaxPlus /\ item.plus > 0
    BY <1>1, <1>2, ItemFields DEF Extraction
  <2> QED
    BY <1>2, <2>1, ItemFields, GoodsFacts DEF FitItems
<1>4. PICK x : x = Lessened(s)
  OBVIOUS
<1>5. \E H : x \in After(c, H, {}, {}, {})
  <2>1. CASE x = c
    BY <2>1, Begun
  <2> DEFINE lower == [LootGold(c, -Fee[item.kind]) EXCEPT
                         !.slot[s].plus = @ - 1, !.slot[s].codes = @ \ {item.plus}]
  <2>2. CASE x = Extracted(lower, s, Makes[item.kind])
    <3>1. PICK b : b = LootGold(c, -Fee[item.kind])
      OBVIOUS
    <3>2. PICK H : b \in After(c, H, {}, {}, {})
      BY <3>1, Begun
    <3>3. b.slot = c.slot /\ b \in Holdings(H)
      <4>1. {} \in SUBSET Slots /\ \A t \in {} : TypeAt(c, t) \notin Switched
        OBVIOUS
      <4>2. \A n : LootGold(c, n).slot = c.slot
        BY <4>1, Begun
      <4>3. b \in Holdings(H)
        BY <3>2, AfterFacts
      <4> QED
        BY <3>1, <4>2, <4>3
    <3>4. PICK i : i = [item EXCEPT !.plus = item.plus - 1, !.codes = item.codes \ {item.plus}]
      OBVIOUS
    <3>5. lower = [b EXCEPT !.slot[s] = i]
      BY <1>1, <1>2, <3>1, <3>3, <3>4, ZenonT(60) DEF Holdings
    <3>6. i \in FitRows /\ i.kind = item.kind /\ (i.on <=> item.on)
      <4>1. item.plus - 1 \in 0..MaxPlus /\ (1..item.plus) \ {item.plus} = 1..(item.plus - 1)
        BY <1>3, GoodsFacts
      <4>2. i = Shaped(item, item.plus - 1, item.sockets, item.socks)
        BY <1>3, <3>4, <4>1 DEF ItemRecs, Shaped
      <4> QED
        BY <1>2, <1>3, <4>1, <4>2, Reshaped DEF Resembles
    <3>7. {} \in SUBSET Slots /\ {} \cup {s} = {s} /\ {s} \subseteq {} \cup {s}
      OBVIOUS
    <3>8. PICK l : l = lower
      OBVIOUS
    <3> HIDE DEF lower
    <3>9. l \in After(c, H, {s}, {}, {})
      BY <1>1, <1>2, <3>2, <3>3, <3>5, <3>6, <3>7, <3>8, ChangedAfter DEF KindOf
    <3>10. PICK z : z = Yield(l, Makes[item.kind])
      OBVIOUS
    <3>11. z \in After(c, H, {s}, {}, {})
      BY <1>2, <3>7, <3>9, <3>10, YieldAfter
    <3>12. Save(z, s) \in After(c, H, {}, {}, {}) /\ Unsaved(l, s) \in After(c, H, {}, {}, {})
      BY <1>2, <3>7, <3>9, <3>11, SaveAfter, UnsavedAfter, SMTT(30)
    <3> QED
      BY <2>2, <3>8, <3>10, <3>12 DEF Extracted
  <2>3. x = c \/ x = Extracted(lower, s, Makes[item.kind])
    BY <1>1, <1>4 DEF Lessened
  <2> QED
    BY <2>1, <2>2, <2>3
<1>6. PICK H : x \in After(c, H, {}, {}, {})
  BY <1>5
<1>7. special \in SUBSET Slots /\ {} \in SUBSET Slots
  BY FilledFacts
<1>8. Gone(x, special) \in After(c, H, {}, {}, {})
  BY <1>6, <1>7, GoneAfter
<1>9. Runs(Gone(x, special))
  BY <1>4 DEF Extraction
<1> QED
  BY <1>8, <1>9, Made

\* Gear is not switched on.
LEMMA GearOff ==
  ASSUME NEW G, NEW E, NEW F, NEW D, NEW b \in After(c, G, E, F, D), NEW s \in Slots,
         KindOf(b, s) = KindOf(c, s), TypeAt(c, s) \notin Switched
  PROVE  ~b.slot[s].on
BY SlotFacts, SMTT(30) DEF TypeAt

\* CreateSocket: sockets are opened or closed, and lose their codes.
LEMMA CreateSocketSound ==
  ASSUME NEW m, Sound(c, {}, m), NEW s \in Filled(c), NEW special \in SUBSET (Filled(c) \ {s}),
         \A t \in special : TypeAt(c, t) \in Aids, CreateSocket(s, special)
  PROVE  Sound(c', {}, m)
<1>1. PICK item : item = c.slot[s]
  BY Zenon
<1>2. /\ s \in Slots /\ item \in FitItems /\ item.kind = KindOf(c, s) /\ item.kind # 0
      /\ TypeAt(c, s) \notin Switched
  BY <1>1, FilledFacts DEF CreateSocket, Gear, Switched
<1>3. item \in ItemRecs(Nat) /\ item.sockets \in 0..MaxSockets /\ item.socks \subseteq 1..item.sockets
  BY <1>2, ItemFields DEF FitItems
<1>4. special \in SUBSET Slots /\ {s} \in SUBSET Slots /\ special \cap {s} = {}
      /\ \A t \in special : TypeAt(c, t) \notin Switched
  BY <1>2, AidsIdle
\* The charms are spent on what is c, or c less some gold, and s keeps its kind.
<1>5. ASSUME NEW H, NEW b \in After(c, H, {}, {s}, special)
      PROVE  \A n \in 0..MaxSockets : \A S \in SUBSET (1..n) : \A j :
               j = [item EXCEPT !.sockets = n, !.socks = S] =>
                 Changed(Spent(b, special), s, j) \in After(c, H, {}, {}, special)
  <2>1. PICK x : x = Spent(b, special)
    OBVIOUS
  <2>2. x \in After(c, H, {}, {s}, special)
    BY <1>4, <1>5, <2>1, SpentAfter
  <2>3. KindOf(x, s) = item.kind /\ ~x.slot[s].on
    BY <1>2, <2>2, SlotFacts, GearOff
  <2>4. ~item.on
    BY <1>1, <1>2, ItemFields DEF TypeAt
  <2>5. {} \in SUBSET {s} /\ special \in SUBSET special /\ H \subseteq H /\ {} \subseteq {}
    OBVIOUS
  <2>6. x \in After(c, H, {}, {}, special)
    BY <2>2, <2>5, AfterLess
  <2> SUFFICES ASSUME NEW n \in 0..MaxSockets, NEW S \in SUBSET (1..n), NEW j,
                      j = [item EXCEPT !.sockets = n, !.socks = S]
               PROVE  Changed(x, s, j) \in After(c, H, {}, {}, special)
    BY <2>1
  <2>7. j \in FitRows /\ j.kind = item.kind /\ (j.on <=> item.on)
    <3>1. Resembles(j, item)
      BY <1>2, SocketShapes
    <3> QED
      BY <3>1 DEF Resembles
  <2> QED
    BY <1>2, <1>4, <2>3, <2>4, <2>6, <2>7, ChangedAfter
<1> DEFINE paid == Spent(LootGold(c, -Fee[item.kind]), special)
           Opened(n) == Changed(paid, s, [item EXCEPT !.sockets = n])
<1>6. CASE Runs(Save(c, s))
  <2>1. c \in After(c, 0..MaxGold, {}, {}, {}) /\ {} \in SUBSET Slots /\ {} \subseteq {} \cup {s}
    BY Begun
  <2>2. Save(c, s) \in After(c, 0..MaxGold, {}, {}, {})
    BY <1>2, <2>1, SaveAfter
  <2> QED
    BY <1>6, <2>2, Made
<1>7. CASE Runs(Changed(Spent(c, special), s, [item EXCEPT !.sockets = 0, !.socks = {}]))
  <2>1. c \in After(c, 0..MaxGold, {}, {s}, special)
    BY <1>4, StartAfter DEF Sound
  <2>2. 0 \in 0..MaxSockets /\ {} \in SUBSET (1..0)
    BY GoodsFacts
  <2>3. Changed(Spent(c, special), s, [item EXCEPT !.sockets = 0, !.socks = {}])
          \in After(c, 0..MaxGold, {}, {}, special)
    BY <1>5, <2>1, <2>2
  <2> QED
    BY <1>7, <2>3, Made
<1>8. CASE \E n \in 1..(MaxSockets - 1), more \in 0..2 :
             LET open == Opened(Min({n + more, MaxSockets}))
             IN /\ item.sockets = 0
                /\ Runs(IF open.stuck THEN open ELSE [open EXCEPT !.slot[s].socks = {}])
  <2>1. PICK n \in 1..(MaxSockets - 1), more \in 0..2 :
             LET open == Opened(Min({n + more, MaxSockets}))
             IN /\ item.sockets = 0
                /\ Runs(IF open.stuck THEN open ELSE [open EXCEPT !.slot[s].socks = {}])
    BY <1>8
  <2>2. PICK k : k = Min({n + more, MaxSockets})
    OBVIOUS
  <2>3. k \in 0..MaxSockets
    <3> DEFINE T == {n + more, MaxSockets}
    <3>1. T \subseteq Nat /\ T # {} /\ IsFiniteSet(T)
      <4>1. T \subseteq Nat /\ T # {}
        BY GoodsFacts
      <4>2. IsFiniteSet(T)
        BY PairIsFinite
      <4> QED
        BY <4>1, <4>2
    <3>2. Min(T) \in T /\ \A y \in T : Min(T) <= y
      <4> HIDE DEF T
      <4> QED
        BY <3>1, MinIn
    <3> QED
      BY <2>2, <3>1, <3>2, GoodsFacts
  <2>4. PICK j : j = [item EXCEPT !.sockets = k]
    OBVIOUS
  <2>5. item.socks = {}
    BY <1>3, <2>1
  <2>6. j = [item EXCEPT !.sockets = k, !.socks = {}] /\ j.socks = {}
    BY <1>3, <2>4, <2>5 DEF ItemRecs
  <2>7. PICK b : b = LootGold(c, -Fee[item.kind])
    OBVIOUS
  <2>8. PICK H : b \in After(c, H, {}, {s}, special)
    <3>1. c \in After(c, 0..MaxGold, {}, {s}, special)
      BY <1>4, StartAfter DEF Sound
    <3> QED
      BY <2>7, <3>1, LootGoldAfter
  <2>9. PICK open : open = Changed(Spent(b, special), s, j)
    OBVIOUS
  <2>10. open \in After(c, H, {}, {}, special)
    BY <1>5, <2>3, <2>6, <2>8, <2>9
  <2>11. Runs(IF open.stuck THEN open ELSE [open EXCEPT !.slot[s].socks = {}])
    BY <2>1, <2>2, <2>4, <2>7, <2>9
  <2>12. ~open.stuck => [open EXCEPT !.slot[s].socks = {}] = open
    <3> SUFFICES ASSUME ~open.stuck PROVE [open EXCEPT !.slot[s].socks = {}] = open
      OBVIOUS
    <3>1. PICK x : x = Spent(b, special)
      OBVIOUS
    <3>2. x \in After(c, H, {}, {s}, special)
      BY <1>4, <2>8, <3>1, SpentAfter
    <3>3. x \in Holdings(H)
      BY <3>2 DEF After
    <3>4. open.slot[s].socks = {}
      <4>1. CASE x.stuck
        BY <2>9, <3>1, <4>1 DEF Changed
      <4>2. CASE ~x.stuck
        <5>1. PICK y : y = [x EXCEPT !.slot[s] = j]
          OBVIOUS
        <5>2. y.slot[s] = j /\ y.slot = [x.slot EXCEPT ![s] = j]
          BY <1>2, <3>3, <5>1 DEF Holdings
        <5>3. open = Save(y, s)
          BY <2>9, <3>1, <4>2, <5>1 DEF Changed
        <5>4. open.slot = y.slot
          BY <3>3, <5>1, <5>3 DEF Save, Holdings
        <5> QED
          BY <2>6, <5>2, <5>4
      <4> QED
        BY <4>1, <4>2
    <3>5. open \in Holdings(H) /\ open.slot[s] \in ItemRecs(Nat)
      BY <1>2, <2>10 DEF After, Holdings, FitItems
    <3>6. [open.slot[s] EXCEPT !.socks = {}] = open.slot[s]
      BY <3>4, <3>5 DEF ItemRecs
    <3> QED
      BY <3>5, <3>6 DEF Holdings
  <2>13. Runs(open)
    BY <2>11, <2>12
  <2> QED
    BY <2>10, <2>13, Made, SMTT(30)
<1>9. Runs(Save(c, s))
      \/ Runs(Changed(Spent(c, special), s, [item EXCEPT !.sockets = 0, !.socks = {}]))
      \/ \E n \in 1..(MaxSockets - 1), more \in 0..2 :
           LET open == Opened(Min({n + more, MaxSockets}))
           IN /\ item.sockets = 0
              /\ Runs(IF open.stuck THEN open ELSE [open EXCEPT !.slot[s].socks = {}])
  <2>1. (1..2) \subseteq 0..2 /\ {0} \subseteq 0..2
    OBVIOUS
  <2>2. PICK mile : mile = (\E t \in special : TypeAt(c, t) = "mile")
    OBVIOUS
  <2>3. (IF mile THEN 1..2 ELSE {0}) \subseteq 0..2
    BY <2>1
  <2> HIDE DEF Opened
  <2> QED
    BY <1>1, <2>2, <2>3 DEF CreateSocket, Opened
<1> QED
  BY <1>6, <1>7, <1>8, <1>9

\* UpgradeSocket: codes go only in sockets that are open.
LEMMA UpgradeSocketSound ==
  ASSUME NEW m, Sound(c, {}, m), NEW s \in Filled(c), NEW stone \in Filled(c),
         NEW special \in SUBSET Filled(c), NEW edit \in SUBSET Filled(c),
         \A t \in special \cup edit : TypeAt(c, t) \in Aids, NEW locks,
         UpgradeSocket(s, stone, special, edit, locks)
  PROVE  Sound(c', {}, m)
<1>1. PICK item : item = c.slot[s]
  OBVIOUS
<1>2. s \in Slots /\ item \in FitItems /\ item.kind = KindOf(c, s) /\ item.kind # 0
  BY <1>1, FilledFacts
<1>3. item \in ItemRecs(Nat) /\ item.sockets \in 0..MaxSockets
      /\ item.socks \cup (1..item.sockets \ locks) \in SUBSET (1..item.sockets)
  BY <1>2, ItemFields DEF FitItems
<1> DEFINE D == {stone} \cup special \cup edit
<1>4. TypeAt(c, stone) = "stone"
  BY DEF UpgradeSocket
<1>5. D \in SUBSET Slots /\ \A t \in D : TypeAt(c, t) \notin Switched
  BY <1>4, AidsIdle
<1>6. {stone} \in SUBSET D /\ special \in SUBSET D /\ edit \in SUBSET D
  OBVIOUS
<1> HIDE DEF D
<1>7. PICK coded : coded = [item EXCEPT !.socks = item.socks \cup (1..item.sockets \ locks)]
  OBVIOUS
<1>8. coded = [item EXCEPT !.sockets = item.sockets,
                           !.socks = item.socks \cup (1..item.sockets \ locks)]
  BY <1>3, <1>7 DEF ItemRecs
<1>9. coded \in FitRows /\ coded.kind = item.kind /\ (coded.on <=> item.on)
  <2>1. PICK S : S = item.socks \cup (1..item.sockets \ locks)
    OBVIOUS
  <2>2. Resembles(coded, item)
    BY <1>2, <1>3, <1>8, <2>1, SocketShapes
  <2> QED
    BY <2>2 DEF Resembles
<1>10. PICK b : b = LootGold(c, -Fee[item.kind])
  OBVIOUS
<1>11. PICK H : b \in After(c, H, {}, {}, D)
  BY <1>5, <1>10, Begun
<1>12. b.slot = c.slot
  BY <1>5, <1>10, Begun
<1>13. PICK paid : paid = Changed(b, s, coded)
  OBVIOUS
<1>14. paid \in After(c, H, {}, {}, D)
  BY <1>1, <1>2, <1>5, <1>9, <1>11, <1>12, <1>13, ChangedAfter DEF KindOf
<1>15. Spent(Spent(Spent(paid, {stone}), special), edit) \in After(c, H, {}, {}, D)
  BY <1>5, <1>6, <1>14, SpentThrice
<1>16. Runs(Spent(Spent(Spent(paid, {stone}), special), edit))
  BY <1>1, <1>7, <1>10, <1>13 DEF UpgradeSocket
<1> QED
  BY <1>15, <1>16, Made

\* Holy water: another code comes in a place that has one.
LEMMA HolyWaterUpgradeSound ==
  ASSUME NEW m, Sound(c, {}, m), NEW s \in Filled(c), NEW water \in Filled(c),
         HolyWaterUpgrade(s, water)
  PROVE  Sound(c', {}, m)
<1>1. PICK item : item = c.slot[s]
  OBVIOUS
<1>2. /\ s \in Slots /\ water \in Slots /\ item \in FitItems /\ c \in Holdings(0..MaxGold)
      /\ item \in ItemRecs(Nat) /\ item.codes = 1..item.plus
  BY <1>1, FilledFacts, ItemFields DEF FitItems, Sound, Kept
<1>3. PICK i \in 1..item.plus :
        Runs(Save(RemoveItem([c EXCEPT !.slot[s].codes = c.slot[s].codes \cup {i}], water), s))
  BY <1>1 DEF HolyWaterUpgrade
<1>4. [c EXCEPT !.slot[s].codes = c.slot[s].codes \cup {i}] = c
  <2>1. item.codes \cup {i} = item.codes
    BY <1>2
  <2>2. [item EXCEPT !.codes = item.codes] = item
    BY <1>2 DEF ItemRecs
  <2> QED
    BY <1>1, <1>2, <2>1, <2>2 DEF Holdings
<1>5. c \in After(c, 0..MaxGold, {}, {}, {}) /\ {} \in SUBSET Slots /\ {} \subseteq {} \cup {s}
  BY Begun
<1>6. PICK x : x = RemoveItem(c, water)
  OBVIOUS
<1>7. x \in After(c, 0..MaxGold, {}, {}, {})
  BY <1>2, <1>5, <1>6, RemoveItemAfter
<1>8. Save(x, s) \in After(c, 0..MaxGold, {}, {}, {})
  BY <1>2, <1>5, <1>7, SaveAfter
<1> QED
  BY <1>3, <1>4, <1>6, <1>8, Made

\* Enchanting: the materials go before it is known that there is room.
LEMMA EnchantSound ==
  ASSUME NEW m, Sound(c, {}, m), NEW k \in Kinds, NEW materials \in SUBSET Filled(c),
         Enchant(k, materials)
  PROVE  Sound(c', {}, m)
<1>1. PICK book : book = Min(FindItemInInventory(c, k))
  OBVIOUS
<1>2. book \in Slots /\ KindOf(c, book) = k /\ TypeAt(c, book) = "enchant"
  <2>1. FindItemInInventory(c, k) # {} /\ Type[k] = "enchant"
    BY DEF Enchant
  <2>2. book \in Has(c, k)
    BY <1>1, <2>1, FoundFacts
  <2>3. book \in Slots /\ KindOf(c, book) = k /\ k # 0
    BY <2>2, HasFacts, GoodsFacts
  <2> QED
    BY <2>1, <2>3 DEF TypeAt
<1> DEFINE fusions == {s \in Slots : TypeAt(c, s) = "fusion"}
<1>3. PICK fusion : fusion = Min(fusions)
  OBVIOUS
<1>4. fusion \in Slots /\ TypeAt(c, fusion) = "fusion"
  <2>1. fusions # {} /\ fusions \subseteq Slots
    BY DEF Enchant
  <2>2. fusions \subseteq Nat /\ IsFiniteSet(fusions)
    BY <2>1, GoodsFacts, FS_Subset
  <2>3. fusion \in fusions
    <3> HIDE DEF fusions
    <3> QED
      BY <1>3, <2>1, <2>2, MinIn
  <2> QED
    BY <2>3
<1> DEFINE D == {book, fusion} \cup materials
<1>5. D \in SUBSET Slots /\ \A t \in D : TypeAt(c, t) \notin Switched
  <2>1. \A t \in materials : TypeAt(c, t) \notin Switched
    <3>1. \A t \in materials : KindOf(c, t) \in Needs[k]
      BY DEF Enchant
    <3> QED
      BY <3>1, FilledFacts, WorkshopAssumption
  <2>2. TypeAt(c, book) \notin Switched /\ TypeAt(c, fusion) \notin Switched
    BY <1>2, <1>4 DEF Switched
  <2> QED
    BY <1>2, <1>4, <2>1, <2>2, FilledFacts
<1>6. {book, fusion} \in SUBSET D /\ materials \in SUBSET D /\ {} \in SUBSET D
  OBVIOUS
<1> HIDE DEF D
<1>7. c \in After(c, 0..MaxGold, {}, {}, D)
  BY <1>5, Begun
<1>8. PICK begun : begun = Spent(c, {book, fusion})
  OBVIOUS
<1>9. begun \in After(c, 0..MaxGold, {}, {}, D)
  BY <1>5, <1>6, <1>7, <1>8, SpentThrice
<1>10. PICK x : x = Spent(begun, materials)
  OBVIOUS
<1>11. x \in After(c, 0..MaxGold, {}, {}, D)
  BY <1>5, <1>6, <1>9, <1>10, SpentThrice
<1>12. x \in After(c, 0..MaxGold, {}, {}, {})
  <2>1. (0..MaxGold) \subseteq 0..MaxGold /\ {} \subseteq {} /\ {} \in SUBSET {} /\ {} \in SUBSET D
    OBVIOUS
  <2> QED
    BY <1>11, <2>1, AfterLess
<1>13. PICK i : i = NewItem(Makes[k], 1)
  OBVIOUS
<1>14. i \in Offers
  BY <1>13, NewItemOffered, WorkshopAssumption
<1>15. AddItem(x, i) \in After(c, 0..MaxGold, {}, {}, {})
  BY <1>12, <1>14, AddItemAfter
<1>16. Runs(begun) \/ Runs(AddItem(x, i))
  BY <1>1, <1>3, <1>8, <1>10, <1>13 DEF Enchant
<1> QED
  BY <1>9, <1>15, <1>16, Made

\* A chest makes a master's piece, with the enhancement or without it.
LEMMA ClothImproveChestSound ==
  ASSUME NEW m, Sound(c, {}, m), NEW s \in Filled(c), NEW chest \in Filled(c),
         ClothImproveChest(s, chest)
  PROVE  Sound(c', {}, m)
<1>1. PICK item : item = c.slot[s]
  OBVIOUS
<1>2. /\ s \in Slots /\ chest \in Slots /\ item \in FitItems /\ item \in ItemRecs(Nat)
      /\ item.kind \in Kinds /\ {} \in SUBSET Slots
  BY <1>1, FilledFacts DEF FitItems
<1>3. c \in After(c, 0..MaxGold, {}, {}, {})
  BY Begun
<1>4. CASE Runs(RemoveItem(c, chest))
  <2>1. RemoveItem(c, chest) \in After(c, 0..MaxGold, {}, {}, {})
    BY <1>2, <1>3, RemoveItemAfter
  <2> QED
    BY <1>4, <2>1, Made
<1>5. PICK master : master = IF item.kind \in Faithful THEN KeptMaster(item) ELSE FreshMaster(item)
  OBVIOUS
<1>6. CASE Master[item.kind] # 0 /\ Runs(Gone(AddItem(c, master), {s, chest}))
  <2>1. Master[item.kind] \in Kinds
    BY <1>2, <1>6, WorkshopAssumption
  <2>2. KeptMaster(item) \in Offers
    <3>1. PICK i : i = KeptMaster(item)
      OBVIOUS
    <3>2. i \in ItemRecs(Nat)
      BY <1>2, <2>1, <3>1 DEF KeptMaster, ItemRecs
    <3>3. /\ i.kind = Master[item.kind] /\ i.on = FALSE /\ i.plus = item.plus /\ i.codes = item.codes
          /\ i.sockets = item.sockets /\ i.socks = item.socks
      BY <1>2, <3>1 DEF KeptMaster, ItemRecs
    <3>4. PICK j : j = [i EXCEPT !.id = TRUE]
      OBVIOUS
    <3>5. /\ j \in ItemRecs(Nat) /\ j.kind = i.kind /\ j.on = i.on /\ j.plus = i.plus
          /\ j.codes = i.codes /\ j.sockets = i.sockets /\ j.socks = i.socks /\ j.id = TRUE
      BY <3>2, <3>4 DEF ItemRecs
    <3>6. j.kind # 0
      BY <1>6, <3>3, <3>5
    <3>7. j \in FitRows
      BY <1>2, <3>3, <3>5, <3>6, ItemFields DEF FitRows, FitItems
    <3> QED
      BY <3>1, <3>2, <3>3, <3>4, <3>7 DEF Offers
  <2>3. FreshMaster(item) \in Offers
    BY <2>1, NewItemOffered DEF FreshMaster
  <2>4. master \in Offers
    BY <1>5, <2>2, <2>3
  <2>5. PICK x : x = AddItem(c, master)
    OBVIOUS
  <2>6. x \in After(c, 0..MaxGold, {}, {}, {})
    BY <1>2, <1>3, <2>4, <2>5, AddItemAfter
  <2>7. PICK S : S = {s, chest}
    OBVIOUS
  <2>8. Gone(x, S) \in After(c, 0..MaxGold, {}, {}, {})
    BY <1>2, <2>6, <2>7, GoneAfter
  <2> QED
    BY <1>6, <2>5, <2>7, <2>8, Made
<1> QED
  BY <1>1, <1>4, <1>5, <1>6 DEF ClothImproveChest

\* EnhancementTransfer: plus and codes go together from one item to another.
LEMMA EnhancementTransferSound ==
  ASSUME NEW m, Sound(c, {}, m), NEW s \in Filled(c), NEW t \in Filled(c),
         NEW scroll \in Filled(c), EnhancementTransfer(s, t, scroll)
  PROVE  Sound(c', {}, m)
<1>1. PICK from, j : from = c.slot[s] /\ j = c.slot[t]
  OBVIOUS
<1>2. /\ s \in Slots /\ t \in Slots /\ scroll \in Slots /\ {} \in SUBSET Slots
      /\ from \in FitItems /\ j \in FitItems /\ j.kind = KindOf(c, t) /\ j.kind # 0
  BY <1>1, FilledFacts
<1>3. from.plus \in 0..MaxPlus /\ from.codes = 1..from.plus /\ from.sockets \in 0..MaxSockets
      /\ from.socks \in SUBSET (1..from.sockets)
  BY <1>2, ItemFields
<1>4. PICK i : i = [j EXCEPT !.plus = from.plus, !.codes = from.codes,
                             !.sockets = from.sockets, !.socks = from.socks]
  OBVIOUS
<1>5. i \in FitRows /\ i.kind = j.kind /\ (i.on <=> j.on)
  <2>1. i = Shaped(j, from.plus, from.sockets, from.socks)
    BY <1>2, <1>3, <1>4 DEF Shaped
  <2> QED
    BY <1>2, <1>3, <2>1, Reshaped DEF Resembles
<1>6. c \in After(c, 0..MaxGold, {}, {}, {})
  BY Begun
<1>7. PICK x : x = Changed(c, t, i)
  OBVIOUS
<1>8. x \in After(c, 0..MaxGold, {}, {}, {})
  BY <1>1, <1>2, <1>5, <1>6, <1>7, ChangedAfter
<1>9. PICK S : S = {s, scroll}
  OBVIOUS
<1>10. Gone(x, S) \in After(c, 0..MaxGold, {}, {}, {})
  BY <1>2, <1>8, <1>9, GoneAfter
<1>11. Runs(Gone(x, S))
  BY <1>1, <1>4, <1>7, <1>9 DEF EnhancementTransfer
<1> QED
  BY <1>10, <1>11, Made

\* TransferItemType: what changes its looks is not switched on and off.
LEMMA TransferItemTypeSound ==
  ASSUME NEW m, Sound(c, {}, m), NEW s \in Filled(c), NEW charm \in Filled(c) \ {s},
         TransferItemType(s, charm)
  PROVE  Sound(c', {}, m)
<1>1. PICK k : k = KindOf(c, s)
  OBVIOUS
<1>2. /\ s \in Slots /\ charm \in Slots \ {s} /\ k \in Kinds /\ TypeAt(c, s) = Type[k]
      /\ {s} \in SUBSET Slots /\ {} \in SUBSET Slots
  BY <1>1, FilledFacts
<1>3. TypeAt(c, charm) = "pair" /\ Pair[k] # 0
  BY <1>1 DEF TransferItemType
<1>4. Pair[k] \in Kinds /\ Type[k] \notin Switched /\ Type[Pair[k]] \notin Switched
  BY <1>2, <1>3, WorkshopAssumption
<1>5. c \in After(c, 0..MaxGold, {}, {s}, {})
  BY <1>2, StartAfter DEF Sound
<1>6. PICK paid : paid = DecrementItem(c, charm, 1)
  OBVIOUS
<1>7. paid \in After(c, 0..MaxGold, {}, {s}, {})
  <2>1. TypeAt(c, charm) \notin Switched /\ charm \notin {s}
    BY <1>2, <1>3 DEF Switched
  <2> QED
    BY <1>2, <1>5, <1>6, <2>1, DecrementAfter
<1>8. KindOf(paid, s) = k /\ ~paid.slot[s].on /\ paid.slot[s] \in FitItems
  BY <1>1, <1>2, <1>4, <1>7, SlotFacts, GearOff
<1>9. paid \in After(c, 0..MaxGold, {}, {}, {})
  <2>1. (0..MaxGold) \subseteq 0..MaxGold /\ {} \subseteq {} /\ {} \in SUBSET {s} /\ {} \in SUBSET {}
    OBVIOUS
  <2> QED
    BY <1>7, <2>1, AfterLess
<1>10. PICK i : i = [paid.slot[s] EXCEPT !.kind = Pair[k]]
  OBVIOUS
<1>11. i \in FitRows /\ ~i.on /\ i.kind = Pair[k]
  <2>1. PICK j : j = paid.slot[s]
    OBVIOUS
  <2>2. j \in FitItems /\ j \in ItemRecs(Nat) /\ j.kind # 0 /\ j.on = FALSE
    BY <1>2, <1>8, <2>1, ItemFields, GoodsFacts DEF FitItems, KindOf
  <2>3. i \in ItemRecs(Nat)
    BY <1>4, <1>10, <2>1, <2>2 DEF ItemRecs
  <2>4. /\ i.kind = Pair[k] /\ i.on = FALSE /\ i.plus = j.plus /\ i.codes = j.codes
        /\ i.sockets = j.sockets /\ i.socks = j.socks /\ i.id = j.id
    BY <1>10, <2>1, <2>2 DEF ItemRecs
  <2> QED
    BY <1>3, <2>2, <2>3, <2>4, ItemFields DEF FitRows, FitItems
<1>12. PICK x : x = [paid EXCEPT !.slot[s] = i]
  OBVIOUS
<1>13. x \in After(c, 0..MaxGold, {s}, {}, {})
  <2>1. paid.slot[s].kind # 0 /\ ~IsForm(paid, s) /\ {} \cup {s} \subseteq {s}
    BY <1>2, <1>8, GoodsFacts DEF IsForm, KindOf
  <2> QED
    BY <1>2, <1>9, <1>11, <1>12, <2>1, EditAfter
<1>14. Save(x, s) \in After(c, 0..MaxGold, {}, {}, {})
  <2>1. {s} \subseteq {} \cup {s}
    OBVIOUS
  <2> QED
    BY <1>2, <1>13, <2>1, SaveAfter
<1>15. Changed(paid, s, i) \in After(c, 0..MaxGold, {}, {}, {})
  BY <1>9, <1>12, <1>14 DEF Changed
<1>16. Runs(Changed(paid, s, i))
  BY <1>1, <1>6, <1>10 DEF TransferItemType
<1> QED
  BY <1>15, <1>16, Made

\* ChangePetName uses up its scroll.
LEMMA ChangePetNameSound ==
  ASSUME NEW m, Sound(c, {}, m), NEW s \in Filled(c), ChangePetName(s)
  PROVE  Sound(c', {}, m)
<1>1. c \in After(c, 0..MaxGold, {}, {}, {}) /\ s \in Slots /\ {} \in SUBSET Slots
  BY Begun, FilledFacts
<1>2. RemoveItem(c, s) \in After(c, 0..MaxGold, {}, {}, {})
  BY <1>1, RemoveItemAfter
<1> QED
  BY <1>2, Made DEF ChangePetName

\* Bought for coins: they are spent from as many stacks as it takes.
LEMMA BuyForCoinsSound ==
  ASSUME NEW m, Sound(c, {}, m), NEW k \in Kinds, NEW n \in 1..MaxQty,
         NEW to \in FindFreeSlots(c), BuyForCoins(k, n, to)
  PROVE  Sound(c', {}, m)
<1>1. PICK coin : coin = Min(CoinSlot(k))
  OBVIOUS
<1>2. coin \in CoinSlot(k)
  <2>1. \A q \in Coin[k] : \A t \in FindItemInInventory(c, q) : t \in Has(c, q)
    BY HasFacts DEF FindItemInInventory
  <2>2. CoinSlot(k) \subseteq Slots
    BY <2>1, HasFacts DEF CoinSlot
  <2>3. CoinSlot(k) \subseteq Nat /\ IsFiniteSet(CoinSlot(k)) /\ CoinSlot(k) # {}
    BY <2>2, GoodsFacts, FS_Subset DEF BuyForCoins
  <2> QED
    BY <1>1, <2>3, MinIn
<1>3. PICK q \in Coin[k] : coin \in Has(c, q)
  BY <1>2, HasFacts DEF CoinSlot, FindItemInInventory
<1>4. coin \in Slots /\ KindOf(c, coin) = q /\ q \in Kinds /\ Type[q] \notin Switched
  BY <1>3, HasFacts, WorkshopAssumption
<1>5. TypeAt(c, coin) \notin Switched /\ KindOf(c, coin) # 0
  BY <1>4, GoodsFacts DEF TypeAt
<1>6. PICK cost : cost = Fee[k] * n
  OBVIOUS
<1>7. cost \in Nat /\ n \in Nat
  <2>1. Fee[k] \in Nat /\ n \in Nat
    BY WorkshopAssumption
  <2> QED
    BY <1>6, <2>1
<1>8. c \in After(c, 0..MaxGold, {}, {}, {}) /\ {} \in SUBSET Slots /\ {} \in SUBSET Filled(c)
  BY Begun
<1>9. PICK x : x = DecrementItem(c, coin, cost)
  OBVIOUS
<1>10. x \in After(c, 0..MaxGold, {}, {}, {})
  BY <1>4, <1>5, <1>7, <1>8, <1>9, DecrementAfter
<1>11. AddItemAt(x, to, NewItem(k, n)) \in After(c, 0..MaxGold, {}, {}, {})
  BY <1>7, <1>8, <1>10, PutAfter
<1>12. Runs(AddItemAt(x, to, NewItem(k, n)))
  BY <1>1, <1>6, <1>9 DEF BuyForCoins
<1> QED
  BY <1>11, <1>12, Made

\* Bought for gold.
LEMMA BuyForGoldSound ==
  ASSUME NEW m, Sound(c, {}, m), NEW k \in Kinds, NEW n \in 1..MaxQty,
         NEW to \in FindFreeSlots(c), BuyForGold(k, n, to)
  PROVE  Sound(c', {}, m)
<1>1. PICK x : x = LootGold(c, Tenth(c, Fee[k] * n) - Fee[k] * n)
  OBVIOUS
<1>2. PICK H : x \in After(c, H, {}, {}, {})
  BY <1>1, Begun
<1>3. Runs(AddItemAt(x, to, NewItem(k, n))) /\ n \in Nat
  BY <1>1 DEF BuyForGold
<1>4. {} \in SUBSET Filled(c)
  OBVIOUS
<1>5. AddItemAt(x, to, NewItem(k, n)) \in After(c, H, {}, {}, {})
  BY <1>2, <1>3, <1>4, PutAfter
<1> QED
  BY <1>3, <1>5, Made

\* SellItem: the slot is emptied, and gold comes.
LEMMA SellItemSound ==
  ASSUME NEW m, Sound(c, {}, m), NEW s \in Filled(c), NEW n, SellItem(s, n)
  PROVE  Sound(c', {}, m)
<1>1. PICK amount : Runs(RemoveItem(LootGold(c, amount), s))
  BY DEF SellItem
<1>2. PICK x : x = LootGold(c, amount)
  OBVIOUS
<1>3. PICK H : x \in After(c, H, {}, {}, {})
  BY <1>2, Begun
<1>4. s \in Slots /\ {} \in SUBSET Slots
  BY FilledFacts
<1>5. RemoveItem(x, s) \in After(c, H, {}, {}, {})
  BY <1>3, <1>4, RemoveItemAfter
<1> QED
  BY <1>1, <1>2, <1>5, Made

\* No handler of the workshop disturbs what is sound, while nobody is about to switch on
\* anything.
LEMMA WorkshopSound ==
  ASSUME NEW m, Sound(c, {}, m), shop \subseteq Kinds, WorkshopNext
  PROVE  Sound(c', {}, m)
<1> DEFINE Stones(s) == {t \in Filled(c) \ {s} : TypeAt(c, t) = "stone"}
           Helpers(s) == {t \in Filled(c) \ {s} : TypeAt(c, t) \in Aids}
<1>1. \A s \in Filled(c), special \in SUBSET Filled(c) :
        special \in Maybe(Helpers(s)) =>
          special \in SUBSET (Filled(c) \ {s}) /\ \A t \in special : TypeAt(c, t) \in Aids
  BY DEF Maybe
<1>2. \A s \in Filled(c) : Maybe(Helpers(s)) \subseteq SUBSET Filled(c)
  BY DEF Maybe
<1>3. ASSUME NEW s \in Filled(c), NEW stones \in SUBSET Stones(s), NEW luck \in Maybe(Helpers(s)),
             NEW scale \in Maybe(Helpers(s)), Strengthen(s, stones, luck, scale)
      PROVE  Sound(c', {}, m)
  <2>1. stones \in SUBSET Filled(c) /\ \A t \in stones : TypeAt(c, t) \in Aids \cup {"stone"}
    OBVIOUS
  <2>2. luck \in SUBSET Filled(c) /\ scale \in SUBSET Filled(c)
    BY <1>2
  <2>3. \A t \in luck \cup scale : TypeAt(c, t) \in Aids
    BY <1>1, <2>2
  <2> QED
    BY <1>3, <2>1, <2>2, <2>3, StrengthenSound
<1>4. ASSUME NEW s \in Filled(c), NEW parts \in SUBSET (Filled(c) \ {s}),
             NEW special \in Maybe(Helpers(s)), NEW to \in FindFreeSlots(c),
             Production(s, parts, special, to) \/ AdvancedFusion(s, parts, special, to)
      PROVE  Sound(c', {}, m)
  <2>1. parts \in SUBSET Filled(c) /\ special \in SUBSET Filled(c)
    BY <1>2
  <2>2. \A t \in special : TypeAt(c, t) \in Aids
    BY <1>1, <2>1
  <2> QED
    BY <1>4, <2>1, <2>2, ProductionSound, AdvancedFusionSound
<1>5. ASSUME NEW s \in Filled(c), NEW special \in Maybe(Helpers(s)),
             Dismantle(s, special) \/ Extraction(s, special) \/ CreateSocket(s, special)
      PROVE  Sound(c', {}, m)
  <2>1. special \in SUBSET Filled(c)
    BY <1>2
  <2>2. special \in SUBSET (Filled(c) \ {s}) /\ \A t \in special : TypeAt(c, t) \in Aids
    BY <1>1, <2>1
  <2> QED
    BY <1>5, <2>1, <2>2, DismantleSound, ExtractionSound, CreateSocketSound
<1>6. ASSUME NEW s \in Filled(c), NEW special \in Maybe(Helpers(s)), NEW stone \in Stones(s),
             NEW edit \in Maybe(Helpers(s) \ special), NEW locks,
             UpgradeSocket(s, stone, special, edit, locks)
      PROVE  Sound(c', {}, m)
  <2>1. edit \in Maybe(Helpers(s))
    BY DEF Maybe
  <2>2. special \in SUBSET Filled(c) /\ edit \in SUBSET Filled(c) /\ stone \in Filled(c)
    BY <1>2, <2>1
  <2>3. \A t \in special \cup edit : TypeAt(c, t) \in Aids
    BY <1>1, <2>1, <2>2
  <2> QED
    BY <1>6, <2>2, <2>3, UpgradeSocketSound
<1>7. ASSUME NEW s \in Filled(c), NEW parts \in SUBSET (Filled(c) \ {s}),
             Enchant(KindOf(c, s), parts)
      PROVE  Sound(c', {}, m)
  <2>1. KindOf(c, s) \in Kinds /\ parts \in SUBSET Filled(c)
    BY FilledFacts
  <2> QED
    BY <1>7, <2>1, EnchantSound
<1>8. ASSUME NEW s \in Filled(c), NEW t \in Filled(c) \ {s},
             \/ HolyWaterUpgrade(s, t) \/ ClothImproveChest(s, t) \/ TransferItemType(s, t)
             \/ \E to \in Filled(c) \ {t} : EnhancementTransfer(s, to, t)
      PROVE  Sound(c', {}, m)
  BY <1>8, HolyWaterUpgradeSound, ClothImproveChestSound, TransferItemTypeSound,
     EnhancementTransferSound
<1>9. ASSUME NEW s \in Filled(c), ChangePetName(s) \/ \E n \in 1..MaxQty : SellItem(s, n)
      PROVE  Sound(c', {}, m)
  BY <1>9, ChangePetNameSound, SellItemSound
<1>10. ASSUME NEW k \in shop, NEW to \in FindFreeSlots(c),
              \/ \E n \in 1..MaxQty : BuyForCoins(k, n, to) \/ BuyForGold(k, n, to)
              \/ BuyHTItem(k, to)
       PROVE  Sound(c', {}, m)
  <2>1. k \in Kinds
    OBVIOUS
  <2>2. CASE \E n \in 1..MaxQty : BuyForCoins(k, n, to) \/ BuyForGold(k, n, to)
    BY <2>1, <2>2, BuyForCoinsSound, BuyForGoldSound
  <2>3. CASE BuyHTItem(k, to)
    <3>1. c \in After(c, 0..MaxGold, {}, {}, {}) /\ {} \in SUBSET Filled(c)
      BY Begun
    <3>2. AddItemAt(c, to, NewItem(k, 1)) \in After(c, 0..MaxGold, {}, {}, {})
      BY <2>1, <3>1, PutAfter
    <3> QED
      BY <2>3, <3>2, Made DEF BuyHTItem
  <2> QED
    BY <1>10, <2>2, <2>3
<1> QED
  BY <1>3, <1>4, <1>5, <1>6, <1>7, <1>8, <1>9, <1>10 DEF WorkshopNext

-----------------------------------------------------------------------------
(* The NPCs *)

\* Gold, and a sequence of gifts, for who has it.
LEMMA GiftsGiven ==
  ASSUME NEW m, Sound(c, {}, m), NEW G, NEW x \in After(c, G, {}, {}, {}), NEW ks \in Seq(Kinds),
         Runs(GivenKinds(x, ks))
  PROVE  Sound(c', {}, m)
<1>1. GivenKinds(x, ks) \in After(c, G, {}, {}, {})
  BY GivenKindsAfter
<1> QED
  BY <1>1, Made

\* What an NPC gives are kinds.
LEMMA GiftsAreKinds ==
  ASSUME NEW giver \in Givers, NEW i \in DOMAIN Gifts[giver]
  PROVE  Gifts[giver][i] \in Kinds
BY NpcAssumption

\* With a buff less, or one that is not of the spirits.
LEMMA BuffChanged ==
  ASSUME NEW G, NEW x \in After(c, G, {}, {}, {})
  PROVE  /\ \A f : [x EXCEPT !.buffs = x.buffs \ {f}] \in After(c, G, {}, {}, {})
         /\ \A f \in {"reborn", "blessing", "welcome"} :
              [x EXCEPT !.buffs = x.buffs \cup {f}] \in After(c, G, {}, {}, {})
<1>1. x.buffs \in Spirits
  BY AfterFacts
<1>2. \A f : x.buffs \ {f} \in Spirits
  BY <1>1 DEF Spirits
<1>3. \A f \in {"reborn", "blessing", "welcome"} : x.buffs \cup {f} \in Spirits
  BY <1>1 DEF Spirits, Buffs
<1> QED
  BY <1>2, <1>3, BuffsAfter

\* A class comes with its books.
LEMMA PromotedSound ==
  ASSUME NEW m, Sound(c, {}, m), NEW class \in {"first", "second", "divine", "god"},
         Promoted(c, class)
  PROVE  Sound(c', {}, m)
<1>1. Books[class] \in Seq(Kinds)
  BY NpcAssumption
<1>2. c \in After(c, 0..MaxGold, {}, {}, {})
  BY Begun
<1> QED
  BY <1>1, <1>2, GiftsGiven DEF Promoted

\* The way to the divine: the rows of what is offered go, and the slots keep it.
LEMMA BecomeDivineSound ==
  ASSUME NEW m, Sound(c, {}, m), BecomeDivine
  PROVE  Sound(c', {}, m)
<1>1. c \in After(c, 0..MaxGold, {}, {}, {}) /\ {} \in SUBSET Slots
  BY Begun
<1>2. PICK b : b = IF Offered("divine") THEN Burnt("divine") ELSE c
  OBVIOUS
<1>3. b \in After(c, 0..MaxGold, {}, {}, {})
  BY <1>1, <1>2, BurntAfter
<1>4. PICK x : x = [b EXCEPT !.buffs = b.buffs \ {"reborn"}]
  OBVIOUS
<1>5. x \in After(c, 0..MaxGold, {}, {}, {}) /\ Runs(x)
  BY <1>2, <1>3, <1>4, BuffChanged DEF BecomeDivine
<1> QED
  BY <1>5, Made

\* The way of the dark.
LEMMA BecomeDarkSound ==
  ASSUME NEW m, Sound(c, {}, m), BecomeDark
  PROVE  Sound(c', {}, m)
<1>1. c \in After(c, 0..MaxGold, {}, {}, {}) /\ {} \in SUBSET Slots /\ Offered("dark")
  BY Begun DEF BecomeDark
<1>2. Burnt("dark") \in After(c, 0..MaxGold, {}, {}, {})
  BY <1>1, BurntAfter
<1> QED
  BY <1>2, Made DEF BecomeDark

\* A rebirth, and the gifts of a welcome, come with a buff.
LEMMA BuffedGiftsSound ==
  ASSUME NEW m, Sound(c, {}, m), BeReborn \/ Welcome \/ Bless
  PROVE  Sound(c', {}, m)
<1>1. \E f \in {"reborn", "blessing", "welcome"} :
        LET x == [c EXCEPT !.buffs = c.buffs \cup {f}]
        IN Runs(x) \/ Runs(GivenKinds(x, Gifts["reborn"])) \/ Runs(GivenKinds(x, Gifts["welcome"]))
  BY DEF BeReborn, Welcome, Bless
<1>2. PICK f \in {"reborn", "blessing", "welcome"} : \E x :
        /\ x = [c EXCEPT !.buffs = c.buffs \cup {f}]
        /\ Runs(x) \/ Runs(GivenKinds(x, Gifts["reborn"])) \/ Runs(GivenKinds(x, Gifts["welcome"]))
  BY <1>1
<1>3. PICK x : /\ x = [c EXCEPT !.buffs = c.buffs \cup {f}]
               /\ \/ Runs(x) \/ Runs(GivenKinds(x, Gifts["reborn"]))
                  \/ Runs(GivenKinds(x, Gifts["welcome"]))
  BY <1>2
<1>4. x \in After(c, 0..MaxGold, {}, {}, {})
  BY <1>3, Begun, BuffChanged
<1>5. Gifts["reborn"] \in Seq(Kinds) /\ Gifts["welcome"] \in Seq(Kinds)
  BY NpcAssumption DEF Givers
<1> QED
  BY <1>3, <1>4, <1>5, Made, GiftsGiven

\* The gift of the day goes to a free place.
LEMMA CheckInSound ==
  ASSUME NEW m, Sound(c, {}, m), CheckIn
  PROVE  Sound(c', {}, m)
<1>1. PICK to : to = Min(FindFreeSlot(c))
  OBVIOUS
<1>2. to \in FindFreeSlots(c)
  BY <1>1, FreeFacts DEF CheckIn
<1>3. PICK k \in {Gifts["checkin"][i] : i \in DOMAIN Gifts["checkin"]}, n \in {1, MaxQty} :
        Runs(AddItemAt(c, to, NewItem(k, n)))
  BY <1>1 DEF CheckIn
<1>4. k \in Kinds /\ n \in Nat
  BY GiftsAreKinds, GoodsFacts DEF Givers
<1>5. c \in After(c, 0..MaxGold, {}, {}, {}) /\ {} \in SUBSET Filled(c)
  BY Begun
<1>6. AddItemAt(c, to, NewItem(k, n)) \in After(c, 0..MaxGold, {}, {}, {})
  BY <1>2, <1>4, <1>5, PutAfter
<1> QED
  BY <1>3, <1>6, Made

\* Two stones for one of the next plus.
LEMMA DoubleStonesSound ==
  ASSUME NEW m, Sound(c, {}, m), NEW k \in ByPlus, NEW p \in 1..(MaxPlus - 1), DoubleStones(k, p)
  PROVE  Sound(c', {}, m)
<1> DEFINE found == {s \in Has(c, k) : c.slot[s].plus = p}
<1>1. found # {}
  BY DEF DoubleStones, FindItemInInventoryByPlus
<1>2. PICK s : s = Min(FindItemInInventoryByPlus(c, k, p))
  OBVIOUS
<1>3. s \in Has(c, k)
  <2>1. found \subseteq Slots /\ IsFiniteSet(found) /\ found \subseteq Nat
    BY GoodsFacts, FS_Subset DEF Has
  <2>2. Min(found) \in found
    <3> HIDE DEF found
    <3> QED
      BY <1>1, <2>1, MinIn
  <2>3. PICK t : t = Min(found)
    OBVIOUS
  <2>4. t \in found /\ FindItemInInventoryByPlus(c, k, p) = {t}
    BY <1>1, <2>2, <2>3 DEF FindItemInInventoryByPlus
  <2>5. {t} \subseteq Nat /\ {t} # {} /\ IsFiniteSet({t})
    BY <2>1, <2>4, FS_Singleton
  <2>6. Min({t}) \in {t}
    BY <2>5, MinIn
  <2> QED
    BY <1>2, <2>4, <2>6
<1>4. s \in Slots /\ KindOf(c, s) = k /\ k \in Kinds /\ k # 0 /\ Type[k] = "stone"
  BY <1>3, HasFacts, GoodsFacts DEF ByPlus
<1>5. c.slot[s].qty \in Nat /\ TypeAt(c, s) \notin Switched
  <2>1. c.slot[s] \in FitItems
    BY <1>4 DEF Sound, Kept, Holdings
  <2> QED
    BY <1>4, <2>1, ItemFields DEF TypeAt, Switched
<1>6. PICK better : better = [Upgraded(k, p + 1) EXCEPT !.qty = c.slot[s].qty \div 2]
  OBVIOUS
<1>7. better \in Offers
  <2>1. p + 1 \in 0..MaxPlus /\ c.slot[s].qty \div 2 \in Nat
    BY <1>5, GoodsFacts
  <2>2. PICK u : u = Upgraded(k, p + 1)
    OBVIOUS
  <2>3. u \in Offers
    BY <1>4, <2>1, <2>2, UpgradedOffered
  <2>4. [u EXCEPT !.qty = c.slot[s].qty \div 2] \in Offers
    BY <2>1, <2>3, OfferFacts
  <2> QED
    BY <1>6, <2>2, <2>4
<1>8. c \in After(c, 0..MaxGold, {}, {} \cup {s}, {}) /\ {} \cup {s} \in SUBSET Slots
      /\ \A t \in {} \cup {s} : KindOf(c, t) # 0
  BY <1>4, StartsUp
<1>9. PICK x : x = AddItem(c, better)
  OBVIOUS
<1>10. x \in After(c, 0..MaxGold, {}, {} \cup {s}, {})
  BY <1>7, <1>8, <1>9, AddItemAfter
<1>11. DecrementItem(x, s, c.slot[s].qty) \in After(c, 0..MaxGold, {}, {}, {})
  BY <1>4, <1>5, <1>10, UpAfter
<1>12. Runs(DecrementItem(x, s, c.slot[s].qty))
  BY <1>2, <1>6, <1>9 DEF DoubleStones
<1> QED
  BY <1>11, <1>12, Made, SMTT(30)

\* Two stacks for a relic.
LEMMA MakeRelicSound ==
  ASSUME NEW m, Sound(c, {}, m), MakeRelic
  PROVE  Sound(c', {}, m)
<1>1. PICK S : S = {Min(Has(c, k)) : k \in Relics.takes}
  OBVIOUS
<1>2. S \in SUBSET Slots /\ {} \in SUBSET Slots
  BY <1>1, HasFacts DEF MakeRelic
<1>3. c \in After(c, 0..MaxGold, {}, {}, {})
  BY Begun
<1>4. PICK x : x = Gone(c, S)
  OBVIOUS
<1>5. x \in After(c, 0..MaxGold, {}, {}, {})
  BY <1>2, <1>3, <1>4, GoneAfter
<1>6. Runs(x) \/ Runs(GivenKinds(x, Relics.gives))
  BY <1>1, <1>4 DEF MakeRelic
<1>7. Relics.gives \in Seq(Kinds)
  BY NpcAssumption
<1> QED
  BY <1>5, <1>6, <1>7, Made, GiftsGiven

\* One of each for a set.
LEMMA ExchangeSound ==
  ASSUME NEW m, Sound(c, {}, m), NEW x \in Exchanges, Exchange(x)
  PROVE  Sound(c', {}, m)
<1>1. PICK S : S = {Min(Has(c, k)) : k \in x.takes}
  OBVIOUS
<1>2. S \in SUBSET Slots /\ \A t \in S : TypeAt(c, t) \notin Switched
  <2>1. \A k \in x.takes : Min(Has(c, k)) \in Has(c, k) /\ k \in Kinds /\ Type[k] \notin Switched
    BY HasFacts, NpcAssumption DEF Exchange
  <2>2. \A k \in x.takes : Min(Has(c, k)) \in Slots /\ TypeAt(c, Min(Has(c, k))) = Type[k]
    BY <2>1, HasFacts, GoodsFacts DEF TypeAt
  <2> QED
    BY <1>1, <2>1, <2>2
<1>3. c \in After(c, 0..MaxGold, {}, {}, S)
  BY <1>2, Begun
<1>4. PICK y : y = Spent(c, S)
  OBVIOUS
<1>5. y \in After(c, 0..MaxGold, {}, {}, S)
  BY <1>2, <1>3, <1>4, SpentThrice
<1>6. y \in After(c, 0..MaxGold, {}, {}, {})
  <2>1. (0..MaxGold) \subseteq 0..MaxGold /\ {} \subseteq {} /\ {} \in SUBSET {} /\ {} \in SUBSET S
    OBVIOUS
  <2> QED
    BY <1>5, <2>1, AfterLess
<1>7. PICK gives \in x.gives : Runs(GivenKinds(y, gives))
  BY <1>1, <1>4 DEF Exchange, HandIn
<1>8. gives \in Seq(Kinds)
  BY NpcAssumption
<1> QED
  BY <1>6, <1>7, <1>8, GiftsGiven

\* A ticket is used up, and a sword is taken whole.
LEMMA EnterSound ==
  ASSUME NEW m, Sound(c, {}, m), EnterDungeon \/ EnterByDemon
  PROVE  Sound(c', {}, m)
<1>1. c \in After(c, 0..MaxGold, {}, {}, {}) /\ {} \in SUBSET Slots
  BY Begun
<1>2. CASE EnterDungeon
  <2>1. PICK i \in DOMAIN Gifts["tickets"] :
          /\ Has(c, Gifts["tickets"][i]) # {}
          /\ Runs(DecrementItem(c, Min(Has(c, Gifts["tickets"][i])), 1))
    BY <1>2 DEF EnterDungeon
  <2>2. PICK k, s : k = Gifts["tickets"][i] /\ s = Min(Has(c, k))
    OBVIOUS
  <2>3. k \in Kinds /\ Type[k] \notin Switched
    BY <2>2, GiftsAreKinds, NpcAssumption DEF Givers
  <2>4. s \in Slots /\ KindOf(c, s) = k
    BY <2>1, <2>2, HasFacts
  <2>5. TypeAt(c, s) \notin Switched
    BY <2>3, <2>4, GoodsFacts DEF TypeAt
  <2>6. DecrementItem(c, s, 1) \in After(c, 0..MaxGold, {}, {}, {})
    BY <1>1, <2>4, <2>5, DecrementAfter
  <2> QED
    BY <2>1, <2>2, <2>6, Made
<1>3. CASE EnterByDemon
  <2>1. PICK k : Has(c, k) # {} /\ Runs(RemoveItem(c, Min(Has(c, k))))
    BY <1>3 DEF EnterByDemon
  <2>2. PICK s : s = Min(Has(c, k))
    OBVIOUS
  <2>3. s \in Slots
    BY <2>1, <2>2, HasFacts
  <2>4. RemoveItem(c, s) \in After(c, 0..MaxGold, {}, {}, {})
    BY <1>1, <2>3, RemoveItemAfter
  <2> QED
    BY <2>1, <2>2, <2>4, Made
<1> QED
  BY <1>2, <1>3

\* OpenLotHandler: gold goes, and an item or cash may come.
LEMMA OpenLotSound ==
  ASSUME NEW m, Sound(c, {}, m), OpenLot
  PROVE  Sound(c', {}, m)
<1>1. PICK price : \/ Runs(LootGold(c, -price))
                   \/ \E k \in {Gifts["lot"][i] : i \in DOMAIN Gifts["lot"]} :
                        Runs(GivenKinds(LootGold(c, -price), <<k>>))
  BY DEF OpenLot
<1>2. PICK x : x = LootGold(c, -price)
  OBVIOUS
<1>3. PICK H : x \in After(c, H, {}, {}, {})
  BY <1>2, Begun
<1>4. \A k \in {Gifts["lot"][i] : i \in DOMAIN Gifts["lot"]} : <<k>> \in Seq(Kinds)
  BY GiftsAreKinds DEF Givers
<1> QED
  BY <1>1, <1>2, <1>3, <1>4, Made, GiftsGiven

\* No button of an NPC disturbs what is sound, while nobody is about to switch on anything.
LEMMA NpcSound ==
  ASSUME NEW m, Sound(c, {}, m), NpcNext
  PROVE  Sound(c', {}, m)
<1>1. CASE FirstJob \/ SecondJob \/ ChooseDivine \/ DarknessJob
  BY <1>1, PromotedSound DEF FirstJob, SecondJob, ChooseDivine, DarknessJob
<1>2. CASE GetTickets
  <2>1. Gifts["tickets"] \in Seq(Kinds)
    BY NpcAssumption DEF Givers
  <2>2. c \in After(c, 0..MaxGold, {}, {}, {})
    BY Begun
  <2> QED
    BY <1>2, <2>1, <2>2, GiftsGiven DEF GetTickets
<1>3. CASE Grow \/ MakeDivine \/ NewDay \/ EarnLot
  BY <1>3 DEF Grow, MakeDivine, NewDay, EarnLot
<1>4. CASE \E k \in ByPlus, p \in 1..(MaxPlus - 1) : DoubleStones(k, p)
  BY <1>4, DoubleStonesSound
<1>5. CASE \E x \in Exchanges : Exchange(x)
  BY <1>5, ExchangeSound
<1> QED
  BY <1>1, <1>2, <1>3, <1>4, <1>5, BecomeDivineSound, BecomeDarkSound, BuffedGiftsSound,
     CheckInSound, MakeRelicSound, EnterSound, OpenLotSound DEF NpcNext

-----------------------------------------------------------------------------
(* The pet *)

\* What a beat leaves alone, and how a pet casts and walks.
Moved(q) == (q.casting => q.spells > 0) /\ (q.moving => q.walking \/ q.stalled)
Alike(p) ==
  {q \in PetSlots : /\ q.owned = p.owned /\ q.combat = p.combat /\ q.out = p.out /\ q.cb = p.cb
                    /\ q.beats = p.beats /\ q.hasty = p.hasty /\ q.starved = p.starved /\ Moved(q)}

\* Only who has a pet has it out, and then its handler is set.
PetKept(p) ==
  /\ p \in PetSlots /\ Moved(p)
  /\ p.out => p.cb /\ p.owned
  /\ p.out /\ ~p.hasty /\ ~p.starved => p.beats = 1

\* What a pet does in a beat, one thing at a time.
LEMMA AlikeFacts ==
  ASSUME NEW p, NEW q \in Alike(p)
  PROVE  /\ \A t \in {"none", "mob", "foe"} : [q EXCEPT !.target = t] \in Alike(p)
         /\ \A h \in 0..2 : [q EXCEPT !.hp = h] \in Alike(p)
         /\ Walks(q) \in Alike(p) /\ Stopped(q) \in Alike(p)
         /\ [q EXCEPT !.moving = TRUE, !.stalled = TRUE] \in Alike(p)
         /\ q.spells < MaxTimers => Casts(q) \in Alike(p)
<1>1. q \in PetSlots /\ Moved(q)
  BY DEF Alike
<1>2. \A t \in {"none", "mob", "foe"} : [q EXCEPT !.target = t] \in Alike(p)
  BY <1>1 DEF Alike, PetSlots, Moved
<1>3. \A h \in 0..2 : [q EXCEPT !.hp = h] \in Alike(p)
  BY <1>1 DEF Alike, PetSlots, Moved
<1>4. Walks(q) \in Alike(p)
  BY <1>1 DEF Alike, PetSlots, Moved, Walks
<1>5. Stopped(q) \in Alike(p)
  BY <1>1 DEF Alike, PetSlots, Moved, Stopped
<1>6. [q EXCEPT !.moving = TRUE, !.stalled = TRUE] \in Alike(p)
  BY <1>1 DEF Alike, PetSlots, Moved
<1>7. q.spells < MaxTimers => Casts(q) \in Alike(p)
  <2> SUFFICES ASSUME q.spells < MaxTimers PROVE Casts(q) \in Alike(p)
    OBVIOUS
  <2>1. q.spells \in 0..MaxTimers
    BY <1>1 DEF PetSlots
  <2>2. q.spells + 1 \in 0..MaxTimers /\ q.spells + 1 > 0
    BY <2>1 DEF MaxTimers
  <2> QED
    BY <1>1, <2>2 DEF Alike, PetSlots, Moved, Casts
<1> QED
  BY <1>2, <1>3, <1>4, <1>5, <1>6, <1>7

\* A blow, a walk or a skill.
LEMMA FightsAlike ==
  ASSUME NEW p, NEW q \in Alike(p)
  PROVE  Fights(q) \subseteq Alike(p)
BY AlikeFacts DEF Fights

\* To the owner, or at a mob.
LEMMA SeeksAlike ==
  ASSUME NEW p, NEW q \in Alike(p), NEW owner
  PROVE  Seeks(q, owner) \subseteq Alike(p)
<1>1. PICK a, b : a = [q EXCEPT !.target = "none"] /\ b = [q EXCEPT !.target = "mob"]
  OBVIOUS
<1>2. a \in Alike(p) /\ b \in Alike(p)
  BY <1>1, AlikeFacts
<1>3. Walks(a) \in Alike(p) /\ Fights(b) \subseteq Alike(p)
  BY <1>2, AlikeFacts, FightsAlike
<1> QED
  BY <1>1, <1>2, <1>3 DEF Seeks

\* From BEGIN on.
LEMMA ActsAlike ==
  ASSUME NEW p, NEW q \in Alike(p), NEW owner \in {"by", "off", "far"}, NEW dueling \in BOOLEAN
  PROVE  Acts(q, owner, dueling) \subseteq Alike(p)
<1>1. PICK a, b : a = [q EXCEPT !.target = "none"] /\ b = [q EXCEPT !.moving = TRUE, !.stalled = TRUE]
  OBVIOUS
<1>2. a \in Alike(p) /\ b \in Alike(p)
  BY <1>1, AlikeFacts
<1>3. Seeks(q, owner) \subseteq Alike(p) /\ Seeks(b, owner) \subseteq Alike(p) /\ Fights(q) \subseteq Alike(p)
  BY <1>2, SeeksAlike, FightsAlike
<1>4. q.target \in {"none", "mob", "foe"}
  BY DEF Alike, PetSlots
<1>5. CASE owner = "far" \/ q.target = "none"
  <2>1. Acts(q, owner, dueling) = Seeks(q, owner)
    BY <1>5 DEF Acts
  <2> QED
    BY <1>3, <2>1
<1>6. CASE owner # "far" /\ q.target = "mob"
  <2>1. Acts(q, owner, dueling) = {a} \cup Fights(q) \cup Seeks(q, owner)
    BY <1>1, <1>6 DEF Acts
  <2> QED
    BY <1>2, <1>3, <2>1
<1>7. CASE owner # "far" /\ q.target = "foe"
  <2>1. Acts(q, owner, dueling) = {q} \cup IF dueling THEN Fights(q) \cup Seeks(q, owner)
                                          ELSE Seeks(b, owner)
    BY <1>1, <1>7 DEF Acts
  <2> QED
    BY <1>3, <2>1
<1> QED
  BY <1>4, <1>5, <1>6, <1>7

\* A whole beat: a pet that casts has a timer that ends it, and one that moves has a walk
\* or was told to move without one.
LEMMA LivesAlike ==
  ASSUME NEW p \in PetSlots, Moved(p)
  PROVE  Lives(p) \subseteq Alike(p)
<1>1. p \in Alike(p)
  BY DEF Alike
<1>2. ASSUME NEW dueling \in BOOLEAN, NEW l \in Looks(p, dueling)
      PROVE  l \in Alike(p)
  <2>1. PICK t \in {"none", "mob", "foe"} :
          l = IF t = "none" THEN p ELSE Stopped([p EXCEPT !.target = t])
    <3>1. p.target \in {"none", "mob", "foe"}
      BY DEF PetSlots
    <3> QED
      BY <1>2, <3>1 DEF Looks
  <2>2. PICK a : a = [p EXCEPT !.target = t]
    OBVIOUS
  <2>3. a \in Alike(p)
    BY <1>1, <2>2, AlikeFacts
  <2> QED
    BY <1>1, <2>1, <2>2, <2>3, AlikeFacts
<1>3. ASSUME NEW l \in Alike(p), NEW q \in Heals(l)
      PROVE  q \in Alike(p)
  <2>1. l.hp \in 0..2
    BY DEF Alike, PetSlots
  <2>2. PICK h : h = Min({l.hp + 1, 2})
    OBVIOUS
  <2>3. h \in 0..2
    <3> DEFINE T == {l.hp + 1, 2}
    <3>1. T \subseteq Nat /\ T # {} /\ IsFiniteSet(T)
      <4>1. T \subseteq Nat /\ T # {}
        BY <2>1
      <4>2. IsFiniteSet(T)
        BY PairIsFinite
      <4> QED
        BY <4>1, <4>2
    <3>2. Min(T) \in T /\ \A y \in T : Min(T) <= y
      <4> HIDE DEF T
      <4> QED
        BY <3>1, MinIn
    <3> QED
      BY <2>1, <2>2, <3>1, <3>2
  <2>4. q = [l EXCEPT !.hp = l.hp] \/ q = [l EXCEPT !.hp = h]
    BY <1>3, <2>2 DEF Heals
  <2>5. \A g \in 0..2 : [l EXCEPT !.hp = g] \in Alike(p)
    BY <1>3, AlikeFacts
  <2> QED
    BY <2>1, <2>3, <2>4, <2>5
<1>4. ASSUME NEW q \in Alike(p), NEW dueling \in BOOLEAN
      PROVE  (IF ~q.combat THEN {[q EXCEPT !.target = "none"]}
              ELSE IF q.moving \/ q.casting THEN {q}
              ELSE UNION {Acts(q, owner, dueling) : owner \in {"by", "off", "far"}})
               \subseteq Alike(p)
  <2>1. [q EXCEPT !.target = "none"] \in Alike(p)
    BY AlikeFacts
  <2>2. \A owner \in {"by", "off", "far"} : Acts(q, owner, dueling) \subseteq Alike(p)
    BY ActsAlike
  <2> QED
    BY <2>1, <2>2
<1> SUFFICES ASSUME NEW r \in Lives(p) PROVE r \in Alike(p)
  OBVIOUS
<1>5. PICK dueling \in BOOLEAN :
        r \in UNION {IF ~q.combat THEN {[q EXCEPT !.target = "none"]}
                     ELSE IF q.moving \/ q.casting THEN {q}
                     ELSE UNION {Acts(q, owner, dueling) : owner \in {"by", "off", "far"}} :
                       q \in UNION {Heals(l) : l \in Looks(p, dueling)}}
  BY DEF Lives
<1>6. PICK q \in UNION {Heals(l) : l \in Looks(p, dueling)} :
        r \in (IF ~q.combat THEN {[q EXCEPT !.target = "none"]}
               ELSE IF q.moving \/ q.casting THEN {q}
               ELSE UNION {Acts(q, owner, dueling) : owner \in {"by", "off", "far"}})
  BY <1>5
<1>7. q \in Alike(p)
  BY <1>2, <1>3
<1> QED
  BY <1>4, <1>6, <1>7

\* What is done to a pet keeps it.
LEMMA PetFacts ==
  ASSUME NEW p, PetKept(p)
  PROVE  /\ \A q \in Alike(p) : PetKept(q)
         /\ PetKept(Dismissed(p)) /\ PetKept(PetAgain(p))
         /\ \A h \in 0..2 : PetKept([p EXCEPT !.hp = h])
         /\ p.owned /\ (p.out \/ p.beats < MaxTimers) => PetKept(Toggled(p))
<1>1. p \in PetSlots /\ Moved(p) /\ p.beats \in 0..MaxTimers
  BY DEF PetKept, PetSlots
<1>2. \A q \in Alike(p) : PetKept(q)
  BY DEF Alike, PetKept
<1>3. PetKept(Dismissed(p))
  BY <1>1 DEF PetKept, Dismissed, PetSlots, Moved
<1>4. PetKept(PetAgain(p))
  BY DEF PetKept, PetAgain, InSlot, PetSlots, Moved, MaxTimers
<1>5. \A h \in 0..2 : PetKept([p EXCEPT !.hp = h])
  BY DEF PetKept, PetSlots, Moved
<1>6. ASSUME p.owned, p.out \/ p.beats < MaxTimers PROVE PetKept(Toggled(p))
  <2>1. CASE p.out
    BY <1>1, <2>1, ZenonT(60) DEF PetKept, Toggled, Stopped, PetSlots, Moved
  <2>2. CASE ~p.out
    <3>1. p.beats + 1 \in 0..MaxTimers /\ (~(p.beats > 0) => p.beats + 1 = 1)
      BY <1>1, <1>6, <2>2 DEF MaxTimers
    <3>2. PICK q : q = Toggled(p)
      OBVIOUS
    <3>3. q = [p EXCEPT !.out = TRUE, !.cb = TRUE, !.beats = p.beats + 1,
                        !.hasty = p.beats > 0, !.starved = FALSE]
      BY <2>2, <3>2 DEF Toggled
    <3>4. (p.beats > 0) \in BOOLEAN
      OBVIOUS
    <3>5. q \in PetSlots
      BY <1>1, <3>1, <3>3, <3>4 DEF PetSlots
    <3>6. /\ q.casting = p.casting /\ q.spells = p.spells /\ q.moving = p.moving
          /\ q.walking = p.walking /\ q.stalled = p.stalled /\ q.cb /\ q.owned = p.owned
          /\ q.hasty = (p.beats > 0) /\ q.beats = p.beats + 1
      BY <1>1, <3>3 DEF PetSlots
    <3>7. PetKept(q)
      BY <1>1, <1>6, <3>1, <3>5, <3>6 DEF PetKept, Moved
    <3> QED
      BY <3>2, <3>7
  <2> QED
    BY <2>1, <2>2
<1> QED
  BY <1>2, <1>3, <1>4, <1>5, <1>6

\* A beat, a walk that arrives, a skill that ends, and what is done to a pet by hand.
LEMMA PetNextKept ==
  ASSUME PetKept(pet), PetNext
  PROVE  PetKept(pet')
<1>1. pet \in PetSlots /\ Moved(pet) /\ pet.hp \in 0..2 /\ pet.spells \in 0..MaxTimers
      /\ pet.beats \in 0..MaxTimers
  BY DEF PetKept, PetSlots
<1>2. CASE PetHandler
  <2>1. PICK ended : ended = [pet EXCEPT !.beats = pet.beats - 1]
    OBVIOUS
  <2>2. pet.beats - 1 \in 0..MaxTimers
    BY <1>1, <1>2 DEF PetHandler, MaxTimers
  <2>3. /\ ended \in PetSlots /\ Moved(ended) /\ ended.cb = pet.cb /\ ended.owned = pet.owned
        /\ ended.out = pet.out
    BY <1>1, <2>1, <2>2 DEF PetSlots, Moved
  <2>4. CASE pet' = ended /\ ~(pet.cb /\ pet.owned /\ pet.out)
    BY <2>3, <2>4 DEF PetKept
  <2>5. CASE pet' = Dismissed(ended)
    BY <2>3, <2>5 DEF PetKept, Dismissed, PetSlots, Moved
  <2>6. CASE pet' = [ended EXCEPT !.starved = TRUE]
    BY <2>3, <2>6 DEF PetKept, PetSlots, Moved
  <2>7. CASE pet' \in Lives([pet EXCEPT !.hp = 2])
    <3>1. PICK p : p = [pet EXCEPT !.hp = 2]
      OBVIOUS
    <3>2. PetKept(p)
      <4>1. 2 \in 0..2 /\ \A h \in 0..2 : PetKept([pet EXCEPT !.hp = h])
        BY PetFacts
      <4> QED
        BY <3>1, <4>1
    <3>3. pet' \in Alike(p)
      BY <2>7, <3>1, <3>2, LivesAlike DEF PetKept
    <3> QED
      BY <3>2, <3>3, PetFacts
  <2>8. CASE pet' \in Lives(pet)
    BY <1>1, <2>8, LivesAlike, PetFacts
  <2> QED
    BY <1>2, <2>1, <2>4, <2>5, <2>6, <2>7, <2>8 DEF PetHandler
<1>3. CASE Arrive
  BY <1>1, <1>3 DEF Arrive, PetKept, Stopped, PetSlots, Moved
<1>4. CASE SpellEnds
  <2>1. pet.spells - 1 \in 0..MaxTimers
    BY <1>1, <1>4 DEF SpellEnds, MaxTimers
  <2> QED
    BY <1>1, <1>4, <2>1 DEF SpellEnds, PetKept, PetSlots, Moved
<1>5. CASE TogglePet
  BY <1>5, PetFacts DEF TogglePet
<1>6. CASE DealDamageToPet
  <2>1. pet.hp - 1 \in 0..2 /\ pet' = [pet EXCEPT !.hp = pet.hp - 1]
    BY <1>1, <1>6 DEF DealDamageToPet
  <2> QED
    BY <2>1, PetFacts
<1> QED
  BY <1>2, <1>3, <1>4, <1>5, <1>6 DEF PetNext
-----------------------------------------------------------------------------
(* The books *)

\* A book stands in a place of its kind, those places are filled from the first one on, and
\* a book is learned once: until a scroll takes books out of their places.
BooksKept ==
  /\ books \in [Places -> Kinds \cup {0}]
  /\ \A i \in Places : books[i] # 0 => i \in PlacesFor(books[i])
  /\ ~forgot => \A k \in Kinds : \A i, j \in PlacesFor(k) : i < j /\ books[i] = 0 => books[j] = 0
  /\ BooksOnce

\* The places of two kinds of books are the same ones or others.
LEMMA PlacesFacts ==
  ASSUME NEW k, NEW l
  PROVE  /\ PlacesFor(k) \subseteq Places /\ Places \subseteq Nat
         /\ \A i \in PlacesFor(k) \cap PlacesFor(l) : PlacesFor(k) = PlacesFor(l)
<1>1. PlacesFor(k) \in {7..7, 5..6, 0..4} /\ PlacesFor(l) \in {7..7, 5..6, 0..4}
  BY DEF PlacesFor
<1>2. (7..7) \cap (5..6) = {} /\ (7..7) \cap (0..4) = {} /\ (5..6) \cap (0..4) = {}
  OBVIOUS
<1>3. 7..7 \subseteq 0..7 /\ 5..6 \subseteq 0..7 /\ 0..4 \subseteq 0..7 /\ 0..7 \subseteq Nat
  OBVIOUS
<1>4. PlacesFor(k) \subseteq Places /\ Places \subseteq Nat
  <2>1. PlacesFor(k) \subseteq 0..7
    BY <1>1, <1>3
  <2> QED
    BY <1>3, <2>1 DEF Places
<1>5. ASSUME NEW i \in PlacesFor(k) \cap PlacesFor(l) PROVE PlacesFor(k) = PlacesFor(l)
  BY <1>1, <1>2, <1>5
<1> QED
  BY <1>4, <1>5

\* Who learns a book did not have it: the search passes every place that is taken, and
\* behind the first free one there are none.
LEMMA LearnBooks ==
  ASSUME BooksKept, Sound(c, using, met), NEW s \in Bag, Learn(s)
  PROVE  BooksKept'
<1>1. PICK k : k = KindOf(c, s)
  OBVIOUS
<1>2. k \in Kinds /\ k # 0
  <2>1. s \in Slots /\ c.slot[s] \in FitItems /\ k # 0
    BY <1>1, GoodsFacts DEF Sound, Kept, Holdings, Learn, Usable, CanDecrement
  <2>2. k \in Kinds \cup {0}
    BY <1>1, <2>1 DEF FitItems, ItemRecs, KindOf
  <2> QED
    BY <2>1, <2>2
<1>3. PICK free : free = {i \in PlacesFor(k) : books[i] = 0}
  OBVIOUS
<1>4. PICK f : f = Min(free)
  OBVIOUS
<1>5. free # {} /\ (\A i \in PlacesFor(k) : i < f => books[i] # k) /\ books' = [books EXCEPT ![f] = k]
  BY <1>1, <1>3, <1>4 DEF Learn
<1>6. f \in free /\ \A y \in free : f <= y
  <2>1. IsFiniteSet(free) /\ free \subseteq Nat
    <3>1. IsFiniteSet(Places)
      <4>1. \A n \in Nat : IsFiniteSet(0..n)
        BY FS_Interval
      <4> QED
        BY <4>1 DEF Places
    <3>2. free \subseteq Places /\ Places \subseteq Nat
      BY <1>3, PlacesFacts
    <3> QED
      BY <3>1, <3>2, FS_Subset
  <2> QED
    BY <1>4, <1>5, <2>1, MinIn
<1>7. f \in PlacesFor(k) /\ books[f] = 0 /\ f \in Places /\ f \in Nat
  BY <1>3, <1>6, PlacesFacts
<1>8. forgot' = forgot
  BY DEF Learn
<1>9. books \in [Places -> Kinds \cup {0}]
  BY DEF BooksKept
<1>10. \A i \in Places : books'[i] = IF i = f THEN k ELSE books[i]
  BY <1>5, <1>9
<1>11. books' \in [Places -> Kinds \cup {0}]
  BY <1>2, <1>5, <1>9
<1>12. ASSUME NEW i \in Places, books'[i] # 0 PROVE i \in PlacesFor(books'[i])
  BY <1>7, <1>10, <1>12 DEF BooksKept
<1>13. ASSUME ~forgot, NEW l \in Kinds, NEW i \in PlacesFor(l), NEW j \in PlacesFor(l), i < j,
              books'[i] = 0
       PROVE  books'[j] = 0
  <2>1. i \in Places /\ j \in Places /\ i \in Nat /\ j \in Nat
    BY PlacesFacts
  <2>2. i # f /\ books[i] = 0
    BY <1>2, <1>10, <1>13, <2>1
  <2>3. j # f
    <3> SUFFICES ASSUME j = f PROVE FALSE
      OBVIOUS
    <3>1. i \in PlacesFor(k)
      BY <1>7, PlacesFacts
    <3>2. f <= i
      BY <1>3, <1>6, <2>2, <3>1
    <3> QED
      BY <1>7, <1>13, <2>1, <3>2
  <2> QED
    BY <1>10, <1>13, <2>1, <2>2, <2>3 DEF BooksKept
<1>14. ASSUME ~forgot, NEW j \in Places, j # f PROVE books[j] # k
  <2> SUFFICES ASSUME books[j] = k PROVE FALSE
    OBVIOUS
  <2>1. j \in PlacesFor(k) /\ j \in Nat
    BY <1>2, PlacesFacts DEF BooksKept
  <2>2. CASE j < f
    BY <1>5, <2>1, <2>2
  <2>3. CASE f < j
    BY <1>2, <1>7, <1>14, <2>1, <2>3 DEF BooksKept
  <2> QED
    BY <1>7, <1>14, <2>1, <2>2, <2>3
<1>15. ASSUME ~forgot, NEW i \in Places, NEW j \in Places, books'[i] = books'[j], books'[i] # 0
       PROVE  i = j
  <2>1. CASE i = f
    BY <1>10, <1>14, <1>15, <2>1
  <2>2. CASE j = f
    BY <1>10, <1>14, <1>15, <2>2
  <2>3. CASE i # f /\ j # f
    BY <1>10, <1>15, <2>3 DEF BooksKept, BooksOnce
  <2> QED
    BY <2>1, <2>2, <2>3
<1> QED
  BY <1>8, <1>11, <1>12, <1>13, <1>15 DEF BooksKept, BooksOnce

\* A scroll may take any of them out; who is made anew has none.
LEMMA FewerBooks ==
  ASSUME BooksKept,
         \/ UNCHANGED <<books, forgot>>
         \/ forgot' = TRUE /\ books' \in [Places -> Kinds \cup {0}]
            /\ \A i \in Places : books'[i] \in {0, books[i]}
         \/ books' = NoBooks /\ forgot' = forgot
  PROVE  BooksKept'
<1>1. CASE UNCHANGED <<books, forgot>>
  BY <1>1 DEF BooksKept, BooksOnce
<1>2. CASE /\ forgot' = TRUE /\ books' \in [Places -> Kinds \cup {0}]
           /\ \A i \in Places : books'[i] \in {0, books[i]}
  <2>1. ASSUME NEW i \in Places, books'[i] # 0 PROVE i \in PlacesFor(books'[i])
    BY <1>2, <2>1 DEF BooksKept
  <2> QED
    BY <1>2, <2>1 DEF BooksKept, BooksOnce
<1>3. CASE books' = NoBooks /\ forgot' = forgot
  <2>1. \A i \in Places : books'[i] = 0
    BY <1>3 DEF NoBooks
  <2>2. books' \in [Places -> Kinds \cup {0}]
    BY <1>3 DEF NoBooks
  <2>3. \A k : PlacesFor(k) \subseteq Places
    BY PlacesFacts
  <2> QED
    BY <1>3, <2>1, <2>2, <2>3 DEF BooksKept, BooksOnce
<1> QED
  BY <1>1, <1>2, <1>3

\* A scroll takes all books out of their places, or some.
LEMMA TransformBooks ==
  ASSUME BooksKept, NEW s \in Bag, UseTransform(s)
  PROVE  BooksKept'
<1>1. ASSUME NEW all \in BOOLEAN, forgot' = TRUE,
             books' = [i \in Places |->
                         IF all \/ (books[i] # 0 /\ Type[books[i]] = "divine") THEN 0
                         ELSE books[i]]
      PROVE  BooksKept'
  <2>1. books \in [Places -> Kinds \cup {0}]
    BY DEF BooksKept
  <2>2. books' \in [Places -> Kinds \cup {0}] /\ \A i \in Places : books'[i] \in {0, books[i]}
    BY <1>1, <2>1
  <2> QED
    BY <1>1, <2>2, FewerBooks
<1> QED
  BY <1>1 DEF UseTransform

\* No use leaves a book learned twice.
LEMMA UseBooks ==
  ASSUME BooksKept, Sound(c, using, met), UseNext
  PROVE  BooksKept'
<1>2. ASSUME NEW s \in Bag, Learn(s) PROVE BooksKept'
  BY <1>2, LearnBooks
<1>3. CASE UNCHANGED <<books, forgot>>
  BY <1>3, FewerBooks
<1>4. ASSUME NEW s \in Bag,
             \/ UsePlain(s) \/ UsePetItem(s) \/ UseBuffItem(s) \/ UseTonic(s) \/ UseCard(s)
             \/ OpenFortuneBox(s) \/ OpenGiftBox(s) \/ UseFactionScroll(s) \/ UseFillerPotion(s)
             \/ UseForm(s) \/ BeginTimedUse(s) \/ EndTimedUse(s)
             \/ ActivateTimeLimited(s) \/ EyeballCloses(s) \/ Discard(s) \/ LightFirework(s)
      PROVE  UNCHANGED <<books, forgot>>
  BY <1>4 DEF UsePlain, UsePetItem, UseBuffItem, UseTonic, UseCard, OpenFortuneBox, OpenGiftBox,
     UseFactionScroll, UseFillerPotion, UseForm, BeginTimedUse, EndTimedUse, ActivateTimeLimited,
     EyeballCloses, Discard, LightFirework, usage
<1>5. ASSUME NEW minute \in BOOLEAN, NEW gone \in SUBSET c.buffs, Tick(minute, gone)
      PROVE  UNCHANGED <<books, forgot>>
  BY <1>5 DEF Tick
<1>6. ASSUME NEW minute \in BOOLEAN, ChangeMap(minute) PROVE UNCHANGED <<books, forgot>>
  BY <1>6 DEF ChangeMap
<1> QED
  BY <1>2, <1>3, <1>4, <1>5, <1>6 DEF UseNext
-----------------------------------------------------------------------------
(* Everything that is used *)

\* What is used on a pet, or calls it back, keeps it.
LEMMA UsePet ==
  ASSUME PetKept(pet), UseNext
  PROVE  PetKept(pet')
<1>1. ASSUME NEW s \in Bag, UsePlain(s) PROVE PetKept(pet')
  BY <1>1, PetFacts DEF UsePlain
<1>2. ASSUME NEW s \in Bag, UsePetItem(s) PROVE PetKept(pet')
  <2>1. PICK incense : incense = (TypeAt(c, s) = "incense")
    OBVIOUS
  <2>2. PICK fit : fit = (pet.owned /\ IF incense THEN ~pet.out /\ pet.hp = 0 ELSE pet.out)
    OBVIOUS
  <2>3. PICK p : p = [pet EXCEPT !.hp = 1]
    OBVIOUS
  <2>4. /\ incense /\ fit => pet.beats < MaxTimers
        /\ \/ ~fit /\ pet' = pet
           \/ fit /\ ~incense /\ pet' = [pet EXCEPT !.hp = 2]
           \/ fit /\ incense /\ pet' \in {p, Toggled(p)}
    BY <1>2, <2>1, <2>2, <2>3 DEF UsePetItem
  <2>5. PetKept(p) /\ PetKept([pet EXCEPT !.hp = 2])
    <3>1. 1 \in 0..2 /\ 2 \in 0..2
      OBVIOUS
    <3> QED
      BY <2>3, <3>1, PetFacts
  <2>6. p.owned = pet.owned /\ p.out = pet.out /\ p.beats = pet.beats
    BY <2>3 DEF PetKept, PetSlots
  <2>7. ASSUME fit, incense, pet' = Toggled(p) PROVE PetKept(pet')
    <3>1. p.owned /\ p.beats < MaxTimers
      BY <2>2, <2>4, <2>6, <2>7
    <3> QED
      BY <2>5, <2>7, <3>1, PetFacts
  <2> QED
    BY <2>4, <2>5, <2>7
<1>3. ASSUME NEW minute \in BOOLEAN, ChangeMap(minute) PROVE PetKept(pet')
  BY <1>3, PetFacts DEF ChangeMap
<1>4. CASE PetNext
  BY <1>4, PetNextKept
<1>5. ASSUME NEW s \in Bag,
             \/ UseBuffItem(s) \/ UseTonic(s) \/ UseCard(s)
             \/ OpenFortuneBox(s) \/ OpenGiftBox(s) \/ UseFactionScroll(s) \/ UseFillerPotion(s)
             \/ Learn(s) \/ UseForm(s) \/ BeginTimedUse(s) \/ EndTimedUse(s)
             \/ ActivateTimeLimited(s) \/ EyeballCloses(s) \/ Discard(s) \/ LightFirework(s)
      PROVE  UNCHANGED pet
  BY <1>5 DEF UseBuffItem, UseTonic, UseCard, OpenFortuneBox, OpenGiftBox,
     UseFactionScroll, UseFillerPotion, Learn, UseForm, BeginTimedUse, EndTimedUse,
     ActivateTimeLimited, EyeballCloses, Discard, LightFirework, usage
<1>6. ASSUME NEW minute \in BOOLEAN, NEW gone \in SUBSET c.buffs, Tick(minute, gone)
      PROVE  UNCHANGED pet
  BY <1>6 DEF Tick
<1> QED
  BY <1>1, <1>2, <1>3, <1>4, <1>5, <1>6 DEF UseNext

\* The character is as sound after a use, or a part of one.
LEMMA UseSound ==
  ASSUME Sound(c, using, met), UseNext
  PROVE  Sound(c', using', met')
<1>1. ASSUME NEW s \in Bag,
             \/ UsePlain(s) \/ UsePetItem(s) \/ UseBuffItem(s) \/ UseTonic(s) \/ UseCard(s)
             \/ OpenFortuneBox(s) \/ OpenGiftBox(s) \/ UseFactionScroll(s) \/ UseFillerPotion(s)
             \/ Learn(s) \/ UseForm(s) \/ Discard(s) \/ LightFirework(s)
      PROVE  Sound(c', using', met')
  <2>1. using' = using /\ met' = met
    BY <1>1 DEF UsePlain, UsePetItem, UseBuffItem, UseTonic, UseCard, OpenFortuneBox, OpenGiftBox,
       UseFactionScroll, UseFillerPotion, Learn, UseForm, Discard, LightFirework, usage
  <2>2. Sound(c', using, met)
    BY <1>1, UsePlainSound, UsePetItemSound, UseBuffItemSound, UseTonicSound, UseCardSound,
       OpenFortuneBoxSound, OpenGiftBoxSound, UseFactionScrollSound, UseFillerPotionSound,
       LearnSound, UseFormSound, DiscardSound, LightFireworkSound
  <2> QED
    BY <2>1, <2>2
<1>2. ASSUME NEW s \in Bag, BeginTimedUse(s) PROVE Sound(c', using', met')
  <2>1. c' = c /\ using' = using \cup {s} /\ met' = met
    BY <1>2 DEF BeginTimedUse
  <2> QED
    BY <1>2, <2>1, BeginTimedUseSound
<1>3. ASSUME NEW s \in Bag, EndTimedUse(s) PROVE Sound(c', using', met')
  <2>1. using' = using \ {s} /\ met' = met
    BY <1>3 DEF EndTimedUse
  <2> QED
    BY <1>3, <2>1, EndTimedUseSound
<1>4. ASSUME NEW s \in Bag, ActivateTimeLimited(s) PROVE Sound(c', using', met')
  <2>1. using' = using /\ met' = (met \/ Beginning(KindOf(c, s)))
    BY <1>4 DEF ActivateTimeLimited
  <2>2. PICK m : m = (met \/ Beginning(KindOf(c, s)))
    OBVIOUS
  <2> QED
    BY <1>4, <2>1, <2>2, ActivateTimeLimitedSound
<1>5. ASSUME NEW s \in Bag, EyeballCloses(s) PROVE Sound(c', using', met')
  <2>1. using' = using
    BY <1>5 DEF EyeballCloses
  <2> QED
    BY <1>5, <2>1, EyeballClosesSound
<1>6. ASSUME NEW minute \in BOOLEAN, NEW gone \in SUBSET c.buffs, Tick(minute, gone)
      PROVE  Sound(c', using', met')
  <2>1. using' = using
    BY <1>6 DEF Tick
  <2> QED
    BY <1>6, <2>1, TickSound
<1>7. ASSUME NEW minute \in BOOLEAN, ChangeMap(minute) PROVE Sound(c', using', met')
  <2>1. using' = using /\ met' = met
    BY <1>7 DEF ChangeMap
  <2> QED
    BY <1>7, <2>1, ChangeMapSound
<1>8. CASE PetNext /\ UNCHANGED <<using, met>>
  <2>1. using' = using /\ met' = met
    BY <1>8
  <2> QED
    BY <1>8, <2>1, PetNextSound
<1> QED
  BY <1>1, <1>2, <1>3, <1>4, <1>5, <1>6, <1>7, <1>8 DEF UseNext

\* The rest of what a use keeps.
UseBits ==
  /\ eyes \subseteq Slots /\ epoch \in 0..1
  /\ met \in BOOLEAN /\ detect \in BOOLEAN /\ arena \in BOOLEAN /\ forgot \in BOOLEAN

\* Every use, timer and tick keeps them.
LEMMA UseBitsKept ==
  ASSUME UseBits, UseNext
  PROVE  UseBits'
<1>1. ASSUME NEW s \in Bag,
             \/ UsePlain(s) \/ UsePetItem(s) \/ UseBuffItem(s) \/ UseTonic(s) \/ UseCard(s)
             \/ OpenFortuneBox(s) \/ OpenGiftBox(s) \/ UseFactionScroll(s) \/ UseFillerPotion(s)
             \/ Learn(s) \/ UseForm(s) \/ EndTimedUse(s) \/ Discard(s) \/ LightFirework(s)
      PROVE  UNCHANGED <<eyes, epoch, met, detect, arena, forgot>>
  BY <1>1 DEF UsePlain, UsePetItem, UseBuffItem, UseTonic, UseCard, OpenFortuneBox, OpenGiftBox,
     UseFactionScroll, UseFillerPotion, Learn, UseForm, EndTimedUse, Discard, LightFirework, usage
<1>2. CASE UNCHANGED <<eyes, epoch, met, detect, arena, forgot>>
  BY <1>2 DEF UseBits
<1>4. ASSUME NEW s \in Bag, BeginTimedUse(s) PROVE UseBits'
  <2>1. /\ UNCHANGED <<epoch, met, arena, forgot>> /\ s \in Slots
        /\ eyes' = eyes \cup {s} \/ eyes' = eyes
        /\ detect' \in BOOLEAN
    BY <1>4 DEF BeginTimedUse, Slots
  <2> QED
    BY <2>1 DEF UseBits
<1>5. ASSUME NEW s \in Bag, ActivateTimeLimited(s) PROVE UseBits'
  <2>1. UNCHANGED <<eyes, epoch, detect, arena, forgot>> /\ met' \in BOOLEAN
    BY <1>5 DEF ActivateTimeLimited
  <2> QED
    BY <2>1 DEF UseBits
<1>6. ASSUME NEW s \in Bag, EyeballCloses(s) PROVE UseBits'
  <2>1. /\ UNCHANGED <<epoch, arena, forgot>> /\ eyes' \subseteq eyes
        /\ (met' = met /\ detect' = detect) \/ (met' \in BOOLEAN /\ detect' = FALSE)
    BY <1>6 DEF EyeballCloses
  <2> QED
    BY <2>1 DEF UseBits
<1>7. ASSUME NEW minute \in BOOLEAN, NEW gone \in SUBSET c.buffs, Tick(minute, gone) PROVE UseBits'
  <2>1. /\ UNCHANGED <<eyes, arena, forgot>> /\ met' \in BOOLEAN /\ detect' \in BOOLEAN
        /\ epoch' = epoch \/ epoch' = 1 - epoch
    BY <1>7 DEF Tick
  <2>2. epoch' \in 0..1
    BY <2>1 DEF UseBits
  <2> QED
    BY <2>1, <2>2 DEF UseBits
<1>8. ASSUME NEW minute \in BOOLEAN, ChangeMap(minute) PROVE UseBits'
  BY <1>8 DEF ChangeMap, UseBits
<1> QED
  BY <1>1, <1>2, <1>4, <1>5, <1>6, <1>7, <1>8 DEF UseNext
-----------------------------------------------------------------------------
(* The career, and what the NPCs leave alone *)

\* An NPC touches neither what is being switched on nor the pet; books it only takes all at
\* once.
LEMMA NpcUse ==
  ASSUME NpcNext
  PROVE  SameUse /\ (books' = books \/ books' = NoBooks)
<1>1. ASSUME FirstJob \/ SecondJob \/ ChooseDivine \/ DarknessJob
      PROVE  UNCHANGED usage
  BY <1>1 DEF FirstJob, SecondJob, ChooseDivine, DarknessJob
<1>2. CASE UNCHANGED usage
  BY <1>2 DEF usage, SameUse
<1>3. CASE BecomeDivine
  BY <1>2, <1>3 DEF BecomeDivine
<1>4. CASE BeReborn
  BY <1>4 DEF BeReborn
<1>5. CASE BecomeDark
  BY <1>5 DEF BecomeDark, GoDarkness
<1>6. ASSUME CheckIn \/ MakeRelic \/ Bless \/ Welcome \/ GetTickets \/ EnterDungeon
             \/ EnterByDemon \/ OpenLot \/ Grow \/ MakeDivine \/ NewDay \/ EarnLot
      PROVE  UNCHANGED usage
  BY <1>6 DEF CheckIn, MakeRelic, Bless, Welcome, GetTickets, EnterDungeon, EnterByDemon, OpenLot,
     Grow, MakeDivine, NewDay, EarnLot
<1>7. ASSUME \/ \E k \in ByPlus, p \in 1..(MaxPlus - 1) : DoubleStones(k, p)
             \/ \E x \in Exchanges : Exchange(x)
      PROVE  UNCHANGED usage
  BY <1>7 DEF DoubleStones, Exchange
<1> QED
  BY <1>1, <1>2, <1>3, <1>4, <1>5, <1>6, <1>7 DEF NpcNext

\* How CareerFits reads in steps, of any class and step there may be.
FitCareer(class, step, lost) ==
  /\ class \in {"dark", "god"} => step = 4
  /\ ~lost => (step = 4 => class \in {"dark", "god"})

LEMMA CareerFacts ==
  ASSUME career \in Careers
  PROVE  /\ career.step \in {0, 1, 2, 3, 4} /\ career.step \in Int
         /\ career.class \in {"none", "first", "second", "divine", "dark", "god"}
         /\ CareerFits <=> FitCareer(career.class, career.step, forgot)
<1>1. /\ career.step \in {0, 1, 2, 3, 4} /\ career.step \in Int
      /\ career.class \in {"none", "first", "second", "divine", "dark", "god"}
  BY DEF Careers, Steps
<1> QED
  BY <1>1 DEF CareerFits, FitCareer

\* A scroll that takes the class back leaves nobody dark.
LEMMA TransformCareer ==
  ASSUME career \in Careers, NEW s \in Bag, UseTransform(s)
  PROVE  career' \in Careers /\ CareerFits'
<1>1. career' = [career EXCEPT !.class = "none"] /\ forgot' = TRUE
  BY DEF UseTransform
<1>2. career' \in Careers /\ career'.class = "none"
  BY <1>1 DEF Careers
<1> QED
  BY <1>1, <1>2 DEF CareerFits

\* The level and the class go together from button to button.
LEMMA CareerKept ==
  ASSUME career \in Careers, CareerFits, NpcNext
  PROVE  career' \in Careers /\ CareerFits'
<1>1. /\ career.step \in {0, 1, 2, 3, 4} /\ career.step \in Int
      /\ career.class \in {"none", "first", "second", "divine", "dark", "god"}
  BY CareerFacts
<1>2. ASSUME NEW class, NEW step \in {0, 1, 2, 3, 4},
             career' \in Careers, career'.step = step, career'.class = class,
             FitCareer(class, step, forgot)
      PROVE  CareerFits'
  <2>1. forgot' = forgot
    BY NpcUse DEF SameUse
  <2> QED
    BY <1>2, <2>1 DEF CareerFits, FitCareer
<1>3. FitCareer(career.class, career.step, forgot)
  BY CareerFacts
<1>8. CASE FirstJob
  <2>1. career' = [career EXCEPT !.class = "first"] /\ career.class = "none"
    BY <1>8 DEF FirstJob, Promoted
  <2>2. career' \in Careers /\ career'.class = "first" /\ career'.step = career.step
    BY <2>1 DEF Careers
  <2> QED
    BY <1>1, <1>2, <1>3, <2>1, <2>2 DEF FitCareer
<1>9. CASE SecondJob
  <2>1. career' = [career EXCEPT !.class = "second"] /\ career.class = "first"
    BY <1>9 DEF SecondJob, Promoted
  <2>2. career' \in Careers /\ career'.class = "second" /\ career'.step = career.step
    BY <2>1 DEF Careers
  <2> QED
    BY <1>1, <1>2, <1>3, <2>1, <2>2 DEF FitCareer
<1>10. CASE ChooseDivine
  <2>1. career' = [career EXCEPT !.class = "divine"] /\ career.class = "none"
    BY <1>10 DEF ChooseDivine, Promoted
  <2>2. career' \in Careers /\ career'.class = "divine" /\ career'.step = career.step
    BY <2>1 DEF Careers
  <2> QED
    BY <1>1, <1>2, <1>3, <2>1, <2>2 DEF FitCareer
<1>11. CASE DarknessJob
  <2>1. career' = [career EXCEPT !.class = "god"] /\ career.class = "dark"
    BY <1>11 DEF DarknessJob, Promoted
  <2>2. career' \in Careers /\ career'.class = "god" /\ career'.step = career.step
    BY <2>1 DEF Careers
  <2> QED
    BY <1>1, <1>2, <1>3, <2>1, <2>2 DEF FitCareer
<1>13. CASE BeReborn
  <2>1. career' = [career EXCEPT !.step = 0, !.class = "none", !.reborn = TRUE]
    BY <1>13 DEF BeReborn, MayBeReborn
  <2>2. PICK x, y : x = [career EXCEPT !.step = 0] /\ y = [x EXCEPT !.class = "none"]
    OBVIOUS
  <2>3. x \in Careers /\ x.step = 0
    BY <2>2 DEF Careers, Steps
  <2>4. y \in Careers /\ y.step = 0 /\ y.class = "none"
    BY <2>2, <2>3 DEF Careers
  <2>5. career' = [y EXCEPT !.reborn = TRUE]
    BY <2>1, <2>2
  <2>6. career' \in Careers /\ career'.class = "none" /\ career'.step = 0
    BY <2>4, <2>5 DEF Careers
  <2> QED
    BY <1>2, <2>6 DEF FitCareer
<1>14. CASE BecomeDark
  <2>1. career' = [career EXCEPT !.step = 4, !.class = "dark", !.divine = FALSE]
    BY <1>14 DEF BecomeDark, GoDarkness
  <2>2. PICK x, y : x = [career EXCEPT !.step = 4] /\ y = [x EXCEPT !.class = "dark"]
    OBVIOUS
  <2>3. x \in Careers /\ x.step = 4
    BY <2>2 DEF Careers, Steps
  <2>4. y \in Careers /\ y.step = 4 /\ y.class = "dark"
    BY <2>2, <2>3 DEF Careers
  <2>5. career' = [y EXCEPT !.divine = FALSE]
    BY <2>1, <2>2
  <2>6. career' \in Careers /\ career'.class = "dark" /\ career'.step = 4
    BY <2>4, <2>5 DEF Careers
  <2> QED
    BY <1>2, <2>6 DEF FitCareer
<1>15. CASE Grow
  <2>1. PICK step \in {1, 2, 3} : career.step # 4 /\ career' = [career EXCEPT !.step = step]
    BY <1>15 DEF Grow
  <2>2. career' \in Careers /\ career'.class = career.class /\ career'.step = step
    BY <2>1 DEF Careers, Steps
  <2> QED
    BY <1>2, <1>3, <2>1, <2>2 DEF FitCareer
<1>16. ASSUME career' \in Careers, career'.step = career.step, career'.class = career.class
       PROVE  career' \in Careers /\ CareerFits'
  BY <1>1, <1>2, <1>3, <1>16
<1>17. CASE CheckIn \/ NewDay
  BY <1>16, <1>17 DEF CheckIn, DailyCheck, NewDay, Careers
<1>18. CASE MakeRelic \/ Bless \/ Welcome \/ EnterDungeon \/ BecomeDivine
  BY <1>16, <1>18 DEF BecomeDivine, MakeRelic, Bless, Welcome, EnterDungeon
<1>19. CASE GetTickets \/ OpenLot \/ EarnLot \/ MakeDivine
  BY <1>16, <1>19 DEF MakeDivine, GetTickets, OpenLot, EarnLot, Careers
<1>20. CASE EnterByDemon
  BY <1>16, <1>20 DEF EnterByDemon
<1>21. CASE \/ \E k \in ByPlus, p \in 1..(MaxPlus - 1) : DoubleStones(k, p)
            \/ \E x \in Exchanges : Exchange(x)
  BY <1>16, <1>21 DEF DoubleStones, Exchange
<1> QED
  BY <1>8, <1>9, <1>10, <1>11, <1>13, <1>14, <1>15, <1>17, <1>18, <1>19, <1>20, <1>21
     DEF NpcNext

-----------------------------------------------------------------------------
(* The invariant of everything together *)

BelongingsInv ==
  /\ Sound(c, using, met) /\ UseBits /\ PetKept(pet) /\ BooksKept
  /\ shop \subseteq Kinds /\ npcs \subseteq Buttons /\ career \in Careers /\ CareerFits

\* What a character may begin with is whole, saved and not in use.
LEMMA BelongingsStart ==
  ASSUME Init
  PROVE  BelongingsInv
<1>1. PICK stock \in Stocks :
        /\ c = [slot |-> stock.slot,
                row |-> [s \in Slots |-> IF stock.slot[s].kind = 0 THEN None ELSE stock.slot[s]],
                gold |-> stock.gold, buffs |-> {}, marks |-> {}, jam |-> FALSE,
                held |-> FALSE, stuck |-> FALSE, ticks |-> TRUE, morphed |-> FALSE,
                behind |-> {}]
        /\ shop = stock.shop /\ npcs = stock.npcs
        /\ career \in stock.career /\ pet \in stock.pet
  BY DEF Init
<1>2. PICK slot : slot = stock.slot
  OBVIOUS
<1>3. PICK row : row = [s \in Slots |-> IF slot[s].kind = 0 THEN None ELSE slot[s]]
  OBVIOUS
<1>4. /\ slot \in [Slots -> {item \in SlotRecs : /\ item.codes = 1..item.plus
                                                 /\ item.socks \subseteq 1..item.sockets
                                                 /\ item.kind = 0 => item = NewSlot
                                                 /\ item.kind # 0 => item.id /\ ~item.on}]
      /\ stock.gold \in 0..MaxGold /\ stock.shop \subseteq Kinds /\ stock.npcs \subseteq Buttons
      /\ stock.career \subseteq {x \in Careers : x.step < 4 /\ x.class \notin {"dark", "god"}}
      /\ stock.pet \subseteq {p \in PetSlots : ~p.out /\ ~p.casting /\ ~p.moving}
  BY <1>2, StocksAssumption
<1>5. \A s \in Slots :
        /\ slot[s] \in SlotRecs /\ slot[s] \in FitItems /\ ~slot[s].on
        /\ slot[s].kind # 0 => slot[s] \in FitRows /\ slot[s].id
  <2> SUFFICES ASSUME NEW s \in Slots
               PROVE  /\ slot[s] \in SlotRecs /\ slot[s] \in FitItems /\ ~slot[s].on
                      /\ slot[s].kind # 0 => slot[s] \in FitRows /\ slot[s].id
    OBVIOUS
  <2>1. PICK i : i = slot[s]
    OBVIOUS
  <2>2. /\ i \in SlotRecs /\ i.codes = 1..i.plus /\ i.socks \subseteq 1..i.sockets
        /\ i.kind = 0 => i = NewSlot
        /\ i.kind # 0 => i.id /\ ~i.on
    BY <1>4, <2>1
  <2>3. i \in ItemRecs(Nat)
    BY <2>2, GoodsFacts DEF SlotRecs, ItemRecs
  <2>4. (i.kind = 0 => i.qty = 0 /\ ~i.id /\ ~i.on) /\ i.id \in BOOLEAN /\ i.on \in BOOLEAN
    BY <2>2, <2>3 DEF NewSlot, ItemRecs
  <2>5. i \in FitItems /\ ~i.on /\ (i.kind # 0 => i.id)
    BY <2>2, <2>3, <2>4 DEF FitItems
  <2> QED
    BY <2>1, <2>2, <2>5 DEF FitRows
<1>6. /\ c.slot = slot /\ c.row = row /\ c.gold \in 0..MaxGold /\ c.buffs = {} /\ c.marks = {}
      /\ c.jam = FALSE /\ c.held = FALSE /\ c.stuck = FALSE /\ c.ticks = TRUE /\ c.morphed = FALSE
      /\ c.behind = {}
  BY <1>1, <1>2, <1>3, <1>4
<1>7. \A s \in Slots : /\ row[s] = IF slot[s].kind = 0 THEN None ELSE slot[s]
                       /\ row[s] \in FitRows \cup {None} /\ row[s] \in SlotRecs \cup {None}
  BY <1>3, <1>5
<1>8. row \in [Slots -> FitRows \cup {None}] /\ row \in [Slots -> SlotRecs \cup {None}]
      /\ slot \in [Slots -> FitItems] /\ slot \in [Slots -> SlotRecs]
  <2>1. row = [s \in Slots |-> row[s]] /\ slot = [s \in Slots |-> slot[s]]
    BY <1>3, <1>4
  <2> QED
    BY <1>5, <1>7, <2>1
<1>9. {} \in Spirits
  BY DEF Spirits
<1>10. c \in Holdings(0..MaxGold) /\ c \in Characters
  BY <1>1, <1>2, <1>3, <1>4, <1>8, <1>9 DEF Holdings, Characters
<1>11. \A s \in Slots : ~c.slot[s].on /\ ~(c.row[s] # None /\ c.row[s].on) /\ Follows(c, s)
  BY <1>5, <1>6, <1>7 DEF Follows
<1>12. using = {} /\ met = FALSE /\ eyes = {} /\ detect = FALSE /\ arena = FALSE /\ epoch = 0
       /\ books = [i \in Places |-> 0] /\ forgot = FALSE
  BY DEF Init, UseInit
<1>13. Sound(c, using, met)
  BY <1>6, <1>10, <1>11, <1>12
     DEF Sound, Kept, InHand, Single, Guarded, OnInBag, RowsKept, WornForm
<1>14. UseBits
  <2>1. eyes \subseteq Slots /\ epoch \in 0..1
    BY <1>12
  <2> QED
    BY <1>12, <2>1 DEF UseBits
<1>15. PetKept(pet)
  BY <1>1, <1>4 DEF PetKept, Moved
<1>16. BooksKept
  <2>1. \A i \in Places : books[i] = 0
    BY <1>12
  <2>2. \A k : PlacesFor(k) \subseteq Places
    BY PlacesFacts
  <2> QED
    BY <1>12, <2>1, <2>2 DEF BooksKept, BooksOnce
<1>17. career \in Careers /\ CareerFits
  <2>1. career \in {x \in Careers : x.step < 4 /\ x.class \notin {"dark", "god"}}
    BY <1>1, <1>4
  <2>2. PICK x : x = career
    OBVIOUS
  <2>3. x \in Careers /\ x.step < 4 /\ x.class \notin {"dark", "god"}
    BY <2>1, <2>2
  <2>4. x.step \in 0..4
    BY <2>3 DEF Careers, Steps
  <2>5. x.step # 4
    BY <2>3, <2>4
  <2> QED
    BY <2>2, <2>3, <2>5, <1>12 DEF CareerFits
<1> QED
  BY <1>1, <1>4, <1>13, <1>14, <1>15, <1>16, <1>17 DEF BelongingsInv

\* No other use takes a class or books back.
LEMMA UseForgets ==
  ASSUME UseNext
  PROVE  forgot' = forgot
<1>1. ASSUME NEW s \in Bag,
             \/ UsePlain(s) \/ UsePetItem(s) \/ UseBuffItem(s) \/ UseTonic(s) \/ UseCard(s)
             \/ OpenFortuneBox(s) \/ OpenGiftBox(s) \/ UseFactionScroll(s) \/ UseFillerPotion(s)
             \/ Learn(s) \/ UseForm(s) \/ BeginTimedUse(s) \/ EndTimedUse(s)
             \/ ActivateTimeLimited(s) \/ EyeballCloses(s) \/ Discard(s) \/ LightFirework(s)
      PROVE  forgot' = forgot
  BY <1>1 DEF UsePlain, UsePetItem, UseBuffItem, UseTonic, UseCard, OpenFortuneBox, OpenGiftBox,
     UseFactionScroll, UseFillerPotion, Learn, UseForm, BeginTimedUse, EndTimedUse,
     ActivateTimeLimited, EyeballCloses, Discard, LightFirework, usage
<1>2. ASSUME NEW minute \in BOOLEAN, NEW gone \in SUBSET c.buffs, Tick(minute, gone)
      PROVE  forgot' = forgot
  BY <1>2 DEF Tick
<1>3. ASSUME NEW minute \in BOOLEAN, ChangeMap(minute) PROVE forgot' = forgot
  BY <1>3 DEF ChangeMap
<1> QED
  BY <1>1, <1>2, <1>3 DEF UseNext

\* Who leaves and comes back has the books and the career there were; the lot is gone.
LEMMA ComesBack ==
  ASSUME BelongingsInv, ComeBack, career' = [career EXCEPT !.lot = FALSE], UNCHANGED <<shop, npcs>>
  PROVE  BelongingsInv'
<1>1. using' = using /\ UNCHANGED <<eyes, arena, books, forgot, epoch>> /\ detect' = FALSE
      /\ pet' = PetAgain(pet) /\ met' \in BOOLEAN
  BY DEF ComeBack
<1>2. Sound(c', using', met')
  BY <1>1, ComeBackSound DEF BelongingsInv
<1>3. UseBits'
  BY <1>1 DEF BelongingsInv, UseBits
<1>4. PetKept(pet')
  BY <1>1, PetFacts DEF BelongingsInv
<1>5. BooksKept'
  BY <1>1, FewerBooks DEF BelongingsInv
<1>6. career' \in Careers /\ career'.step = career.step /\ career'.class = career.class
  BY DEF BelongingsInv, Careers
<1>7. CareerFits'
  BY <1>1, <1>6 DEF BelongingsInv, CareerFits
<1> QED
  BY <1>2, <1>3, <1>4, <1>5, <1>6, <1>7 DEF BelongingsInv

\* And every step, of whichever part, keeps it.
LEMMA BelongingsStep ==
  ASSUME BelongingsInv, [Next]_vars
  PROVE  BelongingsInv'
<1>1. CASE UseNext /\ UNCHANGED <<shop, npcs, career>>
  <2>1. Sound(c', using', met') /\ UseBits' /\ PetKept(pet') /\ BooksKept'
    BY <1>1, UseSound, UseBitsKept, UsePet, UseBooks DEF BelongingsInv
  <2>2. CareerFits'
    <3>1. CASE UNCHANGED forgot
      BY <1>1, <3>1 DEF BelongingsInv, CareerFits
    <3> QED
      BY <1>1, <3>1, UseForgets
  <2> QED
    BY <1>1, <2>1, <2>2 DEF BelongingsInv
<1>2. CASE using = {} /\ WorkshopNext /\ UNCHANGED <<usage, shop, npcs, career>>
  <2>1. using' = using /\ met' = met /\ UseBits' /\ pet' = pet /\ BooksKept' /\ CareerFits'
    BY <1>2 DEF usage, BelongingsInv, UseBits, BooksKept, BooksOnce, CareerFits
  <2>2. Sound(c', {}, met)
    BY <1>2, WorkshopSound DEF BelongingsInv
  <2> QED
    BY <1>2, <2>1, <2>2 DEF BelongingsInv
<1>3. CASE using = {} /\ NpcNext /\ UNCHANGED shop
  <2>1. SameUse /\ (books' = books \/ books' = NoBooks) /\ npcs' = npcs
    BY <1>3, NpcUse DEF NpcNext
  <2>2. using' = using /\ met' = met /\ UseBits' /\ pet' = pet
    BY <2>1 DEF SameUse, BelongingsInv, UseBits
  <2>3. BooksKept'
    BY <2>1, FewerBooks DEF SameUse, BelongingsInv
  <2>4. Sound(c', {}, met)
    BY <1>3, NpcSound DEF BelongingsInv
  <2>5. career' \in Careers /\ CareerFits'
    BY <1>3, CareerKept DEF BelongingsInv
  <2> QED
    BY <1>3, <2>1, <2>2, <2>3, <2>4, <2>5 DEF BelongingsInv
<1>4. CASE ComeBack /\ career' = [career EXCEPT !.lot = FALSE] /\ UNCHANGED <<shop, npcs>>
  BY <1>4, ComesBack
<1>5. CASE UNCHANGED vars
  BY <1>5 DEF vars, usage, BelongingsInv, UseBits, BooksKept, BooksOnce, CareerFits
<1>6. CASE \E s \in Bag : UseTransform(s) /\ UNCHANGED shop
  <2>1. PICK s \in Bag : UseTransform(s) /\ UNCHANGED shop
    BY <1>6
  <2>2. Sound(c', using', met') /\ UNCHANGED <<pet, npcs, using, met, eyes, detect, arena, epoch>>
        /\ forgot' = TRUE
    BY <2>1, UseTransformSound DEF BelongingsInv, UseTransform
  <2>3. UseBits'
    BY <2>2 DEF BelongingsInv, UseBits
  <2>4. BooksKept' /\ career' \in Careers /\ CareerFits'
    BY <2>1, TransformBooks, TransformCareer DEF BelongingsInv
  <2> QED
    BY <2>1, <2>2, <2>3, <2>4 DEF BelongingsInv
<1> QED
  BY <1>1, <1>2, <1>3, <1>4, <1>5, <1>6 DEF Next

\* Whatever is done, in whatever order: the invariant holds.
THEOREM BelongingsInvariant == Spec => []BelongingsInv
<1>1. Init => BelongingsInv
  BY BelongingsStart
<1>2. BelongingsInv /\ [Next]_vars => BelongingsInv'
  BY BelongingsStep
<1> QED
  BY <1>1, <1>2, PTL DEF Spec

\* A character, what it holds, uses and has learned, its pet, and the shop and NPCs around it
\* have their types: no handler of Character.UseConsumable, of the workshop or of an NPC
\* makes a quantity, a plus, or gold that does not fit in its bounds.
THEOREM BelongingsTyping == Spec => []TypeOK
<1>1. BelongingsInv => TypeOK
  <2> SUFFICES ASSUME BelongingsInv PROVE TypeOK
    OBVIOUS
  <2>1. using \subseteq Slots
    BY DEF BelongingsInv, Sound, InHand, Slots
  <2> QED
    BY <2>1 DEF BelongingsInv, Sound, Kept, UseBits, BooksKept, PetKept, TypeOK, UseTypeOK, NpcTypeOK
<1> QED
  BY <1>1, BelongingsInvariant, PTL

\* What is held is what would be loaded again, for every slot but those known to be left
\* unsaved: no chain of operations of a handler loses a save or leaves the row of an item
\* that is gone.
THEOREM RowsAreFollowed == Spec => []RowsFollow
<1>1. BelongingsInv => RowsFollow
  BY DEF BelongingsInv, Sound, Kept, RowsKept, Follows, RowsFollow
<1> QED
  BY <1>1, BelongingsInvariant, PTL

\* An item of plus n has codes in its first n places and in no other, and codes only in open
\* sockets, through every order of strengthening, failing, extracting, watering and moving
\* of BSUpgrade, Extraction, HolyWaterUpgrade and EnhancementTransfer.
THEOREM GearStaysWhole == Spec => []GearIsWhole
<1>1. BelongingsInv => GearIsWhole
  BY DEF BelongingsInv, Sound, Kept, Holdings, FitItems, GearIsWhole
<1> QED
  BY <1>1, BelongingsInvariant, PTL

\* Spirits, items in use, forms, books, the class and the pet keep out of each other's way
\* through all that UseConsumable, its timers, the NPCs and PetHandler do.
THEOREM EffectsStayFit == Spec => []EffectsFit
<1>1. BelongingsInv => EffectsFit
  <2> SUFFICES ASSUME BelongingsInv PROVE EffectsFit
    OBVIOUS
  <2>1. Kept(c) /\ (~met => Single(c)) /\ PetKept(pet) /\ BooksKept /\ CareerFits
    BY DEF BelongingsInv, Sound
  <2>2. SpiritsApart
    BY <2>1 DEF Kept, Holdings, Spirits, SpiritsApart
  <2>3. OneInUse
    BY <2>1 DEF Single, OneInUse
  <2>4. FormWorn
    BY <2>1 DEF Kept, WornForm, IsForm, FormWorn
  <2>5. BooksOnce
    BY <2>1 DEF BooksKept
  <2>6. PetFits
    BY <2>1 DEF PetKept, Moved, PetFits
  <2> QED
    BY <2>1, <2>2, <2>3, <2>4, <2>5, <2>6 DEF EffectsFit
<1> QED
  BY <1>1, BelongingsInvariant, PTL
=============================================================================
