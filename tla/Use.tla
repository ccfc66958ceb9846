-------------------------------- MODULE Use --------------------------------
(***************************************************************************)
(* What is used up, worn out and switched on: Character.UseConsumable, the *)
(* packets that lead to it, and the part of Character.Handler that runs    *)
(* every second, in database/characters.go and player/inventory.go.        *)
(*                                                                         *)
(* What a use does to health, place and statistics is left out; so are the *)
(* refusals for level and character type, which change nothing.  Using an  *)
(* item that runs for a time takes two steps, since two packets that each  *)
(* found none of its kind in use may both go on; bound: in between, slots  *)
(* are not emptied and the character does not leave.                       *)
(***************************************************************************)
EXTENDS Pets, Folds

CONSTANTS
  Exempt,   \* kinds with HtType 21, which FindItemInUsed passes over
  Cost,     \* Cost[k]: gold for opening box k
  Gives,    \* Gives[k]: kinds that come out of box k, or with spirit k
  Key       \* Key[k]: the kind that opens fortune box k; 0: none is needed

ASSUME UseAssumption ==
  /\ Exempt \subseteq Kinds
  /\ Cost \in [Kinds -> Nat] /\ Gives \in [Kinds -> SUBSET Kinds]
  /\ Key \in [Kinds -> Kinds \cup {0}]
  /\ \A k \in Kinds : Key[k] # 0 => Key[k] # k /\ Type[Key[k]] \notin Switched

VARIABLES
  using,    \* slots whose item is being switched on or off
  met,      \* history: the marks were no guard while an item was switched on, or an
            \* item came back in use that had been taken off
  eyes,     \* slots of eyeballs whose timer has not run
  detect,   \* DetectionMode
  arena,    \* the map is one where forms are not allowed
  books,    \* books[i]: the book in the i-th place of the skills
  forgot,   \* history: books were taken out of their places
  epoch     \* the minutes that passed, modulo 2

usage == <<using, met, eyes, detect, arena, books, forgot, epoch, pet>>

Places == 0..7

UseInit ==
  /\ using = {} /\ met = FALSE
  /\ eyes = {} /\ detect = FALSE
  /\ arena = FALSE
  /\ books = [i \in Places |-> 0] /\ forgot = FALSE
  /\ epoch = 0

-----------------------------------------------------------------------------
FindItemInUsed(b, k) == k \notin Exempt /\ \E s \in Slots : KindOf(b, s) = k /\ b.slot[s].on

Usable(s) ==
  /\ CanDecrement(c, s, 1)
  /\ ~FindItemInUsed(c, KindOf(c, s))

\* The effect is elsewhere; one is used up.  A charm of return calls the pet back.
UsePlain(s) ==
  /\ Usable(s) /\ TypeAt(c, s) \in {"plain", "charm"}
  /\ Runs(DecrementItem(c, s, 1))
  /\ pet' = IF TypeAt(c, s) = "charm" THEN Dismissed(pet) ELSE pet
  /\ UNCHANGED <<using, met, eyes, detect, arena, books, forgot, epoch>>

\* For a pet, in the state it has to be in; otherwise the item is only shown again.  There
\* are maps where TogglePet does nothing.
UsePetItem(s) ==
  /\ Usable(s) /\ TypeAt(c, s) \in {"incense", "petpotion"}
  /\ LET incense == TypeAt(c, s) = "incense"
         fit == pet.owned /\ IF incense THEN ~pet.out /\ pet.hp = 0 ELSE pet.out
     IN /\ incense /\ fit => pet.beats < MaxTimers
        /\ Runs(DecrementItem(c, s, IF fit THEN 1 ELSE 0))
        /\ \/ ~fit /\ pet' = pet
           \/ fit /\ ~incense /\ pet' = [pet EXCEPT !.hp = 2]
           \/ fit /\ incense /\ LET p == [pet EXCEPT !.hp = 1] IN pet' \in {p, Toggled(p)}
  /\ UNCHANGED <<using, met, eyes, detect, arena, books, forgot, epoch>>

OpposedMutant(k) == {Type[k]}

\* What a buff does not go with.
Opposed(k) == IF Type[k] = "bag" THEN {"bag"} ELSE {"fire", "water"}

\* The bag expansion and the two spirits: not on top of the same, nor of the other spirit.
\* A spirit brings an item; without room for it the answer panics, and what is left of
\* the handler is skipped.
UseBuffItem(s) ==
  /\ Usable(s) /\ TypeAt(c, s) \in {"bag", "fire", "water"}
  /\ LET k == KindOf(c, s)
         buffed == [c EXCEPT !.buffs = @ \cup {Type[k]}]
     IN /\ Opposed(k) \cap c.buffs = {}
        /\ \/ /\ Gives[k] = {}
              /\ Runs(DecrementItem(buffed, s, 1))
           \/ \E g \in Gives[k] :
                LET room == Target(buffed, NewItem(g, 1)) # {}
                IN Runs(DecrementItem(AddItem(buffed, NewItem(g, 1)), s, IF room THEN 1 ELSE 0))
  /\ UNCHANGED usage

\* What is in a box: some come with upgrades.
Rewards(k) == IF Type[k] \in {"stone", "gear"}
              THEN {Upgraded(k, p) : p \in 1..MaxPlus} ELSE {NewItem(k, 1)}

\* Under InvMutex.  The key and the gold go first; without room for what came out the box
\* stays, and so it does when the draw of the plus of a stone panics, past the last of its
\* rates.
OpenFortuneBox(s) ==
  /\ Usable(s) /\ TypeAt(c, s) = "fortune" /\ ~c.held
  /\ LET k == KindOf(c, s)
         key == FindItemInInventory(c, Key[k])
     IN /\ Cost[k] <= c.gold /\ (Key[k] # 0 => key # {})
        /\ LET opened == IF Key[k] = 0 THEN c ELSE DecrementItem(c, Min(key), 1)
               paid == LootGold(opened, -Cost[k])
           IN \E g \in Gives[k], fails \in BOOLEAN : \E reward \in Rewards(g) :
                IF Target(paid, reward) = {} \/ (Type[g] = "stone" /\ fails)
                THEN RunsLocked(paid)
                ELSE RunsLocked(DecrementItem(AddItem(paid, reward), s, 1))
  /\ UNCHANGED usage

\* What came out of a gift box is added piece by piece.
Chosen(b, f) == FoldSet(LAMBDA g, x : AddItem(x, f[g]), b, DOMAIN f)

\* A gift box, under InvMutex: it is paid for before the free slots are counted.
OpenGiftBox(s) ==
  /\ Usable(s) /\ TypeAt(c, s) = "gift" /\ ~c.held
  /\ LET k == KindOf(c, s)
         paid == LootGold(c, -Cost[k])
     IN /\ Cost[k] <= c.gold
        /\ IF Cardinality(FindFreeSlots(c)) < Cardinality(Gives[k])
           THEN RunsLocked(DecrementItem(paid, s, 0))
           ELSE \E f \in {h \in [Gives[k] -> UNION {Rewards(g) : g \in Gives[k]}] :
                            \A g \in Gives[k] : h[g] \in Rewards(g)} :
                  RunsLocked(DecrementItem(Chosen(paid, f), s, 1))
  /\ UNCHANGED usage

\* A tonic: the row of the whole stack is deleted before one is taken away.
UseTonic(s) ==
  /\ Usable(s) /\ TypeAt(c, s) = "tonic" /\ ~c.held
  /\ RunsLocked(DecrementItem(DeleteRow(c, s), s, 1))
  /\ UNCHANGED usage

\* Cash cards.
UseCard(s) ==
  /\ Usable(s) /\ TypeAt(c, s) = "card" /\ ~c.held
  /\ RunsLocked(DecrementItem(c, s, 1))
  /\ UNCHANGED usage

\* The scroll that changes the faction loses its row and stays in its slot.
UseFactionScroll(s) ==
  /\ Usable(s) /\ TypeAt(c, s) = "faction"
  /\ Runs(DecrementItem(DeleteRow(c, s), s, 0))
  /\ UNCHANGED usage

\* As much of a filler potion as is needed.
UseFillerPotion(s) ==
  /\ Usable(s) /\ TypeAt(c, s) = "filler"
  /\ \E n \in 0..c.slot[s].qty : Runs(DecrementItem(c, s, n))
  /\ UNCHANGED usage

-----------------------------------------------------------------------------
\* The first free place of those for the kind of book; the search ends there, and a book
\* that is found before it is refused.
PlacesFor(k) ==
  CASE Type[k] = "drift" -> 7..7
    [] Type[k] = "passive" -> 5..6
    [] OTHER -> 0..4

Learn(s) ==
  /\ Usable(s) /\ TypeAt(c, s) \in {"book", "divine", "passive", "drift"}
  /\ LET k == KindOf(c, s)
         free == {i \in PlacesFor(k) : books[i] = 0}
     IN /\ free # {}
        /\ \A i \in PlacesFor(k) : i < Min(free) => books[i] # k
        /\ books' = [books EXCEPT ![Min(free)] = k]
  /\ Runs(DecrementItem(c, s, 1))
  /\ UNCHANGED <<using, met, eyes, detect, arena, forgot, epoch, pet>>

-----------------------------------------------------------------------------
Toggle(b, s) == [b EXCEPT !.slot[s].on = ~@]

\* A form is put on, or taken off, when it agrees with what the character looks like.
UseForm(s) ==
  /\ Usable(s) /\ TypeAt(c, s) = "form"
  /\ LET worn == c.slot[s].on
     IN IF worn # c.morphed
        THEN Runs(DecrementItem(c, s, 0))
        ELSE /\ ~arena
             /\ Runs(DecrementItem([Toggle(c, s) EXCEPT !.morphed = ~worn], s, 0))
  /\ UNCHANGED usage

\* The first part of a timed use: none of its kind is in use.  An eyeball of the divine
\* sets its timer here.
BeginTimedUse(s) ==
  /\ Usable(s) /\ TypeAt(c, s) \in {"timed", "eyeball"} /\ s \notin using
  /\ using' = using \cup {s}
  /\ LET opens == TypeAt(c, s) = "eyeball" /\ ~detect
     IN /\ eyes' = IF opens THEN eyes \cup {s} ELSE eyes
        /\ detect' = (detect \/ opens)
  /\ UNCHANGED <<c, met, arena, books, forgot, epoch, pet>>

\* The second part, under ItemMutex.  When one of its kind has been marked meanwhile, it
\* returns without unlocking it.
EndTimedUse(s) ==
  /\ s \in using
  /\ using' = using \ {s}
  /\ LET k == KindOf(c, s)
         switched == Toggle(c, s)
         marked == IF switched.slot[s].on THEN c.marks \cup {k} ELSE c.marks \ {k}
     IN IF c.jam THEN UNCHANGED c
        ELSE IF ~c.slot[s].on /\ k \in c.marks THEN c' = [c EXCEPT !.jam = TRUE]
        ELSE Runs(DecrementItem([switched EXCEPT !.marks = marked], s, 0))
  /\ UNCHANGED <<met, eyes, detect, arena, books, forgot, epoch, pet>>

\* Somebody is about to switch on one of kind k.
Beginning(k) == \E t \in using : KindOf(c, t) = k

\* ActivateTimeLimitedItemHandler, which knows nothing of the marks.
ActivateTimeLimited(s) ==
  /\ TypeAt(c, s) \in {"timed", "eyeball", "form"}
  /\ \A t \in Has(c, KindOf(c, s)) : ~c.slot[t].on
  /\ Runs(Save(Toggle(c, s), s))
  /\ met' = (met \/ Beginning(KindOf(c, s)))
  /\ UNCHANGED <<using, eyes, detect, arena, books, forgot, epoch, pet>>

\* The timer of an eyeball deletes the row of whatever is in the slot by then, and the
\* marks of all eyeballs.
EyeballCloses(s) ==
  /\ s \in eyes
  /\ eyes' = eyes \ {s}
  /\ LET gone == IF KindOf(c, s) = 0 THEN c ELSE DeleteRow(c, s)
     IN IF c.jam THEN c' = gone /\ UNCHANGED <<detect, met>>
        ELSE /\ c' = [gone EXCEPT !.marks = {k \in @ : Type[k] # "eyeball"}]
             /\ detect' = FALSE
             /\ met' = (met \/ \E t \in using : TypeAt(c, t) = "eyeball")
  /\ UNCHANGED <<using, arena, books, forgot, epoch, pet>>

-----------------------------------------------------------------------------
DueMutant(b) == {s \in Worn : KindOf(b, s) # 0}

\* What a minute takes a unit of.
Due(b) == {s \in Slots : KindOf(b, s) # 0 /\ (s \in Worn \/ b.slot[s].on)}

\* The forms in S are passed slot by slot: is the character seen as one after that?
SeenAs(S, seen, last, bar) ==
  MapThenFoldSet(LAMBDA s, m : s \notin last /\ ~(m /\ bar), seen,
                 LAMBDA s : s, LAMBDA T : Max(T), S)

\* HandleLimitedItems: every minute a unit of what is worn, and of what is in use, runs
\* out, slot by slot, as far as one that runs out and waits for the mutex; a form in use
\* is seen, but not where forms are not allowed (bar) - there it is taken off, and that is
\* not saved.
HandleLimitedItems(b, minute, bar) ==
  LET last == {s \in Due(b) : minute /\ b.slot[s].qty <= 1}
      waits == b.jam /\ last # {}
      reached == IF waits THEN {s \in Due(b) : s <= Min(last)} ELSE Due(b)
      One(s) == IF minute /\ s \in reached THEN DecrementItem(b, s, 1) ELSE b
      forms == {s \in reached \cap Bag : TypeAt(b, s) = "form" /\ ~(waits /\ s \in last)}
      MorphedAfter(S) == SeenAs(S, b.morphed, last, bar)
      bare == {s \in forms \ last : bar /\ MorphedAfter({t \in forms : t < s})}
  IN [b EXCEPT
        !.slot = [s \in Slots |-> [One(s).slot[s] EXCEPT !.on = @ /\ s \notin bare]],
        !.row = [s \in Slots |-> One(s).row[s]],
        !.behind = bare \cup {s \in Slots : s \in One(s).behind},
        !.marks = IF waits THEN @ ELSE @ \ {KindOf(b, s) : s \in last},
        !.morphed = MorphedAfter(forms),
        !.stuck = waits]

\* Bound: no minute passes in the middle of the use of a last unit.
MayPass == \A s \in using : ~c.slot[s].on \/ c.slot[s].qty > 1

\* A second of Handler: a buff that has run out goes, then the limited items.  What is worn
\* and runs out takes a mark with it that may be another's.
Tick(minute, gone) ==
  /\ c.ticks /\ (minute => MayPass)
  /\ Cardinality(gone) <= 1
  /\ LET aged == HandleLimitedItems([c EXCEPT !.buffs = @ \ gone], minute, arena)
         eyed == \E s \in Bag : TypeAt(aged, s) = "eyeball" /\ aged.slot[s].on
     IN /\ c' = [aged EXCEPT !.ticks = ~aged.stuck, !.stuck = FALSE]
        /\ detect' = (detect \/ eyed)
        /\ epoch' = IF minute THEN 1 - epoch ELSE epoch
        /\ met' = (met \/ (minute /\ \E s \in Worn : Beginning(KindOf(c, s))))
  /\ UNCHANGED <<using, eyes, arena, books, forgot, pet>>

\* ChangeMap, to a map where forms are allowed or to one where they are not; the pet is
\* called back.  Bound: with a form in the bag, or a pet that is out.
ChangeMap(minute) ==
  /\ using = {} /\ ((\E s \in Bag : TypeAt(c, s) = "form") \/ pet.out)
  /\ arena' = ~arena
  /\ IF arena' /\ c.morphed
     THEN LET aged == HandleLimitedItems(c, minute, ~arena) IN c' = [aged EXCEPT !.stuck = FALSE]
     ELSE c' = c
  /\ pet' = Dismissed(pet)
  /\ UNCHANGED <<using, met, eyes, detect, books, forgot, epoch>>

\* RemoveItemHandler and DestroyItemHandler: the mark of an item in use stays.
Discard(s) ==
  /\ KindOf(c, s) # 0 /\ s \notin using
  /\ Runs(RemoveItem(c, s))
  /\ UNCHANGED usage

\* FireworkHandler.
LightFirework(s) ==
  /\ TypeAt(c, s) = "firework" /\ s = Min(Has(c, KindOf(c, s))) /\ CanDecrement(c, s, 1)
  /\ Runs(DecrementItem(c, s, 1))
  /\ UNCHANGED usage

\* What had been taken off, or used up, and that was not saved.
Revived(b, s) ==
  b.row[s] # None /\ b.row[s].on /\ ~(b.slot[s].on /\ b.slot[s].kind = b.row[s].kind)

\* The character leaves and comes back.  Bound: no timer of an eyeball outlasts that.
ComeBack ==
  /\ using = {} /\ eyes = {}
  /\ c' = LoadedAgain(c)
  /\ detect' = FALSE /\ pet' = PetAgain(pet)
  /\ met' = (met \/ \E s \in Slots : Revived(c, s))
  /\ UNCHANGED <<using, eyes, arena, books, forgot, epoch>>

-----------------------------------------------------------------------------
UseNext ==
  \/ \E s \in Bag :
       \/ UsePlain(s) \/ UsePetItem(s) \/ UseBuffItem(s) \/ UseTonic(s) \/ UseCard(s)
       \/ OpenFortuneBox(s) \/ OpenGiftBox(s) \/ UseFactionScroll(s) \/ UseFillerPotion(s)
       \/ Learn(s) \/ UseForm(s) \/ BeginTimedUse(s) \/ EndTimedUse(s)
       \/ ActivateTimeLimited(s) \/ EyeballCloses(s) \/ Discard(s) \/ LightFirework(s)
  \/ \E minute \in BOOLEAN, gone \in SUBSET c.buffs : Tick(minute, gone)
  \/ \E minute \in BOOLEAN : ChangeMap(minute)
  \/ PetNext /\ UNCHANGED <<using, met, eyes, detect, arena, books, forgot, epoch>>

-----------------------------------------------------------------------------
UseTypeOK ==
  /\ using \subseteq Slots /\ eyes \subseteq Slots
  /\ met \in BOOLEAN /\ detect \in BOOLEAN /\ arena \in BOOLEAN /\ forgot \in BOOLEAN
  /\ books \in [Places -> Kinds \cup {0}]
  /\ epoch \in 0..1
  /\ pet \in PetSlots
=============================================================================
