------------------------------ MODULE Workshop ------------------------------
(***************************************************************************)
(* What is made, mended, bought and sold: the packets of npc/blacksmith.go, *)
(* npc/jangbo.go and npc/exhange.go, holy water and enchanting of           *)
(* player/inventory.go, and the methods of database/characters.go they      *)
(* lead to.                                                                 *)
(*                                                                          *)
(* Chances are choices.  What the tables of the database say of a kind is a *)
(* constant.  Refusals for level, type of stone, trade and what may be sold *)
(* change nothing and are left out.  Bound: what a client names are slots   *)
(* that hold something, all of them different, aids to help with, and free  *)
(* slots for what it is to get.                                             *)
(***************************************************************************)
EXTENDS Goods

CONSTANTS
  Fee,        \* Fee[k]: gold for work on a k; what k costs in a shop, in gold or coins
  Coin,       \* Coin[k]: the kinds that may pay for k instead of gold
  SellPrice,  \* SellPrice[k]
  Needs,      \* Needs[k]: materials of recipe or book k; what is fused with k
  Makes,      \* Makes[k]: what comes of recipe, fusion, book or extraction
  Melts,      \* Melts[k]: what k may melt into
  Breaks,     \* kinds whose fusion destroys on failure, and
  Fragile,    \* kinds that a failed fusion always takes
  Pair,       \* Pair[k]: what k looks like after a change of appearance; 0: it has none
  Master,     \* Master[k]: what a chest may make of k; 0: nothing
  Faithful,   \* kinds whose master keeps the enhancement
  PlusLimit,  \* the plus from which no stone helps: 12
  BaguaStones \* stones that go with a bagua: 3

\* What is used up, or changes its looks, is not switched on and off.
ASSUME WorkshopAssumption ==
  /\ Fee \in [Kinds -> Nat] /\ Makes \in [Kinds -> Kinds]
  /\ {Coin, Needs, Melts} \subseteq [Kinds -> SUBSET Kinds]
  /\ {Pair, Master} \subseteq [Kinds -> Kinds \cup {0}]
  /\ \A k \in Kinds :
       /\ \A m \in Coin[k] \cup Needs[k] : Type[m] \notin Switched
       /\ Pair[k] # 0 => {Type[k], Type[Pair[k]]} \cap Switched = {}

VARIABLE shop  \* what is sold where the character is

Gear == {"gear", "htgear"}

\* A slot named in a packet, or none.
Maybe(S) == {{}} \cup {{s} : s \in S}
Filled(b) == {s \in Bag : CanDecrement(b, s, 1)}
Aids == {"luck", "bagua", "scale", "mile", "init"}
Spent(b, S) == FoldSet(LAMBDA s, a : DecrementItem(a, s, 1), b, S)
Gone(b, S) == FoldSet(LAMBDA s, a : RemoveItem(a, s), b, S)

Unsaved(b, s) == IF b.slot[s] = b.row[s] THEN b ELSE [b EXCEPT !.behind = @ \cup {s}]

\* A change of the item in s that is saved at once.
Changed(b, s, item) == IF b.stuck THEN b ELSE Save([b EXCEPT !.slot[s] = item], s)

-----------------------------------------------------------------------------
UpgradeMutant(item, n) ==
  [item EXCEPT !.plus = @ + n, !.codes = @ \cup (item.plus + 1)..(item.plus + n)]

\* InventorySlot.Upgrade: a code for every plus, up to 15.
Upgrade(item, n) ==
  LET plus == Min({item.plus + n, MaxPlus})
  IN IF item.plus >= MaxPlus THEN item
     ELSE [item EXCEPT !.plus = plus, !.codes = @ \cup (item.plus + 1)..plus]

LoweredMutant(item, n) ==
  LET plus == IF item.plus < n THEN 0 ELSE item.plus - n
  IN [item EXCEPT !.plus = plus]

\* A failure that the item outlives: the codes above what is left are cleared.
Lowered(item, n) ==
  LET plus == IF item.plus < n THEN 0 ELSE item.plus - n
  IN [item EXCEPT !.plus = plus, !.codes = {i \in @ : i <= plus}]

\* BSUpgrade.  When the first stone has a plus of its own, all have that; a bagua never
\* fails.  After a failure an item of the kind that outlives it loses what the stone would
\* have given, and one with a scale what the scale says; another is lost.  Stones and charms
\* are used up before the item is saved.
Strengthen(s, stones, luck, scale) ==
  LET item == c.slot[s]
      bagua == \E t \in luck : TypeAt(c, t) = "bagua"
      scaled == \E t \in scale : TypeAt(c, t) = "scale"
      cost == Fee[item.kind] * (item.plus + 1) * 2 ^ (Cardinality(stones) - 1)
      paid == LootGold(c, -cost)
      Better(n) == {Changed(paid, s, Upgrade(item, Max({n, 1}) + m)) :
                      m \in IF bagua THEN 0..4 ELSE {0}}
      Worse(n) == IF bagua THEN {}
                  ELSE IF TypeAt(c, s) = "htgear" \/ scaled
                  THEN {[paid EXCEPT !.slot[s] = Lowered(item, IF scaled THEN 1 ELSE n)]}
                  ELSE {RemoveItem(paid, s)}
  IN /\ TypeAt(c, s) \in Gear /\ item.plus < PlusLimit
     /\ stones # {} /\ cost <= c.gold
     /\ bagua => Cardinality(stones) >= BaguaStones
     /\ \E first \in stones :
          LET n == c.slot[first].plus
          IN /\ n > 0 => \A t \in stones : c.slot[t].plus = n
             /\ \E worked \in Better(n) \cup Worse(n) :
                  LET rest == Spent(Spent(Spent(worked, stones), luck), scale)
                  IN Runs(IF rest.stuck THEN Unsaved(rest, s) ELSE Save(rest, s))

\* BSProduction: gold first, then what is made, then what it is made of.
Production(s, materials, special, to) ==
  LET k == KindOf(c, s)
      paid == LootGold(c, -Fee[k])
      made == AddItemAt(paid, to, NewItem(Makes[k], 1))
  IN /\ TypeAt(c, s) = "recipe" /\ Fee[k] <= c.gold
     /\ {KindOf(c, t) : t \in materials} = Needs[k]
     /\ Cardinality(materials) = Cardinality(Needs[k])
     /\ \/ Runs(Spent(Spent(Spent(made, {s}), materials), special))
        \/ Runs(Spent(Spent(Spent(paid, {s}), materials), special))

\* AdvancedFusion: paid for, it succeeds or does not; otherwise it is refused.
Fused(k, parts, to) ==
  LET paid == LootGold(c, -Fee[k])
  IN IF /\ Fee[k] <= c.gold
        /\ {KindOf(c, t) : t \in parts} = Needs[k] /\ Cardinality(parts) = 2
     THEN {[b |-> AddItemAt(paid, to, NewItem(Makes[k], 1)), success |-> TRUE],
           [b |-> paid, success |-> FALSE]}
     ELSE {[b |-> c, success |-> FALSE]}

\* Its handler takes the parts away after a success, and after a failure, or a refusal,
\* when the fusion is one that destroys; some parts are always lost.
AdvancedFusion(s, parts, special, to) ==
  LET k == KindOf(c, s)
      all == parts \cup {s}
      lost == IF k \in Breaks THEN all ELSE {t \in all : KindOf(c, t) \in Fragile}
  IN /\ TypeAt(c, s) = "part"
     /\ \E fused \in Fused(k, parts, to) :
          Runs(Gone(Gone(fused.b, IF fused.success THEN all ELSE lost), special))

-----------------------------------------------------------------------------
\* In a free slot of its own; only when there is none, to others of its kind.
Yield(b, k) ==
  IF FindFreeSlot(b) # {} THEN AddItemAt(b, Min(FindFreeSlot(b)), NewItem(k, 1))
  ELSE AddItem(b, NewItem(k, 1))
HasRoom(b, k) == FindFreeSlot(b) # {} \/ Stacks(b, NewItem(k, 1)) # {}

\* As many of the kinds in ks as find a place.
Pieces(b, ks) == FoldSet(LAMBDA m, x : IF HasRoom(x, m) THEN Yield(x, m) ELSE x, b, ks)

\* Dismantle: refused, or some of what there may be comes out.
Melted(k) ==
  LET paid == LootGold(c, SellPrice[k] - Fee[k])
  IN IF Melts[k] = {} \/ c.gold < Fee[k] THEN {c}
     ELSE {Pieces(paid, ks) : ks \in SUBSET Melts[k]}

\* Its handler: a refusal, and a bag that fills up, do not keep the item.
Dismantle(s, special) ==
  \E melted \in Melted(KindOf(c, s)) : Runs(Gone(melted, {s} \cup special))

ExtractedMutant(b, s, k) == IF HasRoom(b, k) THEN Yield(b, k) ELSE b

\* The stone comes out of the item, which is saved when there was room for the stone.
Extracted(b, s, k) == IF HasRoom(b, k) THEN Save(Yield(b, k), s) ELSE Unsaved(b, s)

\* Extraction, of the last plus of the item.
Lessened(s) ==
  LET item == c.slot[s]
      lower == [LootGold(c, -Fee[item.kind]) EXCEPT
                  !.slot[s].plus = @ - 1, !.slot[s].codes = @ \ {item.plus}]
  IN IF c.gold < Fee[item.kind] THEN c ELSE Extracted(lower, s, Makes[item.kind])

\* Its handler, which takes the charm away after a refusal too.
Extraction(s, special) ==
  /\ TypeAt(c, s) \in Gear /\ c.slot[s].plus > 0
  /\ Runs(Gone(Lessened(s), special))

-----------------------------------------------------------------------------
\* CreateSocket: a stone closes the sockets there are, or some are opened, which is saved
\* before the codes are cleared.
CreateSocket(s, special) ==
  LET item == c.slot[s]
      init == \E t \in special : TypeAt(c, t) = "init"
      mile == \E t \in special : TypeAt(c, t) = "mile"
      paid == Spent(LootGold(c, -Fee[item.kind]), special)
      Opened(n) == Changed(paid, s, [item EXCEPT !.sockets = n])
  IN /\ TypeAt(c, s) \in Gear /\ Fee[item.kind] <= c.gold
     /\ IF init = (item.sockets = 0) THEN Runs(Save(c, s))
        ELSE IF init
        THEN Runs(Changed(Spent(c, special), s, [item EXCEPT !.sockets = 0, !.socks = {}]))
        ELSE \E n \in 1..(MaxSockets - 1), more \in IF mile THEN 1..2 ELSE {0} :
               LET open == Opened(Min({n + more, MaxSockets}))
               IN Runs(IF open.stuck THEN open ELSE [open EXCEPT !.slot[s].socks = {}])

\* UpgradeSocket: a stone of at least as many plus as there are sockets puts a code in
\* each of them that is not locked; only an edit locks.
UpgradeSocket(s, stone, special, edit, locks) ==
  LET item == c.slot[s]
      coded == [item EXCEPT !.socks = @ \cup (1..item.sockets \ locks)]
      paid == Changed(LootGold(c, -Fee[item.kind]), s, coded)
  IN /\ TypeAt(c, s) \in Gear /\ Fee[item.kind] <= c.gold /\ item.sockets > 0
     /\ TypeAt(c, stone) = "stone" /\ c.slot[stone].plus >= item.sockets
     /\ edit = {} => locks = {}
     /\ Runs(Spent(Spent(Spent(paid, {stone}), special), edit))

\* HolyWaterUpgrade: another code in one of the places that have one, or nothing.
HolyWaterUpgrade(s, water) ==
  LET item == c.slot[s]
  IN /\ TypeAt(c, s) \in Gear /\ TypeAt(c, water) = "holy" /\ item.plus > 0
     /\ \E i \in 1..item.plus :
          Runs(Save(RemoveItem([c EXCEPT !.slot[s].codes = @ \cup {i}], water), s))

\* Enchant: the book and the fusion stone go, and the materials on success; without room
\* for the result the handler panics when all of them are gone.
Enchant(k, materials) ==
  LET book == FindItemInInventory(c, k)
      fusion == {s \in Slots : TypeAt(c, s) = "fusion"}
      begun == Spent(c, {Min(book), Min(fusion)})
  IN /\ Type[k] = "enchant" /\ book # {} /\ fusion # {}
     /\ {KindOf(c, t) : t \in materials} = Needs[k]
     /\ Cardinality(materials) = Cardinality(Needs[k])
     /\ \/ Runs(begun)
        \/ Runs(AddItem(Spent(begun, materials), NewItem(Makes[k], 1)))

-----------------------------------------------------------------------------
FreshMaster(item) == NewItem(Master[item.kind], 1)
KeptMaster(item) == [item EXCEPT !.kind = Master[item.kind], !.qty = 1, !.on = FALSE]

\* ClothImproveChest.Handle and makeMaster: the master comes before the item goes; without
\* room it panics and keeps the chests.  Otherwise all chests of the slot go.
ClothImproveChest(s, chest) ==
  LET item == c.slot[s]
      master == IF item.kind \in Faithful THEN KeptMaster(item) ELSE FreshMaster(item)
  IN /\ TypeAt(c, chest) = "chest"
     /\ \/ Runs(RemoveItem(c, chest))
        \/ /\ Master[item.kind] # 0 /\ Target(c, master) # {}
           /\ Runs(Gone(AddItem(c, master), {s, chest}))

\* EnhancementTransfer.Handle, whatever the two items are, one and the same even.
EnhancementTransfer(s, t, scroll) ==
  LET from == c.slot[s]
  IN /\ TypeAt(c, scroll) = "transfer" /\ from.plus # 0
     /\ Runs(Gone(Changed(c, t, [c.slot[t] EXCEPT
                !.plus = from.plus, !.codes = from.codes,
                !.sockets = from.sockets, !.socks = from.socks]), {s, scroll}))

\* TransferItemTypeHandler; it wants a free slot that it does not use.
TransferItemType(s, charm) ==
  /\ TypeAt(c, charm) = "pair" /\ FindFreeSlot(c) # {}
  /\ Pair[KindOf(c, s)] # 0
  /\ Runs(LET paid == DecrementItem(c, charm, 1)
          IN Changed(paid, s, [paid.slot[s] EXCEPT !.kind = Pair[KindOf(c, s)]]))

\* ChangePetName.Handle: the scroll is gone before it turns out that there is no pet.
ChangePetName(s) == TypeAt(c, s) = "name" /\ Runs(RemoveItem(c, s))

-----------------------------------------------------------------------------
Tenth(b, amount) == IF "water" \in b.buffs THEN amount \div 10 ELSE 0

\* Which coin an NPC takes for what it sells.
CoinSlot(k) == UNION {FindItemInInventory(c, q) : q \in Coin[k]}

\* BuyItemHandler, into a free slot: for coins of one slot,
BuyForCoins(k, n, to) ==
  LET cost == Fee[k] * n
      coin == CoinSlot(k)
  IN /\ coin # {} /\ cost <= c.slot[Min(coin)].qty
     /\ Runs(AddItemAt(DecrementItem(c, Min(coin), cost), to, NewItem(k, n)))

\* or for gold.
BuyForGold(k, n, to) ==
  LET cost == Fee[k] * n
  IN /\ Coin[k] = {} /\ cost <= c.gold
     /\ Runs(AddItemAt(LootGold(c, Tenth(c, cost) - cost), to, NewItem(k, n)))

\* What the handler of a sale makes of the codes is left out.
UnitPrice(item) == SellPrice[item.kind] * IF item.plus > 0 THEN item.plus ELSE 1

\* SellItem: paid for n, all of the slot goes.
SellItem(s, n) ==
  LET price == UnitPrice(c.slot[s]) * n
  IN /\ n <= c.slot[s].qty
     /\ Runs(RemoveItem(LootGold(c, price + Tenth(c, price)), s))

\* BuyHTItemHandler; the cash of the user is left out.
BuyHTItem(k, to) == Runs(AddItemAt(c, to, NewItem(k, 1)))

-----------------------------------------------------------------------------
WorkshopNext ==
  \/ \E s \in Filled(c) :
       LET others == Filled(c) \ {s}
           Stones == {t \in others : TypeAt(c, t) = "stone"}
           Helpers == {t \in others : TypeAt(c, t) \in Aids}
       IN \/ \E stones \in SUBSET Stones, luck \in Maybe(Helpers), scale \in Maybe(Helpers) :
               /\ luck \cap scale = {}
               /\ Strengthen(s, stones, luck, scale)
          \/ \E parts \in SUBSET others, special \in Maybe(Helpers), to \in FindFreeSlots(c) :
               /\ parts \cap special = {} /\ Cardinality(parts) <= 2
               /\ \/ Production(s, parts, special, to)
                  \/ AdvancedFusion(s, parts, special, to)
          \/ \E special \in Maybe(Helpers) :
               \/ Dismantle(s, special) \/ Extraction(s, special) \/ CreateSocket(s, special)
               \/ \E stone \in Stones, edit \in Maybe(Helpers \ special),
                     locks \in SUBSET (1..MaxSockets) :
                    UpgradeSocket(s, stone, special, edit, locks)
          \/ \E water \in others : HolyWaterUpgrade(s, water)
          \/ \E parts \in SUBSET others : Enchant(KindOf(c, s), parts)
          \/ \E n \in 1..MaxQty : SellItem(s, n)
          \/ \E t \in others :
               \/ ClothImproveChest(s, t) \/ TransferItemType(s, t)
               \/ \E to \in Filled(c) \ {t} : EnhancementTransfer(s, to, t)
          \/ ChangePetName(s)
  \/ \E k \in shop, to \in FindFreeSlots(c) :
       \/ \E n \in 1..MaxQty : BuyForCoins(k, n, to) \/ BuyForGold(k, n, to)
       \/ BuyHTItem(k, to)
=============================================================================
