------------------------------- MODULE Goods -------------------------------
(***************************************************************************)
(* A character and what it carries, for the handlers that use up items     *)
(* (module Use) and those that make and change them (module Workshop): the *)
(* operations of database/characters.go and database/inventory.go that all *)
(* of these handlers are made of.                                          *)
(*                                                                         *)
(* A handler is a chain of these operations, so they are functions from a  *)
(* Character record to the next one.  A step is a whole handler; what may  *)
(* happen between the waits for the database inside one operation is the   *)
(* subject of module Inventory.  Items do not move here, so that a row is  *)
(* that of a slot.                                                         *)
(*                                                                         *)
(* Every operation that uses up the last item of a slot locks ItemMutex of *)
(* UsedConsumables.  Once a handler returned without unlocking it ("jam"), *)
(* the next that comes there waits for ever: it is stuck, and what would   *)
(* follow in its handler never happens.                                    *)
(***************************************************************************)
EXTENDS Integers, FiniteSets, FiniteSetsExt

CONSTANTS
  Bag,         \* slots of the bag
  Extra,       \* those of them that only an expanded bag offers
  Worn,        \* slots of what is worn and runs out by the minute
  Kinds,       \* item ids
  Type,        \* Type[k]: what item.GetType() and the ids in the code make of k
  Stackable,   \* those that FindStackableByUIF finds
  None,        \* a row that does not exist
  MaxPlus, MaxSockets,
  MaxQty, MaxGold  \* bounds: items in a slot, gold

Slots == Bag \cup Worn

\* codes and socks: the positions of UpgradeArr and SocketArr that hold a code; on:
\* Activated and InUse; id: the slot has the id of a row.
ItemRecs(quantities) ==
  [kind : Kinds \cup {0}, qty : quantities, plus : 0..MaxPlus,
   codes : SUBSET (1..MaxPlus), sockets : 0..MaxSockets,
   socks : SUBSET (1..MaxSockets), on : BOOLEAN, id : BOOLEAN]
SlotRecs == ItemRecs(0..MaxQty)

\* The types of what is switched on and off; its quantity is time, so it does not stack.
Switched == {"timed", "eyeball", "form"}

ASSUME GoodsAssumption ==
  /\ Slots \subseteq Nat /\ IsFiniteSet(Slots) /\ Bag \cap Worn = {} /\ Extra \subseteq Bag
  /\ Kinds \subseteq Nat \ {0} /\ IsFiniteSet(Kinds) /\ Stackable \subseteq Kinds
  /\ DOMAIN Type = Kinds /\ \A k \in Stackable : Type[k] \notin Switched
  /\ None \notin ItemRecs(Nat)
  /\ MaxPlus \in Nat /\ MaxSockets \in Nat /\ MaxQty \in Nat /\ MaxGold \in Nat

VARIABLE c  \* the Character that is online

NewSlot == [kind |-> 0, qty |-> 0, plus |-> 0, codes |-> {}, sockets |-> 0, socks |-> {},
            on |-> FALSE, id |-> FALSE]
NewItem(k, n) == [NewSlot EXCEPT !.kind = k, !.qty = n]
Upgraded(k, p) == [NewSlot EXCEPT !.kind = k, !.qty = 1, !.plus = p, !.codes = 1..p]

Buffs == {"bag", "fire", "water", "reborn", "blessing", "welcome"}
Characters ==
  [slot : [Slots -> SlotRecs],           \* the InventorySlot of every slot
   row : [Slots -> SlotRecs \cup {None}],\* the row of the item there
   gold : 0..MaxGold,
   buffs : SUBSET Buffs,                 \* rows of characters_buffs
   marks : SUBSET Kinds,                 \* UsedConsumables.Items
   jam : BOOLEAN,                        \* ItemMutex is locked and nobody will unlock it
   held : BOOLEAN,                       \* InvMutex is held by one that waits for ever
   stuck : BOOLEAN,                      \* the handler at work waits for ever
   ticks : BOOLEAN,                      \* the timer of Handler goes on
   morphed : BOOLEAN,
   behind : SUBSET Slots]                \* history: slots that were not saved

KindOf(b, s) == b.slot[s].kind
TypeAt(b, s) == IF KindOf(b, s) = 0 THEN "none" ELSE Type[KindOf(b, s)]
Has(b, k) == {s \in Slots : KindOf(b, s) = k}

-----------------------------------------------------------------------------
\* InventorySlot.Update: without an id, or without a row, nothing happens.
Save(b, s) ==
  IF ~b.slot[s].id \/ b.row[s] = None THEN b
  ELSE [b EXCEPT !.row[s] = b.slot[s], !.behind = @ \ {s}]

\* InventorySlot.Delete on its own: the slot keeps its item.
DeleteRow(b, s) == [b EXCEPT !.row[s] = None, !.behind = @ \cup {s}]

Blanked(b, s) == [b EXCEPT !.slot[s] = NewSlot, !.row[s] = None, !.behind = @ \ {s}]

\* A form that is taken away is taken off.
RemoveItem(b, s) ==
  IF b.stuck THEN b
  ELSE [Blanked(b, s) EXCEPT
          !.morphed = @ /\ ~(b.slot[s].on /\ TypeAt(b, s) = "form")]

CanDecrement(b, s, n) == KindOf(b, s) # 0 /\ n <= b.slot[s].qty

\* The last one of a slot takes the mark of its id away, under ItemMutex.
DecrementItem(b, s, n) ==
  IF b.stuck THEN b
  ELSE IF n < b.slot[s].qty THEN Save([b EXCEPT !.slot[s].qty = @ - n], s)
  ELSE IF b.jam
  THEN [b EXCEPT !.slot[s].qty = 0, !.stuck = TRUE, !.behind = @ \cup {s}]
  ELSE [Blanked(b, s) EXCEPT !.marks = @ \ {KindOf(b, s)}]

-----------------------------------------------------------------------------
FindFreeSlots(b) ==
  {s \in Bag : KindOf(b, s) = 0 /\ (s \in Extra => "bag" \in b.buffs)}
FindFreeSlot(b) == IF FindFreeSlots(b) = {} THEN {} ELSE {Min(FindFreeSlots(b))}

ByPlus == {k \in Kinds : Type[k] = "stone"}
FindItemInInventory(b, k) == IF Has(b, k) = {} THEN {} ELSE {Min(Has(b, k))}
FindItemInInventoryByPlus(b, k, p) ==
  LET found == {s \in Has(b, k) : b.slot[s].plus = p}
  IN IF found = {} THEN {} ELSE {Min(found)}

\* The slot that AddItem takes when it is told none; the empty set when there is none.
Stacks(b, item) ==
  IF item.kind \notin Stackable THEN {}
  ELSE IF item.kind \in ByPlus THEN FindItemInInventoryByPlus(b, item.kind, item.plus)
  ELSE FindItemInInventory(b, item.kind)
Target(b, item) == IF Stacks(b, item) # {} THEN Stacks(b, item) ELSE FindFreeSlot(b)

\* AddItem with a slot: what is there is written over, its id stays.
AddItemAt(b, s, item) ==
  IF b.stuck THEN b
  ELSE LET new == [item EXCEPT !.id = TRUE]
       IN IF b.slot[s].id
          THEN Save([b EXCEPT !.slot[s] = new], s)
          ELSE [b EXCEPT !.slot[s] = new, !.row[s] = new, !.behind = @ \ {s}]

\* AddItem without one: it is put to others of its kind, or in the first free slot.
AddItem(b, item) ==
  IF b.stuck \/ Target(b, item) = {} THEN b
  ELSE LET s == CHOOSE t \in Target(b, item) : TRUE
           old == IF Stacks(b, item) = {} THEN 0 ELSE b.slot[s].qty
       IN AddItemAt(b, s, [item EXCEPT !.qty = @ + old])

LootGold(b, amount) == IF b.stuck THEN b ELSE [b EXCEPT !.gold = @ + amount]

\* Bound: what a handler gives fits in.
Fits(b) ==
  /\ b.gold \in 0..MaxGold
  /\ \A s \in Slots : /\ b.slot[s].qty <= MaxQty
                      /\ b.row[s] # None => b.row[s].qty <= MaxQty

\* A handler has run; one that is stuck keeps InvMutex if it held it.
Runs(b) == Fits(b) /\ c' = [b EXCEPT !.stuck = FALSE]
RunsLocked(b) == Fits(b) /\ c' = [b EXCEPT !.stuck = FALSE, !.held = @ \/ b.stuck]

\* The character comes in again: everything is read from the rows.
LoadedAgain(b) ==
  [b EXCEPT !.slot = [s \in Slots |-> IF b.row[s] = None THEN NewSlot ELSE b.row[s]],
            !.marks = {}, !.jam = FALSE, !.held = FALSE, !.ticks = TRUE,
            !.morphed = FALSE, !.behind = {}]
=============================================================================
