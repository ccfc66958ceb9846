----------------------------- MODULE Inventory -----------------------------
(***************************************************************************)
(* The bag and the bank of one user's characters: the item operations of   *)
(* database/characters.go, player/inventory.go and database/inventory.go.  *)
(*                                                                         *)
(* Every slot of the bag and of the bank is an object in memory that holds *)
(* an item or is blank; every item has a row in the database, by id, that  *)
(* names the slot, and the character unless the item is in the bank, which *)
(* all characters of the user share.  Moving, swapping, splitting and      *)
(* combining hold InvMutex; adding, removing and arranging do not, and     *)
(* wait for the database between what they read and what they write.       *)
(*                                                                         *)
(* An update or a deletion of a row takes effect when it is called; what   *)
(* the code does after a deletion is a step of its own.  A character is    *)
(* loaded again when no call waits (LoadAgain), or after the server went   *)
(* down with the calls (Crash); no timer outlasts that.                    *)
(***************************************************************************)
EXTENDS Integers, FiniteSets, FiniteSetsExt, Functions

CONSTANTS
  Owners,     \* the characters of the user
  Null,       \* a character_id that is NULL, a row that does not exist
  Kinds,      \* item ids
  Stackable,  \* those that FindStackableByUIF finds
  Bag, Bank,  \* slot numbers
  MaxRow,     \* bound: rows inserted in a behaviour
  MaxQty,     \* bound: items of a kind that the user owns
  MaxCalls    \* bound: calls that wait for the database at the same time

AllSlots == Bag \cup Bank
Parts == {Bag, Bank}
RowIds == 1..MaxRow
Workers == 1..MaxCalls

SlotRecs == [id : 0..MaxRow, kind : Kinds \cup {0}, qty : 0..MaxQty, owner : Owners \cup {Null}]
RowRecs == [kind : Kinds \cup {0}, qty : 0..MaxQty, owner : Owners \cup {Null}, at : AllSlots]

ASSUME InventoryAssumption ==
  /\ AllSlots \subseteq Nat /\ IsFiniteSet(AllSlots) /\ Bag \cap Bank = {}
  /\ Kinds \subseteq Nat \ {0} /\ Stackable \subseteq Kinds
  /\ Null \notin Owners \cup RowRecs /\ MaxRow \in Nat /\ MaxQty \in Nat /\ MaxCalls \in Nat

NewSlot == [id |-> 0, kind |-> 0, qty |-> 0, owner |-> Null]
AtRest == [op |-> "idle", hand |-> {}, held |-> <<>>, todo |-> {}]

VARIABLES
  char,       \* the character that is online
  slot,       \* slot[s]: its InventorySlot
  rows,       \* rows[n]: the row of items_characters with id n
  inserted,   \* rows inserted so far
  lock,       \* InvMutex and CanSwap: "free", "busy", "timer" (a swap's 200 ms), "jam"
  calls,      \* calls[w]: what w does between two waits: the slots in its hand, the
              \* copies it holds of them, those it has still to save
  arranging,  \* places whose InventoryArrange or BankInventoryArrange is set
  torn,       \* history: a step wrote a slot that another call had in its hand, or
              \* the server went down in the middle of an arrangement
  strayed     \* history: an item got between bag and bank without a new character_id

bagVars == <<char, slot, rows, inserted, lock, calls, arranging, torn, strayed>>

BagInit ==
  /\ char \in Owners
  /\ slot = [s \in AllSlots |-> NewSlot]
  /\ rows = [n \in RowIds |-> Null]
  /\ inserted = 0
  /\ lock = "free"
  /\ calls = [w \in Workers |-> AtRest]
  /\ arranging = {}
  /\ torn = FALSE /\ strayed = FALSE

InHand == UNION {calls[w].hand : w \in Workers}
\* Bound: once it is torn nothing begins that writes to a slot.
Touches(S) == ~torn /\ torn' = (S \cap InHand # {})
Crosses(s, t) == (s \in Bank) # (t \in Bank)
\* Slots whose row is gone, and which will be blank.
Doomed == UNION {calls[w].hand : w \in {v \in Workers : calls[v].op \in {"blank", "combine"}}}
Count(k) ==
  [s \in AllSlots |-> IF slot[s].kind = k /\ s \notin Doomed THEN slot[s].qty ELSE 0]
Held(k) == MapThenSumSet(LAMBDA s : Count(k)[s], AllSlots)

Begins(op, hand, held, todo) ==
  LET idle == {w \in Workers : calls[w] = AtRest}
  IN /\ idle # {}
     /\ calls' = [calls EXCEPT ![Min(idle)] =
                    [op |-> op, hand |-> hand, held |-> held, todo |-> todo]]
Ends(w) == calls' = [calls EXCEPT ![w] = AtRest]
CanInsert ==
  inserted + Cardinality({w \in Workers : calls[w].op \in {"add", "split", "empty"}}) < MaxRow

-----------------------------------------------------------------------------
RowAt(s, item) == [kind |-> item.kind, qty |-> item.qty, owner |-> item.owner, at |-> s]

\* InventorySlot.Update: without an id, or without a row, nothing happens.
Update(table, s, item) ==
  IF item.id = 0 \/ table[item.id] = Null THEN table
  ELSE [table EXCEPT ![item.id] = RowAt(s, item)]
Delete(table, item) == IF item.id = 0 THEN table ELSE [table EXCEPT ![item.id] = Null]

FindFreeSlots == {s \in Bag : slot[s].kind = 0}
FindItem(k) == {s \in Bag : slot[s].kind = k}
Target(k) == IF k \in Stackable /\ FindItem(k) # {} THEN FindItem(k) ELSE FindFreeSlots

\* An item of kind k comes into the bag; with the id of its slot it is saved at once,
\* without one a row is inserted.
AddItem(k) ==
  /\ Target(k) # {} /\ Held(k) < MaxQty
  /\ LET s == Min(Target(k))
         old == slot[s]
         item == [id |-> old.id, kind |-> k, owner |-> char,
                  qty |-> IF old.kind = k THEN old.qty + 1 ELSE 1]
     IN /\ item.qty <= MaxQty
        /\ slot' = [slot EXCEPT ![s] = item]
        /\ Touches({s})
        /\ \/ /\ item.id # 0
              /\ rows' = Update(rows, s, item)
              /\ UNCHANGED calls
           \/ /\ item.id = 0 /\ CanInsert
              /\ Begins("add", {s}, [x \in {s} |-> item], {})
              /\ UNCHANGED rows
  /\ UNCHANGED <<char, inserted, lock, arranging, strayed>>

FinishInsertMutant(w) ==
  /\ calls[w].op \in {"add", "split"} /\ inserted < MaxRow
  /\ \E s \in calls[w].hand :
       /\ inserted' = inserted + 1
       /\ rows' = [rows EXCEPT ![inserted'] = RowAt(s, calls[w].held[s])]
       /\ slot' = slot
  /\ lock' = IF calls[w].op = "split" THEN "free" ELSE lock
  /\ Ends(w)
  /\ UNCHANGED <<char, arranging, torn, strayed>>

\* The row is there, with what was inserted; the slot gets its id, whatever it holds.
FinishInsert(w) ==
  /\ calls[w].op \in {"add", "split"} /\ inserted < MaxRow
  /\ \E s \in calls[w].hand :
       /\ inserted' = inserted + 1
       /\ rows' = [rows EXCEPT ![inserted'] = RowAt(s, calls[w].held[s])]
       /\ slot' = [slot EXCEPT ![s].id = inserted']
  /\ lock' = IF calls[w].op = "split" THEN "free" ELSE lock
  /\ Ends(w)
  /\ UNCHANGED <<char, arranging, torn, strayed>>

RemoveItem(s) ==
  /\ slot[s].kind # 0
  /\ Begins("delete", {s}, <<>>, {})
  /\ Touches({s})
  /\ UNCHANGED <<char, slot, rows, inserted, lock, arranging, strayed>>

\* DecrementItem by one, of an item that is used up.
DecrementItem(s) ==
  /\ slot[s].qty > 0
  /\ slot' = [slot EXCEPT ![s].qty = @ - 1]
  /\ Touches({s})
  /\ \/ /\ slot[s].qty > 1
        /\ rows' = Update(rows, s, slot'[s])
        /\ UNCHANGED calls
     \/ /\ slot[s].qty = 1
        /\ Begins("delete", {s}, <<>>, {})
        /\ UNCHANGED rows
  /\ UNCHANGED <<char, inserted, lock, arranging, strayed>>

DeleteItemRow(w) ==
  /\ calls[w].op = "delete"
  /\ \E s \in calls[w].hand : rows' = Delete(rows, slot[s])
  /\ calls' = [calls EXCEPT ![w].op = "blank"]
  /\ UNCHANGED <<char, slot, inserted, lock, arranging, torn, strayed>>

\* The rest of RemoveItem, of DecrementItem and of CombineItems.
FinishRemove(w) ==
  /\ calls[w].op \in {"blank", "combine"}
  /\ slot' = [s \in AllSlots |-> IF s \in calls[w].hand THEN NewSlot ELSE slot[s]]
  /\ lock' = IF calls[w].op = "combine" THEN "free" ELSE lock
  /\ Ends(w)
  /\ UNCHANGED <<char, rows, inserted, arranging, torn, strayed>>

-----------------------------------------------------------------------------
OwnerAt(s, t) == IF ~Crosses(s, t) THEN slot[s].owner ELSE IF t \in Bank THEN Null ELSE char

ReplaceItem(s, t) ==
  /\ lock = "free"
  /\ slot[s].kind # 0 /\ slot[t].kind = 0
  /\ LET item == [slot[s] EXCEPT !.owner = OwnerAt(s, t)]
     IN /\ slot' = [slot EXCEPT ![t] = item, ![s] = NewSlot]
        /\ rows' = Update(rows, t, item)
  /\ Touches({s, t})
  /\ UNCHANGED <<char, inserted, lock, calls, arranging, strayed>>

SwapItems(s, t) ==
  /\ lock = "free" /\ s # t
  /\ slot[s].kind # 0 /\ slot[t].kind # 0
  /\ slot' = [slot EXCEPT ![s] = slot[t], ![t] = slot[s]]
  /\ rows' = Update(Update(rows, s, slot[t]), t, slot[s])
  /\ lock' = "timer"
  /\ Touches({s, t})
  /\ strayed' = (strayed \/ Crosses(s, t))
  /\ UNCHANGED <<char, inserted, calls, arranging>>

\* A swap that is refused, for an empty slot or a rule about the items, returns with
\* CanSwap set and InvMutex locked.
SwapRefused ==
  /\ lock = "free"
  /\ lock' = "jam"
  /\ UNCHANGED <<char, slot, rows, inserted, calls, arranging, torn, strayed>>

Unlock ==
  /\ lock = "timer"
  /\ lock' = "free"
  /\ UNCHANGED <<char, slot, rows, inserted, calls, arranging, torn, strayed>>

SplitItemMutant(s, t, n) ==
  /\ lock = "free" /\ CanInsert
  /\ slot[t].kind = 0 /\ slot[s].kind # 0
  /\ LET rest == [slot[s] EXCEPT !.qty = @ - n]
         part == [slot[s] EXCEPT !.qty = n]
     IN /\ slot' = [slot EXCEPT ![t] = part, ![s] = rest]
        /\ \/ /\ n = slot[s].qty
              /\ rows' = Delete(rows, slot[s])
              /\ Begins("empty", {s, t}, <<>>, {s})
           \/ /\ n # slot[s].qty
              /\ rows' = Update(rows, s, rest)
              /\ Begins("split", {t}, [x \in {t} |-> part], {})
  /\ lock' = "busy"
  /\ Touches({s, t})
  /\ strayed' = (strayed \/ Crosses(s, t))
  /\ UNCHANGED <<char, inserted, arranging>>

\* n items of slot s are put into slot t, which has their id until its row is inserted;
\* when none are left the row of slot s is deleted first.
SplitItem(s, t, n) ==
  /\ lock = "free" /\ CanInsert
  /\ slot[t].kind = 0 /\ n \in 1..slot[s].qty
  /\ LET rest == [slot[s] EXCEPT !.qty = @ - n]
         part == [slot[s] EXCEPT !.qty = n]
     IN /\ slot' = [slot EXCEPT ![t] = part, ![s] = rest]
        /\ \/ /\ n = slot[s].qty
              /\ rows' = Delete(rows, slot[s])
              /\ Begins("empty", {s, t}, <<>>, {s})
           \/ /\ n # slot[s].qty
              /\ rows' = Update(rows, s, rest)
              /\ Begins("split", {t}, [x \in {t} |-> part], {})
  /\ lock' = "busy"
  /\ Touches({s, t})
  /\ strayed' = (strayed \/ Crosses(s, t))
  /\ UNCHANGED <<char, inserted, arranging>>

\* Slot s becomes blank, and the row of the other one is inserted.
EmptySlot(w) ==
  /\ calls[w].op = "empty"
  /\ slot' = [s \in AllSlots |-> IF s \in calls[w].todo THEN NewSlot ELSE slot[s]]
  /\ LET hand == calls[w].hand \ calls[w].todo
     IN calls' = [calls EXCEPT ![w] =
                    [op |-> "split", hand |-> hand, held |-> [t \in hand |-> slot[t]], todo |-> {}]]
  /\ UNCHANGED <<char, rows, inserted, lock, arranging, torn, strayed>>

CombineItemsMutant(s, t) ==
  /\ lock = "free" /\ s # t
  /\ slot[s].kind = slot[t].kind /\ slot[t].kind \in Stackable
  /\ slot[s].qty + slot[t].qty <= MaxQty
  /\ LET item == slot[t]
     IN /\ slot' = [slot EXCEPT ![t] = item]
        /\ rows' = Delete(Update(rows, t, item), slot[s])
  /\ Begins("combine", {s}, <<>>, {})
  /\ lock' = "busy"
  /\ Touches({s, t})
  /\ UNCHANGED <<char, inserted, arranging, strayed>>

\* The items of slot s are put to those of slot t, and the row of slot s is deleted.
CombineItems(s, t) ==
  /\ lock = "free" /\ s # t
  /\ slot[s].kind = slot[t].kind /\ slot[t].kind \in Stackable
  /\ slot[s].qty + slot[t].qty <= MaxQty
  /\ LET item == [slot[t] EXCEPT !.qty = @ + slot[s].qty]
     IN /\ slot' = [slot EXCEPT ![t] = item]
        /\ rows' = Delete(Update(rows, t, item), slot[s])
  /\ Begins("combine", {s}, <<>>, {})
  /\ lock' = "busy"
  /\ Touches({s, t})
  /\ UNCHANGED <<char, inserted, arranging, strayed>>

-----------------------------------------------------------------------------
\* sort.Slice by item id, blank slots last; equal ones in any order.
Sorted(copies, p) ==
  \A s, t \in p : (s < t /\ copies[t].kind # 0) =>
                     (copies[s].kind # 0 /\ copies[s].kind <= copies[t].kind)

BeginArrange(p) ==
  /\ p \notin arranging
  /\ \E f \in Bijection(p, p) :
       LET copies == [s \in p |-> slot[f[s]]]
       IN Sorted(copies, p) /\ Begins("arrange", p, copies, p)
  /\ arranging' = arranging \cup {p}
  /\ Touches(p)
  /\ UNCHANGED <<char, slot, rows, inserted, lock, strayed>>

ArrangeBag == BeginArrange(Bag)

\* Page by page; bound: one page.
ArrangeBank == BeginArrange(Bank)

SaveCopy(w) ==
  /\ calls[w].op = "arrange" /\ calls[w].todo # {}
  /\ LET s == Min(calls[w].todo)
     IN /\ rows' = Update(rows, s, calls[w].held[s])
        /\ calls' = [calls EXCEPT ![w].todo = @ \ {s}]
  /\ UNCHANGED <<char, slot, inserted, lock, arranging, torn, strayed>>

FinishArrange(w) ==
  /\ calls[w].op = "arrange" /\ calls[w].todo = {}
  /\ slot' = [s \in AllSlots |-> IF s \in calls[w].hand THEN calls[w].held[s] ELSE slot[s]]
  /\ Ends(w)
  /\ UNCHANGED <<char, rows, inserted, lock, arranging, torn, strayed>>

\* Three seconds after an arrangement.
CoolDown(p) ==
  /\ p \in arranging
  /\ \A w \in Workers : calls[w].op = "arrange" => calls[w].hand # p
  /\ arranging' = arranging \ {p}
  /\ UNCHANGED <<char, slot, rows, inserted, lock, calls, torn, strayed>>

-----------------------------------------------------------------------------
Loads(c, n) == rows[n] # Null /\ rows[n].owner \in {c, Null}
FromRow(n) == [id |-> n, kind |-> rows[n].kind, qty |-> rows[n].qty, owner |-> rows[n].owner]

\* The rows of the bank are put over those of the character; of several in one slot the
\* last one stays, in an order that the query leaves open.
InventorySlots(c, order) ==
  [s \in AllSlots |->
     LET found == {n \in RowIds : Loads(c, n) /\ rows[n].at = s}
         shared == {n \in found : rows[n].owner = Null}
         Last(set) == CHOOSE n \in set : \A m \in set : order[m] <= order[n]
     IN IF found = {} THEN NewSlot
        ELSE IF shared = {} THEN FromRow(Last(found)) ELSE FromRow(Last(shared))]

LoadAgain(c) ==
  /\ \A w \in Workers : calls[w] = AtRest
  /\ char' = c
  /\ \E order \in Bijection(RowIds, RowIds) : slot' = InventorySlots(c, order)
  /\ lock' = "free" /\ arranging' = {}
  /\ UNCHANGED <<rows, inserted, calls, torn, strayed>>

Crash(c) ==
  /\ \E w \in Workers : calls[w] # AtRest
  /\ char' = c
  /\ \E order \in Bijection(RowIds, RowIds) : slot' = InventorySlots(c, order)
  /\ lock' = "free" /\ arranging' = {}
  /\ calls' = [w \in Workers |-> AtRest]
  /\ torn' = (torn \/ \E w \in Workers : calls[w].op = "arrange")
  /\ UNCHANGED <<rows, inserted, strayed>>

-----------------------------------------------------------------------------
Moving ==
  \/ \E s, t \in AllSlots : ReplaceItem(s, t) \/ SwapItems(s, t) \/ CombineItems(s, t)
  \/ \E s, t \in AllSlots, n \in 1..MaxQty : SplitItem(s, t, n)
  \/ \E w \in Workers : FinishRemove(w) \/ EmptySlot(w) \/ FinishArrange(w)

BagNext ==
  \/ Moving
  \/ \E k \in Kinds : AddItem(k)
  \/ \E s \in AllSlots : RemoveItem(s) \/ DecrementItem(s)
  \/ \E w \in Workers : FinishInsert(w) \/ DeleteItemRow(w) \/ SaveCopy(w)
  \/ SwapRefused \/ Unlock
  \/ ArrangeBag \/ ArrangeBank \/ \E p \in Parts : CoolDown(p)
  \/ \E c \in Owners : LoadAgain(c) \/ Crash(c)

BagSpec == BagInit /\ [][BagNext]_bagVars

-----------------------------------------------------------------------------
\* Types.
BagTypeOK ==
  /\ char \in Owners
  /\ slot \in [AllSlots -> SlotRecs]
  /\ rows \in [RowIds -> RowRecs \cup {Null}]
  /\ inserted \in 0..MaxRow
  /\ lock \in {"free", "busy", "timer", "jam"}
  /\ \A w \in Workers :
       /\ calls[w].op \in {"idle", "add", "split", "empty", "delete", "blank", "combine", "arrange"}
       /\ calls[w].hand \subseteq AllSlots /\ calls[w].todo \subseteq calls[w].hand
       /\ calls[w].held = <<>> \/ calls[w].held \in [calls[w].hand -> SlotRecs]
  /\ arranging \subseteq Parts
  /\ torn \in BOOLEAN /\ strayed \in BOOLEAN

\* As long as no two calls met in one slot: an item in memory that nobody has in hand is
\* what its row says, in that slot, so that the player finds it there after a restart.
SavedAsHeld ==
  ~torn => \A s \in AllSlots \ InHand : slot[s].kind # 0 =>
             slot[s].id # 0 /\ rows[slot[s].id] = RowAt(s, slot[s])

\* As long as, besides, no item got between bag and bank without a new character_id:
\* every item that a character loads has a slot of its own, and the slots of the
\* character online show all of them.
NoneHidden ==
  (~torn /\ ~strayed) =>
    \A c \in Owners, n \in RowIds : (Loads(c, n) /\ rows[n].at \notin InHand) =>
      /\ c = char => slot[rows[n].at].id = n
      /\ \A m \in RowIds \ {n} : Loads(c, m) => rows[m].at # rows[n].at

\* What a character carries is what it finds after a restart (both of the above).
BagIsKept == SavedAsHeld /\ NoneHidden

\* What moves items neither makes nor loses any.
MovesKeepAll == (\A k \in Kinds : Held(k)' = Held(k)) \/ ~Moving \/ torn'
NothingLostInMoves == [][MovesKeepAll]_bagVars
=============================================================================
