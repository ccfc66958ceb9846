------------------------------- MODULE Market -------------------------------
(***************************************************************************)
(* Items and gold between characters that are not in a trade: the shops    *)
(* that characters open (Character.OpenSale to BuySaleItem) and the        *)
(* consignment store (Character.RegisterItem to ClaimConsignmentItem),     *)
(* both of database/characters.go, with their packets in player/sales.go   *)
(* and npc/consignment.go.                                                 *)
(*                                                                         *)
(* Every packet has a goroutine of its own and no lock is held over the    *)
(* bags: a purchase or a registration looks at the gold, the slot or the   *)
(* row first, waits for the database and then goes on with what it knew,   *)
(* which is kept in call[k].  UsedConsig, which keeps the calls of one     *)
(* character apart, is not kept: a timer resets it after a second, whether *)
(* the call has come to its end or not.  Bags also change by what the      *)
(* other modules are about (looting, trading, using): Gain and Lose.       *)
(*                                                                         *)
(* A slot is known to its holder, to running purchases and to              *)
(* InventoryItems by a pointer: either a place in a bag, or an object that *)
(* no bag holds (any more), of which only the content matters.             *)
(***************************************************************************)
EXTENDS Integers, FiniteSets, FiniteSetsExt

CONSTANTS
  Chars,
  Items,       \* ids of items (rows of items_characters)
  None,        \* no item, no shop, no row
  NumSlots,    \* slots of a bag
  Price,       \* what an item is sold for
  Fee,         \* RegisterItem: the commission for an item
  NumCalls,    \* bound: calls and background statements that run at the same time
  NumSales,    \* bound: shops that somebody still has to do with
  StartGold,   \* gold of each character at the start
  MaxGold      \* bound: nobody becomes richer than this

Slots  == 1..NumSlots
Calls  == 1..NumCalls
Places == Chars \X Slots
Refs   == Places \cup Items \cup {None}   \* an object in a bag, or the content of another
Rows   == [seller : Chars, sold : BOOLEAN]

ASSUME MarketAssumption ==
  /\ NumSlots \in Nat /\ NumCalls \in Nat /\ NumSales \in Nat
  /\ IsFiniteSet(Chars) /\ IsFiniteSet(Items)
  /\ Price \in [Items -> Nat] /\ Fee \in [Items -> Nat]
  /\ MaxGold \in Nat /\ StartGold \in 0..MaxGold
  /\ None \notin Items \cup Rows /\ (Items \cup {None}) \cap Places = {}

VARIABLES
  bag,        \* bag[c][s]: the item in a slot
  away,       \* items that are neither in a bag nor consigned
  gold,       \* Character.Gold: a uint64, here below zero when it has wrapped around
  sale,       \* Sales: sale[c] is the shop of c: its number, slots offered and sold
  cons,       \* rows of the table consignment, by item: seller, IsSold
  shelf,      \* items with InventorySlot.Consignment and no slot
  where,      \* InventoryItems: the object that is known for an item
  buried,     \* history: items in whose slot a purchase has put another
  call,       \* what each running call knows
  fees,       \* history: commissions paid
  crossed,    \* history: a call has met another one, see Meets
  hasty       \* history: a character has spent gold that a running call had looked at

goods  == <<bag, away, shelf, where, buried>>
trade  == <<sale, cons>>
past   == <<fees, crossed, hasty>>
vars   == <<goods, gold, trade, call, past>>

Sales_ == [no : 1..NumSales, items : SUBSET Slots, sold : SUBSET Slots]
Idle   == [at |-> "idle"]
\* What a call knows, by what it waits for or does next.
Paid == [at : {"paid"}, by : Chars, to : Slots, from : Refs, seller : Chars, slot : Slots,
         no : 1..NumSales, gold : -MaxGold..MaxGold, cost : Nat]
Copied == [at : {"copied"}, by : Chars, to : Slots, from : Refs, seller : Chars,
           slot : Slots, no : 1..NumSales]
Opening == [at : {"opening"}, by : Chars, no : 1..NumSales, items : SUBSET Slots]
Registering == [at : {"registering"}, by : Chars, from : Refs, row : Items]
Placing == [at : {"buying", "cancelling"}, by : Chars, to : Slots, row : Items,
            seller : Chars, item : Items]
Marking == [at : {"marking"}, row : Items, seller : Chars]
Deleting == [at : {"deleting"}, row : Items]
CallStates == {Idle} \cup Opening \cup Paid \cup Copied \cup Registering \cup Placing
                \cup Marking \cup Deleting

Running     == {k \in Calls : call[k] # Idle}
At(k, a)    == call[k].at = a
Content(r)  == IF r \in Places THEN bag[r[1]][r[2]] ELSE r
FreeSlots(c) == {s \in Slots : bag[c][s] = None}
FindFreeSlot(c, s) == s \in FreeSlots(c) /\ \A t \in FreeSlots(c) : s <= t
\* The tests of the gold compare unsigned numbers.
Affords(c, p) == gold[c] < 0 \/ gold[c] >= p
\* The bound on gold: nobody gets or owes more.
InBounds(g) == -MaxGold <= g /\ g <= MaxGold

-----------------------------------------------------------------------------
(* Calls that meet *)

Has(k, f) == f \in DOMAIN call[k]

\* Places in bags that a running call fills or clears.
Holds(k) ==
  (IF Has(k, "to") THEN {<<call[k].by, call[k].to>>} ELSE {})
    \cup (IF Has(k, "from") THEN {call[k].from} ELSE {})

\* A call meets another that runs at the same time: at such a place, or at a row.
MeetsAt(ps)  == \E k \in Running : Holds(k) \cap ps # {}
MeetsRow(i)  == \E k \in Running : Has(k, "row") /\ call[k].row = i

\* Calls of c that have looked at its gold and will spend it.
Spending(c)  == {k \in Running : Has(k, "by") /\ call[k].by = c
                                   /\ call[k].at \in {"registering", "buying"}}

\* What is added to the history; when calls have met nothing more is added.
Note(meets, spends, fee) ==
  /\ crossed' = (crossed \/ meets)
  /\ hasty' = (~crossed' /\ (hasty \/ spends))
  /\ fees' = IF crossed' THEN 0 ELSE fees + fee

Begin(r) ==
  \E k \in Calls \ Running :
    /\ \A m \in Calls \ Running : k <= m
    /\ call' = [call EXCEPT ![k] = r]
End(k) == call' = [call EXCEPT ![k] = Idle]

-----------------------------------------------------------------------------
(* Shops *)

NewNo(n) ==
  /\ \A k \in Running : Has(k, "no") => call[k].no # n
  /\ \A c \in Chars : sale[c] # None => sale[c].no # n

\* OpenSaleHandler and OpenSale: whatever is in a slot when the shop is opened; the
\* goroutine that enters it into Sales has not run.
OpenSale(c) ==
  /\ sale[c] = None
  /\ \E n \in 1..NumSales, S \in SUBSET (Slots \ FreeSlots(c)) :
       /\ S # {} /\ NewNo(n)
       /\ Begin([at |-> "opening", by |-> c, no |-> n, items |-> S])
  /\ UNCHANGED <<goods, gold, trade, past>>

Create(k) ==
  /\ At(k, "opening")
  /\ sale' = [sale EXCEPT ![call[k].by] =
                [no |-> call[k].no, items |-> call[k].items, sold |-> {}]]
  /\ End(k)
  /\ UNCHANGED <<goods, gold, cons, past>>

\* CloseSaleHandler, or the logout of the seller.
CloseSale(c) ==
  /\ sale[c] # None
  /\ sale' = [sale EXCEPT ![c] = None]
  /\ UNCHANGED <<goods, gold, cons, call, past>>

\* BuySaleItem: the tests, and the buyer's payment; the seller's gold is read to be added
\* to without AddingGold.  Nothing asks whether the slot that the packet names is free.
BuySaleItem(c, d) ==
  /\ sale[c] = None /\ sale[d] # None
  /\ \E s \in sale[d].items \ sale[d].sold, t \in Slots :
       LET i == bag[d][s] IN
       /\ i # None /\ Affords(c, Price[i]) /\ InBounds(gold[c] - Price[i])
       /\ gold' = [gold EXCEPT ![c] = @ - Price[i]]
       /\ Begin([at |-> "paid", by |-> c, to |-> t, from |-> <<d, s>>, seller |-> d,
                    slot |-> s, no |-> sale[d].no, gold |-> gold[d], cost |-> Price[i]])
       /\ Note(MeetsAt({<<c, t>>, <<d, s>>}), Spending(c) # {}, 0)
  /\ UNCHANGED <<goods, trade>>

\* The seller is paid, and a new object with what is in the seller's slot by now takes the
\* buyer's slot, over whatever is there: whoever knew the old one keeps it.
CopyItem(k) ==
  LET c == call[k] IN LET p == <<c.by, c.to>> IN
  LET old == bag[c.by][c.to]
      i   == Content(c.from) IN
  /\ At(k, "paid")
  /\ InBounds(c.gold + c.cost)
  /\ gold' = [gold EXCEPT ![c.seller] = c.gold + c.cost]
  /\ bag' = [bag EXCEPT ![c.by][c.to] = i]
  /\ where' = [j \in Items |-> IF j = i THEN p ELSE IF where[j] = p THEN old ELSE where[j]]
  /\ buried' = buried \cup ({old} \ {None})
  /\ call' = [m \in Calls |->
                IF m = k THEN [at |-> "copied", by |-> c.by, to |-> c.to, from |-> c.from,
                               seller |-> c.seller, slot |-> c.slot, no |-> c.no]
                ELSE IF Has(m, "from") /\ call[m].from = p THEN [call[m] EXCEPT !.from = old]
                ELSE call[m]]
  /\ Note(gold[c.seller] # c.gold, FALSE, 0)
  /\ UNCHANGED <<away, shelf, trade>>

Cleared(r) == IF r \in Places THEN [bag EXCEPT ![r[1]][r[2]] = None] ELSE bag

\* After the buyer's slot is saved: the offer is sold, the seller's slot is blank.
FinishSale(k) ==
  LET c == call[k] IN
  /\ At(k, "copied")
  /\ sale' = IF sale[c.seller] # None /\ sale[c.seller].no = c.no
             THEN [sale EXCEPT ![c.seller].sold = @ \cup {c.slot}] ELSE sale
  /\ bag' = Cleared(c.from)
  /\ End(k)
  /\ UNCHANGED <<away, shelf, where, buried, gold, cons, past>>

-----------------------------------------------------------------------------
(* The consignment store *)

RegisterItemMutant(c) ==
  /\ \E s \in Slots \ FreeSlots(c) :
       LET i == bag[c][s] IN
       /\ cons[i] = None
       /\ cons' = [cons EXCEPT ![i] = [seller |-> c, sold |-> FALSE]]
       /\ Begin([at |-> "registering", by |-> c, from |-> <<c, s>>, row |-> i])
       /\ Note(MeetsAt({<<c, s>>}) \/ MeetsRow(i), Spending(c) # {}, 0)
  /\ UNCHANGED <<goods, gold, sale>>

\* RegisterItem up to the new row; an item that still has a row is refused by the table.
RegisterItem(c) ==
  /\ \E s \in Slots \ FreeSlots(c) :
       LET i == bag[c][s] IN
       /\ cons[i] = None /\ Affords(c, Fee[i])
       /\ cons' = [cons EXCEPT ![i] = [seller |-> c, sold |-> FALSE]]
       /\ Begin([at |-> "registering", by |-> c, from |-> <<c, s>>, row |-> i])
       /\ Note(MeetsAt({<<c, s>>}) \/ MeetsRow(i), Spending(c) # {}, 0)
  /\ UNCHANGED <<goods, gold, sale>>

\* The rest of RegisterItem: the commission, and an object of its own for what the slot
\* holds by now.
FinishRegister(k) ==
  LET c == call[k] IN
  LET i == Content(c.from) IN
  /\ At(k, "registering")
  /\ InBounds(gold[c.by] - Fee[c.row])
  /\ gold' = [gold EXCEPT ![c.by] = @ - Fee[c.row]]
  /\ shelf' = shelf \cup ({i} \ {None})
  /\ where' = IF i = None THEN where ELSE [where EXCEPT ![i] = i]
  /\ bag' = Cleared(c.from)
  /\ End(k)
  /\ Note(FALSE, FALSE, Fee[c.row])
  /\ UNCHANGED <<away, buried, trade>>

\* BuyConsignmentItem up to the saving of the new slot: the row is not sold, the gold
\* suffices, whoever holds the object is not the buyer.
BuyConsignmentItem(c, i) ==
  LET r == where[i] IN
  /\ cons[i] # None /\ ~cons[i].sold
  /\ Content(r) # None /\ Affords(c, Price[i])
  /\ (IF r \in Places THEN r[1] ELSE cons[i].seller) # c
  /\ \E s \in Slots :
       /\ FindFreeSlot(c, s)
       /\ Begin([at |-> "buying", by |-> c, to |-> s, row |-> i,
                 seller |-> cons[i].seller, item |-> Content(r)])
       /\ Note(MeetsRow(i) \/ MeetsAt({r, <<c, s>>}), Spending(c) # {}, 0)
  /\ UNCHANGED <<goods, gold, sale, cons>>

Placed(k) ==
  LET c == call[k] IN
  /\ bag' = [bag EXCEPT ![c.by][c.to] = c.item]
  /\ where' = [where EXCEPT ![c.item] = <<c.by, c.to>>]
  /\ shelf' = shelf \ {c.item}

\* The item is in the bag and paid for; the row is marked in the background.
FinishBuy(k) ==
  /\ At(k, "buying") /\ InBounds(gold[call[k].by] - Price[call[k].row])
  /\ Placed(k)
  /\ gold' = [gold EXCEPT ![call[k].by] = @ - Price[call[k].row]]
  /\ call' = [call EXCEPT ![k] =
                [at |-> "marking", row |-> call[k].row, seller |-> call[k].seller]]
  /\ UNCHANGED <<away, buried, trade, past>>

MarkSold(k) ==
  /\ At(k, "marking")
  /\ cons' = IF cons[call[k].row] = None THEN cons
             ELSE [cons EXCEPT ![call[k].row] = [seller |-> call[k].seller, sold |-> TRUE]]
  /\ End(k)
  /\ UNCHANGED <<goods, gold, sale, past>>

\* ClaimConsignmentItem of an item that is not sold: the clients show it to the seller, but
\* the row is found by the id alone.
CancelItem(c, i) ==
  /\ cons[i] # None /\ ~cons[i].sold
  /\ Content(where[i]) # None
  /\ \E s \in Slots :
       /\ FindFreeSlot(c, s)
       /\ Begin([at |-> "cancelling", by |-> c, to |-> s, row |-> i,
                 seller |-> cons[i].seller, item |-> Content(where[i])])
       /\ Note(MeetsRow(i) \/ MeetsAt({where[i], <<c, s>>}), FALSE, 0)
  /\ UNCHANGED <<goods, gold, sale, cons>>

FinishCancel(k) ==
  /\ At(k, "cancelling")
  /\ Placed(k)
  /\ call' = [call EXCEPT ![k] = [at |-> "deleting", row |-> call[k].row]]
  /\ UNCHANGED <<away, buried, gold, trade, past>>

ClaimMutant(c, i) ==
  /\ cons[i] # None /\ cons[i].sold
  /\ InBounds(gold[c] + Price[i])
  /\ gold' = [gold EXCEPT ![c] = @ + Price[i]]
  /\ Note(MeetsRow(i), FALSE, 0)
  /\ UNCHANGED <<goods, sale, cons, call>>

\* ClaimConsignmentItem of a sold one, again whoever claims it; the row is deleted in the
\* background.
Claim(c, i) ==
  /\ cons[i] # None /\ cons[i].sold
  /\ InBounds(gold[c] + Price[i])
  /\ gold' = [gold EXCEPT ![c] = @ + Price[i]]
  /\ Begin([at |-> "deleting", row |-> i])
  /\ Note(MeetsRow(i), FALSE, 0)
  /\ UNCHANGED <<goods, sale, cons>>

DeleteRow(k) ==
  /\ At(k, "deleting")
  /\ cons' = [cons EXCEPT ![call[k].row] = None]
  /\ End(k)
  /\ UNCHANGED <<goods, gold, sale, past>>

-----------------------------------------------------------------------------
(* What the other handlers do to a bag *)

LoseMutant(c, s) ==
  /\ bag' = [bag EXCEPT ![c][s] = None]
  /\ away' = away \cup {bag[c][s]}
  /\ Note(MeetsAt({<<c, s>>}), FALSE, 0)
  /\ UNCHANGED <<shelf, where, buried, gold, trade, call>>

\* An item is used, sold to an NPC or given away in a trade: also one that is in a shop.
Lose(c, s) ==
  /\ bag[c][s] # None
  /\ bag' = [bag EXCEPT ![c][s] = None]
  /\ away' = away \cup {bag[c][s]}
  /\ Note(MeetsAt({<<c, s>>}), FALSE, 0)
  /\ UNCHANGED <<shelf, where, buried, gold, trade, call>>

\* An item is looted or traded: AddItem takes the first free slot.
Gain(c, i) ==
  /\ i \in away /\ away' = away \ {i}
  /\ \E s \in Slots :
       /\ FindFreeSlot(c, s)
       /\ bag' = [bag EXCEPT ![c][s] = i]
       /\ where' = [where EXCEPT ![i] = <<c, s>>]
       /\ Note(MeetsAt({<<c, s>>}), FALSE, 0)
  /\ UNCHANGED <<shelf, buried, gold, trade, call>>

-----------------------------------------------------------------------------
Init ==
  /\ bag = [c \in Chars |-> [s \in Slots |-> None]]
  /\ away = Items /\ shelf = {} /\ buried = {}
  /\ where = [i \in Items |-> None]
  /\ gold = [c \in Chars |-> StartGold]
  /\ sale = [c \in Chars |-> None]
  /\ cons = [i \in Items |-> None]
  /\ call = [k \in Calls |-> Idle]
  /\ fees = 0 /\ crossed = FALSE /\ hasty = FALSE

Shop(c)    == OpenSale(c) \/ CloseSale(c) \/ \E d \in Chars : BuySaleItem(c, d)
Consign(c) ==
  RegisterItem(c) \/ \E i \in Items : BuyConsignmentItem(c, i) \/ CancelItem(c, i) \/ Claim(c, i)
GoOn(k)    == \/ Create(k) \/ CopyItem(k) \/ FinishSale(k) \/ FinishRegister(k)
              \/ FinishBuy(k) \/ MarkSold(k) \/ FinishCancel(k) \/ DeleteRow(k)
Others(c)  == (\E s \in Slots : Lose(c, s)) \/ \E i \in Items : Gain(c, i)

Next ==
  \/ \E c \in Chars : Shop(c) \/ Consign(c) \/ Others(c)
  \/ \E k \in Running : GoOn(k)

Spec == Init /\ [][Next]_vars

-----------------------------------------------------------------------------
(* Properties *)

\* The types of the variables.
TypeOK ==
  /\ bag \in [Chars -> [Slots -> Items \cup {None}]]
  /\ away \subseteq Items /\ shelf \subseteq Items /\ buried \subseteq Items
  /\ where \in [Items -> Refs]
  /\ gold \in [Chars -> -MaxGold..MaxGold]
  /\ sale \in [Chars -> Sales_ \cup {None}]
  /\ cons \in [Items -> Rows \cup {None}]
  /\ call \in [Calls -> CallStates]
  /\ fees \in Nat /\ crossed \in BOOLEAN /\ hasty \in BOOLEAN

SumOf(S, f) == MapThenSumSet(LAMBDA x : f[x], S)
Bags(i) == {p \in Places : Content(p) = i}

\* An item is in one slot, consigned, buried or with neither; while a purchase from a shop
\* waits for the database, in the slots of both sides.  So it is if no two calls met.
ItemOnce ==
  ~crossed => \A i \in Items :
    \/ Cardinality(Bags(i)) + Cardinality({i} \cap shelf) + Cardinality({i} \cap away)
         + Cardinality({i} \cap buried) = 1
    \/ /\ i \notin shelf \cup away \cup buried
       /\ \E k \in Running : At(k, "copied") /\ Bags(i) = Holds(k)

\* What is in the store can be bought or got back, and what can be bought is there, or a
\* call for it is under way.  So it is if no two calls met.
StoreMatches ==
  ~crossed => \A i \in Items :
    /\ i \in shelf => cons[i] # None /\ ~cons[i].sold
    /\ cons[i] # None /\ ~cons[i].sold => i \in shelf \/ MeetsRow(i)

\* Items are kept: in the bags, in the shops and in the store.
GoodsKept == ItemOnce /\ StoreMatches

\* Gold that a call has taken and not given yet (or, of a row that is paid out, given twice).
InTransit(k) ==
  CASE At(k, "paid") -> call[k].cost
    [] At(k, "marking") -> Price[call[k].row]
    [] At(k, "deleting") /\ cons[call[k].row].sold -> -Price[call[k].row]
    [] OTHER -> 0

Owed(i) == IF cons[i] # None /\ cons[i].sold THEN Price[i] ELSE 0

\* Gold is not made and goes nowhere but into commissions: what is paid for a consigned
\* item waits in its row, until the seller has it.  So it is if no two calls met.
GoldKept ==
  ~crossed =>
    SumOf(Chars, gold) + SumOf(Calls, [k \in Calls |-> InTransit(k)])
      + SumOf(Items, [i \in Items |-> Owed(i)]) + fees
      = Cardinality(Chars) * StartGold

\* What is sold is neither doubled nor lost, nor is anything else but what a purchase has
\* buried, and neither is what is paid for it.
SalesBalance == GoodsKept /\ GoldKept

\* Nobody's gold goes below zero (and becomes all there is, and zero when it is saved, by
\* PreUpdate), unless gold that one call looked at was spent by another.
NoDebt == (\E c \in Chars : gold[c] < 0) => (hasty \/ crossed)
=============================================================================
