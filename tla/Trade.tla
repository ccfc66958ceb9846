------------------------------- MODULE Trade -------------------------------
(***************************************************************************)
(* Player-to-player trade: player/trade.go, database/trade.go and the part *)
(* of Character.Logout that touches it.                                    *)
(*                                                                         *)
(* Every packet is handled in a goroutine of its own.  A handler is one    *)
(* action, except where it writes to the partner's connection BETWEEN two  *)
(* of its own state changes: that write may take seconds, and handlers of  *)
(* either party run meanwhile.  So an edit of an offer (add item, remove   *)
(* item, add gold) first clears both acceptances and later changes the     *)
(* offer, and an acceptance first sets its flag and later tests whether    *)
(* both flags are set.  What is between the two halves is in flight.       *)
(***************************************************************************)
EXTENDS Integers, FiniteSets

CONSTANTS
  Chars,          \* characters; each has its own user, so a user id is a character
  Items,          \* distinguishable item stacks
  Empty,          \* the content of a free inventory slot (ItemID 0)
  Untradable,     \* items with Tradable = 2, of type 3, or activated
  NumSlots,       \* bag slots 11..66 are 1..NumSlots
  TradeSlots,     \* positions on the trade window
  GoldMod,        \* gold is a uint64; here it wraps at GoldMod
  RespawnPrice,   \* what respawning on the spot costs
  Starts,         \* what the characters may have at the start: [inv, gold]
  Losable,        \* bound: the items that may be thrown away
  Leavers,        \* bound: the characters that log out
  MaxRequests,    \* bound: trade requests sent in a behaviour
  MaxEdits,       \* bound: edits in flight at a time
  MaxAccepts      \* bound: acceptances in flight at a time

Slots  == 1..NumSlots
NoSlot == 0
Ids    == 1..MaxRequests     \* a request's uuid, also naming the trade it starts
NoId   == 0                  \* the empty TradeID; no entry in Trades
Side   == {"sender", "receiver"}
Bags   == [Slots -> Items \cup {Empty}]
Amounts == 0..(GoldMod - 1)

ASSUME SizeAssumption ==
  /\ Chars # {} /\ NumSlots \in Nat /\ IsFiniteSet(TradeSlots)
  /\ MaxRequests \in Nat /\ MaxEdits \in Nat /\ MaxAccepts \in Nat
ASSUME GoldAssumption ==
  GoldMod \in Nat \ {0} /\ RespawnPrice \in Nat
ASSUME ItemAssumption ==
  Empty \notin Items /\ Untradable \subseteq Items

\* Where inventories v hold item x: <<character, slot>>, or <<>> if nowhere.
Places(v, x) == {p \in Chars \X Slots : v[p[1]][p[2]] = x}
Where(v, x)  == IF Places(v, x) = {} THEN <<>> ELSE CHOOSE p \in Places(v, x) : TRUE

\* A row of the database is in one slot.
ASSUME StartAssumption ==
  /\ Starts \subseteq [inv : [Chars -> Bags], gold : [Chars -> Amounts]]
  /\ \A s \in Starts, x \in Items : \A p, q \in Places(s.inv, x) : p = q

VARIABLES
  sess,        \* sess[c]: "out", "selected" on the character screen, "playing" (IsOnline)
  tradeID,     \* tradeID[c]: the character's TradeID
  trades,      \* the map Trades, by user
  timers,      \* 12 s timers of sent requests: <<character, id>>
  nextID,      \* the next uuid
  party,       \* party[t][s]: Trader.Character
  offer,       \* offer[t][s]: Trader.Slots and Trader.Gold
  accepted,    \* accepted[t][s]: Trader.Accepted
  completing,  \* completing[t]: Trade.Completing
  edits,       \* edits of offers in flight
  accepts,     \* acceptances in flight: <<character, trade>>
  inv,         \* inv[c][i]: what is in bag slot i, in memory
  row,         \* row[x]: where the item's database row places it
  gold,        \* gold[c]
  raced,       \* history: raced[t][s], an edit of t was in flight when s accepted
  stale,       \* history: some trade's completion began after it had been cancelled
  broken       \* history: some completion was broken off by a full bag

link    == <<tradeID, trades, timers, nextID, party>>
table   == <<offer, accepted, completing, edits, accepts, raced>>
goods   == <<inv, row, gold>>
vars    == <<sess, link, table, goods, stale, broken>>

NoOffer  == [slots |-> [k \in TradeSlots |-> NoSlot], gold |-> 0]
ItemEdit == [trade : Ids, side : Side, at : TradeSlots, slot : Slots \cup {NoSlot}]
GoldEdit == [trade : Ids, side : Side, gold : Amounts]

SideOf(t, c) == IF party[t]["sender"] = c THEN "sender" ELSE "receiver"
Live(t)      == \A s \in Side : trades[party[t][s]] = t

\* FindInventorySlotsByCharacterID: the bags the rows of c may be read into.
Reloads(c) ==
  {b \in Bags : \A i \in Slots :
     LET stored == {x \in Items : row[x] = <<c, i>>}
     IN  IF stored = {} THEN b[i] = Empty ELSE b[i] \in stored}

Init ==
  /\ sess = [c \in Chars |-> "out"]
  /\ tradeID = [c \in Chars |-> NoId]
  /\ trades = [c \in Chars |-> NoId]
  /\ timers = {}
  /\ nextID = 1
  /\ party = [t \in Ids |-> [s \in Side |-> CHOOSE c \in Chars : TRUE]]  \* unused
  /\ offer = [t \in Ids |-> [s \in Side |-> NoOffer]]
  /\ accepted = [t \in Ids |-> [s \in Side |-> FALSE]]
  /\ completing = [t \in Ids |-> FALSE]
  /\ edits = {}
  /\ accepts = {}
  /\ \E s \in Starts :
       /\ inv = s.inv
       /\ row = [x \in Items |-> Where(s.inv, x)]
       /\ gold = s.gold
  /\ raced = [t \in Ids |-> [s \in Side |-> FALSE]]
  /\ stale = FALSE
  /\ broken = FALSE

-----------------------------------------------------------------------------
(* Requests and sessions *)

\* SendTradeRequestHandler: the addressee is not recorded.  Both must be active,
\* which any packet of movement makes them and a respawn unmakes: not kept here.
SendTradeRequest(c, d) ==
  /\ sess[c] # "out" /\ tradeID[c] = NoId /\ sess[d] # "out"
  /\ nextID \in Ids
  /\ tradeID' = [tradeID EXCEPT ![c] = nextID]
  /\ timers' = timers \cup {<<c, nextID>>}
  /\ nextID' = nextID + 1
  /\ UNCHANGED <<sess, trades, party, table, goods, stale, broken>>

ExpireRequestMutant(c, t) ==
  /\ <<c, t>> \in timers
  /\ timers' = timers \ {<<c, t>>}
  /\ tradeID' = IF trades[c] # NoId /\ tradeID[c] = t
                THEN [tradeID EXCEPT ![c] = NoId] ELSE tradeID
  /\ UNCHANGED <<sess, trades, nextID, party, table, goods, stale, broken>>

\* The 12 s timer of a request.
ExpireRequest(c, t) ==
  /\ <<c, t>> \in timers
  /\ timers' = timers \ {<<c, t>>}
  /\ tradeID' = IF trades[c] = NoId /\ tradeID[c] = t
                THEN [tradeID EXCEPT ![c] = NoId] ELSE tradeID
  /\ UNCHANGED <<sess, trades, nextID, party, table, goods, stale, broken>>

\* RespondTradeRequestHandler, answered by d with yes: Trade.New.
AcceptRequest(d, c) ==
  /\ sess[d] # "out" /\ tradeID[d] = NoId
  /\ tradeID[c] # NoId /\ trades[c] = NoId /\ sess[c] = "playing"
  /\ party' = [party EXCEPT ![tradeID[c]] =
                 [s \in Side |-> IF s = "sender" THEN c ELSE d]]
  /\ trades' = [trades EXCEPT ![c] = tradeID[c], ![d] = tradeID[c]]
  /\ tradeID' = [tradeID EXCEPT ![d] = tradeID[c]]
  /\ UNCHANGED <<sess, timers, nextID, table, goods, stale, broken>>

\* RespondTradeRequestHandler, answered with no, or for a sender not in the game.
RejectRequest(d, c) ==
  /\ sess[d] # "out" /\ tradeID[d] = NoId
  /\ tradeID[c] # NoId /\ trades[c] = NoId
  /\ tradeID' = [tradeID EXCEPT ![c] = NoId]
  /\ UNCHANGED <<sess, trades, timers, nextID, party, table, goods, stale, broken>>

DeletedMutant(f, t) == [f EXCEPT ![party[t]["sender"]] = NoId]

\* Trade.Delete: by the users of the two parties, whatever Trades holds for them.
Deleted(f, t) == [c \in Chars |-> IF \E s \in Side : party[t][s] = c THEN NoId ELSE f[c]]
DeleteTrade(t) == trades' = Deleted(trades, t) /\ tradeID' = Deleted(tradeID, t)

\* CancelTradeHandler and Character.CancelTrade.
CancelTrade(c) ==
  /\ sess[c] # "out" /\ trades[c] # NoId
  /\ DeleteTrade(trades[c])
  /\ UNCHANGED <<sess, timers, nextID, party, table, goods, stale, broken>>

\* selectCharacter: a character object read afresh, with its inventory.
SelectCharacter(c) ==
  /\ sess[c] = "out"
  /\ sess' = [sess EXCEPT ![c] = "selected"]
  /\ \E b \in Reloads(c) : inv' = [inv EXCEPT ![c] = b]
  /\ UNCHANGED <<link, table, row, gold, stale, broken>>

\* startGame deletes a trade without a word to the partner, and drops the
\* inventory in memory, so that it is read again from the rows.
StartGame(c) ==
  /\ sess[c] = "selected"
  /\ sess' = [sess EXCEPT ![c] = "playing"]
  /\ \/ trades[c] = NoId /\ UNCHANGED <<trades, tradeID>>
     \/ trades[c] # NoId /\ DeleteTrade(trades[c])
  /\ \E b \in Reloads(c) : inv' = [inv EXCEPT ![c] = b]
  /\ UNCHANGED <<timers, nextID, party, table, row, gold, stale, broken>>

RespawnMutant(c) ==
  /\ sess[c] # "out"
  /\ gold' = [gold EXCEPT ![c] = @ - RespawnPrice]
  /\ UNCHANGED <<sess, link, table, inv, row, stale, broken>>

\* RespawnHandler, case 4: pays without a look at a trade.
Respawn(c) ==
  /\ sess[c] # "out" /\ gold[c] > RespawnPrice
  /\ gold' = [gold EXCEPT ![c] = @ - RespawnPrice]
  /\ UNCHANGED <<sess, link, table, inv, row, stale, broken>>

\* Character.Logout: from the menu, on a closed connection, on a second login.
Logout(c) ==
  /\ sess[c] # "out" /\ c \in Leavers
  /\ sess' = [sess EXCEPT ![c] = "out"]
  /\ \/ /\ trades[c] = NoId
        /\ tradeID' = [tradeID EXCEPT ![c] = NoId]
        /\ UNCHANGED trades
     \/ trades[c] # NoId /\ DeleteTrade(trades[c])
  /\ UNCHANGED <<timers, nextID, party, table, goods, stale, broken>>
-----------------------------------------------------------------------------
(* Offers *)

\* RemoveItemHandler and Character.RemoveItem: no look at a trade either.
RemoveItem(c, i) ==
  /\ sess[c] # "out" /\ inv[c][i] # Empty /\ inv[c][i] \in Losable
  /\ inv' = [inv EXCEPT ![c][i] = Empty]
  /\ row' = [row EXCEPT ![inv[c][i]] = <<>>]
  /\ UNCHANGED <<sess, link, table, gold, stale, broken>>

ClearAcceptedMutant(t) == UNCHANGED accepted

ClearAccepted(t) == accepted' = [accepted EXCEPT ![t] = [s \in Side |-> FALSE]]

\* The first half of an edit: both acceptances are cleared, whether or not the
\* edit is then refused (an empty slot, an untradable item, too much gold).
BeginEdit(c, e) ==
  /\ sess[c] # "out" /\ trades[c] # NoId
  /\ ClearAccepted(trades[c])
  /\ edits' = edits \cup e
  /\ Cardinality(edits') <= MaxEdits
  /\ UNCHANGED <<sess, link, offer, completing, accepts, raced, goods, stale, broken>>

\* AddTradeItemHandler: the same bag slot may be put at two positions.
AddTradeItem(c, i, k) ==
  BeginEdit(c, IF inv[c][i] \in {Empty} \cup Untradable THEN {} ELSE
    {[trade |-> trades[c], side |-> SideOf(trades[c], c), at |-> k, slot |-> i]})

\* RemoveTradeItemHandler
RemoveTradeItem(c, k) ==
  BeginEdit(c,
    {[trade |-> trades[c], side |-> SideOf(trades[c], c), at |-> k, slot |-> NoSlot]})

\* AddTradeGoldHandler: the amount replaces the one offered before.
AddTradeGold(c, g) ==
  BeginEdit(c, IF gold[c] < g THEN {} ELSE
    {[trade |-> trades[c], side |-> SideOf(trades[c], c), gold |-> g]})

\* The second half, once the partner's connection has taken the message.
FinishItemEdit(e) ==
  /\ e \in edits \cap ItemEdit
  /\ edits' = edits \ {e}
  /\ offer' = [offer EXCEPT ![e.trade][e.side].slots[e.at] = e.slot]
  /\ UNCHANGED <<sess, link, accepted, completing, accepts, raced, goods, stale, broken>>

FinishGoldEdit(e) ==
  /\ e \in edits \cap GoldEdit
  /\ edits' = edits \ {e}
  /\ offer' = [offer EXCEPT ![e.trade][e.side].gold = e.gold]
  /\ UNCHANGED <<sess, link, accepted, completing, accepts, raced, goods, stale, broken>>

-----------------------------------------------------------------------------
(* Acceptance *)

EditsOf(t) == {e \in edits : e.trade = t}

\* AcceptTradeHandler up to the write to the partner's connection.
AcceptTrade(c, yes) ==
  LET t == trades[c] IN
  /\ sess[c] # "out" /\ t # NoId /\ ~completing[t]
  /\ accepted' = [accepted EXCEPT ![t] =
       [s \in Side |-> yes /\ (s = SideOf(t, c) \/ @[s])]]
  /\ raced' = [raced EXCEPT ![t][SideOf(t, c)] = EditsOf(t) # {}]
  /\ accepts' = accepts \cup {<<c, t>>}
  /\ Cardinality(accepts') <= MaxAccepts
  /\ UNCHANGED <<sess, link, offer, completing, edits, goods, stale, broken>>

AgreedMutant(t) == (accepted[t]["sender"] \/ accepted[t]["receiver"]) /\ ~completing[t]

Agreed(t) == accepted[t]["sender"] /\ accepted[t]["receiver"] /\ ~completing[t]

\* After the write, when the trade is not agreed or is being completed already.
FinishAccept(c, t) ==
  /\ <<c, t>> \in accepts /\ ~Agreed(t)
  /\ accepts' = accepts \ {<<c, t>>}
  /\ UNCHANGED <<sess, link, offer, accepted, completing, edits, raced, goods, stale, broken>>

(* A phase of the completion moves what lies in the bag slots src[1], src[2],
   ... of bag b, in this order, into the first free slots of bag d.  A slot that
   is empty by then moves nothing, but a free slot is looked for all the same:
   FindFreeSlot returns -1 when there is none, and the handler panics there. *)
Moving(b, src, k)  == b[src[k]] # Empty /\ \A j \in 1..(k - 1) : src[j] # src[k]
Rank(b, src, k)    == Cardinality({j \in 1..(k - 1) : Moving(b, src, j)})
Free(d)            == {i \in Slots : d[i] = Empty}
FreeSlot(d, n)     == CHOOSE i \in Free(d) : Cardinality({j \in Free(d) : j < i}) = n
Fits(b, d, src)    == \A k \in DOMAIN src : Rank(b, src, k) < Cardinality(Free(d))
Moves(b, d, src)   == {k \in DOMAIN src : /\ Moving(b, src, k)
                                          /\ Rank(b, src, k) < Cardinality(Free(d))}
Target(b, d, src, k) == FreeSlot(d, Rank(b, src, k))
Targets(b, d, src) == {i \in Slots : \E k \in Moves(b, d, src) : Target(b, d, src, k) = i}
GivenMutant(b, d, src) == b
Given(b, d, src)   == [i \in Slots |->
  IF \E k \in Moves(b, d, src) : src[k] = i THEN Empty ELSE b[i]]
Taken(b, d, src)   == [i \in Slots |->
  IF i \in Targets(b, d, src)
  THEN b[src[CHOOSE k \in Moves(b, d, src) : Target(b, d, src, k) = i]] ELSE d[i]]

\* The bag slots a side offers, in any of the orders a Go map may yield them.
Orders(t, s) ==
  LET used == {k \in TradeSlots : offer[t][s].slots[k] # NoSlot}
      seqs == {f \in [1..Cardinality(used) -> used] : \A x, y \in DOMAIN f : f[x] = f[y] => x = y}
  IN  {[x \in DOMAIN f |-> offer[t][s].slots[f[x]]] : f \in seqs}

\* The state changes common to every completion: Completing is set, and kept.
BeginCompletion(c, t) ==
  /\ <<c, t>> \in accepts /\ Agreed(t)
  /\ accepts' = accepts \ {<<c, t>>}
  /\ completing' = [completing EXCEPT ![t] = TRUE]
  /\ stale' = (stale \/ ~Live(t))
  /\ UNCHANGED <<sess, timers, nextID, party, offer, accepted, edits, raced>>

Move2(v, x, b, y, d) == [v EXCEPT ![x] = b, ![y] = d]

\* The rows of the items that ended in the slots filled by the completion.
Updated(v, filled) == [x \in Items |->
  LET at == {p \in filled : v[p[1]][p[2]] = x}
  IN  IF row[x] = <<>> \/ at = {} THEN row[x] ELSE CHOOSE p \in at : TRUE]

GoldDeltaMutant(t, z) ==
  LET sg == offer[t]["sender"].gold
      rg == offer[t]["receiver"].gold
  IN  IF z = party[t]["sender"] THEN rg - sg
      ELSE IF z = party[t]["receiver"] THEN sg ELSE 0

\* sGold and rGold: what a completion adds to the gold of its parties.
GoldDelta(t, z) ==
  LET sg == offer[t]["sender"].gold
      rg == offer[t]["receiver"].gold
  IN  IF z = party[t]["sender"] THEN rg - sg
      ELSE IF z = party[t]["receiver"] THEN sg - rg ELSE 0

\* Both phases, the rows, the gold (as differences of uint64), Trade.Delete.
CompleteTrade(c, t) ==
  /\ BeginCompletion(c, t)
  /\ \E src \in Orders(t, "sender"), back \in Orders(t, "receiver") :
       LET x == party[t]["sender"]
           y == party[t]["receiver"]
           x1 == Given(inv[x], inv[y], src)
           y1 == Taken(inv[x], inv[y], src)
           x2 == Taken(y1, x1, back)
           y2 == Given(y1, x1, back)
           filled == ({y} \X Targets(inv[x], inv[y], src)) \cup ({x} \X Targets(y1, x1, back))
       IN  /\ Fits(inv[x], inv[y], src) /\ Fits(y1, x1, back)
           /\ inv' = Move2(inv, x, x2, y, y2)
           /\ row' = Updated(inv', filled)
  /\ gold' = [z \in Chars |-> (gold[z] + GoldDelta(t, z)) % GoldMod]
  /\ DeleteTrade(t)
  /\ UNCHANGED broken

\* A bag is full: the panic ends the handler between two moves.  The moves made
\* stay in memory, no row or gold changes, the trade stays in Trades.
BreakOffTrade(c, t) ==
  /\ BeginCompletion(c, t)
  /\ \E src \in Orders(t, "sender"), back \in Orders(t, "receiver") :
       LET x == party[t]["sender"]
           y == party[t]["receiver"]
           x1 == Given(inv[x], inv[y], src)
           y1 == Taken(inv[x], inv[y], src)
       IN  IF ~Fits(inv[x], inv[y], src)
           THEN inv' = Move2(inv, x, x1, y, y1)
           ELSE /\ ~Fits(y1, x1, back)
                /\ inv' = Move2(inv, x, Taken(y1, x1, back), y, Given(y1, x1, back))
  /\ broken' = TRUE
  /\ UNCHANGED <<row, gold, trades, tradeID>>
-----------------------------------------------------------------------------
FinishEdit ==
  \E e \in edits : FinishItemEdit(e) \/ FinishGoldEdit(e)

Handlers(c) ==
  \/ \E d \in Chars : SendTradeRequest(c, d) \/ AcceptRequest(c, d) \/ RejectRequest(c, d)
  \/ CancelTrade(c)
  \/ SelectCharacter(c) \/ StartGame(c) \/ Respawn(c) \/ Logout(c)
  \/ \E i \in Slots : RemoveItem(c, i)
  \/ \E i \in Slots, k \in TradeSlots : AddTradeItem(c, i, k)
  \/ \E k \in TradeSlots : RemoveTradeItem(c, k)
  \/ \E g \in Amounts : AddTradeGold(c, g)
  \/ \E yes \in BOOLEAN : AcceptTrade(c, yes)

Continuations(c, t) ==
  \/ ExpireRequest(c, t) \/ FinishAccept(c, t) \/ CompleteTrade(c, t) \/ BreakOffTrade(c, t)

Next ==
  \/ \E c \in Chars : Handlers(c)
  \/ \E c \in Chars, t \in Ids : Continuations(c, t)
  \/ FinishEdit

Spec == Init /\ [][Next]_vars

\* The runtime fires every timer.
FairSpec == Spec /\ \A c \in Chars, t \in Ids : WF_vars(ExpireRequest(c, t))

-----------------------------------------------------------------------------
(* Properties *)

\* Every variable keeps the type its Go counterpart has.  Gold stays in the range of
\* its integer: what is spent is checked first, what a completion adds wraps.
TypeOK ==
  /\ sess \in [Chars -> {"out", "selected", "playing"}]
  /\ tradeID \in [Chars -> Ids \cup {NoId}]
  /\ trades \in [Chars -> Ids \cup {NoId}]
  /\ timers \subseteq Chars \X Ids
  /\ nextID \in 1..(MaxRequests + 1)
  /\ party \in [Ids -> [Side -> Chars]]
  /\ offer \in [Ids -> [Side -> [slots : [TradeSlots -> Slots \cup {NoSlot}], gold : Amounts]]]
  /\ accepted \in [Ids -> [Side -> BOOLEAN]]
  /\ completing \in [Ids -> BOOLEAN]
  /\ edits \subseteq ItemEdit \cup GoldEdit
  /\ accepts \subseteq Chars \X Ids
  /\ inv \in [Chars -> Bags]
  /\ row \in [Items -> (Chars \X Slots) \cup {<<>>}]
  /\ gold \in [Chars -> Amounts]
  /\ raced \in [Ids -> [Side -> BOOLEAN]]
  /\ stale \in BOOLEAN
  /\ broken \in BOOLEAN

\* The map Trades and the TradeIDs agree: a character in a trade is one of its two
\* parties, its partner is in the same trade, and both carry its id, which nobody
\* else does.
Paired ==
  \A c \in Chars :
    /\ trades[c] # NoId =>
         /\ \E s \in Side : party[trades[c]][s] = c
         /\ party[trades[c]]["sender"] # party[trades[c]]["receiver"]
         /\ Live(trades[c])
         /\ tradeID[c] = trades[c]
    /\ \A d \in Chars \ {c} : tradeID[c] # NoId /\ tradeID[c] = tradeID[d] =>
         trades[c] = tradeID[c] /\ trades[d] = tradeID[c]

\* That holds as long as no cancelled trade is completed, so that nobody is left in
\* a trade with a partner who is not in it: Trade.Delete, called by either party,
\* by a logout, by the start of the game or by a completion, always frees both.
Pairing == ~stale => Paired

\* An acceptance given while no edit of the trade was in flight stands only as
\* long as none is: every edit clears it before it changes the offer.
AcceptanceClears ==
  \A t \in Ids, s \in Side : accepted[t][s] /\ ~raced[t][s] => EditsOf(t) = {}

\* What a party accepted is what is on the table: no step changes an offer under
\* an acceptance, except an edit that was in flight when it was given.
OffersFrozen ==
  [][\A t \in Ids : offer'[t] # offer[t] => \A s \in Side : accepted[t][s] => raced[t][s]]_vars

\* In this step, c comes into more gold, or into an item other than by logging in.
Gains(c) ==
  \/ gold'[c] > gold[c]
  \/ /\ sess'[c] = sess[c]
     /\ \E i \in Slots : inv'[c][i] # Empty /\ \A j \in Slots : inv[c][j] # inv'[c][i]

\* This step is the completion of a trade c is in and both its parties accept.
Exchanges(c) ==
  \E t \in Ids : /\ ~completing[t] /\ completing'[t]
                 /\ \A s \in Side : accepted[t][s]
                 /\ \E s \in Side : party[t][s] = c

\* An item, or gold, comes to a character only by the one completion of a trade
\* that both its parties accept: a second acceptance, an edit or a cancellation in
\* between never exchanges anything twice or half agreed.
ExchangeIsAgreed == [][\A c \in Chars : Gains(c) => Exchanges(c)]_vars

\* Unless a completion was broken off, no item is in two bag slots, and memory and
\* database rows agree, so that a player who comes back finds the same items.
ItemsUnique ==
  ~broken => \A x \in Items : Places(inv, x) = {p \in Chars \X Slots : row[x] = p}

\* A completion changes no gold but that of its parties, and not their sum
\* (modulo the width of the integer), whatever they spent since they offered it.
GoldConserved ==
  [][\A t \in Ids : completing'[t] /\ ~completing[t] =>
       LET x == party[t]["sender"]
           y == party[t]["receiver"]
       IN  /\ (gold'[x] + gold'[y]) % GoldMod = (gold[x] + gold[y]) % GoldMod
           /\ \A c \in Chars \ {x, y} : gold'[c] = gold[c]]_vars

\* A request that nobody answers does not block its sender for ever: it becomes a
\* trade or its id is taken back.
RequestSettles ==
  \A c \in Chars, t \in Ids :
    (tradeID[c] = t /\ trades[c] = NoId) ~> (tradeID[c] # t \/ trades[c] = t)
=============================================================================
