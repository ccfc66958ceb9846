----------------------------- MODULE TradeProofs -----------------------------
(***************************************************************************)
(* Proofs about Trade, for any characters, items, inventories and bounds.  *)
(* TypeOK, Issued, Pairing and AcceptanceClears are inductive together;    *)
(* so are, with the types, Partners and ItemsUnique.                       *)
(***************************************************************************)
EXTENDS Trade, FiniteSetTheorems, WellFoundedInduction, TLAPS

\* No id is in use before SendTradeRequest has drawn it.
Issued == \A c \in Chars : tradeID[c] < nextID /\ trades[c] < nextID

IInv == TypeOK /\ Issued /\ Pairing /\ AcceptanceClears

-----------------------------------------------------------------------------
(* Numbers *)

\* A number is left with one remainder.
LEMMA RemainderUnique ==
  ASSUME NEW m \in Nat \ {0}, NEW r \in 0..(m - 1), NEW s \in 0..(m - 1),
         NEW k \in Int, NEW l \in Int, m * k + r = m * l + s
  PROVE  r = s
<1>1. CASE k = l
  BY <1>1
<1>2. CASE k < l
  <2>1. m * (l - k) >= m
    BY <1>2, Z3
  <2>2. m * (l - k) = r - s
    OBVIOUS
  <2> QED BY <2>1, <2>2
<1>3. CASE l < k
  <2>1. m * (k - l) >= m
    BY <1>3, Z3
  <2>2. m * (k - l) = s - r
    OBVIOUS
  <2> QED BY <2>1, <2>2
<1> QED BY <1>1, <1>2, <1>3

\* A number is its quotient times the divisor and the remainder.
LEMMA Division ==
  ASSUME NEW m \in Nat \ {0}, NEW a \in Int
  PROVE  a = m * (a \div m) + (a % m) /\ a % m \in 0..(m - 1) /\ a \div m \in Int
OBVIOUS

\* Remainders are added like numbers.
LEMMA RemaindersAdd ==
  ASSUME NEW m \in Nat \ {0}, NEW a \in Int, NEW b \in Int
  PROVE  ((a % m) + (b % m)) % m = (a + b) % m
<1>1. PICK c \in Int : c = (a % m) + (b % m)
  <2>1. (a % m) \in Int /\ (b % m) \in Int
    BY Division
  <2> QED BY <2>1
<1>2. PICK d \in Int : d = a + b
  OBVIOUS
<1>3. /\ a = m * (a \div m) + (a % m)
      /\ b = m * (b \div m) + (b % m)
      /\ c = m * (c \div m) + (c % m)
      /\ d = m * (d \div m) + (d % m)
      /\ {a \div m, b \div m, c \div m, d \div m} \subseteq Int
      /\ {c % m, d % m} \subseteq 0..(m - 1)
  BY Division
<1>4. PICK k \in Int : k = (a \div m) + (b \div m) + (c \div m)
  BY <1>3
<1>5. d = m * k + (c % m)
  BY <1>1, <1>2, <1>3, <1>4
<1>6. PICK r \in 0..(m - 1), s \in 0..(m - 1), q \in Int :
        r = c % m /\ s = d % m /\ q = d \div m
  BY <1>3
<1>7. m * k + r = m * q + s
  BY <1>3, <1>5, <1>6
<1>8. r = s
  BY <1>7, RemainderUnique
<1> QED BY <1>1, <1>2, <1>6, <1>8

\* A set of numbers has a least one: otherwise there would be no least among the sets 1..n.
LEMMA LeastNumber ==
  ASSUME NEW T \in SUBSET Nat, T # {}
  PROVE  \E x \in T : \A y \in T : x <= y
<1> DEFINE B == {1..n : n \in T}
<1>1. B \subseteq FiniteSubsetsOf(Nat) /\ B # {}
  <2>1. \A n \in T : IsFiniteSet(1..n) /\ (1..n) \in SUBSET Nat
    BY FS_Interval
  <2> QED BY <2>1 DEF FiniteSubsetsOf
<1>2. PICK b \in B : \A c \in B : <<c, b>> \notin StrictSubsetOrdering(Nat)
  BY <1>1, FS_StrictSubsetOrderingWellFounded, WFMin, Zenon
<1>3. PICK x \in T : b = 1..x
  OBVIOUS
<1>4. ASSUME NEW y \in T, y < x PROVE FALSE
  <2>1. (1..y) \in SUBSET (1..x) /\ x \in (1..x) \ (1..y)
    BY <1>4
  <2>2. <<1..y, b>> \in StrictSubsetOrdering(Nat)
    BY <1>3, <2>1 DEF StrictSubsetOrdering
  <2> QED BY <1>2, <2>2
<1> QED BY <1>4

-----------------------------------------------------------------------------
(* Types *)

\* The bag slots a side offers are bag slots.
LEMMA OrdersType ==
  ASSUME TypeOK, NEW t \in Ids, NEW s \in Side, NEW src \in Orders(t, s)
  PROVE  \A k \in DOMAIN src : src[k] \in Slots
<1> DEFINE used == {k \in TradeSlots : offer[t][s].slots[k] # NoSlot}
<1>1. PICK f \in [1..Cardinality(used) -> used] :
        src = [x \in DOMAIN f |-> offer[t][s].slots[f[x]]]
  BY DEF Orders
<1>2. \A k \in used : offer[t][s].slots[k] \in Slots
  BY DEF TypeOK, NoSlot
<1> QED BY <1>1, <1>2

\* What a phase of a completion makes of the two bags are bags.
LEMMA PhaseType ==
  ASSUME NEW b \in Bags, NEW d \in Bags, NEW src, \A k \in DOMAIN src : src[k] \in Slots
  PROVE  Given(b, d, src) \in Bags /\ Taken(b, d, src) \in Bags
<1>1. Given(b, d, src) \in Bags
  BY DEF Given, Bags
<1>2. \A i \in Targets(b, d, src) :
        b[src[CHOOSE k \in Moves(b, d, src) : Target(b, d, src, k) = i]] \in Items \cup {Empty}
  BY DEF Targets, Moves, Bags
<1>3. Taken(b, d, src) \in Bags
  BY <1>2 DEF Taken, Bags
<1> QED BY <1>1, <1>3

\* Rows name places.
LEMMA UpdatedType ==
  ASSUME TypeOK, NEW v, NEW filled \in SUBSET (Chars \X Slots)
  PROVE  Updated(v, filled) \in [Items -> (Chars \X Slots) \cup {<<>>}]
BY DEF Updated, TypeOK

\* A deleted trade leaves the types.
LEMMA DeletedType ==
  ASSUME NEW f \in [Chars -> Ids \cup {NoId}], NEW t
  PROVE  Deleted(f, t) \in [Chars -> Ids \cup {NoId}]
BY DEF Deleted

\* Gold wraps within its type.
LEMMA GoldType ==
  ASSUME TypeOK, NEW t \in Ids
  PROVE  [z \in Chars |-> (gold[z] + GoldDelta(t, z)) % GoldMod] \in [Chars -> Amounts]
<1>1. \A z \in Chars : gold[z] + GoldDelta(t, z) \in Int
  BY GoldAssumption DEF TypeOK, GoldDelta, Amounts, Side
<1>2. \A n \in Int : n % GoldMod \in Amounts
  BY GoldAssumption DEF Amounts
<1> QED BY <1>1, <1>2

\* The types at the start.
LEMMA InitType == Init => TypeOK
<1> SUFFICES ASSUME Init PROVE TypeOK OBVIOUS
<1>1. (CHOOSE c \in Chars : TRUE) \in Chars
  BY SizeAssumption
<1>2. row \in [Items -> (Chars \X Slots) \cup {<<>>}]
  BY DEF Init, Where, Places
<1>3. offer \in [Ids -> [Side -> [slots : [TradeSlots -> Slots \cup {NoSlot}], gold : Amounts]]]
  BY GoldAssumption DEF Init, NoOffer, Amounts
<1>4. nextID \in 1..(MaxRequests + 1)
  BY SizeAssumption DEF Init
<1>5. inv \in [Chars -> Bags] /\ gold \in [Chars -> Amounts]
  BY StartAssumption DEF Init
<1> QED BY <1>1, <1>2, <1>3, <1>4, <1>5 DEF Init, TypeOK, NoId

\* One step per action, each naming what the action assigns.
LEMMA TypeStep == TypeOK /\ [Next]_vars => TypeOK'
<1> SUFFICES ASSUME TypeOK, [Next]_vars PROVE TypeOK'
  OBVIOUS
<1> USE DEF TypeOK
<1>1. ASSUME NEW c \in Chars, NEW d \in Chars, SendTradeRequest(c, d) PROVE TypeOK'
  BY <1>1, SizeAssumption DEF SendTradeRequest, table, goods, Ids
<1>2. ASSUME NEW c \in Chars, NEW t \in Ids, ExpireRequest(c, t) PROVE TypeOK'
  BY <1>2 DEF ExpireRequest, table, goods
<1>3. ASSUME NEW c \in Chars, NEW d \in Chars, AcceptRequest(d, c) PROVE TypeOK'
  BY <1>3 DEF AcceptRequest, table, goods
<1>4. ASSUME NEW c \in Chars, NEW d \in Chars, RejectRequest(d, c) PROVE TypeOK'
  BY <1>4 DEF RejectRequest, table, goods
<1>5. ASSUME NEW c \in Chars, CancelTrade(c) PROVE TypeOK'
  BY <1>5, DeletedType DEF CancelTrade, DeleteTrade, table, goods
<1>6. ASSUME NEW c \in Chars, SelectCharacter(c) PROVE TypeOK'
  BY <1>6 DEF SelectCharacter, Reloads, link, table
<1>7. ASSUME NEW c \in Chars, StartGame(c) PROVE TypeOK'
  <2>1. trades' \in [Chars -> Ids \cup {NoId}] /\ tradeID' \in [Chars -> Ids \cup {NoId}]
    <3>1. CASE trades[c] = NoId
      BY <1>7, <3>1 DEF StartGame
    <3>2. CASE trades[c] # NoId
      <4>1. trades' = Deleted(trades, trades[c]) /\ tradeID' = Deleted(tradeID, trades[c])
        BY <1>7, <3>2 DEF StartGame, DeleteTrade
      <4> QED BY <4>1, DeletedType
    <3> QED BY <3>1, <3>2
  <2> QED BY <1>7, <2>1 DEF StartGame, Reloads, table
<1>8. ASSUME NEW c \in Chars, Respawn(c) PROVE TypeOK'
  BY <1>8, GoldAssumption DEF Respawn, Amounts, link, table
<1>9. ASSUME NEW c \in Chars, Logout(c) PROVE TypeOK'
  <2>1. trades' \in [Chars -> Ids \cup {NoId}] /\ tradeID' \in [Chars -> Ids \cup {NoId}]
    <3>1. CASE trades[c] = NoId
      BY <1>9, <3>1 DEF Logout
    <3>2. CASE trades[c] # NoId
      <4>1. trades' = Deleted(trades, trades[c]) /\ tradeID' = Deleted(tradeID, trades[c])
        BY <1>9, <3>2 DEF Logout, DeleteTrade
      <4> QED BY <4>1, DeletedType
    <3> QED BY <3>1, <3>2
  <2> QED BY <1>9, <2>1 DEF Logout, table, goods
<1>10. ASSUME NEW c \in Chars, NEW i \in Slots, RemoveItem(c, i) PROVE TypeOK'
  BY <1>10 DEF RemoveItem, Bags, link, table
<1>11. ASSUME NEW c \in Chars, NEW e \in SUBSET (ItemEdit \cup GoldEdit), BeginEdit(c, e)
       PROVE  TypeOK'
  BY <1>11 DEF BeginEdit, ClearAccepted, link, goods
<1>12. ASSUME NEW c \in Chars, trades[c] # NoId PROVE SideOf(trades[c], c) \in Side
  BY <1>12 DEF SideOf, Side
<1>13. ASSUME NEW c \in Chars, NEW i \in Slots, NEW k \in TradeSlots, AddTradeItem(c, i, k)
       PROVE  TypeOK'
  <2> DEFINE e == [trade |-> trades[c], side |-> SideOf(trades[c], c), at |-> k, slot |-> i]
  <2>1. trades[c] # NoId => e \in ItemEdit
    BY <1>12 DEF ItemEdit
  <2> QED BY <1>11, <1>13, <2>1 DEF AddTradeItem, BeginEdit
<1>14. ASSUME NEW c \in Chars, NEW k \in TradeSlots, RemoveTradeItem(c, k) PROVE TypeOK'
  <2> DEFINE e == [trade |-> trades[c], side |-> SideOf(trades[c], c), at |-> k, slot |-> NoSlot]
  <2>1. trades[c] # NoId => e \in ItemEdit
    BY <1>12 DEF ItemEdit
  <2> QED BY <1>11, <1>14, <2>1 DEF RemoveTradeItem, BeginEdit
<1>15. ASSUME NEW c \in Chars, NEW g \in Amounts, AddTradeGold(c, g) PROVE TypeOK'
  <2> DEFINE e == [trade |-> trades[c], side |-> SideOf(trades[c], c), gold |-> g]
  <2>1. trades[c] # NoId => e \in GoldEdit
    BY <1>12 DEF GoldEdit
  <2> QED BY <1>11, <1>15, <2>1 DEF AddTradeGold, BeginEdit
<1>16. ASSUME NEW e \in edits, FinishItemEdit(e) PROVE TypeOK'
  <2>1. e.trade \in Ids /\ e.side \in Side /\ e.at \in TradeSlots /\ e.slot \in Slots \cup {NoSlot}
    BY <1>16 DEF FinishItemEdit, ItemEdit
  <2>2. offer' \in [Ids -> [Side -> [slots : [TradeSlots -> Slots \cup {NoSlot}], gold : Amounts]]]
    <3> DEFINE old == offer[e.trade][e.side]
               new == [old EXCEPT !.slots[e.at] = e.slot]
    <3>1. old \in [slots : [TradeSlots -> Slots \cup {NoSlot}], gold : Amounts]
      BY <2>1
    <3>2. new \in [slots : [TradeSlots -> Slots \cup {NoSlot}], gold : Amounts]
      BY <2>1, <3>1
    <3>3. offer' = [offer EXCEPT ![e.trade] = [@ EXCEPT ![e.side] = new]]
      BY <1>16, <2>1 DEF FinishItemEdit
    <3> QED BY <2>1, <3>2, <3>3
  <2> QED BY <1>16, <2>2 DEF FinishItemEdit, link, goods
<1>17. ASSUME NEW e \in edits, FinishGoldEdit(e) PROVE TypeOK'
  <2>1. e.trade \in Ids /\ e.side \in Side /\ e.gold \in Amounts
    BY <1>17 DEF FinishGoldEdit, GoldEdit
  <2>2. offer' \in [Ids -> [Side -> [slots : [TradeSlots -> Slots \cup {NoSlot}], gold : Amounts]]]
    <3> DEFINE old == offer[e.trade][e.side]
               new == [old EXCEPT !.gold = e.gold]
    <3>1. old \in [slots : [TradeSlots -> Slots \cup {NoSlot}], gold : Amounts]
      BY <2>1
    <3>2. new \in [slots : [TradeSlots -> Slots \cup {NoSlot}], gold : Amounts]
      BY <2>1, <3>1
    <3>3. offer' = [offer EXCEPT ![e.trade] = [@ EXCEPT ![e.side] = new]]
      BY <1>17, <2>1 DEF FinishGoldEdit
    <3> QED BY <2>1, <3>2, <3>3
  <2> QED BY <1>17, <2>2 DEF FinishGoldEdit, link, goods
<1>18. ASSUME NEW c \in Chars, NEW yes \in BOOLEAN, AcceptTrade(c, yes) PROVE TypeOK'
  BY <1>12, <1>18 DEF AcceptTrade, link, goods
<1>19. ASSUME NEW c \in Chars, NEW t \in Ids, FinishAccept(c, t) PROVE TypeOK'
  BY <1>19 DEF FinishAccept, link, goods
<1>20. ASSUME NEW c \in Chars, NEW t \in Ids, CompleteTrade(c, t) PROVE TypeOK'
  <2>1. inv' \in [Chars -> Bags] /\ row' \in [Items -> (Chars \X Slots) \cup {<<>>}]
    <3>1. PICK src \in Orders(t, "sender"), back \in Orders(t, "receiver") :
            LET x == party[t]["sender"]
                y == party[t]["receiver"]
                x1 == Given(inv[x], inv[y], src)
                y1 == Taken(inv[x], inv[y], src)
                filled == ({y} \X Targets(inv[x], inv[y], src))
                          \cup ({x} \X Targets(y1, x1, back))
            IN  /\ inv' = Move2(inv, x, Taken(y1, x1, back), y, Given(y1, x1, back))
                /\ row' = Updated(inv', filled)
      BY <1>20 DEF CompleteTrade
    <3> DEFINE x  == party[t]["sender"]
               y  == party[t]["receiver"]
               x1 == Given(inv[x], inv[y], src)
               y1 == Taken(inv[x], inv[y], src)
    <3>2. x \in Chars /\ y \in Chars
      BY DEF Side
    <3>3. (\A k \in DOMAIN src : src[k] \in Slots) /\ (\A k \in DOMAIN back : back[k] \in Slots)
      BY OrdersType DEF Side
    <3>4. x1 \in Bags /\ y1 \in Bags
      BY <3>2, <3>3, PhaseType
    <3>5. Taken(y1, x1, back) \in Bags /\ Given(y1, x1, back) \in Bags
      BY <3>3, <3>4, PhaseType
    <3>6. inv' \in [Chars -> Bags]
      BY <3>1, <3>2, <3>5 DEF Move2
    <3>7. row' \in [Items -> (Chars \X Slots) \cup {<<>>}]
      BY <3>1, <3>2, UpdatedType DEF Targets
    <3> QED BY <3>6, <3>7
  <2>2. gold' \in [Chars -> Amounts]
    BY <1>20, GoldType DEF CompleteTrade
  <2> QED BY <1>20, <2>1, <2>2, DeletedType DEF CompleteTrade, BeginCompletion, DeleteTrade
<1>21. ASSUME NEW c \in Chars, NEW t \in Ids, BreakOffTrade(c, t) PROVE TypeOK'
  <2>1. inv' \in [Chars -> Bags]
    <3>1. PICK src \in Orders(t, "sender"), back \in Orders(t, "receiver") :
            LET x == party[t]["sender"]
                y == party[t]["receiver"]
                x1 == Given(inv[x], inv[y], src)
                y1 == Taken(inv[x], inv[y], src)
            IN  \/ inv' = Move2(inv, x, x1, y, y1)
                \/ inv' = Move2(inv, x, Taken(y1, x1, back), y, Given(y1, x1, back))
      BY <1>21 DEF BreakOffTrade
    <3> DEFINE x  == party[t]["sender"]
               y  == party[t]["receiver"]
               x1 == Given(inv[x], inv[y], src)
               y1 == Taken(inv[x], inv[y], src)
    <3>2. x \in Chars /\ y \in Chars
      BY DEF Side
    <3>3. (\A k \in DOMAIN src : src[k] \in Slots) /\ (\A k \in DOMAIN back : back[k] \in Slots)
      BY OrdersType DEF Side
    <3>4. x1 \in Bags /\ y1 \in Bags
      BY <3>2, <3>3, PhaseType
    <3>5. Taken(y1, x1, back) \in Bags /\ Given(y1, x1, back) \in Bags
      BY <3>3, <3>4, PhaseType
    <3> QED BY <3>1, <3>2, <3>4, <3>5 DEF Move2
  <2> QED BY <1>21, <2>1 DEF BreakOffTrade, BeginCompletion
<1>22. ASSUME UNCHANGED vars PROVE TypeOK'
  BY <1>22 DEF vars, link, table, goods
<1> QED
  BY <1>1, <1>2, <1>3, <1>4, <1>5, <1>6, <1>7, <1>8, <1>9, <1>10, <1>13, <1>14, <1>15, <1>16,
     <1>17, <1>18, <1>19, <1>20, <1>21, <1>22 DEF Next, Handlers, Continuations, FinishEdit
-----------------------------------------------------------------------------
(* The pairing of characters *)

\* Issued and Pairing at the start.
LEMMA InitPairing == Init => Issued /\ Pairing
BY DEF Init, Issued, Pairing, Paired, NoId, Ids

\* Deleting a live trade frees its two parties and nobody else.
LEMMA DeleteStep ==
  ASSUME TypeOK, Issued, Paired, NEW t \in Ids, Live(t),
         DeleteTrade(t), party' = party, nextID' = nextID
  PROVE  Issued' /\ Paired'
<1> DEFINE parties == {party[t][s] : s \in Side}
<1>1. \A c \in Chars : /\ trades'[c] = IF c \in parties THEN NoId ELSE trades[c]
                      /\ tradeID'[c] = IF c \in parties THEN NoId ELSE tradeID[c]
  BY DEF DeleteTrade, Deleted
<1>2. \A c \in Chars : trades[c] = t => c \in parties
  BY DEF Paired, NoId, Ids
<1>3. \A c \in parties : c \in Chars /\ trades[c] = t
  BY DEF Live, TypeOK
<1>4. Issued'
  BY <1>1 DEF Issued, TypeOK, NoId, Ids
<1>5. ASSUME NEW c \in Chars, trades'[c] # NoId
      PROVE  /\ \E s \in Side : party'[trades'[c]][s] = c
             /\ party'[trades'[c]]["sender"] # party'[trades'[c]]["receiver"]
             /\ Live(trades[c])'
             /\ tradeID'[c] = trades'[c]
  <2>1. c \notin parties /\ trades'[c] = trades[c] /\ trades[c] # t /\ trades[c] \in Ids
    BY <1>1, <1>2, <1>5 DEF TypeOK
  <2>2. Live(trades[c])
    BY <2>1, <1>5 DEF Paired
  <2>3. \A s \in Side : party[trades[c]][s] \in Chars \ parties
    BY <1>3, <2>1, <2>2 DEF Live, TypeOK
  <2>4. Live(trades[c])'
    BY <1>1, <2>1, <2>2, <2>3 DEF Live
  <2> QED BY <1>1, <2>1, <2>4, <1>5 DEF Paired
<1>6. ASSUME NEW c \in Chars, NEW d \in Chars \ {c}, tradeID'[c] # NoId, tradeID'[c] = tradeID'[d]
      PROVE  trades'[c] = tradeID'[c] /\ trades'[d] = tradeID'[c]
  <2>1. c \notin parties /\ d \notin parties
    BY <1>1, <1>6
  <2> QED BY <1>1, <1>6, <2>1 DEF Paired
<1> QED BY <1>4, <1>5, <1>6 DEF Paired, Live

\* Every step keeps Issued and Pairing.
LEMMA PairingStep == TypeOK /\ Issued /\ Pairing /\ [Next]_vars => Issued' /\ Pairing'
<1> SUFFICES ASSUME TypeOK, Issued, Pairing, [Next]_vars PROVE Issued' /\ Pairing'
  OBVIOUS
<1>1. ASSUME UNCHANGED link, stale => stale' PROVE Issued' /\ Pairing'
  BY <1>1 DEF link, Issued, Pairing, Paired, Live
<1>2. ASSUME NEW t \in Ids, ~stale => Live(t), DeleteTrade(t), stale => stale',
             party' = party, nextID' = nextID
      PROVE  Issued' /\ Pairing'
  <2>1. CASE stale
    BY <1>2, <2>1 DEF Issued, Pairing, DeleteTrade, Deleted, TypeOK, Ids, NoId
  <2>2. CASE ~stale
    BY <1>2, <2>2, DeleteStep DEF Pairing
  <2> QED BY <2>1, <2>2
<1>3. \A c \in Chars : trades[c] # NoId => trades[c] \in Ids /\ (~stale => Live(trades[c]))
  BY DEF TypeOK, Pairing, Paired
<1>4. ASSUME NEW c \in Chars, NEW d \in Chars, SendTradeRequest(c, d)
      PROVE  Issued' /\ Pairing'
  <2>1. /\ tradeID' = [tradeID EXCEPT ![c] = nextID] /\ nextID' = nextID + 1
        /\ tradeID[c] = NoId /\ UNCHANGED <<trades, party, stale>>
    BY <1>4 DEF SendTradeRequest
  <2>2. Issued'
    BY <2>1 DEF Issued, TypeOK, Ids, NoId
  <2>3. ASSUME Paired PROVE Paired'
    BY <2>1, <2>3 DEF Paired, Live, Issued, TypeOK, Ids, NoId
  <2> QED BY <2>1, <2>2, <2>3 DEF Pairing
<1>5. ASSUME NEW c \in Chars, trades[c] = NoId, tradeID' = [tradeID EXCEPT ![c] = NoId],
             UNCHANGED <<trades, party, stale, nextID>>
      PROVE  Issued' /\ Pairing'
  <2>1. Issued'
    BY <1>5 DEF Issued, TypeOK, Ids, NoId
  <2>2. ASSUME Paired PROVE Paired'
    BY <1>5, <2>2 DEF Paired, Live, TypeOK, Ids, NoId
  <2> QED BY <1>5, <2>1, <2>2 DEF Pairing
<1>6. ASSUME NEW c \in Chars, NEW t \in Ids, ExpireRequest(c, t) PROVE Issued' /\ Pairing'
  BY <1>5, <1>6, <1>1 DEF ExpireRequest, Issued, Pairing, Paired, Live
<1>7. ASSUME NEW c \in Chars, NEW d \in Chars, RejectRequest(d, c) PROVE Issued' /\ Pairing'
  BY <1>5, <1>7 DEF RejectRequest
<1>8. ASSUME NEW c \in Chars, NEW d \in Chars, AcceptRequest(d, c) PROVE Issued' /\ Pairing'
  <2> DEFINE t == tradeID[c]
  <2>1. /\ t \in Ids /\ tradeID[d] = NoId /\ trades[c] = NoId /\ c # d
        /\ trades' = [trades EXCEPT ![c] = t, ![d] = t]
        /\ tradeID' = [tradeID EXCEPT ![d] = t]
        /\ UNCHANGED <<nextID, stale>>
    BY <1>8 DEF AcceptRequest, TypeOK
  <2>2. /\ party'[t]["sender"] = c /\ party'[t]["receiver"] = d
        /\ \A u \in Ids \ {t} : party'[u] = party[u]
    BY <1>8, <2>1 DEF AcceptRequest, TypeOK, Side
  <2>3. Issued'
    BY <2>1 DEF Issued, TypeOK, Ids, NoId
  <2>4. ASSUME Paired PROVE Paired'
    <3>1. trades[d] = NoId
      BY <2>1, <2>4 DEF Paired
    <3>2. \A e \in Chars \ {c} : tradeID[e] # t /\ trades[e] # t
      BY <2>1, <2>4 DEF Paired, NoId, Ids
    <3>3. ASSUME NEW e \in Chars, trades'[e] # NoId
          PROVE  /\ \E s \in Side : party'[trades'[e]][s] = e
                 /\ party'[trades'[e]]["sender"] # party'[trades'[e]]["receiver"]
                 /\ \A s \in Side : trades'[party'[trades'[e]][s]] = trades'[e]
                 /\ tradeID'[e] = trades'[e]
      <4>1. CASE e \in {c, d}
        BY <2>1, <2>2, <4>1 DEF Side, TypeOK
      <4>2. CASE e \notin {c, d}
        <5>1. trades'[e] = trades[e] /\ trades[e] \in Ids \ {t} /\ tradeID'[e] = tradeID[e]
          BY <2>1, <3>2, <3>3, <4>2 DEF TypeOK
        <5>2. \A s \in Side : party[trades[e]][s] \in Chars \ {c, d}
                             /\ trades[party[trades[e]][s]] = trades[e]
          BY <2>1, <2>4, <3>1, <5>1 DEF Paired, Live, TypeOK, Ids, NoId
        <5>3. \A s \in Side : trades'[party[trades[e]][s]] = trades[e]
          BY <2>1, <5>2 DEF TypeOK
        <5> QED BY <2>2, <2>4, <5>1, <5>3 DEF Paired, Ids, NoId
      <4> QED BY <4>1, <4>2
    <3>4. ASSUME NEW e \in Chars, NEW f \in Chars \ {e},
                 tradeID'[e] # NoId, tradeID'[e] = tradeID'[f]
          PROVE  trades'[e] = tradeID'[e] /\ trades'[f] = tradeID'[e]
      BY <2>1, <2>4, <3>2, <3>4 DEF Paired, TypeOK
    <3> QED BY <3>3, <3>4 DEF Paired, Live
  <2> QED BY <2>1, <2>3, <2>4 DEF Pairing
<1>9. ASSUME NEW c \in Chars, CancelTrade(c) PROVE Issued' /\ Pairing'
  BY <1>2, <1>3, <1>9 DEF CancelTrade
<1>10. ASSUME NEW c \in Chars, StartGame(c) PROVE Issued' /\ Pairing'
  BY <1>1, <1>2, <1>3, <1>10 DEF StartGame, link
<1>11. ASSUME NEW c \in Chars, Logout(c) PROVE Issued' /\ Pairing'
  BY <1>2, <1>3, <1>5, <1>11 DEF Logout
<1>12. ASSUME NEW c \in Chars, NEW t \in Ids, CompleteTrade(c, t) PROVE Issued' /\ Pairing'
  <2>1. CASE Live(t)
    BY <1>2, <1>12, <2>1 DEF CompleteTrade, BeginCompletion
  <2>2. CASE ~Live(t)
    <3>1. stale'
      BY <1>12, <2>2 DEF CompleteTrade, BeginCompletion
    <3>2. Issued'
      BY <1>12 DEF CompleteTrade, BeginCompletion, DeleteTrade, Deleted, Issued, TypeOK, Ids, NoId
    <3> QED BY <3>1, <3>2 DEF Pairing
  <2> QED BY <2>1, <2>2
<1>13. ASSUME NEW c \in Chars, NEW t \in Ids, BreakOffTrade(c, t) PROVE Issued' /\ Pairing'
  BY <1>1, <1>13 DEF BreakOffTrade, BeginCompletion, link
<1>14. ASSUME NEW c \in Chars,
              \/ SelectCharacter(c) \/ Respawn(c)
              \/ \E i \in Slots : RemoveItem(c, i)
              \/ \E i \in Slots, k \in TradeSlots : AddTradeItem(c, i, k)
              \/ \E k \in TradeSlots : RemoveTradeItem(c, k)
              \/ \E g \in Amounts : AddTradeGold(c, g)
              \/ \E yes \in BOOLEAN : AcceptTrade(c, yes)
       PROVE  Issued' /\ Pairing'
  BY <1>1, <1>14 DEF SelectCharacter, Respawn, RemoveItem, AddTradeItem, RemoveTradeItem,
                    AddTradeGold, BeginEdit, AcceptTrade
<1>15. ASSUME NEW c \in Chars, NEW t \in Ids, FinishAccept(c, t) PROVE Issued' /\ Pairing'
  BY <1>1, <1>15 DEF FinishAccept
<1>16. ASSUME FinishEdit PROVE Issued' /\ Pairing'
  BY <1>1, <1>16 DEF FinishEdit, FinishItemEdit, FinishGoldEdit
<1>17. ASSUME UNCHANGED vars PROVE Issued' /\ Pairing'
  BY <1>1, <1>17 DEF vars
<1> QED
  BY <1>4, <1>6, <1>7, <1>8, <1>9, <1>10, <1>11, <1>12, <1>13, <1>14, <1>15, <1>16, <1>17
  DEF Next, Handlers, Continuations
-----------------------------------------------------------------------------
(* Acceptances and offers *)

\* Every step keeps AcceptanceClears.
LEMMA AcceptanceStep == TypeOK /\ AcceptanceClears /\ [Next]_vars => AcceptanceClears'
<1> SUFFICES ASSUME TypeOK, AcceptanceClears, [Next]_vars PROVE AcceptanceClears'
  OBVIOUS
<1> USE DEF AcceptanceClears, EditsOf
<1>1. ASSUME UNCHANGED <<accepted, raced>>, edits' \subseteq edits PROVE AcceptanceClears'
  BY <1>1
<1>2. ASSUME NEW c \in Chars, NEW e, BeginEdit(c, e), \A x \in e : x.trade = trades[c]
      PROVE  AcceptanceClears'
  BY <1>2 DEF BeginEdit, ClearAccepted, TypeOK
<1>3. ASSUME NEW c \in Chars, NEW i \in Slots, NEW k \in TradeSlots, AddTradeItem(c, i, k)
      PROVE  AcceptanceClears'
  BY <1>2, <1>3 DEF AddTradeItem
<1>4. ASSUME NEW c \in Chars, NEW k \in TradeSlots, RemoveTradeItem(c, k) PROVE AcceptanceClears'
  BY <1>2, <1>4 DEF RemoveTradeItem
<1>5. ASSUME NEW c \in Chars, NEW g \in Amounts, AddTradeGold(c, g) PROVE AcceptanceClears'
  BY <1>2, <1>5 DEF AddTradeGold
<1>6. ASSUME FinishEdit PROVE AcceptanceClears'
  BY <1>1, <1>6 DEF FinishEdit, FinishItemEdit, FinishGoldEdit
<1>7. ASSUME NEW c \in Chars, NEW yes \in BOOLEAN, AcceptTrade(c, yes) PROVE AcceptanceClears'
  BY <1>7 DEF AcceptTrade, TypeOK
<1>8. ASSUME NEW c \in Chars, NEW t \in Ids, Continuations(c, t) PROVE AcceptanceClears'
  BY <1>1, <1>8 DEF Continuations, ExpireRequest, FinishAccept, CompleteTrade, BreakOffTrade,
                   BeginCompletion, table
<1>9. ASSUME NEW c \in Chars,
             \/ \E d \in Chars : SendTradeRequest(c, d) \/ AcceptRequest(c, d) \/ RejectRequest(c, d)
             \/ CancelTrade(c)
             \/ SelectCharacter(c) \/ StartGame(c) \/ Respawn(c) \/ Logout(c)
             \/ \E i \in Slots : RemoveItem(c, i)
      PROVE  AcceptanceClears'
  BY <1>1, <1>9 DEF SendTradeRequest, AcceptRequest, RejectRequest, CancelTrade, SelectCharacter,
                   StartGame, Respawn, Logout, RemoveItem, table
<1>10. ASSUME UNCHANGED vars PROVE AcceptanceClears'
  BY <1>1, <1>10 DEF vars, table
<1> QED BY <1>3, <1>4, <1>5, <1>6, <1>7, <1>8, <1>9, <1>10 DEF Next, Handlers

\* Only the second half of an edit changes an offer, and the edit was in flight.
LEMMA FrozenStep ==
  TypeOK /\ AcceptanceClears /\ [Next]_vars =>
    \A t \in Ids : offer'[t] # offer[t] => \A s \in Side : accepted[t][s] => raced[t][s]
<1> SUFFICES ASSUME TypeOK, AcceptanceClears, [Next]_vars, NEW t \in Ids, offer'[t] # offer[t]
             PROVE  EditsOf(t) # {}
  BY DEF AcceptanceClears
<1>1. ASSUME NEW e \in edits, FinishItemEdit(e) \/ FinishGoldEdit(e) PROVE EditsOf(t) # {}
  BY <1>1 DEF FinishItemEdit, FinishGoldEdit, EditsOf, TypeOK
<1>2. ASSUME NEW c \in Chars, Handlers(c) PROVE FALSE
  BY <1>2 DEF Handlers, SendTradeRequest, AcceptRequest, RejectRequest, CancelTrade,
              SelectCharacter, StartGame, Respawn, Logout, RemoveItem, AddTradeItem,
              RemoveTradeItem, AddTradeGold, BeginEdit, AcceptTrade, table
<1>3. ASSUME NEW c \in Chars, NEW u \in Ids, Continuations(c, u) PROVE FALSE
  BY <1>3 DEF Continuations, ExpireRequest, FinishAccept, CompleteTrade, BreakOffTrade,
              BeginCompletion, table
<1> QED BY <1>1, <1>2, <1>3 DEF Next, FinishEdit, vars, table

-----------------------------------------------------------------------------
(* Goods *)

\* Goods change hands in completions only.
LEMMA ExchangeStep == TypeOK /\ [Next]_vars => \A c \in Chars : Gains(c) => Exchanges(c)
<1> SUFFICES ASSUME TypeOK, [Next]_vars, NEW c \in Chars, Gains(c) PROVE Exchanges(c)
  OBVIOUS
<1>0. \/ gold'[c] > gold[c]
      \/ /\ sess'[c] = sess[c]
         /\ \E i \in Slots : inv'[c][i] # inv[c][i] /\ inv'[c][i] # Empty
  BY DEF Gains
<1>1. ~(UNCHANGED <<inv, gold>>)
  BY <1>0 DEF TypeOK, Amounts
<1>2. ASSUME NEW d \in Chars, SelectCharacter(d) \/ StartGame(d) PROVE FALSE
  <2>1. gold' = gold /\ sess'[d] # sess[d] /\ \A e \in Chars \ {d} : inv'[e] = inv[e]
    BY <1>2 DEF SelectCharacter, StartGame, TypeOK
  <2>2. ~(gold'[c] > gold[c])
    BY <2>1 DEF TypeOK, Amounts
  <2> QED BY <1>0, <2>1, <2>2, Zenon
<1>3. ASSUME NEW d \in Chars, Respawn(d) PROVE FALSE
  BY <1>0, <1>3, GoldAssumption DEF Respawn, TypeOK, Amounts
<1>4. ASSUME NEW d \in Chars, NEW i \in Slots, RemoveItem(d, i) PROVE FALSE
  BY <1>0, <1>4 DEF RemoveItem, TypeOK, Amounts, Bags
<1>5. ASSUME NEW d \in Chars, NEW t \in Ids, CompleteTrade(d, t) \/ BreakOffTrade(d, t)
      PROVE  /\ ~completing[t] /\ completing'[t]
             /\ \A s \in Side : accepted[t][s]
             /\ \E s \in Side : party[t][s] = c
  <2>1. BeginCompletion(d, t)
    BY <1>5 DEF CompleteTrade, BreakOffTrade
  <2>2. /\ ~completing[t] /\ completing'[t] /\ \A s \in Side : accepted[t][s]
    BY <2>1 DEF BeginCompletion, Agreed, Side, TypeOK
  <2>3. ASSUME \A s \in Side : party[t][s] # c PROVE FALSE
    <3>1. inv'[c] = inv[c]
      BY <1>5, <2>3 DEF CompleteTrade, BreakOffTrade, Move2, Side, TypeOK
    <3>2. gold'[c] = gold[c]
      <4>1. CASE BreakOffTrade(d, t)
        BY <4>1 DEF BreakOffTrade
      <4>2. CASE CompleteTrade(d, t)
        <5>1. GoldDelta(t, c) = 0
          BY <2>3 DEF GoldDelta, Side
        <5>2. gold'[c] = (gold[c] + 0) % GoldMod
          BY <4>2, <5>1 DEF CompleteTrade
        <5>3. gold[c] \in Nat /\ gold[c] < GoldMod
          BY GoldAssumption DEF TypeOK, Amounts
        <5> QED BY <5>2, <5>3, GoldAssumption
      <4> QED BY <1>5, <4>1, <4>2
    <3> QED BY <1>0, <3>1, <3>2 DEF TypeOK, Amounts
  <2> QED BY <2>2, <2>3
<1>6. ASSUME NEW d \in Chars, Handlers(d) PROVE FALSE
  BY <1>1, <1>2, <1>3, <1>4, <1>6 DEF Handlers, SendTradeRequest, AcceptRequest, RejectRequest,
     CancelTrade, Logout, AddTradeItem, RemoveTradeItem, AddTradeGold, BeginEdit, AcceptTrade, goods
<1>7. ASSUME FinishEdit PROVE FALSE
  BY <1>1, <1>7 DEF FinishEdit, FinishItemEdit, FinishGoldEdit, goods
<1>8. ASSUME NEW d \in Chars, NEW t \in Ids, ExpireRequest(d, t) \/ FinishAccept(d, t) PROVE FALSE
  BY <1>1, <1>8 DEF ExpireRequest, FinishAccept, goods
<1>9. ASSUME UNCHANGED vars PROVE FALSE
  BY <1>1, <1>9 DEF vars, goods
<1> QED BY <1>5, <1>6, <1>7, <1>8, <1>9 DEF Next, Continuations, Exchanges

-----------------------------------------------------------------------------
(* The moves of a completion *)

Below(F, i) == {j \in F : j < i}

\* There are finitely many slots below one.
LEMMA BelowFinite ==
  ASSUME NEW F \in SUBSET Slots, NEW i
  PROVE  /\ F \subseteq Nat /\ IsFiniteSet(F) /\ Cardinality(F) \in Nat
         /\ IsFiniteSet(Below(F, i))
         /\ \A j : j \in Below(F, i) <=> j \in F /\ j < i
<1>1. IsFiniteSet(Slots)
  BY FS_Interval, SizeAssumption DEF Slots
<1>2. IsFiniteSet(F)
  BY <1>1, FS_Subset
<1>3. Cardinality(F) \in Nat
  BY <1>2, FS_CardinalityType
<1>4. Below(F, i) \in SUBSET F /\ F \subseteq Nat
  BY DEF Below, Slots
<1>5. IsFiniteSet(Below(F, i))
  BY <1>2, <1>4, FS_Subset
<1> QED BY <1>2, <1>3, <1>4, <1>5 DEF Below

\* Of n + 1 free slots one has n before it: the least after one that has n - 1.
LEMMA SlotOfRank ==
  ASSUME NEW F \in SUBSET Slots, NEW n \in Nat, n < Cardinality(F)
  PROVE  \E i \in F : Cardinality({j \in F : j < i}) = n
<1> DEFINE N == {m \in Nat : m < Cardinality(F) /\ \A i \in F : Cardinality(Below(F, i)) # m}
<1>1. SUFFICES ASSUME N # {} PROVE FALSE
  BY DEF Below
<1>2. PICK m \in N : \A k \in N : m <= k
  BY <1>1, LeastNumber
<1>3. /\ F \subseteq Nat /\ IsFiniteSet(F) /\ Cardinality(F) \in Nat
      /\ m \in Nat /\ m < Cardinality(F) /\ \A i \in F : Cardinality(Below(F, i)) # m
      /\ m # 0 => \E i \in F : Cardinality(Below(F, i)) = m - 1
  <2>1. m # 0 => m - 1 \in Nat /\ m - 1 < Cardinality(F) /\ m - 1 \notin N
    BY <1>2, BelowFinite
  <2> QED BY <1>2, <2>1, BelowFinite
<1> HIDE DEF N
<1>4. CASE m = 0
  <2>1. F # {}
    BY <1>3, <1>4, FS_EmptySet
  <2>2. PICK i \in F : \A j \in F : i <= j
    BY <1>3, <2>1, LeastNumber
  <2>3. ASSUME NEW j \in Below(F, i) PROVE FALSE
    <3>1. j \in F /\ j < i
      BY BelowFinite
    <3> QED BY <1>3, <2>2, <3>1
  <2>4. Below(F, i) = {}
    BY <2>3
  <2> QED BY <1>3, <1>4, <2>4, FS_EmptySet
<1>5. CASE m # 0
  <2>1. PICK i \in F : Cardinality(Below(F, i)) = m - 1
    BY <1>3, <1>5
  <2> DEFINE upTo == Below(F, i) \cup {i}
             A    == {j \in F : j > i}
  <2>2. i \notin Below(F, i) /\ IsFiniteSet(Below(F, i))
    BY <1>3, BelowFinite
  <2>3. Cardinality(upTo) = (m - 1) + 1
    BY <2>1, <2>2, FS_AddElement
  <2>4. Cardinality(upTo) = m
    BY <1>3, <2>3
  <2>5. upTo # F
    <3>1. Cardinality(upTo) # Cardinality(F)
      BY <1>3, <2>4
    <3> QED BY <3>1, Zenon
  <2>6. PICK j \in F : j \notin upTo
    BY <2>5, BelowFinite
  <2>7. j > i
    BY <1>3, <2>6, BelowFinite
  <2>8. A # {} /\ A \subseteq Nat
    BY <1>3, <2>7
  <2>9. PICK k \in A : \A x \in A : k <= x
    BY <2>8, LeastNumber
  <2>10. ASSUME NEW x \in F PROVE x \in Below(F, k) <=> x \in upTo
    <3>1. (x \in Below(F, k) <=> x < k) /\ (x \in Below(F, i) <=> x < i)
      BY BelowFinite
    <3>2. x \in Nat /\ i \in Nat /\ k \in Nat /\ i < k /\ (i < x => k <= x)
      BY <1>3, <2>9
    <3> QED BY <3>1, <3>2
  <2>11. Below(F, k) = upTo
    <3>1. Below(F, k) \subseteq F /\ upTo \subseteq F
      BY BelowFinite
    <3> QED BY <2>10, <3>1
  <2> QED BY <1>3, <2>4, <2>9, <2>11
<1> QED BY <1>4, <1>5

\* The sequence of slots a phase goes through.
Path == UNION {[1..n -> Slots] : n \in Nat}

\* The moves of a phase go from different slots, that are full, to different free slots.
LEMMA MovesApart ==
  ASSUME NEW b \in Bags, NEW d \in Bags, NEW src \in Path,
         NEW k \in Moves(b, d, src), NEW j \in Moves(b, d, src)
  PROVE  /\ src[k] \in Slots /\ b[src[k]] # Empty
         /\ Target(b, d, src, k) \in Free(d)
         /\ src[j] = src[k] => j = k
         /\ Target(b, d, src, j) = Target(b, d, src, k) => j = k
<1>1. PICK n \in Nat : src \in [1..n -> Slots]
  BY DEF Path
<1>2. k \in 1..n /\ j \in 1..n /\ Moving(b, src, k) /\ Moving(b, src, j)
  BY <1>1 DEF Moves
<1>3. src[k] \in Slots /\ b[src[k]] # Empty /\ (src[j] = src[k] => j = k)
  BY <1>1, <1>2 DEF Moving
<1> DEFINE Before(m) == {i \in 1..(m - 1) : Moving(b, src, i)}
<1>4. \A m \in 1..n : IsFiniteSet(Before(m)) /\ Cardinality(Before(m)) \in Nat
  <2>1. ASSUME NEW m \in 1..n PROVE IsFiniteSet(Before(m))
    <3>1. IsFiniteSet(1..(m - 1)) /\ Before(m) \in SUBSET (1..(m - 1))
      BY FS_Interval
    <3> QED BY <3>1, FS_Subset
  <2> QED BY <2>1, FS_CardinalityType
<1>5. ASSUME NEW p \in Moves(b, d, src), NEW q \in Moves(b, d, src), p < q
      PROVE  Rank(b, src, p) < Rank(b, src, q)
  <2>1. p \in 1..n /\ q \in 1..n /\ Moving(b, src, p)
    BY <1>1 DEF Moves
  <2>2. Before(p) \cup {p} \in SUBSET Before(q) /\ p \notin Before(p)
    BY <1>5, <2>1
  <2>3. Cardinality(Before(p) \cup {p}) = Cardinality(Before(p)) + 1
    BY <1>4, <2>1, <2>2, FS_AddElement
  <2>4. Cardinality(Before(p) \cup {p}) <= Cardinality(Before(q))
    BY <1>4, <2>1, <2>2, FS_Subset
  <2>5. Rank(b, src, p) = Cardinality(Before(p)) /\ Rank(b, src, q) = Cardinality(Before(q))
    BY DEF Rank
  <2> HIDE DEF Before
  <2> QED BY <1>4, <2>1, <2>3, <2>4, <2>5
<1>6. \A p \in Moves(b, d, src) :
        /\ Target(b, d, src, p) \in Free(d)
        /\ Cardinality({i \in Free(d) : i < Target(b, d, src, p)}) = Rank(b, src, p)
  <2> SUFFICES ASSUME NEW p \in Moves(b, d, src)
               PROVE  /\ Target(b, d, src, p) \in Free(d)
                      /\ Cardinality({i \in Free(d) : i < Target(b, d, src, p)}) = Rank(b, src, p)
    OBVIOUS
  <2>1. Rank(b, src, p) \in Nat /\ Rank(b, src, p) < Cardinality(Free(d))
    BY <1>1, <1>4 DEF Moves, Rank
  <2>2. \E i \in Free(d) : Cardinality({m \in Free(d) : m < i}) = Rank(b, src, p)
    BY <2>1, SlotOfRank DEF Free
  <2> QED BY <2>2 DEF Target, FreeSlot
<1>7. ASSUME Target(b, d, src, j) = Target(b, d, src, k) PROVE j = k
  <2>1. Rank(b, src, j) = Rank(b, src, k)
    BY <1>6, <1>7
  <2>2. Rank(b, src, j) \in Int
    BY <1>2, <1>4 DEF Rank
  <2> QED BY <1>2, <1>5, <2>1, <2>2
<1> QED BY <1>3, <1>6, <1>7

\* Item x lies in slot i of bag b, and nowhere else in b and d; or in neither bag.
OnlyIn(b, d, x, i) == b[i] = x /\ \A j \in Slots : (b[j] = x => j = i) /\ d[j] # x
InNeither(b, d, x) == \A j \in Slots : b[j] # x /\ d[j] # x

\* What a phase leaves in either bag.
LEMMA PhaseHolds ==
  ASSUME NEW b \in Bags, NEW d \in Bags, NEW src \in Path, NEW x \in Items, NEW i \in Slots
  PROVE  /\ Given(b, d, src)[i] = x <=>
              b[i] = x /\ \A k \in Moves(b, d, src) : src[k] # i
         /\ Taken(b, d, src)[i] = x <=>
              \/ d[i] = x
              \/ \E k \in Moves(b, d, src) : Target(b, d, src, k) = i /\ b[src[k]] = x
<1>1. Given(b, d, src)[i] = x <=> b[i] = x /\ \A k \in Moves(b, d, src) : src[k] # i
  BY ItemAssumption DEF Given
<1>2. CASE i \in Targets(b, d, src)
  <2>1. PICK k \in Moves(b, d, src) : Target(b, d, src, k) = i
    BY <1>2 DEF Targets
  <2>2. (CHOOSE j \in Moves(b, d, src) : Target(b, d, src, j) = i) = k
    BY <2>1, MovesApart
  <2>3. Taken(b, d, src)[i] = b[src[k]]
    BY <1>2, <2>2 DEF Taken
  <2>4. d[i] # x
    BY <2>1, MovesApart, ItemAssumption DEF Free
  <2>5. \A j \in Moves(b, d, src) : Target(b, d, src, j) = i => j = k
    BY <2>1, MovesApart
  <2> QED BY <1>1, <2>1, <2>3, <2>4, <2>5
<1>3. CASE i \notin Targets(b, d, src)
  <2>1. Taken(b, d, src)[i] = d[i]
    BY <1>3 DEF Taken
  <2>2. \A k \in Moves(b, d, src) : Target(b, d, src, k) # i
    BY <1>3 DEF Targets
  <2> QED BY <1>1, <2>1, <2>2
<1> QED BY <1>2, <1>3

\* A phase makes no item of nothing, moves an item or leaves it, and leaves those in the
\* bag it fills.
LEMMA PhaseKeeps ==
  ASSUME NEW b \in Bags, NEW d \in Bags, NEW src \in Path, NEW x \in Items
  PROVE  LET g == Given(b, d, src)
             t == Taken(b, d, src)
         IN  /\ InNeither(b, d, x) => InNeither(g, t, x)
             /\ \A i \in Slots : OnlyIn(d, b, x, i) => OnlyIn(t, g, x, i)
             /\ \A i \in Slots : OnlyIn(b, d, x, i) =>
                  \/ OnlyIn(g, t, x, i)
                  \/ \E q \in Targets(b, d, src) : OnlyIn(t, g, x, q)
<1> DEFINE g == Given(b, d, src)
           t == Taken(b, d, src)
           M == Moves(b, d, src)
<1>1. \A j \in Slots : /\ g[j] = x <=> b[j] = x /\ \A k \in M : src[k] # j
                       /\ t[j] = x <=> \/ d[j] = x
                                       \/ \E k \in M : Target(b, d, src, k) = j /\ b[src[k]] = x
  BY PhaseHolds
<1>2. \A k \in M : src[k] \in Slots /\ Target(b, d, src, k) \in Targets(b, d, src)
  BY MovesApart DEF Targets, Free
<1>3. \A k, j \in M : src[j] = src[k] => j = k
  BY MovesApart
<1>4. Targets(b, d, src) \subseteq Slots
  BY DEF Targets
<1> HIDE DEF g, t, M
<1>5. InNeither(b, d, x) => InNeither(g, t, x)
  BY <1>1, <1>2 DEF InNeither
<1>6. ASSUME NEW i \in Slots, OnlyIn(d, b, x, i) PROVE OnlyIn(t, g, x, i)
  BY <1>1, <1>2, <1>6 DEF OnlyIn
<1>7. ASSUME NEW i \in Slots, OnlyIn(b, d, x, i)
      PROVE  OnlyIn(g, t, x, i) \/ \E q \in Targets(b, d, src) : OnlyIn(t, g, x, q)
  <2>1. CASE \A k \in M : src[k] # i
    BY <1>1, <1>2, <1>7, <2>1 DEF OnlyIn
  <2>2. ASSUME NEW k \in M, src[k] = i PROVE OnlyIn(t, g, x, Target(b, d, src, k))
    BY <1>1, <1>2, <1>3, <1>4, <1>7, <2>2 DEF OnlyIn
  <2> QED BY <1>2, <2>1, <2>2
<1> QED BY <1>5, <1>6, <1>7 DEF g, t, M

\* A completion makes no item of nothing, and an item is where it was or in a slot filled.
LEMMA ExchangeKeeps ==
  ASSUME NEW bx \in Bags, NEW by \in Bags, NEW src \in Path, NEW back \in Path, NEW x \in Items
  PROVE  LET x1 == Given(bx, by, src)
             y1 == Taken(bx, by, src)
             x2 == Taken(y1, x1, back)
             y2 == Given(y1, x1, back)
         IN  /\ InNeither(bx, by, x) => InNeither(x2, y2, x)
             /\ \A i \in Slots : OnlyIn(bx, by, x, i) =>
                  \/ OnlyIn(x2, y2, x, i)
                  \/ \E q \in Targets(bx, by, src) : OnlyIn(y2, x2, x, q)
                  \/ \E q \in Targets(y1, x1, back) : OnlyIn(x2, y2, x, q)
             /\ \A i \in Slots : OnlyIn(by, bx, x, i) =>
                  \/ OnlyIn(y2, x2, x, i)
                  \/ \E q \in Targets(y1, x1, back) : OnlyIn(x2, y2, x, q)
<1> DEFINE x1 == Given(bx, by, src)
           y1 == Taken(bx, by, src)
           x2 == Taken(y1, x1, back)
           y2 == Given(y1, x1, back)
<1>1. x1 \in Bags /\ y1 \in Bags
  BY PhaseType DEF Path
<1>2. /\ InNeither(bx, by, x) => InNeither(x1, y1, x)
      /\ \A i \in Slots : OnlyIn(by, bx, x, i) => OnlyIn(y1, x1, x, i)
      /\ \A i \in Slots : OnlyIn(bx, by, x, i) =>
           OnlyIn(x1, y1, x, i) \/ \E q \in Targets(bx, by, src) : OnlyIn(y1, x1, x, q)
  BY PhaseKeeps
<1> HIDE DEF x1, y1
<1>3. /\ InNeither(y1, x1, x) => InNeither(y2, x2, x)
      /\ \A i \in Slots : OnlyIn(x1, y1, x, i) => OnlyIn(x2, y2, x, i)
      /\ \A i \in Slots : OnlyIn(y1, x1, x, i) =>
           OnlyIn(y2, x2, x, i) \/ \E q \in Targets(y1, x1, back) : OnlyIn(x2, y2, x, q)
  BY <1>1, PhaseKeeps
<1>4. Targets(bx, by, src) \subseteq Slots
  BY DEF Targets
<1>5. /\ InNeither(x1, y1, x) <=> InNeither(y1, x1, x)
      /\ InNeither(x2, y2, x) <=> InNeither(y2, x2, x)
  BY DEF InNeither
<1> HIDE DEF x2, y2
<1>6. /\ InNeither(bx, by, x) => InNeither(x2, y2, x)
      /\ \A i \in Slots : OnlyIn(bx, by, x, i) =>
           \/ OnlyIn(x2, y2, x, i)
           \/ \E q \in Targets(bx, by, src) : OnlyIn(y2, x2, x, q)
           \/ \E q \in Targets(y1, x1, back) : OnlyIn(x2, y2, x, q)
      /\ \A i \in Slots : OnlyIn(by, bx, x, i) =>
           \/ OnlyIn(y2, x2, x, i)
           \/ \E q \in Targets(y1, x1, back) : OnlyIn(x2, y2, x, q)
  BY <1>2, <1>3, <1>4, <1>5
<1> QED BY <1>6 DEF x1, y1, x2, y2

-----------------------------------------------------------------------------
(* Where the items are *)

\* A character does not trade with itself, whatever was cancelled meanwhile.
Distinct(t) == party[t]["sender"] # party[t]["receiver"]
Partners ==
  /\ \A c \in Chars : trades[c] # NoId => Distinct(trades[c])
  /\ \A a \in accepts : Distinct(a[2])

\* The row r of item x and the bags v agree.
Found(v, r, x) ==
  \/ r = <<>> /\ \A c \in Chars, i \in Slots : v[c][i] # x
  \/ \E c \in Chars, i \in Slots :
       r = <<c, i>> /\ \A d \in Chars, j \in Slots : v[d][j] = x <=> d = c /\ j = i

\* What the search finds.
LEMMA FoundIs ==
  ASSUME NEW v, NEW x, NEW r \in (Chars \X Slots) \cup {<<>>}
  PROVE  Places(v, x) = {p \in Chars \X Slots : r = p} <=> Found(v, r, x)
<1> DEFINE P == {p \in Chars \X Slots : r = p}
<1>1. \A c \in Chars, i \in Slots :
        /\ <<c, i>> \in Places(v, x) <=> v[c][i] = x
        /\ <<c, i>> \in P <=> r = <<c, i>>
  BY DEF Places
<1>2. Places(v, x) = P <=>
        \A c \in Chars, i \in Slots : <<c, i>> \in Places(v, x) <=> <<c, i>> \in P
  BY DEF Places
<1>3. Places(v, x) = P <=> \A c \in Chars, i \in Slots : v[c][i] = x <=> r = <<c, i>>
  BY <1>1, <1>2
<1> HIDE DEF P
<1>4. CASE r = <<>>
  BY <1>3, <1>4 DEF Found, P
<1>5. ASSUME NEW c \in Chars, NEW i \in Slots, r = <<c, i>>
      PROVE  Places(v, x) = P <=> Found(v, r, x)
  BY <1>3, <1>5 DEF Found
<1> QED BY <1>4, <1>5 DEF P

\* ItemsUnique, item by item.
LEMMA ItemsFound ==
  TypeOK => (ItemsUnique <=> (broken \/ \A x \in Items : Found(inv, row[x], x)))
<1> SUFFICES ASSUME TypeOK
             PROVE  \A x \in Items : Places(inv, x) = {p \in Chars \X Slots : row[x] = p}
                                       <=> Found(inv, row[x], x)
  BY DEF ItemsUnique
<1> QED BY FoundIs DEF TypeOK

\* Every step keeps Partners.
LEMMA PartnersStep == TypeOK /\ Issued /\ Partners /\ [Next]_vars => Partners'
<1> SUFFICES ASSUME TypeOK, Issued, Partners, [Next]_vars PROVE Partners'
  OBVIOUS
<1> USE DEF Partners, Distinct
<1>1. ASSUME party' = party, \A c \in Chars : trades'[c] \in {trades[c], NoId},
             \A a \in accepts' : a \in accepts \/ \E c \in Chars : a[2] = trades[c] /\ trades[c] # NoId
      PROVE  Partners'
  BY <1>1
<1>2. ASSUME NEW c \in Chars, NEW d \in Chars, AcceptRequest(d, c) PROVE Partners'
  <2> DEFINE t == tradeID[c]
  <2>1. /\ t \in Ids /\ c # d
        /\ trades' = [trades EXCEPT ![c] = t, ![d] = t] /\ accepts' = accepts
    BY <1>2 DEF AcceptRequest, TypeOK, table
  <2>2. party'[t]["sender"] = c /\ party'[t]["receiver"] = d
    BY <1>2, <2>1 DEF AcceptRequest, TypeOK, Side
  <2>3. \A u : u # t => party'[u] = party[u]
    BY <1>2 DEF AcceptRequest, TypeOK
  <2>4. \A u : Distinct(u) => Distinct(u)'
    BY <2>1, <2>2, <2>3
  <2>5. \A e \in Chars : trades'[e] \in {trades[e], t}
    BY <2>1 DEF TypeOK
  <2> QED BY <2>1, <2>2, <2>4, <2>5
<1>3. ASSUME NEW t, DeleteTrade(t) PROVE \A c \in Chars : trades'[c] \in {trades[c], NoId}
  BY <1>3 DEF DeleteTrade, Deleted
<1>4. ASSUME NEW c \in Chars, Handlers(c), ~\E d \in Chars : AcceptRequest(c, d) PROVE Partners'
  <2>1. party' = party
    BY <1>4 DEF Handlers, SendTradeRequest, RejectRequest, CancelTrade, SelectCharacter, StartGame,
                Respawn, Logout, RemoveItem, AddTradeItem, RemoveTradeItem, AddTradeGold, BeginEdit,
                AcceptTrade, link
  <2>2. \A d \in Chars : trades'[d] \in {trades[d], NoId}
    BY <1>3, <1>4 DEF Handlers, SendTradeRequest, RejectRequest, CancelTrade, SelectCharacter,
                StartGame, Respawn, Logout, RemoveItem, AddTradeItem, RemoveTradeItem, AddTradeGold,
                BeginEdit, AcceptTrade, link
  <2>3. accepts' = accepts \/ (trades[c] # NoId /\ accepts' = accepts \cup {<<c, trades[c]>>})
    BY <1>4 DEF Handlers, SendTradeRequest, RejectRequest, CancelTrade, SelectCharacter, StartGame,
                Respawn, Logout, RemoveItem, AddTradeItem, RemoveTradeItem, AddTradeGold, BeginEdit,
                AcceptTrade, table
  <2> QED BY <1>1, <2>1, <2>2, <2>3
<1>5. ASSUME NEW c \in Chars, NEW t \in Ids, Continuations(c, t) PROVE Partners'
  <2>1. /\ party' = party /\ accepts' \subseteq accepts
        /\ \A d \in Chars : trades'[d] \in {trades[d], NoId}
    BY <1>3, <1>5 DEF Continuations, ExpireRequest, FinishAccept, CompleteTrade, BreakOffTrade,
                BeginCompletion, link, table
  <2> QED BY <1>1, <2>1
<1>6. ASSUME FinishEdit \/ UNCHANGED vars PROVE Partners'
  BY <1>6 DEF FinishEdit, FinishItemEdit, FinishGoldEdit, vars, link, table
<1> QED BY <1>2, <1>4, <1>5, <1>6 DEF Next

\* A side offers finitely many slots, in some order.
LEMMA OrdersPath ==
  ASSUME TypeOK, NEW t \in Ids, NEW s \in Side, NEW src \in Orders(t, s)
  PROVE  src \in Path
<1> DEFINE used == {k \in TradeSlots : offer[t][s].slots[k] # NoSlot}
<1>1. Cardinality(used) \in Nat
  <2>1. IsFiniteSet(used)
    BY FS_Subset, SizeAssumption
  <2> QED BY <2>1, FS_CardinalityType
<1>2. PICK f \in [1..Cardinality(used) -> used] :
        src = [x \in DOMAIN f |-> offer[t][s].slots[f[x]]]
  BY DEF Orders
<1>3. \A k \in used : offer[t][s].slots[k] \in Slots
  BY DEF TypeOK, NoSlot
<1> HIDE DEF used
<1>4. src \in [1..Cardinality(used) -> Slots]
  BY <1>2, <1>3
<1> QED BY <1>1, <1>4 DEF Path

\* A completion writes the rows of what it moves, and so memory and rows agree again.
LEMMA CompletionFound ==
  ASSUME TypeOK, NEW c \in Chars, NEW t \in Ids, CompleteTrade(c, t), Distinct(t),
         NEW z \in Items, Found(inv, row[z], z)
  PROVE  Found(inv', row'[z], z)
<1> DEFINE x == party[t]["sender"]
           y == party[t]["receiver"]
<1>1. x \in Chars /\ y \in Chars /\ x # y
  BY DEF TypeOK, Side, Distinct
<1>2. PICK src \in Orders(t, "sender"), back \in Orders(t, "receiver") :
        LET x1 == Given(inv[x], inv[y], src)
            y1 == Taken(inv[x], inv[y], src)
            filled == ({y} \X Targets(inv[x], inv[y], src)) \cup ({x} \X Targets(y1, x1, back))
        IN  /\ inv' = Move2(inv, x, Taken(y1, x1, back), y, Given(y1, x1, back))
            /\ row' = Updated(inv', filled)
  BY DEF CompleteTrade
<1> DEFINE x1 == Given(inv[x], inv[y], src)
           y1 == Taken(inv[x], inv[y], src)
           x2 == Taken(y1, x1, back)
           y2 == Given(y1, x1, back)
           T1 == Targets(inv[x], inv[y], src)
           T2 == Targets(y1, x1, back)
           filled == ({y} \X T1) \cup ({x} \X T2)
<1>3. T1 \subseteq Slots /\ T2 \subseteq Slots
  BY DEF Targets
<1>4. inv'[x] = x2 /\ inv'[y] = y2 /\ \A d \in Chars \ {x, y} : inv'[d] = inv[d]
  BY <1>1, <1>2 DEF Move2, TypeOK
<1>5. row'[z] = LET at == {p \in filled : inv'[p[1]][p[2]] = z}
                IN  IF row[z] = <<>> \/ at = {} THEN row[z] ELSE CHOOSE p \in at : TRUE
  BY <1>2 DEF Updated
<1>6. /\ InNeither(inv[x], inv[y], z) => InNeither(x2, y2, z)
      /\ \A i \in Slots : OnlyIn(inv[x], inv[y], z, i) =>
           \/ OnlyIn(x2, y2, z, i)
           \/ \E q \in T1 : OnlyIn(y2, x2, z, q)
           \/ \E q \in T2 : OnlyIn(x2, y2, z, q)
      /\ \A i \in Slots : OnlyIn(inv[y], inv[x], z, i) =>
           \/ OnlyIn(y2, x2, z, i)
           \/ \E q \in T2 : OnlyIn(x2, y2, z, q)
  <2>1. inv[x] \in Bags /\ inv[y] \in Bags
    BY <1>1 DEF TypeOK
  <2>2. src \in Path /\ back \in Path
    BY OrdersPath DEF Side
  <2> QED BY <2>1, <2>2, ExchangeKeeps
<1> HIDE DEF x, y, x1, y1, x2, y2, T1, T2
\* In one place, in the same as before or in one that the completion filled.
<1>7. ASSUME NEW d \in Chars, NEW i \in Slots, row[z] # <<>>,
             \A e \in Chars, j \in Slots : inv'[e][j] = z <=> e = d /\ j = i,
             row[z] = <<d, i>> \/ <<d, i>> \in filled
      PROVE  Found(inv', row'[z], z)
  <2> DEFINE at == {p \in filled : inv'[p[1]][p[2]] = z}
  <2>1. \A e, j : <<e, j>> \in filled => e \in Chars /\ j \in Slots
    BY <1>1, <1>3
  <2>2. \A p \in filled : p = <<p[1], p[2]>>
    OBVIOUS
  <2>3. \A p \in at : p = <<d, i>>
    BY <1>7, <2>1, <2>2
  <2>4. row'[z] = IF at = {} THEN row[z] ELSE CHOOSE p \in at : TRUE
    BY <1>5, <1>7
  <2>5. CASE at = {}
    <3>1. <<d, i>> \notin filled
      BY <1>7, <2>5
    <3> QED BY <1>7, <2>4, <2>5, <3>1 DEF Found
  <2>6. CASE at # {}
    <3>1. row'[z] = <<d, i>>
      BY <2>3, <2>4, <2>6
    <3> QED BY <1>7, <3>1 DEF Found
  <2> QED BY <2>5, <2>6
<1>8. ASSUME NEW i \in Slots, OnlyIn(inv[x], inv[y], z, i) \/ OnlyIn(inv[y], inv[x], z, i)
      PROVE  \A d \in Chars \ {x, y}, j \in Slots : inv'[d][j] # z
  <2>1. \A d \in Chars \ {x, y}, j \in Slots : inv[d][j] # z
    BY <1>1, <1>8 DEF Found, OnlyIn
  <2> QED BY <1>4, <2>1
<1>9. CASE row[z] = <<>>
  <2>1. \A d \in Chars, j \in Slots : inv[d][j] # z
    BY <1>9 DEF Found
  <2>2. \A d \in Chars, j \in Slots : inv'[d][j] # z
    BY <1>1, <1>4, <1>6, <2>1 DEF InNeither
  <2>3. row'[z] = <<>>
    BY <1>5, <1>9
  <2> QED BY <2>2, <2>3 DEF Found
<1>10. ASSUME NEW d \in Chars, NEW i \in Slots, row[z] = <<d, i>>,
              \A e \in Chars, j \in Slots : inv[e][j] = z <=> e = d /\ j = i
       PROVE  Found(inv', row'[z], z)
  <2>1. CASE d \notin {x, y}
    <3>1. InNeither(x2, y2, z)
      BY <1>1, <1>6, <1>10, <2>1 DEF InNeither
    <3>2. \A e \in Chars, j \in Slots : inv'[e][j] = z <=> e = d /\ j = i
      BY <1>1, <1>4, <1>10, <2>1, <3>1 DEF InNeither
    <3> QED BY <1>7, <1>10, <3>2
  <2>2. ASSUME NEW j \in Slots, OnlyIn(x2, y2, z, j), (d = x /\ j = i) \/ j \in T2,
               d \in {x, y}
        PROVE  Found(inv', row'[z], z)
    <3>1. OnlyIn(inv[x], inv[y], z, i) \/ OnlyIn(inv[y], inv[x], z, i)
      BY <1>1, <1>10, <2>2 DEF OnlyIn
    <3>2. \A e \in Chars, k \in Slots : inv'[e][k] = z <=> e = x /\ k = j
      BY <1>1, <1>4, <1>8, <2>2, <3>1 DEF OnlyIn
    <3>3. row[z] = <<x, j>> \/ <<x, j>> \in filled
      BY <1>10, <2>2
    <3> QED BY <1>1, <1>7, <1>10, <3>2, <3>3
  <2>3. ASSUME NEW j \in Slots, OnlyIn(y2, x2, z, j), (d = y /\ j = i) \/ j \in T1,
               d \in {x, y}
        PROVE  Found(inv', row'[z], z)
    <3>1. OnlyIn(inv[x], inv[y], z, i) \/ OnlyIn(inv[y], inv[x], z, i)
      BY <1>1, <1>10, <2>3 DEF OnlyIn
    <3>2. \A e \in Chars, k \in Slots : inv'[e][k] = z <=> e = y /\ k = j
      BY <1>1, <1>4, <1>8, <2>3, <3>1 DEF OnlyIn
    <3>3. row[z] = <<y, j>> \/ <<y, j>> \in filled
      BY <1>10, <2>3
    <3> QED BY <1>1, <1>7, <1>10, <3>2, <3>3
  <2>4. CASE d = x
    <3>1. OnlyIn(inv[x], inv[y], z, i)
      BY <1>1, <1>10, <2>4 DEF OnlyIn
    <3> QED BY <1>3, <1>6, <2>2, <2>3, <2>4, <3>1
  <2>5. CASE d = y
    <3>1. OnlyIn(inv[y], inv[x], z, i)
      BY <1>1, <1>10, <2>5 DEF OnlyIn
    <3> QED BY <1>3, <1>6, <2>2, <2>3, <2>5, <3>1
  <2> QED BY <2>1, <2>4, <2>5
<1> QED BY <1>9, <1>10 DEF Found

\* A bag read again from the rows is the bag that was in memory, as each slot has one row.
LEMMA ReloadFound ==
  ASSUME TypeOK, NEW c \in Chars, NEW b \in Reloads(c), \A x \in Items : Found(inv, row[x], x)
  PROVE  inv[c] = b
<1> SUFFICES ASSUME NEW i \in Slots PROVE inv[c][i] = b[i]
  BY DEF TypeOK, Reloads, Bags
<1> DEFINE stored == {x \in Items : row[x] = <<c, i>>}
<1>1. (b[i] = Empty /\ stored = {}) \/ b[i] \in stored
  BY DEF Reloads
<1>2. \A x \in Items : row[x] = <<c, i>> <=> inv[c][i] = x
  BY DEF Found
<1>3. inv[c][i] \in Items \cup {Empty}
  BY DEF TypeOK, Bags
<1> QED BY <1>1, <1>2, <1>3

\* Every step keeps ItemsUnique.
LEMMA ItemsStep == TypeOK /\ Partners /\ ItemsUnique /\ [Next]_vars => ItemsUnique'
<1> SUFFICES ASSUME TypeOK, TypeOK', Partners, ItemsUnique, [Next]_vars, ~broken'
             PROVE  \A x \in Items : Found(inv', row'[x], x)
  <2>1. TypeOK' => (ItemsUnique <=> (broken \/ \A x \in Items : Found(inv, row[x], x)))'
    BY ItemsFound, PTL
  <2> QED BY TypeStep, <2>1 DEF Found
<1>1. ~broken /\ \A x \in Items : Found(inv, row[x], x)
  <2>1. broken => broken'
    BY DEF Next, Handlers, Continuations, FinishEdit, SendTradeRequest, AcceptRequest, RejectRequest,
       CancelTrade, SelectCharacter, StartGame, Respawn, Logout, RemoveItem, AddTradeItem,
       RemoveTradeItem, AddTradeGold, BeginEdit, AcceptTrade, ExpireRequest, FinishAccept,
       CompleteTrade, BreakOffTrade, FinishItemEdit, FinishGoldEdit, vars
  <2> QED BY <2>1, ItemsFound
<1>2. ASSUME NEW c \in Chars, SelectCharacter(c) \/ StartGame(c)
      PROVE  \A x \in Items : Found(inv', row'[x], x)
  <2>1. row' = row /\ \E b \in Reloads(c) : inv' = [inv EXCEPT ![c] = b]
    BY <1>2 DEF SelectCharacter, StartGame
  <2>2. inv' = inv
    BY <1>1, <2>1, ReloadFound DEF TypeOK
  <2> QED BY <1>1, <2>1, <2>2
<1>3. ASSUME NEW c \in Chars, NEW i \in Slots, RemoveItem(c, i)
      PROVE  \A x \in Items : Found(inv', row'[x], x)
  <2> DEFINE z == inv[c][i]
  <2>1. /\ z \in Items
        /\ inv' = [inv EXCEPT ![c][i] = Empty] /\ row' = [row EXCEPT ![z] = <<>>]
    BY <1>3 DEF RemoveItem, TypeOK, Bags
  <2>2. \A d \in Chars, j \in Slots :
          inv'[d][j] = IF d = c /\ j = i THEN Empty ELSE inv[d][j]
    BY <2>1 DEF TypeOK, Bags
  <2>3. row'[z] = <<>> /\ \A x \in Items \ {z} : row'[x] = row[x]
    BY <2>1 DEF TypeOK
  <2>4. \A d \in Chars, j \in Slots : inv[d][j] = z => d = c /\ j = i
    BY <1>1, <2>1 DEF Found
  <2>5. Found(inv', row'[z], z)
    BY <2>1, <2>2, <2>3, <2>4, ItemAssumption DEF Found
  <2>6. ASSUME NEW x \in Items \ {z} PROVE Found(inv', row'[x], x)
    <3>1. \A d \in Chars, j \in Slots : inv'[d][j] = x <=> inv[d][j] = x
      BY <2>2, ItemAssumption
    <3> QED BY <1>1, <2>3, <3>1 DEF Found
  <2> QED BY <2>5, <2>6
<1>4. ASSUME NEW c \in Chars, NEW t \in Ids, CompleteTrade(c, t)
      PROVE  \A x \in Items : Found(inv', row'[x], x)
  <2>1. Distinct(t)
    BY <1>4 DEF CompleteTrade, BeginCompletion, Partners
  <2> QED BY <1>1, <1>4, <2>1, CompletionFound
<1>5. ASSUME NEW c \in Chars, NEW t \in Ids, BreakOffTrade(c, t) PROVE FALSE
  BY <1>5 DEF BreakOffTrade
<1>6. CASE UNCHANGED <<inv, row>>
  BY <1>1, <1>6
<1>7. ASSUME NEW c \in Chars, Handlers(c) PROVE \A x \in Items : Found(inv', row'[x], x)
  BY <1>2, <1>3, <1>6, <1>7 DEF Handlers, SendTradeRequest, AcceptRequest, RejectRequest,
     CancelTrade, Respawn, Logout, AddTradeItem, RemoveTradeItem, AddTradeGold, BeginEdit,
     AcceptTrade, goods
<1>8. ASSUME FinishEdit \/ UNCHANGED vars PROVE UNCHANGED <<inv, row>>
  BY <1>8 DEF FinishEdit, FinishItemEdit, FinishGoldEdit, vars, goods
<1>9. ASSUME NEW c \in Chars, NEW t \in Ids, ExpireRequest(c, t) \/ FinishAccept(c, t)
      PROVE  UNCHANGED <<inv, row>>
  BY <1>9 DEF ExpireRequest, FinishAccept, goods
<1> QED BY <1>4, <1>5, <1>6, <1>7, <1>8, <1>9 DEF Next, Continuations

\* What a completion adds to one party it takes from the other (AcceptTradeHandler).
LEMMA GoldStep ==
  TypeOK /\ Partners /\ [Next]_vars =>
    \A t \in Ids : completing'[t] /\ ~completing[t] =>
      LET x == party[t]["sender"]
          y == party[t]["receiver"]
      IN  /\ (gold'[x] + gold'[y]) % GoldMod = (gold[x] + gold[y]) % GoldMod
          /\ \A c \in Chars \ {x, y} : gold'[c] = gold[c]
<1> SUFFICES ASSUME TypeOK, Partners, [Next]_vars, NEW t \in Ids, completing'[t], ~completing[t]
             PROVE  LET x == party[t]["sender"]
                        y == party[t]["receiver"]
                    IN  /\ (gold'[x] + gold'[y]) % GoldMod = (gold[x] + gold[y]) % GoldMod
                        /\ \A c \in Chars \ {x, y} : gold'[c] = gold[c]
  OBVIOUS
<1> DEFINE x == party[t]["sender"]
           y == party[t]["receiver"]
<1>1. \E c \in Chars, u \in Ids : CompleteTrade(c, u) \/ BreakOffTrade(c, u)
  BY DEF Next, Handlers, Continuations, FinishEdit, SendTradeRequest, AcceptRequest, RejectRequest,
     CancelTrade, SelectCharacter, StartGame, Respawn, Logout, RemoveItem, AddTradeItem,
     RemoveTradeItem, AddTradeGold, BeginEdit, AcceptTrade, ExpireRequest, FinishAccept,
     FinishItemEdit, FinishGoldEdit, vars, table
<1>2. PICK c \in Chars, u \in Ids : CompleteTrade(c, u) \/ BreakOffTrade(c, u)
  BY <1>1
<1>3. u = t /\ <<c, t>> \in accepts
  BY <1>2 DEF CompleteTrade, BreakOffTrade, BeginCompletion, TypeOK
<1>4. x \in Chars /\ y \in Chars /\ x # y
  BY <1>3 DEF Partners, Distinct, TypeOK, Side
<1>5. CASE BreakOffTrade(c, t)
  BY <1>5 DEF BreakOffTrade
<1>6. CASE CompleteTrade(c, t)
  <2>1. PICK sg \in Amounts, rg \in Amounts :
          sg = offer[t]["sender"].gold /\ rg = offer[t]["receiver"].gold
    BY DEF TypeOK, Side
  <2>2. GoldDelta(t, x) = rg - sg /\ GoldDelta(t, y) = sg - rg
        /\ \A z \in Chars \ {x, y} : GoldDelta(t, z) = 0
    BY <1>4, <2>1 DEF GoldDelta
  <2>3. gold[x] \in Int /\ gold[y] \in Int /\ sg \in Int /\ rg \in Int
    BY <1>4 DEF TypeOK, Amounts
  <2>4. PICK a \in Int, b \in Int : a = gold[x] + (rg - sg) /\ b = gold[y] + (sg - rg)
    BY <2>3
  <2>5. gold'[x] = a % GoldMod /\ gold'[y] = b % GoldMod
        /\ \A z \in Chars \ {x, y} : gold'[z] = (gold[z] + 0) % GoldMod
    BY <1>4, <1>6, <2>2, <2>4 DEF CompleteTrade
  <2>6. a + b = gold[x] + gold[y]
    BY <2>4, <2>3
  <2>7. ((a % GoldMod) + (b % GoldMod)) % GoldMod = (a + b) % GoldMod
    BY RemaindersAdd, GoldAssumption
  <2>8. ASSUME NEW z \in Chars \ {x, y} PROVE gold'[z] = gold[z]
    <3>1. gold[z] \in Nat /\ gold[z] < GoldMod
      BY GoldAssumption DEF TypeOK, Amounts
    <3> QED BY <2>5, <3>1, GoldAssumption
  <2>9. (gold'[x] + gold'[y]) % GoldMod = (gold[x] + gold[y]) % GoldMod
    BY <2>5, <2>6, <2>7
  <2> QED BY <2>8, <2>9
<1> QED BY <1>2, <1>3, <1>5, <1>6

-----------------------------------------------------------------------------
(* Theorems *)

\* IInv at the start.
LEMMA InitIInv == Init => IInv
<1>1. Init => AcceptanceClears
  BY DEF Init, AcceptanceClears
<1> QED BY <1>1, InitType, InitPairing DEF IInv

\* Every step keeps IInv.
LEMMA IInvStep == IInv /\ [Next]_vars => IInv'
BY TypeStep, PairingStep, AcceptanceStep DEF IInv

\* IInv holds in every reachable state.
LEMMA Invariance == Spec => []IInv
BY InitIInv, IInvStep, PTL DEF Spec

\* At the start nobody trades, and each item has the row of its place.
LEMMA InitGoods == Init => Partners /\ ItemsUnique
<1> SUFFICES ASSUME Init PROVE Partners /\ ItemsUnique
  OBVIOUS
<1>1. Partners
  BY DEF Init, Partners, NoId
<1>2. PICK s \in Starts : inv = s.inv /\ row = [x \in Items |-> Where(s.inv, x)]
  BY DEF Init
<1>3. ASSUME NEW x \in Items PROVE Places(inv, x) = {p \in Chars \X Slots : row[x] = p}
  <2>1. \A p, q \in Places(inv, x) : p = q
    BY <1>2, StartAssumption
  <2>2. row[x] = Where(inv, x)
    BY <1>2
  <2>3. Places(inv, x) \subseteq Chars \X Slots
    BY DEF Places
  <2>4. CASE Places(inv, x) = {}
    <3>1. row[x] = <<>>
      BY <2>2, <2>4 DEF Where
    <3> QED BY <2>4, <3>1
  <2>5. CASE Places(inv, x) # {}
    <3>1. row[x] \in Places(inv, x)
      BY <2>2, <2>5 DEF Where
    <3> HIDE DEF Places
    <3>2. Places(inv, x) = {row[x]}
      BY <2>1, <3>1
    <3> QED BY <2>3, <3>2
  <2> QED BY <2>4, <2>5
<1> QED BY <1>1, <1>3 DEF ItemsUnique

\* Partners and ItemsUnique hold in every reachable state.
LEMMA GoodsInvariance == Spec => [](Partners /\ ItemsUnique)
<1>1. IInv /\ Partners /\ ItemsUnique /\ [Next]_vars => Partners' /\ ItemsUnique'
  BY PartnersStep, ItemsStep DEF IInv
<1> QED BY InitGoods, <1>1, Invariance, PTL DEF Spec

\* Every variable has its type in every state.
THEOREM Typing == Spec => []TypeOK
<1>1. IInv => TypeOK
  BY DEF IInv
<1> QED BY <1>1, Invariance, PTL

\* As long as no cancelled trade is completed, both parties of a trade are in it.
THEOREM TradesPair == Spec => []Pairing
<1>1. IInv => Pairing
  BY DEF IInv
<1> QED BY <1>1, Invariance, PTL

\* An acceptance given with no edit in flight forbids edits in flight.
THEOREM AcceptancesClear == Spec => []AcceptanceClears
<1>1. IInv => AcceptanceClears
  BY DEF IInv
<1> QED BY <1>1, Invariance, PTL

\* What was accepted with no edit in flight is what is exchanged.
THEOREM AcceptedOffersStay == Spec => OffersFrozen
<1>1. IInv /\ [Next]_vars =>
        [\A t \in Ids : offer'[t] # offer[t] => \A s \in Side : accepted[t][s] => raced[t][s]]_vars
  BY FrozenStep DEF IInv
<1> QED BY <1>1, Invariance, PTL DEF Spec, OffersFrozen

\* Nobody comes into goods but by the one completion of a trade both accept.
THEOREM ExchangesAreAgreed == Spec => ExchangeIsAgreed
<1>1. IInv /\ [Next]_vars => [\A c \in Chars : Gains(c) => Exchanges(c)]_vars
  BY ExchangeStep DEF IInv
<1> QED BY <1>1, Invariance, PTL DEF Spec, ExchangeIsAgreed

\* No item is doubled or lost in memory against its row, unless a bag was full.
THEOREM ItemsAreUnique == Spec => []ItemsUnique
BY GoodsInvariance, PTL

\* A completion changes no gold but its parties', and not their sum.
THEOREM GoldIsConserved == Spec => GoldConserved
<1>1. IInv /\ Partners /\ [Next]_vars =>
        [\A t \in Ids : completing'[t] /\ ~completing[t] =>
           LET x == party[t]["sender"]
               y == party[t]["receiver"]
           IN  /\ (gold'[x] + gold'[y]) % GoldMod = (gold[x] + gold[y]) % GoldMod
               /\ \A c \in Chars \ {x, y} : gold'[c] = gold[c]]_vars
  BY GoldStep DEF IInv
<1> QED BY <1>1, Invariance, GoodsInvariance, PTL DEF Spec, GoldConserved

=============================================================================
