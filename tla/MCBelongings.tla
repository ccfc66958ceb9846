---------------------------- MODULE MCBelongings ----------------------------
(* An instance of Belongings for TLC: kinds of every type, a few of them at a time. *)
EXTENDS Belongings, TLC

Types ==
  <<"plain", "charm", "incense", "petpotion", "filler", "bag", "fire", "water",  \* 1 - 8
    "fortune", "gift", "tonic", "transform", "card", "faction",                  \* 9 - 14
    "book", "divine", "passive", "drift",                                        \* 15 - 18
    "form", "timed", "eyeball", "firework",                                      \* 19 - 22
    "gear", "htgear", "stone", "luck", "bagua", "scale",                         \* 23 - 28
    "recipe", "part", "part", "holy", "enchant", "fusion", "init", "mile",      \* 29 - 36
    "chest", "transfer", "pair", "name">>                                         \* 37 - 40

AllKinds == DOMAIN Types
\* [k \in AllKinds |-> other] but for the kinds of f.
Table(f, other) == f @@ [k \in AllKinds |-> other]

Stacks1    == {1, 13, 25}
NoLimit    == {21}
BoxCost    == Table(9 :> 1 @@ 10 :> 1, 0)
InBoxes    == Table(7 :> {1} @@ 9 :> {23, 25} @@ 10 :> {1, 23}, {})
Keys       == Table(9 :> 1, 0)
Fees       == Table(1 :> 2 @@ 2 :> 1, 1)
Coins      == Table(2 :> {1}, {})
Worth      == Table(1 :> 1 @@ 23 :> 1, 1)
Materials  == Table(29 :> {1} @@ 30 :> {1, 31} @@ 33 :> {1}, {})
Results    == Table(23 :> 25 @@ 24 :> 25, 23)
MeltsInto  == Table(23 :> {1, 25}, {})
Breaking   == {30}
Breakable  == {31}

Of(items) == items @@ [s \in Slots |-> NewSlot]
Some(k, n) == [NewItem(k, n) EXCEPT !.id = TRUE]
Plus(k, p) == [Upgraded(k, p) EXCEPT !.id = TRUE]
Pairs      == Table(23 :> 24, 0)
Masters    == Table(23 :> 24 @@ 24 :> 23, 0)
Keeping    == {24}

\* Classes, rites and gifts: books of class are things that stack, or do not.
ClassBooks == [first |-> <<15>>, second |-> <<31>>, divine |-> <<31, 30>>,
               god |-> <<30, 31>>]
Tributes   == [divine |-> 1 :> 2 @@ 2 :> 1, dark |-> 1 :> 1 @@ 2 :> 1]
Trades     == {[takes |-> {2}, gives |-> {<<1>>, <<5, 5, 5>>}],
               [takes |-> {1, 2}, gives |-> {<<23>>}]}
RelicTrade == [takes |-> {1, 2}, gives |-> <<23>>]
Presents   == [reborn |-> <<2>>, checkin |-> <<1, 30>>,
               welcome |-> <<7>>, tickets |-> <<31>>, demon |-> <<1>>, lot |-> <<1, 29>>]

Starter == [class |-> "none", step |-> 0, divine |-> FALSE, reborn |-> FALSE, checkin |-> "never",
            tickets |-> FALSE, lot |-> FALSE]
Stock(items, money, offer) ==
  [slot |-> Of(items), gold |-> money, shop |-> offer, pet |-> {NoPet},
   npcs |-> {}, career |-> {Starter}]
WithNpcs(stock, buttons, careers) == [stock EXCEPT !.npcs = buttons, !.career = careers]
WithPet(stock, p) == [stock EXCEPT !.pet = {p}]

SomeStocks ==
  {Stock(1 :> Some(1, 2) @@ 2 :> Some(2, 1) @@ 3 :> Some(5, 2), 3, {1, 2}),   \* shops
   WithPet(Stock(1 :> Some(3, 2) @@ 3 :> Some(2, 1), 0, {}), InSlot(FALSE, FALSE, 1)),
   WithPet(Stock(1 :> Some(4, 1), 0, {}), InSlot(TRUE, TRUE, 2)),
   Stock(1 :> Some(6, 1) @@ 2 :> Some(7, 1) @@ 3 :> Some(8, 1), 0, {}),       \* buffs
   Stock(1 :> Some(9, 2) @@ 2 :> Some(1, 2) @@ 3 :> Some(10, 1), 2, {}),      \* boxes
   Stock(1 :> Some(11, 2) @@ 2 :> Some(13, 1) @@ 3 :> Some(14, 1) @@ 4 :> Some(22, 1), 0, {}),
   WithNpcs(Stock(1 :> Some(15, 2) @@ 2 :> Some(16, 2) @@ 3 :> Some(12, 2), 0, {}), {"job"},
     {Starter, [Starter EXCEPT !.class = "divine", !.step = 2, !.divine = TRUE]}),  \* books
   Stock(1 :> Some(17, 2) @@ 2 :> Some(18, 2), 0, {}),
   Stock(1 :> Some(20, 2) @@ 2 :> Some(20, 1) @@ 3 :> Some(19, 2), 0, {}),    \* in use
   Stock(1 :> Some(21, 2) @@ 2 :> Some(21, 1) @@ 0 :> Some(20, 1), 0, {}),
   Stock(1 :> Some(20, 2) @@ 2 :> Some(20, 2) @@ 0 :> Some(20, 1), 0, {}),    \* met
   Stock(1 :> Some(19, 2) @@ 2 :> Some(19, 1), 0, {}),
   Stock(1 :> Plus(23, 1) @@ 2 :> Plus(25, 1) @@ 3 :> Some(25, 2) @@ 4 :> Some(27, 1), 9, {}),
   Stock(1 :> Plus(24, 2) @@ 2 :> Plus(25, 1) @@ 3 :> Some(28, 1) @@ 4 :> Some(26, 1), 9, {}),
   Stock(1 :> Some(23, 1) @@ 2 :> Plus(25, 2) @@ 3 :> Some(35, 1) @@ 4 :> Some(36, 1), 3, {}),
   Stock(1 :> Plus(23, 2) @@ 2 :> Some(32, 1) @@ 3 :> Some(28, 1), 3, {}),
   Stock(1 :> Some(29, 2) @@ 2 :> Some(1, 2) @@ 3 :> Some(26, 1), 2, {}),
   Stock(1 :> Some(30, 1) @@ 2 :> Some(31, 1) @@ 4 :> Some(1, 1), 1, {}),
   Stock(1 :> Some(20, 1) @@ 2 :> Some(20, 1) @@ 3 :> Plus(23, 1), 3, {}),
   Stock(1 :> Some(7, 1) @@ 2 :> Some(8, 1) @@ 3 :> Some(9, 1) @@ 4 :> Some(1, 2), 2, {}),
   Stock(1 :> Some(33, 1) @@ 2 :> Some(34, 1) @@ 3 :> Some(1, 2), 0, {}),
   Stock(1 :> Plus(24, 2) @@ 2 :> Some(23, 1) @@ 3 :> Some(37, 2), 0, {}),    \* masters
   Stock(1 :> Plus(23, 2) @@ 2 :> Some(38, 1) @@ 3 :> Some(39, 1) @@ 4 :> Some(40, 1), 0, {}),
   WithNpcs(Stock(1 :> Some(1, 2) @@ 2 :> Some(2, 1), 0, {}),
     {"job", "divine", "dark", "demon"}, {Starter}),
   WithNpcs(Stock(1 :> Some(1, 2) @@ 2 :> Some(2, 1), 0, {}),
     {"divine", "reborn"}, {[Starter EXCEPT !.class = "second", !.step = 1]}),
   WithNpcs(Stock(1 :> Some(1, 1) @@ 2 :> Some(2, 1) @@ 3 :> Some(12, 1), 0, {}),
     {"job", "dark"}, {[Starter EXCEPT !.class = "divine", !.step = 3, !.divine = TRUE]}),
   WithNpcs(Stock(1 :> Some(1, 2) @@ 2 :> Some(2, 2) @@ 3 :> Some(31, 1), 0, {}),
     {"exchange", "relics"}, {Starter}),
   WithNpcs(Stock(1 :> Some(1, 1) @@ 2 :> Some(30, 1), 1, {}),
     {"lot"}, {Starter}),
   WithNpcs(Stock(1 :> Some(25, 2) @@ 2 :> Plus(25, 1) @@ 3 :> [Plus(25, 1) EXCEPT !.qty = 2], 0, {}),
     {"stones"}, {Starter}),
   WithNpcs(Stock(1 :> Some(1, 1) @@ 2 :> Some(31, 1), 0, {}),
     {"checkin", "dungeon"}, {Starter}),
   WithNpcs(Stock(1 :> Some(1, 1) @@ 2 :> Some(30, 1), 0, {}), {"welcome"}, {Starter}),
   WithNpcs(Stock(1 :> Some(1, 1) @@ 2 :> Some(30, 1), 0, {}),
     {"blessing", "tickets"}, {[Starter EXCEPT !.tickets = TRUE]})}
=============================================================================
