-------------------------------- MODULE Npc --------------------------------
(***************************************************************************)
(* The answers of NPCs that give, take and change something: the buttons   *)
(* of PressButtonHandler (npc/open.go), the classes they lead to, the lots *)
(* of player/actions.go, and what makes them possible again: experience,   *)
(* days, and lots earned.                                                  *)
(*                                                                         *)
(* Menus, shops and plain teleports change nothing here and are left out.  *)
(* Levels are kept as the steps the buttons tell apart.  A gift for which  *)
(* there is no room ends a handler, by a return or a panic: what was taken *)
(* is gone, and the gifts that would follow are not given.                 *)
(***************************************************************************)
EXTENDS Use, Workshop, SequencesExt

CONSTANTS
  Books,      \* Books[class]: the sequence of books that come with a class
  Tribute,    \* Tribute[rite][k]: how many of k the rite asks for
  Exchanges,  \* [takes |-> kinds, gives |-> the sequences of kinds there may be]
  Relics,     \* [takes |-> two kinds, gives |-> what some character types get]
  Gifts,      \* Gifts[button]: the sequence of kinds it gives
  LotPrice    \* gold for a lot that is paid: 150000

Givers == {"reborn", "checkin", "welcome", "tickets", "demon", "lot"}

\* What is handed in, and tickets, are not switched on and off either.
ASSUME NpcAssumption ==
  /\ Books \in [{"first", "second", "divine", "god"} -> Seq(Kinds)]
  /\ Gifts \in [Givers -> Seq(Kinds)]
  /\ \A rite \in {"divine", "dark"} : DOMAIN Tribute[rite] \subseteq Kinds
  /\ \A x \in Exchanges : x.takes \subseteq Kinds /\ x.gives \subseteq Seq(Kinds)
  /\ Relics.takes \subseteq Kinds /\ Relics.gives \in Seq(Kinds)
  /\ \A x \in Exchanges : \A k \in x.takes : Type[k] \notin Switched
  /\ \A i \in DOMAIN Gifts["tickets"] : Type[Gifts["tickets"][i]] \notin Switched

VARIABLES
  npcs,    \* the buttons of the NPCs around
  career   \* the Character beyond what it carries

Rites   == {"divine", "reborn", "dark"}
Buttons == Rites \cup {"job", "checkin", "stones", "relics", "exchange", "blessing",
                       "welcome", "tickets", "dungeon", "demon", "lot"}

\* 0: below level 100; 1: level 100 with all its experience; 2: to level 200; 3: level 200
\* with all its experience; 4: above.
Steps == 0..4
Careers ==
  [class : {"none", "first", "second", "divine", "dark", "god"},
   step : Steps,
   divine : BOOLEAN,                                    \* Type, 60 to 69
   reborn : BOOLEAN,                                    \* RebornLevel
   checkin : {"never", "undated", "today", "earlier"},  \* row of daily_checkin, and its date
   tickets : BOOLEAN,                                   \* YingYangTicketsLeft
   lot : BOOLEAN]                                       \* HasLot

\* Items are given one after another, as far as there is room.
Given(b, items) ==
  LET Put(r, item) == IF r.full \/ Target(r.b, item) = {} THEN [r EXCEPT !.full = TRUE]
                      ELSE [r EXCEPT !.b = AddItem(@, item)]
  IN FoldLeft(Put, [b |-> b, full |-> FALSE], items).b
GivenKinds(b, ks) == Given(b, [i \in DOMAIN ks |-> NewItem(ks[i], 1)])

NoBooks == [i \in Places |-> 0]
SameUse == UNCHANGED <<using, met, eyes, detect, arena, forgot, epoch, pet>>

-----------------------------------------------------------------------------
(* Classes *)

\* A class is set first, then come its books.
Promoted(b, class) == Runs(GivenKinds(b, Books[class])) /\ career' = [career EXCEPT !.class = class]

FirstJob ==
  /\ career.class = "none"
  /\ Promoted(c, "first") /\ UNCHANGED usage

SecondJob ==
  /\ career.class = "first"
  /\ Promoted(c, "second") /\ UNCHANGED usage

\* The classes of the divine for who has none, at any level.
ChooseDivine ==
  /\ career.class = "none"
  /\ Promoted(c, "divine") /\ UNCHANGED usage

DarknessJob ==
  /\ career.class = "dark"
  /\ Promoted(c, "god") /\ UNCHANGED usage

\* What a rite asks for; the rows of it are deleted and the slots keep it.
Offered(rite) == \A k \in DOMAIN Tribute[rite] :
  Has(c, k) # {} /\ c.slot[Min(Has(c, k))].qty >= Tribute[rite][k]
Burnt(rite) ==
  FoldSet(LAMBDA k, b : DeleteRow(b, Min(Has(c, k))), c, DOMAIN Tribute[rite])

\* The way to the divine: it ends the effect of a rebirth, takes the rows of what it asks
\* for, and what would come then is commented out in the code.
BecomeDivine ==
  /\ career.step = 1 /\ career.class # "none"
  /\ LET lived(b) == [b EXCEPT !.buffs = @ \ {"reborn"}]
     IN Runs(lived(IF Offered("divine") THEN Burnt("divine") ELSE c))
  /\ UNCHANGED <<usage, career>>

\* Once, back to level 1 without a class.
MayBeReborn == career.step = 1 /\ ~career.reborn /\ career.class # "none"

BeReborn ==
  /\ MayBeReborn
  /\ Runs(GivenKinds([c EXCEPT !.buffs = @ \cup {"reborn"}], Gifts["reborn"]))
  /\ career' = [career EXCEPT !.step = 0, !.class = "none", !.reborn = TRUE]
  /\ books' = NoBooks /\ SameUse

\* GoDarkness: the books leave their places one by one.
GoDarkness ==
  /\ books' = NoBooks /\ SameUse
  /\ career' = [career EXCEPT !.step = 4, !.class = "dark", !.divine = FALSE]

BecomeDark ==
  /\ career.step = 3 /\ Offered("dark")
  /\ Runs(Burnt("dark"))
  /\ GoDarkness

\* The scrolls of UseConsumable that undo a career: the level stays, the class is gone, and
\* with it all books, or those of the divine above level 100.  Here too the row of the
\* whole stack is deleted before one is taken away.
UseTransform(s) ==
  /\ Usable(s) /\ TypeAt(c, s) = "transform"
  /\ \E all \in BOOLEAN :
       /\ all \/ career.step >= 2
       /\ books' = [i \in Places |->
                      IF all \/ (books[i] # 0 /\ Type[books[i]] = "divine") THEN 0
                      ELSE books[i]]
  /\ forgot' = TRUE /\ career' = [career EXCEPT !.class = "none"]
  /\ Runs(DecrementItem(DeleteRow(c, s), s, 1))
  /\ UNCHANGED <<using, met, eyes, detect, arena, epoch, pet, npcs>>

\* AddExp, up to where the character type stops: at level 100, or 200 for the divine.
Grow ==
  /\ npcs \cap Rites # {}
  /\ \/ career.step = 0 /\ ~career.divine /\ career' = [career EXCEPT !.step = 1]
     \/ career.step \in {0, 1} /\ career.divine /\ career' = [career EXCEPT !.step = 2]
     \/ career.step = 2 /\ career' = [career EXCEPT !.step = 3]
  /\ UNCHANGED <<c, usage>>

\* A game master's "type".  Bound: up to level 100, where rites matter.
MakeDivine ==
  /\ npcs \cap Rites # {} /\ career.step \in {0, 1}
  /\ career' = [career EXCEPT !.divine = TRUE]
  /\ UNCHANGED <<c, usage>>

-----------------------------------------------------------------------------
(* Gifts and exchanges *)

\* DailyCheck: the first time makes a row without a date; one that has a date counts when
\* that is not of today.
DailyCheck ==
  /\ career.checkin \in {"never", "earlier"}
  /\ career' = [career EXCEPT !.checkin = IF @ = "never" THEN "undated" ELSE "today"]

\* The gift of the day goes to a place that is free, even if others of its kind are there.
CheckIn ==
  /\ FindFreeSlot(c) # {}
  /\ DailyCheck
  /\ \E k \in {Gifts["checkin"][i] : i \in DOMAIN Gifts["checkin"]}, n \in {1, MaxQty} :
       Runs(AddItemAt(c, Min(FindFreeSlot(c)), NewItem(k, n)))
  /\ UNCHANGED usage

\* ResetDailyCheckIn dates every row two days back; RefreshYingYangKeys.  Bound: where days
\* matter.
NewDay ==
  /\ npcs \cap {"checkin", "tickets"} # {}
  /\ career' = [career EXCEPT !.checkin = IF @ = "never" THEN @ ELSE "earlier", !.tickets = TRUE]
  /\ UNCHANGED <<c, usage>>

\* Two stones for one of the next plus, when the stack is even: the stack of the better
\* ones first.
DoubleStones(k, p) ==
  /\ FindItemInInventoryByPlus(c, k, p) # {}
  /\ LET s == Min(FindItemInInventoryByPlus(c, k, p))
         better == [Upgraded(k, p + 1) EXCEPT !.qty = c.slot[s].qty \div 2]
     IN /\ c.slot[s].qty % 2 = 0 /\ Target(c, better) # {}
        /\ Runs(DecrementItem(AddItem(c, better), s, c.slot[s].qty))
  /\ UNCHANGED <<usage, career>>

\* Both stacks go as a whole; some character types get nothing for them.
MakeRelic ==
  /\ \A k \in Relics.takes : Has(c, k) # {}
  /\ LET gone == Gone(c, {Min(Has(c, k)) : k \in Relics.takes})
     IN Runs(gone) \/ Runs(GivenKinds(gone, Relics.gives))
  /\ UNCHANGED <<usage, career>>

\* One of each, for one of the sets there are.
HandIn(x) == Spent(c, {Min(Has(c, k)) : k \in x.takes})
Exchange(x) ==
  /\ \A k \in x.takes : Has(c, k) # {}
  /\ \E gives \in x.gives : Runs(GivenKinds(HandIn(x), gives))
  /\ UNCHANGED <<usage, career>>

Bless ==
  /\ "blessing" \notin c.buffs
  /\ Runs([c EXCEPT !.buffs = @ \cup {"blessing"}])
  /\ UNCHANGED <<usage, career>>

\* Once while its buff lasts.
Welcome ==
  /\ "welcome" \notin c.buffs
  /\ Runs(GivenKinds([c EXCEPT !.buffs = @ \cup {"welcome"}], Gifts["welcome"]))
  /\ UNCHANGED <<usage, career>>

GetTickets ==
  /\ career.tickets
  /\ Runs(GivenKinds(c, Gifts["tickets"]))
  /\ career' = [career EXCEPT !.tickets = FALSE]
  /\ UNCHANGED usage

\* The leader of a party enters the dungeon; the tickets of the others are left out.
EnterDungeon ==
  /\ \E k \in {Gifts["tickets"][i] : i \in DOMAIN Gifts["tickets"]} :
       Has(c, k) # {} /\ Runs(DecrementItem(c, Min(Has(c, k)), 1))
  /\ UNCHANGED <<usage, career>>

\* The sword that opens the way is taken whole.
EnterByDemon ==
  /\ career.step = 3
  /\ \E k \in {Gifts["demon"][i] : i \in DOMAIN Gifts["demon"]} :
       Has(c, k) # {} /\ Runs(RemoveItem(c, Min(Has(c, k))))
  /\ UNCHANGED <<usage, career>>

\* OpenLotHandler: the lot is gone before there is an item, or cash, or no room.
OpenLot ==
  /\ career.lot /\ career' = [career EXCEPT !.lot = FALSE]
  /\ \E price \in {0} \cup {p \in {LotPrice} : p <= c.gold} :
       \/ Runs(LootGold(c, -price))
       \/ \E k \in {Gifts["lot"][i] : i \in DOMAIN Gifts["lot"]} :
            Runs(GivenKinds(LootGold(c, -price), <<k>>))
  /\ UNCHANGED usage

\* Fifty mobs.
EarnLot ==
  /\ "lot" \in npcs /\ ~career.lot
  /\ career' = [career EXCEPT !.lot = TRUE]
  /\ UNCHANGED <<c, usage>>

-----------------------------------------------------------------------------
Pressed(button) == button \in npcs

NpcNext ==
  /\ \/ Pressed("job") /\ (FirstJob \/ SecondJob \/ ChooseDivine \/ DarknessJob)
     \/ Pressed("divine") /\ BecomeDivine
     \/ Pressed("reborn") /\ BeReborn
     \/ Pressed("dark") /\ BecomeDark
     \/ Pressed("checkin") /\ CheckIn
     \/ Pressed("stones") /\ \E k \in ByPlus, p \in 1..(MaxPlus - 1) : DoubleStones(k, p)
     \/ Pressed("relics") /\ MakeRelic
     \/ Pressed("exchange") /\ \E x \in Exchanges : Exchange(x)
     \/ Pressed("blessing") /\ Bless
     \/ Pressed("welcome") /\ Welcome
     \/ Pressed("tickets") /\ GetTickets
     \/ Pressed("dungeon") /\ EnterDungeon
     \/ Pressed("demon") /\ EnterByDemon
     \/ Pressed("lot") /\ OpenLot
     \/ Grow \/ MakeDivine \/ NewDay \/ EarnLot
  /\ UNCHANGED npcs

NpcTypeOK == npcs \subseteq Buttons /\ career \in Careers

\* Only above level 200 is somebody dark, and above it is nobody else until a scroll takes
\* the class back.
CareerFits ==
  /\ career.class \in {"dark", "god"} => career.step = 4
  /\ ~forgot => (career.step = 4 => career.class \in {"dark", "god"})
=============================================================================
