----------------------------- MODULE Belongings -----------------------------
(***************************************************************************)
(* What a character carries, through everything of modules Use, Pets,       *)
(* Workshop and Npc: does what is saved stay what is held, are improved     *)
(* items whole, do effects keep out of each other's way, and does what is   *)
(* in use run out?                                                          *)
(***************************************************************************)
EXTENDS Npc

CONSTANTS
  Stocks  \* what there may be to begin with: slot, gold, what the shop around offers, the
          \* NPCs around, and the careers and pets to choose from

ASSUME StocksAssumption ==
  \A stock \in Stocks :
    /\ stock.slot \in [Slots -> {item \in SlotRecs :
                                /\ item.codes = 1..item.plus
                                /\ item.socks \subseteq 1..item.sockets
                                /\ item.kind = 0 => item = NewSlot
                                /\ item.kind # 0 => item.id /\ ~item.on}]
    /\ stock.gold \in 0..MaxGold /\ stock.shop \subseteq Kinds /\ stock.npcs \subseteq Buttons
    /\ stock.career \subseteq {x \in Careers : x.step < 4 /\ x.class \notin {"dark", "god"}}
    /\ stock.pet \subseteq {p \in PetSlots : ~p.out /\ ~p.casting /\ ~p.moving}

vars == <<c, usage, shop, npcs, career>>

Init ==
  /\ \E stock \in Stocks :
       /\ c = [slot |-> stock.slot,
               row |-> [s \in Slots |-> IF stock.slot[s].kind = 0 THEN None ELSE stock.slot[s]],
               gold |-> stock.gold, buffs |-> {}, marks |-> {}, jam |-> FALSE,
               held |-> FALSE, stuck |-> FALSE, ticks |-> TRUE, morphed |-> FALSE,
               behind |-> {}]
       /\ shop = stock.shop
       /\ npcs = stock.npcs
       /\ career \in stock.career
       /\ pet \in stock.pet
  /\ UseInit

Next ==
  \/ UseNext /\ UNCHANGED <<shop, npcs, career>>
  \/ \E s \in Bag : UseTransform(s) /\ UNCHANGED shop
  \/ using = {} /\ WorkshopNext /\ UNCHANGED <<usage, shop, npcs, career>>
  \/ using = {} /\ NpcNext /\ UNCHANGED shop
  \/ /\ ComeBack
     /\ career' = [career EXCEPT !.lot = FALSE]
     /\ UNCHANGED <<shop, npcs>>

Spec == Init /\ [][Next]_vars

\* A use that began ends; and the timer of Handler, set again after every second with the
\* character in the game, brings a minute if one may pass again and again: it does not
\* wait for a use to end, as a bound of the model makes it do.  (WF of EndTimedUse and SF
\* of Tick, in formulas that say when they are enabled and are easy to evaluate.)
FairSpec ==
  /\ Spec
  /\ \A s \in Bag : WF_using(s \in using /\ using' = using \ {s})
  /\ []<>(c.ticks /\ MayPass) => []<><<epoch' # epoch>>_epoch

-----------------------------------------------------------------------------
TypeOK == c \in Characters /\ UseTypeOK /\ shop \subseteq Kinds /\ NpcTypeOK

\* What is held is what would be loaded again: every handler saves each slot it changes,
\* but for those that are known to leave one unsaved (behind).
RowsFollow ==
  \A s \in Slots \ c.behind :
    IF c.slot[s].kind = 0 THEN c.row[s] = None ELSE c.slot[s].id /\ c.row[s] = c.slot[s]

\* An item of plus n has a code in each of its first n places and in no other, whatever
\* order it was strengthened, lowered, extracted from and watered in; only sockets that
\* are open hold codes.
GearIsWhole ==
  \A s \in Slots :
    /\ c.slot[s].codes = 1..c.slot[s].plus
    /\ c.slot[s].socks \subseteq 1..c.slot[s].sockets

SpiritsApart == ~({"fire", "water"} \subseteq c.buffs)

OneInUse ==
  ~met => \A s, t \in Slots :
    c.slot[s].on /\ c.slot[t].on /\ KindOf(c, s) = KindOf(c, t) =>
      s = t \/ KindOf(c, s) \in Exempt

FormWorn == c.morphed => \E s \in Slots : TypeAt(c, s) = "form" /\ c.slot[s].on

BooksOnce == ~forgot => \A i, j \in Places : books[i] = books[j] /\ books[i] # 0 => i = j

\* The two spirits never work together.  Of a kind that may be in use once, one is,
\* unless the marks were no guard: an activation, an eyeball's timer or what is worn and
\* ran out met a use that had begun.  Who looks like a form wears one.  A book is learned
\* once, until a scroll takes books out of their places.  Who is dark is above level 200,
\* and above it is nobody else until a scroll takes a class back.  A pet that is out has one timer that
\* calls it, and does not cast or walk for ever.
EffectsFit == SpiritsApart /\ OneInUse /\ FormWorn /\ BooksOnce /\ CareerFits /\ PetFits

\* What is in use does not stay in use for ever, unless the timer that ages it has come
\* to wait for a mutex nobody unlocks.
RunsOut == \A s \in Slots : c.slot[s].on ~> (~c.slot[s].on \/ ~c.ticks)
=============================================================================
