------------------------------- MODULE Drops -------------------------------
(***************************************************************************)
(* Items on the ground: database/drop.go, the creation of drops in         *)
(* AI.DropHandler (database/ai.go) and player/loot.go.                     *)
(*                                                                         *)
(* A drop gets a free id of its map in DropRegister.  Who kills the AI may *)
(* loot it.  A timer takes the drop away after thirty seconds, by map and  *)
(* id; on some maps and for some bosses a timer of 200 ms only lets        *)
(* everybody loot it.  A loot looks the drop up, puts the item into the    *)
(* bag, waits for the database and only then takes the drop out of the     *)
(* register, by the map the character is on by then.  The mutex Looting    *)
(* keeps the loots of one character apart, drMutex guards the register.    *)
(***************************************************************************)
EXTENDS Integers, FiniteSets

CONSTANTS
  Looters,      \* characters on one server
  Maps,
  FreeMaps,   \* maps whose drops everybody may loot after 200 ms (10 and 243)
  SlowMaps,   \* maps where a character loots once in two seconds (10)
  None,       \* nil, or no drop under an id
  NumIDs,     \* drop ids are 1..NumIDs (65534 in the code)
  MaxDrops    \* bound: drops in a behaviour

Ids == 1..NumIDs
Drops == 1..MaxDrops
Timers == [drop : Drops, map : Maps, id : Ids, frees : BOOLEAN]
Hands == [drop : Drops, map : Maps, id : Ids]

ASSUME DropsAssumption ==
  /\ NumIDs \in Nat /\ MaxDrops \in Nat
  /\ FreeMaps \subseteq Maps /\ SlowMaps \subseteq Maps
  /\ None \notin Drops \cup Looters \cup Hands

VARIABLES
  made,       \* drops made so far
  register,   \* register[m][i]: DropRegister[server][m][i]
  claimer,    \* claimer[d]: Drop.Claimer
  timers,     \* timers of drops that have not fired
  spinning,   \* GenerateIDForDrop finds no free id, with drMutex locked
  at,         \* at[c]: Character.Map
  hand,       \* hand[c]: what a loot waits with, holding Looting; map: where it began
  tired,      \* tired[c]: Character.Loot
  bag,        \* bag[c]: the drops whose items c has been given
  raced         \* history: drops taken while another loot had them in hand, by a character
              \* that has left the map, or under an id that a timer or a loot still names

dropVars == <<made, register, claimer, timers, spinning, at, hand, tired, bag, raced>>

DropsInit ==
  /\ made = 0
  /\ register = [m \in Maps |-> [i \in Ids |-> None]]
  /\ claimer = [d \in Drops |-> None]
  /\ timers = {}
  /\ spinning = FALSE
  /\ at \in [Looters -> Maps]
  /\ hand = [c \in Looters |-> None]
  /\ tired = [c \in Looters |-> FALSE]
  /\ bag = [c \in Looters |-> {}]
  /\ raced = {}

OnGround(d) == \E m \in Maps, i \in Ids : register[m][i] = d
InHand(c, d) == hand[c] # None /\ hand[c].drop = d

\* The ids that GenerateIDForDrop may choose; with none it tries for ever.
GenerateIDForDropMutant(m) == {0} \cup {i \in Ids : register[m][i] = None}
GenerateIDForDropUnchecked(m) == Ids
GenerateIDForDrop(m) == {i \in Ids : register[m][i] = None}

\* A timer or a loot still names id i of map m, though it is free.
Named(m, i) ==
  \/ \E t \in timers : ~t.frees /\ t.map = m /\ t.id = i
  \/ \E c \in Looters : hand[c] # None /\ hand[c].map = m /\ hand[c].id = i

\* An AI dies on map m and leaves a drop to c.
Fall(c, m, frees) ==
  LET d == made + 1 IN
  /\ ~spinning /\ d \in Drops
  /\ m \in FreeMaps => frees
  /\ made' = d
  /\ claimer' = [claimer EXCEPT ![d] = c]
  /\ \E i \in GenerateIDForDrop(m) :
       /\ register' = [register EXCEPT ![m][i] = d]
       /\ timers' = timers \cup {[drop |-> d, map |-> m, id |-> i, frees |-> frees]}
       /\ raced' = raced \cup IF Named(m, i) THEN {d} ELSE {}
  /\ UNCHANGED <<spinning, at, hand, tired, bag>>

\* The ids of a map are used up: drMutex stays locked.
FallForever(m) ==
  /\ ~spinning /\ made + 1 \in Drops
  /\ GenerateIDForDrop(m) = {}
  /\ spinning' = TRUE
  /\ UNCHANGED <<made, register, claimer, timers, at, hand, tired, bag, raced>>

RemoveDropMutant(t) ==
  /\ t \in timers /\ ~t.frees /\ ~spinning
  /\ timers' = timers \ {t}
  /\ UNCHANGED <<made, register, claimer, spinning, at, hand, tired, bag, raced>>

\* The timer of thirty seconds: whatever has the id by now.
RemoveDrop(t) ==
  /\ t \in timers /\ ~t.frees /\ ~spinning
  /\ timers' = timers \ {t}
  /\ register' = [register EXCEPT ![t.map][t.id] = None]
  /\ UNCHANGED <<made, claimer, spinning, at, hand, tired, bag, raced>>

\* The timer of 200 ms: the call of RemoveDrop is commented out.
FreeDrop(t) ==
  /\ t \in timers /\ t.frees
  /\ timers' = timers \ {t}
  /\ claimer' = [claimer EXCEPT ![t.drop] = None]
  /\ UNCHANGED <<made, register, spinning, at, hand, tired, bag, raced>>

\* LootHandler.Handle up to the database write of AddItem; without room in the bag, or
\* when the bag cannot be read, it ends there.
BeginLoot(c, i) ==
  LET d == register[at[c]][i] IN
  /\ hand[c] = None /\ ~spinning
  /\ d # None /\ claimer[d] \in {None, c}
  /\ at[c] \in SlowMaps => ~tired[c]
  /\ tired' = [tired EXCEPT ![c] = @ \/ at[c] \in SlowMaps]
  /\ \/ UNCHANGED <<hand, bag, raced>>
     \/ /\ hand' = [hand EXCEPT ![c] = [drop |-> d, map |-> at[c], id |-> i]]
        /\ bag' = [bag EXCEPT ![c] = @ \cup {d}]
        /\ raced' = raced \cup IF \E x \in Looters : InHand(x, d) THEN {d} ELSE {}
  /\ UNCHANGED <<made, register, claimer, timers, spinning, at>>

UnregisteredMutant(m, i) == register
Unregistered(m, i) == [register EXCEPT ![m][i] = None]

\* The rest of it.  A failed write clears the slot, with all that was stacked on it, and
\* AddItem reports no error.
FinishLoot(c) ==
  /\ hand[c] # None /\ ~spinning
  /\ \E lost \in {{}} \cup {l \in SUBSET bag[c] : hand[c].drop \in l} :
       bag' = [bag EXCEPT ![c] = @ \ lost]
  /\ register' = Unregistered(at[c], hand[c].id)
  /\ hand' = [hand EXCEPT ![c] = None]
  /\ UNCHANGED <<made, claimer, timers, spinning, at, tired, raced>>

\* Two seconds after a loot on a slow map.
Rest(c) ==
  /\ tired[c]
  /\ tired' = [tired EXCEPT ![c] = FALSE]
  /\ UNCHANGED <<made, register, claimer, timers, spinning, at, hand, bag, raced>>

\* Character.ChangeMap, for whatever reason; it asks nobody whether c is looting.
ChangeMap(c, m) ==
  /\ m # at[c]
  /\ at' = [at EXCEPT ![c] = m]
  /\ raced' = raced \cup IF hand[c] = None THEN {} ELSE {hand[c].drop}
  /\ UNCHANGED <<made, register, claimer, timers, spinning, hand, tired, bag>>

DropsNext ==
  \/ \E c \in Looters, m \in Maps, frees \in BOOLEAN : Fall(c, m, frees)
  \/ \E m \in Maps : FallForever(m)
  \/ \E t \in timers : RemoveDrop(t) \/ FreeDrop(t)
  \/ \E c \in Looters, i \in Ids : BeginLoot(c, i)
  \/ \E c \in Looters : FinishLoot(c) \/ Rest(c)
  \/ \E c \in Looters, m \in Maps : ChangeMap(c, m)

DropsSpec == DropsInit /\ [][DropsNext]_dropVars

\* Timers fire, and the database answers a loot.
FairDrops ==
  /\ DropsSpec
  /\ \A t \in Timers : WF_dropVars(RemoveDrop(t)) /\ WF_dropVars(FreeDrop(t))
  /\ \A c \in Looters : WF_dropVars(FinishLoot(c))

(***************************************************************************)
(* Properties                                                              *)
(***************************************************************************)
DropsTypeOK ==
  /\ made \in 0..MaxDrops
  /\ register \in [Maps -> [Ids -> Drops \cup {None}]]
  /\ claimer \in [Drops -> Looters \cup {None}]
  /\ timers \subseteq Timers
  /\ spinning \in BOOLEAN
  /\ at \in [Looters -> Maps]
  /\ hand \in [Looters -> Hands \cup {None}]
  /\ tired \in [Looters -> BOOLEAN]
  /\ bag \in [Looters -> SUBSET Drops]
  /\ raced \subseteq Drops

\* No drop is looted twice, though the item is in the bag before the drop is out of the
\* register: neither by two characters, nor again by the one that has it.
LootedOnce ==
  \A d \in Drops \ raced, c \in Looters :
    d \in bag[c] => /\ \A x \in Looters : d \in bag[x] => x = c
                    /\ OnGround(d) => InHand(c, d)

\* What a step leaves alone: a drop goes by its own timer or by the loot that has it.
Stays ==
  \A m \in Maps, i \in Ids :
    LET d == register[m][i] IN
    d # None /\ register'[m][i] # d /\ d \notin raced
      => \/ \E t \in timers : t \notin timers' /\ t.drop = d /\ ~t.frees
         \/ \E c \in Looters : /\ hand[c] # None /\ hand'[c] = None
                               /\ hand[c].drop = d \/ hand[c].map # at[c]

\* A drop leaves the ground by its own timer or by the loot that has it in hand, not by
\* what was meant for an older drop or another map.
DropsStay == [][Stays]_dropVars

Freed(d) == \A t \in timers : t.drop # d \/ t.frees

\* A drop with a timer of thirty seconds leaves the ground, whatever became of its id.
TimedDropsGo ==
  \A d \in Drops : OnGround(d) /\ ~Freed(d) ~> ~OnGround(d) \/ spinning
=============================================================================
