-------------------------------- MODULE Pets --------------------------------
(***************************************************************************)
(* The pet of a character: TogglePet and PetHandler of                     *)
(* database/characters.go, and what a pet does in database/inventory.go.   *)
(*                                                                         *)
(* PetHandler sets a timer of a second that calls it again ("beat"); each  *)
(* walk is a chain of timers of its own, which ends when another walk has  *)
(* taken the MovementToken; a skill has a timer too.  How far owner, mob   *)
(* and foe are is chosen anew at every beat, since all of them move.       *)
(* Blows against mobs are those of module Mobs; experience, CHI, loyalty   *)
(* and fullness are left out.                                              *)
(***************************************************************************)
EXTENDS Goods

VARIABLE pet

MaxTimers == 2  \* bound: beats, and skills, at a time

PetSlots ==
  [owned : BOOLEAN,                    \* there is one in the slot for pets
   combat : BOOLEAN,                   \* Pets[ItemID].Combat
   aid : BOOLEAN,                      \* AidMode with food for it
   out : BOOLEAN,                      \* IsOnline
   hp : 0..2,                          \* none, little, enough
   target : {"none", "mob", "foe"},
   moving : BOOLEAN, casting : BOOLEAN,
   walking : BOOLEAN,                  \* the walk that has the MovementToken goes on
   spells : 0..MaxTimers,              \* timers of its skills
   cb : BOOLEAN,                       \* PetHandlerCB is set
   beats : 0..MaxTimers,               \* timers that will call PetHandler
   hasty : BOOLEAN,                    \* it came out before the last beat had ended
   starved : BOOLEAN,                  \* PetHandler ended for lack of food
   stalled : BOOLEAN]                  \* told to move without a walk

InSlot(combat, aid, hp) ==
  [owned |-> TRUE, combat |-> combat, aid |-> aid, out |-> FALSE, hp |-> hp,
   target |-> "none", moving |-> FALSE, casting |-> FALSE, walking |-> FALSE, spells |-> 0,
   cb |-> FALSE, beats |-> 0, hasty |-> FALSE, starved |-> FALSE, stalled |-> FALSE]
NoPet == [InSlot(FALSE, FALSE, 0) EXCEPT !.owned = FALSE]

\* Loaded again with its owner; the timers of the one before find PetHandlerCB unset.
PetAgain(p) == IF p.owned THEN InSlot(p.combat, p.aid, p.hp) ELSE p

-----------------------------------------------------------------------------
\* ChangeMap and the charm of return: PetHandlerCB stays, the beat finds the pet gone.
Dismissed(p) == [p EXCEPT !.out = FALSE]

Stopped(p) == [p EXCEPT !.moving = FALSE, !.stalled = FALSE]

ToggledMutant(p) ==
  IF p.out
  THEN Stopped([p EXCEPT !.out = FALSE, !.target = "none", !.casting = FALSE])
  ELSE [p EXCEPT !.out = TRUE, !.cb = TRUE, !.beats = @ + 1]

Toggled(p) ==
  IF p.out
  THEN Stopped([p EXCEPT !.out = FALSE, !.target = "none", !.casting = FALSE, !.cb = FALSE])
  ELSE [p EXCEPT !.out = TRUE, !.cb = TRUE, !.beats = @ + 1,
                 !.hasty = p.beats > 0, !.starved = FALSE]

-----------------------------------------------------------------------------
(* A beat *)

\* MovementHandler with a new token: the walk there was ends.
Walks(p) == [p EXCEPT !.moving = TRUE, !.walking = TRUE, !.stalled = FALSE]

Casts(p) == [p EXCEPT !.casting = TRUE, !.spells = @ + 1]

\* A blow or none, a skill, or nearer to the target.
Fights(p) == {p, Walks(p)} \cup {Casts(q) : q \in {q \in {p} : q.spells < MaxTimers}}

\* From BEGIN on without a target: to the owner, or at a mob that FindTargetMobID sees.
Seeks(p, owner) ==
  LET alone == [p EXCEPT !.target = "none"]
  IN IF owner = "far" THEN {Walks(alone)}
     ELSE {IF owner = "off" THEN Walks(alone) ELSE alone} \cup Fights([p EXCEPT !.target = "mob"])

\* From BEGIN on.  A mob may be gone, or dead and another be sought; a foe may be gone, or
\* be none any more: then the pet is told to move, and does if its owner is not by.
Acts(p, owner, dueling) ==
  LET alone == [p EXCEPT !.target = "none"]
  IN CASE owner = "far" \/ p.target = "none" -> Seeks(p, owner)
       [] owner # "far" /\ p.target = "mob" -> {alone} \cup Fights(p) \cup Seeks(p, owner)
       [] owner # "far" /\ p.target = "foe" ->
            {p} \cup IF dueling THEN Fights(p) \cup Seeks(p, owner)
                     ELSE Seeks([p EXCEPT !.moving = TRUE, !.stalled = TRUE], owner)

\* What comes before: a pet that fights looks for a target and stands for it; HP recovers.
Looks(p, dueling) ==
  LET targets == IF ~p.combat \/ p.target # "none" THEN {p.target}
                 ELSE IF dueling THEN {"foe"} ELSE {"none", "mob"}
  IN {IF t = "none" THEN p ELSE Stopped([p EXCEPT !.target = t]) : t \in targets}
Heals(p) == {[p EXCEPT !.hp = h] : h \in {p.hp, Min({p.hp + 1, 2})}}

Lives(p) ==
  UNION {UNION {IF ~q.combat THEN {[q EXCEPT !.target = "none"]}
                ELSE IF q.moving \/ q.casting THEN {q}
                ELSE UNION {Acts(q, owner, dueling) : owner \in {"by", "off", "far"}} :
                  q \in UNION {Heals(l) : l \in Looks(p, dueling)}} :
           dueling \in BOOLEAN}

\* Food of the aid's settings; without any PetHandler returns and sets no timer.
Food == {s \in Bag : TypeAt(c, s) = "petpotion"}

PetHandler ==
  /\ pet.beats > 0
  /\ LET ended == [pet EXCEPT !.beats = @ - 1]
         awake == pet.cb /\ pet.owned /\ pet.out
         hungry == awake /\ pet.hp > 0 /\ pet.aid
         fed == DecrementItem(c, Min(Food), 1)
     IN \/ ~awake /\ pet' = ended /\ UNCHANGED c
        \/ awake /\ pet.hp = 0 /\ pet' = Dismissed(ended) /\ UNCHANGED c
        \/ hungry /\ Food = {} /\ pet' = [ended EXCEPT !.starved = TRUE] /\ UNCHANGED c
        \/ /\ hungry /\ Food # {} /\ pet.hp = 1
           /\ Runs(fed)
           /\ IF fed.stuck THEN pet' = [ended EXCEPT !.starved = TRUE]
              ELSE pet' \in Lives([pet EXCEPT !.hp = 2])
        \/ /\ awake /\ pet.hp > 0 /\ (pet.aid => Food # {} /\ pet.hp = 2)
           /\ pet' \in Lives(pet) /\ UNCHANGED c

-----------------------------------------------------------------------------
(* Timers, packets, and mobs *)

\* The walk comes to its end.
Arrive ==
  /\ pet.walking
  /\ pet' = Stopped([pet EXCEPT !.walking = FALSE])
  /\ UNCHANGED c

\* The timer of a skill, whether it is the last one or not.
SpellEnds ==
  /\ pet.spells > 0
  /\ pet' = [pet EXCEPT !.spells = @ - 1, !.casting = FALSE]
  /\ UNCHANGED c

TogglePet ==
  /\ pet.owned /\ (pet.out \/ pet.beats < MaxTimers)
  /\ pet' = Toggled(pet)
  /\ UNCHANGED c

DealDamageToPet ==
  /\ pet.out /\ pet.hp > 0
  /\ pet' = [pet EXCEPT !.hp = @ - 1]
  /\ UNCHANGED c

PetNext == PetHandler \/ Arrive \/ SpellEnds \/ TogglePet \/ DealDamageToPet

-----------------------------------------------------------------------------
\* A pet that is out is called every second, and once; it does not cast without a timer
\* that will end that, nor move without a walk.
PetFits ==
  /\ pet.out /\ ~pet.hasty /\ ~pet.starved => pet.beats = 1
  /\ pet.casting => pet.spells > 0
  /\ pet.moving => pet.walking \/ pet.stalled
=============================================================================
