------------------------------- MODULE Mobs -------------------------------
(***************************************************************************)
(* The lives of a mob: Character.DealDamage and CheckMobDead               *)
(* (database/characters.go), AI.AIHandler (database/ai.go) and the         *)
(* attacks that lead to them (player/attack.go, database/inventory.go).    *)
(*                                                                         *)
(* An attack is aimed at a mob that has health and named by the attacker's *)
(* Targets, or by a timer; a packet or half a second later, perhaps in     *)
(* another life of the mob, DealDamage reads the health, without a lock,   *)
(* and writes what is left of it, tells everybody around, which takes a    *)
(* while (for an attacker that is invisible, with reads of the database),  *)
(* and then CheckMobDead looks at the health again.  Whoever finds none    *)
(* reports a death: it sets the respawn timer, pays, and at last has the   *)
(* drop made and sets a timer of one second after which the mob is not     *)
(* shown any more.  The payments write to connections and to the database  *)
(* and may take longer than the respawn timer.                             *)
(*                                                                         *)
(* The mob's own handler runs every second.  It looks at the health first, *)
(* and may give back all of it later, when its target is gone.  Where the  *)
(* mob walks and whom it attacks are not kept.                             *)
(***************************************************************************)
EXTENDS Integers, FiniteSets

CONSTANTS
  Chars,      \* characters that attack the mob, each with its pet
  Mobs,       \* what the mob may be: its kind, and whether it is AI.Once
  MaxHP,      \* NPC.MaxHp
  Damages,    \* what a blow may deal; a miss deals 0
  NumDeaths   \* bound: deaths whose goroutines and timers are not done yet

Kinds == {"plain",
          "shared",    \* 18600038: all dealers share its experience, no drop
          "temple"}    \* statues of FiveclanMobs and GuildWarMobs, and 18600078
Deaths   == 1..NumDeaths
Business == {"drop", "clear", "vanish", "respawn"}

ASSUME MobsAssumption ==
  /\ MaxHP \in Nat \ {0} /\ Damages \subseteq Nat /\ NumDeaths \in Nat
  /\ Mobs \subseteq [kind : Kinds, once : BOOLEAN]

VARIABLES
  mob,       \* which of Mobs it is
  hp,        \* AI.HP
  isDead,    \* AI.IsDead: it is not shown
  dealers,   \* the keys of AI.DamageDealers
  handling,  \* AIHandler: "waiting" for its timer, "acting", or "over"
  handler,   \* AI.Handler is not nil
  blow,      \* blow[c]: what the attack of c is at, and the health it read or the
             \* death it pays for
  due,       \* <<n, b>>: goroutines and timers of death n that have not run yet
  crashed,   \* a goroutine panicked, and with it the server
  there,     \* history: whose blows were under way when the health ran out
  reported,  \* history: the death of this life has been reported
  strikers,  \* history: who has struck in this life
  silent,    \* history: a blow that left no health could not be told to anybody
  odd,       \* history: something odd has happened, see below
  kept       \* history: a death was paid and the list of dealers was not cleared since

life == <<mob, hp, isDead, dealers>>
hist == <<there, reported, strikers, silent>>   \* of this life
past == <<odd, kept>>
vars == <<life, handling, handler, blow, due, crashed, hist, past>>

Blows == [at : {"none", "aimed", "sent", "struck"}, of : {0}]
           \cup [at : {"hitting"}, of : 0..MaxHP] \cup [at : {"paying"}, of : Deaths]

Init ==
  /\ mob \in Mobs
  /\ hp = MaxHP /\ isDead = FALSE
  /\ dealers = {}
  /\ handling = "waiting" /\ handler = TRUE
  /\ blow = [c \in Chars |-> [at |-> "none", of |-> 0]]
  /\ due = {}
  /\ crashed = FALSE
  /\ there = {} /\ reported = FALSE /\ strikers = {} /\ silent = FALSE
  /\ odd = FALSE /\ kept = FALSE

At(c, a)   == blow[c].at = a
To(c, a, n) == blow' = [blow EXCEPT ![c] = [at |-> a, of |-> n]]
Pays(c, n) == At(c, "paying") /\ blow[c].of = n
Paying(n) == \E c \in Chars : Pays(c, n)
Left(n)   == {b \in Business : <<n, b>> \in due}
Idle(n)   == Left(n) = {} /\ ~Paying(n)

\* Four things make a life odd: a death reported twice; health given by the handler to a
\* mob that had none; a blow that landed after the death it did not see; a respawn while
\* its death was still being paid, dropped or put out of sight.
Odd(p) == odd' = (odd \/ p)

-----------------------------------------------------------------------------
(* Attacks *)

\* An attack is aimed at a mob that has health, and lands later.
Aim(c, a) ==
  /\ At(c, "none") /\ hp > 0
  /\ To(c, a, 0)
  /\ UNCHANGED <<life, handling, handler, due, crashed, hist, past>>

\* A blow is added to Targets, which wait for the packet of the damage.
Attack(c) == Aim(c, "aimed")

\* CastSkill looks at every mob in reach: blows are added to Targets, or the mob is kept as
\* TamingAI; which of the two is not kept here.
CastSkill(c) == Aim(c, "aimed")

\* The packets of skills look at the health of the mob that is meant; a monk's skill is
\* cast after the time it takes.
CastSkillHandler(c) == hp > 0 /\ CastSkill(c)

\* A blow with a timer of half a second.
InstantAttack(c) == Aim(c, "sent")

\* A pet's blow has such a timer too, its skill one of two seconds.
PetAttack(c) == Aim(c, "sent")

\* The packet of the damage: a goroutine for every target, once, and for a mob that is
\* tamed.
Release(c) ==
  /\ At(c, "aimed")
  /\ To(c, "sent", 0)
  /\ UNCHANGED <<life, handling, handler, due, crashed, hist, past>>

\* The attacker dies, changes maps or returns to a town, and forgets its targets; or the
\* packet comes and the taming fails.
ForgetTargets(c) ==
  /\ At(c, "aimed")
  /\ To(c, "none", 0)
  /\ UNCHANGED <<life, handling, handler, due, crashed, hist, past>>

ReadHealthMutant(c) ==
  /\ At(c, "sent")
  /\ To(c, "hitting", hp)
  /\ UNCHANGED <<life, handling, handler, due, crashed, hist, past>>

\* The test of the health at the top of DealDamage: without health the blow does nothing,
\* but it may land in the next life.  The build loads the health once: what Strike writes
\* is taken from what is read here.
ReadHealth(c) ==
  /\ At(c, "sent")
  /\ IF hp > 0 THEN To(c, "hitting", hp) ELSE To(c, "none", 0)
  /\ UNCHANGED <<life, handling, handler, due, crashed, hist, past>>

DealtMutant(h, dmg) == h - dmg

Dealt(h, dmg) == IF dmg > h THEN 0 ELSE h - dmg

\* DealDamage up to its broadcast.
Strike(c) ==
  /\ At(c, "hitting")
  /\ \E dmg \in Damages : hp' = Dealt(blow[c].of, dmg)
  /\ dealers' = dealers \cup {c}
  /\ To(c, "struck", 0)
  /\ strikers' = strikers \cup {c}
  /\ there' = IF hp > 0 /\ hp' = 0 THEN {d \in Chars : At(d, "hitting") \/ At(d, "struck")}
              ELSE there
  /\ silent' = (silent /\ hp' = 0)
  /\ Odd(hp = 0)
  /\ UNCHANGED <<mob, isDead, handling, handler, due, crashed, reported, kept>>

\* The broadcast of the blow fails (p.Cast): DealDamage returns without CheckMobDead.
CastFails(c) ==
  /\ At(c, "struck")
  /\ To(c, "none", 0)
  /\ there' = there \ {c}
  /\ silent' = (silent \/ hp = 0)
  /\ UNCHANGED <<life, handling, handler, due, crashed, reported, strikers, past>>

\* CheckMobDead finds the mob alive.
LookAlive(c) ==
  /\ At(c, "struck") /\ hp > 0
  /\ To(c, "none", 0)
  /\ UNCHANGED <<life, handling, handler, due, crashed, hist, past>>

ReportMutant(c) ==
  /\ At(c, "struck") /\ hp = 0
  /\ \E n \in Deaths :
       /\ Idle(n)
       /\ To(c, "paying", n)
       /\ due' = IF mob.once THEN due \cup {<<n, "respawn">>} ELSE due
  /\ handler' = (handler /\ ~mob.once)
  /\ there' = there \ {c}
  /\ reported' = TRUE
  /\ Odd(reported)
  /\ UNCHANGED <<life, handling, crashed, strikers, silent, kept>>

\* CheckMobDead finds it dead: respawn timer, or the end of a mob made by a command.
Report(c) ==
  /\ At(c, "struck") /\ hp = 0
  /\ \E n \in Deaths :
       /\ Idle(n)
       /\ To(c, "paying", n)
       /\ due' = IF mob.once THEN due ELSE due \cup {<<n, "respawn">>}
  /\ handler' = (handler /\ ~mob.once)
  /\ there' = there \ {c}
  /\ reported' = TRUE
  /\ Odd(reported)
  /\ UNCHANGED <<life, handling, crashed, strikers, silent, kept>>

\* The shared experience, or a temple for a killer whose guild is not found: CheckMobDead
\* returns before the drop, and the list of dealers stays.
PayAndReturn(c, n) ==
  /\ Pays(c, n)
  /\ \/ mob.kind = "shared"
     \/ mob.kind = "temple" /\ dealers # {}
  /\ To(c, "none", 0)
  /\ kept' = TRUE
  /\ UNCHANGED <<life, handling, handler, due, crashed, hist, odd>>

\* A temple asks for the guild of the claimer, who is nil when the list is empty.
PayNobody(c, n) ==
  /\ Pays(c, n)
  /\ mob.kind = "temple" /\ dealers = {}
  /\ crashed' = TRUE
  /\ UNCHANGED <<life, handling, handler, blow, due, hist, past>>

\* Experience, points and gold are paid: the drop, and the timer of one second.
Pay(c, n) ==
  /\ Pays(c, n)
  /\ mob.kind # "shared" /\ (mob.kind = "temple" => dealers # {})
  /\ To(c, "none", 0)
  /\ due' = due \cup {<<n, "drop">>, <<n, "vanish">>}
  /\ UNCHANGED <<life, handling, handler, crashed, hist, past>>

-----------------------------------------------------------------------------
(* What a death leaves behind *)

\* The goroutine of the drop: FindClaimer and DropHandler, once or twice; one second
\* after it the list is cleared.  Without a claimer nothing is done.
Drop(n) ==
  /\ <<n, "drop">> \in due
  /\ due' = (due \ {<<n, "drop">>}) \cup (IF dealers = {} THEN {} ELSE {<<n, "clear">>})
  /\ UNCHANGED <<life, handling, handler, blow, crashed, hist, past>>

ClearMutant(n) ==
  /\ <<n, "clear">> \in due
  /\ due' = due \ {<<n, "clear">>}
  /\ UNCHANGED <<mob, hp, isDead, dealers, handling, handler, blow, crashed, hist, past>>

Clear(n) ==
  /\ <<n, "clear">> \in due
  /\ due' = due \ {<<n, "clear">>}
  /\ dealers' = {} /\ kept' = FALSE
  /\ UNCHANGED <<mob, hp, isDead, handling, handler, blow, crashed, hist, odd>>

\* One second after the payments.
Vanish(n) ==
  /\ <<n, "vanish">> \in due
  /\ due' = due \ {<<n, "vanish">>}
  /\ isDead' = TRUE
  /\ UNCHANGED <<mob, hp, dealers, handling, handler, blow, crashed, hist, past>>

RespawnTicker(n) ==
  /\ <<n, "respawn">> \in due
  /\ due' = due
  /\ hp' = MaxHP /\ isDead' = FALSE
  /\ reported' = FALSE /\ strikers' = {} /\ there' = {} /\ silent' = FALSE
  /\ Odd(Left(n) # {"respawn"} \/ Paying(n))
  /\ UNCHANGED <<mob, dealers, handling, handler, blow, crashed, kept>>

\* The respawn timer, RespawnTime / 2 seconds after the report.
Respawn(n) ==
  /\ <<n, "respawn">> \in due
  /\ due' = due \ {<<n, "respawn">>}
  /\ hp' = MaxHP /\ isDead' = FALSE
  /\ reported' = FALSE /\ strikers' = {} /\ there' = {} /\ silent' = FALSE
  /\ Odd(Left(n) # {"respawn"} \/ Paying(n))
  /\ UNCHANGED <<mob, dealers, handling, handler, blow, crashed, kept>>

-----------------------------------------------------------------------------
(* The mob's handler *)

\* AIHandler's timer, and its look at the health; it needs somebody in OnSightPlayers.
BeginHandler ==
  /\ handling = "waiting" /\ handler /\ hp > 0
  /\ handling' = "acting"
  /\ UNCHANGED <<life, handler, blow, due, crashed, hist, past>>

\* It walks, chases, attacks or retreats, and sets its timer.
FinishHandler ==
  /\ handling = "acting"
  /\ handling' = "waiting"
  /\ UNCHANGED <<life, handler, blow, due, crashed, hist, past>>

\* Its target has left, hides or mounts, or it retreats from a pet.
Heal ==
  /\ handling = "acting"
  /\ handling' = "waiting"
  /\ hp' = MaxHP /\ silent' = FALSE
  /\ Odd(hp = 0)
  /\ UNCHANGED <<mob, isDead, dealers, handler, blow, due, crashed, there, reported, strikers,
                 kept>>

\* A panic is recovered before the timer is set; or there is no handler any more.
EndHandler ==
  /\ handling = "acting" \/ (handling = "waiting" /\ ~handler)
  /\ handling' = "over"
  /\ UNCHANGED <<life, handler, blow, due, crashed, hist, past>>

-----------------------------------------------------------------------------
PayFor(c, n) == Pay(c, n) \/ PayAndReturn(c, n) \/ PayNobody(c, n)
Begin(c)  == Attack(c) \/ CastSkillHandler(c) \/ InstantAttack(c) \/ PetAttack(c)
Land(c)   == Release(c) \/ ForgetTargets(c) \/ ReadHealth(c)
GoOn(c)   == Strike(c) \/ CastFails(c) \/ LookAlive(c) \/ Report(c) \/ \E n \in Deaths : PayFor(c, n)
Settle(n) == Drop(n) \/ Clear(n) \/ Vanish(n) \/ Respawn(n)
Handle    == BeginHandler \/ FinishHandler \/ Heal \/ EndHandler

Next ==
  /\ ~crashed
  /\ \/ \E c \in Chars : Begin(c) \/ Land(c) \/ GoOn(c)
     \/ \E n \in Deaths : Settle(n)
     \/ Handle

Spec == Init /\ [][Next]_vars

-----------------------------------------------------------------------------
(* Properties *)

\* The types of the variables; health does not go below zero (DealDamage).
TypeOK ==
  /\ mob \in Mobs
  /\ hp \in 0..MaxHP /\ isDead \in BOOLEAN
  /\ dealers \subseteq Chars
  /\ handling \in {"waiting", "acting", "over"} /\ handler \in BOOLEAN
  /\ blow \in [Chars -> Blows]
  /\ due \subseteq Deaths \X Business
  /\ crashed \in BOOLEAN
  /\ there \subseteq Chars /\ reported \in BOOLEAN /\ strikers \subseteq Chars
  /\ silent \in BOOLEAN
  /\ odd \in BOOLEAN /\ kept \in BOOLEAN

\* What a death promises: it is paid to those only whose blows were under way when the
\* health ran out, at most once each, and to nobody after the respawn (DealDamage and
\* CheckMobDead keep the promise with one look at the health each); whose blow could not be
\* told forgoes it.
Life == INSTANCE MobLife WITH
  alive    <- hp > 0,
  entitled <- IF hp = 0 THEN there ELSE {},
  paying   <- {c \in Chars : At(c, "paying")}

KeepsPromise == Life!Spec

\* A mob that can be hit is shown (exploreMobs goes by IsDead), if no life of it was odd.
SeenIfAlive == (hp > 0 /\ ~odd) => ~isDead

\* Health comes back by the respawn of a dead mob, by its handler, or by a blow that read
\* the health before another took some of it; a mob in a fight is not healed by the timer
\* of an earlier death, if no life was odd (CheckMobDead).
HealthComesBack ==
  [][(hp' > hp /\ ~odd) =>
       \/ hp = 0
       \/ handling = "acting"
       \/ \E c \in Chars : At(c, "hitting") /\ At(c, "struck")']_vars

\* Who may claim the drop has struck in this life (FindClaimer over DamageDealers), if no
\* life was odd and no death returned without clearing the list.
DealersOfThisLife == (~odd /\ ~kept) => dealers \subseteq strikers

\* The conquest of a temple finds its claimer, whose guild it asks for without a test:
\* otherwise the server goes down.
ClaimerFound == crashed => odd

\* The list of dealers is that of this life when a claimer is taken from it.
DealersKnown == DealersOfThisLife /\ ClaimerFound

\* A life knows nothing of the last: the mob is shown again, and claimed by its own strikers.
LifeIsNew == SeenIfAlive /\ DealersKnown

\* A dead mob comes back, unless made by a command: its respawn is due, or somebody is
\* about to find it dead and make it due (CheckMobDead); unless the broadcast of a blow that
\* left it without health failed (silent).
ComesBack ==
  (hp = 0 /\ ~mob.once /\ ~silent) =>
    \/ \E n \in Deaths : "respawn" \in Left(n)
    \/ \E c \in Chars : At(c, "struck")
=============================================================================
