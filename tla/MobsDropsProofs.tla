--------------------------- MODULE MobsDropsProofs ---------------------------
(***************************************************************************)
(* Theorems about Mobs and about Drops, what a mob leaves.                 *)
(*                                                                         *)
(* About Mobs, for any number of attackers, any health and any damages: a  *)
(* mob keeps the promise of MobLife (KeepsPromise), a dead mob comes back  *)
(* (ComesBack), a life knows nothing of the last (LifeIsNew) and health    *)
(* comes back in three ways only (HealthComesBack).                        *)
(*                                                                         *)
(* The steps of MobLife need one invariant: on a dead mob only those blows *)
(* are still under way that were so when its health ran out (UnderWay).    *)
(* ComesBack is inductive with the types.  LifeIsNew and HealthComesBack   *)
(* need that one death at a time is under way as long as no life was odd   *)
(* (OneDeath), and that the list of dealers is cleared after it (Cleared). *)
(*                                                                         *)
(* About Drops, for any number of characters, maps, ids and drops: a drop  *)
(* is looted once (LootedOnce), and leaves the ground only by what was     *)
(* meant for it (DropsStay).  LootedOnce says what a bag with the drop     *)
(* implies for the register; the induction needs more: which id and map    *)
(* the loot that holds the drop will take out (TakenByHand), and that a    *)
(* drop not made yet is nowhere (Fresh).  For DropsStay, what a timer or a *)
(* loot names is its own drop, nothing, or a drop the history calls raced  *)
(* (TimersOwn, HandsOwn).                                                  *)
(***************************************************************************)
EXTENDS Mobs, Drops, TLAPS

UnderWay ==
  hp = 0 => \A c \in Chars : At(c, "hitting") \/ At(c, "struck") => c \in there

\* What is done before the health is looked at.
Early == {"none", "aimed", "sent"}
AimStep(c) ==
  \/ Attack(c) \/ CastSkillHandler(c) \/ InstantAttack(c) \/ PetAttack(c)
  \/ Release(c) \/ ForgetTargets(c)

\* An action of Mobs (a disjunct of Next), for the case splits below.
Step ==
  \/ \E c \in Chars : AimStep(c) \/ ReadHealth(c) \/ Strike(c) \/ CastFails(c)
                      \/ LookAlive(c) \/ Report(c)
  \/ \E c \in Chars, n \in Deaths : Pay(c, n) \/ PayAndReturn(c, n) \/ PayNobody(c, n)
  \/ \E n \in Deaths : Drop(n) \/ Clear(n) \/ Vanish(n) \/ Respawn(n)
  \/ BeginHandler \/ FinishHandler \/ Heal \/ EndHandler

\* Every step of Next is one of these.
LEMMA NextIsStep == Next => Step
  BY DEF Next, Step, AimStep, Begin, Land, GoOn, PayFor, Settle, Handle

\* An aim, or the loss of one, changes where the attack is and nothing else.
LEMMA AimIsEarly ==
  ASSUME NEW c \in Chars, AimStep(c)
  PROVE  /\ blow[c].at \in Early /\ \E a \in Early : To(c, a, 0)
         /\ UNCHANGED <<life, handling, handler, due, crashed, hist, past>>
  BY DEF AimStep, Attack, CastSkillHandler, CastSkill, InstantAttack, PetAttack, Release,
         ForgetTargets, Aim, At, Early

\* What DealDamage leaves of the health is between zero and what it read.
LEMMA DealtIsHealth ==
  ASSUME NEW h \in 0..MaxHP, NEW dmg \in Damages
  PROVE  Dealt(h, dmg) \in 0..MaxHP
  BY MobsAssumption DEF Dealt

\* A life is odd or not.
LEMMA OddIsBoolean ==
  ASSUME NEW p, Odd(p)
  PROVE  odd' \in BOOLEAN
  BY DEF Odd

-----------------------------------------------------------------------------
\* Every step keeps the types.
LEMMA StepType ==
  ASSUME TypeOK, Step
  PROVE  TypeOK'
<1> USE MobsAssumption DEF TypeOK, life, hist, past, Blows
<1>0. ASSUME NEW c \in Chars, AimStep(c) PROVE TypeOK'
  <2>1. PICK a \in Early : To(c, a, 0)
    BY <1>0, AimIsEarly
  <2>2. blow' \in [Chars -> Blows]
    BY <2>1 DEF To, Early
  <2> QED
    BY <1>0, <2>2, AimIsEarly
<1>1. ASSUME NEW c \in Chars, ReadHealth(c) PROVE TypeOK'
  BY <1>1 DEF ReadHealth, To, At
<1>2. ASSUME NEW c \in Chars, Strike(c) PROVE TypeOK'
  <2>1. blow[c].of \in 0..MaxHP
    BY <1>2 DEF Strike, At
  <2>2. hp' \in 0..MaxHP
    BY <1>2, <2>1, DealtIsHealth DEF Strike
  <2>3. blow' \in [Chars -> Blows]
    BY <1>2 DEF Strike, To
  <2>4. there' \subseteq Chars /\ silent' \in BOOLEAN
    BY <1>2 DEF Strike
  <2> QED
    BY <1>2, <2>2, <2>3, <2>4, OddIsBoolean DEF Strike
<1>13. ASSUME NEW c \in Chars, CastFails(c) PROVE TypeOK'
  BY <1>13 DEF CastFails, To
<1>3. ASSUME NEW c \in Chars, LookAlive(c) PROVE TypeOK'
  BY <1>3 DEF LookAlive, To
<1>4. ASSUME NEW c \in Chars, Report(c) PROVE TypeOK'
  <2>1. PICK n \in Deaths :
          /\ To(c, "paying", n)
          /\ due' = IF mob.once THEN due ELSE due \cup {<<n, "respawn">>}
    BY <1>4 DEF Report
  <2>2. blow' \in [Chars -> Blows]
    BY <2>1 DEF To
  <2>3. due' \subseteq Deaths \X Business
    BY <2>1 DEF Business
  <2> QED
    BY <1>4, <2>2, <2>3, OddIsBoolean DEF Report
<1>5. ASSUME NEW c \in Chars, NEW n \in Deaths, Pay(c, n) PROVE TypeOK'
  BY <1>5 DEF Pay, To, Business
<1>6. ASSUME NEW c \in Chars, NEW n \in Deaths, PayAndReturn(c, n) PROVE TypeOK'
  BY <1>6 DEF PayAndReturn, To
<1>7. ASSUME NEW c \in Chars, NEW n \in Deaths, PayNobody(c, n) PROVE TypeOK'
  BY <1>7 DEF PayNobody
<1>8. ASSUME NEW n \in Deaths, Drop(n) PROVE TypeOK'
  BY <1>8 DEF Drop, Business
<1>9. ASSUME NEW n \in Deaths, Clear(n) PROVE TypeOK'
  BY <1>9 DEF Clear
<1>10. ASSUME NEW n \in Deaths, Vanish(n) PROVE TypeOK'
  BY <1>10 DEF Vanish
<1>11. ASSUME NEW n \in Deaths, Respawn(n) PROVE TypeOK'
  <2>1. odd' \in BOOLEAN
    BY <1>11, OddIsBoolean DEF Respawn
  <2>2. hp' \in 0..MaxHP
    BY <1>11 DEF Respawn
  <2>3. due' \subseteq Deaths \X Business
    BY <1>11 DEF Respawn
  <2>4. isDead' \in BOOLEAN /\ reported' \in BOOLEAN
    BY <1>11 DEF Respawn
  <2>5. there' \subseteq Chars /\ strikers' \subseteq Chars /\ silent' \in BOOLEAN
    BY <1>11 DEF Respawn
  <2>6. UNCHANGED <<mob, dealers, handling, handler, blow, crashed, kept>>
    BY <1>11 DEF Respawn
  <2> QED
    BY <2>1, <2>2, <2>3, <2>4, <2>5, <2>6
<1>12. ASSUME BeginHandler \/ FinishHandler \/ Heal \/ EndHandler PROVE TypeOK'
  <2>1. CASE Heal
    <3>1. odd' \in BOOLEAN
      BY <2>1, OddIsBoolean DEF Heal
    <3>2. hp' = MaxHP /\ silent' = FALSE /\ handling' = "waiting"
      BY <2>1 DEF Heal
    <3>3. UNCHANGED <<mob, isDead, dealers, handler, blow, due, crashed, there, reported, strikers,
                      kept>>
      BY <2>1 DEF Heal
    <3>4. hp' \in 0..MaxHP
      BY <3>2
    <3>5. silent' \in BOOLEAN
      BY <3>2
    <3>6. handling' \in {"waiting", "acting", "over"}
      BY <3>2
    <3> QED
      BY <3>1, <3>3, <3>4, <3>5, <3>6
  <2>2. CASE BeginHandler \/ FinishHandler \/ EndHandler
    BY <2>2 DEF BeginHandler, FinishHandler, EndHandler
  <2> QED
    BY <1>12, <2>1, <2>2
<1> QED
  BY <1>0, <1>1, <1>2, <1>3, <1>4, <1>5, <1>6, <1>7, <1>8, <1>9, <1>10, <1>11, <1>12, <1>13
     DEF Step

\* At the start, and through a step that changes nothing.
LEMMA InitType == Init => TypeOK
<1> SUFFICES ASSUME Init PROVE TypeOK
  OBVIOUS
<1>1. hp \in 0..MaxHP
  BY MobsAssumption DEF Init
<1>2. [at |-> "none", of |-> 0] \in Blows
  BY DEF Blows
<1>3. blow \in [Chars -> Blows]
  BY <1>2 DEF Init
<1>4. due \subseteq Deaths \X Business
  BY DEF Init
<1> QED
  BY <1>1, <1>3, <1>4 DEF Init, TypeOK

\* A step that changes nothing keeps the types.
LEMMA StutterType == TypeOK /\ UNCHANGED vars => TypeOK'
  BY DEF TypeOK, vars, life, hist, past, Blows

\* The variables keep their types; health stays between zero and all of it, whatever
\* blows land at the same time (DealDamage).
THEOREM MobsTyping == Spec => []TypeOK
<1>1. TypeOK /\ [Next]_vars => TypeOK'
  BY NextIsStep, StepType, StutterType
<1> QED
  BY InitType, <1>1, PTL DEF Spec

-----------------------------------------------------------------------------
\* On a dead mob only the blows that were under way when it died still are.
LEMMA StepUnderWay ==
  ASSUME TypeOK, UnderWay, Step
  PROVE  UnderWay'
<1> USE MobsAssumption DEF TypeOK, UnderWay, At, life, hist, past
<1>0. ASSUME NEW c \in Chars, AimStep(c) PROVE UnderWay'
  <2>1. PICK a \in Early : To(c, a, 0)
    BY <1>0, AimIsEarly
  <2>2. \A d \in Chars : blow'[d].at = IF d = c THEN a ELSE blow[d].at
    BY <2>1 DEF To
  <2>3. a # "hitting" /\ a # "struck"
    BY DEF Early
  <2> QED
    BY <1>0, <2>2, <2>3, AimIsEarly
<1>1. ASSUME NEW c \in Chars, ReadHealth(c) PROVE UnderWay'
  <2>1. \A d \in Chars : d # c => blow'[d] = blow[d]
    BY <1>1 DEF ReadHealth, To
  <2>2. hp = 0 => blow'[c].at = "none"
    BY <1>1 DEF ReadHealth, To
  <2> QED
    BY <1>1, <2>1, <2>2 DEF ReadHealth
<1>2. ASSUME NEW c \in Chars, Strike(c) PROVE UnderWay'
  <2>1. \A d \in Chars : blow'[d].at = IF d = c THEN "struck" ELSE blow[d].at
    BY <1>2 DEF Strike, To
  <2>2. CASE hp = 0
    BY <1>2, <2>1, <2>2 DEF Strike
  <2>3. CASE hp > 0 /\ hp' = 0
    BY <1>2, <2>1, <2>3 DEF Strike
  <2> QED
    BY <2>2, <2>3
<1>3. ASSUME NEW c \in Chars, LookAlive(c) PROVE UnderWay'
  BY <1>3 DEF LookAlive
<1>4. ASSUME NEW c \in Chars, Report(c) PROVE UnderWay'
  <2>1. PICK n \in Deaths : To(c, "paying", n)
    BY <1>4 DEF Report
  <2>2. \A d \in Chars : blow'[d].at = IF d = c THEN "paying" ELSE blow[d].at
    BY <2>1 DEF To
  <2> QED
    BY <1>4, <2>2 DEF Report
<1>5. ASSUME NEW c \in Chars, NEW n \in Deaths,
             Pay(c, n) \/ PayAndReturn(c, n) \/ PayNobody(c, n)
      PROVE  UnderWay'
  <2>1. \A d \in Chars : blow'[d].at \in {blow[d].at, "none"}
    BY <1>5 DEF Pay, PayAndReturn, PayNobody, To
  <2>2. hp' = hp /\ there' = there
    BY <1>5 DEF Pay, PayAndReturn, PayNobody
  <2> QED
    BY <2>1, <2>2
<1>6. ASSUME NEW n \in Deaths, Drop(n) \/ Clear(n) \/ Vanish(n) PROVE UnderWay'
  BY <1>6 DEF Drop, Clear, Vanish
<1>7. ASSUME NEW n \in Deaths, Respawn(n) PROVE UnderWay'
  BY <1>7 DEF Respawn
<1>8. ASSUME Heal PROVE UnderWay'
  BY <1>8 DEF Heal
<1>9. ASSUME BeginHandler \/ FinishHandler \/ EndHandler PROVE UnderWay'
  BY <1>9 DEF BeginHandler, FinishHandler, EndHandler
<1>10. ASSUME NEW c \in Chars, CastFails(c) PROVE UnderWay'
  <2>1. \A d \in Chars : blow'[d].at = IF d = c THEN "none" ELSE blow[d].at
    BY <1>10 DEF CastFails, To
  <2> QED
    BY <1>10, <2>1 DEF CastFails
<1> QED
  BY <1>0, <1>1, <1>2, <1>3, <1>4, <1>5, <1>6, <1>7, <1>8, <1>9, <1>10 DEF Step

\* Those who are being paid, as MobLife sees them.
Payees == {c \in Chars : At(c, "paying")}

\* A step that neither changes who is paid nor what is known of a dead mob is none for
\* MobLife, if the mob keeps its life.
LEMMA SameLife ==
  ASSUME hp' > 0 <=> hp > 0, hp' = 0 <=> hp = 0, there' = there, Payees' = Payees
  PROVE  UNCHANGED Life!vars
  BY DEF Life!vars, Payees

\* An attack by c that is not a payment changes who is paid by c at most.
LEMMA PayeesAre ==
  ASSUME TypeOK, NEW c \in Chars, NEW a, NEW n, To(c, a, n)
  PROVE  Payees' = IF a = "paying" THEN Payees \cup {c} ELSE Payees \ {c}
<1>1. \A d \in Chars : blow'[d].at = IF d = c THEN a ELSE blow[d].at
  BY DEF To, TypeOK
<1> QED
  BY <1>1 DEF Payees, At

\* Every step of a mob is a step of MobLife, or none.
LEMMA StepOfLife ==
  ASSUME TypeOK, UnderWay, Step
  PROVE  [Life!Next]_Life!vars
<1> USE MobsAssumption DEF TypeOK, life, hist, past
<1>0. ASSUME NEW c \in Chars, AimStep(c) PROVE UNCHANGED Life!vars
  <2>1. PICK a \in Early : To(c, a, 0)
    BY <1>0, AimIsEarly
  <2>2. a # "paying" /\ ~At(c, "paying")
    BY <1>0, AimIsEarly DEF Early, At
  <2>3. Payees' = Payees
    BY <2>1, <2>2, PayeesAre DEF Payees
  <2>4. hp' = hp /\ there' = there
    BY <1>0, AimIsEarly
  <2> QED
    BY <2>3, <2>4, SameLife
<1>1. ASSUME NEW c \in Chars, ReadHealth(c) \/ LookAlive(c) PROVE UNCHANGED Life!vars
  <2>1. ~At(c, "paying")
    BY <1>1 DEF ReadHealth, LookAlive, At
  <2>2. Payees' = Payees
    <3>1. PICK a \in {"hitting", "none"}, n \in {hp, 0} : To(c, a, n)
      BY <1>1 DEF ReadHealth, LookAlive
    <3> QED
      BY <2>1, <3>1, PayeesAre DEF Payees
  <2>3. hp' = hp /\ there' = there
    BY <1>1 DEF ReadHealth, LookAlive
  <2> QED
    BY <2>2, <2>3, SameLife
<1>2. ASSUME NEW c \in Chars, Strike(c) PROVE [Life!Next]_Life!vars
  <2>1. Payees' = Payees
    BY <1>2, PayeesAre DEF Strike, Payees, At
  <2>2. hp' \in 0..MaxHP
    <3>1. blow[c].of \in 0..MaxHP
      BY <1>2 DEF Strike, At, Blows
    <3> QED
      BY <1>2, <3>1, DealtIsHealth DEF Strike
  <2>3. CASE hp > 0 /\ hp' = 0
    <3>1. there' = {d \in Chars : At(d, "hitting") \/ At(d, "struck")}
      BY <1>2, <2>3 DEF Strike
    <3>2. there' \subseteq Chars \ Payees /\ c \in there'
      BY <1>2, <3>1 DEF Strike, Payees, At
    <3>3. Life!Die
      BY <2>1, <2>3, <3>2 DEF Life!Die, Payees
    <3> QED
      BY <3>3 DEF Life!Next
  <2>4. CASE hp = 0 /\ hp' > 0
    <3>1. Life!Revive
      BY <2>1, <2>4 DEF Life!Revive, Payees
    <3> QED
      BY <3>1 DEF Life!Next
  <2>5. CASE (hp > 0 <=> hp' > 0) /\ ~(hp > 0 /\ hp' = 0)
    <3>1. there' = there
      BY <1>2, <2>5 DEF Strike
    <3> QED
      BY <2>1, <2>2, <2>5, <3>1, SameLife
  <2> QED
    BY <2>2, <2>3, <2>4, <2>5
<1>3. ASSUME NEW c \in Chars, Report(c) PROVE [Life!Next]_Life!vars
  <2>1. PICK n \in Deaths : To(c, "paying", n)
    BY <1>3 DEF Report
  <2>2. Payees' = Payees \cup {c}
    BY <2>1, PayeesAre
  <2>3. hp = 0 /\ hp' = 0 /\ there' = there \ {c}
    BY <1>3 DEF Report
  <2>4. c \in there
    BY <1>3, <2>3 DEF Report, UnderWay
  <2>5. Life!Start(c)
    BY <2>2, <2>3, <2>4 DEF Life!Start, Payees
  <2> QED
    BY <2>5 DEF Life!Next
<1>4. ASSUME NEW c \in Chars, NEW n \in Deaths, Pay(c, n) \/ PayAndReturn(c, n)
      PROVE  [Life!Next]_Life!vars
  <2>1. c \in Payees
    BY <1>4 DEF Pay, PayAndReturn, Pays, Payees
  <2>2. Payees' = Payees \ {c}
    BY <1>4, PayeesAre DEF Pay, PayAndReturn
  <2>3. hp' = hp /\ there' = there
    BY <1>4 DEF Pay, PayAndReturn
  <2>4. Life!Finish(c)
    BY <2>1, <2>2, <2>3 DEF Life!Finish, Payees
  <2> QED
    BY <2>4 DEF Life!Next
<1>5. ASSUME NEW c \in Chars, NEW n \in Deaths, PayNobody(c, n)
      PROVE  UNCHANGED Life!vars
  BY <1>5, SameLife DEF PayNobody, Payees, At
<1>6. ASSUME NEW n \in Deaths, Drop(n) \/ Clear(n) \/ Vanish(n)
      PROVE  UNCHANGED Life!vars
  <2>1. hp' = hp /\ there' = there /\ blow' = blow
    BY <1>6 DEF Drop, Clear, Vanish
  <2> QED
    BY <2>1, SameLife DEF Payees, At
<1>7. ASSUME NEW n \in Deaths, Respawn(n) PROVE [Life!Next]_Life!vars
  <2>1. hp' > 0 /\ hp' # 0 /\ there' = {} /\ blow' = blow
    BY <1>7 DEF Respawn
  <2>2. CASE hp = 0
    <3>1. Life!Revive
      BY <2>1, <2>2 DEF Life!Revive, At
    <3> QED
      BY <3>1 DEF Life!Next
  <2>3. CASE hp > 0
    BY <2>1, <2>3 DEF Life!vars, At
  <2> QED
    BY <2>2, <2>3
<1>8. ASSUME Heal PROVE [Life!Next]_Life!vars
  <2>1. hp' > 0 /\ hp' # 0 /\ there' = there /\ blow' = blow
    BY <1>8 DEF Heal
  <2>2. CASE hp = 0
    <3>1. Life!Revive
      BY <2>1, <2>2 DEF Life!Revive, At
    <3> QED
      BY <3>1 DEF Life!Next
  <2>3. CASE hp > 0
    BY <2>1, <2>3 DEF Life!vars, At
  <2> QED
    BY <2>2, <2>3
<1>9. ASSUME BeginHandler \/ FinishHandler \/ EndHandler PROVE UNCHANGED Life!vars
  <2>1. hp' = hp /\ there' = there /\ blow' = blow
    BY <1>9 DEF BeginHandler, FinishHandler, EndHandler
  <2> QED
    BY <2>1, SameLife DEF Payees, At
<1>10. ASSUME NEW c \in Chars, CastFails(c) PROVE [Life!Next]_Life!vars
  <2>1. Payees' = Payees
    BY <1>10, PayeesAre DEF CastFails, Payees, At
  <2>2. hp' = hp /\ there' = there \ {c}
    BY <1>10 DEF CastFails
  <2>3. CASE hp = 0
    <3>1. c \in there
      BY <1>10, <2>3 DEF CastFails, UnderWay
    <3>2. Life!Forgo(c)
      BY <2>1, <2>2, <2>3, <3>1 DEF Life!Forgo, Payees
    <3> QED
      BY <3>2 DEF Life!Next
  <2>4. CASE hp # 0
    BY <2>1, <2>2, <2>4 DEF Life!vars, Payees
  <2> QED
    BY <2>3, <2>4
<1> QED
  BY <1>0, <1>1, <1>2, <1>3, <1>4, <1>5, <1>6, <1>7, <1>8, <1>9, <1>10 DEF Step

\* A mob keeps what MobLife promises, however many attack it and whatever they deal: a
\* death is paid to those whose blows were under way when the health ran out, once each
\* (DealDamage, CheckMobDead).
THEOREM MobsKeepPromise == Spec => KeepsPromise
<1>1. Init => UnderWay /\ Life!Init
  BY MobsAssumption DEF Init, UnderWay, At, Life!Init
<1>2. TypeOK /\ UnderWay /\ [Next]_vars => UnderWay'
  <2>1. UnderWay /\ UNCHANGED vars => UnderWay'
    BY DEF UnderWay, At, vars, life, hist
  <2> QED
    BY <2>1, NextIsStep, StepUnderWay
<1>3. TypeOK /\ UnderWay /\ [Next]_vars => [Life!Next]_Life!vars
  <2>1. UNCHANGED vars => UNCHANGED Life!vars
    BY DEF vars, life, hist, Life!vars, At
  <2> QED
    BY <2>1, NextIsStep, StepOfLife
<1> QED
  BY <1>1, <1>2, <1>3, MobsTyping, PTL DEF Spec, KeepsPromise, Life!Spec

-----------------------------------------------------------------------------
\* A dead mob keeps its due respawn, or somebody who is about to find it dead.
LEMMA StepComesBack ==
  ASSUME TypeOK, ComesBack, Step
  PROVE  ComesBack'
<1> USE MobsAssumption DEF TypeOK, ComesBack, At, Left, Business, life, hist, past
<1>0. ASSUME NEW c \in Chars, AimStep(c) PROVE ComesBack'
  <2>1. PICK a \in Early : To(c, a, 0)
    BY <1>0, AimIsEarly
  <2>2. \A d \in Chars : At(d, "struck") => At(d, "struck")'
    BY <1>0, <2>1, AimIsEarly DEF To, Early
  <2> QED
    BY <1>0, <2>2, AimIsEarly
<1>1. ASSUME NEW c \in Chars, ReadHealth(c) PROVE ComesBack'
  <2>1. \A d \in Chars : At(d, "struck") => At(d, "struck")'
    BY <1>1 DEF ReadHealth, To
  <2> QED
    BY <1>1, <2>1 DEF ReadHealth
<1>2. ASSUME NEW c \in Chars, Strike(c) PROVE ComesBack'
  BY <1>2 DEF Strike, To
<1>3. ASSUME NEW c \in Chars, LookAlive(c) PROVE ComesBack'
  BY <1>3 DEF LookAlive
<1>4. ASSUME NEW c \in Chars, Report(c) PROVE ComesBack'
  BY <1>4 DEF Report
<1>5. ASSUME NEW c \in Chars, NEW n \in Deaths,
             Pay(c, n) \/ PayAndReturn(c, n) \/ PayNobody(c, n)
      PROVE  ComesBack'
  <2>1. \A d \in Chars : At(d, "struck") => At(d, "struck")'
    BY <1>5 DEF Pay, PayAndReturn, PayNobody, Pays, To
  <2>2. hp' = hp /\ mob' = mob /\ silent' = silent /\ due \subseteq due'
    BY <1>5 DEF Pay, PayAndReturn, PayNobody
  <2> QED
    BY <2>1, <2>2
<1>6. ASSUME NEW n \in Deaths, Drop(n) \/ Clear(n) \/ Vanish(n) PROVE ComesBack'
  <2>1. \A m \in Deaths : <<m, "respawn">> \in due => <<m, "respawn">> \in due'
    BY <1>6 DEF Drop, Clear, Vanish
  <2>2. hp' = hp /\ mob' = mob /\ silent' = silent /\ blow' = blow
    BY <1>6 DEF Drop, Clear, Vanish
  <2> QED
    BY <2>1, <2>2
<1>7. ASSUME NEW n \in Deaths, Respawn(n) PROVE ComesBack'
  BY <1>7 DEF Respawn
<1>8. ASSUME Heal PROVE ComesBack'
  BY <1>8 DEF Heal
<1>9. ASSUME BeginHandler \/ FinishHandler \/ EndHandler PROVE ComesBack'
  BY <1>9 DEF BeginHandler, FinishHandler, EndHandler
<1>12. ASSUME NEW c \in Chars, CastFails(c) PROVE ComesBack'
  <2>1. \A d \in Chars : d # c => (At(d, "struck")' <=> At(d, "struck"))
    BY <1>12 DEF CastFails, To
  <2> QED
    BY <1>12, <2>1 DEF CastFails
<1> QED
  BY <1>0, <1>1, <1>2, <1>3, <1>4, <1>5, <1>6, <1>7, <1>8, <1>9, <1>12 DEF Step

\* A dead mob that no command made comes back, however its death was reported and paid:
\* its respawn is due or about to be (CheckMobDead), if no blow that left it without health
\* failed to be told (silent).
THEOREM MobsComesBack == Spec => []ComesBack
<1>1. Init => ComesBack
  BY MobsAssumption DEF Init, ComesBack
<1>2. TypeOK /\ ComesBack /\ [Next]_vars => ComesBack'
  <2>1. ComesBack /\ UNCHANGED vars => ComesBack'
    BY DEF ComesBack, At, Left, vars, life, hist
  <2> QED
    BY <2>1, NextIsStep, StepComesBack
<1> QED
  BY <1>1, <1>2, MobsTyping, PTL DEF Spec

-----------------------------------------------------------------------------
\* If no life was odd, a mob has one death at a time, reported and paid once: whatever is
\* left to do is done for it, and its payer finds somebody in the list of dealers.
OneDeath ==
  /\ reported => hp = 0
  /\ ~reported => \A n \in Deaths : Idle(n)
  /\ \A m, n \in Deaths : ~Idle(m) /\ ~Idle(n) => m = n
  /\ \A c, d \in Chars, m, n \in Deaths : Pays(c, m) /\ Pays(d, n) => c = d
  /\ \A n \in Deaths : Paying(n) => Left(n) \subseteq {"respawn"} /\ dealers # {}
  /\ hp = 0 /\ ~reported => dealers # {}

\* The list is cleared, or will be, once the death is reported.
Clears == \E n \in Deaths : Paying(n) \/ "drop" \in Left(n) \/ "clear" \in Left(n)
Cleared == reported /\ ~kept => dealers = {} \/ Clears

NewLife == (~odd => OneDeath /\ Cleared) /\ LifeIsNew

\* Who pays depends on the blows only, and what is left on the timers.
LEMMA SamePays ==
  ASSUME \A d \in Chars, n \in Deaths : Pays(d, n)' <=> Pays(d, n), due' = due
  PROVE  \A n \in Deaths : /\ Paying(n)' <=> Paying(n)
                           /\ Left(n)' = Left(n)
                           /\ Idle(n)' <=> Idle(n)
<1>1. \A n \in Deaths : Paying(n)' <=> Paying(n)
  BY DEF Paying
<1>2. \A n \in Deaths : Left(n)' = Left(n)
  BY DEF Left
<1> QED
  BY <1>1, <1>2 DEF Idle

\* A step that leaves the life, its deaths and their payers alone.
LEMMA SameDeath ==
  ASSUME NewLife, \A d \in Chars, n \in Deaths : Pays(d, n)' <=> Pays(d, n),
         UNCHANGED <<life, due, reported, strikers, past>>, crashed' => crashed \/ odd
  PROVE  NewLife'
<1>1. \A n \in Deaths : /\ Paying(n)' <=> Paying(n)
                        /\ Left(n)' = Left(n)
                        /\ Idle(n)' <=> Idle(n)
  BY SamePays DEF past
<1>2. (OneDeath /\ Cleared) => (OneDeath /\ Cleared)'
  <2>1. Clears => Clears'
    BY <1>1 DEF Clears
  <2> QED
    BY <1>1, <2>1 DEF OneDeath, Cleared, life, past
<1> QED
  BY <1>2 DEF NewLife, LifeIsNew, SeenIfAlive, DealersKnown, DealersOfThisLife, ClaimerFound, life, past

\* An attack by somebody who neither pays nor begins to leaves the payers.
LEMMA OtherBlow ==
  ASSUME TypeOK, NEW c \in Chars, ~At(c, "paying"), NEW a, a # "paying", NEW k, To(c, a, k)
  PROVE  \A d \in Chars, n \in Deaths : Pays(d, n)' <=> Pays(d, n)
<1>1. \A d \in Chars : blow'[d] = IF d = c THEN [at |-> a, of |-> k] ELSE blow[d]
  BY DEF To, TypeOK
<1> QED
  BY <1>1 DEF Pays, At

\* The steps of an attack before the payments.
LEMMA StrikeNewLife ==
  ASSUME TypeOK, NewLife, NEW c \in Chars, Strike(c)
  PROVE  NewLife'
<1>1. /\ At(c, "hitting") /\ To(c, "struck", 0) /\ dealers' = dealers \cup {c}
      /\ strikers' = strikers \cup {c} /\ odd' = (odd \/ hp = 0)
      /\ UNCHANGED <<isDead, due, crashed, reported, kept>>
  BY DEF Strike, Odd
<1>2. \A d \in Chars, n \in Deaths : Pays(d, n)' <=> Pays(d, n)
  BY <1>1, OtherBlow DEF At
<1>3. \A n \in Deaths : /\ Paying(n)' <=> Paying(n)
                        /\ Left(n)' = Left(n)
                        /\ Idle(n)' <=> Idle(n)
  BY <1>1, <1>2, SamePays
<1>4. CASE odd'
  BY <1>1, <1>4 DEF NewLife, LifeIsNew, SeenIfAlive, DealersKnown, DealersOfThisLife, ClaimerFound
<1>5. CASE ~odd'
  <2>1. hp > 0 /\ ~odd /\ ~reported /\ ~reported'
    <3>1. hp # 0 /\ ~odd
      BY <1>1, <1>5
    <3>2. ~reported /\ ~reported'
      BY <1>1, <3>1 DEF NewLife, OneDeath
    <3>3. hp > 0
      BY <3>1, MobsAssumption DEF TypeOK
    <3> QED
      BY <3>1, <3>2, <3>3
  <2>2. OneDeath'
    BY <1>1, <1>2, <1>3, <2>1 DEF NewLife, OneDeath
  <2>3. Cleared'
    BY <2>1 DEF Cleared
  <2> QED
    BY <1>1, <2>1, <2>2, <2>3 DEF NewLife, LifeIsNew, SeenIfAlive, DealersKnown, DealersOfThisLife,
                                  ClaimerFound
<1> QED
  BY <1>4, <1>5

\* The first look at the health, and NewLife.
LEMMA ReportNewLife ==
  ASSUME TypeOK, NewLife, NEW c \in Chars, Report(c)
  PROVE  NewLife'
<1>1. /\ At(c, "struck") /\ hp = 0 /\ reported' = TRUE /\ odd' = (odd \/ reported)
      /\ UNCHANGED <<life, crashed, strikers, kept>>
  BY DEF Report, Odd
<1>2. PICK k \in Deaths : /\ Idle(k) /\ To(c, "paying", k)
                          /\ due' = IF mob.once THEN due ELSE due \cup {<<k, "respawn">>}
  BY DEF Report
<1>3. \A d \in Chars : blow'[d] = IF d = c THEN [at |-> "paying", of |-> k] ELSE blow[d]
  BY <1>2 DEF To, TypeOK
<1>4. CASE odd'
  BY <1>1, <1>4 DEF NewLife, LifeIsNew, SeenIfAlive, DealersKnown, DealersOfThisLife, ClaimerFound, life
<1>5. CASE ~odd'
  <2>1. ~odd /\ ~reported /\ dealers # {} /\ \A n \in Deaths : Idle(n)
    BY <1>1, <1>5 DEF NewLife, OneDeath
  <2>2. \A d \in Chars, n \in Deaths : ~Pays(d, n)
    BY <2>1 DEF Idle, Paying
  <2>3. \A d \in Chars, n \in Deaths : Pays(d, n)' => d = c /\ n = k
    BY <1>3, <2>2 DEF Pays, At
  <2>4. \A n \in Deaths : Left(n)' \subseteq (IF n = k THEN {"respawn"} ELSE {})
    <3> SUFFICES ASSUME NEW n \in Deaths, NEW b \in Left(n)' PROVE n = k /\ b = "respawn"
      OBVIOUS
    <3>1. b \in Business /\ <<n, b>> \in due'
      BY DEF Left
    <3>2. <<n, b>> \notin due
      BY <2>1, <3>1 DEF Idle, Left
    <3> QED
      BY <1>2, <3>1, <3>2
  <2>5. \A n \in Deaths : ~Idle(n)' => n = k
    BY <2>3, <2>4 DEF Idle, Paying
  <2>6. Paying(k)'
    BY <1>3 DEF Paying, Pays, At
  <2>7. OneDeath'
    <3>1. \A n \in Deaths : Paying(n)' => Left(n)' \subseteq {"respawn"} /\ dealers' # {}
      BY <1>1, <2>1, <2>4 DEF life
    <3> QED
      BY <1>1, <2>3, <2>5, <3>1 DEF OneDeath, life
  <2>8. Cleared'
    BY <2>6 DEF Cleared, Clears
  <2> QED
    BY <1>1, <2>1, <2>7, <2>8 DEF NewLife, LifeIsNew, SeenIfAlive, DealersKnown, DealersOfThisLife,
                                  ClaimerFound, life
<1> QED
  BY <1>4, <1>5

\* The payments end: with a list kept, or with the drop and its timers.
LEMMA PayNewLife ==
  ASSUME TypeOK, NewLife, NEW c \in Chars, NEW k \in Deaths, Pay(c, k) \/ PayAndReturn(c, k)
  PROVE  NewLife'
<1>1. /\ Pays(c, k) /\ To(c, "none", 0)
      /\ UNCHANGED <<life, crashed, hist, odd>>
      /\ \/ due' = due \cup {<<k, "drop">>, <<k, "vanish">>} /\ kept' = kept
         \/ due' = due /\ kept' = TRUE
  BY DEF Pay, PayAndReturn, past
<1>2. \A d \in Chars : blow'[d] = IF d = c THEN [at |-> "none", of |-> 0] ELSE blow[d]
  BY <1>1 DEF To, TypeOK
<1>3. CASE odd
  BY <1>1, <1>3 DEF NewLife, LifeIsNew, SeenIfAlive, DealersKnown, DealersOfThisLife, ClaimerFound,
                    life, hist
<1>4. CASE ~odd
  <2>1. ~Idle(k) /\ reported /\ hp = 0
    BY <1>1, <1>4 DEF NewLife, OneDeath, Idle, Paying
  <2>2. \A d \in Chars, n \in Deaths : ~Pays(d, n)'
    <3>1. \A d \in Chars, n \in Deaths : Pays(d, n) => d = c
      BY <1>1, <1>4 DEF NewLife, OneDeath
    <3> QED
      BY <1>2, <3>1 DEF Pays, At
  <2>3. \A n \in Deaths : n # k => Left(n)' = {}
    <3> SUFFICES ASSUME NEW n \in Deaths, n # k, NEW b \in Left(n)' PROVE FALSE
      OBVIOUS
    <3>1. b \in Left(n)
      BY <1>1 DEF Left
    <3> QED
      BY <1>4, <2>1, <3>1 DEF NewLife, OneDeath, Idle
  <2>4. OneDeath'
    <3>1. \A n \in Deaths : ~Paying(n)'
      BY <2>2 DEF Paying
    <3> QED
      BY <1>1, <2>1, <2>2, <2>3, <3>1 DEF OneDeath, Idle, life, hist
  <2>5. Cleared'
    <3>1. "drop" \in Left(k)' \/ kept'
      BY <1>1 DEF Left, Business
    <3> QED
      BY <3>1 DEF Cleared, Clears
  <2> QED
    BY <1>1, <2>4, <2>5 DEF NewLife, LifeIsNew, SeenIfAlive, DealersKnown, DealersOfThisLife,
                            ClaimerFound, life, hist
<1> QED
  BY <1>3, <1>4

\* The conquest of a temple finds its claimer.
LEMMA PayNobodyNewLife ==
  ASSUME TypeOK, NewLife, NEW c \in Chars, NEW k \in Deaths, PayNobody(c, k)
  PROVE  NewLife'
<1>1. /\ Pays(c, k) /\ dealers = {} /\ UNCHANGED <<life, blow, due, hist, past>>
  BY DEF PayNobody
<1>2. odd
  BY <1>1 DEF NewLife, OneDeath, Paying
<1>3. \A d \in Chars, n \in Deaths : Pays(d, n)' <=> Pays(d, n)
  BY <1>1 DEF Pays, At
<1> QED
  BY <1>1, <1>2, <1>3, SameDeath DEF hist

\* The drop, the timer that clears the list and the one that puts the mob out of sight.
LEMMA SettleNewLife ==
  ASSUME TypeOK, NewLife, NEW k \in Deaths, Drop(k) \/ Clear(k) \/ Vanish(k)
  PROVE  NewLife'
<1>1. /\ UNCHANGED <<hp, blow, crashed, hist, odd>>
      /\ \/ /\ <<k, "drop">> \in due /\ UNCHANGED <<isDead, dealers, kept>>
            /\ due' = (due \ {<<k, "drop">>}) \cup (IF dealers = {} THEN {} ELSE {<<k, "clear">>})
         \/ /\ <<k, "clear">> \in due /\ due' = due \ {<<k, "clear">>}
            /\ dealers' = {} /\ kept' = FALSE /\ isDead' = isDead
         \/ /\ <<k, "vanish">> \in due /\ due' = due \ {<<k, "vanish">>}
            /\ isDead' = TRUE /\ UNCHANGED <<dealers, kept>>
  BY DEF Drop, Clear, Vanish, life, past
<1>2. \A d \in Chars, n \in Deaths : Pays(d, n)' <=> Pays(d, n)
  BY <1>1 DEF Pays, At
<1>3. \A n \in Deaths : Paying(n)' <=> Paying(n)
  BY <1>2 DEF Paying
<1>4. CASE odd
  BY <1>1, <1>4 DEF NewLife, LifeIsNew, SeenIfAlive, DealersKnown, DealersOfThisLife, ClaimerFound, hist
<1>5. CASE ~odd
  <2>1. \E b \in {"drop", "clear", "vanish"} : b \in Left(k)
    BY <1>1 DEF Left, Business
  <2>2. ~Idle(k) /\ reported /\ hp = 0 /\ ~Paying(k)
    BY <1>5, <2>1 DEF NewLife, OneDeath, Idle
  <2>3. \A n \in Deaths : n # k => Idle(n)
    BY <1>5, <2>2 DEF NewLife, OneDeath
  <2>4. \A n \in Deaths : n # k => Left(n)' = {} /\ ~Paying(n)'
    <3> SUFFICES ASSUME NEW n \in Deaths, n # k PROVE Left(n)' = {} /\ ~Paying(n)'
      OBVIOUS
    <3>1. Left(n) = {} /\ ~Paying(n)
      BY <2>3 DEF Idle
    <3>2. ASSUME NEW b \in Left(n)' PROVE b \in Left(n)
      BY <1>1, <3>2 DEF Left
    <3> QED
      BY <1>3, <3>1, <3>2
  <2>5. \A n \in Deaths : ~Paying(n)'
    BY <1>3, <2>2, <2>4
  <2>6. OneDeath'
    <3>1. \A d \in Chars, n \in Deaths : ~Pays(d, n)'
      BY <2>5 DEF Paying
    <3> QED
      BY <1>1, <2>2, <2>4, <2>5, <3>1 DEF OneDeath, Idle, hist
  <2>7. Cleared'
    <3>1. reported' = reported
      BY <1>1 DEF hist
    <3>2. CASE dealers' = {}
      BY <3>2 DEF Cleared
    <3>3. CASE dealers' # {} /\ ~kept'
      <4>1. dealers' = dealers /\ kept' = kept
        BY <1>1, <3>3
      <4>2. Clears
        BY <1>5, <2>2, <3>3, <4>1 DEF NewLife, Cleared
      <4>3. "drop" \in Left(k) \/ "clear" \in Left(k)
        BY <2>2, <2>3, <4>2 DEF Clears, Idle
      <4>4. "drop" \in Left(k)' \/ "clear" \in Left(k)'
        BY <1>1, <3>3, <4>1, <4>3 DEF Left, Business
      <4> QED
        BY <4>4 DEF Cleared, Clears
    <3> QED
      BY <3>2, <3>3 DEF Cleared
  <2> QED
    BY <1>1, <2>2, <2>6, <2>7 DEF NewLife, LifeIsNew, SeenIfAlive, DealersKnown, DealersOfThisLife,
                                  ClaimerFound, hist
<1> QED
  BY <1>4, <1>5

\* A life that is not odd begins when everything about the last one is done.
LEMMA RespawnNewLife ==
  ASSUME TypeOK, NewLife, NEW k \in Deaths, Respawn(k)
  PROVE  NewLife'
<1>1. /\ <<k, "respawn">> \in due /\ due' = due \ {<<k, "respawn">>}
      /\ hp' = MaxHP /\ isDead' = FALSE /\ reported' = FALSE /\ strikers' = {}
      /\ odd' = (odd \/ Left(k) # {"respawn"} \/ Paying(k))
      /\ UNCHANGED <<dealers, blow, crashed, kept>>
  BY DEF Respawn, Odd
<1>2. CASE odd'
  BY <1>1, <1>2 DEF NewLife, LifeIsNew, SeenIfAlive, DealersKnown, DealersOfThisLife, ClaimerFound
<1>3. CASE ~odd'
  <2>1. ~odd /\ Left(k) = {"respawn"} /\ ~Paying(k)
    BY <1>1, <1>3
  <2>2. ~Idle(k) /\ reported
    BY <2>1 DEF NewLife, OneDeath, Idle
  <2>3. \A n \in Deaths : n # k => Idle(n)
    BY <2>1, <2>2 DEF NewLife, OneDeath
  <2>4. \A n \in Deaths : ~Paying(n)'
    BY <1>1, <2>1, <2>3 DEF Idle, Paying, Pays, At
  <2>5. \A n \in Deaths : Left(n)' = {}
    <3> SUFFICES ASSUME NEW n \in Deaths, NEW b \in Left(n)' PROVE FALSE
      OBVIOUS
    <3>1. b \in Left(n) /\ (n = k => b # "respawn")
      BY <1>1 DEF Left
    <3> QED
      BY <2>1, <2>3, <3>1 DEF Idle
  <2>6. OneDeath'
    <3>1. hp' # 0 /\ ~reported'
      BY <1>1, MobsAssumption
    <3>2. \A n \in Deaths : Idle(n)'
      BY <2>4, <2>5 DEF Idle
    <3>3. \A d \in Chars, n \in Deaths : ~Pays(d, n)'
      BY <2>4 DEF Paying
    <3> QED
      BY <2>4, <3>1, <3>2, <3>3 DEF OneDeath
  <2>7. ~Clears
    BY <2>1, <2>3 DEF Clears, Idle
  <2>8. ~kept => dealers = {}
    BY <2>1, <2>2, <2>7 DEF NewLife, Cleared
  <2> QED
    BY <1>1, <2>1, <2>6, <2>8 DEF NewLife, Cleared, LifeIsNew, SeenIfAlive, DealersKnown,
                                  DealersOfThisLife, ClaimerFound
<1> QED
  BY <1>2, <1>3

\* A healing, and NewLife.
LEMMA HealNewLife ==
  ASSUME TypeOK, NewLife, Heal
  PROVE  NewLife'
<1>1. /\ hp' = MaxHP /\ odd' = (odd \/ hp = 0)
      /\ UNCHANGED <<isDead, dealers, blow, due, crashed, reported, strikers, kept>>
  BY DEF Heal, Odd, hist
<1>2. CASE odd'
  BY <1>1, <1>2 DEF NewLife, LifeIsNew, SeenIfAlive, DealersKnown, DealersOfThisLife, ClaimerFound
<1>3. CASE ~odd'
  <2>1. ~odd /\ hp > 0 /\ ~reported /\ hp' > 0
    <3>1. hp # 0 /\ ~odd
      BY <1>1, <1>3
    <3>2. ~reported
      BY <3>1 DEF NewLife, OneDeath
    <3>3. hp > 0 /\ hp' > 0
      BY <1>1, <3>1, MobsAssumption DEF TypeOK
    <3> QED
      BY <3>1, <3>2, <3>3
  <2>2. \A d \in Chars, n \in Deaths : Pays(d, n)' <=> Pays(d, n)
    BY <1>1 DEF Pays, At
  <2>3. \A n \in Deaths : /\ Paying(n)' <=> Paying(n)
                          /\ Left(n)' = Left(n)
                          /\ Idle(n)' <=> Idle(n)
    BY <1>1, <2>2, SamePays
  <2>4. OneDeath'
    BY <1>1, <2>1, <2>2, <2>3 DEF NewLife, OneDeath
  <2> QED
    BY <1>1, <2>1, <2>4 DEF NewLife, Cleared, LifeIsNew, SeenIfAlive, DealersKnown,
                            DealersOfThisLife, ClaimerFound
<1> QED
  BY <1>2, <1>3

\* Every step keeps NewLife.
LEMMA StepNewLife ==
  ASSUME TypeOK, NewLife, Step
  PROVE  NewLife'
<1>1. ASSUME NEW c \in Chars, AimStep(c) PROVE NewLife'
  <2>1. PICK a \in Early : To(c, a, 0)
    BY <1>1, AimIsEarly
  <2>2. a # "paying" /\ ~At(c, "paying")
    BY <1>1, AimIsEarly DEF Early, At
  <2>3. \A d \in Chars, n \in Deaths : Pays(d, n)' <=> Pays(d, n)
    BY <2>1, <2>2, OtherBlow
  <2> QED
    BY <1>1, <2>3, AimIsEarly, SameDeath DEF hist
<1>2. ASSUME NEW c \in Chars, ReadHealth(c) \/ LookAlive(c) PROVE NewLife'
  <2>1. PICK a \in {"hitting", "none"}, n \in {hp, 0} : To(c, a, n)
    BY <1>2 DEF ReadHealth, LookAlive
  <2>2. /\ a # "paying" /\ ~At(c, "paying")
        /\ UNCHANGED <<life, due, crashed, hist, past>>
    BY <1>2 DEF ReadHealth, LookAlive, At
  <2>3. \A d \in Chars, m \in Deaths : Pays(d, m)' <=> Pays(d, m)
    BY <2>1, <2>2, OtherBlow
  <2> QED
    BY <2>2, <2>3, SameDeath DEF hist
<1>3. ASSUME BeginHandler \/ FinishHandler \/ EndHandler PROVE NewLife'
  <2>1. UNCHANGED <<life, blow, due, crashed, hist, past>>
    BY <1>3 DEF BeginHandler, FinishHandler, EndHandler
  <2>2. \A d \in Chars, n \in Deaths : Pays(d, n)' <=> Pays(d, n)
    BY <2>1 DEF Pays, At
  <2> QED
    BY <2>1, <2>2, SameDeath DEF hist
<1>4. ASSUME NEW c \in Chars, CastFails(c) PROVE NewLife'
  <2>1. /\ To(c, "none", 0) /\ ~At(c, "paying")
        /\ UNCHANGED <<life, due, crashed, reported, strikers, past>>
    BY <1>4 DEF CastFails, At
  <2>2. \A d \in Chars, m \in Deaths : Pays(d, m)' <=> Pays(d, m)
    BY <2>1, OtherBlow
  <2> QED
    BY <2>1, <2>2, SameDeath
<1> QED
  BY <1>1, <1>2, <1>3, <1>4, StrikeNewLife, ReportNewLife, PayNewLife, PayNobodyNewLife, SettleNewLife,
     RespawnNewLife, HealNewLife DEF Step

\* NewLife holds in every reachable state.
LEMMA NewLives == Spec => []NewLife
<1>1. Init => NewLife
  <2> SUFFICES ASSUME Init PROVE NewLife
    OBVIOUS
  <2>1. \A n \in Deaths : Left(n) = {} /\ ~Paying(n)
    BY DEF Init, Left, Paying, Pays, At
  <2>2. \A c \in Chars, n \in Deaths : ~Pays(c, n)
    BY DEF Init, Pays, At
  <2>3. hp # 0
    BY MobsAssumption DEF Init
  <2> QED
    BY <2>1, <2>2, <2>3 DEF Init, NewLife, OneDeath, Cleared, Idle, LifeIsNew, SeenIfAlive,
                            DealersKnown, DealersOfThisLife, ClaimerFound
<1>2. TypeOK /\ NewLife /\ [Next]_vars => NewLife'
  <2>1. ASSUME NewLife, UNCHANGED vars PROVE NewLife'
    <3>1. UNCHANGED <<life, blow, due, crashed, hist, past>>
      BY <2>1 DEF vars
    <3>2. \A d \in Chars, n \in Deaths : Pays(d, n)' <=> Pays(d, n)
      BY <3>1 DEF Pays, At
    <3> QED
      BY <2>1, <3>1, <3>2, SameDeath DEF hist
  <2> QED
    BY <2>1, NextIsStep, StepNewLife
<1> QED
  BY <1>1, <1>2, MobsTyping, PTL DEF Spec

\* Unless a life was odd, a mob with health is shown, its drop is claimed by strikers of
\* this life only (or of one whose list was kept), and a temple finds its conqueror.
THEOREM LivesAreNew == Spec => []LifeIsNew
<1>1. NewLife => LifeIsNew
  BY DEF NewLife
<1> QED
  BY <1>1, NewLives, PTL

\* Health comes back by a respawn of the dead, by the handler or by a late blow; the timer
\* of an earlier death heals no mob in a fight.
THEOREM HealthComesBackOnly == Spec => HealthComesBack
<1> DEFINE Back == (hp' > hp /\ ~odd) =>
                     \/ hp = 0
                     \/ handling = "acting"
                     \/ \E c \in Chars : At(c, "hitting") /\ At(c, "struck")'
<1>1. ASSUME TypeOK, NewLife, Step PROVE Back
  <2>1. ASSUME NEW c \in Chars, Strike(c) PROVE Back
    <3>1. At(c, "hitting") /\ At(c, "struck")'
      BY <1>1, <2>1 DEF Strike, To, At, TypeOK
    <3> QED
      BY <3>1
  <2>2. ASSUME NEW n \in Deaths, Respawn(n) PROVE Back
    <3>1. ~Idle(n)
      BY <2>2 DEF Respawn, Idle, Left, Business
    <3>2. ~odd => hp = 0
      BY <1>1, <3>1 DEF NewLife, OneDeath
    <3> QED
      BY <3>2
  <2>3. CASE Heal
    BY <2>3 DEF Heal
  <2>4. CASE hp' = hp
    BY <1>1, <2>4, MobsAssumption DEF TypeOK
  <2>5. ASSUME NEW c \in Chars, AimStep(c) \/ ReadHealth(c) \/ LookAlive(c) \/ Report(c)
                                \/ CastFails(c)
        PROVE  hp' = hp
    BY <2>5, AimIsEarly DEF ReadHealth, LookAlive, Report, CastFails, life
  <2>6. ASSUME NEW c \in Chars, NEW n \in Deaths, Pay(c, n) \/ PayAndReturn(c, n) \/ PayNobody(c, n)
        PROVE  hp' = hp
    BY <2>6 DEF Pay, PayAndReturn, PayNobody, life
  <2>7. ASSUME NEW n \in Deaths, Drop(n) \/ Clear(n) \/ Vanish(n) PROVE hp' = hp
    BY <2>7 DEF Drop, Clear, Vanish, life
  <2>8. ASSUME BeginHandler \/ FinishHandler \/ EndHandler PROVE hp' = hp
    BY <2>8 DEF BeginHandler, FinishHandler, EndHandler, life
  <2> QED
    BY <1>1, <2>1, <2>2, <2>3, <2>4, <2>5, <2>6, <2>7, <2>8 DEF Step
<1>2. TypeOK /\ NewLife /\ [Next]_vars => [Back]_vars
  BY <1>1, NextIsStep
<1> QED
  BY <1>2, MobsTyping, NewLives, PTL DEF Spec, HealthComesBack

-----------------------------------------------------------------------------
(* Drops *)

Fresh ==
  \A d \in Drops : d > made =>
    /\ \A m \in Maps, i \in Ids : register[m][i] # d
    /\ \A c \in Looters : d \notin bag[c]

TakenByHand ==
  \A d \in Drops \ raced, c \in Looters :
    d \in bag[c] =>
      /\ \A x \in Looters : d \in bag[x] => x = c
      /\ \A m \in Maps, i \in Ids : register[m][i] = d =>
           hand[c] # None /\ hand[c].drop = d /\ hand[c].id = i /\ at[c] = m

TimersOwn ==
  \A t \in timers : ~t.frees =>
    register[t.map][t.id] \in {None, t.drop} \cup raced

HandsOwn ==
  \A c \in Looters : hand[c] # None =>
    register[hand[c].map][hand[c].id] \in {None, hand[c].drop} \cup raced

Placed ==
  \A d \in Drops, m, n \in Maps, i, j \in Ids :
    register[m][i] = d /\ register[n][j] = d => m = n /\ i = j

Inv == DropsTypeOK /\ Fresh /\ Placed /\ TakenByHand /\ TimersOwn /\ HandsOwn

\* An action of Drops (a disjunct of DropsNext), for the case split below.
DropsStep ==
  \/ \E c \in Looters, m \in Maps, frees \in BOOLEAN : Fall(c, m, frees)
  \/ \E m \in Maps : FallForever(m)
  \/ \E t \in timers : RemoveDrop(t)
  \/ \E t \in timers : FreeDrop(t)
  \/ \E c \in Looters, i \in Ids : BeginLoot(c, i)
  \/ \E c \in Looters : FinishLoot(c)
  \/ \E c \in Looters : Rest(c)
  \/ \E c \in Looters, m \in Maps : ChangeMap(c, m)

\* DropsNext is one of these.
LEMMA DropsNextIsStep == DropsNext <=> DropsStep
  BY DEF DropsNext, DropsStep

\* At the start nothing lies anywhere.
LEMMA InitInv == DropsInit => Inv
<1> SUFFICES ASSUME DropsInit PROVE Inv
  OBVIOUS
<1> USE DropsAssumption
<1>1. DropsTypeOK
  <2>1. made \in 0..MaxDrops
    BY DEF DropsInit
  <2>2. claimer \in [Drops -> Looters \cup {None}] /\ tired \in [Looters -> BOOLEAN]
    BY DEF DropsInit
  <2>3. register \in [Maps -> [Ids -> Drops \cup {None}]]
    BY DEF DropsInit
  <2>4. hand \in [Looters -> Hands \cup {None}] /\ bag \in [Looters -> SUBSET Drops]
    BY DEF DropsInit
  <2> QED
    BY <2>1, <2>2, <2>3, <2>4 DEF DropsInit, DropsTypeOK
<1>2. Fresh
  BY DEF DropsInit, Fresh, Drops
<1>3. Placed /\ TakenByHand /\ TimersOwn /\ HandsOwn
  BY DEF DropsInit, Placed, TakenByHand, TimersOwn, HandsOwn
<1> QED
  BY <1>1, <1>2, <1>3 DEF Inv

\* Every step keeps the types.
LEMMA TypeOKStep == ASSUME DropsTypeOK, [DropsNext]_dropVars PROVE DropsTypeOK'
<1> USE DropsAssumption DEF DropsTypeOK
<1>1. ASSUME NEW c \in Looters, NEW m \in Maps, NEW frees \in BOOLEAN, Fall(c, m, frees) PROVE DropsTypeOK'
  <2> DEFINE d == made + 1
  <2>1. PICK i \in GenerateIDForDrop(m) :
          /\ register' = [register EXCEPT ![m][i] = d]
          /\ timers' = timers \cup {[drop |-> d, map |-> m, id |-> i, frees |-> frees]}
          /\ raced' = raced \cup IF Named(m, i) THEN {d} ELSE {}
    BY <1>1 DEF Fall
  <2>2. d \in Drops /\ i \in Ids /\ d \in 0..MaxDrops
    BY <1>1, <2>1 DEF Fall, GenerateIDForDrop, Drops
  <2>3. register' \in [Maps -> [Ids -> Drops \cup {None}]]
    BY <2>1, <2>2
  <2>4. timers' \subseteq Timers
    BY <2>1, <2>2 DEF Timers
  <2> QED
    BY <1>1, <2>1, <2>2, <2>3, <2>4 DEF Fall
<1>2. ASSUME NEW t \in timers, RemoveDrop(t) PROVE DropsTypeOK'
  <2>1. t.map \in Maps /\ t.id \in Ids
    BY DEF Timers
  <2> QED
    BY <1>2, <2>1 DEF RemoveDrop
<1>3. ASSUME NEW t \in timers, FreeDrop(t) PROVE DropsTypeOK'
  <2>1. t.drop \in Drops
    BY DEF Timers
  <2> QED
    BY <1>3, <2>1 DEF FreeDrop
<1>4. ASSUME NEW c \in Looters, NEW i \in Ids, BeginLoot(c, i) PROVE DropsTypeOK'
  <2> DEFINE d == register[at[c]][i]
  <2>1. d \in Drops /\ at[c] \in Maps
    BY <1>4 DEF BeginLoot
  <2>2. [drop |-> d, map |-> at[c], id |-> i] \in Hands
    BY <2>1 DEF Hands
  <2>3. tired' \in [Looters -> BOOLEAN]
    BY <1>4 DEF BeginLoot
  <2>4. CASE UNCHANGED <<hand, bag, raced>>
    BY <1>4, <2>3, <2>4 DEF BeginLoot
  <2>5. CASE /\ hand' = [hand EXCEPT ![c] = [drop |-> d, map |-> at[c], id |-> i]]
             /\ bag' = [bag EXCEPT ![c] = @ \cup {d}]
             /\ raced' = raced \cup IF \E x \in Looters : InHand(x, d) THEN {d} ELSE {}
    <3>1. hand' \in [Looters -> Hands \cup {None}]
      BY <2>2, <2>5
    <3>2. bag' \in [Looters -> SUBSET Drops] /\ raced' \subseteq Drops
      BY <2>1, <2>5
    <3> QED
      BY <1>4, <2>3, <3>1, <3>2 DEF BeginLoot
  <2> QED
    BY <1>4, <2>4, <2>5 DEF BeginLoot
<1>5. ASSUME NEW c \in Looters, FinishLoot(c) PROVE DropsTypeOK'
  <2>1. hand[c] \in Hands /\ at[c] \in Maps
    BY <1>5 DEF FinishLoot
  <2>2. register' \in [Maps -> [Ids -> Drops \cup {None}]]
    BY <1>5, <2>1 DEF FinishLoot, Unregistered, Hands
  <2>3. bag' \in [Looters -> SUBSET Drops]
    BY <1>5 DEF FinishLoot
  <2> QED
    BY <1>5, <2>2, <2>3 DEF FinishLoot
<1>6. ASSUME NEW c \in Looters, NEW m \in Maps, ChangeMap(c, m) PROVE DropsTypeOK'
  BY <1>6 DEF ChangeMap, Hands
<1>7. ASSUME NEW c \in Looters, Rest(c) PROVE DropsTypeOK'
  BY <1>7 DEF Rest
<1>8. ASSUME NEW m \in Maps, FallForever(m) PROVE DropsTypeOK'
  BY <1>8 DEF FallForever
<1>9. CASE UNCHANGED dropVars
  BY <1>9 DEF dropVars
<1> QED
  BY <1>1, <1>2, <1>3, <1>4, <1>5, <1>6, <1>7, <1>8, <1>9, DropsNextIsStep DEF DropsStep

\* What each action does to the register and to the bags, for the invariants below: a
\* drop on the ground after a step was there before, unless the step is its fall.
LEMMA StillThere ==
  ASSUME DropsTypeOK, [DropsNext]_dropVars, NEW m \in Maps, NEW i \in Ids, NEW d \in Drops,
         register'[m][i] = d, d <= made
  PROVE  register[m][i] = d
<1> USE DropsAssumption DEF DropsTypeOK
<1>1. ASSUME NEW c \in Looters, NEW n \in Maps, NEW frees \in BOOLEAN, Fall(c, n, frees)
      PROVE register[m][i] = d
  <2>1. PICK j \in Ids : register' = [register EXCEPT ![n][j] = made + 1]
    BY <1>1 DEF Fall, GenerateIDForDrop
  <2>2. d # made + 1
    BY DEF Drops
  <2> QED
    BY <2>1, <2>2
<1>2. ASSUME NEW t \in timers, RemoveDrop(t) PROVE register[m][i] = d
  <2>1. t.map \in Maps /\ t.id \in Ids
    BY DEF Timers
  <2> QED
    BY <1>2, <2>1 DEF RemoveDrop
<1>3. ASSUME NEW c \in Looters, FinishLoot(c) PROVE register[m][i] = d
  <2>1. hand[c].id \in Ids /\ at[c] \in Maps
    BY <1>3 DEF FinishLoot, Hands
  <2> QED
    BY <1>3, <2>1 DEF FinishLoot, Unregistered
<1>4. CASE UNCHANGED register
  BY <1>4
<1> QED
  BY <1>1, <1>2, <1>3, <1>4, DropsNextIsStep
  DEF DropsStep, FallForever, FreeDrop, BeginLoot, Rest, ChangeMap, dropVars

\* Drops not made yet are nowhere.
LEMMA FreshStep == ASSUME DropsTypeOK, Fresh, [DropsNext]_dropVars PROVE Fresh'
<1> SUFFICES ASSUME NEW d \in Drops, d > made'
             PROVE /\ \A m \in Maps, i \in Ids : register'[m][i] # d
                   /\ \A c \in Looters : d \notin bag'[c]
  BY DEF Fresh
<1> USE DropsAssumption DEF DropsTypeOK
<1>a. made' = made \/ made' = made + 1
  BY DropsNextIsStep DEF DropsStep, Fall, FallForever, RemoveDrop, FreeDrop, BeginLoot, FinishLoot, Rest,
                    ChangeMap, dropVars
<1>1. d > made
  BY <1>a DEF Drops
<1>2. /\ \A m \in Maps, i \in Ids : register[m][i] # d
      /\ \A c \in Looters : d \notin bag[c]
  BY <1>1 DEF Fresh
<1>3. ASSUME NEW m \in Maps, NEW i \in Ids PROVE register'[m][i] # d
  <2>1. ASSUME NEW c \in Looters, NEW n \in Maps, NEW frees \in BOOLEAN, Fall(c, n, frees)
        PROVE register'[m][i] # d
    <3>1. PICK j \in Ids : register' = [register EXCEPT ![n][j] = made + 1]
      BY <2>1 DEF Fall, GenerateIDForDrop
    <3>2. d # made + 1
      BY <2>1 DEF Fall, Drops
    <3> QED
      BY <1>2, <3>1, <3>2
  <2>2. ASSUME NEW t \in timers, RemoveDrop(t) PROVE register'[m][i] # d
    <3>1. t.map \in Maps /\ t.id \in Ids /\ None # d
      BY DEF Timers
    <3> QED
      BY <1>2, <2>2, <3>1 DEF RemoveDrop
  <2>3. ASSUME NEW c \in Looters, FinishLoot(c) PROVE register'[m][i] # d
    <3>1. hand[c].id \in Ids /\ at[c] \in Maps /\ None # d
      BY <2>3 DEF FinishLoot, Hands
    <3> QED
      BY <1>2, <2>3, <3>1 DEF FinishLoot, Unregistered
  <2>4. CASE UNCHANGED register
    BY <1>2, <2>4
  <2> QED
    BY <2>1, <2>2, <2>3, <2>4, DropsNextIsStep
    DEF DropsStep, FallForever, FreeDrop, BeginLoot, Rest, ChangeMap, dropVars
<1>4. ASSUME NEW c \in Looters PROVE d \notin bag'[c]
  <2>1. ASSUME NEW x \in Looters, NEW i \in Ids, BeginLoot(x, i) PROVE d \notin bag'[c]
    <3>1. register[at[x]][i] # d
      BY <1>2
    <3> QED
      BY <1>2, <2>1, <3>1 DEF BeginLoot
  <2>2. ASSUME NEW x \in Looters, FinishLoot(x) PROVE d \notin bag'[c]
    BY <1>2, <2>2 DEF FinishLoot
  <2>3. CASE UNCHANGED bag
    BY <1>2, <2>3
  <2> QED
    BY <2>1, <2>2, <2>3, DropsNextIsStep
    DEF DropsStep, Fall, FallForever, RemoveDrop, FreeDrop, Rest, ChangeMap, dropVars
<1> QED
  BY <1>3, <1>4

\* A drop lies in one place.
LEMMA PlacedStep == ASSUME DropsTypeOK, Fresh, Placed, [DropsNext]_dropVars PROVE Placed'
<1> SUFFICES ASSUME NEW d \in Drops, NEW m \in Maps, NEW n \in Maps, NEW i \in Ids, NEW j \in Ids,
                    register'[m][i] = d, register'[n][j] = d
             PROVE m = n /\ i = j
  BY DEF Placed
<1>1. CASE d <= made
  <2>1. register[m][i] = d /\ register[n][j] = d
    BY <1>1, StillThere
  <2> QED
    BY <2>1 DEF Placed
<1>2. CASE d > made
  <2>1. register[m][i] # d /\ register[n][j] # d
    BY <1>2 DEF Fresh
  <2>2. ASSUME NEW c \in Looters, NEW o \in Maps, NEW frees \in BOOLEAN, Fall(c, o, frees)
        PROVE m = n /\ i = j
    <3>1. PICK k \in Ids : register' = [register EXCEPT ![o][k] = made + 1]
      BY <2>2 DEF Fall, GenerateIDForDrop
    <3>2. m = o /\ i = k
      BY <2>1, <3>1 DEF DropsTypeOK
    <3>3. n = o /\ j = k
      BY <2>1, <3>1 DEF DropsTypeOK
    <3> QED
      BY <3>2, <3>3
  <2>3. ASSUME made' = made PROVE FALSE
    BY <1>2, <2>3, FreshStep DEF Fresh
  <2> QED
    BY <2>2, <2>3, DropsNextIsStep
    DEF DropsStep, FallForever, RemoveDrop, FreeDrop, BeginLoot, FinishLoot, Rest, ChangeMap, dropVars
<1> QED
  BY <1>1, <1>2 DEF DropsTypeOK, Drops

\* The history never forgets.
LEMMA OddGrows == ASSUME [DropsNext]_dropVars PROVE raced \subseteq raced'
  BY DropsNextIsStep DEF DropsStep, Fall, FallForever, RemoveDrop, FreeDrop, BeginLoot, FinishLoot, Rest,
                    ChangeMap, dropVars

\* The loot that put a drop into a bag is the one that will take it from the ground.
LEMMA TakenByHandStep == ASSUME DropsTypeOK, Fresh, Placed, TakenByHand, [DropsNext]_dropVars PROVE TakenByHand'
<1> SUFFICES ASSUME NEW d \in Drops, d \notin raced', NEW c \in Looters, d \in bag'[c]
             PROVE /\ \A x \in Looters : d \in bag'[x] => x = c
                   /\ \A m \in Maps, i \in Ids : register'[m][i] = d =>
                        hand'[c] # None /\ hand'[c].drop = d /\ hand'[c].id = i /\ at'[c] = m
  BY DEF TakenByHand
<1> USE DropsAssumption DEF DropsTypeOK
<1>o. d \notin raced
  BY OddGrows
<1>t. ASSUME NEW x \in Looters, d \in bag[x]
      PROVE /\ \A y \in Looters : d \in bag[y] => y = x
            /\ \A m \in Maps, i \in Ids : register[m][i] = d =>
                 hand[x] # None /\ hand[x].drop = d /\ hand[x].id = i /\ at[x] = m
            /\ d <= made
  BY <1>o, <1>t DEF TakenByHand, Fresh, Drops
<1>1. ASSUME NEW x \in Looters, NEW j \in Ids, BeginLoot(x, j), ~UNCHANGED <<hand, bag, raced>>
      PROVE /\ \A y \in Looters : d \in bag'[y] => y = c
            /\ \A m \in Maps, i \in Ids : register'[m][i] = d =>
                 hand'[c] # None /\ hand'[c].drop = d /\ hand'[c].id = i /\ at'[c] = m
  <2> DEFINE e == register[at[x]][j]
  <2>1. /\ hand[x] = None
        /\ hand' = [hand EXCEPT ![x] = [drop |-> e, map |-> at[x], id |-> j]]
        /\ bag' = [bag EXCEPT ![x] = @ \cup {e}]
        /\ raced' = raced \cup IF \E y \in Looters : InHand(y, e) THEN {e} ELSE {}
        /\ UNCHANGED <<register, at>>
    BY <1>1 DEF BeginLoot
  <2>2. CASE d = e
    <3>1. ASSUME NEW y \in Looters PROVE d \notin bag[y]
      <4>1. SUFFICES ASSUME d \in bag[y] PROVE FALSE
        OBVIOUS
      <4>2. InHand(y, d)
        BY <1>t, <2>2, <4>1 DEF InHand
      <4>3. d \in raced'
        BY <2>1, <2>2, <4>2
      <4> QED
        BY <4>3
    <3>2. \A y \in Looters : d \in bag'[y] => y = x
      BY <2>1, <3>1
    <3>3. c = x
      BY <3>2
    <3>4. ASSUME NEW m \in Maps, NEW i \in Ids, register'[m][i] = d PROVE i = j /\ at[x] = m
      BY <2>1, <2>2, <3>4 DEF Placed
    <3>5. hand'[x] = [drop |-> e, map |-> at[x], id |-> j] /\ hand'[x] # None
      BY <2>1, <2>2, DropsAssumption DEF Hands
    <3>6. at'[x] = at[x]
      BY <2>1
    <3> QED
      BY <2>2, <3>2, <3>3, <3>4, <3>5, <3>6
  <2>3. CASE d # e
    <3>1. \A y \in Looters : d \in bag'[y] <=> d \in bag[y]
      BY <2>1, <2>3
    <3>2. ASSUME NEW m \in Maps, NEW i \in Ids, register'[m][i] = d PROVE c # x
      BY <1>t, <2>1, <3>1, <3>2
    <3> QED
      BY <1>t, <2>1, <3>1, <3>2
  <2> QED
    BY <2>2, <2>3
<1>2. ASSUME NEW x \in Looters, FinishLoot(x)
      PROVE /\ \A y \in Looters : d \in bag'[y] => y = c
            /\ \A m \in Maps, i \in Ids : register'[m][i] = d =>
                 hand'[c] # None /\ hand'[c].drop = d /\ hand'[c].id = i /\ at'[c] = m
  <2>1. /\ register' = [register EXCEPT ![at[x]][hand[x].id] = None]
        /\ hand' = [hand EXCEPT ![x] = None]
        /\ at' = at
        /\ hand[x] \in Hands
    BY <1>2 DEF FinishLoot, Unregistered
  <2>2. \A y \in Looters : bag'[y] \subseteq bag[y]
    BY <1>2 DEF FinishLoot
  <2>3. ASSUME NEW m \in Maps, NEW i \in Ids, register'[m][i] = d
        PROVE hand'[c] # None /\ hand'[c].drop = d /\ hand'[c].id = i /\ at'[c] = m
    <3>1. register[m][i] = d
      BY <1>2, <1>t, <2>2, <2>3, StillThere
    <3>2. hand[c] # None /\ hand[c].drop = d /\ hand[c].id = i /\ at[c] = m
      BY <1>t, <2>2, <3>1
    <3>3. c # x
      <4>1. SUFFICES ASSUME c = x PROVE FALSE
        OBVIOUS
      <4>2. register'[m][i] = None
        BY <2>1, <3>2, <4>1
      <4> QED
        BY <2>3, <4>2
    <3> QED
      BY <2>1, <3>2, <3>3
  <2> QED
    BY <1>t, <2>2, <2>3
<1>3. ASSUME NEW x \in Looters, NEW n \in Maps, ChangeMap(x, n)
      PROVE /\ \A y \in Looters : d \in bag'[y] => y = c
            /\ \A m \in Maps, i \in Ids : register'[m][i] = d =>
                 hand'[c] # None /\ hand'[c].drop = d /\ hand'[c].id = i /\ at'[c] = m
  <2>1. /\ UNCHANGED <<register, bag, hand>>
        /\ at' = [at EXCEPT ![x] = n]
        /\ hand[x] # None => hand[x].drop \in raced'
    BY <1>3 DEF ChangeMap
  <2>2. ASSUME NEW m \in Maps, NEW i \in Ids, register'[m][i] = d PROVE c # x
    BY <1>t, <2>1, <2>2
  <2> QED
    BY <1>t, <2>1, <2>2
<1>4. ASSUME UNCHANGED <<bag, hand, at>>
      PROVE /\ \A y \in Looters : d \in bag'[y] => y = c
            /\ \A m \in Maps, i \in Ids : register'[m][i] = d =>
                 hand'[c] # None /\ hand'[c].drop = d /\ hand'[c].id = i /\ at'[c] = m
  <2>1. \A m \in Maps, i \in Ids : register'[m][i] = d => register[m][i] = d
    BY <1>t, <1>4, StillThere
  <2> QED
    BY <1>t, <1>4, <2>1
<1> QED
  BY <1>1, <1>2, <1>3, <1>4, DropsNextIsStep
  DEF DropsStep, Fall, FallForever, RemoveDrop, FreeDrop, BeginLoot, Rest, dropVars

\* What a timer names is its own drop, nothing, or raced.
LEMMA TimersOwnStep == ASSUME DropsTypeOK, TimersOwn, [DropsNext]_dropVars PROVE TimersOwn'
<1> SUFFICES ASSUME NEW t \in timers', ~t.frees
             PROVE register'[t.map][t.id] \in {None, t.drop} \cup raced'
  BY DEF TimersOwn
<1> USE DropsAssumption DEF DropsTypeOK
<1>o. raced \subseteq raced'
  BY OddGrows
<1>t. t \in timers => t \in Timers /\ register[t.map][t.id] \in {None, t.drop} \cup raced
  BY DEF TimersOwn
<1>1. ASSUME NEW c \in Looters, NEW m \in Maps, NEW frees \in BOOLEAN, Fall(c, m, frees)
      PROVE register'[t.map][t.id] \in {None, t.drop} \cup raced'
  <2> DEFINE d == made + 1
  <2>1. PICK i \in Ids :
          /\ register' = [register EXCEPT ![m][i] = d]
          /\ timers' = timers \cup {[drop |-> d, map |-> m, id |-> i, frees |-> frees]}
          /\ raced' = raced \cup IF Named(m, i) THEN {d} ELSE {}
    BY <1>1 DEF Fall, GenerateIDForDrop
  <2>2. CASE t \in timers
    <3>1. t.map \in Maps /\ t.id \in Ids
      BY <1>t, <2>2 DEF Timers
    <3>2. CASE t.map = m /\ t.id = i
      <4>1. Named(m, i)
        BY <2>2, <3>2 DEF Named
      <4> QED
        BY <2>1, <3>1, <3>2, <4>1
    <3>3. CASE ~(t.map = m /\ t.id = i)
      BY <1>o, <1>t, <2>1, <2>2, <3>1, <3>3
    <3> QED
      BY <3>2, <3>3
  <2>3. CASE t = [drop |-> d, map |-> m, id |-> i, frees |-> frees]
    BY <2>1, <2>3
  <2> QED
    BY <2>1, <2>2, <2>3
<1>2. ASSUME NEW u \in timers, RemoveDrop(u) PROVE register'[t.map][t.id] \in {None, t.drop} \cup raced'
  <2>1. t \in timers /\ u \in Timers
    BY <1>2 DEF RemoveDrop
  <2>2. t.map \in Maps /\ t.id \in Ids /\ u.map \in Maps /\ u.id \in Ids
    BY <1>t, <2>1 DEF Timers
  <2> QED
    BY <1>2, <1>o, <1>t, <2>1, <2>2 DEF RemoveDrop
<1>3. ASSUME NEW c \in Looters, FinishLoot(c) PROVE register'[t.map][t.id] \in {None, t.drop} \cup raced'
  <2>1. t \in timers /\ hand[c].id \in Ids /\ at[c] \in Maps
    BY <1>3 DEF FinishLoot, Hands
  <2>2. t.map \in Maps /\ t.id \in Ids
    BY <1>t, <2>1 DEF Timers
  <2> QED
    BY <1>3, <1>o, <1>t, <2>1, <2>2 DEF FinishLoot, Unregistered
<1>4. ASSUME UNCHANGED register, timers' \subseteq timers
      PROVE register'[t.map][t.id] \in {None, t.drop} \cup raced'
  BY <1>4, <1>o, <1>t
<1> QED
  BY <1>1, <1>2, <1>3, <1>4, DropsNextIsStep
  DEF DropsStep, FallForever, FreeDrop, BeginLoot, Rest, ChangeMap, dropVars

\* So is what the loot of a character names, where it began.
LEMMA HandsOwnStep == ASSUME DropsTypeOK, HandsOwn, [DropsNext]_dropVars PROVE HandsOwn'
<1> SUFFICES ASSUME NEW c \in Looters, hand'[c] # None
             PROVE register'[hand'[c].map][hand'[c].id] \in {None, hand'[c].drop} \cup raced'
  BY DEF HandsOwn
<1> USE DropsAssumption DEF DropsTypeOK
<1>o. raced \subseteq raced'
  BY OddGrows
<1>t. ASSUME hand[c] # None
      PROVE /\ hand[c].map \in Maps /\ hand[c].id \in Ids
            /\ register[hand[c].map][hand[c].id] \in {None, hand[c].drop} \cup raced
  BY <1>t DEF HandsOwn, Hands
<1>1. ASSUME NEW x \in Looters, NEW m \in Maps, NEW frees \in BOOLEAN, Fall(x, m, frees)
      PROVE register'[hand'[c].map][hand'[c].id] \in {None, hand'[c].drop} \cup raced'
  <2> DEFINE d == made + 1
  <2>1. PICK i \in Ids :
          /\ register' = [register EXCEPT ![m][i] = d]
          /\ raced' = raced \cup IF Named(m, i) THEN {d} ELSE {}
          /\ hand' = hand
    BY <1>1 DEF Fall, GenerateIDForDrop
  <2>2. CASE hand[c].map = m /\ hand[c].id = i
    <3>1. Named(m, i)
      BY <2>1, <2>2 DEF Named
    <3> QED
      BY <1>t, <2>1, <2>2, <3>1
  <2>3. CASE ~(hand[c].map = m /\ hand[c].id = i)
    BY <1>o, <1>t, <2>1, <2>3
  <2> QED
    BY <2>2, <2>3
<1>2. ASSUME NEW t \in timers, RemoveDrop(t)
      PROVE register'[hand'[c].map][hand'[c].id] \in {None, hand'[c].drop} \cup raced'
  <2>1. t.map \in Maps /\ t.id \in Ids /\ hand' = hand
    BY <1>2 DEF RemoveDrop, Timers
  <2> QED
    BY <1>2, <1>o, <1>t, <2>1 DEF RemoveDrop
<1>3. ASSUME NEW x \in Looters, NEW i \in Ids, BeginLoot(x, i)
      PROVE register'[hand'[c].map][hand'[c].id] \in {None, hand'[c].drop} \cup raced'
  <2> DEFINE d == register[at[x]][i]
  <2>1. CASE hand' = hand
    BY <1>3, <1>o, <1>t, <2>1 DEF BeginLoot
  <2>2. CASE hand' = [hand EXCEPT ![x] = [drop |-> d, map |-> at[x], id |-> i]]
    <3>1. CASE c = x
      BY <1>3, <2>2, <3>1 DEF BeginLoot
    <3>2. CASE c # x
      BY <1>3, <1>o, <1>t, <2>2, <3>2 DEF BeginLoot
    <3> QED
      BY <3>1, <3>2
  <2> QED
    BY <1>3, <2>1, <2>2 DEF BeginLoot
<1>4. ASSUME NEW x \in Looters, FinishLoot(x)
      PROVE register'[hand'[c].map][hand'[c].id] \in {None, hand'[c].drop} \cup raced'
  <2>1. hand[x].id \in Ids /\ at[x] \in Maps /\ hand' = [hand EXCEPT ![x] = None]
    BY <1>4 DEF FinishLoot, Hands
  <2>2. c # x /\ hand'[c] = hand[c]
    BY <2>1
  <2> QED
    BY <1>4, <1>o, <1>t, <2>1, <2>2 DEF FinishLoot, Unregistered
<1>5. ASSUME UNCHANGED <<register, hand>>
      PROVE register'[hand'[c].map][hand'[c].id] \in {None, hand'[c].drop} \cup raced'
  BY <1>5, <1>o, <1>t
<1> QED
  BY <1>1, <1>2, <1>3, <1>4, <1>5, DropsNextIsStep DEF DropsStep, FallForever, FreeDrop, Rest, ChangeMap, dropVars

\* The invariant is inductive.
LEMMA InvStep == ASSUME Inv, [DropsNext]_dropVars PROVE Inv'
  BY TypeOKStep, FreshStep, PlacedStep, TakenByHandStep, TimersOwnStep, HandsOwnStep DEF Inv

\* Inv holds in every reachable state.
THEOREM Invariance == DropsSpec => []Inv
  BY InitInv, InvStep, PTL DEF DropsSpec

\* Every variable keeps its type (DropsTypeOK of the run drops).
THEOREM DropsTyping == DropsSpec => []DropsTypeOK
<1>1. Inv => DropsTypeOK
  BY DEF Inv
<1> QED
  BY <1>1, Invariance, PTL

\* LootHandler.Handle puts the item into the bag before it takes the drop out of the
\* register, and yet no drop is looted twice, but for the two races that raced names.
THEOREM DropsLootedOnce == DropsSpec => []LootedOnce
<1>1. Inv => LootedOnce
  BY DEF Inv, TakenByHand, LootedOnce, OnGround, InHand
<1> QED
  BY <1>1, Invariance, PTL

\* Every step leaves drops on the ground that it is not meant for.
LEMMA StepStays == ASSUME Inv, [DropsNext]_dropVars PROVE Stays
<1> SUFFICES ASSUME NEW m \in Maps, NEW i \in Ids, register[m][i] # None,
                    register'[m][i] # register[m][i], register[m][i] \notin raced
             PROVE \/ \E t \in timers : t \notin timers' /\ t.drop = register[m][i] /\ ~t.frees
                   \/ \E c \in Looters : /\ hand[c] # None /\ hand'[c] = None
                                         /\ hand[c].drop = register[m][i] \/ hand[c].map # at[c]
  BY DEF Stays
<1> USE DropsAssumption DEF Inv, DropsTypeOK
<1>1. ASSUME NEW c \in Looters, NEW n \in Maps, NEW frees \in BOOLEAN, Fall(c, n, frees) PROVE FALSE
  <2>1. PICK j \in Ids : register[n][j] = None /\ register' = [register EXCEPT ![n][j] = made + 1]
    BY <1>1 DEF Fall, GenerateIDForDrop
  <2> QED
    BY <2>1
<1>2. ASSUME NEW t \in timers, RemoveDrop(t)
      PROVE t \notin timers' /\ t.drop = register[m][i] /\ ~t.frees
  <2>1. t.map \in Maps /\ t.id \in Ids
    BY DEF Timers
  <2>2. m = t.map /\ i = t.id
    BY <1>2, <2>1 DEF RemoveDrop
  <2> QED
    BY <1>2, <2>2 DEF RemoveDrop, TimersOwn
<1>3. ASSUME NEW c \in Looters, FinishLoot(c)
      PROVE /\ hand[c] # None /\ hand'[c] = None
            /\ hand[c].drop = register[m][i] \/ hand[c].map # at[c]
  <2>1. hand[c] # None /\ hand[c].id \in Ids /\ at[c] \in Maps
    BY <1>3 DEF FinishLoot, Hands
  <2>2. m = at[c] /\ i = hand[c].id
    BY <1>3, <2>1 DEF FinishLoot, Unregistered
  <2> QED
    BY <1>3, <2>1, <2>2 DEF FinishLoot, HandsOwn
<1>4. CASE UNCHANGED register
  BY <1>4
<1> QED
  BY <1>1, <1>2, <1>3, <1>4, DropsNextIsStep
  DEF DropsStep, FallForever, FreeDrop, BeginLoot, Rest, ChangeMap, dropVars

\* A drop is taken by its own timer or by the loot that has it in hand; ids are used
\* again, and only drops that got an id still named elsewhere are excepted (raced).
THEOREM DropsStayDown == DropsSpec => DropsStay
<1>1. ASSUME Inv, [DropsNext]_dropVars PROVE Stays
  BY <1>1, StepStays
<1> QED
  BY <1>1, Invariance, PTL DEF DropsSpec, DropsStay
=============================================================================
