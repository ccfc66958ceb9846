---------------------------- MODULE DuelsProofs ----------------------------
(***************************************************************************)
(* Theorems about Duels for any number of characters, duels and timers,    *)
(* whatever the health and the blows: the types of the variables, and the  *)
(* invariants that the run duels checks for three characters.  That a duel *)
(* has two parties rests on Parties below: the duels are numbered, the     *)
(* parties of one number point at each other, an end that waits for its    *)
(* write knows both of them, and nobody is left with one who is leaving.   *)
(***************************************************************************)
EXTENDS Duels, TLAPS

\* The disjuncts of Next, for the case splits below.
Step ==
  \/ \E c \in Chars, o \in Chars : RespondPvP(c, o) \/ DealDamage(c, o)
  \/ \E c \in Chars, n \in Duellings : StartPvP(c, n)
  \/ \E e \in closing : FinishEndPvP(e) \/ FinishDeath(e)
  \/ \E c \in Chars :
       \/ MoveAway(c) \/ ChangeMap(c) \/ Logout(c) \/ LogoutBreaksOff(c) \/ Leave(c)
       \/ MobHits(c) \/ BuffExpires(c) \/ OnDuelStarted(c) \/ Die(c)
       \/ StartGame(c) \/ Heal(c) \/ Respawn(c)

\* Every step of Next is one of these.
LEMMA NextIsStep == Next => Step
  BY DEF Next, Step, Finishes, Begins, Ends, Fights, Ticks, Lives

\* The parts of TypeOK.
FightOK ==
  /\ hp \in [Chars -> 0..MaxHP]
  /\ respawning \in [Chars -> BOOLEAN]
  /\ revived \subseteq Chars
DuelsOK ==
  /\ duel \in [Chars -> Chars \cup {None}]
  /\ started \in [Chars -> BOOLEAN]
  /\ count \in [Chars -> SUBSET Duellings]
  /\ late \subseteq Chars
  /\ closing \subseteq Calls
  /\ made \in 0..NumDuels
  /\ current \in [Chars -> 0..NumDuels]
  /\ early \subseteq Chars /\ stale \subseteq Chars
LifeOK == life \in [Chars -> {"online", "leaving", "stuck", "off"}]

\* These are the parts of TypeOK.
LEMMA TypeParts == TypeOK <=> LifeOK /\ FightOK /\ DuelsOK
  BY DEF TypeOK, LifeOK, FightOK, DuelsOK

-----------------------------------------------------------------------------
(* Types *)

\* A blow leaves a health between none and all.
LEMMA MinusType ==
  ASSUME NEW h \in 0..MaxHP, NEW d \in Damages \cup {0}
  PROVE  Minus(h, d) \in 0..MaxHP
  BY DuelsAssumption DEF Minus

\* The end of a duel keeps the types.
LEMMA ClearedType ==
  ASSUME DuelsOK, NEW S \in SUBSET Chars, NEW n, Cleared(S, n), closing' \subseteq Calls
  PROVE  DuelsOK'
<1>1. current' \in [Chars -> 0..NumDuels]
  BY DuelsAssumption DEF DuelsOK, Cleared
<1>2. started' \in [Chars -> BOOLEAN]
  BY DEF DuelsOK, Cleared
<1>3. duel' \in [Chars -> Chars \cup {None}]
  BY DEF DuelsOK, Cleared
<1>4. early' \subseteq Chars /\ stale' \subseteq Chars
  BY DEF DuelsOK, Cleared, Opposing
<1> QED
  BY <1>1, <1>2, <1>3, <1>4 DEF DuelsOK, Cleared

\* Whom a waiting end will clear are characters.
LEMMA ReachedType ==
  ASSUME DuelsOK, NEW e \in closing
  PROVE  /\ e \in Calls /\ e.of \in 0..NumDuels
         /\ {e.who, e.opponent} \ {None} \in SUBSET Chars
         /\ {e.opponent} \ {None} \in SUBSET Chars
  BY DEF DuelsOK, Calls

\* A call that waits keeps its type when one of its objects goes.
LEMMA WithoutType ==
  ASSUME NEW e \in Calls, NEW c \in Chars
  PROVE  /\ Without(e, c) \in Calls
         /\ Without(e, c).of = e.of /\ Without(e, c).by = e.by
         /\ Without(e, c).who = IF e.who = c THEN None ELSE e.who
         /\ Without(e, c).opponent = IF e.opponent = c THEN None ELSE e.opponent
  BY DEF Without, Calls

\* The steps that touch duels keep the types of what is about duels.
LEMMA DuelsStep ==
  ASSUME LifeOK, DuelsOK, Step
  PROVE  DuelsOK'
<1>0. UNCHANGED duels => DuelsOK'
  BY DEF DuelsOK, duels
<1>1. ASSUME NEW c \in Chars, NEW o \in Chars, RespondPvP(c, o) PROVE DuelsOK'
  <2>1. made' \in 0..NumDuels /\ made' \in Duellings
    BY <1>1, DuelsAssumption DEF RespondPvP, DuelsOK, Duellings
  <2>2. duel' \in [Chars -> Chars \cup {None}]
    BY <1>1 DEF RespondPvP, DuelsOK
  <2>3. count' \in [Chars -> SUBSET Duellings]
    BY <1>1, <2>1 DEF RespondPvP, DuelsOK
  <2>4. current' \in [Chars -> 0..NumDuels]
    BY <1>1, <2>1 DEF RespondPvP, DuelsOK
  <2>5. early' \subseteq Chars
    BY <1>1 DEF RespondPvP, DuelsOK
  <2>6. stale' \subseteq Chars
    BY <1>1 DEF RespondPvP, DuelsOK, Opposing
  <2> QED
    BY <1>1, <2>1, <2>2, <2>3, <2>4, <2>5, <2>6 DEF RespondPvP, DuelsOK
<1>2. ASSUME NEW c \in Chars, NEW n \in Duellings, StartPvP(c, n) PROVE DuelsOK'
  <2>1. started' \in [Chars -> BOOLEAN]
    BY <1>2 DEF StartPvP, DuelsOK, InDuel
  <2>2. count' \in [Chars -> SUBSET Duellings]
    BY <1>2 DEF StartPvP, DuelsOK
  <2>3. early' \subseteq Chars
    BY <1>2 DEF StartPvP, DuelsOK
  <2> QED
    BY <1>2, <2>1, <2>2, <2>3 DEF StartPvP, DuelsOK
<1>3. ASSUME NEW c \in Chars, MoveAway(c) PROVE DuelsOK'
  <2>1. duel[c] \in Chars /\ closing' \subseteq Calls
    BY <1>3 DEF MoveAway, DuelsOK, InDuel
  <2>2. {c, duel[c]} \in SUBSET Chars
    BY <2>1
  <2> QED
    BY <1>3, <2>1, <2>2, ClearedType DEF MoveAway
<1>4. ASSUME NEW c \in Chars, NEW b \in {"map", "logout"}, EndPvP(c, b) PROVE DuelsOK'
  <2>1. CASE InDuel(c)
    <3>1. duel[c] \in Chars /\ current[c] \in 0..NumDuels
      BY <2>1 DEF InDuel, DuelsOK
    <3>2. [who |-> c, opponent |-> duel[c], of |-> current[c], by |-> b] \in Calls
      BY <3>1 DEF Calls
    <3> QED
      BY <1>4, <2>1, <3>2 DEF EndPvP, DuelsOK
  <2>2. CASE ~InDuel(c)
    BY <1>4, <2>2, <1>0 DEF EndPvP
  <2> QED
    BY <2>1, <2>2
<1>5. ASSUME NEW c \in Chars, ChangeMap(c) \/ Logout(c) PROVE DuelsOK'
  BY <1>5, <1>4 DEF ChangeMap, Logout
<1>6. ASSUME NEW c \in Chars, Leave(c) PROVE DuelsOK'
  <2>1. stale' \subseteq Chars
    BY <1>6 DEF Leave, DuelsOK
  <2>2. current' \in [Chars -> 0..NumDuels]
    BY <1>6, DuelsAssumption DEF Leave, DuelsOK
  <2>3. started' \in [Chars -> BOOLEAN]
    BY <1>6 DEF Leave, DuelsOK
  <2>4. closing' \subseteq Calls
    BY <1>6, WithoutType DEF Leave, DuelsOK
  <2> QED
    BY <1>6, <2>1, <2>2, <2>3, <2>4 DEF Leave, DuelsOK
<1>7. ASSUME NEW c \in Chars, Die(c) PROVE DuelsOK'
  <2>1. closing' \subseteq Calls
    <3>1. CASE InDuel(c) /\ Registered(duel[c])
      <4>1. duel[c] \in Chars /\ current[c] \in 0..NumDuels
        BY <3>1 DEF InDuel, DuelsOK
      <4>2. [who |-> None, opponent |-> duel[c], of |-> current[c], by |-> "death"] \in Calls
        BY <4>1 DEF Calls
      <4> QED
        BY <1>7, <3>1, <4>2 DEF Die, DuelsOK
    <3>2. CASE ~(InDuel(c) /\ Registered(duel[c]))
      BY <1>7, <3>2 DEF Die, DuelsOK
    <3> QED
      BY <3>1, <3>2
  <2>2. current' \in [Chars -> 0..NumDuels]
    BY <1>7, DuelsAssumption DEF Die, DuelsOK
  <2>3. started' \in [Chars -> BOOLEAN]
    BY <1>7 DEF Die, DuelsOK, InDuel
  <2>4. early' \subseteq Chars /\ stale' \subseteq Chars
    BY <1>7 DEF Die, DuelsOK
  <2> QED
    BY <1>7, <2>1, <2>2, <2>3, <2>4 DEF Die, DuelsOK
<1>8. ASSUME NEW c \in Chars, BuffExpires(c) PROVE DuelsOK'
  <2>1. duel[c] \in Chars
    BY <1>8 DEF BuffExpires, InDuel, DuelsOK
  <2> QED
    BY <1>8, <2>1 DEF BuffExpires, DuelsOK
<1>9. ASSUME NEW c \in Chars, OnDuelStarted(c) PROVE DuelsOK'
  <2>1. started' \in [Chars -> BOOLEAN]
    BY <1>9 DEF OnDuelStarted, DuelsOK
  <2>2. early' \subseteq Chars
    BY <1>9 DEF OnDuelStarted, DuelsOK
  <2> QED
    BY <1>9, <2>1, <2>2 DEF OnDuelStarted, DuelsOK
<1>10. ASSUME NEW c \in Chars, NEW e \in Chars,
              \/ DealDamage(c, e) \/ LogoutBreaksOff(c) \/ MobHits(c)
              \/ StartGame(c) \/ Heal(c) \/ Respawn(c)
       PROVE DuelsOK'
  BY <1>10, <1>0 DEF DealDamage, LogoutBreaksOff, MobHits, StartGame, Heal, Respawn
<1>11. ASSUME NEW e \in closing, FinishEndPvP(e) \/ FinishDeath(e) PROVE DuelsOK'
  <2>1. closing' \subseteq Calls
    BY <1>11 DEF FinishEndPvP, FinishDeath, DuelsOK
  <2> QED
    BY <1>11, <2>1, ReachedType, ClearedType DEF FinishEndPvP, FinishDeath
<1> QED
  BY <1>1, <1>2, <1>3, <1>5, <1>6, <1>7, <1>8, <1>9, <1>10, <1>11 DEF Step

\* Every step keeps the types of health and respawn.
LEMMA FightStep ==
  ASSUME FightOK, Step
  PROVE  FightOK'
<1>0. UNCHANGED fight => FightOK'
  BY DEF FightOK, fight
<1>1. ASSUME NEW c \in Chars, NEW o \in Chars, DealDamage(c, o) PROVE FightOK'
  <2>1. PICK d \in Damages, r \in Damages \cup {0} :
          hp' = [hp EXCEPT ![o] = Minus(@, d), ![c] = Minus(@, r)]
    BY <1>1 DEF DealDamage
  <2>2. \A h \in 0..MaxHP : Minus(h, d) \in 0..MaxHP /\ Minus(h, r) \in 0..MaxHP
    BY MinusType
  <2>3. hp' \in [Chars -> 0..MaxHP]
    BY <2>1, <2>2 DEF FightOK
  <2> QED
    BY <1>1, <2>3 DEF DealDamage, FightOK
<1>2. ASSUME NEW c \in Chars, MobHits(c) PROVE FightOK'
  <2>1. PICK d \in Damages : hp' = [hp EXCEPT ![c] = Minus(@, d)]
    BY <1>2 DEF MobHits
  <2>2. hp' \in [Chars -> 0..MaxHP]
    BY <2>1, MinusType DEF FightOK
  <2> QED
    BY <1>2, <2>2 DEF MobHits, FightOK
<1>3. ASSUME NEW c \in Chars, Heal(c) PROVE FightOK'
  <2>1. PICK h \in (hp[c] + 1)..MaxHP : hp' = [hp EXCEPT ![c] = h]
    BY <1>3 DEF Heal
  <2>2. h \in 0..MaxHP
    BY DuelsAssumption DEF FightOK
  <2>3. revived' \subseteq Chars
    BY <1>3 DEF Heal, FightOK
  <2> QED
    BY <1>3, <2>1, <2>2, <2>3 DEF Heal, FightOK
<1>4. ASSUME NEW c \in Chars, Respawn(c) PROVE FightOK'
  <2>1. PICK h \in {MaxHP, TenthHP} : hp' = [hp EXCEPT ![c] = h]
    BY <1>4 DEF Respawn
  <2>2. h \in 0..MaxHP
    BY DuelsAssumption
  <2> QED
    BY <1>4, <2>1, <2>2 DEF Respawn, FightOK
<1>5. ASSUME NEW c \in Chars, StartGame(c) PROVE FightOK'
  <2>1. hp' \in [Chars -> 0..MaxHP]
    BY <1>5, DuelsAssumption DEF StartGame, FightOK
  <2> QED
    BY <1>5, <2>1 DEF StartGame, FightOK
<1>6. ASSUME NEW c \in Chars, Leave(c) \/ Die(c) PROVE FightOK'
  BY <1>6 DEF Leave, Die, FightOK
<1>7. ASSUME NEW c \in Chars, NEW o \in Chars, RespondPvP(c, o) PROVE FightOK'
  BY <1>7, <1>0 DEF RespondPvP
<1>8. ASSUME NEW c \in Chars, NEW n \in Duellings, StartPvP(c, n) PROVE FightOK'
  BY <1>8, <1>0 DEF StartPvP
<1>9. ASSUME NEW c \in Chars,
              \/ MoveAway(c) \/ ChangeMap(c) \/ Logout(c) \/ LogoutBreaksOff(c)
              \/ BuffExpires(c) \/ OnDuelStarted(c)
       PROVE FightOK'
  BY <1>9, <1>0 DEF MoveAway, ChangeMap, Logout, LogoutBreaksOff, BuffExpires,
                     OnDuelStarted
<1>10. ASSUME NEW e \in closing, FinishEndPvP(e) \/ FinishDeath(e) PROVE FightOK'
  BY <1>10, <1>0 DEF FinishEndPvP, FinishDeath
<1> QED
  BY <1>1, <1>2, <1>3, <1>4, <1>5, <1>6, <1>7, <1>8, <1>9, <1>10 DEF Step

\* Every step keeps the type of life.
LEMMA LifeStep ==
  ASSUME LifeOK, Step
  PROVE  LifeOK'
<1>1. ASSUME NEW c \in Chars, NEW o \in Chars, RespondPvP(c, o) \/ DealDamage(c, o)
      PROVE LifeOK'
  BY <1>1 DEF RespondPvP, DealDamage, LifeOK
<1>2. ASSUME NEW c \in Chars, NEW n \in Duellings, StartPvP(c, n) PROVE LifeOK'
  BY <1>2 DEF StartPvP, LifeOK
<1>3. ASSUME NEW c \in Chars, MoveAway(c) \/ ChangeMap(c) \/ BuffExpires(c)
                              \/ OnDuelStarted(c) \/ MobHits(c) \/ Heal(c) \/ Respawn(c)
      PROVE LifeOK'
  BY <1>3 DEF MoveAway, ChangeMap, BuffExpires, OnDuelStarted, MobHits, Heal, Respawn,
              LifeOK
<1>4. ASSUME NEW c \in Chars, Logout(c) \/ LogoutBreaksOff(c) \/ Leave(c) \/ Die(c)
                              \/ StartGame(c)
      PROVE LifeOK'
  BY <1>4 DEF Logout, LogoutBreaksOff, Leave, Die, StartGame, LifeOK
<1>5. ASSUME NEW e \in closing, FinishEndPvP(e) \/ FinishDeath(e) PROVE LifeOK'
  BY <1>5 DEF FinishEndPvP, FinishDeath, LifeOK
<1> QED
  BY <1>1, <1>2, <1>3, <1>4, <1>5 DEF Step

\* Every step keeps the types.
LEMMA TypeStep == TypeOK /\ [Next]_vars => TypeOK'
<1>1. TypeOK /\ Next => TypeOK'
  BY NextIsStep, TypeParts, LifeStep, FightStep, DuelsStep
     DEF TypeOK, LifeOK, FightOK, DuelsOK
<1>2. TypeOK /\ UNCHANGED vars => TypeOK'
  BY DEF TypeOK, vars, fight, duels
<1> QED
  BY <1>1, <1>2

\* The variables keep their types, whatever the numbers of characters, duels, timers and
\* points of health: in particular a blow never leaves a health below zero.
THEOREM DuelsTyping == Spec => []TypeOK
<1>1. Init => TypeOK
  BY DuelsAssumption DEF Init, TypeOK
<1> QED
  BY <1>1, TypeStep, PTL DEF Spec
-----------------------------------------------------------------------------
(* The two parties of a duel *)

\* Who is in a duel has its number, and so has every end of one that waits.
Numbered ==
  /\ \A x \in Chars : current[x] <= made /\ (InDuel(x) <=> current[x] # 0)
  /\ \A e \in closing : e.of \in 1..made
\* Two that have the same number have a duel with each other.
SameDuel ==
  \A x, y \in Chars : x # y /\ current[x] = current[y] /\ current[x] # 0 => duel[x] = y
\* An end that waits will clear everybody who is still in its duel.
ReachesAll ==
  \A e \in closing : \A x \in Chars : current[x] = e.of => x \in {e.who, e.opponent}
\* Who has left the game is in no duel.
OffAlone == \A x \in Chars : life[x] = "off" => ~InDuel(x)
\* Nobody has a duel with one who is leaving, but the stale and those who will be cleared.
LeavingAlone ==
  \A x \in Chars \ stale :
    InDuel(x) /\ ~Closing(x) => life[duel[x]] # "leaving"
\* All the others have a duel with each other, of the same number.
Mutual ==
  \A x \in Chars \ stale :
    InDuel(x) /\ ~Closing(x) => duel[duel[x]] = x /\ current[duel[x]] = current[x]

\* The dead have no duel any more for their end to clear.
DeadAreOut == \A e \in closing : e.by = "death" => e.who = None

Parties == DeadAreOut /\ Numbered /\ SameDuel /\ ReachesAll /\ OffAlone /\ LeavingAlone /\ Mutual

\* What the step must do for the rest of Parties once the numbers are right.
LEMMA PartiesIntro ==
  ASSUME DeadAreOut, Numbered, SameDuel, ReachesAll, OffAlone,
         \A x \in Chars \ stale : InDuel(x) /\ ~Closing(x) =>
            /\ duel[duel[x]] = x /\ current[duel[x]] = current[x]
            /\ life[duel[x]] # "leaving"
  PROVE  Parties
  BY DEF Parties, LeavingAlone, Mutual

\* Parties leaves nobody alone.
LEMMA PartiesOfTwo == TypeOK /\ Parties => DuelOfTwo
<1> SUFFICES ASSUME TypeOK, Parties, NEW x \in Chars \ stale, InDuel(x), ~Closing(x)
             PROVE  duel[duel[x]] = x /\ Registered(duel[x])
  BY DEF DuelOfTwo
<1>1. duel[x] \in Chars /\ duel[duel[x]] = x
  BY DEF Parties, Mutual, InDuel, TypeOK
<1>2. InDuel(duel[x])
  BY <1>1, DuelsAssumption DEF InDuel
<1> QED
  BY <1>1, <1>2 DEF Parties, OffAlone, Registered

\* Steps that begin and end no duel.
LEMMA SamePartiesStep ==
  ASSUME Parties, TypeOK, UNCHANGED <<duel, current, closing, made, stale>>,
         \A x \in Chars : life'[x] \in {"off", "leaving"} => life'[x] = life[x]
  PROVE  Parties'
<1>1. DeadAreOut' /\ Numbered' /\ SameDuel' /\ ReachesAll'
  BY DEF Parties, DeadAreOut, Numbered, SameDuel, ReachesAll, InDuel
<1>2. OffAlone'
  BY DEF Parties, OffAlone, InDuel
<1>3. LeavingAlone' /\ Mutual'
  BY DEF Parties, LeavingAlone, Mutual, InDuel, Closing, TypeOK
<1> QED
  BY <1>1, <1>2, <1>3 DEF Parties

\* The end of duel n for S, which holds everybody who is in duel n.
LEMMA ClearedStep ==
  ASSUME Parties, TypeOK, NEW S \in SUBSET Chars, NEW n \in 1..NumDuels, Cleared(S, n),
         life' = life, closing' \subseteq closing,
         \A x \in Chars : current[x] = n => x \in S,
         \A e \in closing \ closing' : {e.who, e.opponent} \cap Chars \subseteq S
  PROVE  Parties'
<1>0. \A x \in Chars :
        /\ x \in S => duel'[x] = None /\ current'[x] = 0
        /\ x \notin S => duel'[x] = duel[x] /\ current'[x] = current[x]
  BY DEF Cleared
<1>a. made' = made
  BY DEF Cleared
<1>6. DeadAreOut'
  BY DEF Parties, DeadAreOut
<1>1. Numbered'
  BY <1>0, <1>a, DuelsAssumption DEF Parties, Numbered, InDuel, TypeOK
<1>2. SameDuel'
  BY <1>0 DEF Parties, SameDuel
<1>3. ReachesAll'
  BY <1>0, <1>1 DEF Parties, ReachesAll, Numbered
<1>4. OffAlone'
  BY <1>0 DEF Parties, OffAlone, InDuel
<1>5. ASSUME NEW x \in Chars, x \notin stale', InDuel(x)', ~Closing(x)'
      PROVE  /\ duel'[duel'[x]] = x /\ current'[duel'[x]] = current'[x]
             /\ life'[duel'[x]] # "leaving"
  <2>1. x \notin S /\ duel'[x] = duel[x] /\ current'[x] = current[x] /\ InDuel(x)
    BY <1>0, <1>5 DEF InDuel
  <2>2. x \notin stale
    BY <1>5, <2>1 DEF Cleared
  <2>3. ~Closing(x)
    <3>1. SUFFICES ASSUME NEW e \in closing, e.of = current[x], x \in {e.who, e.opponent}
                   PROVE  FALSE
      BY DEF Closing
    <3>2. e \in closing'
      BY <2>1, <3>1
    <3> QED
      BY <1>5, <2>1, <3>1, <3>2 DEF Closing
  <2>4. /\ duel[duel[x]] = x /\ current[duel[x]] = current[x] /\ duel[x] \in Chars
        /\ life[duel[x]] # "leaving"
    BY <2>1, <2>2, <2>3 DEF Parties, Mutual, LeavingAlone, InDuel, TypeOK
  <2>5. duel[x] \notin S
    <3>1. SUFFICES ASSUME duel[x] \in S PROVE FALSE
      OBVIOUS
    <3>2. x \in Opposing(S)
      BY <2>1, <3>1 DEF Opposing
    <3>3. current[x] = n
      BY <1>5, <3>2 DEF Cleared
    <3> QED
      BY <2>1, <3>3
  <2> QED
    BY <1>0, <2>1, <2>4, <2>5
<1> QED
  BY <1>1, <1>2, <1>3, <1>4, <1>5, <1>6, PartiesIntro DEF Parties, LeavingAlone, Mutual

\* The beginning of a duel.
LEMMA RespondStep ==
  ASSUME Parties, TypeOK, NEW c \in Chars, NEW o \in Chars, RespondPvP(c, o)
  PROVE  Parties'
<1>0. /\ duel'[c] = o /\ duel'[o] = c /\ current'[c] = made' /\ current'[o] = made'
      /\ \A x \in Chars \ {c, o} : duel'[x] = duel[x] /\ current'[x] = current[x]
  BY DEF RespondPvP, TypeOK
<1>a. /\ made' = made + 1 /\ made \in Nat /\ closing' = closing /\ life' = life
      /\ \A x \in Chars : current[x] \in Nat
  BY DuelsAssumption DEF RespondPvP, TypeOK
<1>b. /\ \A x \in Chars : current[x] <= made
      /\ \A e \in closing : e.of \in 1..made
  BY DEF Parties, Numbered
<1>6. DeadAreOut'
  BY <1>a DEF Parties, DeadAreOut
<1>1. Numbered'
  <2>1. \A x \in Chars : current'[x] <= made'
    BY <1>0, <1>a, <1>b
  <2>2. \A x \in Chars : InDuel(x)' <=> current'[x] # 0
    BY <1>0, <1>a, DuelsAssumption DEF Parties, Numbered, InDuel
  <2>3. \A e \in closing' : e.of \in 1..made'
    BY <1>a, <1>b
  <2> QED
    BY <2>1, <2>2, <2>3 DEF Numbered
<1>2. SameDuel'
  BY <1>0, <1>a, <1>b DEF Parties, SameDuel
<1>3. ReachesAll'
  BY <1>0, <1>a, <1>b DEF Parties, ReachesAll
<1>4. OffAlone'
  BY <1>0, <1>a DEF Parties, OffAlone, InDuel, RespondPvP, Online, Registered
<1>5. ASSUME NEW x \in Chars, x \notin stale', InDuel(x)', ~Closing(x)'
      PROVE  /\ duel'[duel'[x]] = x /\ current'[duel'[x]] = current'[x]
             /\ life'[duel'[x]] # "leaving"
  <2>1. CASE x \in {c, o}
    <3>1. life[o] # "leaving" /\ life[c] # "leaving"
      BY <1>5, <2>1 DEF RespondPvP, Online
    <3> QED
      BY <1>0, <1>a, <2>1, <3>1
  <2>2. CASE x \notin {c, o}
    <3>1. duel'[x] = duel[x] /\ current'[x] = current[x] /\ InDuel(x) /\ ~Closing(x)
      BY <1>0, <1>a, <1>5, <2>2 DEF InDuel, Closing
    <3>2. x \notin stale /\ duel[x] \notin {c, o}
      BY <1>5, <2>2 DEF RespondPvP, Opposing
    <3>3. /\ duel[duel[x]] = x /\ current[duel[x]] = current[x] /\ duel[x] \in Chars
          /\ life[duel[x]] # "leaving"
      BY <3>1, <3>2 DEF Parties, Mutual, LeavingAlone, InDuel, TypeOK
    <3> QED
      BY <1>0, <1>a, <3>1, <3>2, <3>3
  <2> QED
    BY <2>1, <2>2
<1> QED
  BY <1>1, <1>2, <1>3, <1>4, <1>5, <1>6 DEF Parties, LeavingAlone, Mutual

\* An end of the duel of c begins to wait, and c may be leaving the game with it.
LEMMA EndPvPStep ==
  ASSUME Parties, TypeOK, NEW c \in Chars, NEW b \in {"map", "logout"}, EndPvP(c, b),
         \A x \in Chars : life'[x] = life[x] \/ (x = c /\ life'[x] = "leaving")
  PROVE  Parties'
<1>a. UNCHANGED <<duel, current, made, stale>>
  BY DEF EndPvP, duels
<1>b. closing \subseteq closing'
  BY DEF EndPvP, duels
<1>c. ASSUME NEW e \in closing', e \notin closing
      PROVE  InDuel(c) /\ e.who = c /\ e.opponent = duel[c] /\ e.of = current[c]
  BY <1>c DEF EndPvP, duels
<1>6. DeadAreOut'
  BY DEF Parties, DeadAreOut, EndPvP, duels
<1>1. Numbered'
  <2>1. \A e \in closing' : e.of \in 1..made
    BY <1>c DEF Parties, Numbered, TypeOK
  <2> QED
    BY <1>a, <2>1 DEF Parties, Numbered, InDuel
<1>2. SameDuel'
  BY <1>a DEF Parties, SameDuel
<1>3. ReachesAll'
  <2> SUFFICES ASSUME NEW e \in closing', NEW x \in Chars, current[x] = e.of
               PROVE  x \in {e.who, e.opponent}
    BY <1>a DEF ReachesAll
  <2>1. CASE e \in closing
    BY <2>1 DEF Parties, ReachesAll
  <2>2. CASE e \notin closing
    BY <1>c, <2>2 DEF Parties, SameDuel, Numbered
  <2> QED
    BY <2>1, <2>2
<1>4. OffAlone'
  BY <1>a DEF Parties, OffAlone, InDuel
<1>5. ASSUME NEW x \in Chars, x \notin stale', InDuel(x)', ~Closing(x)'
      PROVE  /\ duel'[duel'[x]] = x /\ current'[duel'[x]] = current'[x]
             /\ life'[duel'[x]] # "leaving"
  <2>1. x \notin stale /\ InDuel(x) /\ ~Closing(x)
    BY <1>5, <1>a, <1>b DEF InDuel, Closing
  <2>2. /\ duel[duel[x]] = x /\ current[duel[x]] = current[x] /\ duel[x] \in Chars
        /\ life[duel[x]] # "leaving"
    BY <2>1 DEF Parties, Mutual, LeavingAlone, InDuel, TypeOK
  <2>3. duel[x] # c
    <3>1. SUFFICES ASSUME duel[x] = c PROVE FALSE
      OBVIOUS
    <3>2. InDuel(c) /\ duel[c] = x /\ current[c] = current[x]
      BY <2>2, <3>1, DuelsAssumption DEF InDuel
    <3> DEFINE e == [who |-> c, opponent |-> duel[c], of |-> current[c], by |-> b]
    <3>3. e \in closing' /\ e.of = current'[x] /\ x \in {e.who, e.opponent}
      BY <3>2, <1>a DEF EndPvP
    <3> QED
      BY <1>5, <3>3 DEF Closing
  <2> QED
    BY <1>a, <2>2, <2>3
<1> QED
  BY <1>1, <1>2, <1>3, <1>4, <1>5, <1>6 DEF Parties, LeavingAlone, Mutual

\* A death, whose opponent is left to a later step.
LEMMA DieStep ==
  ASSUME Parties, TypeOK, NEW c \in Chars, Die(c)
  PROVE  Parties'
<1>0. /\ duel'[c] = None /\ current'[c] = 0 /\ made' = made /\ life' = life
      /\ \A x \in Chars \ {c} : duel'[x] = duel[x] /\ current'[x] = current[x]
  BY DEF Die, TypeOK
<1>b. closing \subseteq closing'
  BY DEF Die
<1>c. ASSUME NEW e \in closing', e \notin closing
      PROVE  InDuel(c) /\ e.opponent = duel[c] /\ e.of = current[c]
  BY <1>c DEF Die
<1>d. \A e \in closing' : e.of \in 1..made
  BY <1>c DEF Parties, Numbered, TypeOK
<1>6. DeadAreOut'
  BY DEF Parties, DeadAreOut, Die
<1>1. Numbered'
  BY <1>0, <1>d DEF Parties, Numbered, InDuel, TypeOK
<1>2. SameDuel'
  BY <1>0 DEF Parties, SameDuel
<1>3. ReachesAll'
  <2> SUFFICES ASSUME NEW e \in closing', NEW x \in Chars, current'[x] = e.of
               PROVE  x \in {e.who, e.opponent}
    BY DEF ReachesAll
  <2>1. x # c /\ current[x] = e.of
    BY <1>0, <1>d
  <2>2. CASE e \in closing
    BY <2>1, <2>2 DEF Parties, ReachesAll
  <2>3. CASE e \notin closing
    BY <1>c, <2>1, <2>3 DEF Parties, SameDuel, Numbered
  <2> QED
    BY <2>2, <2>3
<1>4. OffAlone'
  BY <1>0 DEF Parties, OffAlone, InDuel
<1>5. ASSUME NEW x \in Chars, x \notin stale', InDuel(x)', ~Closing(x)'
      PROVE  /\ duel'[duel'[x]] = x /\ current'[duel'[x]] = current'[x]
             /\ life'[duel'[x]] # "leaving"
  <2>0. x # c
    BY <1>0, <1>5 DEF InDuel
  <2>1. x \notin stale /\ InDuel(x) /\ ~Closing(x) /\ duel'[x] = duel[x]
        /\ current'[x] = current[x]
    BY <1>5, <1>0, <1>b, <2>0 DEF InDuel, Closing, Die
  <2>2. /\ duel[duel[x]] = x /\ current[duel[x]] = current[x] /\ duel[x] \in Chars
        /\ life[duel[x]] # "leaving"
    BY <2>1 DEF Parties, Mutual, LeavingAlone, InDuel, TypeOK
  <2>3. duel[x] # c
    <3>1. SUFFICES ASSUME duel[x] = c PROVE FALSE
      OBVIOUS
    <3>2. InDuel(c) /\ duel[c] = x /\ current[c] = current[x]
      BY <2>2, <3>1, DuelsAssumption DEF InDuel
    <3>3. Registered(duel[c])
      BY <3>2, <2>1 DEF Parties, OffAlone, Registered
    <3> DEFINE e == [who |-> None, opponent |-> duel[c], of |-> current[c], by |-> "death"]
    <3>4. e \in closing' /\ e.of = current'[x] /\ x \in {e.who, e.opponent}
      BY <3>2, <3>3, <2>1 DEF Die
    <3> QED
      BY <1>5, <3>4 DEF Closing
  <2> QED
    BY <1>0, <2>1, <2>2, <2>3
<1> QED
  BY <1>1, <1>2, <1>3, <1>4, <1>5, <1>6 DEF Parties, LeavingAlone, Mutual

\* A character leaves the register: the calls that wait forget its object.
LEMMA LeaveStep ==
  ASSUME Parties, TypeOK, NEW c \in Chars, Leave(c)
  PROVE  Parties'
<1>0. /\ duel'[c] = None /\ current'[c] = 0 /\ made' = made /\ life'[c] = "off"
      /\ \A x \in Chars \ {c} :
           duel'[x] = duel[x] /\ current'[x] = current[x] /\ life'[x] = life[x]
      /\ life[c] = "leaving"
  BY DEF Leave, TypeOK
<1>a. \A e \in closing : e \in Calls
  BY DEF TypeOK
<1>b. ASSUME NEW d \in closing'
      PROVE  \E e \in closing : d.of = e.of /\ \A x \in Chars \ {c} :
               x \in {e.who, e.opponent} => x \in {d.who, d.opponent}
  <2>1. PICK e \in closing : d = Without(e, c)
    BY <1>b DEF Leave
  <2> QED
    BY <2>1, <1>a, WithoutType
<1>c. ASSUME NEW e \in closing
      PROVE  \E d \in closing' : d.of = e.of /\ \A x \in Chars \ {c} :
               x \in {e.who, e.opponent} => x \in {d.who, d.opponent}
  <2>1. Without(e, c) \in closing'
    BY DEF Leave
  <2> QED
    BY <2>1, <1>a, WithoutType
<1>d. \A d \in closing' : d.of \in 1..made
  BY <1>b DEF Parties, Numbered
<1>6. DeadAreOut'
  BY <1>a, WithoutType, DuelsAssumption DEF Parties, DeadAreOut, Leave
<1>1. Numbered'
  BY <1>0, <1>d DEF Parties, Numbered, InDuel, TypeOK
<1>2. SameDuel'
  BY <1>0 DEF Parties, SameDuel
<1>3. ReachesAll'
  <2> SUFFICES ASSUME NEW d \in closing', NEW x \in Chars, current'[x] = d.of
               PROVE  x \in {d.who, d.opponent}
    BY DEF ReachesAll
  <2>1. x # c /\ current[x] = d.of
    BY <1>0, <1>d
  <2>2. PICK e \in closing : d.of = e.of /\ \A y \in Chars \ {c} :
               y \in {e.who, e.opponent} => y \in {d.who, d.opponent}
    BY <1>b
  <2> QED
    BY <2>1, <2>2 DEF Parties, ReachesAll
<1>4. OffAlone'
  BY <1>0 DEF Parties, OffAlone, InDuel
<1>5. ASSUME NEW x \in Chars, x \notin stale', InDuel(x)', ~Closing(x)'
      PROVE  /\ duel'[duel'[x]] = x /\ current'[duel'[x]] = current'[x]
             /\ life'[duel'[x]] # "leaving"
  <2>1. x # c /\ duel'[x] = duel[x] /\ current'[x] = current[x] /\ InDuel(x)
    BY <1>0, <1>5 DEF InDuel
  <2>2. x \notin stale
    BY <1>5, <2>1 DEF Leave
  <2>3. ~Closing(x)
    <3>1. SUFFICES ASSUME NEW e \in closing, e.of = current[x], x \in {e.who, e.opponent}
                   PROVE  FALSE
      BY DEF Closing
    <3>2. PICK d \in closing' : d.of = e.of /\ \A y \in Chars \ {c} :
               y \in {e.who, e.opponent} => y \in {d.who, d.opponent}
      BY <1>c
    <3> QED
      BY <1>5, <2>1, <3>1, <3>2 DEF Closing
  <2>4. /\ duel[duel[x]] = x /\ current[duel[x]] = current[x] /\ duel[x] \in Chars
        /\ life[duel[x]] # "leaving"
    BY <2>1, <2>2, <2>3 DEF Parties, Mutual, LeavingAlone, InDuel, TypeOK
  <2>5. duel[x] # c
    BY <1>0, <2>4
  <2> QED
    BY <1>0, <2>1, <2>4, <2>5
<1> QED
  BY <1>1, <1>2, <1>3, <1>4, <1>5, <1>6 DEF Parties, LeavingAlone, Mutual

\* Every step keeps Parties.
LEMMA PartiesStep ==
  ASSUME TypeOK, Parties, Step
  PROVE  Parties'
<1>1. ASSUME NEW c \in Chars, NEW o \in Chars, RespondPvP(c, o) PROVE Parties'
  BY <1>1, RespondStep
<1>2. ASSUME NEW c \in Chars, MoveAway(c) PROVE Parties'
  <2>1. duel[c] \in Chars /\ current[c] \in 1..NumDuels
    BY <1>2 DEF MoveAway, InDuel, TypeOK, Parties, Numbered
  <2>2. {c, duel[c]} \in SUBSET Chars
    BY <2>1
  <2>3. \A x \in Chars : current[x] = current[c] => x \in {c, duel[c]}
    BY <2>1 DEF Parties, SameDuel
  <2> QED
    BY <1>2, <2>1, <2>2, <2>3, ClearedStep DEF MoveAway
<1>3. ASSUME NEW e \in closing, FinishEndPvP(e) PROVE Parties'
  <2>1. e.of \in 1..NumDuels /\ {e.who, e.opponent} \ {None} \in SUBSET Chars
    BY TypeParts, ReachedType DEF Parties, Numbered, TypeOK
  <2>2. \A x \in Chars : current[x] = e.of => x \in {e.who, e.opponent} \ {None}
    BY DuelsAssumption DEF Parties, ReachesAll
  <2>3. closing' \subseteq closing /\ life' = life
        /\ \A d \in closing \ closing' :
             {d.who, d.opponent} \cap Chars \subseteq {e.who, e.opponent} \ {None}
    BY <1>3, DuelsAssumption DEF FinishEndPvP
  <2> QED
    BY <1>3, <2>1, <2>2, <2>3, ClearedStep DEF FinishEndPvP
<1>4. ASSUME NEW e \in closing, FinishDeath(e) PROVE Parties'
  <2>1. e.of \in 1..NumDuels /\ {e.opponent} \ {None} \in SUBSET Chars
    BY TypeParts, ReachedType DEF Parties, Numbered, TypeOK
  <2>2. e.who = None
    BY <1>4 DEF Parties, DeadAreOut, FinishDeath
  <2>3. \A x \in Chars : current[x] = e.of => x \in {e.opponent} \ {None}
    BY <2>2, DuelsAssumption DEF Parties, ReachesAll
  <2>4. closing' \subseteq closing /\ life' = life
        /\ \A d \in closing \ closing' :
             {d.who, d.opponent} \cap Chars \subseteq {e.opponent} \ {None}
    BY <1>4, <2>2, DuelsAssumption DEF FinishDeath
  <2> QED
    BY <1>4, <2>1, <2>3, <2>4, ClearedStep DEF FinishDeath
<1>5. ASSUME NEW c \in Chars, ChangeMap(c) \/ Logout(c) PROVE Parties'
  BY <1>5, EndPvPStep DEF ChangeMap, Logout, TypeOK
<1>6. ASSUME NEW c \in Chars, Die(c) PROVE Parties'
  BY <1>6, DieStep
<1>7. ASSUME NEW c \in Chars, Leave(c) PROVE Parties'
  BY <1>7, LeaveStep
<1>8. ASSUME NEW c \in Chars, LogoutBreaksOff(c) \/ StartGame(c) PROVE Parties'
  BY <1>8, SamePartiesStep DEF LogoutBreaksOff, StartGame, duels, TypeOK
<1>9. ASSUME NEW c \in Chars, NEW n \in Duellings, StartPvP(c, n) PROVE Parties'
  BY <1>9, SamePartiesStep DEF StartPvP
<1>10. ASSUME NEW c \in Chars, BuffExpires(c) \/ OnDuelStarted(c) PROVE Parties'
  BY <1>10, SamePartiesStep DEF BuffExpires, OnDuelStarted
<1>11. ASSUME NEW c \in Chars, NEW e \in Chars,
              DealDamage(c, e) \/ MobHits(c) \/ Heal(c) \/ Respawn(c)
       PROVE Parties'
  BY <1>11, SamePartiesStep DEF DealDamage, MobHits, Heal, Respawn, duels
<1> QED
  BY <1>1, <1>2, <1>3, <1>4, <1>5, <1>6, <1>7, <1>8, <1>9, <1>10, <1>11 DEF Step

\* Who is in a duel has an opponent that is in it, too, and can be reached, or its duel is
\* about to be ended, for any number of characters, duels and ends that wait for a write:
\* everybody that loses an opponent otherwise is in stale.
THEOREM DuelsOfTwo == Spec => []DuelOfTwo
<1>1. Init => TypeOK /\ Parties
  <2>1. Init => TypeOK
    BY DuelsAssumption DEF Init, TypeOK
  <2>2. Init => Parties
    BY DuelsAssumption DEF Init, Parties, DeadAreOut, Numbered, SameDuel, ReachesAll, OffAlone,
       LeavingAlone, Mutual, InDuel
  <2> QED
    BY <2>1, <2>2
<1>2. TypeOK /\ Parties /\ [Next]_vars => Parties'
  <2>1. TypeOK /\ Parties /\ Next => Parties'
    BY NextIsStep, PartiesStep
  <2>2. Parties /\ UNCHANGED vars => Parties'
    BY DEF Parties, DeadAreOut, Numbered, SameDuel, ReachesAll, OffAlone, LeavingAlone,
       Mutual, InDuel, Closing, vars, duels
  <2> QED
    BY <2>1, <2>2
<1> QED
  BY <1>1, <1>2, TypeStep, PartiesOfTwo, PTL DEF Spec

-----------------------------------------------------------------------------
(* The countdown *)

\* The end of a duel starts nobody's.
LEMMA ClearedByCount ==
  ASSUME TypeOK, StartedByCount, NEW S \in SUBSET Chars, NEW n, Cleared(S, n)
  PROVE  StartedByCount'
<1> SUFFICES ASSUME NEW x \in Chars, x \notin early', started'[x]
             PROVE  InDuel(x)' /\ ~Counting(x)'
  BY DEF StartedByCount
<1>1. started[x] /\ x \notin S
  BY DEF Cleared, TypeOK
<1>2. x \notin early
  BY <1>1 DEF Cleared
<1>3. duel'[x] = duel[x] /\ current'[x] = current[x] /\ count' = count
  BY <1>1 DEF Cleared
<1> QED
  BY <1>1, <1>2, <1>3 DEF StartedByCount, InDuel, Counting

\* Every step but those of early leaves the fight to the countdown.
LEMMA ByCountStep ==
  ASSUME TypeOK, StartedByCount, Step
  PROVE  StartedByCount'
<1>0. ASSUME UNCHANGED <<duel, started, count, current, early>> PROVE StartedByCount'
  BY <1>0 DEF StartedByCount, InDuel, Counting
<1>1. ASSUME NEW c \in Chars, NEW o \in Chars, RespondPvP(c, o) PROVE StartedByCount'
  <2> SUFFICES ASSUME NEW x \in Chars, x \notin early', started'[x]
               PROVE  InDuel(x)' /\ ~Counting(x)'
    BY DEF StartedByCount
  <2>1. started[x] /\ x \notin early /\ x \notin {c, o}
    BY <1>1 DEF RespondPvP
  <2>2. duel'[x] = duel[x] /\ current'[x] = current[x] /\ count'[x] = count[x]
    BY <1>1, <2>1 DEF RespondPvP, TypeOK
  <2> QED
    BY <2>1, <2>2 DEF StartedByCount, InDuel, Counting
<1>2. ASSUME NEW c \in Chars, NEW n \in Duellings, StartPvP(c, n) PROVE StartedByCount'
  <2> SUFFICES ASSUME NEW x \in Chars, x \notin early', started'[x]
               PROVE  InDuel(x)' /\ ~Counting(x)'
    BY DEF StartedByCount
  <2>1. duel' = duel /\ current' = current
    BY <1>2 DEF StartPvP
  <2>2. CASE x = c
    <3>1. InDuel(c)
      <4>1. CASE started[c]
        BY <1>2, <2>2, <4>1 DEF StartPvP, StartedByCount
      <4>2. CASE ~started[c]
        BY <1>2, <2>2, <4>2 DEF StartPvP, TypeOK
      <4> QED
        BY <4>1, <4>2
    <3>2. current[c] \notin count'[c]
      BY <1>2, <2>2, <3>1 DEF StartPvP
    <3> QED
      BY <2>1, <2>2, <3>1, <3>2 DEF InDuel, Counting
  <2>3. CASE x # c
    <3>1. started[x] /\ x \notin early /\ count'[x] = count[x]
      BY <1>2, <2>3 DEF StartPvP, TypeOK
    <3> QED
      BY <2>1, <3>1 DEF StartedByCount, InDuel, Counting
  <2> QED
    BY <2>2, <2>3
<1>3. ASSUME NEW c \in Chars, OnDuelStarted(c) PROVE StartedByCount'
  <2> SUFFICES ASSUME NEW x \in Chars, x \notin early', started'[x]
               PROVE  InDuel(x)' /\ ~Counting(x)'
    BY DEF StartedByCount
  <2>1. duel' = duel /\ current' = current /\ count' = count
    BY <1>3 DEF OnDuelStarted
  <2>2. CASE x = c
    BY <1>3, <2>1, <2>2 DEF OnDuelStarted, InDuel, Counting
  <2>3. CASE x # c
    BY <1>3, <2>1, <2>3 DEF OnDuelStarted, TypeOK, StartedByCount, InDuel, Counting
  <2> QED
    BY <2>2, <2>3
<1>4. ASSUME NEW c \in Chars, NEW b, EndPvP(c, b) PROVE StartedByCount'
  BY <1>4, <1>0 DEF EndPvP, duels
<1>5. ASSUME NEW c \in Chars, ChangeMap(c) \/ Logout(c) PROVE StartedByCount'
  BY <1>5, <1>4 DEF ChangeMap, Logout
<1>6. ASSUME NEW c \in Chars, MoveAway(c) PROVE StartedByCount'
  <2>1. {c, duel[c]} \in SUBSET Chars
    BY <1>6 DEF MoveAway, InDuel, TypeOK
  <2> QED
    BY <1>6, <2>1, ClearedByCount DEF MoveAway
<1>9. ASSUME NEW e \in closing, FinishEndPvP(e) \/ FinishDeath(e) PROVE StartedByCount'
  BY <1>9, TypeParts, ReachedType, ClearedByCount DEF FinishEndPvP, FinishDeath
<1>10. ASSUME NEW c \in Chars, Die(c) PROVE StartedByCount'
  <2> SUFFICES ASSUME NEW x \in Chars, x \notin early', started'[x]
               PROVE  InDuel(x)' /\ ~Counting(x)'
    BY DEF StartedByCount
  <2>1. x # c
    <3>1. SUFFICES ASSUME x = c PROVE FALSE
      OBVIOUS
    <3>2. started[c] /\ ~InDuel(c) /\ c \notin early
      BY <1>10, <3>1 DEF Die, TypeOK
    <3> QED
      BY <3>2 DEF StartedByCount
  <2>2. /\ started[x] /\ x \notin early /\ duel'[x] = duel[x]
        /\ current'[x] = current[x] /\ count'[x] = count[x]
    BY <1>10, <2>1 DEF Die, TypeOK
  <2> QED
    BY <2>2 DEF StartedByCount, InDuel, Counting
<1>7. ASSUME NEW c \in Chars, Leave(c) PROVE StartedByCount'
  <2> SUFFICES ASSUME NEW x \in Chars, x \notin early', started'[x]
               PROVE  InDuel(x)' /\ ~Counting(x)'
    BY DEF StartedByCount
  <2>1. x # c /\ started[x]
    BY <1>7 DEF Leave, TypeOK
  <2>2. x \notin early /\ duel'[x] = duel[x] /\ current'[x] = current[x]
        /\ count'[x] = count[x]
    BY <1>7, <2>1 DEF Leave, TypeOK
  <2> QED
    BY <2>1, <2>2 DEF StartedByCount, InDuel, Counting
<1>8. ASSUME NEW c \in Chars, NEW e \in Chars,
             \/ DealDamage(c, e) \/ MobHits(c) \/ Heal(c) \/ Respawn(c)
             \/ BuffExpires(c) \/ StartGame(c) \/ LogoutBreaksOff(c)
      PROVE StartedByCount'
  BY <1>8, <1>0 DEF DealDamage, MobHits, Heal, Respawn, BuffExpires, StartGame,
                    LogoutBreaksOff, duels
<1> QED
  BY <1>1, <1>2, <1>3, <1>5, <1>6, <1>7, <1>8, <1>9, <1>10 DEF Step

\* Who may strike is in a duel whose countdown is over, for any number of duels begun and
\* ended meanwhile, unless an older countdown or a timer of HandleBuffs did it (early).
THEOREM DuelsStartByCount == Spec => []StartedByCount
<1>1. Init => TypeOK /\ StartedByCount
  BY DuelsAssumption DEF Init, TypeOK, StartedByCount
<1>2. TypeOK /\ StartedByCount /\ [Next]_vars => StartedByCount'
  <2>1. TypeOK /\ StartedByCount /\ Next => StartedByCount'
    BY NextIsStep, ByCountStep
  <2>2. StartedByCount /\ UNCHANGED vars => StartedByCount'
    BY DEF StartedByCount, InDuel, Counting, vars, duels
  <2> QED
    BY <2>1, <2>2
<1> QED
  BY <1>1, <1>2, TypeStep, PTL DEF Spec

\* A duel is one of two parties that can be reached, and who may strike in it has seen its
\* own countdown end, but for what stale and early name.
THEOREM DuelsAreRegular == Spec => []DuelIsRegular
<1>1. DuelOfTwo /\ StartedByCount => DuelIsRegular
  BY DEF DuelIsRegular
<1> QED
  BY <1>1, DuelsOfTwo, DuelsStartByCount, PTL

-----------------------------------------------------------------------------
(* Death *)

\* Every step keeps those that wait for their respawn without health.
LEMMA NoticedStep ==
  ASSUME TypeOK, DeathIsNoticed, Step
  PROVE  DeathIsNoticed'
<1>0. UNCHANGED fight => DeathIsNoticed'
  BY DEF DeathIsNoticed, fight
<1>a. \A d \in Damages \cup {0} : Minus(0, d) = 0
  BY DuelsAssumption DEF Minus
<1>1. ASSUME NEW c \in Chars, NEW e \in Chars, DealDamage(c, e) PROVE DeathIsNoticed'
  <2>1. PICK d \in Damages, r \in Damages \cup {0} :
          hp' = [hp EXCEPT ![e] = Minus(@, d), ![c] = Minus(@, r)]
    BY <1>1 DEF DealDamage
  <2>2. \A x \in Chars : hp[x] = 0 => hp'[x] = 0
    BY <2>1, <1>a DEF TypeOK
  <2> QED
    BY <1>1, <2>2 DEF DealDamage, DeathIsNoticed
<1>2. ASSUME NEW c \in Chars, MobHits(c) PROVE DeathIsNoticed'
  <2>1. \A x \in Chars : hp[x] = 0 => hp'[x] = 0
    BY <1>2, <1>a DEF MobHits, TypeOK
  <2> QED
    BY <1>2, <2>1 DEF MobHits, DeathIsNoticed
<1>3. ASSUME NEW c \in Chars, Heal(c) PROVE DeathIsNoticed'
  <2>1. PICK h \in (hp[c] + 1)..MaxHP : hp' = [hp EXCEPT ![c] = h]
    BY <1>3 DEF Heal
  <2> QED
    BY <1>3, <2>1 DEF Heal, DeathIsNoticed, TypeOK
<1>4. ASSUME NEW c \in Chars, Respawn(c) \/ StartGame(c) PROVE DeathIsNoticed'
  <2>1. /\ respawning' = [respawning EXCEPT ![c] = FALSE]
        /\ \A x \in Chars \ {c} : hp'[x] = hp[x]
        /\ revived' = revived \ {c}
    BY <1>4 DEF Respawn, StartGame, TypeOK
  <2> QED
    BY <2>1 DEF DeathIsNoticed, TypeOK
<1>5. ASSUME NEW c \in Chars, Leave(c) \/ Die(c) PROVE DeathIsNoticed'
  BY <1>5 DEF Leave, Die, DeathIsNoticed, TypeOK
<1>6. ASSUME NEW c \in Chars, NEW o \in Chars, RespondPvP(c, o) PROVE DeathIsNoticed'
  BY <1>6, <1>0 DEF RespondPvP
<1>7. ASSUME NEW c \in Chars, NEW n \in Duellings, StartPvP(c, n) PROVE DeathIsNoticed'
  BY <1>7, <1>0 DEF StartPvP
<1>8. ASSUME NEW c \in Chars,
             \/ MoveAway(c) \/ ChangeMap(c) \/ Logout(c) \/ LogoutBreaksOff(c)
             \/ BuffExpires(c) \/ OnDuelStarted(c)
      PROVE DeathIsNoticed'
  BY <1>8, <1>0 DEF MoveAway, ChangeMap, Logout, LogoutBreaksOff, BuffExpires,
                    OnDuelStarted
<1>9. ASSUME NEW e \in closing, FinishEndPvP(e) \/ FinishDeath(e) PROVE DeathIsNoticed'
  BY <1>9, <1>0 DEF FinishEndPvP, FinishDeath
<1> QED
  BY <1>1, <1>2, <1>3, <1>4, <1>5, <1>6, <1>7, <1>8, <1>9 DEF Step

\* Who waits to respawn has no health, whatever hits it meanwhile, unless it was healed
\* while dead (revived).
THEOREM DeathsAreNoticed == Spec => []DeathIsNoticed
<1>1. Init => TypeOK /\ DeathIsNoticed
  BY DuelsAssumption DEF Init, TypeOK, DeathIsNoticed
<1>2. TypeOK /\ DeathIsNoticed /\ [Next]_vars => DeathIsNoticed'
  <2>1. TypeOK /\ DeathIsNoticed /\ Next => DeathIsNoticed'
    BY NextIsStep, NoticedStep
  <2>2. DeathIsNoticed /\ UNCHANGED vars => DeathIsNoticed'
    BY DEF DeathIsNoticed, vars, fight
  <2> QED
    BY <2>1, <2>2
<1> QED
  BY <1>1, <1>2, TypeStep, PTL DEF Spec
=============================================================================
