------------------------------- MODULE Duels -------------------------------
(***************************************************************************)
(* Duels, and how characters die and come back: RespondPvPRequestHandler,  *)
(* DealDamageHandler and DealDamageToPlayer (player), Character.Handler    *)
(* with HandleBuffs, StartPvP, EndPvP, AddExp and Logout                   *)
(* (database/characters.go), RespawnHandler and StartGameHandler.          *)
(*                                                                         *)
(* A request for a duel is remembered by the clients alone, so any answer  *)
(* may come at any time.  The countdown of a duel is a chain of timers of  *)
(* each side that knows the character and not the duel.  A character that  *)
(* has left the game is an element that is fresh when it comes back; the   *)
(* object that FindCharacterByID loads for it meanwhile has no Socket, and *)
(* writing to it panics.  EndPvP and a death write to a client between     *)
(* reading the opponent and clearing what it reads: the write may wait,    *)
(* and the two may have other duels by then.                               *)
(***************************************************************************)
EXTENDS Integers, FiniteSets

CONSTANTS
  Chars,
  None,
  Outlaws,     \* characters on a map where everybody may attack (CanAttack)
  MaxHP,
  TenthHP,     \* MaxHP / 10
  Damages,     \* what a blow may take
  NumDuels,    \* bound: duels that are begun
  MaxLate,     \* bound: timers of HandleBuffs at one time
  MaxClosing,  \* bound: ends of duels that wait for a write at one time
  MaxDead      \* bound: characters without health, or to respawn, at one time

Duellings == 1..NumDuels

ASSUME DuelsAssumption ==
  /\ None \notin Chars /\ Outlaws \subseteq Chars
  /\ MaxHP \in Nat /\ TenthHP \in 0..MaxHP
  /\ Damages \subseteq Nat /\ NumDuels \in Nat /\ MaxLate \in Nat
  /\ MaxClosing \in Nat /\ MaxDead \in Nat

VARIABLES
  life,        \* "online"; "leaving": logged out but registered; "stuck": its logout
               \* was broken off; "off"
  hp,          \* Stat.HP; what is below zero counts as zero
  respawning,  \* Character.Respawning
  duel,        \* Character.DuelID
  started,     \* Character.DuelStarted
  count,       \* count[c]: duels whose countdown for c has not come to its end
  late,        \* characters for whom HandleBuffs of the opponent has set a timer
  closing,     \* the ends of duels that wait for their write: whose duels they will
               \* clear (None: that one's object has gone), of: history, the duel they end
  made,        \* history: duels begun so far
  current,     \* history: current[c]: the duel that c is in, or 0
  revived,     \* history: characters that got health while Respawning
  early,       \* history: characters whose duel was not started by its own countdown
  stale        \* history: characters whose opponent has begun another duel, or lost it
               \* by the end of another duel, or was leaving when the duel began

fight  == <<hp, respawning, revived>>
duels  == <<duel, started, count, late, closing, made, current, early, stale>>
vars   == <<life, fight, duels>>

Online(c)     == life[c] = "online"
Registered(c) == life[c] # "off"
InDuel(c)     == duel[c] # None
\* The countdown of the duel of c is not over.
Counting(c)   == current[c] \in count[c]

-----------------------------------------------------------------------------
(* The beginning of a duel *)

\* Who has a duel with one of S, and is not one of S.
Opposing(S) == {x \in Chars \ S : duel[x] \in S}

\* c accepts: it is tested that the one named has no duel, and nothing else.
RespondPvP(c, o) ==
  /\ Online(c) /\ Registered(o)
  /\ ~InDuel(o)
  /\ made < NumDuels
  /\ made' = made + 1
  /\ duel' = [duel EXCEPT ![c] = o, ![o] = c]
  /\ count' = [count EXCEPT ![c] = @ \cup {made'}, ![o] = @ \cup {made'}]
  /\ current' = [current EXCEPT ![c] = made', ![o] = made']
  /\ early' = early \cup {x \in {c, o} : started[x]}
  /\ stale' = (stale \ {c, o}) \cup Opposing({c, o})
                 \cup (IF life[o] = "leaving" THEN {c, o} ELSE {})
  /\ UNCHANGED <<life, fight, started, late, closing>>

\* StartPvP(0), the last call of a countdown: whatever duel c is in by now.
StartPvP(c, n) ==
  /\ n \in count[c]
  /\ count' = [count EXCEPT ![c] = @ \ {n}]
  /\ started' = [started EXCEPT ![c] = @ \/ InDuel(c)]
  /\ early' = IF ~InDuel(c) THEN early
              ELSE IF current[c] \in count'[c] THEN early \cup {c} ELSE early \ {c}
  /\ UNCHANGED <<life, fight, duel, late, closing, made, current, stale>>

\* HandleBuffs: the invisibility of c has expired; its opponent is to be shown it.
BuffExpires(c) ==
  /\ Online(c) /\ InDuel(c) /\ Registered(duel[c])
  /\ late' = late \cup {duel[c]}
  /\ Cardinality(late') <= MaxLate
  /\ UNCHANGED <<life, fight, duel, started, count, closing, made, current, early, stale>>

\* ... by OnDuelStarted, a second later.
OnDuelStarted(c) ==
  /\ c \in late /\ late' = late \ {c}
  /\ started' = [started EXCEPT ![c] = TRUE]
  /\ early' = IF InDuel(c) /\ ~Counting(c) THEN early ELSE early \cup {c}
  /\ UNCHANGED <<life, fight, duel, count, closing, made, current, stale>>

-----------------------------------------------------------------------------
(* The end of a duel *)

\* Those of S have no duel any more: the end of duel n.  Who has another duel with one of
\* them is left alone.
Cleared(S, n) ==
  /\ duel' = [x \in Chars |-> IF x \in S THEN None ELSE duel[x]]
  /\ started' = [x \in Chars |-> started[x] /\ x \notin S]
  /\ current' = [x \in Chars |-> IF x \in S THEN 0 ELSE current[x]]
  /\ early' = early \ S
  /\ stale' = (stale \ S) \cup {x \in Opposing(S) : current[x] # n}
  /\ UNCHANGED <<count, late, made>>

\* MovementHandler, too far from the opponent: both are cleared before anything is written.
MoveAway(c) ==
  /\ Online(c) /\ InDuel(c)
  /\ Cleared({c, duel[c]}, current[c])
  /\ UNCHANGED <<life, fight, closing>>

\* EndPvP, called by Logout or ChangeMap, up to its write to the opponent, which panics when
\* the opponent has no Socket.  (Bound: a character is in one call of ChangeMap at a time.)
EndPvP(c, caller) ==
  IF InDuel(c)
  THEN /\ Registered(duel[c])
       /\ \A e \in closing : ~(e.who = c /\ e.by = caller)
       /\ closing' = closing \cup
            {[who |-> c, opponent |-> duel[c], of |-> current[c], by |-> caller]}
       /\ Cardinality(closing') <= MaxClosing
       /\ UNCHANGED <<duel, started, count, late, made, current, early, stale>>
  ELSE UNCHANGED duels

\* The write has returned: EndPvP clears its two characters, whatever duels they are in now.
FinishEndPvP(e) ==
  /\ e.by # "death" /\ closing' = closing \ {e}
  /\ Cleared({e.who, e.opponent} \ {None}, e.of)
  /\ UNCHANGED <<life, fight>>

ChangeMap(c) ==
  /\ Online(c) /\ InDuel(c)
  /\ EndPvP(c, "map")
  /\ UNCHANGED <<life, fight>>

\* Logout, up to the write of EndPvP.
Logout(c) ==
  /\ Online(c)
  /\ EndPvP(c, "logout")
  /\ life' = [life EXCEPT ![c] = "leaving"]
  /\ UNCHANGED fight

\* The panic of EndPvP ends Logout: nothing is saved, and the object stays.
LogoutBreaksOff(c) ==
  /\ Online(c) /\ InDuel(c) /\ ~Registered(duel[c])
  /\ life' = [life EXCEPT ![c] = "stuck"]
  /\ UNCHANGED <<fight, duels>>

\* A call that waits holds the object that c was, and not the one that comes after it.
Without(e, c) ==
  [e EXCEPT !.who = IF @ = c THEN None ELSE @, !.opponent = IF @ = c THEN None ELSE @]

\* The rest of Logout: the object leaves the register and the cache, with its timers.
Leave(c) ==
  /\ life[c] = "leaving"
  /\ \A e \in closing : ~(e.who = c /\ e.by = "logout")
  /\ life' = [life EXCEPT ![c] = "off"]
  /\ duel' = [duel EXCEPT ![c] = None]
  /\ started' = [started EXCEPT ![c] = FALSE]
  /\ count' = [count EXCEPT ![c] = {}]
  /\ late' = late \ {c}
  /\ current' = [current EXCEPT ![c] = 0]
  /\ early' = early \ {c}
  /\ stale' = stale \ {c}
  /\ closing' = {Without(e, c) : e \in closing}
  /\ respawning' = [respawning EXCEPT ![c] = FALSE]
  /\ revived' = revived \ {c}
  /\ UNCHANGED <<hp, made>>

-----------------------------------------------------------------------------
(* Blows, death and respawn *)

Dead == {c \in Chars : hp[c] = 0 \/ respawning[c]}

MinusMutant(h, d) == h - d
Minus(h, d) == IF h > d THEN h - d ELSE 0

StartGameMutant(c) ==
  /\ life[c] \in {"off", "stuck"}
  /\ life' = [life EXCEPT ![c] = "online"]
  /\ hp' = [hp EXCEPT ![c] = IF @ = 0 THEN TenthHP ELSE @]
  /\ revived' = revived \ {c}
  /\ UNCHANGED <<respawning, duels>>

\* Started with the object that a broken logout has left, or a new one.
StartGame(c) ==
  /\ life[c] \in {"off", "stuck"}
  /\ life' = [life EXCEPT ![c] = "online"]
  /\ hp' = [hp EXCEPT ![c] = IF @ = 0 THEN TenthHP ELSE @]
  /\ respawning' = [respawning EXCEPT ![c] = FALSE]
  /\ revived' = revived \ {c}
  /\ UNCHANGED duels

\* DealDamageHandler tests CanAttack, DealDamageToPlayer the health; part of the blow may
\* be reflected (buff 213).  That it lands a little later is like a hit of a mob.
CanAttack(c, e) == (duel[c] = e /\ started[c]) \/ c \in Outlaws

DealDamage(c, e) ==
  /\ Online(c) /\ Registered(e)
  /\ CanAttack(c, e) /\ hp[e] > 0
  /\ \E d \in Damages, r \in Damages \cup {0} :
       hp' = [hp EXCEPT ![e] = Minus(@, d), ![c] = Minus(@, r)]
  /\ UNCHANGED <<life, respawning, revived, duels>>
  /\ Cardinality(Dead') <= MaxDead

\* AI.DealDamage.
MobHits(c) ==
  /\ Online(c)
  /\ \E d \in Damages : hp' = [hp EXCEPT ![c] = Minus(@, d)]
  /\ UNCHANGED <<life, respawning, revived, duels>>
  /\ Cardinality(Dead') <= MaxDead

\* Handler of a character whose health has run out: its own duel is cleared before the write,
\* that of the opponent after it.  An opponent without Socket is not reached: Handler panics,
\* and closes the connection (Logout).
Die(c) ==
  /\ Online(c) /\ hp[c] = 0 /\ ~respawning[c]
  /\ respawning' = [respawning EXCEPT ![c] = TRUE]
  /\ closing' = IF InDuel(c) /\ Registered(duel[c])
                THEN closing \cup {[who |-> None, opponent |-> duel[c], of |-> current[c],
                                    by |-> "death"]}
                ELSE closing
  /\ Cardinality(closing') <= MaxClosing
  /\ duel' = [duel EXCEPT ![c] = None]
  /\ started' = [started EXCEPT ![c] = @ /\ ~InDuel(c)]
  /\ current' = [current EXCEPT ![c] = 0]
  /\ early' = IF InDuel(c) THEN early \ {c} ELSE early
  /\ stale' = stale \ {c}
  /\ UNCHANGED <<life, hp, revived, count, late, made>>

FinishDeathMutant(e) ==
  /\ e.by = "death" /\ closing' = closing \ {e}
  /\ UNCHANGED <<life, fight, duel, started, count, late, made, current, early, stale>>

\* ... Handler clears the opponent, whatever duel it is in by now.
FinishDeath(e) ==
  /\ e.by = "death" /\ closing' = closing \ {e}
  /\ Cleared({e.opponent} \ {None}, e.of)
  /\ UNCHANGED <<life, fight>>

\* Handler gives the living some health, and so do potions.  A new level (AddExp) gives it
\* to the dead too, and so do skill 41700 and a potion if the hit comes after its test.
Heal(c) ==
  /\ Online(c)
  /\ \E h \in (hp[c] + 1)..MaxHP : hp' = [hp EXCEPT ![c] = h]
  /\ revived' = IF respawning[c] THEN revived \cup {c} ELSE revived
  /\ UNCHANGED <<life, respawning, duels>>

\* RespawnHandler, in the safe zone or, for gold, on the spot: it does not ask who is dead.
Respawn(c) ==
  /\ Online(c)
  /\ \E h \in {MaxHP, TenthHP} : hp' = [hp EXCEPT ![c] = h]
  /\ respawning' = [respawning EXCEPT ![c] = FALSE]
  /\ revived' = revived \ {c}
  /\ UNCHANGED <<life, duels>>

-----------------------------------------------------------------------------
Init ==
  /\ life = [c \in Chars |-> "online"]
  /\ hp = [c \in Chars |-> MaxHP]
  /\ respawning = [c \in Chars |-> FALSE]
  /\ duel = [c \in Chars |-> None]
  /\ started = [c \in Chars |-> FALSE]
  /\ count = [c \in Chars |-> {}]
  /\ late = {}
  /\ closing = {}
  /\ made = 0
  /\ current = [c \in Chars |-> 0]
  /\ revived = {} /\ early = {} /\ stale = {}

Begins(c) == (\E o \in Chars : RespondPvP(c, o)) \/ (\E n \in Duellings : StartPvP(c, n))
Ends(c)   == MoveAway(c) \/ ChangeMap(c) \/ Logout(c) \/ LogoutBreaksOff(c) \/ Leave(c)
Fights(c) == (\E e \in Chars : DealDamage(c, e)) \/ MobHits(c)
Ticks(c)  == BuffExpires(c) \/ OnDuelStarted(c) \/ Die(c)
Lives(c)  == StartGame(c) \/ Heal(c) \/ Respawn(c)

Finishes  == \E e \in closing : FinishEndPvP(e) \/ FinishDeath(e)

Next == Finishes \/ \E c \in Chars : Begins(c) \/ Ends(c) \/ Fights(c) \/ Ticks(c) \/ Lives(c)

Spec == Init /\ [][Next]_vars

-----------------------------------------------------------------------------
(* Properties *)

\* The ends of duels that may wait for a write.
Calls == [who : Chars \cup {None}, opponent : Chars \cup {None}, of : 0..NumDuels,
          by : {"map", "logout", "death"}]

\* The types of the variables.
TypeOK ==
  /\ life \in [Chars -> {"online", "leaving", "stuck", "off"}]
  /\ hp \in [Chars -> 0..MaxHP]
  /\ respawning \in [Chars -> BOOLEAN]
  /\ duel \in [Chars -> Chars \cup {None}]
  /\ started \in [Chars -> BOOLEAN]
  /\ count \in [Chars -> SUBSET Duellings]
  /\ late \subseteq Chars
  /\ closing \subseteq Calls
  /\ made \in 0..NumDuels
  /\ current \in [Chars -> 0..NumDuels]
  /\ revived \subseteq Chars /\ early \subseteq Chars /\ stale \subseteq Chars

\* The end of the duel of c waits for its write, and will reach c.
Closing(c) == \E e \in closing : e.of = current[c] /\ c \in {e.who, e.opponent}

\* A duel has two parties: who is in one has an opponent that is in it, too, and that can
\* be reached, or its duel is about to be ended (Closing).  So nobody stays behind in a duel
\* that its opponent has left by death, logout, or a change of map; but for those whose
\* opponent is taken away by the beginning or the end of another duel, or was leaving when
\* the duel began (stale).
DuelOfTwo ==
  \A c \in Chars \ stale :
    InDuel(c) /\ ~Closing(c) => duel[duel[c]] = c /\ Registered(duel[c])

\* Who may strike in a duel is in one, and its countdown is over, but for what an older
\* countdown, a timer of HandleBuffs or a second answer have done (early).
StartedByCount ==
  \A c \in Chars \ early : started[c] => InDuel(c) /\ ~Counting(c)

\* A duel is one of two that begins after its own countdown (both of the above).
DuelIsRegular == DuelOfTwo /\ StartedByCount

\* Who waits to respawn has no health, so that its next death will be noticed (Die tests
\* Respawning), unless it got health while it was waiting (revived).
DeathIsNoticed == \A c \in Chars \ revived : respawning[c] => hp[c] = 0
=============================================================================
