---------------------------- MODULE GuildProofs ----------------------------
(***************************************************************************)
(* Theorems about Guild for any number of characters, guilds and handlers: *)
(* the types, that ids, lists and donations agree (GuildsAgree), and that  *)
(* a guild keeps its leader (GuildsAreLed).                                *)
(*                                                                         *)
(* GuildsAgree is not inductive: what a handler does after it has waited   *)
(* is right because of what its own waiting keeps from the others.         *)
(* Waiting says what that is, Fresh that nobody is listed by a guild that  *)
(* is not there, and Settled that who is in no guild has nothing given.    *)
(***************************************************************************)
EXTENDS Guild, FiniteSetTheorems, TLAPS

\* A guild that is not there lists nobody; so is every one not founded yet.
Fresh ==
  \A g \in Gids :
    /\ leader[g] = None => \A c \in Chars : entries[g][c] = 0
    /\ g > made => leader[g] = None

\* A founder can pay and a joiner is free, as long as they wait; who is in a guild that
\* is being dissolved, and is not odd, has still to be told.
Waiting ==
  \A c \in Chars :
    /\ c \in deleted => guildOf[c] = None /\ call[c] = None
    /\ Called(c, "create") => guildOf[c] = None /\ gold[c] >= Price
    /\ Called(c, "accept") => guildOf[c] = None
    /\ Called(c, "dissolve") =>
         /\ call[c].guild \in Gids /\ leader[call[c].guild] = c
         /\ \A m \in Chars \ odd : guildOf[m] = call[c].guild => m \in rest[c]

\* Who is in no guild has nothing given, but the deleted and a leader that dissolves.
Settled ==
  \A c \in Chars \ odd :
    guildOf[c] = None /\ given[c] > 0 =>
      c \in deleted \/ (Called(c, "dissolve") /\ c \in rest[c])

\* What every step keeps, besides the types and the donations.
Ties == Fresh /\ Waiting /\ Settled /\ GuildLists /\ ListedBelong

\* Handlers that begin, find nothing, or change only asked and role.
Talk ==
  \E c, x \in Chars :
    \/ BeginCreate(c) \/ NoGuild(c) \/ BeginAccept(c, x) \/ Invite(c, x)
    \/ \E op \in Ops : BeginMember(c, op, x)
    \/ \E r \in NewRoles : ChangeRole(c, x, r)

\* An action of Guild (a disjunct of Next), for the case splits below.
Step ==
  \/ Talk
  \/ \E c \in Chars :
       \/ FinishCreate(c) \/ FinishAccept(c) \/ Expel(c) \/ Leave(c) \/ BeginDissolve(c)
       \/ FinishDissolve(c) \/ Donate(c) \/ ChangeFaction(c) \/ DeleteCharacter(c)
       \/ \E m \in Chars : ResetMember(c, m)

\* Every step of Next is one of these.
LEMMA NextIsStep == Next => Step
  BY DEF Next, Step, Talk

-----------------------------------------------------------------------------
\* Waiting for a guild, or being done, keeps the type of what is waited for.
LEMMA WaitType ==
  ASSUME TypeOK, NEW c \in Chars, NEW op \in Ops, NEW g \in 0..MaxGuilds, NEW who \in Chars,
         Wait(c, op, g, who) \/ Done(c)
  PROVE  call' \in [Chars -> Calls \cup {None}]
  BY DEF TypeOK, Wait, Done, Calls

\* Joining, leaving and dissolving keep the types of the lists.
LEMMA ListType ==
  ASSUME TypeOK, NEW g \in Gids, NEW c \in Chars, NEW r \in Roles,
         \/ AddMember(g, c, r) \/ RemoveMember(g, c)
         \/ DeleteGuild(g)
  PROVE  entries' \in [Gids -> [Chars -> Nat]] /\ role' \in [Gids -> [Chars -> Roles]]
<1>1. CASE AddMember(g, c, r)
  BY <1>1 DEF TypeOK, AddMember
<1>2. CASE RemoveMember(g, c)
  BY <1>2 DEF TypeOK, RemoveMember, Roles, GROLE_MEMBER
<1>3. CASE DeleteGuild(g)
  BY <1>3 DEF TypeOK, DeleteGuild, Roles, GROLE_MEMBER
<1> QED
  BY <1>1, <1>2, <1>3

\* A character that loses its guild.
LEMMA ResetType ==
  ASSUME TypeOK, NEW g, NEW m \in Chars, Reset(g, m)
  PROVE  /\ guildOf' \in [Chars -> Gids \cup {None}] /\ given' \in [Chars -> Nat]
         /\ odd' \subseteq Chars
  BY DEF TypeOK, Reset

\* Talk keeps the types.
LEMMA TalkType ==
  ASSUME TypeOK, Talk
  PROVE  TypeOK'
<1> USE GuildAssumption
<1>1. PICK c \in Chars, x \in Chars :
        \/ BeginCreate(c) \/ NoGuild(c) \/ BeginAccept(c, x) \/ Invite(c, x)
        \/ \E op \in Ops : BeginMember(c, op, x)
        \/ \E r \in NewRoles : ChangeRole(c, x, r)
  BY DEF Talk
<1>2. 0 \in 0..MaxGuilds /\ Gids \subseteq 0..MaxGuilds /\ {"create", "accept"} \subseteq Ops
  BY DEF Gids, Ops
<1>3. CASE BeginCreate(c)
  BY <1>2, <1>3, WaitType DEF BeginCreate, TypeOK, characters, guilds
<1>4. CASE NoGuild(c)
  BY <1>2, <1>4, WaitType DEF NoGuild, Returns, TypeOK, characters, guilds
<1>5. CASE BeginAccept(c, x)
  <2>1. call' \in [Chars -> Calls \cup {None}]
    BY <1>2, <1>5, WaitType DEF BeginAccept, TypeOK
  <2>2. asked' \in [Chars -> SUBSET Chars]
    BY <1>5 DEF BeginAccept, TypeOK
  <2> QED
    BY <1>5, <2>1, <2>2 DEF BeginAccept, TypeOK, characters, guilds
<1>6. CASE Invite(c, x)
  <2>1. asked' \in [Chars -> SUBSET Chars]
    BY <1>6 DEF Invite, TypeOK, Exists
  <2> QED
    BY <1>6, <2>1 DEF Invite, TypeOK, characters, guilds
<1>7. CASE \E op \in Ops : BeginMember(c, op, x)
  <2>1. call' \in [Chars -> Calls \cup {None}]
    BY <1>2, <1>7, WaitType DEF BeginMember, TypeOK
  <2> QED
    BY <1>7, <2>1 DEF BeginMember, TypeOK, characters, guilds
<1>8. CASE \E r \in NewRoles : ChangeRole(c, x, r)
  <2>1. role' \in [Gids -> [Chars -> Roles]]
    BY <1>8 DEF ChangeRole, TypeOK
  <2> QED
    BY <1>8, <2>1 DEF ChangeRole, TypeOK, characters
<1> QED
  BY <1>1, <1>3, <1>4, <1>5, <1>6, <1>7, <1>8

\* Every step keeps the types, while a founder can pay.
LEMMA StepType ==
  ASSUME TypeOK, Waiting, Step
  PROVE  TypeOK'
<1> USE GuildAssumption
<1>1. 0 \in 0..MaxGuilds /\ Gids \subseteq 0..MaxGuilds /\ "dissolve" \in Ops
      /\ GROLE_MEMBER \in Roles /\ GROLE_LEADER \in Roles
  BY DEF Gids, Ops, Roles, GROLE_MEMBER, GROLE_LEADER
<1>2. ASSUME NEW c \in Chars, FinishCreate(c) PROVE TypeOK'
  <2>1. call' \in [Chars -> Calls \cup {None}]
    BY <1>1, <1>2, WaitType DEF FinishCreate, Returns
  <2>2. CASE Returns(c)
    BY <2>1, <2>2 DEF Returns, TypeOK, characters, guilds
  <2>3. CASE ~Returns(c)
    <3>1. made' \in Gids /\ AddMember(made', c, GROLE_LEADER) /\ made' = made + 1
      BY <1>2, <2>3 DEF FinishCreate
    <3>2. entries' \in [Gids -> [Chars -> Nat]] /\ role' \in [Gids -> [Chars -> Roles]]
      BY <1>1, <3>1, ListType
    <3>3. gold[c] >= Price
      BY <1>2 DEF FinishCreate, Waiting
    <3>4. gold' \in [Chars -> Nat]
      BY <1>2, <2>3, <3>3 DEF FinishCreate, TypeOK
    <3>5. guildOf' \in [Chars -> Gids \cup {None}] /\ leader' \in [Gids -> Chars \cup {None}]
      BY <1>2, <2>3, <3>1 DEF FinishCreate, TypeOK
    <3> QED
      BY <1>1, <1>2, <2>1, <2>3, <3>1, <3>2, <3>4, <3>5 DEF FinishCreate, TypeOK
  <2> QED
    BY <2>2, <2>3
<1>3. ASSUME NEW c \in Chars, FinishAccept(c) PROVE TypeOK'
  <2>1. call' \in [Chars -> Calls \cup {None}]
    BY <1>1, <1>3, WaitType DEF FinishAccept
  <2>2. call[c].guild \in Gids
    BY <1>3 DEF FinishAccept, Exists
  <2>3. entries' \in [Gids -> [Chars -> Nat]] /\ role' \in [Gids -> [Chars -> Roles]]
    BY <1>1, <1>3, <2>2, ListType DEF FinishAccept
  <2>4. guildOf' \in [Chars -> Gids \cup {None}] /\ odd' \subseteq Chars
    BY <1>3, <2>2 DEF FinishAccept, TypeOK
  <2> QED
    BY <1>3, <2>1, <2>3, <2>4 DEF FinishAccept, TypeOK
<1>4. ASSUME NEW c \in Chars, Expel(c) PROVE TypeOK'
  <2>1. call' \in [Chars -> Calls \cup {None}]
    BY <1>1, <1>4, WaitType DEF Expel
  <2>2. call[c].guild \in Gids /\ call[c].who \in Chars
    BY <1>4 DEF Expel, Exists, Called, TypeOK, Calls
  <2>3. entries' \in [Gids -> [Chars -> Nat]] /\ role' \in [Gids -> [Chars -> Roles]]
    BY <1>1, <1>4, <2>2, ListType DEF Expel, TypeOK
  <2>4. /\ guildOf' \in [Chars -> Gids \cup {None}] /\ given' \in [Chars -> Nat]
        /\ odd' \subseteq Chars
    BY <1>4, <2>2, ResetType DEF Expel, TypeOK
  <2> QED
    BY <1>4, <2>1, <2>3, <2>4 DEF Expel, TypeOK
<1>5. ASSUME NEW c \in Chars, Leave(c) PROVE TypeOK'
  <2>1. guildOf[c] \in Gids
    BY <1>5 DEF Leave, Exists
  <2>2. entries' \in [Gids -> [Chars -> Nat]] /\ role' \in [Gids -> [Chars -> Roles]]
    BY <1>1, <1>5, <2>1, ListType DEF Leave
  <2> QED
    BY <1>5, <2>2, ResetType DEF Leave, TypeOK
<1>6. ASSUME NEW c \in Chars, BeginDissolve(c) PROVE TypeOK'
  <2>1. call' \in [Chars -> Calls \cup {None}]
    BY <1>1, <1>6, WaitType DEF BeginDissolve, Exists
  <2>2. guildOf' \in [Chars -> Gids \cup {None}] /\ odd' \subseteq Chars
    BY <1>6 DEF BeginDissolve, TypeOK
  <2>3. rest' \in [Chars -> SUBSET Chars]
    BY <1>6 DEF BeginDissolve, TypeOK
  <2> QED
    BY <1>6, <2>1, <2>2, <2>3 DEF BeginDissolve, TypeOK, guilds
<1>7. ASSUME NEW c \in Chars, FinishDissolve(c) PROVE TypeOK'
  <2>1. call' \in [Chars -> Calls \cup {None}]
    BY <1>1, <1>7, WaitType DEF FinishDissolve
  <2>2. call[c].guild \in Gids
    BY <1>7 DEF FinishDissolve, Waiting
  <2>3. entries' \in [Gids -> [Chars -> Nat]] /\ role' \in [Gids -> [Chars -> Roles]]
    BY <1>1, <1>7, <2>2, ListType DEF FinishDissolve
  <2>4. leader' \in [Gids -> Chars \cup {None}] /\ donation' \in [Gids -> Nat]
    BY <1>7 DEF FinishDissolve, DeleteGuild, TypeOK
  <2> QED
    BY <1>7, <2>1, <2>3, <2>4 DEF FinishDissolve, TypeOK, characters
<1>8. ASSUME NEW c \in Chars, Donate(c) PROVE TypeOK'
  <2>1. PICK n \in 0..gold[c] :
          /\ gold' = [gold EXCEPT ![c] = @ - n]
          /\ given' = [given EXCEPT ![c] = @ + n]
          /\ donation' = [donation EXCEPT ![guildOf[c]] = @ + n]
    BY <1>8 DEF Donate
  <2>2. n \in Nat /\ gold[c] - n \in Nat
    BY <2>1 DEF TypeOK
  <2>3. gold' \in [Chars -> Nat]
    BY <2>1, <2>2 DEF TypeOK
  <2>4. given' \in [Chars -> Nat]
    BY <2>1, <2>2 DEF TypeOK
  <2>5. donation' \in [Gids -> Nat]
    <3>1. ASSUME NEW g \in Gids PROVE donation'[g] \in Nat
      BY <2>1, <2>2 DEF TypeOK
    <3> QED
      BY <2>1, <3>1 DEF TypeOK
  <2> QED
    BY <1>8, <2>3, <2>4, <2>5 DEF Donate, TypeOK
<1>9. ASSUME NEW c \in Chars, ChangeFaction(c) PROVE TypeOK'
  BY <1>9 DEF ChangeFaction, TypeOK, guilds
<1>10. ASSUME NEW c \in Chars, DeleteCharacter(c) PROVE TypeOK'
  <2>1. /\ guildOf' \in [Chars -> Gids \cup {None}] /\ asked' \in [Chars -> SUBSET Chars]
        /\ deleted' \subseteq Chars /\ odd' \subseteq Chars
    BY <1>10 DEF DeleteCharacter, TypeOK
  <2>2. entries' \in [Gids -> [Chars -> Nat]] /\ role' \in [Gids -> [Chars -> Roles]]
    BY <1>1, <1>10, ListType DEF DeleteCharacter, Exists, TypeOK
  <2>3. \/ UNCHANGED <<leader, donation>>
        \/ \E g \in Gids : DeleteGuild(g)
    BY <1>10 DEF DeleteCharacter, Exists
  <2>4. leader' \in [Gids -> Chars \cup {None}]
    BY <2>3 DEF DeleteGuild, TypeOK
  <2>5. donation' \in [Gids -> Nat]
    <3>1. ASSUME NEW g \in Gids, DeleteGuild(g) PROVE donation' \in [Gids -> Nat]
      BY <3>1 DEF DeleteGuild, TypeOK
    <3> QED
      BY <2>3, <3>1 DEF TypeOK
  <2> QED
    BY <1>10, <2>1, <2>2, <2>4, <2>5 DEF DeleteCharacter, TypeOK
<1>11. ASSUME NEW c \in Chars, NEW m \in Chars, ResetMember(c, m) PROVE TypeOK'
  <2>1. rest' \in [Chars -> SUBSET Chars]
    BY <1>11 DEF ResetMember, TypeOK
  <2>2. /\ guildOf' \in [Chars -> Gids \cup {None}] /\ given' \in [Chars -> Nat]
        /\ odd' \subseteq Chars
    BY <1>11, ResetType DEF ResetMember, TypeOK
  <2> QED
    BY <1>11, <2>1, <2>2 DEF ResetMember, TypeOK, guilds
<1> QED
  BY TalkType, <1>2, <1>3, <1>4, <1>5, <1>6, <1>7, <1>8, <1>9, <1>10, <1>11 DEF Step

-----------------------------------------------------------------------------
\* A handler that begins or returns, where nothing else changes: who begins to found or
\* to join is free, and nobody begins or ends to dissolve.
LEMMA CallTies ==
  ASSUME TypeOK, Ties, NEW c \in Chars,
         UNCHANGED <<guildOf, given, gold, deleted, made, leader, entries, rest, odd>>,
         \A m \in Chars \ {c} : call'[m] = call[m],
         call'[c] # call[c] => ~Called(c, "dissolve") /\ ~Called(c, "dissolve")',
         Called(c, "create")' => guildOf[c] = None /\ gold[c] >= Price,
         Called(c, "accept")' => guildOf[c] = None,
         c \in deleted => call'[c] = call[c]
  PROVE  Ties'
<1>1. Fresh' /\ GuildLists'
  BY DEF Ties, Fresh, GuildLists
<1>2. Waiting'
  BY DEF Ties, Waiting, Called
<1>3. Settled'
  BY DEF Ties, Settled, Called
<1>4. ListedBelong'
  BY DEF Ties, ListedBelong, Called, Dissolving, Listed
<1> QED
  BY <1>1, <1>2, <1>3, <1>4 DEF Ties

\* Talk keeps it.
LEMMA TalkTies ==
  ASSUME TypeOK, Ties, Talk
  PROVE  Ties'
<1> USE GuildAssumption
<1>1. PICK c \in Chars, x \in Chars :
        \/ BeginCreate(c) \/ NoGuild(c) \/ BeginAccept(c, x) \/ Invite(c, x)
        \/ \E op \in Ops : BeginMember(c, op, x)
        \/ \E r \in NewRoles : ChangeRole(c, x, r)
  BY DEF Talk
<1>2. /\ UNCHANGED <<guildOf, given, gold, deleted, made, leader, entries, donation, rest, odd>>
      /\ \A m \in Chars \ {c} : call'[m] = call[m]
  BY <1>1 DEF BeginCreate, NoGuild, BeginAccept, Invite, BeginMember, ChangeRole, Returns, Done,
              Wait, characters, guilds, TypeOK
<1>3. /\ call'[c] # call[c] => ~Called(c, "dissolve") /\ ~Called(c, "dissolve")'
      /\ Called(c, "create")' => guildOf[c] = None /\ gold[c] >= Price
      /\ Called(c, "accept")' => guildOf[c] = None
      /\ c \in deleted => call'[c] = call[c]
  <2>1. CASE call'[c] = call[c]
    BY <1>2, <2>1 DEF Called, Ties, Waiting
  <2>2. CASE BeginCreate(c)
    BY <2>2 DEF BeginCreate, Wait, Called, Idle, TypeOK
  <2>3. CASE NoGuild(c)
    BY <2>3 DEF NoGuild, Returns, Done, Called, TypeOK, Ties, Waiting
  <2>4. CASE BeginAccept(c, x) /\ call'[c] # call[c]
    BY <2>4 DEF BeginAccept, Wait, Called, Idle, TypeOK
  <2>5. CASE \E op \in Ops : BeginMember(c, op, x)
    BY <2>5 DEF BeginMember, Wait, Called, Idle, TypeOK
  <2>6. CASE Invite(c, x) \/ \E r \in NewRoles : ChangeRole(c, x, r)
    BY <2>1, <2>6 DEF Invite, ChangeRole
  <2> QED
    BY <1>1, <2>1, <2>2, <2>3, <2>4, <2>5, <2>6
<1> QED
  BY <1>2, <1>3, CallTies

\* A founder: it was free, and the guild is a new one.
LEMMA CreateTies ==
  ASSUME TypeOK, Ties, NEW c \in Chars, FinishCreate(c)
  PROVE  Ties'
<1> USE GuildAssumption
<1>1. CASE Returns(c)
  <2>1. Called(c, "create") /\ call'[c] = None
    BY <1>1 DEF FinishCreate, Returns, Done, TypeOK
  <2>2. c \notin deleted
    BY <2>1 DEF Called, Ties, Waiting
  <2>3. \A m \in Chars \ {c} : call'[m] = call[m]
    BY <1>1 DEF Returns, Done, TypeOK
  <2> QED
    BY <1>1, <2>1, <2>2, <2>3, CallTies DEF Returns, Called, characters, guilds
<1>2. CASE ~Returns(c)
  <2> DEFINE g == made + 1
  <2>1. /\ Called(c, "create") /\ g \in Gids /\ made' = g
        /\ leader' = [leader EXCEPT ![g] = c] /\ AddMember(g, c, GROLE_LEADER)
        /\ guildOf' = [guildOf EXCEPT ![c] = g] /\ Done(c)
        /\ UNCHANGED <<given, deleted, rest, odd>>
        /\ gold' = [gold EXCEPT ![c] = @ - Price]
    BY <1>2 DEF FinishCreate
  <2>2. /\ guildOf[c] = None /\ c \notin deleted /\ leader[g] = None
        /\ \A m \in Chars : entries[g][m] = 0 /\ (m \notin odd => guildOf[m] # g)
    BY <2>1 DEF Called, Ties, Waiting, Fresh, GuildLists, TypeOK
  <2>3. /\ guildOf'[c] = g /\ call'[c] = None
        /\ \A m \in Chars \ {c} : guildOf'[m] = guildOf[m] /\ call'[m] = call[m]
                                  /\ gold'[m] = gold[m]
    BY <2>1 DEF Done, TypeOK
  <2>4. /\ leader'[g] = c /\ entries'[g][c] = 1
        /\ \A m \in Chars \ {c} : entries'[g][m] = 0
        /\ \A h \in Gids \ {g} : leader'[h] = leader[h] /\ entries'[h] = entries[h]
    BY <2>1, <2>2 DEF AddMember, TypeOK
  <2>5. Fresh'
    BY <2>1, <2>4 DEF Ties, Fresh, Gids, TypeOK
  <2>6. Waiting'
    BY <2>1, <2>2, <2>3, <2>4 DEF Ties, Waiting, Called
  <2>7. Settled'
    BY <2>1, <2>3 DEF Ties, Settled, Called, Gids
  <2>8. GuildLists'
    BY <2>1, <2>2, <2>3, <2>4 DEF Ties, GuildLists
  <2>9. ListedBelong'
    <3>1. \A h \in Gids : Dissolving(h) => Dissolving(h)'
      BY <2>1, <2>3 DEF Dissolving, Called
    <3> QED
      BY <2>1, <2>2, <2>3, <2>4, <3>1 DEF Ties, ListedBelong, Listed
  <2> QED
    BY <2>5, <2>6, <2>7, <2>8, <2>9 DEF Ties
<1> QED
  BY <1>1, <1>2

\* A joiner: it was free, had nothing given, and is odd where the guild is dissolved.
LEMMA AcceptTies ==
  ASSUME TypeOK, Ties, NEW c \in Chars, FinishAccept(c)
  PROVE  Ties'
<1> USE GuildAssumption
<1> DEFINE g == call[c].guild
<1>1. /\ Called(c, "accept") /\ g \in Gids /\ leader[g] # None
      /\ AddMember(g, c, GROLE_MEMBER)
      /\ guildOf' = [guildOf EXCEPT ![c] = g] /\ Done(c)
      /\ odd' = odd \cup IF Dissolving(g) THEN {c} ELSE {}
      /\ UNCHANGED <<given, gold, deleted, made, leader, rest>>
  BY DEF FinishAccept, Exists
<1>2. guildOf[c] = None /\ c \notin deleted
  BY <1>1 DEF Called, Ties, Waiting
<1>3. /\ guildOf'[c] = g /\ call'[c] = None
      /\ \A m \in Chars \ {c} : guildOf'[m] = guildOf[m] /\ call'[m] = call[m]
  BY <1>1 DEF Done, TypeOK
<1>4. /\ entries'[g][c] = entries[g][c] + 1
      /\ \A h \in Gids, m \in Chars : h # g \/ m # c => entries'[h][m] = entries[h][m]
  BY <1>1 DEF AddMember, TypeOK
<1>5. c \notin odd' => ~Dissolving(g) /\ entries[g][c] = 0 /\ given[c] = 0
  BY <1>1, <1>2 DEF Ties, ListedBelong, Listed, Settled, Called, TypeOK
<1>6. Fresh'
  BY <1>1, <1>4 DEF Ties, Fresh
<1>7. Waiting'
  BY <1>1, <1>2, <1>3, <1>5 DEF Ties, Waiting, Called, Dissolving
<1>8. Settled'
  BY <1>1, <1>3 DEF Ties, Settled, Called
<1>9. GuildLists'
  BY <1>1, <1>3, <1>4, <1>5 DEF Ties, GuildLists
<1>10. ListedBelong'
  <2>1. \A h \in Gids : Dissolving(h) => Dissolving(h)'
    BY <1>1, <1>3 DEF Dissolving, Called
  <2> QED
    BY <1>1, <1>2, <1>3, <1>4, <2>1 DEF Ties, ListedBelong, Listed
<1> QED
  BY <1>6, <1>7, <1>8, <1>9, <1>10 DEF Ties

\* Somebody is taken off a list and loses its guild, if it is not deleted: by leaving,
\* or by an officer's handler that ends here.
LEMMA PutOutTies ==
  ASSUME TypeOK, Ties, NEW c \in Chars, NEW g \in Gids, NEW m \in Chars,
         RemoveMember(g, m),
         IF m \in deleted THEN UNCHANGED <<guildOf, given, odd>> ELSE Reset(g, m),
         UNCHANGED call \/ (Done(c) /\ Called(c, "expel")),
         UNCHANGED <<gold, deleted, made, leader, rest>>
  PROVE  Ties'
<1> USE GuildAssumption
<1>1. /\ entries'[g][m] = 0
      /\ \A h \in Gids, x \in Chars : h # g \/ x # m => entries'[h][x] = entries[h][x]
  BY DEF RemoveMember, TypeOK
<1>2. /\ guildOf'[m] = None /\ odd \subseteq odd'
      /\ \A x \in Chars \ {m} : guildOf'[x] = guildOf[x] /\ given'[x] = given[x]
      /\ m \notin odd' => guildOf[m] \in {g, None}
      /\ m \notin deleted => given'[m] = 0
  BY DEF Reset, TypeOK, Ties, Waiting
<1>3. \A x \in Chars, op \in {"create", "accept", "dissolve"} :
        /\ Called(x, op)' <=> Called(x, op)
        /\ Called(x, op) => call'[x] = call[x]
  BY DEF Done, Called, TypeOK
<1>4. \A x \in Chars : x \in deleted => call'[x] = None
  BY DEF Done, TypeOK, Ties, Waiting
<1>5. Fresh'
  BY <1>1 DEF Ties, Fresh
<1>6. Waiting'
  BY <1>2, <1>3, <1>4 DEF Ties, Waiting
<1>7. Settled'
  BY <1>2, <1>3 DEF Ties, Settled
<1>8. GuildLists'
  BY <1>1, <1>2 DEF Ties, GuildLists
<1>9. ListedBelong'
  <2>1. \A h \in Gids : Dissolving(h) => Dissolving(h)'
    BY <1>3 DEF Dissolving
  <2> QED
    BY <1>1, <1>2, <2>1 DEF Ties, ListedBelong, Listed
<1> QED
  BY <1>5, <1>6, <1>7, <1>8, <1>9 DEF Ties

\* An officer expels somebody, or has lost the right to.
LEMMA ExpelTies ==
  ASSUME TypeOK, Ties, NEW c \in Chars, Expel(c)
  PROVE  Ties'
<1>1. /\ Called(c, "expel") /\ call[c].guild \in Gids /\ call[c].who \in Chars /\ Done(c)
      /\ UNCHANGED <<gold, deleted, made, leader, rest>>
  BY DEF Expel, Exists, Called, TypeOK, Calls
<1>2. CASE Role(call[c].guild, c) \in Officers
  BY <1>1, <1>2, PutOutTies DEF Expel
<1>3. CASE Role(call[c].guild, c) \notin Officers
  <2>1. UNCHANGED <<entries, guildOf, given, odd>>
    BY <1>3 DEF Expel
  <2>2. call'[c] = None /\ \A m \in Chars \ {c} : call'[m] = call[m]
    BY <1>1 DEF Done, TypeOK
  <2>3. c \notin deleted
    BY <1>1 DEF Called, Ties, Waiting
  <2> QED
    BY <1>1, <2>1, <2>2, <2>3, CallTies DEF Called
<1> QED
  BY <1>2, <1>3

\* A leader begins to dissolve its guild: those who are in it are all listed.
LEMMA BeginDissolveTies ==
  ASSUME TypeOK, Ties, NEW c \in Chars, BeginDissolve(c)
  PROVE  Ties'
<1> USE GuildAssumption
<1> DEFINE g == call[c].guild
<1>1. /\ Called(c, "leave") /\ g \in Gids /\ leader[g] = c
      /\ guildOf' = [guildOf EXCEPT ![c] = None]
      /\ odd' = odd \cup IF guildOf[c] \notin {g, None} THEN {c} ELSE {}
      /\ rest' = [rest EXCEPT ![c] = {m \in Chars : Listed(g, m)}]
      /\ Wait(c, "dissolve", g, c)
      /\ UNCHANGED <<given, gold, deleted, made, leader, entries>>
  BY DEF BeginDissolve, Exists, guilds
<1>2. c \notin deleted
  BY <1>1 DEF Called, Ties, Waiting
<1>3. /\ call'[c].op = "dissolve" /\ call'[c].guild = g /\ call'[c] # None
      /\ \A m \in Chars \ {c} : call'[m] = call[m]
  <2>1. [op |-> "dissolve", guild |-> g, who |-> c] \in Calls
    BY <1>1 DEF Calls, Ops, Gids
  <2>2. call' = [call EXCEPT ![c] = [op |-> "dissolve", guild |-> g, who |-> c]]
    BY <1>1 DEF Wait
  <2>3. /\ call'[c] = [op |-> "dissolve", guild |-> g, who |-> c]
        /\ \A m \in Chars \ {c} : call'[m] = call[m]
    BY <2>2 DEF TypeOK
  <2> QED
    BY <2>1, <2>3
<1>4. /\ guildOf'[c] = None /\ odd \subseteq odd' /\ rest'[c] = {m \in Chars : Listed(g, m)}
      /\ \A m \in Chars \ {c} : guildOf'[m] = guildOf[m] /\ rest'[m] = rest[m]
      /\ c \notin odd' => guildOf[c] \in {g, None}
  BY <1>1 DEF TypeOK
<1>5. \A m \in Chars \ odd : guildOf[m] = g => m \in rest'[c]
  BY <1>1, <1>4 DEF Ties, GuildLists, Listed
<1>6. Fresh'
  BY <1>1 DEF Ties, Fresh
<1>7. Waiting'
  <2>1. Called(c, "dissolve")' /\ call'[c].guild \in Gids /\ leader'[call'[c].guild] = c
    BY <1>1, <1>3 DEF Called
  <2>2. \A m \in Chars \ odd' : guildOf'[m] = g => m \in rest'[c]
    BY <1>1, <1>4, <1>5
  <2>3. \A m \in Chars \ {c}, op \in {"create", "accept", "dissolve"} :
          Called(m, op)' <=> Called(m, op)
    BY <1>3 DEF Called
  <2>4. ~Called(c, "create")' /\ ~Called(c, "accept")'
    BY <1>3 DEF Called
  <2> QED
    BY <1>1, <1>2, <1>3, <1>4, <2>1, <2>2, <2>3, <2>4 DEF Ties, Waiting
<1>8. Settled'
  <2>1. c \notin odd' /\ given[c] > 0 => c \in rest'[c]
    BY <1>1, <1>2, <1>4, <1>5 DEF Ties, Settled, Called
  <2> QED
    BY <1>1, <1>3, <1>4, <2>1 DEF Ties, Settled, Called
<1>9. GuildLists'
  BY <1>1, <1>4 DEF Ties, GuildLists
<1>10. ListedBelong'
  <2>1. \A h \in Gids : Dissolving(h) => Dissolving(h)'
    BY <1>1, <1>3 DEF Dissolving, Called
  <2>2. ASSUME NEW m \in Chars \ (odd' \cup deleted'), NEW h \in Gids, Listed(h, m)'
        PROVE  guildOf'[m] = h \/ Dissolving(h)'
    <3>1. guildOf[m] = h \/ Dissolving(h)
      BY <1>1, <1>4, <2>2 DEF Ties, ListedBelong, Listed
    <3>2. CASE guildOf[m] = h /\ m = c
      <4>1. h = g
        BY <1>4, <2>2, <3>2
      <4> QED
        BY <1>3, <4>1 DEF Dissolving, Called
    <3> QED
      BY <1>4, <2>1, <3>1, <3>2
  <2> QED
    BY <2>2 DEF ListedBelong
<1> QED
  BY <1>6, <1>7, <1>8, <1>9, <1>10 DEF Ties

\* A leader tells one of those who were listed.
LEMMA ResetMemberTies ==
  ASSUME TypeOK, Ties, NEW c \in Chars, NEW m \in Chars, ResetMember(c, m)
  PROVE  Ties'
<1> USE GuildAssumption
<1> DEFINE g == call[c].guild
<1>1. /\ Called(c, "dissolve") /\ m \in rest[c]
      /\ rest' = [rest EXCEPT ![c] = @ \ {m}]
      /\ UNCHANGED <<gold, deleted, made, leader, entries, call>>
  BY DEF ResetMember, guilds
<1>2. g \in Gids /\ c \notin deleted
  BY <1>1 DEF Called, Ties, Waiting
<1>3. /\ guildOf'[m] = None /\ odd \subseteq odd'
      /\ \A x \in Chars \ {m} : guildOf'[x] = guildOf[x] /\ given'[x] = given[x]
      /\ m \notin odd' => guildOf[m] \in {g, None}
      /\ m \notin deleted => given'[m] = 0
  BY DEF ResetMember, Reset, TypeOK, Ties, Waiting
<1>4. rest'[c] = rest[c] \ {m} /\ \A x \in Chars \ {c} : rest'[x] = rest[x]
  BY <1>1 DEF TypeOK
<1>5. Fresh'
  BY <1>1 DEF Ties, Fresh
<1>6. Waiting'
  BY <1>1, <1>2, <1>3, <1>4 DEF Ties, Waiting, Called
<1>7. Settled'
  BY <1>1, <1>3, <1>4 DEF Ties, Settled, Called
<1>8. GuildLists'
  BY <1>1, <1>3 DEF Ties, GuildLists
<1>9. ListedBelong'
  BY <1>1, <1>2, <1>3 DEF Ties, ListedBelong, Listed, Dissolving, Called
<1> QED
  BY <1>5, <1>6, <1>7, <1>8, <1>9 DEF Ties

\* The guild is deleted last: all who were in it are told, or odd.
LEMMA FinishDissolveTies ==
  ASSUME TypeOK, Ties, NEW c \in Chars, FinishDissolve(c)
  PROVE  Ties'
<1> USE GuildAssumption
<1>1. PICK g \in Gids : g = call[c].guild /\ leader[g] = c
  BY DEF FinishDissolve, Ties, Waiting
<1>2. /\ Called(c, "dissolve") /\ rest[c] = {} /\ DeleteGuild(g) /\ Done(c)
      /\ UNCHANGED <<guildOf, given, gold, deleted, made, rest, odd>>
  BY <1>1 DEF FinishDissolve, characters
<1>3. c \notin deleted /\ \A m \in Chars \ odd : guildOf[m] # g
  BY <1>1, <1>2 DEF Called, Ties, Waiting
<1>4. call'[c] = None /\ \A m \in Chars \ {c} : call'[m] = call[m]
  BY <1>2 DEF Done, TypeOK
<1>5. /\ leader'[g] = None /\ \A m \in Chars : entries'[g][m] = 0
      /\ \A h \in Gids \ {g} : leader'[h] = leader[h] /\ entries'[h] = entries[h]
  BY <1>2 DEF DeleteGuild, TypeOK
<1>6. \A m \in Chars \ {c} : Called(m, "dissolve") => call[m].guild # g
  BY <1>1 DEF Ties, Waiting
<1>7. Fresh'
  BY <1>2, <1>5 DEF Ties, Fresh
<1>8. Waiting'
  BY <1>2, <1>3, <1>4, <1>5, <1>6 DEF Ties, Waiting, Called
<1>9. Settled'
  BY <1>2, <1>4 DEF Ties, Settled, Called
<1>10. GuildLists'
  BY <1>2, <1>3, <1>5 DEF Ties, GuildLists
<1>11. ListedBelong'
  <2>1. \A h \in Gids \ {g} : Dissolving(h) => Dissolving(h)'
    BY <1>1, <1>4 DEF Dissolving, Called
  <2> QED
    BY <1>2, <1>5, <2>1 DEF Ties, ListedBelong, Listed
<1> QED
  BY <1>7, <1>8, <1>9, <1>10, <1>11 DEF Ties

\* Who gives is in a guild and waits for nothing.
LEMMA DonateTies ==
  ASSUME TypeOK, Ties, NEW c \in Chars, Donate(c)
  PROVE  Ties'
<1>1. /\ guildOf[c] # None /\ call[c] = None
      /\ \A m \in Chars \ {c} : given'[m] = given[m] /\ gold'[m] = gold[m]
      /\ UNCHANGED <<guildOf, deleted, made, leader, entries, call, rest, odd>>
  BY DEF Donate, Idle, TypeOK
<1>2. Fresh' /\ GuildLists'
  BY <1>1 DEF Ties, Fresh, GuildLists
<1>3. Waiting'
  BY <1>1 DEF Ties, Waiting, Called
<1>4. Settled'
  BY <1>1 DEF Ties, Settled, Called
<1>5. ListedBelong'
  BY <1>1 DEF Ties, ListedBelong, Listed, Dissolving, Called
<1> QED
  BY <1>2, <1>3, <1>4, <1>5 DEF Ties

\* Who changes faction is odd.
LEMMA ChangeFactionTies ==
  ASSUME TypeOK, Ties, NEW c \in Chars, ChangeFaction(c)
  PROVE  Ties'
<1>1. /\ call[c] = None /\ guildOf'[c] = None /\ odd' = odd \cup {c}
      /\ \A m \in Chars \ {c} : guildOf'[m] = guildOf[m]
      /\ UNCHANGED <<given, gold, deleted, made, leader, entries, call, rest>>
  BY DEF ChangeFaction, Idle, TypeOK, guilds
<1>2. Fresh' /\ GuildLists'
  BY <1>1 DEF Ties, Fresh, GuildLists
<1>3. Waiting'
  BY <1>1 DEF Ties, Waiting, Called
<1>4. Settled'
  BY <1>1 DEF Ties, Settled, Called
<1>5. ListedBelong'
  BY <1>1 DEF Ties, ListedBelong, Listed, Dissolving, Called
<1> QED
  BY <1>2, <1>3, <1>4, <1>5 DEF Ties

\* A character that waits for nothing is deleted, and with a leader its guild, whose
\* members are odd; no handler dissolves that guild, as only its leader's would.
LEMMA DeleteTies ==
  ASSUME TypeOK, Ties, NEW c \in Chars, DeleteCharacter(c)
  PROVE  Ties'
<1> USE GuildAssumption
<1>1. /\ call[c] = None /\ guildOf'[c] = None /\ deleted' = deleted \cup {c}
      /\ \A m \in Chars \ {c} : guildOf'[m] = guildOf[m]
      /\ UNCHANGED <<given, gold, made, call, rest>>
  BY DEF DeleteCharacter, Idle, TypeOK
<1>2. /\ odd \subseteq odd'
      /\ \A g \in Gids :
           \/ /\ leader'[g] = leader[g]
              /\ \A m \in Chars \ {c} : entries'[g][m] = entries[g][m]
              /\ entries'[g][c] \in {0, entries[g][c]}
           \/ /\ leader[g] = c /\ leader'[g] = None
              /\ \A m \in Chars : entries'[g][m] = 0 /\ (guildOf[m] = g => m \in odd')
  <2>1. CASE UNCHANGED <<leader, entries, role, donation, odd>>
    BY <2>1
  <2>2. CASE /\ guildOf[c] \in Gids /\ leader[guildOf[c]] = c /\ DeleteGuild(guildOf[c])
             /\ odd' = odd \cup {m \in Chars : guildOf[m] = guildOf[c]}
    BY <2>2 DEF DeleteGuild, TypeOK
  <2>3. CASE guildOf[c] \in Gids /\ RemoveMember(guildOf[c], c) /\ UNCHANGED <<leader, odd>>
    BY <2>3 DEF RemoveMember, TypeOK
  <2> QED
    BY <2>1, <2>2, <2>3 DEF DeleteCharacter, Exists
<1>3. \A m \in Chars : Called(m, "dissolve") => m # c
  BY <1>1 DEF Called
<1>4. Fresh'
  BY <1>1, <1>2 DEF Ties, Fresh, TypeOK
<1>5. Waiting'
  BY <1>1, <1>2, <1>3 DEF Ties, Waiting, Called
<1>6. Settled'
  BY <1>1, <1>2 DEF Ties, Settled, Called
<1>7. GuildLists'
  BY <1>1, <1>2 DEF Ties, GuildLists
<1>8. ListedBelong'
  BY <1>1, <1>2 DEF Ties, ListedBelong, Listed, Dissolving, Called
<1> QED
  BY <1>4, <1>5, <1>6, <1>7, <1>8 DEF Ties

\* Every step keeps it.
LEMMA StepTies ==
  ASSUME TypeOK, Ties, Step
  PROVE  Ties'
<1>1. ASSUME NEW c \in Chars, Leave(c) PROVE Ties'
  <2>1. c \notin deleted /\ guildOf[c] \in Gids
    BY <1>1 DEF Leave, Idle, Exists
  <2> QED
    BY <1>1, <2>1, PutOutTies DEF Leave
<1> QED
  BY <1>1, TalkTies, CreateTies, AcceptTies, ExpelTies, BeginDissolveTies, ResetMemberTies,
     FinishDissolveTies, DonateTies, ChangeFactionTies, DeleteTies DEF Step

\* At the start, and through a step that changes nothing.
LEMMA InitTies == Init => TypeOK /\ Ties
<1> SUFFICES ASSUME Init PROVE TypeOK /\ Ties
  OBVIOUS
<1>1. TypeOK
  BY GuildAssumption DEF Init, TypeOK, Roles, GROLE_MEMBER, Gids
<1>2. Ties
  BY GuildAssumption DEF Init, Ties, Fresh, Waiting, Settled, GuildLists, ListedBelong, Listed,
                         Called, Dissolving, Gids
<1> QED
  BY <1>1, <1>2

\* A step that changes nothing keeps the invariant.
LEMMA StutterTies == TypeOK /\ Ties /\ UNCHANGED vars => TypeOK' /\ Ties'
  BY DEF vars, characters, guilds, TypeOK, Ties, Fresh, Waiting, Settled, GuildLists, ListedBelong,
         Listed, Called, Dissolving

-----------------------------------------------------------------------------
\* What is shown as given to a guild is finite.
LEMMA GivenFinite ==
  ASSUME NEW g
  PROVE  IsFiniteSet(Given(g)) /\ IsFiniteSet(Given(g)')
<1>1. IsFiniteSet(Chars \X (1..InitGold))
  <2>1. IsFiniteSet(1..InitGold)
    BY GuildAssumption, FS_Interval
  <2> QED
    BY <2>1, GuildAssumption, FS_Product
<1>2. Given(g) \subseteq Chars \X (1..InitGold) /\ Given(g)' \subseteq Chars \X (1..InitGold)
  BY DEF Given
<1> QED
  BY <1>1, <1>2, FS_Subset

\* Where nobody comes to have more given to a guild, its donations still cover it.
LEMMA CoverKept ==
  ASSUME TypeOK, TypeOK', NEW g \in Gids, Cardinality(Given(g)) <= donation[g],
         \A c \in Chars \ odd' :
           guildOf'[c] = g /\ given'[c] > 0 =>
             c \notin odd /\ guildOf[c] = g /\ given'[c] <= given[c],
         donation'[g] >= donation[g]
  PROVE  Cardinality(Given(g)') <= donation'[g]
<1>1. Given(g)' \subseteq Given(g)
  BY DEF Given, TypeOK
<1>2. Cardinality(Given(g)') <= Cardinality(Given(g))
  BY <1>1, GivenFinite, FS_Subset
<1>3. Cardinality(Given(g)) \in Nat /\ Cardinality(Given(g)') \in Nat
  BY GivenFinite, FS_CardinalityType
<1> QED
  BY <1>2, <1>3 DEF TypeOK

\* So they do where nobody is in it but the odd.
LEMMA CoverEmpty ==
  ASSUME TypeOK', NEW g \in Gids, \A c \in Chars \ odd' : guildOf'[c] # g
  PROVE  Cardinality(Given(g)') <= donation'[g]
<1>1. Given(g)' = {}
  BY DEF Given
<1> QED
  BY <1>1, FS_EmptySet DEF TypeOK

\* The numbers from lo to hi are as many with one character.
LEMMA Pairs ==
  ASSUME NEW c, NEW lo \in Int, NEW hi \in Int, lo <= hi + 1
  PROVE  IsFiniteSet({c} \X (lo..hi)) /\ Cardinality({c} \X (lo..hi)) = hi - lo + 1
<1>1. IsFiniteSet(lo..hi) /\ Cardinality(lo..hi) = hi - lo + 1
  BY FS_Interval
<1>2. IsFiniteSet({c}) /\ Cardinality({c}) = 1
  BY FS_Singleton
<1>3. /\ IsFiniteSet({c} \X (lo..hi))
      /\ Cardinality({c} \X (lo..hi)) = Cardinality({c}) * Cardinality(lo..hi)
  BY <1>1, <1>2, FS_Product
<1>4. \A k \in Int : 1 * k = k
  OBVIOUS
<1> QED
  BY <1>1, <1>2, <1>3, <1>4

\* A donation raises both by as much.
LEMMA DonateCovers ==
  ASSUME TypeOK, TypeOK', DonationsCover, NEW c \in Chars, Donate(c)
  PROVE  DonationsCover'
<1>0. PICK n \in 0..gold[c] :
        /\ given' = [given EXCEPT ![c] = @ + n]
        /\ donation' = [donation EXCEPT ![guildOf[c]] = @ + n]
  BY DEF Donate
<1>1. /\ n \in Nat
      /\ given' = [given EXCEPT ![c] = @ + n]
      /\ donation' = [donation EXCEPT ![guildOf[c]] = @ + n]
  BY <1>0 DEF TypeOK
<1>2. UNCHANGED <<guildOf, odd>> /\ guildOf[c] \in Gids
  BY DEF Donate, Exists
<1>3. \A x \in Chars : given'[x] = IF x = c THEN given[c] + n ELSE given[x]
  BY <1>1 DEF TypeOK
<1>4. \A g \in Gids : donation'[g] = IF g = guildOf[c] THEN donation[g] + n ELSE donation[g]
  BY <1>1 DEF TypeOK
<1>5. ASSUME NEW g \in Gids PROVE Cardinality(Given(g)') <= donation'[g]
  <2>1. Cardinality(Given(g)) <= donation[g]
    BY DEF DonationsCover
  <2>2. CASE g # guildOf[c]
    <3>1. donation'[g] = donation[g] /\ donation[g] \in Nat
      BY <1>4, <2>2 DEF TypeOK
    <3>2. ASSUME NEW x \in Chars \ odd', guildOf'[x] = g
          PROVE  x \notin odd /\ guildOf[x] = g /\ given'[x] <= given[x]
      <4>1. x \in Chars /\ x \notin odd /\ guildOf[x] = g /\ x # c
        BY <1>2, <2>2, <3>2
      <4>2. given'[x] = given[x] /\ given[x] \in Nat
        BY <1>3, <4>1 DEF TypeOK
      <4> QED
        BY <4>1, <4>2
    <3> QED
      BY <2>1, <3>1, <3>2, CoverKept
  <2>3. CASE g = guildOf[c]
    <3>1. given[c] \in Nat
      BY DEF TypeOK
    <3>2. PICK lo \in Int, hi \in Int : lo = given[c] + 1 /\ hi = given[c] + n
      BY <1>1, <3>1
    <3> DEFINE new == {c} \X (lo..hi)
    <3>3. IsFiniteSet(new) /\ Cardinality(new) = n
      <4>1. lo <= hi + 1 /\ hi - lo + 1 = n
        BY <1>1, <3>1, <3>2
      <4>2. IsFiniteSet(new) /\ Cardinality(new) = hi - lo + 1
        BY <4>1, Pairs
      <4> QED
        BY <4>1, <4>2
    <3>4. Given(g)' \subseteq Given(g) \cup new
      <4>1. ASSUME NEW d \in Given(g)', d \notin Given(g) PROVE d \in new
        <5>1. /\ d \in (Chars \ odd) \X (1..InitGold) /\ guildOf[d[1]] = g
              /\ d[2] <= given'[d[1]] /\ ~(d[2] <= given[d[1]])
          BY <1>2, <4>1 DEF Given
        <5>2. d[1] = c
          BY <1>3, <5>1
        <5>3. d[2] \in lo..hi
          BY <1>1, <1>3, <3>1, <3>2, <5>1, <5>2
        <5> QED
          BY <5>1, <5>2, <5>3
      <4> QED
        BY <4>1
    <3>5. /\ IsFiniteSet(Given(g) \cup new)
          /\ Cardinality(Given(g) \cup new)
               = Cardinality(Given(g)) + n - Cardinality(Given(g) \cap new)
      BY <3>3, GivenFinite, FS_Union
    <3>6. /\ Cardinality(Given(g)) \in Nat /\ Cardinality(Given(g)') \in Nat
          /\ Cardinality(Given(g) \cap new) \in Nat
          /\ Cardinality(Given(g) \cup new) \in Nat
      BY <3>5, GivenFinite, FS_CardinalityType, FS_Intersection
    <3>7. Cardinality(Given(g)') <= Cardinality(Given(g) \cup new)
      BY <3>4, <3>5, FS_Subset
    <3> QED
      BY <1>1, <1>4, <2>1, <2>3, <3>5, <3>6, <3>7 DEF TypeOK
  <2> QED
    BY <2>2, <2>3
<1> QED
  BY <1>5 DEF DonationsCover

\* The other steps give nobody more, and take no donation but with the guild's last member.
LEMMA StepCovers ==
  ASSUME TypeOK, TypeOK', Ties, DonationsCover, Step
  PROVE  DonationsCover'
<1> USE GuildAssumption
<1> SUFFICES ASSUME NEW g \in Gids PROVE Cardinality(Given(g)') <= donation'[g]
  BY DEF DonationsCover
<1>1. /\ Cardinality(Given(g)) <= donation[g] /\ donation[g] \in Nat
      /\ \A c \in Chars : given[c] \in Nat
  BY DEF DonationsCover, TypeOK
<1>2. ASSUME UNCHANGED <<guildOf, given, odd, donation>>
      PROVE  Cardinality(Given(g)') <= donation'[g]
  BY <1>1, <1>2, CoverKept
<1>3. ASSUME UNCHANGED <<given, donation>>, NEW c \in Chars,
             \A m \in Chars \ {c} : guildOf'[m] = guildOf[m],
             odd \subseteq odd', c \in odd' \/ guildOf'[c] = None \/ given[c] = 0
      PROVE  Cardinality(Given(g)') <= donation'[g]
  BY <1>1, <1>3, CoverKept
<1>4. ASSUME UNCHANGED donation, NEW h, NEW m \in Chars, Reset(h, m)
      PROVE  Cardinality(Given(g)') <= donation'[g]
  <2>1. /\ guildOf'[m] = None /\ odd \subseteq odd'
        /\ \A x \in Chars \ {m} : guildOf'[x] = guildOf[x] /\ given'[x] = given[x]
    BY <1>4 DEF Reset, TypeOK
  <2> QED
    BY <1>1, <1>4, <2>1, CoverKept
<1>5. CASE Talk
  BY <1>2, <1>5 DEF Talk, BeginCreate, NoGuild, BeginAccept, Invite, BeginMember, ChangeRole,
                    Returns, characters, guilds
<1>6. ASSUME NEW c \in Chars, FinishCreate(c) PROVE Cardinality(Given(g)') <= donation'[g]
  <2>1. CASE Returns(c)
    BY <1>2, <2>1 DEF Returns, characters, guilds
  <2>2. CASE ~Returns(c)
    <3>1. c \notin odd => given[c] = 0
      BY <1>1, <1>6 DEF FinishCreate, Called, Ties, Waiting, Settled
    <3>2. /\ UNCHANGED <<given, donation, odd>>
          /\ \A m \in Chars \ {c} : guildOf'[m] = guildOf[m]
      BY <1>6, <2>2 DEF FinishCreate, TypeOK
    <3> QED
      BY <1>3, <3>1, <3>2
  <2> QED
    BY <2>1, <2>2
<1>7. ASSUME NEW c \in Chars, FinishAccept(c) PROVE Cardinality(Given(g)') <= donation'[g]
  <2>1. c \notin odd => given[c] = 0
    BY <1>1, <1>7 DEF FinishAccept, Called, Ties, Waiting, Settled
  <2>2. /\ UNCHANGED <<given, donation>> /\ odd \subseteq odd'
        /\ \A m \in Chars \ {c} : guildOf'[m] = guildOf[m]
    BY <1>7 DEF FinishAccept, TypeOK
  <2> QED
    BY <1>3, <2>1, <2>2
<1>8. ASSUME NEW c \in Chars, Expel(c) PROVE Cardinality(Given(g)') <= donation'[g]
  <2>1. call[c].who \in Chars
    BY <1>8 DEF Expel, Called, TypeOK, Calls
  <2>2. UNCHANGED donation /\ (UNCHANGED <<guildOf, given, odd>> \/ \E h : Reset(h, call[c].who))
    BY <1>8 DEF Expel
  <2> QED
    BY <1>2, <1>4, <2>1, <2>2
<1>9. ASSUME NEW c \in Chars, Leave(c) PROVE Cardinality(Given(g)') <= donation'[g]
  BY <1>4, <1>9 DEF Leave
<1>10. ASSUME NEW c \in Chars, BeginDissolve(c) \/ ChangeFaction(c)
       PROVE  Cardinality(Given(g)') <= donation'[g]
  <2>1. /\ guildOf' = [guildOf EXCEPT ![c] = None] /\ odd \subseteq odd'
        /\ UNCHANGED <<given, donation>>
    BY <1>10 DEF BeginDissolve, ChangeFaction, guilds
  <2> QED
    BY <1>3, <2>1 DEF TypeOK
<1>11. ASSUME NEW c \in Chars, NEW m \in Chars, ResetMember(c, m)
       PROVE  Cardinality(Given(g)') <= donation'[g]
  BY <1>2, <1>4, <1>11 DEF ResetMember, guilds
<1>12. ASSUME NEW c \in Chars, FinishDissolve(c) PROVE Cardinality(Given(g)') <= donation'[g]
  <2>1. PICK h \in Gids : h = call[c].guild
    BY <1>12 DEF FinishDissolve, Ties, Waiting
  <2>2. DeleteGuild(h) /\ UNCHANGED <<guildOf, given, odd>>
    BY <1>12, <2>1 DEF FinishDissolve, characters
  <2>3. \A m \in Chars \ odd : guildOf[m] # h
    BY <1>12, <2>1 DEF FinishDissolve, Ties, Waiting
  <2>4. CASE g = h
    BY <2>2, <2>3, <2>4, CoverEmpty
  <2>5. CASE g # h
    <3>1. donation'[g] = donation[g]
      BY <2>2, <2>5 DEF DeleteGuild, TypeOK
    <3> QED
      BY <1>1, <2>2, <3>1, CoverKept
  <2> QED
    BY <2>4, <2>5
<1>13. ASSUME NEW c \in Chars, DeleteCharacter(c) PROVE Cardinality(Given(g)') <= donation'[g]
  <2>1. /\ guildOf'[c] = None /\ odd \subseteq odd' /\ UNCHANGED given
        /\ \A m \in Chars \ {c} : guildOf'[m] = guildOf[m]
    BY <1>13 DEF DeleteCharacter, TypeOK
  <2>2. \/ donation'[g] = donation[g]
        \/ \A m \in Chars : guildOf[m] = g => m \in odd'
    BY <1>13 DEF DeleteCharacter, DeleteGuild, Exists, TypeOK
  <2>3. CASE donation'[g] = donation[g]
    BY <1>1, <2>1, <2>3, CoverKept
  <2>4. CASE \A m \in Chars : guildOf[m] = g => m \in odd'
    BY <2>1, <2>4, CoverEmpty
  <2> QED
    BY <2>2, <2>3, <2>4
<1>14. ASSUME NEW c \in Chars, Donate(c) PROVE Cardinality(Given(g)') <= donation'[g]
  BY <1>14, DonateCovers DEF DonationsCover
<1> QED
  BY <1>5, <1>6, <1>7, <1>8, <1>9, <1>10, <1>11, <1>12, <1>13, <1>14 DEF Step

-----------------------------------------------------------------------------
\* The inductive invariant.
LEMMA GuildInductive == Spec => [](TypeOK /\ Ties /\ DonationsCover)
<1>1. Init => TypeOK /\ Ties /\ DonationsCover
  <2> SUFFICES ASSUME Init PROVE TypeOK /\ Ties /\ DonationsCover
    OBVIOUS
  <2>1. TypeOK /\ Ties
    BY InitTies
  <2>2. ASSUME NEW g \in Gids PROVE Cardinality(Given(g)) <= donation[g]
    <3>1. Given(g) = {}
      BY GuildAssumption DEF Init, Given
    <3> QED
      BY <3>1, FS_EmptySet DEF Init
  <2> QED
    BY <2>1, <2>2 DEF DonationsCover
<1>2. TypeOK /\ Ties /\ DonationsCover /\ [Next]_vars => (TypeOK /\ Ties /\ DonationsCover)'
  <2> SUFFICES ASSUME TypeOK, Ties, DonationsCover, [Next]_vars
               PROVE  TypeOK' /\ Ties' /\ DonationsCover'
    OBVIOUS
  <2>1. CASE Step
    <3>1. TypeOK'
      BY <2>1, StepType DEF Ties
    <3> QED
      BY <2>1, <3>1, StepTies, StepCovers
  <2>2. CASE UNCHANGED vars
    <3>1. TypeOK' /\ Ties'
      BY <2>2, StutterTies
    <3>2. DonationsCover'
      BY <2>2 DEF vars, characters, guilds, DonationsCover, Given
    <3> QED
      BY <3>1, <3>2
  <2> QED
    BY <2>1, <2>2, NextIsStep
<1> QED
  BY <1>1, <1>2, PTL DEF Spec

\* The types, whatever handlers wait (player/guild.go, database/guilds.go).
THEOREM GuildType == Spec => []TypeOK
  BY GuildInductive, PTL

\* A character's id, the guild's list and its donations agree, whatever handlers wait and
\* whatever the others did meanwhile (CreateGuildHandler to LeaveGuildHandler).
THEOREM GuildAgrees == Spec => []GuildsAgree
<1>1. TypeOK /\ Ties /\ DonationsCover => GuildsAgree
  BY DEF Ties, GuildsAgree
<1> QED
  BY <1>1, GuildInductive, PTL

-----------------------------------------------------------------------------
\* Who leads a guild keeps it through every step, or is odd or ousted by it.
LEMMA StepLeads ==
  ASSUME TypeOK, Ties, GuildsAreLed, Step
  PROVE  GuildsAreLed'
<1> USE GuildAssumption
<1> SUFFICES ASSUME NEW g \in Gids, NEW l \in Chars, leader'[g] = l, l \notin odd' \cup ousted'
             PROVE  Led(g)'
  BY StepType DEF GuildsAreLed, Exists, Ties, TypeOK
<1>1. odd \subseteq odd' /\ ousted \subseteq ousted'
  <2>1. CASE Talk
    BY <2>1 DEF Talk, BeginCreate, NoGuild, BeginAccept, Invite, BeginMember, ChangeRole, Returns,
                guilds
  <2>2. ASSUME NEW c \in Chars, FinishCreate(c) \/ FinishAccept(c) \/ BeginDissolve(c)
        PROVE  odd \subseteq odd' /\ ousted \subseteq ousted'
    BY <2>2 DEF FinishCreate, FinishAccept, BeginDissolve, Returns, guilds
  <2>3. ASSUME NEW c \in Chars, Expel(c) PROVE odd \subseteq odd' /\ ousted \subseteq ousted'
    BY <2>3 DEF Expel, Reset
  <2>4. ASSUME NEW c \in Chars, Leave(c) PROVE odd \subseteq odd' /\ ousted \subseteq ousted'
    BY <2>4 DEF Leave, Reset
  <2>5. ASSUME NEW c \in Chars, NEW m \in Chars, ResetMember(c, m)
        PROVE  odd \subseteq odd' /\ ousted \subseteq ousted'
    BY <2>5 DEF ResetMember, Reset, guilds
  <2>6. ASSUME NEW c \in Chars,
               FinishDissolve(c) \/ Donate(c) \/ ChangeFaction(c) \/ DeleteCharacter(c)
        PROVE  odd \subseteq odd' /\ ousted \subseteq ousted'
    BY <2>6 DEF FinishDissolve, Donate, ChangeFaction, DeleteCharacter, guilds
  <2> QED
    BY <2>1, <2>2, <2>3, <2>4, <2>5, <2>6 DEF Step
<1>2. leader[g] = l => l \notin odd \cup ousted /\ Led(g)
  BY <1>1 DEF GuildsAreLed, Exists
<1>3. CASE Talk
  <2>1. UNCHANGED <<leader, deleted, guildOf, entries>>
    BY <1>3 DEF Talk, BeginCreate, NoGuild, BeginAccept, Invite, BeginMember, ChangeRole, Returns,
                guilds, characters
  <2>2. Called(l, "dissolve") => call'[l] = call[l]
    <3>1. PICK c \in Chars, x \in Chars :
            \/ BeginCreate(c) \/ NoGuild(c) \/ BeginAccept(c, x) \/ Invite(c, x)
            \/ \E op \in Ops : BeginMember(c, op, x)
            \/ \E r \in NewRoles : ChangeRole(c, x, r)
      BY <1>3 DEF Talk
    <3>2. CASE NoGuild(c)
      BY <3>2 DEF NoGuild, Returns, Called, Done, TypeOK
    <3>3. CASE BeginCreate(c) \/ BeginAccept(c, x) \/ \E op \in Ops : BeginMember(c, op, x)
      BY <3>3 DEF BeginCreate, BeginAccept, BeginMember, Called, Idle, Wait, TypeOK
    <3>4. CASE Invite(c, x) \/ \E r \in NewRoles : ChangeRole(c, x, r)
      BY <3>4 DEF Invite, ChangeRole
    <3> QED
      BY <3>1, <3>2, <3>3, <3>4
  <2> QED
    BY <1>2, <2>1, <2>2 DEF Led, Listed, Called
<1>4. ASSUME NEW c \in Chars, FinishCreate(c) PROVE Led(g)'
  <2>1. CASE Returns(c)
    BY <1>2, <1>4, <2>1 DEF FinishCreate, Returns, Done, Led, Listed, Called, TypeOK, guilds,
                            characters
  <2>2. CASE ~Returns(c)
    <3>1. /\ made + 1 \in Gids /\ leader' = [leader EXCEPT ![made + 1] = c]
          /\ AddMember(made + 1, c, GROLE_LEADER)
          /\ guildOf' = [guildOf EXCEPT ![c] = made + 1] /\ Done(c) /\ UNCHANGED deleted
      BY <1>4, <2>2 DEF FinishCreate
    <3>2. guildOf[c] = None /\ c \notin deleted /\ ~Called(c, "dissolve")
      BY <1>4 DEF FinishCreate, Called, Ties, Waiting
    <3>3. CASE g = made + 1
      BY <3>1, <3>2, <3>3 DEF Led, Listed, AddMember, TypeOK
    <3>4. CASE g # made + 1
      <4>1. leader[g] = l /\ entries'[g] = entries[g]
        BY <3>1, <3>4 DEF AddMember, TypeOK
      <4>2. l # c
        BY <1>2, <3>2, <4>1 DEF Led
      <4>3. guildOf'[l] = guildOf[l] /\ call'[l] = call[l]
        BY <3>1, <4>2 DEF Done, TypeOK
      <4> QED
        BY <1>2, <3>1, <4>1, <4>3 DEF Led, Listed, Called
    <3> QED
      BY <3>3, <3>4
  <2> QED
    BY <2>1, <2>2
<1>5. ASSUME NEW c \in Chars, FinishAccept(c) PROVE Led(g)'
  <2>1. /\ guildOf[c] = None /\ ~Called(c, "dissolve")
    BY <1>5 DEF FinishAccept, Called, Ties, Waiting
  <2>2. leader[g] = l /\ UNCHANGED deleted
    BY <1>5 DEF FinishAccept
  <2>3. l # c
    BY <1>2, <2>1, <2>2 DEF Led
  <2>4. guildOf'[l] = guildOf[l] /\ call'[l] = call[l] /\ entries'[g][l] = entries[g][l]
    BY <1>5, <2>3 DEF FinishAccept, Done, AddMember, TypeOK
  <2> QED
    BY <1>2, <2>2, <2>4 DEF Led, Listed, Called
<1>6. ASSUME NEW c \in Chars, Expel(c) PROVE Led(g)'
  <2>1. /\ leader[g] = l /\ UNCHANGED deleted /\ Called(c, "expel") /\ Done(c)
        /\ call[c].who \in Chars
    BY <1>6 DEF Expel, Called, TypeOK, Calls
  <2>2. Called(l, "dissolve") => call'[l] = call[l]
    BY <2>1 DEF Called, Done, TypeOK
  <2>3. CASE l # call[c].who \/ Role(call[c].guild, c) \notin Officers
    <3>1. guildOf'[l] = guildOf[l] /\ entries'[g][l] = entries[g][l]
      <4>1. CASE Role(call[c].guild, c) \notin Officers
        BY <1>6, <4>1 DEF Expel
      <4>2. CASE Role(call[c].guild, c) \in Officers
        <5>1. l # call[c].who /\ RemoveMember(call[c].guild, call[c].who)
          BY <1>6, <2>3, <4>2 DEF Expel
        <5>2. UNCHANGED guildOf \/ guildOf' = [guildOf EXCEPT ![call[c].who] = None]
          BY <1>6, <4>2 DEF Expel, Reset
        <5> QED
          BY <5>1, <5>2 DEF RemoveMember, TypeOK
      <4> QED
        BY <4>1, <4>2
    <3> QED
      BY <1>2, <2>1, <2>2, <3>1 DEF Led, Listed, Called
  <2>4. CASE l = call[c].who /\ Role(call[c].guild, c) \in Officers
    <3>1. g # call[c].guild
      BY <1>6, <2>1, <2>4 DEF Expel
    <3>2. CASE Called(l, "dissolve") /\ call[l].guild = g
      BY <2>1, <2>2, <3>2 DEF Led, Called
    <3>3. CASE l \notin deleted /\ guildOf[l] = g
      BY <1>6, <2>4, <3>1, <3>3 DEF Expel, Reset
    <3> QED
      BY <1>2, <2>1, <3>2, <3>3 DEF Led
  <2> QED
    BY <2>3, <2>4
<1>7. ASSUME NEW c \in Chars, Leave(c) PROVE Led(g)'
  <2>1. leader[g] = l /\ UNCHANGED <<deleted, call>>
    BY <1>7 DEF Leave
  <2>2. l # c
    BY <1>2, <1>7, <2>1 DEF Led, Leave, Idle, Called
  <2>3. guildOf'[l] = guildOf[l] /\ entries'[g][l] = entries[g][l]
    BY <1>7, <2>2 DEF Leave, RemoveMember, Reset, TypeOK
  <2> QED
    BY <1>2, <2>1, <2>3 DEF Led, Listed, Called
<1>8. ASSUME NEW c \in Chars, BeginDissolve(c) PROVE Led(g)'
  <2>1. leader[g] = l /\ UNCHANGED <<deleted, entries>>
    BY <1>8 DEF BeginDissolve, guilds
  <2>2. CASE l # c
    <3>1. guildOf'[l] = guildOf[l] /\ call'[l] = call[l]
      BY <1>8, <2>2 DEF BeginDissolve, Wait, TypeOK
    <3> QED
      BY <1>2, <2>1, <3>1 DEF Led, Listed, Called
  <2>3. CASE l = c
    <3>1. guildOf[c] = g
      BY <1>2, <1>8, <2>1, <2>3 DEF Led, BeginDissolve, Called
    <3>2. call[c].guild = g
      BY <1>8, <2>3, <3>1 DEF BeginDissolve
    <3>3. call'[c].op = "dissolve" /\ call'[c].guild = g /\ call'[c] # None
      <4>1. call'[c] = [op |-> "dissolve", guild |-> g, who |-> c]
        BY <1>8, <3>2 DEF BeginDissolve, Wait, TypeOK
      <4>2. call'[c] \in Calls
        BY <4>1 DEF Calls, Ops, Gids
      <4> QED
        BY <4>1, <4>2
    <3> QED
      BY <2>1, <2>3, <3>3 DEF Led, Called
  <2> QED
    BY <2>2, <2>3
<1>9. ASSUME NEW c \in Chars, NEW m \in Chars, ResetMember(c, m) PROVE Led(g)'
  <2>1. leader[g] = l /\ UNCHANGED <<deleted, entries, call>>
    BY <1>9 DEF ResetMember, guilds
  <2>2. CASE Called(l, "dissolve") /\ call[l].guild = g
    BY <2>1, <2>2 DEF Led, Called
  <2>3. CASE ~(Called(l, "dissolve") /\ call[l].guild = g)
    <3>1. l \notin deleted /\ guildOf[l] = g /\ Listed(g, l)
      BY <1>2, <2>1, <2>3 DEF Led
    <3>2. call[c].guild # g
      BY <1>9, <2>1, <2>3 DEF ResetMember, Called, Ties, Waiting
    <3>3. l # m
      BY <1>9, <3>1, <3>2 DEF ResetMember, Reset
    <3>4. guildOf'[l] = guildOf[l]
      BY <1>9, <3>3 DEF ResetMember, Reset, TypeOK
    <3> QED
      BY <2>1, <3>1, <3>4 DEF Led, Listed
  <2> QED
    BY <2>2, <2>3
<1>10. ASSUME NEW c \in Chars, FinishDissolve(c) PROVE Led(g)'
  <2>1. call[c].guild \in Gids /\ leader' = [leader EXCEPT ![call[c].guild] = None]
    BY <1>10 DEF FinishDissolve, DeleteGuild, Ties, Waiting
  <2>2. g # call[c].guild /\ leader[g] = l
    BY <2>1 DEF TypeOK
  <2>3. UNCHANGED <<deleted, guildOf>> /\ entries'[g] = entries[g]
    BY <1>10, <2>1, <2>2 DEF FinishDissolve, DeleteGuild, TypeOK, characters
  <2>4. CASE l # c
    <3>1. call'[l] = call[l]
      BY <1>10, <2>4 DEF FinishDissolve, Done, TypeOK
    <3> QED
      BY <1>2, <2>2, <2>3, <3>1 DEF Led, Listed, Called
  <2>5. CASE l = c
    BY <1>2, <2>2, <2>3, <2>5 DEF Led, Listed
  <2> QED
    BY <2>4, <2>5
<1>11. ASSUME NEW c \in Chars, Donate(c) PROVE Led(g)'
  BY <1>2, <1>11 DEF Donate, Led, Listed, Called
<1>12. ASSUME NEW c \in Chars, ChangeFaction(c) PROVE Led(g)'
  <2>1. leader[g] = l /\ UNCHANGED <<deleted, entries, call>> /\ l # c
    BY <1>12 DEF ChangeFaction, guilds
  <2>2. guildOf'[l] = guildOf[l]
    BY <1>12, <2>1 DEF ChangeFaction, TypeOK
  <2> QED
    BY <1>2, <2>1, <2>2 DEF Led, Listed, Called
<1>13. ASSUME NEW c \in Chars, DeleteCharacter(c) PROVE Led(g)'
  <2>1. UNCHANGED call /\ deleted' = deleted \cup {c} /\ leader[g] = l
    BY <1>13 DEF DeleteCharacter, DeleteGuild, Exists, TypeOK
  <2>2. l # c
    <3>1. ASSUME l = c PROVE FALSE
      <4>1. guildOf[c] = g
        BY <1>2, <1>13, <2>1, <3>1 DEF Led, DeleteCharacter, Idle, Called
      <4>2. DeleteGuild(g)
        BY <1>13, <2>1, <3>1, <4>1 DEF DeleteCharacter, Exists
      <4> QED
        BY <4>2 DEF DeleteGuild, TypeOK
    <3> QED
      BY <3>1
  <2>3. guildOf'[l] = guildOf[l]
    BY <1>13, <2>2 DEF DeleteCharacter, TypeOK
  <2>4. entries'[g][l] = entries[g][l]
    <3>1. UNCHANGED entries \/ DeleteGuild(guildOf[c]) \/ RemoveMember(guildOf[c], c)
      BY <1>13 DEF DeleteCharacter
    <3>2. DeleteGuild(guildOf[c]) => guildOf[c] # g
      BY DEF DeleteGuild, TypeOK
    <3> QED
      BY <2>2, <3>1, <3>2 DEF DeleteGuild, RemoveMember, TypeOK
  <2> QED
    BY <1>2, <2>1, <2>2, <2>3, <2>4 DEF Led, Listed, Called
<1> QED
  BY <1>3, <1>4, <1>5, <1>6, <1>7, <1>8, <1>9, <1>10, <1>11, <1>12, <1>13 DEF Step

\* A guild keeps its leader through whatever its members and the leader do and wait for,
\* unless an officer expels the leader (ExpelFromGuildHandler, LeaveGuildHandler).
THEOREM GuildLed == Spec => []GuildsAreLed
<1>1. Init => GuildsAreLed
  BY DEF Init, GuildsAreLed, Exists
<1>2. /\ TypeOK /\ Ties /\ GuildsAreLed /\ [Next]_vars => GuildsAreLed'
  <2>1. ASSUME TypeOK, Ties, GuildsAreLed, UNCHANGED vars PROVE GuildsAreLed'
    BY <2>1 DEF vars, guilds, characters, GuildsAreLed, Exists, Led, Listed, Called
  <2> QED
    BY <2>1, StepLeads, NextIsStep
<1> QED
  BY <1>1, <1>2, GuildInductive, PTL DEF Spec
=============================================================================
