------------------------------- MODULE Guild -------------------------------
(***************************************************************************)
(* Guilds ("houses"): player/guild.go, database/guilds.go, and what the    *)
(* deletion of a character and the faction-change item do to them.         *)
(*                                                                         *)
(* Membership is kept twice: Character.GuildID says where a character is,  *)
(* Guild.Members lists who is in with which role.  Every handler changes   *)
(* both, in its own order, after it has waited for the guild: the id is    *)
(* read first, the guild is looked up under gMutex, which others hold      *)
(* while they wait for the database.  Dissolving a guild goes through the  *)
(* list as it was, writing to one member after the other, and deletes the  *)
(* guild last.  Who accepts an invitation names the leader of the guild,   *)
(* and no invitation is remembered by the server.                          *)
(***************************************************************************)
EXTENDS Integers, FiniteSetsExt

CONSTANTS
  Chars,
  None,        \* in no guild (GuildID -1), no such guild, no handler in flight
  MaxGuilds,   \* bound: guilds founded in a behaviour
  MaxMembers,  \* what a request allows (50 in the code)
  Price,       \* of a guild (10,000,000)
  InitGold,    \* gold of each character
  MaxCalls,    \* bound: handlers in flight at a time
  MaxAsked,    \* bound: invitations not answered at a time
  MaxLost,     \* bound: characters deleted or odd before another is deleted or changes faction
  NewRoles     \* the roles that a leader gives others

Gids == 1..MaxGuilds
GROLE_MEMBER == 1
GROLE_SAGE == 3
GROLE_SOLDIER == 4
GROLE_LEADER == 5
Roles == 1..5
Officers == {GROLE_SAGE, GROLE_SOLDIER, GROLE_LEADER}
Ops == {"create", "accept", "expel", "leave", "dissolve"}
Calls == [op : Ops, guild : 0..MaxGuilds, who : Chars]

ASSUME GuildAssumption ==
  /\ IsFiniteSet(Chars)
  /\ MaxGuilds \in Nat /\ MaxMembers \in Nat /\ Price \in Nat /\ InitGold \in Nat
  /\ MaxCalls \in Nat /\ MaxAsked \in Nat /\ MaxLost \in Nat
  /\ NewRoles \subseteq Roles
  /\ None \notin Chars \cup Gids \cup Calls

VARIABLES
  guildOf,    \* guildOf[c]: Character.GuildID
  given,      \* given[c]: Character.ClanGoldDonation
  gold,       \* gold[c]: Character.Gold
  deleted,    \* characters that were deleted
  made,       \* guilds founded so far
  leader,     \* leader[g]: Guild.LeaderID; None: there is no such guild (any more)
  entries,    \* entries[g][c]: how often Guild.Members lists c
  role,       \* role[g][c]: the role in the first of these entries
  donation,   \* donation[g]: Guild.GoldDonation
  call,       \* call[c]: what c's handler waits with; one at a time
  rest,       \* rest[c]: members that c's dissolving has still to write to
  ousted,     \* history: leaders whom an officer of their guild has expelled
  asked,      \* asked[c]: the leaders named by the invitations on c's screen
  odd         \* history: characters that joined a guild while it was dissolved, lost
              \* another guild than the one meant, changed faction, or whose leader
              \* was deleted

vars == <<guildOf, given, gold, deleted, made, ousted, leader, entries, role,
          donation, call, rest, asked, odd>>
characters == <<guildOf, given, gold, deleted>>
guilds == <<made, ousted, leader, entries, role, donation>>

Exists(g) == g \in Gids /\ leader[g] # None
Listed(g, c) == entries[g][c] > 0
MemberCount(g) == MapThenSumSet(LAMBDA c : entries[g][c], Chars)
Role(g, c) == IF Listed(g, c) THEN role[g][c] ELSE 0

Init ==
  /\ guildOf = [c \in Chars |-> None]
  /\ given = [c \in Chars |-> 0]
  /\ gold = [c \in Chars |-> InitGold]
  /\ deleted = {}
  /\ made = 0 /\ ousted = {}
  /\ leader = [g \in Gids |-> None]
  /\ entries = [g \in Gids |-> [c \in Chars |-> 0]]
  /\ role = [g \in Gids |-> [c \in Chars |-> GROLE_MEMBER]]
  /\ donation = [g \in Gids |-> 0]
  /\ call = [c \in Chars |-> None]
  /\ rest = [c \in Chars |-> {}]
  /\ asked = [c \in Chars |-> {}]
  /\ odd = {}

AddMember(g, c, r) ==
  /\ entries' = [entries EXCEPT ![g][c] = @ + 1]
  /\ role' = [role EXCEPT ![g][c] = IF Listed(g, c) THEN @ ELSE r]

RemoveMember(g, c) ==
  /\ entries' = [entries EXCEPT ![g][c] = 0]
  /\ role' = [role EXCEPT ![g][c] = GROLE_MEMBER]

\* Guild.Delete: out of the cache and the database.
DeleteGuild(g) ==
  /\ leader' = [leader EXCEPT ![g] = None]
  /\ entries' = [entries EXCEPT ![g] = [c \in Chars |-> 0]]
  /\ role' = [role EXCEPT ![g] = [c \in Chars |-> GROLE_MEMBER]]
  /\ donation' = [donation EXCEPT ![g] = 0]

(***************************************************************************)
(* Handlers begin: they have read GuildID and wait for the guild.          *)
(***************************************************************************)
Idle(c) ==
  /\ call[c] = None /\ c \notin deleted
  /\ Cardinality({x \in Chars : call[x] # None}) < MaxCalls

Wait(c, op, g, who) == call' = [call EXCEPT ![c] = [op |-> op, guild |-> g, who |-> who]]

BeginCreateMutant(c) ==
  /\ Idle(c) /\ made < MaxGuilds
  /\ guildOf[c] = None
  /\ Wait(c, "create", 0, c)
  /\ UNCHANGED <<characters, guilds, rest, asked, odd>>

\* CreateGuildHandler up to the search for the name.
BeginCreate(c) ==
  /\ Idle(c) /\ made < MaxGuilds
  /\ gold[c] >= Price /\ guildOf[c] = None
  /\ Wait(c, "create", 0, c)
  /\ UNCHANGED <<characters, guilds, rest, asked, odd>>

\* RespondGuildRequestHandler: refused, or accepted and the leader's guild is looked for.
BeginAccept(c, l) ==
  /\ Idle(c) /\ l \in asked[c]
  /\ asked' = [asked EXCEPT ![c] = @ \ {l}]
  /\ \/ UNCHANGED call
     \/ /\ guildOf[c] = None /\ l \notin deleted /\ guildOf[l] # None
        /\ Wait(c, "accept", guildOf[l], l)
  /\ UNCHANGED <<characters, guilds, rest, odd>>

\* A member expels somebody the client shows in the list, or the leader leaves.
BeginMember(c, op, who) ==
  LET g == guildOf[c] IN
  /\ Idle(c) /\ g # None
  /\ \/ op = "expel" /\ who # c /\ Listed(g, who)
     \/ op = "leave" /\ who = c /\ leader[g] = c
  /\ Wait(c, op, g, who)
  /\ UNCHANGED <<characters, guilds, rest, asked, odd>>

(***************************************************************************)
(* Handlers go on: they have the guild, or there is none any more.         *)
(***************************************************************************)
Called(c, op) == call[c] # None /\ call[c].op = op
Done(c) == call' = [call EXCEPT ![c] = None]
Returns(c) == Done(c) /\ UNCHANGED <<characters, guilds, rest, asked, odd>>

NoGuild(c) ==
  /\ call[c] # None /\ call[c].op \notin {"create", "dissolve"}
  /\ ~Exists(call[c].guild)
  /\ Returns(c)

\* The guild is inserted with its founder in it; GuildID and the gold follow.  Without
\* the write of the database nothing has happened.
FinishCreate(c) ==
  LET g == made + 1 IN
  /\ Called(c, "create")
  /\ \/ Returns(c)
     \/ /\ g \in Gids
        /\ made' = g
        /\ leader' = [leader EXCEPT ![g] = c]
        /\ AddMember(g, c, GROLE_LEADER)
        /\ guildOf' = [guildOf EXCEPT ![c] = g]
        /\ gold' = [gold EXCEPT ![c] = @ - Price]
        /\ Done(c)
        /\ UNCHANGED <<given, deleted, ousted, donation, rest, asked, odd>>

\* GuildRequestHandler: full, not free, no right to ask, or asked.  The handlers from
\* here to Donate do or return the same when they have waited, but for a donation of
\* somebody expelled meanwhile.
Invite(c, who) ==
  LET g == guildOf[c] IN
  /\ Idle(c) /\ g # None /\ Exists(g)
  /\ MemberCount(g) < MaxMembers
  /\ who \notin deleted /\ guildOf[who] = None /\ Role(g, c) \in Officers
  /\ leader[g] \notin deleted
  /\ Cardinality({a \in Chars \X Chars : a[2] \in asked[a[1]]}) < MaxAsked
  /\ asked' = [asked EXCEPT ![who] = @ \cup {leader[g]}]
  /\ UNCHANGED <<characters, guilds, call, rest, odd>>

\* ChangeRoleHandler: by who has the leader's role.
ChangeRole(c, who, r) ==
  LET g == guildOf[c] IN
  /\ Idle(c) /\ g # None /\ Exists(g)
  /\ Role(g, c) > GROLE_SOLDIER /\ Listed(g, who)
  /\ role' = [role EXCEPT ![g][who] = r]
  /\ UNCHANGED <<characters, made, ousted, leader, entries, donation, call, rest, asked, odd>>

\* GuildID -1 for a character that is taken to be in g.
Reset(g, m) ==
  /\ guildOf' = [guildOf EXCEPT ![m] = None]
  /\ given' = [given EXCEPT ![m] = 0]
  /\ odd' = odd \cup IF guildOf[m] \notin {g, None} THEN {m} ELSE {}

LeaveMutant(c) ==
  LET g == guildOf[c] IN
  /\ Idle(c) /\ g # None /\ Exists(g)
  /\ RemoveMember(g, c)
  /\ Reset(g, c)
  /\ UNCHANGED <<gold, deleted, made, ousted, leader, donation, call, rest, asked>>

\* LeaveGuildHandler, not the leader.
Leave(c) ==
  LET g == guildOf[c] IN
  /\ Idle(c) /\ g # None /\ Exists(g) /\ leader[g] # c
  /\ RemoveMember(g, c)
  /\ Reset(g, c)
  /\ UNCHANGED <<gold, deleted, made, ousted, leader, donation, call, rest, asked>>

\* DonateGoldToGuildHandler.
Donate(c) ==
  LET g == guildOf[c] IN
  /\ Idle(c) /\ g # None /\ Exists(g) /\ gold[c] > 0
  /\ \E n \in 0..gold[c] :
       /\ gold' = [gold EXCEPT ![c] = @ - n]
       /\ given' = [given EXCEPT ![c] = @ + n]
       /\ donation' = [donation EXCEPT ![g] = @ + n]
  /\ UNCHANGED <<guildOf, deleted, made, ousted, leader, entries, role, call, rest, asked, odd>>

Dissolving(g) == \E c \in Chars : Called(c, "dissolve") /\ call[c].guild = g

\* The rest of RespondGuildRequestHandler: nothing is asked again.
FinishAccept(c) ==
  LET g == call[c].guild IN
  /\ Called(c, "accept") /\ Exists(g)
  /\ AddMember(g, c, GROLE_MEMBER)
  /\ guildOf' = [guildOf EXCEPT ![c] = g]
  /\ odd' = odd \cup IF Dissolving(g) THEN {c} ELSE {}
  /\ Done(c)
  /\ UNCHANGED <<given, gold, deleted, made, ousted, leader, donation, rest, asked>>

\* ExpelFromGuildHandler: by an officer, whoever it is and wherever it is by now.
Expel(c) ==
  LET g == call[c].guild  who == call[c].who IN
  /\ Called(c, "expel") /\ Exists(g)
  /\ IF Role(g, c) \in Officers
     THEN /\ RemoveMember(g, who)
          /\ IF who \in deleted THEN UNCHANGED <<guildOf, given, odd>> ELSE Reset(g, who)
          /\ ousted' = ousted \cup ({leader[g]} \cap {who})
     ELSE UNCHANGED <<entries, role, guildOf, given, ousted, odd>>
  /\ Done(c)
  /\ UNCHANGED <<gold, deleted, made, leader, donation, rest, asked>>

\* LeaveGuildHandler, the leader: the members as they are now will be told.
BeginDissolve(c) ==
  LET g == call[c].guild IN
  /\ Called(c, "leave") /\ Exists(g) /\ leader[g] = c
  /\ guildOf' = [guildOf EXCEPT ![c] = None]
  /\ odd' = odd \cup IF guildOf[c] \notin {g, None} THEN {c} ELSE {}
  /\ rest' = [rest EXCEPT ![c] = {m \in Chars : Listed(g, m)}]
  /\ Wait(c, "dissolve", g, c)
  /\ UNCHANGED <<given, gold, deleted, guilds, asked>>

\* One of them; a write may wait for the last one.
ResetMember(c, m) ==
  /\ Called(c, "dissolve") /\ m \in rest[c]
  /\ rest' = [rest EXCEPT ![c] = @ \ {m}]
  /\ IF m \in deleted THEN UNCHANGED <<guildOf, given, odd>> ELSE Reset(call[c].guild, m)
  /\ UNCHANGED <<gold, deleted, guilds, call, asked>>

FinishDissolveMutant(c) ==
  /\ Called(c, "dissolve")
  /\ DeleteGuild(call[c].guild)
  /\ Done(c)
  /\ rest' = [rest EXCEPT ![c] = {}]
  /\ UNCHANGED <<characters, made, ousted, asked, odd>>
FinishDissolve(c) ==
  /\ Called(c, "dissolve") /\ rest[c] = {}
  /\ DeleteGuild(call[c].guild)
  /\ Done(c)
  /\ UNCHANGED <<characters, made, ousted, rest, asked, odd>>

\* The faction-change item: GuildID is reset, the guild is not told.
ChangeFaction(c) ==
  /\ Idle(c) /\ guildOf[c] # None
  /\ Cardinality(odd \cup deleted) < MaxLost
  /\ guildOf' = [guildOf EXCEPT ![c] = None]
  /\ odd' = odd \cup {c}
  /\ UNCHANGED <<given, gold, deleted, guilds, call, rest, asked>>

\* CharacterDeletionHandler: a leader's guild is deleted, its members are not told.
DeleteCharacter(c) ==
  LET g == guildOf[c] IN
  /\ Idle(c) /\ Cardinality(odd \cup deleted) < MaxLost
  /\ deleted' = deleted \cup {c}
  /\ guildOf' = [guildOf EXCEPT ![c] = None]
  /\ asked' = [asked EXCEPT ![c] = {}]
  /\ \/ /\ g = None \/ ~Exists(g)
        /\ UNCHANGED <<leader, entries, role, donation, odd>>
     \/ /\ g # None /\ Exists(g) /\ leader[g] = c
        /\ DeleteGuild(g)
        /\ odd' = odd \cup {m \in Chars : guildOf[m] = g}
     \/ /\ g # None /\ Exists(g) /\ leader[g] # c
        /\ RemoveMember(g, c)
        /\ UNCHANGED <<leader, donation, odd>>
  /\ UNCHANGED <<given, gold, made, ousted, call, rest>>

Next ==
  \/ \E c \in Chars :
       \/ BeginCreate(c) \/ FinishCreate(c) \/ NoGuild(c)
       \/ FinishAccept(c) \/ Expel(c) \/ Leave(c) \/ BeginDissolve(c) \/ FinishDissolve(c)
       \/ Donate(c) \/ ChangeFaction(c) \/ DeleteCharacter(c)
       \/ \E x \in Chars : BeginAccept(c, x) \/ Invite(c, x) \/ ResetMember(c, x)
       \/ \E x \in Chars, r \in NewRoles : ChangeRole(c, x, r)
       \/ \E op \in Ops, x \in Chars : BeginMember(c, op, x)

Spec == Init /\ [][Next]_vars

(***************************************************************************)
(* Properties                                                              *)
(***************************************************************************)
TypeOK ==
  /\ guildOf \in [Chars -> Gids \cup {None}]
  /\ given \in [Chars -> Nat] /\ gold \in [Chars -> Nat]
  /\ deleted \subseteq Chars /\ ousted \subseteq Chars
  /\ made \in 0..MaxGuilds
  /\ leader \in [Gids -> Chars \cup {None}]
  /\ entries \in [Gids -> [Chars -> Nat]]
  /\ role \in [Gids -> [Chars -> Roles]]
  /\ donation \in [Gids -> Nat]
  /\ call \in [Chars -> Calls \cup {None}]
  /\ rest \in [Chars -> SUBSET Chars]
  /\ asked \in [Chars -> SUBSET Chars]
  /\ odd \subseteq Chars

\* The guild of a character exists and lists it once: without that it can neither leave
\* nor found nor join one, as all three look at GuildID first.
GuildLists ==
  \A c \in Chars \ odd, g \in Gids :
    guildOf[c] = g => leader[g] # None /\ entries[g][c] = 1

\* Who is listed belongs to the guild and to no other, until the guild is dissolved.
ListedBelong ==
  \A c \in Chars \ (odd \cup deleted), g \in Gids :
    Listed(g, c) => guildOf[c] = g \/ Dissolving(g)

Given(g) ==
  {d \in (Chars \ odd) \X (1..InitGold) : guildOf[d[1]] = g /\ d[2] <= given[d[1]]}

\* A guild's donations cover what its members are shown to have given to it.
DonationsCover == \A g \in Gids : Cardinality(Given(g)) <= donation[g]

\* GuildID, the lists of members and the donations agree, whatever handlers wait.
GuildsAgree == GuildLists /\ ListedBelong /\ DonationsCover

\* Who leads g is listed by it and belongs to it, or dissolves it right now.
Led(g) ==
  LET l == leader[g] IN
  \/ l \notin deleted /\ guildOf[l] = g /\ Listed(g, l)
  \/ Called(l, "dissolve") /\ call[l].guild = g

\* A guild keeps its leader, whom invitations name and who alone can dissolve it, whatever
\* its members, and the leader, do and are waiting for, unless an officer has expelled the
\* leader (ousted; ExpelFromGuildHandler does not look at who is expelled).
GuildsAreLed == \A g \in Gids : Exists(g) /\ leader[g] \notin odd \cup ousted => Led(g)
=============================================================================
