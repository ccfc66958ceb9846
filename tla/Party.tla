------------------------------- MODULE Party -------------------------------
(***************************************************************************)
(* Parties: player/party.go, database/party.go and Character.LeaveParty.   *)
(*                                                                         *)
(* Parties maps the user of a leader to the party.  A character finds its  *)
(* party by PartyID, the user of whoever invited it; the party lists it in *)
(* Members, with a PartyMember that is new for every invitation.  Inviting *)
(* and expelling write to other players, and may wait, between their tests *)
(* and what they do.  Thirty seconds after an invitation that was not      *)
(* accepted a timer takes the invited off the list, by id, and leaves      *)
(* PartyID alone.                                                          *)
(*                                                                         *)
(* Each user has one character, so the users are named by them.  On map    *)
(* 243 and in dungeons LeaveParty and expelling do nothing; who is there   *)
(* is left open.                                                           *)
(***************************************************************************)
EXTENDS Integers, FiniteSets

CONSTANTS
  Chars,
  None,        \* no PartyID, no party under a user, no invitation, no handler in flight
  MaxParties,  \* bound: parties created in a behaviour
  MaxInvites,  \* bound: invitations in a behaviour
  MaxMembers   \* with more members nobody is invited (4 in the code)

Objects == 1..MaxParties
Invites == 1..MaxInvites
Calls == [op : {"invite", "expel", "expelled", "disband"}, party : Objects, who : Chars]
Timers == [invite : Invites, party : Objects, who : Chars]

ASSUME PartyAssumption ==
  /\ MaxParties \in Nat /\ MaxInvites \in Nat /\ MaxMembers \in Nat
  /\ None \notin Chars \cup Objects \cup Invites \cup Calls

VARIABLES
  partyId,    \* partyId[c]: Character.PartyID
  parties,    \* parties[u]: Parties
  created,    \* party objects so far
  leader,     \* leader[p]: Party.Leader
  members,    \* members[p][c]: the PartyMember under c's id
  invited,    \* invitations so far
  accepted,   \* accepted[i]: PartyMember.Accepted
  timers,     \* timers of invitations that have not fired
  call,       \* call[c]: what c's handler writes, and then does
  rest,       \* rest[c]: members that c, disbanding, has still to tell
  astray      \* history: characters whose PartyID or place in a list some step set
              \* without looking at the other, and who followed them

vars == <<partyId, parties, created, leader, members, invited, accepted, timers,
          call, rest, astray>>
invitations == <<invited, accepted, timers>>

Init ==
  /\ partyId = [c \in Chars |-> None]
  /\ parties = [u \in Chars |-> None]
  /\ created = 0
  /\ leader = [p \in Objects |-> None]
  /\ members = [p \in Objects |-> [c \in Chars |-> None]]
  /\ invited = 0
  /\ accepted = [i \in Invites |-> FALSE]
  /\ timers = {}
  /\ call = [c \in Chars |-> None]
  /\ rest = [c \in Chars |-> {}]
  /\ astray = {}

FindParty(c) == IF partyId[c] = None THEN None ELSE parties[partyId[c]]
Registered(p) == leader[p] # None /\ parties[leader[p]] = p
Accepted(p, c) == members[p][c] # None /\ accepted[members[p][c]]
Members(p) == {c \in Chars : members[p][c] # None}
WithoutMutant(p, c) == [members EXCEPT ![p][c] = 0]
Without(p, c) == [members EXCEPT ![p][c] = None]
AstrayWith(c) == {u \in Chars : u = c \/ partyId[u] = c}
\* PartyID of u is reset, as it is taken to be k.
Blindly(u, k) == IF partyId[u] \in {k, None} THEN {} ELSE AstrayWith(u)
Called(c, op) == call[c] # None /\ call[c].op = op
Disbanding(p) == \E s \in Chars : Called(s, "disband") /\ call[s].party = p

Waits(c, op, p, who) ==
  call' = [call EXCEPT ![c] = [op |-> op, party |-> p, who |-> who]]
Done(c) == call' = [call EXCEPT ![c] = None]

\* SendPartyRequestHandler up to its write: anyone in a party may ask, who is in none
\* gets one first.
BeginRequest(s, m) ==
  LET p == FindParty(s) IN
  /\ s # m /\ call[s] = None
  /\ invited + Cardinality({x \in Chars : Called(x, "invite")}) < MaxInvites
  /\ FindParty(m) = None
  /\ \/ /\ p # None /\ Cardinality(Members(p)) <= MaxMembers
        /\ Waits(s, "invite", p, m)
        /\ UNCHANGED <<partyId, parties, created, leader>>
     \/ /\ p = None /\ created + 1 \in Objects
        /\ created' = created + 1
        /\ leader' = [leader EXCEPT ![created + 1] = s]
        /\ partyId' = [partyId EXCEPT ![s] = s]
        /\ parties' = [parties EXCEPT ![s] = created + 1]
        /\ Waits(s, "invite", created + 1, m)
  /\ UNCHANGED <<members, invitations, rest, astray>>

\* The rest of it: nothing is looked at again.
FinishRequest(s) ==
  LET p == call[s].party  m == call[s].who  i == invited + 1 IN
  /\ Called(s, "invite") /\ i \in Invites
  /\ partyId' = [partyId EXCEPT ![m] = s]
  /\ members' = [members EXCEPT ![p][m] = i]
  /\ invited' = i
  /\ timers' = timers \cup {[invite |-> i, party |-> p, who |-> m]}
  /\ astray' = astray \cup IF \/ s # leader[p] \/ partyId[s] # s \/ ~Registered(p)
                              \/ FindParty(m) # None \/ \E q \in Objects : m \in Members(q)
                           THEN AstrayWith(m) ELSE {}
  /\ Done(s)
  /\ UNCHANGED <<parties, created, leader, accepted, rest>>

ExpireMutant(t) ==
  /\ t \in timers
  /\ timers' = timers \ {t}
  /\ UNCHANGED <<partyId, parties, created, leader, members, invited, accepted, call, rest, astray>>

\* The timer of thirty seconds.
Expire(t) ==
  /\ t \in timers
  /\ timers' = timers \ {t}
  /\ \/ /\ ~accepted[t.invite]
        /\ members' = Without(t.party, t.who)
        /\ astray' = astray \cup IF t.who \in Members(t.party) /\ partyId[t.who] # None
                              THEN {t.who} ELSE {}
     \/ accepted[t.invite] /\ UNCHANGED <<members, astray>>
  /\ UNCHANGED <<partyId, parties, created, leader, invited, accepted, call, rest>>

\* RespondPartyRequestHandler, accepted.  A client answers an invitation once, though the
\* answer may come late.
Accept(c) ==
  LET p == FindParty(c) IN
  /\ p # None /\ members[p][c] # None
  /\ accepted' = [accepted EXCEPT ![members[p][c]] = TRUE]
  /\ UNCHANGED <<partyId, parties, created, leader, members, invited, timers, call,
                 rest, astray>>

\* Refused, by whoever finds a party: an answer may be older than the party.  A leader left
\* alone is in no party any more, though the party stays.
Reject(c) ==
  LET p == FindParty(c)  alone == Members(p) \subseteq {c} IN
  /\ p # None
  /\ members' = Without(p, c)
  /\ partyId' = [u \in Chars |-> IF u = c \/ (alone /\ u = leader[p]) THEN None ELSE partyId[u]]
  /\ astray' = astray \cup IF leader[p] = c THEN AstrayWith(c)
                           ELSE IF alone THEN Blindly(leader[p], leader[p]) ELSE {}
  /\ UNCHANGED <<parties, created, leader, invitations, call, rest>>

\* Character.LeaveParty, not the leader: without members the party is deleted.
LeaveMutant(c) ==
  LET p == FindParty(c)  alone == Members(p) \subseteq {c} IN
  /\ p # None /\ leader[p] # c
  /\ members' = Without(p, c)
  /\ partyId' = [partyId EXCEPT ![leader[p]] = IF alone THEN None ELSE @]
  /\ parties' = [parties EXCEPT ![leader[p]] = IF alone THEN None ELSE @]
  /\ UNCHANGED <<created, leader, invitations, call, rest, astray>>
Leave(c) ==
  LET p == FindParty(c)  alone == Members(p) \subseteq {c} IN
  /\ p # None /\ leader[p] # c
  /\ members' = Without(p, c)
  /\ partyId' = [u \in Chars |-> IF u = c \/ (alone /\ u = leader[p]) THEN None ELSE partyId[u]]
  /\ parties' = [parties EXCEPT ![leader[p]] = IF alone THEN None ELSE @]
  /\ astray' = astray \cup IF alone THEN Blindly(leader[p], leader[p]) ELSE {}
  /\ UNCHANGED <<created, leader, invitations, call, rest>>

\* The leader disbands it: who has not accepted is not told.
BeginDisband(c) ==
  LET p == FindParty(c) IN
  /\ call[c] = None /\ p # None /\ leader[p] = c
  /\ partyId' = [partyId EXCEPT ![c] = None]
  /\ rest' = [rest EXCEPT ![c] = {m \in Chars : Accepted(p, m)}]
  /\ astray' = astray \cup {m \in Members(p) : ~Accepted(p, m)}
  /\ Waits(c, "disband", p, c)
  /\ UNCHANGED <<parties, created, leader, members, invitations>>

TellMember(c, m) ==
  /\ Called(c, "disband") /\ m \in rest[c]
  /\ partyId' = [partyId EXCEPT ![m] = None]
  /\ rest' = [rest EXCEPT ![c] = @ \ {m}]
  /\ astray' = astray \cup Blindly(m, c)
  /\ UNCHANGED <<parties, created, leader, members, invitations, call>>

FinishDisband(c) ==
  /\ Called(c, "disband") /\ rest[c] = {}
  /\ parties' = [parties EXCEPT ![c] = None]
  /\ Done(c)
  /\ UNCHANGED <<partyId, created, leader, members, invitations, rest, astray>>

\* ExpelFromPartyHandler up to its write.
BeginExpel(c, m) ==
  LET p == FindParty(c) IN
  /\ call[c] = None /\ p # None /\ leader[p] = c /\ m # c
  /\ m \in Members(p)
  /\ Waits(c, "expel", p, m)
  /\ UNCHANGED <<partyId, parties, created, leader, members, invitations, rest, astray>>

\* It goes on to write to the members.  Who is no member any more makes it panic, and
\* nothing follows.
FinishExpel(c) ==
  LET p == call[c].party  m == call[c].who IN
  /\ Called(c, "expel")
  /\ \/ /\ m \notin Members(p) /\ Done(c)
        /\ UNCHANGED <<members, partyId, astray>>
     \/ /\ m \in Members(p) /\ Waits(c, "expelled", p, m)
        /\ members' = Without(p, m)
        /\ partyId' = [partyId EXCEPT ![m] = None]
        /\ astray' = astray \cup Blindly(m, c)
  /\ UNCHANGED <<parties, created, leader, invitations, rest>>

\* The members are told: without any by now the party is deleted.
EndExpel(c) ==
  LET alone == Members(call[c].party) = {} IN
  /\ Called(c, "expelled") /\ Done(c)
  /\ partyId' = [partyId EXCEPT ![c] = IF alone THEN None ELSE @]
  /\ parties' = [parties EXCEPT ![c] = IF alone THEN None ELSE @]
  /\ astray' = astray \cup IF alone THEN Blindly(c, c) ELSE {}
  /\ UNCHANGED <<created, leader, members, invitations, rest>>

\* Character.Logout where LeaveParty does nothing: the next object of the character has
\* no PartyID, the party keeps the old one.
LogoutInside(c) ==
  /\ call[c] = None /\ partyId[c] # None
  /\ partyId' = [partyId EXCEPT ![c] = None]
  /\ astray' = astray \cup AstrayWith(c)
  /\ UNCHANGED <<parties, created, leader, members, invitations, call, rest>>

Next ==
  \/ \E c \in Chars :
       \/ FinishRequest(c) \/ Accept(c) \/ Reject(c) \/ Leave(c)
       \/ BeginDisband(c) \/ FinishDisband(c) \/ FinishExpel(c) \/ EndExpel(c)
       \/ LogoutInside(c)
       \/ \E m \in Chars : BeginRequest(c, m) \/ TellMember(c, m) \/ BeginExpel(c, m)
  \/ \E t \in timers : Expire(t)

Spec == Init /\ [][Next]_vars

\* Timers fire.
FairSpec == Spec /\ \A t \in Timers : WF_vars(Expire(t))

(***************************************************************************)
(* Properties                                                              *)
(***************************************************************************)
TypeOK ==
  /\ partyId \in [Chars -> Chars \cup {None}]
  /\ parties \in [Chars -> Objects \cup {None}]
  /\ created \in 0..MaxParties
  /\ leader \in [Objects -> Chars \cup {None}]
  /\ members \in [Objects -> [Chars -> Invites \cup {None}]]
  /\ invited \in 0..MaxInvites
  /\ accepted \in [Invites -> BOOLEAN]
  /\ timers \subseteq Timers
  /\ call \in [Chars -> Calls \cup {None}]
  /\ rest \in [Chars -> SUBSET Chars]
  /\ astray \subseteq Chars

\* Who finds a party leads it or is on its list: all others can neither be asked nor
\* accept before they have left a party that they were never in.
FinderBelongs ==
  \A c \in Chars \ astray :
    LET p == FindParty(c) IN p # None => leader[p] = c \/ c \in Members(p)

\* Who has accepted finds the party, as long as it is in Parties, or is about to be told
\* of its end; experience and talk go to the list, leaving and expelling by PartyID.
MemberFinds ==
  \A c \in Chars \ astray, p \in Objects :
    Registered(p) /\ Accepted(p, c) => FindParty(c) = p \/ Disbanding(p)

\* A party with members has its leader in it, who alone can expel and disband.
Led ==
  \A p \in Objects :
    Registered(p) /\ (\E c \in Chars \ astray : Accepted(p, c))
      => partyId[leader[p]] = leader[p] \/ Disbanding(p)

\* PartyID, Parties and the lists of members agree.
PartiesAgree == FinderBelongs /\ MemberFinds /\ Led

\* Every invitation is settled: nobody stays on a list without having accepted.
InvitesSettle ==
  \A i \in Invites :
    (\E p \in Objects, c \in Chars : members[p][c] = i)
      ~> accepted[i] \/ ~\E p \in Objects, c \in Chars : members[p][c] = i
=============================================================================
