---------------------------- MODULE PartyProofs ----------------------------
(***************************************************************************)
(* Theorems about Party for any number of characters, parties and          *)
(* invitations: the types, and that PartyID, Parties and the lists of      *)
(* members agree (PartiesAgree) for all who are not astray.                *)
(*                                                                         *)
(* PartiesAgree is not inductive.  Follows says how a PartyID leads to a   *)
(* list: the user it names has a party, lists who names it, and is in that *)
(* party itself unless it disbands it and has still to tell.  Frame holds  *)
(* what is so whoever is astray: the user of a party leads it, every       *)
(* invitation has one place in one list, and what waiting handlers know.   *)
(***************************************************************************)
EXTENDS Party, TLAPS

PartiesLed == \A u \in Chars : parties[u] # None => leader[parties[u]] = u

\* Parties not created yet have nobody.
NoneYet ==
  \A p \in Objects :
    p > created => leader[p] = None /\ \A c \in Chars : members[p][c] = None

\* An invitation has one place in one list, and is accepted only when it was made.
OnePlace ==
  /\ \A p, q \in Objects, c, d \in Chars :
       members[p][c] # None /\ members[p][c] = members[q][d] => p = q /\ c = d
  /\ \A p \in Objects, c \in Chars : members[p][c] # None => members[p][c] <= invited
  /\ \A i \in Invites : accepted[i] => i <= invited

\* Who expels or disbands leads the party, and has that one or none.
Knows ==
  \A c \in Chars :
    call[c] # None =>
      /\ call[c].party <= created
      /\ call[c].op # "disband" => call[c].who # c
      /\ call[c].op # "invite" =>
           leader[call[c].party] = c /\ parties[c] \in {call[c].party, None}
      /\ call[c].op = "disband" => partyId[c] # c

Frame == PartiesLed /\ NoneYet /\ OnePlace /\ Knows

\* Whoever c's PartyID names has a party and lists c, and is in it or has still to tell c.
Follows ==
  \A c \in Chars \ astray : \A u \in Chars :
    partyId[c] = u =>
      /\ parties[u] # None
      /\ u = c \/ c \in Members(parties[u])
      /\ partyId[u] = u
         \/ (Called(u, "disband") /\ call[u].party = parties[u] /\ c \in rest[u])

\* An action of Party (a disjunct of Next), for the case splits below.
Step ==
  \/ \E c \in Chars :
       \/ FinishRequest(c) \/ Accept(c) \/ Reject(c) \/ Leave(c) \/ BeginDisband(c)
       \/ FinishDisband(c) \/ FinishExpel(c) \/ EndExpel(c) \/ LogoutInside(c)
       \/ \E m \in Chars : BeginRequest(c, m) \/ TellMember(c, m) \/ BeginExpel(c, m)
  \/ \E t \in Timers : Expire(t)

\* Every step of Next is one of these.
LEMMA NextIsStep == TypeOK /\ Next => Step
  BY DEF Next, Step, TypeOK

-----------------------------------------------------------------------------
\* What a handler waits with keeps its type.
LEMMA WaitsType ==
  ASSUME TypeOK, NEW c \in Chars, NEW op \in {"invite", "expel", "expelled", "disband"},
         NEW p \in Objects, NEW who \in Chars,
         Waits(c, op, p, who) \/ Done(c)
  PROVE  call' \in [Chars -> Calls \cup {None}]
  BY DEF TypeOK, Waits, Done, Calls

\* Off a list.
LEMMA WithoutType ==
  ASSUME TypeOK, NEW p \in Objects, NEW c \in Chars, members' = Without(p, c)
  PROVE  /\ members' \in [Objects -> [Chars -> Invites \cup {None}]]
         /\ members'[p][c] = None
         /\ \A q \in Objects, d \in Chars : q # p \/ d # c => members'[q][d] = members[q][d]
  BY DEF TypeOK, Without

\* The party of a PartyID, and who leads it.
LEMMA FindType ==
  ASSUME TypeOK, PartiesLed, NEW c \in Chars, FindParty(c) # None
  PROVE  /\ FindParty(c) \in Objects /\ partyId[c] \in Chars
         /\ leader[FindParty(c)] = partyId[c] /\ parties[partyId[c]] = FindParty(c)
  BY DEF TypeOK, PartiesLed, FindParty

\* The history of those gone astray keeps its type.
LEMMA AstrayType ==
  ASSUME TypeOK, NEW c \in Chars, NEW k
  PROVE  AstrayWith(c) \subseteq Chars /\ Blindly(c, k) \subseteq Chars
  BY DEF AstrayWith, Blindly

\* Every step keeps the types.
LEMMA StepType ==
  ASSUME TypeOK, PartiesLed, Step
  PROVE  TypeOK'
<1> USE PartyAssumption
<1>1. ASSUME NEW s \in Chars, NEW m \in Chars, BeginRequest(s, m) PROVE TypeOK'
  <2>1. CASE FindParty(s) # None /\ Waits(s, "invite", FindParty(s), m)
             /\ UNCHANGED <<partyId, parties, created, leader>>
    <3>1. call' \in [Chars -> Calls \cup {None}]
      BY <2>1, FindType, WaitsType
    <3> QED
      BY <1>1, <2>1, <3>1 DEF BeginRequest, TypeOK, invitations
  <2>2. CASE /\ created + 1 \in Objects /\ created' = created + 1
             /\ leader' = [leader EXCEPT ![created + 1] = s]
             /\ partyId' = [partyId EXCEPT ![s] = s]
             /\ parties' = [parties EXCEPT ![s] = created + 1]
             /\ Waits(s, "invite", created + 1, m)
    <3>1. call' \in [Chars -> Calls \cup {None}]
      BY <2>2, WaitsType
    <3>2. leader' \in [Objects -> Chars \cup {None}] /\ created' \in 0..MaxParties
      BY <2>2 DEF TypeOK, Objects
    <3>3. partyId' \in [Chars -> Chars \cup {None}] /\ parties' \in [Chars -> Objects \cup {None}]
      BY <2>2 DEF TypeOK
    <3> QED
      BY <1>1, <3>1, <3>2, <3>3 DEF BeginRequest, TypeOK, invitations
  <2> QED
    BY <1>1, <2>1, <2>2 DEF BeginRequest
<1>2. ASSUME NEW s \in Chars, FinishRequest(s) PROVE TypeOK'
  <2> DEFINE p == call[s].party
             m == call[s].who
             i == invited + 1
  <2>1. p \in Objects /\ m \in Chars
    BY <1>2 DEF FinishRequest, Called, TypeOK, Calls
  <2>2. call' \in [Chars -> Calls \cup {None}]
    BY <1>2, <2>1, WaitsType DEF FinishRequest
  <2>3. i \in Invites /\ invited' \in 0..MaxInvites
    BY <1>2 DEF FinishRequest, Invites
  <2>4. members' = [members EXCEPT ![p][m] = i] /\ partyId' = [partyId EXCEPT ![m] = s]
    BY <1>2 DEF FinishRequest
  <2>5. /\ members' \in [Objects -> [Chars -> Invites \cup {None}]]
        /\ partyId' \in [Chars -> Chars \cup {None}]
    BY <2>1, <2>3, <2>4 DEF TypeOK
  <2>6. timers' \subseteq Timers
    BY <1>2, <2>1, <2>3 DEF FinishRequest, TypeOK, Timers
  <2>7. astray' \subseteq Chars
    BY <1>2, <2>1, AstrayType DEF FinishRequest, TypeOK
  <2> QED
    BY <1>2, <2>2, <2>3, <2>5, <2>6, <2>7 DEF FinishRequest, TypeOK
<1>3. ASSUME NEW t \in Timers, Expire(t) PROVE TypeOK'
  <2>1. t.party \in Objects /\ t.who \in Chars
    BY DEF Timers
  <2>2. members' \in [Objects -> [Chars -> Invites \cup {None}]]
    BY <1>3, <2>1, WithoutType DEF Expire, TypeOK
  <2>3. timers' \subseteq Timers /\ astray' \subseteq Chars
    BY <1>3, <2>1 DEF Expire, TypeOK
  <2> QED
    BY <1>3, <2>2, <2>3 DEF Expire, TypeOK
<1>4. ASSUME NEW c \in Chars, Accept(c) PROVE TypeOK'
  BY <1>4 DEF Accept, TypeOK
<1>5. ASSUME NEW c \in Chars, Reject(c) \/ Leave(c) PROVE TypeOK'
  <2> DEFINE p == FindParty(c)
  <2>1. p \in Objects /\ leader[p] \in Chars
    BY <1>5, FindType DEF Reject, Leave
  <2>2. members' \in [Objects -> [Chars -> Invites \cup {None}]]
    BY <1>5, <2>1, WithoutType DEF Reject, Leave
  <2>3. partyId' \in [Chars -> Chars \cup {None}]
    BY <1>5 DEF Reject, Leave, TypeOK
  <2>4. parties' \in [Chars -> Objects \cup {None}]
    BY <1>5 DEF Reject, Leave, TypeOK
  <2>5. astray' \subseteq Chars
    BY <1>5, <2>1, AstrayType DEF Reject, Leave, TypeOK
  <2> QED
    BY <1>5, <2>2, <2>3, <2>4, <2>5 DEF Reject, Leave, TypeOK, invitations
<1>6. ASSUME NEW c \in Chars, BeginDisband(c) PROVE TypeOK'
  <2>1. call' \in [Chars -> Calls \cup {None}]
    BY <1>6, FindType, WaitsType DEF BeginDisband
  <2>2. rest' \in [Chars -> SUBSET Chars] /\ partyId' \in [Chars -> Chars \cup {None}]
    BY <1>6 DEF BeginDisband, TypeOK
  <2>3. astray' \subseteq Chars
    BY <1>6 DEF BeginDisband, TypeOK, Members
  <2> QED
    BY <1>6, <2>1, <2>2, <2>3 DEF BeginDisband, TypeOK, invitations
<1>7. ASSUME NEW c \in Chars, NEW m \in Chars, TellMember(c, m) PROVE TypeOK'
  <2>1. rest' \in [Chars -> SUBSET Chars] /\ partyId' \in [Chars -> Chars \cup {None}]
    BY <1>7 DEF TellMember, TypeOK
  <2> QED
    BY <1>7, <2>1, AstrayType DEF TellMember, TypeOK, invitations
<1>8. ASSUME NEW c \in Chars, FinishDisband(c) PROVE TypeOK'
  <2>1. call' \in [Chars -> Calls \cup {None}]
    BY <1>8 DEF FinishDisband, Done, TypeOK
  <2>2. parties' \in [Chars -> Objects \cup {None}]
    BY <1>8 DEF FinishDisband, TypeOK
  <2> QED
    BY <1>8, <2>1, <2>2 DEF FinishDisband, TypeOK, invitations
<1>9. ASSUME NEW c \in Chars, NEW m \in Chars, BeginExpel(c, m) PROVE TypeOK'
  <2>1. call' \in [Chars -> Calls \cup {None}]
    BY <1>9, FindType, WaitsType DEF BeginExpel
  <2> QED
    BY <1>9, <2>1 DEF BeginExpel, TypeOK, invitations
<1>10. ASSUME NEW c \in Chars, FinishExpel(c) PROVE TypeOK'
  <2> DEFINE p == call[c].party
             m == call[c].who
  <2>1. p \in Objects /\ m \in Chars
    BY <1>10 DEF FinishExpel, Called, TypeOK, Calls
  <2>2. call' \in [Chars -> Calls \cup {None}]
    BY <1>10, <2>1, WaitsType DEF FinishExpel
  <2>3. members' \in [Objects -> [Chars -> Invites \cup {None}]]
    BY <1>10, <2>1, WithoutType DEF FinishExpel, TypeOK
  <2>4. partyId' \in [Chars -> Chars \cup {None}]
    BY <1>10 DEF FinishExpel, TypeOK
  <2>5. astray' \subseteq Chars
    BY <1>10, <2>1, AstrayType DEF FinishExpel, TypeOK
  <2> QED
    BY <1>10, <2>2, <2>3, <2>4, <2>5 DEF FinishExpel, TypeOK, invitations
<1>12. ASSUME NEW c \in Chars, EndExpel(c) PROVE TypeOK'
  <2>1. call' \in [Chars -> Calls \cup {None}]
    BY <1>12 DEF EndExpel, Done, TypeOK
  <2>2. /\ partyId' \in [Chars -> Chars \cup {None}]
        /\ parties' \in [Chars -> Objects \cup {None}]
    BY <1>12 DEF EndExpel, TypeOK
  <2>3. astray' \subseteq Chars
    BY <1>12, AstrayType DEF EndExpel, TypeOK
  <2> QED
    BY <1>12, <2>1, <2>2, <2>3 DEF EndExpel, TypeOK, invitations
<1>11. ASSUME NEW c \in Chars, LogoutInside(c) PROVE TypeOK'
  BY <1>11, AstrayType DEF LogoutInside, TypeOK, invitations
<1> QED
  BY <1>1, <1>2, <1>3, <1>4, <1>5, <1>6, <1>7, <1>8, <1>9, <1>10, <1>11,
     <1>12 DEF Step

-----------------------------------------------------------------------------
\* What the steps do to the call and the list of a handler.
LEMMA WaitsGives ==
  ASSUME TypeOK, NEW c \in Chars, NEW op \in {"invite", "expel", "expelled", "disband"},
         NEW p \in Objects, NEW who \in Chars, Waits(c, op, p, who)
  PROVE  /\ call'[c] = [op |-> op, party |-> p, who |-> who] /\ call'[c] # None
         /\ \A x \in Chars \ {c} : call'[x] = call[x]
<1>1. [op |-> op, party |-> p, who |-> who] \in Calls
  BY DEF Calls
<1> QED
  BY <1>1, PartyAssumption DEF Waits, TypeOK

\* What a handler that is done leaves.
LEMMA DoneGives ==
  ASSUME TypeOK, NEW c \in Chars, Done(c)
  PROVE  call'[c] = None /\ \A x \in Chars \ {c} : call'[x] = call[x]
  BY DEF Done, TypeOK

\* Where nobody comes into a list and nothing is created or accepted, and who leads what
\* stays, the first three parts of Frame are kept.
LEMMA ListsShrink ==
  ASSUME TypeOK, TypeOK', Frame, UNCHANGED <<created, leader, invited, accepted>>,
         \A p \in Objects, c \in Chars : members'[p][c] \in {members[p][c], None},
         \A u \in Chars : parties'[u] \in {parties[u], None}
  PROVE  PartiesLed' /\ NoneYet' /\ OnePlace'
<1>1. PartiesLed'
  BY DEF Frame, PartiesLed
<1>2. NoneYet'
  BY DEF Frame, NoneYet
<1>3. OnePlace'
  BY DEF Frame, OnePlace
<1> QED
  BY <1>1, <1>2, <1>3

\* Every step keeps Frame.
LEMMA StepFrame ==
  ASSUME TypeOK, TypeOK', Frame, Step
  PROVE  Frame'
<1> USE PartyAssumption
<1>1. ASSUME NEW s \in Chars, NEW m \in Chars, BeginRequest(s, m) PROVE Frame'
  <2>1. s # m /\ call[s] = None /\ UNCHANGED <<members, invited, accepted>>
    BY <1>1 DEF BeginRequest, invitations
  <2>2. CASE FindParty(s) # None /\ Waits(s, "invite", FindParty(s), m)
             /\ UNCHANGED <<partyId, parties, created, leader>>
    <3> DEFINE p == FindParty(s)
    <3>1. p \in Objects /\ leader[p] # None
      BY <2>2, FindType DEF Frame, TypeOK
    <3>2. p <= created
      BY <3>1 DEF Frame, NoneYet, TypeOK, Objects
    <3>3. /\ call'[s] = [op |-> "invite", party |-> p, who |-> m]
          /\ \A x \in Chars \ {s} : call'[x] = call[x]
      BY <2>2, <3>1, WaitsGives
    <3>4. PartiesLed' /\ NoneYet' /\ OnePlace'
      BY <2>1, <2>2, ListsShrink
    <3>5. Knows'
      BY <2>1, <2>2, <3>2, <3>3 DEF Frame, Knows
    <3> QED
      BY <3>4, <3>5 DEF Frame
  <2>3. CASE /\ created + 1 \in Objects /\ created' = created + 1
             /\ leader' = [leader EXCEPT ![created + 1] = s]
             /\ partyId' = [partyId EXCEPT ![s] = s]
             /\ parties' = [parties EXCEPT ![s] = created + 1]
             /\ Waits(s, "invite", created + 1, m)
    <3> DEFINE p == created + 1
    <3>1. /\ call'[s] = [op |-> "invite", party |-> p, who |-> m]
          /\ \A x \in Chars \ {s} : call'[x] = call[x]
      BY <2>3, WaitsGives
    <3>2. /\ leader'[p] = s /\ \A q \in Objects \ {p} : leader'[q] = leader[q]
          /\ parties'[s] = p /\ partyId'[s] = s
          /\ \A x \in Chars \ {s} : parties'[x] = parties[x] /\ partyId'[x] = partyId[x]
      BY <2>3 DEF TypeOK
    <3>3. leader[p] = None
      BY <2>3 DEF Frame, NoneYet, TypeOK
    <3>4. PartiesLed'
      <4>1. ASSUME NEW u \in Chars \ {s}, parties'[u] # None PROVE leader'[parties'[u]] = u
        <5>1. parties'[u] = parties[u] /\ leader[parties[u]] = u /\ parties[u] \in Objects
          BY <3>2, <4>1 DEF Frame, PartiesLed, TypeOK
        <5>2. parties[u] # p
          BY <3>3, <5>1
        <5> QED
          BY <3>2, <5>1, <5>2
      <4> QED
        BY <3>2, <4>1 DEF PartiesLed
    <3>5. NoneYet'
      BY <2>1, <2>3, <3>2 DEF Frame, NoneYet, TypeOK, Objects
    <3>6. OnePlace'
      BY <2>1 DEF Frame, OnePlace
    <3>7. Knows'
      <4>1. ASSUME NEW c \in Chars \ {s}, call[c] # None
            PROVE  /\ call[c].party <= created'
                   /\ call[c].op # "invite" => leader'[call[c].party] = c
        <5>1. call[c].party \in Objects /\ call[c].party <= created
          BY <4>1 DEF Frame, Knows, TypeOK, Calls
        <5>2. call[c].op # "invite" => leader[call[c].party] = c
          BY <4>1 DEF Frame, Knows
        <5> QED
          BY <2>3, <3>2, <3>3, <5>1, <5>2 DEF TypeOK, Objects
      <4>2. ASSUME NEW c \in Chars \ {s}, call'[c] # None
            PROVE  /\ call'[c].party <= created'
                   /\ call'[c].op # "disband" => call'[c].who # c
                   /\ call'[c].op # "invite" =>
                        leader'[call'[c].party] = c /\ parties'[c] \in {call'[c].party, None}
                   /\ call'[c].op = "disband" => partyId'[c] # c
        BY <3>1, <3>2, <4>1, <4>2 DEF Frame, Knows
      <4>3. p <= created'
        BY <2>3 DEF TypeOK
      <4>4. /\ call'[s].party <= created' /\ call'[s].who # s
            /\ call'[s].op = "invite"
        BY <2>1, <3>1, <4>3
      <4>5. ASSUME NEW c \in Chars, call'[c] # None
            PROVE  /\ call'[c].party <= created'
                   /\ call'[c].op # "disband" => call'[c].who # c
                   /\ call'[c].op # "invite" =>
                        leader'[call'[c].party] = c /\ parties'[c] \in {call'[c].party, None}
                   /\ call'[c].op = "disband" => partyId'[c] # c
        <5>1. CASE c = s
          BY <4>4, <5>1
        <5>2. CASE c # s
          BY <4>2, <4>5, <5>2
        <5> QED
          BY <5>1, <5>2
      <4> QED
        BY <4>5 DEF Knows
    <3> QED
      BY <3>4, <3>5, <3>6, <3>7 DEF Frame
  <2> QED
    BY <1>1, <2>2, <2>3 DEF BeginRequest
<1>2. ASSUME NEW s \in Chars, FinishRequest(s) PROVE Frame'
  <2> DEFINE p == call[s].party
             m == call[s].who
             i == invited + 1
  <2>1. /\ call[s] # None /\ call[s].op = "invite" /\ p \in Objects /\ m \in Chars
        /\ i \in Invites /\ invited' = i /\ invited \in Nat
        /\ UNCHANGED <<parties, created, leader, accepted, rest>>
    BY <1>2 DEF FinishRequest, Called, TypeOK, Calls
  <2>2. call'[s] = None /\ \A x \in Chars \ {s} : call'[x] = call[x]
    BY <1>2, DoneGives DEF FinishRequest
  <2>3. /\ members'[p][m] = i
        /\ \A q \in Objects, d \in Chars : q # p \/ d # m => members'[q][d] = members[q][d]
    BY <1>2, <2>1 DEF FinishRequest, TypeOK
  <2>4. partyId'[m] = s /\ \A x \in Chars \ {m} : partyId'[x] = partyId[x]
    BY <1>2, <2>1 DEF FinishRequest, TypeOK
  <2>5. p <= created
    BY <2>1 DEF Frame, Knows
  <2>6. PartiesLed'
    BY <2>1 DEF Frame, PartiesLed
  <2>7. NoneYet'
    <3>1. \A q \in Objects : q > created => q # p
      BY <2>1, <2>5 DEF TypeOK, Objects
    <3> QED
      BY <2>1, <2>3, <3>1 DEF Frame, NoneYet
  <2>8. OnePlace'
    <3>1. \A q \in Objects, d \in Chars : members[q][d] # None =>
            members[q][d] <= invited /\ members[q][d] \in Invites
      BY DEF Frame, OnePlace, TypeOK
    <3>2. \A q \in Objects, d \in Chars : members[q][d] # i
      BY <2>1, <3>1 DEF Invites
    <3>3. \A q \in Objects, d \in Chars : members'[q][d] # None =>
            members'[q][d] <= invited'
      BY <2>1, <2>3, <3>1 DEF Invites
    <3>4. \A k \in Invites : accepted'[k] => k <= invited'
      BY <2>1 DEF Frame, OnePlace, Invites
    <3>5. \A q, r \in Objects, c, d \in Chars :
            members'[q][c] # None /\ members'[q][c] = members'[r][d] => q = r /\ c = d
      BY <2>1, <2>3, <3>2 DEF Frame, OnePlace
    <3> QED
      BY <3>3, <3>4, <3>5 DEF OnePlace
  <2>9. m # s
    BY <2>1 DEF Frame, Knows
  <2>10. Knows'
    BY <2>1, <2>2, <2>4, <2>9 DEF Frame, Knows
  <2> QED
    BY <2>6, <2>7, <2>8, <2>10 DEF Frame
<1>3. ASSUME NEW t \in Timers, Expire(t) PROVE Frame'
  <2>1. UNCHANGED <<partyId, parties, created, leader, invited, accepted, call>>
    BY <1>3 DEF Expire
  <2>2. t.party \in Objects /\ t.who \in Chars
    BY DEF Timers
  <2>3. \A p \in Objects, c \in Chars : members'[p][c] \in {members[p][c], None}
    BY <1>3, <2>2, WithoutType DEF Expire
  <2>4. Knows'
    BY <2>1 DEF Frame, Knows
  <2> QED
    BY <2>1, <2>3, <2>4, ListsShrink DEF Frame
<1>4. ASSUME NEW c \in Chars, Accept(c) PROVE Frame'
  <2> DEFINE p == FindParty(c)
  <2>1. UNCHANGED <<partyId, parties, created, leader, members, invited, call>>
    BY <1>4 DEF Accept
  <2>2. p \in Objects /\ members[p][c] \in Invites /\ members[p][c] <= invited
    BY <1>4, FindType DEF Accept, Frame, OnePlace, TypeOK
  <2>3. \A k \in Invites : accepted'[k] => accepted[k] \/ k = members[p][c]
    BY <1>4, <2>2 DEF Accept, TypeOK
  <2>4. OnePlace'
    BY <2>1, <2>2, <2>3 DEF Frame, OnePlace
  <2> QED
    BY <2>1, <2>4 DEF Frame, PartiesLed, NoneYet, Knows
<1>5. ASSUME NEW c \in Chars, Reject(c) \/ Leave(c) PROVE Frame'
  <2> DEFINE p == FindParty(c)
  <2>1. p \in Objects /\ members' = Without(p, c)
        /\ UNCHANGED <<created, leader, invited, accepted, call>>
    BY <1>5, FindType DEF Reject, Leave, invitations, Frame
  <2>2. \A q \in Objects, d \in Chars : members'[q][d] \in {members[q][d], None}
    BY <2>1, WithoutType
  <2>3. \A u \in Chars : /\ parties'[u] \in {parties[u], None}
                         /\ partyId'[u] \in {partyId[u], None}
    BY <1>5 DEF Reject, Leave, TypeOK
  <2>4. Knows'
    BY <2>1, <2>3 DEF Frame, Knows
  <2> QED
    BY <2>1, <2>2, <2>3, <2>4, ListsShrink DEF Frame
<1>6. ASSUME NEW c \in Chars, BeginDisband(c) PROVE Frame'
  <2> DEFINE p == FindParty(c)
  <2>1. /\ call[c] = None /\ p \in Objects /\ leader[p] = c /\ partyId[c] = c /\ parties[c] = p
        /\ UNCHANGED <<parties, created, leader, members, invited, accepted>>
    BY <1>6, FindType DEF BeginDisband, invitations, Frame
  <2>2. p <= created
    BY <2>1 DEF Frame, NoneYet, TypeOK, Objects
  <2>3. /\ call'[c] = [op |-> "disband", party |-> p, who |-> c]
        /\ \A x \in Chars \ {c} : call'[x] = call[x]
    BY <1>6, <2>1, WaitsGives DEF BeginDisband
  <2>4. partyId'[c] = None /\ \A x \in Chars \ {c} : partyId'[x] = partyId[x]
    BY <1>6 DEF BeginDisband, TypeOK
  <2>5. Knows'
    BY <2>1, <2>2, <2>3, <2>4 DEF Frame, Knows
  <2> QED
    BY <2>1, <2>5, ListsShrink DEF Frame
<1>7. ASSUME NEW c \in Chars, NEW m \in Chars, TellMember(c, m) PROVE Frame'
  <2>1. UNCHANGED <<parties, created, leader, members, invited, accepted, call>>
    BY <1>7 DEF TellMember, invitations
  <2>2. \A u \in Chars : partyId'[u] \in {partyId[u], None}
    BY <1>7 DEF TellMember, TypeOK
  <2>3. Knows'
    BY <2>1, <2>2 DEF Frame, Knows
  <2> QED
    BY <2>1, <2>3, ListsShrink DEF Frame
<1>8. ASSUME NEW c \in Chars, FinishDisband(c) \/ EndExpel(c) PROVE Frame'
  <2>1. UNCHANGED <<created, leader, members, invited, accepted>>
    BY <1>8 DEF FinishDisband, EndExpel, invitations
  <2>2. call'[c] = None /\ \A x \in Chars \ {c} : call'[x] = call[x]
    BY <1>8, DoneGives DEF FinishDisband, EndExpel
  <2>3. \A u \in Chars : /\ parties'[u] \in {parties[u], None}
                         /\ partyId'[u] \in {partyId[u], None}
    BY <1>8 DEF FinishDisband, EndExpel, TypeOK
  <2>4. Knows'
    BY <2>1, <2>2, <2>3 DEF Frame, Knows
  <2> QED
    BY <2>1, <2>3, <2>4, ListsShrink DEF Frame
<1>11. ASSUME NEW c \in Chars, FinishExpel(c) PROVE Frame'
  <2> DEFINE p == call[c].party
             m == call[c].who
  <2>1. UNCHANGED <<parties, created, leader, invited, accepted>>
    BY <1>11 DEF FinishExpel, invitations
  <2>2. p \in Objects /\ m \in Chars /\ call[c] # None /\ call[c].op = "expel"
    BY <1>11 DEF FinishExpel, Called, TypeOK, Calls
  <2>3. /\ \A x \in Chars \ {c} : call'[x] = call[x]
        /\ call'[c] # None => call'[c] = [op |-> "expelled", party |-> p, who |-> m]
    BY <1>11, <2>2, DoneGives, WaitsGives DEF FinishExpel
  <2>4. \A u \in Chars : partyId'[u] \in {partyId[u], None}
    BY <1>11 DEF FinishExpel, TypeOK
  <2>5. \A q \in Objects, d \in Chars : members'[q][d] \in {members[q][d], None}
    BY <1>11, <2>2, WithoutType DEF FinishExpel
  <2>6. Knows'
    <3>1. /\ p <= created /\ m # c /\ leader[p] = c /\ parties[c] \in {p, None}
      BY <2>2 DEF Frame, Knows
    <3> QED
      BY <2>1, <2>3, <2>4, <3>1 DEF Frame, Knows
  <2> QED
    BY <2>1, <2>5, <2>6, ListsShrink DEF Frame
<1>9. ASSUME NEW c \in Chars, NEW m \in Chars, BeginExpel(c, m) PROVE Frame'
  <2> DEFINE p == FindParty(c)
  <2>1. /\ p \in Objects /\ leader[p] = c /\ parties[c] = p /\ m # c
        /\ UNCHANGED <<partyId, parties, created, leader, members, invited, accepted>>
    BY <1>9, FindType DEF BeginExpel, invitations, Frame
  <2>2. p <= created
    BY <2>1 DEF Frame, NoneYet, TypeOK, Objects
  <2>3. /\ call'[c] = [op |-> "expel", party |-> p, who |-> m]
        /\ \A x \in Chars \ {c} : call'[x] = call[x]
    BY <1>9, <2>1, WaitsGives DEF BeginExpel
  <2>4. Knows'
    BY <2>1, <2>2, <2>3 DEF Frame, Knows
  <2> QED
    BY <2>1, <2>4, ListsShrink DEF Frame
<1>10. ASSUME NEW c \in Chars, LogoutInside(c) PROVE Frame'
  <2>1. UNCHANGED <<parties, created, leader, members, invited, accepted, call>>
    BY <1>10 DEF LogoutInside, invitations
  <2>2. \A u \in Chars : partyId'[u] \in {partyId[u], None}
    BY <1>10 DEF LogoutInside, TypeOK
  <2>3. Knows'
    BY <2>1, <2>2 DEF Frame, Knows
  <2> QED
    BY <2>1, <2>3, ListsShrink DEF Frame
<1> QED
  BY <1>1, <1>2, <1>3, <1>4, <1>5, <1>6, <1>7, <1>8, <1>9, <1>10, <1>11 DEF Step

-----------------------------------------------------------------------------
\* Follows, in the form the steps use: who is not astray and names u.
LEMMA Names ==
  ASSUME Follows, NEW c \in Chars \ astray, NEW u \in Chars, partyId[c] = u
  PROVE  /\ parties[u] # None
         /\ u = c \/ c \in Members(parties[u])
         /\ partyId[u] = u
            \/ (Called(u, "disband") /\ call[u].party = parties[u] /\ c \in rest[u])
  BY DEF Follows

\* Who finds p and is not astray names its leader, who is in p or disbands it.
LEMMA Finder ==
  ASSUME TypeOK, Frame, Follows, NEW c \in Chars \ astray, FindParty(c) # None
  PROVE  LET p == FindParty(c) IN
         /\ p \in Objects /\ partyId[c] \in Chars /\ leader[p] = partyId[c]
         /\ parties[leader[p]] = p
         /\ leader[p] = c \/ c \in Members(p)
         /\ partyId[leader[p]] = leader[p] \/ Disbanding(p)
<1>1. /\ FindParty(c) \in Objects /\ partyId[c] \in Chars
      /\ leader[FindParty(c)] = partyId[c] /\ parties[partyId[c]] = FindParty(c)
  BY FindType DEF Frame
<1> QED
  BY <1>1, Names DEF Disbanding

\* The parts of PartiesAgree that do not follow from Follows.
Accord == MemberFinds /\ Led

\* Of one who is asked: nobody names it who has not been told of the end of its party.
LEMMA NobodyNames ==
  ASSUME TypeOK, Frame, Follows, NEW m \in Chars, FindParty(m) = None,
         NEW x \in Chars \ astray, partyId[x] = m
  PROVE  Called(m, "disband") /\ call[m].party = parties[m] /\ x \in rest[m] /\ x # m
<1>1. partyId[m] # m
  BY Names, PartyAssumption DEF FindParty, TypeOK
<1> QED
  BY <1>1, Names

\* An invitation is written down.
LEMMA RequestAgrees ==
  ASSUME TypeOK, TypeOK', Frame, Frame', Follows, Accord, NEW s \in Chars, FinishRequest(s)
  PROVE  Follows' /\ Accord'
<1> USE PartyAssumption
<1> DEFINE p == call[s].party
           m == call[s].who
           i == invited + 1
           bad == \/ s # leader[p] \/ partyId[s] # s \/ ~Registered(p)
                  \/ FindParty(m) # None \/ \E q \in Objects : m \in Members(q)
<1>1. /\ call[s] # None /\ call[s].op = "invite" /\ p \in Objects /\ m \in Chars /\ m # s
      /\ i \in Invites /\ invited' = i
      /\ UNCHANGED <<parties, created, leader, accepted, rest>>
      /\ astray' = astray \cup IF bad THEN AstrayWith(m) ELSE {}
  BY DEF FinishRequest, Called, TypeOK, Calls, Frame, Knows
<1>2. call'[s] = None /\ \A x \in Chars \ {s} : call'[x] = call[x]
  BY DoneGives DEF FinishRequest
<1>3. /\ members'[p][m] = i
      /\ \A q \in Objects, d \in Chars : q # p \/ d # m => members'[q][d] = members[q][d]
  BY <1>1 DEF FinishRequest, TypeOK
<1>4. partyId'[m] = s /\ \A x \in Chars \ {m} : partyId'[x] = partyId[x]
  BY <1>1 DEF FinishRequest, TypeOK
<1>5. \A u \in Chars : Called(u, "disband") => Called(u, "disband")' /\ call'[u] = call[u]
  BY <1>1, <1>2 DEF Called
<1>6. ~accepted[i]
  BY <1>1 DEF Frame, OnePlace, Invites, TypeOK
<1>7. \A x \in Chars \ astray', q \in Objects :
        x \in Members(q)' => x \in Members(q) \/ (x = m /\ q = p)
  BY <1>3 DEF Members
<1>8. \A x \in Chars, q \in Objects : Accepted(q, x)' => Accepted(q, x)
  BY <1>1, <1>3, <1>6 DEF Accepted
<1>9. Follows'
  <2>1. ASSUME NEW x \in Chars \ astray', NEW u \in Chars, partyId'[x] = u, x # m
        PROVE  /\ parties'[u] # None
               /\ u = x \/ x \in Members(parties[u])'
               /\ \/ partyId'[u] = u
                  \/ Called(u, "disband")' /\ call'[u].party = parties'[u] /\ x \in rest'[u]
    <3>1. partyId[x] = u /\ x \notin astray
      BY <1>1, <1>4, <2>1
    <3>2. /\ parties[u] # None
          /\ u = x \/ x \in Members(parties[u])
          /\ partyId[u] = u
             \/ (Called(u, "disband") /\ call[u].party = parties[u] /\ x \in rest[u])
      BY <3>1, Names
    <3>3. u = x \/ x \in Members(parties[u])'
      BY <1>1, <1>3, <2>1, <3>2 DEF Members, TypeOK
    <3>4. CASE partyId[u] = u /\ u = m
      <4>1. FindParty(m) # None
        BY <3>2, <3>4 DEF FindParty, TypeOK
      <4>2. x \in AstrayWith(m)
        BY <3>1, <3>4 DEF AstrayWith
      <4> QED
        BY <1>1, <2>1, <4>1, <4>2
    <3> QED
      BY <1>1, <1>4, <1>5, <3>2, <3>3, <3>4
  <2>2. ASSUME m \notin astray'
        PROVE  parties'[s] # None /\ m \in Members(parties[s])' /\ partyId'[s] = s
    <3>1. ~bad
      BY <1>1, <2>2 DEF AstrayWith
    <3>2. parties[s] = p /\ partyId[s] = s
      BY <3>1 DEF Registered
    <3> QED
      BY <1>1, <1>3, <1>4, <3>2 DEF Members
  <2> QED
    BY <1>1, <1>4, <2>1, <2>2 DEF Follows
<1>10. MemberFinds'
  <2>1. ASSUME NEW x \in Chars \ astray', NEW q \in Objects, Registered(q)', Accepted(q, x)'
        PROVE  FindParty(x)' = q \/ Disbanding(q)'
    <3>1. x \notin astray /\ Registered(q) /\ Accepted(q, x)
      BY <1>1, <1>8, <2>1 DEF Registered
    <3>2. x # m
      BY <1>1, <2>1, <3>1 DEF AstrayWith, Accepted, Members
    <3>3. FindParty(x)' = FindParty(x)
      BY <1>1, <1>4, <3>2 DEF FindParty
    <3>4. Disbanding(q) => Disbanding(q)'
      BY <1>5 DEF Disbanding
    <3> QED
      BY <3>1, <3>3, <3>4 DEF Accord, MemberFinds
  <2> QED
    BY <2>1 DEF MemberFinds
<1>11. Led'
  <2>1. ASSUME NEW x \in Chars \ astray', NEW q \in Objects, Registered(q)', Accepted(q, x)'
        PROVE  partyId'[leader'[q]] = leader'[q] \/ Disbanding(q)'
    <3>1. x \notin astray /\ Registered(q) /\ Accepted(q, x) /\ leader[q] \in Chars
      BY <1>1, <1>8, <2>1 DEF Registered, TypeOK
    <3>2. Disbanding(q) => Disbanding(q)'
      BY <1>5 DEF Disbanding
    <3>3. CASE partyId[leader[q]] = leader[q] /\ leader[q] # m
      BY <1>1, <1>4, <3>1, <3>3
    <3>4. CASE partyId[leader[q]] = leader[q] /\ leader[q] = m
      <4>1. FindParty(m) # None
        BY <3>1, <3>4 DEF FindParty, Registered, TypeOK
      <4>2. partyId[x] # m
        BY <1>1, <2>1, <4>1 DEF AstrayWith
      <4>3. FindParty(x) # q
        BY <3>1, <3>4, <4>2, Finder DEF Registered
      <4> QED
        BY <3>1, <3>2, <4>3 DEF Accord, MemberFinds
    <3> QED
      BY <3>1, <3>2, <3>3, <3>4 DEF Accord, Led
  <2> QED
    BY <2>1 DEF Led
<1> QED
  BY <1>9, <1>10, <1>11 DEF Accord

\* Accord is kept where those who are in a registered party after a step were so before,
\* and lose the PartyID, their own or the leader's, only when it is disbanded.
LEMMA AccordKept ==
  ASSUME TypeOK, TypeOK', Frame, Follows, Accord,
         \A x \in Chars \ astray', q \in Objects :
           Registered(q)' /\ Accepted(q, x)' =>
             /\ x \notin astray /\ Registered(q) /\ Accepted(q, x) /\ leader'[q] = leader[q]
             /\ Disbanding(q) => Disbanding(q)'
             /\ partyId[x] = leader[q] => partyId'[x] = leader[q] \/ Disbanding(q)'
             /\ partyId[x] = leader[q] /\ partyId[leader[q]] = leader[q] =>
                  partyId'[leader[q]] = leader[q] \/ Disbanding(q)'
  PROVE  Accord'
<1> USE PartyAssumption
<1>1. ASSUME NEW x \in Chars \ astray', NEW q \in Objects, Registered(q)', Accepted(q, x)'
      PROVE  /\ FindParty(x)' = q \/ Disbanding(q)'
             /\ partyId'[leader'[q]] = leader'[q] \/ Disbanding(q)'
  <2>1. /\ x \notin astray /\ Registered(q) /\ Accepted(q, x) /\ leader'[q] = leader[q]
        /\ Disbanding(q) => Disbanding(q)'
        /\ partyId[x] = leader[q] => partyId'[x] = leader[q] \/ Disbanding(q)'
        /\ partyId[x] = leader[q] /\ partyId[leader[q]] = leader[q] =>
             partyId'[leader[q]] = leader[q] \/ Disbanding(q)'
    BY <1>1
  <2>2. /\ leader[q] \in Chars /\ parties'[leader[q]] = q
    BY <1>1, <2>1 DEF Registered, TypeOK
  <2>3. CASE ~Disbanding(q)
    <3>1. FindParty(x) = q
      BY <2>1, <2>3 DEF Accord, MemberFinds
    <3>2. partyId[x] = leader[q]
      BY <2>1, <3>1, Finder
    <3>3. partyId[leader[q]] = leader[q]
      BY <2>1, <2>3 DEF Accord, Led
    <3>4. CASE ~Disbanding(q)'
      <4>1. partyId'[x] = leader[q] /\ partyId'[leader[q]] = leader[q]
        BY <2>1, <3>2, <3>3, <3>4
      <4> QED
        BY <2>1, <2>2, <4>1 DEF FindParty
    <3> QED
      BY <3>4
  <2> QED
    BY <2>1, <2>3
<1>2. MemberFinds'
  BY <1>1 DEF MemberFinds
<1>3. Led'
  BY <1>1 DEF Led
<1> QED
  BY <1>2, <1>3 DEF Accord

\* Somebody asks: a party of its own is a new one, without members, and nobody names its
\* leader yet.
LEMMA BeginRequestAgrees ==
  ASSUME TypeOK, TypeOK', Frame, Follows, Accord, NEW s \in Chars, NEW m \in Chars,
         BeginRequest(s, m)
  PROVE  Follows' /\ Accord'
<1> USE PartyAssumption
<1>1. call[s] = None /\ UNCHANGED <<members, invited, accepted, rest, astray>>
  BY DEF BeginRequest, invitations
<1>2. \A u \in Chars : Called(u, "disband") =>
        u # s /\ call'[u] = call[u] /\ Called(u, "disband")'
  BY <1>1 DEF BeginRequest, Waits, Called, TypeOK
<1>3. \A q \in Objects : Disbanding(q) => Disbanding(q)'
  BY <1>2 DEF Disbanding
<1>4. CASE UNCHANGED <<partyId, parties, created, leader>>
  <2>1. Follows'
    BY <1>1, <1>2, <1>4 DEF Follows, Members
  <2>2. Accord'
    BY <1>1, <1>3, <1>4, AccordKept DEF Registered, Accepted
  <2> QED
    BY <2>1, <2>2
<1>5. CASE /\ FindParty(s) = None /\ created + 1 \in Objects
           /\ leader' = [leader EXCEPT ![created + 1] = s]
           /\ partyId' = [partyId EXCEPT ![s] = s]
           /\ parties' = [parties EXCEPT ![s] = created + 1]
  <2> DEFINE p == created + 1
  <2>1. /\ leader'[p] = s /\ \A q \in Objects \ {p} : leader'[q] = leader[q]
        /\ parties'[s] = p /\ partyId'[s] = s
        /\ \A x \in Chars \ {s} : parties'[x] = parties[x] /\ partyId'[x] = partyId[x]
    BY <1>5 DEF TypeOK
  <2>2. \A x \in Chars : members[p][x] = None
    <3>1. p \in Objects /\ p > created
      BY <1>5 DEF TypeOK
    <3> QED
      BY <3>1 DEF Frame, NoneYet
  <2>3. \A x \in Chars \ astray : partyId[x] # s
    BY <1>1, <1>5, NobodyNames DEF Called
  <2>4. Follows'
    <3>1. ASSUME NEW x \in Chars \ astray', NEW u \in Chars, partyId'[x] = u
          PROVE  /\ parties'[u] # None
                 /\ u = x \/ x \in Members(parties'[u])
                 /\ \/ partyId'[u] = u
                    \/ Called(u, "disband")' /\ call'[u].party = parties'[u] /\ x \in rest'[u]
      <4>1. CASE x = s
        BY <1>5, <2>1, <3>1, <4>1
      <4>2. CASE x # s
        <5>1. x \notin astray /\ partyId[x] = u /\ u # s
          BY <1>1, <2>1, <2>3, <3>1, <4>2
        <5>2. parties'[u] = parties[u] /\ partyId'[u] = partyId[u]
          BY <2>1, <5>1
        <5> QED
          BY <1>1, <1>2, <5>1, <5>2, Names
      <4> QED
        BY <4>1, <4>2
    <3> QED
      BY <1>1, <3>1 DEF Follows, Members
  <2>5. Accord'
    <3>1. ASSUME NEW x \in Chars \ astray', NEW q \in Objects, Registered(q)', Accepted(q, x)'
          PROVE  /\ x \notin astray /\ Registered(q) /\ Accepted(q, x) /\ leader'[q] = leader[q]
                 /\ partyId[x] = leader[q] => partyId'[x] = leader[q]
                 /\ partyId[leader[q]] = leader[q] => partyId'[leader[q]] = leader[q]
      <4>1. x \notin astray /\ Accepted(q, x) /\ q # p
        BY <1>1, <2>2, <3>1 DEF Accepted
      <4>2. leader'[q] = leader[q] /\ leader[q] # s /\ leader[q] \in Chars
        BY <2>1, <3>1, <4>1 DEF Registered, TypeOK
      <4>3. Registered(q)
        BY <2>1, <3>1, <4>2 DEF Registered
      <4>4. partyId[x] = leader[q] => x # s
        BY <1>5, <4>2, <4>3 DEF FindParty, Registered, TypeOK
      <4> QED
        BY <2>1, <4>1, <4>2, <4>3, <4>4
    <3> QED
      BY <1>3, <3>1, AccordKept
  <2> QED
    BY <2>4, <2>5
<1> QED
  BY <1>4, <1>5 DEF BeginRequest

\* The timer of an invitation: who is taken off a list and keeps a PartyID is astray.
LEMMA ExpireAgrees ==
  ASSUME TypeOK, TypeOK', Frame, Follows, Accord, NEW t \in Timers, Expire(t)
  PROVE  Follows' /\ Accord'
<1> USE PartyAssumption
<1>1. /\ UNCHANGED <<partyId, parties, leader, accepted, call, rest>> /\ astray \subseteq astray'
      /\ t.party \in Objects /\ t.who \in Chars
  BY DEF Expire, Timers
<1>2. \A q \in Objects, x \in Chars \ astray' :
        \/ members'[q][x] = members[q][x]
        \/ members'[q][x] = None /\ partyId[x] = None
  <2>1. CASE UNCHANGED members
    BY <2>1
  <2>2. CASE /\ members' = Without(t.party, t.who)
             /\ astray' = astray \cup IF t.who \in Members(t.party) /\ partyId[t.who] # None
                                   THEN {t.who} ELSE {}
    <3>1. /\ members'[t.party][t.who] = None
          /\ \A q \in Objects, x \in Chars :
               q # t.party \/ x # t.who => members'[q][x] = members[q][x]
      BY <1>1, <2>2, WithoutType
    <3>2. t.who \notin astray' => members[t.party][t.who] = None \/ partyId[t.who] = None
      BY <1>1, <2>2 DEF Members
    <3> QED
      BY <3>1, <3>2
  <2> QED
    BY <2>1, <2>2 DEF Expire
<1>3. ASSUME NEW c \in Chars \ astray', NEW u \in Chars, partyId'[c] = u
      PROVE  /\ parties'[u] # None
             /\ u = c \/ c \in Members(parties[u])'
             /\ \/ partyId'[u] = u
                \/ Called(u, "disband")' /\ call'[u].party = parties'[u] /\ c \in rest'[u]
  <2>1. c \in Chars \ astray /\ partyId[c] = u /\ partyId[c] # None
    BY <1>1, <1>3
  <2>2. /\ parties[u] # None
        /\ u = c \/ c \in Members(parties[u])
        /\ \/ partyId[u] = u
           \/ Called(u, "disband") /\ call[u].party = parties[u] /\ c \in rest[u]
    BY <2>1 DEF Follows
  <2>3. parties[u] \in Objects
    BY <2>2 DEF TypeOK
  <2>4. members'[parties[u]][c] = members[parties[u]][c]
    BY <1>2, <1>3, <2>1, <2>3
  <2>5. u = c \/ c \in Members(parties[u])'
    BY <1>1, <2>2, <2>4 DEF Members
  <2> QED
    BY <1>1, <2>2, <2>5 DEF Called
<1>4. Accord'
  <2>1. ASSUME NEW x \in Chars \ astray', NEW q \in Objects, Registered(q)', Accepted(q, x)'
        PROVE  /\ x \notin astray /\ Registered(q) /\ Accepted(q, x) /\ leader'[q] = leader[q]
               /\ partyId[x] = leader[q] => partyId'[x] = leader[q]
               /\ partyId[leader[q]] = leader[q] => partyId'[leader[q]] = leader[q]
    <3>1. x \notin astray /\ Registered(q)
      BY <1>1, <2>1 DEF Registered
    <3>2. members[q][x] = members'[q][x]
      BY <1>2, <2>1 DEF Accepted
    <3>3. Accepted(q, x)
      BY <1>1, <2>1, <3>2 DEF Accepted
    <3> QED
      BY <1>1, <3>1, <3>3
  <2>2. \A q \in Objects : Disbanding(q) => Disbanding(q)'
    BY <1>1 DEF Disbanding, Called
  <2> QED
    BY <2>1, <2>2, AccordKept
<1>5. Follows'
  BY <1>3 DEF Follows
<1> QED
  BY <1>4, <1>5

\* An invitation is accepted by who finds the party.
LEMMA AcceptAgrees ==
  ASSUME TypeOK, TypeOK', Frame, Follows, Accord, NEW c \in Chars, Accept(c)
  PROVE  Follows' /\ Accord'
<1> USE PartyAssumption
<1> DEFINE p == FindParty(c)
<1>1. /\ p # None /\ p \in Objects
      /\ accepted' = [accepted EXCEPT ![members[p][c]] = TRUE] /\ members[p][c] # None
      /\ UNCHANGED <<partyId, parties, leader, members, call, rest, astray>>
  BY FindType DEF Accept, Frame
<1>2. \A q \in Objects, x \in Chars : Accepted(q, x)' => Accepted(q, x) \/ (q = p /\ x = c)
  BY <1>1 DEF Accepted, Frame, OnePlace, TypeOK
<1>3. Follows'
  BY <1>1 DEF Follows, Members, Called
<1>4. c \notin astray => partyId[leader[p]] = leader[p] \/ Disbanding(p)
  BY <1>1, Finder
<1>5. MemberFinds'
  BY <1>1, <1>2 DEF Accord, MemberFinds, Registered, FindParty, Disbanding, Called
<1>6. Led'
  BY <1>1, <1>2, <1>4 DEF Accord, Led, Registered, Disbanding, Called
<1> QED
  BY <1>3, <1>5, <1>6 DEF Accord

\* Refused or left: where nobody else is listed the leader is in no party any more.
LEMMA LeftAgrees ==
  ASSUME TypeOK, TypeOK', Frame, Follows, Accord, NEW c \in Chars, Reject(c) \/ Leave(c),
         leader[FindParty(c)] # c
  PROVE  Follows' /\ Accord'
<1> USE PartyAssumption
<1>1. PICK p \in Objects, l \in Chars :
        /\ p = FindParty(c) /\ l = leader[p] /\ l = partyId[c] /\ parties[l] = p /\ l # c
  BY FindType DEF Reject, Leave, Frame
<1> DEFINE alone == Members(p) \subseteq {c}
<1>2. /\ members' = Without(p, c)
      /\ partyId' = [u \in Chars |-> IF u = c \/ (alone /\ u = l) THEN None ELSE partyId[u]]
      /\ astray' = astray \cup IF alone THEN Blindly(l, l) ELSE {}
      /\ UNCHANGED <<leader, accepted, call, rest>>
      /\ UNCHANGED parties \/ parties' = [parties EXCEPT ![l] = IF alone THEN None ELSE @]
  BY <1>1 DEF Reject, Leave, invitations
<1>3. /\ members'[p][c] = None
      /\ \A q \in Objects, d \in Chars : q # p \/ d # c => members'[q][d] = members[q][d]
  BY <1>2, WithoutType
<1>4. /\ partyId'[c] = None
      /\ \A u \in Chars \ {c} : u # l \/ ~alone => partyId'[u] = partyId[u]
      /\ alone => partyId'[l] = None
  BY <1>2
<1>5. \A u \in Chars : /\ parties'[u] \in {parties[u], None}
                       /\ u # l \/ ~alone => parties'[u] = parties[u]
  BY <1>2 DEF TypeOK
<1>6. \A u \in Chars : u # c /\ alone => u \notin Members(p)
  OBVIOUS
<1>7. Follows'
  <2>1. ASSUME NEW x \in Chars \ astray', NEW u \in Chars, partyId'[x] = u
        PROVE  /\ parties'[u] # None /\ parties'[u] = parties[u]
               /\ u = x \/ x \in Members(parties[u])'
               /\ \/ partyId'[u] = u
                  \/ Called(u, "disband") /\ call[u].party = parties[u] /\ x \in rest[u]
    <3>1. x # c /\ x \notin astray /\ partyId[x] = u /\ (x # l \/ ~alone)
      BY <1>2, <1>4, <2>1
    <3>2. /\ parties[u] # None
          /\ u = x \/ x \in Members(parties[u])
          /\ partyId[u] = u
             \/ (Called(u, "disband") /\ call[u].party = parties[u] /\ x \in rest[u])
      BY <3>1, Names
    <3>3. u # l \/ ~alone
      BY <1>1, <1>6, <3>1, <3>2
    <3>4. parties'[u] = parties[u]
      BY <1>5, <3>3
    <3>5. u = x \/ x \in Members(parties[u])'
      BY <1>3, <3>1, <3>2, <3>4 DEF Members, TypeOK
    <3>6. partyId[u] = u => partyId'[u] = u
      BY <1>1, <1>4, <3>3
    <3> QED
      BY <3>2, <3>4, <3>5, <3>6
  <2> QED
    BY <1>2, <2>1 DEF Follows, Members, Called
<1>8. Accord'
  <2>1. ASSUME NEW x \in Chars \ astray', NEW q \in Objects, Registered(q)', Accepted(q, x)'
        PROVE  /\ x \notin astray /\ Registered(q) /\ Accepted(q, x) /\ leader'[q] = leader[q]
               /\ partyId[x] = leader[q] => partyId'[x] = leader[q]
               /\ partyId[leader[q]] = leader[q] => partyId'[leader[q]] = leader[q]
    <3>1. /\ x \notin astray /\ Accepted(q, x) /\ leader'[q] = leader[q] /\ leader[q] \in Chars
          /\ q # p \/ x # c
      BY <1>2, <1>3, <2>1 DEF Accepted, Registered, TypeOK
    <3>2. Registered(q) /\ parties[leader[q]] = q
      BY <1>2, <1>5, <2>1, <3>1 DEF Registered
    <3>3. q = p => ~alone
      BY <1>6, <3>1 DEF Accepted, Members
    <3>4. leader[q] = l => q = p
      BY <1>1, <3>2
    <3>5. partyId[x] = leader[q] => partyId'[x] = leader[q]
      <4>1. CASE x = l /\ alone
        <5>1. partyId[l] \in {l, None}
          BY <1>2, <2>1, <4>1 DEF Blindly, AstrayWith
        <5> QED
          BY <3>1, <3>3, <3>4, <4>1, <5>1
      <4>2. CASE x = c
        BY <1>1, <3>1, <3>4, <4>2
      <4> QED
        BY <1>4, <4>1, <4>2
    <3>6. partyId[leader[q]] = leader[q] => partyId'[leader[q]] = leader[q]
      BY <1>1, <1>4, <3>1, <3>3, <3>4
    <3> QED
      BY <3>1, <3>2, <3>5, <3>6
  <2>2. \A q \in Objects : Disbanding(q) => Disbanding(q)'
    BY <1>2 DEF Disbanding, Called
  <2> QED
    BY <2>1, <2>2, AccordKept
<1> QED
  BY <1>7, <1>8

\* A leader that refuses is in no party any more: with it all are astray who follow it.
LEMMA RejectOwnAgrees ==
  ASSUME TypeOK, TypeOK', Frame, Follows, Accord, NEW c \in Chars, Reject(c),
         leader[FindParty(c)] = c
  PROVE  Follows' /\ Accord'
<1> USE PartyAssumption
<1>1. PICK p \in Objects : p = FindParty(c)
  BY FindType DEF Reject, Frame
<1>2. /\ members' = Without(p, c) /\ astray' = astray \cup AstrayWith(c)
      /\ UNCHANGED <<parties, leader, accepted, call, rest>>
      /\ \A u \in Chars \ {c} : partyId'[u] = partyId[u]
  BY <1>1 DEF Reject, invitations
<1>3. /\ members'[p][c] = None
      /\ \A q \in Objects, d \in Chars : q # p \/ d # c => members'[q][d] = members[q][d]
  BY <1>2, WithoutType
<1>4. \A x \in Chars \ astray' : x # c /\ x \notin astray /\ partyId[x] # c
  BY <1>2 DEF AstrayWith
<1>5. Follows'
  <2>1. ASSUME NEW x \in Chars \ astray', NEW u \in Chars, partyId'[x] = u
        PROVE  /\ parties[u] # None
               /\ u = x \/ x \in Members(parties[u])'
               /\ \/ partyId'[u] = u
                  \/ Called(u, "disband") /\ call[u].party = parties[u] /\ x \in rest[u]
    <3>1. x # c /\ x \notin astray /\ partyId[x] = u /\ u # c
      BY <1>2, <1>4, <2>1
    <3>2. /\ parties[u] # None
          /\ u = x \/ x \in Members(parties[u])
          /\ partyId[u] = u
             \/ (Called(u, "disband") /\ call[u].party = parties[u] /\ x \in rest[u])
      BY <3>1, Names
    <3>3. u = x \/ x \in Members(parties[u])'
      BY <1>2, <1>3, <3>1, <3>2 DEF Members, TypeOK
    <3> QED
      BY <1>2, <3>1, <3>2, <3>3
  <2> QED
    BY <1>2, <2>1 DEF Follows, Members, Called
<1>6. Accord'
  <2>1. ASSUME NEW x \in Chars \ astray', NEW q \in Objects, Registered(q)', Accepted(q, x)'
        PROVE  /\ x \notin astray /\ Registered(q) /\ Accepted(q, x) /\ leader'[q] = leader[q]
               /\ partyId[x] = leader[q] => partyId'[x] = leader[q]
               /\ partyId[x] = leader[q] /\ partyId[leader[q]] = leader[q] =>
                    partyId'[leader[q]] = leader[q]
    <3>1. /\ x \notin astray /\ x # c /\ partyId[x] # c /\ Registered(q) /\ Accepted(q, x)
          /\ leader'[q] = leader[q] /\ leader[q] \in Chars
      BY <1>2, <1>3, <1>4, <2>1 DEF Registered, Accepted, TypeOK
    <3> QED
      BY <1>2, <3>1
  <2>2. \A q \in Objects : Disbanding(q) => Disbanding(q)'
    BY <1>2 DEF Disbanding, Called
  <2> QED
    BY <2>1, <2>2, AccordKept
<1> QED
  BY <1>5, <1>6

\* A leader begins to disband: who has not accepted is astray, all others will be told.
LEMMA BeginDisbandAgrees ==
  ASSUME TypeOK, TypeOK', Frame, Follows, Accord, NEW c \in Chars, BeginDisband(c)
  PROVE  Follows' /\ Accord'
<1> USE PartyAssumption
<1>1. PICK p \in Objects :
        p = FindParty(c) /\ leader[p] = c /\ partyId[c] = c /\ parties[c] = p /\ call[c] = None
  BY FindType DEF BeginDisband, Frame
<1>2. /\ Waits(c, "disband", p, c) /\ UNCHANGED <<parties, leader, members, accepted>>
      /\ partyId' = [partyId EXCEPT ![c] = None]
      /\ rest' = [rest EXCEPT ![c] = {m \in Chars : Accepted(p, m)}]
      /\ astray' = astray \cup {m \in Members(p) : ~Accepted(p, m)}
  BY <1>1 DEF BeginDisband, invitations
<1>3. /\ call'[c] = [op |-> "disband", party |-> p, who |-> c] /\ call'[c] # None
      /\ \A x \in Chars \ {c} : call'[x] = call[x]
  BY <1>2, WaitsGives
<1>4. /\ partyId'[c] = None /\ rest'[c] = {m \in Chars : Accepted(p, m)}
      /\ \A x \in Chars \ {c} : partyId'[x] = partyId[x] /\ rest'[x] = rest[x]
  BY <1>2 DEF TypeOK
<1>5. Called(c, "disband")' /\ call'[c].party = p
      /\ \A u \in Chars : Called(u, "disband") =>
            u # c /\ call'[u] = call[u] /\ Called(u, "disband")'
  BY <1>1, <1>3 DEF Called
<1>6. Follows'
  <2>1. ASSUME NEW x \in Chars \ astray', NEW u \in Chars, partyId'[x] = u
        PROVE  /\ parties[u] # None
               /\ u = x \/ x \in Members(parties[u])
               /\ \/ partyId'[u] = u
                  \/ Called(u, "disband")' /\ call'[u].party = parties[u] /\ x \in rest'[u]
    <3>1. x # c /\ x \notin astray /\ partyId[x] = u
      BY <1>2, <1>4, <2>1
    <3>2. /\ parties[u] # None
          /\ u = x \/ x \in Members(parties[u])
          /\ partyId[u] = u
             \/ (Called(u, "disband") /\ call[u].party = parties[u] /\ x \in rest[u])
      BY <3>1, Names
    <3>3. CASE u = c
      <4>1. x \in Members(p) /\ x \notin {m \in Members(p) : ~Accepted(p, m)}
        BY <1>1, <1>2, <2>1, <3>1, <3>2, <3>3
      <4>2. x \in rest'[c]
        BY <1>4, <4>1
      <4> QED
        BY <1>1, <1>5, <3>2, <3>3, <4>2
    <3>4. CASE u # c
      BY <1>4, <1>5, <3>2, <3>4
    <3> QED
      BY <3>3, <3>4
  <2> QED
    BY <1>2, <2>1 DEF Follows, Members
<1>7. Accord'
  <2>1. Disbanding(p)' /\ \A q \in Objects : Disbanding(q) => Disbanding(q)'
    BY <1>3, <1>5 DEF Disbanding
  <2>2. ASSUME NEW x \in Chars \ astray', NEW q \in Objects, Registered(q)', Accepted(q, x)'
        PROVE  /\ x \notin astray /\ Registered(q) /\ Accepted(q, x) /\ leader'[q] = leader[q]
               /\ partyId[x] = leader[q] => partyId'[x] = leader[q] \/ Disbanding(q)'
               /\ partyId[leader[q]] = leader[q] =>
                    partyId'[leader[q]] = leader[q] \/ Disbanding(q)'
    <3>1. x \notin astray /\ Registered(q) /\ Accepted(q, x) /\ leader[q] \in Chars
          /\ parties[leader[q]] = q
      BY <1>2, <2>2 DEF Registered, Accepted, TypeOK
    <3>2. CASE q = p
      BY <1>2, <2>1, <3>1, <3>2
    <3>3. CASE q # p
      BY <1>1, <1>2, <1>4, <3>1, <3>3
    <3> QED
      BY <3>2, <3>3
  <2> QED
    BY <2>1, <2>2, AccordKept
<1> QED
  BY <1>6, <1>7

\* A member is told of the end: who named it, if it led another party, is astray.
LEMMA TellMemberAgrees ==
  ASSUME TypeOK, TypeOK', Frame, Follows, Accord, NEW c \in Chars, NEW m \in Chars,
         TellMember(c, m)
  PROVE  Follows' /\ Accord'
<1> USE PartyAssumption
<1>1. PICK p \in Objects :
        /\ Called(c, "disband") /\ call[c].party = p /\ leader[p] = c
        /\ parties[c] \in {p, None} /\ partyId[c] # c
  BY DEF TellMember, Called, TypeOK, Calls, Frame, Knows
<1>2. /\ UNCHANGED <<parties, leader, members, accepted, call>>
      /\ astray' = astray \cup Blindly(m, c)
      /\ partyId'[m] = None /\ \A x \in Chars \ {m} : partyId'[x] = partyId[x]
      /\ \A x \in Chars, u \in Chars : x # m /\ x \in rest[u] => x \in rest'[u]
  BY DEF TellMember, TypeOK, invitations
<1>3. \A x \in Chars \ astray' : partyId[m] \in {c, None} \/ (x # m /\ partyId[x] # m)
  BY <1>2 DEF Blindly, AstrayWith
<1>4. Follows'
  <2>1. ASSUME NEW x \in Chars \ astray', NEW u \in Chars, partyId'[x] = u
        PROVE  /\ parties[u] # None
               /\ u = x \/ x \in Members(parties[u])
               /\ \/ partyId'[u] = u
                  \/ Called(u, "disband") /\ call[u].party = parties[u] /\ x \in rest'[u]
    <3>1. x # m /\ x \notin astray /\ partyId[x] = u
      BY <1>2, <2>1
    <3>2. /\ parties[u] # None
          /\ u = x \/ x \in Members(parties[u])
          /\ partyId[u] = u
             \/ (Called(u, "disband") /\ call[u].party = parties[u] /\ x \in rest[u])
      BY <3>1, Names
    <3>3. partyId[u] = u => u # m
      BY <1>1, <1>3, <2>1, <3>1
    <3> QED
      BY <1>2, <3>1, <3>2, <3>3
  <2> QED
    BY <1>2, <2>1 DEF Follows, Members, Called
<1>5. Accord'
  <2>1. ASSUME NEW x \in Chars \ astray', NEW q \in Objects, Registered(q)', Accepted(q, x)'
        PROVE  /\ x \notin astray /\ Registered(q) /\ Accepted(q, x) /\ leader'[q] = leader[q]
               /\ partyId[x] = leader[q] => partyId'[x] = leader[q] \/ Disbanding(q)
               /\ partyId[x] = leader[q] /\ partyId[leader[q]] = leader[q] =>
                    partyId'[leader[q]] = leader[q]
    <3>1. /\ x \notin astray /\ Registered(q) /\ Accepted(q, x) /\ leader[q] \in Chars
          /\ parties[leader[q]] = q
      BY <1>2, <2>1 DEF Registered, Accepted, TypeOK
    <3>2. leader[q] = c => Disbanding(q)
      BY <1>1, <3>1 DEF Disbanding
    <3>3. partyId[x] = leader[q] => partyId'[x] = leader[q] \/ Disbanding(q)
      BY <1>2, <1>3, <2>1, <3>1, <3>2
    <3>4. partyId[x] = leader[q] /\ partyId[leader[q]] = leader[q] =>
            partyId'[leader[q]] = leader[q]
      BY <1>1, <1>2, <1>3, <2>1, <3>1
    <3> QED
      BY <1>2, <3>1, <3>3, <3>4
  <2>2. \A q \in Objects : Disbanding(q) => Disbanding(q)'
    BY <1>2 DEF Disbanding, Called
  <2> QED
    BY <2>1, <2>2, AccordKept
<1> QED
  BY <1>4, <1>5

\* The party goes when all are told.
LEMMA FinishDisbandAgrees ==
  ASSUME TypeOK, TypeOK', Frame, Follows, Accord, NEW c \in Chars, FinishDisband(c)
  PROVE  Follows' /\ Accord'
<1> USE PartyAssumption
<1>1. /\ Called(c, "disband") /\ rest[c] = {} /\ partyId[c] # c /\ leader[call[c].party] = c
      /\ UNCHANGED <<partyId, leader, members, accepted, rest, astray>>
      /\ parties'[c] = None /\ \A u \in Chars \ {c} : parties'[u] = parties[u]
  BY DEF FinishDisband, Called, Frame, Knows, TypeOK, invitations
<1>2. call'[c] = None /\ \A x \in Chars \ {c} : call'[x] = call[x]
  BY DoneGives DEF FinishDisband
<1>3. \A x \in Chars \ astray : partyId[x] # c
  BY <1>1, Names
<1>4. Follows'
  BY <1>1, <1>2, <1>3 DEF Follows, Members, Called
<1>5. Accord'
  <2>1. ASSUME NEW x \in Chars \ astray', NEW q \in Objects, Registered(q)', Accepted(q, x)'
        PROVE  /\ x \notin astray /\ Registered(q) /\ Accepted(q, x) /\ leader'[q] = leader[q]
               /\ Disbanding(q) => Disbanding(q)'
    <3>1. leader[q] # c /\ leader[q] \in Chars
      BY <1>1, <2>1 DEF Registered, TypeOK
    <3>2. Disbanding(q) => Disbanding(q)'
      BY <1>1, <1>2, <3>1 DEF Disbanding, Called
    <3> QED
      BY <1>1, <2>1, <3>1, <3>2 DEF Registered, Accepted
  <2> QED
    BY <1>1, <2>1, AccordKept
<1> QED
  BY <1>4, <1>5

\* An expelled member loses its PartyID.
LEMMA FinishExpelAgrees ==
  ASSUME TypeOK, TypeOK', Frame, Follows, Accord, NEW c \in Chars, FinishExpel(c)
  PROVE  Follows' /\ Accord'
<1> USE PartyAssumption
<1>1. PICK p \in Objects, m \in Chars :
        /\ Called(c, "expel") /\ call[c].party = p /\ call[c].who = m /\ m # c /\ leader[p] = c
        /\ parties[c] \in {p, None}
  BY DEF FinishExpel, Called, TypeOK, Calls, Frame, Knows
<1>2. UNCHANGED <<parties, leader, accepted, rest>>
  BY DEF FinishExpel, invitations
<1>3. \A x \in Chars \ {c} : call'[x] = call[x]
  BY DEF FinishExpel, Done, Waits, TypeOK
<1>4. /\ \A u \in Chars : Called(u, "disband") => Called(u, "disband")' /\ call'[u] = call[u]
      /\ \A q \in Objects : Disbanding(q) => Disbanding(q)'
  BY <1>1, <1>3 DEF Called, Disbanding
<1>5. CASE UNCHANGED <<members, partyId, astray>>
  <2>1. Follows'
    BY <1>2, <1>4, <1>5 DEF Follows, Members
  <2>2. Accord'
    BY <1>2, <1>4, <1>5, AccordKept DEF Registered, Accepted
  <2> QED
    BY <2>1, <2>2
<1>6. CASE ~UNCHANGED <<members, partyId, astray>>
  <2>1. /\ members' = Without(p, m)
        /\ partyId' = [partyId EXCEPT ![m] = None]
        /\ astray' = astray \cup Blindly(m, c)
    BY <1>1, <1>6 DEF FinishExpel
  <2>2. /\ members'[p][m] = None
        /\ \A q \in Objects, d \in Chars : q # p \/ d # m => members'[q][d] = members[q][d]
    BY <2>1, WithoutType
  <2>3. partyId'[m] = None /\ \A u \in Chars \ {m} : partyId'[u] = partyId[u]
    BY <2>1 DEF TypeOK
  <2>4. \A x \in Chars \ astray' :
          x \notin astray /\ (partyId[m] \in {c, None} \/ (x # m /\ partyId[x] # m))
    BY <2>1 DEF Blindly, AstrayWith
  <2>5. Follows'
    <3>1. ASSUME NEW x \in Chars \ astray', NEW u \in Chars, partyId'[x] = u
          PROVE  /\ parties[u] # None
                 /\ u = x \/ x \in Members(parties[u])'
                 /\ \/ partyId'[u] = u
                    \/ Called(u, "disband")' /\ call'[u].party = parties[u] /\ x \in rest[u]
      <4>1. x # m /\ x \notin astray /\ partyId[x] = u
        BY <2>3, <2>4, <3>1
      <4>2. /\ parties[u] # None
            /\ u = x \/ x \in Members(parties[u])
            /\ partyId[u] = u
               \/ (Called(u, "disband") /\ call[u].party = parties[u] /\ x \in rest[u])
        BY <4>1, Names
      <4>3. u = x \/ x \in Members(parties[u])'
        BY <1>2, <2>2, <4>1, <4>2 DEF Members, TypeOK
      <4>4. partyId[u] = u => partyId'[u] = u
        BY <1>1, <2>3, <2>4, <3>1, <4>1
      <4> QED
        BY <1>4, <4>2, <4>3, <4>4
    <3> QED
      BY <1>2, <3>1 DEF Follows, Members
  <2>6. Accord'
    <3>1. ASSUME NEW x \in Chars \ astray', NEW q \in Objects, Registered(q)', Accepted(q, x)'
          PROVE  /\ x \notin astray /\ Registered(q) /\ Accepted(q, x) /\ leader'[q] = leader[q]
                 /\ partyId[x] = leader[q] => partyId'[x] = leader[q]
                 /\ partyId[x] = leader[q] /\ partyId[leader[q]] = leader[q] =>
                      partyId'[leader[q]] = leader[q]
      <4>1. /\ x \notin astray /\ Accepted(q, x) /\ leader'[q] = leader[q] /\ leader[q] \in Chars
            /\ (q # p \/ x # m) /\ Registered(q) /\ parties[leader[q]] = q
        BY <1>2, <2>2, <2>4, <3>1 DEF Accepted, Registered, TypeOK
      <4>2. leader[q] = c => q = p
        BY <1>1, <4>1
      <4>3. partyId[x] = leader[q] => partyId'[x] = leader[q]
        <5>1. CASE x = m
          BY <2>4, <4>1, <4>2, <5>1
        <5> QED
          BY <2>3, <5>1
      <4>4. partyId[x] = leader[q] /\ partyId[leader[q]] = leader[q] =>
              partyId'[leader[q]] = leader[q]
        BY <1>1, <2>3, <2>4, <3>1, <4>1
      <4>5. Registered(q)
        BY <1>2, <3>1 DEF Registered
      <4> QED
        BY <4>1, <4>3, <4>4, <4>5
    <3> QED
      BY <1>4, <3>1, AccordKept
  <2> QED
    BY <2>5, <2>6
<1> QED
  BY <1>5, <1>6

\* With the last member gone its leader loses its PartyID and the party.
LEMMA EndExpelAgrees ==
  ASSUME TypeOK, TypeOK', Frame, Follows, Accord, NEW c \in Chars, EndExpel(c)
  PROVE  Follows' /\ Accord'
<1> USE PartyAssumption
<1>1. PICK p \in Objects :
        Called(c, "expelled") /\ call[c].party = p /\ leader[p] = c /\ parties[c] \in {p, None}
  BY DEF EndExpel, Called, TypeOK, Calls, Frame, Knows
<1> DEFINE alone == Members(p) = {}
<1>2. UNCHANGED <<leader, members, accepted, rest>>
  BY DEF EndExpel, invitations
<1>3. call'[c] = None /\ \A x \in Chars \ {c} : call'[x] = call[x]
  BY DoneGives DEF EndExpel
<1>4. /\ \A u \in Chars : Called(u, "disband") => Called(u, "disband")' /\ call'[u] = call[u]
      /\ \A q \in Objects : Disbanding(q) => Disbanding(q)'
  BY <1>1, <1>3 DEF Called, Disbanding
<1>5. /\ partyId' = [partyId EXCEPT ![c] = IF alone THEN None ELSE @]
      /\ parties' = [parties EXCEPT ![c] = IF alone THEN None ELSE @]
      /\ astray' = astray \cup IF alone THEN Blindly(c, c) ELSE {}
  BY <1>1 DEF EndExpel
<1>6. \A u \in Chars : u # c \/ ~alone => partyId'[u] = partyId[u] /\ parties'[u] = parties[u]
  BY <1>5 DEF TypeOK
<1>7. alone => partyId'[c] = None /\ parties'[c] = None
  BY <1>5 DEF TypeOK
<1>8. \A x \in Chars \ astray' : x \notin astray /\ (alone /\ x = c => partyId[c] \in {c, None})
  BY <1>5 DEF Blindly, AstrayWith
<1>9. Follows'
  <2>1. ASSUME NEW x \in Chars \ astray', NEW u \in Chars, partyId'[x] = u
        PROVE  /\ parties'[u] # None
               /\ u = x \/ x \in Members(parties'[u])
               /\ \/ partyId'[u] = u
                  \/ Called(u, "disband")' /\ call'[u].party = parties'[u] /\ x \in rest[u]
    <3>1. x \notin astray /\ partyId[x] = u /\ (x # c \/ ~alone)
      BY <1>6, <1>7, <1>8, <2>1
    <3>2. /\ parties[u] # None
          /\ u = x \/ x \in Members(parties[u])
          /\ partyId[u] = u
             \/ (Called(u, "disband") /\ call[u].party = parties[u] /\ x \in rest[u])
      BY <3>1, Names
    <3>3. u # c \/ ~alone
      BY <1>1, <3>1, <3>2
    <3> QED
      BY <1>4, <1>6, <3>2, <3>3
  <2> QED
    BY <1>2, <2>1 DEF Follows, Members
<1>10. Accord'
  <2>1. ASSUME NEW x \in Chars \ astray', NEW q \in Objects, Registered(q)', Accepted(q, x)'
        PROVE  /\ x \notin astray /\ Registered(q) /\ Accepted(q, x) /\ leader'[q] = leader[q]
               /\ partyId[x] = leader[q] => partyId'[x] = leader[q]
               /\ partyId[leader[q]] = leader[q] => partyId'[leader[q]] = leader[q]
    <3>1. x \notin astray /\ Accepted(q, x) /\ leader'[q] = leader[q] /\ leader[q] \in Chars
      BY <1>2, <1>8, <2>1 DEF Accepted, Registered, TypeOK
    <3>2. leader[q] # c \/ ~alone
      BY <1>2, <1>7, <2>1 DEF Registered
    <3>3. Registered(q)
      BY <1>2, <1>6, <2>1, <3>1, <3>2 DEF Registered
    <3>4. partyId[x] = leader[q] => partyId'[x] = leader[q]
      BY <1>6, <1>8, <2>1, <3>1, <3>2
    <3> QED
      BY <1>6, <3>1, <3>2, <3>3, <3>4
  <2> QED
    BY <1>4, <2>1, AccordKept
<1> QED
  BY <1>9, <1>10

\* A handler that begins to expel; and a logout inside, with whose PartyID all who name
\* the character are astray.
LEMMA OthersAgree ==
  ASSUME TypeOK, TypeOK', Frame, Follows, Accord, NEW c \in Chars,
         LogoutInside(c) \/ \E m \in Chars : BeginExpel(c, m)
  PROVE  Follows' /\ Accord'
<1> USE PartyAssumption
<1>1. /\ UNCHANGED <<parties, leader, members, accepted, rest>> /\ call[c] = None
      /\ \A x \in Chars \ {c} : call'[x] = call[x] /\ partyId'[x] = partyId[x]
      /\ \/ UNCHANGED <<partyId, astray>>
         \/ partyId'[c] = None /\ astray' = astray \cup AstrayWith(c)
  BY DEF LogoutInside, BeginExpel, Waits, TypeOK, invitations
<1>2. /\ \A u \in Chars : Called(u, "disband") => Called(u, "disband")' /\ call'[u] = call[u]
      /\ \A q \in Objects : Disbanding(q) => Disbanding(q)'
  BY <1>1 DEF Called, Disbanding
<1>3. \A x \in Chars \ astray' : x \notin astray /\ partyId'[x] = partyId[x]
                               /\ (partyId[x] = c => partyId'[c] = partyId[c])
  BY <1>1 DEF AstrayWith
<1>4. Follows'
  <2>1. ASSUME NEW x \in Chars \ astray', NEW u \in Chars, partyId'[x] = u
        PROVE  /\ parties[u] # None
               /\ u = x \/ x \in Members(parties[u])
               /\ \/ partyId'[u] = u
                  \/ Called(u, "disband")' /\ call'[u].party = parties[u] /\ x \in rest[u]
    <3>1. x \notin astray /\ partyId[x] = u
      BY <1>3, <2>1
    <3> QED
      BY <1>1, <1>2, <1>3, <2>1, <3>1, Names
  <2> QED
    BY <1>1, <2>1 DEF Follows, Members
<1>5. Accord'
  <2>1. ASSUME NEW x \in Chars \ astray', NEW q \in Objects, Registered(q)', Accepted(q, x)'
        PROVE  /\ x \notin astray /\ Registered(q) /\ Accepted(q, x) /\ leader'[q] = leader[q]
               /\ partyId[x] = leader[q] => partyId'[x] = leader[q]
               /\ partyId[x] = leader[q] /\ partyId[leader[q]] = leader[q] =>
                    partyId'[leader[q]] = leader[q]
    <3>1. /\ x \notin astray /\ Registered(q) /\ Accepted(q, x) /\ leader'[q] = leader[q]
          /\ leader[q] \in Chars
      BY <1>1, <2>1 DEF Registered, Accepted, TypeOK
    <3> QED
      BY <1>1, <1>3, <2>1, <3>1
  <2> QED
    BY <1>2, <2>1, AccordKept
<1> QED
  BY <1>4, <1>5

\* Every step keeps it.
LEMMA StepAgrees ==
  ASSUME TypeOK, TypeOK', Frame, Frame', Follows, Accord, Step
  PROVE  Follows' /\ Accord'
<1>1. ASSUME NEW c \in Chars, Reject(c) \/ Leave(c) PROVE Follows' /\ Accord'
  <2>1. Leave(c) => leader[FindParty(c)] # c
    BY DEF Leave
  <2> QED
    BY <1>1, <2>1, LeftAgrees, RejectOwnAgrees
<1> QED
  BY <1>1, BeginRequestAgrees, RequestAgrees, ExpireAgrees, AcceptAgrees, BeginDisbandAgrees,
     TellMemberAgrees, FinishDisbandAgrees, FinishExpelAgrees, EndExpelAgrees, OthersAgree
     DEF Step

\* Follows gives the first part of PartiesAgree.
LEMMA FollowsGives ==
  ASSUME TypeOK, Frame, Follows
  PROVE  FinderBelongs
  BY Finder DEF FinderBelongs

\* The inductive invariant.
LEMMA PartyInductive == Spec => [](TypeOK /\ Frame /\ Follows /\ Accord)
<1>1. Init => TypeOK /\ Frame /\ Follows /\ Accord
  <2> SUFFICES ASSUME Init PROVE TypeOK /\ Frame /\ Follows /\ Accord
    OBVIOUS
  <2> USE PartyAssumption
  <2>1. TypeOK
    BY DEF Init, TypeOK
  <2>2. Frame
    BY DEF Init, Frame, PartiesLed, NoneYet, OnePlace, Knows
  <2>3. Follows
    BY DEF Init, Follows
  <2>4. Accord
    BY DEF Init, Accord, MemberFinds, Led, Registered
  <2> QED
    BY <2>1, <2>2, <2>3, <2>4
<1>2. TypeOK /\ Frame /\ Follows /\ Accord /\ [Next]_vars
        => (TypeOK /\ Frame /\ Follows /\ Accord)'
  <2> SUFFICES ASSUME TypeOK, Frame, Follows, Accord, [Next]_vars
               PROVE  TypeOK' /\ Frame' /\ Follows' /\ Accord'
    OBVIOUS
  <2>1. CASE Step
    <3>1. TypeOK'
      BY <2>1, StepType DEF Frame
    <3>2. Frame'
      BY <2>1, <3>1, StepFrame
    <3> QED
      BY <2>1, <3>1, <3>2, StepAgrees
  <2>2. CASE UNCHANGED vars
    <3> USE <2>2 DEF vars
    <3>1. TypeOK'
      BY DEF TypeOK
    <3>2. Frame'
      BY DEF Frame, PartiesLed, NoneYet, OnePlace, Knows
    <3>3. Follows'
      BY DEF Follows, Members, Called
    <3>4. Accord'
      BY DEF Accord, MemberFinds, Led, Registered, Accepted, FindParty, Disbanding, Called
    <3> QED
      BY <3>1, <3>2, <3>3, <3>4
  <2> QED
    BY <2>1, <2>2, NextIsStep
<1> QED
  BY <1>1, <1>2, PTL DEF Spec

\* The types, whatever handlers wait and timers fire (player/party.go, database/party.go).
THEOREM PartyType == Spec => []TypeOK
  BY PartyInductive, PTL

\* Who is not astray is on the list of the party it finds, finds the party it has
\* accepted, and is led by somebody in it (SendPartyRequestHandler to LeaveParty).
THEOREM PartyAgrees == Spec => []PartiesAgree
<1>1. TypeOK /\ Frame /\ Follows /\ Accord => PartiesAgree
  BY FollowsGives DEF Accord, PartiesAgree
<1> QED
  BY <1>1, PartyInductive, PTL
=============================================================================
