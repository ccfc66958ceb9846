---------------------------- MODULE SessionProofs ----------------------------
(***************************************************************************)
(* Proofs about Session, for any connections, users, characters and number *)
(* of pseudo ids.  TypeOK, RegisterAgrees and NoIdLost are inductive       *)
(* together.  That whoever is in the game carries an id needs more: a      *)
(* character leaves the game and its connection before its id goes         *)
(* (OutFirst), whoever may start the game carries one (CarriesId), and     *)
(* nobody is in the game by an object that is still to be loaded           *)
(* (AllLoaded).                                                            *)
(***************************************************************************)
EXTENDS Session, TLAPS

IInv == TypeOK /\ RegisterAgrees /\ NoIdLost

-----------------------------------------------------------------------------
(* Types *)

\* Setting a field of one socket leaves sockets.
LEMMA SocketFields ==
  ASSUME NEW cn \in [Conns -> Socket], NEW s, NEW b \in BOOLEAN
  PROVE  /\ [cn EXCEPT ![s].selected = b] \in [Conns -> Socket]
         /\ [cn EXCEPT ![s].closed = b] \in [Conns -> Socket]
         /\ [cn EXCEPT ![s].reading = b] \in [Conns -> Socket]
<1>1. \A t \in Conns : /\ [cn[t] EXCEPT !.selected = b] \in Socket
                       /\ [cn[t] EXCEPT !.closed = b] \in Socket
                       /\ [cn[t] EXCEPT !.reading = b] \in Socket
  BY DEF Socket
<1> QED BY <1>1

\* So do the user and the character of one.
LEMMA SocketUser ==
  ASSUME NEW cn \in [Conns -> Socket], NEW s, NEW w \in UserObjects
  PROVE  [cn EXCEPT ![s].user = w] \in [Conns -> Socket]
<1>1. \A t \in Conns : [cn[t] EXCEPT !.user = w] \in Socket
  BY DEF Socket
<1> QED BY <1>1

\* The character of a connection.
LEMMA SocketChar ==
  ASSUME NEW cn \in [Conns -> Socket], NEW s, NEW o \in CharObjects
  PROVE  [cn EXCEPT ![s].char = o] \in [Conns -> Socket]
<1>1. \A t \in Conns : [cn[t] EXCEPT !.char = o] \in Socket
  BY DEF Socket
<1> QED BY <1>1

\* What a change of an account leaves.
LEMMA AccountFields ==
  ASSUME NEW ac \in [UserObjects -> Account], NEW w, NEW b \in BOOLEAN
  PROVE  /\ [ac EXCEPT ![w].connected = b] \in [UserObjects -> Account]
         /\ [ac EXCEPT ![w].server = b] \in [UserObjects -> Account]
         /\ [ac EXCEPT ![w].connecting = b] \in [UserObjects -> Account]
         /\ [ac EXCEPT ![w].to = b] \in [UserObjects -> Account]
<1>1. \A v \in UserObjects : /\ [ac[v] EXCEPT !.connected = b] \in Account
                             /\ [ac[v] EXCEPT !.server = b] \in Account
                             /\ [ac[v] EXCEPT !.connecting = b] \in Account
                             /\ [ac[v] EXCEPT !.to = b] \in Account
  BY DEF Account
<1> QED BY <1>1

\* A connection that is gone has its type.
LEMMA DisconnectedType ==
  ASSUME NEW ac \in [UserObjects -> Account], NEW w
  PROVE  Disconnected(ac, w) \in [UserObjects -> Account]
<1> DEFINE a1 == [ac EXCEPT ![w].connected = FALSE]
           a2 == [a1 EXCEPT ![w].server = FALSE]
<1>1. a1 \in [UserObjects -> Account]
  BY AccountFields
<1>2. Disconnected(ac, w) = a2
  BY DEF Disconnected
<1>3. a2 \in [UserObjects -> Account]
  <2> HIDE DEF a1
  <2> QED BY <1>1, AccountFields
<1> HIDE DEF a2
<1> QED BY <1>2, <1>3

\* A goroutine's task is replaced by a task.
LEMMA TaskType ==
  ASSUME TypeOK, NEW s \in Conns, NEW r \in Routines, NEW t \in Tasks
  PROVE  [task EXCEPT ![s][r] = t] \in [Conns -> [Routines -> Tasks]]
<1>1. [task[s] EXCEPT ![r] = t] \in [Routines -> Tasks]
  BY DEF TypeOK
<1> QED BY <1>1 DEF TypeOK

\* The task of a logout has its type.
LEMMA LogoutTask ==
  ASSUME NEW o \in CharObjects, NEW close \in Conns \cup {None}, NEW forget \in BOOLEAN
  PROVE  LoggingOut(o, close, forget) \in Tasks
BY DEF Tasks

\* A logout keeps the types.
LEMMA LogoutType ==
  ASSUME TypeOK, NEW cn \in [Conns -> Socket], NEW on \in [CharObjects -> BOOLEAN],
         NEW s \in Conns, NEW r \in Routines, NEW o \in CharObjects,
         NEW close \in Conns \cup {None}, NEW forget \in BOOLEAN,
         BeginLogout(cn, on, s, r, o, close, forget)
  PROVE  /\ conn' \in [Conns -> Socket] /\ online' \in [CharObjects -> BOOLEAN]
         /\ task' \in [Conns -> [Routines -> Tasks]]
<1>1. LoggingOut(o, close, forget) \in Tasks
  BY DEF Tasks
<1> QED BY <1>1, TaskType, SocketFields DEF BeginLogout

\* OnClose marks the connection closed, and stops its reader if that is who closes it.
LEMMA ClosedType ==
  ASSUME TypeOK, NEW s \in Conns, NEW r \in Routines
  PROVE  [conn EXCEPT ![s].closed = TRUE, ![s].reading = @ /\ r # "reader"] \in [Conns -> Socket]
<1> DEFINE c1 == [conn EXCEPT ![s].closed = TRUE]
           closed == [conn EXCEPT ![s].closed = TRUE, ![s].reading = @ /\ r # "reader"]
<1>1. c1 \in [Conns -> Socket]
  BY SocketFields DEF TypeOK
<1>2. (c1[s].reading /\ r # "reader") \in BOOLEAN
  OBVIOUS
<1>3. closed = [c1 EXCEPT ![s].reading = c1[s].reading /\ r # "reader"]
  BY DEF TypeOK
<1> HIDE DEF c1
<1> QED BY <1>1, <1>2, <1>3, SocketFields

\* A close keeps the types.
LEMMA CloseType ==
  ASSUME TypeOK, NEW ac \in [UserObjects -> Account], NEW on \in [CharObjects -> BOOLEAN],
         NEW s \in Conns, NEW r \in Routines, NEW forget \in BOOLEAN,
         OnClose(conn, ac, on, s, r, forget)
  PROVE  /\ conn' \in [Conns -> Socket] /\ online' \in [CharObjects -> BOOLEAN]
         /\ task' \in [Conns -> [Routines -> Tasks]]
         /\ sockets' \in [Users -> Conns \cup {None}]
         /\ account' \in [UserObjects -> Account]
<1> DEFINE closed == [conn EXCEPT ![s].closed = TRUE, ![s].reading = @ /\ r # "reader"]
<1>1. closed \in [Conns -> Socket]
  BY ClosedType
<1>2. sockets' \in [Users -> Conns \cup {None}]
  BY DEF OnClose, TypeOK
<1>3. account' \in [UserObjects -> Account]
  BY DisconnectedType DEF OnClose
<1>4. conn[s].char \in CharObjects \cup {None} /\ Idle \in Tasks
  BY DEF TypeOK, Socket, Tasks
<1> HIDE DEF closed
<1>5. CASE conn[s].char # None
  <2>1. /\ conn' = [closed EXCEPT ![sock[conn[s].char]].selected = FALSE]
        /\ online' = [on EXCEPT ![conn[s].char] = FALSE]
        /\ task' = [task EXCEPT ![s][r] = LoggingOut(conn[s].char, None, forget)]
    BY <1>5 DEF OnClose, BeginLogout, closed
  <2>2. LoggingOut(conn[s].char, None, forget) \in Tasks
    BY <1>4, <1>5 DEF Tasks
  <2> QED BY <2>1, <2>2, <1>1, <1>2, <1>3, TaskType, SocketFields
<1>6. CASE conn[s].char = None
  <2>1. conn' = closed /\ online' = on /\ task' = [task EXCEPT ![s][r] = Idle]
    BY <1>6 DEF OnClose, closed
  <2> QED BY <2>1, <1>1, <1>2, <1>3, <1>4, TaskType
<1> QED BY <1>5, <1>6

\* What the finders load is typed.
LEMMA LoadType ==
  ASSUME TypeOK, NEW S \in SUBSET Chars, CanLoad(S)
  PROVE  /\ CacheWith(S) \in [Chars -> 0..MaxLoads]
         /\ LoadsWith(S) \in [Chars -> 0..MaxLoads]
         /\ OnlineWith(S) \in [CharObjects -> BOOLEAN]
<1>1. \A c \in Missing(S) : loads[c] + 1 \in 0..MaxLoads
  BY SessionAssumption DEF CanLoad, Missing, TypeOK
<1>2. \A o \in CharObjects : o[1] \in Chars
  BY DEF CharObjects
<1> QED BY <1>1, <1>2 DEF CacheWith, LoadsWith, OnlineWith, TypeOK

\* What FindCharacterByID answers is an object of the character.
LEMMA FoundObject ==
  ASSUME TypeOK, NEW c \in Chars, CanLoad({c})
  PROVE  <<c, CacheWith({c})[c]>> \in CharObjects
<1>1. CacheWith({c})[c] \in 1..MaxLoads
  BY SessionAssumption DEF CanLoad, CacheWith, Missing, TypeOK, NotCached
<1> QED BY <1>1 DEF CharObjects

\* The types at the start.
LEMMA InitType == Init => TypeOK
BY SessionAssumption DEF Init, TypeOK, Socket, Account, NoAccount, Tasks, NotCached, NoId

\* A new id keeps the types.
LEMMA GenerateType ==
  ASSUME TypeOK, NEW o \in CharObjects, GenerateID(o)
  PROVE  pseudo' \in [CharObjects -> Ids \cup {NoId}] /\ register' \in [Ids -> CharObjects \cup {None}]
BY DEF GenerateID, FreeIds, TypeOK

\* One step per action, each naming what the action assigns.
LEMMA TypeStep == TypeOK /\ [Next]_vars => TypeOK'
<1> SUFFICES ASSUME TypeOK, [Next]_vars PROVE TypeOK'
  OBVIOUS
<1> DEFINE Loaded(S) == CacheWith(S) \in [Chars -> 0..MaxLoads] /\ LoadsWith(S) \in [Chars -> 0..MaxLoads]
                          /\ OnlineWith(S) \in [CharObjects -> BOOLEAN]
<1>0. /\ \A s \in Conns : conn[s].user \in UserObjects \cup {None}
      /\ \A s \in Conns : conn[s].char \in CharObjects \cup {None}
      /\ \A s \in Conns, r \in Routines : task[s][r] \in Tasks
      /\ "handler" \in Routines /\ "reader" \in Routines /\ "writer" \in Routines
      /\ Idle \in Tasks /\ Starting \in Tasks
  <2>1. /\ \A s \in Conns : conn[s] \in Socket
        /\ \A s \in Conns : task[s] \in [Routines -> Tasks]
    BY DEF TypeOK
  <2>2. \A x \in Socket : x.user \in UserObjects \cup {None} /\ x.char \in CharObjects \cup {None}
    BY DEF Socket
  <2>3. "handler" \in Routines /\ "reader" \in Routines /\ "writer" \in Routines
    BY DEF Routines
  <2>4. Idle \in Tasks /\ Starting \in Tasks
    BY DEF Tasks
  <2> QED BY <2>1, <2>2, <2>3, <2>4
<1>1. ASSUME NEW s \in Conns, NEW u \in Users, Login(s, u) PROVE TypeOK'
  <2> DEFINE old == sockets[u]
             refused == [conn EXCEPT ![s].closed = TRUE]
             c == IF old = None THEN None ELSE conn[old].char
  <2>1. refused \in [Conns -> Socket] /\ old \in Conns \cup {None} /\ c \in CharObjects \cup {None}
    BY <1>0, SocketFields DEF TypeOK
  <2>2. ASSUME NEW w, AlreadyOnline(s, u, w)
        PROVE  /\ conn' \in [Conns -> Socket] /\ online' \in [CharObjects -> BOOLEAN]
               /\ task' \in [Conns -> [Routines -> Tasks]]
               /\ account' \in [UserObjects -> Account] /\ UNCHANGED accts
    <3>1. account' \in [UserObjects -> Account] /\ UNCHANGED accts
      BY <2>2, DisconnectedType DEF AlreadyOnline, TypeOK
    <3>2. CASE c # None
      <4>1. /\ conn' = [refused EXCEPT ![sock[c]].selected = FALSE]
            /\ online' = [online EXCEPT ![c] = FALSE]
            /\ task' = [task EXCEPT ![s]["handler"] = LoggingOut(c, old, FALSE)]
        BY <2>2, <3>2 DEF AlreadyOnline, BeginLogout
      <4>2. LoggingOut(c, old, FALSE) \in Tasks
        <5> HIDE DEF c, old
        <5>1. c \in CharObjects
          BY <2>1, <3>2
        <5> QED BY <2>1, <5>1, LogoutTask
      <4>3. task' \in [Conns -> [Routines -> Tasks]]
        BY <4>1, <4>2, <1>0, TaskType
      <4> HIDE DEF refused, c
      <4>4. conn' \in [Conns -> Socket]
        BY <4>1, <2>1, SocketFields
      <4>5. online' \in [CharObjects -> BOOLEAN]
        BY <4>1 DEF TypeOK
      <4> QED BY <3>1, <4>3, <4>4, <4>5
    <3>3. CASE c = None
      <4>1. /\ conn' = IF old = None THEN refused ELSE [refused EXCEPT ![old].closed = TRUE]
            /\ online' = online /\ task' = task
        BY <2>2, <3>3 DEF AlreadyOnline
      <4> HIDE DEF refused
      <4>2. conn' \in [Conns -> Socket]
        BY <4>1, <2>1, SocketFields
      <4> QED BY <3>1, <4>1, <4>2 DEF TypeOK
    <3> QED BY <3>2, <3>3
  <2>3. ASSUME NEW w \in UserObjects, LoggedIn(s, u, w)
        PROVE  /\ conn' \in [Conns -> Socket] /\ account' \in [UserObjects -> Account]
               /\ UNCHANGED <<online, task>>
    BY <2>3, SocketUser, AccountFields DEF LoggedIn, TypeOK
  <2>4. ASSUME LoadUser(u)
        PROVE  /\ users' \in [Users -> 0..MaxUsers] /\ userLoads' \in [Users -> 0..MaxUsers]
               /\ <<u, userLoads[u] + 1>> \in UserObjects
    BY <2>4, SessionAssumption DEF LoadUser, TypeOK, UserObjects
  <2>5. users[u] # NotCached => <<u, users[u]>> \in UserObjects
    BY SessionAssumption DEF TypeOK, UserObjects, NotCached
  <2>6. UNCHANGED <<sockets, objects, ids, odd>>
    BY <1>1 DEF Login
  <2>7. CASE AlreadyOnline(s, u, <<u, users[u]>>)
    BY <2>7, <2>2, <2>6 DEF TypeOK, objects, ids, accts
  <2>8. CASE users[u] # NotCached /\ LoggedIn(s, u, <<u, users[u]>>) /\ UNCHANGED accts
    BY <2>8, <2>3, <2>5, <2>6 DEF TypeOK, objects, ids, accts
  <2>9. CASE LoadUser(u) /\ LoggedIn(s, u, <<u, userLoads[u] + 1>>)
    BY <2>9, <2>3, <2>4, <2>6 DEF TypeOK, objects, ids
  <2> QED BY <1>1, <2>7, <2>8, <2>9 DEF Login
<1>2. ASSUME NEW s \in Conns, ListServers(s) PROVE TypeOK'
  <2> DEFINE S == CharsOf(conn[s].user[1])
  <2>1. S \in SUBSET Chars /\ CanLoad(S)
    BY <1>2 DEF ListServers, CharsOf
  <2>2. Loaded(S)
    BY <2>1, LoadType
  <2>3. /\ cache' = CacheWith(S) /\ loads' = LoadsWith(S)
        /\ online' = [o \in CharObjects |->
             IF o[1] \in S /\ o[2] = cache'[o[1]] THEN FALSE ELSE OnlineWith(S)[o]]
        /\ saved' = [c \in Chars |-> saved[c] /\ c \notin S]
        /\ UNCHANGED <<conn, account, accts, sockets, sock, ids, task, odd>>
    BY <1>2 DEF ListServers
  <2>4. online' \in [CharObjects -> BOOLEAN] /\ saved' \in [Chars -> BOOLEAN]
    BY <2>2, <2>3 DEF TypeOK
  <2> QED BY <2>2, <2>3, <2>4 DEF TypeOK, ids, accts
<1>3. ASSUME NEW s \in Conns, SelectServer(s) PROVE TypeOK'
  <2> DEFINE w == conn[s].user
             a1 == [account EXCEPT ![w].connecting = TRUE]
             a2 == [a1 EXCEPT ![w].to = TRUE]
  <2>1. a1 \in [UserObjects -> Account]
    BY AccountFields DEF TypeOK
  <2>2. a2 \in [UserObjects -> Account]
    <3> HIDE DEF a1
    <3> QED BY <2>1, AccountFields
  <2>3. account' = a2
    BY <1>3 DEF SelectServer
  <2> HIDE DEF a2
  <2> QED BY <1>3, <2>2, <2>3 DEF SelectServer, TypeOK, objects, ids, accts
<1>4. ASSUME NEW s \in Conns, NEW u \in Users, ListCharacters(s, u) PROVE TypeOK'
  <2> DEFINE w == <<u, users[u]>>
             S == CharsOf(u)
  <2>1. w \in UserObjects /\ S \in SUBSET Chars
    BY <1>4, SessionAssumption DEF ListCharacters, TypeOK, UserObjects, NotCached, CharsOf
  <2>2. Loaded(S)
    BY <1>4, <2>1, LoadType DEF ListCharacters
  <2>3. conn' \in [Conns -> Socket]
    BY <1>4, <2>1, SocketUser DEF ListCharacters, TypeOK
  <2>4. account' \in [UserObjects -> Account]
    <3>1. [connected |-> account[w].connecting, server |-> account[w].to,
           connecting |-> FALSE, to |-> FALSE] \in Account
      BY <2>1 DEF TypeOK, Account
    <3> QED BY <1>4, <3>1 DEF ListCharacters, TypeOK
  <2>5. sockets' \in [Users -> Conns \cup {None}]
    BY <1>4 DEF ListCharacters, TypeOK
  <2> QED BY <1>4, <2>2, <2>3, <2>4, <2>5 DEF ListCharacters, TypeOK, ids, accts
<1>5. ASSUME NEW s \in Conns, NEW c \in Chars, BeginSelect(s, c) PROVE TypeOK'
  <2>1. Selecting(c) \in Tasks
    BY DEF Tasks
  <2> QED BY <1>5, <1>0, <2>1, TaskType DEF BeginSelect, TypeOK, objects, ids, accts
<1>6. ASSUME NEW s \in Conns, BeginStart(s) PROVE TypeOK'
  BY <1>6, <1>0, TaskType DEF BeginStart, TypeOK, objects, ids, accts
<1>7. ASSUME NEW s \in Conns, CharacterMenu(s) PROVE TypeOK'
  <2>1. /\ conn' \in [Conns -> Socket] /\ online' \in [CharObjects -> BOOLEAN]
        /\ task' \in [Conns -> [Routines -> Tasks]]
    <3>1. conn[s].char \in CharObjects /\ BeginLogout(conn, online, s, "handler", conn[s].char, None, FALSE)
      BY <1>7, <1>0 DEF CharacterMenu
    <3> QED BY <3>1, <1>0, LogoutType DEF TypeOK
  <2>2. account' \in [UserObjects -> Account]
    <3> DEFINE w == conn[s].user
               a1 == [account EXCEPT ![w].connecting = TRUE]
               a2 == [a1 EXCEPT ![w].to = account[w].server]
    <3>1. a1 \in [UserObjects -> Account]
      BY AccountFields DEF TypeOK
    <3>2. account' = a2
      BY <1>7 DEF CharacterMenu
    <3>3. a2 \in [UserObjects -> Account]
      <4>1. CASE w \in UserObjects
        <5>1. account[w].server \in BOOLEAN
          BY <4>1 DEF TypeOK, Account
        <5> HIDE DEF a1, w
        <5> QED BY <3>1, <5>1, AccountFields
      <4>2. CASE w \notin UserObjects
        <5> HIDE DEF w
        <5> QED BY <4>2 DEF TypeOK
      <4> QED BY <4>1, <4>2
    <3> QED BY <3>2, <3>3
  <2> QED BY <1>7, <2>1, <2>2 DEF CharacterMenu, TypeOK, objects, ids, accts
<1>8. ASSUME NEW s \in Conns, ServerMenu(s) PROVE TypeOK'
  <2>1. /\ conn' \in [Conns -> Socket] /\ online' \in [CharObjects -> BOOLEAN]
        /\ task' \in [Conns -> [Routines -> Tasks]]
    <3>1. conn[s].char \in CharObjects /\ BeginLogout(conn, online, s, "handler", conn[s].char, None, FALSE)
      BY <1>8, <1>0 DEF ServerMenu
    <3> QED BY <3>1, <1>0, LogoutType DEF TypeOK
  <2> QED BY <1>8, <2>1 DEF ServerMenu, TypeOK, objects, ids, accts
<1>9. ASSUME NEW s \in Conns, QuitGame(s) PROVE TypeOK'
  <2> DEFINE ac == [account EXCEPT ![conn[s].user].connecting = FALSE]
  <2>1. ac \in [UserObjects -> Account]
    BY AccountFields DEF TypeOK
  <2>2. OnClose(conn, ac, online, s, "handler", TRUE)
    BY <1>9 DEF QuitGame
  <2> HIDE DEF ac
  <2>3. /\ conn' \in [Conns -> Socket] /\ online' \in [CharObjects -> BOOLEAN]
        /\ task' \in [Conns -> [Routines -> Tasks]] /\ account' \in [UserObjects -> Account]
        /\ sockets' \in [Users -> Conns \cup {None}]
    BY <2>1, <2>2, <1>0, CloseType DEF TypeOK
  <2> QED BY <1>9, <2>3 DEF QuitGame, TypeOK, objects, ids, accts
<1>10. ASSUME NEW s \in Conns, FinishSelect(s) PROVE TypeOK'
  <2> DEFINE c == task[s]["handler"].char
             o == <<c, CacheWith({c})[c]>>
             T == /\ conn' \in [Conns -> Socket] /\ online' \in [CharObjects -> BOOLEAN]
               /\ task' \in [Conns -> [Routines -> Tasks]] /\ account' \in [UserObjects -> Account]
               /\ sockets' \in [Users -> Conns \cup {None}]
  <2>1. c \in Chars /\ UNCHANGED accts /\ saved' = saved
    BY <1>10, <1>0 DEF FinishSelect, Tasks, Idle, Starting, Selecting, LoggingOut
  <2>2. CASE Owner[c] # conn[s].user[1]
    <3>1. OnClose(conn, account, online, s, "handler", FALSE) /\ UNCHANGED <<cache, loads, sock, ids, odd>>
      BY <1>10, <2>2 DEF FinishSelect
    <3>2. T
      BY <3>1, <1>0, CloseType DEF TypeOK
    <3> QED BY <2>1, <3>1, <3>2 DEF TypeOK, ids, accts
  <2>3. CASE Owner[c] = conn[s].user[1]
    <3>1. CanLoad({c}) /\ cache' = CacheWith({c}) /\ loads' = LoadsWith({c})
      BY <1>10, <2>3 DEF FinishSelect
    <3>2. Loaded({c})
      BY <2>1, <3>1, LoadType
    <3>3. CASE OnlineWith({c})[o] \/ conn[s].selected
      <4>1. OnClose(conn, account, OnlineWith({c}), s, "handler", FALSE) /\ UNCHANGED <<sock, ids, odd>>
        BY <1>10, <2>3, <3>3 DEF FinishSelect
      <4>2. T
        BY <4>1, <3>2, <1>0, CloseType DEF TypeOK
      <4> QED BY <2>1, <3>1, <3>2, <4>1, <4>2 DEF TypeOK, ids, accts
    <3>4. CASE ~OnlineWith({c})[o] /\ ~conn[s].selected
      <4>1. /\ conn' = [conn EXCEPT ![s].selected = TRUE, ![s].char = o]
            /\ sock' = [sock EXCEPT ![o] = s]
            /\ online' = OnlineWith({c})
            /\ GenerateID(o) /\ UNCHANGED expiring
            /\ task' = [task EXCEPT ![s]["handler"] = Idle]
            /\ odd' \in {odd, odd \cup {o}}
            /\ UNCHANGED <<account, sockets>>
        BY <1>10, <2>3, <3>4 DEF FinishSelect, Oddly
      <4>2. o \in CharObjects
        BY <2>1, <3>1, FoundObject
      <4>3. conn' \in [Conns -> Socket]
        <5> DEFINE a1 == [conn EXCEPT ![s].selected = TRUE]
                   a2 == [a1 EXCEPT ![s].char = o]
        <5>1. a1 \in [Conns -> Socket]
          BY SocketFields DEF TypeOK
        <5>2. conn' = a2
          BY <4>1
        <5>3. a2 \in [Conns -> Socket]
          <6> HIDE DEF a1, o
          <6> QED BY <4>2, <5>1, SocketChar
        <5> HIDE DEF a2
        <5> QED BY <5>2, <5>3
      <4>4. pseudo' \in [CharObjects -> Ids \cup {NoId}] /\ register' \in [Ids -> CharObjects \cup {None}]
        BY <4>1, <4>2, GenerateType
      <4>5. task' \in [Conns -> [Routines -> Tasks]]
        BY <4>1, <1>0, TaskType
      <4> HIDE DEF o
      <4> QED BY <2>1, <3>1, <3>2, <4>1, <4>2, <4>3, <4>4, <4>5 DEF TypeOK, accts
    <3> QED BY <3>3, <3>4
  <2> QED BY <2>2, <2>3
<1>11. ASSUME NEW s \in Conns, FinishStart(s) PROVE TypeOK'
  <2> DEFINE o == conn[s].char
             w == conn[s].user
             started == [online EXCEPT ![o] = TRUE]
             T == /\ conn' \in [Conns -> Socket] /\ online' \in [CharObjects -> BOOLEAN]
               /\ task' \in [Conns -> [Routines -> Tasks]] /\ account' \in [UserObjects -> Account]
               /\ sockets' \in [Users -> Conns \cup {None}]
  <2>1. UNCHANGED <<accts, objects, ids>> /\ started \in [CharObjects -> BOOLEAN]
    BY <1>11 DEF FinishStart, TypeOK
  <2> HIDE DEF started
  <2>2. CASE OnClose(conn, account, online, s, "handler", FALSE) /\ UNCHANGED odd
    <3>1. T
      BY <2>2, <1>0, CloseType DEF TypeOK
    <3> QED BY <2>1, <2>2, <3>1 DEF TypeOK, objects, ids, accts
  <2>3. CASE OnClose(conn, account, started, s, "handler", FALSE) /\ UNCHANGED odd
    <3>1. T
      BY <2>1, <2>3, <1>0, CloseType DEF TypeOK
    <3> QED BY <2>1, <2>3, <3>1 DEF TypeOK, objects, ids, accts
  <2>4. CASE /\ online' = started /\ task' = [task EXCEPT ![s]["handler"] = Idle]
             /\ Oddly(s, o, ~conn[s].selected \/ sock[o] # s) /\ UNCHANGED <<conn, account, sockets>>
    <3>1. task' \in [Conns -> [Routines -> Tasks]]
      BY <2>4, <1>0, TaskType
    <3>2. odd' \subseteq CharObjects
      <4>1. o \in CharObjects
        BY <1>0, <1>11 DEF FinishStart
      <4> QED BY <2>4, <4>1 DEF Oddly, TypeOK
    <3> QED BY <2>1, <2>4, <3>1, <3>2 DEF TypeOK, objects, ids, accts
  <2> QED BY <1>11, <2>2, <2>3, <2>4 DEF FinishStart, started
<1>12. ASSUME NEW s \in Conns, NEW r \in Routines, FinishLogout(s, r) PROVE TypeOK'
  <2> DEFINE t == task[s][r]
  <2>1. t.obj \in CharObjects /\ t.close \in Conns \cup {None} /\ t.forget \in BOOLEAN
    BY <1>12, <1>0 DEF FinishLogout, Tasks, Idle, Starting, Selecting, LoggingOut
  <2>2. t.obj[1] \in Chars /\ online[t.obj] \in BOOLEAN /\ pseudo[t.obj] \in Ids \cup {NoId}
    BY <2>1 DEF TypeOK, CharObjects
  <2>3. conn' \in [Conns -> Socket]
    BY <1>12, SocketFields DEF FinishLogout, TypeOK
  <2>4. task' \in [Conns -> [Routines -> Tasks]]
    BY <1>12, <1>0, TaskType DEF FinishLogout
  <2>5. pseudo' \in [CharObjects -> Ids \cup {NoId}] /\ expiring' \subseteq Ids /\ register' = register
    BY <1>12, <2>2 DEF FinishLogout, RemoveFromRegister, TypeOK
  <2>6. /\ saved' \in [Chars -> BOOLEAN] /\ cache' \in [Chars -> 0..MaxLoads]
        /\ users' \in [Users -> 0..MaxUsers]
    <3>1. /\ saved' = [saved EXCEPT ![t.obj[1]] = online[t.obj]]
          /\ cache' = [cache EXCEPT ![t.obj[1]] = NotCached]
          /\ users' = IF t.forget THEN [users EXCEPT ![conn[s].user[1]] = NotCached] ELSE users
      BY <1>12 DEF FinishLogout
    <3>2. NotCached \in 0..MaxLoads /\ NotCached \in 0..MaxUsers
      BY SessionAssumption DEF NotCached
    <3> HIDE DEF t
    <3> QED BY <3>1, <3>2, <2>2 DEF TypeOK
  <2>7. UNCHANGED <<account, userLoads, sockets, loads, online, sock, odd>>
    BY <1>12 DEF FinishLogout
  <2> QED BY <2>3, <2>4, <2>5, <2>6, <2>7 DEF TypeOK
<1>13. ASSUME NEW s \in Conns, PeerCloses(s) PROVE TypeOK'
  <2>1. conn' \in [Conns -> Socket]
    BY <1>13, SocketFields DEF PeerCloses, TypeOK
  <2> QED BY <1>13, <2>1 DEF PeerCloses, TypeOK, objects, ids, accts
<1>14. ASSUME NEW s \in Conns, ReaderCloses(s) PROVE TypeOK'
  <2>1. OnClose(conn, account, online, s, "reader", FALSE)
    BY <1>14 DEF ReaderCloses
  <2>2. /\ conn' \in [Conns -> Socket] /\ online' \in [CharObjects -> BOOLEAN]
        /\ task' \in [Conns -> [Routines -> Tasks]] /\ account' \in [UserObjects -> Account]
        /\ sockets' \in [Users -> Conns \cup {None}]
    BY <2>1, <1>0, CloseType DEF TypeOK
  <2> QED BY <1>14, <2>2 DEF ReaderCloses, TypeOK, objects, ids, accts
<1>15. ASSUME NEW s \in Conns, WriteFails(s) PROVE TypeOK'
  <2>1. OnClose(conn, account, online, s, "writer", FALSE)
    BY <1>15 DEF WriteFails
  <2>2. /\ conn' \in [Conns -> Socket] /\ online' \in [CharObjects -> BOOLEAN]
        /\ task' \in [Conns -> [Routines -> Tasks]] /\ account' \in [UserObjects -> Account]
        /\ sockets' \in [Users -> Conns \cup {None}]
    BY <2>1, <1>0, CloseType DEF TypeOK
  <2> QED BY <1>15, <2>2 DEF WriteFails, TypeOK, objects, ids, accts
<1>16. ASSUME NEW o \in CharObjects, SaveCharacter(o) PROVE TypeOK'
  BY <1>16 DEF SaveCharacter, TypeOK, ids, accts, CharObjects
<1>17. ASSUME NEW i \in Ids, ExpireID(i) PROVE TypeOK'
  BY <1>17 DEF ExpireID, TypeOK, objects, accts
<1>18. CASE UNCHANGED vars
  BY <1>18 DEF TypeOK, vars
<1> QED
  BY <1>1, <1>2, <1>3, <1>4, <1>5, <1>6, <1>7, <1>8, <1>9, <1>10, <1>11, <1>12, <1>13, <1>14,
     <1>15, <1>16, <1>17, <1>18 DEF Next, Packet, Proceeds

-----------------------------------------------------------------------------
(* Pseudo ids *)

\* A selected character takes a free id: it is not at rest, and what the register
\* held before keeps its carrier, or the object is odd.
LEMMA SelectStep ==
  ASSUME TypeOK, RegisterAgrees, NoIdLost, NEW s, NEW o \in CharObjects,
         GenerateID(o), expiring' = expiring, Oddly(s, o, pseudo[o] # NoId \/ FreeIds = {})
  PROVE  RegisterAgrees' /\ NoIdLost'
<1>1. CASE FreeIds = {}
  BY <1>1 DEF GenerateID, RegisterAgrees, NoIdLost, Oddly
<1>2. CASE FreeIds # {}
  <2>1. PICK i \in FreeIds : /\ register' = [register EXCEPT ![i] = o]
                             /\ pseudo' = [pseudo EXCEPT ![o] = i]
    BY <1>2 DEF GenerateID
  <2>2. i \in Ids /\ register[i] = None /\ i \notin expiring
    BY <2>1 DEF FreeIds, RegisterAgrees
  <2>3. \A p \in CharObjects : pseudo[p] # i
    BY <2>2, SessionAssumption DEF RegisterAgrees, Ids, NoId
  <2>4. RegisterAgrees'
    BY <2>1, <2>2, <2>3 DEF RegisterAgrees, TypeOK
  <2>5. odd \subseteq odd' /\ (pseudo[o] # NoId => o \in odd')
    BY DEF Oddly
  <2>6. ASSUME NEW j \in Ids, register'[j] # None, register'[j] \notin odd'
        PROVE  pseudo'[register'[j]] = j \/ j \in expiring'
    <3>1. CASE j = i
      BY <2>1, <2>2, <3>1 DEF TypeOK
    <3>2. CASE j # i
      <4>1. register'[j] = register[j] /\ register[j] \in CharObjects
        BY <2>1, <2>6, <3>2 DEF TypeOK
      <4>2. pseudo[register[j]] = j \/ j \in expiring
        BY <2>5, <2>6, <4>1 DEF NoIdLost
      <4>3. CASE register[j] = o
        BY <2>5, <2>6, <4>1, <4>2, <4>3, SessionAssumption DEF Ids, NoId
      <4>4. CASE register[j] # o
        BY <2>1, <4>1, <4>2, <4>4 DEF TypeOK
      <4> QED BY <4>3, <4>4
    <3> QED BY <3>1, <3>2
  <2> QED BY <2>4, <2>6 DEF NoIdLost
<1> QED BY <1>1, <1>2

\* A logout takes the id from its carrier and puts it to rest.
LEMMA LogoutStep ==
  ASSUME TypeOK, RegisterAgrees, NoIdLost, NEW o \in CharObjects, RemoveFromRegister(o), odd' = odd
  PROVE  RegisterAgrees' /\ NoIdLost'
<1>1. /\ pseudo' = [pseudo EXCEPT ![o] = NoId]
      /\ expiring' = IF pseudo[o] = NoId THEN expiring ELSE expiring \cup {pseudo[o]}
      /\ register' = register
  BY DEF RemoveFromRegister
<1>2. NoId \notin Ids
  BY SessionAssumption DEF Ids, NoId
<1>3. \A p \in CharObjects : pseudo'[p] # NoId => pseudo'[p] = pseudo[p] /\ p # o
  BY <1>1 DEF TypeOK
<1>4. \A p \in CharObjects : pseudo'[p] # NoId => register'[pseudo'[p]] = p
  BY <1>1, <1>3 DEF RegisterAgrees
<1>5. ASSUME NEW i \in expiring'
      PROVE  register'[i] # None /\ \A p \in CharObjects : pseudo'[p] # i
  <2>1. CASE i \in expiring
    BY <1>1, <1>2, <1>3, <2>1 DEF RegisterAgrees, TypeOK
  <2>2. CASE i = pseudo[o] /\ pseudo[o] # NoId
    <3>1. register'[i] = o /\ o # None
      BY <1>1, <2>2, SessionAssumption DEF RegisterAgrees
    <3>2. ASSUME NEW p \in CharObjects, pseudo'[p] = i PROVE FALSE
      BY <1>1, <1>3, <1>4, <2>2, <3>1, <3>2
    <3> QED BY <3>1, <3>2
  <2> QED BY <1>1, <1>5, <2>1, <2>2
<1>6. RegisterAgrees'
  BY <1>4, <1>5 DEF RegisterAgrees
<1>7. NoIdLost'
  <2>1. ASSUME NEW i \in Ids, register'[i] # None, register'[i] \notin odd'
        PROVE  pseudo'[register'[i]] = i \/ i \in expiring'
    <3>1. register[i] \in CharObjects /\ (pseudo[register[i]] = i \/ i \in expiring)
      BY <1>1, <2>1 DEF NoIdLost, TypeOK
    <3> QED BY <1>1, <1>2, <3>1 DEF TypeOK
  <2> QED BY <2>1 DEF NoIdLost
<1> QED BY <1>6, <1>7

\* A timer frees an id that nobody carries.
LEMMA ExpireStep ==
  ASSUME TypeOK, RegisterAgrees, NoIdLost, NEW i \in Ids, ExpireID(i)
  PROVE  RegisterAgrees' /\ NoIdLost'
<1>1. /\ i \in expiring /\ register' = [register EXCEPT ![i] = None]
      /\ expiring' = expiring \ {i} /\ pseudo' = pseudo /\ odd' = odd
  BY DEF ExpireID
<1>2. \A p \in CharObjects : pseudo[p] # i
  BY <1>1 DEF RegisterAgrees
<1>3. RegisterAgrees'
  BY <1>1, <1>2 DEF RegisterAgrees, TypeOK
<1>4. NoIdLost'
  BY <1>1 DEF NoIdLost, TypeOK
<1> QED BY <1>3, <1>4

\* Everything else leaves the ids alone.
LEMMA OtherStep ==
  ASSUME RegisterAgrees, NoIdLost, UNCHANGED ids, odd \subseteq odd'
  PROVE  RegisterAgrees' /\ NoIdLost'
BY DEF RegisterAgrees, NoIdLost, ids

\* Every step keeps what is said of the ids.
LEMMA IdsStep == IInv /\ [Next]_vars => RegisterAgrees' /\ NoIdLost'
<1> SUFFICES ASSUME TypeOK, RegisterAgrees, NoIdLost, [Next]_vars PROVE RegisterAgrees' /\ NoIdLost'
  BY DEF IInv
<1>1. ASSUME NEW s \in Conns, FinishSelect(s) PROVE RegisterAgrees' /\ NoIdLost'
  <2> DEFINE c == task[s]["handler"].char
             o == <<c, CacheWith({c})[c]>>
  <2>1. CASE UNCHANGED <<ids, odd>>
    BY <2>1, OtherStep
  <2>2. CASE /\ GenerateID(o) /\ UNCHANGED expiring /\ CanLoad({c})
             /\ Oddly(s, o, pseudo[o] # NoId \/ FreeIds = {})
    <3>1. c \in Chars
      <4>1. task[s]["handler"] \in Tasks
        BY DEF TypeOK, Routines
      <4>2. task[s]["handler"].op = "select"
        BY <1>1 DEF FinishSelect
      <4> QED BY <4>1, <4>2 DEF Tasks, Idle, Starting, Selecting, LoggingOut
    <3>2. o \in CharObjects
      BY <3>1, <2>2, FoundObject
    <3> HIDE DEF o
    <3> QED BY <2>2, <3>2, SelectStep
  <2> QED BY <1>1, <2>1, <2>2 DEF FinishSelect
<1>2. ASSUME NEW s \in Conns, NEW r \in Routines, FinishLogout(s, r) PROVE RegisterAgrees' /\ NoIdLost'
  <2>1. task[s][r].obj \in CharObjects
    <3>1. task[s][r] \in Tasks /\ task[s][r].op = "logout"
      BY <1>2 DEF FinishLogout, TypeOK
    <3> QED BY <3>1 DEF Tasks, Idle, Starting, Selecting, LoggingOut
  <2> QED BY <1>2, <2>1, LogoutStep DEF FinishLogout
<1>3. ASSUME NEW i \in Ids, ExpireID(i) PROVE RegisterAgrees' /\ NoIdLost'
  BY <1>3, ExpireStep
<1>4. ASSUME NEW s \in Conns, FinishStart(s) PROVE RegisterAgrees' /\ NoIdLost'
  <2>1. UNCHANGED ids /\ odd \subseteq odd'
    BY <1>4 DEF FinishStart, Oddly
  <2> QED BY <2>1, OtherStep
<1>5. ASSUME NEW s \in Conns, Packet(s) PROVE RegisterAgrees' /\ NoIdLost'
  <2>1. UNCHANGED <<ids, odd>>
    BY <1>5 DEF Packet, Login, ListServers, SelectServer, ListCharacters, BeginSelect, BeginStart,
                CharacterMenu, ServerMenu, QuitGame
  <2> QED BY <2>1, OtherStep
<1>6. ASSUME NEW s \in Conns, PeerCloses(s) \/ ReaderCloses(s) \/ WriteFails(s)
      PROVE  RegisterAgrees' /\ NoIdLost'
  <2>1. UNCHANGED <<ids, odd>>
    BY <1>6 DEF PeerCloses, ReaderCloses, WriteFails
  <2> QED BY <2>1, OtherStep
<1>7. ASSUME NEW o \in CharObjects, SaveCharacter(o) PROVE RegisterAgrees' /\ NoIdLost'
  <2>1. UNCHANGED <<ids, odd>>
    BY <1>7 DEF SaveCharacter
  <2> QED BY <2>1, OtherStep
<1>8. CASE UNCHANGED vars
  <2>1. UNCHANGED <<ids, odd>>
    BY <1>8 DEF vars, ids
  <2> QED BY <2>1, OtherStep
<1> QED BY <1>1, <1>2, <1>3, <1>4, <1>5, <1>6, <1>7, <1>8 DEF Next, Proceeds

-----------------------------------------------------------------------------
(* Who is in the game carries an id *)

\* The connection on which o was selected last still has it.
Held(o) == \E s \in Conns : sock[o] = s /\ conn[s].selected /\ conn[s].char = o

Loaded(o) == o[2] <= loads[o[1]]

\* A reader that still reads has not begun to close its connection.
ReadersRead == \A s \in Conns : conn[s].reading => task[s]["reader"] = Idle

\* What the cache, a connection or a logout holds has been loaded.
AllLoaded ==
  /\ \A c \in Chars : cache[c] <= loads[c]
  /\ \A o \in CharObjects : InLogout(o) \/ sock[o] # None => Loaded(o)
  /\ \A s \in Conns : conn[s].char # None => Loaded(conn[s].char)

\* Logout takes a character out of the game and off its connection before its id goes.
OutFirst ==
  \A o \in CharObjects : InLogout(o) /\ o \notin odd => ~online[o] /\ ~Held(o)

\* Whoever may start the game, or has, carries an id.
CarriesId ==
  \A o \in CharObjects : /\ o \notin odd /\ ~InLogout(o)
                         /\ Held(o) \/ (online[o] /\ sock[o] # None)
                         => pseudo[o] # NoId

GameInv == ReadersRead /\ AllLoaded /\ OutFirst /\ CarriesId

\* What most steps do: no character is selected or started; one may begin its logout,
\* and one in logout may lose its id and be done.
Loads == \A c \in Chars : loads[c] <= loads'[c] /\ cache'[c] <= loads'[c]
Stays(s) ==
  /\ conn'[s].char = conn[s].char /\ (conn'[s].selected => conn[s].selected)
  /\ conn'[s].reading => conn[s].reading /\ task'[s]["reader"] = task[s]["reader"]
Begins(o) == InLogout(o)' /\ Loaded(o) /\ ~online'[o] /\ ~Held(o)' /\ pseudo'[o] = pseudo[o]
Passes(o) == (InLogout(o)' <=> InLogout(o)) /\ pseudo'[o] = pseudo[o]
Fresh(on) == \A o \in CharObjects : Loaded(o) /\ on[o] => online[o]
Quiet ==
  /\ UNCHANGED <<sock, odd>> /\ Loads /\ Fresh(online')
  /\ \A s \in Conns : Stays(s)
  /\ \A o \in CharObjects : Begins(o) \/ InLogout(o) \/ Passes(o)

\* What has been loaded stays so.
LEMMA LoadedStays ==
  ASSUME TypeOK, TypeOK', Loads
  PROVE  \A o \in CharObjects : Loaded(o) => Loaded(o)'
<1> SUFFICES ASSUME NEW o \in CharObjects, Loaded(o) PROVE Loaded(o)'
  OBVIOUS
<1>1. o[1] \in Chars /\ o[2] \in Int
  BY SessionAssumption DEF CharObjects
<1>2. loads[o[1]] \in Int /\ loads'[o[1]] \in Int /\ loads[o[1]] <= loads'[o[1]] /\ o[2] <= loads[o[1]]
  BY <1>1, SessionAssumption DEF Loads, Loaded, TypeOK
<1> QED BY <1>1, <1>2 DEF Loaded

\* A step that loads nobody and puts nobody into a game.
LEMMA QuietStep ==
  ASSUME TypeOK, TypeOK', GameInv, Quiet
  PROVE  GameInv'
<1> USE DEF GameInv
<1>1. ReadersRead'
  BY DEF ReadersRead, Quiet, Stays
<1>2. \A o \in CharObjects : Loaded(o) => Loaded(o)'
  BY LoadedStays DEF Quiet
<1>3. \A o \in CharObjects : InLogout(o)' => Loaded(o)
  BY DEF Quiet, Begins, Passes, AllLoaded
<1>4. \A s \in Conns : conn[s].char \in CharObjects \cup {None}
  BY DEF TypeOK, Socket
<1>5. AllLoaded'
  <2>1. \A c \in Chars : cache'[c] <= loads'[c]
    BY DEF Quiet, Loads
  <2>2. \A o \in CharObjects : InLogout(o)' \/ sock'[o] # None => Loaded(o)'
    BY <1>2, <1>3 DEF Quiet, AllLoaded
  <2>3. \A s \in Conns : conn'[s].char # None => Loaded(conn[s].char)' /\ conn'[s].char = conn[s].char
    BY <1>2, <1>4 DEF Quiet, Stays, AllLoaded
  <2> QED BY <2>1, <2>2, <2>3 DEF AllLoaded, Loaded
<1>6. \A o \in CharObjects : Held(o)' => Held(o)
  BY DEF Held, Quiet, Stays
<1>7. ASSUME NEW o \in CharObjects, o \notin odd
      PROVE  /\ InLogout(o)' => ~online'[o] /\ ~Held(o)'
             /\ ~InLogout(o)' /\ (Held(o)' \/ (online'[o] /\ sock'[o] # None)) => pseudo'[o] # NoId
  <2>1. CASE Begins(o)
    BY <2>1 DEF Begins
  <2>2. CASE InLogout(o)
    BY <2>2, <1>6, <1>7 DEF OutFirst, AllLoaded, Quiet, Fresh
  <2>3. CASE Passes(o)
    BY <2>3, <1>6, <1>7 DEF Passes, OutFirst, CarriesId, AllLoaded, Quiet, Fresh
  <2> QED BY <2>1, <2>2, <2>3 DEF Quiet
<1>8. OutFirst' /\ CarriesId'
  BY <1>7 DEF OutFirst, CarriesId, Quiet
<1> QED BY <1>1, <1>5, <1>8

\* A goroutine that is in no logout takes up another task.
LEMMA TaskStep ==
  ASSUME TypeOK, NEW s \in Conns, NEW r \in Routines, NEW t \in Tasks,
         task[s][r].op # "logout", task' = [task EXCEPT ![s][r] = t]
  PROVE  /\ \A o \in CharObjects : InLogout(o)' <=> InLogout(o) \/ (t.op = "logout" /\ t.obj = o)
         /\ r # "reader" => \A x \in Conns : task'[x]["reader"] = task[x]["reader"]
         /\ \A x \in Conns : x # s => task'[x] = task[x]
<1>1. \A x \in Conns, q \in Routines : task'[x][q] = IF x = s /\ q = r THEN t ELSE task[x][q]
  BY DEF TypeOK
<1>2. ASSUME NEW o \in CharObjects
      PROVE  InLogout(o)' <=> InLogout(o) \/ (t.op = "logout" /\ t.obj = o)
  BY <1>1 DEF InLogout
<1>3. \A x \in Conns : x # s => task'[x] = task[x]
  BY DEF TypeOK
<1> QED BY <1>1, <1>2, <1>3 DEF Routines

\* The finders load what was not loaded.
LEMMA FreshLoads ==
  ASSUME TypeOK, GameInv, NEW S \in SUBSET Chars
  PROVE  /\ Fresh(OnlineWith(S))
         /\ \A c \in Chars : loads[c] <= LoadsWith(S)[c] /\ CacheWith(S)[c] <= LoadsWith(S)[c]
<1>1. \A c \in Chars : loads[c] \in Int /\ cache[c] \in Int
  BY SessionAssumption DEF TypeOK
<1>2. \A c \in Chars : cache[c] <= loads[c]
  BY DEF GameInv, AllLoaded
<1>3. ASSUME NEW o \in CharObjects, Loaded(o) PROVE OnlineWith(S)[o] = online[o]
  <2>1. o[1] \in Chars /\ o[2] \in Int /\ o[2] # loads[o[1]] + 1
    <3>1. o[1] \in Chars /\ o[2] \in Int
      BY SessionAssumption DEF CharObjects
    <3> QED BY <3>1, <1>1, <1>3 DEF Loaded
  <2> QED BY <2>1 DEF OnlineWith
<1> QED BY <1>1, <1>2, <1>3 DEF Fresh, LoadsWith, CacheWith

\* The beginning of a logout: cn differs from conn in what does not matter here.
Like(cn, s, r) ==
  \A x \in Conns : /\ cn[x].char = conn[x].char /\ (cn[x].selected => conn[x].selected)
                   /\ cn[x].reading => conn[x].reading
                   /\ x = s /\ r = "reader" => ~cn[x].reading

\* A handler that begins is such a step.
LEMMA BeginQuiet ==
  ASSUME TypeOK, TypeOK', GameInv, NEW cn \in [Conns -> Socket], NEW on \in [CharObjects -> BOOLEAN],
         NEW s \in Conns, NEW r \in Routines, NEW o \in CharObjects,
         NEW close \in Conns \cup {None}, NEW forget \in BOOLEAN,
         BeginLogout(cn, on, s, r, o, close, forget), task[s][r].op # "logout", Loaded(o),
         Like(cn, s, r), Fresh([on EXCEPT ![o] = FALSE]), UNCHANGED <<sock, odd, pseudo>>, Loads
  PROVE  Quiet
<1>1. /\ conn' = [cn EXCEPT ![sock[o]].selected = FALSE]
      /\ online' = [on EXCEPT ![o] = FALSE]
      /\ task' = [task EXCEPT ![s][r] = LoggingOut(o, close, forget)]
  BY DEF BeginLogout
<1>2. LoggingOut(o, close, forget) \in Tasks /\ LoggingOut(o, close, forget).op = "logout"
        /\ LoggingOut(o, close, forget).obj = o
  BY DEF Tasks, LoggingOut
<1>3. \A p \in CharObjects : InLogout(p)' <=> InLogout(p) \/ o = p
  <2> DEFINE t == LoggingOut(o, close, forget)
  <2>1. t \in Tasks /\ t.op = "logout" /\ t.obj = o /\ task' = [task EXCEPT ![s][r] = t]
    BY <1>1, <1>2
  <2> HIDE DEF t
  <2>2. \A p \in CharObjects : InLogout(p)' <=> InLogout(p) \/ (t.op = "logout" /\ t.obj = p)
    BY <2>1, TaskStep
  <2> QED BY <2>1, <2>2
<1>4. ASSUME NEW x \in Conns PROVE Stays(x)
  <2>1. /\ conn'[x].char = cn[x].char /\ conn'[x].reading = cn[x].reading
        /\ conn'[x].selected => cn[x].selected
    <3>1. cn[x] \in Socket
      OBVIOUS
    <3> QED BY <1>1, <3>1 DEF Socket
  <2>2. conn'[x].reading => task'[x]["reader"] = task[x]["reader"]
    BY <2>1, <1>1, <1>2, TaskStep DEF Like
  <2> QED BY <2>1, <2>2 DEF Stays, Like
<1>5. Begins(o)
  <2>1. InLogout(o)' /\ ~online'[o] /\ pseudo'[o] = pseudo[o]
    BY <1>1, <1>3
  <2>2. ASSUME NEW x \in Conns, sock'[o] = x, conn'[x].selected PROVE FALSE
    <3>1. cn[x] \in Socket /\ sock[o] = x
      BY <2>2
    <3> QED BY <1>1, <2>2, <3>1 DEF Socket
  <2> QED BY <2>1, <2>2 DEF Begins, Held
<1>6. \A p \in CharObjects : p # o => Passes(p)
  BY <1>3 DEF Passes
<1> QED BY <1>1, <1>4, <1>5, <1>6 DEF Quiet

\* Closing a connection, with or without a character on it.
LEMMA CloseQuiet ==
  ASSUME TypeOK, TypeOK', GameInv, NEW ac, NEW on \in [CharObjects -> BOOLEAN],
         NEW s \in Conns, NEW r \in Routines, NEW forget \in BOOLEAN,
         OnClose(conn, ac, on, s, r, forget), task[s][r].op # "logout",
         \A o \in CharObjects : Loaded(o) /\ on[o] => online[o] \/ o = conn[s].char,
         UNCHANGED <<sock, odd, pseudo>>, Loads
  PROVE  Quiet
<1> DEFINE closed == [conn EXCEPT ![s].closed = TRUE, ![s].reading = @ /\ r # "reader"]
           o == conn[s].char
<1>1. \A x \in Conns : conn[x] \in Socket
  BY DEF TypeOK
<1>2. closed \in [Conns -> Socket]
  BY ClosedType
<1>3. Like(closed, s, r)
  BY <1>1 DEF TypeOK, Socket, Like
<1>4. o \in CharObjects \cup {None}
  BY <1>1 DEF Socket
<1>5. IF o # None THEN BeginLogout(closed, on, s, r, o, None, forget)
      ELSE conn' = closed /\ online' = on /\ task' = [task EXCEPT ![s][r] = Idle]
  BY DEF OnClose
<1>6. None \notin CharObjects
  BY SessionAssumption
<1>7. \A p \in CharObjects : Loaded(p) /\ on[p] => online[p] \/ p = o
  OBVIOUS
<1>8. o # None => Loaded(o)
  BY DEF GameInv, AllLoaded
<1> HIDE DEF closed, o
<1>9. CASE o # None
  <2>1. Fresh([on EXCEPT ![o] = FALSE])
    BY <1>7 DEF Fresh
  <2>2. /\ o \in CharObjects /\ Loaded(o) /\ None \in Conns \cup {None}
        /\ BeginLogout(closed, on, s, r, o, None, forget)
    BY <1>4, <1>5, <1>8, <1>9
  <2> QED BY ONLY TypeOK, TypeOK', GameInv, <1>2, <1>3, <2>1, <2>2, BeginQuiet,
                  on \in [CharObjects -> BOOLEAN], s \in Conns, r \in Routines, forget \in BOOLEAN,
                  task[s][r].op # "logout", UNCHANGED <<sock, odd, pseudo>>, Loads
<1>10. CASE o = None
  <2>1. Fresh(online')
    BY <1>5, <1>6, <1>7, <1>10 DEF Fresh
  <2>2. Idle \in Tasks /\ Idle.op # "logout"
    BY DEF Tasks, Idle
  <2>3. task' = [task EXCEPT ![s][r] = Idle] /\ conn' = closed
    BY <1>5, <1>10
  <2>4. \A p \in CharObjects : Passes(p)
    BY <2>2, <2>3, TaskStep DEF Passes
  <2>5. \A x \in Conns : Stays(x)
    BY <1>3, <2>2, <2>3, TaskStep DEF Stays, Like
  <2> QED BY <2>1, <2>4, <2>5 DEF Quiet
<1> QED BY <1>9, <1>10

\* A selected character gets an id, or its session is odd.
LEMMA SelectGame ==
  ASSUME TypeOK, TypeOK', GameInv, NEW s \in Conns, NEW c \in Chars, NEW o \in CharObjects,
         o = <<c, CacheWith({c})[c]>>, task[s]["handler"].op = "select",
         cache' = CacheWith({c}), loads' = LoadsWith({c}), online' = OnlineWith({c}),
         conn' = [conn EXCEPT ![s].selected = TRUE, ![s].char = o],
         sock' = [sock EXCEPT ![o] = s], GenerateID(o),
         task' = [task EXCEPT ![s]["handler"] = Idle],
         Oddly(s, o, pseudo[o] # NoId \/ FreeIds = {})
  PROVE  GameInv'
<1> USE DEF GameInv
<1>1. /\ Fresh(online') /\ Loads
  BY FreshLoads DEF Loads
<1>2. /\ \A p \in CharObjects : InLogout(p)' <=> InLogout(p)
      /\ \A x \in Conns : task'[x]["reader"] = task[x]["reader"]
  <2>1. Idle \in Tasks /\ Idle.op # "logout" /\ "handler" \in Routines /\ "handler" # "reader"
    BY DEF Tasks, Idle, Routines
  <2>2. \A p \in CharObjects : InLogout(p)' <=> InLogout(p) \/ (Idle.op = "logout" /\ Idle.obj = p)
    BY <2>1, TaskStep
  <2>3. \A x \in Conns : task'[x]["reader"] = task[x]["reader"]
    BY <2>1, TaskStep
  <2> QED BY <2>1, <2>2, <2>3
<1>3. \A x \in Conns : /\ conn'[x].reading = conn[x].reading
                       /\ conn'[x].char = IF x = s THEN o ELSE conn[x].char
                       /\ x # s => conn'[x] = conn[x]
  <2>1. \A x \in Conns : conn[x] \in Socket
    BY DEF TypeOK
  <2> QED BY <2>1 DEF TypeOK, Socket
<1>4. \A p \in CharObjects : Loaded(p) => Loaded(p)'
  BY <1>1, LoadedStays
<1>5. Loaded(o)'
  BY <1>1 DEF Loads, Loaded
<1>6. ReadersRead'
  BY <1>2, <1>3 DEF ReadersRead
<1>7. AllLoaded'
  <2>1. \A p \in CharObjects : InLogout(p)' \/ sock'[p] # None => Loaded(p)'
    BY <1>2, <1>4, <1>5 DEF AllLoaded, TypeOK
  <2>2. \A x \in Conns : conn[x].char \in CharObjects \cup {None}
    BY DEF TypeOK, Socket
  <2>3. \A x \in Conns : (conn[x].char # None => Loaded(conn[x].char))'
    <3> SUFFICES ASSUME NEW x \in Conns, conn'[x].char # None PROVE Loaded(conn[x].char)'
      OBVIOUS
    <3>1. CASE x = s
      <4>1. conn'[x].char = o
        BY <1>3, <3>1
      <4> HIDE DEF Loaded
      <4> QED BY <4>1, <1>5 DEF Loaded
    <3>2. CASE x # s
      <4>1. conn'[x].char = conn[x].char /\ conn[x].char \in CharObjects /\ Loaded(conn[x].char)
        BY <1>3, <2>2, <3>2 DEF AllLoaded
      <4>2. Loaded(conn[x].char) => loads'[conn[x].char[1]] >= conn[x].char[2]
        BY <4>1, <1>4 DEF Loaded
      <4> QED BY <4>1, <4>2 DEF Loaded
    <3> QED BY <3>1, <3>2
  <2>4. \A d \in Chars : cache'[d] <= loads'[d]
    BY <1>1 DEF Loads
  <2> QED BY <2>1, <2>3, <2>4 DEF AllLoaded, Loaded
<1>8. odd \subseteq odd' /\ (o \notin odd' => ~InLogout(o) /\ pseudo[o] = NoId /\ FreeIds # {})
  BY DEF Oddly
<1>9. o \notin odd' => pseudo'[o] # NoId
  <2> SUFFICES ASSUME o \notin odd' PROVE pseudo'[o] # NoId
    OBVIOUS
  <2>1. PICK i \in FreeIds : pseudo' = [pseudo EXCEPT ![o] = i]
    BY <1>8 DEF GenerateID
  <2>2. i # NoId
    BY SessionAssumption DEF FreeIds, Ids, NoId
  <2> QED BY <2>1, <2>2 DEF TypeOK
<1>10. ASSUME NEW p \in CharObjects, p # o
       PROVE  /\ Held(p)' => Held(p)
              /\ pseudo'[p] = pseudo[p] /\ sock'[p] = sock[p]
  <2>1. pseudo'[p] = pseudo[p] /\ sock'[p] = sock[p]
    BY <1>10 DEF GenerateID, TypeOK
  <2>2. ASSUME NEW x \in Conns, sock'[p] = x, conn'[x].selected, conn'[x].char = p
        PROVE  Held(p)
    BY <1>3, <1>10, <2>1, <2>2 DEF Held
  <2> QED BY <2>1, <2>2 DEF Held
<1>11. ASSUME NEW p \in CharObjects, p \notin odd'
       PROVE  /\ InLogout(p)' => ~online'[p] /\ ~Held(p)'
              /\ ~InLogout(p)' /\ (Held(p)' \/ (online'[p] /\ sock'[p] # None)) => pseudo'[p] # NoId
  <2>1. CASE p = o
    BY <2>1, <1>2, <1>8, <1>9, <1>11
  <2>2. CASE p # o
    <3>1. /\ (InLogout(p)' <=> InLogout(p)) /\ (Held(p)' => Held(p)) /\ p \notin odd
          /\ pseudo'[p] = pseudo[p] /\ sock'[p] = sock[p]
      BY <1>2, <1>8, <1>10, <1>11, <2>2
    <3>2. Loaded(p) /\ online'[p] => online[p]
      BY <1>1 DEF Fresh
    <3>3. InLogout(p) \/ sock[p] # None => Loaded(p)
      BY DEF AllLoaded
    <3> QED BY <3>1, <3>2, <3>3 DEF OutFirst, CarriesId
  <2> QED BY <2>1, <2>2
<1>12. OutFirst' /\ CarriesId'
  BY <1>11 DEF OutFirst, CarriesId
<1> QED BY <1>6, <1>7, <1>12

\* A character that starts the game was selected and carries an id, or its session is odd.
LEMMA StartGame ==
  ASSUME TypeOK, TypeOK', GameInv, NEW s \in Conns, NEW o \in CharObjects,
         o = conn[s].char, task[s]["handler"].op = "start",
         online' = [online EXCEPT ![o] = TRUE],
         task' = [task EXCEPT ![s]["handler"] = Idle],
         Oddly(s, o, ~conn[s].selected \/ sock[o] # s),
         UNCHANGED <<conn, cache, loads, sock, pseudo>>
  PROVE  GameInv'
<1> USE DEF GameInv
<1>1. /\ \A p \in CharObjects : InLogout(p)' <=> InLogout(p)
      /\ \A x \in Conns : task'[x]["reader"] = task[x]["reader"]
  <2>1. Idle \in Tasks /\ Idle.op # "logout" /\ "handler" \in Routines /\ "handler" # "reader"
    BY DEF Tasks, Idle, Routines
  <2>2. \A p \in CharObjects : InLogout(p)' <=> InLogout(p) \/ (Idle.op = "logout" /\ Idle.obj = p)
    BY <2>1, TaskStep
  <2>3. \A x \in Conns : task'[x]["reader"] = task[x]["reader"]
    BY <2>1, TaskStep
  <2> QED BY <2>1, <2>2, <2>3
<1>2. ReadersRead'
  BY <1>1 DEF ReadersRead
<1>3. AllLoaded'
  BY <1>1 DEF AllLoaded, Loaded
<1>4. odd \subseteq odd' /\ (o \notin odd' => ~InLogout(o) /\ conn[s].selected /\ sock[o] = s)
  BY DEF Oddly
<1>5. \A p \in CharObjects : Held(p)' <=> Held(p)
  BY DEF Held
<1>6. o \notin odd' => Held(o) /\ ~InLogout(o)
  BY <1>4 DEF Held
<1>7. \A p \in CharObjects : p # o => online'[p] = online[p]
  BY DEF TypeOK
<1>8. ASSUME NEW p \in CharObjects, p \notin odd'
      PROVE  /\ InLogout(p)' => ~online'[p] /\ ~Held(p)'
             /\ ~InLogout(p)' /\ (Held(p)' \/ (online'[p] /\ sock'[p] # None)) => pseudo'[p] # NoId
  <2>1. CASE p = o
    BY <2>1, <1>1, <1>4, <1>6, <1>8 DEF CarriesId
  <2>2. CASE p # o
    BY <2>2, <1>1, <1>4, <1>5, <1>7, <1>8 DEF OutFirst, CarriesId
  <2> QED BY <2>1, <2>2
<1>9. OutFirst' /\ CarriesId'
  BY <1>8 DEF OutFirst, CarriesId
<1> QED BY <1>2, <1>3, <1>9

\* Every step keeps GameInv.
LEMMA GameStep ==
  ASSUME TypeOK, TypeOK', GameInv, [Next]_vars
  PROVE  GameInv'
<1>0. /\ \A s \in Conns : conn[s].char \in CharObjects \cup {None}
      /\ \A s \in Conns, r \in Routines : task[s][r] \in Tasks
      /\ "handler" \in Routines /\ "reader" \in Routines /\ "writer" \in Routines
      /\ Idle \in Tasks /\ Idle.op # "logout" /\ TRUE \in BOOLEAN /\ FALSE \in BOOLEAN
      /\ None \notin CharObjects /\ None \in Conns \cup {None}
  <2>1. /\ \A s \in Conns : conn[s] \in Socket
        /\ \A s \in Conns : task[s] \in [Routines -> Tasks]
    BY DEF TypeOK
  <2>2. \A x \in Socket : x.char \in CharObjects \cup {None}
    BY DEF Socket
  <2> QED BY <2>1, <2>2, SessionAssumption DEF Routines, Tasks, Idle
<1>1. conn \in [Conns -> Socket] /\ online \in [CharObjects -> BOOLEAN]
  BY DEF TypeOK
<1>2. \A s \in Conns : conn[s].char # None => conn[s].char \in CharObjects /\ Loaded(conn[s].char)
  BY <1>0 DEF GameInv, AllLoaded
<1>3. UNCHANGED <<cache, loads>> => Loads
  <2>1. \A c \in Chars : loads[c] \in Int
    BY SessionAssumption DEF TypeOK
  <2> QED BY <2>1 DEF Loads, GameInv, AllLoaded
<1>4. \A s \in Conns, r \in Routines : UNCHANGED conn /\ UNCHANGED task => Stays(s)
  BY DEF Stays
<1>5. ASSUME UNCHANGED <<task, pseudo, sock, odd>>, Loads, Fresh(online'), \A s \in Conns : Stays(s)
      PROVE  Quiet
  <2>1. \A o \in CharObjects : InLogout(o)' <=> InLogout(o)
    BY <1>5 DEF InLogout
  <2> QED BY <1>5, <2>1 DEF Quiet, Passes
<1>6. ASSUME NEW S \in SUBSET Chars
      PROVE  /\ Fresh(OnlineWith(S)) /\ (cache' = CacheWith(S) /\ loads' = LoadsWith(S) => Loads)
             /\ CanLoad(S) => OnlineWith(S) \in [CharObjects -> BOOLEAN]
  BY FreshLoads, LoadType DEF Loads
<1>7. \A s \in Conns : Like(conn, s, "handler")
  BY <1>0 DEF Like
<1>8. \A s \in Conns : Ready(s) => task[s]["handler"].op # "logout"
  BY <1>0 DEF Ready
<1>9. \A c \in Conns \cup {None} : \A s \in Conns : Like([conn EXCEPT ![s].closed = TRUE], s, "handler")
  BY <1>0, <1>1 DEF Like, Socket
<1>10. \A o : Fresh([online EXCEPT ![o] = FALSE])
  BY <1>1 DEF Fresh
<1>11. ASSUME NEW s \in Conns, NEW u \in Users, Login(s, u) PROVE Quiet
  <2> DEFINE old == sockets[u]
             refused == [conn EXCEPT ![s].closed = TRUE]
             c == IF old = None THEN None ELSE conn[old].char
  <2>1. /\ old \in Conns \cup {None} /\ refused \in [Conns -> Socket] /\ Ready(s)
        /\ UNCHANGED <<cache, loads, sock, pseudo, odd>>
    <3>1. old \in Conns \cup {None} /\ refused \in [Conns -> Socket]
      BY SocketFields DEF TypeOK
    <3> QED BY <1>11, <3>1 DEF Login, objects, ids
  <2>2. ASSUME NEW w, AlreadyOnline(s, u, w) PROVE Quiet
    <3>1. CASE c # None
      <4>1. c \in CharObjects /\ Loaded(c)
        BY <1>2, <2>1, <3>1
      <4>2. BeginLogout(refused, online, s, "handler", c, old, FALSE) /\ Like(refused, s, "handler")
        BY <2>2, <3>1, <1>9 DEF AlreadyOnline
      <4> HIDE DEF refused, c, old
      <4> QED BY <1>0, <1>1, <1>3, <1>8, <1>10, <2>1, <4>1, <4>2, BeginQuiet
    <3>2. CASE c = None
      <4>1. /\ conn' = IF old = None THEN refused ELSE [refused EXCEPT ![old].closed = TRUE]
            /\ online' = online /\ task' = task
        BY <2>2, <3>2 DEF AlreadyOnline
      <4>2. \A x \in Conns : Stays(x)
        <5>1. \A x \in Conns : /\ refused[x].char = conn[x].char /\ refused[x].selected = conn[x].selected
                               /\ refused[x].reading = conn[x].reading
          BY <1>1 DEF Socket
        <5> HIDE DEF refused, old
        <5>2. \A x \in Conns : /\ conn'[x].char = refused[x].char /\ conn'[x].selected = refused[x].selected
                               /\ conn'[x].reading = refused[x].reading
          BY <2>1, <4>1 DEF Socket
        <5> QED BY <4>1, <5>1, <5>2 DEF Stays
      <4> QED BY <1>3, <1>5, <2>1, <4>1, <4>2 DEF Fresh
    <3> QED BY <3>1, <3>2
  <2>3. ASSUME NEW w, LoggedIn(s, u, w) PROVE Quiet
    <3>1. conn' = [conn EXCEPT ![s].user = w] /\ UNCHANGED <<online, task>>
      BY <2>3 DEF LoggedIn
    <3>2. \A x \in Conns : Stays(x)
      BY <1>1, <3>1 DEF Stays, Socket
    <3> QED BY <1>3, <1>5, <2>1, <3>1, <3>2 DEF Fresh
  <2> QED BY <1>11, <2>2, <2>3 DEF Login
<1>12. ASSUME NEW s \in Conns, ListServers(s) PROVE Quiet
  <2> DEFINE S == CharsOf(conn[s].user[1])
  <2>1. S \in SUBSET Chars
    BY DEF CharsOf
  <2>2. /\ cache' = CacheWith(S) /\ loads' = LoadsWith(S) /\ UNCHANGED <<conn, sock, pseudo, task, odd>>
        /\ \A o \in CharObjects : online'[o] => OnlineWith(S)[o]
    BY <1>12 DEF ListServers, ids
  <2>3. Fresh(online')
    BY <1>6, <2>1, <2>2 DEF Fresh
  <2> HIDE DEF S
  <2> QED BY <1>0, <1>4, <1>5, <1>6, <2>1, <2>2, <2>3
<1>13. ASSUME NEW s \in Conns, NEW u \in Users, ListCharacters(s, u) PROVE Quiet
  <2> DEFINE S == CharsOf(u)
  <2>1. S \in SUBSET Chars
    BY DEF CharsOf
  <2>2. /\ cache' = CacheWith(S) /\ loads' = LoadsWith(S) /\ online' = OnlineWith(S)
        /\ conn' = [conn EXCEPT ![s].user = <<u, users[u]>>]
        /\ UNCHANGED <<sock, pseudo, task, odd>>
    BY <1>13 DEF ListCharacters, ids
  <2>3. \A x \in Conns : Stays(x)
    BY <1>1, <2>2 DEF Stays, Socket
  <2> HIDE DEF S
  <2> QED BY <1>5, <1>6, <2>1, <2>2, <2>3
<1>14. ASSUME NEW s \in Conns, NEW t \in Tasks, t.op # "logout", task[s]["handler"].op # "logout",
              task' = [task EXCEPT ![s]["handler"] = t],
              UNCHANGED <<conn, cache, loads, online, sock, pseudo, odd>>
       PROVE  Quiet
  <2>1. /\ \A o \in CharObjects : InLogout(o)' <=> InLogout(o)
        /\ \A x \in Conns : task'[x]["reader"] = task[x]["reader"]
    <3>1. \A o \in CharObjects : InLogout(o)' <=> InLogout(o) \/ (t.op = "logout" /\ t.obj = o)
      BY <1>0, <1>14, TaskStep
    <3>2. \A x \in Conns : task'[x]["reader"] = task[x]["reader"]
      BY <1>0, <1>14, TaskStep
    <3> QED BY <1>14, <3>1, <3>2
  <2> QED BY <1>3, <1>14, <2>1 DEF Quiet, Passes, Stays, Fresh
<1>15. ASSUME NEW s \in Conns, NEW c \in Chars, BeginSelect(s, c) PROVE Quiet
  <2>1. Selecting(c) \in Tasks /\ Selecting(c).op # "logout"
    BY DEF Tasks, Selecting
  <2> QED BY <1>8, <1>14, <1>15, <2>1 DEF BeginSelect, objects, ids
<1>16. ASSUME NEW s \in Conns, BeginStart(s) PROVE Quiet
  <2>1. Starting \in Tasks /\ Starting.op # "logout"
    BY DEF Tasks, Starting
  <2> QED BY <1>8, <1>14, <1>16, <2>1 DEF BeginStart, objects, ids
<1>17. ASSUME NEW s \in Conns, CharacterMenu(s) \/ ServerMenu(s) PROVE Quiet
  <2>1. /\ BeginLogout(conn, online, s, "handler", conn[s].char, None, FALSE)
        /\ Ready(s) /\ conn[s].char # None /\ UNCHANGED <<cache, loads, sock, pseudo, odd>>
    BY <1>17 DEF CharacterMenu, ServerMenu, objects, ids
  <2> QED BY <1>0, <1>1, <1>2, <1>3, <1>7, <1>8, <1>10, <2>1, BeginQuiet
<1>18. ASSUME NEW s \in Conns, NEW ac, NEW r \in Routines, NEW forget \in BOOLEAN,
              OnClose(conn, ac, online, s, r, forget), task[s][r].op # "logout",
              UNCHANGED <<cache, loads, sock, pseudo, odd>>
       PROVE  Quiet
  BY <1>1, <1>3, <1>18, CloseQuiet
<1>19. ASSUME NEW s \in Conns, QuitGame(s) PROVE Quiet
  <2>1. /\ OnClose(conn, [account EXCEPT ![conn[s].user].connecting = FALSE], online, s, "handler", TRUE)
        /\ Ready(s) /\ UNCHANGED <<cache, loads, sock, pseudo, odd>>
    BY <1>19 DEF QuitGame, objects, ids
  <2> QED BY <1>0, <1>8, <1>18, <2>1
<1>20. ASSUME NEW s \in Conns, PeerCloses(s) PROVE Quiet
  <2>1. /\ conn' = [conn EXCEPT ![s].closed = TRUE]
        /\ UNCHANGED <<cache, loads, online, sock, pseudo, task, odd>>
    BY <1>20 DEF PeerCloses, objects, ids
  <2>2. \A x \in Conns : Stays(x)
    BY <1>1, <2>1 DEF Stays, Socket
  <2> QED BY <1>3, <1>5, <2>1, <2>2 DEF Fresh
<1>21. ASSUME NEW s \in Conns, ReaderCloses(s) PROVE Quiet
  <2>1. /\ OnClose(conn, account, online, s, "reader", FALSE) /\ conn[s].reading
        /\ UNCHANGED <<cache, loads, sock, pseudo, odd>>
    BY <1>21 DEF ReaderCloses, objects, ids
  <2>2. task[s]["reader"].op # "logout"
    BY <1>0, <2>1 DEF GameInv, ReadersRead
  <2> QED BY <1>0, <1>18, <2>1, <2>2
<1>22. ASSUME NEW s \in Conns, WriteFails(s) PROVE Quiet
  <2>1. /\ OnClose(conn, account, online, s, "writer", FALSE) /\ task[s]["writer"] = Idle
        /\ UNCHANGED <<cache, loads, sock, pseudo, odd>>
    BY <1>22 DEF WriteFails, objects, ids
  <2> QED BY <1>0, <1>18, <2>1
<1>23. ASSUME NEW s \in Conns, FinishSelect(s) PROVE GameInv'
  <2> DEFINE c == task[s]["handler"].char
             o == <<c, CacheWith({c})[c]>>
  <2>1. task[s]["handler"].op = "select"
    BY <1>23 DEF FinishSelect
  <2>2. c \in Chars /\ {c} \in SUBSET Chars
    <3>1. task[s]["handler"] \in Tasks
      BY <1>0
    <3> QED BY <3>1, <2>1 DEF Tasks, Idle, Starting, Selecting, LoggingOut
  <2>3. CASE OnClose(conn, account, online, s, "handler", FALSE) /\ UNCHANGED <<cache, loads, sock, ids, odd>>
    <3>1. Quiet
      BY <1>0, <1>18, <2>1, <2>3 DEF ids
    <3> QED BY <3>1, QuietStep
  <2>4. CASE /\ CanLoad({c}) /\ cache' = CacheWith({c}) /\ loads' = LoadsWith({c})
             /\ OnClose(conn, account, OnlineWith({c}), s, "handler", FALSE)
             /\ UNCHANGED <<sock, ids, odd>>
    <3>1. OnlineWith({c}) \in [CharObjects -> BOOLEAN] /\ Loads /\ Fresh(OnlineWith({c}))
      BY <1>6, <2>2, <2>4
    <3> HIDE DEF c
    <3>2. \A p \in CharObjects : Loaded(p) /\ OnlineWith({c})[p] => online[p] \/ p = conn[s].char
      BY <3>1 DEF Fresh
    <3>3. Quiet
      BY <1>0, <2>1, <2>4, <3>1, <3>2, CloseQuiet DEF ids
    <3> QED BY <3>3, QuietStep
  <2>5. CASE /\ CanLoad({c}) /\ cache' = CacheWith({c}) /\ loads' = LoadsWith({c})
             /\ conn' = [conn EXCEPT ![s].selected = TRUE, ![s].char = o]
             /\ sock' = [sock EXCEPT ![o] = s] /\ online' = OnlineWith({c})
             /\ GenerateID(o) /\ task' = [task EXCEPT ![s]["handler"] = Idle]
             /\ Oddly(s, o, pseudo[o] # NoId \/ FreeIds = {})
    <3> HIDE DEF c
    <3>1. o \in CharObjects
      BY <2>2, <2>5, FoundObject
    <3> QED BY <2>1, <2>2, <2>5, <3>1, SelectGame
  <2> HIDE DEF c
  <2> QED BY <1>23, <2>3, <2>4, <2>5 DEF FinishSelect, c
<1>24. ASSUME NEW s \in Conns, FinishStart(s) PROVE GameInv'
  <2> DEFINE o == conn[s].char
             started == [online EXCEPT ![o] = TRUE]
  <2>1. /\ task[s]["handler"].op = "start" /\ o \in CharObjects
        /\ UNCHANGED <<cache, loads, sock, pseudo>>
    BY <1>2, <1>24 DEF FinishStart, objects, ids
  <2>2. CASE OnClose(conn, account, online, s, "handler", FALSE) /\ UNCHANGED odd
    <3>1. Quiet
      BY <1>0, <1>18, <2>1, <2>2
    <3> QED BY <3>1, QuietStep
  <2>3. CASE OnClose(conn, account, started, s, "handler", FALSE) /\ UNCHANGED odd
    <3>1. started \in [CharObjects -> BOOLEAN] /\ \A p \in CharObjects : p # o => started[p] = online[p]
      BY <1>1
    <3> HIDE DEF started
    <3>2. Quiet
      BY <1>0, <1>3, <2>1, <2>3, <3>1, CloseQuiet
    <3> QED BY <3>2, QuietStep
  <2>4. CASE /\ online' = started /\ task' = [task EXCEPT ![s]["handler"] = Idle]
             /\ Oddly(s, o, ~conn[s].selected \/ sock[o] # s) /\ UNCHANGED <<conn, account, sockets>>
    BY <2>1, <2>4, StartGame
  <2> QED BY <1>24, <2>2, <2>3, <2>4 DEF FinishStart
<1>25. ASSUME NEW s \in Conns, NEW r \in Routines, FinishLogout(s, r) PROVE Quiet
  <2> DEFINE t == task[s][r]
  <2>1. /\ t.op = "logout" /\ RemoveFromRegister(t.obj) /\ task' = [task EXCEPT ![s][r] = Idle]
        /\ cache' = [cache EXCEPT ![t.obj[1]] = NotCached]
        /\ conn' = IF t.close = None THEN conn ELSE [conn EXCEPT ![t.close].closed = TRUE]
        /\ UNCHANGED <<loads, online, sock, odd>>
    BY <1>25 DEF FinishLogout
  <2>2. Loads
    <3>1. \A c \in Chars : loads[c] \in Nat /\ loads[c] <= loads[c]
      BY SessionAssumption DEF TypeOK
    <3>2. \A c \in Chars : cache'[c] = cache[c] \/ cache'[c] = NotCached
      BY <2>1 DEF TypeOK
    <3> QED BY <2>1, <3>1, <3>2 DEF Loads, NotCached, GameInv, AllLoaded
  <2>3. t.obj \in CharObjects /\ InLogout(t.obj)
    <3>1. t \in Tasks
      BY <1>0
    <3>2. t.obj \in CharObjects
      BY <3>1, <2>1 DEF Tasks, Idle, Starting, Selecting, LoggingOut
    <3> QED BY <2>1, <3>2 DEF InLogout
  <2>4. \A x \in Conns, q \in Routines : task'[x][q] = IF x = s /\ q = r THEN Idle ELSE task[x][q]
    BY <2>1 DEF TypeOK
  <2>5. ASSUME NEW o \in CharObjects, o # t.obj PROVE Passes(o)
    <3>1. InLogout(o)' <=> InLogout(o)
      BY <1>0, <2>4, <2>5 DEF InLogout
    <3>2. pseudo'[o] = pseudo[o]
      BY <2>1, <2>5 DEF RemoveFromRegister, TypeOK
    <3> QED BY <3>1, <3>2 DEF Passes
  <2>6. ASSUME NEW x \in Conns PROVE Stays(x)
    <3>1. /\ conn'[x].char = conn[x].char /\ conn'[x].selected = conn[x].selected
          /\ conn'[x].reading = conn[x].reading
      BY <1>1, <2>1 DEF Socket
    <3>2. conn[x].reading => task'[x]["reader"] = task[x]["reader"]
      BY <1>0, <2>1, <2>4 DEF GameInv, ReadersRead
    <3> QED BY <3>1, <3>2 DEF Stays
  <2> QED BY <2>1, <2>2, <2>3, <2>5, <2>6 DEF Quiet, Fresh
<1>26. ASSUME UNCHANGED <<conn, cache, loads, online, sock, pseudo, task, odd>> PROVE Quiet
  BY <1>0, <1>3, <1>4, <1>5, <1>26 DEF Fresh
<1>27. CASE UNCHANGED vars
  BY <1>26, <1>27, QuietStep DEF vars
<1>28. ASSUME NEW s \in Conns, SelectServer(s) PROVE Quiet
  BY <1>26, <1>28 DEF SelectServer, objects, ids
<1>29. ASSUME NEW o \in CharObjects, SaveCharacter(o) PROVE Quiet
  BY <1>26, <1>29 DEF SaveCharacter, ids
<1>30. ASSUME NEW i \in Ids, ExpireID(i) PROVE Quiet
  BY <1>26, <1>30 DEF ExpireID, objects
<1>31. ASSUME NEW s \in Conns, Packet(s) PROVE Quiet
  BY <1>11, <1>12, <1>13, <1>15, <1>16, <1>17, <1>19, <1>28, <1>31 DEF Packet
<1>32. CASE Next
  <2>1. CASE Quiet
    BY <2>1, QuietStep
  <2>2. CASE \E s \in Conns : FinishSelect(s) \/ FinishStart(s)
    BY <1>23, <1>24, <2>2
  <2> QED BY <1>20, <1>21, <1>22, <1>25, <1>29, <1>30, <1>31, <1>32, <2>1, <2>2 DEF Next, Proceeds
<1> QED BY <1>27, <1>32

-----------------------------------------------------------------------------
(* Theorems *)

\* IInv at the start.
LEMMA InitIInv == Init => IInv
<1>1. Init => RegisterAgrees /\ NoIdLost
  BY DEF Init, RegisterAgrees, NoIdLost
<1> QED BY <1>1, InitType DEF IInv

\* IInv holds in every reachable state.
LEMMA Invariance == Spec => []IInv
<1>1. IInv /\ [Next]_vars => IInv'
  BY TypeStep, IdsStep DEF IInv
<1> QED BY <1>1, InitIInv, PTL DEF Spec

\* Every variable has its type in every state.
THEOREM SessionTyping == Spec => []TypeOK
<1>1. IInv => TypeOK
  BY DEF IInv
<1> QED BY <1>1, Invariance, PTL

\* A pseudo id leads to the one object that carries it, and one at rest to nobody's;
\* sessions that go by the protocol lose no id.
THEOREM IdsAreKept == Spec => []IdsKept
<1>1. IInv => IdsKept
  BY DEF IInv, IdsKept
<1> QED BY <1>1, Invariance, PTL

\* GameInv at the start.
LEMMA InitGame == Init => GameInv
BY SessionAssumption DEF Init, GameInv, ReadersRead, AllLoaded, OutFirst, CarriesId, InLogout, Held,
                         Loaded, CharObjects, NotCached, Idle, Routines

\* GameInv holds in every reachable state.
LEMMA GameInvariance == Spec => []GameInv
<1>1. TypeOK /\ TypeOK' /\ GameInv /\ [Next]_vars => GameInv'
  BY GameStep
<1> QED BY <1>1, InitGame, SessionTyping, PTL DEF Spec

\* Whoever is in the game by a session that went by the protocol carries an id, and the
\* register leads from it to him.
THEOREM PlayersAreFound == Spec => []OnlineIsFound
<1>1. TypeOK /\ RegisterAgrees /\ GameInv => OnlineIsFound
  BY DEF OnlineIsFound, GameInv, CarriesId, RegisterAgrees
<1>2. IInv => TypeOK /\ RegisterAgrees
  BY DEF IInv
<1> QED BY <1>1, <1>2, Invariance, GameInvariance, PTL
=============================================================================
