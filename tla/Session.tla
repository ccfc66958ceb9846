------------------------------ MODULE Session ------------------------------
(***************************************************************************)
(* Connections, users, character objects and pseudo ids: auth/login.go,    *)
(* auth/server_list.go, auth/server_select.go, auth/character_menu.go,     *)
(* auth/character_selection.go, auth/start_game.go, player/system.go,      *)
(* database/socket.go (OnClose), Character.Logout, server/register.go and  *)
(* the caches of characters and users.                                     *)
(*                                                                         *)
(* A character in memory is an object.  The cache names at most one object *)
(* of a character; Logout takes it out, and the next finder loads another  *)
(* from the database, while handlers may still hold the old one.  Players  *)
(* know each other by a pseudo id, taken from the register by GenerateID   *)
(* and given back ten seconds after the logout.                            *)
(*                                                                         *)
(* A handler is one action, except where it waits: selecting a character   *)
(* and starting the game first ask the database, and Logout writes to      *)
(* party members, partners and the database before it gives the id back.   *)
(* Meanwhile other goroutines run: the reader of the connection finds it   *)
(* closed, a write to it fails, another connection logs in.                *)
(***************************************************************************)
EXTENDS Integers, FiniteSets

CONSTANTS
  Conns,      \* connections; each is accepted once
  Users,      \* accounts
  Chars,      \* characters
  Owner,      \* Owner[c]: the account of character c
  None,       \* nil
  NumIDs,     \* pseudo ids are 1..NumIDs (2000 in the code)
  MaxLoads,   \* bound: objects of a character in a behaviour
  MaxUsers,   \* bound: objects of a user in a behaviour
  Failing,    \* bound: the connections that another player's write may fail on
  Sends       \* bound: Sends[s] are the packets that connection s may send

Ids == 1..NumIDs
NoId == 0
CharObjects == Chars \X (1..MaxLoads)   \* the n-th object of a character
UserObjects == Users \X (1..MaxUsers)   \* the n-th object of a user
NotCached == 0
Packets == {"login", "servers", "server", "characters", "select", "start", "menu", "quit"}
Routines == {"reader", "handler", "writer"}

ASSUME SessionAssumption ==
  /\ NumIDs \in Nat /\ MaxLoads \in Nat /\ MaxUsers \in Nat /\ Owner \in [Chars -> Users]
  /\ Failing \subseteq Conns /\ Sends \in [Conns -> SUBSET Packets]
  /\ None \notin Conns \cup CharObjects \cup UserObjects

VARIABLES
  conn,       \* conn[s]: a Socket: reading (its Read loop runs), closed, user, char, selected
  account,    \* account[w]: a User object: its ConnectedIP, ConnectedServer, ConnectingIP, ConnectingTo set or not
  users,      \* users[u]: which object the cache of users holds
  userLoads,  \* userLoads[u]: objects of u made so far
  sockets,    \* sockets[u]: the map Sockets
  cache,      \* cache[c]: which object the cache of characters holds
  loads,      \* loads[c]: objects of c made so far
  online,     \* online[o]: Character.IsOnline
  saved,      \* saved[c]: IsOnline in the database
  sock,       \* sock[o]: Character.Socket
  pseudo,     \* pseudo[o]: Character.PseudoID
  register,   \* register[i]: PlayerRegister
  expiring,   \* ids whose ten seconds of rest are running
  task,       \* task[s][r]: what a goroutine of the connection is waiting in
  odd         \* history: objects whose session took one of the turns listed at Oddly

vars == <<conn, account, users, userLoads, sockets, cache, loads, online, saved, sock,
          pseudo, register, expiring, task, odd>>
ids     == <<pseudo, register, expiring>>
objects == <<cache, loads, sock, saved>>
accts   == <<users, userLoads>>

Idle == [op |-> "idle"]
Selecting(c) == [op |-> "select", char |-> c]
Starting == [op |-> "start"]
LoggingOut(o, close, forget) == [op |-> "logout", obj |-> o, close |-> close, forget |-> forget]
Tasks == {Idle, Starting} \cup {Selecting(c) : c \in Chars}
           \cup {LoggingOut(o, s, f) : o \in CharObjects, s \in Conns \cup {None}, f \in BOOLEAN}

NoAccount == [connected |-> FALSE, server |-> FALSE, connecting |-> FALSE, to |-> FALSE]

Socket == [reading : BOOLEAN, closed : BOOLEAN, user : UserObjects \cup {None},
           char : CharObjects \cup {None}, selected : BOOLEAN]
Account == [connected : BOOLEAN, server : BOOLEAN, connecting : BOOLEAN, to : BOOLEAN]

TypeOK ==
  /\ conn \in [Conns -> Socket] /\ account \in [UserObjects -> Account]
  /\ users \in [Users -> 0..MaxUsers] /\ userLoads \in [Users -> 0..MaxUsers]
  /\ sockets \in [Users -> Conns \cup {None}]
  /\ cache \in [Chars -> 0..MaxLoads] /\ loads \in [Chars -> 0..MaxLoads]
  /\ online \in [CharObjects -> BOOLEAN] /\ saved \in [Chars -> BOOLEAN]
  /\ sock \in [CharObjects -> Conns \cup {None}]
  /\ pseudo \in [CharObjects -> Ids \cup {NoId}]
  /\ register \in [Ids -> CharObjects \cup {None}] /\ expiring \subseteq Ids
  /\ task \in [Conns -> [Routines -> Tasks]]
  /\ odd \subseteq CharObjects

Init ==
  /\ conn = [s \in Conns |-> [reading |-> TRUE, closed |-> FALSE, user |-> None,
                              char |-> None, selected |-> FALSE]]
  /\ account = [w \in UserObjects |-> NoAccount]
  /\ users = [u \in Users |-> NotCached] /\ userLoads = [u \in Users |-> 0]
  /\ sockets = [u \in Users |-> None]
  /\ cache = [c \in Chars |-> NotCached] /\ loads = [c \in Chars |-> 0]
  /\ online = [o \in CharObjects |-> FALSE] /\ saved = [c \in Chars |-> FALSE]
  /\ sock = [o \in CharObjects |-> None]
  /\ pseudo = [o \in CharObjects |-> NoId]
  /\ register = [i \in Ids |-> None] /\ expiring = {}
  /\ task = [s \in Conns |-> [r \in Routines |-> Idle]]
  /\ odd = {}

(***************************************************************************)
(* Pieces of handlers.  Those that come after other assignments of their   *)
(* handler take the values these left as arguments.                        *)
(***************************************************************************)
Ready(s) == conn[s].reading /\ task[s]["handler"] = Idle

InLogout(o) == \E s \in Conns, r \in Routines : task[s][r].op = "logout" /\ task[s][r].obj = o

\* FindCharacterByID and FindCharactersByUserID: what the cache lacks is loaded.
Missing(S) == {c \in S : cache[c] = NotCached}
CanLoad(S) == \A c \in Missing(S) : loads[c] < MaxLoads
CacheWith(S) == [c \in Chars |-> IF c \in Missing(S) THEN loads[c] + 1 ELSE cache[c]]
LoadsWith(S) == [c \in Chars |-> IF c \in Missing(S) THEN loads[c] + 1 ELSE loads[c]]
OnlineWith(S) == [o \in CharObjects |->
  IF o[1] \in Missing(S) /\ o[2] = loads[o[1]] + 1 THEN saved[o[1]] ELSE online[o]]
CharsOf(u) == {c \in Chars : Owner[c] = u}

\* Character.Logout up to its first wait; the rest is FinishLogout.
BeginLogout(cn, on, s, r, o, close, forget) ==
  /\ conn' = [cn EXCEPT ![sock[o]].selected = FALSE]
  /\ online' = [on EXCEPT ![o] = FALSE]
  /\ task' = [task EXCEPT ![s][r] = LoggingOut(o, close, forget)]

\* User.Logout
Disconnected(ac, w) == [ac EXCEPT ![w].connected = FALSE, ![w].server = FALSE]

\* Socket.OnClose in goroutine r: the entry of Sockets goes by user, whatever it holds.
OnCloseMutant(cn, ac, on, s, r, forget) ==
  LET w == cn[s].user
      o == cn[s].char
      closed == [cn EXCEPT ![s].closed = TRUE, ![s].reading = @ /\ r # "reader"]
  IN  /\ sockets' = IF w = None THEN sockets ELSE [sockets EXCEPT ![w[1]] = None]
      /\ account' = IF w # None /\ ~ac[w].connecting THEN Disconnected(ac, w) ELSE ac
      /\ conn' = closed /\ online' = on
      /\ task' = [task EXCEPT ![s][r] = Idle]
OnClose(cn, ac, on, s, r, forget) ==
  LET w == cn[s].user
      o == cn[s].char
      closed == [cn EXCEPT ![s].closed = TRUE, ![s].reading = @ /\ r # "reader"]
  IN  /\ sockets' = IF w = None THEN sockets ELSE [sockets EXCEPT ![w[1]] = None]
      /\ account' = IF w # None /\ ~ac[w].connecting THEN Disconnected(ac, w) ELSE ac
      /\ IF o # None
         THEN BeginLogout(closed, on, s, r, o, None, forget)
         ELSE /\ conn' = closed /\ online' = on
              /\ task' = [task EXCEPT ![s][r] = Idle]

(***************************************************************************)
(* Packets                                                                 *)
(***************************************************************************)
\* LoginHandler.login.  A user whose ConnectedIP is set is taken to be online
\* already: both connections are closed and the user is logged out.
AlreadyOnline(s, u, w) ==
  LET old == sockets[u]
      refused == [conn EXCEPT ![s].closed = TRUE]
      c == IF old = None THEN None ELSE conn[old].char
  IN  /\ account[w].connected
      /\ account' = Disconnected(account, w)
      /\ IF c # None
         THEN BeginLogout(refused, online, s, "handler", c, old, FALSE)
         ELSE /\ conn' = IF old = None THEN refused ELSE [refused EXCEPT ![old].closed = TRUE]
              /\ UNCHANGED <<online, task>>
      /\ UNCHANGED accts

LoggedIn(s, u, w) ==
  /\ ~account[w].connected
  /\ conn' = [conn EXCEPT ![s].user = w]
  /\ account' = [account EXCEPT ![w].connected = TRUE]
  /\ UNCHANGED <<online, task>>

LoadUser(u) ==
  /\ users[u] = NotCached /\ userLoads[u] < MaxUsers
  /\ userLoads' = [userLoads EXCEPT ![u] = @ + 1]
  /\ users' = [users EXCEPT ![u] = userLoads[u] + 1]

Login(s, u) ==
  /\ Ready(s)
  /\ \/ users[u] # NotCached /\ AlreadyOnline(s, u, <<u, users[u]>>)
     \/ users[u] # NotCached /\ LoggedIn(s, u, <<u, users[u]>>) /\ UNCHANGED accts
     \/ LoadUser(u) /\ LoggedIn(s, u, <<u, userLoads[u] + 1>>)
  /\ UNCHANGED <<sockets, objects, ids, odd>>

\* ListServersHandler: disconnectMyCharacters resets IsOnline, here and in the database.
ListServers(s) ==
  /\ Ready(s) /\ conn[s].user # None
  /\ LET S == CharsOf(conn[s].user[1]) IN
       /\ CanLoad(S)
       /\ cache' = CacheWith(S) /\ loads' = LoadsWith(S)
       /\ online' = [o \in CharObjects |->
            IF o[1] \in S /\ o[2] = cache'[o[1]] THEN FALSE ELSE OnlineWith(S)[o]]
       /\ saved' = [c \in Chars |-> saved[c] /\ c \notin S]
  /\ UNCHANGED <<conn, account, accts, sockets, sock, ids, task, odd>>

\* SelectServerHandler: the client is expected to come back on another connection.
SelectServer(s) ==
  /\ Ready(s) /\ conn[s].user # None
  /\ account' = [account EXCEPT ![conn[s].user].connecting = TRUE, ![conn[s].user].to = TRUE]
  /\ UNCHANGED <<conn, accts, sockets, objects, online, ids, task, odd>>

\* ListCharactersHandler: the connection becomes the user's.
ListCharacters(s, u) ==
  LET w == <<u, users[u]>> IN
  /\ Ready(s) /\ users[u] # NotCached
  /\ conn' = [conn EXCEPT ![s].user = w]
  /\ account' = [account EXCEPT ![w] =
       [connected |-> @.connecting, server |-> @.to, connecting |-> FALSE, to |-> FALSE]]
  /\ sockets' = [sockets EXCEPT ![u] = s]
  /\ CanLoad(CharsOf(u))
  /\ cache' = CacheWith(CharsOf(u)) /\ loads' = LoadsWith(CharsOf(u))
  /\ online' = OnlineWith(CharsOf(u))
  /\ UNCHANGED <<accts, saved, sock, ids, task, odd>>

\* CharacterSelectionHandler, up to the answer of CheckCharacter.
BeginSelect(s, c) ==
  /\ Ready(s) /\ conn[s].user # None
  /\ task' = [task EXCEPT ![s]["handler"] = Selecting(c)]
  /\ UNCHANGED <<conn, account, accts, sockets, objects, online, ids, odd>>

\* Turns of a session that leave ids or flags behind, recorded per object: it is
\* selected with an id already, while it is logged out, or with no id left; it starts
\* without having been selected, or while it is logged out; either happens after the
\* reader of the connection has ended.
Oddly(s, o, wrong) == odd' = IF wrong \/ InLogout(o) \/ ~conn[s].reading THEN odd \cup {o} ELSE odd

\* GenerateID: the lowest free id, if any.
FreeIdsMutant == {i \in Ids : register[i] = None \/ i \in expiring}
FreeIds == {i \in Ids : register[i] = None}
GenerateIDMutant(o) ==
  \E i \in FreeIds \cup {NumIDs + 1} :
    /\ \A j \in FreeIds : i <= j
    /\ register' = [register EXCEPT ![i] = o]
    /\ pseudo' = [pseudo EXCEPT ![o] = i]
GenerateID(o) ==
  \/ FreeIds = {} /\ UNCHANGED <<pseudo, register>>
  \/ \E i \in FreeIds :
       /\ \A j \in FreeIds : i <= j
       /\ register' = [register EXCEPT ![i] = o]
       /\ pseudo' = [pseudo EXCEPT ![o] = i]

FinishSelect(s) ==
  LET c == task[s]["handler"].char
      o == <<c, CacheWith({c})[c]>>
  IN
  /\ task[s]["handler"].op = "select"
  /\ \/ /\ Owner[c] # conn[s].user[1]
        /\ OnClose(conn, account, online, s, "handler", FALSE)
        /\ UNCHANGED <<cache, loads, sock, ids, odd>>
     \/ /\ Owner[c] = conn[s].user[1] /\ CanLoad({c})
        /\ cache' = CacheWith({c}) /\ loads' = LoadsWith({c})
        /\ \/ /\ OnlineWith({c})[o] \/ conn[s].selected
              /\ OnClose(conn, account, OnlineWith({c}), s, "handler", FALSE)
              /\ UNCHANGED <<sock, ids, odd>>
           \/ /\ ~OnlineWith({c})[o] /\ ~conn[s].selected
              /\ conn' = [conn EXCEPT ![s].selected = TRUE, ![s].char = o]
              /\ sock' = [sock EXCEPT ![o] = s]
              /\ online' = OnlineWith({c})
              /\ GenerateID(o) /\ UNCHANGED expiring
              /\ task' = [task EXCEPT ![s]["handler"] = Idle]
              /\ Oddly(s, o, pseudo[o] # NoId \/ FreeIds = {})
              /\ UNCHANGED <<account, sockets>>
  /\ UNCHANGED <<accts, saved>>

\* StartGameHandler, up to the answer of CheckCharacter.
BeginStart(s) ==
  /\ Ready(s) /\ conn[s].char # None /\ ~online[conn[s].char]
  /\ task' = [task EXCEPT ![s]["handler"] = Starting]
  /\ UNCHANGED <<conn, account, accts, sockets, objects, online, ids, odd>>

FinishStart(s) ==
  LET o == conn[s].char
      w == conn[s].user
      started == [online EXCEPT ![o] = TRUE]
  IN
  /\ task[s]["handler"].op = "start" /\ o # None
  /\ \/ /\ Owner[o[1]] # w[1]
        /\ OnClose(conn, account, online, s, "handler", FALSE) /\ UNCHANGED odd
     \/ /\ Owner[o[1]] = w[1] /\ ~account[w].server
        /\ OnClose(conn, account, started, s, "handler", FALSE) /\ UNCHANGED odd
     \/ /\ Owner[o[1]] = w[1] /\ account[w].server
        /\ online' = started
        /\ task' = [task EXCEPT ![s]["handler"] = Idle]
        /\ Oddly(s, o, ~conn[s].selected \/ sock[o] # s)
        /\ UNCHANGED <<conn, account, sockets>>
  /\ UNCHANGED <<accts, objects, ids>>

\* CharacterMenuHandler
CharacterMenu(s) ==
  LET w == conn[s].user IN
  /\ Ready(s) /\ conn[s].char # None
  /\ account' = [account EXCEPT ![w].connecting = TRUE, ![w].to = account[w].server]
  /\ BeginLogout(conn, online, s, "handler", conn[s].char, None, FALSE)
  /\ UNCHANGED <<accts, sockets, objects, ids, odd>>

\* ServerMenuHandler
ServerMenu(s) ==
  /\ Ready(s) /\ conn[s].char # None
  /\ BeginLogout(conn, online, s, "handler", conn[s].char, None, FALSE)
  /\ UNCHANGED <<account, accts, sockets, objects, ids, odd>>

\* QuitGameHandler
QuitGame(s) ==
  /\ Ready(s) /\ conn[s].char # None
  /\ OnClose(conn, [account EXCEPT ![conn[s].user].connecting = FALSE], online, s, "handler", TRUE)
  /\ UNCHANGED <<accts, objects, ids, odd>>

(***************************************************************************)
(* What runs by itself                                                     *)
(***************************************************************************)
\* The client or the network ends a connection that is used.
PeerCloses(s) ==
  /\ ~conn[s].closed /\ conn[s].user # None
  /\ conn' = [conn EXCEPT ![s].closed = TRUE]
  /\ UNCHANGED <<account, accts, sockets, objects, online, ids, task, odd>>

\* Socket.Read finds the connection closed.
ReaderCloses(s) ==
  /\ conn[s].closed /\ conn[s].reading
  /\ OnClose(conn, account, online, s, "reader", FALSE)
  /\ UNCHANGED <<accts, objects, ids, odd>>

\* Socket.Write of another player's goroutine fails or times out.
WriteFails(s) ==
  /\ s \in Failing /\ conn[s].char # None /\ task[s]["writer"] = Idle
  /\ OnClose(conn, account, online, s, "writer", FALSE)
  /\ UNCHANGED <<accts, objects, ids, odd>>

\* go c.Update(), which many handlers end with
SaveCharacter(o) ==
  /\ online[o] /\ ~saved[o[1]]
  /\ saved' = [saved EXCEPT ![o[1]] = TRUE]
  /\ UNCHANGED <<conn, account, accts, sockets, cache, loads, sock, online, ids, task, odd>>

\* RemoveFromRegister
RemoveFromRegisterMutant(o) ==
  /\ expiring' = IF pseudo[o] = NoId THEN expiring ELSE expiring \cup {pseudo[o]}
  /\ UNCHANGED <<register, pseudo>>
RemoveFromRegister(o) ==
  /\ pseudo' = [pseudo EXCEPT ![o] = NoId]
  /\ expiring' = IF pseudo[o] = NoId THEN expiring ELSE expiring \cup {pseudo[o]}
  /\ UNCHANGED register

\* The rest of Character.Logout, and of the handler that called it: the cache entry
\* goes by character, whatever object it holds.
FinishLogout(s, r) ==
  LET t == task[s][r] IN
  /\ t.op = "logout"
  /\ saved' = [saved EXCEPT ![t.obj[1]] = online[t.obj]]
  /\ RemoveFromRegister(t.obj)
  /\ cache' = [cache EXCEPT ![t.obj[1]] = NotCached]
  /\ conn' = IF t.close = None THEN conn ELSE [conn EXCEPT ![t.close].closed = TRUE]
  /\ users' = IF t.forget THEN [users EXCEPT ![conn[s].user[1]] = NotCached] ELSE users
  /\ task' = [task EXCEPT ![s][r] = Idle]
  /\ UNCHANGED <<account, userLoads, sockets, loads, online, sock, odd>>

\* The ten seconds of rest of an id are over.
ExpireID(i) ==
  /\ i \in expiring
  /\ register' = [register EXCEPT ![i] = None]
  /\ expiring' = expiring \ {i}
  /\ UNCHANGED <<conn, account, accts, sockets, objects, online, pseudo, task, odd>>

Packet(s) ==
  \/ "login" \in Sends[s] /\ \E u \in Users : Login(s, u)
  \/ "servers" \in Sends[s] /\ ListServers(s)
  \/ "server" \in Sends[s] /\ SelectServer(s)
  \/ "characters" \in Sends[s] /\ \E u \in Users : ListCharacters(s, u)
  \/ "select" \in Sends[s] /\ \E c \in Chars : BeginSelect(s, c)
  \/ "start" \in Sends[s] /\ BeginStart(s)
  \/ "menu" \in Sends[s] /\ (CharacterMenu(s) \/ ServerMenu(s))
  \/ "quit" \in Sends[s] /\ QuitGame(s)

Proceeds(s) ==
  \/ FinishSelect(s) \/ FinishStart(s)
  \/ \E r \in Routines : FinishLogout(s, r)

Next ==
  \/ \E s \in Conns : Packet(s) \/ Proceeds(s) \/ PeerCloses(s) \/ ReaderCloses(s) \/ WriteFails(s)
  \/ \E o \in CharObjects : SaveCharacter(o)
  \/ \E i \in Ids : ExpireID(i)

Spec == Init /\ [][Next]_vars

\* What a goroutine has begun goes on (the database answers, a client takes what is
\* written to it or its connection fails), a reader finds its connection closed, and a
\* timer fires.
FairSpec ==
  /\ Spec
  /\ \A s \in Conns : /\ WF_vars(FinishSelect(s)) /\ WF_vars(FinishStart(s))
                      /\ WF_vars(ReaderCloses(s))
                      /\ \A r \in Routines : WF_vars(FinishLogout(s, r))
  /\ \A i \in Ids : WF_vars(ExpireID(i))

(***************************************************************************)
(* Properties                                                              *)
(***************************************************************************)
\* FindCharacter answers for a pseudo id with the one object that carries it, and an id
\* at rest is carried by nobody: no two objects ever share an id, though ids are given
\* back by timers that know nothing of what happened since.
RegisterAgrees ==
  /\ \A o \in CharObjects : pseudo[o] # NoId => register[pseudo[o]] = o
  /\ \A i \in expiring : register[i] # None /\ \A o \in CharObjects : pseudo[o] # i

\* An id that the register holds is carried, or comes free by a timer: sessions that
\* go by the protocol lose no id.
NoIdLost ==
  \A i \in Ids : register[i] # None /\ register[i] \notin odd
                   => pseudo[register[i]] = i \/ i \in expiring

\* Pseudo ids lead to who carries them, and come back (both of the above).
IdsKept == RegisterAgrees /\ NoIdLost

\* Whoever is in the game can be found by its id, unless its session took an odd turn:
\* kicks, late closes and failing writes of other connections included.
OnlineIsFound ==
  \A o \in CharObjects : online[o] /\ sock[o] # None /\ o \notin odd /\ ~InLogout(o)
                           => pseudo[o] # NoId /\ register[pseudo[o]] = o

\* A character whose connection is closed leaves the game and the register, whichever
\* goroutine closed it and however often, unless its session took an odd turn.
EveryoneOut ==
  \A s \in Conns, o \in CharObjects :
    conn[s].closed /\ sock[o] = s
      ~> o \in odd \/ sock[o] # s \/ (~online[o] /\ \A i \in Ids : register[i] # o)
=============================================================================
