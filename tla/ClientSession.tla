---------------------------- MODULE ClientSession ----------------------------
(***************************************************************************)
(* One browser tab's session: the connection of a ChatClient, what its     *)
(* managers wire to the connection's events, the provider that makes a new *)
(* client for every token, and the effects of App that join the rooms.     *)
(*                                                                         *)
(* setState changes what the App wants to show; Render commits it and runs *)
(* the effects whose dependencies changed, in the order of the source.     *)
(* What arrives between a setState and its Render finds the old closures.  *)
(***************************************************************************)
EXTENDS Integers, FiniteSets

CONSTANTS Home,           \* the room shown first
          Defaults,       \* DEFAULT_ROOMS
          Privates,       \* private rooms the user may be in
          MaxClients,     \* bound: the clients of a tab, one per token
          SessionBudgets  \* bound: how often each event happens

ASSUME SessionParameters == Home \in Defaults /\ Defaults \cap Privates = {} /\ MaxClients \in Nat \ {0}

ClientIds == 1..MaxClients
SessionKinds == {"token", "drop", "close", "failure", "select", "create", "removal"}

ASSUME CountedSessions == SessionBudgets \subseteq [SessionKinds -> Nat]

VARIABLES
  clients,   \* each client: its connection and what its managers keep
  now,       \* clientRef of the provider: the client in use
  waiting,   \* isConnectingRef of the provider
  zombies,   \* ghost: clients that were replaced while they were connecting
  want,      \* the App's state: client, connected, initialJoinDone, privateRooms
  seen,      \* the same at the last commit
  relisted,  \* privateRooms is another array since
  active,    \* the room on the screen
  pend, entered, \* pendingPrivateJoinsRef, joinedPrivateRoomsRef
  timer,     \* privateJoinTimerRef is set
  lists,     \* room.list requests not answered yet
  checks,    \* room.info requests of ChatRoom, which joins a private room after them
  member,    \* the private rooms the user is in, at the server
  wasted,    \* ghost: rooms whose join came to nothing
  sessionLeft

sessionVars == <<clients, now, waiting, zombies, want, seen, relisted, active, pend, entered,
                 timer, lists, checks, member, wasted, sessionLeft>>
appVars == <<seen, relisted, active, pend, entered, timer, lists, checks, member, wasted>>

\* nc is null; it is up; it is lost and the library reconnects; it is drained.
Conn == {"none", "up", "lost", "closing"}
Rooms == Defaults \cup Privates
Client == [conn : Conn, connecting : BOOLEAN, dead : BOOLEAN, joined : SUBSET Rooms, subs : SUBSET Rooms,
           deliver : BOOLEAN, heart : BOOLEAN]
NewClient == [conn |-> "none", connecting |-> FALSE, dead |-> FALSE, joined |-> {}, subs |-> {},
              deliver |-> FALSE, heart |-> FALSE]
AppState == [client : ClientIds, connected : BOOLEAN, initial : BOOLEAN, priv : SUBSET Privates]

Up(c) == clients[c].conn = "up"
\* The commit of a new client is taken to come before the next tick or click.
Committed == seen.client = now
Spend(kind) == sessionLeft[kind] > 0 /\ sessionLeft' = [sessionLeft EXCEPT ![kind] = @ - 1]

\* The App listens to the client it has committed, until that one is disposed of.
Heard(c) == c = seen.client /\ ~clients[c].dead
Tell(c, up) == want' = IF Heard(c) THEN [want EXCEPT !.connected = up] ELSE want

SessionInit ==
  /\ clients = [c \in ClientIds |-> [NewClient EXCEPT !.connecting = (c = 1)]]
  /\ now = 1 /\ waiting = TRUE /\ zombies = {}
  /\ member \in SUBSET Privates
  /\ \E cached \in SUBSET Privates :
       seen = [client |-> 1, connected |-> FALSE, initial |-> FALSE, priv |-> cached]
  /\ want = seen /\ relisted = FALSE
  /\ active = Home /\ pend = {} /\ entered = {} /\ timer = FALSE /\ lists = {} /\ checks = {}
  /\ wasted = {} /\ sessionLeft \in SessionBudgets

-----------------------------------------------------------------------------
(* ConnectionManager, and the handlers ChatClient has on its events.        *)

\* A bug: the rooms are joined again only in name.
WiredWithoutRooms(k) == [k EXCEPT !.conn = "up", !.connecting = FALSE, !.deliver = TRUE, !.heart = TRUE]
\* rejoinAll, startHeartbeat, messages.start.
Wired(k) == [k EXCEPT !.conn = "up", !.connecting = FALSE, !.subs = k.joined, !.deliver = TRUE, !.heart = TRUE]

\* finally: the provider may try again.
Settled(c) == waiting' = (waiting /\ c # now)

\* connect() succeeds: 'connected'.  A client that was disposed of meanwhile is
\* wired all the same.
ConnectDone(c) ==
  /\ clients[c].connecting
  /\ clients' = [clients EXCEPT ![c] = Wired(@)]
  /\ Settled(c) /\ Tell(c, TRUE)
  /\ UNCHANGED <<now, zombies, appVars, sessionLeft>>

ConnectFails(c) ==
  /\ clients[c].connecting /\ Spend("failure")
  /\ clients' = [clients EXCEPT ![c].connecting = FALSE]
  /\ Settled(c)
  /\ UNCHANGED <<now, zombies, want, appVars>>

\* The provider's interval: only when there is no connection and no attempt.
RetryTick ==
  /\ Committed
  /\ clients[now].conn = "none" /\ ~waiting
  /\ waiting' = TRUE
  /\ clients' = [clients EXCEPT ![now].connecting = TRUE]
  /\ UNCHANGED <<now, zombies, want, appVars, sessionLeft>>

\* 'disconnected': the library goes on trying ...
LinkDrops(c) ==
  /\ Up(c) /\ Spend("drop")
  /\ clients' = [clients EXCEPT ![c].conn = "lost", ![c].heart = FALSE]
  /\ Tell(c, FALSE)
  /\ UNCHANGED <<now, waiting, zombies, appVars>>

\* ... 'reconnected': the rooms are joined again.
Reconnect(c) ==
  /\ clients[c].conn = "lost"
  /\ clients' = [clients EXCEPT ![c] = Wired(@)]
  /\ Tell(c, TRUE)
  /\ UNCHANGED <<now, waiting, zombies, appVars, sessionLeft>>

\* Requests on a connection that is closed end, and their joins come to nothing.
Unchecked(c) == checks' = {k \in checks : k.of # c}

\* The connection is closed for good: nc is null, its subscriptions are dead.
ConnClosed(c) ==
  /\ clients[c].conn \in {"up", "lost"} /\ Spend("close")
  /\ clients' = [clients EXCEPT ![c].conn = "none", ![c].subs = {}, ![c].deliver = FALSE, ![c].heart = FALSE]
  /\ Tell(c, FALSE) /\ Unchecked(c)
  /\ UNCHANGED <<now, waiting, zombies, seen, relisted, active, pend, entered, timer, lists, member, wasted>>

\* A bug: the connection is left to itself.
DisposedHalf(k) == [k EXCEPT !.dead = TRUE, !.joined = {}, !.subs = {}, !.deliver = FALSE, !.heart = FALSE]
\* disconnect(): the managers are destroyed at once, the connection is drained.
Disposed(k) ==
  [k EXCEPT !.dead = TRUE, !.joined = {}, !.subs = {}, !.deliver = FALSE, !.heart = FALSE,
            !.conn = IF @ \in {"up", "lost"} THEN "closing" ELSE @]
Drained(c) ==
  /\ clients[c].conn = "closing"
  /\ clients' = [clients EXCEPT ![c].conn = "none"]
  /\ UNCHANGED <<now, waiting, zombies, want, appVars, sessionLeft>>

\* The token has been refreshed: the provider disposes of its client and makes
\* another, in one pass, so that the App never sees none.
NewToken ==
  /\ now < MaxClients /\ Spend("token")
  /\ now' = now + 1 /\ waiting' = TRUE
  /\ zombies' = IF clients[now].connecting THEN zombies \cup {now} ELSE zombies
  /\ clients' = [clients EXCEPT ![now] = Disposed(@), ![now + 1] = [NewClient EXCEPT !.connecting = TRUE]]
  /\ want' = [want EXCEPT !.client = now + 1]
  /\ wasted' = wasted \cup clients[now].joined \cup pend
  /\ Unchecked(now)
  /\ UNCHANGED <<seen, relisted, active, pend, entered, timer, lists, member>>

-----------------------------------------------------------------------------
(* App and ChatRoom.                                                        *)

\* setPrivateRooms
Relist(rooms) == want' = [want EXCEPT !.priv = rooms] /\ relisted' = TRUE

\* join: nothing unless the connection is up.  It is wasted when the App takes
\* it to be up still.
Join(c, rooms, on) ==
  IF Up(c)
    THEN /\ clients' = [clients EXCEPT ![c].joined = @ \cup rooms, ![c].subs = @ \cup rooms]
         /\ wasted' = wasted \ rooms
    ELSE /\ wasted' = IF on THEN wasted \cup (rooms \ clients[c].joined) ELSE wasted
         /\ UNCHANGED clients

\* A bug: the default rooms are joined before there is a connection.
BeginsAtOnce == ~want.initial
Begins == want.connected /\ ~want.initial

\* ChatRoom joins its room, if the client is up; a private one only when room.info
\* has been asked.
Entering(c, r) == IF Up(c) /\ r \in Defaults THEN {r} ELSE {}
Checking(c, r) == IF Up(c) /\ r \in Privates THEN {[of |-> c, room |-> r]} ELSE {}

\* A commit, and its effects.  ChatRoom enters its room; App joins the default
\* rooms, once; queues the private rooms that are neither
\* joined nor queued, and sets the timer if there are any; and asks for the
\* list of private rooms.
Commit(linked) ==
  LET c == want.client
      on == want.connected
      moved == c # seen.client \/ on # seen.connected
      first == moved /\ Begins
      begun == on /\ want.initial
      queue == IF begun THEN want.priv \ (entered \cup pend) ELSE {}
  IN
  /\ want # seen \/ relisted
  /\ seen' = want /\ relisted' = FALSE
  /\ want' = [want EXCEPT !.connected = IF c # seen.client THEN linked ELSE @,
                          !.initial = @ \/ first]
  /\ Join(c, (IF moved THEN Entering(c, active) ELSE {}) \cup (IF first THEN Defaults ELSE {}), on)
  /\ pend' = pend \cup queue
  /\ timer' = (queue # {} \/ (timer /\ on))
  /\ lists' = IF begun /\ (moved \/ ~seen.initial)
                THEN lists \cup {[of |-> c, read |-> FALSE, rooms |-> {}]} ELSE lists
  /\ checks' = checks \cup (IF moved THEN Checking(c, active) ELSE {})
  /\ UNCHANGED <<now, waiting, zombies, active, entered, member, sessionLeft>>

\* A bug: a new client is taken to be connected when the old one was.
RenderTrusting == Commit(want.connected)
Render == Commit(Up(want.client))

\* runBatch
RunBatch ==
  /\ Committed /\ timer /\ timer' = FALSE
  /\ Join(seen.client, pend, seen.connected)
  /\ entered' = entered \cup pend /\ pend' = {}
  /\ UNCHANGED <<now, waiting, zombies, want, seen, relisted, active, lists, checks, member, sessionLeft>>

\* The user looks at another room.
Look(r) ==
  /\ active' = r
  /\ Join(seen.client, Entering(seen.client, r), TRUE)
  /\ checks' = checks \cup Checking(seen.client, r)
Select(r) ==
  /\ Committed /\ r # active /\ r \in Defaults \cup seen.priv /\ Spend("select")
  /\ Look(r)
  /\ UNCHANGED <<now, waiting, zombies, want, seen, relisted, pend, entered, timer, lists, member>>

\* room.info ends: the room is joined, unless the user is no member.
CheckEnds(k) ==
  /\ k \in checks /\ checks' = checks \ {k}
  /\ Join(k.of, {k.room}, k.of = now)
  /\ UNCHANGED <<now, waiting, zombies, want, seen, relisted, active, pend, entered, timer, lists, member, sessionLeft>>

\* room-service reads the rooms of the user ...
ListRead(l) ==
  /\ l \in lists /\ ~l.read /\ clients[l.of].conn = "up"
  /\ lists' = (lists \ {l}) \cup {[l EXCEPT !.read = TRUE, !.rooms = member]}
  /\ UNCHANGED <<clients, now, waiting, zombies, want, seen, relisted, active, pend, entered, timer, checks, member, wasted, sessionLeft>>

\* ... and the list replaces the App's.
ListArrives(l) ==
  /\ l \in lists /\ l.read /\ clients[l.of].conn = "up"
  /\ lists' = lists \ {l}
  /\ Relist(l.rooms)
  /\ UNCHANGED <<clients, now, waiting, zombies, seen, active, pend, entered, timer, checks, member, wasted, sessionLeft>>

\* listRooms answers a failed request with an empty list.
ListFails(l) ==
  /\ l \in lists /\ lists' = lists \ {l}
  /\ IF clients[l.of].conn = "up" THEN Spend("failure") ELSE UNCHANGED sessionLeft
  /\ Relist({})
  /\ UNCHANGED <<clients, now, waiting, zombies, seen, active, pend, entered, timer, checks, member, wasted>>

\* handleCreateRoom
Create(r) ==
  /\ Committed /\ seen.connected /\ Up(now) /\ r \notin member /\ Spend("create")
  /\ member' = member \cup {r}
  /\ Relist(want.priv \cup {r}) /\ Look(r)
  /\ UNCHANGED <<now, waiting, zombies, seen, pend, entered, timer, lists>>

\* handleRoomRemoved, when the user has left the room or room.info shows that
\* he is no member: the App forgets it; the client stays subscribed.
Removed(r) ==
  /\ Committed /\ r \in seen.priv /\ Spend("removal")
  /\ member' = member \ {r}
  /\ pend' = pend \ {r} /\ entered' = entered \ {r}
  /\ Relist(want.priv \ {r})
  /\ checks' = {k \in checks : k.room # r}
  /\ IF active = r THEN active' = Home /\ Join(seen.client, Entering(seen.client, Home), TRUE)
                   ELSE UNCHANGED <<clients, active, wasted>>
  /\ UNCHANGED <<now, waiting, zombies, seen, timer, lists>>

Network(c) ==
  ConnectDone(c) \/ ConnectFails(c) \/ LinkDrops(c) \/ Reconnect(c) \/ ConnClosed(c) \/ Drained(c)

SessionNext ==
  \/ \E c \in ClientIds : Network(c)
  \/ RetryTick \/ NewToken \/ Render \/ RunBatch
  \/ \E r \in Rooms : Select(r)
  \/ \E r \in Privates : Create(r) \/ Removed(r)
  \/ \E k \in checks : CheckEnds(k)
  \/ \E l \in lists : ListRead(l) \/ ListArrives(l) \/ ListFails(l)

SessionSpec == SessionInit /\ [][SessionNext]_sessionVars
-----------------------------------------------------------------------------
\* Every variable has its type.
SessionTypeOK ==
  /\ clients \in [ClientIds -> Client] /\ now \in ClientIds /\ zombies \subseteq ClientIds
  /\ {waiting, timer, relisted} \subseteq BOOLEAN /\ want \in AppState /\ seen \in AppState
  /\ active \in Rooms /\ pend \subseteq Privates /\ entered \subseteq Privates
  /\ lists \subseteq [of : ClientIds, read : BOOLEAN, rooms : SUBSET Privates]
  /\ checks \subseteq [of : ClientIds, room : Privates]
  /\ member \subseteq Privates /\ wasted \subseteq Rooms
  /\ sessionLeft \in [SessionKinds -> Nat]

\* A client whose connection is up has the subscriptions of the rooms it has
\* joined, its own and the heartbeat, however often the connection was lost,
\* closed and made again: no room is joined in name only.
SubscribedToJoined ==
  \A c \in ClientIds : Up(c) => clients[c].subs = clients[c].joined /\ clients[c].deliver /\ clients[c].heart

\* A replaced client leaves nothing behind: no rooms, and no connection once it
\* is drained, unless it was replaced in the middle of connecting.
ReplacedAreSilent ==
  \A c \in ClientIds : clients[c].dead =>
    /\ clients[c].joined = {} /\ clients[c].subs = {}
    /\ c \notin zombies => clients[c].conn \in {"none", "closing"} /\ ~clients[c].heart

\* When the App has committed all it was told it knows whether the client in use
\* is connected.
AppKnowsLink == want = seen => (seen.client = now /\ seen.connected = Up(now))

SessionAtRest == want = seen /\ ~relisted /\ Up(now) /\ ~timer /\ lists = {} /\ checks = {}

\* At rest the client in use has joined the default rooms and the private rooms
\* of the App, but for those whose join was wasted: on a client replaced since,
\* on a connection that was down, or queued when it went down.
KnownRoomsJoined == SessionAtRest => Defaults \cup seen.priv \subseteq clients[now].joined \cup wasted \cup pend

\* What App.tsx says its effects do: at rest all these rooms are joined.
AllRoomsJoined == SessionAtRest => Defaults \cup seen.priv \subseteq clients[now].joined

\* The rooms the App knows are joined, and what is joined is subscribed to; of the
\* clients of a tab one is heard, and the App shows its connection as it is.
SessionSettles == SubscribedToJoined /\ KnownRoomsJoined /\ ReplacedAreSilent /\ AppKnowsLink
=============================================================================
