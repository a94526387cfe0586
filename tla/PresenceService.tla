-------------------------- MODULE PresenceService --------------------------
(***************************************************************************)
(* presence-service for one user and one of the rooms: the instances, each *)
(* with a tracker of the user's connections and an index of who is in      *)
(* which room, and what they share, the buckets PRESENCE_CONN and PRESENCE.*)
(*                                                                         *)
(* Heartbeats, disconnects and status updates go to one instance each; the *)
(* deltas of room-service go to all.  Callbacks of different subscriptions *)
(* of an instance run at the same time, and so does the watcher that tells *)
(* it of every change of PRESENCE_CONN, a connection that expired too.     *)
(* When the last connection goes, one instance marks the user offline and  *)
(* takes him out of his rooms.                                             *)
(***************************************************************************)
EXTENDS Integers, Sequences, FiniteSets

CONSTANTS Instances,    \* the processes of presence-service
          Browsers,     \* the tabs of the user, each with a connection of its own
          ConnBudgets   \* bound: the tabs there are, open and not yet, and how
                        \* often each event happens

ASSUME Deployed == Instances # {} /\ IsFiniteSet(Browsers)

ConnKinds == {"beat", "close", "die", "cut", "set", "drop", "failure"}

\* The four subscriptions that change something, the watcher, and the watcher
\* of before the last reconnection while it ends what it was doing.
Callbacks == {"beat", "bye", "set", "room", "watch", "old"}

VARIABLES
  browser,    \* each tab: "new", "open", "cut" off, "gone"
  within,     \* room-service has the user in the room
  wishes,     \* room.join and room.leave on their way to room-service
  signals,    \* messages on their way to whichever instance takes them
  conns,      \* PRESENCE_CONN: the connections that have not expired
  marks,      \* ... and those whose key was deleted
  entry,      \* PRESENCE: the status of the user, and the revision
  reach,      \* each instance is connected
  watching,   \* its watcher: "reading" the keys, "opening" anew, "live", or "off"
  watched,    \* ... and what it was told and has not taken
  roomNews,   \* room.changed on its way to the instance
  older,      \* ... and what the watcher of before may still take
  tracked,    \* connTracker
  index,      \* dualMembership: the user is in the room
  snapshot,   \* hydrateRoomMembership: "none", "asked", "lost", or what was read
  doing,      \* the callbacks at work: where, which, its step, and what it knows
  causes,     \* ghost: what has happened that the service does not make good
  sound,      \* ghost: nothing was lost, no request failed
  connLeft

conServer == <<conns, marks, entry>>
conRoom == <<within, wishes, roomNews>>
conHeld == <<tracked, index, snapshot, watching, older>>
conGhosts == <<causes, sound, connLeft>>
connectionVars == <<browser, conRoom, signals, conServer, reach, watched, conHeld, doing, conGhosts>>

Unread == "none"

SpendConn(kind) ==
  /\ connLeft[kind] > 0
  /\ connLeft' = [connLeft EXCEPT ![kind] = @ - 1]
  /\ sound' = (sound /\ kind \notin {"drop", "failure"})

\* What the watchers are told; one that is not live reads the keys anyway.
Told(op, c) == watched' = [i \in Instances |-> IF watching[i] = "live" THEN Append(watched[i], <<op, c>>) ELSE watched[i]]

Job(i, s, at, tab) == [of |-> i, by |-> s, at |-> at, tab |-> tab, first |-> FALSE, rev |-> 0]
Idle(i, s) == \A job \in doing : job.of # i \/ job.by # s
Free(i, s) == reach[i] /\ Idle(i, s)
At(job, at) == job \in doing /\ job.at = at
Served(job) == reach[job.of] /\ UNCHANGED <<sound, connLeft>>
\* A request fails for once, or for want of a connection.
Fails(job) == SpendConn("failure") \/ (~reach[job.of] /\ UNCHANGED <<sound, connLeft>>)
StartsJob(job) == doing' = doing \cup {job}
Turns(job, new) == doing' = (doing \ {job}) \cup {new}
EndsJob(job) == doing' = doing \ {job}

ConnectionInit ==
  /\ sound = TRUE /\ causes = {}
  /\ \E b \in ConnBudgets :
       /\ connLeft = [k \in ConnKinds |-> b[k]]
       /\ browser = [c \in Browsers |-> IF c \in b.there THEN "open" ELSE IF c \in b.fresh THEN "new" ELSE "gone"]
  /\ conns = {c \in Browsers : browser[c] = "open"} /\ marks = {}
  /\ within = (conns # {}) /\ wishes = [join |-> 0, leave |-> 0] /\ signals = {}
  /\ entry = IF conns = {} THEN [status |-> "none", rev |-> 0] ELSE [status |-> "online", rev |-> 1]
  /\ reach = [i \in Instances |-> TRUE] /\ watching = [i \in Instances |-> "live"]
  /\ watched = [i \in Instances |-> <<>>] /\ roomNews = [i \in Instances |-> <<>>]
  /\ tracked = [i \in Instances |-> conns] /\ index = [i \in Instances |-> within]
  /\ snapshot = [i \in Instances |-> Unread] /\ older = [i \in Instances |-> <<>>]
  /\ doing = {}

-----------------------------------------------------------------------------
(* The tabs, room-service, and the bucket.                                  *)

\* connected, or reconnected: the rooms are joined and heartbeats begin.
Appear(c, from) ==
  /\ browser[c] = from
  /\ browser' = [browser EXCEPT ![c] = "open"]
  /\ wishes' = [wishes EXCEPT !.join = @ + 1]
  /\ signals' = signals \cup {<<"beat", c>>}
  /\ UNCHANGED <<within, roomNews, conServer, reach, watched, conHeld, doing, conGhosts>>

OpenBrowser(c) == Appear(c, "new")
BrowserReturns(c) == Appear(c, "cut")

NextBeat(c) ==
  /\ browser[c] = "open" /\ SpendConn("beat")
  /\ signals' = signals \cup {<<"beat", c>>}
  /\ UNCHANGED <<browser, conRoom, conServer, reach, watched, conHeld, doing, causes>>

\* beforeunload: the rooms are left, for all tabs, then the disconnect.
CloseBrowser(c) ==
  /\ browser[c] = "open" /\ SpendConn("close")
  /\ browser' = [browser EXCEPT ![c] = "gone"]
  /\ wishes' = [wishes EXCEPT !.leave = @ + 1]
  /\ signals' = signals \cup {<<"bye", c>>}
  /\ UNCHANGED <<within, roomNews, conServer, reach, watched, conHeld, doing, causes>>

\* A crash, or the client of a token that was refreshed: nothing is said.
BrowserDies(c) ==
  /\ browser[c] = "open" /\ SpendConn("die")
  /\ browser' = [browser EXCEPT ![c] = "gone"]
  /\ UNCHANGED <<conRoom, signals, conServer, reach, watched, conHeld, doing, causes>>

BrowserIsCut(c) ==
  /\ browser[c] = "open" /\ SpendConn("cut")
  /\ browser' = [browser EXCEPT ![c] = "cut"]
  /\ UNCHANGED <<conRoom, signals, conServer, reach, watched, conHeld, doing, causes>>

ChooseStatus(c, s) ==
  /\ browser[c] = "open" /\ SpendConn("set")
  /\ signals' = signals \cup {<<"set", s>>}
  /\ UNCHANGED <<browser, conRoom, conServer, reach, watched, conHeld, doing, causes>>

MessageLost(m) ==
  /\ m \in signals /\ SpendConn("failure")
  /\ signals' = signals \ {m}
  /\ UNCHANGED <<browser, conRoom, conServer, reach, watched, conHeld, doing, causes>>

\* addToRoom is silent about who is in, removeFromRoom is not about who is out.
RoomServes(wish) ==
  LET news == IF wish = "join" /\ within THEN <<>> ELSE <<wish>> IN
  /\ wishes[wish] > 0
  /\ wishes' = [wishes EXCEPT ![wish] = @ - 1]
  /\ within' = (wish = "join")
  /\ roomNews' = [i \in Instances |-> IF reach[i] THEN roomNews[i] \o news ELSE roomNews[i]]
  /\ UNCHANGED <<browser, signals, conServer, reach, watched, conHeld, doing, conGhosts>>

\* 45 s without a heartbeat: none that was sent is still being dealt with.  A
\* watcher that has not read the bucket twice is not told, and keeps a connection
\* that is in its tracker by then for good.
ConnectionExpires(c) ==
  /\ c \in conns /\ browser[c] \in {"cut", "gone"}
  /\ <<"beat", c>> \notin signals /\ \A job \in doing : job.by = "beat" => job.tab \notin {c, "online"}
  /\ conns' = conns \ {c} /\ Told("gone", c)
  /\ causes' = IF \E i \in Instances : watching[i] \in {"reading", "opening"} /\ c \in tracked[i] THEN causes \cup {"ghost"} ELSE causes
  /\ UNCHANGED <<browser, conRoom, signals, marks, entry, reach, conHeld, doing, sound, connLeft>>

-----------------------------------------------------------------------------
(* presence.heartbeat: what the tracker says, the key, the tracker, and for  *)
(* the first connection the status.                                         *)

BeatTaken(i, c) ==
  /\ Free(i, "beat") /\ <<"beat", c>> \in signals
  /\ signals' = signals \ {<<"beat", c>>}
  /\ StartsJob([Job(i, "beat", "put", c) EXCEPT !.first = (tracked[i] = {})])
  /\ UNCHANGED <<browser, conRoom, conServer, reach, watched, conHeld, conGhosts>>

\* connKV.Put.  Nobody has marked the user online if the connections the tracker
\* knew of are gone by now.
BeatStored(job) ==
  /\ At(job, "put")
  /\ \/ /\ conns' = conns \cup {job.tab} /\ marks' = marks \ {job.tab} /\ Told("put", job.tab)
        /\ causes' = IF conns = {} /\ ~job.first THEN causes \cup {"unseen"} ELSE causes
        /\ Served(job)
     \/ /\ Fails(job) /\ causes' = causes \cup {"ghost"}
        /\ UNCHANGED <<conns, marks, watched>>
  /\ Turns(job, [job EXCEPT !.at = "add"])
  /\ UNCHANGED <<browser, conRoom, signals, entry, reach, conHeld>>

\* ct.add: of a connection that may have ended since.
BeatTracked(job) ==
  /\ At(job, "add")
  /\ tracked' = [tracked EXCEPT ![job.of] = @ \cup {job.tab}]
  /\ causes' = IF job.tab \notin conns THEN causes \cup {"ghost"} ELSE causes
  /\ IF job.first THEN Turns(job, Job(job.of, "beat", "write", "online")) ELSE EndsJob(job)
  /\ UNCHANGED <<browser, conRoom, signals, conServer, reach, watched, index, snapshot, watching, older, sound, connLeft>>

-----------------------------------------------------------------------------
(* presence.disconnect and the watcher; handleUserOffline.                  *)

\* connKV.Delete leaves a marker and tells the watchers, whatever was there;
\* nobody looks at its error.
ByeTaken(i, c) ==
  /\ Free(i, "bye") /\ <<"bye", c>> \in signals
  /\ signals' = signals \ {<<"bye", c>>}
  /\ \/ /\ conns' = conns \ {c} /\ marks' = marks \cup {c} /\ Told("gone", c)
        /\ UNCHANGED <<sound, connLeft>>
     \/ SpendConn("failure") /\ UNCHANGED <<conns, marks, watched>>
  /\ StartsJob(Job(i, "bye", "remove", c))
  /\ UNCHANGED <<browser, conRoom, entry, reach, conHeld, causes>>

\* ct.remove says whether it was the last.  A heartbeat that came in between has put
\* the key again, and this tracker forgets a connection that is there.
ByeUntracks(job) ==
  /\ At(job, "remove")
  /\ tracked' = [tracked EXCEPT ![job.of] = @ \ {job.tab}]
  /\ IF tracked[job.of] = {job.tab} THEN Turns(job, Job(job.of, "bye", "get", "none")) ELSE EndsJob(job)
  /\ causes' = IF job.tab \in conns THEN causes \cup {"ghost"} ELSE causes
  /\ UNCHANGED <<browser, conRoom, signals, conServer, reach, watched, index, snapshot, watching, older, sound, connLeft>>

\* A bug: the watcher forgets the connections that end.
WatcherTakesPuts(i) ==
  /\ Free(i, "watch") /\ watching[i] = "live" /\ watched[i] # <<>>
  /\ watched' = [watched EXCEPT ![i] = Tail(@)]
  /\ tracked' = [tracked EXCEPT ![i] = @ \cup {Head(watched[i])[2]}]
  /\ UNCHANGED <<browser, conRoom, signals, conServer, reach, index, snapshot, watching, older, doing, conGhosts>>

WatcherTakes(i) ==
  LET c == Head(watched[i])[2] IN
  /\ Free(i, "watch") /\ watching[i] = "live" /\ watched[i] # <<>>
  /\ watched' = [watched EXCEPT ![i] = Tail(@)]
  /\ IF Head(watched[i])[1] = "put"
       THEN tracked' = [tracked EXCEPT ![i] = @ \cup {c}] /\ UNCHANGED doing
       ELSE /\ tracked' = [tracked EXCEPT ![i] = @ \ {c}]
            /\ IF tracked[i] = {c} THEN StartsJob(Job(i, "watch", "get", "none")) ELSE UNCHANGED doing
  /\ UNCHANGED <<browser, conRoom, signals, conServer, reach, index, snapshot, watching, older, conGhosts>>

\* handleUserOffline reads the status.  One who is offline has been taken care
\* of by another instance, or has only said that he is.  No entry, or an error,
\* and he is taken out of his rooms unmarked.
OfflineReads(job) ==
  /\ At(job, "get")
  /\ \/ Fails(job) /\ Turns(job, [job EXCEPT !.at = "sweep"])
     \/ /\ CASE entry.status = "none" -> Turns(job, [job EXCEPT !.at = "sweep"])
            [] entry.status = "offline" -> EndsJob(job)
            [] OTHER -> Turns(job, [job EXCEPT !.at = "cas", !.rev = entry.rev])
        /\ Served(job)
  /\ UNCHANGED <<browser, conRoom, signals, conServer, reach, watched, conHeld, causes>>

\* A bug: the instance does not look at the error of a lost race ...
OfflineMarksUnheeded(job) ==
  /\ At(job, "cas") /\ Served(job)
  /\ entry' = IF entry.rev = job.rev THEN [status |-> "offline", rev |-> entry.rev + 1] ELSE entry
  /\ Turns(job, [job EXCEPT !.at = "sweep", !.rev = @ + 1])
  /\ UNCHANGED <<browser, conRoom, signals, conns, marks, reach, watched, conHeld, causes>>

MarkedOffline(won) ==
  /\ entry' = IF won THEN [status |-> "offline", rev |-> entry.rev + 1] ELSE entry
  /\ causes' = causes \cup (IF won /\ conns # {} THEN {"marked"} ELSE {})
                      \cup (IF ~won /\ entry.status # "offline" THEN {"crossed"} ELSE {})

\* statusKV.Update with the revision it read: only one of those who read the same
\* entry goes on, and none if a join, a heartbeat or an update has put its status.
OfflineMarks(job) ==
  LET won == entry.rev = job.rev IN
  /\ At(job, "cas")
  /\ \/ /\ Served(job)
        /\ IF won THEN Turns(job, [job EXCEPT !.at = "sweep", !.rev = @ + 1]) ELSE EndsJob(job)
        /\ MarkedOffline(won)
     \/ /\ Fails(job) /\ EndsJob(job)
        /\ \/ MarkedOffline(won)
           \/ UNCHANGED <<entry, causes>>
  /\ UNCHANGED <<browser, conRoom, signals, conns, marks, reach, watched, conHeld>>

\* removeUserFromAll and room.leave, for the rooms this instance knows of.
Sweep(job) ==
  LET i == job.of IN
  /\ At(job, "sweep")
  /\ index' = [index EXCEPT ![i] = FALSE]
  /\ wishes' = IF index[i] THEN [wishes EXCEPT !.leave = @ + 1] ELSE wishes
  /\ causes' = causes \cup (IF index[i] /\ conns # {} THEN {"evicted"} ELSE {})
                      \cup (IF wishes.join > 0 \/ (within /\ ~index[i]) THEN {"blind"} ELSE {})
  /\ EndsJob(job)
  /\ UNCHANGED <<browser, within, roomNews, signals, conServer, reach, watched, tracked, snapshot, watching, older, sound, connLeft>>

-----------------------------------------------------------------------------
(* presence.update and room.changed.                                        *)

SetTaken(i, s) ==
  /\ Free(i, "set") /\ <<"set", s>> \in signals
  /\ signals' = signals \ {<<"set", s>>}
  /\ IF s # "offline" /\ tracked[i] = {} THEN UNCHANGED doing
     ELSE StartsJob(Job(i, "set", "write", s))
  /\ UNCHANGED <<browser, conRoom, conServer, reach, watched, conHeld, conGhosts>>

\* The index, and for a join what the tracker says.  A delta that is applied
\* between the reading of a snapshot and its swap is lost.
RoomNewsTaken(i) ==
  LET joins == Head(roomNews[i]) = "join" IN
  /\ Free(i, "room") /\ roomNews[i] # <<>>
  /\ roomNews' = [roomNews EXCEPT ![i] = Tail(@)]
  /\ index' = [index EXCEPT ![i] = joins]
  /\ IF joins /\ tracked[i] # {} THEN StartsJob(Job(i, "room", "write", "online")) ELSE UNCHANGED doing
  /\ causes' = IF snapshot[i] \in {"in", "out"} THEN causes \cup {"swapped"} ELSE causes
  /\ UNCHANGED <<browser, within, wishes, signals, conServer, reach, watched, tracked, snapshot, watching, older, sound, connLeft>>

\* The status a heartbeat, an update or a join puts, over whatever is there.  One
\* may say that he is offline; and one that comes when the last connection is gone
\* takes the cleanup from the instance that has read the entry before.
StatusPut(job) ==
  /\ At(job, "write")
  /\ \/ Served(job) /\ entry' = [status |-> job.tab, rev |-> entry.rev + 1]
     \/ Fails(job) /\ UNCHANGED entry
  /\ causes' = causes \cup (IF job.tab = "offline" THEN {"hidden"} ELSE {}) \cup (IF conns = {} THEN {"late"} ELSE {})
  /\ EndsJob(job)
  /\ UNCHANGED <<browser, conRoom, signals, conns, marks, reach, watched, conHeld>>

-----------------------------------------------------------------------------
(* An instance loses its connection and gets it back.                       *)

LinkGoes(i) ==
  /\ reach[i] /\ SpendConn("drop")
  /\ reach' = [reach EXCEPT ![i] = FALSE]
  /\ roomNews' = [roomNews EXCEPT ![i] = <<>>]
  /\ UNCHANGED <<browser, within, wishes, signals, conServer, watched, conHeld, doing, causes>>

\* ReconnectHandler: tracker and index are cleared, a new watcher starts and the
\* old one is told to end.  It ends what it has in hand, and as "select" chooses
\* at random it may go on with what it was told before.
LinkComes(i) ==
  /\ ~reach[i] /\ Idle(i, "old") /\ older[i] = <<>>
  /\ reach' = [reach EXCEPT ![i] = TRUE]
  /\ tracked' = [tracked EXCEPT ![i] = {}] /\ index' = [index EXCEPT ![i] = FALSE]
  /\ watching' = [watching EXCEPT ![i] = "reading"] /\ watched' = [watched EXCEPT ![i] = <<>>]
  /\ older' = [older EXCEPT ![i] = watched[i]]
  /\ snapshot' = [snapshot EXCEPT ![i] = "asked"]
  /\ doing' = {IF job.of = i /\ job.by = "watch" THEN [job EXCEPT !.by = "old"] ELSE job : job \in doing}
  /\ UNCHANGED <<browser, conRoom, signals, conServer, conGhosts>>

\* The handler returns before that when JetStream or the buckets do not answer:
\* the watcher goes on where it was, or its consumer is gone; tracker and index are
\* kept, and nobody reads the rooms for the deltas that were missed.
LinkComesUnready(i) ==
  /\ ~reach[i] /\ SpendConn("failure")
  /\ reach' = [reach EXCEPT ![i] = TRUE]
  /\ \/ UNCHANGED watching
     \/ watching' = [watching EXCEPT ![i] = "off"]
  /\ causes' = causes \cup {"missed"}
  /\ UNCHANGED <<browser, conRoom, signals, conServer, watched, tracked, index, snapshot, older, doing>>

OldWatcherTakes(i) ==
  LET c == Head(older[i])[2] IN
  /\ Idle(i, "old") /\ older[i] # <<>>
  /\ older' = [older EXCEPT ![i] = Tail(@)]
  /\ IF Head(older[i])[1] = "put"
       THEN tracked' = [tracked EXCEPT ![i] = @ \cup {c}] /\ UNCHANGED doing
       ELSE /\ tracked' = [tracked EXCEPT ![i] = @ \ {c}]
            /\ IF tracked[i] = {c} THEN StartsJob(Job(i, "old", "get", "none")) ELSE UNCHANGED doing
  /\ causes' = IF (c \in conns) = (Head(older[i])[1] = "put") THEN causes ELSE causes \cup {"ghost"}
  /\ UNCHANGED <<browser, conRoom, signals, conServer, reach, watched, index, snapshot, watching, sound, connLeft>>

OldWatcherEnds(i) ==
  /\ Idle(i, "old") /\ older[i] # <<>>
  /\ older' = [older EXCEPT ![i] = <<>>]
  /\ UNCHANGED <<browser, conRoom, signals, conServer, reach, watched, tracked, index, snapshot, watching, doing, conGhosts>>

WatcherReads(i) ==
  /\ reach[i] /\ watching[i] = "reading"
  /\ tracked' = [tracked EXCEPT ![i] = @ \cup conns]
  /\ watching' = [watching EXCEPT ![i] = "opening"]
  /\ UNCHANGED <<browser, conRoom, signals, conServer, reach, watched, index, snapshot, older, doing, conGhosts>>

\* The second watcher begins with the last entry of every key, in any order of
\* different keys.
WatcherOpens(i) ==
  /\ reach[i] /\ watching[i] = "opening"
  /\ watching' = [watching EXCEPT ![i] = "live"]
  /\ \E all \in [1..Cardinality(conns \cup marks) -> conns \cup marks] :
       /\ \A c \in conns \cup marks : \E n \in DOMAIN all : all[n] = c
       /\ watched' = [watched EXCEPT ![i] = [n \in DOMAIN all |-> <<IF all[n] \in conns THEN "put" ELSE "gone", all[n]>>]]
  /\ UNCHANGED <<browser, conRoom, signals, conServer, reach, tracked, index, snapshot, older, doing, conGhosts>>

\* Neither reading is tried again: this instance hears of no connection any more.
WatcherFails(i) ==
  /\ watching[i] \in {"reading", "opening"} /\ SpendConn("failure")
  /\ watching' = [watching EXCEPT ![i] = "off"]
  /\ UNCHANGED <<browser, conRoom, signals, conServer, reach, watched, tracked, index, snapshot, older, doing, causes>>

Hydrates(i) ==
  /\ reach[i] /\ snapshot[i] = "asked"
  /\ snapshot' = [snapshot EXCEPT ![i] = IF within THEN "in" ELSE "out"]
  /\ UNCHANGED <<browser, conRoom, signals, conServer, reach, watched, tracked, index, watching, older, doing, conGhosts>>

\* Nor is this: the index has only what deltas tell it.
HydrationFails(i) ==
  /\ snapshot[i] = "asked" /\ SpendConn("failure")
  /\ snapshot' = [snapshot EXCEPT ![i] = "lost"]
  /\ UNCHANGED <<browser, conRoom, signals, conServer, reach, watched, tracked, index, watching, older, doing, causes>>

SwapsIn(i) ==
  /\ reach[i] /\ snapshot[i] \in {"in", "out"}
  /\ index' = [index EXCEPT ![i] = snapshot[i] = "in"]
  /\ snapshot' = [snapshot EXCEPT ![i] = Unread]
  /\ UNCHANGED <<browser, conRoom, signals, conServer, reach, watched, tracked, watching, older, doing, conGhosts>>

ConnectionNext ==
  \/ \E c \in Browsers :
       \/ OpenBrowser(c) \/ BrowserReturns(c) \/ NextBeat(c) \/ CloseBrowser(c)
       \/ BrowserDies(c) \/ BrowserIsCut(c) \/ ConnectionExpires(c)
       \/ \E s \in {"away", "offline"} : ChooseStatus(c, s)
  \/ \E m \in signals : MessageLost(m)
  \/ RoomServes("join") \/ RoomServes("leave")
  \/ \E i \in Instances :
       \/ \E c \in Browsers : BeatTaken(i, c) \/ ByeTaken(i, c)
       \/ \E s \in {"away", "offline"} : SetTaken(i, s)
       \/ WatcherTakes(i) \/ RoomNewsTaken(i)
       \/ LinkGoes(i) \/ LinkComes(i) \/ LinkComesUnready(i) \/ OldWatcherTakes(i) \/ OldWatcherEnds(i)
       \/ WatcherReads(i) \/ WatcherOpens(i) \/ WatcherFails(i) \/ Hydrates(i) \/ HydrationFails(i) \/ SwapsIn(i)
  \/ \E job \in doing :
       \/ BeatStored(job) \/ BeatTracked(job) \/ ByeUntracks(job) \/ StatusPut(job)
       \/ OfflineReads(job) \/ OfflineMarks(job) \/ Sweep(job)

ConnectionSpec == ConnectionInit /\ [][ConnectionNext]_connectionVars
-----------------------------------------------------------------------------
\* Every variable has its type.
ConnectionTypeOK ==
  /\ browser \in [Browsers -> {"new", "open", "cut", "gone"}]
  /\ {within, sound} \subseteq BOOLEAN /\ wishes \in [join : Nat, leave : Nat]
  /\ signals \subseteq ({"beat", "bye"} \X Browsers) \cup ({"set"} \X {"away", "offline"})
  /\ conns \subseteq Browsers /\ marks \subseteq Browsers \ conns
  /\ entry \in [status : {"none", "online", "away", "offline"}, rev : Nat]
  /\ {reach, index} \subseteq [Instances -> BOOLEAN]
  /\ watching \in [Instances -> {"reading", "opening", "live", "off"}]
  /\ {watched, older} \subseteq [Instances -> Seq({"put", "gone"} \X Browsers)]
  /\ roomNews \in [Instances -> Seq({"join", "leave"})]
  /\ tracked \in [Instances -> SUBSET Browsers]
  /\ snapshot \in [Instances -> {Unread, "asked", "lost", "in", "out"}]
  /\ doing \subseteq [of : Instances, by : Callbacks, at : {"put", "add", "write", "remove", "get", "cas", "sweep"},
                     tab : Browsers \cup {"none", "online", "away", "offline"}, first : BOOLEAN, rev : Nat]
  /\ causes \subseteq {"ghost", "unseen", "marked", "evicted", "blind", "hidden", "crossed", "swapped", "late", "missed"}

\* However many instances see the last connection go, one of them takes the user
\* out of his rooms for each time he is marked offline.
SweptByOne ==
  \A job, other \in doing :
    (job.at = "sweep" /\ other.at = "sweep" /\ job # other /\ job.rev > 0) => job.rev # other.rev

ConnectionsAtRest ==
  /\ signals = {} /\ doing = {} /\ wishes = [join |-> 0, leave |-> 0]
  /\ \A c \in Browsers : browser[c] # "cut" /\ (c \in conns => browser[c] = "open")
  /\ \A i \in Instances :
       /\ reach[i] /\ watching[i] = "live" /\ watched[i] = <<>> /\ older[i] = <<>> /\ roomNews[i] = <<>>
       /\ snapshot[i] = Unread

\* Every tracker has the connections of the bucket, and every index the rooms of
\* the user, whichever instance handled what and whoever was cut off.
InstancesAgree ==
  \A i \in Instances :
    /\ "ghost" \notin causes => tracked[i] = conns
    /\ causes \cap {"swapped", "missed"} = {} => index[i] = within

\* A user who has gone is taken out of his rooms, ...
GoneUsersAreOut ==
  sound /\ conns = {} /\ causes \cap {"ghost", "unseen", "blind", "hidden", "crossed", "marked", "late"} = {} => ~within

\* ... and one who is connected is not shown offline.
LiveUsersAreShown ==
  sound /\ conns # {} /\ causes \cap {"marked", "unseen", "hidden"} = {} => entry.status \in {"online", "away"}

\* When nothing is on its way any more, what ended has expired and every instance
\* has its watcher and its rooms again, the trackers and the indexes agree with
\* the buckets, and rooms and status with the connections: but for the cases that
\* "causes" names.
PresenceIsRight == ConnectionsAtRest => InstancesAgree /\ GoneUsersAreOut /\ LiveUsersAreShown

\* Nobody is taken out of his rooms while a connection of his is stored: the
\* cleanup is for users whose last connection is gone.
LiveUsersStay == "evicted" \notin causes
=============================================================================
