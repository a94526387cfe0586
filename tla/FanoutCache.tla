------------------------------ MODULE FanoutCache ------------------------------
(***************************************************************************)
(* One fanout-service process: its cache of room members, and the handlers *)
(* that decide and deliver by it.                                          *)
(*                                                                         *)
(* The cache is a copy of what room-service knows.  It is filled by a      *)
(* room.members request on a miss, shared by the handlers that miss at the *)
(* same time, kept up to date by the room.changed.* deltas, emptied when   *)
(* the connection comes back, and cut to Cap rooms, least recently used    *)
(* first.  A delta about a room that is not cached is ignored.             *)
(*                                                                         *)
(* Of room-service there is here what a fanout process meets: the bucket,   *)
(* the deltas, published some time after the change of the bucket they are  *)
(* about, and an answer from the index of whichever replica takes the       *)
(* request, which may be behind the bucket or, restarted, know less.  When  *)
(* the index of a replica is right is said in RoomMembership.              *)
(***************************************************************************)
EXTENDS Naturals, Sequences, FiniteSets

CONSTANTS
  Room, User,
  Ingest,    \* goroutines running the deliver.*.send.> handler
  Sender,    \* goroutines running a handler that fans out: dm notify, admin, app
  Cap,       \* capacity of the cache
  Changing,  \* bound: the rooms whose members change
  MaxInbox   \* bound: deltas to be published or held by NATS for this process

ASSUME CapAssumption == Cap \in Nat \ {0}

ASSUME TaskAssumption == Ingest \cap Sender = {}

ASSUME BoundAssumption == Changing \subseteq Room /\ MaxInbox \in Nat

VARIABLES
  members,   \* members[r]: the members of r in the ROOMS bucket
  due,       \* deltas of changes made in the bucket, not yet published
  inbox,     \* deltas NATS holds for this process, oldest first
  link,      \* "up", "down", or "reset": up again, the cache not yet reset
  index,     \* the rooms with an entry
  list,      \* the same rooms, most recently used first
  entry,     \* entry[r]: the members cached for r, {} without an entry
  task,      \* task[t]: what handler t is doing
  main,      \* shutdown: "run", "closed" (Drain called, jobCh closed), "exit" or "panic"
  crossed,   \* history: pairs whose changes overlapped, or lost their delta
  stale,     \* history: pairs about which an entry was filled wrong, or missed a delta
  trespass   \* history: pairs let in although not a member at any time that counts

cache == <<index, list, entry>>

room == <<members, due, crossed>>

vars == <<room, inbox, link, cache, task, main, stale, trespass>>

Task == Ingest \cup Sender

Pair == Room \X User

Delta == [action : {"join", "leave"}, pair : Pair]

Idle == [pc |-> "idle"]

Nobody == "nobody"

Pc == {"isMember", "get", "enter", "recheck", "ask", "store", "done", "forget", "wait", "use"}

\* list is the answer a handler works with.  History: lost has the users about
\* whom the answer was wrong or the last delta that came since says otherwise,
\* may the users the handler may legitimately act for.
Handler == [pc : Pc, room : Room, user : User \cup {Nobody}, list : SUBSET User, leader : Task,
            lost : SUBSET User, may : SUBSET User]

Running == main \in {"run", "closed"}

Users(pairs, r) == {u \in User : <<r, u>> \in pairs}

In(t, pcs) == task[t].pc \in pcs

Goto(t, pc) == task' = [task EXCEPT ![t].pc = pc]

(***************************************************************************)
(* lruCache.                                                               *)
(***************************************************************************)
\* The element of r leaves the list.
Without(rooms, r) ==
  LET i == CHOOSE j \in 1..Len(rooms) : rooms[j] = r
  IN  SubSeq(rooms, 1, i - 1) \o SubSeq(rooms, i + 1, Len(rooms))

Touch(r) ==
  /\ list' = <<r>> \o Without(list, r)
  /\ UNCHANGED <<index, entry>>

Victims(r) ==
  IF r \in index \/ Len(list) < Cap THEN {} ELSE {list[Len(list)]}

\* Behind r: what was there, but for r itself or else the last of a full list.
KeptBy(r) ==
  IF r \in index THEN Without(list, r)
  ELSE IF Victims(r) = {} THEN list
  ELSE SubSeq(list, 1, Len(list) - 1)

\* Faulty: the evicted room keeps its place in the index.
SetIndexed(r, users) ==
  /\ index' = index \cup {r}
  /\ list' = <<r>> \o KeptBy(r)
  /\ entry' = [entry EXCEPT ![r] = users]

\* set: an entry that is there is replaced, a new one may push out the oldest.
Set(r, users) ==
  LET victims == Victims(r) IN
  /\ index' = (index \ victims) \cup {r}
  /\ list' = <<r>> \o KeptBy(r)
  /\ entry' = [x \in Room |-> IF x = r THEN users ELSE IF x \in victims THEN {} ELSE entry[x]]

\* Faulty: an entry is never left without a member.
ApplyDeltaSparing(action, r, u) ==
  IF r \in index /\ (action = "join" \/ entry[r] # {u})
    THEN /\ entry' = [entry EXCEPT ![r] = IF action = "join" THEN @ \cup {u} ELSE @ \ {u}]
         /\ UNCHANGED <<index, list>>
    ELSE UNCHANGED cache

\* applyDelta: the entry goes with its last member.
ApplyDelta(action, r, u) ==
  LET users == IF action = "join" THEN entry[r] \cup {u} ELSE entry[r] \ {u}
      gone == action = "leave" /\ users = {}
  IN
  IF r \in index
    THEN /\ entry' = [entry EXCEPT ![r] = users]
         /\ index' = IF gone THEN index \ {r} ELSE index
         /\ list' = IF gone THEN Without(list, r) ELSE list
    ELSE UNCHANGED cache

(***************************************************************************)
(* History: what the deltas tell whom, and who may be acted for.           *)
(***************************************************************************)
HoldsAnswer(t) == In(t, {"store", "done", "forget"})

\* Task t after a delta passed it: an answer that says otherwise is out of date.
Passed(t, delta) ==
  LET u == delta.pair[2] IN
  IF ~HoldsAnswer(t) \/ task[t].room # delta.pair[1] THEN task[t]
  ELSE [task[t] EXCEPT !.lost = IF (delta.action = "join") = (u \in task[t].list)
                                  THEN @ \ {u} ELSE @ \cup {u}]

\* Task t after the deltas about the pairs gone were lost.
Deprived(t, gone) ==
  IF HoldsAnswer(t) THEN [task[t] EXCEPT !.lost = @ \cup Users(gone, task[t].room)] ELSE task[t]

\* Task t after the pair p became a member.
Joined(t, p) ==
  IF In(t, {"idle"}) THEN Idle ELSE [task[t] EXCEPT !.may = @ \cup Users({p}, task[t].room)]

Queued == {inbox[i] : i \in 1..Len(inbox)}

Pairs(deltas) == {d.pair : d \in deltas}

Leaving(r) == {u \in User : [action |-> "leave", pair |-> <<r, u>>] \in due \cup Queued}

Known(r) == members[r] \cup Leaving(r) \cup Users(stale, r)

(***************************************************************************)
(* Room-service and the connection to it.                                  *)
(***************************************************************************)
\* addToRoom and removeFromRoom change the bucket; the announcement comes later.
\* A removal is written and announced whether or not there was a key.
Change(r, u, action) ==
  LET p == <<r, u>>
      delta == [action |-> action, pair |-> p]
  IN
  /\ Running
  /\ r \in Changing
  /\ Cardinality(due) + Len(inbox) < MaxInbox
  /\ delta \notin due
  /\ action = "join" => u \notin members[r]
  /\ members' = [members EXCEPT ![r] = IF action = "join" THEN @ \cup {u} ELSE @ \ {u}]
  /\ due' = due \cup {delta}
  /\ crossed' = IF p \in Pairs(due) THEN crossed \cup {p} ELSE crossed
  /\ task' = IF action = "join" THEN [t \in Task |-> Joined(t, p)] ELSE task
  /\ UNCHANGED <<inbox, link, cache, main, stale, trespass>>

\* publishDelta.  What is published while this process has no connection never
\* reaches it.
Publish(delta) ==
  LET gone == IF link = "down" THEN {delta.pair} ELSE {} IN
  /\ Running
  /\ delta \in due
  /\ due' = due \ {delta}
  /\ inbox' = IF link = "down" THEN inbox ELSE Append(inbox, delta)
  /\ task' = [t \in Task |-> Deprived(t, gone)]
  /\ stale' = stale \cup {p \in gone : p[1] \in index}
  /\ UNCHANGED <<members, crossed, link, cache, main, trespass>>

\* The replica crashed, or took the answer of the bucket for a failure.
NeverPublished(delta) ==
  /\ Running
  /\ delta \in due
  /\ due' = due \ {delta}
  /\ crossed' = crossed \cup {delta.pair}
  /\ UNCHANGED <<members, inbox, link, cache, task, main, stale, trespass>>

Deliver ==
  LET delta == Head(inbox) IN
  /\ Running
  /\ inbox # <<>>
  /\ inbox' = Tail(inbox)
  /\ ApplyDelta(delta.action, delta.pair[1], delta.pair[2])
  /\ stale' = stale \ {delta.pair}
  /\ task' = [t \in Task |-> Passed(t, delta)]
  /\ UNCHANGED <<room, link, main, trespass>>

Disconnect ==
  /\ Running
  /\ link # "down"
  /\ link' = "down"
  /\ inbox' = <<>>
  /\ stale' = stale \cup {p \in Pairs(Queued) : p[1] \in index}
  /\ task' = [t \in Task |-> Deprived(t, Pairs(Queued))]
  /\ UNCHANGED <<room, cache, main, trespass>>

Reconnect ==
  /\ Running
  /\ link = "down"
  /\ link' = "reset"
  /\ UNCHANGED <<room, inbox, cache, task, main, stale, trespass>>

\* The ReconnectHandler runs in a goroutine of its own.
Reset ==
  /\ Running
  /\ link = "reset"
  /\ link' = "up"
  /\ index' = {}
  /\ list' = <<>>
  /\ entry' = [r \in Room |-> {}]
  /\ stale' = {}
  /\ UNCHANGED <<room, inbox, task, main, trespass>>

(***************************************************************************)
(* The handlers.  A payload that names another user than the subject does  *)
(* is refused before the cache is looked at, and so is a user over the     *)
(* rate limit; a message of __system__ goes on without a look at it.  None *)
(* of this changes anything here.                                          *)
(***************************************************************************)
Receive(t, r, u) ==
  /\ Running
  /\ In(t, {"idle"})
  /\ task' = [task EXCEPT ![t] =
       [pc |-> IF t \in Ingest THEN "isMember" ELSE "get", room |-> r, user |-> u, list |-> {},
        leader |-> t, lost |-> {}, may |-> Known(r)]]
  /\ UNCHANGED <<room, inbox, link, cache, main, stale, trespass>>

\* A look into the cache: a hit makes the room the most recently used.
Hit(t, from, to) ==
  LET r == task[t].room IN
  /\ Running
  /\ In(t, {from})
  /\ r \in index
  /\ Touch(r)
  /\ task' = [task EXCEPT ![t].pc = to, ![t].list = entry[r],
                          ![t].lost = IF to = "done" THEN Users(stale, r) ELSE {},
                          ![t].may = @ \cup Users(stale, r)]
  /\ UNCHANGED <<room, inbox, link, main, stale, trespass>>

Miss(t, from, to) ==
  /\ Running
  /\ In(t, {from})
  /\ task[t].room \notin index
  /\ Goto(t, to)
  /\ UNCHANGED <<room, inbox, link, cache, main, stale, trespass>>

\* Faulty: the flights are not kept apart by room.
LeadsAny(t, r) == In(t, {"recheck", "ask", "store", "done", "forget"}) /\ r \in Room

\* singleflight.do: a flight is in its map from the leader's entry until the
\* leader forgets it, and has its answer once the leader is done.
Leads(t, r) == In(t, {"recheck", "ask", "store", "done", "forget"}) /\ task[t].room = r

\* Task t with the answer of l.
Given(t, l) ==
  [task[t] EXCEPT !.pc = "use", !.list = task[l].list, !.leader = t, !.may = @ \cup task[l].lost]

Lead(t) ==
  /\ Running
  /\ In(t, {"enter"})
  /\ ~ \E l \in Task : Leads(l, task[t].room)
  /\ Goto(t, "recheck")
  /\ UNCHANGED <<room, inbox, link, cache, main, stale, trespass>>

Follow(t, l) ==
  /\ Running
  /\ In(t, {"enter"})
  /\ Leads(l, task[t].room)
  /\ task' = [task EXCEPT ![t] =
       IF In(l, {"forget"}) THEN Given(t, l) ELSE [@ EXCEPT !.pc = "wait", !.leader = l]]
  /\ UNCHANGED <<room, inbox, link, cache, main, stale, trespass>>

\* A replica answers from its index, which may be wrong about anybody.
Answered(t, answer) ==
  LET r == task[t].room
      wrong == (answer \ members[r]) \cup (members[r] \ answer)
  IN
  /\ Running
  /\ In(t, {"ask"})
  /\ link # "down"
  /\ task' = [task EXCEPT ![t].pc = "store", ![t].list = answer, ![t].lost = wrong,
                          ![t].may = @ \cup wrong]
  /\ UNCHANGED <<room, inbox, link, cache, main, stale, trespass>>

\* Faulty: what could be read of a broken answer is handed on.
AskFailsGarbled(t) ==
  /\ Running
  /\ In(t, {"ask"})
  /\ task' = [task EXCEPT ![t].pc = "done", ![t].list = {Nobody}]
  /\ UNCHANGED <<room, inbox, link, cache, main, stale, trespass>>

\* Faulty: the leader returns without telling those who wait.
AskFailsSilently(t) ==
  /\ Running
  /\ In(t, {"ask"})
  /\ Goto(t, "use")
  /\ UNCHANGED <<room, inbox, link, cache, main, stale, trespass>>

\* No answer in time, or one that cannot be read.
AskFails(t) ==
  /\ Running
  /\ In(t, {"ask"})
  /\ Goto(t, "done")
  /\ UNCHANGED <<room, inbox, link, cache, main, stale, trespass>>

Store(t) ==
  LET r == task[t].room IN
  /\ Running
  /\ In(t, {"store"})
  /\ Set(r, task[t].list)
  /\ stale' = {p \in stale : p[1] \notin Victims(r) \cup {r}} \cup ({r} \X task[t].lost)
  /\ Goto(t, "done")
  /\ UNCHANGED <<room, inbox, link, main, trespass>>

\* wg.Done: those who wait get the answer.
Done(t) ==
  /\ Running
  /\ In(t, {"done"})
  /\ task' = [u \in Task |->
       IF u = t THEN [task[t] EXCEPT !.pc = "forget"]
       ELSE IF In(u, {"wait"}) /\ task[u].leader = t
         THEN Given(u, t)
       ELSE task[u]]
  /\ UNCHANGED <<room, inbox, link, cache, main, stale, trespass>>

Forget(t) ==
  /\ Running
  /\ In(t, {"forget"})
  /\ task' = [task EXCEPT ![t].pc = "use", ![t].lost = {}]
  /\ UNCHANGED <<room, inbox, link, cache, main, stale, trespass>>

End(t) == task' = [task EXCEPT ![t] = Idle]

\* History: t acts for users.
ActFor(t, users) ==
  trespass' = trespass \cup (({task[t].room} \X (users \ task[t].may)) \ crossed)

\* The message goes to the chat stream, or is rejected.
Decide(t) ==
  /\ Running
  /\ t \in Ingest
  /\ In(t, {"use"})
  /\ ActFor(t, {task[t].user} \cap task[t].list)
  /\ End(t)
  /\ UNCHANGED <<room, inbox, link, cache, main, stale>>

\* The process and its memory are gone.
Ends(how) ==
  /\ main' = how
  /\ link' = "down"
  /\ inbox' = <<>>
  /\ index' = {}
  /\ list' = <<>>
  /\ entry' = [r \in Room |-> {}]
  /\ task' = [t \in Task |-> Idle]
  /\ stale' = {}

\* enqueueFanout.  Whether a full channel drops the job or a worker publishes it
\* changes nothing here.
Enqueue(t) ==
  /\ Running
  /\ t \in Sender
  /\ In(t, {"use"})
  /\ main = "run" \/ task[t].list = {}
  /\ ActFor(t, task[t].list)
  /\ End(t)
  /\ UNCHANGED <<room, inbox, link, cache, main, stale>>

\* A send on a closed channel panics.
EnqueueClosed(t) ==
  /\ main = "closed"
  /\ t \in Sender
  /\ In(t, {"use"})
  /\ task[t].list # {}
  /\ Ends("panic")
  /\ UNCHANGED <<room, trespass>>

\* nc.Drain starts the draining and returns; the channel is closed at once.
Close ==
  /\ main = "run"
  /\ main' = "closed"
  /\ UNCHANGED <<room, inbox, link, cache, task, stale, trespass>>

\* The workers have emptied the channel and the process ends.
Exit ==
  /\ main = "closed"
  /\ Ends("exit")
  /\ UNCHANGED <<room, trespass>>

(***************************************************************************)
(* Specification.                                                          *)
(***************************************************************************)
Init ==
  /\ members \in [Room -> SUBSET User]
  /\ due = {}
  /\ crossed = {}
  /\ inbox = <<>>
  /\ link = "up"
  /\ index = {}
  /\ list = <<>>
  /\ entry = [r \in Room |-> {}]
  /\ task = [t \in Task |-> Idle]
  /\ main = "run"
  /\ stale = {}
  /\ trespass = {}

Arrive ==
  \/ \E t \in Ingest, r \in Room, u \in User : Receive(t, r, u)
  \/ \E t \in Sender, r \in Room : Receive(t, r, Nobody)

Flight(t) ==
  \/ Lead(t) \/ \E l \in Task : Follow(t, l)
  \/ Hit(t, "recheck", "done") \/ Miss(t, "recheck", "ask")
  \/ \E answer \in SUBSET User : Answered(t, answer)
  \/ AskFails(t) \/ Store(t) \/ Done(t) \/ Forget(t)

Handle(t) ==
  \/ Hit(t, "isMember", "use") \/ Miss(t, "isMember", "get")
  \/ Hit(t, "get", "use") \/ Miss(t, "get", "enter")
  \/ Flight(t)
  \/ Decide(t) \/ Enqueue(t) \/ EnqueueClosed(t)

Environment ==
  \/ \E r \in Room, u \in User, action \in {"join", "leave"} : Change(r, u, action)
  \/ \E delta \in due : Publish(delta) \/ NeverPublished(delta)
  \/ Disconnect

Next ==
  \/ Arrive
  \/ \E t \in Task : Handle(t)
  \/ Environment
  \/ Deliver \/ Reconnect \/ Reset
  \/ Close \/ Exit

Spec == Init /\ [][Next]_vars

(***************************************************************************)
(* Properties.                                                             *)
(***************************************************************************)
TypeOK ==
  /\ members \in [Room -> SUBSET User]
  /\ due \in SUBSET Delta
  /\ crossed \in SUBSET Pair
  /\ inbox \in Seq(Delta)
  /\ link \in {"up", "down", "reset"}
  /\ index \in SUBSET Room
  /\ list \in Seq(Room)
  /\ entry \in [Room -> SUBSET User]
  /\ task \in [Task -> Handler \cup {Idle}]
  /\ main \in {"run", "closed", "exit", "panic"}
  /\ stale \in SUBSET Pair
  /\ trespass \in SUBSET Pair

Pending(p) == p \in Pairs(due) \cup Pairs(Queued)

\* A cached room names exactly the members in room-service's bucket, but for those
\* a delta that is still to come is about, those whose changes overlapped or lost
\* their delta, and those of whom the answer of a lagging replica or a delta that
\* came before the answer was stored left the entry wrong: filled by requests,
\* changed by deltas, evicted and reset at any moment, the cache is never wrong in
\* another way.
CacheFollowsRoomService ==
  \A r \in index, u \in User :
    (<<r, u>> \notin stale \cup crossed /\ ~Pending(<<r, u>>)) => (u \in entry[r] <=> u \in members[r])

\* The two structures of the LRU cache name the same rooms, each once, and no
\* more than its capacity, whatever sequence of hits, fills, deltas and resets.
IndexMatchesList ==
  /\ index = {list[i] : i \in 1..Len(list)}
  /\ Len(list) = Cardinality(index)
  /\ Len(list) <= Cap

\* Nobody is let into a room, or sent its messages, who was not a member at some
\* moment since the handler began, unless a delta about the user was on its way
\* or had passed the cache by, or room-service itself named him: sharing a flight,
\* evictions, failures and resets open no other way in.
OnlyMembersServed == trespass = {}

\* A handler that waits for another's request waits for one about the same room
\* that is still to be answered, also when it fails: nobody waits for good.  And a
\* room is asked about once at a time.
FlightsHold ==
  /\ \A t \in Task : In(t, {"wait"}) =>
       /\ In(task[t].leader, {"recheck", "ask", "store", "done"})
       /\ task[task[t].leader].room = task[t].room
  /\ \A t, l \in Task, r \in Room : Leads(t, r) /\ Leads(l, r) => t = l

\* "Drain NATS - stops accepting new messages, waits for in-flight callbacks": when
\* the channel is closed no callback sends on it any more.
NoSendAfterClose == main # "panic"
=============================================================================
