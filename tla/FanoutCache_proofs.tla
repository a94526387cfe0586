--------------------------- MODULE FanoutCache_proofs ---------------------------
(***************************************************************************)
(* Proofs about FanoutCache, for any rooms, users, handlers and capacity.  *)
(***************************************************************************)
EXTENDS FanoutCache, TLAPS, FiniteSetTheorems

Active(t) == ~In(t, {"idle"})

\* The types of all but the list of the LRU cache.
Typed ==
  /\ members \in [Room -> SUBSET User]
  /\ due \in SUBSET Delta
  /\ crossed \in SUBSET Pair
  /\ inbox \in Seq(Delta)
  /\ link \in {"up", "down", "reset"}
  /\ index \in SUBSET Room
  /\ entry \in [Room -> SUBSET User]
  /\ task \in [Task -> Handler \cup {Idle}]
  /\ main \in {"run", "closed", "exit", "panic"}
  /\ stale \in SUBSET Pair
  /\ trespass \in SUBSET Pair

\* What is queued: nothing without a connection.  A delta that is due says what the
\* bucket has, unless it crossed another, and so does the last one queued about a
\* pair of which none is due.
InboxEmpty == link = "down" => inbox = <<>>

Says(delta) == delta.action = "join" <=> delta.pair[2] \in members[delta.pair[1]]

DueRight == \A delta \in due : delta.pair \notin crossed => Says(delta)

LastRight ==
  \A i \in 1..Len(inbox) :
    (/\ inbox[i].pair \notin crossed \cup Pairs(due)
     /\ \A j \in 1..Len(inbox) : j > i => inbox[j].pair # inbox[i].pair) => Says(inbox[i])

\* An answer about to be stored is right but about those who are lost, and those a
\* delta is still to come about.
Open == crossed \cup Pairs(due) \cup Pairs(Queued)

StoreRight ==
  \A t \in Task, u \in User :
    (In(t, {"store"}) /\ u \notin task[t].lost /\ <<task[t].room, u>> \notin Open)
    => (u \in task[t].list <=> u \in members[task[t].room])

EntryRight ==
  \A r \in index, u \in User :
    <<r, u>> \notin stale \cup Open => (u \in entry[r] <=> u \in members[r])

CInv == InboxEmpty /\ DueRight /\ LastRight /\ StoreRight /\ EntryRight

-------------------------------------------------------------------------------
\* The fields of a handler at work.
LEMMA Fields ==
  ASSUME Typed, NEW t \in Task, Active(t)
  PROVE  /\ task[t] \in Handler
         /\ task[t].pc \in Pc
         /\ task[t].room \in Room
         /\ task[t].user \in User \cup {Nobody}
         /\ task[t].list \in SUBSET User
         /\ task[t].leader \in Task
         /\ task[t].lost \in SUBSET User
         /\ task[t].may \in SUBSET User
<1>1. task[t] \in Handler
  BY DEF Typed, Active, In, Idle
<1> QED BY <1>1 DEF Handler

\* A handler at work is told apart from an idle one by its step.
LEMMA HandlerActive ==
  ASSUME NEW h \in Handler
  PROVE  h.pc # "idle" /\ h # Idle
BY DEF Handler, Pc, Idle

\* What a step outside the handlers keeps of the record h of handler t.
Alike(t, h) ==
  /\ h \in Handler \cup {Idle}
  /\ h.pc = task[t].pc
  /\ Active(t) => /\ h \in Handler
                  /\ h.room = task[t].room /\ h.list = task[t].list /\ h.leader = task[t].leader
                  /\ task[t].may \subseteq h.may /\ h.lost \subseteq User

\* A delta makes an answer that says otherwise out of date, one that agrees right.
LEMMA PassedIs ==
  ASSUME Typed, NEW t \in Task, NEW delta \in Delta
  PROVE  /\ Alike(t, Passed(t, delta))
         /\ Active(t) => Passed(t, delta).may = task[t].may
         /\ \A u \in User : Active(t) /\ <<task[t].room, u>> # delta.pair =>
              (u \in Passed(t, delta).lost <=> u \in task[t].lost)
         /\ \A u \in User : HoldsAnswer(t) /\ <<task[t].room, u>> = delta.pair =>
              (u \in Passed(t, delta).lost <=> ~(delta.action = "join" <=> u \in task[t].list))
<1> DEFINE v == delta.pair[2]
           agrees == (delta.action = "join") = (v \in task[t].list)
           lost == IF agrees THEN task[t].lost \ {v} ELSE task[t].lost \cup {v}
           h == [task[t] EXCEPT !.lost = lost]
<1>1. delta.pair = <<delta.pair[1], v>> /\ v \in User
  BY DEF Delta, Pair
<1>2. CASE ~HoldsAnswer(t) \/ task[t].room # delta.pair[1]
  <2>1. Passed(t, delta) = task[t]
    BY <1>2 DEF Passed
  <2>2. task[t] \in Handler \cup {Idle} /\ (Active(t) => task[t] \in Handler /\ task[t].lost \subseteq User)
    BY Fields DEF Typed
  <2>3. \A u \in User : HoldsAnswer(t) => <<task[t].room, u>> # delta.pair
    BY <1>1, <1>2
  <2> QED BY <2>1, <2>2, <2>3 DEF Alike
<1>3. CASE HoldsAnswer(t) /\ task[t].room = delta.pair[1]
  <2>1. Active(t) /\ task[t] \in Handler /\ task[t].lost \subseteq User
    <3>1. Active(t)
      BY <1>3 DEF HoldsAnswer, In, Active
    <3> QED BY <3>1, Fields
  <2>2. Passed(t, delta) = h
    BY <1>3, <2>1 DEF Passed, Handler
  <2>3. lost \subseteq User
    BY <1>1, <2>1
  <2>4. /\ h \in Handler /\ h.pc = task[t].pc /\ h.room = task[t].room /\ h.list = task[t].list
        /\ h.leader = task[t].leader /\ h.may = task[t].may /\ h.lost = lost
    BY <2>1, <2>3 DEF Handler
  <2>5. \A u \in User : <<task[t].room, u>> # delta.pair => (u \in lost <=> u \in task[t].lost)
    BY <1>1, <1>3
  <2>6. \A u \in User : <<task[t].room, u>> = delta.pair =>
          (u \in lost <=> ~(delta.action = "join" <=> u \in task[t].list))
    BY <1>1
  <2> HIDE DEF h, lost
  <2> QED BY <2>1, <2>2, <2>3, <2>4, <2>5, <2>6 DEF Alike
<1> QED BY <1>2, <1>3

\* Deltas lost make an answer out of date about those they were about.
LEMMA DeprivedIs ==
  ASSUME Typed, NEW t \in Task, NEW gone
  PROVE  /\ Alike(t, Deprived(t, gone))
         /\ Active(t) => /\ Deprived(t, gone).may = task[t].may
                         /\ task[t].lost \subseteq Deprived(t, gone).lost
         /\ HoldsAnswer(t) => Users(gone, task[t].room) \subseteq Deprived(t, gone).lost
<1>1. CASE ~HoldsAnswer(t)
  <2>1. Deprived(t, gone) = task[t]
    BY <1>1 DEF Deprived
  <2>2. task[t] \in Handler \cup {Idle} /\ (Active(t) => task[t] \in Handler /\ task[t].lost \subseteq User)
    BY Fields DEF Typed
  <2> QED BY <1>1, <2>1, <2>2 DEF Alike
<1>2. CASE HoldsAnswer(t)
  <2> DEFINE lost == task[t].lost \cup Users(gone, task[t].room)
             h == [task[t] EXCEPT !.lost = lost]
  <2>1. Active(t) /\ task[t] \in Handler /\ task[t].lost \subseteq User
    <3>1. Active(t)
      BY <1>2 DEF HoldsAnswer, In, Active
    <3> QED BY <3>1, Fields
  <2>2. Deprived(t, gone) = h
    BY <1>2, <2>1 DEF Deprived, Handler
  <2>3. lost \subseteq User
    BY <2>1 DEF Users
  <2>4. /\ h \in Handler /\ h.pc = task[t].pc /\ h.room = task[t].room /\ h.list = task[t].list
        /\ h.leader = task[t].leader /\ h.may = task[t].may /\ h.lost = lost
    BY <2>1, <2>3 DEF Handler
  <2> QED BY <2>1, <2>2, <2>3, <2>4 DEF Alike
<1> QED BY <1>1, <1>2

\* A handler at work may act for who became a member.
LEMMA JoinedIs ==
  ASSUME Typed, NEW t \in Task, NEW p
  PROVE  /\ Alike(t, Joined(t, p))
         /\ Active(t) => /\ Joined(t, p).lost = task[t].lost
                         /\ Users({p}, task[t].room) \subseteq Joined(t, p).may
<1>1. CASE ~Active(t)
  <2>1. task[t].pc = "idle" /\ Joined(t, p) = Idle
    BY <1>1 DEF Active, In, Joined
  <2> QED BY <1>1, <2>1 DEF Alike, Idle
<1>2. CASE Active(t)
  <2> DEFINE may == task[t].may \cup Users({p}, task[t].room)
             h == [task[t] EXCEPT !.may = may]
  <2>1. task[t] \in Handler /\ task[t].may \subseteq User /\ task[t].lost \subseteq User
    BY <1>2, Fields
  <2>2. Joined(t, p) = h
    BY <1>2, <2>1 DEF Active, Joined, Handler
  <2>3. may \subseteq User
    BY <2>1 DEF Users
  <2>4. /\ h \in Handler /\ h.pc = task[t].pc /\ h.room = task[t].room /\ h.list = task[t].list
        /\ h.leader = task[t].leader /\ h.may = may /\ h.lost = task[t].lost
    BY <2>1, <2>3 DEF Handler
  <2> QED BY <1>2, <2>1, <2>2, <2>4 DEF Alike
<1> QED BY <1>1, <1>2

\* What the steps of handler t make of its record; the others keep theirs.
OnlyTask(t) == \A x \in Task : x # t => task'[x] = task[x]

\* A step that writes one handler's record leaves the others.
LEMMA Put ==
  ASSUME Typed, NEW t \in Task, NEW h \in Handler \cup {Idle}, task' = [task EXCEPT ![t] = h]
  PROVE  task' \in [Task -> Handler \cup {Idle}] /\ task'[t] = h /\ OnlyTask(t)
BY DEF Typed, OnlyTask

\* A step that only moves on.
LEMMA GotoFields ==
  ASSUME Typed, NEW t \in Task, Active(t), NEW pc \in Pc, Goto(t, pc)
  PROVE  /\ task' \in [Task -> Handler \cup {Idle}]
         /\ OnlyTask(t)
         /\ task'[t] \in Handler
         /\ task'[t] = [task[t] EXCEPT !.pc = pc]
         /\ task'[t].pc = pc
<1> DEFINE h == [task[t] EXCEPT !.pc = pc]
<1>1. h \in Handler /\ h.pc = pc
  BY Fields DEF Handler
<1>2. task' = [task EXCEPT ![t] = h]
  BY DEF Goto
<1> QED BY <1>1, <1>2, Put

\* A handler begins with its room, no answer, and whom it may act for.
LEMMA ReceiveFields ==
  ASSUME Typed, NEW t \in Task, NEW r \in Room, NEW u \in User \cup {Nobody}, Receive(t, r, u)
  PROVE  /\ task' \in [Task -> Handler \cup {Idle}]
         /\ OnlyTask(t)
         /\ task'[t] \in Handler
         /\ task'[t].pc \in {"isMember", "get"}
         /\ task'[t].room = r /\ task'[t].list = {}
         /\ task'[t].lost = {} /\ task'[t].may = Known(r)
<1> DEFINE h == [pc |-> IF t \in Ingest THEN "isMember" ELSE "get", room |-> r, user |-> u,
                 list |-> {}, leader |-> t, lost |-> {}, may |-> Known(r)]
<1>1. Known(r) \subseteq User
  BY DEF Known, Leaving, Users, Typed
<1>2. h \in Handler /\ h.pc \in {"isMember", "get"}
  BY <1>1 DEF Handler, Pc
<1>3. task' = [task EXCEPT ![t] = h]
  BY DEF Receive
<1> QED BY <1>2, <1>3, Put

\* A hit gives the handler the entry, and with it whom a delta passed the entry by.
LEMMA HitFields ==
  ASSUME Typed, NEW t \in Task, NEW from \in Pc, NEW to \in Pc, Hit(t, from, to)
  PROVE  /\ task' \in [Task -> Handler \cup {Idle}]
         /\ OnlyTask(t)
         /\ Active(t) /\ task[t].pc = from /\ task[t].room \in index
         /\ task'[t] \in Handler
         /\ task'[t].pc = to
         /\ task'[t].room = task[t].room
         /\ task'[t].list = entry[task[t].room]
         /\ task'[t].lost = IF to = "done" THEN Users(stale, task[t].room) ELSE {}
         /\ task'[t].may = task[t].may \cup Users(stale, task[t].room)
<1> DEFINE lost == IF to = "done" THEN Users(stale, task[t].room) ELSE {}
           h == [task[t] EXCEPT !.pc = to, !.list = entry[task[t].room], !.lost = lost,
                                !.may = task[t].may \cup Users(stale, task[t].room)]
<1>1. Active(t)
  BY DEF Hit, Active, In, Pc
<1>2. Users(stale, task[t].room) \subseteq User /\ entry[task[t].room] \subseteq User
  BY <1>1, Fields DEF Users, Typed
<1>3. h \in Handler
  BY <1>1, <1>2, Fields DEF Handler
<1>4. task' = [task EXCEPT ![t] = h]
  BY DEF Hit
<1>5. task' \in [Task -> Handler \cup {Idle}] /\ task'[t] = h /\ OnlyTask(t)
  BY <1>3, <1>4, Put
<1>6. task[t] \in Handler
  BY <1>1, Fields
<1>7. /\ h.pc = to /\ h.room = task[t].room
      /\ h.list = entry[task[t].room] /\ h.lost = lost
      /\ h.may = task[t].may \cup Users(stale, task[t].room)
  BY <1>6 DEF Handler
<1> QED BY <1>1, <1>3, <1>5, <1>7 DEF Hit, In

\* A handler that is given another's answer.
LEMMA GivenFields ==
  ASSUME Typed, NEW t \in Task, NEW l \in Task, Active(t), Active(l)
  PROVE  /\ Given(t, l) \in Handler
         /\ Given(t, l).pc = "use"
         /\ Given(t, l).room = task[t].room
         /\ Given(t, l).list = task[l].list
         /\ Given(t, l).lost = task[t].lost
         /\ Given(t, l).may = task[t].may \cup task[l].lost
<1>1. task[t] \in Handler /\ task[l].list \subseteq User /\ task[l].lost \subseteq User
  BY Fields
<1>2. task[t].may \cup task[l].lost \subseteq User
  BY <1>1 DEF Handler
<1> QED BY <1>1, <1>2 DEF Given, Handler, Pc

\* A handler that finds a flight takes its answer or waits for it.
LEMMA FollowFields ==
  ASSUME Typed, NEW t \in Task, NEW l \in Task, Follow(t, l)
  PROVE  /\ task' \in [Task -> Handler \cup {Idle}]
         /\ OnlyTask(t)
         /\ Active(t) /\ Active(l) /\ task[l].room = task[t].room /\ l # t
         /\ task[t].pc = "enter"
         /\ task'[t] \in Handler
         /\ task'[t].room = task[t].room /\ task'[t].lost = task[t].lost
         /\ \/ /\ task[l].pc = "forget"
               /\ task'[t].pc = "use" /\ task'[t].list = task[l].list
               /\ task'[t].may = task[t].may \cup task[l].lost
            \/ /\ task'[t].pc = "wait" /\ task'[t].list = task[t].list
               /\ task'[t].may = task[t].may
               /\ task'[t].leader = l /\ task[l].pc \in {"recheck", "ask", "store", "done"}
<1>1. /\ Active(t) /\ Active(l) /\ task[l].room = task[t].room /\ l # t /\ task[t].pc = "enter"
      /\ task[l].pc \in {"recheck", "ask", "store", "done", "forget"}
  BY DEF Follow, Leads, In, Active
<1> DEFINE w == [task[t] EXCEPT !.pc = "wait", !.leader = l]
<1>2. w \in Handler /\ w.room = task[t].room /\ w.lost = task[t].lost
      /\ w.pc = "wait" /\ w.list = task[t].list /\ w.may = task[t].may /\ w.leader = l
  BY <1>1, Fields DEF Handler, Pc
<1>3. CASE In(l, {"forget"})
  <2>1. task' = [task EXCEPT ![t] = Given(t, l)]
    BY <1>3 DEF Follow
  <2> QED BY <1>1, <1>3, <2>1, GivenFields, Put, ZenonT(60) DEF In
<1>4. CASE ~In(l, {"forget"})
  <2>1. task' = [task EXCEPT ![t] = w]
    BY <1>4 DEF Follow
  <2> QED BY <1>1, <1>2, <1>4, <2>1, Put DEF In
<1> QED BY <1>3, <1>4

\* The answer of a replica, and about whom it is wrong.
Wrong(t, answer) ==
  (answer \ members[task[t].room]) \cup (members[task[t].room] \ answer)

LEMMA AnsweredFields ==
  ASSUME Typed, NEW t \in Task, NEW answer \in SUBSET User, Answered(t, answer)
  PROVE  /\ task' \in [Task -> Handler \cup {Idle}]
         /\ OnlyTask(t)
         /\ Active(t) /\ task[t].pc = "ask"
         /\ task'[t] \in Handler
         /\ task'[t].pc = "store"
         /\ task'[t].room = task[t].room
         /\ task'[t].list = answer
         /\ task'[t].lost = Wrong(t, answer)
         /\ task'[t].may = task[t].may \cup Wrong(t, answer)
<1> DEFINE wrong == Wrong(t, answer)
           h == [task[t] EXCEPT !.pc = "store", !.list = answer, !.lost = wrong,
                                !.may = task[t].may \cup wrong]
<1>1. Active(t) /\ task[t].pc = "ask"
  BY DEF Answered, Active, In
<1>2. task[t] \in Handler /\ members[task[t].room] \subseteq User /\ task[t].may \subseteq User
  BY <1>1, Fields DEF Typed
<1>3. wrong \subseteq User
  BY <1>2 DEF Wrong
<1>4. task' = [task EXCEPT ![t] = h]
  BY DEF Answered, Wrong
<1> HIDE DEF wrong
<1>5. h \in Handler /\ h.pc = "store" /\ h.room = task[t].room /\ h.list = answer
      /\ h.lost = wrong /\ h.may = task[t].may \cup wrong
  BY <1>2, <1>3 DEF Handler, Pc
<1> HIDE DEF h
<1> QED BY <1>1, <1>4, <1>5, Put DEF wrong

\* Those who wait for the flight get its answer; all the others stay.
LEMMA DoneFields ==
  ASSUME Typed, NEW t \in Task, Done(t)
  PROVE  /\ task' \in [Task -> Handler \cup {Idle}]
         /\ Active(t) /\ task[t].pc = "done"
         /\ task'[t] \in Handler /\ task'[t] = [task[t] EXCEPT !.pc = "forget"]
         /\ \A x \in Task : x # t =>
              \/ task'[x] = task[x]
              \/ /\ task[x].pc = "wait" /\ task[x].leader = t /\ Active(x)
                 /\ task'[x] = Given(x, t) /\ Given(x, t) \in Handler
<1>1. Active(t) /\ task[t].pc = "done"
  BY DEF Done, Active, In
<1>2. [task[t] EXCEPT !.pc = "forget"] \in Handler
  BY <1>1, Fields DEF Handler, Pc
<1>3. \A x \in Task : In(x, {"wait"}) => Active(x) /\ Given(x, t) \in Handler
  BY <1>1, GivenFields DEF Active, In
<1>4. \A x \in Task : task[x] \in Handler \cup {Idle}
  BY DEF Typed
<1> QED BY <1>1, <1>2, <1>3, <1>4 DEF Done, In

\* The leader goes on with its own answer.
LEMMA ForgetFields ==
  ASSUME Typed, NEW t \in Task, Forget(t)
  PROVE  /\ task' \in [Task -> Handler \cup {Idle}]
         /\ OnlyTask(t)
         /\ Active(t) /\ task[t].pc = "forget"
         /\ task'[t] \in Handler
         /\ task'[t].pc = "use"
         /\ task'[t].room = task[t].room /\ task'[t].list = task[t].list
         /\ task'[t].may = task[t].may
<1> DEFINE h == [task[t] EXCEPT !.pc = "use", !.lost = {}]
<1>1. Active(t) /\ task[t].pc = "forget"
  BY DEF Forget, Active, In
<1>2. h \in Handler /\ h.pc = "use" /\ h.room = task[t].room
      /\ h.list = task[t].list /\ h.may = task[t].may
  <2>1. task[t] \in Handler
    BY <1>1, Fields
  <2> QED BY <2>1 DEF Handler, Pc
<1>3. task' = [task EXCEPT ![t] = h]
  BY DEF Forget, Typed
<1> QED BY <1>1, <1>2, <1>3, Put

-------------------------------------------------------------------------------
\* Which handler steps leave what alone: only Hit and Store touch the cache, only
\* those that end touch trespass, and none what is outside the process.
LEMMA HandleFrame ==
  ASSUME NEW t \in Task, Handle(t), ~EnqueueClosed(t)
  PROVE  /\ UNCHANGED <<members, due, crossed, inbox, link, main>>
         /\ ~Store(t) => UNCHANGED <<index, entry, stale>>
         /\ ~Decide(t) /\ ~Enqueue(t) => UNCHANGED trespass
<1>1. ASSUME NEW from, NEW to, Hit(t, from, to) \/ Miss(t, from, to)
      PROVE  UNCHANGED <<members, due, crossed, inbox, link, main, index, entry, stale, trespass>>
  BY <1>1 DEF Hit, Miss, Touch, cache, room
<1>2. CASE \/ Lead(t) \/ (\E l \in Task : Follow(t, l)) \/ (\E answer \in SUBSET User : Answered(t, answer))
           \/ AskFails(t) \/ Done(t) \/ Forget(t)
  <2>1. UNCHANGED <<room, inbox, link, cache, main, stale, trespass>>
    BY <1>2, ZenonT(60) DEF Lead, Follow, Answered, AskFails, Done, Forget
  <2> QED BY <2>1 DEF cache, room
<1>3. CASE Store(t)
  BY <1>3 DEF Store, room
<1>4. CASE Decide(t) \/ Enqueue(t)
  BY <1>4 DEF Decide, Enqueue, cache, room
<1> QED BY <1>1, <1>2, <1>3, <1>4, ZenonT(60) DEF Handle, Flight

\* Storing an answer keeps the types of the cache and of the history.
LEMMA StoreTypes ==
  ASSUME Typed, NEW t \in Task, Store(t)
  PROVE  /\ index' \in SUBSET Room
         /\ entry' \in [Room -> SUBSET User]
         /\ stale' \in SUBSET Pair
<1>1. Active(t)
  BY DEF Store, In, Active
<1>2. task[t].room \in Room /\ task[t].list \subseteq User /\ task[t].lost \subseteq User
  BY <1>1, Fields
<1>3. index' \in SUBSET Room
  BY <1>2 DEF Store, Set, Typed
<1>4. entry' \in [Room -> SUBSET User]
  BY <1>2 DEF Store, Set, Typed
<1>5. stale' \in SUBSET Pair
  BY <1>2 DEF Store, Typed, Pair
<1> QED BY <1>3, <1>4, <1>5

\* The task of a handler that ends.
LEMMA EndFields ==
  ASSUME Typed, NEW t \in Task, End(t)
  PROVE  task' \in [Task -> Handler \cup {Idle}] /\ task'[t] = Idle /\ OnlyTask(t)
BY Put DEF End

\* What a handler's step does to the tasks, whatever the step is.
LEMMA HandleTypes ==
  ASSUME Typed, NEW t \in Task, Handle(t), ~EnqueueClosed(t)
  PROVE  task' \in [Task -> Handler \cup {Idle}]
<1>1. ASSUME NEW from \in Pc, NEW to \in Pc, Miss(t, from, to)
      PROVE  task' \in [Task -> Handler \cup {Idle}]
  BY <1>1, GotoFields DEF Miss, Active, In, Pc
<1>2. ASSUME NEW from \in Pc, NEW to \in Pc, Hit(t, from, to)
      PROVE  task' \in [Task -> Handler \cup {Idle}]
  BY <1>2, HitFields
<1>3. CASE Lead(t) \/ AskFails(t) \/ Store(t)
  <2>1. Active(t) /\ \E pc \in Pc : Goto(t, pc)
    BY <1>3 DEF Lead, AskFails, Store, Active, In, Pc
  <2> QED BY <2>1, GotoFields
<1>4. CASE \E l \in Task : Follow(t, l)
  BY <1>4, FollowFields
<1>5. CASE (\E answer \in SUBSET User : Answered(t, answer)) \/ Done(t) \/ Forget(t)
  BY <1>5, AnsweredFields, DoneFields, ForgetFields
<1>6. CASE Decide(t) \/ Enqueue(t)
  BY <1>6, EndFields DEF Decide, Enqueue
<1> QED BY <1>1, <1>2, <1>3, <1>4, <1>5, <1>6 DEF Handle, Flight, Pc

\* A delta applied keeps the types of the cache.
LEMMA ApplyTypes ==
  ASSUME Typed, NEW action, NEW r \in Room, NEW u \in User, ApplyDelta(action, r, u)
  PROVE  index' \in SUBSET Room /\ entry' \in [Room -> SUBSET User]
BY DEF ApplyDelta, Typed, cache

\* The deltas due and queued, and the parts of one.
LEMMA DeltaParts ==
  ASSUME NEW delta \in Delta
  PROVE  /\ delta.pair = <<delta.pair[1], delta.pair[2]>>
         /\ delta.pair[1] \in Room /\ delta.pair[2] \in User /\ delta.pair \in Pair
         /\ delta.action \in {"join", "leave"}
         /\ delta = [action |-> delta.action, pair |-> delta.pair]
BY DEF Delta, Pair

LEMMA QueuedTypes ==
  ASSUME Typed
  PROVE  /\ Len(inbox) \in Nat
         /\ \A i \in 1..Len(inbox) : inbox[i] \in Delta
         /\ Queued \in SUBSET Delta
         /\ Pairs(Queued) \in SUBSET Pair
<1>1. Len(inbox) \in Nat /\ \A i \in 1..Len(inbox) : inbox[i] \in Delta
  BY DEF Typed
<1>2. Queued \in SUBSET Delta
  BY <1>1 DEF Queued
<1> QED BY <1>1, <1>2, DeltaParts DEF Pairs

\* The queue without its head.
LEMMA TailFields ==
  ASSUME Typed, Deliver
  PROVE  /\ Len(inbox) \in Nat /\ Len(inbox) > 0 /\ 1 \in 1..Len(inbox)
         /\ inbox' \in Seq(Delta)
         /\ Len(inbox') = Len(inbox) - 1
         /\ inbox[1] = Head(inbox)
         /\ inbox[1] \in Delta
         /\ \A i \in 1..Len(inbox') : i + 1 \in 1..Len(inbox) /\ inbox'[i] = inbox[i + 1]
         /\ \A i \in 1..Len(inbox) : i # 1 => i - 1 \in 1..Len(inbox') /\ inbox'[i - 1] = inbox[i]
BY DEF Deliver, Typed

\* Steps outside the handlers change no record but for whom it may act for, and
\* about whom its answer is out of date.
LEMMA AllAlike ==
  ASSUME Typed, Environment \/ Deliver, NEW t \in Task
  PROVE  Alike(t, task'[t])
<1>1. Alike(t, task[t])
  <2>1. task[t] \in Handler \cup {Idle} /\ (Active(t) => task[t] \in Handler /\ task[t].lost \subseteq User)
    BY Fields DEF Typed
  <2> QED BY <2>1 DEF Alike
<1>2. ASSUME NEW r \in Room, NEW u \in User, NEW action \in {"join", "leave"}, Change(r, u, action)
      PROVE  Alike(t, task'[t])
  <2>1. task'[t] = task[t] \/ task'[t] = Joined(t, <<r, u>>)
    BY <1>2 DEF Change
  <2> QED BY <1>1, <2>1, JoinedIs
<1>3. ASSUME NEW delta \in due, Publish(delta) \/ NeverPublished(delta)
      PROVE  Alike(t, task'[t])
  <2>1. task'[t] = task[t] \/ \E gone : task'[t] = Deprived(t, gone)
    BY <1>3 DEF Publish, NeverPublished
  <2> QED BY <1>1, <2>1, DeprivedIs
<1>4. CASE Disconnect
  <2>1. task'[t] = Deprived(t, Pairs(Queued))
    BY <1>4 DEF Disconnect
  <2> QED BY <2>1, DeprivedIs
<1>5. CASE Deliver
  <2>1. task'[t] = Passed(t, inbox[1])
    BY <1>5, TailFields DEF Deliver
  <2> QED BY <1>5, <2>1, PassedIs, TailFields
<1> QED BY <1>2, <1>3, <1>4, <1>5 DEF Environment

\* So they keep the types of the records.
LEMMA AllAlikeTypes ==
  ASSUME Typed, Environment \/ Deliver
  PROVE  task' \in [Task -> Handler \cup {Idle}]
<1>1. \A t \in Task : task'[t] \in Handler \cup {Idle}
  BY AllAlike DEF Alike
<1>2. \E f : task' = [t \in Task |-> f[t]]
  <2>1. task = [t \in Task |-> task[t]]
    BY DEF Typed
  <2>2. \/ task' = task
        \/ \E p : task' = [t \in Task |-> Joined(t, p)]
        \/ \E gone : task' = [t \in Task |-> Deprived(t, gone)]
        \/ task' = [t \in Task |-> Passed(t, Head(inbox))]
    BY DEF Environment, Change, Publish, NeverPublished, Disconnect, Deliver
  <2>3. task' = [t \in Task |-> task'[t]]
    BY <2>1, <2>2
  <2> QED BY <2>3
<1> QED BY <1>1, <1>2

\* All but the list keeps its type.
LEMMA TypedInvariant == Spec => []Typed
<1>1. Init => Typed
  <2> SUFFICES ASSUME Init
               PROVE  Typed
    OBVIOUS
  <2>1. inbox \in Seq(Delta)
    BY DEF Init
  <2>2. task \in [Task -> Handler \cup {Idle}]
    BY DEF Init
  <2> QED BY <2>1, <2>2 DEF Init, Typed
<1>2. Typed /\ [Next]_vars => Typed'
  <2> SUFFICES ASSUME Typed, [Next]_vars
               PROVE  Typed'
    OBVIOUS
  <2>1. ASSUME NEW t \in Task, NEW r \in Room, NEW u \in User \cup {Nobody}, Receive(t, r, u)
        PROVE  Typed'
    <3>1. task' \in [Task -> Handler \cup {Idle}]
      BY <2>1, ReceiveFields
    <3> QED BY <2>1, <3>1 DEF Receive, Typed, cache, room
  <2>2. ASSUME NEW t \in Task, Handle(t), ~EnqueueClosed(t)
        PROVE  Typed'
    <3>1. task' \in [Task -> Handler \cup {Idle}]
      BY <2>2, HandleTypes
    <3>2. index' \in SUBSET Room /\ entry' \in [Room -> SUBSET User] /\ stale' \in SUBSET Pair
      BY <2>2, HandleFrame, StoreTypes DEF Typed
    <3>3. trespass' \in SUBSET Pair
      <4>1. CASE ~Decide(t) /\ ~Enqueue(t)
        BY <2>2, <4>1, HandleFrame DEF Typed
      <4>2. CASE Decide(t) \/ Enqueue(t)
        <5>1. Active(t)
          BY <4>2 DEF Decide, Enqueue, In, Active
        <5> QED BY <4>2, <5>1, Fields DEF Decide, Enqueue, ActFor, Typed, Pair
      <4> QED BY <4>1, <4>2
    <3> QED BY <2>2, <3>1, <3>2, <3>3, HandleFrame DEF Typed
  <2>3. ASSUME Ends("exit") \/ Ends("panic"), UNCHANGED <<room, trespass>>
        PROVE  Typed'
    <3>1. task' \in [Task -> Handler \cup {Idle}]
      BY <2>3 DEF Ends
    <3>2. inbox' = <<>>
      BY <2>3 DEF Ends
    <3>3. inbox' \in Seq(Delta)
      BY <3>2
    <3> QED BY <2>3, <3>1, <3>3 DEF Ends, Typed, room
  <2>4. CASE Environment
    <3>1. task' \in [Task -> Handler \cup {Idle}]
      BY <2>4, AllAlikeTypes
    <3>2. ASSUME NEW r \in Room, NEW u \in User, NEW action \in {"join", "leave"}, Change(r, u, action)
          PROVE  Typed'
      <4>1. [action |-> action, pair |-> <<r, u>>] \in Delta /\ <<r, u>> \in Pair
        BY DEF Delta, Pair
      <4>2. due' \in SUBSET Delta /\ crossed' \in SUBSET Pair
        BY <3>2, <4>1 DEF Change, Typed
      <4>3. members' \in [Room -> SUBSET User]
        BY <3>2 DEF Change, Typed
      <4> QED BY <3>1, <3>2, <4>2, <4>3 DEF Change, Typed, cache
    <3>3. ASSUME NEW delta \in due, Publish(delta)
          PROVE  Typed'
      <4>1. delta \in Delta /\ delta.pair \in Pair
        BY DeltaParts DEF Typed
      <4>2. inbox' \in Seq(Delta)
        BY <3>3, <4>1 DEF Publish, Typed
      <4>3. due' \in SUBSET Delta /\ stale' \in SUBSET Pair
        BY <3>3, <4>1 DEF Publish, Typed
      <4> QED BY <3>1, <3>3, <4>2, <4>3 DEF Publish, Typed, cache
    <3>4. ASSUME NEW delta \in due, NeverPublished(delta)
          PROVE  Typed'
      <4>1. delta.pair \in Pair
        BY DeltaParts DEF Typed
      <4>2. due' \in SUBSET Delta /\ crossed' \in SUBSET Pair
        BY <3>4, <4>1 DEF NeverPublished, Typed
      <4> QED BY <3>1, <3>4, <4>2 DEF NeverPublished, Typed, cache
    <3>5. CASE Disconnect
      <4>1. inbox' \in Seq(Delta)
        BY <3>5 DEF Disconnect
      <4>2. stale' \in SUBSET Pair
        BY <3>5, QueuedTypes DEF Disconnect, Typed
      <4> QED BY <3>1, <3>5, <4>1, <4>2 DEF Disconnect, Typed, cache, room
    <3> QED BY <2>4, <3>2, <3>3, <3>4, <3>5 DEF Environment
  <2>5. CASE Deliver
    <3> DEFINE d == inbox[1]
    <3>1. d = Head(inbox) /\ d \in Delta /\ inbox' \in Seq(Delta)
      BY <2>5, TailFields
    <3>2. d.pair[1] \in Room /\ d.pair[2] \in User
      BY <3>1, DeltaParts
    <3>3. index' \in SUBSET Room /\ entry' \in [Room -> SUBSET User]
      BY <2>5, <3>1, <3>2, ApplyTypes DEF Deliver
    <3>4. task' \in [Task -> Handler \cup {Idle}]
      BY <2>5, AllAlikeTypes
    <3> QED BY <2>5, <3>1, <3>3, <3>4 DEF Deliver, Typed, room
  <2>6. CASE Reconnect
    BY <2>6 DEF Reconnect, Typed, cache, room
  <2>7. CASE Reset
    BY <2>7 DEF Reset, Typed, room
  <2>8. CASE Close
    BY <2>8 DEF Close, Typed, cache, room
  <2>9. CASE UNCHANGED vars
    BY <2>9 DEF vars, Typed, cache, room
  <2>10. CASE Exit \/ \E t \in Task : EnqueueClosed(t)
    BY <2>3, <2>10 DEF Exit, EnqueueClosed
  <2> QED BY <2>1, <2>2, <2>4, <2>5, <2>6, <2>7, <2>8, <2>9, <2>10 DEF Next, Arrive, Task
<1> QED BY <1>1, <1>2, PTL DEF Spec

-------------------------------------------------------------------------------
\* Steps that leave the bucket, the deltas, the queue and the cache alone.
Still == UNCHANGED <<members, due, crossed, inbox, index, entry, stale>>

LEMMA StillOpen ==
  ASSUME Still
  PROVE  Open' = Open
BY DEF Still, Open, Pairs, Queued

\* They keep CInv if they start no answer to be stored.
LEMMA QuietKeeps ==
  ASSUME CInv, Still, link' = "down" => link = "down",
         \A t \in Task : task'[t].pc = "store" => task'[t] = task[t]
  PROVE  CInv'
<1>1. InboxEmpty' /\ DueRight' /\ LastRight'
  BY DEF CInv, Still, InboxEmpty, DueRight, LastRight, Says, Pairs
<1>2. EntryRight'
  BY StillOpen DEF CInv, Still, EntryRight
<1>3. StoreRight'
  BY StillOpen DEF CInv, StoreRight, Still, In
<1> QED BY <1>1, <1>2, <1>3 DEF CInv

\* The steps of a handler but those that store an answer or get one.
LEMMA HandleKeeps ==
  ASSUME Typed, CInv, NEW t \in Task, Handle(t), ~EnqueueClosed(t), ~Store(t),
         ~ \E answer \in SUBSET User : Answered(t, answer)
  PROVE  CInv'
<1> USE DEF OnlyTask
<1>1. Still /\ UNCHANGED link
  BY HandleFrame DEF Still
<1>2. ASSUME OnlyTask(t), task'[t].pc # "store"
      PROVE  CInv'
  BY <1>1, <1>2, QuietKeeps
<1>3. ASSUME NEW pc \in Pc, pc # "store", Active(t), Goto(t, pc)
      PROVE  CInv'
  BY <1>2, <1>3, GotoFields
<1>4. ASSUME NEW from \in Pc, NEW to \in Pc \ {"store"}, Miss(t, from, to)
      PROVE  CInv'
  BY <1>3, <1>4 DEF Miss, Active, In, Pc
<1>5. ASSUME NEW from \in Pc, NEW to \in Pc \ {"store"}, Hit(t, from, to)
      PROVE  CInv'
  BY <1>2, <1>5, HitFields
<1>6. CASE Lead(t) \/ AskFails(t)
  BY <1>3, <1>6 DEF Lead, AskFails, Active, In, Pc
<1>7. CASE \E l \in Task : Follow(t, l)
  BY <1>2, <1>7, FollowFields
<1>8. CASE Done(t)
  <2>1. task'[t].pc = "forget"
    <3>1. task[t] \in Handler /\ task'[t] = [task[t] EXCEPT !.pc = "forget"]
      BY <1>8, DoneFields, Fields
    <3> QED BY <3>1 DEF Handler
  <2>2. \A x \in Task : x # t /\ task'[x] # task[x] => task'[x].pc = "use"
    <3>1. Active(t)
      BY <1>8, DoneFields
    <3>2. ASSUME NEW x \in Task, x # t, task'[x] # task[x]
          PROVE  Active(x) /\ task'[x] = Given(x, t)
      BY <1>8, <3>2, DoneFields
    <3> QED BY <3>1, <3>2, GivenFields
  <2>3. \A x \in Task : task'[x].pc = "store" => task'[x] = task[x]
    BY <2>1, <2>2
  <2> QED BY <1>1, <2>3, QuietKeeps
<1>9. CASE Forget(t)
  BY <1>2, <1>9, ForgetFields
<1>10. CASE Decide(t) \/ Enqueue(t)
  <2>1. OnlyTask(t) /\ task'[t].pc = "idle"
    BY <1>10, EndFields DEF Decide, Enqueue, Idle
  <2> QED BY <1>2, <2>1
<1> QED BY <1>4, <1>5, <1>6, <1>7, <1>8, <1>9, <1>10 DEF Handle, Flight, Pc

\* An answer is right but about those it is known to be wrong about.
LEMMA AnsweredKeeps ==
  ASSUME Typed, CInv, NEW t \in Task, NEW answer \in SUBSET User, Answered(t, answer)
  PROVE  CInv'
<1>1. Still /\ UNCHANGED link
  BY DEF Answered, cache, room, Still
<1>2. /\ task'[t].room = task[t].room
      /\ task'[t].list = answer
      /\ task'[t].lost = Wrong(t, answer)
      /\ OnlyTask(t)
  BY AnsweredFields
<1>3. InboxEmpty' /\ DueRight' /\ LastRight' /\ EntryRight'
  <2>1. InboxEmpty' /\ DueRight' /\ LastRight'
    BY <1>1 DEF CInv, Still, InboxEmpty, DueRight, LastRight, Says, Pairs
  <2>2. EntryRight'
    BY <1>1, StillOpen DEF CInv, Still, EntryRight
  <2> QED BY <2>1, <2>2
<1>4. StoreRight'
  <2> SUFFICES ASSUME NEW x \in Task, NEW u \in User, In(x, {"store"})', u \notin task'[x].lost,
                      <<task'[x].room, u>> \notin Open'
               PROVE  u \in task'[x].list <=> u \in members'[task'[x].room]
    BY DEF StoreRight
  <2>1. CASE x = t
    BY <1>1, <1>2, <2>1 DEF Still, Wrong
  <2>2. CASE x # t
    BY <1>1, <1>2, <2>2, StillOpen DEF CInv, StoreRight, Still, In, OnlyTask
  <2> QED BY <2>1, <2>2
<1> QED BY <1>3, <1>4 DEF CInv

\* The entry stored is right but about whom the answer was not, and what it evicts
\* is cached no more.
LEMMA StoreKeeps ==
  ASSUME Typed, CInv, NEW t \in Task, Store(t)
  PROVE  CInv'
<1> DEFINE r == task[t].room
<1>1. UNCHANGED <<members, due, crossed, inbox, link>>
  BY DEF Store, room
<1>2. Active(t) /\ In(t, {"store"})
  BY DEF Store, Active, In
<1>3. task'[t].pc = "done" /\ OnlyTask(t)
  BY <1>2, GotoFields DEF Store, Pc
<1>4. r \in Room
  BY <1>2, Fields
<1>5. InboxEmpty' /\ DueRight' /\ LastRight'
  BY <1>1 DEF CInv, InboxEmpty, DueRight, LastRight, Says, Pairs
<1>6. Open' = Open
  BY <1>1 DEF Open, Pairs, Queued
<1>7. StoreRight'
  <2>1. \A x \in Task : In(x, {"store"})' => task'[x] = task[x] /\ In(x, {"store"})
    BY <1>3 DEF In, OnlyTask
  <2> QED BY <1>1, <1>6, <2>1 DEF CInv, StoreRight
<1>8. ASSUME NEW x \in index', NEW u \in User, <<x, u>> \notin stale', <<x, u>> \notin Open
      PROVE  u \in entry'[x] <=> u \in members'[x]
  <2>1. x \in Room
    BY <1>8, StoreTypes
  <2>2. CASE x = r
    <3>1. u \notin task[t].lost
      BY <1>8, <2>2 DEF Store
    <3>2. u \in task[t].list <=> u \in members[r]
      BY <1>2, <1>8, <2>2, <3>1 DEF CInv, StoreRight
    <3>3. entry'[x] = task[t].list
      BY <2>1, <2>2 DEF Store, Set
    <3> QED BY <1>1, <2>2, <3>2, <3>3
  <2>3. CASE x # r
    <3>1. x \in index /\ x \notin Victims(r)
      BY <1>8, <2>3 DEF Store, Set
    <3>2. entry'[x] = entry[x]
      BY <2>1, <2>3, <3>1 DEF Store, Set
    <3>3. <<x, u>> \notin stale
      BY <1>8, <2>3, <3>1 DEF Store
    <3> QED BY <1>1, <1>8, <3>1, <3>2, <3>3 DEF CInv, EntryRight
  <2> QED BY <2>2, <2>3
<1>9. EntryRight'
  BY <1>6, <1>8 DEF EntryRight
<1> QED BY <1>5, <1>7, <1>9 DEF CInv

\* About whom a record was settled it is as before, by a step that changes neither
\* the members nor the record's list.
LEMMA StoreStays ==
  ASSUME Typed, CInv, Environment \/ Deliver,
         NEW t \in Task, NEW u \in User, In(t, {"store"})'
  PROVE  /\ In(t, {"store"}) /\ HoldsAnswer(t) /\ Active(t)
         /\ task'[t].room = task[t].room /\ task'[t].list = task[t].list /\ task[t].room \in Room
         /\ u \notin task[t].lost /\ <<task[t].room, u>> \notin Open =>
              (u \in task[t].list <=> u \in members[task[t].room])
<1>1. Alike(t, task'[t])
  BY AllAlike
<1>2. In(t, {"store"}) /\ HoldsAnswer(t) /\ Active(t)
  BY <1>1 DEF Alike, In, HoldsAnswer, Active
<1> QED BY <1>1, <1>2, Fields DEF Alike, CInv, StoreRight

\* A change makes a delta due that says what the bucket has, or crosses another.
LEMMA ChangeKeeps ==
  ASSUME Typed, CInv, NEW r \in Room, NEW u \in User, NEW action \in {"join", "leave"},
         Change(r, u, action)
  PROVE  CInv'
<1> DEFINE p == <<r, u>>
           d == [action |-> action, pair |-> p]
<1>1. UNCHANGED <<inbox, link, index, entry, stale>> /\ due' = due \cup {d} /\ crossed \subseteq crossed'
      /\ (p \in Pairs(due) => p \in crossed')
  BY DEF Change, cache
<1>2. \A x \in Room, v \in User : <<x, v>> # p => (v \in members'[x] <=> v \in members[x])
  BY DEF Change, Typed
<1>3. u \in members'[r] <=> action = "join"
  BY DEF Change, Typed
<1>4. d \in Delta /\ d.pair = p /\ p[1] = r /\ p[2] = u
  BY DEF Delta, Pair
<1>5. Pairs(due') = Pairs(due) \cup {p}
  BY <1>1, <1>4 DEF Pairs
<1>6. p \in Open' /\ Open \subseteq Open'
  <2>1. Pairs(Queued)' = Pairs(Queued)
    BY <1>1 DEF Queued, Pairs
  <2>2. Pairs(due)' = Pairs(due) \cup {p}
    BY <1>5 DEF Pairs
  <2> QED BY <1>1, <2>1, <2>2 DEF Open
<1>7. InboxEmpty'
  BY <1>1 DEF CInv, InboxEmpty
<1>8. ASSUME NEW e \in Delta, e.pair # p, Says(e)
      PROVE  Says(e)'
  BY <1>2, <1>8, DeltaParts DEF Says
<1>9. ASSUME NEW e \in Delta, e.pair # p, Says(e)'
      PROVE  Says(e)
  BY <1>2, <1>9, DeltaParts DEF Says
<1>10. DueRight'
  <2> SUFFICES ASSUME NEW e \in due', e.pair \notin crossed'
               PROVE  Says(e)'
    BY DEF DueRight
  <2>1. CASE e = d
    BY <1>3, <1>4, <2>1 DEF Says
  <2>2. CASE e # d
    <3>1. e \in due /\ e \in Delta
      BY <1>1, <2>2 DEF Typed
    <3>2. e.pair # p
      BY <1>1, <3>1 DEF Pairs
    <3> QED BY <1>1, <1>8, <3>1, <3>2 DEF CInv, DueRight
  <2> QED BY <2>1, <2>2
<1>11. LastRight'
  <2> SUFFICES ASSUME NEW i \in 1..Len(inbox), inbox[i].pair \notin crossed' \cup Pairs(due'),
                      \A j \in 1..Len(inbox) : j > i => inbox[j].pair # inbox[i].pair
               PROVE  Says(inbox[i])'
    BY <1>1 DEF LastRight, Says, Pairs
  <2>1. inbox[i] \in Delta /\ inbox[i].pair # p
    BY <1>5, QueuedTypes
  <2>2. Says(inbox[i])
    BY <1>1, <1>5 DEF CInv, LastRight
  <2>3. ASSUME NEW e \in Delta, e.pair # p, Says(e)
        PROVE  e.action = "join" <=> e.pair[2] \in members'[e.pair[1]]
    BY <1>8, <2>3 DEF Says
  <2> QED BY <1>1, <2>1, <2>2, <2>3 DEF Says
<1>12. StoreRight'
  <2> SUFFICES ASSUME NEW t \in Task, NEW v \in User, In(t, {"store"})', v \notin task'[t].lost,
                      <<task'[t].room, v>> \notin Open'
               PROVE  v \in task'[t].list <=> v \in members'[task'[t].room]
    BY DEF StoreRight
  <2>1. Active(t) => task'[t].lost = task[t].lost
    <3>1. task'[t] = task[t] \/ task'[t] = Joined(t, p)
      BY DEF Change
    <3> QED BY <3>1, JoinedIs
  <2>2. Environment
    BY DEF Environment
  <2> QED BY <1>2, <1>6, <2>1, <2>2, StoreStays
<1>13. EntryRight'
  <2> SUFFICES ASSUME NEW x \in index, NEW v \in User, <<x, v>> \notin stale, <<x, v>> \notin Open'
               PROVE  v \in entry[x] <=> v \in members'[x]
    BY <1>1 DEF EntryRight
  <2>1. <<x, v>> \notin Open /\ <<x, v>> # p /\ x \in Room
    BY <1>6 DEF Typed
  <2> QED BY <1>2, <2>1 DEF CInv, EntryRight
<1> QED BY <1>7, <1>10, <1>11, <1>12, <1>13 DEF CInv

\* A delta published is queued behind the others, or passes by the entries and the
\* answers held.
LEMMA PublishKeeps ==
  ASSUME Typed, CInv, NEW delta \in due, Publish(delta)
  PROVE  CInv'
<1> DEFINE p == delta.pair
<1>1. UNCHANGED <<members, crossed, link, index, entry>> /\ due' = due \ {delta} /\ stale \subseteq stale'
  BY DEF Publish, cache
<1>2. delta \in Delta /\ p = <<p[1], p[2]>>
  BY DeltaParts DEF Typed
<1>3. Pairs(due) \subseteq Pairs(due') \cup {p} /\ Pairs(due') \subseteq Pairs(due)
  BY <1>1 DEF Pairs
<1>4. p \notin crossed => Says(delta)
  BY DEF CInv, DueRight
<1>5. \A e : Says(e)' <=> Says(e)
  BY <1>1 DEF Says
<1>6. DueRight'
  BY <1>1, <1>5 DEF CInv, DueRight
<1>7. Environment
  BY DEF Environment
<1>8. CASE link # "down"
  <2>1. inbox' = Append(inbox, delta) /\ stale' = stale
    BY <1>8 DEF Publish
  <2>2. /\ Len(inbox) \in Nat /\ Len(inbox') = Len(inbox) + 1 /\ inbox'[Len(inbox) + 1] = delta
        /\ \A i \in 1..Len(inbox) : i \in 1..Len(inbox') /\ inbox'[i] = inbox[i]
    <3>1. Len(inbox) \in Nat /\ Len(inbox') = Len(inbox) + 1 /\ inbox'[Len(inbox) + 1] = delta
          /\ \A i \in 1..Len(inbox) : inbox'[i] = inbox[i]
      BY <1>2, <2>1 DEF Typed
    <3> QED BY <3>1
  <2>3. InboxEmpty'
    BY <1>1, <1>8 DEF InboxEmpty
  <2>4. LastRight'
    <3> SUFFICES ASSUME NEW i \in 1..Len(inbox'), inbox'[i].pair \notin crossed \cup Pairs(due'),
                        \A j \in 1..Len(inbox') : j > i => inbox'[j].pair # inbox'[i].pair
                 PROVE  Says(inbox'[i])
      BY <1>1 DEF LastRight, Says, Pairs
    <3>1. CASE i = Len(inbox) + 1
      BY <1>4, <2>2, <3>1
    <3>2. CASE i # Len(inbox) + 1
      <4>1. i \in 1..Len(inbox) /\ inbox'[i] = inbox[i]
        BY <2>2, <3>2
      <4>2. inbox[i].pair # p
        <5>1. Len(inbox) + 1 \in 1..Len(inbox') /\ Len(inbox) + 1 > i
          BY <2>2, <4>1
        <5> QED BY <2>2, <4>1, <5>1
      <4>3. inbox[i].pair \notin crossed \cup Pairs(due)
        BY <1>3, <4>1, <4>2
      <4>4. \A j \in 1..Len(inbox) : j > i => inbox[j].pair # inbox[i].pair
        BY <2>2, <4>1
      <4> QED BY <4>1, <4>3, <4>4 DEF CInv, LastRight
    <3> QED BY <3>1, <3>2
  <2>5. Open \subseteq Open'
    <3>1. Queued \subseteq Queued' /\ delta \in Queued'
      <4>1. Len(inbox) + 1 \in 1..Len(inbox')
        BY <2>2
      <4> QED BY <2>2, <4>1 DEF Queued
    <3>2. Pairs(Queued) \subseteq Pairs(Queued') /\ p \in Pairs(Queued')
      BY <3>1 DEF Pairs
    <3>3. Pairs(Queued)' = Pairs(Queued') /\ Pairs(due)' = Pairs(due')
      BY DEF Pairs
    <3> QED BY <1>1, <1>3, <3>2, <3>3 DEF Open
  <2>6. StoreRight'
    <3> SUFFICES ASSUME NEW t \in Task, NEW v \in User, In(t, {"store"})', v \notin task'[t].lost,
                        <<task'[t].room, v>> \notin Open'
                 PROVE  v \in task'[t].list <=> v \in members'[task'[t].room]
      BY DEF StoreRight
    <3>1. Active(t) => task[t].lost \subseteq task'[t].lost
      <4>1. \E gone : task'[t] = Deprived(t, gone)
        BY DEF Publish
      <4> QED BY <4>1, DeprivedIs
    <3> QED BY <1>1, <1>7, <2>5, <3>1, StoreStays
  <2>7. EntryRight'
    BY <1>1, <2>1, <2>5 DEF CInv, EntryRight
  <2> QED BY <1>6, <2>3, <2>4, <2>6, <2>7 DEF CInv
<1>9. CASE link = "down"
  <2>1. inbox = <<>> /\ inbox' = <<>> /\ stale' = stale \cup {q \in {p} : q[1] \in index}
    BY <1>9 DEF Publish, CInv, InboxEmpty
  <2>2. InboxEmpty' /\ LastRight'
    BY <2>1 DEF InboxEmpty, LastRight
  <2>3. Open \subseteq Open' \cup {p}
    <3>1. Queued = {}
      BY <2>1 DEF Queued
    <3>2. Pairs(due)' = Pairs(due') /\ Pairs(Queued) = {}
      BY <3>1 DEF Pairs
    <3> QED BY <1>1, <1>3, <3>2 DEF Open
  <2>4. StoreRight'
    <3> SUFFICES ASSUME NEW t \in Task, NEW v \in User, In(t, {"store"})', v \notin task'[t].lost,
                        <<task'[t].room, v>> \notin Open'
                 PROVE  v \in task'[t].list <=> v \in members'[task'[t].room]
      BY DEF StoreRight
    <3>1. /\ Active(t) => task[t].lost \subseteq task'[t].lost
          /\ HoldsAnswer(t) => Users({p}, task[t].room) \subseteq task'[t].lost
      <4>1. task'[t] = Deprived(t, {p})
        BY <1>9 DEF Publish
      <4> QED BY <4>1, DeprivedIs
    <3>2. HoldsAnswer(t) /\ Active(t) /\ task'[t].room = task[t].room
      BY <1>7, StoreStays
    <3>3. <<task[t].room, v>> # p
      BY <3>1, <3>2 DEF Users
    <3> QED BY <1>1, <1>7, <2>3, <3>1, <3>2, <3>3, StoreStays
  <2>5. EntryRight'
    <3> SUFFICES ASSUME NEW x \in index, NEW v \in User, <<x, v>> \notin stale' \cup Open'
                 PROVE  v \in entry[x] <=> v \in members[x]
      BY <1>1 DEF EntryRight
    <3>1. <<x, v>> \notin stale /\ <<x, v>> # p
      BY <1>2, <2>1
    <3> QED BY <2>3, <3>1 DEF CInv, EntryRight
  <2> QED BY <1>6, <2>2, <2>4, <2>5 DEF CInv
<1> QED BY <1>8, <1>9

\* About whom nothing is announced nothing is claimed any more.
LEMMA NeverPublishedKeeps ==
  ASSUME Typed, CInv, NEW delta \in due, NeverPublished(delta)
  PROVE  CInv'
<1> DEFINE p == delta.pair
<1>1. /\ UNCHANGED <<members, inbox, link, index, entry, stale, task>>
      /\ due' = due \ {delta} /\ crossed' = crossed \cup {p}
  BY DEF NeverPublished, cache
<1>2. Pairs(due) \subseteq Pairs(due') \cup {p}
  BY <1>1 DEF Pairs
<1>3. \A e : Says(e)' <=> Says(e)
  BY <1>1 DEF Says
<1>4. InboxEmpty' /\ DueRight'
  BY <1>1, <1>3 DEF CInv, InboxEmpty, DueRight
<1>5. LastRight'
  <2> SUFFICES ASSUME NEW i \in 1..Len(inbox), inbox[i].pair \notin crossed' \cup Pairs(due'),
                      \A j \in 1..Len(inbox) : j > i => inbox[j].pair # inbox[i].pair
               PROVE  Says(inbox[i])
    BY <1>1 DEF LastRight, Says, Pairs
  <2>1. inbox[i].pair \notin crossed \cup Pairs(due)
    BY <1>1, <1>2
  <2> QED BY <2>1 DEF CInv, LastRight
<1>6. Open \subseteq Open'
  <2>1. Pairs(due)' = Pairs(due') /\ Pairs(Queued)' = Pairs(Queued)
    BY <1>1 DEF Pairs, Queued
  <2> QED BY <1>1, <1>2, <2>1 DEF Open
<1>7. StoreRight'
  BY <1>1, <1>6 DEF CInv, StoreRight, In
<1>8. EntryRight'
  BY <1>1, <1>6 DEF CInv, EntryRight
<1> QED BY <1>4, <1>5, <1>7, <1>8 DEF CInv

\* What was queued passes by the entries and the answers held.
LEMMA DisconnectKeeps ==
  ASSUME Typed, CInv, Disconnect
  PROVE  CInv'
<1>1. /\ UNCHANGED <<members, due, crossed, index, entry>> /\ inbox' = <<>>
      /\ stale' = stale \cup {p \in Pairs(Queued) : p[1] \in index}
  BY DEF Disconnect, cache, room
<1>2. InboxEmpty' /\ DueRight' /\ LastRight'
  BY <1>1 DEF CInv, InboxEmpty, DueRight, LastRight, Says
<1>3. Open \subseteq Open' \cup Pairs(Queued)
  <2>1. Pairs(due)' = Pairs(due)
    BY <1>1 DEF Pairs
  <2> QED BY <1>1, <2>1 DEF Open
<1>4. StoreRight'
  <2> SUFFICES ASSUME NEW t \in Task, NEW v \in User, In(t, {"store"})', v \notin task'[t].lost,
                      <<task'[t].room, v>> \notin Open'
               PROVE  v \in task'[t].list <=> v \in members'[task'[t].room]
    BY DEF StoreRight
  <2>1. /\ Active(t) => task[t].lost \subseteq task'[t].lost
        /\ HoldsAnswer(t) => Users(Pairs(Queued), task[t].room) \subseteq task'[t].lost
    <3>1. task'[t] = Deprived(t, Pairs(Queued))
      BY DEF Disconnect
    <3> QED BY <3>1, DeprivedIs
  <2>2. Environment
    BY DEF Environment
  <2>3. HoldsAnswer(t) /\ Active(t) /\ task'[t].room = task[t].room
    BY <2>2, StoreStays
  <2>4. <<task[t].room, v>> \notin Pairs(Queued)
    BY <2>1, <2>3 DEF Users
  <2> QED BY <1>1, <1>3, <2>1, <2>2, <2>3, <2>4, StoreStays
<1>5. EntryRight'
  <2> SUFFICES ASSUME NEW x \in index, NEW v \in User, <<x, v>> \notin stale' \cup Open'
               PROVE  v \in entry[x] <=> v \in members[x]
    BY <1>1 DEF EntryRight
  <2>1. <<x, v>> \notin stale /\ <<x, v>> \notin Pairs(Queued)
    BY <1>1
  <2> QED BY <1>3, <2>1 DEF CInv, EntryRight
<1> QED BY <1>2, <1>4, <1>5 DEF CInv

\* A delta brings the entry and the answers held in line with the bucket, if none
\* about the pair is to come.
LEMMA DeliverKeeps ==
  ASSUME Typed, CInv, Deliver
  PROVE  CInv'
<1> DEFINE d == inbox[1]
<1>1. d = Head(inbox) /\ d \in Delta /\ 1 \in 1..Len(inbox)
  BY TailFields
<1>2. d.pair[1] \in Room /\ d.pair[2] \in User /\ d.action \in {"join", "leave"}
      /\ d.pair = <<d.pair[1], d.pair[2]>>
  BY <1>1, DeltaParts
<1>3. UNCHANGED <<members, due, crossed, link>> /\ ApplyDelta(d.action, d.pair[1], d.pair[2])
      /\ stale' = stale \ {d.pair}
  BY <1>1 DEF Deliver, room
<1>4. InboxEmpty'
  BY <1>3 DEF CInv, InboxEmpty, Deliver
<1>5. DueRight'
  BY <1>3 DEF CInv, DueRight, Says
<1>6. LastRight'
  <2> SUFFICES ASSUME NEW i \in 1..Len(inbox'), inbox'[i].pair \notin crossed \cup Pairs(due),
                      \A j \in 1..Len(inbox') : j > i => inbox'[j].pair # inbox'[i].pair
               PROVE  Says(inbox'[i])
    BY <1>3 DEF LastRight, Says, Pairs
  <2>1. i + 1 \in 1..Len(inbox) /\ inbox'[i] = inbox[i + 1]
    BY TailFields
  <2>2. ASSUME NEW j \in 1..Len(inbox), j > i + 1
        PROVE  inbox[j].pair # inbox[i + 1].pair
    <3>1. j - 1 \in 1..Len(inbox') /\ inbox'[j - 1] = inbox[j] /\ j - 1 > i
      BY <2>2, TailFields
    <3> QED BY <2>1, <3>1
  <2> QED BY <2>1, <2>2 DEF CInv, LastRight
<1>7. Open \subseteq Open' \cup {d.pair}
  <2>1. \A j \in 1..Len(inbox) : j # 1 => inbox[j] \in Queued'
    BY TailFields DEF Queued
  <2>2. Pairs(Queued) \subseteq Pairs(Queued)' \cup {d.pair}
    BY <2>1 DEF Pairs, Queued
  <2>3. Pairs(due)' = Pairs(due)
    BY <1>3 DEF Pairs
  <2> QED BY <1>3, <2>2, <2>3 DEF Open
<1>8. d.pair \notin Open' => Says(d)
  <2> SUFFICES ASSUME d.pair \notin Open'
               PROVE  Says(d)
    OBVIOUS
  <2>1. d.pair \notin crossed \cup Pairs(due)
    BY <1>3 DEF Open, Pairs
  <2>2. ASSUME NEW j \in 1..Len(inbox), j > 1
        PROVE  inbox[j].pair # d.pair
    <3>1. j - 1 \in 1..Len(inbox') /\ inbox'[j - 1] = inbox[j]
      BY <2>2, TailFields
    <3>2. inbox[j].pair \in Pairs(Queued)'
      BY <3>1 DEF Pairs, Queued
    <3> QED BY <3>2 DEF Open
  <2> QED BY <1>1, <2>1, <2>2 DEF CInv, LastRight
<1>9. StoreRight'
  <2> SUFFICES ASSUME NEW t \in Task, NEW u \in User, In(t, {"store"})', u \notin task'[t].lost,
                      <<task'[t].room, u>> \notin Open'
               PROVE  u \in task'[t].list <=> u \in members'[task'[t].room]
    BY DEF StoreRight
  <2>1. HoldsAnswer(t) /\ Active(t) /\ task'[t].room = task[t].room /\ task'[t].list = task[t].list
    BY StoreStays
  <2>2. task'[t] = Passed(t, d)
    BY <1>1 DEF Deliver
  <2>3. CASE <<task[t].room, u>> = d.pair
    <3>1. d.action = "join" <=> u \in task[t].list
      BY <1>1, <2>1, <2>2, <2>3, PassedIs
    <3>2. Says(d) /\ d.pair[1] = task[t].room /\ d.pair[2] = u
      BY <1>8, <2>1, <2>3
    <3> QED BY <1>3, <2>1, <3>1, <3>2 DEF Says
  <2>4. CASE <<task[t].room, u>> # d.pair
    <3>1. u \notin task[t].lost
      BY <1>1, <2>1, <2>2, <2>4, PassedIs
    <3> QED BY <1>3, <1>7, <2>1, <2>4, <3>1, StoreStays
  <2> QED BY <2>3, <2>4
<1>10. EntryRight'
  <2> SUFFICES ASSUME NEW x \in index', NEW u \in User, <<x, u>> \notin stale' \cup Open'
               PROVE  u \in entry'[x] <=> u \in members[x]
    BY <1>3 DEF EntryRight
  <2>1. x \in index /\ x \in Room
    BY <1>3 DEF ApplyDelta, cache, Typed
  <2>2. CASE d.pair = <<x, u>>
    <3>1. d.action = "join" <=> u \in members[x]
      BY <1>8, <2>2 DEF Says
    <3>2. d.action = "join" <=> u \in entry'[x]
      BY <1>2, <1>3, <2>1, <2>2 DEF ApplyDelta, Typed
    <3> QED BY <3>1, <3>2
  <2>3. CASE d.pair # <<x, u>>
    <3>1. <<x, u>> \notin stale \cup Open
      BY <1>3, <1>7, <2>3
    <3>2. u \in entry[x] <=> u \in entry'[x]
      <4>1. CASE d.pair[1] = x /\ d.pair[2] # u
        BY <1>2, <1>3, <2>1, <4>1 DEF ApplyDelta, Typed
      <4>2. CASE d.pair[1] # x
        BY <1>2, <1>3, <2>1, <4>2 DEF ApplyDelta, Typed, cache
      <4> QED BY <1>2, <2>3, <4>1, <4>2
    <3> QED BY <2>1, <3>1, <3>2 DEF CInv, EntryRight
  <2> QED BY <2>2, <2>3
<1> QED BY <1>4, <1>5, <1>6, <1>9, <1>10 DEF CInv

\* A handler begins without an answer.
LEMMA ReceiveKeeps ==
  ASSUME Typed, CInv, NEW t \in Task, NEW r \in Room, NEW u \in User \cup {Nobody}, Receive(t, r, u)
  PROVE  CInv'
<1>1. OnlyTask(t) /\ task'[t].pc \in {"isMember", "get"}
  BY ReceiveFields
<1>2. Still /\ UNCHANGED link
  BY DEF Receive, cache, room, Still
<1>3. \A x \in Task : task'[x].pc = "store" => task'[x] = task[x]
  BY <1>1 DEF OnlyTask
<1> QED BY <1>2, <1>3, QuietKeeps

\* Nothing is cached, queued or held.
LEMMA EmptyKeeps ==
  ASSUME CInv, UNCHANGED <<members, due, crossed>>, inbox' = <<>>, index' = {},
         task' = [t \in Task |-> Idle]
  PROVE  CInv'
<1>1. InboxEmpty' /\ DueRight' /\ LastRight' /\ EntryRight'
  BY DEF CInv, InboxEmpty, DueRight, LastRight, EntryRight, Says
<1>2. StoreRight'
  BY DEF StoreRight, In, Idle
<1> QED BY <1>1, <1>2 DEF CInv

\* CInv is inductive.
LEMMA CacheInvariance == Spec => []CInv
<1>1. Init => CInv
  BY DEF Init, CInv, InboxEmpty, DueRight, LastRight, StoreRight, EntryRight, In, Idle
<1>2. Typed /\ CInv /\ [Next]_vars => CInv'
  <2> SUFFICES ASSUME Typed, CInv, [Next]_vars
               PROVE  CInv'
    OBVIOUS
  <2>1. CASE \E t \in Ingest, r \in Room, u \in User : Receive(t, r, u)
    BY <2>1, ReceiveKeeps DEF Task
  <2>2. CASE \E t \in Sender, r \in Room : Receive(t, r, Nobody)
    BY <2>2, ReceiveKeeps DEF Task
  <2>3. ASSUME NEW t \in Task, Handle(t)
        PROVE  CInv'
    <3>1. CASE EnqueueClosed(t)
      BY <3>1, EmptyKeeps DEF EnqueueClosed, Ends, room
    <3>2. CASE ~EnqueueClosed(t)
      BY <2>3, <3>2, HandleKeeps, AnsweredKeeps, StoreKeeps
    <3> QED BY <3>1, <3>2
  <2>4. CASE Environment
    BY <2>4, ChangeKeeps, PublishKeeps, NeverPublishedKeeps, DisconnectKeeps DEF Environment
  <2>5. CASE Deliver
    BY <2>5, DeliverKeeps
  <2>6. CASE Reconnect \/ Close \/ UNCHANGED vars
    <3>1. Still /\ UNCHANGED task /\ (link' = "down" => link = "down")
      BY <2>6 DEF Reconnect, Close, vars, cache, room, Still
    <3> QED BY <3>1, QuietKeeps
  <2>7. CASE Reset
    <3>1. UNCHANGED <<members, due, crossed, inbox, task>> /\ link' # "down" /\ index' = {}
      BY <2>7 DEF Reset, room
    <3>2. InboxEmpty' /\ DueRight' /\ LastRight' /\ EntryRight'
      BY <3>1 DEF CInv, InboxEmpty, DueRight, LastRight, EntryRight, Says, Pairs
    <3>3. Open' = Open
      BY <3>1 DEF Open, Pairs, Queued
    <3>4. StoreRight'
      BY <3>1, <3>3 DEF CInv, StoreRight, In
    <3> QED BY <3>2, <3>4 DEF CInv
  <2>8. CASE Exit
    BY <2>8, EmptyKeeps DEF Exit, Ends, room
  <2> QED BY <2>1, <2>2, <2>3, <2>4, <2>5, <2>6, <2>7, <2>8 DEF Next, Arrive
<1> QED BY <1>1, <1>2, TypedInvariant, PTL DEF Spec

\* The cache always says what the bucket of room-service has, but for whom a delta
\* is still to come about, whose changes crossed, or whom a lagging answer or a lost
\* delta left wrong: whatever the handlers, replicas, deltas, evictions, lost
\* connections and resets do in which order.
THEOREM CacheCorrect == Spec => []CacheFollowsRoomService
<1>1. EntryRight => CacheFollowsRoomService
  BY DEF EntryRight, CacheFollowsRoomService, Open, Pending
<1> QED BY <1>1, CacheInvariance, PTL DEF CInv

-------------------------------------------------------------------------------
\* A step of one handler that does not wait, leaves no flight before its answer is
\* given and starts none keeps the flights as they are.
LEMMA FlightTask ==
  ASSUME Typed, FlightsHold, NEW t \in Task, OnlyTask(t), task'[t].pc # "wait",
         In(t, {"recheck", "ask", "store", "done"}) =>
           /\ task'[t].pc \in {"recheck", "ask", "store", "done"}
           /\ task'[t].room = task[t].room,
         task'[t].pc \in {"recheck", "ask", "store", "done", "forget"} =>
           /\ In(t, {"recheck", "ask", "store", "done", "forget"})
           /\ task'[t].room = task[t].room
  PROVE  FlightsHold'
<1>1. ASSUME NEW x \in Task, In(x, {"wait"})'
      PROVE  /\ task'[task'[x].leader].pc \in {"recheck", "ask", "store", "done"}
             /\ task'[task'[x].leader].room = task'[x].room
  <2>1. x # t /\ task'[x] = task[x] /\ In(x, {"wait"})
    BY <1>1 DEF In, OnlyTask
  <2>2. In(task[x].leader, {"recheck", "ask", "store", "done"})
        /\ task[task[x].leader].room = task[x].room
    BY <2>1 DEF FlightsHold
  <2>3. task[x].leader \in Task
    BY <2>1, Fields DEF In, Active
  <2>4. CASE task[x].leader = t
    BY <2>1, <2>2, <2>4 DEF In
  <2>5. CASE task[x].leader # t
    BY <2>1, <2>2, <2>3, <2>5 DEF In, OnlyTask
  <2> QED BY <2>4, <2>5
<1>2. \A x \in Task, r \in Room : Leads(x, r)' => Leads(x, r)
  BY DEF Leads, In, OnlyTask
<1> QED BY <1>1, <1>2 DEF FlightsHold, In

\* Steps outside the handlers.
LEMMA FlightNoted ==
  ASSUME Typed, FlightsHold,
         \A t \in Task : task'[t].pc = task[t].pc,
         \A t \in Task : Active(t) => task'[t].room = task[t].room /\ task'[t].leader = task[t].leader
  PROVE  FlightsHold'
<1>1. ASSUME NEW x \in Task, In(x, {"wait"})'
      PROVE  /\ task'[task'[x].leader].pc \in {"recheck", "ask", "store", "done"}
             /\ task'[task'[x].leader].room = task'[x].room
  <2>1. In(x, {"wait"}) /\ Active(x)
    BY <1>1 DEF In, Active
  <2>2. In(task[x].leader, {"recheck", "ask", "store", "done"})
        /\ task[task[x].leader].room = task[x].room /\ task[x].leader \in Task
    BY <2>1, Fields DEF FlightsHold
  <2>3. Active(task[x].leader)
    BY <2>2 DEF In, Active
  <2> QED BY <2>1, <2>2, <2>3 DEF In
<1>2. \A x \in Task, r \in Room : Leads(x, r)' => Leads(x, r)
  BY DEF Leads, In, Active
<1> QED BY <1>1, <1>2 DEF FlightsHold, In

\* A handler that starts a flight finds none about its room.
LEMMA FlightLead ==
  ASSUME Typed, FlightsHold, NEW t \in Task, Lead(t)
  PROVE  FlightsHold'
<1>1. Active(t) /\ In(t, {"enter"}) /\ \A l \in Task : ~Leads(l, task[t].room)
  BY DEF Lead, In, Active
<1>2. task'[t] = [task[t] EXCEPT !.pc = "recheck"] /\ OnlyTask(t) /\ task'[t].pc = "recheck"
  BY <1>1, GotoFields DEF Lead, Pc
<1>3. task'[t].room = task[t].room
  BY <1>1, <1>2, Fields DEF Handler
<1>4. \A x \in Task, r \in Room : Leads(x, r)' => Leads(x, r) \/ (x = t /\ r = task[t].room)
  BY <1>2, <1>3 DEF Leads, In, OnlyTask
<1>5. ASSUME NEW x \in Task, In(x, {"wait"})'
      PROVE  /\ task'[task'[x].leader].pc \in {"recheck", "ask", "store", "done"}
             /\ task'[task'[x].leader].room = task'[x].room
  <2>1. x # t /\ task'[x] = task[x] /\ In(x, {"wait"}) /\ Active(x)
    BY <1>2, <1>5 DEF In, Active, OnlyTask
  <2>2. In(task[x].leader, {"recheck", "ask", "store", "done"})
        /\ task[task[x].leader].room = task[x].room /\ task[x].leader \in Task
    BY <2>1, Fields DEF FlightsHold
  <2>3. task[x].leader # t
    BY <1>1, <2>2 DEF In
  <2> QED BY <1>2, <2>1, <2>2, <2>3 DEF In, OnlyTask
<1> QED BY <1>1, <1>4, <1>5 DEF FlightsHold, In

\* A handler that finds a flight joins it while its answer is still to be given.
LEMMA FlightFollow ==
  ASSUME Typed, FlightsHold, NEW t \in Task, NEW l \in Task, Follow(t, l)
  PROVE  FlightsHold'
<1>1. CASE task'[t].pc = "use"
  BY <1>1, FollowFields, FlightTask DEF In
<1>2. CASE task'[t].pc # "use"
  <2>1. /\ OnlyTask(t) /\ l # t /\ task[t].pc = "enter" /\ task'[t].pc = "wait"
        /\ task'[t].leader = l /\ task'[t].room = task[l].room
        /\ task[l].pc \in {"recheck", "ask", "store", "done"}
    BY <1>2, FollowFields
  <2>2. ASSUME NEW x \in Task, In(x, {"wait"})'
        PROVE  /\ task'[task'[x].leader].pc \in {"recheck", "ask", "store", "done"}
               /\ task'[task'[x].leader].room = task'[x].room
    <3>1. CASE x = t
      <4>1. task'[l] = task[l]
        BY <2>1 DEF OnlyTask
      <4> QED BY <2>1, <3>1, <4>1 DEF In
    <3>2. CASE x # t
      <4>1. task'[x] = task[x] /\ In(x, {"wait"}) /\ Active(x)
        BY <2>1, <2>2, <3>2 DEF In, Active, OnlyTask
      <4>2. In(task[x].leader, {"recheck", "ask", "store", "done"})
            /\ task[task[x].leader].room = task[x].room /\ task[x].leader \in Task
        BY <4>1, Fields DEF FlightsHold
      <4>3. task[x].leader # t
        BY <2>1, <4>2 DEF In
      <4>4. task'[task[x].leader] = task[task[x].leader]
        BY <2>1, <4>2, <4>3 DEF OnlyTask
      <4> QED BY <4>1, <4>2, <4>4 DEF In
    <3> QED BY <3>1, <3>2
  <2>3. \A x \in Task, r \in Room : Leads(x, r)' => Leads(x, r)
    BY <2>1 DEF Leads, In, OnlyTask
  <2>4. \A x \in Task : task'[x].pc \in {"wait"} =>
          /\ task'[task'[x].leader].pc \in {"recheck", "ask", "store", "done"}
          /\ task'[task'[x].leader].room = task'[x].room
    BY <2>2 DEF In
  <2>5. \A x, y \in Task, r \in Room : Leads(x, r)' /\ Leads(y, r)' => x = y
    BY <2>3 DEF FlightsHold
  <2> QED BY <2>4, <2>5 DEF FlightsHold, In
<1> QED BY <1>1, <1>2

\* When the answer is given nobody is left waiting for it.
LEMMA FlightDone ==
  ASSUME Typed, FlightsHold, NEW t \in Task, Done(t)
  PROVE  FlightsHold'
<1>1. Active(t) /\ task[t].pc = "done" /\ task'[t].pc = "forget" /\ task'[t].room = task[t].room
  <2>1. Active(t) /\ task[t].pc = "done" /\ task'[t] = [task[t] EXCEPT !.pc = "forget"]
    BY DoneFields
  <2> QED BY <2>1, Fields DEF Handler
<1>2. ASSUME NEW x \in Task, x # t, task'[x] # task[x]
      PROVE  task[x].pc = "wait" /\ task'[x].pc = "use"
  <2>1. task[x].pc = "wait" /\ Active(x) /\ task'[x] = Given(x, t)
    BY <1>2, DoneFields
  <2> QED BY <1>1, <2>1, GivenFields
<1>3. ASSUME NEW x \in Task, In(x, {"wait"})'
      PROVE  /\ task'[task'[x].leader].pc \in {"recheck", "ask", "store", "done"}
             /\ task'[task'[x].leader].room = task'[x].room
  <2>1. x # t /\ task'[x] = task[x] /\ In(x, {"wait"}) /\ Active(x)
    BY <1>1, <1>2, <1>3 DEF In, Active
  <2>2. In(task[x].leader, {"recheck", "ask", "store", "done"})
        /\ task[task[x].leader].room = task[x].room /\ task[x].leader \in Task
    BY <2>1, Fields DEF FlightsHold
  <2>3. task[x].leader # t
    <3>1. SUFFICES ASSUME task[x].leader = t
                   PROVE  FALSE
      OBVIOUS
    <3>2. task'[x] = Given(x, t)
      BY <2>1, <3>1 DEF Done, In
    <3> QED BY <1>1, <1>3, <2>1, <3>2, GivenFields DEF In
  <2>4. task'[task[x].leader] = task[task[x].leader]
    BY <1>2, <2>2, <2>3 DEF In
  <2> QED BY <2>1, <2>2, <2>4 DEF In
<1>4. \A x \in Task, r \in Room : Leads(x, r)' => Leads(x, r)
  BY <1>1, <1>2 DEF Leads, In
<1> QED BY <1>3, <1>4 DEF FlightsHold, In

\* Without a handler at work there is no flight.
LEMMA FlightNone ==
  ASSUME task' = [x \in Task |-> Idle]
  PROVE  FlightsHold'
<1>1. \A x \in Task : task'[x].pc = "idle"
  BY DEF Idle
<1>2. \A x \in Task : ~In(x, {"wait"})'
  BY <1>1 DEF In
<1>3. \A x \in Task, r \in Room : ~Leads(x, r)'
  BY <1>1 DEF In, Leads
<1> QED BY <1>2, <1>3 DEF FlightsHold

\* Nobody waits for a flight that is over, or about another room, and a room is
\* asked about by one handler at a time, for any number of handlers.
THEOREM FlightsCorrect == Spec => []FlightsHold
<1>1. Init => FlightsHold
  BY DEF Init, FlightsHold, In, Leads, Idle
<1>2. Typed /\ FlightsHold /\ [Next]_vars => FlightsHold'
  <2> SUFFICES ASSUME Typed, FlightsHold, [Next]_vars
               PROVE  FlightsHold'
    OBVIOUS
  <2>1. ASSUME NEW t \in Task, NEW r \in Room, NEW u \in User \cup {Nobody}, Receive(t, r, u)
        PROVE  FlightsHold'
    <3>1. task[t].pc = "idle" /\ OnlyTask(t) /\ task'[t].pc \in {"isMember", "get"}
      BY <2>1, ReceiveFields DEF Receive, In
    <3> QED BY <3>1, FlightTask DEF In
  <2>2. ASSUME NEW t \in Task, Handle(t)
        PROVE  FlightsHold'
    <3>1. ASSUME NEW pc \in Pc, Active(t), Goto(t, pc)
          PROVE  /\ OnlyTask(t) /\ task'[t].pc = pc /\ task'[t].room = task[t].room
      <4>1. OnlyTask(t) /\ task'[t].pc = pc /\ task'[t] = [task[t] EXCEPT !.pc = pc]
        BY <3>1, GotoFields
      <4> QED BY <3>1, <4>1, Fields DEF Handler
    <3>2. CASE \/ Miss(t, "isMember", "get") \/ Miss(t, "get", "enter") \/ Miss(t, "recheck", "ask")
               \/ AskFails(t) \/ Store(t)
      <4>1. /\ task[t].pc \in Pc /\ task[t].pc # "idle"
            /\ \E pc \in {"get", "enter", "ask", "done"} :
                 /\ Goto(t, pc)
                 /\ pc \in {"ask", "done"} <=> In(t, {"recheck", "ask", "store", "done"})
                 /\ ~In(t, {"forget"})
        BY <3>2 DEF Miss, AskFails, Store, In, Pc
      <4>2. PICK pc \in {"get", "enter", "ask", "done"} :
                 /\ Goto(t, pc)
                 /\ pc \in {"ask", "done"} <=> In(t, {"recheck", "ask", "store", "done"})
        BY <4>1
      <4>3. OnlyTask(t) /\ task'[t].pc = pc /\ task'[t].room = task[t].room
        BY <3>1, <4>1, <4>2 DEF Active, In, Pc
      <4> QED BY <4>2, <4>3, FlightTask DEF In
    <3>3. ASSUME NEW from \in {"isMember", "get"}, Hit(t, from, "use")
          PROVE  FlightsHold'
      <4>0. from \in Pc /\ "use" \in Pc
        BY DEF Pc
      <4>1. /\ OnlyTask(t) /\ task[t].pc = from /\ task'[t].pc = "use"
        BY <3>3, <4>0, HitFields
      <4> QED BY <3>3, <4>1, FlightTask DEF In
    <3>4. CASE \E answer \in SUBSET User : Answered(t, answer)
      <4>1. /\ OnlyTask(t) /\ task[t].pc = "ask" /\ task'[t].pc = "store"
            /\ task'[t].room = task[t].room
        BY <3>4, AnsweredFields
      <4> QED BY <4>1, FlightTask DEF In
    <3>5. CASE Forget(t)
      <4>1. OnlyTask(t) /\ task[t].pc = "forget" /\ task'[t].pc = "use"
        BY <3>5, ForgetFields
      <4> QED BY <4>1, FlightTask DEF In
    <3>6. CASE Decide(t) \/ Enqueue(t)
      <4>1. OnlyTask(t) /\ task[t].pc = "use" /\ task'[t].pc = "idle"
        BY <3>6, EndFields DEF Decide, Enqueue, In, Idle
      <4> QED BY <4>1, FlightTask DEF In
    <3>7. CASE EnqueueClosed(t)
      BY <3>7, FlightNone DEF EnqueueClosed, Ends
    <3>8. CASE Hit(t, "recheck", "done")
      <4>1. /\ OnlyTask(t) /\ task[t].pc = "recheck" /\ task'[t].pc = "done"
            /\ task'[t].room = task[t].room
        BY <3>8, HitFields DEF Pc
      <4> QED BY <4>1, FlightTask DEF In
    <3>9. CASE Lead(t) \/ Done(t) \/ \E l \in Task : Follow(t, l)
      BY <3>9, FlightLead, FlightFollow, FlightDone
    <3>10. Hit(t, "isMember", "use") => FlightsHold'
      BY <3>3
    <3>11. Hit(t, "get", "use") => FlightsHold'
      BY <3>3
    <3> QED BY <2>2, <3>2, <3>4, <3>5, <3>6, <3>7, <3>8, <3>9, <3>10, <3>11 DEF Handle, Flight
  <2>3. CASE Environment \/ Deliver
    <3>1. \A t \in Task : Alike(t, task'[t])
      BY <2>3, AllAlike
    <3> QED BY <3>1, FlightNoted DEF Alike
  <2>4. CASE Exit
    BY <2>4, FlightNone DEF Exit, Ends
  <2>5. CASE Reconnect \/ Close \/ Reset \/ UNCHANGED vars
    BY <2>5 DEF Reconnect, Close, Reset, vars, FlightsHold, In, Leads
  <2> QED BY <2>1, <2>2, <2>3, <2>4, <2>5 DEF Next, Arrive, Task
<1> QED BY <1>1, <1>2, TypedInvariant, PTL DEF Spec
-------------------------------------------------------------------------------
\* Whom a delta queued is about is a member or leaves by a later one, unless one
\* about the pair is due or has crossed another.
Exempt == crossed \cup Pairs(due)

LeaveFollows ==
  \A i \in 1..Len(inbox) :
    \/ inbox[i].pair \in Exempt
    \/ inbox[i].pair[2] \in members[inbox[i].pair[1]]
    \/ \E j \in 1..Len(inbox) : j >= i /\ inbox[j] = [action |-> "leave", pair |-> inbox[i].pair]

\* Of whom nothing is said: those whose changes crossed.
Odd(r) == Users(crossed, r)

\* The list of t names only members and those who leave, but for whom it is known
\* to be out of date about.
RightList(t) ==
  task[t].list \subseteq
    task[t].lost \cup Odd(task[t].room) \cup members[task[t].room] \cup Leaving(task[t].room)

\* The other handlers of the room may act for those t names, or will know better.
SharedList(t) ==
  \A x \in Task : (Active(x) /\ task[x].room = task[t].room) =>
    task[t].list \subseteq task[x].may \cup task[t].lost \cup Odd(task[t].room)

AnswerRight == \A t \in Task : HoldsAnswer(t) => RightList(t)

MayAnswer == \A t \in Task : HoldsAnswer(t) => SharedList(t)

\* Who can still come before handler t is one it may act for: the members, who
\* joins by a delta to come, the users of the entry, those of its own list.
MayMembers == \A t \in Task : Active(t) => members[task[t].room] \subseteq task[t].may

Joining(r) == {u \in User : [action |-> "join", pair |-> <<r, u>>] \in due \cup Queued}

MayJoining ==
  \A t \in Task : Active(t) => Joining(task[t].room) \subseteq task[t].may \cup Odd(task[t].room)

MayEntry ==
  \A t \in Task : (Active(t) /\ task[t].room \in index) =>
    entry[task[t].room] \subseteq task[t].may \cup Users(stale, task[t].room) \cup Odd(task[t].room)

MayList == \A t \in Task : Active(t) => task[t].list \subseteq task[t].may \cup Odd(task[t].room)

\* A handler has no list before it has an answer.
Early == {"isMember", "get", "enter", "recheck", "ask"}

NotYet == \A t \in Task : In(t, Early) => task[t].list = {}

MInv ==
  LeaveFollows /\ AnswerRight /\ MayAnswer /\ MayMembers /\ MayJoining /\ MayEntry /\ MayList
  /\ NotYet /\ OnlyMembersServed

\* What MInv says of one handler.
LEMMA MayFields ==
  ASSUME MInv, NEW t \in Task, Active(t)
  PROVE  /\ task[t].list \subseteq task[t].may \cup Odd(task[t].room)
         /\ members[task[t].room] \subseteq task[t].may
         /\ Joining(task[t].room) \subseteq task[t].may \cup Odd(task[t].room)
         /\ task[t].room \in index =>
              entry[task[t].room] \subseteq
                task[t].may \cup Users(stale, task[t].room) \cup Odd(task[t].room)
         /\ In(t, Early) => task[t].list = {}
         /\ HoldsAnswer(t) => RightList(t) /\ SharedList(t)
BY DEF MInv, MayList, MayMembers, MayJoining, MayEntry, NotYet, AnswerRight, MayAnswer

\* Who is known of a room, by what is the same before and after.
LEMMA StillRooms ==
  ASSUME UNCHANGED <<due, crossed, inbox>>
  PROVE  /\ \A r : Leaving(r)' = Leaving(r) /\ Joining(r)' = Joining(r) /\ Odd(r)' = Odd(r)
         /\ Pairs(due)' = Pairs(due)
BY DEF Leaving, Joining, Odd, Queued, Users, Pairs

\* What the deltas to come say leads to Known.
LEMMA KnownLater ==
  ASSUME Typed, CInv, LeaveFollows, NEW r \in Room, NEW u \in User, <<r, u>> \in Open
  PROVE  u \in Odd(r) \/ u \in members[r] \/ u \in Leaving(r)
<1> DEFINE p == <<r, u>>
<1>1. p \in crossed => u \in Odd(r)
  BY DEF Odd, Users
<1>2. CASE p \in Pairs(due) /\ p \notin crossed
  <2>1. PICK d \in due : d.pair = p
    BY <1>2 DEF Pairs
  <2>2. d \in Delta /\ d = [action |-> d.action, pair |-> p] /\ d.action \in {"join", "leave"}
    BY <2>1, DeltaParts DEF Typed
  <2>3. d.action = "join" <=> u \in members[r]
    BY <1>2, <2>1 DEF CInv, DueRight, Says
  <2>4. d.action = "leave" => u \in Leaving(r)
    BY <2>1, <2>2 DEF Leaving
  <2> QED BY <2>2, <2>3, <2>4
<1>3. CASE p \in Pairs(Queued) /\ p \notin crossed \cup Pairs(due)
  <2>1. PICK i \in 1..Len(inbox) : inbox[i].pair = p
    BY <1>3 DEF Pairs, Queued
  <2>2. CASE u \in members[r]
    BY <2>2
  <2>3. CASE u \notin members[r]
    <3>1. \E j \in 1..Len(inbox) : inbox[j] = [action |-> "leave", pair |-> p]
      BY <1>3, <2>1, <2>3 DEF LeaveFollows, Exempt
    <3> QED BY <3>1 DEF Leaving, Queued
  <2> QED BY <2>2, <2>3
<1> QED BY <1>1, <1>2, <1>3 DEF Open

\* So does what an entry or a delta to come names.
LEMMA KnownEntry ==
  ASSUME Typed, CInv, MInv, NEW r \in Room
  PROVE  /\ r \in index => entry[r] \subseteq Known(r) \cup Odd(r)
         /\ r \in index => entry[r] \subseteq
                             Users(stale, r) \cup Odd(r) \cup members[r] \cup Leaving(r)
         /\ Joining(r) \subseteq Known(r) \cup Odd(r)
<1>1. ASSUME r \in index, NEW u \in entry[r], u \notin Users(stale, r)
      PROVE  u \in Odd(r) \/ u \in members[r] \/ u \in Leaving(r)
  <2>1. u \in User /\ <<r, u>> \notin stale
    BY <1>1 DEF Users, Typed
  <2>2. u \in members[r] \/ <<r, u>> \in Open
    BY <1>1, <2>1 DEF CInv, EntryRight
  <2> QED BY <2>1, <2>2, KnownLater DEF MInv
<1>2. ASSUME NEW u \in Joining(r)
      PROVE  u \in Odd(r) \/ u \in members[r] \/ u \in Leaving(r)
  <2>1. u \in User /\ <<r, u>> \in Open
    BY <1>2 DEF Joining, Open, Pairs
  <2> QED BY <2>1, KnownLater DEF MInv
<1> QED BY <1>1, <1>2 DEF Known

\* Steps of the handlers, and those of the connection that lose nothing.
Calm == UNCHANGED <<members, due, crossed, inbox, index, entry, stale, trespass>>

\* A step of one handler keeps MInv if what it has now is as it should be.
LEMMA OneKeepsMay ==
  ASSUME Typed, MInv, NEW t \in Task, Active(t), OnlyTask(t), task'[t] \in Handler, Calm,
         task'[t].room = task[t].room, task[t].may \subseteq task'[t].may,
         task'[t].list \subseteq task'[t].may \cup Odd(task[t].room),
         HoldsAnswer(t)' =>
           /\ task'[t].list \subseteq task'[t].lost \cup Odd(task[t].room)
                                      \cup members[task[t].room] \cup Leaving(task[t].room)
           /\ \A x \in Task : Active(x) /\ task[x].room = task[t].room =>
                task'[t].list \subseteq task[x].may \cup task'[t].lost \cup Odd(task[t].room),
         In(t, Early)' => task'[t].list = {}
  PROVE  MInv'
<1> USE DEF OnlyTask, Calm
<1>1. \A x \in Task : x # t => task'[x] = task[x]
  OBVIOUS
<1>2. \A x \in Task : /\ Active(x)' => Active(x)
                      /\ Active(x) => task'[x].room = task[x].room /\ task[x].may \subseteq task'[x].may
  BY <1>1 DEF Active, In
<1>3. LeaveFollows' /\ OnlyMembersServed'
  BY StillRooms DEF MInv, LeaveFollows, OnlyMembersServed, Exempt
<1>4. AnswerRight'
  <2> SUFFICES ASSUME NEW x \in Task, HoldsAnswer(x)'
               PROVE  task'[x].list \subseteq task'[x].lost \cup Odd(task[x].room)
                                              \cup members[task[x].room] \cup Leaving(task[x].room)
    <3>1. \A x \in Task : HoldsAnswer(x)' => task'[x].room = task[x].room
      BY <1>1
    <3> QED BY <3>1, StillRooms DEF AnswerRight, RightList, Odd, Leaving, Users, Queued
  <2>1. CASE x # t
    <3>1. task'[x] = task[x] /\ HoldsAnswer(x)
      BY <1>1, <2>1 DEF HoldsAnswer, In
    <3> QED BY <3>1 DEF MInv, AnswerRight, RightList
  <2>2. CASE x = t
    BY <2>2
  <2> QED BY <2>1, <2>2
<1>5. MayAnswer'
  <2> SUFFICES ASSUME NEW l \in Task, HoldsAnswer(l)', NEW x \in Task, Active(x)',
                      task'[x].room = task'[l].room
               PROVE  task'[l].list \subseteq task'[x].may \cup task'[l].lost \cup Odd(task[l].room)
    <3>1. \A x \in Task : HoldsAnswer(x)' => task'[x].room = task[x].room
      BY <1>1
    <3> QED BY <3>1 DEF MayAnswer, SharedList, Odd, Users
  <2>1. Active(x) /\ task'[x].room = task[x].room /\ task[x].may \subseteq task'[x].may
    BY <1>2
  <2>2. CASE l = t
    BY <2>1, <2>2
  <2>3. CASE l # t
    <3>1. task'[l] = task[l] /\ HoldsAnswer(l)
      BY <2>3 DEF HoldsAnswer, In
    <3> QED BY <2>1, <3>1 DEF MInv, MayAnswer, SharedList
  <2> QED BY <2>2, <2>3
<1>6. MayMembers' /\ MayJoining' /\ MayEntry'
  <2>1. MayMembers'
    BY <1>2 DEF MInv, MayMembers
  <2>2. MayJoining'
    BY <1>2 DEF MInv, MayJoining, Joining, Queued, Odd, Users
  <2>3. MayEntry'
    BY <1>2 DEF MInv, MayEntry, Users, Odd
  <2> QED BY <2>1, <2>2, <2>3
<1>7. MayList'
  <2> SUFFICES ASSUME NEW x \in Task, Active(x)'
               PROVE  task'[x].list \subseteq task'[x].may \cup Odd(task[x].room)
    BY <1>2 DEF MayList, Odd, Users
  <2>1. CASE x # t
    <3>1. task'[x] = task[x] /\ Active(x)
      BY <1>1, <1>2, <2>1
    <3> QED BY <3>1 DEF MInv, MayList
  <2> QED BY <2>1
<1>8. NotYet'
  BY <1>1 DEF MInv, NotYet, In
<1> QED BY <1>3, <1>4, <1>5, <1>6, <1>7, <1>8 DEF MInv

\* A handler that begins knows all who can still come before it.
LEMMA ReceiveKeepsMay ==
  ASSUME Typed, CInv, MInv, NEW t \in Task, NEW r \in Room, NEW u \in User \cup {Nobody}, Receive(t, r, u)
  PROVE  MInv'
<1> USE DEF OnlyTask, Calm
<1>1. /\ OnlyTask(t) /\ task'[t].pc \in {"isMember", "get"}
      /\ task'[t].room = r /\ task'[t].list = {} /\ task'[t].may = Known(r)
  BY ReceiveFields
<1>2. Calm /\ ~Active(t)
  BY DEF Receive, cache, room, Active
<1>3. \A x \in Task : x # t => task'[x] = task[x]
  BY <1>1
<1>4. \A x \in Task : HoldsAnswer(x)' => x # t /\ task'[x] = task[x] /\ HoldsAnswer(x) /\ Active(x)
  BY <1>1, <1>3 DEF HoldsAnswer, In, Active
<1>5. \A x \in Task : Active(x)' => x = t \/ (x # t /\ task'[x] = task[x] /\ Active(x))
  BY <1>3 DEF Active, In
<1>6. LeaveFollows' /\ OnlyMembersServed'
  BY <1>2, StillRooms DEF MInv, LeaveFollows, OnlyMembersServed, Exempt
<1>7. AnswerRight'
  BY <1>2, <1>4 DEF MInv, AnswerRight, RightList, Leaving, Queued, Odd, Users
<1>8. MayAnswer'
  <2> SUFFICES ASSUME NEW l \in Task, HoldsAnswer(l)', NEW x \in Task, Active(x)',
                      task'[x].room = task'[l].room
               PROVE  task'[l].list \subseteq task'[x].may \cup task'[l].lost \cup Odd(task[l].room)
    <3>1. \A x \in Task : HoldsAnswer(x)' => task'[x].room = task[x].room
      BY <1>4
    <3> QED BY <1>2, <3>1 DEF MayAnswer, SharedList, Odd, Users
  <2>1. task'[l] = task[l] /\ HoldsAnswer(l) /\ Active(l)
    BY <1>4
  <2>2. CASE x # t
    <3>1. task'[x] = task[x] /\ Active(x)
      BY <1>5, <2>2
    <3> QED BY <2>1, <3>1 DEF MInv, MayAnswer, SharedList
  <2>3. CASE x = t
    <3>1. task[l].room = r /\ RightList(l)
      BY <1>1, <2>1, <2>3, MayFields
    <3> QED BY <1>1, <2>1, <2>3, <3>1 DEF RightList, Known
  <2> QED BY <2>2, <2>3
<1>9. MayMembers'
  BY <1>1, <1>2, <1>5 DEF MInv, MayMembers, Known
<1>10. MayJoining'
  <2>1. \A q : Joining(q)' = Joining(q) /\ Odd(q)' = Odd(q)
    BY <1>2, StillRooms
  <2> SUFFICES ASSUME NEW x \in Task, Active(x)'
               PROVE  Joining(task'[x].room) \subseteq task'[x].may \cup Odd(task'[x].room)
    BY <1>2 DEF MayJoining, Joining, Queued, Odd, Users
  <2>2. CASE x = t
    BY <1>1, <2>2, KnownEntry
  <2>3. CASE x # t
    BY <1>5, <2>3, MayFields
  <2> QED BY <2>2, <2>3
<1>11. MayEntry'
  <2> SUFFICES ASSUME NEW x \in Task, Active(x)', task'[x].room \in index
               PROVE  entry[task'[x].room] \subseteq
                        task'[x].may \cup Users(stale, task'[x].room) \cup Odd(task'[x].room)
    BY <1>2 DEF MayEntry, Odd, Users
  <2>1. CASE x = t
    BY <1>1, <2>1, KnownEntry
  <2>2. CASE x # t
    BY <1>5, <2>2, MayFields
  <2> QED BY <2>1, <2>2
<1>12. MayList' /\ NotYet'
  <2>1. MayList'
    BY <1>1, <1>2, <1>5 DEF MInv, MayList, Odd, Users
  <2>2. NotYet'
    BY <1>1, <1>3 DEF MInv, NotYet, In
  <2> QED BY <2>1, <2>2
<1> QED BY <1>6, <1>7, <1>8, <1>9, <1>10, <1>11, <1>12 DEF MInv

\* Moving on, with the list it has.
LEMMA GotoKeepsMay ==
  ASSUME Typed, MInv, NEW t \in Task, Active(t), NEW pc \in Pc, Goto(t, pc), Calm,
         pc \in {"store", "done", "forget"} => HoldsAnswer(t) \/ In(t, Early),
         pc \in Early => In(t, Early)
  PROVE  MInv'
<1>1. OnlyTask(t) /\ task'[t] \in Handler /\ task'[t] = [task[t] EXCEPT !.pc = pc] /\ task'[t].pc = pc
  BY GotoFields
<1>2. /\ task'[t].room = task[t].room /\ task'[t].may = task[t].may /\ task'[t].list = task[t].list
      /\ task'[t].lost = task[t].lost
  BY <1>1, Fields DEF Handler
<1>3. HoldsAnswer(t)' => task[t].list = {} \/ (RightList(t) /\ SharedList(t))
  BY <1>1, MayFields DEF HoldsAnswer, In
<1>4. In(t, Early)' => task'[t].list = {}
  BY <1>1, <1>2, MayFields DEF In
<1> QED BY <1>1, <1>2, <1>3, <1>4, MayFields, OneKeepsMay DEF RightList, SharedList

\* A hit: who is in the entry without being a member is stale, or leaves.
LEMMA HitKeepsMay ==
  ASSUME Typed, CInv, MInv, NEW t \in Task, NEW from \in {"isMember", "get", "recheck"},
         NEW to \in {"use", "done"}, Hit(t, from, to)
  PROVE  MInv'
<1> DEFINE r == task[t].room
<1>0. from \in Pc /\ to \in Pc
  BY DEF Pc
<1>1. /\ OnlyTask(t) /\ Active(t) /\ task[t].pc = from /\ r \in index
      /\ task'[t] \in Handler /\ task'[t].pc = to
      /\ task'[t].room = r /\ task'[t].list = entry[r]
      /\ task'[t].lost = IF to = "done" THEN Users(stale, r) ELSE {}
      /\ task'[t].may = task[t].may \cup Users(stale, r)
  BY <1>0, HitFields
<1>2. Calm
  BY DEF Hit, Touch, room, Calm
<1>3. r \in Room
  BY <1>1, Fields
<1>4. task'[t].list \subseteq task'[t].may \cup Odd(r)
  BY <1>1, MayFields
<1>5. to = "done" => task'[t].list \subseteq task'[t].lost \cup Odd(r) \cup members[r] \cup Leaving(r)
  BY <1>1, <1>3, KnownEntry
<1>6. to = "done" => \A x \in Task : Active(x) /\ task[x].room = r =>
                       task'[t].list \subseteq task[x].may \cup task'[t].lost \cup Odd(r)
  BY <1>1, MayFields
<1>7. (HoldsAnswer(t)' => to = "done") /\ ~In(t, Early)'
  BY <1>1 DEF HoldsAnswer, In, Early
<1> QED BY <1>1, <1>2, <1>4, <1>5, <1>6, <1>7, OneKeepsMay

\* The answer of another's flight about the same room.
LEMMA FollowKeepsMay ==
  ASSUME Typed, MInv, NEW t \in Task, NEW l \in Task, Follow(t, l)
  PROVE  MInv'
<1>1. Calm
  BY DEF Follow, cache, room, Calm
<1>2. /\ OnlyTask(t) /\ Active(t) /\ task[l].room = task[t].room /\ task[t].pc = "enter"
      /\ task'[t] \in Handler /\ task'[t].room = task[t].room
      /\ \/ /\ task[l].pc = "forget"
            /\ task'[t].pc = "use" /\ task'[t].list = task[l].list
            /\ task'[t].may = task[t].may \cup task[l].lost
         \/ /\ task'[t].pc = "wait" /\ task'[t].list = task[t].list
            /\ task'[t].may = task[t].may
  BY FollowFields
<1>3. task[l].pc = "forget" =>
        task[l].list \subseteq task[t].may \cup task[l].lost \cup Odd(task[t].room)
  BY <1>2 DEF MInv, MayAnswer, SharedList, HoldsAnswer, In
<1>4. task[t].may \subseteq task'[t].may /\ task'[t].list \subseteq task'[t].may \cup Odd(task[t].room)
  BY <1>2, <1>3, MayFields
<1>5. ~HoldsAnswer(t)' /\ ~In(t, Early)'
  BY <1>2 DEF HoldsAnswer, In, Early
<1> QED BY <1>1, <1>2, <1>4, <1>5, OneKeepsMay

\* An answer names only members, and those it is wrong about.
LEMMA AnsweredKeepsMay ==
  ASSUME Typed, MInv, NEW t \in Task, NEW answer \in SUBSET User, Answered(t, answer)
  PROVE  MInv'
<1>1. Calm
  BY DEF Answered, cache, room, Calm
<1>2. /\ OnlyTask(t) /\ Active(t) /\ task'[t] \in Handler /\ task'[t].pc = "store"
      /\ task'[t].room = task[t].room /\ task'[t].list = answer
      /\ task'[t].lost = Wrong(t, answer) /\ task'[t].may = task[t].may \cup Wrong(t, answer)
  BY AnsweredFields
<1>3. answer \subseteq members[task[t].room] \cup Wrong(t, answer)
  BY DEF Wrong
<1>4. \A x \in Task : Active(x) /\ task[x].room = task[t].room =>
        members[task[t].room] \subseteq task[x].may
  BY MayFields
<1>5. ~In(t, Early)'
  BY <1>2 DEF In, Early
<1> QED BY <1>1, <1>2, <1>3, <1>4, <1>5, OneKeepsMay

\* The leader goes on with its own answer.
LEMMA ForgetKeepsMay ==
  ASSUME Typed, MInv, NEW t \in Task, Forget(t)
  PROVE  MInv'
<1>1. Calm
  BY DEF Forget, cache, room, Calm
<1>2. /\ OnlyTask(t) /\ Active(t) /\ task'[t] \in Handler /\ task'[t].pc = "use"
      /\ task'[t].room = task[t].room /\ task'[t].list = task[t].list /\ task'[t].may = task[t].may
  BY ForgetFields
<1>3. ~HoldsAnswer(t)' /\ ~In(t, Early)'
  BY <1>2 DEF HoldsAnswer, In, Early
<1> QED BY <1>1, <1>2, <1>3, MayFields, OneKeepsMay

\* The answer becomes the entry, and whom it is wrong about becomes stale.
LEMMA StoreKeepsMay ==
  ASSUME Typed, MInv, NEW t \in Task, Store(t)
  PROVE  MInv'
<1> USE DEF OnlyTask
<1> DEFINE r == task[t].room
<1>1. Active(t) /\ HoldsAnswer(t) /\ r \in Room
  <2>1. Active(t) /\ HoldsAnswer(t)
    BY DEF Store, In, Active, HoldsAnswer
  <2> QED BY <2>1, Fields
<1>2. /\ UNCHANGED <<members, due, crossed, inbox, trespass>>
      /\ \A q \in index' : q # r => q \in index /\ q \in Room /\ entry'[q] = entry[q]
                                 /\ Users(stale, q) \subseteq Users(stale', q)
      /\ entry'[r] = task[t].list
      /\ task[t].lost \subseteq Users(stale', r)
  <2>1. UNCHANGED <<members, due, crossed, inbox, trespass>>
    BY DEF Store, room
  <2>2. ASSUME NEW q \in index', q # r
        PROVE  q \in index /\ q \in Room /\ q \notin Victims(r)
    BY <1>1, <2>2 DEF Store, Set, Typed
  <2>3. ASSUME NEW q \in index', q # r
        PROVE  entry'[q] = entry[q] /\ Users(stale, q) \subseteq Users(stale', q)
    BY <2>2, <2>3 DEF Store, Set, Users
  <2>4. entry'[r] = task[t].list
    BY <1>1 DEF Store, Set
  <2>5. task[t].lost \subseteq User
    BY <1>1, Fields
  <2>6. task[t].lost \subseteq Users(stale', r)
    BY <2>5 DEF Store, Users
  <2> QED BY <2>1, <2>2, <2>3, <2>4, <2>6
<1>3. OnlyTask(t) /\ task'[t] = [task[t] EXCEPT !.pc = "done"] /\ task'[t].pc = "done"
  BY <1>1, GotoFields DEF Store, Pc
<1>4. /\ task'[t].room = task[t].room /\ task'[t].may = task[t].may /\ task'[t].list = task[t].list
      /\ task'[t].lost = task[t].lost
  BY <1>1, <1>3, Fields DEF Handler
<1>5. \A x \in Task : /\ task'[x].room = task[x].room /\ task'[x].may = task[x].may
                      /\ task'[x].list = task[x].list /\ task'[x].lost = task[x].lost
                      /\ Active(x)' => Active(x)
                      /\ HoldsAnswer(x)' => HoldsAnswer(x)
                      /\ In(x, Early)' => In(x, Early)
  BY <1>1, <1>3, <1>4 DEF Active, HoldsAnswer, In, Early
<1>6. LeaveFollows' /\ OnlyMembersServed'
  BY <1>2, StillRooms DEF MInv, LeaveFollows, OnlyMembersServed, Exempt
<1>7. AnswerRight'
  BY <1>2, <1>5 DEF MInv, AnswerRight, RightList, Odd, Users, Leaving, Queued
<1>8. MayAnswer'
  BY <1>2, <1>5 DEF MInv, MayAnswer, SharedList, Odd, Users
<1>9. MayMembers' /\ MayJoining'
  <2>1. MayMembers'
    BY <1>2, <1>5 DEF MInv, MayMembers
  <2>2. MayJoining'
    BY <1>2, <1>5 DEF MInv, MayJoining, Joining, Queued, Odd, Users
  <2> QED BY <2>1, <2>2
<1>10. MayEntry'
  <2> SUFFICES ASSUME NEW x \in Task, Active(x), task[x].room \in index'
               PROVE  entry'[task[x].room] \subseteq
                        task[x].may \cup Users(stale', task[x].room) \cup Odd(task[x].room)
    BY <1>2, <1>5 DEF MayEntry, Odd, Users
  <2>1. CASE task[x].room = r
    <3>1. task[t].list \subseteq task[x].may \cup task[t].lost \cup Odd(r)
      BY <1>1, <2>1 DEF MInv, MayAnswer, SharedList
    <3> QED BY <1>2, <2>1, <3>1
  <2>2. CASE task[x].room # r
    BY <1>2, <2>2, MayFields
  <2> QED BY <2>1, <2>2
<1>11. MayList' /\ NotYet'
  <2>1. MayList'
    BY <1>2, <1>5 DEF MInv, MayList, Odd, Users
  <2>2. NotYet'
    BY <1>5 DEF MInv, NotYet
  <2> QED BY <2>1, <2>2
<1> QED BY <1>6, <1>7, <1>8, <1>9, <1>10, <1>11 DEF MInv

\* Those who wait get an answer about their room.
LEMMA DoneKeepsMay ==
  ASSUME Typed, FlightsHold, MInv, NEW t \in Task, Done(t)
  PROVE  MInv'
<1>1. Active(t) /\ HoldsAnswer(t) /\ task[t].pc = "done"
  BY DEF Done, Active, HoldsAnswer, In
<1>2. /\ task'[t].room = task[t].room /\ task'[t].may = task[t].may /\ task'[t].list = task[t].list
      /\ task'[t].lost = task[t].lost /\ task'[t].pc = "forget"
  <2>1. task'[t] = [task[t] EXCEPT !.pc = "forget"]
    BY DoneFields
  <2> QED BY <1>1, <2>1, Fields DEF Handler
<1>3. ASSUME NEW x \in Task, x # t, task'[x] # task[x]
      PROVE  /\ Active(x) /\ task'[x].pc = "use" /\ task'[x].room = task[x].room
             /\ task[x].may \subseteq task'[x].may
             /\ task'[x].list \subseteq task'[x].may \cup Odd(task[x].room)
  <2>1. task[x].pc = "wait" /\ task[x].leader = t /\ Active(x) /\ task'[x] = Given(x, t)
    BY <1>3, DoneFields
  <2>2. task[x].room = task[t].room
    BY <2>1 DEF FlightsHold, In
  <2>3. task[t].list \subseteq task[x].may \cup task[t].lost \cup Odd(task[x].room)
    BY <1>1, <2>1, <2>2 DEF MInv, MayAnswer, SharedList
  <2> QED BY <1>1, <2>1, <2>3, GivenFields
<1>4. Calm
  BY DEF Done, cache, room, Calm
<1>5. \A x \in Task : /\ Active(x)' => Active(x) /\ task'[x].room = task[x].room
                                    /\ task[x].may \subseteq task'[x].may
                      /\ HoldsAnswer(x)' => HoldsAnswer(x) /\ task'[x].list = task[x].list
                           /\ task'[x].lost = task[x].lost
                      /\ In(x, Early)' => task'[x] = task[x]
  BY <1>1, <1>2, <1>3 DEF Active, HoldsAnswer, In, Early
<1>6. LeaveFollows' /\ OnlyMembersServed' /\ MayMembers' /\ MayJoining' /\ MayEntry'
  <2>1. LeaveFollows' /\ OnlyMembersServed'
    BY <1>4, StillRooms DEF MInv, LeaveFollows, OnlyMembersServed, Exempt, Calm
  <2>2. MayMembers'
    BY <1>4, <1>5 DEF MInv, MayMembers, Calm
  <2>3. MayJoining'
    BY <1>4, <1>5 DEF MInv, MayJoining, Joining, Queued, Odd, Users, Calm
  <2>4. MayEntry'
    BY <1>4, <1>5 DEF MInv, MayEntry, Odd, Users, Calm
  <2> QED BY <2>1, <2>2, <2>3, <2>4
<1>7. \A x \in Task : HoldsAnswer(x)' => Active(x)'
  BY DEF HoldsAnswer, Active, In
<1>8. AnswerRight'
  <2>1. \A x \in Task : HoldsAnswer(x)' =>
          /\ RightList(x) /\ task'[x].room = task[x].room /\ task'[x].list = task[x].list
          /\ task'[x].lost = task[x].lost
    BY <1>5, <1>7, MayFields
  <2> QED BY <1>4, <2>1 DEF AnswerRight, RightList, Odd, Users, Leaving, Queued, Calm
<1>9. MayAnswer'
  BY <1>4, <1>5, <1>7 DEF MInv, MayAnswer, SharedList, Odd, Users, Calm
<1>10. MayList'
  <2> SUFFICES ASSUME NEW x \in Task, Active(x)'
               PROVE  task'[x].list \subseteq task'[x].may \cup Odd(task[x].room)
    BY <1>4, <1>5 DEF MayList, Odd, Users, Calm
  <2>1. CASE task'[x] = task[x]
    BY <1>5, <2>1, MayFields
  <2>2. CASE task'[x] # task[x] /\ x # t
    BY <1>3, <2>2
  <2>3. CASE x = t
    BY <1>1, <1>2, <2>3, MayFields
  <2> QED BY <2>1, <2>2, <2>3
<1>11. NotYet'
  BY <1>5 DEF MInv, NotYet, In
<1> QED BY <1>6, <1>8, <1>9, <1>10, <1>11 DEF MInv

\* A handler that ends acted only for whom it may.
LEMMA EndKeepsMay ==
  ASSUME Typed, MInv, NEW t \in Task, Decide(t) \/ Enqueue(t)
  PROVE  MInv'
<1> USE DEF OnlyTask
<1>1. Active(t) /\ OnlyTask(t) /\ task'[t].pc = "idle"
      /\ UNCHANGED <<members, due, crossed, inbox, index, entry, stale>>
  BY EndFields DEF Decide, Enqueue, Active, In, Idle, cache, room
<1>2. trespass' = {}
  <2>1. task[t].list \subseteq task[t].may \cup Odd(task[t].room) /\ trespass = {}
    BY <1>1, MayFields DEF MInv, OnlyMembersServed
  <2>2. \E users : users \subseteq task[t].list /\ ActFor(t, users)
    BY DEF Decide, Enqueue
  <2>3. ({task[t].room} \X Odd(task[t].room)) \ crossed = {}
    BY DEF Odd, Users
  <2>4. PICK users : users \subseteq task[t].list /\ ActFor(t, users)
    BY <2>2
  <2>5. users \ task[t].may \subseteq Odd(task[t].room)
    BY <2>1, <2>4
  <2>6. ({task[t].room} \X (users \ task[t].may)) \ crossed = {}
    BY <2>3, <2>5
  <2> QED BY <2>1, <2>4, <2>6 DEF ActFor
<1>3. \A x \in Task : /\ Active(x)' => task'[x] = task[x] /\ Active(x)
                      /\ HoldsAnswer(x)' => task'[x] = task[x] /\ HoldsAnswer(x)
                      /\ In(x, Early)' => task'[x] = task[x]
  BY <1>1 DEF Active, HoldsAnswer, In, Early
<1>4. LeaveFollows' /\ OnlyMembersServed'
  BY <1>1, <1>2, StillRooms DEF MInv, LeaveFollows, OnlyMembersServed, Exempt
<1>5. AnswerRight'
  BY <1>1, <1>3 DEF MInv, AnswerRight, RightList, Odd, Users, Leaving, Queued
<1>6. MayAnswer'
  BY <1>1, <1>3 DEF MInv, MayAnswer, SharedList, Odd, Users
<1>7. MayMembers' /\ MayEntry'
  BY <1>1, <1>3 DEF MInv, MayMembers, MayEntry, Odd, Users
<1>8. MayJoining'
  BY <1>1, <1>3 DEF MInv, MayJoining, Joining, Queued, Odd, Users
<1>9. MayList'
  BY <1>1, <1>3 DEF MInv, MayList, Odd, Users
<1>10. NotYet'
  BY <1>3 DEF MInv, NotYet, In
<1> QED BY <1>4, <1>5, <1>6, <1>7, <1>8, <1>9, <1>10 DEF MInv

\* What the steps outside the handlers leave a handler at work with.
LEMMA AlikeHandlers ==
  ASSUME Typed, Environment \/ Deliver, NEW t \in Task
  PROVE  /\ Active(t)' => Active(t)
         /\ HoldsAnswer(t)' => HoldsAnswer(t) /\ Active(t)
         /\ In(t, Early)' => In(t, Early) /\ Active(t)
         /\ Active(t) => /\ task'[t].room = task[t].room /\ task'[t].list = task[t].list
                         /\ task[t].may \subseteq task'[t].may
                         /\ task[t].room \in Room
BY AllAlike, Fields DEF Alike, Active, HoldsAnswer, In, Early

LEMMA CrossedGrows ==
  ASSUME Environment \/ Deliver
  PROVE  UNCHANGED trespass /\ \A r : Odd(r) \subseteq Odd(r)'
<1>1. crossed \subseteq crossed' /\ UNCHANGED trespass
  <2>1. ASSUME NEW r \in Room, NEW u \in User, NEW action, Change(r, u, action)
        PROVE  crossed \subseteq crossed' /\ UNCHANGED trespass
    BY <2>1 DEF Change
  <2>2. ASSUME NEW delta \in due, Publish(delta) \/ NeverPublished(delta)
        PROVE  crossed \subseteq crossed' /\ UNCHANGED trespass
    BY <2>2 DEF Publish, NeverPublished
  <2>3. CASE Disconnect \/ Deliver
    BY <2>3 DEF Disconnect, Deliver, room
  <2> QED BY <2>1, <2>2, <2>3 DEF Environment
<1> QED BY <1>1 DEF Odd, Users

LEMMA AlikeKeepsMay ==
  ASSUME Typed, MInv, Environment \/ Deliver
  PROVE  /\ MayList' /\ NotYet' /\ OnlyMembersServed'
         /\ (\A t \in Task : Active(t) => task[t].lost \subseteq task'[t].lost) => MayAnswer'
<1>1. MayList'
  <2> SUFFICES ASSUME NEW t \in Task, Active(t)', NEW r, r = task[t].room
               PROVE  task'[t].list \subseteq task'[t].may \cup Odd(r)'
    BY AlikeHandlers DEF MayList, Odd, Users
  <2> QED BY AlikeHandlers, CrossedGrows, MayFields
<1>2. NotYet'
  BY AlikeHandlers DEF MInv, NotYet
<1>3. OnlyMembersServed'
  BY CrossedGrows DEF MInv, OnlyMembersServed
<1>4. ASSUME \A t \in Task : Active(t) => task[t].lost \subseteq task'[t].lost
      PROVE  MayAnswer'
  <2> SUFFICES ASSUME NEW l \in Task, HoldsAnswer(l)', NEW x \in Task, Active(x)',
                      task'[x].room = task'[l].room, NEW r, r = task[l].room
               PROVE  task'[l].list \subseteq task'[x].may \cup task'[l].lost \cup Odd(r)'
    <3>1. \A x \in Task : HoldsAnswer(x)' => task'[x].room = task[x].room
      BY AlikeHandlers
    <3> QED BY <3>1 DEF MayAnswer, SharedList, Odd, Users
  <2>1. HoldsAnswer(l) /\ Active(l) /\ Active(x) /\ task[x].room = task[l].room
    BY AlikeHandlers
  <2>2. task[l].list \subseteq task[x].may \cup task[l].lost \cup Odd(r)
    BY <2>1, MayFields DEF SharedList
  <2>3. task[x].may \subseteq task'[x].may /\ task'[l].list = task[l].list
        /\ task[l].lost \subseteq task'[l].lost /\ Odd(r) \subseteq Odd(r)'
    BY <1>4, <2>1, AlikeHandlers, CrossedGrows
  <2> QED BY <2>2, <2>3
<1> QED BY <1>1, <1>2, <1>3, <1>4

\* Where the sets of a room, its entry and the records grow, what they bound stays.
LEMMA GrowsKeepsMay ==
  ASSUME Typed, MInv, Environment,
         LeaveFollows',
         UNCHANGED <<index, entry>>, stale \subseteq stale',
         \A t \in Task : Active(t) => task[t].lost \subseteq task'[t].lost,
         \A t \in Task, r \in Room : HoldsAnswer(t) /\ task[t].room = r =>
           members[r] \cup Leaving(r) \subseteq members'[r] \cup Leaving(r)' \cup task'[t].lost \cup Odd(r)',
         \A t \in Task, r \in Room : Active(t) /\ task[t].room = r =>
           members'[r] \subseteq task'[t].may /\ Joining(r)' \subseteq task'[t].may \cup Odd(r)'
  PROVE  MInv'
<1>1. MayList' /\ NotYet' /\ OnlyMembersServed' /\ MayAnswer'
  BY AlikeKeepsMay
<1>2. AnswerRight'
  <2> SUFFICES ASSUME NEW t \in Task, HoldsAnswer(t)', NEW r \in Room, r = task[t].room
               PROVE  task'[t].list \subseteq
                        task'[t].lost \cup Odd(r)' \cup members'[r] \cup Leaving(r)'
    <3>1. \A x \in Task : HoldsAnswer(x)' => task'[x].room = task[x].room /\ task[x].room \in Room
      BY AlikeHandlers
    <3> QED BY <3>1 DEF AnswerRight, RightList, Odd, Users, Leaving, Queued
  <2>1. HoldsAnswer(t) /\ Active(t) /\ task'[t].list = task[t].list
    BY AlikeHandlers
  <2>2. task[t].list \subseteq task[t].lost \cup Odd(r) \cup members[r] \cup Leaving(r)
    BY <2>1, MayFields DEF RightList
  <2>3. Odd(r) \subseteq Odd(r)' /\ task[t].lost \subseteq task'[t].lost
    BY <2>1, CrossedGrows
  <2> QED BY <2>1, <2>2, <2>3
<1>3. MayMembers'
  BY AlikeHandlers DEF MayMembers
<1>4. MayJoining'
  <2>1. \A t \in Task : Active(t)' => task'[t].room = task[t].room /\ Active(t) /\ task[t].room \in Room
    BY AlikeHandlers
  <2> QED BY <2>1 DEF MayJoining, Joining, Queued, Odd, Users
<1>5. MayEntry'
  <2> SUFFICES ASSUME NEW t \in Task, Active(t)', NEW r \in index, r = task[t].room
               PROVE  entry[r] \subseteq task'[t].may \cup Users(stale', r) \cup Odd(r)'
    <3>1. \A t \in Task : Active(t)' => task'[t].room = task[t].room
      BY AlikeHandlers
    <3> QED BY <3>1 DEF MayEntry, Odd, Users
  <2>1. Users(stale, r) \subseteq Users(stale', r)
    BY DEF Users
  <2> QED BY <2>1, AlikeHandlers, CrossedGrows, MayFields
<1> QED BY <1>1, <1>2, <1>3, <1>4, <1>5 DEF MInv

\* Who joins may be acted for; who leaves does so by a delta that is due.
LEMMA ChangeKeepsMay ==
  ASSUME Typed, CInv, MInv, NEW r \in Room, NEW u \in User, NEW action \in {"join", "leave"},
         Change(r, u, action)
  PROVE  MInv'
<1> DEFINE p == <<r, u>>
           d == [action |-> action, pair |-> p]
<1>1. UNCHANGED <<inbox, link, index, entry, stale>> /\ due' = due \cup {d} /\ crossed \subseteq crossed'
  BY DEF Change, cache
<1>2. \A x \in Room, v \in User : <<x, v>> # p => (v \in members'[x] <=> v \in members[x])
  BY DEF Change, Typed
<1>3. u \in members'[r] <=> action = "join"
  BY DEF Change, Typed
<1>4. d.pair = p /\ Environment /\ Queued' = Queued
  BY <1>1 DEF Environment, Queued
<1>5. Pairs(due)' = Pairs(due) \cup {p}
  BY <1>1, <1>4 DEF Pairs
<1>6. LeaveFollows'
  <2> SUFFICES ASSUME NEW i \in 1..Len(inbox), inbox[i].pair \notin Exempt'
               PROVE  \/ inbox[i].pair[2] \in members'[inbox[i].pair[1]]
                      \/ \E j \in 1..Len(inbox) :
                           j >= i /\ inbox[j] = [action |-> "leave", pair |-> inbox[i].pair]
    BY <1>1 DEF LeaveFollows
  <2>2. inbox[i].pair \notin Exempt /\ inbox[i].pair # p
    BY <1>1, <1>5 DEF Exempt
  <2>3. inbox[i] \in Delta
    BY QueuedTypes
  <2> QED BY <1>2, <2>2, <2>3, DeltaParts DEF MInv, LeaveFollows
<1>7. \A t \in Task : Active(t) => task'[t].lost = task[t].lost
                                   /\ (action = "join" => Users({p}, task[t].room) \subseteq task'[t].may)
  <2>1. \A t \in Task : task'[t] = IF action = "join" THEN Joined(t, p) ELSE task[t]
    BY DEF Change
  <2> QED BY <2>1, JoinedIs
<1>8. ASSUME NEW t \in Task, Active(t), NEW x \in Room, x = task[t].room
      PROVE  /\ members[x] \cup Leaving(x) \subseteq members'[x] \cup Leaving(x)'
             /\ members'[x] \subseteq task'[t].may
             /\ Joining(x)' \subseteq task'[t].may \cup Odd(x)'
  <2>1. task[t].may \subseteq task'[t].may /\ members[x] \subseteq task[t].may
        /\ Joining(x) \subseteq task[t].may \cup Odd(x) /\ Odd(x) \subseteq Odd(x)'
    BY <1>4, <1>8, AlikeHandlers, CrossedGrows, MayFields
  <2>2. Leaving(x) \subseteq Leaving(x)'
    BY <1>1, <1>4 DEF Leaving
  <2>3. members[x] \subseteq User /\ members'[x] \subseteq User
    BY <2>1 DEF Change, Typed
  <2>4. x = r /\ action = "join" => u \in task'[t].may
    BY <1>7, <1>8 DEF Users
  <2>5. x = r /\ action = "leave" => u \in Leaving(x)'
    BY <1>1, <1>4 DEF Leaving
  <2>6. ASSUME NEW v \in members[x]
        PROVE  v \in members'[x] \cup Leaving(x)'
    BY <1>2, <1>3, <2>1, <2>3, <2>5, <2>6
  <2>7. ASSUME NEW v \in members'[x]
        PROVE  v \in task'[t].may
    BY <1>2, <1>3, <2>1, <2>3, <2>4, <2>7
  <2>8. ASSUME NEW v \in Joining(x)'
        PROVE  v \in task'[t].may \cup Odd(x)'
    <3>1. v \in User /\ ([action |-> "join", pair |-> <<x, v>>] \in due \cup Queued
                         \/ [action |-> "join", pair |-> <<x, v>>] = d)
      BY <1>1, <1>4, <2>8 DEF Joining
    <3>2. CASE [action |-> "join", pair |-> <<x, v>>] \in due \cup Queued
      BY <2>1, <3>1, <3>2 DEF Joining
    <3>3. CASE [action |-> "join", pair |-> <<x, v>>] = d
      BY <2>4, <3>3
    <3> QED BY <3>1, <3>2, <3>3
  <2> QED BY <2>2, <2>6, <2>7, <2>8
<1>9. \A t \in Task : HoldsAnswer(t) => Active(t)
  BY DEF HoldsAnswer, In, Active
<1> QED BY <1>1, <1>4, <1>6, <1>7, <1>8, <1>9, GrowsKeepsMay

\* A leave published stays to come, or passes by the answers held.
LEMMA PublishKeepsMay ==
  ASSUME Typed, CInv, MInv, NEW delta \in due, Publish(delta)
  PROVE  MInv'
<1> DEFINE p == delta.pair
<1>1. UNCHANGED <<members, crossed, link, index, entry>> /\ due' = due \ {delta} /\ stale \subseteq stale'
  BY DEF Publish, cache
<1>2. delta \in Delta /\ p = <<p[1], p[2]>> /\ delta = [action |-> delta.action, pair |-> p]
      /\ delta.action \in {"join", "leave"}
  BY DeltaParts DEF Typed
<1>3. Pairs(due) \subseteq Pairs(due)' \cup {p} /\ Environment
  BY <1>1 DEF Pairs, Environment
<1>4. p \notin crossed => Says(delta)
  BY DEF CInv, DueRight
<1>5. \A r : Odd(r)' = Odd(r)
  BY <1>1 DEF Odd, Users
<1>6. /\ link # "down" =>
           /\ Len(inbox) \in Nat /\ Len(inbox') = Len(inbox) + 1 /\ inbox'[Len(inbox) + 1] = delta
           /\ \A i \in 1..Len(inbox) : i \in 1..Len(inbox') /\ inbox'[i] = inbox[i]
           /\ Queued' = Queued \cup {delta}
      /\ link = "down" => inbox' = <<>> /\ Queued' = {} /\ Queued = {}
  <2>1. CASE link # "down"
    <3>1. inbox' = Append(inbox, delta)
      BY <2>1 DEF Publish
    <3>2. Len(inbox) \in Nat /\ Len(inbox') = Len(inbox) + 1 /\ inbox'[Len(inbox) + 1] = delta
          /\ \A i \in 1..Len(inbox) : inbox'[i] = inbox[i]
      BY <1>2, <3>1 DEF Typed
    <3>3. \A i \in 1..Len(inbox) : i \in 1..Len(inbox')
      BY <3>2
    <3>4. \A i \in 1..Len(inbox') : i \in 1..Len(inbox) \/ i = Len(inbox) + 1
      BY <3>2
    <3>5. Len(inbox) + 1 \in 1..Len(inbox')
      BY <3>2
    <3>6. Queued' = Queued \cup {delta}
      BY <3>2, <3>3, <3>4, <3>5 DEF Queued
    <3> QED BY <2>1, <3>2, <3>3, <3>6
  <2>2. CASE link = "down"
    <3>1. inbox = <<>> /\ inbox' = <<>>
      BY <2>2 DEF Publish, CInv, InboxEmpty
    <3> QED BY <2>2, <3>1 DEF Queued
  <2> QED BY <2>1, <2>2
<1>7. LeaveFollows'
  <2> SUFFICES ASSUME link # "down", NEW i \in 1..Len(inbox'), inbox'[i].pair \notin Exempt',
                      inbox'[i].pair[2] \notin members[inbox'[i].pair[1]]
               PROVE  \E j \in 1..Len(inbox') :
                        j >= i /\ inbox'[j] = [action |-> "leave", pair |-> inbox'[i].pair]
    BY <1>1, <1>6 DEF LeaveFollows
  <2>1. inbox'[i].pair \notin crossed \cup Pairs(due)'
    BY <1>1 DEF Exempt
  <2>2. Len(inbox) + 1 \in 1..Len(inbox') /\ Len(inbox) + 1 >= i
    BY <1>6
  <2>3. CASE inbox'[i].pair = p
    <3>1. delta.action = "leave"
      BY <1>2, <1>4, <2>1, <2>3 DEF Says
    <3> QED BY <1>2, <1>6, <2>2, <2>3, <3>1
  <2>4. CASE inbox'[i].pair # p
    <3>1. i \in 1..Len(inbox) /\ inbox'[i] = inbox[i]
      BY <1>6, <2>4
    <3>2. inbox[i].pair \notin Exempt
      BY <1>3, <2>1, <2>4, <3>1 DEF Exempt
    <3>3. PICK j \in 1..Len(inbox) : j >= i /\ inbox[j] = [action |-> "leave", pair |-> inbox[i].pair]
      BY <3>1, <3>2 DEF MInv, LeaveFollows
    <3> QED BY <1>6, <3>1, <3>3
  <2> QED BY <2>3, <2>4
<1>8. \A t \in Task : /\ Active(t) => task[t].lost \subseteq task'[t].lost
                      /\ link = "down" /\ HoldsAnswer(t) => Users({p}, task[t].room) \subseteq task'[t].lost
  <2>1. \A t \in Task : task'[t] = Deprived(t, IF link = "down" THEN {p} ELSE {})
    BY DEF Publish
  <2> QED BY <2>1, DeprivedIs
<1>9. ASSUME NEW t \in Task, HoldsAnswer(t), NEW r, r = task[t].room, NEW v \in Leaving(r)
      PROVE  v \in Leaving(r)' \cup task'[t].lost
  <2> DEFINE e == [action |-> "leave", pair |-> <<r, v>>]
  <2>1. v \in User /\ e \in due \cup Queued
    BY <1>9 DEF Leaving
  <2>2. CASE e \in due' \cup Queued'
    BY <2>1, <2>2 DEF Leaving
  <2>3. CASE e \notin due' \cup Queued'
    <3>1. e = delta /\ link = "down"
      BY <1>1, <1>6, <2>1, <2>3
    <3>2. p = <<r, v>>
      BY <3>1
    <3> QED BY <1>8, <1>9, <2>1, <3>1, <3>2 DEF Users
  <2> QED BY <2>2, <2>3
<1>10. \A r : Joining(r)' \subseteq Joining(r)
  BY <1>1, <1>6 DEF Joining
<1>11. \A t \in Task : Active(t) => task[t].may \subseteq task'[t].may
  BY <1>3, AlikeHandlers
<1>12. \A t \in Task, r \in Room : HoldsAnswer(t) /\ task[t].room = r =>
        members[r] \cup Leaving(r) \subseteq members'[r] \cup Leaving(r)' \cup task'[t].lost \cup Odd(r)'
  BY <1>1, <1>9
<1>13. \A t \in Task, r \in Room : Active(t) /\ task[t].room = r =>
        members'[r] \subseteq task'[t].may /\ Joining(r)' \subseteq task'[t].may \cup Odd(r)'
  BY <1>1, <1>5, <1>10, <1>11, MayFields
<1> QED BY <1>1, <1>3, <1>7, <1>8, <1>12, <1>13, GrowsKeepsMay

\* Of whom nothing is announced nothing is said any more.
LEMMA NeverPublishedKeepsMay ==
  ASSUME Typed, MInv, NEW delta \in due, NeverPublished(delta)
  PROVE  MInv'
<1> DEFINE p == delta.pair
<1>1. /\ UNCHANGED <<members, inbox, link, index, entry, stale, task>>
      /\ due' = due \ {delta} /\ crossed' = crossed \cup {p}
  BY DEF NeverPublished, cache
<1>2. Pairs(due) \subseteq Pairs(due)' \cup {p} /\ Environment /\ Queued' = Queued
  BY <1>1 DEF Pairs, Environment, Queued
<1>3. LeaveFollows'
  <2>1. Exempt \subseteq Exempt'
    BY <1>1, <1>2 DEF Exempt
  <2> QED BY <1>1, <2>1 DEF MInv, LeaveFollows
<1>4. ASSUME NEW r, NEW v \in Leaving(r)
      PROVE  v \in Leaving(r)' \cup Odd(r)'
  <2>1. v \in User /\ [action |-> "leave", pair |-> <<r, v>>] \in due \cup Queued
    BY <1>4 DEF Leaving
  <2>2. CASE [action |-> "leave", pair |-> <<r, v>>] \in due' \cup Queued'
    BY <2>1, <2>2 DEF Leaving
  <2>3. CASE [action |-> "leave", pair |-> <<r, v>>] = delta
    <3>1. p = <<r, v>>
      BY <2>3
    <3> QED BY <1>1, <2>1, <3>1 DEF Odd, Users
  <2> QED BY <1>1, <1>2, <2>1, <2>2, <2>3
<1>5. \A r : Joining(r)' \subseteq Joining(r) /\ Odd(r) \subseteq Odd(r)'
  BY <1>1, <1>2 DEF Joining, Odd, Users
<1>6. \A t \in Task, r \in Room : HoldsAnswer(t) /\ task[t].room = r =>
        members[r] \cup Leaving(r) \subseteq members'[r] \cup Leaving(r)' \cup task'[t].lost \cup Odd(r)'
  BY <1>1, <1>4
<1>7. \A t \in Task, r \in Room : Active(t) /\ task[t].room = r =>
        members'[r] \subseteq task'[t].may /\ Joining(r)' \subseteq task'[t].may \cup Odd(r)'
  BY <1>1, <1>5, MayFields
<1> QED BY <1>1, <1>2, <1>3, <1>6, <1>7, GrowsKeepsMay

\* What was queued passes by the entries and the answers held.
LEMMA DisconnectKeepsMay ==
  ASSUME Typed, CInv, MInv, Disconnect
  PROVE  MInv'
<1>1. /\ UNCHANGED <<members, due, crossed, index, entry>> /\ inbox' = <<>>
      /\ stale \subseteq stale'
  BY DEF Disconnect, cache, room
<1>2. LeaveFollows' /\ Environment /\ Queued' = {}
  BY <1>1 DEF LeaveFollows, Environment, Queued
<1>3. \A r : Odd(r)' = Odd(r) /\ Joining(r)' \subseteq Joining(r)
  BY <1>1, <1>2 DEF Odd, Users, Joining
<1>4. \A t \in Task : /\ Active(t) => task[t].lost \subseteq task'[t].lost
                      /\ HoldsAnswer(t) => Users(Pairs(Queued), task[t].room) \subseteq task'[t].lost
  <2>1. \A t \in Task : task'[t] = Deprived(t, Pairs(Queued))
    BY DEF Disconnect
  <2> QED BY <2>1, DeprivedIs
<1>5. ASSUME NEW t \in Task, HoldsAnswer(t), NEW r, r = task[t].room, NEW v \in Leaving(r)
      PROVE  v \in Leaving(r)' \cup task'[t].lost
  <2> DEFINE e == [action |-> "leave", pair |-> <<r, v>>]
  <2>1. v \in User /\ e \in due \cup Queued
    BY <1>5 DEF Leaving
  <2>2. CASE e \in due
    BY <1>1, <2>1, <2>2 DEF Leaving
  <2>3. CASE e \in Queued
    <3>1. <<r, v>> \in Pairs(Queued)
      BY <2>3 DEF Pairs
    <3> QED BY <1>4, <1>5, <2>1, <3>1 DEF Users
  <2> QED BY <2>1, <2>2, <2>3
<1>6. \A t \in Task : Active(t) => task[t].may \subseteq task'[t].may
  BY <1>2, AlikeHandlers
<1>7. \A t \in Task, r \in Room : HoldsAnswer(t) /\ task[t].room = r =>
        members[r] \cup Leaving(r) \subseteq members'[r] \cup Leaving(r)' \cup task'[t].lost \cup Odd(r)'
  BY <1>1, <1>5
<1>8. \A t \in Task, r \in Room : Active(t) /\ task[t].room = r =>
        members'[r] \subseteq task'[t].may /\ Joining(r)' \subseteq task'[t].may \cup Odd(r)'
  BY <1>1, <1>3, <1>6, MayFields
<1> QED BY <1>1, <1>2, <1>4, <1>7, <1>8, GrowsKeepsMay

\* Whom a delta adds to an entry, or finds in an answer, is one that may be let in.
LEMMA DeliverKeepsMay ==
  ASSUME Typed, CInv, MInv, Deliver
  PROVE  MInv'
<1> DEFINE d == inbox[1]
<1>1. d = Head(inbox) /\ d \in Delta /\ 1 \in 1..Len(inbox)
  BY TailFields
<1>2. /\ d.pair[1] \in Room /\ d.pair[2] \in User /\ d.pair = <<d.pair[1], d.pair[2]>>
      /\ d = [action |-> d.action, pair |-> d.pair] /\ d.action \in {"join", "leave"}
  BY <1>1, DeltaParts
<1>3. /\ UNCHANGED <<members, due, crossed, trespass>>
      /\ ApplyDelta(d.action, d.pair[1], d.pair[2]) /\ stale' = stale \ {d.pair}
      /\ \A t \in Task : task'[t] = Passed(t, d)
  BY <1>1 DEF Deliver, room
<1>4. Queued \subseteq Queued' \cup {d} /\ Queued' \subseteq Queued
  <2>1. ASSUME NEW i \in 1..Len(inbox)
        PROVE  inbox[i] \in Queued' \cup {d}
    <3>1. CASE i = 1
      BY <3>1
    <3>2. CASE i # 1
      <4>1. i - 1 \in 1..Len(inbox') /\ inbox'[i - 1] = inbox[i]
        BY <3>2, TailFields
      <4> QED BY <4>1 DEF Queued
    <3> QED BY <3>1, <3>2
  <2>2. ASSUME NEW i \in 1..Len(inbox')
        PROVE  inbox'[i] \in Queued
    <3>1. i + 1 \in 1..Len(inbox) /\ inbox'[i] = inbox[i + 1]
      BY TailFields
    <3> QED BY <3>1 DEF Queued
  <2> QED BY <2>1, <2>2 DEF Queued
<1>5. \A r : Odd(r)' = Odd(r) /\ Joining(r)' \subseteq Joining(r)
  BY <1>3, <1>4 DEF Odd, Users, Joining
<1>6. ASSUME NEW r, NEW u \in Leaving(r), d # [action |-> "leave", pair |-> <<r, u>>]
      PROVE  u \in Leaving(r)'
  BY <1>3, <1>4, <1>6 DEF Leaving
<1>7. MayList' /\ NotYet' /\ OnlyMembersServed'
  BY AlikeKeepsMay
<1>8. LeaveFollows'
  <2> SUFFICES ASSUME NEW i \in 1..Len(inbox'), inbox'[i].pair \notin Exempt,
                      inbox'[i].pair[2] \notin members[inbox'[i].pair[1]]
               PROVE  \E j \in 1..Len(inbox') :
                        j >= i /\ inbox'[j] = [action |-> "leave", pair |-> inbox'[i].pair]
    BY <1>3 DEF LeaveFollows, Exempt, Pairs
  <2>1. i + 1 \in 1..Len(inbox) /\ inbox'[i] = inbox[i + 1]
    BY TailFields
  <2>2. PICK j \in 1..Len(inbox) :
          j >= i + 1 /\ inbox[j] = [action |-> "leave", pair |-> inbox[i + 1].pair]
    BY <2>1 DEF MInv, LeaveFollows
  <2>3. j # 1
    BY <2>2
  <2>4. j - 1 \in 1..Len(inbox') /\ inbox'[j - 1] = inbox[j]
    BY <2>3, TailFields
  <2>5. j - 1 >= i
    BY <2>2
  <2> QED BY <2>1, <2>2, <2>4, <2>5
<1>9. \A r \in Room, u \in User : d = [action |-> "join", pair |-> <<r, u>>] =>
        u \in Joining(r) /\ u \in Odd(r) \cup members[r] \cup Leaving(r)
  <2>1. d \in Queued /\ d.pair \in Pairs(Queued)
    BY <1>1 DEF Queued, Pairs
  <2>2. d.pair \in Open
    BY <2>1 DEF Open
  <2> QED BY <2>1, <2>2, KnownLater DEF Joining, MInv
<1>10. AnswerRight'
  <2> SUFFICES ASSUME NEW t \in Task, HoldsAnswer(t)', NEW r \in Room, r = task[t].room,
                      NEW u \in task'[t].list, u \notin task'[t].lost
               PROVE  u \in Odd(r)' \/ u \in members[r] \/ u \in Leaving(r)'
    <3>1. \A x \in Task : HoldsAnswer(x)' => task'[x].room = task[x].room /\ task[x].room \in Room
      BY AlikeHandlers
    <3> QED BY <1>3, <3>1 DEF AnswerRight, RightList, Odd, Users, Leaving, Queued
  <2>1. HoldsAnswer(t) /\ Active(t) /\ task'[t].list = task[t].list /\ u \in User
    <3>1. HoldsAnswer(t) /\ Active(t) /\ task'[t].list = task[t].list
      BY AlikeHandlers
    <3> QED BY <3>1, Fields
  <2>2. CASE d.pair = <<r, u>>
    <3>1. d.action = "join"
      BY <1>1, <1>3, <2>1, <2>2, PassedIs
    <3>2. d = [action |-> "join", pair |-> <<r, u>>]
      BY <1>2, <2>2, <3>1
    <3>3. u \in Odd(r) \/ u \in members[r] \/ u \in Leaving(r)
      BY <1>9, <2>1, <3>2
    <3>4. d # [action |-> "leave", pair |-> <<r, u>>]
      BY <3>1
    <3>5. u \in Leaving(r) => u \in Leaving(r)'
      BY <1>6, <3>4
    <3>6. u \in Odd(r) => u \in Odd(r)'
      BY <1>5
    <3> QED BY <3>3, <3>5, <3>6
  <2>3. CASE d.pair # <<r, u>>
    <3>1. u \notin task[t].lost
      BY <1>1, <1>3, <2>1, <2>3, PassedIs
    <3>2. u \in Odd(r) \/ u \in members[r] \/ u \in Leaving(r)
      BY <2>1, <3>1, MayFields DEF RightList
    <3>3. d # [action |-> "leave", pair |-> <<r, u>>]
      BY <2>3
    <3>4. u \in Leaving(r) => u \in Leaving(r)'
      BY <1>6, <3>3
    <3>5. u \in Odd(r) => u \in Odd(r)'
      BY <1>5
    <3> QED BY <3>2, <3>4, <3>5
  <2> QED BY <2>2, <2>3
<1>11. \A t \in Task : Active(t) => task'[t].may = task[t].may
  BY <1>1, <1>3, PassedIs
<1>12. MayAnswer'
  <2> SUFFICES ASSUME NEW l \in Task, HoldsAnswer(l)', NEW x \in Task, Active(x)',
                      task'[x].room = task'[l].room, NEW r, r = task[l].room,
                      NEW u \in task'[l].list, u \notin task'[l].lost
               PROVE  u \in task'[x].may \cup Odd(r)'
    <3>1. \A y \in Task : HoldsAnswer(y)' => task'[y].room = task[y].room
      BY AlikeHandlers
    <3> QED BY <3>1 DEF MayAnswer, SharedList, Odd, Users
  <2>1. /\ HoldsAnswer(l) /\ Active(l) /\ Active(x) /\ task[x].room = r /\ r \in Room
        /\ task'[l].list = task[l].list
    BY AlikeHandlers
  <2>2. u \in User
    BY <2>1, Fields
  <2>3. CASE d.pair = <<r, u>>
    <3>1. d.action = "join"
      BY <1>1, <1>3, <2>1, <2>2, <2>3, PassedIs
    <3>2. u \in Joining(r)
      BY <1>2, <1>9, <2>1, <2>2, <2>3, <3>1
    <3> QED BY <1>5, <1>11, <2>1, <3>2, MayFields
  <2>4. CASE d.pair # <<r, u>>
    <3>1. u \notin task[l].lost
      BY <1>1, <1>3, <2>1, <2>2, <2>4, PassedIs
    <3> QED BY <1>5, <1>11, <2>1, <3>1, MayFields DEF SharedList
  <2> QED BY <2>3, <2>4
<1>13. MayMembers'
  BY <1>3, <1>11, AlikeHandlers DEF MInv, MayMembers
<1>14. MayJoining'
  <2> SUFFICES ASSUME NEW t \in Task, Active(t)', NEW r, r = task[t].room
               PROVE  Joining(r)' \subseteq task'[t].may \cup Odd(r)'
    <3>1. \A x \in Task : Active(x)' => task'[x].room = task[x].room
      BY AlikeHandlers
    <3> QED BY <3>1 DEF MayJoining, Joining, Queued, Odd, Users
  <2> QED BY <1>5, <1>11, AlikeHandlers, MayFields
<1>15. MayEntry'
  <2> SUFFICES ASSUME NEW t \in Task, Active(t), NEW r \in index', r = task[t].room,
                      NEW v \in entry'[r], v \notin task[t].may, v \notin Odd(r)
               PROVE  v \in Users(stale', r)
    <3>1. \A x \in Task : Active(x)' => task'[x].room = task[x].room /\ Active(x)
      BY AlikeHandlers
    <3> QED BY <1>3, <1>11, <3>1 DEF MayEntry, Odd, Users
  <2>1. r \in index /\ r \in Room
    BY <1>3 DEF ApplyDelta, cache, Typed
  <2>2. d.action = "join" /\ d.pair[1] = r => d.pair[2] \in task[t].may \cup Odd(r)
    BY <1>2, <1>9, <2>1, MayFields
  <2>3. v \in entry[r] /\ d.pair # <<r, v>>
    <3>1. CASE d.pair[1] # r
      BY <1>3, <2>1, <3>1 DEF ApplyDelta, Typed, cache
    <3>2. CASE d.pair[1] = r
      <4>1. r \in index /\ entry'[r] = IF d.action = "join" THEN entry[r] \cup {d.pair[2]}
                                                           ELSE entry[r] \ {d.pair[2]}
        BY <1>3, <2>1, <3>2 DEF ApplyDelta, Typed
      <4> QED BY <1>2, <2>2, <3>2, <4>1
    <3> QED BY <3>1, <3>2
  <2>4. v \in Users(stale, r)
    BY <2>1, <2>3, MayFields
  <2> QED BY <1>3, <2>3, <2>4 DEF Users
<1> QED BY <1>7, <1>8, <1>10, <1>12, <1>13, <1>14, <1>15 DEF MInv

\* Without a handler at work only the queue and trespass count.
LEMMA NoneKeepsMay ==
  ASSUME MInv, task' = [x \in Task |-> Idle], inbox' = <<>>, UNCHANGED trespass
  PROVE  MInv'
<1>1. \A x \in Task : ~Active(x)' /\ ~HoldsAnswer(x)' /\ ~In(x, Early)'
  BY DEF Active, HoldsAnswer, In, Idle, Early
<1>2. LeaveFollows' /\ OnlyMembersServed'
  BY DEF MInv, LeaveFollows, OnlyMembersServed
<1>3. AnswerRight' /\ MayAnswer' /\ MayMembers' /\ MayJoining' /\ MayEntry' /\ MayList' /\ NotYet'
  BY <1>1 DEF AnswerRight, MayAnswer, MayMembers, MayJoining, MayEntry, MayList, NotYet
<1> QED BY <1>2, <1>3 DEF MInv

\* The steps of a handler, one by one.
LEMMA HandleKeepsMay ==
  ASSUME Typed, FlightsHold, CInv, MInv, NEW t \in Task, Handle(t)
  PROVE  MInv'
<1>1. CASE \/ Miss(t, "isMember", "get") \/ Miss(t, "get", "enter") \/ Miss(t, "recheck", "ask")
           \/ Lead(t) \/ AskFails(t)
  <2>1. /\ task[t].pc \in Early
        /\ \E pc \in {"get", "enter", "recheck", "ask", "done"} : Goto(t, pc)
        /\ Calm
    BY <1>1 DEF Miss, Lead, AskFails, In, cache, room, Calm, Early
  <2>2. PICK pc \in {"get", "enter", "recheck", "ask", "done"} : Goto(t, pc)
    BY <2>1
  <2> QED BY <2>1, <2>2, GotoKeepsMay DEF Active, In, Pc, Early
<1>2. Hit(t, "isMember", "use") => MInv'
  BY HitKeepsMay
<1>3. Hit(t, "get", "use") => MInv'
  BY HitKeepsMay
<1>4. Hit(t, "recheck", "done") => MInv'
  BY HitKeepsMay
<1>5. CASE EnqueueClosed(t)
  BY <1>5, NoneKeepsMay DEF EnqueueClosed, Ends
<1>6. CASE \E l \in Task : Follow(t, l)
  BY <1>6, FollowKeepsMay
<1> QED BY <1>1, <1>2, <1>3, <1>4, <1>5, <1>6, AnsweredKeepsMay, StoreKeepsMay, DoneKeepsMay,
           ForgetKeepsMay, EndKeepsMay DEF Handle, Flight

\* Nobody is let in or sent a room's messages who was not a member at some moment
\* since the handler began, but for whom a delta was on its way, a lagging answer or
\* a lost delta left the cache wrong about, or whose changes crossed: for any rooms,
\* users, handlers and capacity.
THEOREM ServesMembers == Spec => []OnlyMembersServed
<1>1. Init => MInv
  <2> SUFFICES ASSUME Init
               PROVE  MInv
    OBVIOUS
  <2>1. \A x \in Task : ~Active(x) /\ ~HoldsAnswer(x) /\ ~In(x, Early)
    BY DEF Init, Active, HoldsAnswer, In, Idle, Early
  <2>2. LeaveFollows /\ OnlyMembersServed
    BY DEF Init, LeaveFollows, OnlyMembersServed
  <2>3. AnswerRight /\ MayAnswer /\ MayMembers /\ MayJoining /\ MayEntry /\ MayList /\ NotYet
    BY <2>1 DEF AnswerRight, MayAnswer, MayMembers, MayJoining, MayEntry, MayList, NotYet
  <2> QED BY <2>2, <2>3 DEF MInv
<1>2. Typed /\ FlightsHold /\ CInv /\ MInv /\ [Next]_vars => MInv'
  <2> SUFFICES ASSUME Typed, FlightsHold, CInv, MInv, [Next]_vars
               PROVE  MInv'
    OBVIOUS
  <2>1. CASE Arrive
    BY <2>1, ReceiveKeepsMay DEF Arrive, Task
  <2>2. CASE \E t \in Task : Handle(t)
    BY <2>2, HandleKeepsMay
  <2>3. CASE Environment
    BY <2>3, ChangeKeepsMay, PublishKeepsMay, NeverPublishedKeepsMay, DisconnectKeepsMay
       DEF Environment
  <2>4. CASE Deliver
    BY <2>4, DeliverKeepsMay
  <2>5. ASSUME UNCHANGED <<members, due, crossed, inbox, task, trespass>>,
               index' = {} \/ UNCHANGED <<index, entry, stale>>
        PROVE  MInv'
    <3>1. \A t \in Task : /\ Active(t)' <=> Active(t)
                          /\ HoldsAnswer(t)' <=> HoldsAnswer(t)
                          /\ RightList(t) => RightList(t)'
                          /\ SharedList(t) => SharedList(t)'
      BY <2>5 DEF Active, HoldsAnswer, In, RightList, SharedList, Odd, Users, Leaving, Queued
    <3>2. LeaveFollows' /\ AnswerRight' /\ MayAnswer' /\ OnlyMembersServed'
      BY <2>5, <3>1 DEF MInv, LeaveFollows, AnswerRight, MayAnswer, OnlyMembersServed, Exempt, Pairs
    <3>3. MayMembers' /\ NotYet'
      BY <2>5, <3>1 DEF MInv, MayMembers, NotYet, In
    <3>4. MayJoining' /\ MayList'
      BY <2>5, <3>1 DEF MInv, MayJoining, Joining, Queued, MayList, Odd, Users
    <3>5. MayEntry'
      BY <2>5, <3>1 DEF MInv, MayEntry, Odd, Users
    <3> QED BY <3>2, <3>3, <3>4, <3>5 DEF MInv
  <2>6. CASE Reconnect \/ Reset \/ Close \/ UNCHANGED vars
    BY <2>5, <2>6 DEF Reconnect, Reset, Close, vars, cache, room
  <2>7. CASE Exit
    BY <2>7, NoneKeepsMay DEF Exit, Ends
  <2> QED BY <2>1, <2>2, <2>3, <2>4, <2>6, <2>7 DEF Next
<1>3. MInv => OnlyMembersServed
  BY DEF MInv
<1> QED BY <1>1, <1>2, <1>3, TypedInvariant, FlightsCorrect, CacheInvariance, PTL DEF Spec

-------------------------------------------------------------------------------
\* The two structures of the LRU cache.  A room that leaves the list or goes to its
\* front leaves every other room its one place.
Rooms(s) == {s[i] : i \in 1..Len(s)}

Once(s) == \A i, j \in 1..Len(s) : s[i] = s[j] => i = j

LruInv == list \in Seq(Room) /\ Once(list) /\ index = Rooms(list) /\ Len(list) <= Cap

\* A room of a list that has every room once leaves it, the others stay.
LEMMA WithoutRooms ==
  ASSUME NEW s \in Seq(Room), Once(s), NEW r \in Rooms(s)
  PROVE  /\ Without(s, r) \in Seq(Room)
         /\ Len(Without(s, r)) = Len(s) - 1
         /\ Once(Without(s, r))
         /\ Rooms(Without(s, r)) = Rooms(s) \ {r}
<1> DEFINE i == CHOOSE j \in 1..Len(s) : s[j] = r
           a == SubSeq(s, 1, i - 1)
           b == SubSeq(s, i + 1, Len(s))
           w == a \o b
<1>1. i \in 1..Len(s) /\ s[i] = r
  BY DEF Rooms
<1>2. Without(s, r) = w
  BY DEF Without
<1> HIDE DEF i
<1>3. a \in Seq(Room) /\ Len(a) = i - 1 /\ \A j \in 1..(i - 1) : a[j] = s[j]
  BY <1>1
<1>4. b \in Seq(Room) /\ Len(b) = Len(s) - i /\ \A j \in 1..(Len(s) - i) : b[j] = s[i + j]
  BY <1>1
<1> HIDE DEF a, b
<1>5. w \in Seq(Room) /\ Len(w) = Len(s) - 1
  <2>1. w \in Seq(Room) /\ Len(w) = Len(a) + Len(b)
    BY <1>3, <1>4
  <2> QED BY <1>1, <1>3, <1>4, <2>1
<1>6. \A j \in 1..Len(w) : w[j] = IF j < i THEN s[j] ELSE s[j + 1]
  <2> SUFFICES ASSUME NEW j \in 1..Len(w)
               PROVE  w[j] = IF j < i THEN s[j] ELSE s[j + 1]
    OBVIOUS
  <2>1. CASE j < i
    <3>1. w[j] = a[j]
      BY <1>1, <1>3, <1>4, <1>5, <2>1
    <3> QED BY <1>1, <1>3, <2>1, <3>1
  <2>2. CASE ~(j < i)
    <3>1. w[j] = b[j - (i - 1)]
      BY <1>1, <1>3, <1>4, <1>5, <2>2
    <3>2. j - (i - 1) \in 1..(Len(s) - i) /\ i + (j - (i - 1)) = j + 1
      BY <1>1, <1>5, <2>2
    <3> QED BY <1>4, <2>2, <3>1, <3>2
  <2> QED BY <2>1, <2>2
<1> HIDE DEF w
<1>7. Once(w)
  <2> SUFFICES ASSUME NEW j \in 1..Len(w), NEW k \in 1..Len(w), w[j] = w[k]
               PROVE  j = k
    BY DEF Once
  <2> DEFINE P(n) == IF n < i THEN n ELSE n + 1
  <2>1. P(j) \in 1..Len(s) /\ P(k) \in 1..Len(s) /\ s[P(j)] = s[P(k)]
    BY <1>1, <1>5, <1>6
  <2>2. P(j) = P(k)
    BY <2>1 DEF Once
  <2> QED BY <1>1, <2>2
<1>8. Rooms(w) = Rooms(s) \ {r}
  <2>1. ASSUME NEW x \in Rooms(w)
        PROVE  x \in Rooms(s) /\ x # r
    <3>1. PICK j \in 1..Len(w) : w[j] = x
      BY <2>1 DEF Rooms
    <3>2. PICK k \in 1..Len(s) : s[k] = x /\ k # i
      BY <1>1, <1>5, <1>6, <3>1
    <3> QED BY <1>1, <3>2 DEF Rooms, Once
  <2>2. ASSUME NEW x \in Rooms(s), x # r
        PROVE  x \in Rooms(w)
    <3>1. PICK k \in 1..Len(s) : s[k] = x
      BY <2>2 DEF Rooms
    <3>2. k # i
      BY <1>1, <2>2, <3>1
    <3>3. PICK j \in 1..Len(w) : w[j] = x
      <4>1. CASE k < i
        BY <1>1, <1>5, <1>6, <3>1, <4>1
      <4>2. CASE k > i
        <5>1. k - 1 \in 1..Len(w) /\ ~(k - 1 < i) /\ (k - 1) + 1 = k
          BY <1>1, <1>5, <4>2
        <5> QED BY <1>6, <3>1, <5>1
      <4> QED BY <1>1, <3>2, <4>1, <4>2
    <3> QED BY <3>3 DEF Rooms
  <2> QED BY <2>1, <2>2
<1> QED BY <1>2, <1>5, <1>7, <1>8

\* A room that is not in the list comes to its front.
LEMMA PushedRooms ==
  ASSUME NEW s \in Seq(Room), Once(s), NEW r \in Room, r \notin Rooms(s)
  PROVE  /\ <<r>> \o s \in Seq(Room)
         /\ Len(<<r>> \o s) = Len(s) + 1
         /\ Once(<<r>> \o s)
         /\ Rooms(<<r>> \o s) = Rooms(s) \cup {r}
<1> DEFINE w == <<r>> \o s
<1>1. w \in Seq(Room) /\ Len(w) = Len(s) + 1
  OBVIOUS
<1>2. w[1] = r /\ \A j \in 1..Len(s) : w[j + 1] = s[j]
  OBVIOUS
<1> HIDE DEF w
<1>3. \A j \in 1..Len(w) : j = 1 \/ (j - 1 \in 1..Len(s) /\ w[j] = s[j - 1])
  <2> SUFFICES ASSUME NEW j \in 1..Len(w), j # 1
               PROVE  j - 1 \in 1..Len(s) /\ w[j] = s[j - 1]
    OBVIOUS
  <2>1. j - 1 \in 1..Len(s) /\ (j - 1) + 1 = j
    BY <1>1
  <2> QED BY <1>2, <2>1
<1>4. Once(w)
  <2> SUFFICES ASSUME NEW j \in 1..Len(w), NEW k \in 1..Len(w), w[j] = w[k]
               PROVE  j = k
    BY DEF Once
  <2>1. CASE j = 1 \/ k = 1
    BY <1>2, <1>3, <2>1 DEF Rooms
  <2>2. CASE j # 1 /\ k # 1
    <3>1. j - 1 \in 1..Len(s) /\ k - 1 \in 1..Len(s) /\ s[j - 1] = s[k - 1]
      BY <1>3, <2>2
    <3> QED BY <1>1, <3>1 DEF Once
  <2> QED BY <2>1, <2>2
<1>5. Rooms(w) = Rooms(s) \cup {r}
  <2>1. \A j \in 1..Len(s) : j + 1 \in 1..Len(w)
    BY <1>1
  <2>2. 1 \in 1..Len(w)
    BY <1>1
  <2>3. Rooms(s) \cup {r} \subseteq Rooms(w)
    BY <1>2, <2>1, <2>2 DEF Rooms
  <2>4. Rooms(w) \subseteq Rooms(s) \cup {r}
    <3>1. \A j \in 1..Len(w) : w[j] \in Rooms(s) \cup {r}
      <4> SUFFICES ASSUME NEW j \in 1..Len(w), j # 1
                   PROVE  w[j] \in Rooms(s)
        BY <1>2
      <4>1. j - 1 \in 1..Len(s) /\ w[j] = s[j - 1]
        BY <1>3
      <4> QED BY <4>1 DEF Rooms
    <3> QED BY <3>1 DEF Rooms
  <2> QED BY <2>3, <2>4
<1> QED BY <1>1, <1>4, <1>5 DEF w

\* The last of the list goes, the others stay.
LEMMA PoppedRooms ==
  ASSUME NEW s \in Seq(Room), Once(s), s # <<>>
  PROVE  /\ SubSeq(s, 1, Len(s) - 1) \in Seq(Room)
         /\ Len(SubSeq(s, 1, Len(s) - 1)) = Len(s) - 1
         /\ Once(SubSeq(s, 1, Len(s) - 1))
         /\ Rooms(SubSeq(s, 1, Len(s) - 1)) = Rooms(s) \ {s[Len(s)]}
<1> DEFINE n == Len(s) - 1
           w == SubSeq(s, 1, n)
<1>1. n \in Nat /\ n + 1 = Len(s)
  OBVIOUS
<1> HIDE DEF n
<1>2. w \in Seq(Room) /\ Len(w) = n /\ \A j \in 1..n : w[j] = s[j]
  BY <1>1
<1> HIDE DEF w
<1>3. \A j \in 1..Len(s) : j = Len(s) \/ (j \in 1..Len(w) /\ w[j] = s[j])
  BY <1>1, <1>2
<1>4. Once(w)
  BY <1>1, <1>2 DEF Once
<1>5. Rooms(w) = Rooms(s) \ {s[Len(s)]}
  BY <1>1, <1>2, <1>3 DEF Rooms, Once
<1> QED BY <1>2, <1>4, <1>5 DEF w, n

\* A list that has every room once is as long as its rooms are many.
LEMMA CountRooms ==
  ASSUME NEW s \in Seq(Room), Once(s)
  PROVE  Len(s) = Cardinality(Rooms(s))
<1>1. Len(s) \in Nat
  OBVIOUS
<1>2. s \in Bijection(1..Len(s), Rooms(s))
  BY DEF Once, Rooms, Bijection, Injection, Surjection, IsInjective
<1> QED BY <1>1, <1>2, FS_CountingElements DEF ExistsBijection

\* What is left of the list when an answer about r is put in front of it.
LEMMA KeptRooms ==
  ASSUME LruInv, NEW r \in Room
  PROVE  /\ KeptBy(r) \in Seq(Room)
         /\ Len(KeptBy(r)) < Cap
         /\ Once(KeptBy(r))
         /\ r \notin Rooms(KeptBy(r))
         /\ Rooms(KeptBy(r)) = index \ (Victims(r) \cup {r})
<1>0. Len(list) \in Nat /\ Cap \in Nat \ {0}
  BY CapAssumption DEF LruInv
<1>1. CASE r \in index
  BY <1>0, <1>1, WithoutRooms DEF LruInv, KeptBy, Victims
<1>2. CASE r \notin index /\ Len(list) < Cap
  BY <1>0, <1>2 DEF LruInv, KeptBy, Victims
<1>3. CASE r \notin index /\ ~(Len(list) < Cap)
  <2>1. list # <<>> /\ Victims(r) = {list[Len(list)]} /\ KeptBy(r) = SubSeq(list, 1, Len(list) - 1)
    BY <1>0, <1>3 DEF LruInv, KeptBy, Victims
  <2> QED BY <1>0, <1>3, <2>1, PoppedRooms DEF LruInv
<1> QED BY <1>1, <1>2, <1>3

\* A cached room becomes the most recently used.
LEMMA TouchKeeps ==
  ASSUME LruInv, NEW r \in index, Touch(r)
  PROVE  LruInv'
<1>1. r \in Room /\ r \in Rooms(list) /\ Len(list) \in Nat
  BY DEF LruInv, Rooms
<1>2. LET w == Without(list, r)
      IN  w \in Seq(Room) /\ Len(w) = Len(list) - 1 /\ Once(w) /\ Rooms(w) = index \ {r}
  BY <1>1, WithoutRooms DEF LruInv
<1> DEFINE w == Without(list, r)
<1> HIDE DEF w
<1>3. list' \in Seq(Room) /\ Len(list') = Len(list) /\ Once(list') /\ Rooms(list') = index
  <2>1. w \in Seq(Room) /\ Len(w) = Len(list) - 1 /\ Once(w) /\ Rooms(w) = index \ {r}
    BY <1>2 DEF w
  <2>2. /\ <<r>> \o w \in Seq(Room) /\ Len(<<r>> \o w) = Len(w) + 1 /\ Once(<<r>> \o w)
        /\ Rooms(<<r>> \o w) = Rooms(w) \cup {r}
    BY <1>1, <2>1, PushedRooms
  <2>3. list' = <<r>> \o w
    BY DEF Touch, w
  <2>4. Len(w) + 1 = Len(list) /\ Rooms(w) \cup {r} = index
    BY <1>1, <2>1
  <2> QED BY <2>2, <2>3, <2>4
<1>4. Once(list)' /\ Rooms(list)' = index'
  BY <1>3 DEF Touch, Once, Rooms
<1> QED BY <1>3, <1>4 DEF LruInv

\* An answer is stored.
LEMMA SetKeeps ==
  ASSUME LruInv, NEW r \in Room, NEW users, Set(r, users)
  PROVE  LruInv'
<1>1. /\ KeptBy(r) \in Seq(Room) /\ Len(KeptBy(r)) < Cap /\ Once(KeptBy(r))
      /\ r \notin Rooms(KeptBy(r)) /\ Rooms(KeptBy(r)) = index \ (Victims(r) \cup {r})
  BY KeptRooms
<1>2. list' = <<r>> \o KeptBy(r) /\ index' = (index \ Victims(r)) \cup {r}
  BY DEF Set
<1>3. /\ list' \in Seq(Room) /\ Len(list') = Len(KeptBy(r)) + 1 /\ Once(list')
      /\ Rooms(list') = (index \ (Victims(r) \cup {r})) \cup {r}
  BY <1>1, <1>2, PushedRooms
<1>4. Once(list)' /\ Rooms(list)' = index' /\ Len(list') <= Cap
  BY <1>1, <1>2, <1>3, CapAssumption DEF Once, Rooms
<1> QED BY <1>3, <1>4 DEF LruInv

\* A delta is applied.
LEMMA ApplyKeeps ==
  ASSUME LruInv, NEW action, NEW r, NEW u, ApplyDelta(action, r, u)
  PROVE  LruInv'
<1>1. CASE UNCHANGED <<index, list>>
  BY <1>1 DEF LruInv, Once, Rooms
<1>2. CASE r \in index /\ index' = index \ {r} /\ list' = Without(list, r)
  <2>1. Len(list) \in Nat /\ Cap \in Nat
    BY CapAssumption DEF LruInv
  <2>2. list' \in Seq(Room) /\ Len(list') = Len(list) - 1 /\ Once(list') /\ Rooms(list') = index'
    BY <1>2, WithoutRooms DEF LruInv
  <2>3. Once(list)' /\ Rooms(list)' = index'
    BY <2>2 DEF Once, Rooms
  <2> QED BY <2>1, <2>2, <2>3 DEF LruInv
<1> QED BY <1>1, <1>2 DEF ApplyDelta, cache

\* An empty cache.
LEMMA EmptyLru ==
  ASSUME index' = {}, list' = <<>>
  PROVE  LruInv'
BY CapAssumption DEF LruInv, Once, Rooms

\* The two structures of the cache stay together, whatever is done with them.
LEMMA LruInvariance == Spec => []LruInv
<1>1. Init => LruInv
  BY CapAssumption DEF Init, LruInv, Once, Rooms
<1>2. Typed /\ LruInv /\ [Next]_vars => LruInv'
  <2> SUFFICES ASSUME Typed, LruInv, [Next]_vars
               PROVE  LruInv'
    OBVIOUS
  <2>1. ASSUME UNCHANGED cache
        PROVE  LruInv'
    BY <2>1 DEF cache, LruInv, Once, Rooms
  <2>2. ASSUME NEW t \in Task, Handle(t)
        PROVE  LruInv'
    <3>1. ASSUME NEW from, NEW to, Hit(t, from, to)
          PROVE  LruInv'
      BY <3>1, TouchKeeps DEF Hit
    <3>2. CASE Store(t)
      <4>1. task[t].room \in Room
        BY <3>2, Fields DEF Store, Active, In
      <4> QED BY <3>2, <4>1, SetKeeps DEF Store
    <3>3. CASE EnqueueClosed(t)
      BY <3>3, EmptyLru DEF EnqueueClosed, Ends
    <3>4. CASE \E l \in Task : Follow(t, l)
      BY <2>1, <3>4 DEF Follow
    <3>5. CASE Lead(t) \/ AskFails(t) \/ Done(t) \/ Forget(t) \/ Decide(t) \/ Enqueue(t)
      <4>1. UNCHANGED cache
        <5>1. CASE Lead(t) \/ AskFails(t) \/ Done(t)
          BY <5>1 DEF Lead, AskFails, Done
        <5>2. CASE Forget(t)
          BY <5>2 DEF Forget
        <5>3. CASE Decide(t) \/ Enqueue(t)
          BY <5>3 DEF Decide, Enqueue
        <5> QED BY <3>5, <5>1, <5>2, <5>3
      <4> QED BY <2>1, <4>1
    <3>6. CASE \E answer \in SUBSET User : Answered(t, answer)
      <4>1. UNCHANGED cache
        BY <3>6 DEF Answered
      <4> QED BY <2>1, <4>1
    <3>7. ASSUME NEW from, NEW to, Miss(t, from, to)
          PROVE  LruInv'
      BY <2>1, <3>7 DEF Miss
    <3> QED BY <2>2, <3>1, <3>2, <3>3, <3>4, <3>5, <3>6, <3>7 DEF Handle, Flight
  <2>3. CASE Deliver
    BY <2>3, ApplyKeeps DEF Deliver
  <2>4. CASE Reset \/ Exit
    BY <2>4, EmptyLru DEF Reset, Exit, Ends
  <2>5. CASE Environment
    BY <2>1, <2>5 DEF Environment, Change, Publish, NeverPublished, Disconnect
  <2>6. CASE Arrive \/ Reconnect \/ Close \/ UNCHANGED vars
    BY <2>1, <2>6 DEF Arrive, Receive, Reconnect, Close, vars
  <2> QED BY <2>2, <2>3, <2>4, <2>5, <2>6 DEF Next
<1> QED BY <1>1, <1>2, TypedInvariant, PTL DEF Spec

\* Every variable of the process keeps its type, for any rooms, users, handlers and
\* capacity.
THEOREM TypeCorrect == Spec => []TypeOK
<1>1. Typed /\ LruInv => TypeOK
  BY DEF Typed, LruInv, TypeOK
<1> QED BY <1>1, TypedInvariant, LruInvariance, PTL

\* Index and list of the LRU cache name the same rooms, each once, and no more than
\* its capacity, whatever sequence of hits, fills, deltas and resets.
THEOREM LruCorrect == Spec => []IndexMatchesList
<1>1. LruInv => IndexMatchesList
  BY CountRooms DEF LruInv, IndexMatchesList, Rooms
<1> QED BY <1>1, LruInvariance, PTL

=============================================================================
