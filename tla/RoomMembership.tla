---------------------------- MODULE RoomMembership ----------------------------
(***************************************************************************)
(* Who is in which room, as room-service replicates it.                    *)
(*                                                                         *)
(* The truth is the ROOMS key-value bucket: one key "room.user" per        *)
(* member.  Every replica of the service keeps a forward index of it, mem, *)
(* built from a snapshot of the bucket and from the room.changed.* deltas  *)
(* all replicas publish.  A change is three calls, addToRoom and           *)
(* removeFromRoom of the code: the bucket, the local index, the delta.     *)
(* Callers on different replicas, and on different subscriptions of one    *)
(* replica, interleave between the three.                                  *)
(***************************************************************************)
EXTENDS Naturals, Sequences, FiniteSets

CONSTANTS
  Room, User,
  Replica,      \* running copies of room-service
  Task,         \* goroutines that can be inside addToRoom / removeFromRoom
  RoomTypes,    \* values of the delta's type field
  MaxInbox,     \* bound: deltas queued for one replica, counting those to come
  KvFails,      \* may a call to the bucket return an error?
  Crashes,      \* may a replica crash and restart?
  Disconnects   \* may a replica lose its NATS connection and get it back?

ASSUME BoundAssumption == MaxInbox \in Nat

ASSUME FaultAssumption == {KvFails, Crashes, Disconnects} \subseteq BOOLEAN

VARIABLES
  kv,      \* the ROOMS bucket: the pairs that have a key
  mem,     \* mem[s]: localMembership of replica s
  inbox,   \* inbox[s]: room.changed deltas NATS holds for s, oldest first
  op,      \* op[t]: the addToRoom or removeFromRoom call task t is in
  phase,   \* phase[s]: connection and hydration state of s
  snap,    \* snap[s]: what the hydration under way at s has read, {} otherwise
  raced,   \* history: pairs whose changes overlapped, or lost their delta
  missed,  \* history: <<s, p>>: hydration of s overwrote a newer value of p
  dirty    \* history: dirty[s]: pairs s changed since its snapshot was read

vars == <<kv, mem, inbox, op, phase, snap, raced, missed, dirty>>

Pair == Room \X User

Action == {"join", "leave"}

Delta == [action : Action, pair : Pair, type : RoomTypes]

\* "lost" has no connection; "resync" is reconnected but not yet hydrated.
\* The ...Read phases are between the bucket's snapshot and its swap into mem.
Phase == {"down", "boot", "bootRead", "ready", "lost", "resync", "resyncRead"}

Connected(s) == phase[s] \notin {"down", "lost"}

Serving(s) == phase[s] \in {"ready", "resync", "resyncRead"}

Idle == [pc |-> "idle"]

Call == [pc : {"kv", "local", "publish"}, action : Action, at : Replica, pair : Pair]

\* Task t has changed the bucket for p and not yet told the other replicas.
Unannounced(t, p) == op[t].pc \in {"local", "publish"} /\ op[t].pair = p

Quiet(p) == \A t \in Task : ~Unannounced(t, p)

Pending(s, p) == \E i \in 1..Len(inbox[s]) : inbox[s][i].pair = p

(***************************************************************************)
(* localMembership and the delta subscription.                             *)
(***************************************************************************)
Apply(members, action, p) ==
  IF action = "join" THEN members \cup {p} ELSE members \ {p}

ApplyAt(s, action, p) ==
  /\ mem' = [mem EXCEPT ![s] = Apply(@, action, p)]
  /\ dirty' = [dirty EXCEPT ![s] = IF phase[s] \in {"bootRead", "resyncRead"}
                                     THEN @ \cup {p} ELSE @]

Deliver(s) ==
  /\ Connected(s)
  /\ inbox[s] # <<>>
  /\ ApplyAt(s, Head(inbox[s]).action, Head(inbox[s]).pair)
  /\ inbox' = [inbox EXCEPT ![s] = Tail(@)]
  /\ UNCHANGED <<kv, op, phase, snap, raced, missed>>

(***************************************************************************)
(* addToRoom and removeFromRoom.                                           *)
(***************************************************************************)
InboxRoom ==
  \A s \in Replica :
    Len(inbox[s]) + Cardinality({t \in Task : op[t] # Idle}) < MaxInbox

Start(t, s, action, p) ==
  /\ op[t] = Idle
  /\ Serving(s)
  /\ InboxRoom
  /\ op' = [op EXCEPT ![t] = [pc |-> "kv", action |-> action, at |-> s, pair |-> p]]
  /\ UNCHANGED <<kv, mem, inbox, phase, snap, raced, missed, dirty>>

\* Faulty variant: the call is marked instead of being given up.
EndMarked(t) == op' = [op EXCEPT ![t].pc = "done"]

End(t) == op' = [op EXCEPT ![t] = Idle]

\* The changes of p by t and by another task overlap: nothing orders their deltas.
NoteRace(t, p) ==
  raced' = IF \E u \in Task \ {t} : Unannounced(u, p) THEN raced \cup {p} ELSE raced

\* kv.Create succeeds on a key that is not there; kv.Delete writes its marker
\* whether or not the key is there.
KvChange(t) ==
  LET p == op[t].pair IN
  /\ op[t].pc = "kv"
  /\ Connected(op[t].at)
  /\ op[t].action = "join" => p \notin kv
  /\ kv' = Apply(kv, op[t].action, p)
  /\ op' = [op EXCEPT ![t].pc = "local"]
  /\ NoteRace(t, p)
  /\ UNCHANGED <<mem, inbox, phase, snap, missed, dirty>>

\* ErrKeyExists and ErrKeyNotFound: the call returns nil and announces nothing.
KvNoChange(t) ==
  /\ op[t].pc = "kv"
  /\ Connected(op[t].at)
  /\ (op[t].action = "join") = (op[t].pair \in kv)
  /\ End(t)
  /\ UNCHANGED <<kv, mem, inbox, phase, snap, raced, missed, dirty>>

\* The bucket's answer is an error or is lost: the caller gives up, whether or
\* not the change was made.
KvError(t) ==
  LET p == op[t].pair IN
  /\ op[t].pc = "kv"
  /\ KvFails \/ ~Connected(op[t].at)
  /\ End(t)
  /\ \/ UNCHANGED <<kv, raced>>
     \/ /\ op[t].action = "join" => p \notin kv
        /\ kv' = Apply(kv, op[t].action, p)
        /\ raced' = raced \cup {p}
  /\ UNCHANGED <<mem, inbox, phase, snap, missed, dirty>>

\* Faulty variant: the delta is forgotten.
UpdateLocalOnly(t) ==
  /\ op[t].pc = "local"
  /\ ApplyAt(op[t].at, op[t].action, op[t].pair)
  /\ End(t)
  /\ UNCHANGED <<kv, inbox, phase, snap, raced, missed>>

UpdateLocal(t) ==
  /\ op[t].pc = "local"
  /\ ApplyAt(op[t].at, op[t].action, op[t].pair)
  /\ op' = [op EXCEPT ![t].pc = "publish"]
  /\ UNCHANGED <<kv, inbox, phase, snap, raced, missed>>

\* publishDelta: every connected replica gets the delta, this one too.  The
\* client library holds back what is published while it has no connection.
PublishDelta(t, type) ==
  LET delta == [action |-> op[t].action, pair |-> op[t].pair, type |-> type] IN
  /\ op[t].pc = "publish"
  /\ Connected(op[t].at)
  /\ inbox' = [s \in Replica |-> IF Connected(s) THEN Append(inbox[s], delta) ELSE inbox[s]]
  /\ End(t)
  /\ UNCHANGED <<kv, mem, phase, snap, raced, missed, dirty>>

(***************************************************************************)
(* Start-up, hydration, crashes and reconnection of a replica.             *)
(***************************************************************************)
Read(s) == IF phase[s] = "boot" THEN "bootRead" ELSE "resyncRead"

\* The subscription to room.changed.* is in place when the bucket is read.
HydrateRead(s) ==
  /\ phase[s] \in {"boot", "resync"}
  /\ snap' = [snap EXCEPT ![s] = kv]
  /\ dirty' = [dirty EXCEPT ![s] = {}]
  /\ phase' = [phase EXCEPT ![s] = Read(s)]
  /\ UNCHANGED <<kv, mem, inbox, op, raced, missed>>

Hydrated(s) ==
  /\ phase' = [phase EXCEPT ![s] = "ready"]
  /\ snap' = [snap EXCEPT ![s] = {}]
  /\ dirty' = [dirty EXCEPT ![s] = {}]

\* Faulty variant: the subscription is made after the index is in place.
HydrateSwapDeaf(s) ==
  /\ phase[s] \in {"bootRead", "resyncRead"}
  /\ mem' = [mem EXCEPT ![s] = snap[s]]
  /\ inbox' = [inbox EXCEPT ![s] = <<>>]
  /\ missed' = missed \cup ({s} \X dirty[s])
  /\ Hydrated(s)
  /\ UNCHANGED <<kv, op, raced>>

\* swapFrom replaces the whole index: what was applied since the read is gone.
HydrateSwap(s) ==
  /\ phase[s] \in {"bootRead", "resyncRead"}
  /\ mem' = [mem EXCEPT ![s] = snap[s]]
  /\ missed' = missed \cup ({s} \X dirty[s])
  /\ Hydrated(s)
  /\ UNCHANGED <<kv, inbox, op, raced>>

\* No watcher, no JetStream context or no bucket: the replica logs the error and
\* goes on with the index it has.
HydrateFail(s) ==
  /\ KvFails
  /\ phase[s] \in {"boot", "resync"}
  /\ missed' = missed \cup ({s} \X Pair)
  /\ Hydrated(s)
  /\ UNCHANGED <<kv, mem, inbox, op, raced>>

Crash(s) ==
  /\ Crashes
  /\ phase[s] # "down"
  /\ phase' = [phase EXCEPT ![s] = "down"]
  /\ mem' = [mem EXCEPT ![s] = {}]
  /\ inbox' = [inbox EXCEPT ![s] = <<>>]
  /\ snap' = [snap EXCEPT ![s] = {}]
  /\ dirty' = [dirty EXCEPT ![s] = {}]
  /\ op' = [t \in Task |-> IF op[t] # Idle /\ op[t].at = s THEN Idle ELSE op[t]]
  /\ raced' = raced \cup {p \in Pair : \E t \in Task : Unannounced(t, p) /\ op[t].at = s}
  /\ UNCHANGED <<kv, missed>>

Restart(s) ==
  /\ phase[s] = "down"
  /\ phase' = [phase EXCEPT ![s] = "boot"]
  /\ UNCHANGED <<kv, mem, inbox, op, snap, raced, missed, dirty>>

\* Deltas NATS had not handed over are gone, and so are those published until
\* the subscription is renewed.
Disconnect(s) ==
  /\ Disconnects
  /\ Serving(s)
  /\ phase' = [phase EXCEPT ![s] = "lost"]
  /\ inbox' = [inbox EXCEPT ![s] = <<>>]
  /\ snap' = [snap EXCEPT ![s] = {}]
  /\ dirty' = [dirty EXCEPT ![s] = {}]
  /\ UNCHANGED <<kv, mem, op, raced, missed>>

Reconnect(s) ==
  /\ phase[s] = "lost"
  /\ phase' = [phase EXCEPT ![s] = "resync"]
  /\ UNCHANGED <<kv, mem, inbox, op, snap, raced, missed, dirty>>

(***************************************************************************)
(* Specification.  The bucket outlives the service, so the first replica   *)
(* may find any content in it.                                             *)
(***************************************************************************)
Init ==
  /\ kv \in SUBSET Pair
  /\ mem = [s \in Replica |-> {}]
  /\ inbox = [s \in Replica |-> <<>>]
  /\ op = [t \in Task |-> Idle]
  /\ phase = [s \in Replica |-> "boot"]
  /\ snap = [s \in Replica |-> {}]
  /\ raced = {}
  /\ missed = {}
  /\ dirty = [s \in Replica |-> {}]

\* What a task does by itself once it is called.
Step(t) ==
  \/ KvChange(t)
  \/ KvNoChange(t)
  \/ KvError(t)
  \/ UpdateLocal(t)
  \/ \E type \in RoomTypes : PublishDelta(t, type)

Hydrate(s) == HydrateRead(s) \/ HydrateSwap(s) \/ HydrateFail(s)

Fault(s) == Crash(s) \/ Disconnect(s)

Next ==
  \/ \E t \in Task, s \in Replica, action \in Action, p \in Pair : Start(t, s, action, p)
  \/ \E t \in Task : Step(t)
  \/ \E s \in Replica : Deliver(s)
  \/ \E s \in Replica : Hydrate(s)
  \/ \E s \in Replica : Restart(s) \/ Reconnect(s)
  \/ \E s \in Replica : Fault(s)

Spec == Init /\ [][Next]_vars

\* Goroutines run, NATS delivers to a subscriber that is connected, the client
\* reconnects without limit (MaxReconnects(-1)) and flushes what it held back as
\* soon as it is connected again (hence SF), and a dead container is restarted.
Fairness ==
  /\ \A t \in Task : SF_vars(Step(t))
  /\ \A s \in Replica : WF_vars(Deliver(s))
  /\ \A s \in Replica : WF_vars(Hydrate(s))
  /\ \A s \in Replica : WF_vars(Restart(s) \/ Reconnect(s))

(***************************************************************************)
(* Properties.                                                             *)
(***************************************************************************)
TypeOK ==
  /\ kv \in SUBSET Pair
  /\ mem \in [Replica -> SUBSET Pair]
  /\ inbox \in [Replica -> Seq(Delta)]
  /\ op \in [Task -> Call \cup {Idle}]
  /\ phase \in [Replica -> Phase]
  /\ snap \in [Replica -> SUBSET Pair]
  /\ raced \in SUBSET Pair
  /\ missed \in SUBSET (Replica \X Pair)
  /\ dirty \in [Replica -> SUBSET Pair]

\* The index of a hydrated replica agrees with the bucket on every pair nobody
\* is changing and no queued delta is about, unless two changes of the pair
\* overlapped or a hydration overwrote it: addToRoom's and removeFromRoom's
\* bucket, cache and delta keep the replicas together whatever else interleaves.
CacheFollowsBucket ==
  \A s \in Replica, p \in Pair :
    (/\ phase[s] = "ready"
     /\ p \notin raced
     /\ <<s, p>> \notin missed
     /\ Quiet(p)
     /\ ~Pending(s, p))
    => (p \in mem[s] <=> p \in kv)

Wrong(s, p) == phase[s] = "ready" /\ (p \in mem[s]) # (p \in kv)

\* A replica that disagrees with the bucket does not stay so: the delta
\* arrives, or the disagreement is one of the two kinds that stay.
DisagreementEnds ==
  \A s \in Replica, p \in Pair :
    Wrong(s, p) ~> (~Wrong(s, p) \/ p \in raced \/ <<s, p>> \in missed)
=============================================================================
