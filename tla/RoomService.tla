------------------------------ MODULE RoomService ------------------------------
(***************************************************************************)
(* The handlers of room-service: room.join, leave, create, invite, kick    *)
(* and depart.                                                             *)
(*                                                                         *)
(* Private rooms live in two places.  PostgreSQL (rooms, role) says who    *)
(* may be inside; the ROOMS bucket of RoomMembership says who is.  A       *)
(* handler is a chain of single SQL statements, with no transaction around *)
(* them except in create, followed by addToRoom or removeFromRoom.  Every  *)
(* statement is a step here.  NATS runs the handlers of one subscription   *)
(* one after the other; different subscriptions, and different replicas,   *)
(* run at the same time.                                                   *)
(*                                                                         *)
(* A request whose payload names another user than its Nats-User header is *)
(* refused before anything is read, so Begin takes the requester as given. *)
(***************************************************************************)
EXTENDS RoomMembership

CONSTANTS
  DmRoom,   \* rooms whose name starts with "dm-"
  DbFails   \* may a SQL statement return an error (with nothing done)?

ASSUME DbAssumption == DbFails \in BOOLEAN /\ DmRoom \subseteq Room

ASSUME TypesAssumption == {"public", "private", "dm"} \subseteq RoomTypes

VARIABLES
  rooms,         \* rows of table rooms; the only INSERT makes type 'private'
  role,          \* role[p]: column role of p's row in room_members, "none" without a row
  privateRooms,  \* privateRooms[s]: the in-memory map of replica s
  job,           \* job[t]: the request task t is handling
  admitted,      \* history: pairs that had a reason to be inside the room of that name
  excused,       \* history: pairs that may be inside a private room without a row
  disputed       \* history: rooms whose ownership overlapping calls or failures touched

dbVars == <<rooms, role>>

ghosts == <<admitted, excused, disputed>>

svcVars == <<rooms, role, privateRooms, job, admitted, excused, disputed>>

allVars == <<vars, svcVars>>

Role == {"none", "member", "admin", "owner"}

Adding == {"join", "create", "invite"}

Revoking == {"kick", "depart"}

Kind == Adding \cup Revoking \cup {"leave"}

Pc == {"gate", "count", "insert", "mark", "authorize", "insertMember", "targetRole",
       "deleteMember", "ownRole", "pickHeir", "promote", "deleteSelf", "deleteRoom",
       "bucket", "lastBucket", "unmark"}

\* by asks, who is the one let in or taken out, heir is the next owner.
Job == [kind : Kind, pc : Pc, at : Replica, room : Room, by : User, who : User, heir : User]

NoJob == [kind |-> "none"]

Running(t, kinds) == job[t].kind \in kinds

About(t) == <<job[t].room, job[t].who>>

RoomPairs(r) == {r} \X User

At(t, kinds, pc) == job[t].kind \in kinds /\ job[t].pc = pc

Goto(t, pc) == job' = [job EXCEPT ![t].pc = pc]

Drop(t) == job' = [job EXCEPT ![t] = NoJob]

First(kind) ==
  CASE kind = "join"   -> "gate"
    [] kind = "leave"  -> "bucket"
    [] kind = "create" -> "insert"
    [] kind = "depart" -> "ownRole"
    [] OTHER           -> "authorize"

roomType(s, r) ==
  IF r \in DmRoom THEN "dm" ELSE IF r \in privateRooms[s] THEN "private" ELSE "public"

(***************************************************************************)
(* Every handler ends in addToRoom or removeFromRoom of the pair it is     *)
(* about, and then answers whatever they returned.                         *)
(***************************************************************************)
StartBucket(t, s, kind, p) ==
  Start(t, s, IF kind \in Adding THEN "join" ELSE "leave", p)

ToBucket(t, pc) == StartBucket(t, job[t].at, job[t].kind, About(t)) /\ Goto(t, pc)

Answer(t) ==
  IF job[t].pc = "lastBucket" THEN Goto(t, "unmark") ELSE Drop(t)

(***************************************************************************)
(* A request arrives.                                                      *)
(***************************************************************************)
Contrary(t, kind, p) ==
  /\ job[t] # NoJob
  /\ About(t) = p
  /\ \/ kind \in Adding /\ Running(t, Revoking)
     \/ kind \in Revoking /\ Running(t, Adding)

\* Two calls of which one is a departure, and either may change the owner's row.
Contest(t, kind, r) ==
  /\ Running(t, Revoking \cup {"create"})
  /\ job[t].room = r
  /\ kind \in Revoking \cup {"create"}
  /\ kind = "depart" \/ Running(t, {"depart"})

\* Bound: every request may publish one delta.
DeltaRoom ==
  \A s \in Replica :
    Len(inbox[s]) + Cardinality({t \in Task : job[t] # NoJob}) < MaxInbox

Begin(t, kind, s, r, by, who) ==
  /\ job[t] = NoJob
  /\ op[t] = Idle
  /\ Serving(s)
  /\ \A u \in Task : Running(u, {kind}) => job[u].at # s
  /\ kind \notin {"invite", "kick"} => who = by
  /\ DeltaRoom
  /\ IF kind = "leave" THEN StartBucket(t, s, kind, <<r, who>>) ELSE UNCHANGED vars
  /\ job' = [job EXCEPT ![t] = [kind |-> kind, pc |-> First(kind), at |-> s, room |-> r,
                                by |-> by, who |-> who, heir |-> by]]
  /\ excused' = IF \E u \in Task : Contrary(u, kind, <<r, who>>)
                  THEN excused \cup {<<r, who>>} ELSE excused
  /\ disputed' = IF \E u \in Task : Contest(u, kind, r) THEN disputed \cup {r} ELSE disputed
  /\ UNCHANGED <<dbVars, privateRooms, admitted>>

(***************************************************************************)
(* Queries.  A step that only reads, and moves on or gives up.             *)
(***************************************************************************)
ReadTo(t, pc) == Goto(t, pc) /\ UNCHANGED <<vars, dbVars, privateRooms, ghosts>>

LetIn(t) == ToBucket(t, "bucket") /\ UNCHANGED <<dbVars, privateRooms, ghosts>>

GiveUp(t) == Drop(t) /\ UNCHANGED <<vars, dbVars, privateRooms, ghosts>>

\* checkRoomAccess: a room without a row is open to all; an error closes it.
Gate(t) ==
  /\ At(t, {"join"}, "gate")
  /\ \/ job[t].room \notin rooms /\ LetIn(t)
     \/ job[t].room \in rooms /\ ReadTo(t, "count")
     \/ DbFails /\ GiveUp(t)

\* Faulty variant: an error of the second query lets the user in.
CountFailingOpen(t) ==
  /\ At(t, {"join"}, "count")
  /\ \/ (role[About(t)] # "none" \/ DbFails) /\ LetIn(t)
     \/ role[About(t)] = "none" /\ GiveUp(t)

Count(t) ==
  /\ At(t, {"join"}, "count")
  /\ \/ role[About(t)] # "none" /\ LetIn(t)
     \/ (role[About(t)] = "none" \/ DbFails) /\ GiveUp(t)

Authorize(t) ==
  LET requesterRole == role[<<job[t].room, job[t].by>>] IN
  /\ At(t, {"invite", "kick"}, "authorize")
  /\ \/ /\ requesterRole \in {"owner", "admin"}
        /\ ReadTo(t, IF job[t].kind = "invite" THEN "insertMember" ELSE "targetRole")
     \/ (requesterRole \notin {"owner", "admin"} \/ DbFails) /\ GiveUp(t)

Dispute(t) == disputed' = disputed \cup {job[t].room}

\* The errors of three queries are not looked at and are taken for an answer: "not
\* the owner" in TargetRole and OwnRole, "no other member" in PickHeir.
ReadBadly(t, pc) ==
  /\ DbFails
  /\ Goto(t, pc)
  /\ Dispute(t)
  /\ UNCHANGED <<vars, dbVars, privateRooms, admitted, excused>>

\* Faulty variant: the owner can be kicked.
TargetRoleUnchecked(t) ==
  /\ At(t, {"kick"}, "targetRole")
  /\ ReadTo(t, "deleteMember") \/ ReadBadly(t, "deleteMember")

TargetRole(t) ==
  /\ At(t, {"kick"}, "targetRole")
  /\ \/ role[About(t)] = "owner" /\ GiveUp(t)
     \/ role[About(t)] # "owner" /\ ReadTo(t, "deleteMember")
     \/ ReadBadly(t, "deleteMember")

OwnRole(t) ==
  /\ At(t, {"depart"}, "ownRole")
  /\ \/ role[About(t)] = "owner" /\ ReadTo(t, "pickHeir")
     \/ role[About(t)] # "owner" /\ ReadTo(t, "deleteSelf")
     \/ ReadBadly(t, "deleteSelf")

Others(r, u) == {v \in User \ {u} : role[<<r, v>>] # "none"}

\* ORDER BY puts admins first; who is first among equals depends on joined_at,
\* which is left open.
Heirs(r, u) ==
  LET admins == {v \in Others(r, u) : role[<<r, v>>] = "admin"}
  IN  IF admins # {} THEN admins ELSE Others(r, u)

PickHeir(t) ==
  LET r == job[t].room
      u == job[t].by
  IN
  /\ At(t, {"depart"}, "pickHeir")
  /\ \/ \E h \in Heirs(r, u) :
          /\ job' = [job EXCEPT ![t].heir = h, ![t].pc = "promote"]
          /\ UNCHANGED <<vars, dbVars, privateRooms, ghosts>>
     \/ Others(r, u) = {} /\ ReadTo(t, "deleteRoom")
     \/ ReadBadly(t, "deleteRoom")

(***************************************************************************)
(* Statements that change the database.                                    *)
(***************************************************************************)
\* Who was let in before the room had its row, or is about to be.
Trace(p) ==
  \/ p \in kv
  \/ \E s \in Replica : p \in mem[s] \cup snap[s] \/ Pending(s, p)
  \/ \E t \in Task : /\ Running(t, Adding)
                     /\ About(t) = p
                     /\ job[t].pc \in {"mark", "bucket"}

Traces(r) == {p \in RoomPairs(r) : Trace(p)}

BeingRemoved(p) == \E t \in Task : Running(t, Revoking) /\ About(t) = p

\* One transaction: the room and its owner's row.
Insert(t) ==
  LET r == job[t].room
      p == About(t)
  IN
  /\ At(t, {"create"}, "insert")
  /\ \/ /\ r \notin rooms
        /\ rooms' = rooms \cup {r}
        /\ role' = [role EXCEPT ![p] = "owner"]
        /\ admitted' = (admitted \ RoomPairs(r)) \cup Traces(r) \cup {p}
        /\ excused' = (excused \ RoomPairs(r)) \cup Traces(r)
                        \cup {q \in RoomPairs(r) : BeingRemoved(q)}
        /\ disputed' = IF \E q \in RoomPairs(r) : BeingRemoved(q)
                         THEN disputed \cup {r} ELSE disputed \ {r}
        /\ Goto(t, "mark")
        /\ UNCHANGED <<vars, privateRooms>>
     \/ (r \in rooms \/ DbFails) /\ GiveUp(t)

Mark(t) ==
  /\ At(t, {"create"}, "mark")
  /\ privateRooms' = [privateRooms EXCEPT ![job[t].at] = @ \cup {job[t].room}]
  /\ ToBucket(t, "bucket")
  /\ UNCHANGED <<dbVars, ghosts>>

\* ON CONFLICT DO NOTHING; without the room's row the foreign key refuses.
InsertMember(t) ==
  LET p == About(t) IN
  /\ At(t, {"invite"}, "insertMember")
  /\ \/ /\ job[t].room \in rooms
        /\ role' = [role EXCEPT ![p] = IF @ = "none" THEN "member" ELSE @]
        /\ admitted' = admitted \cup {p}
        /\ ToBucket(t, "bucket")
        /\ UNCHANGED <<rooms, privateRooms, excused, disputed>>
     \/ (job[t].room \notin rooms \/ DbFails) /\ GiveUp(t)

\* Faulty variant: the row is kept and marked.
DeleteRowSoftly(t) ==
  /\ role' = [role EXCEPT ![About(t)] = "removed"]
  /\ ToBucket(t, "bucket")
  /\ UNCHANGED <<rooms, privateRooms, ghosts>>

DeleteRow(t) ==
  /\ role' = [role EXCEPT ![About(t)] = "none"]
  /\ ToBucket(t, "bucket")
  /\ UNCHANGED <<rooms, privateRooms, ghosts>>

\* Faulty variant: the kicked user loses the row and keeps the key.
DeleteMemberOnly(t) ==
  /\ At(t, {"kick"}, "deleteMember")
  /\ role' = [role EXCEPT ![About(t)] = "none"]
  /\ Drop(t)
  /\ UNCHANGED <<vars, rooms, privateRooms, ghosts>>

DeleteMember(t) ==
  /\ At(t, {"kick"}, "deleteMember")
  /\ DeleteRow(t) \/ (DbFails /\ GiveUp(t))

\* The UPDATE finds no row when the heir has gone; its error is only logged.
Promote(t) ==
  LET p == <<job[t].room, job[t].heir>> IN
  /\ At(t, {"depart"}, "promote")
  /\ \/ /\ role' = [role EXCEPT ![p] = IF @ = "none" THEN "none" ELSE "owner"]
        /\ Goto(t, "deleteSelf")
        /\ UNCHANGED <<vars, rooms, privateRooms, ghosts>>
     \/ ReadBadly(t, "deleteSelf")

DeleteSelf(t) ==
  /\ At(t, {"depart"}, "deleteSelf")
  /\ \/ DeleteRow(t)
     \/ /\ DbFails
        /\ Drop(t)
        /\ Dispute(t)
        /\ UNCHANGED <<vars, dbVars, privateRooms, admitted, excused>>

\* The rows of the members go with the room's (ON DELETE CASCADE).
DeleteRoom(t) ==
  LET r == job[t].room IN
  /\ At(t, {"depart"}, "deleteRoom")
  /\ \/ /\ rooms' = rooms \ {r}
        /\ role' = [p \in Pair |-> IF p \in RoomPairs(r) THEN "none" ELSE role[p]]
        /\ admitted' = admitted \cup RoomPairs(r)
        /\ excused' = excused \cup RoomPairs(r)
        /\ disputed' = disputed \ {r}
        /\ ToBucket(t, "lastBucket")
        /\ UNCHANGED privateRooms
     \/ /\ DbFails
        /\ ToBucket(t, "lastBucket")
        /\ Dispute(t)
        /\ UNCHANGED <<dbVars, privateRooms, admitted, excused>>

Unmark(t) ==
  /\ At(t, {"depart"}, "unmark")
  /\ privateRooms' = [privateRooms EXCEPT ![job[t].at] = @ \ {job[t].room}]
  /\ Drop(t)
  /\ UNCHANGED <<vars, dbVars, ghosts>>

(***************************************************************************)
(* The steps of addToRoom and removeFromRoom.                              *)
(***************************************************************************)
BucketStep(t) ==
  /\ KvChange(t) \/ UpdateLocal(t)
  /\ UNCHANGED svcVars

BucketEnd(t) ==
  /\ op[t] # Idle
  /\ KvNoChange(t) \/ PublishDelta(t, roomType(op[t].at, op[t].pair[1]))
  /\ Answer(t)
  /\ UNCHANGED <<dbVars, privateRooms, ghosts>>

BucketError(t) ==
  /\ KvError(t)
  /\ Answer(t)
  /\ excused' = IF Running(t, Revoking) THEN excused \cup {About(t)} ELSE excused
  /\ UNCHANGED <<dbVars, privateRooms, admitted, disputed>>

(***************************************************************************)
(* The replica as a process.  Private rooms are loaded once, at start.     *)
(***************************************************************************)
Lost(s) == {t \in Task : job[t] # NoJob /\ job[t].at = s}

CrashReplica(s) ==
  /\ Crash(s)
  /\ job' = [t \in Task |-> IF t \in Lost(s) THEN NoJob ELSE job[t]]
  /\ privateRooms' = [privateRooms EXCEPT ![s] = {}]
  /\ excused' = excused \cup {About(t) : t \in {u \in Lost(s) : Running(u, Revoking)}}
  /\ disputed' = disputed \cup {job[t].room : t \in {u \in Lost(s) : Running(u, {"depart"})}}
  /\ UNCHANGED <<dbVars, admitted>>

RestartReplica(s) ==
  /\ Restart(s)
  /\ privateRooms' = [privateRooms EXCEPT ![s] = rooms]
  /\ UNCHANGED <<dbVars, job, ghosts>>

Network(s) ==
  /\ Deliver(s) \/ Hydrate(s) \/ Disconnect(s) \/ Reconnect(s)
  /\ UNCHANGED svcVars

(***************************************************************************)
(* Specification.  The service starts on a database in which every private *)
(* room has one owner, and a bucket that names only members of it.         *)
(***************************************************************************)
OneOwner(r) ==
  \E u \in User : /\ role[<<r, u>>] = "owner"
                  /\ \A v \in User \ {u} : role[<<r, v>>] # "owner"

ServiceInit ==
  /\ Init
  /\ rooms \in SUBSET Room
  /\ role \in [Pair -> Role]
  /\ \A p \in Pair : p[1] \notin rooms => role[p] = "none"
  /\ \A p \in kv : p[1] \in rooms => role[p] # "none"
  /\ \A r \in rooms : OneOwner(r)
  /\ privateRooms = [s \in Replica |-> rooms]
  /\ job = [t \in Task |-> NoJob]
  /\ admitted = {p \in Pair : p[1] \in rooms => role[p] # "none"}
  /\ excused = {p \in Pair : p[1] \notin rooms}
  /\ disputed = {}

Handler(t) ==
  \/ Gate(t) \/ Count(t)
  \/ Insert(t) \/ Mark(t)
  \/ Authorize(t) \/ InsertMember(t)
  \/ TargetRole(t) \/ DeleteMember(t)
  \/ OwnRole(t) \/ PickHeir(t) \/ Promote(t) \/ DeleteSelf(t) \/ DeleteRoom(t) \/ Unmark(t)
  \/ BucketStep(t) \/ BucketEnd(t) \/ BucketError(t)

ServiceNext ==
  \/ \E t \in Task, kind \in Kind, s \in Replica, r \in Room, by \in User, who \in User :
       Begin(t, kind, s, r, by, who)
  \/ \E t \in Task : Handler(t)
  \/ \E s \in Replica : CrashReplica(s) \/ RestartReplica(s) \/ Network(s)

ServiceSpec == ServiceInit /\ [][ServiceNext]_allVars

(***************************************************************************)
(* Properties.                                                             *)
(***************************************************************************)
ServiceTypeOK ==
  /\ rooms \in SUBSET Room
  /\ role \in [Pair -> Role]
  /\ privateRooms \in [Replica -> SUBSET Room]
  /\ job \in [Task -> Job \cup {NoJob}]
  /\ admitted \in SUBSET Pair
  /\ excused \in SUBSET Pair
  /\ disputed \in SUBSET Room

\* Nobody is in the bucket, or in the member list a replica answers with, who
\* was not a member, an invited user or a visitor of the name while it was open:
\* the gate of room.join holds against every interleaving, crash and error.
StrangersStayOut ==
  \A p \in Pair : (p \in kv \/ \E s \in Replica : p \in mem[s]) => p \in admitted

\* A user without a row is out of a private room's bucket once nobody is taking
\* the user out, unless a join or invite overlapped the removal or it failed.
RemovedUsersAreOut ==
  \A p \in Pair :
    (/\ p \in kv
     /\ p[1] \in rooms
     /\ p \notin excused
     /\ ~BeingRemoved(p))
    => role[p] # "none"

\* A private room has exactly one owner whenever nobody is leaving it, unless a
\* departure overlapped another departure, a kick or a create, or a statement failed.
RoomHasOneOwner ==
  \A r \in rooms \ disputed :
    (\A t \in Task : ~(Running(t, {"depart"}) /\ job[t].room = r)) => OneOwner(r)

\* The design gives ownership transfer as what prevents orphaned channels: a
\* private room that has members and that nobody is leaving has an owner.
NoOrphanedRoom ==
  \A r \in rooms :
    (/\ \E u \in User : role[<<r, u>>] # "none"
     /\ \A t \in Task : ~(Running(t, {"depart"}) /\ job[t].room = r))
    => \E u \in User : role[<<r, u>>] = "owner"

\* "No other members - delete room": a departing owner deletes the room only
\* when the rows that go with it are the owner's own.
OnlyEmptyRoomsDeleted ==
  [][\A r \in Room, u \in User :
       (\E t \in Task : /\ At(t, {"depart"}, "deleteRoom")
                        /\ job'[t] # job[t]
                        /\ job[t].room = r
                        /\ job[t].by = u)
       => (r \in rooms' \/ Others(r, u) = {})]_allVars
=============================================================================
