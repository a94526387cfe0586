----------------------------- MODULE MCRoomService -----------------------------
(* RoomService on small instances, its replicas, tasks and users symmetric. *)
EXTENDS RoomService, TLC

Symmetry == Permutations(Replica) \cup Permutations(Task) \cup Permutations(User)

\* Neither a step nor a property checked here looks at the history variables of
\* RoomMembership or at the type of a queued delta, and privateRooms decides
\* nothing but that type: states that differ in those alone count as one.  (That
\* privateRooms keeps its type in every state is proved in RoomService_proofs.)
Untyped == [s \in Replica |-> [i \in 1..Len(inbox[s]) |-> <<inbox[s][i].action, inbox[s][i].pair>>]]

View == <<kv, mem, Untyped, op, phase, snap, rooms, role, job, ghosts>>
=============================================================================
