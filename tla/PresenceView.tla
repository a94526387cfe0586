---------------------------- MODULE PresenceView ----------------------------
(***************************************************************************)
(* The list of online users a client shows for a room it has joined:       *)
(* PresenceManager.  It follows the changes presence-service announces,    *)
(* and starts from the list it asks for whenever it joins the room, after  *)
(* a reconnection too.  The service writes a status and announces it in    *)
(* two steps, in any of its instances, so announcements cross; one that    *)
(* comes of joining another room is made there only.  A question is        *)
(* answered by whichever instance is first, from what it has heard itself. *)
(***************************************************************************)
EXTENDS Integers, Sequences, FiniteSets

CONSTANTS People,       \* the members of the room
          MaxChanges,   \* bound: changes of anybody's status
          MaxPresenceFaults  \* bound: lost connections and failed requests

ASSUME PresenceParameters == MaxChanges \in Nat /\ MaxPresenceFaults \in Nat

Status == {"offline", "online", "away"}

VARIABLES
  status,    \* what an instance that has heard everything answers
  unsent,    \* changes not announced in the room yet, numbered as they were made
  lagging,   \* users whose last change some instance has not heard of
  diffs,     \* changes announced to this client, in order
  inRoom,    \* the client has joined the room
  linked,    \* its connection is up
  shown,     \* onlineUsersByRoom of the room; who is not in the list is offline
  questions, \* presence.room requests: number, read or not, and the answer
  blurred,   \* ghost: users of whom the answer shown was out of date
  doubted,   \* ghost: users whose announcements crossed or were never made
  cold,      \* ghost: the last question came to nothing
  changes, presenceFaults

service == <<status, unsent, lagging>>
presenceVars == <<service, diffs, inRoom, linked, shown, questions, blurred, doubted, cold, changes, presenceFaults>>

AllOffline == [u \in People |-> "offline"]

PresenceInit ==
  /\ status \in [People -> Status] /\ unsent = {} /\ lagging = {} /\ diffs = <<>>
  /\ inRoom = FALSE /\ linked = TRUE /\ shown = AllOffline
  /\ questions = {} /\ blurred = {} /\ doubted = {} /\ cold = FALSE
  /\ changes = 0 /\ presenceFaults = 0

\* A heartbeat, a disconnect, a status update, a join or a leave, an expiry: the
\* tracker, the index or the bucket is written, or written again; the instances
\* hear of it later.
Change(u, s) ==
  /\ changes < MaxChanges
  /\ changes' = changes + 1
  /\ status' = [status EXCEPT ![u] = s]
  /\ unsent' = unsent \cup {[user |-> u, status |-> s, no |-> changes]}
  /\ lagging' = lagging \cup {u}
  /\ questions' = {IF q.read THEN [q EXCEPT !.stale = @ \cup {u}] ELSE q : q \in questions}
  /\ UNCHANGED <<diffs, inRoom, linked, shown, blurred, doubted, cold, presenceFaults>>

\* publishPresenceDiff; the handlers of two changes may get here in any order.
DiffPublished(d) ==
  /\ unsent' = unsent \ {d}
  /\ diffs' = IF inRoom /\ linked THEN Append(diffs, [user |-> d.user, status |-> d.status]) ELSE diffs
  /\ doubted' = IF \E e \in unsent : e.user = d.user /\ e.no < d.no THEN doubted \cup {d.user} ELSE doubted
  /\ UNCHANGED <<status, lagging, inRoom, linked, shown, questions, blurred, cold, changes, presenceFaults>>

\* The change was that of a join, which writes 'online' and tells the other room
\* only; or the instance does not know that the user is in this room, or stops.
DiffNeverPublished(d) ==
  /\ unsent' = unsent \ {d}
  /\ doubted' = doubted \cup {d.user}
  /\ UNCHANGED <<status, lagging, diffs, inRoom, linked, shown, questions, blurred, cold, changes, presenceFaults>>

\* Every instance has heard of the changes of u: from the watcher of the
\* connections and the deltas of the rooms.
HeardEverywhere(u) ==
  /\ u \in lagging /\ lagging' = lagging \ {u}
  /\ UNCHANGED <<status, unsent, diffs, inRoom, linked, shown, questions, blurred, doubted, cold, changes, presenceFaults>>

\* fetchInitialPresence; the room has been subscribed to before.
Question ==
  [n |-> CHOOSE k \in 0..Cardinality(questions) : \A q \in questions : q.n # k,
   read |-> FALSE, list |-> AllOffline, stale |-> {}]
Asking ==
  /\ questions' = questions \cup {Question}
  /\ cold' = FALSE

\* A bug: the question is asked again only when the room is joined anew.
RejoinUnasked ==
  /\ ~linked /\ linked' = TRUE
  /\ UNCHANGED <<service, diffs, inRoom, shown, questions, blurred, doubted, cold, changes, presenceFaults>>

JoinRoom ==
  /\ ~inRoom /\ linked /\ inRoom' = TRUE
  /\ Asking
  /\ UNCHANGED <<service, diffs, linked, shown, blurred, doubted, changes, presenceFaults>>

\* rejoinAll, and 'joined' for each room.
Rejoin ==
  /\ ~linked /\ linked' = TRUE
  /\ IF inRoom THEN Asking ELSE UNCHANGED <<questions, cold>>
  /\ UNCHANGED <<service, diffs, inRoom, shown, blurred, doubted, changes, presenceFaults>>

\* What is on its way is lost, answers too.
LinkLost ==
  /\ linked /\ presenceFaults < MaxPresenceFaults
  /\ presenceFaults' = presenceFaults + 1
  /\ linked' = FALSE /\ diffs' = <<>> /\ questions' = {q \in questions : ~q.read}
  /\ UNCHANGED <<service, inRoom, shown, blurred, doubted, cold, changes>>

\* handlePresenceDiff: the change of one user.
DiffArrives ==
  /\ linked /\ diffs # <<>>
  /\ shown' = [shown EXCEPT ![diffs[1].user] = diffs[1].status]
  /\ diffs' = Tail(diffs)
  /\ blurred' = blurred \ {diffs[1].user}
  /\ UNCHANGED <<service, inRoom, linked, questions, doubted, cold, changes, presenceFaults>>

\* presence.room.*: the statuses as the first instance that answers finds them;
\* it may be wrong about those it has not heard of.
ListPeople(q, list) ==
  /\ q \in questions /\ ~q.read
  /\ \A u \in People \ lagging : list[u] = status[u]
  /\ questions' = (questions \ {q}) \cup {[q EXCEPT !.read = TRUE, !.list = list, !.stale = lagging]}
  /\ UNCHANGED <<service, diffs, inRoom, linked, shown, blurred, doubted, cold, changes, presenceFaults>>

\* Something about u is about to be announced, or has been and is on its way.
Expected(u) == (\E d \in unsent : d.user = u) \/ (\E i \in 1..Len(diffs) : diffs[i].user = u)

\* The answer replaces the list, whatever was heard since it was written.
ListComes(q) ==
  /\ linked /\ q \in questions /\ q.read
  /\ questions' = questions \ {q}
  /\ shown' = q.list
  /\ blurred' = q.stale /\ cold' = FALSE
  /\ doubted' = {u \in doubted : Expected(u)}
  /\ UNCHANGED <<service, diffs, inRoom, linked, changes, presenceFaults>>

\* No answer within five seconds: it is not asked for again.
NoListComes(q) ==
  /\ q \in questions
  /\ IF linked THEN presenceFaults < MaxPresenceFaults /\ presenceFaults' = presenceFaults + 1
               ELSE UNCHANGED presenceFaults
  /\ questions' = questions \ {q} /\ cold' = TRUE
  /\ UNCHANGED <<service, diffs, inRoom, linked, shown, blurred, doubted, changes>>

PresenceNext ==
  \/ \E u \in People, s \in Status : Change(u, s)
  \/ \E d \in unsent : DiffPublished(d) \/ DiffNeverPublished(d)
  \/ \E u \in People : HeardEverywhere(u)
  \/ JoinRoom \/ Rejoin \/ LinkLost \/ DiffArrives
  \/ \E q \in questions, list \in [People -> Status] : ListPeople(q, list)
  \/ \E q \in questions : ListComes(q) \/ NoListComes(q)

PresenceSpec == PresenceInit /\ [][PresenceNext]_presenceVars
-----------------------------------------------------------------------------
\* Every variable has its type; a user shown has one of the statuses.
PresenceTypeOK ==
  /\ status \in [People -> Status] /\ shown \in [People -> Status]
  /\ diffs \in Seq([user : People, status : Status])
  /\ {inRoom, linked, cold} \subseteq BOOLEAN /\ UNION {blurred, doubted, lagging} \subseteq People
  /\ unsent \subseteq [user : People, status : Status, no : Nat]
  /\ questions \subseteq [n : Nat, read : BOOLEAN, list : [People -> Status], stale : SUBSET People]
  /\ changes \in 0..MaxChanges /\ presenceFaults \in 0..MaxPresenceFaults

PresenceAtRest == inRoom /\ linked /\ unsent = {} /\ diffs = <<>> /\ questions = {}

\* When nothing is on its way any more everybody is shown with the status the
\* service has, whatever was lost while the connection was down; but for users
\* whose change was overtaken by an older answer or had not been heard of by the
\* instance that answered, users whose announcements crossed or were never made
\* since the last answer, and when a question failed.
StatusesSettle ==
  PresenceAtRest /\ ~cold => \A u \in People \ (blurred \cup doubted) : shown[u] = status[u]
=============================================================================
