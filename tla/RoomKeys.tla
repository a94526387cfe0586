------------------------------ MODULE RoomKeys ------------------------------
(***************************************************************************)
(* End-to-end encryption of one room: the web clients (E2EEKeyManager over *)
(* E2EEManager) and the e2ee-key service they use.                         *)
(*                                                                         *)
(* The service keeps the room's metadata (one record, with the revision of *)
(* its key-value entry), the raw key of every epoch for persist-worker,    *)
(* and the key of every epoch wrapped for every member.  A client enables  *)
(* encryption, rotates the key when a member leaves and once a day, hears  *)
(* of the rotations of others, and fetches keys from the service or, when  *)
(* it has none there, from another client.  Everything a client does is a  *)
(* chain of awaited requests; the chains of one client interleave, and so  *)
(* do those of different clients.                                          *)
(*                                                                         *)
(* A key is named by the run that generated it: the n-th attempt to enable *)
(* or the rotation of a client.  What cryptography does to it is left out: *)
(* wrapping and unwrapping carry a key from a client to another.           *)
(***************************************************************************)
EXTENDS Integers, Sequences, FiniteSets

CONSTANTS Users,       \* who may be a member of the room
          Admins,      \* its owner and admins: they may enable encryption
          MaxEpoch,    \* bound: rotations stop at this epoch
          Keep,        \* the epochs kept besides the current one (code: 5)
          MaxEnables,  \* bound: the attempts to enable encryption
          Budgets,     \* bound: how often each kind of event may happen
          NoKey        \* no key is stored in this place

Kinds == {"enable", "timer", "leave", "join", "reload", "failure", "decrypt"}
Epochs == 1..MaxEpoch

\* The chains of requests of one client: the awaited runs of enableRoom,
\* _performKeyRotation (from the room.changed loop and from the timer), the
\* rotation loop, fetchRoomMeta and decrypt.
Rotators == {"change", "timer"}
Slots == Rotators \cup {"enable", "notice", "meta", "decrypt"}

Claimants == (Users \X Rotators) \cup ({"enable"} \X (1..MaxEnables))
First == <<"enable", 1>>
Keys == Claimants \cup {NoKey}
KeyRing == [Epochs -> Keys]

ASSUME Parameters ==
  /\ Admins \subseteq Users
  /\ MaxEpoch \in Nat \ {0} /\ Keep \in Nat /\ MaxEnables \in Nat \ {0}
  /\ \A b \in Budgets : b \in [Kinds -> Nat] /\ b.enable <= MaxEnables
  /\ NoKey \notin Claimants

Unset == -1            \* roomMetaMap has no entry for the room
Off == 0               \* it has one that says "not encrypted"

VARIABLES
  \* the e2ee-key service and room-service
  member, published, epoch, rev, raw, wrapped,
  \* core NATS: rotation notices and leave events on their way to a client
  notices, changes,
  \* the clients
  phase, cmeta, merr, keys, heard, timer, task, ans,
  \* ghost: the keys wrapped for a client by an answer that came after another
  belated,
  \* what is left of every bound, whether nothing has failed yet, and who was
  \* told "ok" for every epoch since encryption was last enabled
  left, calm, won

server == <<member, published, epoch, rev, raw, wrapped, won>>
net == <<notices, changes>>
bounds == <<left, calm>>
vars == <<server, net, phase, cmeta, merr, keys, heard, timer, task, ans, belated, bounds>>

Empty == [e \in Epochs |-> NoKey]
Idle == [at |-> "idle", e |-> 0, tag |-> 0, ok |-> FALSE, todo |-> {}]
NoAnswer == [for |-> NoKey, slot |-> "meta", e |-> 0]

Stages == {"idle", "raw", "members", "share", "done", "bump", "write", "won",
           "get", "ask", "reread", "remeta", "meta"}
Task == [at : Stages, e : 0..MaxEpoch, tag : Nat, ok : BOOLEAN, todo : SUBSET Users]
Answer == [for : Users \cup {NoKey}, slot : Slots, e : 0..MaxEpoch]

Connected(u) == phase[u] # "off"
HasIdentity(u) == phase[u] \in {"loaded", "ready"}
Ready(u) == phase[u] = "ready"
At(u, s, stage) == task[u][s].at = stage
KeyOf(u, s) == IF s = "enable" THEN <<"enable", task[u][s].tag>> ELSE <<u, s>>

Spend(kind) ==
  /\ left[kind] > 0
  /\ left' = [left EXCEPT ![kind] = @ - 1]
  /\ calm' = (calm /\ kind \notin {"failure", "reload"})

\* How a request ends: answered; never served; served, but the answer is not
\* heard; refused with an error by a service that could not do its work.
Ends(o) == IF o = "answered" THEN UNCHANGED bounds ELSE Spend("failure")
Served(o) == o \in {"answered", "unheard"}

\* storeRoomKey, for the keys that are given: every tab of the browser, this one
\* too, then hears which epochs they are of.  The first epoch is news to nobody.
StoreKeys(u, given) ==
  LET new == {e \in Epochs : given[e] # NoKey}
      news == (new \ {1}) \cup {heard[u]}
      top == CHOOSE e \in news : \A x \in news : x <= e
  IN
  /\ keys' = [keys EXCEPT ![u] = [e \in Epochs |-> IF e \in new THEN given[e] ELSE @[e]]]
  /\ heard' = [heard EXCEPT ![u] = top]

\* wrapRoomKeyForRecipient and e2ee.roomkey.distribute: what is stored for m
\* becomes the key, whoever wrapped what was there.
Wrap(m, e, key) == wrapped' = [wrapped EXCEPT ![m][e] = key]

\* unwrapRoomKey, for every key stored for u: only what u does not have.
Unwrapped(u) == [e \in Epochs |-> IF keys[u][e] = NoKey THEN wrapped[u][e] ELSE NoKey]

SetTask(u, s, t) == task' = [task EXCEPT ![u][s] = t]
Go(u, s, stage) == task' = [task EXCEPT ![u][s].at = stage]
Restart(u, s, stage) == SetTask(u, s, [Idle EXCEPT !.at = stage])
Stop(u, s) == SetTask(u, s, Idle)

\* Where no attempt to enable is left, encryption has been enabled before and
\* all have settled on the first key.
Init ==
  /\ left \in Budgets /\ calm = TRUE
  /\ member \in SUBSET Users
  /\ published = member
  /\ phase = [u \in Users |-> IF u \in member THEN "ready" ELSE "off"]
  /\ notices = [u \in Users |-> <<>>] /\ changes = [u \in Users |-> 0]
  /\ merr = {} /\ heard = [u \in Users |-> 0]
  /\ task = [u \in Users |-> [s \in Slots |-> Idle]]
  /\ ans = [u \in Users |-> NoAnswer] /\ belated = {}
  /\ LET on == left.enable = 0
         ring(u) == IF on /\ u \in member THEN [Empty EXCEPT ![1] = First] ELSE Empty
     IN
     /\ epoch = IF on THEN 1 ELSE 0
     /\ rev = epoch
     /\ won = [e \in Epochs |-> IF on /\ e = 1 THEN {First} ELSE {}]
     /\ raw = IF on THEN [Empty EXCEPT ![1] = First] ELSE Empty
     /\ wrapped = [u \in Users |-> ring(u)] /\ keys = wrapped
     /\ cmeta = [u \in Users |-> IF on /\ u \in member THEN 1 ELSE Unset]
     /\ timer = IF on THEN member ELSE {}

-----------------------------------------------------------------------------
(* fetchRoomMeta: the cached record, else a request whose answer is cached  *)
(* for good, "not encrypted" too, and an error is taken for that; then the  *)
(* keys and the daily timer.                                                *)

MetaAsk(u) ==
  /\ Connected(u) /\ At(u, "meta", "idle")
  /\ cmeta[u] = Unset \/ u \in merr
  /\ \E o \in {"answered", "lost", "refused"} :
       /\ Ends(o)
       /\ IF o = "lost"
            THEN merr' = merr \cup {u} /\ UNCHANGED task
            ELSE /\ SetTask(u, "meta", [Idle EXCEPT !.at = "meta", !.e = IF o = "answered" THEN epoch ELSE Off])
                 /\ UNCHANGED merr
  /\ UNCHANGED <<server, net, phase, cmeta, keys, heard, timer, ans, belated>>

MetaSet(u) ==
  LET e == task[u]["meta"].e IN
  /\ At(u, "meta", "meta")
  /\ cmeta' = [cmeta EXCEPT ![u] = e]
  /\ merr' = merr \ {u}
  /\ IF e > 0 /\ HasIdentity(u) THEN Restart(u, "meta", "get") ELSE Stop(u, "meta")
  /\ timer' = IF e > 0 /\ ~HasIdentity(u) THEN timer \cup {u} ELSE timer
  /\ UNCHANGED <<server, net, phase, keys, heard, ans, belated, bounds>>

-----------------------------------------------------------------------------
(* enableRoom: raw key, members, wrapped keys, then an unconditional put of *)
(* the metadata with epoch 1.                                               *)

Enable(u) ==
  /\ u \in Admins /\ HasIdentity(u)
  /\ At(u, "enable", "idle") /\ cmeta[u] \in {Unset, Off}
  /\ Spend("enable")
  /\ SetTask(u, "enable", [Idle EXCEPT !.at = "raw", !.e = 1, !.tag = left.enable])
  /\ UNCHANGED <<server, net, phase, cmeta, merr, keys, heard, timer, ans, belated>>

\* The service stores the raw key if the caller is a member.
RawPub(u, s) ==
  LET e == task[u][s].e IN
  /\ At(u, s, "raw")
  /\ \E o \in {"answered", "lost", "unheard"} :
       /\ Ends(o)
       /\ raw' = IF Served(o) /\ u \in member THEN [raw EXCEPT ![e] = KeyOf(u, s)] ELSE raw
       /\ IF o = "answered" /\ u \in member THEN Go(u, s, "members") ELSE Stop(u, s)
  /\ UNCHANGED <<member, published, epoch, rev, wrapped, won, net, phase, cmeta, merr, keys, heard, timer, ans, belated>>

Members(u, s) ==
  /\ At(u, s, "members")
  /\ \E o \in {"answered", "lost"} :
       /\ Ends(o)
       /\ IF o = "answered"
            THEN SetTask(u, s, [task[u][s] EXCEPT !.at = "share", !.todo = member, !.ok = (s = "enable" /\ member = {})])
            ELSE Stop(u, s)
  /\ UNCHANGED <<server, net, phase, cmeta, merr, keys, heard, timer, ans, belated>>

\* _distributeKeyToMembers, for one member: its identity key, then the
\* wrapped key.  The answer to the second request is not looked at, and one
\* that does not come counts as a success.  Only enableRoom counts them.
Share(u, s, m) ==
  LET t == task[u][s] IN
  /\ At(u, s, "share") /\ m \in t.todo
  /\ \E o \in {"answered", "lost", "unheard"} :
       /\ Ends(o)
       /\ IF o = "answered" /\ m \in published /\ u \in member
            THEN Wrap(m, t.e, KeyOf(u, s)) ELSE UNCHANGED wrapped
       /\ SetTask(u, s, [t EXCEPT !.todo = @ \ {m},
                                  !.ok = @ \/ (s = "enable" /\ o # "lost" /\ m \in published)])
  /\ UNCHANGED <<member, published, epoch, rev, raw, won, net, phase, cmeta, merr, keys, heard, timer, ans, belated>>

\* Nobody could be given the key: enabling fails.
NobodyShared(u) ==
  /\ At(u, "enable", "share") /\ task[u]["enable"].todo = {} /\ ~task[u]["enable"].ok
  /\ Stop(u, "enable")
  /\ UNCHANGED <<server, net, phase, cmeta, merr, keys, heard, timer, ans, belated, bounds>>

Put(u) ==
  LET ok == u \in Admins \cap member IN
  /\ At(u, "enable", "share") /\ task[u]["enable"].todo = {} /\ task[u]["enable"].ok
  /\ \E o \in {"answered", "lost", "unheard"} :
       /\ Ends(o)
       /\ IF Served(o) /\ ok
            THEN /\ epoch' = 1 /\ rev' = rev + 1
                 /\ won' = [e \in Epochs |-> IF e = 1 THEN {KeyOf(u, "enable")} ELSE {}]
            ELSE UNCHANGED <<epoch, rev, won>>
       /\ IF o = "answered" /\ ok THEN Go(u, "enable", "done") ELSE Stop(u, "enable")
  /\ UNCHANGED <<member, published, raw, wrapped, net, phase, cmeta, merr, keys, heard, timer, ans, belated>>

Enabled(u) ==
  /\ At(u, "enable", "done")
  /\ StoreKeys(u, [Empty EXCEPT ![1] = KeyOf(u, "enable")])
  /\ cmeta' = [cmeta EXCEPT ![u] = 1]
  /\ timer' = timer \cup {u}
  /\ Stop(u, "enable")
  /\ UNCHANGED <<server, net, phase, merr, ans, belated, bounds>>

-----------------------------------------------------------------------------
(* _performKeyRotation, from a leave event or from the daily timer.         *)

Rotate(u, s) ==
  IF cmeta[u] > 0
    THEN cmeta[u] < MaxEpoch /\ SetTask(u, s, [Idle EXCEPT !.at = "bump", !.e = cmeta[u] + 1])
    ELSE UNCHANGED task

\* A bug: the new epoch is used before the service has granted it.
RotateAhead(u) ==
  /\ Ready(u) /\ At(u, "change", "idle") /\ changes[u] > 0
  /\ changes' = [changes EXCEPT ![u] = @ - 1]
  /\ Rotate(u, "change")
  /\ cmeta' = [cmeta EXCEPT ![u] = IF @ > 0 THEN @ + 1 ELSE @]
  /\ UNCHANGED <<server, notices, phase, merr, keys, heard, timer, ans, belated, bounds>>

TakeChange(u) ==
  /\ Ready(u) /\ At(u, "change", "idle") /\ changes[u] > 0
  /\ changes' = [changes EXCEPT ![u] = @ - 1]
  /\ Rotate(u, "change")
  /\ UNCHANGED <<server, notices, phase, cmeta, merr, keys, heard, timer, ans, belated, bounds>>

TimerFires(u) ==
  /\ u \in timer /\ At(u, "timer", "idle")
  /\ Spend("timer")
  /\ timer' = timer \ {u}
  /\ IF HasIdentity(u) THEN Rotate(u, "timer") ELSE UNCHANGED task
  /\ UNCHANGED <<server, net, phase, cmeta, merr, keys, heard, ans, belated>>

\* The service checks the caller and the epoch against the record it reads ...
BumpRead(u, s) ==
  LET t == task[u][s] IN
  /\ At(u, s, "bump")
  /\ \E o \in {"answered", "lost"} :
       /\ Ends(o)
       /\ IF o = "lost" THEN Stop(u, s)
          ELSE IF u \in member /\ epoch > 0 /\ t.e > epoch
            THEN SetTask(u, s, [t EXCEPT !.at = "write", !.tag = rev])
            ELSE Restart(u, s, "get")
  /\ UNCHANGED <<server, net, phase, cmeta, merr, keys, heard, timer, ans, belated>>

\* Bugs that mutants put in place of the definition that follows: the winner of
\* the check writes without the revision it read ...
BumpWriteBlindly(u, s) ==
  LET t == task[u][s] IN
  /\ At(u, s, "write")
  /\ epoch' = t.e /\ rev' = rev + 1
  /\ won' = [won EXCEPT ![t.e] = @ \cup {KeyOf(u, s)}]
  /\ SetTask(u, s, [t EXCEPT !.at = "won", !.tag = 0])
  /\ UNCHANGED <<member, published, raw, wrapped, net, phase, cmeta, merr, keys, heard, timer, ans, belated, bounds>>

\* ... or the client does not look at the error of a lost race.
BumpWriteUnheeded(u, s) ==
  LET t == task[u][s] IN
  /\ At(u, s, "write")
  /\ IF t.tag = rev
       THEN epoch' = t.e /\ rev' = rev + 1 /\ won' = [won EXCEPT ![t.e] = @ \cup {KeyOf(u, s)}]
       ELSE UNCHANGED <<epoch, rev, won>>
  /\ SetTask(u, s, [t EXCEPT !.at = "won", !.tag = 0])
  /\ UNCHANGED <<member, published, raw, wrapped, net, phase, cmeta, merr, keys, heard, timer, ans, belated, bounds>>

\* ... and replaces that record if its revision is still the one it read.
BumpWrite(u, s) ==
  LET t == task[u][s] IN
  /\ At(u, s, "write")
  /\ \E o \in {"answered", "unheard"} :
       /\ Ends(o)
       /\ IF t.tag = rev
            THEN /\ epoch' = t.e /\ rev' = rev + 1
                 /\ won' = [won EXCEPT ![t.e] = @ \cup {KeyOf(u, s)}]
            ELSE UNCHANGED <<epoch, rev, won>>
       /\ IF o = "unheard" THEN Stop(u, s)
          ELSE IF t.tag = rev THEN SetTask(u, s, [t EXCEPT !.at = "won", !.tag = 0])
          ELSE Restart(u, s, "get")
  /\ UNCHANGED <<member, published, raw, wrapped, net, phase, cmeta, merr, keys, heard, timer, ans, belated>>

\* The winner stores its key and encrypts with it from here on.
Won(u, s) ==
  LET e == task[u][s].e IN
  /\ At(u, s, "won")
  /\ StoreKeys(u, [Empty EXCEPT ![e] = KeyOf(u, s)])
  /\ cmeta' = [cmeta EXCEPT ![u] = IF @ > 0 THEN e ELSE @]
  /\ Go(u, s, "raw")
  /\ UNCHANGED <<server, net, phase, merr, timer, ans, belated, bounds>>

\* pruneOldRoomKeys
Pruned(ring, e) == [x \in Epochs |-> IF x < e - Keep THEN NoKey ELSE ring[x]]

Announce(u, s) ==
  LET e == task[u][s].e IN
  /\ s \in Rotators /\ At(u, s, "share") /\ task[u][s].todo = {}
  /\ notices' = [v \in Users |-> IF Ready(v) THEN Append(notices[v], e) ELSE notices[v]]
  /\ timer' = timer \cup {u}
  /\ keys' = [keys EXCEPT ![u] = Pruned(@, e)]
  /\ Stop(u, s)
  /\ UNCHANGED <<server, changes, phase, cmeta, merr, heard, ans, belated, bounds>>

\* The loser has fetched the winner's key if it is there yet; it reads the
\* record again and takes what it is given, an error included.
Reread(u, s) ==
  /\ At(u, s, "reread")
  /\ \E o \in {"answered", "lost", "refused"} :
       /\ Ends(o)
       /\ IF o = "lost" THEN Stop(u, s)
          ELSE SetTask(u, s, [Idle EXCEPT !.at = "remeta", !.e = IF o = "answered" THEN epoch ELSE Off])
  /\ UNCHANGED <<server, net, phase, cmeta, merr, keys, heard, timer, ans, belated>>

ResetMeta(u, s) ==
  /\ At(u, s, "remeta")
  /\ cmeta' = [cmeta EXCEPT ![u] = task[u][s].e]
  /\ timer' = timer \cup {u}
  /\ Stop(u, s)
  /\ UNCHANGED <<server, net, phase, merr, keys, heard, ans, belated, bounds>>

-----------------------------------------------------------------------------
(* Hearing of a rotation, and _fetchAndStoreRoomKey.                        *)

\* A bug: a notice of an epoch the client already knows of is skipped.
TakeNoticeOnce(u) ==
  /\ Ready(u) /\ At(u, "notice", "idle") /\ notices[u] # <<>>
  /\ notices' = [notices EXCEPT ![u] = Tail(@)]
  /\ cmeta' = [cmeta EXCEPT ![u] = IF @ > 0 THEN Head(notices[u]) ELSE @]
  /\ IF cmeta[u] = Head(notices[u]) THEN UNCHANGED task ELSE Go(u, "notice", "get")
  /\ UNCHANGED <<server, changes, phase, merr, keys, heard, timer, ans, belated, bounds>>

\* The loop takes the epoch of the notice whatever it had.
TakeNotice(u) ==
  /\ Ready(u) /\ At(u, "notice", "idle") /\ notices[u] # <<>>
  /\ notices' = [notices EXCEPT ![u] = Tail(@)]
  /\ cmeta' = [cmeta EXCEPT ![u] = IF @ > 0 THEN Head(notices[u]) ELSE @]
  /\ Go(u, "notice", "get")
  /\ UNCHANGED <<server, changes, phase, merr, keys, heard, timer, ans, belated, bounds>>

\* The listener for the keys that were stored takes only an epoch that is newer.
TakeStored(u) ==
  /\ heard[u] > 0
  /\ heard' = [heard EXCEPT ![u] = 0]
  /\ cmeta' = [cmeta EXCEPT ![u] = IF @ > 0 /\ heard[u] > @ THEN heard[u] ELSE @]
  /\ UNCHANGED <<server, net, phase, merr, keys, timer, task, ans, belated, bounds>>

\* decrypt: a message of an epoch whose key is not here.
Decrypt(u) ==
  /\ HasIdentity(u) /\ At(u, "decrypt", "idle")
  /\ \E e \in 1..epoch : keys[u][e] = NoKey
  /\ Spend("decrypt")
  /\ Go(u, "decrypt", "get")
  /\ UNCHANGED <<server, net, phase, cmeta, merr, keys, heard, timer, ans, belated>>

\* What follows the fetch in the chain s.
FetchEnds(u, s) ==
  /\ IF s \in Rotators THEN Go(u, s, "reread") ELSE Stop(u, s)
  /\ timer' = IF s = "meta" THEN timer \cup {u} ELSE timer

\* Only the keys that are missing are unwrapped and stored.  When the service
\* has none for this client, it asks the others.
FetchKeys(u, s) ==
  /\ At(u, s, "get")
  /\ \E o \in {"answered", "lost"} :
       /\ Ends(o)
       /\ IF o = "answered"
            THEN StoreKeys(u, Unwrapped(u))
            ELSE UNCHANGED <<keys, heard>>
       /\ IF o = "answered" /\ wrapped[u] = Empty
            THEN /\ SetTask(u, s, [task[u][s] EXCEPT !.at = "ask", !.todo = {v \in Users : Ready(v)}])
                 /\ UNCHANGED timer
            ELSE FetchEnds(u, s)
  /\ UNCHANGED <<server, net, phase, cmeta, merr, ans, belated>>

\* A bug: a client answers for a room it has not looked at.
AnswerTakeAny(v, u, s) ==
  /\ Ready(v) /\ ans[v] = NoAnswer
  /\ At(u, s, "ask") /\ v \in task[u][s].todo
  /\ task' = [task EXCEPT ![u][s].todo = @ \ {v}]
  /\ ans' = [ans EXCEPT ![v] = [for |-> u, slot |-> s, e |-> cmeta[v]]]
  /\ UNCHANGED <<server, net, phase, cmeta, merr, keys, heard, timer, belated, bounds>>

\* A client takes a request from its queue, remembers the epoch it believes
\* in, and asks room-service whether the other is a member.
AnswerTake(v, u, s) ==
  /\ Ready(v) /\ ans[v] = NoAnswer
  /\ At(u, s, "ask") /\ v \in task[u][s].todo
  /\ task' = [task EXCEPT ![u][s].todo = @ \ {v}]
  /\ ans' = IF cmeta[v] > 0 THEN [ans EXCEPT ![v] = [for |-> u, slot |-> s, e |-> cmeta[v]]] ELSE ans
  /\ UNCHANGED <<server, net, phase, cmeta, merr, keys, heard, timer, belated, bounds>>

\* It stores the wrapped key with the service and answers; the first answer
\* to a request that is still open is taken, over a key of that epoch.
AnswerSend(v) ==
  LET a == ans[v]
      key == keys[v][a.e]
      granted == a.for \in member /\ key # NoKey
      taken == granted /\ At(a.for, a.slot, "ask") /\ v \notin task[a.for][a.slot].todo
  IN
  /\ ans[v] # NoAnswer
  /\ ans' = [ans EXCEPT ![v] = NoAnswer]
  /\ IF granted /\ v \in member THEN Wrap(a.for, a.e, key) ELSE UNCHANGED wrapped
  /\ belated' = IF granted /\ v \in member /\ ~taken /\ wrapped[a.for][a.e] = NoKey
                  THEN belated \cup {<<a.for, a.e>>} ELSE belated
  /\ IF taken
       THEN /\ StoreKeys(a.for, [Empty EXCEPT ![a.e] = key])
            /\ FetchEnds(a.for, a.slot)
       ELSE UNCHANGED <<keys, heard, task, timer>>
  /\ UNCHANGED <<member, published, epoch, rev, raw, won, net, phase, cmeta, merr, bounds>>

\* Nobody asked can answer any more, or the answer is late.
AskTimeout(u, s) ==
  LET open == {v \in Users : ans[v].for = u /\ ans[v].slot = s}
              \cup {v \in task[u][s].todo : Ready(v)} IN
  /\ At(u, s, "ask")
  /\ IF open = {} THEN UNCHANGED bounds ELSE Spend("failure")
  /\ FetchEnds(u, s)
  /\ UNCHANGED <<server, net, phase, cmeta, merr, keys, heard, ans, belated>>

-----------------------------------------------------------------------------
(* Members come and go, clients are closed and opened, the net loses.       *)

Join(u) ==
  /\ u \notin member /\ Spend("join")
  /\ member' = member \cup {u}
  /\ UNCHANGED <<published, epoch, rev, raw, wrapped, won, net, phase, cmeta, merr, keys, heard, timer, task, ans, belated>>

\* room.changed with "leave" or "kick" reaches every client, the leaver's too.
Leave(u) ==
  /\ u \in member /\ Spend("leave")
  /\ member' = member \ {u}
  /\ changes' = [v \in Users |-> IF Ready(v) THEN changes[v] + 1 ELSE changes[v]]
  /\ UNCHANGED <<published, epoch, rev, raw, wrapped, won, notices, phase, cmeta, merr, keys, heard, timer, task, ans, belated>>

\* destroy(), a reload or a crash: the room keys are in IndexedDB and stay.
Offline(u) ==
  /\ Connected(u) /\ Spend("reload")
  /\ phase' = [phase EXCEPT ![u] = "off"]
  /\ cmeta' = [cmeta EXCEPT ![u] = Unset]
  /\ merr' = merr \ {u} /\ timer' = timer \ {u}
  /\ task' = [task EXCEPT ![u] = [s \in Slots |-> Idle]]
  /\ ans' = [ans EXCEPT ![u] = NoAnswer]
  /\ notices' = [notices EXCEPT ![u] = <<>>]
  /\ changes' = [changes EXCEPT ![u] = 0]
  /\ heard' = [heard EXCEPT ![u] = 0]
  /\ UNCHANGED <<server, keys, belated>>

Enter(u, from, to) ==
  /\ phase[u] = from
  /\ phase' = [phase EXCEPT ![u] = to]
  /\ UNCHANGED <<member, epoch, rev, raw, wrapped, won, net, cmeta, merr, keys, heard, timer, task, ans, belated, bounds>>

Online(u) == Enter(u, "off", "loading") /\ UNCHANGED published
\* init(): the identity key is there, its publication is retried ...
LoadIdentity(u) == Enter(u, "loading", "loaded") /\ UNCHANGED published
\* ... and only then are the subscriptions made.
PublishIdentity(u) == Enter(u, "loaded", "ready") /\ published' = published \cup {u}

\* A dropped connection: what was published meanwhile is not seen.
Blip(u) ==
  /\ Ready(u) /\ (notices[u] # <<>> \/ changes[u] > 0) /\ Spend("failure")
  /\ notices' = [notices EXCEPT ![u] = <<>>]
  /\ changes' = [changes EXCEPT ![u] = 0]
  /\ UNCHANGED <<server, phase, cmeta, merr, keys, heard, timer, task, ans, belated>>

Serve(u, s) ==
  \/ RawPub(u, s) \/ Members(u, s) \/ (\E m \in Users : Share(u, s, m))
  \/ BumpRead(u, s) \/ BumpWrite(u, s) \/ Won(u, s) \/ Announce(u, s)
  \/ Reread(u, s) \/ ResetMeta(u, s)
  \/ FetchKeys(u, s) \/ AskTimeout(u, s)

Next ==
  \E u \in Users :
    \/ MetaAsk(u) \/ MetaSet(u)
    \/ Enable(u) \/ NobodyShared(u) \/ Put(u) \/ Enabled(u)
    \/ TakeChange(u) \/ TimerFires(u) \/ TakeNotice(u) \/ TakeStored(u) \/ Decrypt(u)
    \/ \E s \in Slots : Serve(u, s) \/ \E v \in Users : AnswerTake(v, u, s)
    \/ AnswerSend(u)
    \/ Join(u) \/ Leave(u) \/ Offline(u) \/ Blip(u)
    \/ Online(u) \/ LoadIdentity(u) \/ PublishIdentity(u)

Spec == Init /\ [][Next]_vars

-----------------------------------------------------------------------------
\* Every variable has its type.
TypeOK ==
  /\ member \subseteq Users /\ published \subseteq Users
  /\ epoch \in 0..MaxEpoch /\ rev \in Nat
  /\ raw \in KeyRing /\ wrapped \in [Users -> KeyRing] /\ keys \in [Users -> KeyRing]
  /\ won \in [Epochs -> SUBSET Claimants]
  /\ notices \in [Users -> Seq(Epochs)] /\ changes \in [Users -> Nat]
  /\ phase \in [Users -> {"off", "loading", "loaded", "ready"}]
  /\ cmeta \in [Users -> Unset..MaxEpoch] /\ heard \in [Users -> 0..MaxEpoch]
  /\ merr \subseteq Users /\ timer \subseteq Users
  /\ task \in [Users -> [Slots -> Task]]
  /\ ans \in [Users -> Answer] /\ belated \subseteq Users \X Epochs
  /\ left \in [Kinds -> Nat] /\ calm \in BOOLEAN

\* The keys of an epoch, wherever they are: with the clients, wrapped at the
\* service, or raw for persist-worker.
KeysOf(e) == ({raw[e]} \cup {wrapped[u][e] : u \in Users} \cup {keys[u][e] : u \in Users}) \ {NoKey}

\* All who have a key of an epoch have the same one, so that what one member
\* encrypts the others and persist-worker can decrypt: however many rotations
\* race, whoever answers for another, and whatever was fetched late.
KeyAgreement == \A e \in Epochs : \A k, l \in KeysOf(e) : k = l

\* No client believes in an epoch, or holds a key of one, that the service has
\* not handed out: a client that loses a race never encrypts with its own key.
NobodyAhead ==
  \A u \in Users :
    /\ cmeta[u] <= epoch /\ heard[u] <= epoch
    /\ \A e \in Epochs : keys[u][e] # NoKey => e <= epoch
    /\ \A i \in DOMAIN notices[u] : notices[u][i] <= epoch

\* From one enabling to the next every epoch is handed out once and in increasing
\* order: the check and the compare-and-set of the service implement the election
\* of EpochElection, though the record of a room that is enabled again is put
\* without a look at it and takes the epochs back to the first.
Election == INSTANCE EpochElection WITH Claimants <- Claimants, Epochs <- Epochs,
                                       epoch <- epoch, won <- won
ElectsOnce == Election!Spec

AtRest ==
  \A u \in Users : notices[u] = <<>> /\ changes[u] = 0 /\ heard[u] = 0 /\ ans[u] = NoAnswer /\ task[u] = [s \in Slots |-> Idle]

\* Has a key so new that, when it was made, that of epoch e was pruned.
Outgrown(u, e) == \E x \in Epochs : x > e + Keep /\ keys[u][x] # NoKey

\* When everything has come to rest and nothing failed, a client that knows the room
\* as encrypted has every key that is wrapped for it, so that it can encrypt, and
\* decrypt what others sent: however its first look at the room, the notices and its
\* own lost races were interleaved; but for keys it has pruned, and those that were
\* wrapped by a member who answered its request after another: the client takes the
\* first answer and does not look again.  With no key encrypt() returns null, and
\* the message leaves in plain text.
SettledClientsHaveKeys ==
  (AtRest /\ calm) =>
    \A u \in Users, e \in Epochs : cmeta[u] > 0 /\ wrapped[u][e] # NoKey =>
      keys[u][e] # NoKey \/ <<u, e>> \in belated \/ Outgrown(u, e)

\* What the rotation on leave is for: when everything has come to rest, nothing
\* failed and there are members who stayed connected, a user who is not a member
\* does not have the current key.
LeaverLosesKey ==
  (AtRest /\ calm /\ member # {} /\ \A m \in member : Ready(m)) =>
    \A u \in Users \ member : epoch > 0 => keys[u][epoch] = NoKey
=============================================================================
