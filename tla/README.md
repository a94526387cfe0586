# Verification of nats-chat

TLA+ models, TLC runs and machine-checked proofs for the chat system in this
repository: browsers talk over NATS to a set of small services that share state
through JetStream key-value buckets and PostgreSQL. What makes the system hard
is not any one handler but what happens between them: every service keeps
copies of state another one owns, several processes of one service work at
once, and any of them may crash, lose its connection or get an error half-way.

## 1. The system

| Part | State it keeps | Operations | Interacts through |
|---|---|---|---|
| room-service (`services/room`) | ROOMS bucket (truth of who is in a room), `localMembership` index, `privateRooms`, tables `rooms` and `room_members` | `room.join`, `leave`, `create`, `invite`, `kick`, `depart`; `list`, `info`, `members` read | publishes `room.changed.*` deltas; answers `room.members.*` |
| fanout-service (`services/fanout`) | LRU membership cache, single flights, worker queue, MSG_CACHE and RATE_LIMIT buckets, circuit breaker | ingest `deliver.*.send.>`, notify `chat.>`, fetch `msg.get`, `admin.*`, `app.>` | consumes deltas, asks `room.members.*` on a miss |
| presence-service (`services/presence`) | PRESENCE and PRESENCE_CONN buckets, connection tracker, two-way membership | heartbeat, disconnect, update, offline transition, query | watches its bucket, publishes `room.leave.*` and diffs |
| persist-worker (`services/persist-worker`) | tables of messages, versions and reactions; cache of room keys | consumes the CHAT_MESSAGES stream: insert, edit, delete, react | Ack / Nak; asks e2ee-key for raw keys |
| read-receipt (`services/read-receipt`) | READ_STATE bucket, dirty set, table `read_receipts` | update, state query, flush, load | reports and questions of the clients |
| e2ee-key (`services/e2ee-key`) | identity keys, wrapped and raw room keys, per-room metadata with an epoch | publish, distribute, enable, disable, epoch | asked by clients and persist-worker |
| auth-service (`services/auth`) | bounded queue and workers, permission table, service accounts | NATS auth callout, reload | NATS server |
| web client (`web/src`) | joined rooms, messages, presence, receipts, keys; the state of React components | send, edit, delete, react, history, key exchange, search, uploads, translation | all of the above |
| history, app-registry, file-upload, media-server, sticker, translation, user-search | tables, object stores | request/reply | |
| apps (poll, whiteboard, kb) | their own tables | request/reply and broadcasts in a room | app-registry, fanout |

How the code runs. The Go client calls the callbacks of one subscription one
after the other in a goroutine of its own; callbacks of different subscriptions
of a process run at the same time. A queue group gives each message to one
process. Plain NATS messages are delivered at most once and are lost while a
subscriber is away; JetStream consumers get each message at least once. A
connection is retried without limit (`MaxReconnects(-1)`), and the containers
are restarted when they die.

What should hold of each part, and what endangers it:

- **room-service**: replicas agree with the bucket; nobody is inside a private
  room who was never admitted; who is removed is out; a private room has one
  owner, and a room that has members is not deleted. Against it: deltas that
  cross each other, hydration over newer deltas, handlers made of single SQL
  statements, errors that are not looked at.
- **fanout**: the cache follows room-service; who may post is decided on a list
  that is not older than the question; nothing is sent on a closed channel.
  Against it: the reply of `room.members` racing a delta or the reset, a replica
  that answers from an index behind the bucket, deltas published out of order.
- **presence**: a user with a live connection is not taken out of the rooms;
  one without is, once. Against it: heartbeats racing expiry, several instances
  racing the compare-and-set.
- **persist-worker**: nothing is acknowledged unwritten; the tables say of each
  message what the stream says. Against it: redelivery and overtaking, several
  instances, keys that come late or change.
- **read-receipt**: positions only move forward and reach PostgreSQL. Against
  it: a failed commit, the load at start, two instances.
- **e2ee-key**: an epoch's key never changes, epochs only grow. Against it:
  unconditional writes next to a compare-and-set.
- **auth**: one answer at most per request, and an answer for every request
  taken. Against it: deadlines, a full queue, shutdown.
- **end-to-end encryption**: all who have the key of an epoch have the same one;
  nobody is ahead of the service; who left has no key in force. Against it:
  rotations that race, answers that are lost, chains of requests of one client
  that interleave, decisions on metadata read long ago.
- **client**: what is on the screen at rest is what the services have. Against
  it: asynchronous fetches that finish out of order, timers, effects of React
  that are cleaned up half-way, a connection that is replaced, and component
  state that follows it one commit late.
- **room apps**: what users draw, write and vote at the same time is kept, and
  every open page shows it. Against it: reads and writes in two queries,
  broadcasts in any order, saves delayed by two seconds.

The hazards are listed one by one, with their lines, in `PROJECT.json`.

## 2. Plan

Done, in this order:

1. `RoomMembership` - the replicated membership. Abstract: no rooms table, no
   reasons, just add and remove. *Proved.*
2. `RoomService` - the handlers, on top of 1 and shown to implement it.
   *Its gate, its ownership and its removals proved.*
3. `FanoutCache` - the LRU, single flights, deltas and the gate, over the bucket,
   the announcements and the answers of room-service's replicas; the worker queue
   and its shutdown. *Proved.*
4. `AuthWorkerPool` - queue, workers, deadlines, stop. *Its safety proved.*
5. `RoomKeys` over `EpochElection` - the keys of an encrypted room, clients and
   service; the abstract election it implements. *Safety, the keys at rest and the
   refinement proved.*
6. The browser: `ClientSession`, `ChatView`, `DecryptMessages`, `PresenceView`,
   `DirectMessages`, `ReadReceipts` with its service, `Translations`; `UserSearch`,
   `StickerMarket` and `Attachments`, which `MessageField` joins. *Proved.*
7. The room apps with their services: `Whiteboard`; `PageEditor`, `Polls` and
   `AppTabs`, which `InstalledApps` joins. *Proved.*
8. `PresenceService` - connections, watcher, tracker, offline transition.
   *Proved.*
9. `PersistWorker` - the consumer of the stream, redelivery, keys and tables.
   *Proved.*

Left, most valuable first: two instances of read-receipt; the rate limit and
the circuit breaker of fanout; several tabs of one user in RoomKeys. Theorems
left: none about a property of the runs but for liveness.

## 3. Modules

### RoomMembership

Models lines 99-165, 267-448 of `services/room/main.go`.

| TLA+ | Code |
|---|---|
| `kv` | the ROOMS bucket: a pair is in it when key `room.user` exists |
| `mem[s]` | `localMembership` of replica `s` |
| `inbox[s]` | `room.changed.*` messages NATS holds for `s`, in order |
| `op[t]` | the call of `addToRoom` or `removeFromRoom` task `t` is in; a task is a goroutine that can be inside one |
| `phase[s]`, `snap[s]` | connection and hydration of `s`; the snapshot read and not yet swapped in |
| `Start`, `KvChange`, `KvNoChange`, `KvError`, `UpdateLocal`, `PublishDelta` | the statements of `addToRoom` / `removeFromRoom` |
| `Deliver` | the `room.changed.*` callback |
| `HydrateRead`, `HydrateSwap`, `HydrateFail` | `hydrateFromKV` |
| `Crash`, `Restart`, `Disconnect`, `Reconnect` | the process and its connection |
| `raced`, `missed`, `dirty` | history only: nothing in the model reads them but properties |

Choices. `hydrateFromKV` reads the bucket through a watcher; the model reads it
at once, and the watcher may only add newer values. `PublishDelta` is the moment
the server has the delta: the client library holds back what is published while
it has no connection. `kv.Delete` writes its marker whether or not the key is
there, so a `removeFromRoom` of a non-member publishes a delta as well; the
branch for a key that is not found is kept because the code has it. A bucket
error leaves open whether the change was made.

### RoomService

Models lines 382-394, 450-590, 632-725, 866-1120 of `services/room/main.go` and
the two tables of `infra/postgres/init.sql`. It EXTENDS RoomMembership and every
step is one of its steps or leaves its variables alone, which is also a theorem.

`rooms` and `role` are the tables, `privateRooms[s]` the in-memory map, `job[t]`
the request task `t` handles; each SQL statement is an action (`Gate`, `Count`,
`Authorize`, `TargetRole`, `OwnRole`, `PickHeir`, `Insert`, `InsertMember`,
`DeleteMember`, `Promote`, `DeleteSelf`, `DeleteRoom`), with the error branch
the code has for it. The transaction of `room.create` is one action.
`joined_at` is left out: which of the equally ranked members comes first is
left open. A replica handles one request per subscription at a time (`Begin`).
`admitted`, `excused` and `disputed` are history.

Left out: the replies and system messages of the handlers, `room.list`,
`room.info` and `room.members` (they change nothing), metrics and tracing. A SQL
error is modelled as "nothing was done".

### FanoutCache

Models lines 139-293, 519-582, 700-714 and 1047-1059 of
`services/fanout/main.go` and the way the handlers of lines 722-1043 use them;
and lines 358-373, 415-448 and 597-618 of `services/room/main.go`, as a fanout
process meets them.

| TLA+ | Code |
|---|---|
| `members` | the ROOMS bucket |
| `due` | deltas of changes made in the bucket and not yet published by the replica that made them |
| `inbox`, `link` | the deltas NATS holds for the process, and its connection |
| `Change`, `Publish`, `NeverPublished` | the bucket write of `addToRoom` and `removeFromRoom`; `publishDelta`; a crash in between, or an answer of the bucket that is lost |
| `index`, `list`, `entry` | `lruCache`: index, list, and the members of each entry |
| `task[t]` | the handler a goroutine is in: its step, room, user and answer |
| `Hit`, `Miss` | `lruCache.isMember`, `get` |
| `Lead`, `Follow`, `Done`, `Forget` | `singleflight.do` |
| `Answered`, `AskFails`, `Store` | the request inside the flight, with `room.members` at a replica, and `lruCache.set` |
| `Deliver`, `Reset` | `lruCache.applyDelta`, `reset` |
| `Decide`, `Enqueue`, `EnqueueClosed` | the gate of the ingest handler, `enqueueFanout` |
| `Close`, `Exit` | Drain, close and Wait |
| `crossed`, `stale`, `trespass`, and `lost`, `may` of a task | history |

A change of the bucket and its delta are two steps of whichever replica handles
the request, so deltas of two replicas may be published in another order than
the bucket was written, or never (`crossed`). `room.members` is answered by any
replica from its own index, which may be behind the bucket, ahead of this
process's inbox, or wrong for good: `Answered` takes any list, and the users it
is wrong about are `lost` until a delta puts them right. So an answer older than
a delta that has passed may be cached, and stay: then the pair is `stale`, and
the two properties say that the cache is wrong and lets somebody in in no other
way. When a replica's index is right is what RoomMembership is about.

What happens between an answer and its being stored is left open. A subject that
is not well formed, a rate-limited user and a payload that names another sender
return before the cache is read, a message of `__system__` (line 785) goes on
without reading it, and the branches of the notify handler for other rooms than
DMs never read it: none of them touches the cache.
`Drain` is modelled as the client library has it: it starts the draining and
returns.

### AuthWorkerPool

Models `services/auth/worker_pool.go`, lines 71-234 and 265-303 of `handler.go`
and lines 96-165 of `main.go`.

| TLA+ | Code |
|---|---|
| `kind[m]` | what is in a request: valid or invalid credentials, something that cannot be read, or a key no answer can be encrypted for |
| `queue`, `closed`, `stopped`, `mu` | `p.queue`, whether it is closed, `p.stopped`, who holds `p.mu` |
| `cb` | the callback of `$SYS.REQ.USER.AUTH`: one message at a time |
| `work[w]` | the step of `HandleWithContext` or `handleMessage` worker `w` is at |
| `late` | requests whose context is past its deadline |
| `Lock`, `CheckStopped`, `Enqueue`, `QueueFull`, `Refuse` | `Submit` and the rejection in the callback |
| `Take`, `Read`, `Judge`, `Validate`, `Sign`, `Respond`, `Expire`, `Reject`, `Leave` | `worker`, `handleMessage` and the steps of `HandleWithContext` between its checks of the deadline |
| `Signal`, `CloseConn`, `Stop`, `CloseQueue`, `Exit` | the signal, the deferred `nc.Close` and `pool.Stop` |
| `status`, `answers` | history: where a request is, and what was sent to it |

Choices. The handler is silent about invalid credentials and about what it
cannot read, and so is the model: the NATS server then times out. `Drain` only
starts the draining; the deferred `Unsubscribe` is refused by a draining
connection, so the first deferred call that does something is `Close`, after
which nothing is received or answered, and `pool.Stop` runs last. Validation
(JWKS or the table of service accounts) takes any time and does not look at the
deadline. The two checks before the validation are one: nothing is decided
between them but that a request cannot be read, for which there is no answer in
either case.

### RoomKeys and EpochElection

Models `E2EEKeyManager.ts`, the key store of `E2EEManager.ts` and the handlers of
`services/e2ee-key/main.go`, for one room.

| TLA+ | Code |
|---|---|
| `published`, `epoch`, `rev`, `raw`, `wrapped` | the service's buckets: identities, the metadata with its revision, raw keys, wrapped keys |
| `member` | room-service's answer to `room.members` |
| `notices`, `changes` | rotation notices and `room.changed` events NATS holds for a client |
| `phase` | a client: disconnected, `loading` and `loaded` (identity), `ready` |
| `cmeta`, `merr`, `keys`, `heard`, `timer` | `roomMetaMap`, a failed metadata request, the key store, the notice being handled, the daily timer |
| `task[u][slot]` | a chain of awaited requests of one client and the point it is at; the slots are `enableRoom`, the rotation for a departure and for the timer, the notice loop, `fetchRoomMeta` and `decrypt` |
| `ans` | the key another client sends on request |
| `MetaAsk`, `MetaSet` | `fetchRoomMeta` |
| `Enable`, `RawPub`, `Members`, `Share`, `NobodyShared`, `Put`, `Enabled` | `enableRoom`; `RawPub` to `Share` also belong to a rotation |
| `TakeChange`, `TimerFires`, `BumpRead`, `BumpWrite`, `Won`, `Announce`, `Reread`, `ResetMeta` | `_performKeyRotation`; `BumpRead` and `BumpWrite` are the service's `e2ee.room.epoch` |
| `TakeNotice`, `TakeStored`, `Decrypt`, `FetchKeys`, `AnswerTake`, `AnswerSend`, `AskTimeout` | the rotation loop, `decrypt`, `fetchRoomKey` and key requests among clients |
| `Join`, `Leave`, `Offline`, `Online`, `LoadIdentity`, `PublishIdentity`, `Blip` | the events around it: membership, reload, `init`, a failing request |
| `won`, `calm`, `left` | history and bounds |

A key is named by the run that generated it. Wrapping, signing and the key cache
in IndexedDB carry a key and do no more. `EpochElection` is what the service
promises: an epoch is claimed once, by one rotation, and only above every epoch
claimed before. RoomKeys implements it: `Election` is an instance of
EpochElection whose `won` is RoomKeys' own, and `ElectsOnce == Election!Spec`
is checked and proved.

`belated` is the case the proof of `SettledHaveKeys` found: two members
answer the request of a newcomer, the client takes the first answer only
(`E2EEKeyManager.ts` 664, 737-790), and what the second wraps is in the service
and never fetched. It takes three users, one more than the run has.

Two runs of `enableRoom` (two admins, or a retry after a failure) reset the
epoch to 1 with a new key, and what was encrypted under the first is lost to
those who took it; the code has no guard, and no document says it should hold.
What is said of the keys (`KeyAgreement`, `NobodyAhead`,
`SettledClientsHaveKeys`) is therefore about one run of it: `room_keys` and those
three theorems have `MaxEnables = 1`. The election is about any number of them:
`EpochElection` says that epochs are handed out once and in increasing order from
one enabling to the next, also when a rotation of before the second enabling is
still under way after it, and `ElectionHeld` is proved without that assumption,
as are the types.

An error in place of the metadata is cached as "not encrypted"
(`E2EEKeyManager.ts:223-230`): that is the outcome `refused` of `MetaAsk`, and of
`Reread`.

### The browser

Each models the named files with every `await`, timer and effect a step of its
own; each has ghosts for the cases the code gives up (a lost answer, an effect
cleaned up), named in its header, and its property says what holds outside them.

| Module | Code | Its state and steps |
|---|---|---|
| `ClientSession` | `ChatClient.ts` 60-230, `ConnectionManager.ts`, `RoomManager.ts`, `useNatsChat.tsx`, `App.tsx` | the clients a tab made, one per token; `want` is what setState asked for and `seen` what the last commit showed: `Render` commits and runs the effects whose dependencies changed. Connecting, retries, drops, close, disposal, `room.list`, `room.info`, create, removal |
| `ChatView` | `MessageStore.ts`, the messaging calls of `ChatClient.ts`, `ChatRoom.tsx`, `ThreadPanel.tsx`; the queries of history-service and the writing order of persist-worker | `log` and `stored` are the stream and how much of it is in the tables; `coming` and `fetching` the announcements and contents on their way; `msgs`, `thread`, `updates`, `hist`, `unread` the client's. `Shown` combines them as the component does |
| `DecryptMessages` | `useDecryptMessages.ts` | one run at a time works through the list, cancelled runs stop at the message they wait for |
| `PresenceView` | `PresenceManager.ts`; what `services/presence/main.go` announces and answers | the question on joining, the diffs, and an answer that replaces the list. A status is written, and announced in the room by a step of its own: in another order (`DiffPublished`), or never, as after a join that tells the other room only (`DiffNeverPublished`). A question is answered by an instance that may not have heard of it yet (`lagging`, `ListPeople`) |
| `DirectMessages` | `RoomManager.ts`, `App.tsx`, `ChatClient.ts` 85-100, `chat.dms` of history-service | the rooms each of the user's tabs lists, from storage, from the service and from unread messages; closing a tab leaves them for the user; presence-service's sweep takes a user without a connection out of all of them (`SweepUser`, `UserTakenOut`), and a tab that connects again joins only what it has not joined before (`entered` is `dmRoomsJoinedRef`) |
| `ReadReceipts` | `ReadReceiptManager.ts`, `MessageList.tsx`; all of `services/read-receipt/main.go` but tracing | the report after three seconds; the service's comparison, put and mark as three steps (`UpdateComes` or `UpdateUnread`, `UpdatePut`, `UpdateMarks`) with the answer to the put lost and a crash between any two of them; the dirty set, the flush with each way it fails, the load at start, the readers of a message |
| `MessageField` | | joins the next three, which share only the screen |
| `UserSearch` | `MessageInput.tsx`, `RoomSelector.tsx`, `ChatRoom.tsx` | a search 300 ms after the last change; answers in any order |
| `StickerMarket` | `StickerMarket.tsx` | packs fetched once, stickers of a pack, one flag for both |
| `Attachments` | `MessageInput.tsx`, `FileService.ts` | the three steps of an upload, files that wait, submit, leaving the field |
| `Translations` | `TranslationService.ts`, `useTranslation.ts`, `MessageStore.ts` 544-559, the chunks of `services/translation/main.go` | chunks that carry the key of the message only, and go to all tabs of the user, each of which appends them; spinners, availability, giving up; a new token, with which the tab's texts are gone (`TokenRefreshed`) |

`ReadReceipts` takes the names in the messages as they are: the client sends
`timestamp` (`ReadReceiptManager.ts:26`), the service decodes `lastRead`
(`services/read-receipt/main.go:97-101`), so that what is stored is 0
(`Decoded`). The model has it so, and `PositionsPersisted` is about whatever is
stored.

In ChatView a thread that is opened is given what the code gives it: the request
for its history goes to `chat.history.{room}` (`MessageStore.ts:150`), whose
handler answers with the newest page of the room, and that takes the place of
the replies (`ThreadArrives`, and section 5).

Some ghosts are there because a proof asked for them. `torn` of ChatView: an
answer to an older question, or an older page that was read before the history it
is put in front of (`ChatRoom.tsx` 170), leaves a gap or breaks the order until the
history is read again.
`moved` of UserSearch: what is typed offline leaves `activeIndex` where it is
(`MessageInput.tsx` 223-233), and a late answer to an older word can be a shorter
list. In ClientSession the commit that shows a new client comes before the next
click.

### The room apps

| Module | Code | Its state and steps |
|---|---|---|
| `Whiteboard` | `apps/whiteboard/service/src/index.ts`, `merge.ts`, `BoardView.tsx` | `board` is the row; a delta is read and written in two steps (`DeltaRead`, `DeltaWrite`); the versions of elements; what each view has seen, has not yet sent and is muted for |
| `PageEditor` | `NatsHandler.java`, `page-editor.component.ts` | one queue of requests at the service; the two-second timer, the timer of an editor that is gone, the service's list of who edits |
| `Polls` | `apps/poll/service/main.go`, `apps/poll/app/src/App.tsx` | the votes, the events, and results asked for in three places |
| `AppTabs` | `ChatRoom.tsx`, `AppBridge.ts` | the effect that mounts an app, its cleanup, and the script that loads when it likes |
| `InstalledApps` | | joins PageEditor, Polls and AppTabs |

In PageEditor a word is lost when the code loses it: typed over by the save of
another writer, typed before the page had come (`blind`), or wiped out by its
own writer, when the save of an editor that is gone arrives after the next
editor has read the page (`Overwritten`). An answer with an error is no failure
to the page's component: it clears title and text (`LoadPageFails`). Two things
are simplified: the service reads a page, answers and is subscribed to in one step
(`LoadPage`), as the list of editors is sent to all again by the registration that
follows; and an app whose page is loading is not hidden while the timer of a
save of it is running.

### PresenceService

Models `services/presence/main.go` for one user, one room, some tabs and some
instances.

| TLA+ | Code |
|---|---|
| `conns`, `marks`, `entry` | PRESENCE_CONN: the keys that live, and those deleted with a marker; PRESENCE: status and revision |
| `watching`, `watched`, `older` | the watcher of an instance, what it was told, and what the watcher of before the last reconnection may still take: `select` picks at random |
| `tracked`, `index`, `snapshot` | `connTracker`, `dualMembership`, `hydrateRoomMembership` between its request and its swap |
| `doing` | the callbacks at work, each with its step: `put`, `add`, `write`, `remove`, `get`, `cas`, `sweep` |
| `BeatTaken`, `BeatStored`, `BeatTracked`; `ByeTaken`, `ByeUntracks`; `SetTaken`, `StatusPut`; `RoomNewsTaken` | the handlers of heartbeats, disconnects, status updates and deltas, with the error branch of each request |
| `OfflineReads`, `OfflineMarks`, `Sweep` | `handleUserOffline`: read, compare-and-set, `room.leave` |
| `WatcherTakes`, `WatcherReads`, `WatcherOpens`, `WatcherFails`, `OldWatcherTakes`, `OldWatcherEnds`, `Hydrates`, `SwapsIn` | the watcher, its restart, and the hydration on reconnecting |
| `ConnectionExpires`, `RoomServes`, `OpenBrowser`, `CloseBrowser`, `BrowserDies`, `BrowserIsCut`, `BrowserReturns` | the bucket's TTL, room-service and the tabs, as this service meets them |
| `causes`, `sound` | history |

That a key which expires is told to the watchers like one that was deleted is
taken from the code and from section 10 of the presence design; it is a
property of JetStream. A key that expired leaves no marker, a deleted one does,
and a watcher that starts reads markers too. A heartbeat is not under way for
the 45 seconds its connection lives. An instance whose watcher or hydration
failed does not try again until it reconnects and is not counted as at rest.
When JetStream or the buckets do not answer on a reconnection the handler
returns early (lines 499-507): nothing is reset, no watcher is started and the
rooms are not read (`LinkComesUnready`); the watcher of before goes on, or is
gone. The two results lines 512-513 do not look at are taken to be good.

`causes` names what the service does not make good, in words: `ghost` (a tracker
differs from the bucket: a connection expired while the watcher read its keys or
was opened anew, ended while it was being put, could not be written, was put
again after its disconnect, or an older event was taken after a newer one),
`unseen`
(a tracker that has not heard of the end of a connection took a heartbeat for
one of many), `marked` (marked offline while a connection is stored), `evicted`
(and taken out of the rooms), `blind` (the instance that cleans up does not know
the room, or a join is under way), `hidden` (the user chose to be offline, and
is then never cleaned up), `crossed` (a status written between read and
compare-and-set: nobody cleans up), `late` (a status written when the last
connection has gone), `swapped` (hydration over a delta), `missed` (deltas lost
while the connection was down, after which the handler gave up).

### PersistWorker

Models `services/persist-worker/main.go`: some instances, one room.

| TLA+ | Code |
|---|---|
| `stream`; `given`, `due`, `acked`, `tries` | CHAT_MESSAGES; the durable consumer the instances share: what was given out, what is to be given again, what was acknowledged, and how often each event was given (`NumDelivered`) |
| `held`, `step` | what the client library of an instance holds (at most `Prefetch`), and where its callback is |
| `keyCache`, `made`, `rawKey` | `roomKeyCache`; the keys clients made for an epoch, and the one e2ee-key has |
| `rows`, `versions`, `reactions` | the tables |
| `SendMessage`, `EditOf`, `DeletionOf`, `ReactionTo` | `sendThreadReply`, `editThreadMessage`, `deleteThreadMessage`, `reactToThreadMessage` |
| `EnableAgain`, `RawKeyStored` | a second `enableRoom`; a rotation whose winner uses the new key before it is published |
| `Give`, `Overdue`, `Acknowledge`, `Naked`, `CrashOf` | delivery, AckWait and the delay of a Nak, Ack, Nak, a restart |
| `DecryptCached`, `DecryptFetched`, `NotDecrypted` | `decryptIfE2EE` with the cache and `fetchRoomKey`, and what its failure leads to |
| `StoreMessage`, `StoreEdit`, `StoreDeletion`, `StoreReaction`, `ReactionThere`, `RemoveReaction`, `WriteFails` | the branches of the callback with their statements |
| `done`, `served`, `upsets` | history |

The tables are compared with the stream without a fold over it: the row of a
message has the last text before the first deletion, and its versions are the last of the texts
before that one (`IsLatest`, `AreLatest`), of a message written in
order (`WrittenInOrder`). An edit of a message that has several rows keeps a
version of each; the statement leaves their order open (`SetToSeqs`).

A statement may take effect and still report an error; the transaction of an
edit is one action, as nothing sees it half-way. That JetStream gives an event
that is due again before new ones, counts its deliveries, and waits for the Ack
by default thirty seconds is taken from its documentation. What changes no table
(`chat.dms`, bodies that are not JSON) is left out, and so are the limits of the
stream. A reply that is broadcast is two messages of one time to the worker, and
is left out here.

### Parts, MCWebClient

The browser, the apps, presence-service and persist-worker are sixteen parts
that share no variable. `Parts` takes them together: `part` says which is awake,
and the others stay in one initial state, so that one run, of `MCWebClient`, is the
union of sixteen, of which each keeps its own constants. A set of budgets (`MCChatBudgets` ...) is a set of
scenarios: each budget says how often each event may happen, and the run takes
all behaviours of all of them.

## 4. Runs

| Run | Bounds | Shows |
|---|---|---|
| `membership` | 1 room, 1 user, 2 replicas, 2 callers, 2 deltas, 1 fault of any kind at any moment | `TypeOK`, `CacheFollowsBucket`, and under fairness `DisagreementEnds` |
| `room_service` | 1 room, 2 users, 1 replica, 2 requests at once, 2 deltas, crashes, bucket and SQL errors | `ServiceTypeOK`, `StrangersStayOut`, `RemovedUsersAreOut`, `RoomHasOneOwner` |
| `fanout_cache` | 2 rooms, 1 user, the members of 1 room change, 1 ingest and 1 fan-out handler, a cache of 1 room, 2 deltas to be published or queued, lagging answers, lost connections, failing requests, shutdown | `TypeOK`, `CacheFollowsRoomService`, `IndexMatchesList`, `OnlyMembersServed`, `FlightsHold` |
| `auth_pool` | 2 requests of any kind, 2 workers, a queue of 1, deadlines, shutdown at any moment | `TypeOK`, `OneAnswer`, `NoneForgotten`, `NoSendOnClosedQueue`; under fairness `AcceptedIsHandled`, `StopReturns` |
| `room_keys` | 2 clients, 3 epochs, 1 kept besides the current one, nine scenarios | `TypeOK`, `KeyAgreement`, `NobodyAhead`, `ElectsOnce`, `SettledClientsHaveKeys` |
| `web_client` | the sixteen parts, each with its scenarios | `WebTypeOK` and the sixteen properties below |
| `leaver_keeps_key` | 2 clients, one departure | the code breaks `LeaverLosesKey` |
| `orphaned_room` | 3 users, no faults | the code breaks `NoOrphanedRoom` |
| `deleted_room` | SQL errors | the code breaks `OnlyEmptyRoomsDeleted` |
| `fanout_shutdown` | 1 room, 1 handler | the code breaks `NoSendAfterClose` |
| `lost_rooms` | one token refresh | the code breaks `AllRoomsJoined` |
| `live_user_swept` | 1 tab that is cut off and comes back, 2 instances | the code breaks `LiveUsersStay` |

What `web_client` checks, part by part:

| Property | Part | Says |
|---|---|---|
| `EachShownOnce`, `DeletedStaysDeleted`, `NoneUnreadInView` | ChatView | what the stores have is shown, once; a deletion that was heard of is not undone; the room on the screen has no unread messages |
| `TriedAreDecrypted` | DecryptMessages | what will not be tried again is shown |
| `SessionSettles` | ClientSession | known rooms are joined, joined ones subscribed; replaced clients are silent, and the App knows whether it is connected |
| `StatusesSettle` | PresenceView | everybody is shown with the status the service has, but for those an answer was out of date about (`blurred`) or whose announcements crossed or were not made (`doubted`) |
| `DmsReachTheUser` | DirectMessages | each direct message is listed, and the user is a member of what is listed, but for what a sweep or another tab took from him (`taken`) |
| `PositionsPersisted` | ReadReceipts | the bucket's position is in the table or on its way |
| `FieldSettles` | MessageField | a search shows its word's users, loading ends, each stored file is sent or waits |
| `TextOfOneAnswer` | Translations | a text is a beginning of one answer, in every tab, but where answers met (`mixed`) or a chunk was lost or went to an earlier client (`gapped`) |
| `AppsSettle` | InstalledApps | words are saved and editors shown, results are the service's, a tab shows its app |
| `BoardsAgree`, `VersionsGrow` | Whiteboard | views at rest are equal, nothing is echoed, and no element goes back to an older version |
| `SweptByOne`, `PresenceIsRight` | PresenceService | one cleanup per offline mark; trackers, indexes, rooms and status agree at rest |
| `TablesFollowStream` | PersistWorker | nothing is acknowledged unwritten (`NothingForgotten`); without faults nothing is written twice, and by one instance in order (`OrderKept`); a text whose key the service has is decrypted (`KeysServe`); at rest the tables say of a message what the stream says, but for one whose events were written twice or out of order (`TablesRight`) |

Why the bounds are enough. Pairs are independent in RoomMembership: no action
reads another pair than its own, except that hydration takes all of them at
once, which is the same for each; one pair shows every interleaving. Two
replicas give a changer and a bystander, two callers every overlap of two
changes; two deltas let one be queued while another arrives, and one fault
falls at any moment of any of this (`MaxFaults`; the proofs need no such bound).
In RoomService two users and two concurrent requests give each handler a rival;
the orphaned room needs three users. `MaxInbox` is in the guards of `Start` and
`Begin`. Where symmetry is used (RoomService) tasks, replicas and users are
interchangeable and no liveness is checked. The view of MCRoomService drops the
history variables of RoomMembership and two more pieces of state that neither a
step nor another property of that run reads: the type in a delta, and
`privateRooms`, whose type is proved. In FanoutCache two rooms and a cache of
one make every fill an eviction; two handlers make a leader and a follower, of
either kind; rooms meet in the LRU only, so
that the members of one change (`Changing`), and two deltas to be published or
queued are the least with which one overtakes another. In AuthWorkerPool a queue of one is full after one request, and two
requests of any two kinds can be in the queue, in two workers or in the callback
in every combination. In RoomKeys two clients with a timer each race for an
epoch, three epochs let a key be pruned, and each scenario puts one reload, one
failure, one departure or one late joiner into a rotation or an enabling; both
clients are also owner and member. In the browser the chat has three messages
with a page of one and a store of two, so that pages, gaps and a full store
occur; sessions have two clients; boards, pages and direct messages two users or
tabs; presence two instances and two tabs, its view one user, whose three changes
of status (`MaxChanges`) let an announcement cross another and a third settle it
(users do not meet in it: `shown` is a function of them); the stream two
messages or three events of one, two instances, two keys of an epoch, and one
fault. A scenario combines two or three
events that can meet; all of them at once is beyond what can be enumerated.

Deadlock is not checked: the services and the browser end up idle when nothing
comes.

Fairness. In RoomMembership (`Fairness`) goroutines run (strong fairness for the
steps of a call, since a publish waits for a connection that may come and go),
NATS delivers to a connected subscriber, the client reconnects without limit, a
dead container is restarted. In AuthWorkerPool the goroutines run and a
validation ends; weak fairness is enough, as no step waits for a condition that
comes and goes. Nothing obliges a fault to happen, or a request, a deadline or a
signal. The other modules state what holds at rest, as an invariant, and need no
fairness: that the system comes to rest is not claimed.

Each property has a mutant: a definition kept beside the one of the code, marked
"A bug:" or "Faulty:", that makes TLC find the property violated. A few more are kept for the
parts of a conjunction (`ShownHistory`, `ChangedKnown`, `TypeWhileSaving`,
`EditingOnce`, `ScriptLoadsOnce`, `FetchEndsOnlyWell`, `SubmitText`,
`DmTabConnectsOnly`, `RenderTrusting`, `BeginsAtOnce`, `WithEpoch`).

## 5. Findings

- `orphaned_room`: the design gives ownership transfer as what prevents
  orphaned channels. The heir is read in one statement and promoted in another.
- `deleted_room`: "No other members" is concluded from any error.
- `fanout_shutdown`: `nc.Drain()` is taken to wait for callbacks in flight; it
  returns at once, and `close(jobCh)` lets a callback panic on its send.
- `leaver_keeps_key`: a departure is skipped by a client whose metadata does not
  say that the room is encrypted; when all skip it nobody rotates.
- `lost_rooms`: a refreshed token makes a new client, but the App remembers the
  joins of the old one, and joins only the room on the screen again.
- `live_user_swept`: between the tracker's last removal and the compare-and-set a
  heartbeat changes nothing the cleanup reads; the connected user is marked
  offline and taken out of his rooms.

Two comments or documents say of the client what it does not do, and no property
is about them, as one request or one remembered join shows it: the design of
threads (`docs/plans/2026-02-18-thread-feature-design.md:79`) has the panel ask
`chat.history.{room}.thread.{threadId}`, which history-service answers
(`services/history/main.go:301-326`), while the client asks the subject of the room
and shows the newest messages of the room (`MessageStore.ts:150`); and the App,
which says it joins its direct messages again on every connection
(`App.tsx:159`, `:180`), skips those it has joined before (`dmRoomsJoinedRef`,
`App.tsx:181-188`), although presence-service has taken a user whose connection
was down for more than 45 seconds out of all his rooms. Both behaviours are in the
models (`ThreadArrives`; `SweepUser`, `Connects`).

Met on the way, and not stated by any document: hydration of room-service
overwrites a delta applied since the bucket was read (the ghost `missed` of
RoomMembership); two runs of `enableRoom` reset the epoch; the name a read
position is sent under is not the one it is read by; edits, deletions and
reactions in the main view carry the time of the click, which is no message's
(ChatView's `Void`); a presence
instance whose watcher failed stays without one until it reconnects, and one
that reconnects while the buckets do not answer keeps what it had; a user who
joins a room is put online, and only that room is told
(`services/presence/main.go:577-593`); fanout may keep the answer of a replica that
lags behind a delta fanout has already had; a read position that was put and whose
answer was lost is not marked to be written; translations go to every tab of the
user, and a tab appends them to whatever text it has. Met by
proving: a key that a second answer wraps for a newcomer is not fetched
(`belated`); a highlighted place in the list of users that the list no longer has
(`moved`); an older page that joins a history read after it (`torn`); a
status written for a user whose last connection has just gone, who then shows it
with nobody to clean up (`late`); and a writer who comes back to a page while the
save of the last visit is on its way, and whose next save takes the words of that
visit out again (`Overwritten`).

The writes of persist-worker are not idempotent, although
`docs/architecture-review.md:655` asks that of parallel instances and names
`ON CONFLICT` for the reactions: an insert that is given again makes a second
row (the table of messages has no constraint that refuses it), and a reaction
that is given again finds itself there and is toggled off. As each reaction has
the time of its own click for a key, redelivery is the only thing that ever
toggles one off. An edit may be written before its message, by another instance
or while the message waits for its key, and is then lost; one stored encrypted
does not set `e2ee_decryption_failed`.

The properties that carry conditions say what holds outside such cases: a
reader who wants to know when a replica can be wrong reads `raced` and `missed`;
when fanout can, `stale` and `crossed`; presence, `causes`; the keys, `belated`; the tables, `done` and `upsets`; the
browser and the apps, the variables marked "ghost".

## 6. Proofs

In the modules `*_proofs`, for every value of the constants (the assumptions on
them are the named ASSUMEs of the modules). In `RoomService_proofs`, which is
about RoomMembership too:

- `TypeCorrect`: `TypeOK` is inductive by itself.
- `CacheCorrect`: `CacheFollowsBucket` is not. It needs `IInv`: the last delta
  queued for a quiet pair says what the bucket holds (`LastRight`), a snapshot
  is right about what has not changed since it was read (`SnapRight`), a call
  past its bucket write agrees with the bucket unless the pair is raced
  (`OpAgrees`), and a replica without a connection has nothing queued
  (`InboxEmpty`). `InvStep` goes through the actions one by one.
- `ServiceTypeCorrect`: with `OpOfJob`, which says whose call an `op` is.
- `ServiceImplementsMembership`: each step of the handlers is a step of
  RoomMembership or leaves its variables alone, so `ServiceCacheCorrect` follows
  from `CacheCorrect`.
- `Gatekeeping`: `AInv` adds that whatever could still put a pair into an index
  (a key, a snapshot, a queued delta, a call under way, a job past its gate)
  is about an admitted pair, that a row implies admission and that a room
  without a row admits everybody.
- `Ownership`: `RoomHasOneOwner` is stated of rooms nobody is leaving, so `OInv`
  says of the others who owns the room at each statement of the departure
  (`DepartFits`): one owner before its queries, the leaver alone at the choice of
  the heir and at the promotion, one owner besides the leaver once the heir is
  promoted and the leaver's row is about to go. A kick past its check is not about
  the owner (`KickFits`). Both stay true because in an undisputed room a departure
  overlaps no other, no kick and no create (`Alone`): a call that begins in
  spite of that, like a statement that fails, marks the room `disputed`, and
  `orphaned_room` shows what the code then does.
- `Removal`: `RemovedUsersAreOut` needs `RInv`. A user without a row of a private
  room has no call on its way that lets him in (`Entering`: past the gate and the
  row, before the bucket is written); and if his key is still in
  the bucket, a removal that has not yet reached it is on its way (`Undone`). A
  removal and a letting-in of one pair overlap only for pairs that are `excused`
  (`Apart`), and a removal that failed excuses its pair.

In `FanoutCache_proofs`:

- `TypeCorrect`, `LruCorrect`: `IndexMatchesList` is inductive with the types
  (`LruInv`): the list names each room once, the rooms of the index and no more
  than `Cap` of them. The lemmas about `Without` and what is put in front say what
  taking a room out of the list does to it.
- `CacheCorrect`: `CacheFollowsRoomService` needs `CInv`. A delta that is due says
  what the bucket has unless it crossed another (`DueRight`), and so does the last
  one queued about a pair of which none is due (`LastRight`); an answer about to be
  stored is right about every user it was not wrong about from the start, no delta
  passed by, and none is still to come about (`StoreRight`); nothing is queued
  without a connection (`InboxEmpty`). It does not read `list`: the order of the
  entries decides only which one is evicted.
- `FlightsCorrect`: `FlightsHold` is inductive once the types are known.
- `ServesMembers`: `OnlyMembersServed` needs `MInv`, which follows the users who
  could still come before a handler. They are the members, those a delta to
  come lets in (`MayJoining`), those of the room's entry (`MayEntry`) and of an answer
  another handler holds (`MayAnswer`); all of them are users it may act for, or
  users whom a delta passed by, whom the answering replica named, or whose changes
  crossed. A handler that has just begun finds this to be so
  because whoever an entry or an answer names is a member, or will be taken out
  by a delta to come (`LeaveFollows`, `AnswerRight`, and `CInv` for the entries).

In `AuthWorkerPool_proofs`:

- `TypeCorrect`: `TypeOK` is inductive by itself.
- `NeverPanics`: `Locked` says what `p.mu` protects. Between the check of
  `stopped` and the send the callback holds it, and the queue is closed only by
  who holds it.
- `AnsweredOnce`, `ValidAnswered`: from `IInv`. A request is in one place - the
  callback, one slot of the queue, one worker - and its status says which
  (`Places`); nothing was sent to a request that has not ended.

In `RoomKeys_proofs`:

- `TypeCorrect` and the refinement `ElectionHeld`, however often encryption is
  enabled, from `EInv`: an epoch above the service's was won by nobody (`Epoch`),
  and a rotation whose revision is still the current one is about an epoch above the
  current one (`Shape`), as every put of the record, an enabling's too, makes a new
  revision (`Later`).
- `KeysAgree` and `NoneIsAhead`, when encryption is enabled once at most
  (`MaxEnables = 1`), follow from `KInv`. `KeyAgreement` is far from inductive: a client holds a
  key long before anyone else does, in a chain of requests that may yet lose.
  `Server` says what the service has: each epoch is won by one claimant, and an
  epoch above the current one by nobody. `Rings` says that every key kept anywhere
  is the one its epoch may have, `Right(e)`: the winner's, or for epoch 1 that of
  the enabling. `Beliefs` bounds what clients believe by the service's epoch;
  `Fits`, in `Tasks`, is what is known of a chain at each of its points (past
  `won` it has won its epoch; at `write` it has read a revision, and if that is
  still the current one its epoch is above the current one). `Answers` is about keys sent
  among clients, `Enabling` about the one chain that may enable. The greatest
  epoch below another (`MaxExists`) comes from the well-foundedness of the
  numbers.

- `SettledHaveKeys`, under the same condition: "at rest a client has what is wrapped for it" has no
  history in it, so `SettleInv` says what is owed at any other moment. While
  nothing has failed, a client that lacks a key wrapped for it (`Bare`) is online
  and `Provided` for: one of its chains is about to ask for its keys, a notice is on
  its way to it, a winner has yet to announce its epoch, or the key is the first
  and the client has not looked at the room yet (`Unaware`). `KeyKept` says that a winner keeps
  its own key until it prunes it.

In `WebClient_proofs`, one section for each part of the browser:

- `TriedShown`: the messages tried are shown, dropped, found by the run, or the
  one a run waits for.
- `ShownIsKnown`: the newest change that is not announced is the status the user
  has (`NewestRight`), and so is the last one announced of a user of whom none is
  to be announced, unless announcements crossed (`LastRight`); an answer that was written is right about
  all who have not changed since and of whom the instance had heard
  (`AnswersRight`), and without question or change under way what is shown is right
  (`ShownRight`).
- `ReportedIsKept`: `FlushInv` follows a position from the bucket into the table:
  what is not dirty or about to be, nor forgotten by the service, is in the
  transaction at work, or in the table when there is none.
- `TextsHold`: `TextInv` says of each tab and each message in it that no other
  answer and no loss has touched (`OneAnswerOf`): a number of chunks of the answer
  to the last request are published, the text has the first of them, the rest is
  on its way to the tab, and the one answer that is given goes on behind them.
- `BoardTypeCorrect`, `Growing` and `Agreement`: `EchoInv` says that what a view
  shows and has not reported, keeps to be sent, or has sent is its user's own.
  `AgreeInv` is stated of one element of a board that is there, no change of which
  was lost: what a request has read is not ahead of the row (`HasRead`), broadcasts
  say what the row had (`IsTold`), a view that opens or is open knows the row's
  version or has it coming (`Opens`, `Follows`), and an open view shows the element
  of the version it knows, or a newer one, and the row had that or will be told
  (`ShowsIt`).
- `DmsAreRight`: `DmRight`. A connected tab has joined what it lists, and of what it
  has joined the user is a member, but for what a sweep or another tab took from him (`Members`); a
  room with a message is listed by an open tab, on its way to it, or one of which it
  could not learn (`Learns`).
- `SettlesDown`: `SessionInv`. The clients before the one in use are those disposed
  of, silent, and each is subscribed to what it has joined (`Fleet`); the App wants the client
  in use and was told of its connection (`Linked`); and the rooms the App has seen
  have been joined, are queued, or their join was wasted (`Begun`).
- `FieldRests`: `SearchInv` (a field whose list is not the one of its word waits
  for a timer or an answer, `Awaited`; the place in a list is its first where the
  user did not move, `AtFirst`), `MarketInv` and `FilesInv`.
- `ConnectionTypeCorrect`: the types, `CTypes`.
- `OneSweeper`: in `StatusInv` a callback that
  has not read the status knows no revision and one that has knows none that is
  still to come (`Reads`, `EntriesKnown`); a compare-and-set that succeeds makes a new
  one, so that the revision tells the callbacks that clean up apart.
- `Presence`: five invariants, one for each thing that agrees at rest. A tracker
  has the connections of the bucket but for what its watcher has yet to tell it
  or a callback has yet to do (`Tracks`); an index has the rooms of the user but
  for the deltas queued and the snapshot to be swapped in (`Indexes`); nothing was
  lost while it is `sound` (`Sounds`); a user with a connection is shown online, or
  somebody is about to write it (`Lives`); and a user without one is out of the room,
  or somebody is about to see that, to mark him offline and to take him out
  (`Gones`).
- `DecryptTypeCorrect`, `ReadTypeCorrect`, `TranslationsTypeCorrect`, `DmTypeCorrect`,
  `SessionTypeCorrect`, `FieldTypeCorrect`: the types of the others. Where the type of
  a variable is not inductive, an invariant says more: a message is in one place
  (`DecryptPlaces`), a timer is set for a word only (`SearchWhole`). That the
  smallest of a set of numbers is one of them (`LeastOf`) is shown by counting.

In `Messages_proofs`, about ChatView:

- `ChatTypeCorrect`: `TInv`, for the log, the stores, the pages and the screen.
- `NoneUnread`, and `Deleted`: a deletion that was heard of is in the overlay or
  on the message in every store that has it (`HearsLive`, `Struck`).
- `EachOnce`: `EachShownOnce` relates what is on the screen to the log, which takes
  `SInv`: messages have their own timestamps (`Unique`, `Numbered`), the store has
  each once (`OneEach`), a message is on its way to the store or in it unless
  something went wrong (`Carried`), the history has messages of the room (`OfRoom`),
  and while it is not `torn` it has them in order and without a gap, and the newest
  page still to come was read no earlier than what it shows (`Whole`).

and about PersistWorker:

- `PersistTypeCorrect`: the types, with what a callback past its beginning has in
  hand (`StepFits`) and the keys the events were encrypted with (`LocksFit`).
- `TablesFollow`: each part of `TablesFollowStream` needs an invariant of its
  own. What is acknowledged was written because a callback that is about to
  acknowledge or to toggle has written (`StepFits`, `WrittenInv`). The tables are
  right at every moment about what was written so far (`TablesInv`, a property of
  `done` and the tables alone), and the message comes first in the stream
  (`MessagesFirst`); at rest, what was written is all that was sent
  (`AllWritten`). Without faults an event is at one place (`Placed`), and what was
  written is acknowledged or in the one hand that will acknowledge it, so that it is
  not written again (`OnceInv`); one instance alone has the next events of the
  stream in its hand (`AloneInv`). `KeysServe` rests on counting (`TriesInv`): an
  event whose key the service has was given out no more often than there are
  instances without another key of its epoch in the cache, and the one attempt
  under way; each attempt that fails takes such a key out of one cache
  (`CountsStep`), and none puts one in. So it is decrypted before the tries are
  used up (`ServeInv`).

In `InstalledApps_proofs`:

- `AppsRest`: `TabsInv` (the tab that is chosen is on the screen, or waits for its
  script), `PollsInv` (of each poll that is listed, what is shown is the service's,
  or an event, a request or a load is on its way that will show it, `FreshPoll`;
  nothing is ahead of the service, `NoneAhead`) and `EditorInv`. An editor, and the
  timer of one that is gone, has all the words typed in it (`WholeTexts`); a save does not
  come before one with fewer words of the same editor (`InTurn`); a word that is
  neither on the page nor lost is in a save on its way or in an editor whose timer
  runs (`NoneForgotten`); the last thing a writer said to the service is whether he
  edits (`Registers`), and the last list sent to an editor is the service's
  (`Informed`).
- `AppsTypeCorrect`: the types. The number given to a new script, element or request
  is one that no other has, as there are finitely many (`FreshNumber`); no word is
  numbered beyond those that may be typed (`GhostTypes`).

In `Parts_proofs`, about the specification that `web_client` checks:

- `WebIsEvery`: each of its behaviours is one of every part, since a step of one
  leaves the others alone (`WebSteps`). So `WebTypeCorrect` and `WebIsRight` follow
  from the theorems of the parts: the run shows the seventeen properties on a small
  instance, the theorems for every value of the constants.
- `PresenceTypeCorrect`, which needs `FreshNumber`.

What the proofs changed. Where an invariant was not inductive for a reason, TLC
showed the behaviour once it was given the bounds for it, and the model names the
case: `belated`, `torn`, `moved`, `late`, two more kinds of `ghost`, `Overwritten`
(section 5). Each of them is a behaviour of the code.

Only model-checked: liveness (`DisagreementEnds`, `AcceptedIsHandled`,
`StopReturns`), which under fairness is out of the prover's reach; every invariant
and action property of a passing run is a theorem. Nothing is proved of what the recursive
definitions of the community modules compute for every input.

## 7. Not modelled

- **persist-worker**: the limits of the stream (10,000 messages, seven days),
  which drop what no instance took in time; the metadata of a delivery that
  cannot be read.
- **history-service**: its query for the replies of a thread
  (`chat.history.*.thread.*`), which no client of this repository asks.
- **fanout**: the rate limit and the circuit breaker decide only whether a
  sender is refused; MSG_CACHE is written once under a fresh random key.
- **read-receipt**: two instances that flush the same position.
- **end-to-end encryption**: other tabs of the same user (each has the same key
  store in the browser), `rotateIdentityKey`, `verifyUserKey`, and
  `e2ee.room.disable`, which no client of this repository calls.
- **presence-service**: the diffs it publishes and the `presence.room` query are
  not joined to the model of its instances: PresenceView has them as its client
  meets them, crossed, missing and from instances that lag. On a reconnection
  (lines 512-513) a bucket that cannot be opened leaves nothing behind it, and the
  next use ends the process; that is not in the model.
- **auth**: the permission table and the caches of service accounts, which are
  replaced as a whole.
- **translation**: what the model answers; that its chunks go to every tab is.
- **app-registry, file-upload, media-server, sticker, user-search**:
  request/reply around a table, an object store or an external service. The
  browser's modules take their answers as they come, late, or never.
- Rendering, formatting, emoji, styles, and the broker's and the database's
  configuration, which is read for what the modules assume of them.
