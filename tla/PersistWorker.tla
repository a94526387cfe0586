--------------------------- MODULE PersistWorker ---------------------------
(***************************************************************************)
(* persist-worker: the instances that write the stream of one room's       *)
(* messages, edits, deletions and reactions to the tables.  They share one *)
(* durable consumer, which gives each event to an instance, in the order   *)
(* of the stream, and again when it is not acknowledged: after a Nak, a    *)
(* crash, or thirty seconds.  An instance handles what it was given one    *)
(* after the other.                                                        *)
(*                                                                         *)
(* The messages are one author's replies to a thread: their edits and      *)
(* deletions carry the time of the message (those of the main view carry   *)
(* the time of the click, which is no message's).  A reaction carries the  *)
(* time of its click everywhere, so that its row is told from all others'. *)
(* The text of an event is its number in the stream; one that is encrypted *)
(* has an epoch and the key it was encrypted with.                         *)
(***************************************************************************)
EXTENDS Integers, Sequences, SequencesExt, FiniteSets

CONSTANTS Persisters,     \* the instances there may be
          MaxMessages,    \* bound: the messages
          Prefetch,       \* bound: the events an instance is given at a time
          MaxTries,       \* maxE2EERetries (code: 10)
          KeptVersions,   \* the versions kept of a message (code: 5)
          KeptKeys,       \* maxKeys of the cache (code: 1000)
          PersistBudgets  \* bound: the instances, the epochs in use, whether
                          \* the second's key comes late, and how often each event happens

ASSUME PersistParameters ==
  /\ MaxMessages \in Nat /\ Prefetch \in Nat \ {0} /\ MaxTries \in Nat
  /\ KeptVersions \in Nat /\ KeptKeys \in Nat \ {0}

PersistKinds == {"message", "edit", "delete", "react", "crash", "failure", "stall", "rekey"}
KeyEpochs == {1, 2}

ASSUME PersistCounts ==
  /\ IsFiniteSet(Persisters)
  /\ \A b \in PersistBudgets :
       /\ b.crew \subseteq Persisters /\ b.epochs \in Nat /\ b.late \in BOOLEAN
       /\ \A kind \in PersistKinds : b[kind] \in Nat

InPlain == [epoch |-> 0, key |-> 0]

VARIABLES
  stream,      \* CHAT_MESSAGES
  given,       \* the consumer: how many events were given out
  due,         \* ... and those to be given again
  acked,       \* ... and those acknowledged
  tries,       \* ... and how often each was given out
  held,        \* what each instance was given and has not finished
  step,        \* where its callback is, and whether the text is left encrypted
  keyCache,    \* roomKeyCache of each instance, oldest first
  made, rawKey,\* of each epoch the keys clients made, and the one e2ee-key has
  rows,        \* messages: the rows of each message
  versions,    \* message_versions, oldest first
  reactions,   \* message_reactions: the reactions there are
  crew,        \* the instances there are
  done,        \* ghost: the events whose statements took effect, in order
  served,      \* ghost: the encrypted events whose key the service had when they were sent
  upsets,      \* ghost: what has gone wrong: a crash, a failure, a delay, a key
  persistLeft

persistQueue == <<stream, given, due, acked, tries>>
persistKeys == <<keyCache, made, rawKey>>
persistTables == <<rows, versions, reactions>>
persistVars == <<persistQueue, held, step, persistKeys, persistTables, crew, done, served, upsets, persistLeft>>

MessageIds == 1..MaxMessages
AtStart == [at |-> "idle", cipher |-> FALSE]
StreamEvent == [act : {"message", "edit", "delete", "react"}, id : MessageIds, lock : [epoch : {0} \cup KeyEpochs, key : Nat]]

SpendPersist(kind) == persistLeft[kind] > 0 /\ persistLeft' = [persistLeft EXCEPT ![kind] = @ - 1]
Calmly == UNCHANGED <<upsets, persistLeft>>
Upset(kind) == SpendPersist(kind) /\ upsets' = upsets \cup {kind}

PersistInit ==
  /\ stream = <<>> /\ given = 0 /\ due = {} /\ acked = {} /\ tries = <<>>
  /\ held = [w \in Persisters |-> <<>>] /\ step = [w \in Persisters |-> AtStart]
  /\ keyCache = [w \in Persisters |-> <<>>]
  /\ rows = [m \in MessageIds |-> <<>>] /\ versions = [m \in MessageIds |-> <<>>] /\ reactions = {}
  /\ done = <<>> /\ served = {} /\ upsets = {}
  /\ \E b \in PersistBudgets :
       /\ persistLeft = [kind \in PersistKinds |-> b[kind]] /\ crew = b.crew
       /\ made = [e \in KeyEpochs |-> IF e <= b.epochs THEN 1 ELSE 0]
       /\ rawKey = [e \in KeyEpochs |-> IF e <= b.epochs /\ ~(b.late /\ e = 2) THEN 1 ELSE 0]

-----------------------------------------------------------------------------
(* The clients and the key service.                                         *)

SendsOut(event) ==
  /\ SpendPersist(event.act) /\ UNCHANGED upsets
  /\ stream' = Append(stream, event) /\ tries' = Append(tries, 0)
  /\ served' = IF event.lock.epoch > 0 /\ rawKey[event.lock.epoch] = event.lock.key THEN served \cup {Len(stream) + 1} ELSE served
  /\ UNCHANGED <<given, due, acked, held, step, persistKeys, persistTables, crew, done>>

Sent(m) == \E i \in DOMAIN stream : stream[i].act = "message" /\ stream[i].id = m
\* A text goes out as the room is: plain, or under a key of an epoch.
Encrypting == {[epoch |-> e, key |-> k] : e \in KeyEpochs, k \in 1..2}
Locks == IF made[1] = 0 THEN {InPlain} ELSE {lock \in Encrypting : lock.key <= made[lock.epoch]}

SendMessage(lock) ==
  /\ \E m \in MessageIds :
       /\ ~Sent(m) /\ \A n \in MessageIds : n < m => Sent(n)
       /\ SendsOut([act |-> "message", id |-> m, lock |-> lock])
EditOf(m, lock) == Sent(m) /\ SendsOut([act |-> "edit", id |-> m, lock |-> lock])
DeletionOf(m) == Sent(m) /\ SendsOut([act |-> "delete", id |-> m, lock |-> InPlain])
ReactionTo(m) == Sent(m) /\ SendsOut([act |-> "react", id |-> m, lock |-> InPlain])

\* Encryption is enabled a second time: another key for epoch 1, which the
\* service has before a client uses it; some clients still use the old one.
EnableAgain ==
  /\ made[1] > 0 /\ SpendPersist("rekey") /\ UNCHANGED <<upsets, served>>
  /\ made' = [made EXCEPT ![1] = @ + 1] /\ rawKey' = [rawKey EXCEPT ![1] = made[1] + 1]
  /\ UNCHANGED <<persistQueue, held, step, keyCache, persistTables, crew, done>>

\* Who rotates uses the key of the new epoch already while he publishes it.
RawKeyStored ==
  /\ rawKey[2] < made[2]
  /\ rawKey' = [rawKey EXCEPT ![2] = made[2]]
  /\ UNCHANGED <<persistQueue, held, step, keyCache, made, persistTables, crew, done, served, upsets, persistLeft>>

-----------------------------------------------------------------------------
(* The consumer: one delivery of an event is its number and its count.      *)

Now(w) == Head(held[w]).of
InHand(w) == stream[Now(w)]

\* Events to be given again come before new ones.
Give(w) ==
  /\ w \in crew /\ Len(held[w]) < Prefetch
  /\ \E i \in IF due # {} THEN due ELSE {given + 1} \cap DOMAIN stream :
       /\ held' = [held EXCEPT ![w] = Append(@, [of |-> i, n |-> tries[i] + 1])]
       /\ tries' = [tries EXCEPT ![i] = @ + 1]
       /\ due' = due \ {i} /\ given' = IF i > given THEN i ELSE given
  /\ UNCHANGED <<stream, acked, step, persistKeys, persistTables, crew, done, served, upsets, persistLeft>>

IsHeld(i) == \E w \in crew : \E d \in DOMAIN held[w] : held[w][d].of = i
\* AckWait, or the delay of a Nak, is over; a live instance takes too long for
\* its own only now and then.
Overdue(i) ==
  /\ i \in 1..given /\ i \notin acked \cup due
  /\ IF IsHeld(i) THEN Upset("stall") ELSE Calmly
  /\ due' = due \cup {i}
  /\ UNCHANGED <<stream, given, acked, tries, held, step, persistKeys, persistTables, crew, done, served>>

LeavesHand(w) == held' = [held EXCEPT ![w] = Tail(@)] /\ step' = [step EXCEPT ![w] = AtStart]
\* Nak: the event is to be given again at once.
Naked(w) == LeavesHand(w) /\ due' = due \cup ({Now(w)} \ acked)

\* Ack, whoever else was given the event by now; it may be lost.
Acknowledge(w) ==
  /\ step[w].at = "ack" /\ LeavesHand(w)
  /\ \/ Calmly /\ acked' = acked \cup {Now(w)} /\ due' = due \ {Now(w)}
     \/ Upset("failure") /\ UNCHANGED <<acked, due>>
  /\ UNCHANGED <<stream, given, tries, persistKeys, persistTables, crew, done, served>>

\* A crash: the process is started anew.
CrashOf(w) ==
  /\ w \in crew /\ held[w] # <<>> /\ Upset("crash")
  /\ held' = [held EXCEPT ![w] = <<>>] /\ step' = [step EXCEPT ![w] = AtStart]
  /\ keyCache' = [keyCache EXCEPT ![w] = <<>>]
  /\ UNCHANGED <<persistQueue, made, rawKey, persistTables, crew, done, served>>

-----------------------------------------------------------------------------
(* decryptIfE2EE.                                                           *)

HasText(e) == e.act \in {"message", "edit"}
CachedKeys(w, epoch) == {i \in DOMAIN keyCache[w] : keyCache[w][i].epoch = epoch}
\* put: the oldest key makes room.
WithKey(cache, lock) == Append(IF Len(cache) >= KeptKeys THEN Tail(cache) ELSE cache, lock)
\* A bug: the key that failed stays.
WithEpoch(cache, epoch) == cache
\* invalidate: after a failure the key is asked for again.
WithoutEpoch(cache, epoch) ==
  LET there == {i \in DOMAIN cache : cache[i].epoch = epoch}
  IN IF there = {} THEN cache ELSE RemoveAt(cache, CHOOSE i \in there : TRUE)

Opened(w) ==
  /\ step' = [step EXCEPT ![w] = [at |-> "write", cipher |-> FALSE]]
  /\ UNCHANGED <<held, upsets, persistLeft>>
\* No text: the event is given again later, with a delay, but not without end;
\* then the encrypted text is stored.
NotDecrypted(w) ==
  IF Head(held[w]).n > MaxTries
  THEN step' = [step EXCEPT ![w] = [at |-> "write", cipher |-> TRUE]] /\ UNCHANGED held
  ELSE LeavesHand(w)
KeyMissing == upsets' = upsets \cup {"key"} /\ UNCHANGED persistLeft

\* With a key, cached or just fetched, that is the right one or not.
OpensWith(w, cache, key) ==
  IF key = InHand(w).lock.key
  THEN keyCache' = [keyCache EXCEPT ![w] = cache] /\ Opened(w)
  ELSE /\ keyCache' = [keyCache EXCEPT ![w] = WithoutEpoch(cache, InHand(w).lock.epoch)]
       /\ NotDecrypted(w) /\ KeyMissing

Locked(w) == held[w] # <<>> /\ step[w].at = "idle" /\ HasText(InHand(w)) /\ InHand(w).lock # InPlain
DecryptCached(w) ==
  /\ Locked(w)
  /\ \E i \in CachedKeys(w, InHand(w).lock.epoch) : OpensWith(w, keyCache[w], keyCache[w][i].key)
  /\ UNCHANGED <<stream, given, due, acked, tries, made, rawKey, persistTables, crew, done, served>>

DecryptFetched(w) ==
  /\ Locked(w) /\ CachedKeys(w, InHand(w).lock.epoch) = {}
  /\ LET e == InHand(w).lock.epoch IN
       \/ rawKey[e] > 0 /\ OpensWith(w, WithKey(keyCache[w], [epoch |-> e, key |-> rawKey[e]]), rawKey[e])
       \/ /\ IF rawKey[e] = 0 THEN KeyMissing ELSE Upset("failure")
          /\ NotDecrypted(w) /\ UNCHANGED keyCache
  /\ UNCHANGED <<stream, given, due, acked, tries, made, rawKey, persistTables, crew, done, served>>

-----------------------------------------------------------------------------
(* The statements.  One that took effect may still report an error.         *)

Writes(w, act) ==
  /\ held[w] # <<>> /\ InHand(w).act = act
  /\ step[w].at = IF InHand(w).lock = InPlain THEN "idle" ELSE "write"
Goes(w, ok) ==
  IF ok THEN Calmly /\ step' = [step EXCEPT ![w].at = "ack"] /\ UNCHANGED <<held, due>>
        ELSE Upset("failure") /\ Naked(w)
TookEffect(w) == done' = Append(done, Now(w)) /\ UNCHANGED <<stream, given, acked, tries, persistKeys, crew, served>>

\* INSERT INTO messages: there is no constraint that refuses a second row.
StoreMessage(w, ok) ==
  /\ Writes(w, "message") /\ Goes(w, ok) /\ TookEffect(w)
  /\ rows' = [rows EXCEPT ![InHand(w).id] = Append(@, [text |-> Now(w), cipher |-> step[w].cipher, gone |-> FALSE])]
  /\ UNCHANGED <<versions, reactions>>

\* The transaction of an edit: the text of each row that is not deleted is kept as
\* a version, in any order, and gets the new one, and old versions go.
Trimmed(kept) == IF Len(kept) > KeptVersions THEN SubSeq(kept, Len(kept) - KeptVersions + 1, Len(kept)) ELSE kept
LiveRows(m) == {i \in DOMAIN rows[m] : ~rows[m][i].gone}
StoreEdit(w, ok) ==
  /\ Writes(w, "edit") /\ Goes(w, ok) /\ TookEffect(w)
  /\ LET m == InHand(w).id IN
       /\ \E live \in SetToSeqs(LiveRows(m)) :
            versions' = [versions EXCEPT ![m] = Trimmed(@ \o [k \in DOMAIN live |-> rows[m][live[k]].text])]
       /\ rows' = [rows EXCEPT ![m] = [i \in DOMAIN @ |->
                     IF @[i].gone THEN @[i] ELSE [@[i] EXCEPT !.text = Now(w), !.cipher = step[w].cipher]]]
  /\ UNCHANGED reactions

\* The soft delete.
StoreDeletion(w, ok) ==
  /\ Writes(w, "delete") /\ Goes(w, ok) /\ TookEffect(w)
  /\ rows' = [rows EXCEPT ![InHand(w).id] = [i \in DOMAIN @ |-> [@[i] EXCEPT !.gone = TRUE]]]
  /\ UNCHANGED <<versions, reactions>>

\* A reaction: INSERT ... ON CONFLICT DO NOTHING, ...
StoreReaction(w, ok) ==
  /\ Writes(w, "react") /\ Now(w) \notin reactions /\ Goes(w, ok) /\ TookEffect(w)
  /\ reactions' = reactions \cup {Now(w)}
  /\ UNCHANGED <<rows, versions>>
ReactionThere(w) ==
  /\ Writes(w, "react") /\ Now(w) \in reactions /\ Calmly
  /\ step' = [step EXCEPT ![w].at = "toggle"]
  /\ UNCHANGED <<persistQueue, held, persistKeys, persistTables, crew, done, served>>
\* ... and DELETE if it is there.
RemoveReaction(w, ok) ==
  /\ step[w].at = "toggle" /\ Goes(w, ok) /\ TookEffect(w)
  /\ reactions' = reactions \ {Now(w)}
  /\ UNCHANGED <<rows, versions>>

CanFail(w) == step[w].at = "toggle" \/ \E act \in {"message", "edit", "delete", "react"} : Writes(w, act)
\* A bug: the error is logged, and the event acknowledged like any other.
WriteFailsQuietly(w) ==
  /\ CanFail(w) /\ Upset("failure")
  /\ step' = [step EXCEPT ![w].at = "ack"]
  /\ UNCHANGED <<persistQueue, held, persistKeys, persistTables, crew, done, served>>

\* A statement or a transaction fails and changes nothing.
WriteFails(w) ==
  /\ CanFail(w) /\ Upset("failure") /\ Naked(w)
  /\ UNCHANGED <<stream, given, acked, tries, persistKeys, persistTables, crew, done, served>>
-----------------------------------------------------------------------------
PersistNext ==
  \/ \E lock \in Locks : SendMessage(lock) \/ \E m \in MessageIds : EditOf(m, lock)
  \/ \E m \in MessageIds : DeletionOf(m) \/ ReactionTo(m)
  \/ EnableAgain \/ RawKeyStored
  \/ \E i \in 1..given : Overdue(i)
  \/ \E w \in crew :
       \/ Give(w) \/ Acknowledge(w) \/ CrashOf(w) \/ DecryptCached(w) \/ DecryptFetched(w)
       \/ ReactionThere(w) \/ WriteFails(w)
       \/ \E ok \in BOOLEAN :
            StoreMessage(w, ok) \/ StoreEdit(w, ok) \/ StoreDeletion(w, ok) \/ StoreReaction(w, ok) \/ RemoveReaction(w, ok)

PersistSpec == PersistInit /\ [][PersistNext]_persistVars
-----------------------------------------------------------------------------
\* Every variable has its type.
PersistTypeOK ==
  /\ stream \in Seq(StreamEvent) /\ tries \in Seq(Nat) /\ Len(tries) = Len(stream)
  /\ given \in 0..Len(stream) /\ due \subseteq 1..given /\ acked \subseteq 1..given /\ due \cap acked = {}
  /\ held \in [Persisters -> Seq([of : 1..given, n : Nat])]
  /\ step \in [Persisters -> [at : {"idle", "write", "toggle", "ack"}, cipher : BOOLEAN]]
  /\ keyCache \in [Persisters -> Seq([epoch : KeyEpochs, key : Nat])]
  /\ \A w \in Persisters : Len(keyCache[w]) <= KeptKeys /\ (w \notin crew => held[w] = <<>>)
  /\ {made, rawKey} \subseteq [KeyEpochs -> Nat]
  /\ rows \in [MessageIds -> Seq([text : 1..given, cipher : BOOLEAN, gone : BOOLEAN])]
  /\ versions \in [MessageIds -> Seq(1..given)] /\ reactions \subseteq 1..given
  /\ crew \subseteq Persisters /\ done \in Seq(1..given) /\ served \subseteq DOMAIN stream
  /\ upsets \subseteq {"crash", "failure", "stall", "key"} /\ persistLeft \in [PersistKinds -> Nat]

\* Nothing is acknowledged that was not written, whatever crashed or failed.
NothingForgotten == acked \subseteq ToSet(done)

\* Without trouble nothing is written twice, however many instances share the
\* work; and one instance alone writes in the order of the stream.
OrderKept ==
  upsets = {} =>
    /\ IsInjective(done)
    /\ \A w \in Persisters : crew = {w} => done = [i \in DOMAIN done |-> i]

\* A text whose key the service has had since it was sent, and that no request
\* for a key failed, is decrypted, whatever older keys were cached: provided an
\* event may be tried as often as there are instances.
KeysServe ==
  upsets \subseteq {"key"} /\ MaxTries >= Cardinality(crew) =>
    \A m \in MessageIds : \A r \in DOMAIN rows[m] :
      LET i == rows[m][r].text IN
      rows[m][r].cipher => i \notin served \/ rawKey[stream[i].lock.epoch] # stream[i].lock.key

\* What was written of a message was written once and in the order of the stream.
WrittenInOrder(m) ==
  \A i, j \in DOMAIN done : i < j /\ stream[done[i]].id = m /\ stream[done[j]].id = m => done[i] < done[j]

\* The texts of a message, up to its deletion.
DeletionsOf(m) == {i \in DOMAIN stream : stream[i].id = m /\ stream[i].act = "delete"}
TextsOf(m) == {i \in DOMAIN stream : stream[i].id = m /\ HasText(stream[i]) /\ \A d \in DeletionsOf(m) : i < d}
ReactionsTo(m) == {i \in DOMAIN stream : stream[i].id = m /\ stream[i].act = "react"}

IsLatest(text, texts) == text \in texts /\ \A t \in texts : t <= text
\* The last of the texts, in their order, as many as are kept.
AreLatest(kept, texts) ==
  /\ \A i, j \in DOMAIN kept : i < j => kept[i] < kept[j]
  /\ ToSet(kept) \subseteq texts /\ Len(kept) <= KeptVersions
  /\ \A t \in texts \ ToSet(kept) : Len(kept) = KeptVersions /\ \A i \in DOMAIN kept : t < kept[i]

PersistAtRest == acked = DOMAIN stream /\ \A w \in crew : held[w] = <<>>

\* When all is acknowledged the tables say of a message what the stream says: one
\* row with its last text before it was deleted, the texts before as versions,
\* and its reactions; but for a message whose events were written twice or out
\* of order.
TablesRight ==
  PersistAtRest =>
    \A m \in MessageIds : Sent(m) /\ WrittenInOrder(m) =>
      /\ Len(rows[m]) = 1
      /\ IsLatest(rows[m][1].text, TextsOf(m)) /\ rows[m][1].gone = (DeletionsOf(m) # {})
      /\ AreLatest(versions[m], TextsOf(m) \ {rows[m][1].text})
      /\ ReactionsTo(m) \subseteq reactions

\* What is acknowledged is written, in order and once where nothing goes wrong,
\* decrypted where its key is there, and the tables say what the stream says.
TablesFollowStream == NothingForgotten /\ OrderKept /\ KeysServe /\ TablesRight
=============================================================================
