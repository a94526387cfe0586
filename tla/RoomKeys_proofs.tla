--------------------------- MODULE RoomKeys_proofs ---------------------------
(***************************************************************************)
(* The keys and the epochs of an encrypted room, for any members, epochs,  *)
(* races, losses and reloads.                                              *)
(*                                                                         *)
(* The agreement on keys (KInv) and the keys of settled clients (SettleInv)*)
(* are for rooms whose encryption is enabled once at most: enabling again  *)
(* starts over at epoch 1 with another key.  The types and the election of *)
(* epochs (EInv, at the end) hold however often it is enabled.             *)
(*                                                                         *)
(* KInv says what is known of every chain of requests at each of its       *)
(* points (Fits), which key an epoch may have wherever it is kept (Right), *)
(* that an epoch above the service's has no winner, and that one chain at  *)
(* most is enabling.  SettleInv says that, while nothing has failed, who   *)
(* lacks a key that is wrapped for it will fetch (Provided), or has not    *)
(* looked at the room yet.  The proofs go through the steps one by one.    *)
(***************************************************************************)
EXTENDS RoomKeys, WellFoundedInduction, TLAPS

\* A set of numbers below a bound that is not empty has a largest one.
LEMMA MaxExists ==
  ASSUME NEW n \in Nat, NEW S, S \subseteq 0..n, S # {}
  PROVE  \E x \in S : \A y \in S : y <= x
<1> DEFINE T == {k \in Nat : n - k \in S}
<1>1. T # {}
  <2>1. PICK x \in S : TRUE
    OBVIOUS
  <2>2. x \in 0..n
    OBVIOUS
  <2>3. n - x \in Nat /\ n - (n - x) = x
    BY <2>2
  <2>4. n - x \in T
    BY <2>3
  <2> QED BY <2>4
<1>2. T \in SUBSET Nat
  OBVIOUS
<1>3. PICK k \in T : \A m \in T : k <= m
  <2> HIDE DEF T
  <2>1. IsWellFoundedOn(OpToRel(<, Nat), Nat)
    BY NatLessThanWellFounded
  <2>2. PICK k \in T : \A m \in T : ~(<<m, k>> \in OpToRel(<, Nat))
    BY <2>1, <1>1, <1>2, WFMin
  <2>3. \A m \in Nat : m < k => <<m, k>> \in OpToRel(<, Nat)
    BY <1>2 DEF OpToRel
  <2>4. \A m \in T : ~(m < k)
    BY <2>2, <2>3, <1>2
  <2> QED BY <2>4, <1>2
<1>4. n - k \in S /\ k \in Nat
  BY <1>3
<1>5. ASSUME NEW y \in S PROVE y <= n - k
  <2>1. y \in 0..n
    BY <1>5
  <2>2. n - y \in Nat /\ n - (n - y) = y
    BY <2>1
  <2>3. n - y \in T
    BY <2>2
  <2>4. k <= n - y
    BY <1>3, <2>3
  <2> QED BY <2>1, <2>2, <2>4, <1>4
<1> QED BY <1>4, <1>5

-----------------------------------------------------------------------------
Waiting == {"notice", "meta", "decrypt"}

\* What is known of a chain of requests at each of its points.
Fits(u, s, t) ==
  /\ s = "enable" =>
       /\ t.at \in {"idle", "raw", "members", "share", "done"}
       /\ t.at # "idle" => t.e = 1 /\ t.tag = 1
       /\ t.at \in {"raw", "members", "share"} => epoch = 0
       /\ t.at = "done" => epoch > 0
  /\ s \in Rotators =>
       /\ t.at \notin {"meta", "done"}
       /\ t.at \in {"bump", "write"} => t.e \in 2..MaxEpoch
       /\ t.at = "write" => t.tag <= rev /\ (t.tag = rev => t.e > epoch)
       /\ t.at \in {"won", "raw", "members", "share"} => t.e \in 2..epoch /\ <<u, s>> \in won[t.e]
       /\ t.at = "remeta" => t.e <= epoch
  /\ s \in Waiting =>
       /\ t.at \in {"idle", "get", "ask", "meta"}
       /\ t.at = "meta" => t.e <= epoch
  /\ t.at \in {"bump", "write", "get", "ask"} => epoch > 0

\* The types of what the argument does not lean on.
Plain ==
  /\ member \subseteq Users /\ published \subseteq Users
  /\ phase \in [Users -> {"off", "loading", "loaded", "ready"}]
  /\ changes \in [Users -> Nat]
  /\ merr \subseteq Users /\ timer \subseteq Users
  /\ left \in [Kinds -> Nat] /\ calm \in BOOLEAN
\* An epoch is won once, and none above the service's.
Server ==
  /\ epoch \in 0..MaxEpoch /\ rev \in Nat
  /\ won \in [Epochs -> SUBSET Claimants]
  /\ \A e \in Epochs : e > epoch => won[e] = {}
  /\ \A e \in Epochs : \A k, l \in won[e] : k = l
  /\ won[1] \subseteq {First}
\* The one key an epoch may have.
Right(e) == {NoKey} \cup (IF e = 1 THEN {First} ELSE won[e])
\* Every key that is kept anywhere is the one its epoch may have.
Rings ==
  /\ raw \in KeyRing /\ wrapped \in [Users -> KeyRing] /\ keys \in [Users -> KeyRing]
  /\ \A e \in Epochs : raw[e] \in Right(e)
  /\ \A u \in Users, e \in Epochs : wrapped[u][e] \in Right(e) /\ keys[u][e] \in Right(e)
  /\ \A u \in Users, e \in Epochs : keys[u][e] # NoKey => e <= epoch
\* Nobody believes in, or is told of, an epoch the service has not handed out.
Beliefs ==
  /\ cmeta \in [Users -> Unset..MaxEpoch] /\ heard \in [Users -> 0..MaxEpoch]
  /\ notices \in [Users -> Seq(Epochs)]
  /\ \A u \in Users : cmeta[u] <= epoch /\ heard[u] <= epoch
  /\ \A u \in Users : \A i \in DOMAIN notices[u] : notices[u][i] <= epoch
Tasks ==
  /\ task \in [Users -> [Slots -> Task]]
  /\ \A u \in Users, s \in Slots : Fits(u, s, task[u][s])
Answers ==
  /\ ans \in [Users -> Answer]
  /\ \A v \in Users : ans[v] = NoAnswer \/ (ans[v].e \in Epochs /\ ans[v].e <= epoch)
\* One chain enables at most, and only where no epoch was handed out.
Enabling ==
  /\ left["enable"] <= 1
  /\ left["enable"] = 1 => epoch = 0 /\ \A u \in Users : task[u]["enable"].at = "idle"
  /\ \A u, v \in Users : task[u]["enable"].at # "idle" /\ task[v]["enable"].at # "idle" => u = v
KInv == Plain /\ Server /\ Rings /\ Beliefs /\ Tasks /\ Answers /\ Enabling

\* What is left of the bounds, after an event ...
LEMMA Spent ==
  ASSUME Plain, NEW kind \in Kinds, Spend(kind)
  PROVE  /\ left' \in [Kinds -> Nat] /\ calm' \in BOOLEAN
         /\ kind # "enable" => left'["enable"] = left["enable"]
         /\ kind = "enable" => left["enable"] > 0 /\ left'["enable"] = left["enable"] - 1
BY DEF Plain, Spend, Kinds

\* ... and after a request, however it ends.
LEMMA Ended ==
  ASSUME Plain, NEW o, Ends(o)
  PROVE  left' \in [Kinds -> Nat] /\ calm' \in BOOLEAN /\ left'["enable"] = left["enable"]
<1>1. CASE Spend("failure")
  <2>1. "failure" \in Kinds
    BY DEF Kinds
  <2> QED BY <1>1, <2>1, Spent
<1>2. CASE UNCHANGED bounds
  BY <1>2 DEF Plain, bounds
<1> QED BY <1>1, <1>2 DEF Ends

\* One chain goes on: the others keep what is known of them.
LEMMA TaskGoes ==
  ASSUME Tasks, NEW u \in Users, NEW s \in Slots, NEW t \in Task, SetTask(u, s, t), Fits(u, s, t),
         UNCHANGED <<epoch, rev, won>>
  PROVE  Tasks'
<1>1. task' \in [Users -> [Slots -> Task]]
  BY DEF Tasks, SetTask
<1>2. ASSUME NEW v \in Users, NEW r \in Slots PROVE Fits(v, r, task[v][r])'
  <2>1. CASE v = u /\ r = s
    <3>1. task'[v][r] = t
      BY <2>1 DEF Tasks, SetTask
    <3> QED BY <3>1, <2>1 DEF Fits
  <2>2. CASE ~(v = u /\ r = s)
    <3>1. task'[v][r] = task[v][r]
      BY <2>2 DEF Tasks, SetTask
    <3>2. Fits(v, r, task[v][r])
      BY DEF Tasks
    <3> QED BY <3>1, <3>2 DEF Fits
  <2> QED BY <2>1, <2>2
<1> QED BY <1>1, <1>2 DEF Tasks

\* Nobody but who enables already is enabling after such a step.
LEMMA EnablingGoes ==
  ASSUME Tasks, Enabling, NEW u \in Users, NEW s \in Slots, NEW t \in Task, SetTask(u, s, t),
         s = "enable" => t.at = "idle" \/ task[u][s].at # "idle",
         epoch' = epoch, left'["enable"] = left["enable"]
  PROVE  Enabling'
<1>1. ASSUME NEW v \in Users, task'[v]["enable"].at # "idle" PROVE task[v]["enable"].at # "idle"
  BY <1>1 DEF Tasks, SetTask, Slots
<1> QED BY <1>1 DEF Enabling

\* One chain goes on and nothing else changes that the invariant is about.
LEMMA OnlyTask ==
  ASSUME KInv, NEW u \in Users, NEW s \in Slots, NEW t \in Task, SetTask(u, s, t), Fits(u, s, t),
         s = "enable" => t.at = "idle" \/ task[u][s].at # "idle",
         Plain', left'["enable"] = left["enable"],
         UNCHANGED <<epoch, rev, won, raw, wrapped, keys, cmeta, heard, notices, ans>>
  PROVE  KInv'
<1>1. Tasks' /\ Enabling'
  BY TaskGoes, EnablingGoes DEF KInv
<1>2. Server'
  BY DEF KInv, Server
<1>3. Rings'
  BY DEF KInv, Rings, Right
<1>4. Beliefs'
  BY DEF KInv, Beliefs
<1>5. Answers'
  BY DEF KInv, Answers
<1> QED BY <1>1, <1>2, <1>3, <1>4, <1>5 DEF KInv

\* A chain that goes on is as it was but for where it is.
LEMMA Moved ==
  ASSUME Tasks, NEW u \in Users, NEW s \in Slots, NEW stage \in Stages, Go(u, s, stage)
  PROVE  /\ [task[u][s] EXCEPT !.at = stage] \in Task
         /\ SetTask(u, s, [task[u][s] EXCEPT !.at = stage])
<1>1. task[u][s] \in Task
  BY DEF Tasks
<1>2. [task[u][s] EXCEPT !.at = stage] \in Task
  BY <1>1 DEF Task
<1> QED BY <1>2 DEF Go, SetTask

\* An empty slot fits, and so does one that asks for keys of an enabled room.
LEMMA IdleFits ==
  ASSUME NEW u \in Users, NEW s \in Slots
  PROVE  /\ Idle \in Task /\ Fits(u, s, Idle)
         /\ \A stage \in Stages : [Idle EXCEPT !.at = stage] \in Task
         /\ s # "enable" /\ epoch > 0 => Fits(u, s, [Idle EXCEPT !.at = "get"])
<1>1. Idle \in Task /\ Idle.at = "idle"
  BY Parameters DEF Idle, Task, Stages
<1>2. \A stage \in Stages : [Idle EXCEPT !.at = stage] \in Task /\ [Idle EXCEPT !.at = stage].at = stage
  BY <1>1 DEF Task
<1>3. Fits(u, s, Idle)
  BY <1>1 DEF Fits
<1>4. "get" \in Stages
  BY DEF Stages
<1> DEFINE get == [Idle EXCEPT !.at = "get"]
<1>5. get.at = "get"
  BY <1>2, <1>4
<1> HIDE DEF get
<1>6. s # "enable" /\ epoch > 0 => Fits(u, s, get)
  BY <1>5 DEF Fits
<1> QED BY <1>1, <1>2, <1>3, <1>6 DEF get

\* storeRoomKey changes no other client, and tells the listener of no epoch but those
\* of the keys it was given.
LEMMA Stored ==
  ASSUME Rings, Beliefs, NEW u \in Users, NEW given \in KeyRing, StoreKeys(u, given)
  PROVE  /\ keys' \in [Users -> KeyRing] /\ heard' \in [Users -> 0..MaxEpoch]
         /\ \A v \in Users \ {u} : keys'[v] = keys[v] /\ heard'[v] = heard[v]
         /\ \A e \in Epochs : keys'[u][e] = IF given[e] # NoKey THEN given[e] ELSE keys[u][e]
         /\ heard'[u] = heard[u] \/ (heard'[u] \in Epochs /\ given[heard'[u]] # NoKey)
<1> DEFINE new == {e \in Epochs : given[e] # NoKey}
           news == (new \ {1}) \cup {heard[u]}
           top == CHOOSE e \in news : \A x \in news : x <= e
           ring == [e \in Epochs |-> IF e \in new THEN given[e] ELSE keys[u][e]]
<1>1. MaxEpoch \in Nat /\ news \subseteq 0..MaxEpoch /\ news # {}
  BY Parameters DEF Beliefs, Epochs
<1>2. top \in news
  <2>1. \E e \in news : \A x \in news : x <= e
    <3> HIDE DEF news
    <3> QED BY <1>1, MaxExists
  <2> HIDE DEF news
  <2> QED BY <2>1
<1>3. keys' = [keys EXCEPT ![u] = ring] /\ heard' = [heard EXCEPT ![u] = top]
  BY DEF StoreKeys, Rings
<1>4. ring \in KeyRing
  BY DEF KeyRing, Rings
<1>5. top \in 0..MaxEpoch
  BY <1>1, <1>2
<1>6. top = heard[u] \/ (top \in Epochs /\ given[top] # NoKey)
  BY <1>2
<1> HIDE DEF top, ring
<1>7. keys' \in [Users -> KeyRing] /\ heard' \in [Users -> 0..MaxEpoch]
  BY <1>3, <1>4, <1>5 DEF Rings, Beliefs
<1>8. /\ \A v \in Users \ {u} : keys'[v] = keys[v] /\ heard'[v] = heard[v]
      /\ keys'[u] = ring /\ heard'[u] = top
  BY <1>3 DEF Rings, Beliefs
<1> QED BY <1>6, <1>7, <1>8 DEF ring

\* Keys that may be stored are: the rings stay right and nobody hears of an epoch that
\* the service has not handed out.
LEMMA KeysStored ==
  ASSUME KInv, NEW u \in Users, NEW given \in KeyRing, StoreKeys(u, given),
         \A e \in Epochs : given[e] \in Right(e),
         \A e \in Epochs : given[e] # NoKey => e <= epoch,
         wrapped' \in [Users -> KeyRing], \A m \in Users, e \in Epochs : wrapped'[m][e] \in Right(e),
         cmeta' \in [Users -> Unset..MaxEpoch], \A v \in Users : cmeta'[v] <= epoch,
         UNCHANGED <<epoch, won, raw, notices>>
  PROVE  Rings' /\ Beliefs'
<1>1. /\ keys' \in [Users -> KeyRing] /\ heard' \in [Users -> 0..MaxEpoch]
      /\ \A v \in Users \ {u} : keys'[v] = keys[v] /\ heard'[v] = heard[v]
      /\ \A e \in Epochs : keys'[u][e] = IF given[e] # NoKey THEN given[e] ELSE keys[u][e]
      /\ heard'[u] = heard[u] \/ (heard'[u] \in Epochs /\ given[heard'[u]] # NoKey)
  BY Stored DEF KInv
<1>2. \A v \in Users, e \in Epochs : keys'[v][e] \in Right(e) /\ (keys'[v][e] # NoKey => e <= epoch)
  <2> SUFFICES ASSUME NEW v \in Users, NEW e \in Epochs
               PROVE  keys'[v][e] \in Right(e) /\ (keys'[v][e] # NoKey => e <= epoch)
    OBVIOUS
  <2>1. keys[v][e] \in Right(e) /\ (keys[v][e] # NoKey => e <= epoch)
    BY DEF KInv, Rings
  <2>2. CASE v = u
    BY <2>1, <2>2, <1>1
  <2>3. CASE v # u
    BY <2>1, <2>3, <1>1
  <2> QED BY <2>2, <2>3
<1>3. \A e \in Epochs : Right(e)' = Right(e)
  BY DEF Right
<1>4. Rings'
  <2>1. raw' \in KeyRing /\ \A e \in Epochs : raw'[e] \in Right(e)
    BY DEF KInv, Rings
  <2> QED BY <1>1, <1>2, <1>3, <2>1 DEF Rings
<1>5. \A v \in Users : heard'[v] <= epoch
  <2> SUFFICES ASSUME NEW v \in Users PROVE heard'[v] <= epoch
    OBVIOUS
  <2>1. heard[v] <= epoch
    BY DEF KInv, Beliefs
  <2>2. CASE v = u
    BY <2>1, <2>2, <1>1
  <2>3. CASE v # u
    BY <2>1, <2>3, <1>1
  <2> QED BY <2>2, <2>3
<1>6. Beliefs'
  BY <1>1, <1>5 DEF KInv, Beliefs
<1> QED BY <1>4, <1>6

\* One key for one epoch may be given, if it is the right one.
LEMMA OneKey ==
  ASSUME KInv, NEW e \in Epochs, NEW key \in Keys, key \in Right(e), e <= epoch
  PROVE  /\ [Empty EXCEPT ![e] = key] \in KeyRing
         /\ \A x \in Epochs : [Empty EXCEPT ![e] = key][x] \in Right(x)
         /\ \A x \in Epochs : [Empty EXCEPT ![e] = key][x] # NoKey => x <= epoch
<1>1. [Empty EXCEPT ![e] = key] \in KeyRing
  BY DEF Empty, KeyRing, Keys
<1>2. \A x \in Epochs : [Empty EXCEPT ![e] = key][x] = IF x = e THEN key ELSE NoKey
  BY DEF Empty
<1>3. \A x \in Epochs : NoKey \in Right(x)
  BY DEF Right
<1> QED BY <1>1, <1>2, <1>3

\* A right key may be wrapped for anybody.
LEMMA WrapRight ==
  ASSUME Rings, NEW m \in Users, NEW e \in Epochs, NEW key \in Keys, key \in Right(e), Wrap(m, e, key)
  PROVE  wrapped' \in [Users -> KeyRing] /\ \A v \in Users, x \in Epochs : wrapped'[v][x] \in Right(x)
<1>1. [wrapped[m] EXCEPT ![e] = key] \in KeyRing
  BY DEF Rings, KeyRing
<1>2. \A x \in Epochs : [wrapped[m] EXCEPT ![e] = key][x] = IF x = e THEN key ELSE wrapped[m][x]
  BY DEF Rings, KeyRing
<1>3. wrapped' = [wrapped EXCEPT ![m] = [wrapped[m] EXCEPT ![e] = key]]
  BY DEF Wrap
<1>4. wrapped' \in [Users -> KeyRing]
  BY <1>1, <1>3 DEF Rings
<1>5. \A v \in Users : wrapped'[v] = IF v = m THEN [wrapped[m] EXCEPT ![e] = key] ELSE wrapped[v]
  BY <1>3 DEF Rings
<1>6. ASSUME NEW v \in Users, NEW x \in Epochs PROVE wrapped'[v][x] \in Right(x)
  <2>1. wrapped[v][x] \in Right(x) /\ wrapped[m][x] \in Right(x)
    BY DEF Rings
  <2>2. CASE v = m
    <3>1. wrapped'[v][x] = IF x = e THEN key ELSE wrapped[m][x]
      BY <1>5, <1>2, <2>2
    <3> QED BY <3>1, <2>1
  <2>3. CASE v # m
    <3>1. wrapped'[v][x] = wrapped[v][x]
      BY <1>5, <2>3
    <3> QED BY <3>1, <2>1
  <2> QED BY <2>2, <2>3
<1> QED BY <1>4, <1>6

\* The key of a chain that may publish, wrap or store one is right for its epoch.
LEMMA KeyIsRight ==
  ASSUME KInv, NEW u \in Users, NEW s \in Slots, task[u][s].at \in {"won", "raw", "members", "share", "done"}, MaxEnables = 1
  PROVE  /\ task[u][s].e \in Epochs /\ KeyOf(u, s) \in Keys /\ KeyOf(u, s) \in Right(task[u][s].e)
         /\ s # "enable" => s \in Rotators /\ task[u][s].e \in 2..epoch
         /\ s = "enable" => task[u][s].e = 1 /\ KeyOf(u, s) = First
<1> DEFINE t == task[u][s]
<1>1. t \in Task /\ Fits(u, s, t)
  BY DEF KInv, Tasks
<1>2. epoch \in 0..MaxEpoch /\ MaxEpoch \in Nat \ {0}
  BY Parameters DEF KInv, Server
<1>3. CASE s = "enable"
  <2>1. t.e = 1 /\ t.tag = 1
    BY <1>1, <1>3 DEF Fits
  <2>2. KeyOf(u, s) = First
    BY <1>3, <2>1 DEF KeyOf, First
  <2>3. First \in Keys
    BY DEF First, Keys, Claimants
  <2>4. First \in Right(1) /\ 1 \in Epochs
    BY <1>2 DEF Right, Epochs
  <2> QED BY <2>1, <2>2, <2>3, <2>4, <1>3
<1>4. CASE s # "enable"
  <2>1. s \in Rotators
    BY <1>1, <1>4 DEF Fits, Slots, Waiting
  <2>2. t.e \in 2..epoch /\ <<u, s>> \in won[t.e]
    BY <1>1, <2>1 DEF Fits
  <2>3. t.e \in Epochs /\ t.e # 1
    BY <2>2, <1>2 DEF Epochs
  <2>4. KeyOf(u, s) = <<u, s>> /\ <<u, s>> \in Keys
    BY <1>4, <2>1 DEF KeyOf, Keys, Claimants
  <2> QED BY <2>1, <2>2, <2>3, <2>4, <1>4 DEF Right
<1> QED BY <1>3, <1>4

-----------------------------------------------------------------------------
\* Where encryption was enabled before, all have the first key.
LEMMA KInvInit ==
  ASSUME Init, MaxEnables = 1
  PROVE  KInv
<1> DEFINE on == left.enable = 0
           ring(u) == IF on /\ u \in member THEN [Empty EXCEPT ![1] = First] ELSE Empty
<1>0. MaxEpoch \in Nat \ {0} /\ 1 \in Epochs /\ 0 \in 0..MaxEpoch /\ 1 \in 0..MaxEpoch
  BY Parameters DEF Epochs
<1>1. First \in Claimants /\ First \in Keys /\ NoKey \in Keys
  BY DEF First, Claimants, Keys
<1>2. left \in [Kinds -> Nat] /\ left["enable"] <= 1 /\ left["enable"] \in Nat
  BY Parameters DEF Init, Kinds
<1>3. Plain
  BY <1>2 DEF Init, Plain
<1>4. /\ epoch = IF on THEN 1 ELSE 0
      /\ rev = epoch
      /\ won = [e \in Epochs |-> IF on /\ e = 1 THEN {First} ELSE {}]
      /\ raw = IF on THEN [Empty EXCEPT ![1] = First] ELSE Empty
      /\ wrapped = [u \in Users |-> ring(u)] /\ keys = wrapped
      /\ cmeta = [u \in Users |-> IF on /\ u \in member THEN 1 ELSE Unset]
  BY DEF Init
<1>5. Server
  <2>1. won \in [Epochs -> SUBSET Claimants]
    <3> HIDE DEF on, ring
    <3> QED BY <1>1, <1>4
  <2>2. \A e \in Epochs : won[e] = IF on /\ e = 1 THEN {First} ELSE {}
    <3> HIDE DEF on, ring
    <3> QED BY <1>4
  <2>3. \A e \in Epochs : e > epoch => won[e] = {}
    <3>1. on => epoch = 1
      BY <1>4
    <3> HIDE DEF on, ring
    <3> QED BY <2>2, <3>1 DEF Epochs
  <2>4. epoch \in 0..MaxEpoch /\ rev \in Nat
    BY <1>4, <1>0
  <2> HIDE DEF on
  <2> QED BY <2>1, <2>2, <2>3, <2>4, <1>0 DEF Server
<1>6. Rings
  <2>0. Empty \in KeyRing /\ [Empty EXCEPT ![1] = First] \in KeyRing
    BY <1>0, <1>1 DEF Empty, KeyRing
  <2>1. \A u \in Users : wrapped[u] = ring(u) /\ keys[u] = ring(u) /\ ring(u) \in {Empty, [Empty EXCEPT ![1] = First]}
    BY <1>4
  <2>2. raw \in KeyRing /\ wrapped \in [Users -> KeyRing] /\ keys \in [Users -> KeyRing]
    BY <2>0, <2>1, <1>4
  <2>3. \A e \in Epochs : Empty[e] = NoKey /\ [Empty EXCEPT ![1] = First][e] = IF e = 1 THEN First ELSE NoKey
    BY <1>0 DEF Empty
  <2>4. \A e \in Epochs : NoKey \in Right(e) /\ (e = 1 => First \in Right(e))
    BY DEF Right
  <2>5. \A e \in Epochs : raw[e] \in Right(e)
    BY <1>4, <2>3, <2>4
  <2>6. ASSUME NEW u \in Users, NEW e \in Epochs
        PROVE  wrapped[u][e] \in Right(e) /\ keys[u][e] \in Right(e) /\ (keys[u][e] # NoKey => e <= epoch)
    <3>1. CASE ring(u) = Empty
      <4>1. wrapped[u][e] = NoKey /\ keys[u][e] = NoKey
        BY <3>1, <2>1, <2>3
      <4> QED BY <4>1, <2>4
    <3>2. CASE on /\ ring(u) = [Empty EXCEPT ![1] = First]
      <4>1. wrapped[u][e] = (IF e = 1 THEN First ELSE NoKey) /\ keys[u][e] = (IF e = 1 THEN First ELSE NoKey)
        BY <3>2, <2>1, <2>3
      <4>2. epoch = 1
        BY <3>2, <1>4
      <4> QED BY <4>1, <4>2, <2>4
    <3> QED BY <3>1, <3>2
  <2> QED BY <2>2, <2>5, <2>6 DEF Rings
<1>7. Beliefs
  <2>1. cmeta \in [Users -> Unset..MaxEpoch] /\ \A u \in Users : cmeta[u] <= epoch
    BY <1>4, <1>0 DEF Unset
  <2>2. heard = [u \in Users |-> 0] /\ notices = [u \in Users |-> <<>>]
    BY DEF Init
  <2>3. heard \in [Users -> 0..MaxEpoch] /\ \A u \in Users : heard[u] <= epoch
    BY <2>2, <1>0, <1>4
  <2>4. notices \in [Users -> Seq(Epochs)] /\ \A u \in Users : notices[u] = <<>>
    BY <2>2
  <2> QED BY <2>1, <2>3, <2>4 DEF Beliefs
<1>8. Tasks
  <2>1. task = [u \in Users |-> [s \in Slots |-> Idle]]
    BY DEF Init
  <2>2. \A u \in Users, s \in Slots : Idle \in Task /\ Fits(u, s, Idle)
    BY IdleFits
  <2>3. task \in [Users -> [Slots -> Task]]
    BY <2>1, <2>2
  <2> HIDE DEF ring, on
  <2>4. \A u \in Users, s \in Slots : task[u][s] = Idle
    BY <2>1
  <2> QED BY <2>2, <2>3, <2>4 DEF Tasks
<1>9. Answers
  BY <1>0 DEF Init, Answers, NoAnswer, Answer, Slots, Rotators
<1>10. Enabling
  <2>1. \A u \in Users : task[u]["enable"].at = "idle"
    BY DEF Init, Idle, Slots
  <2>2. left["enable"] = 1 => epoch = 0
    BY <1>4
  <2> QED BY <1>2, <2>1, <2>2 DEF Enabling
<1> QED BY <1>3, <1>5, <1>6, <1>7, <1>8, <1>9, <1>10 DEF KInv

-----------------------------------------------------------------------------
\* No chain goes on, and nothing else changes that the invariant is about.
LEMMA NoTask ==
  ASSUME KInv, Plain', left'["enable"] = left["enable"],
         UNCHANGED <<epoch, rev, won, raw, wrapped, keys, cmeta, heard, notices, ans, task>>
  PROVE  KInv'
<1>1. Server'
  BY DEF KInv, Server
<1>2. Rings'
  BY DEF KInv, Rings, Right
<1>3. Beliefs'
  BY DEF KInv, Beliefs
<1>4. Answers' /\ Enabling'
  BY DEF KInv, Answers, Enabling
<1>5. Tasks'
  BY DEF KInv, Tasks, Fits
<1> QED BY <1>1, <1>2, <1>3, <1>4, <1>5 DEF KInv

\* The record of a chain that begins.
LEMMA Begun ==
  ASSUME NEW stage \in Stages, NEW e \in 0..MaxEpoch
  PROVE  /\ [Idle EXCEPT !.at = stage, !.e = e] \in Task
         /\ [Idle EXCEPT !.at = stage, !.e = e].at = stage
         /\ [Idle EXCEPT !.at = stage, !.e = e].e = e
<1>1. Idle \in Task
  BY Parameters DEF Idle, Task, Stages
<1> QED BY <1>1 DEF Task

\* Only what a client believes changes, and no further than the service has gone.
LEMMA Believes ==
  ASSUME KInv, cmeta' \in [Users -> Unset..MaxEpoch], \A v \in Users : cmeta'[v] <= epoch,
         UNCHANGED <<epoch, heard, notices>>
  PROVE  Beliefs'
BY DEF KInv, Beliefs

\* An answer with the record is no older than what the service has.
LEMMA MetaAskKeeps ==
  ASSUME KInv, NEW u \in Users, MetaAsk(u)
  PROVE  KInv'
<1>1. PICK o \in {"answered", "lost", "refused"} :
         /\ Ends(o)
         /\ IF o = "lost"
              THEN merr' = merr \cup {u} /\ UNCHANGED task
              ELSE /\ SetTask(u, "meta", [Idle EXCEPT !.at = "meta", !.e = IF o = "answered" THEN epoch ELSE Off])
                   /\ UNCHANGED merr
  BY DEF MetaAsk
<1>2. UNCHANGED <<server, net, phase, cmeta, keys, heard, timer, ans>>
  BY DEF MetaAsk
<1>3. left' \in [Kinds -> Nat] /\ calm' \in BOOLEAN /\ left'["enable"] = left["enable"]
  BY <1>1, Ended DEF KInv
<1>4. Plain'
  BY <1>1, <1>2, <1>3 DEF KInv, Plain, server, net
<1>5. CASE o # "lost"
  <2> DEFINE e == IF o = "answered" THEN epoch ELSE Off
             t == [Idle EXCEPT !.at = "meta", !.e = e]
  <2>0. e \in 0..MaxEpoch /\ e <= epoch /\ epoch \in 0..MaxEpoch
    <3>1. epoch \in 0..MaxEpoch /\ MaxEpoch \in Nat
      BY Parameters DEF KInv, Server
    <3> QED BY <3>1 DEF Off
  <2>1. t \in Task /\ t.at = "meta" /\ t.e = e
    BY <2>0, Begun DEF Stages
  <2>2. SetTask(u, "meta", t)
    BY <1>1, <1>5
  <2> HIDE DEF t, e
  <2>3. "meta" \in Slots
    BY DEF Slots
  <2>4. Fits(u, "meta", t)
    BY <2>0, <2>1, <2>3 DEF Fits, Rotators, Waiting
  <2> QED BY <2>1, <2>2, <2>3, <2>4, <1>2, <1>3, <1>4, OnlyTask DEF server, net
<1>6. CASE o = "lost"
  BY <1>1, <1>2, <1>3, <1>4, <1>6, NoTask DEF server, net
<1> QED BY <1>5, <1>6

\* The record is cached when the service may already have gone on.
LEMMA MetaSetKeeps ==
  ASSUME KInv, NEW u \in Users, MetaSet(u)
  PROVE  KInv'
<1> DEFINE e == task[u]["meta"].e
           t == IF e > 0 /\ HasIdentity(u) THEN [Idle EXCEPT !.at = "get"] ELSE Idle
<1>0. "meta" \in Slots /\ "get" \in Stages
  BY DEF Slots, Stages
<1>1. e \in 0..MaxEpoch /\ e <= epoch
  <2>1. task[u]["meta"] \in Task /\ Fits(u, "meta", task[u]["meta"]) /\ task[u]["meta"].at = "meta"
    BY <1>0 DEF MetaSet, At, KInv, Tasks
  <2> QED BY <2>1 DEF Task, Fits, Waiting
<1>2. UNCHANGED <<server, net, phase, keys, heard, ans, bounds>> /\ cmeta' = [cmeta EXCEPT ![u] = e]
  BY DEF MetaSet
<1>3. Plain'
  BY <1>2 DEF MetaSet, KInv, Plain, server, net, bounds
<1>4. SetTask(u, "meta", t)
  BY DEF MetaSet, Restart, Stop
<1>5. t \in Task /\ Fits(u, "meta", t)
  <2>1. e > 0 => epoch > 0
    BY <1>1 DEF KInv, Server
  <2> QED BY <1>0, <2>1, IdleFits
<1>6. Tasks' /\ Enabling'
  <2> HIDE DEF t
  <2> QED BY <1>0, <1>2, <1>4, <1>5, TaskGoes, EnablingGoes DEF KInv, server, bounds
<1>7. cmeta' \in [Users -> Unset..MaxEpoch] /\ \A v \in Users : cmeta'[v] <= epoch
  <2> HIDE DEF e
  <2>1. e \in Unset..MaxEpoch
    BY <1>1 DEF Unset
  <2> QED BY <2>1, <1>1, <1>2 DEF KInv, Beliefs
<1>8. Beliefs'
  BY <1>2, <1>7, Believes DEF server, net
<1>9. Server' /\ Rings' /\ Answers'
  BY <1>2 DEF KInv, Server, Rings, Right, Answers, server
<1> QED BY <1>3, <1>6, <1>8, <1>9 DEF KInv

-----------------------------------------------------------------------------
\* A chain that publishes, wraps or counts goes on to do so.
LEMMA Advances ==
  ASSUME KInv, NEW u \in Users, NEW s \in Slots, NEW t \in Task,
         task[u][s].at \in {"won", "raw", "members", "share"},
         t.at \in {"raw", "members", "share"}, t.e = task[u][s].e, t.tag = task[u][s].tag
  PROVE  Fits(u, s, t)
<1>1. Fits(u, s, task[u][s])
  BY DEF KInv, Tasks
<1> QED BY <1>1 DEF Fits, Waiting

\* The one attempt to enable begins while the room is not encrypted.
LEMMA EnableKeeps ==
  ASSUME KInv, MaxEnables = 1, NEW u \in Users, Enable(u)
  PROVE  KInv'
<1> DEFINE t == [Idle EXCEPT !.at = "raw", !.e = 1, !.tag = left.enable]
<1>1. left' \in [Kinds -> Nat] /\ calm' \in BOOLEAN /\ left["enable"] > 0 /\ left'["enable"] = left["enable"] - 1
  <2>1. "enable" \in Kinds
    BY DEF Kinds
  <2> QED BY <2>1, Spent DEF Enable, KInv
<1>2. left["enable"] = 1 /\ left'["enable"] = 0
  <2>1. left["enable"] \in Nat
    BY DEF KInv, Plain, Kinds
  <2> QED BY <1>1, <2>1 DEF KInv, Enabling
<1>3. epoch = 0 /\ \A v \in Users : task[v]["enable"].at = "idle"
  BY <1>2 DEF KInv, Enabling
<1>4. UNCHANGED <<server, net, phase, cmeta, merr, keys, heard, timer, ans>> /\ SetTask(u, "enable", t)
  BY DEF Enable
<1>5. t \in Task /\ t.at = "raw" /\ t.e = 1 /\ t.tag = 1
  <2>1. Idle \in Task /\ 1 \in 0..MaxEpoch
    BY Parameters DEF Idle, Task, Stages
  <2>2. t = [Idle EXCEPT !.at = "raw", !.e = 1, !.tag = 1]
    BY <1>2
  <2> HIDE DEF t
  <2> QED BY <2>1, <2>2 DEF Task, Stages
<1> HIDE DEF t
<1>6. "enable" \in Slots /\ Fits(u, "enable", t)
  BY <1>3, <1>5 DEF Slots, Fits, Rotators, Waiting
<1>7. Plain'
  BY <1>1, <1>4 DEF KInv, Plain, server, net
<1>8. Tasks'
  BY <1>4, <1>5, <1>6, TaskGoes DEF KInv, server
<1>9. Enabling'
  <2>1. \A v \in Users \ {u} : task'[v]["enable"].at = "idle"
    BY <1>3, <1>4 DEF SetTask, KInv, Tasks
  <2> QED BY <1>2, <2>1 DEF Enabling
<1>10. Server' /\ Rings' /\ Beliefs' /\ Answers'
  BY <1>4 DEF KInv, Server, Rings, Right, Beliefs, Answers, server, net
<1> QED BY <1>7, <1>8, <1>9, <1>10 DEF KInv

\* A raw key is published by who may: it is the right one.
LEMMA RawPubKeeps ==
  ASSUME KInv, MaxEnables = 1, NEW u \in Users, NEW s \in Slots, RawPub(u, s)
  PROVE  KInv'
<1> DEFINE e == task[u][s].e
           t == [task[u][s] EXCEPT !.at = "members"]
<1>1. PICK o \in {"answered", "lost", "unheard"} :
       /\ Ends(o)
       /\ raw' = IF Served(o) /\ u \in member THEN [raw EXCEPT ![e] = KeyOf(u, s)] ELSE raw
       /\ IF o = "answered" /\ u \in member THEN Go(u, s, "members") ELSE Stop(u, s)
  BY DEF RawPub
<1>2. /\ UNCHANGED <<member, published, epoch, rev, wrapped, won, net, phase, cmeta, merr, keys, heard, timer, ans>>
      /\ task[u][s].at = "raw"
  BY DEF RawPub, At
<1>3. left' \in [Kinds -> Nat] /\ calm' \in BOOLEAN /\ left'["enable"] = left["enable"]
  BY <1>1, Ended DEF KInv
<1>4. Plain'
  BY <1>2, <1>3 DEF KInv, Plain, net
<1>5. e \in Epochs /\ KeyOf(u, s) \in Keys /\ KeyOf(u, s) \in Right(e)
  BY <1>2, KeyIsRight
<1>6. t \in Task /\ t.at = "members" /\ t.e = e /\ t.tag = task[u][s].tag
  <2>1. task[u][s] \in Task
    BY DEF KInv, Tasks
  <2> QED BY <2>1 DEF Task, Stages
<1>7. Fits(u, s, t)
  <2> HIDE DEF t
  <2> QED BY <1>2, <1>6, Advances
<1>8. SetTask(u, s, t) \/ SetTask(u, s, Idle)
  BY <1>1 DEF Go, SetTask, Stop
<1> HIDE DEF t
<1>9. Tasks' /\ Enabling'
  BY <1>2, <1>3, <1>6, <1>7, <1>8, TaskGoes, EnablingGoes, IdleFits DEF KInv, Idle
<1>10. Rings'
  <2> HIDE DEF e
  <2>1. raw' \in KeyRing /\ \A x \in Epochs : raw'[x] \in Right(x)
    BY <1>1, <1>5 DEF KInv, Rings, KeyRing
  <2>2. \A x \in Epochs : Right(x)' = Right(x)
    BY <1>2 DEF Right
  <2> QED BY <1>2, <2>1, <2>2 DEF KInv, Rings
<1>11. Server' /\ Beliefs' /\ Answers'
  BY <1>2 DEF KInv, Server, Beliefs, Answers, net
<1> QED BY <1>4, <1>9, <1>10, <1>11 DEF KInv

\* The list of members opens the round of shares.
LEMMA MembersKeeps ==
  ASSUME KInv, NEW u \in Users, NEW s \in Slots, Members(u, s)
  PROVE  KInv'
<1> DEFINE t == [task[u][s] EXCEPT !.at = "share", !.todo = member, !.ok = (s = "enable" /\ member = {})]
<1>1. PICK o \in {"answered", "lost"} :
       /\ Ends(o)
       /\ IF o = "answered" THEN SetTask(u, s, t) ELSE Stop(u, s)
  BY DEF Members
<1>2. /\ UNCHANGED <<server, net, phase, cmeta, merr, keys, heard, timer, ans>>
      /\ task[u][s].at = "members"
  BY DEF Members, At
<1>3. left' \in [Kinds -> Nat] /\ calm' \in BOOLEAN /\ left'["enable"] = left["enable"]
  BY <1>1, Ended DEF KInv
<1>4. Plain'
  BY <1>2, <1>3 DEF KInv, Plain, server, net
<1>5. t \in Task /\ t.at = "share" /\ t.e = task[u][s].e /\ t.tag = task[u][s].tag
  <2>1. task[u][s] \in Task /\ member \in SUBSET Users
    BY DEF KInv, Tasks, Plain
  <2> DEFINE ok == (s = "enable" /\ member = {})
  <2>2. ok \in BOOLEAN
    OBVIOUS
  <2> HIDE DEF ok
  <2> QED BY <2>1, <2>2 DEF Task, Stages
<1> HIDE DEF t
<1>6. Fits(u, s, t)
  BY <1>2, <1>5, Advances
<1>7. SetTask(u, s, t) \/ SetTask(u, s, Idle)
  BY <1>1 DEF Stop
<1> QED BY <1>2, <1>3, <1>4, <1>5, <1>6, <1>7, IdleFits, OnlyTask DEF server, net, Idle

\* A key is wrapped for a member by who may.
LEMMA ShareKeeps ==
  ASSUME KInv, MaxEnables = 1, NEW u \in Users, NEW s \in Slots, NEW m \in Users, Share(u, s, m)
  PROVE  KInv'
<1> DEFINE c == task[u][s]
<1>1. PICK o \in {"answered", "lost", "unheard"} :
       /\ Ends(o)
       /\ IF o = "answered" /\ m \in published /\ u \in member
            THEN Wrap(m, c.e, KeyOf(u, s)) ELSE UNCHANGED wrapped
       /\ SetTask(u, s, [c EXCEPT !.todo = @ \ {m},
                                  !.ok = @ \/ (s = "enable" /\ o # "lost" /\ m \in published)])
  BY DEF Share
<1> DEFINE ok == c.ok \/ (s = "enable" /\ o # "lost" /\ m \in published)
           todo == c.todo \ {m}
           t == [c EXCEPT !.todo = todo, !.ok = ok]
<1>2. /\ UNCHANGED <<member, published, epoch, rev, raw, won, net, phase, cmeta, merr, keys, heard, timer, ans>>
      /\ task[u][s].at = "share"
  BY DEF Share, At
<1>3. left' \in [Kinds -> Nat] /\ calm' \in BOOLEAN /\ left'["enable"] = left["enable"]
  BY <1>1, Ended DEF KInv
<1>4. Plain'
  BY <1>2, <1>3 DEF KInv, Plain, net
<1>5. t \in Task /\ t.at = "share" /\ t.e = c.e /\ t.tag = c.tag
  <2>1. c \in Task
    BY DEF KInv, Tasks
  <2>2. ok \in BOOLEAN /\ todo \in SUBSET Users
    BY <2>1 DEF Task
  <2> HIDE DEF ok, todo, c
  <2> QED BY <1>2, <2>1, <2>2 DEF Task, c
<1>6. SetTask(u, s, t)
  BY <1>1
<1> HIDE DEF t
<1>7. Fits(u, s, t)
  BY <1>2, <1>5, Advances
<1>8. Tasks' /\ Enabling'
  BY <1>2, <1>3, <1>5, <1>6, <1>7, TaskGoes, EnablingGoes DEF KInv
<1>9. c.e \in Epochs /\ KeyOf(u, s) \in Keys /\ KeyOf(u, s) \in Right(c.e)
  BY <1>2, KeyIsRight
<1>10. wrapped' \in [Users -> KeyRing] /\ \A v \in Users, x \in Epochs : wrapped'[v][x] \in Right(x)
  <2>1. CASE UNCHANGED wrapped
    BY <2>1 DEF KInv, Rings
  <2>2. CASE Wrap(m, c.e, KeyOf(u, s))
    BY <2>2, <1>9, WrapRight DEF KInv
  <2> QED BY <1>1, <2>1, <2>2
<1>11. Rings'
  <2>1. \A x \in Epochs : Right(x)' = Right(x)
    BY <1>2 DEF Right
  <2> QED BY <1>2, <1>10, <2>1 DEF KInv, Rings
<1>12. Server' /\ Beliefs' /\ Answers'
  BY <1>2 DEF KInv, Server, Beliefs, Answers, net
<1> QED BY <1>4, <1>8, <1>11, <1>12 DEF KInv

\* Enabling fails: its chain ends.
LEMMA NobodySharedKeeps ==
  ASSUME KInv, NEW u \in Users, NobodyShared(u)
  PROVE  KInv'
<1>1. /\ UNCHANGED <<server, net, phase, cmeta, merr, keys, heard, timer, ans, bounds>>
      /\ SetTask(u, "enable", Idle) /\ "enable" \in Slots
  BY DEF NobodyShared, Stop, Slots
<1>2. Plain' /\ left'["enable"] = left["enable"]
  BY <1>1 DEF KInv, Plain, server, net, bounds
<1> QED BY <1>1, <1>2, IdleFits, OnlyTask DEF server, net, Idle

\* The client that enabled stores the first key after the record was put.
LEMMA EnabledKeeps ==
  ASSUME KInv, MaxEnables = 1, NEW u \in Users, Enabled(u)
  PROVE  KInv'
<1>0. "enable" \in Slots
  BY DEF Slots
<1>1. /\ UNCHANGED <<server, net, phase, merr, ans, bounds>>
      /\ SetTask(u, "enable", Idle)
      /\ StoreKeys(u, [Empty EXCEPT ![1] = KeyOf(u, "enable")])
      /\ cmeta' = [cmeta EXCEPT ![u] = 1]
      /\ task[u]["enable"].at = "done"
  BY DEF Enabled, Stop, At
<1>2. Plain' /\ left'["enable"] = left["enable"]
  BY <1>1 DEF KInv, Plain, server, net, bounds, Enabled
<1>3. epoch > 0 /\ 1 <= epoch /\ 1 \in 0..MaxEpoch
  <2>1. Fits(u, "enable", task[u]["enable"])
    BY <1>0 DEF KInv, Tasks
  <2>2. epoch > 0
    BY <1>1, <2>1 DEF Fits
  <2> QED BY <2>2, Parameters DEF KInv, Server
<1>4. 1 \in Epochs /\ KeyOf(u, "enable") \in Keys /\ KeyOf(u, "enable") \in Right(1)
  BY <1>0, <1>1, KeyIsRight
<1>5. cmeta' \in [Users -> Unset..MaxEpoch] /\ \A v \in Users : cmeta'[v] <= epoch
  BY <1>1, <1>3 DEF KInv, Beliefs, Unset
<1>6. Rings' /\ Beliefs'
  <2> DEFINE given == [Empty EXCEPT ![1] = KeyOf(u, "enable")]
  <2>1. given \in KeyRing /\ (\A x \in Epochs : given[x] \in Right(x)) /\ \A x \in Epochs : given[x] # NoKey => x <= epoch
    BY <1>3, <1>4, OneKey
  <2>2. StoreKeys(u, given)
    BY <1>1
  <2> HIDE DEF given
  <2>3. wrapped' \in [Users -> KeyRing] /\ \A m \in Users, e \in Epochs : wrapped'[m][e] \in Right(e)
    BY <1>1 DEF server, KInv, Rings
  <2> QED BY <2>1, <2>2, <2>3, <1>1, <1>5, KeysStored DEF server, net
<1>7. Tasks' /\ Enabling'
  BY <1>0, <1>1, <1>2, IdleFits, TaskGoes, EnablingGoes DEF KInv, server, Idle
<1>8. Server' /\ Answers'
  BY <1>1 DEF KInv, Server, Answers, server
<1> QED BY <1>2, <1>6, <1>7, <1>8 DEF KInv

\* The service goes to a higher epoch or to a new revision.  What the clients hold and
\* believe stays right, and so does what is known of every chain but those that enable.
LEMMA Grows ==
  ASSUME KInv, Server', epoch <= epoch', rev < rev', \A e \in Epochs : won[e] \subseteq won'[e],
         UNCHANGED <<raw, wrapped, keys, cmeta, heard, notices, ans>>
  PROVE  /\ Rings' /\ Beliefs' /\ Answers'
         /\ \A u \in Users, s \in Slots, t \in Task :
              Fits(u, s, t) /\ (s = "enable" => t.at \in {"idle", "done"}) => Fits(u, s, t)'
<1>0. epoch \in Nat /\ epoch' \in Nat /\ rev \in Nat /\ rev' \in Nat /\ epoch' <= MaxEpoch /\ MaxEpoch \in Int
  BY Parameters DEF KInv, Server
<1>1. Rings'
  <2>1. ASSUME NEW e \in Epochs PROVE Right(e) \subseteq Right(e)'
    BY DEF Right
  <2>2. ASSUME NEW u \in Users, NEW e \in Epochs, keys[u][e] # NoKey PROVE e <= epoch'
    <3>1. e <= epoch
      BY <2>2 DEF KInv, Rings
    <3> QED BY <3>1, <1>0 DEF Epochs
  <2>3. \A e \in Epochs : raw[e] \in Right(e)'
    BY <2>1 DEF KInv, Rings
  <2>4. \A u \in Users, e \in Epochs : wrapped[u][e] \in Right(e)' /\ keys[u][e] \in Right(e)'
    BY <2>1 DEF KInv, Rings
  <2> QED BY <2>2, <2>3, <2>4 DEF KInv, Rings
<1>2. Beliefs'
  <2>1. ASSUME NEW u \in Users PROVE cmeta[u] <= epoch' /\ heard[u] <= epoch'
    <3>1. cmeta[u] <= epoch /\ heard[u] <= epoch /\ cmeta[u] \in Int /\ heard[u] \in Int
      BY DEF KInv, Beliefs, Unset
    <3> QED BY <3>1, <1>0
  <2>2. ASSUME NEW u \in Users, NEW i \in DOMAIN notices[u] PROVE notices[u][i] <= epoch'
    <3>1. notices[u][i] <= epoch /\ notices[u][i] \in Int
      <4>1. notices[u] \in Seq(Epochs) /\ notices[u][i] <= epoch
        BY DEF KInv, Beliefs
      <4>2. notices[u][i] \in Epochs
        BY <4>1
      <4> QED BY <4>1, <4>2 DEF Epochs
    <3> QED BY <3>1, <1>0
  <2> QED BY <2>1, <2>2 DEF KInv, Beliefs
<1>3. Answers'
  <2>1. ASSUME NEW v \in Users, ans[v] # NoAnswer PROVE ans[v].e \in Epochs /\ ans[v].e <= epoch'
    <3>1. ans[v].e \in Epochs /\ ans[v].e <= epoch
      BY <2>1 DEF KInv, Answers
    <3> QED BY <3>1, <1>0 DEF Epochs
  <2> QED BY <2>1 DEF KInv, Answers
<1>4. ASSUME NEW u \in Users, NEW s \in Slots, NEW t \in Task, Fits(u, s, t),
             s = "enable" => t.at \in {"idle", "done"}
      PROVE  Fits(u, s, t)'
  <2>0. t.e \in Nat /\ t.e <= MaxEpoch /\ t.tag \in Nat
    BY DEF Task
  <2>1. (s = "enable" =>
           /\ t.at \in {"idle", "raw", "members", "share", "done"}
           /\ t.at # "idle" => t.e = 1 /\ t.tag = 1
           /\ t.at \in {"raw", "members", "share"} => epoch' = 0
           /\ t.at = "done" => epoch' > 0)
    BY <1>0, <1>4 DEF Fits
  <2>2. ASSUME s \in Rotators
        PROVE  /\ t.at \notin {"meta", "done"}
               /\ t.at \in {"bump", "write"} => t.e \in 2..MaxEpoch
               /\ t.at = "write" => t.tag <= rev' /\ (t.tag = rev' => t.e > epoch')
               /\ t.at \in {"won", "raw", "members", "share"} => t.e \in 2..epoch' /\ <<u, s>> \in won'[t.e]
               /\ t.at = "remeta" => t.e <= epoch'
    <3>1. t.at \notin {"meta", "done"} /\ (t.at \in {"bump", "write"} => t.e \in 2..MaxEpoch)
      BY <2>2, <1>4 DEF Fits
    <3>2. t.at = "write" => t.tag <= rev' /\ (t.tag = rev' => t.e > epoch')
      BY <2>2, <1>4, <1>0, <2>0 DEF Fits
    <3>3. ASSUME t.at \in {"won", "raw", "members", "share"} PROVE t.e \in 2..epoch' /\ <<u, s>> \in won'[t.e]
      <4>1. t.e \in 2..epoch /\ <<u, s>> \in won[t.e]
        BY <3>3, <2>2, <1>4 DEF Fits
      <4>2. t.e \in Epochs
        BY <4>1, <2>0 DEF Epochs
      <4> QED BY <4>1, <4>2, <1>0
    <3>4. t.at = "remeta" => t.e <= epoch'
      BY <2>2, <1>4, <1>0, <2>0 DEF Fits
    <3> QED BY <3>1, <3>2, <3>3, <3>4
  <2>3. s \in Waiting =>
          /\ t.at \in {"idle", "get", "ask", "meta"}
          /\ t.at = "meta" => t.e <= epoch'
    BY <1>4, <1>0, <2>0 DEF Fits
  <2>4. t.at \in {"bump", "write", "get", "ask"} => epoch' > 0
    BY <1>4, <1>0 DEF Fits
  <2> QED BY <2>1, <2>2, <2>3, <2>4 DEF Fits
<1> QED BY <1>1, <1>2, <1>3, <1>4

\* So does the step of the service with which one chain goes on.
LEMMA ServerGoes ==
  ASSUME KInv, Server', epoch <= epoch', rev < rev', \A e \in Epochs : won[e] \subseteq won'[e],
         UNCHANGED <<raw, wrapped, keys, cmeta, heard, notices, ans>>,
         Plain', left'["enable"] = left["enable"], epoch' # 0, left["enable"] # 1,
         NEW u \in Users, NEW s \in Slots, NEW t \in Task, SetTask(u, s, t), Fits(u, s, t)',
         s = "enable" => t.at = "idle" \/ task[u][s].at # "idle",
         \A v \in Users : v # u \/ s # "enable" => task[v]["enable"].at \in {"idle", "done"}
  PROVE  KInv'
<1>1. Rings' /\ Beliefs' /\ Answers'
  BY Grows
<1>2. task' \in [Users -> [Slots -> Task]]
  BY DEF KInv, Tasks, SetTask
<1>3. ASSUME NEW v \in Users, NEW r \in Slots PROVE Fits(v, r, task[v][r])'
  <2>1. CASE v = u /\ r = s
    <3>1. task'[v][r] = t
      BY <2>1 DEF KInv, Tasks, SetTask
    <3> QED BY <3>1, <2>1 DEF Fits
  <2>2. CASE ~(v = u /\ r = s)
    <3>1. task'[v][r] = task[v][r]
      BY <2>2 DEF KInv, Tasks, SetTask
    <3>2. Fits(v, r, task[v][r]) /\ task[v][r] \in Task
      BY DEF KInv, Tasks
    <3>3. r = "enable" => task[v][r].at \in {"idle", "done"}
      BY <2>2
    <3> DEFINE c == task[v][r]
    <3>4. c \in Task /\ Fits(v, r, c) /\ (r = "enable" => c.at \in {"idle", "done"})
      BY <3>2, <3>3
    <3>5. PICK d \in Task : d = c
      BY <3>4
    <3> HIDE DEF c
    <3>6. Fits(v, r, d)'
      BY <3>4, <3>5, Grows
    <3> QED BY <3>1, <3>5, <3>6 DEF c, Fits
  <2> QED BY <2>1, <2>2
<1>4. Tasks'
  BY <1>2, <1>3 DEF Tasks
<1>5. Enabling'
  <2>1. ASSUME NEW v \in Users, task'[v]["enable"].at # "idle" PROVE task[v]["enable"].at # "idle"
    BY <2>1 DEF KInv, Tasks, SetTask, Slots
  <2> QED BY <2>1 DEF KInv, Enabling
<1> QED BY <1>1, <1>4, <1>5 DEF KInv

\* The unconditional put: nobody else has handed out an epoch.
LEMMA PutKeeps ==
  ASSUME KInv, MaxEnables = 1, NEW u \in Users, Put(u)
  PROVE  KInv'
<1> DEFINE ok == u \in Admins \cap member
           c == task[u]["enable"]
<1>0. "enable" \in Slots
  BY DEF Slots
<1>1. PICK o \in {"answered", "lost", "unheard"} :
       /\ Ends(o)
       /\ IF Served(o) /\ ok
            THEN /\ epoch' = 1 /\ rev' = rev + 1
                 /\ won' = [e \in Epochs |-> IF e = 1 THEN {KeyOf(u, "enable")} ELSE {}]
            ELSE UNCHANGED <<epoch, rev, won>>
       /\ IF o = "answered" /\ ok THEN Go(u, "enable", "done") ELSE Stop(u, "enable")
  BY DEF Put
<1>2. /\ UNCHANGED <<member, published, raw, wrapped, net, phase, cmeta, merr, keys, heard, timer, ans>>
      /\ c.at = "share"
  BY DEF Put, At
<1>3. left' \in [Kinds -> Nat] /\ calm' \in BOOLEAN /\ left'["enable"] = left["enable"]
  BY <1>1, Ended DEF KInv
<1>4. Plain'
  BY <1>2, <1>3 DEF KInv, Plain, net
<1>5. c \in Task /\ Fits(u, "enable", c)
  BY <1>0 DEF KInv, Tasks
<1>6. epoch = 0 /\ c.e = 1 /\ c.tag = 1
  BY <1>2, <1>5 DEF Fits
<1>7. PICK t \in Task : t = [c EXCEPT !.at = "done"] /\ t.at = "done" /\ t.e = 1 /\ t.tag = 1
  <2> DEFINE w == [c EXCEPT !.at = "done"]
  <2> HIDE DEF c
  <2>1. w \in Task /\ w.at = "done" /\ w.e = 1 /\ w.tag = 1
    BY <1>5, <1>6 DEF Task, Stages
  <2> QED BY <2>1
<1>8. Go(u, "enable", "done") => SetTask(u, "enable", t)
  BY <1>7 DEF Go, SetTask
<1>9. CASE UNCHANGED <<epoch, rev, won>>
  <2>1. SetTask(u, "enable", Idle) \/ (SetTask(u, "enable", t) /\ Served(o) /\ ok)
    BY <1>1, <1>8 DEF Stop, Served
  <2>2. SetTask(u, "enable", Idle)
    BY <1>1, <1>6, <1>9, <2>1
  <2> QED BY <1>0, <1>2, <1>3, <1>4, <1>9, <2>2, IdleFits, OnlyTask DEF net, Idle
<1>10. CASE epoch' = 1 /\ rev' = rev + 1 /\ won' = [e \in Epochs |-> IF e = 1 THEN {KeyOf(u, "enable")} ELSE {}]
  <2>1. KeyOf(u, "enable") = First /\ First \in Claimants /\ 1 \in Epochs
    <3>1. KeyOf(u, "enable") = First
      BY <1>0, <1>2, KeyIsRight
    <3> QED BY <3>1, Parameters DEF First, Claimants, Epochs
  <2>2. won[1] = {} /\ won'[1] = {First} /\ \A e \in Epochs \ {1} : won'[e] = won[e]
    <3>1. \A e \in Epochs : won[e] = {}
      BY <1>6 DEF KInv, Server, Epochs
    <3> QED BY <1>10, <2>1, <3>1
  <2>3. Server'
    <3>1. won' \in [Epochs -> SUBSET Claimants] /\ rev' \in Nat /\ epoch' \in 0..MaxEpoch
      BY <1>10, <2>1, Parameters DEF KInv, Server
    <3>2. \A e \in Epochs : e > 1 => won'[e] = {}
      BY <1>6, <2>2 DEF KInv, Server, Epochs
    <3>3. \A e \in Epochs : \A k, l \in won'[e] : k = l
      BY <2>2 DEF KInv, Server
    <3> QED BY <3>1, <3>2, <3>3, <2>2, <1>10 DEF Server
  <2>4. epoch <= epoch' /\ rev < rev' /\ epoch' # 0 /\ \A e \in Epochs : won[e] \subseteq won'[e]
    BY <1>6, <1>10, <2>2 DEF KInv, Server
  <2>5. left["enable"] # 1 /\ \A v \in Users : v # u => task[v]["enable"].at = "idle"
    BY <1>2 DEF KInv, Enabling
  <2>6. SetTask(u, "enable", t) \/ SetTask(u, "enable", Idle)
    BY <1>1, <1>8 DEF Stop
  <2>7. Fits(u, "enable", t)' /\ Fits(u, "enable", Idle)' /\ Idle \in Task
    <3>1. Fits(u, "enable", t)'
      BY <1>7, <1>10 DEF Fits, Rotators, Waiting
    <3> QED BY <3>1, <1>0, IdleFits DEF Fits, Idle
  <2> QED BY <1>0, <1>2, <1>3, <1>4, <1>7, <2>3, <2>4, <2>5, <2>6, <2>7, ServerGoes DEF net, Idle
<1> QED BY <1>1, <1>9, <1>10

-----------------------------------------------------------------------------
\* A rotation begins above an epoch the service has handed out.
LEMMA RotateGoes ==
  ASSUME KInv, NEW u \in Users, NEW s \in Rotators, Rotate(u, s)
  PROVE  \/ UNCHANGED task
         \/ \E t \in Task : SetTask(u, s, t) /\ Fits(u, s, t)
<1>1. CASE cmeta[u] > 0
  <2> DEFINE e == cmeta[u] + 1
             t == [Idle EXCEPT !.at = "bump", !.e = e]
  <2>1. cmeta[u] \in Unset..MaxEpoch /\ cmeta[u] <= epoch /\ epoch \in 0..MaxEpoch
    BY DEF KInv, Beliefs, Server
  <2>2. cmeta[u] < MaxEpoch /\ SetTask(u, s, t)
    BY <1>1 DEF Rotate
  <2>3. e \in 2..MaxEpoch /\ e \in 0..MaxEpoch /\ epoch > 0
    BY <1>1, <2>1, <2>2, Parameters DEF Unset
  <2> HIDE DEF e
  <2>0. "bump" \in Stages
    BY DEF Stages
  <2>4. t \in Task /\ t.at = "bump" /\ t.e = e
    BY <2>0, <2>3, Begun
  <2> HIDE DEF t
  <2>5. Fits(u, s, t)
    BY <2>3, <2>4 DEF Fits, Rotators, Waiting
  <2> QED BY <2>2, <2>4, <2>5
<1>2. CASE ~(cmeta[u] > 0)
  BY <1>2 DEF Rotate
<1> QED BY <1>1, <1>2

\* A leave event or the timer begins a rotation or does nothing.
LEMMA TakeChangeKeeps ==
  ASSUME KInv, NEW u \in Users, TakeChange(u) \/ TimerFires(u)
  PROVE  KInv'
<1>1. UNCHANGED <<server, notices, cmeta, keys, heard, ans>>
  BY DEF TakeChange, TimerFires, net
<1>2. left' \in [Kinds -> Nat] /\ calm' \in BOOLEAN /\ left'["enable"] = left["enable"]
  <2>1. CASE TakeChange(u)
    BY <2>1 DEF TakeChange, KInv, Plain, bounds
  <2>2. CASE TimerFires(u)
    <3>1. "timer" \in Kinds
      BY DEF Kinds
    <3> QED BY <2>2, <3>1, Spent DEF TimerFires, KInv
  <2> QED BY <2>1, <2>2
<1>3. phase' = phase /\ merr' = merr /\ timer' \subseteq Users /\ changes' \in [Users -> Nat]
  BY DEF TakeChange, TimerFires, KInv, Plain, net
<1>4. Plain'
  BY <1>1, <1>2, <1>3 DEF KInv, Plain, server
<1>5. PICK s \in Rotators : Rotate(u, s) \/ UNCHANGED task
  BY DEF TakeChange, TimerFires, Rotators
<1>6. CASE UNCHANGED task
  BY <1>1, <1>2, <1>4, <1>6, NoTask DEF server
<1>7. CASE \E t \in Task : SetTask(u, s, t) /\ Fits(u, s, t)
  <2>1. PICK t \in Task : SetTask(u, s, t) /\ Fits(u, s, t)
    BY <1>7
  <2>2. s \in Slots /\ s # "enable"
    BY DEF Slots, Rotators
  <2> QED BY <1>1, <1>2, <1>4, <2>1, <2>2, OnlyTask DEF server
<1> QED BY <1>5, <1>6, <1>7, RotateGoes

\* The service has checked the epoch against the record it has read.
LEMMA BumpReadKeeps ==
  ASSUME KInv, NEW u \in Users, NEW s \in Slots, BumpRead(u, s)
  PROVE  KInv'
<1> DEFINE c == task[u][s]
           t == [c EXCEPT !.at = "write", !.tag = rev]
           g == [Idle EXCEPT !.at = "get"]
<1>1. PICK o \in {"answered", "lost"} :
       /\ Ends(o)
       /\ IF o = "lost" THEN Stop(u, s)
          ELSE IF u \in member /\ epoch > 0 /\ c.e > epoch
            THEN SetTask(u, s, t)
            ELSE Restart(u, s, "get")
  BY DEF BumpRead
<1>2. UNCHANGED <<server, net, phase, cmeta, merr, keys, heard, timer, ans>> /\ c.at = "bump"
  BY DEF BumpRead, At
<1>3. left' \in [Kinds -> Nat] /\ calm' \in BOOLEAN /\ left'["enable"] = left["enable"]
  BY <1>1, Ended DEF KInv
<1>4. Plain'
  BY <1>2, <1>3 DEF KInv, Plain, server, net
<1>5. c \in Task /\ Fits(u, s, c) /\ rev \in Nat
  BY DEF KInv, Tasks, Server
<1>6. s \in Rotators /\ s # "enable" /\ c.e \in 2..MaxEpoch /\ epoch > 0
  <2>1. s \in Rotators
    BY <1>2, <1>5 DEF Fits, Slots, Waiting
  <2> QED BY <1>2, <1>5, <2>1 DEF Fits, Rotators
<1>7. t \in Task /\ t.at = "write" /\ t.e = c.e /\ t.tag = rev
  <2> HIDE DEF c
  <2> QED BY <1>5 DEF Task, Stages
<1> HIDE DEF t, c
<1>8. c.e > epoch => Fits(u, s, t)
  BY <1>5, <1>6, <1>7 DEF Fits, Rotators, Waiting
<1>9. Idle \in Task /\ Fits(u, s, Idle) /\ g \in Task /\ Fits(u, s, g)
  BY <1>6, IdleFits DEF Stages
<1>10. (SetTask(u, s, t) /\ c.e > epoch) \/ SetTask(u, s, Idle) \/ SetTask(u, s, g)
  BY <1>1 DEF Stop, Restart
<1> HIDE DEF g
<1> QED BY <1>2, <1>3, <1>4, <1>6, <1>7, <1>8, <1>9, <1>10, OnlyTask DEF server, net

\* The compare-and-set: a revision that is still the one that was read says that the
\* epoch is still higher, and that nobody has won it.
LEMMA BumpWriteKeeps ==
  ASSUME KInv, NEW u \in Users, NEW s \in Slots, BumpWrite(u, s)
  PROVE  KInv'
<1> DEFINE c == task[u][s]
           g == [Idle EXCEPT !.at = "get"]
<1>1. PICK o \in {"answered", "unheard"} :
       /\ Ends(o)
       /\ IF c.tag = rev
            THEN /\ epoch' = c.e /\ rev' = rev + 1
                 /\ won' = [won EXCEPT ![c.e] = @ \cup {KeyOf(u, s)}]
            ELSE UNCHANGED <<epoch, rev, won>>
       /\ IF o = "unheard" THEN Stop(u, s)
          ELSE IF c.tag = rev THEN SetTask(u, s, [c EXCEPT !.at = "won", !.tag = 0])
          ELSE Restart(u, s, "get")
  BY DEF BumpWrite
<1>2. /\ UNCHANGED <<member, published, raw, wrapped, net, phase, cmeta, merr, keys, heard, timer, ans>>
      /\ c.at = "write"
  BY DEF BumpWrite, At
<1>3. left' \in [Kinds -> Nat] /\ calm' \in BOOLEAN /\ left'["enable"] = left["enable"]
  BY <1>1, Ended DEF KInv
<1>4. Plain'
  BY <1>2, <1>3 DEF KInv, Plain, net
<1>5. c \in Task /\ Fits(u, s, c) /\ rev \in Nat /\ epoch \in Nat
  BY DEF KInv, Tasks, Server
<1>6. s \in Rotators /\ s # "enable" /\ c.e \in 2..MaxEpoch /\ epoch > 0
  <2>1. s \in Rotators
    BY <1>2, <1>5 DEF Fits, Slots, Waiting
  <2> QED BY <1>2, <1>5, <2>1 DEF Fits, Rotators
<1>7. PICK t \in Task : t = [c EXCEPT !.at = "won", !.tag = 0] /\ t.at = "won" /\ t.e = c.e
  <2> DEFINE w == [c EXCEPT !.at = "won", !.tag = 0]
  <2> HIDE DEF c
  <2>1. w \in Task /\ w.at = "won" /\ w.e = c.e
    BY <1>5 DEF Task, Stages
  <2> QED BY <2>1
<1>8. c.tag = rev => c.e > epoch
  BY <1>2, <1>5, <1>6 DEF Fits
<1>9. SetTask(u, s, Idle) \/ SetTask(u, s, g) \/ (c.tag = rev /\ SetTask(u, s, t))
  BY <1>1, <1>7 DEF Stop, Restart
<1>10. Idle \in Task /\ g \in Task /\ Idle.at = "idle" /\ g.at = "get"
  <2>1. Idle \in Task /\ Idle.at = "idle"
    BY Parameters DEF Idle, Task, Stages
  <2> QED BY <2>1 DEF Task, Stages
<1> HIDE DEF c, g
<1>11. CASE c.tag # rev
  <2>1. Fits(u, s, Idle) /\ Fits(u, s, g)
    BY <1>6, IdleFits DEF g
  <2>2. UNCHANGED <<epoch, rev, won>>
    BY <1>1, <1>11
  <2> QED BY <1>2, <1>3, <1>4, <1>6, <1>9, <1>10, <1>11, <2>1, <2>2, OnlyTask DEF net
<1>12. CASE c.tag = rev
  <2>1. epoch' = c.e /\ rev' = rev + 1 /\ won' = [won EXCEPT ![c.e] = @ \cup {<<u, s>>}]
    BY <1>1, <1>6, <1>12 DEF KeyOf
  <2>2. c.e \in Epochs /\ c.e > epoch /\ c.e # 1 /\ <<u, s>> \in Claimants
    BY <1>6, <1>8, <1>12 DEF Epochs, Claimants
  <2>3. won[c.e] = {} /\ won'[c.e] = {<<u, s>>} /\ \A e \in Epochs \ {c.e} : won'[e] = won[e]
    BY <2>1, <2>2 DEF KInv, Server
  <2>4. Server'
    <3>1. won' \in [Epochs -> SUBSET Claimants] /\ rev' \in Nat /\ epoch' \in 0..MaxEpoch
      BY <2>1, <2>2, <1>5, <1>6 DEF KInv, Server
    <3>2. \A e \in Epochs : e > epoch' => won'[e] = {}
      BY <2>1, <2>2, <2>3, <1>5 DEF KInv, Server, Epochs
    <3>3. \A e \in Epochs : \A k, l \in won'[e] : k = l
      <4>1. \A e \in Epochs \ {c.e} : \A k, l \in won[e] : k = l
        BY DEF KInv, Server
      <4> QED BY <4>1, <2>3
    <3>4. won'[1] \subseteq {First}
      BY <2>2, <2>3, Parameters DEF KInv, Server, Epochs
    <3> QED BY <3>1, <3>2, <3>3, <3>4 DEF Server
  <2>5. epoch <= epoch' /\ rev < rev' /\ epoch' # 0 /\ \A e \in Epochs : won[e] \subseteq won'[e]
    BY <1>5, <1>6, <2>1, <2>2, <2>3
  <2>6. left["enable"] # 1 /\ \A v \in Users : task[v]["enable"].at \in {"idle", "done"}
    <3>1. \A v \in Users : Fits(v, "enable", task[v]["enable"])
      BY DEF KInv, Tasks, Slots
    <3>2. ASSUME NEW v \in Users PROVE task[v]["enable"].at \in {"idle", "done"}
      <4>1. epoch # 0
        BY <1>5, <1>6
      <4>2. Fits(v, "enable", task[v]["enable"])
        BY <3>1
      <4> QED BY <4>1, <4>2 DEF Fits
    <3> QED BY <3>2, <1>6 DEF KInv, Enabling
  <2>7. Fits(u, s, t)' /\ Fits(u, s, g)' /\ Fits(u, s, Idle)'
    <3>1. Fits(u, s, t)'
      BY <1>6, <1>7, <2>1, <2>3 DEF Fits, Rotators, Waiting
    <3>2. Fits(u, s, g)' /\ Fits(u, s, Idle)'
      BY <1>6, <1>10, <1>5, <2>1 DEF Fits, Idle, g
    <3> QED BY <3>1, <3>2
  <2> QED BY <1>2, <1>3, <1>4, <1>6, <1>7, <1>9, <1>10, <2>4, <2>5, <2>6, <2>7, ServerGoes DEF net
<1> QED BY <1>11, <1>12

\* The winner stores its key and believes in its epoch.
LEMMA WonKeeps ==
  ASSUME KInv, MaxEnables = 1, NEW u \in Users, NEW s \in Slots, Won(u, s)
  PROVE  KInv'
<1> DEFINE c == task[u][s]
           t == [c EXCEPT !.at = "raw"]
           given == [Empty EXCEPT ![c.e] = KeyOf(u, s)]
<1>1. /\ UNCHANGED <<server, net, phase, merr, timer, ans, bounds>>
      /\ c.at = "won" /\ Go(u, s, "raw")
      /\ StoreKeys(u, given)
      /\ cmeta' = [cmeta EXCEPT ![u] = IF @ > 0 THEN c.e ELSE @]
  BY DEF Won, At
<1>2. Plain' /\ left'["enable"] = left["enable"]
  BY <1>1 DEF KInv, Plain, server, net, bounds
<1>3. c \in Task /\ c.e \in Epochs /\ KeyOf(u, s) \in Keys /\ KeyOf(u, s) \in Right(c.e)
  BY <1>1, KeyIsRight DEF KInv, Tasks
<1>4. c.e <= epoch /\ c.e \in Unset..MaxEpoch
  <2>1. s # "enable"
    BY <1>1 DEF KInv, Tasks, Fits
  <2>2. c.e \in 2..epoch
    BY <1>1, <2>1, KeyIsRight
  <2> HIDE DEF c
  <2> QED BY <2>2, <1>3 DEF Epochs, Unset
<1>5. t \in Task /\ t.at = "raw" /\ t.e = c.e /\ t.tag = c.tag
  <2> HIDE DEF c
  <2> QED BY <1>3 DEF Task, Stages
<1>6. SetTask(u, s, t)
  BY <1>1 DEF Go, SetTask
<1>7. cmeta' \in [Users -> Unset..MaxEpoch] /\ \A v \in Users : cmeta'[v] <= epoch
  <2> HIDE DEF c
  <2> QED BY <1>1, <1>4 DEF KInv, Beliefs
<1>8. given \in KeyRing /\ (\A x \in Epochs : given[x] \in Right(x)) /\ \A x \in Epochs : given[x] # NoKey => x <= epoch
  <2> HIDE DEF c
  <2> QED BY <1>3, <1>4, OneKey
<1> HIDE DEF t
<1>9. Fits(u, s, t)
  BY <1>1, <1>5, Advances
<1>10. Tasks' /\ Enabling'
  BY <1>1, <1>2, <1>5, <1>6, <1>9, TaskGoes, EnablingGoes DEF KInv, server
<1>11. Rings' /\ Beliefs'
  <2> HIDE DEF given
  <2>1. wrapped' \in [Users -> KeyRing] /\ \A m \in Users, e \in Epochs : wrapped'[m][e] \in Right(e)
    BY <1>1 DEF server, KInv, Rings
  <2> QED BY <2>1, <1>1, <1>7, <1>8, KeysStored DEF server, net
<1>12. Server' /\ Answers'
  BY <1>1 DEF KInv, Server, Answers, server
<1> QED BY <1>2, <1>10, <1>11, <1>12 DEF KInv

\* The others are told of an epoch the service has handed out; old keys go.
LEMMA AnnounceKeeps ==
  ASSUME KInv, MaxEnables = 1, NEW u \in Users, NEW s \in Slots, Announce(u, s)
  PROVE  KInv'
<1> DEFINE e == task[u][s].e
<1>1. /\ UNCHANGED <<server, changes, phase, cmeta, merr, heard, ans, bounds>>
      /\ SetTask(u, s, Idle) /\ s \in Rotators /\ s # "enable" /\ task[u][s].at = "share"
      /\ notices' = [v \in Users |-> IF Ready(v) THEN Append(notices[v], e) ELSE notices[v]]
      /\ timer' = timer \cup {u}
      /\ keys' = [keys EXCEPT ![u] = Pruned(@, e)]
  BY DEF Announce, Stop, At, Rotators
<1>2. Plain' /\ left'["enable"] = left["enable"]
  BY <1>1 DEF KInv, Plain, server, bounds
<1>3. e \in Epochs /\ e <= epoch
  <2>1. e \in Epochs /\ e \in 2..epoch
    BY <1>1, KeyIsRight
  <2> QED BY <2>1
<1> HIDE DEF e
<1>4. Beliefs'
  <2>1. ASSUME NEW v \in Users
        PROVE  notices'[v] \in Seq(Epochs) /\ \A i \in DOMAIN notices'[v] : notices'[v][i] <= epoch
    <3>1. notices[v] \in Seq(Epochs) /\ \A i \in DOMAIN notices[v] : notices[v][i] <= epoch
      BY DEF KInv, Beliefs
    <3>2. CASE notices'[v] = Append(notices[v], e)
      BY <3>1, <3>2, <1>3
    <3>3. CASE notices'[v] = notices[v]
      BY <3>1, <3>3
    <3> QED BY <1>1, <3>2, <3>3
  <2>2. notices' \in [Users -> Seq(Epochs)]
    BY <2>1, <1>1
  <2> QED BY <2>1, <2>2, <1>1 DEF KInv, Beliefs, server
<1>5. Rings'
  <2>1. keys[u] \in KeyRing /\ NoKey \in Keys
    BY DEF KInv, Rings, Keys
  <2>2. Pruned(keys[u], e) \in KeyRing /\ \A x \in Epochs : Pruned(keys[u], e)[x] \in {NoKey, keys[u][x]}
    BY <2>1 DEF Pruned, KeyRing
  <2>3. /\ keys' \in [Users -> KeyRing]
        /\ \A v \in Users : keys'[v] = IF v = u THEN Pruned(keys[u], e) ELSE keys[v]
    BY <1>1, <2>2 DEF KInv, Rings
  <2>4. ASSUME NEW v \in Users, NEW x \in Epochs
        PROVE  keys'[v][x] \in Right(x) /\ (keys'[v][x] # NoKey => x <= epoch)
    <3>1. keys[v][x] \in Right(x) /\ (keys[v][x] # NoKey => x <= epoch) /\ NoKey \in Right(x)
      BY DEF KInv, Rings, Right
    <3>2. keys'[v][x] \in {NoKey, keys[v][x]}
      BY <2>2, <2>3
    <3> QED BY <3>1, <3>2
  <2>5. \A x \in Epochs : Right(x)' = Right(x)
    BY <1>1 DEF Right, server
  <2>6. raw' = raw /\ wrapped' = wrapped /\ epoch' = epoch
    BY <1>1 DEF server
  <2> QED BY <2>3, <2>4, <2>5, <2>6 DEF KInv, Rings
<1>6. Tasks' /\ Enabling'
  BY <1>1, <1>2, IdleFits, TaskGoes, EnablingGoes DEF KInv, server
<1>7. Server' /\ Answers'
  BY <1>1 DEF KInv, Server, Answers, server
<1> QED BY <1>2, <1>4, <1>5, <1>6, <1>7 DEF KInv

\* The loser reads the record again, or an error that it takes for one.
LEMMA RereadKeeps ==
  ASSUME KInv, NEW u \in Users, NEW s \in Slots, Reread(u, s)
  PROVE  KInv'
<1>1. PICK o \in {"answered", "lost", "refused"} :
       /\ Ends(o)
       /\ IF o = "lost" THEN Stop(u, s)
          ELSE SetTask(u, s, [Idle EXCEPT !.at = "remeta", !.e = IF o = "answered" THEN epoch ELSE Off])
  BY DEF Reread
<1>2. UNCHANGED <<server, net, phase, cmeta, merr, keys, heard, timer, ans>> /\ task[u][s].at = "reread"
  BY DEF Reread, At
<1>3. left' \in [Kinds -> Nat] /\ calm' \in BOOLEAN /\ left'["enable"] = left["enable"]
  BY <1>1, Ended DEF KInv
<1>4. Plain'
  BY <1>2, <1>3 DEF KInv, Plain, server, net
<1>5. s \in Rotators /\ s # "enable"
  <2>1. Fits(u, s, task[u][s])
    BY DEF KInv, Tasks
  <2> QED BY <1>2, <2>1 DEF Fits, Slots, Waiting
<1>6. CASE SetTask(u, s, Idle)
  BY <1>2, <1>3, <1>4, <1>5, <1>6, IdleFits, OnlyTask DEF server, net
<1>7. CASE ~SetTask(u, s, Idle)
  <2> DEFINE e == IF o = "answered" THEN epoch ELSE Off
             t == [Idle EXCEPT !.at = "remeta", !.e = e]
  <2>1. e \in 0..MaxEpoch /\ e <= epoch /\ "remeta" \in Stages
    BY Parameters DEF KInv, Server, Off, Stages
  <2>2. SetTask(u, s, t)
    BY <1>1, <1>7 DEF Stop
  <2> HIDE DEF e
  <2>3. t \in Task /\ t.at = "remeta" /\ t.e = e
    BY <2>1, Begun
  <2> HIDE DEF t
  <2>4. Fits(u, s, t)
    BY <1>5, <2>1, <2>3 DEF Fits, Rotators, Waiting
  <2> QED BY <1>2, <1>3, <1>4, <1>5, <2>2, <2>3, <2>4, OnlyTask DEF server, net
<1> QED BY <1>6, <1>7

\* What it read is no later than what the service has.
LEMMA ResetMetaKeeps ==
  ASSUME KInv, NEW u \in Users, NEW s \in Slots, ResetMeta(u, s)
  PROVE  KInv'
<1> DEFINE e == task[u][s].e
<1>1. /\ UNCHANGED <<server, net, phase, merr, keys, heard, ans, bounds>>
      /\ task[u][s].at = "remeta" /\ SetTask(u, s, Idle)
      /\ cmeta' = [cmeta EXCEPT ![u] = e] /\ timer' = timer \cup {u}
  BY DEF ResetMeta, At, Stop
<1>2. Plain' /\ left'["enable"] = left["enable"]
  BY <1>1 DEF KInv, Plain, server, net, bounds
<1>3. e \in Unset..MaxEpoch /\ e <= epoch
  <2>1. task[u][s] \in Task /\ Fits(u, s, task[u][s])
    BY DEF KInv, Tasks
  <2>2. s \in Rotators
    BY <1>1, <2>1 DEF Fits, Slots, Waiting
  <2> QED BY <1>1, <2>1, <2>2 DEF Task, Fits, Unset
<1> HIDE DEF e
<1>4. cmeta' \in [Users -> Unset..MaxEpoch] /\ \A v \in Users : cmeta'[v] <= epoch
  BY <1>1, <1>3 DEF KInv, Beliefs
<1>5. Beliefs'
  BY <1>1, <1>4, Believes DEF server, net
<1>6. Tasks' /\ Enabling'
  BY <1>1, <1>2, IdleFits, TaskGoes, EnablingGoes DEF KInv, server, Idle
<1>7. Server' /\ Rings' /\ Answers'
  BY <1>1 DEF KInv, Server, Rings, Right, Answers, server
<1> QED BY <1>2, <1>5, <1>6, <1>7 DEF KInv

-----------------------------------------------------------------------------
\* A notice may move a client back, but never ahead of the service.
LEMMA TakeNoticeKeeps ==
  ASSUME KInv, NEW u \in Users, TakeNotice(u)
  PROVE  KInv'
<1> DEFINE t == [task[u]["notice"] EXCEPT !.at = "get"]
           h == Head(notices[u])
<1>0. "notice" \in Slots /\ "get" \in Stages
  BY DEF Slots, Stages
<1>1. /\ UNCHANGED <<server, changes, phase, merr, keys, heard, timer, ans, bounds>>
      /\ notices[u] # <<>> /\ notices' = [notices EXCEPT ![u] = Tail(@)]
      /\ cmeta' = [cmeta EXCEPT ![u] = IF @ > 0 THEN h ELSE @]
      /\ Go(u, "notice", "get")
  BY DEF TakeNotice
<1>2. Plain' /\ left'["enable"] = left["enable"]
  BY <1>1 DEF KInv, Plain, server, bounds
<1>3. /\ notices[u] \in Seq(Epochs) /\ h \in Epochs /\ h <= epoch
      /\ Tail(notices[u]) \in Seq(Epochs)
      /\ \A i \in DOMAIN Tail(notices[u]) : Tail(notices[u])[i] <= epoch
  <2>1. notices[u] \in Seq(Epochs) /\ \A i \in DOMAIN notices[u] : notices[u][i] <= epoch
    BY DEF KInv, Beliefs
  <2> QED BY <1>1, <2>1
<1>4. h \in Unset..MaxEpoch /\ epoch > 0
  <2> HIDE DEF h
  <2> QED BY <1>3 DEF Epochs, Unset, KInv, Server
<1>5. Beliefs'
  <2> HIDE DEF h
  <2>1. cmeta' \in [Users -> Unset..MaxEpoch] /\ \A v \in Users : cmeta'[v] <= epoch
    BY <1>1, <1>3, <1>4 DEF KInv, Beliefs
  <2>2. notices' \in [Users -> Seq(Epochs)] /\ \A v \in Users : notices'[v] = IF v = u THEN Tail(notices[u]) ELSE notices[v]
    BY <1>1, <1>3 DEF KInv, Beliefs
  <2>3. \A v \in Users : \A i \in DOMAIN notices'[v] : notices'[v][i] <= epoch
    BY <2>2, <1>3 DEF KInv, Beliefs
  <2>4. heard' = heard /\ epoch' = epoch
    BY <1>1 DEF server
  <2> QED BY <2>1, <2>2, <2>3, <2>4 DEF KInv, Beliefs
<1>6. t \in Task /\ SetTask(u, "notice", t)
  BY <1>0, <1>1, Moved DEF KInv
<1>7. t.at = "get"
  <2>1. task[u]["notice"] \in Task
    BY <1>0 DEF KInv, Tasks
  <2> QED BY <2>1 DEF Task
<1> HIDE DEF t
<1>8. Fits(u, "notice", t)
  BY <1>4, <1>7 DEF Fits, Rotators, Waiting
<1>9. Tasks' /\ Enabling'
  BY <1>0, <1>1, <1>2, <1>6, <1>8, TaskGoes, EnablingGoes DEF KInv, server
<1>10. Server' /\ Rings' /\ Answers'
  BY <1>1 DEF KInv, Server, Rings, Right, Answers, server
<1> QED BY <1>2, <1>5, <1>9, <1>10 DEF KInv

\* The listener moves it to an epoch whose key was stored.
LEMMA TakeStoredKeeps ==
  ASSUME KInv, NEW u \in Users, TakeStored(u)
  PROVE  KInv'
<1>1. /\ UNCHANGED <<server, net, phase, merr, keys, timer, task, ans, bounds>>
      /\ heard' = [heard EXCEPT ![u] = 0]
      /\ cmeta' = [cmeta EXCEPT ![u] = IF @ > 0 /\ heard[u] > @ THEN heard[u] ELSE @]
  BY DEF TakeStored
<1>2. heard[u] \in 0..MaxEpoch /\ heard[u] <= epoch /\ epoch \in Nat /\ MaxEpoch \in Nat
  BY Parameters DEF KInv, Beliefs, Server
<1>3. heard' \in [Users -> 0..MaxEpoch] /\ \A v \in Users : heard'[v] <= epoch
  BY <1>1, <1>2 DEF KInv, Beliefs
<1>4. cmeta' \in [Users -> Unset..MaxEpoch] /\ \A v \in Users : cmeta'[v] <= epoch
  BY <1>1, <1>2 DEF KInv, Beliefs, Unset
<1>5. Beliefs'
  BY <1>1, <1>3, <1>4 DEF KInv, Beliefs, server, net
<1>6. Plain'
  BY <1>1 DEF KInv, Plain, server, net, bounds
<1>7. Tasks'
  BY <1>1 DEF KInv, Tasks, Fits, server
<1>8. Server' /\ Rings' /\ Answers' /\ Enabling'
  BY <1>1 DEF KInv, Server, Rings, Right, Answers, Enabling, server, bounds
<1> QED BY <1>5, <1>6, <1>7, <1>8 DEF KInv

\* A missing key is fetched of an epoch the service has handed out.
LEMMA DecryptKeeps ==
  ASSUME KInv, NEW u \in Users, Decrypt(u)
  PROVE  KInv'
<1> DEFINE t == [task[u]["decrypt"] EXCEPT !.at = "get"]
<1>0. "decrypt" \in Slots /\ "get" \in Stages /\ "decrypt" \in Kinds
  BY DEF Slots, Stages, Kinds
<1>1. /\ UNCHANGED <<server, net, phase, cmeta, merr, keys, heard, timer, ans>>
      /\ Go(u, "decrypt", "get") /\ Spend("decrypt") /\ \E e \in 1..epoch : TRUE
  BY DEF Decrypt
<1>2. left' \in [Kinds -> Nat] /\ calm' \in BOOLEAN /\ left'["enable"] = left["enable"]
  BY <1>0, <1>1, Spent DEF KInv
<1>3. Plain'
  BY <1>1, <1>2 DEF KInv, Plain, server, net
<1>4. epoch > 0
  BY <1>1 DEF KInv, Server
<1>5. t \in Task /\ SetTask(u, "decrypt", t)
  BY <1>0, <1>1, Moved DEF KInv
<1>6. t.at = "get"
  <2>1. task[u]["decrypt"] \in Task
    BY <1>0 DEF KInv, Tasks
  <2> QED BY <2>1 DEF Task
<1> HIDE DEF t
<1>7. Fits(u, "decrypt", t)
  BY <1>4, <1>6 DEF Fits, Rotators, Waiting
<1> QED BY <1>0, <1>1, <1>2, <1>3, <1>5, <1>7, OnlyTask DEF server, net

\* The chain that fetched goes on to read the record again, or ends.
LEMMA FetchEndsGoes ==
  ASSUME KInv, NEW u \in Users, NEW s \in Slots, task[u][s].at \in {"get", "ask"}, FetchEnds(u, s)
  PROVE  /\ s # "enable"
         /\ timer' \in {timer, timer \cup {u}}
         /\ \E t \in Task : SetTask(u, s, t) /\ Fits(u, s, t)
<1>1. task[u][s] \in Task /\ Fits(u, s, task[u][s])
  BY DEF KInv, Tasks
<1>2. s # "enable"
  BY <1>1 DEF Fits
<1>3. timer' \in {timer, timer \cup {u}}
  BY DEF FetchEnds
<1>4. CASE s \in Rotators
  <2> DEFINE t == [task[u][s] EXCEPT !.at = "reread"]
  <2>1. SetTask(u, s, t)
    BY <1>4 DEF FetchEnds, Go, SetTask
  <2>2. t \in Task /\ t.at = "reread"
    BY <1>1 DEF Task, Stages
  <2> HIDE DEF t
  <2>3. Fits(u, s, t)
    BY <1>4, <2>2 DEF Fits, Rotators, Waiting
  <2> QED BY <1>2, <1>3, <2>1, <2>2, <2>3
<1>5. CASE s \notin Rotators
  <2>1. SetTask(u, s, Idle)
    BY <1>5 DEF FetchEnds, Stop
  <2> QED BY <1>2, <1>3, <2>1, IdleFits
<1> QED BY <1>4, <1>5

\* What the service has wrapped may be stored, the keys of the first epoch too.
LEMMA FetchKeysKeeps ==
  ASSUME KInv, NEW u \in Users, NEW s \in Slots, FetchKeys(u, s)
  PROVE  KInv'
<1> DEFINE c == task[u][s]
           todo == {v \in Users : Ready(v)}
           w == [c EXCEPT !.at = "ask", !.todo = todo]
<1>1. PICK o \in {"answered", "lost"} :
       /\ Ends(o)
       /\ IF o = "answered"
            THEN StoreKeys(u, Unwrapped(u))
            ELSE UNCHANGED <<keys, heard>>
       /\ IF o = "answered" /\ wrapped[u] = Empty
            THEN SetTask(u, s, w) /\ UNCHANGED timer
            ELSE FetchEnds(u, s)
  BY DEF FetchKeys
<1>2. UNCHANGED <<server, net, phase, cmeta, merr, ans>> /\ c.at = "get"
  BY DEF FetchKeys, At
<1>3. left' \in [Kinds -> Nat] /\ calm' \in BOOLEAN /\ left'["enable"] = left["enable"]
  BY <1>1, Ended DEF KInv
<1>4. c \in Task /\ Fits(u, s, c)
  BY DEF KInv, Tasks
<1>5. epoch > 0 /\ s # "enable"
  BY <1>2, <1>4 DEF Fits
<1>6. w \in Task /\ w.at = "ask"
  <2>1. todo \in SUBSET Users
    OBVIOUS
  <2> HIDE DEF c, todo
  <2> QED BY <1>4, <2>1 DEF Task, Stages
<1> HIDE DEF w, c
<1>7. Fits(u, s, w)
  BY <1>5, <1>6 DEF Fits, Rotators, Waiting, Slots
<1>8. PICK t \in Task : SetTask(u, s, t) /\ Fits(u, s, t)
  <2>1. CASE FetchEnds(u, s)
    BY <1>2, <2>1, FetchEndsGoes DEF c
  <2>2. CASE SetTask(u, s, w)
    BY <2>2, <1>6, <1>7
  <2> QED BY <1>1, <2>1, <2>2
<1>9. Plain'
  <2>1. timer' \in {timer, timer \cup {u}}
    BY <1>1 DEF FetchEnds
  <2> QED BY <1>2, <1>3, <2>1 DEF KInv, Plain, server, net
<1>10. Tasks' /\ Enabling'
  BY <1>2, <1>3, <1>5, <1>8, TaskGoes, EnablingGoes DEF KInv, server
<1>11. Rings' /\ Beliefs'
  <2>1. CASE UNCHANGED <<keys, heard>>
    BY <1>2, <2>1 DEF KInv, Rings, Right, Beliefs, server, net
  <2>2. CASE StoreKeys(u, Unwrapped(u))
    <3> DEFINE given == Unwrapped(u)
    <3>1. given \in KeyRing /\ \A e \in Epochs : given[e] \in {NoKey, wrapped[u][e]}
      BY DEF Unwrapped, KeyRing, Keys, KInv, Rings
    <3>2. StoreKeys(u, given)
      BY <2>2
    <3> HIDE DEF given
    <3>3. \A e \in Epochs : given[e] \in Right(e)
      BY <3>1 DEF KInv, Rings, Right
    <3>4. ASSUME NEW e \in Epochs, given[e] # NoKey PROVE e <= epoch
      <4>1. e \in Nat /\ epoch \in Nat
        BY DEF Epochs, KInv, Server
      <4>2. CASE e = 1
        BY <4>1, <4>2, <1>5
      <4>3. CASE e # 1
        <5>1. given[e] \in won[e]
          BY <3>3, <3>4, <4>3 DEF Right
        <5> QED BY <5>1, <4>1 DEF KInv, Server
      <4> QED BY <4>2, <4>3
    <3>5. wrapped' \in [Users -> KeyRing] /\ \A m \in Users, e \in Epochs : wrapped'[m][e] \in Right(e)
      BY <1>2 DEF server, KInv, Rings
    <3>6. cmeta' \in [Users -> Unset..MaxEpoch] /\ \A v \in Users : cmeta'[v] <= epoch
      BY <1>2 DEF KInv, Beliefs
    <3> QED BY <1>2, <3>1, <3>2, <3>3, <3>4, <3>5, <3>6, KeysStored DEF server, net
  <2> QED BY <1>1, <2>1, <2>2
<1>12. Server' /\ Answers'
  BY <1>2 DEF KInv, Server, Answers, server
<1> QED BY <1>9, <1>10, <1>11, <1>12 DEF KInv

\* A request nobody answers ends the fetch.
LEMMA AskTimeoutKeeps ==
  ASSUME KInv, NEW u \in Users, NEW s \in Slots, AskTimeout(u, s)
  PROVE  KInv'
<1>1. /\ UNCHANGED <<server, net, phase, cmeta, merr, keys, heard, ans>>
      /\ FetchEnds(u, s) /\ task[u][s].at = "ask"
      /\ UNCHANGED bounds \/ Spend("failure")
  BY DEF AskTimeout, At
<1>2. left' \in [Kinds -> Nat] /\ calm' \in BOOLEAN /\ left'["enable"] = left["enable"]
  <2>1. "failure" \in Kinds
    BY DEF Kinds
  <2>2. CASE UNCHANGED bounds
    BY <2>2 DEF KInv, Plain, bounds
  <2>3. CASE Spend("failure")
    BY <2>1, <2>3, Spent DEF KInv
  <2> QED BY <1>1, <2>2, <2>3
<1>3. s # "enable" /\ timer' \in {timer, timer \cup {u}} /\ \E t \in Task : SetTask(u, s, t) /\ Fits(u, s, t)
  BY <1>1, FetchEndsGoes
<1>4. Plain'
  BY <1>1, <1>2, <1>3 DEF KInv, Plain, server, net
<1>5. PICK t \in Task : SetTask(u, s, t) /\ Fits(u, s, t)
  BY <1>3
<1> QED BY <1>1, <1>2, <1>3, <1>4, <1>5, OnlyTask DEF server, net

\* Who answers remembers an epoch it believes in.
LEMMA AnswerTakeKeeps ==
  ASSUME KInv, NEW v \in Users, NEW u \in Users, NEW s \in Slots, AnswerTake(v, u, s)
  PROVE  KInv'
<1> DEFINE c == task[u][s]
           todo == c.todo \ {v}
           t == [c EXCEPT !.todo = todo]
           a == [for |-> u, slot |-> s, e |-> cmeta[v]]
<1>1. /\ UNCHANGED <<server, net, phase, cmeta, merr, keys, heard, timer, bounds>>
      /\ c.at = "ask" /\ task' = [task EXCEPT ![u][s].todo = @ \ {v}]
      /\ ans' = IF cmeta[v] > 0 THEN [ans EXCEPT ![v] = a] ELSE ans
  BY DEF AnswerTake, At
<1>2. Plain' /\ left'["enable"] = left["enable"]
  BY <1>1 DEF KInv, Plain, server, net, bounds
<1>3. c \in Task /\ Fits(u, s, c)
  BY DEF KInv, Tasks
<1>4. SetTask(u, s, t)
  BY <1>1 DEF SetTask
<1>5. t \in Task /\ t.at = "ask"
  <2>1. todo \in SUBSET Users
    BY <1>3 DEF Task
  <2> HIDE DEF c, todo
  <2> QED BY <1>1, <1>3, <2>1 DEF Task, c
<1> HIDE DEF t, c
<1>6. Fits(u, s, t) /\ s # "enable"
  BY <1>1, <1>3, <1>5 DEF Fits, Rotators, Waiting
<1>7. Tasks' /\ Enabling'
  BY <1>1, <1>2, <1>4, <1>5, <1>6, TaskGoes, EnablingGoes DEF KInv, server
<1>8. Answers'
  <2>1. CASE cmeta[v] > 0
    <3> DEFINE e == cmeta[v]
    <3>1. e \in Epochs /\ e \in 0..MaxEpoch /\ e <= epoch
      BY <2>1, Parameters DEF KInv, Beliefs, Unset, Epochs
    <3> HIDE DEF e
    <3>2. ans' = [ans EXCEPT ![v] = [for |-> u, slot |-> s, e |-> e]]
      BY <1>1, <2>1 DEF e
    <3>3. [for |-> u, slot |-> s, e |-> e] \in Answer
      BY <3>1 DEF Answer
    <3>4. ans' \in [Users -> Answer] /\ \A x \in Users : ans'[x] = IF x = v THEN [for |-> u, slot |-> s, e |-> e] ELSE ans[x]
      BY <3>2, <3>3 DEF KInv, Answers
    <3> QED BY <3>1, <3>4, <1>1 DEF KInv, Answers, server
  <2>2. CASE ~(cmeta[v] > 0)
    BY <1>1, <2>2 DEF KInv, Answers, server
  <2> QED BY <2>1, <2>2
<1>9. Server' /\ Rings' /\ Beliefs'
  BY <1>1 DEF KInv, Server, Rings, Right, Beliefs, server, net
<1> QED BY <1>2, <1>7, <1>8, <1>9 DEF KInv

\* A key a client has is right for whoever asks, at the service and with the asker.
LEMMA AnswerSendKeeps ==
  ASSUME KInv, NEW v \in Users, AnswerSend(v)
  PROVE  KInv'
<1> DEFINE a == ans[v]
           key == keys[v][a.e]
           granted == a.for \in member /\ key # NoKey
           open == granted /\ At(a.for, a.slot, "ask") /\ v \notin task[a.for][a.slot].todo
           given == [Empty EXCEPT ![a.e] = key]
<1>1. /\ UNCHANGED <<member, published, epoch, rev, raw, won, net, phase, cmeta, merr, bounds>>
      /\ a # NoAnswer /\ ans' = [ans EXCEPT ![v] = NoAnswer]
      /\ IF granted /\ v \in member THEN Wrap(a.for, a.e, key) ELSE UNCHANGED wrapped
      /\ IF open THEN StoreKeys(a.for, given) /\ FetchEnds(a.for, a.slot)
                 ELSE UNCHANGED <<keys, heard, task, timer>>
  BY DEF AnswerSend
<1>2. a \in Answer /\ a.e \in Epochs /\ a.e <= epoch
  BY <1>1 DEF KInv, Answers
<1>3. key \in Keys /\ key \in Right(a.e) /\ a.slot \in Slots
  <2>1. key \in Keys
    BY <1>2 DEF KInv, Rings, KeyRing
  <2>2. key \in Right(a.e)
    BY <1>2 DEF KInv, Rings
  <2>3. a.slot \in Slots
    BY <1>2 DEF Answer
  <2> QED BY <2>1, <2>2, <2>3
<1>4. granted => a.for \in Users
  BY DEF KInv, Plain
<1>5. given \in KeyRing /\ (\A x \in Epochs : given[x] \in Right(x)) /\ \A x \in Epochs : given[x] # NoKey => x <= epoch
  <2> HIDE DEF a, key
  <2> QED BY <1>2, <1>3, OneKey
<1>6. wrapped' \in [Users -> KeyRing] /\ \A m \in Users, e \in Epochs : wrapped'[m][e] \in Right(e)
  <2>1. CASE UNCHANGED wrapped
    BY <2>1 DEF KInv, Rings
  <2>2. CASE granted /\ Wrap(a.for, a.e, key)
    <3> HIDE DEF a, key
    <3> QED BY <2>2, <1>2, <1>3, <1>4, WrapRight DEF KInv
  <2> QED BY <1>1, <2>1, <2>2
<1>7. Answers'
  <2>1. NoAnswer \in Answer
    BY Parameters DEF NoAnswer, Answer, Slots
  <2> QED BY <1>1, <2>1 DEF KInv, Answers
<1>8. Server'
  BY <1>1 DEF KInv, Server
<1>9. CASE ~open
  <2> HIDE DEF open, granted, given, a, key
  <2>1. UNCHANGED <<keys, heard, task, timer>>
    BY <1>1, <1>9
  <2>2. Plain'
    BY <1>1, <2>1 DEF KInv, Plain, net, bounds
  <2>3. Rings'
    <3>1. \A x \in Epochs : Right(x)' = Right(x)
      BY <1>1 DEF Right
    <3> QED BY <1>1, <1>6, <2>1, <3>1 DEF KInv, Rings
  <2>4. Beliefs' /\ Enabling'
    BY <1>1, <2>1 DEF KInv, Beliefs, Enabling, net, bounds
  <2>5. Tasks'
    BY <1>1, <2>1 DEF KInv, Tasks, Fits
  <2> QED BY <1>7, <1>8, <2>2, <2>3, <2>4, <2>5 DEF KInv
<1>10. CASE open
  <2>1. a.for \in Users /\ task[a.for][a.slot].at = "ask"
    BY <1>4, <1>10 DEF At
  <2>2. StoreKeys(a.for, given) /\ FetchEnds(a.for, a.slot)
    BY <1>1, <1>10
  <2> HIDE DEF open, granted, given, key
  <2>3. PICK u \in Users, s \in Slots : u = a.for /\ s = a.slot
    BY <1>3, <2>1
  <2> HIDE DEF a
  <2>4. s # "enable" /\ timer' \in {timer, timer \cup {u}} /\ \E t \in Task : SetTask(u, s, t) /\ Fits(u, s, t)
    BY <2>1, <2>2, <2>3, FetchEndsGoes
  <2>5. PICK t \in Task : SetTask(u, s, t) /\ Fits(u, s, t)
    BY <2>4
  <2>6. Plain' /\ left'["enable"] = left["enable"]
    BY <1>1, <2>4 DEF KInv, Plain, net, bounds
  <2>7. Tasks' /\ Enabling'
    BY <1>1, <2>4, <2>5, <2>6, TaskGoes, EnablingGoes DEF KInv
  <2>8. Rings' /\ Beliefs'
    <3>1. cmeta' \in [Users -> Unset..MaxEpoch] /\ \A x \in Users : cmeta'[x] <= epoch
      BY <1>1 DEF KInv, Beliefs
    <3> QED BY <1>1, <1>5, <1>6, <2>2, <2>3, <3>1, KeysStored DEF net
  <2> QED BY <1>7, <1>8, <2>6, <2>7, <2>8 DEF KInv
<1> QED BY <1>9, <1>10

-----------------------------------------------------------------------------
\* Members and connections come and go.
LEMMA OthersKeep ==
  ASSUME KInv, NEW u \in Users,
         \/ Join(u) \/ Leave(u) \/ Blip(u) \/ Online(u) \/ LoadIdentity(u) \/ PublishIdentity(u)
  PROVE  KInv'
<1> USE DEF Join, Leave, Blip, Online, LoadIdentity, PublishIdentity, Enter
<1>1. UNCHANGED <<epoch, rev, won, raw, wrapped, keys, cmeta, heard, ans, task, merr, timer>>
  BY DEF server
<1>2. left' \in [Kinds -> Nat] /\ calm' \in BOOLEAN /\ left'["enable"] = left["enable"]
  <2>1. PICK kind \in {"join", "leave", "failure"} : Spend(kind) \/ UNCHANGED bounds
    OBVIOUS
  <2>2. kind \in Kinds /\ kind # "enable"
    BY DEF Kinds
  <2>3. CASE Spend(kind)
    BY <2>2, <2>3, Spent DEF KInv
  <2>4. CASE UNCHANGED bounds
    BY <2>4 DEF KInv, Plain, bounds
  <2> QED BY <2>1, <2>3, <2>4
<1>3. changes' \in [Users -> Nat] /\ phase' \in [Users -> {"off", "loading", "loaded", "ready"}]
  BY SMTT(30) DEF KInv, Plain, net
<1>4. member' \subseteq Users /\ published' \subseteq Users
  BY DEF KInv, Plain, server
<1>5. Plain'
  BY <1>1, <1>2, <1>3, <1>4 DEF KInv, Plain
<1>6. notices' = notices \/ notices' = [notices EXCEPT ![u] = <<>>]
  BY DEF net
<1> HIDE DEF Join, Leave, Blip, Online, LoadIdentity, PublishIdentity, Enter
<1>7. Beliefs'
  <2>0. notices \in [Users -> Seq(Epochs)] /\ <<>> \in Seq(Epochs)
    BY DEF KInv, Beliefs
  <2>1. notices' \in [Users -> Seq(Epochs)] /\ \A v \in Users : notices'[v] = notices[v] \/ notices'[v] = <<>>
    BY <1>6, <2>0
  <2>2. \A v \in Users : \A i \in DOMAIN notices'[v] : notices'[v][i] <= epoch
    BY <2>1 DEF KInv, Beliefs
  <2> QED BY <1>1, <2>1, <2>2 DEF KInv, Beliefs
<1>8. Tasks'
  BY <1>1 DEF KInv, Tasks, Fits
<1>9. Server' /\ Rings' /\ Answers' /\ Enabling'
  BY <1>1, <1>2 DEF KInv, Server, Rings, Right, Answers, Enabling
<1> QED BY <1>5, <1>7, <1>8, <1>9 DEF KInv

\* A client that is closed keeps its keys and forgets the rest.
LEMMA OfflineKeeps ==
  ASSUME KInv, NEW u \in Users, Offline(u)
  PROVE  KInv'
<1>1. /\ UNCHANGED <<server, keys>>
      /\ Spend("reload")
      /\ phase' = [phase EXCEPT ![u] = "off"]
      /\ cmeta' = [cmeta EXCEPT ![u] = Unset]
      /\ merr' = merr \ {u} /\ timer' = timer \ {u}
      /\ task' = [task EXCEPT ![u] = [s \in Slots |-> Idle]]
      /\ ans' = [ans EXCEPT ![u] = NoAnswer]
      /\ notices' = [notices EXCEPT ![u] = <<>>]
      /\ changes' = [changes EXCEPT ![u] = 0]
      /\ heard' = [heard EXCEPT ![u] = 0]
  BY DEF Offline
<1>2. left' \in [Kinds -> Nat] /\ calm' \in BOOLEAN /\ left'["enable"] = left["enable"]
  <2>1. "reload" \in Kinds
    BY DEF Kinds
  <2> QED BY <1>1, <2>1, Spent DEF KInv
<1>3. Plain'
  BY <1>1, <1>2 DEF KInv, Plain, server
<1>4. epoch \in Nat /\ MaxEpoch \in Nat
  BY Parameters DEF KInv, Server
<1>5. Beliefs'
  <2>1. cmeta' \in [Users -> Unset..MaxEpoch] /\ \A v \in Users : cmeta'[v] <= epoch
    BY <1>1, <1>4 DEF KInv, Beliefs, Unset
  <2>2. heard' \in [Users -> 0..MaxEpoch] /\ \A v \in Users : heard'[v] <= epoch
    BY <1>1, <1>4 DEF KInv, Beliefs
  <2>3. notices' \in [Users -> Seq(Epochs)] /\ \A v \in Users : notices'[v] = notices[v] \/ notices'[v] = <<>>
    BY <1>1 DEF KInv, Beliefs
  <2>4. \A v \in Users : \A i \in DOMAIN notices'[v] : notices'[v][i] <= epoch
    BY <2>3 DEF KInv, Beliefs
  <2>5. epoch' = epoch
    BY <1>1 DEF server
  <2> QED BY <2>1, <2>2, <2>3, <2>4, <2>5 DEF Beliefs
<1>6. Answers'
  <2>1. NoAnswer \in Answer
    BY Parameters DEF NoAnswer, Answer, Slots
  <2> QED BY <1>1, <2>1 DEF KInv, Answers, server
<1>7. Tasks' /\ Enabling'
  <2>1. task' \in [Users -> [Slots -> Task]]
    BY <1>1, IdleFits DEF KInv, Tasks
  <2>2. \A v \in Users, s \in Slots : task'[v][s] = IF v = u THEN Idle ELSE task[v][s]
    BY <1>1 DEF KInv, Tasks
  <2>3. ASSUME NEW v \in Users, NEW s \in Slots PROVE Fits(v, s, task[v][s])'
    <3>1. Fits(v, s, Idle) /\ Fits(v, s, task[v][s])
      BY IdleFits DEF KInv, Tasks
    <3>2. epoch' = epoch /\ rev' = rev /\ won' = won
      BY <1>1 DEF server
    <3>3. CASE v = u
      <4>1. task'[v][s] = Idle
        BY <2>2, <3>3
      <4> QED BY <3>1, <3>2, <4>1 DEF Fits
    <3>4. CASE v # u
      <4>1. task'[v][s] = task[v][s]
        BY <2>2, <3>4
      <4> QED BY <3>1, <3>2, <4>1 DEF Fits
    <3> QED BY <3>3, <3>4
  <2>4. \A v \in Users : task'[v]["enable"].at # "idle" => task[v]["enable"].at # "idle"
    BY <2>2 DEF Slots, Idle
  <2>5. epoch' = epoch
    BY <1>1 DEF server
  <2>6. Enabling'
    BY <1>2, <2>4, <2>5 DEF KInv, Enabling
  <2> QED BY <2>1, <2>3, <2>6 DEF Tasks
<1>8. Server' /\ Rings'
  BY <1>1 DEF KInv, Server, Rings, Right, server
<1> QED BY <1>3, <1>5, <1>6, <1>7, <1>8 DEF KInv

\* Every step keeps the invariant.
LEMMA KInvKept ==
  ASSUME KInv, MaxEnables = 1, [Next]_vars
  PROVE  KInv'
<1>1. ASSUME NEW u \in Users, NEW s \in Slots, Serve(u, s) PROVE KInv'
  <2>1. CASE RawPub(u, s) \/ Members(u, s)
    BY <2>1, RawPubKeeps, MembersKeeps
  <2>2. CASE \E m \in Users : Share(u, s, m)
    BY <2>2, ShareKeeps
  <2>3. CASE BumpRead(u, s) \/ BumpWrite(u, s)
    BY <2>3, BumpReadKeeps, BumpWriteKeeps
  <2>4. CASE Won(u, s) \/ Announce(u, s)
    BY <2>4, WonKeeps, AnnounceKeeps
  <2>5. CASE Reread(u, s) \/ ResetMeta(u, s)
    BY <2>5, RereadKeeps, ResetMetaKeeps
  <2>6. CASE FetchKeys(u, s) \/ AskTimeout(u, s)
    BY <2>6, FetchKeysKeeps, AskTimeoutKeeps
  <2> QED BY <1>1, <2>1, <2>2, <2>3, <2>4, <2>5, <2>6 DEF Serve
<1>2. ASSUME NEW u \in Users, MetaAsk(u) \/ MetaSet(u) PROVE KInv'
  BY <1>2, MetaAskKeeps, MetaSetKeeps
<1>3. ASSUME NEW u \in Users, Enable(u) \/ NobodyShared(u) \/ Put(u) \/ Enabled(u) PROVE KInv'
  BY <1>3, EnableKeeps, NobodySharedKeeps, PutKeeps, EnabledKeeps
<1>4. ASSUME NEW u \in Users, TakeChange(u) \/ TimerFires(u) \/ TakeNotice(u) \/ TakeStored(u) \/ Decrypt(u) PROVE KInv'
  BY <1>4, TakeChangeKeeps, TakeNoticeKeeps, TakeStoredKeeps, DecryptKeeps
<1>5. ASSUME NEW u \in Users, NEW s \in Slots, NEW v \in Users, AnswerTake(v, u, s) PROVE KInv'
  BY <1>5, AnswerTakeKeeps
<1>6. ASSUME NEW u \in Users,
             \/ AnswerSend(u) \/ Join(u) \/ Leave(u) \/ Offline(u) \/ Blip(u)
             \/ Online(u) \/ LoadIdentity(u) \/ PublishIdentity(u)
      PROVE  KInv'
  BY <1>6, AnswerSendKeeps, OthersKeep, OfflineKeeps
<1>7. CASE UNCHANGED vars
  <2>1. UNCHANGED <<server, net, phase, cmeta, merr, keys, heard, timer, task, ans, bounds>>
    BY <1>7 DEF vars
  <2>2. Plain' /\ left'["enable"] = left["enable"]
    BY <2>1 DEF KInv, Plain, server, net, bounds
  <2> QED BY <2>1, <2>2, NoTask DEF server, net
<1>8. CASE Next
  BY <1>8, <1>1, <1>2, <1>3, <1>4, <1>5, <1>6 DEF Next
<1> QED BY <1>7, <1>8

-----------------------------------------------------------------------------
(* Settled clients have their keys.                                         *)

\* A client will fetch: a chain of it is about to, a notice waits for it, or one who
\* has wrapped a new key has yet to announce it.
Coming(u) == \/ \E s \in Slots : At(u, s, "get")
             \/ notices[u] # <<>>
             \/ \E w \in Users, s \in Rotators : At(w, s, "share")
\* A ring that has the key of an epoch, or had it until it was pruned.
Had(ring, e) == ring[e] # NoKey \/ \E x \in Epochs : x > e + Keep /\ ring[x] # NoKey
\* A key that was wrapped for a client and that it should have.
Bare(u, e) == wrapped[u][e] # NoKey /\ ~Had(keys[u], e) /\ <<u, e>> \notin belated
\* The room is not known to the client as encrypted: it will look at it first.
Unaware(u) == cmeta[u] <= 0 /\ \A s \in Rotators : At(u, s, "idle")
Provided(u, e) == Ready(u) /\ (Coming(u) \/ (e = 1 /\ Unaware(u)))
Settling ==
  calm => /\ \A u \in published : Ready(u)
          /\ \A u \in Users, e \in Epochs : Bare(u, e) => Provided(u, e)

\* Who has won an epoch has its key until it is pruned, and nobody rotates before
\* there is an epoch.
HasWon == {"raw", "members", "share"}
KeyKept ==
  \A u \in Users, s \in Rotators :
    /\ task[u][s].at \in HasWon => Had(keys[u], task[u][s].e)
    /\ task[u][s].at # "idle" => epoch > 0
SettleInv == Settling /\ KeyKept /\ belated \subseteq Users \X Epochs

\* One chain of u, at s, goes on with t, or none does.
Turns(u, s, t) == t \in Task /\ (SetTask(u, s, t) \/ (t = task[u][s] /\ UNCHANGED task))

\* A step that disturbs nobody who counts on a fetch.
Heeds(u, s, t) ==
  /\ calm
  /\ \A v \in Users : Ready(v) => Ready(v)'
  /\ \A v \in published' : v \in published \/ Ready(v)'
  /\ \A v \in Users, x \in Epochs : Bare(v, x)' => Bare(v, x) \/ Provided(v, x)'
  /\ \A v \in Users : notices[v] # <<>> => notices'[v] # <<>> \/ (v = u /\ t.at = "get")
  /\ task[u][s].at = "get" => t.at = "get" \/ \A x \in Epochs : ~Bare(u, x)'
  /\ s \in Rotators /\ task[u][s].at = "share" => t.at = "share" \/ \A v \in Users : Ready(v) => notices'[v] # <<>>
  /\ \A v \in Users : cmeta[v] <= 0 => \/ cmeta'[v] <= 0
                                       \/ ~Ready(v)
                                       \/ v = u /\ (t.at = "get" \/ keys'[v][1] # NoKey)
                                       \/ \E r \in Rotators : task[v][r].at # "idle"
  /\ s \in Rotators /\ t.at # "idle" => task[u][s].at # "idle" \/ cmeta[u] > 0
\* A step that takes no key from who has won it.
Holds(u, s, t) ==
  /\ epoch > 0 => epoch' > 0
  /\ \A v \in Users, x \in Epochs : Had(keys[v], x) => Had(keys'[v], x)
  /\ s \in Rotators /\ t.at \in HasWon => (task[u][s].at \in HasWon /\ t.e = task[u][s].e) \/ keys'[u][t.e] # NoKey
  /\ s \in Rotators /\ t.at # "idle" => epoch' > 0

LEMMA Turned ==
  ASSUME Tasks, NEW u \in Users, NEW s \in Slots, NEW t, Turns(u, s, t)
  PROVE  task'[u][s] = t /\ \A v \in Users, r \in Slots : v # u \/ r # s => task'[v][r] = task[v][r]
BY DEF Tasks, Turns, SetTask

LEMMA HeldOn ==
  ASSUME KInv, KeyKept, NEW u \in Users, NEW s \in Slots, NEW t, Turns(u, s, t), Holds(u, s, t)
  PROVE  KeyKept'
<1>1. task'[u][s] = t /\ \A v \in Users, r \in Slots : v # u \/ r # s => task'[v][r] = task[v][r]
  BY Turned DEF KInv
<1>2. Rotators \subseteq Slots
  BY DEF Slots
<1>3. ASSUME NEW v \in Users, NEW r \in Rotators, task'[v][r].at \in HasWon
      PROVE  Had(keys'[v], task'[v][r].e)
  <2>1. ASSUME task[v][r].at \in HasWon PROVE Had(keys'[v], task[v][r].e)
    <3>1. Fits(v, r, task[v][r]) /\ epoch \in 0..MaxEpoch /\ MaxEpoch \in Nat
      BY <1>2, Parameters DEF KInv, Tasks, Server
    <3>2. task[v][r].e \in 2..epoch
      BY <2>1, <3>1 DEF Fits, HasWon
    <3>3. task[v][r].e \in Epochs /\ Had(keys[v], task[v][r].e)
      BY <2>1, <3>1, <3>2 DEF KeyKept, Epochs
    <3> QED BY <3>3 DEF Holds
  <2>2. CASE v = u /\ r = s
    <3>1. CASE task[u][s].at \in HasWon /\ t.e = task[u][s].e
      BY <1>1, <2>1, <2>2, <3>1
    <3>2. CASE keys'[u][t.e] # NoKey
      BY <1>1, <2>2, <3>2 DEF Had
    <3> QED BY <1>1, <1>3, <2>2, <3>1, <3>2 DEF Holds
  <2>3. CASE ~(v = u /\ r = s)
    <3>1. task'[v][r] = task[v][r]
      BY <1>1, <1>2, <2>3
    <3> QED BY <1>3, <2>1, <3>1
  <2> QED BY <2>2, <2>3
<1>4. ASSUME NEW v \in Users, NEW r \in Rotators, task'[v][r].at # "idle"
      PROVE  epoch' > 0
  <2>1. CASE v = u /\ r = s
    BY <1>1, <1>4, <2>1 DEF Holds
  <2>2. CASE ~(v = u /\ r = s)
    <3>1. task'[v][r] = task[v][r]
      BY <1>1, <1>2, <2>2
    <3> QED BY <1>4, <3>1 DEF Holds, KeyKept
  <2> QED BY <2>1, <2>2
<1> QED BY <1>3, <1>4 DEF KeyKept

\* Who counts on a fetch goes on to do so.
LEMMA ServedOn ==
  ASSUME KInv, Settling, NEW u \in Users, NEW s \in Slots, NEW t, Turns(u, s, t), calm' => Heeds(u, s, t)
  PROVE  Settling'
<1>1. task'[u][s] = t /\ \A v \in Users, r \in Slots : v # u \/ r # s => task'[v][r] = task[v][r]
  BY Turned DEF KInv
<1>2. Rotators \subseteq Slots
  BY DEF Slots
<1> SUFFICES ASSUME calm'
             PROVE  /\ \A v \in published' : Ready(v)'
                    /\ \A v \in Users, x \in Epochs : Bare(v, x)' => Provided(v, x)'
  BY DEF Settling
<1>0. Heeds(u, s, t) /\ calm
  BY DEF Heeds
<1>3. \A v \in published' : Ready(v)'
  BY <1>0 DEF Heeds, Settling, KInv, Plain, Ready
<1>4. ASSUME NEW v \in Users, NEW x \in Epochs, Bare(v, x)'
      PROVE  Provided(v, x)'
  <2>1. CASE Provided(v, x)'
    BY <2>1
  <2>2. CASE Bare(v, x)
    <3>1. Ready(v) /\ (Coming(v) \/ (x = 1 /\ Unaware(v)))
      BY <1>0, <2>2 DEF Settling, Provided
    <3>2. Ready(v)'
      BY <1>0, <3>1 DEF Heeds, Ready
    <3>3. ASSUME NEW r \in Slots, At(v, r, "get") PROVE Coming(v)'
      <4>1. CASE v = u /\ r = s
        <5>1. t.at = "get"
          BY <1>0, <1>4, <3>3, <4>1 DEF Heeds, At, Bare
        <5> QED BY <1>1, <4>1, <5>1 DEF Coming, At
      <4>2. CASE ~(v = u /\ r = s)
        <5>1. task'[v][r] = task[v][r]
          BY <1>1, <4>2
        <5> QED BY <3>3, <5>1 DEF Coming, At
      <4> QED BY <4>1, <4>2
    <3>4. ASSUME notices[v] # <<>> PROVE Coming(v)'
      <4>1. notices'[v] # <<>> \/ (v = u /\ task'[v][s].at = "get")
        BY <1>0, <1>1, <3>4 DEF Heeds
      <4> QED BY <4>1 DEF Coming, At
    <3>5. ASSUME NEW w \in Users, NEW r \in Rotators, At(w, r, "share") PROVE Coming(v)'
      <4>1. CASE w = u /\ r = s
        <5>1. t.at = "share" \/ notices'[v] # <<>>
          BY <1>0, <3>1, <3>5, <4>1 DEF Heeds, At
        <5> QED BY <1>1, <3>5, <4>1, <5>1 DEF Coming, At
      <4>2. CASE ~(w = u /\ r = s)
        <5>1. task'[w][r] = task[w][r]
          BY <1>1, <1>2, <4>2
        <5> QED BY <3>5, <5>1 DEF Coming, At
      <4> QED BY <4>1, <4>2
    <3>6. ASSUME x = 1, Unaware(v) PROVE Coming(v)' \/ Unaware(v)'
      <4>1. cmeta[v] <= 0 /\ \A r \in Rotators : task[v][r].at = "idle"
        BY <3>6 DEF Unaware, At
      <4>2. CASE t.at = "get" /\ v = u
        BY <1>1, <4>2 DEF Coming, At
      <4>3. CASE ~(t.at = "get" /\ v = u)
        <5>1. keys'[v][1] = NoKey
          BY <1>4, <3>6 DEF Bare, Had
        <5>2. cmeta'[v] <= 0
          BY <1>0, <3>1, <4>1, <4>3, <5>1 DEF Heeds
        <5>3. ASSUME NEW r \in Rotators PROVE task'[v][r].at = "idle"
          <6>1. CASE v = u /\ r = s
            <7>1. cmeta[u] \in Unset..MaxEpoch /\ ~(cmeta[u] > 0)
              BY <4>1, <6>1, Parameters DEF KInv, Beliefs, Unset
            <7>2. t.at = "idle"
              BY <1>0, <4>1, <6>1, <7>1 DEF Heeds
            <7> QED BY <1>1, <6>1, <7>2
          <6>2. CASE ~(v = u /\ r = s)
            BY <1>1, <1>2, <4>1, <6>2
          <6> QED BY <6>1, <6>2
        <5> QED BY <5>2, <5>3 DEF Unaware, At
      <4> QED BY <4>2, <4>3
    <3> QED BY <3>1, <3>2, <3>3, <3>4, <3>5, <3>6 DEF Coming, Provided
  <2> QED BY <1>0, <1>4, <2>1, <2>2 DEF Heeds
<1> QED BY <1>3, <1>4
\* After a failure or a reload it is not calm.
LEMMA Calms ==
  /\ \A o : Ends(o) => (calm' => calm /\ o = "answered")
  /\ \A kind : Spend(kind) => (calm' => calm /\ kind \notin {"failure", "reload"})
BY DEF Ends, Spend, bounds

\* A chain goes on and neither fetches, announces, nor begins where the room is not known.
LEMMA OneTurn ==
  ASSUME KInv, SettleInv, NEW u \in Users, NEW s \in Slots, NEW t, Turns(u, s, t),
         UNCHANGED <<wrapped, keys, belated, notices, published, phase, cmeta>>, calm' => calm, epoch > 0 => epoch' > 0,
         task[u][s].at = "get" => t.at = "get",
         s \in Rotators => /\ task[u][s].at = "share" => t.at = "share"
                           /\ t.at # "idle" => task[u][s].at # "idle" \/ cmeta[u] > 0
                           /\ t.at \in HasWon => task[u][s].at \in HasWon /\ t.e = task[u][s].e
  PROVE  SettleInv'
<1>1. s \in Rotators /\ t.at # "idle" => epoch > 0
  <2> SUFFICES ASSUME s \in Rotators, t.at # "idle" PROVE epoch > 0
    OBVIOUS
  <2>1. CASE task[u][s].at # "idle"
    BY <2>1 DEF SettleInv, KeyKept
  <2>2. CASE cmeta[u] > 0
    <3>1. cmeta[u] <= epoch /\ cmeta[u] \in Int /\ epoch \in Int
      BY Parameters DEF KInv, Beliefs, Server, Unset
    <3> QED BY <2>2, <3>1
  <2> QED BY <2>1, <2>2
<1>2. Holds(u, s, t)
  BY <1>1 DEF Holds
<1>3. calm' => Heeds(u, s, t)
  BY DEF Heeds, Ready, Bare
<1> QED BY <1>2, <1>3, HeldOn, ServedOn DEF SettleInv

\* No chain goes on, and nobody who counts on a fetch is disturbed.
LEMMA NoTurn ==
  ASSUME KInv, SettleInv, UNCHANGED <<wrapped, keys, belated, notices, task, epoch>>, calm' => calm,
         \A v \in Users : cmeta[v] <= 0 => cmeta'[v] <= 0 \/ ~Ready(v),
         \A v \in Users : Ready(v) => Ready(v)', \A v \in published' : v \in published \/ Ready(v)'
  PROVE  SettleInv'
<1>1. CASE Users = {}
  BY <1>1 DEF SettleInv, Settling, KeyKept, KInv, Plain
<1>2. CASE Users # {}
  <2>1. PICK u \in Users : TRUE
    BY <1>2
  <2>2. PICK s \in Slots : s \notin Rotators
    BY DEF Slots, Rotators
  <2> DEFINE t == task[u][s]
  <2>3. Turns(u, s, t)
    BY DEF Turns, KInv, Tasks
  <2>4. Holds(u, s, t)
    BY <2>2 DEF Holds
  <2>5. calm' => Heeds(u, s, t)
    BY <2>2 DEF Heeds, Bare
  <2> HIDE DEF t
  <2> QED BY <2>3, <2>4, <2>5, HeldOn, ServedOn DEF SettleInv
<1> QED BY <1>1, <1>2

\* The types of what a chain may go on with.
LEMMA Stage ==
  ASSUME KInv, NEW u \in Users, NEW s \in Slots
  PROVE  /\ task[u][s] \in Task
         /\ Stop(u, s) => Turns(u, s, Idle)
         /\ \A stage \in Stages :
              /\ Go(u, s, stage) => Turns(u, s, [task[u][s] EXCEPT !.at = stage])
              /\ [task[u][s] EXCEPT !.at = stage].at = stage
              /\ [task[u][s] EXCEPT !.at = stage].e = task[u][s].e
              /\ Restart(u, s, stage) => Turns(u, s, [Idle EXCEPT !.at = stage])
              /\ [Idle EXCEPT !.at = stage].at = stage
         /\ Idle.at = "idle"
<1>1. task[u][s] \in Task
  BY DEF KInv, Tasks
<1>2. Idle \in Task /\ Idle.at = "idle" /\ \A stage \in Stages : [Idle EXCEPT !.at = stage] \in Task
  BY IdleFits DEF Idle
<1>3. Stop(u, s) => Turns(u, s, Idle)
  BY <1>2 DEF Stop, Turns
<1>4. ASSUME NEW stage \in Stages
      PROVE  /\ Go(u, s, stage) => Turns(u, s, [task[u][s] EXCEPT !.at = stage])
             /\ [task[u][s] EXCEPT !.at = stage].at = stage
             /\ [task[u][s] EXCEPT !.at = stage].e = task[u][s].e
             /\ Restart(u, s, stage) => Turns(u, s, [Idle EXCEPT !.at = stage])
             /\ [Idle EXCEPT !.at = stage].at = stage
  <2>1. [task[u][s] EXCEPT !.at = stage].at = stage /\ [task[u][s] EXCEPT !.at = stage].e = task[u][s].e
    BY <1>1 DEF Task
  <2>2. Go(u, s, stage) => Turns(u, s, [task[u][s] EXCEPT !.at = stage])
    BY Moved DEF Turns, KInv
  <2>3. Restart(u, s, stage) => Turns(u, s, [Idle EXCEPT !.at = stage])
    BY <1>2 DEF Restart, Turns
  <2>4. [Idle EXCEPT !.at = stage].at = stage
    BY DEF Idle
  <2> QED BY <2>1, <2>2, <2>3, <2>4
<1> QED BY <1>1, <1>2, <1>3, <1>4
\* What the steps below leave alone.
kept == <<wrapped, keys, belated, notices, published, phase, cmeta>>

\* A chain goes to another stage, stops, or starts at one, in such a step.
LEMMA MovesOn ==
  ASSUME KInv, SettleInv, NEW u \in Users, NEW s \in Slots, UNCHANGED kept, calm' => calm, epoch > 0 => epoch' > 0,
         task[u][s].at # "get",
         s \in Rotators => task[u][s].at # "share"
  PROVE  /\ \A stage \in Stages :
              Go(u, s, stage) /\ (s \in Rotators => (stage # "idle" => task[u][s].at # "idle" \/ cmeta[u] > 0)
                                                    /\ (stage \in HasWon => task[u][s].at \in HasWon)) => SettleInv'
         /\ \A stage \in Stages \ HasWon :
              Restart(u, s, stage) /\ (s \in Rotators => task[u][s].at # "idle" \/ cmeta[u] > 0) => SettleInv'
         /\ Stop(u, s) => SettleInv'
<1>0. UNCHANGED <<wrapped, keys, belated, notices, published, phase, cmeta>>
  BY DEF kept
<1>1. ASSUME NEW stage \in Stages, Go(u, s, stage),
             s \in Rotators => (stage # "idle" => task[u][s].at # "idle" \/ cmeta[u] > 0)
                               /\ (stage \in HasWon => task[u][s].at \in HasWon)
      PROVE  SettleInv'
  <2> DEFINE t == [task[u][s] EXCEPT !.at = stage]
  <2>1. Turns(u, s, t) /\ t.at = stage /\ t.e = task[u][s].e
    BY <1>1, Stage, ZenonT(40)
  <2> HIDE DEF t
  <2> QED BY <1>0, <1>1, <2>1, OneTurn
<1>2. ASSUME NEW stage \in Stages \ HasWon, Restart(u, s, stage), s \in Rotators => task[u][s].at # "idle" \/ cmeta[u] > 0
      PROVE  SettleInv'
  <2> DEFINE t == [Idle EXCEPT !.at = stage]
  <2>1. Turns(u, s, t) /\ t.at = stage
    BY <1>2, Stage
  <2> HIDE DEF t
  <2> QED BY <1>0, <1>2, <2>1, OneTurn
<1>3. ASSUME Stop(u, s) PROVE SettleInv'
  <2>1. Turns(u, s, Idle) /\ Idle.at = "idle"
    BY <1>3, Stage
  <2>2. Idle.at \notin HasWon
    BY <2>1 DEF HasWon
  <2> QED BY <1>0, <2>1, <2>2, OneTurn
<1> QED BY <1>1, <1>2, <1>3

\* Such a step without a chain.
LEMMA StandsStill ==
  ASSUME KInv, SettleInv, UNCHANGED kept, UNCHANGED <<task, epoch>>, calm' => calm
  PROVE  SettleInv'
<1>1. UNCHANGED <<wrapped, keys, belated, notices, task, epoch>> /\ UNCHANGED <<published, phase, cmeta>>
  BY DEF kept
<1>2. \A v \in Users : Ready(v) => Ready(v)'
  BY <1>1 DEF Ready
<1> QED BY <1>1, <1>2, NoTurn

\* The first look at the room, and the steps of enabling before the put.
LEMMA MetaAskSettles ==
  ASSUME KInv, SettleInv, NEW u \in Users, MetaAsk(u)
  PROVE  SettleInv'
<1>1. UNCHANGED kept /\ epoch' = epoch /\ task[u]["meta"].at = "idle"
  BY DEF MetaAsk, kept, server, net, At
<1>2. "meta" \in Slots /\ "meta" \notin Rotators
  BY DEF Slots, Rotators
<1>3. PICK o \in {"answered", "lost", "refused"}, e \in {epoch, Off} :
         Ends(o) /\ (UNCHANGED task \/ SetTask(u, "meta", [Idle EXCEPT !.at = "meta", !.e = e]))
  <2>1. PICK o \in {"answered", "lost", "refused"} :
           /\ Ends(o)
           /\ \/ UNCHANGED task
              \/ SetTask(u, "meta", [Idle EXCEPT !.at = "meta", !.e = IF o = "answered" THEN epoch ELSE Off])
    BY DEF MetaAsk
  <2>2. CASE o = "answered"
    BY <2>1, <2>2
  <2>3. CASE o # "answered"
    BY <2>1, <2>3
  <2> QED BY <2>2, <2>3
<1>4. calm' => calm
  BY <1>3, Calms
<1>5. CASE UNCHANGED task
  BY <1>1, <1>4, <1>5, StandsStill
<1>6. CASE SetTask(u, "meta", [Idle EXCEPT !.at = "meta", !.e = e])
  <2> DEFINE t == [Idle EXCEPT !.at = "meta", !.e = e]
  <2>1. t \in Task
    <3>1. epoch \in 0..MaxEpoch /\ e \in 0..MaxEpoch
      BY Parameters DEF KInv, Server, Off
    <3> QED BY <3>1, Begun DEF Stages
  <2>2. Turns(u, "meta", t)
    BY <1>6, <2>1 DEF Turns
  <2> HIDE DEF t
  <2> QED BY <1>1, <1>2, <1>4, <2>2, OneTurn DEF kept
<1> QED BY <1>3, <1>5, <1>6

LEMMA EnableSettles ==
  ASSUME KInv, SettleInv, NEW u \in Users, Enable(u)
  PROVE  SettleInv'
<1> DEFINE t == [Idle EXCEPT !.at = "raw", !.e = 1, !.tag = left.enable]
<1>1. UNCHANGED kept /\ epoch' = epoch /\ task[u]["enable"].at = "idle" /\ Spend("enable") /\ SetTask(u, "enable", t)
  BY DEF Enable, kept, server, net, At
<1>2. "enable" \in Slots /\ "enable" \notin Rotators
  BY DEF Slots, Rotators
<1>3. calm' => calm
  BY <1>1, Calms
<1>4. t \in Task
  <2>1. "enable" \in Kinds /\ 1 \in 0..MaxEpoch
    BY Parameters DEF Kinds
  <2> QED BY <2>1 DEF Idle, Task, Stages, KInv, Plain
<1>5. Turns(u, "enable", t)
  BY <1>1, <1>4 DEF Turns
<1> HIDE DEF t
<1> QED BY <1>1, <1>2, <1>3, <1>5, OneTurn DEF kept

LEMMA RawPubSettles ==
  ASSUME KInv, SettleInv, NEW u \in Users, NEW s \in Slots, RawPub(u, s)
  PROVE  SettleInv'
<1>1. UNCHANGED kept /\ epoch' = epoch /\ task[u][s].at = "raw"
  BY DEF RawPub, kept, net, At
<1>2. PICK o : Ends(o) /\ (Go(u, s, "members") \/ Stop(u, s))
  BY DEF RawPub
<1>3. calm' => calm
  BY <1>2, Calms
<1>4. "members" \in Stages /\ "raw" \in HasWon
  BY DEF Stages, HasWon
<1> QED BY <1>1, <1>2, <1>3, <1>4, MovesOn

LEMMA MembersSettles ==
  ASSUME KInv, SettleInv, NEW u \in Users, NEW s \in Slots, Members(u, s)
  PROVE  SettleInv'
<1> DEFINE t == [task[u][s] EXCEPT !.at = "share", !.todo = member, !.ok = (s = "enable" /\ member = {})]
<1>1. UNCHANGED kept /\ epoch' = epoch /\ task[u][s].at = "members"
  BY DEF Members, kept, server, net, At
<1>2. PICK o : Ends(o) /\ (SetTask(u, s, t) \/ Stop(u, s))
  BY DEF Members
<1>3. calm' => calm
  BY <1>2, Calms
<1>4. CASE Stop(u, s)
  BY <1>1, <1>3, <1>4, MovesOn
<1>5. CASE SetTask(u, s, t)
  <2>1. task[u][s] \in Task /\ member \subseteq Users
    BY DEF KInv, Tasks, Plain
  <2>2. t \in Task /\ t.at = "share" /\ t.e = task[u][s].e
    BY <2>1 DEF Task, Stages
  <2>3. Turns(u, s, t)
    BY <1>5, <2>2 DEF Turns
  <2> HIDE DEF t
  <2>4. t.at \in HasWon /\ task[u][s].at \in HasWon
    BY <1>1, <2>2 DEF HasWon
  <2> QED BY <1>1, <1>3, <2>2, <2>3, <2>4, OneTurn DEF kept
<1> QED BY <1>2, <1>4, <1>5

LEMMA NobodySharedSettles ==
  ASSUME KInv, SettleInv, NEW u \in Users, NobodyShared(u)
  PROVE  SettleInv'
<1>1. UNCHANGED kept /\ UNCHANGED <<epoch, calm>> /\ task[u]["enable"].at = "share" /\ Stop(u, "enable")
  BY DEF NobodyShared, kept, server, net, At, bounds
<1>2. "enable" \in Slots /\ "enable" \notin Rotators
  BY DEF Slots, Rotators
<1> QED BY <1>1, <1>2, MovesOn

LEMMA PutSettles ==
  ASSUME KInv, SettleInv, NEW u \in Users, Put(u)
  PROVE  SettleInv'
<1>1. UNCHANGED kept /\ (epoch' = epoch \/ epoch' = 1) /\ task[u]["enable"].at = "share"
  BY DEF Put, kept, net, At
<1>2. "enable" \in Slots /\ "enable" \notin Rotators /\ "done" \in Stages
  BY DEF Slots, Rotators, Stages
<1>3. PICK o : Ends(o) /\ (Go(u, "enable", "done") \/ Stop(u, "enable"))
  BY DEF Put
<1>4. calm' => calm
  BY <1>3, Calms
<1> QED BY <1>1, <1>2, <1>3, <1>4, MovesOn

\* The steps of a rotation before there is a winner, and of its loser.
LEMMA TakeChangeSettles ==
  ASSUME KInv, SettleInv, NEW u \in Users, TakeChange(u) \/ TimerFires(u)
  PROVE  SettleInv'
<1>1. UNCHANGED kept /\ epoch' = epoch
  BY DEF TakeChange, TimerFires, kept, server, net
<1>2. PICK s \in Rotators : task[u][s].at = "idle" /\ (Rotate(u, s) \/ UNCHANGED task)
  BY DEF TakeChange, TimerFires, Rotators, At
<1>3. calm' => calm
  BY Calms DEF TakeChange, TimerFires, bounds
<1>4. CASE UNCHANGED task
  BY <1>1, <1>3, <1>4, StandsStill
<1>5. CASE Rotate(u, s) /\ cmeta[u] > 0
  <2> DEFINE t == [Idle EXCEPT !.at = "bump", !.e = cmeta[u] + 1]
  <2>1. cmeta[u] < MaxEpoch /\ SetTask(u, s, t)
    BY <1>5 DEF Rotate
  <2>2. t \in Task /\ t.at = "bump"
    <3>1. cmeta[u] \in Unset..MaxEpoch /\ MaxEpoch \in Nat
      BY Parameters DEF KInv, Beliefs
    <3>2. cmeta[u] + 1 \in 0..MaxEpoch
      BY <1>5, <2>1, <3>1 DEF Unset
    <3> QED BY <3>2 DEF Idle, Task, Stages
  <2>3. Turns(u, s, t) /\ s \in Slots
    BY <2>1, <2>2 DEF Turns, Slots
  <2> HIDE DEF t
  <2>4. t.at \notin HasWon
    BY <2>2 DEF HasWon
  <2> QED BY <1>1, <1>2, <1>3, <1>5, <2>2, <2>3, <2>4, OneTurn DEF kept
<1> QED BY <1>2, <1>4, <1>5 DEF Rotate

LEMMA BumpReadSettles ==
  ASSUME KInv, SettleInv, NEW u \in Users, NEW s \in Slots, BumpRead(u, s)
  PROVE  SettleInv'
<1> DEFINE t == [task[u][s] EXCEPT !.at = "write", !.tag = rev]
<1>1. UNCHANGED kept /\ epoch' = epoch /\ task[u][s].at = "bump"
  BY DEF BumpRead, kept, server, net, At
<1>2. PICK o : Ends(o) /\ (Stop(u, s) \/ SetTask(u, s, t) \/ Restart(u, s, "get"))
  BY DEF BumpRead
<1>3. calm' => calm
  BY <1>2, Calms
<1>4. CASE Stop(u, s)
  BY <1>1, <1>3, <1>4, MovesOn
<1>5. CASE Restart(u, s, "get")
  <2>1. "get" \in Stages \ HasWon
    BY DEF Stages, HasWon
  <2> QED BY <1>1, <1>3, <1>5, <2>1, MovesOn
<1>6. CASE SetTask(u, s, t)
  <2>1. task[u][s] \in Task /\ rev \in Nat
    BY DEF KInv, Tasks, Server
  <2>2. t \in Task /\ t.at = "write"
    BY <2>1 DEF Task, Stages
  <2>3. Turns(u, s, t)
    BY <1>6, <2>2 DEF Turns
  <2> HIDE DEF t
  <2>4. t.at \notin HasWon
    BY <2>2 DEF HasWon
  <2> QED BY <1>1, <1>3, <2>2, <2>3, <2>4, OneTurn DEF kept
<1> QED BY <1>2, <1>4, <1>5, <1>6

LEMMA BumpWriteSettles ==
  ASSUME KInv, SettleInv, NEW u \in Users, NEW s \in Slots, BumpWrite(u, s)
  PROVE  SettleInv'
<1> DEFINE t == [task[u][s] EXCEPT !.at = "won", !.tag = 0]
<1>1. UNCHANGED kept /\ task[u][s].at = "write"
  BY DEF BumpWrite, kept, net, At
<1>2. PICK o : Ends(o) /\ (Stop(u, s) \/ SetTask(u, s, t) \/ Restart(u, s, "get"))
  BY DEF BumpWrite
<1>3. calm' => calm
  BY <1>2, Calms
<1>4. epoch > 0 => epoch' > 0
  <2>1. task[u][s] \in Task /\ Fits(u, s, task[u][s])
    BY DEF KInv, Tasks
  <2>2. s \in Rotators
    BY <1>1, <2>1 DEF Fits, Slots, Waiting, Rotators
  <2>3. task[u][s].e \in 2..MaxEpoch
    BY <1>1, <2>1, <2>2 DEF Fits
  <2>4. epoch' = epoch \/ epoch' = task[u][s].e
    BY DEF BumpWrite
  <2> QED BY <2>3, <2>4, Parameters
<1>5. CASE Stop(u, s)
  BY <1>1, <1>3, <1>4, <1>5, MovesOn
<1>6. CASE Restart(u, s, "get")
  <2>1. "get" \in Stages \ HasWon
    BY DEF Stages, HasWon
  <2> QED BY <1>1, <1>3, <1>4, <1>6, <2>1, MovesOn
<1>7. CASE SetTask(u, s, t)
  <2>1. task[u][s] \in Task
    BY DEF KInv, Tasks
  <2>2. t \in Task /\ t.at = "won"
    BY <2>1 DEF Task, Stages
  <2>3. Turns(u, s, t)
    BY <1>7, <2>2 DEF Turns
  <2> HIDE DEF t
  <2>4. t.at \notin HasWon
    BY <2>2 DEF HasWon
  <2> QED BY <1>1, <1>3, <1>4, <2>2, <2>3, <2>4, OneTurn DEF kept
<1> QED BY <1>2, <1>5, <1>6, <1>7

LEMMA RereadSettles ==
  ASSUME KInv, SettleInv, NEW u \in Users, NEW s \in Slots, Reread(u, s)
  PROVE  SettleInv'
<1>1. UNCHANGED kept /\ epoch' = epoch /\ task[u][s].at = "reread"
  BY DEF Reread, kept, server, net, At
<1>2. PICK o : Ends(o) /\ (Stop(u, s) \/ \E e \in {epoch, Off} : SetTask(u, s, [Idle EXCEPT !.at = "remeta", !.e = e]))
  BY DEF Reread
<1>3. calm' => calm
  BY <1>2, Calms
<1>4. CASE Stop(u, s)
  BY <1>1, <1>3, <1>4, MovesOn
<1>5. ASSUME NEW e \in {epoch, Off}, SetTask(u, s, [Idle EXCEPT !.at = "remeta", !.e = e])
      PROVE  SettleInv'
  <2> DEFINE t == [Idle EXCEPT !.at = "remeta", !.e = e]
  <2>1. e \in 0..MaxEpoch
    BY Parameters DEF KInv, Server, Off
  <2>2. t \in Task /\ t.at = "remeta"
    BY <2>1 DEF Task, Stages, Idle
  <2>3. Turns(u, s, t)
    BY <1>5, <2>2 DEF Turns
  <2> HIDE DEF t
  <2>4. t.at \notin HasWon
    BY <2>2 DEF HasWon
  <2> QED BY <1>1, <1>3, <2>2, <2>3, <2>4, OneTurn DEF kept
<1> QED BY <1>2, <1>4, <1>5

LEMMA DecryptSettles ==
  ASSUME KInv, SettleInv, NEW u \in Users, Decrypt(u)
  PROVE  SettleInv'
<1>1. UNCHANGED kept /\ epoch' = epoch /\ task[u]["decrypt"].at = "idle" /\ Spend("decrypt") /\ Go(u, "decrypt", "get")
  BY DEF Decrypt, kept, server, net, At
<1>2. "decrypt" \in Slots /\ "decrypt" \notin Rotators /\ "get" \in Stages
  BY DEF Slots, Rotators, Stages
<1>3. calm' => calm
  BY <1>1, Calms
<1> QED BY <1>1, <1>2, <1>3, MovesOn

\* Asking the others.
LEMMA AnswerTakeSettles ==
  ASSUME KInv, SettleInv, NEW u \in Users, NEW s \in Slots, NEW v \in Users, AnswerTake(v, u, s)
  PROVE  SettleInv'
<1> DEFINE t == [task[u][s] EXCEPT !.todo = @ \ {v}]
<1>1. UNCHANGED kept /\ epoch' = epoch /\ task[u][s].at = "ask" /\ calm' = calm
  BY DEF AnswerTake, kept, server, net, At, bounds
<1>2. task' = [task EXCEPT ![u][s].todo = @ \ {v}]
  BY DEF AnswerTake
<1>3. task[u][s] \in Task
  BY DEF KInv, Tasks
<1>4. t \in Task /\ t.at = "ask"
  BY <1>1, <1>3 DEF Task
<1>5. Turns(u, s, t)
  BY <1>2, <1>4 DEF Turns, SetTask
<1> HIDE DEF t
<1>6. t.at \notin HasWon
  BY <1>4 DEF HasWon
<1> QED BY <1>1, <1>4, <1>5, <1>6, OneTurn DEF kept

LEMMA FetchEnded ==
  ASSUME KInv, SettleInv, NEW u \in Users, NEW s \in Slots, FetchEnds(u, s), UNCHANGED kept, epoch' = epoch, calm' => calm,
         task[u][s].at = "ask"
  PROVE  SettleInv'
<1>1. Go(u, s, "reread") \/ Stop(u, s)
  BY DEF FetchEnds
<1>2. "reread" \in Stages \ HasWon
  BY DEF Stages, HasWon
<1> QED BY <1>1, <1>2, MovesOn

LEMMA AskTimeoutSettles ==
  ASSUME KInv, SettleInv, NEW u \in Users, NEW s \in Slots, AskTimeout(u, s)
  PROVE  SettleInv'
<1>1. UNCHANGED kept /\ epoch' = epoch /\ task[u][s].at = "ask" /\ FetchEnds(u, s)
  BY DEF AskTimeout, kept, server, net, At
<1>2. calm' => calm
  <2>1. UNCHANGED bounds \/ Spend("failure")
    BY DEF AskTimeout
  <2> QED BY <2>1, Calms DEF bounds
<1> QED BY <1>1, <1>2, FetchEnded

\* Members and connections come and go.
LEMMA OthersSettle ==
  ASSUME KInv, SettleInv, NEW u \in Users,
         TakeStored(u) \/ Join(u) \/ Leave(u) \/ Online(u) \/ LoadIdentity(u) \/ PublishIdentity(u)
  PROVE  SettleInv'
<1>1. UNCHANGED <<wrapped, keys, belated, notices, task, epoch>>
  BY DEF TakeStored, Join, Leave, Online, LoadIdentity, PublishIdentity, Enter, server, net
<1>2. calm' => calm
  BY Calms DEF TakeStored, Join, Leave, Online, LoadIdentity, PublishIdentity, Enter, bounds
<1>3. \A v \in Users : cmeta[v] <= 0 => cmeta'[v] <= 0
  <2>1. cmeta \in [Users -> Unset..MaxEpoch]
    BY DEF KInv, Beliefs
  <2>2. CASE TakeStored(u)
    <3>1. cmeta' = [cmeta EXCEPT ![u] = IF @ > 0 /\ heard[u] > @ THEN heard[u] ELSE @]
      BY <2>2 DEF TakeStored
    <3> QED BY <2>1, <3>1 DEF Unset
  <2>3. CASE ~TakeStored(u)
    <3>1. cmeta' = cmeta
      BY <2>3 DEF Join, Leave, Online, LoadIdentity, PublishIdentity, Enter
    <3> QED BY <3>1
  <2> QED BY <2>2, <2>3
<1>4. \A v \in Users : Ready(v) => Ready(v)'
  BY DEF KInv, Plain, Ready, TakeStored, Join, Leave, Online, LoadIdentity, PublishIdentity, Enter
<1>5. \A v \in published' : v \in published \/ Ready(v)'
  BY DEF KInv, Plain, Ready, TakeStored, Join, Leave, Online, LoadIdentity, PublishIdentity, Enter, server
<1> QED BY <1>1, <1>2, <1>3, <1>4, <1>5, NoTurn
\* A ring loses nothing when keys are stored.
LEMMA RingsGrow ==
  ASSUME KInv, NEW u \in Users, NEW given \in KeyRing, StoreKeys(u, given)
  PROVE  /\ \A v \in Users, x \in Epochs : Had(keys[v], x) => Had(keys'[v], x)
         /\ \A x \in Epochs : keys[u][x] # NoKey \/ given[x] # NoKey => keys'[u][x] # NoKey
<1>1. /\ \A v \in Users \ {u} : keys'[v] = keys[v]
      /\ \A x \in Epochs : keys'[u][x] = IF given[x] # NoKey THEN given[x] ELSE keys[u][x]
  BY Stored DEF KInv
<1>2. \A x \in Epochs : keys[u][x] # NoKey \/ given[x] # NoKey => keys'[u][x] # NoKey
  BY <1>1
<1>3. ASSUME NEW v \in Users, NEW x \in Epochs, Had(keys[v], x) PROVE Had(keys'[v], x)
  <2>1. CASE v = u
    BY <1>2, <1>3, <2>1 DEF Had
  <2>2. CASE v # u
    BY <1>1, <1>3, <2>2
  <2> QED BY <2>1, <2>2
<1> QED BY <1>2, <1>3

\* Nor when the old ones are pruned, for who has, or had, the key of the new epoch.
LEMMA PruneKeeps ==
  ASSUME NEW ring \in KeyRing, NEW e \in Epochs, NEW x \in Epochs, Had(ring, e), Had(ring, x)
  PROVE  Had(Pruned(ring, e), x)
<1>1. \A y \in Epochs : y >= e - Keep /\ ring[y] # NoKey => Pruned(ring, e)[y] # NoKey
  BY Parameters DEF Pruned, Epochs
<1>2. \E y \in Epochs : y >= e /\ ring[y] # NoKey
  BY Parameters DEF Had, Epochs
<1>3. PICK y \in Epochs : y >= e /\ ring[y] # NoKey
  BY <1>2
<1>4. Pruned(ring, e)[y] # NoKey
  BY <1>1, <1>3, Parameters DEF Epochs
<1>5. CASE ring[x] # NoKey
  <2>1. CASE x >= e - Keep
    BY <1>1, <1>5, <2>1 DEF Had
  <2>2. CASE ~(x >= e - Keep)
    <3>1. y > x + Keep
      BY <1>3, <2>2, Parameters DEF Epochs
    <3> QED BY <1>4, <3>1 DEF Had
  <2> QED BY <2>1, <2>2
<1>6. CASE \E z \in Epochs : z > x + Keep /\ ring[z] # NoKey
  <2>1. PICK z \in Epochs : z > x + Keep /\ ring[z] # NoKey
    BY <1>6
  <2>2. CASE z >= e - Keep
    BY <1>1, <2>1, <2>2 DEF Had
  <2>3. CASE ~(z >= e - Keep)
    <3>1. y > x + Keep
      BY <1>3, <2>1, <2>3, Parameters DEF Epochs
    <3> QED BY <1>4, <3>1 DEF Had
  <2> QED BY <2>2, <2>3
<1> QED BY <1>5, <1>6 DEF Had

\* What the first look at the room says: it then fetches, or is not ready yet.
LEMMA MetaSetSettles ==
  ASSUME KInv, SettleInv, NEW u \in Users, MetaSet(u)
  PROVE  SettleInv'
<1> DEFINE e == task[u]["meta"].e
           t == IF e > 0 /\ HasIdentity(u) THEN [Idle EXCEPT !.at = "get"] ELSE Idle
<1>1. UNCHANGED <<wrapped, keys, belated, notices, published, phase, epoch, calm>> /\ task[u]["meta"].at = "meta"
  BY DEF MetaSet, server, net, At, bounds
<1>2. cmeta' = [cmeta EXCEPT ![u] = e]
  BY DEF MetaSet
<1>3. "meta" \in Slots /\ "meta" \notin Rotators /\ "get" \in Stages
  BY DEF Slots, Rotators, Stages
<1>4. Turns(u, "meta", t)
  <2>1. CASE e > 0 /\ HasIdentity(u)
    BY <1>3, <2>1, Stage DEF MetaSet
  <2>2. CASE ~(e > 0 /\ HasIdentity(u))
    BY <1>3, <2>2, Stage DEF MetaSet
  <2> QED BY <2>1, <2>2
<1>5. e > 0 /\ HasIdentity(u) => t.at = "get"
  BY <1>3, Stage
<1>6. e \in 0..MaxEpoch
  BY <1>3 DEF KInv, Tasks, Task
<1> HIDE DEF e, t
<1>7. ASSUME NEW v \in Users, cmeta[v] <= 0 PROVE cmeta'[v] <= 0 \/ ~Ready(v) \/ (v = u /\ t.at = "get")
  BY <1>2, <1>5, <1>6, <1>7, Parameters DEF KInv, Beliefs, Ready, HasIdentity
<1>8. Holds(u, "meta", t)
  BY <1>1, <1>3 DEF Holds
<1>9. calm' => Heeds(u, "meta", t)
  BY <1>1, <1>3, <1>7 DEF Heeds, Ready, Bare
<1> QED BY <1>1, <1>3, <1>4, <1>8, <1>9, HeldOn, ServedOn DEF SettleInv

\* Who has enabled stores its key with the epoch.
LEMMA EnabledSettles ==
  ASSUME KInv, SettleInv, MaxEnables = 1, NEW u \in Users, Enabled(u)
  PROVE  SettleInv'
<1> DEFINE given == [Empty EXCEPT ![1] = KeyOf(u, "enable")]
<1>1. /\ UNCHANGED <<wrapped, belated, notices, published, phase, epoch, calm>> /\ task[u]["enable"].at = "done"
      /\ StoreKeys(u, given) /\ Stop(u, "enable") /\ cmeta' = [cmeta EXCEPT ![u] = 1]
  BY DEF Enabled, server, net, At, bounds
<1>2. "enable" \in Slots /\ "enable" \notin Rotators
  BY DEF Slots, Rotators
<1>3. task[u]["enable"].e \in Epochs /\ task[u]["enable"].e = 1 /\ KeyOf(u, "enable") = First /\ KeyOf(u, "enable") \in Keys
  BY <1>1, <1>2, KeyIsRight
<1>4. First \in Claimants /\ First # NoKey
  BY Parameters DEF First, Claimants
<1>5. given \in KeyRing /\ given[1] # NoKey
  BY <1>3, <1>4 DEF Empty, KeyRing, Keys
<1> HIDE DEF given
<1>6. /\ \A v \in Users, x \in Epochs : Had(keys[v], x) => Had(keys'[v], x)
      /\ keys'[u][1] # NoKey
  BY <1>1, <1>3, <1>5, RingsGrow
<1>7. Turns(u, "enable", Idle) /\ Idle.at = "idle"
  BY <1>1, <1>2, Stage
<1>8. Holds(u, "enable", Idle)
  BY <1>1, <1>2, <1>6 DEF Holds
<1>9. \A v \in Users : cmeta[v] <= 0 => cmeta'[v] <= 0 \/ v = u
  BY <1>1 DEF KInv, Beliefs
<1>10. calm' => Heeds(u, "enable", Idle)
  BY <1>1, <1>2, <1>6, <1>9 DEF Heeds, Ready, Bare
<1> QED BY <1>1, <1>2, <1>7, <1>8, <1>10, HeldOn, ServedOn DEF SettleInv

\* The winner stores its key.
LEMMA WonSettles ==
  ASSUME KInv, SettleInv, MaxEnables = 1, NEW u \in Users, NEW s \in Slots, Won(u, s)
  PROVE  SettleInv'
<1> DEFINE e == task[u][s].e
           given == [Empty EXCEPT ![e] = KeyOf(u, s)]
           t == [task[u][s] EXCEPT !.at = "raw"]
<1>1. /\ UNCHANGED <<wrapped, belated, notices, published, phase, epoch, calm>> /\ task[u][s].at = "won"
      /\ StoreKeys(u, given) /\ Go(u, s, "raw") /\ cmeta' = [cmeta EXCEPT ![u] = IF @ > 0 THEN e ELSE @]
  BY DEF Won, server, net, At, bounds
<1>2. "raw" \in Stages
  BY DEF Stages
<1>3. s # "enable"
  <2>1. Fits(u, s, task[u][s])
    BY DEF KInv, Tasks
  <2> QED BY <1>1, <2>1 DEF Fits
<1>4. e \in Epochs /\ KeyOf(u, s) \in Keys /\ s \in Rotators
  BY <1>1, <1>3, KeyIsRight
<1>5. KeyOf(u, s) # NoKey
  BY <1>3, <1>4, Parameters DEF KeyOf, Claimants
<1>6. given \in KeyRing /\ given[e] # NoKey
  BY <1>4, <1>5 DEF Empty, KeyRing, Keys
<1>7. Turns(u, s, t) /\ t.at = "raw" /\ t.e = e
  <2>1. Go(u, s, "raw")
    BY <1>1
  <2>2. Turns(u, s, t)
    BY <1>2, <2>1, Stage
  <2>3. task[u][s] \in Task
    BY Stage
  <2>4. t.at = "raw" /\ t.e = task[u][s].e
    BY <2>3 DEF Task
  <2> QED BY <2>2, <2>4
<1> HIDE DEF given, t, e
<1>8. /\ \A v \in Users, x \in Epochs : Had(keys[v], x) => Had(keys'[v], x)
      /\ keys'[u][e] # NoKey
  BY <1>1, <1>4, <1>6, RingsGrow
<1>9. epoch > 0
  BY <1>1, <1>4 DEF SettleInv, KeyKept
<1>10. Holds(u, s, t)
  BY <1>1, <1>7, <1>8, <1>9 DEF Holds
<1>11. \A v \in Users : cmeta[v] <= 0 => cmeta'[v] <= 0
  BY <1>1, Parameters DEF KInv, Beliefs, Unset
<1>12. calm' => Heeds(u, s, t)
  BY <1>1, <1>7, <1>8, <1>11 DEF Heeds, Ready, Bare
<1> QED BY <1>1, <1>7, <1>10, <1>12, HeldOn, ServedOn DEF SettleInv

\* The loser takes the epoch it has read.
LEMMA ResetMetaSettles ==
  ASSUME KInv, SettleInv, NEW u \in Users, NEW s \in Slots, ResetMeta(u, s)
  PROVE  SettleInv'
<1>1. /\ UNCHANGED <<wrapped, keys, belated, notices, published, phase, epoch, calm>> /\ task[u][s].at = "remeta"
      /\ Stop(u, s) /\ cmeta' = [cmeta EXCEPT ![u] = task[u][s].e]
  BY DEF ResetMeta, server, net, At, bounds
<1>2. s \in Rotators
  <2>1. Fits(u, s, task[u][s])
    BY DEF KInv, Tasks
  <2> QED BY <1>1, <2>1 DEF Fits, Slots, Waiting
<1>3. Turns(u, s, Idle) /\ Idle.at = "idle"
  BY <1>1, Stage
<1>4. Idle.at \notin HasWon
  BY <1>3 DEF HasWon
<1>5. Holds(u, s, Idle)
  BY <1>1, <1>3, <1>4 DEF Holds
<1>6. \A v \in Users : cmeta[v] <= 0 => cmeta'[v] <= 0 \/ v = u
  BY <1>1 DEF KInv, Beliefs
<1>7. calm' => Heeds(u, s, Idle)
  BY <1>1, <1>2, <1>3, <1>6 DEF Heeds, Ready, Bare
<1> QED BY <1>1, <1>3, <1>5, <1>7, HeldOn, ServedOn DEF SettleInv

\* Who takes a notice fetches.
LEMMA TakeNoticeSettles ==
  ASSUME KInv, SettleInv, NEW u \in Users, TakeNotice(u)
  PROVE  SettleInv'
<1> DEFINE t == [task[u]["notice"] EXCEPT !.at = "get"]
<1>1. /\ UNCHANGED <<wrapped, keys, belated, published, phase, epoch, calm>> /\ task[u]["notice"].at = "idle"
      /\ Go(u, "notice", "get") /\ cmeta' = [cmeta EXCEPT ![u] = IF @ > 0 THEN Head(notices[u]) ELSE @]
      /\ notices' = [notices EXCEPT ![u] = Tail(@)]
  BY DEF TakeNotice, server, At, bounds
<1>2. "notice" \in Slots /\ "notice" \notin Rotators /\ "get" \in Stages
  BY DEF Slots, Rotators, Stages
<1>3. Turns(u, "notice", t) /\ t.at = "get"
  BY <1>1, <1>2, Stage
<1> HIDE DEF t
<1>4. Holds(u, "notice", t)
  BY <1>1, <1>2 DEF Holds
<1>5. \A v \in Users : cmeta[v] <= 0 => cmeta'[v] <= 0
  BY <1>1, Parameters DEF KInv, Beliefs, Unset
<1>6. \A v \in Users : notices[v] # <<>> => notices'[v] # <<>> \/ v = u
  BY <1>1 DEF KInv, Beliefs
<1>7. calm' => Heeds(u, "notice", t)
  BY <1>1, <1>2, <1>3, <1>5, <1>6 DEF Heeds, Ready, Bare
<1> QED BY <1>1, <1>2, <1>3, <1>4, <1>7, HeldOn, ServedOn DEF SettleInv
\* Who announces an epoch tells every client that listens, and prunes.
LEMMA AnnounceSettles ==
  ASSUME KInv, SettleInv, NEW u \in Users, NEW s \in Slots, Announce(u, s)
  PROVE  SettleInv'
<1> DEFINE e == task[u][s].e
<1>1. /\ UNCHANGED <<wrapped, belated, published, phase, cmeta, epoch, calm>> /\ s \in Rotators /\ task[u][s].at = "share"
      /\ notices' = [v \in Users |-> IF Ready(v) THEN Append(notices[v], e) ELSE notices[v]]
      /\ keys' = [keys EXCEPT ![u] = Pruned(@, e)] /\ Stop(u, s)
  BY DEF Announce, server, At, bounds
<1>2. Turns(u, s, Idle) /\ Idle.at = "idle"
  BY <1>1, Stage
<1>3. e \in Epochs /\ Had(keys[u], e)
  <2>1. Fits(u, s, task[u][s]) /\ epoch \in 0..MaxEpoch /\ MaxEpoch \in Nat
    BY Parameters DEF KInv, Tasks, Server
  <2>2. e \in 2..epoch /\ task[u][s].at \in HasWon
    BY <1>1, <2>1 DEF Fits, HasWon
  <2> QED BY <1>1, <2>1, <2>2 DEF SettleInv, KeyKept, Epochs
<1> HIDE DEF e
<1>4. ASSUME NEW v \in Users, NEW x \in Epochs, Had(keys[v], x) PROVE Had(keys'[v], x)
  <2>1. CASE v = u
    <3>1. keys'[u] = Pruned(keys[u], e) /\ keys[u] \in KeyRing
      BY <1>1 DEF KInv, Rings
    <3> QED BY <1>3, <1>4, <2>1, <3>1, PruneKeeps
  <2>2. CASE v # u
    <3>1. keys'[v] = keys[v]
      BY <1>1, <2>2 DEF KInv, Rings
    <3> QED BY <1>4, <3>1
  <2> QED BY <2>1, <2>2
<1>5. \A v \in Users : (Ready(v) => notices'[v] # <<>>) /\ (notices[v] # <<>> => notices'[v] # <<>>)
  <2>1. \A q \in Seq(Epochs) : Append(q, e) # <<>>
    BY <1>3
  <2>2. \A v \in Users : notices[v] \in Seq(Epochs)
    BY DEF KInv, Beliefs
  <2> QED BY <1>1, <2>1, <2>2
<1>6. Holds(u, s, Idle)
  BY <1>1, <1>2, <1>4 DEF Holds, HasWon
<1>7. calm' => Heeds(u, s, Idle)
  BY <1>1, <1>2, <1>4, <1>5 DEF Heeds, Ready, Bare
<1> QED BY <1>1, <1>2, <1>6, <1>7, HeldOn, ServedOn DEF SettleInv

\* Who is given a key by the winner is told of it afterwards.
LEMMA ShareSettles ==
  ASSUME KInv, SettleInv, NEW u \in Users, NEW s \in Slots, NEW m \in Users, Share(u, s, m)
  PROVE  SettleInv'
<1>1. /\ UNCHANGED <<keys, belated, notices, published, phase, cmeta, epoch>> /\ task[u][s].at = "share"
  BY DEF Share, net, At
<1>2. PICK o : /\ Ends(o)
               /\ (m \in published /\ Wrap(m, task[u][s].e, KeyOf(u, s))) \/ UNCHANGED wrapped
               /\ SetTask(u, s, [task[u][s] EXCEPT !.todo = @ \ {m},
                                                   !.ok = @ \/ (s = "enable" /\ o # "lost" /\ m \in published)])
  BY DEF Share
<1> DEFINE c == task[u][s]
           t == [c EXCEPT !.todo = @ \ {m}, !.ok = @ \/ (s = "enable" /\ o # "lost" /\ m \in published)]
<1>3. c \in Task /\ Fits(u, s, c) /\ Rotators \subseteq Slots
  BY DEF KInv, Tasks, Slots
<1>4. calm' => calm
  BY <1>2, Calms
<1>5. t \in Task /\ t.at = "share" /\ t.e = c.e
  BY <1>1, <1>3 DEF Task
<1>6. Turns(u, s, t)
  BY <1>2, <1>5 DEF Turns
<1> HIDE DEF t
<1>7. task'[u][s] = t /\ \A v \in Users, r \in Slots : v # u \/ r # s => task'[v][r] = task[v][r]
  BY <1>6, Turned DEF KInv
<1>8. Holds(u, s, t)
  BY <1>1, <1>5 DEF Holds, HasWon, SettleInv, KeyKept
<1>9. ASSUME calm', NEW v \in Users, NEW x \in Epochs, Bare(v, x)'
      PROVE  Bare(v, x) \/ Provided(v, x)'
  <2>1. CASE wrapped'[v][x] = wrapped[v][x]
    BY <1>1, <1>9, <2>1 DEF Bare
  <2>2. CASE wrapped'[v][x] # wrapped[v][x]
    <3>1. v = m /\ x = c.e /\ m \in published
      BY <1>2, <2>2 DEF Wrap, KInv, Rings, KeyRing
    <3>2. Ready(v)'
      BY <1>1, <1>4, <1>9, <3>1 DEF SettleInv, Settling, Ready
    <3>3. CASE s \in Rotators
      BY <1>5, <1>7, <3>2, <3>3 DEF Provided, Coming, At
    <3>4. CASE s \notin Rotators
      <4>1. s = "enable"
        BY <1>1, <1>3, <3>4 DEF Fits, Slots, Waiting
      <4>2. x = 1 /\ epoch = 0
        BY <1>1, <1>3, <3>1, <4>1 DEF Fits
      <4>3. cmeta'[v] <= 0
        BY <1>1, <4>2 DEF KInv, Beliefs
      <4>4. ASSUME NEW r \in Rotators PROVE task'[v][r].at = "idle"
        <5>1. task[v][r].at = "idle"
          BY <4>2 DEF SettleInv, KeyKept
        <5>2. r # s /\ r \in Slots
          BY <1>3, <3>4
        <5> QED BY <1>7, <5>1, <5>2
      <4> QED BY <3>2, <4>2, <4>3, <4>4 DEF Provided, Unaware, At
    <3> QED BY <3>3, <3>4
  <2> QED BY <2>1, <2>2
<1>10. calm' => Heeds(u, s, t)
  BY <1>1, <1>4, <1>5, <1>9 DEF Heeds, Ready
<1> QED BY <1>1, <1>6, <1>8, <1>10, HeldOn, ServedOn DEF SettleInv
\* A client that is answered has every key that is wrapped for it.
LEMMA FetchKeysSettles ==
  ASSUME KInv, SettleInv, NEW u \in Users, NEW s \in Slots, FetchKeys(u, s)
  PROVE  SettleInv'
<1> DEFINE ask == [task[u][s] EXCEPT !.at = "ask", !.todo = {v \in Users : Ready(v)}]
<1>1. UNCHANGED <<wrapped, belated, notices, published, phase, cmeta, epoch>> /\ task[u][s].at = "get"
  BY DEF FetchKeys, server, net, At
<1>2. PICK o : /\ Ends(o)
               /\ IF o = "answered" THEN StoreKeys(u, Unwrapped(u)) ELSE UNCHANGED <<keys, heard>>
               /\ SetTask(u, s, ask) \/ FetchEnds(u, s)
  BY DEF FetchKeys
<1>3. \E t : Turns(u, s, t) /\ t.at \in {"ask", "reread", "idle"}
  <2>1. CASE SetTask(u, s, ask)
    <3>1. task[u][s] \in Task
      BY DEF KInv, Tasks
    <3>2. ask \in Task /\ ask.at = "ask"
      BY <3>1 DEF Task, Stages
    <3> HIDE DEF ask
    <3> QED BY <2>1, <3>2 DEF Turns
  <2>2. CASE FetchEnds(u, s)
    <3>1. "reread" \in Stages
      BY DEF Stages
    <3>2. Go(u, s, "reread") \/ Stop(u, s)
      BY <2>2 DEF FetchEnds
    <3>3. Go(u, s, "reread") => Turns(u, s, [task[u][s] EXCEPT !.at = "reread"]) /\ [task[u][s] EXCEPT !.at = "reread"].at = "reread"
      BY <3>1, Stage
    <3>4. Stop(u, s) => Turns(u, s, Idle) /\ Idle.at = "idle"
      BY Stage
    <3> QED BY <3>2, <3>3, <3>4
  <2> QED BY <1>2, <2>1, <2>2
<1> HIDE DEF ask
<1>4. PICK t : Turns(u, s, t) /\ t.at \in {"ask", "reread", "idle"}
  BY <1>3
<1>5. Unwrapped(u) \in KeyRing
  BY DEF Unwrapped, KInv, Rings, KeyRing, Keys
<1>6. /\ \A v \in Users, x \in Epochs : Had(keys[v], x) => Had(keys'[v], x)
      /\ o = "answered" => \A x \in Epochs : wrapped[u][x] # NoKey => keys'[u][x] # NoKey
  <2>1. CASE o = "answered"
    <3>1. /\ \A v \in Users, x \in Epochs : Had(keys[v], x) => Had(keys'[v], x)
          /\ \A x \in Epochs : keys[u][x] # NoKey \/ Unwrapped(u)[x] # NoKey => keys'[u][x] # NoKey
      BY <1>2, <1>5, <2>1, RingsGrow
    <3>2. \A x \in Epochs : wrapped[u][x] # NoKey => keys[u][x] # NoKey \/ Unwrapped(u)[x] # NoKey
      BY DEF Unwrapped
    <3> QED BY <3>1, <3>2
  <2>2. CASE o # "answered"
    BY <1>2, <2>2
  <2> QED BY <2>1, <2>2
<1>7. calm' => calm /\ o = "answered"
  BY <1>2, Calms
<1>8. epoch > 0
  BY <1>1 DEF KInv, Tasks, Fits
<1>9. Holds(u, s, t)
  BY <1>1, <1>4, <1>6, <1>8 DEF Holds, HasWon
<1>10. calm' => Heeds(u, s, t)
  <2>1. calm' => \A x \in Epochs : ~Bare(u, x)'
    BY <1>1, <1>6, <1>7 DEF Bare, Had
  <2> QED BY <1>1, <1>4, <1>6, <1>7, <2>1 DEF Heeds, Ready, Bare
<1> QED BY <1>1, <1>4, <1>9, <1>10, HeldOn, ServedOn DEF SettleInv

\* An answer that is taken is kept; a later one is belated if it wraps what was not
\* wrapped before.
LEMMA AnswerSendSettles ==
  ASSUME KInv, SettleInv, NEW v \in Users, AnswerSend(v)
  PROVE  SettleInv'
<1> DEFINE a == ans[v]
           key == keys[v][a.e]
           granted == a.for \in member /\ key # NoKey
           taken == granted /\ At(a.for, a.slot, "ask") /\ v \notin task[a.for][a.slot].todo
           given == [Empty EXCEPT ![a.e] = key]
<1>1. /\ UNCHANGED <<notices, published, phase, cmeta, epoch, calm>> /\ a # NoAnswer
      /\ IF granted /\ v \in member THEN Wrap(a.for, a.e, key) ELSE UNCHANGED wrapped
      /\ belated' = IF granted /\ v \in member /\ ~taken /\ wrapped[a.for][a.e] = NoKey
                      THEN belated \cup {<<a.for, a.e>>} ELSE belated
      /\ IF taken THEN StoreKeys(a.for, given) /\ FetchEnds(a.for, a.slot) ELSE UNCHANGED <<keys, task>>
  BY DEF AnswerSend, net, bounds
<1>2. a \in Answer /\ a.e \in Epochs /\ a.slot \in Slots
  BY <1>1 DEF KInv, Answers, Answer
<1>3. key \in Keys /\ (granted => a.for \in Users)
  BY <1>2 DEF KInv, Rings, KeyRing, Plain
<1>4. given \in KeyRing /\ (key # NoKey => given[a.e] # NoKey)
  <2> HIDE DEF a, key
  <2> QED BY <1>2, <1>3 DEF Empty, KeyRing, Keys
<1>5. belated' \subseteq Users \X Epochs
  BY <1>1, <1>2, <1>3 DEF SettleInv
<1> HIDE DEF a, key
<1>6. \A w \in Users, x \in Epochs :
        wrapped'[w][x] # NoKey => wrapped[w][x] # NoKey \/ (granted /\ v \in member /\ w = a.for /\ x = a.e)
  <2>1. CASE Wrap(a.for, a.e, key)
    BY <1>1, <2>1 DEF Wrap, KInv, Rings, KeyRing
  <2>2. CASE UNCHANGED wrapped
    BY <2>2
  <2> QED BY <1>1, <2>1, <2>2
<1>7. CASE ~taken
  <2>1. PICK s \in Slots : s \notin Rotators
    BY DEF Slots, Rotators
  <2> DEFINE t == task[v][s]
  <2>2. Turns(v, s, t)
    BY <1>1, <1>7 DEF Turns, KInv, Tasks
  <2>3. UNCHANGED <<keys, task>>
    BY <1>1, <1>7
  <2> HIDE DEF t
  <2>4. Holds(v, s, t)
    BY <1>1, <2>1, <2>3 DEF Holds
  <2>5. ASSUME NEW w \in Users, NEW x \in Epochs, Bare(w, x)' PROVE Bare(w, x)
    <3>0. wrapped'[w][x] # NoKey /\ ~Had(keys'[w], x) /\ <<w, x>> \notin belated'
      BY <2>5 DEF Bare
    <3>1. wrapped'[w][x] # NoKey /\ ~Had(keys[w], x) /\ <<w, x>> \notin belated'
      BY <2>3, <3>0
    <3>2. <<w, x>> \notin belated /\ wrapped[w][x] # NoKey
      BY <1>1, <1>6, <1>7, <3>1
    <3> QED BY <3>1, <3>2 DEF Bare
  <2>6. t.at = task[v][s].at
    BY DEF t
  <2>7. calm' => Heeds(v, s, t)
    BY <1>1, <2>1, <2>5, <2>6 DEF Heeds, Ready
  <2> QED BY <1>5, <2>2, <2>4, <2>7, HeldOn, ServedOn DEF SettleInv
<1>8. CASE taken
  <2> DEFINE u == a.for
             s == a.slot
  <2>1. u \in Users /\ s \in Slots /\ key # NoKey /\ task[u][s].at = "ask"
    BY <1>2, <1>3, <1>8 DEF At
  <2>2. StoreKeys(u, given) /\ FetchEnds(u, s) /\ belated' = belated
    BY <1>1, <1>8
  <2>3. given[a.e] # NoKey
    BY <1>4, <2>1
  <2> HIDE DEF u, s, given
  <2>4. /\ \A w \in Users, x \in Epochs : Had(keys[w], x) => Had(keys'[w], x)
        /\ keys'[u][a.e] # NoKey
    BY <1>2, <1>4, <2>1, <2>2, <2>3, RingsGrow
  <2>5. \E t : Turns(u, s, t) /\ t.at \in {"reread", "idle"}
    <3>1. "reread" \in Stages
      BY DEF Stages
    <3>2. Go(u, s, "reread") \/ Stop(u, s)
      BY <2>2 DEF FetchEnds
    <3>3. Go(u, s, "reread") => Turns(u, s, [task[u][s] EXCEPT !.at = "reread"]) /\ [task[u][s] EXCEPT !.at = "reread"].at = "reread"
      BY <2>1, <3>1, Stage, ZenonT(40)
    <3>4. Stop(u, s) => Turns(u, s, Idle) /\ Idle.at = "idle"
      BY <2>1, Stage
    <3> QED BY <3>2, <3>3, <3>4
  <2>6. PICK t : Turns(u, s, t) /\ t.at \in {"reread", "idle"}
    BY <2>5
  <2>7. epoch > 0
    BY <2>1 DEF KInv, Tasks, Fits
  <2>8. Holds(u, s, t)
    BY <1>1, <2>4, <2>6, <2>7 DEF Holds, HasWon
  <2>9. ASSUME NEW w \in Users, NEW x \in Epochs, Bare(w, x)' PROVE Bare(w, x)
    <3>1. wrapped'[w][x] # NoKey /\ ~Had(keys'[w], x) /\ <<w, x>> \notin belated
      BY <2>2, <2>9 DEF Bare
    <3>2. ~(w = u /\ x = a.e)
      BY <2>4, <3>1 DEF Had
    <3>3. wrapped[w][x] # NoKey
      BY <1>6, <3>1, <3>2 DEF u
    <3> QED BY <2>4, <3>1, <3>3 DEF Bare
  <2>10. calm' => Heeds(u, s, t)
    BY <1>1, <2>1, <2>6, <2>9 DEF Heeds, Ready
  <2> QED BY <1>5, <2>1, <2>6, <2>8, <2>10, HeldOn, ServedOn DEF SettleInv
<1> QED BY <1>7, <1>8

\* A client that is closed, or whose connection drops, ends the calm and keeps its keys.
LEMMA CalmEnds ==
  ASSUME KInv, SettleInv, NEW u \in Users, Offline(u) \/ Blip(u)
  PROVE  SettleInv'
<1>1. UNCHANGED <<wrapped, keys, belated, epoch>> /\ ~calm'
  BY DEF Offline, Blip, server, Spend
<1>2. \A v \in Users, s \in Slots : task'[v][s] = task[v][s] \/ task'[v][s] = Idle
  <2>1. task' = task \/ task' = [task EXCEPT ![u] = [s \in Slots |-> Idle]]
    BY DEF Offline, Blip
  <2> QED BY <2>1 DEF KInv, Tasks
<1>3. Rotators \subseteq Slots /\ Idle.at = "idle" /\ Idle.at \notin HasWon
  BY DEF Slots, Idle, HasWon
<1>4. ASSUME NEW v \in Users, NEW s \in Rotators
      PROVE  /\ task'[v][s].at \in HasWon => Had(keys'[v], task'[v][s].e)
             /\ task'[v][s].at # "idle" => epoch' > 0
  BY <1>1, <1>2, <1>3 DEF SettleInv, KeyKept
<1>5. KeyKept'
  BY <1>4 DEF KeyKept
<1> QED BY <1>1, <1>5 DEF SettleInv, Settling
\* At the start who is a member is ready and has what is wrapped for it.
LEMMA SettleInvInit == Init => SettleInv
<1> SUFFICES ASSUME Init PROVE SettleInv
  OBVIOUS
<1>1. /\ member \subseteq Users /\ published = member /\ belated = {}
      /\ phase = [u \in Users |-> IF u \in member THEN "ready" ELSE "off"]
      /\ task = [u \in Users |-> [s \in Slots |-> Idle]]
      /\ keys = wrapped
  BY DEF Init
<1>2. \A u \in published : Ready(u)
  BY <1>1 DEF Ready
<1>3. \A u \in Users, s \in Rotators : task[u][s] = Idle
  BY <1>1 DEF Slots
<1>4. Idle.at = "idle" /\ Idle.at \notin HasWon
  BY DEF Idle, HasWon
<1>5. KeyKept
  BY <1>3, <1>4 DEF KeyKept
<1>6. \A u \in Users, e \in Epochs : ~Bare(u, e)
  BY <1>1 DEF Bare, Had
<1> QED BY <1>1, <1>2, <1>5, <1>6 DEF SettleInv, Settling

\* Every step keeps who counts on a fetch on the way to one.
LEMMA SettleInvKept ==
  ASSUME KInv, SettleInv, MaxEnables = 1, [Next]_vars
  PROVE  SettleInv'
<1>1. ASSUME NEW u \in Users, NEW s \in Slots, Serve(u, s) PROVE SettleInv'
  <2>1. CASE RawPub(u, s) \/ Members(u, s)
    BY <2>1, RawPubSettles, MembersSettles
  <2>2. CASE \E m \in Users : Share(u, s, m)
    BY <2>2, ShareSettles
  <2>3. CASE BumpRead(u, s) \/ BumpWrite(u, s)
    BY <2>3, BumpReadSettles, BumpWriteSettles
  <2>4. CASE Won(u, s) \/ Announce(u, s)
    BY <2>4, WonSettles, AnnounceSettles
  <2>5. CASE Reread(u, s) \/ ResetMeta(u, s)
    BY <2>5, RereadSettles, ResetMetaSettles
  <2>6. CASE FetchKeys(u, s) \/ AskTimeout(u, s)
    BY <2>6, FetchKeysSettles, AskTimeoutSettles
  <2> QED BY <1>1, <2>1, <2>2, <2>3, <2>4, <2>5, <2>6 DEF Serve
<1>2. ASSUME NEW u \in Users, MetaAsk(u) \/ MetaSet(u) PROVE SettleInv'
  BY <1>2, MetaAskSettles, MetaSetSettles
<1>3. ASSUME NEW u \in Users, Enable(u) \/ NobodyShared(u) \/ Put(u) \/ Enabled(u) PROVE SettleInv'
  BY <1>3, EnableSettles, NobodySharedSettles, PutSettles, EnabledSettles
<1>4. ASSUME NEW u \in Users, TakeChange(u) \/ TimerFires(u) \/ TakeNotice(u) \/ TakeStored(u) \/ Decrypt(u)
      PROVE SettleInv'
  BY <1>4, TakeChangeSettles, TakeNoticeSettles, OthersSettle, DecryptSettles
<1>5. ASSUME NEW u \in Users, NEW s \in Slots, NEW v \in Users, AnswerTake(v, u, s) PROVE SettleInv'
  BY <1>5, AnswerTakeSettles
<1>6. ASSUME NEW u \in Users,
             \/ AnswerSend(u) \/ Join(u) \/ Leave(u) \/ Offline(u) \/ Blip(u)
             \/ Online(u) \/ LoadIdentity(u) \/ PublishIdentity(u)
      PROVE  SettleInv'
  BY <1>6, AnswerSendSettles, OthersSettle, CalmEnds
<1>7. CASE UNCHANGED vars
  <2>1. UNCHANGED kept /\ UNCHANGED <<task, epoch>> /\ (calm' => calm)
    BY <1>7 DEF vars, server, net, bounds, kept
  <2> QED BY <2>1, StandsStill
<1>8. CASE Next
  BY <1>8, <1>1, <1>2, <1>3, <1>4, <1>5, <1>6 DEF Next
<1> QED BY <1>7, <1>8

-----------------------------------------------------------------------------
\* All who have a key of an epoch have the same one.
THEOREM KeysAgree == ASSUME MaxEnables = 1 PROVE Spec => []KeyAgreement
<1>1. Init => KInv
  BY KInvInit
<1>2. KInv /\ [Next]_vars => KInv'
  BY KInvKept
<1>3. KInv => KeyAgreement
  <2> SUFFICES ASSUME KInv, NEW e \in Epochs, NEW k \in KeysOf(e), NEW l \in KeysOf(e) PROVE k = l
    BY DEF KeyAgreement
  <2>1. k \in Right(e) \ {NoKey} /\ l \in Right(e) \ {NoKey}
    BY DEF KeysOf, KInv, Rings
  <2> QED BY <2>1 DEF Right, KInv, Server
<1> QED BY <1>1, <1>2, <1>3, PTL DEF Spec

\* No client believes in an epoch, or holds a key of one, that the service has not
\* handed out.
THEOREM NoneIsAhead == ASSUME MaxEnables = 1 PROVE Spec => []NobodyAhead
<1>1. Init => KInv
  BY KInvInit
<1>2. KInv /\ [Next]_vars => KInv'
  BY KInvKept
<1>3. KInv => NobodyAhead
  BY DEF KInv, Rings, Beliefs, NobodyAhead
<1> QED BY <1>1, <1>2, <1>3, PTL DEF Spec

\* When everything has come to rest and nothing failed, a client that knows the room as
\* encrypted has every key that is wrapped for it, but for those it has pruned and those
\* of a late answer.
THEOREM SettledHaveKeys == ASSUME MaxEnables = 1 PROVE Spec => []SettledClientsHaveKeys
<1>1. Init => KInv /\ SettleInv
  BY KInvInit, SettleInvInit
<1>2. KInv /\ SettleInv /\ [Next]_vars => KInv' /\ SettleInv'
  BY KInvKept, SettleInvKept
<1>3. KInv /\ SettleInv => SettledClientsHaveKeys
  <2> SUFFICES ASSUME KInv, SettleInv, AtRest, calm, NEW u \in Users, NEW e \in Epochs,
                      cmeta[u] > 0, wrapped[u][e] # NoKey, <<u, e>> \notin belated
               PROVE  keys[u][e] # NoKey \/ Outgrown(u, e)
    BY DEF SettledClientsHaveKeys
  <2>1. ~Coming(u)
    BY DEF Coming, AtRest, At, Idle, Slots
  <2>2. ~Unaware(u)
    BY Parameters DEF Unaware, KInv, Beliefs, Unset
  <2>3. Had(keys[u], e)
    BY <2>1, <2>2 DEF SettleInv, Settling, Provided, Bare
  <2> QED BY <2>3 DEF Had, Outgrown
<1> QED BY <1>1, <1>2, <1>3, PTL DEF Spec

-----------------------------------------------------------------------------
(* However often encryption is enabled: the types and the election.         *)

\* The type of a chain of requests at each of its points.
Shape(u, s, t) ==
  /\ s = "enable" =>
       /\ t.at \in {"idle", "raw", "members", "share", "done"}
       /\ t.at # "idle" => t.e = 1 /\ t.tag \in 1..MaxEnables
  /\ s \in Rotators =>
       /\ t.at \notin {"meta", "done"}
       /\ t.at \in {"bump", "write", "won", "raw", "members", "share"} => t.e \in Epochs
       /\ t.at = "write" => t.tag <= rev /\ (t.tag = rev => t.e > epoch /\ epoch > 0)
  /\ s \in Waiting => t.at \in {"idle", "get", "ask", "meta"}

Chains ==
  /\ task \in [Users -> [Slots -> Task]]
  /\ \A u \in Users, s \in Slots : Shape(u, s, task[u][s])

\* What the service knows: no epoch above the service's was won by anybody.
Epoch ==
  /\ epoch \in 0..MaxEpoch /\ rev \in Nat
  /\ won \in [Epochs -> SUBSET Claimants]
  /\ \A e \in Epochs : e > epoch => won[e] = {}

Places ==
  /\ raw \in KeyRing /\ wrapped \in [Users -> KeyRing] /\ keys \in [Users -> KeyRing]
  /\ heard \in [Users -> 0..MaxEpoch]

Hearsay ==
  /\ cmeta \in [Users -> Unset..MaxEpoch]
  /\ notices \in [Users -> Seq(Epochs)]
  /\ ans \in [Users -> Answer] /\ belated \subseteq Users \X Epochs
  /\ \A v \in Users : ans[v] = NoAnswer \/ ans[v].e \in Epochs

Attempts == left["enable"] <= MaxEnables

EInv == Plain /\ Attempts /\ Epoch /\ Chains /\ Places /\ Hearsay

\* The record is the same, or is another one.
Later == UNCHANGED <<epoch, rev>> \/ rev' > rev

LEMMA EInvInit == Init => EInv
<1> SUFFICES ASSUME Init PROVE EInv
  OBVIOUS
<1>1. First \in Claimants /\ NoKey \in Keys /\ First \in Keys /\ 1 \in Epochs
  BY Parameters DEF First, Claimants, Keys, Epochs
<1>2. Empty \in KeyRing /\ [Empty EXCEPT ![1] = First] \in KeyRing
  BY <1>1 DEF Empty, KeyRing
<1>3. Plain /\ Attempts
  BY Parameters DEF Init, Plain, Attempts, Kinds
<1>4. Epoch
  <2>1. CASE left.enable = 0
    <3>1. epoch = 1 /\ rev = 1 /\ won = [e \in Epochs |-> IF e = 1 THEN {First} ELSE {}]
      BY <2>1 DEF Init
    <3> QED BY <1>1, <3>1, Parameters DEF Epoch, Epochs
  <2>2. CASE left.enable # 0
    <3>1. epoch = 0 /\ rev = 0 /\ won = [e \in Epochs |-> {}]
      BY <2>2 DEF Init
    <3> QED BY <3>1, Parameters DEF Epoch, Epochs
  <2> QED BY <2>1, <2>2
<1>5. Chains
  <2>1. task = [u \in Users |-> [s \in Slots |-> Idle]]
    BY DEF Init
  <2>2. Idle \in Task /\ Idle.at = "idle"
    BY Parameters DEF Idle, Task, Stages
  <2>3. \A u \in Users, s \in Slots : Shape(u, s, Idle)
    BY <2>2 DEF Shape
  <2> QED BY <2>1, <2>2, <2>3 DEF Chains
<1>6. Places
  <2>1. raw \in {Empty, [Empty EXCEPT ![1] = First]} /\ keys = wrapped /\ heard = [u \in Users |-> 0]
    BY DEF Init
  <2>2. wrapped \in [Users -> {Empty, [Empty EXCEPT ![1] = First]}]
    BY DEF Init
  <2> QED BY <1>2, <2>1, <2>2, Parameters DEF Places
<1>7. Hearsay
  <2>1. cmeta \in [Users -> Unset..MaxEpoch]
    BY Parameters DEF Init, Unset
  <2>2. NoAnswer \in Answer
    BY Parameters DEF NoAnswer, Answer, Slots
  <2> QED BY <2>1, <2>2 DEF Hearsay, Init
<1> QED BY <1>3, <1>4, <1>5, <1>6, <1>7 DEF EInv

\* The bounds, and what the argument does not lean on.
LEMMA PlainGoes ==
  ASSUME EInv, Next
  PROVE  Plain' /\ Attempts'
<1>0. left["enable"] \in Nat /\ MaxEnables \in Nat
  BY Parameters DEF EInv, Plain, Kinds
<1>1. ASSUME NEW kind \in Kinds, Spend(kind)
      PROVE  left' \in [Kinds -> Nat] /\ calm' \in BOOLEAN /\ Attempts'
  <2>1. left' \in [Kinds -> Nat] /\ calm' \in BOOLEAN /\ left'["enable"] <= left["enable"] /\ left'["enable"] \in Nat
    BY <1>0, <1>1, Spent DEF EInv, Kinds
  <2> QED BY <1>0, <2>1 DEF EInv, Attempts
<1>2. ASSUME NEW o, Ends(o)
      PROVE  left' \in [Kinds -> Nat] /\ calm' \in BOOLEAN /\ Attempts'
  BY <1>2, Ended DEF EInv, Attempts
<1>3. ASSUME UNCHANGED bounds
      PROVE  left' \in [Kinds -> Nat] /\ calm' \in BOOLEAN /\ Attempts'
  BY <1>3 DEF EInv, Plain, Attempts, bounds
<1>4. ASSUME NEW u \in Users, NEW s \in Slots, Serve(u, s)
      PROVE  Plain' /\ Attempts'
  <2>1. CASE RawPub(u, s) \/ Members(u, s) \/ (\E m \in Users : Share(u, s, m)) \/ BumpRead(u, s)
             \/ BumpWrite(u, s) \/ Reread(u, s)
    <3>1. \E o : Ends(o)
      <4>1. CASE RawPub(u, s) \/ Members(u, s)
        BY <4>1 DEF RawPub, Members
      <4>2. CASE \E m \in Users : Share(u, s, m)
        BY <4>2 DEF Share
      <4>3. CASE BumpRead(u, s) \/ BumpWrite(u, s)
        BY <4>3 DEF BumpRead, BumpWrite
      <4>4. CASE Reread(u, s)
        BY <4>4 DEF Reread
      <4> QED BY <2>1, <4>1, <4>2, <4>3, <4>4
    <3>2. left' \in [Kinds -> Nat] /\ calm' \in BOOLEAN /\ Attempts'
      BY <1>2, <3>1
    <3>3. UNCHANGED <<member, published, phase, changes, merr, timer>>
      <4>1. CASE RawPub(u, s) \/ Members(u, s)
        BY <4>1 DEF RawPub, Members, server, net
      <4>2. CASE \E m \in Users : Share(u, s, m)
        BY <4>2 DEF Share, net
      <4>3. CASE BumpRead(u, s) \/ BumpWrite(u, s)
        BY <4>3 DEF BumpRead, BumpWrite, server, net
      <4>4. CASE Reread(u, s)
        BY <4>4 DEF Reread, server, net
      <4> QED BY <2>1, <4>1, <4>2, <4>3, <4>4
    <3> QED BY <3>2, <3>3 DEF EInv, Plain
  <2>2. CASE FetchKeys(u, s) \/ AskTimeout(u, s)
    <3>1. (\E o : Ends(o)) \/ UNCHANGED bounds \/ Spend("failure")
      BY <2>2 DEF FetchKeys, AskTimeout
    <3>2. left' \in [Kinds -> Nat] /\ calm' \in BOOLEAN /\ Attempts'
      BY <1>1, <1>2, <1>3, <3>1 DEF Kinds
    <3>3. UNCHANGED <<member, published, phase, changes, merr>> /\ timer' \subseteq timer \cup {u}
      BY <2>2 DEF FetchKeys, AskTimeout, FetchEnds, server, net
    <3> QED BY <3>2, <3>3 DEF EInv, Plain
  <2>3. CASE Won(u, s) \/ Announce(u, s) \/ ResetMeta(u, s)
    <3>1. UNCHANGED bounds /\ UNCHANGED <<member, published, phase, changes, merr>> /\ timer' \subseteq timer \cup {u}
      BY <2>3 DEF Won, Announce, ResetMeta, server, net
    <3>2. left' \in [Kinds -> Nat] /\ calm' \in BOOLEAN /\ Attempts'
      BY <1>3, <3>1
    <3> QED BY <3>1, <3>2 DEF EInv, Plain
  <2> QED BY <1>4, <2>1, <2>2, <2>3 DEF Serve
<1>5. ASSUME NEW u \in Users, MetaAsk(u) \/ Put(u)
      PROVE  Plain' /\ Attempts'
  <2>1. \E o : Ends(o)
    BY <1>5 DEF MetaAsk, Put
  <2>2. left' \in [Kinds -> Nat] /\ calm' \in BOOLEAN /\ Attempts'
    BY <1>2, <2>1
  <2>3. UNCHANGED <<member, published, phase, changes, timer>> /\ merr' \subseteq merr \cup {u}
    BY <1>5 DEF MetaAsk, Put, server, net
  <2> QED BY <2>2, <2>3 DEF EInv, Plain
<1>6. ASSUME NEW u \in Users,
             MetaSet(u) \/ NobodyShared(u) \/ Enabled(u) \/ TakeChange(u) \/ TakeNotice(u) \/ TakeStored(u)
             \/ AnswerSend(u)
      PROVE  Plain' /\ Attempts'
  <2>1. UNCHANGED <<member, published, phase>> /\ merr' \subseteq merr /\ timer' \subseteq timer \cup Users
    <3>1. CASE AnswerSend(u)
      <4>1. UNCHANGED <<member, published, phase, merr>>
        BY <3>1 DEF AnswerSend
      <4>2. timer' = timer \/ (ans[u].for \in member /\ timer' \in {timer, timer \cup {ans[u].for}})
        BY <3>1 DEF AnswerSend, FetchEnds
      <4> QED BY <4>1, <4>2 DEF EInv, Plain
    <3>2. CASE MetaSet(u)
      BY <3>2 DEF MetaSet, server
    <3>3. CASE NobodyShared(u) \/ Enabled(u) \/ TakeChange(u) \/ TakeNotice(u) \/ TakeStored(u)
      BY <3>3 DEF NobodyShared, Enabled, TakeChange, TakeNotice, TakeStored, server
    <3> QED BY <1>6, <3>1, <3>2, <3>3
  <2>2. UNCHANGED bounds
    BY <1>6 DEF MetaSet, NobodyShared, Enabled, TakeChange, TakeNotice, TakeStored, AnswerSend
  <2>3. changes' \in [Users -> Nat]
    <3>1. changes' = changes \/ (changes[u] > 0 /\ changes' = [changes EXCEPT ![u] = changes[u] - 1])
      BY <1>6 DEF MetaSet, NobodyShared, Enabled, TakeChange, TakeNotice, TakeStored, AnswerSend, net
    <3>2. changes[u] \in Nat /\ changes \in [Users -> Nat]
      BY DEF EInv, Plain
    <3> QED BY <3>1, <3>2
  <2>4. left' \in [Kinds -> Nat] /\ calm' \in BOOLEAN /\ Attempts'
    BY <1>3, <2>2
  <2> QED BY <2>1, <2>3, <2>4 DEF EInv, Plain
<1>7. ASSUME NEW u \in Users, Enable(u) \/ TimerFires(u) \/ Decrypt(u)
      PROVE  Plain' /\ Attempts'
  <2>1. \E kind \in Kinds : Spend(kind)
    BY <1>7 DEF Enable, TimerFires, Decrypt, Kinds
  <2>2. left' \in [Kinds -> Nat] /\ calm' \in BOOLEAN /\ Attempts'
    BY <1>1, <2>1
  <2>3. UNCHANGED <<member, published, phase, changes, merr>> /\ timer' \subseteq timer
    BY <1>7 DEF Enable, TimerFires, Decrypt, server, net
  <2> QED BY <2>2, <2>3 DEF EInv, Plain
<1>8. ASSUME NEW u \in Users, NEW s \in Slots, NEW v \in Users, AnswerTake(v, u, s)
      PROVE  Plain' /\ Attempts'
  <2>1. UNCHANGED bounds /\ UNCHANGED <<member, published, phase, changes, merr, timer>>
    BY <1>8 DEF AnswerTake, server, net
  <2> QED BY <1>3, <2>1 DEF EInv, Plain
<1>9. ASSUME NEW u \in Users, Join(u) \/ Leave(u) \/ Offline(u) \/ Blip(u)
      PROVE  Plain' /\ Attempts'
  <2>1. \E kind \in Kinds : Spend(kind)
    BY <1>9 DEF Join, Leave, Offline, Blip, Kinds
  <2>2. left' \in [Kinds -> Nat] /\ calm' \in BOOLEAN /\ Attempts'
    BY <1>1, <2>1
  <2>3. /\ member' \subseteq member \cup {u} /\ UNCHANGED published /\ merr' \subseteq merr /\ timer' \subseteq timer
        /\ phase' = phase \/ phase' = [phase EXCEPT ![u] = "off"]
    BY <1>9 DEF Join, Leave, Offline, Blip, server, net
  <2>4. changes' \in [Users -> Nat]
    BY <1>9 DEF Join, Leave, Offline, Blip, net, EInv, Plain
  <2> QED BY <2>2, <2>3, <2>4 DEF EInv, Plain
<1>10. ASSUME NEW u \in Users, Online(u) \/ LoadIdentity(u) \/ PublishIdentity(u)
       PROVE  Plain' /\ Attempts'
  <2>1. /\ UNCHANGED bounds /\ UNCHANGED <<member, changes, merr, timer>> /\ published' \subseteq published \cup {u}
        /\ \E to \in {"loading", "loaded", "ready"} : phase' = [phase EXCEPT ![u] = to]
    BY <1>10 DEF Online, LoadIdentity, PublishIdentity, Enter, net
  <2> QED BY <1>3, <2>1 DEF EInv, Plain
<1> QED BY <1>4, <1>5, <1>6, <1>7, <1>8, <1>9, <1>10 DEF Next

\* An epoch is handed out by the put of enableRoom, or by a compare-and-set that
\* finds the record it was checked against.
LEMMA EpochGoes ==
  ASSUME EInv, Next
  PROVE  /\ Epoch' /\ Later
         /\ \/ UNCHANGED <<epoch, won>>
            \/ \E c \in Claimants : Election!Enable(c)
            \/ \E c \in Claimants, e \in Epochs : Election!Claim(c, e)
<1>0. epoch \in Nat /\ rev \in Nat /\ MaxEpoch \in Nat /\ 1 \in Epochs
  BY Parameters DEF EInv, Epoch, Epochs
<1>1. ASSUME UNCHANGED <<epoch, rev, won>>
      PROVE  Epoch' /\ Later /\ UNCHANGED <<epoch, won>>
  BY <1>1 DEF EInv, Epoch, Later
<1>2. ASSUME NEW u \in Users, Put(u), ~UNCHANGED <<epoch, rev, won>>
      PROVE  Epoch' /\ Later /\ \E c \in Claimants : Election!Enable(c)
  <2> DEFINE c == KeyOf(u, "enable")
  <2>1. epoch' = 1 /\ rev' = rev + 1 /\ won' = [e \in Epochs |-> IF e = 1 THEN {c} ELSE {}]
    BY <1>2 DEF Put
  <2>2. task[u]["enable"].tag \in 1..MaxEnables
    BY <1>2 DEF Put, At, EInv, Chains, Shape, Slots
  <2>3. c \in Claimants
    BY <2>2 DEF KeyOf, Claimants
  <2> HIDE DEF c
  <2>4. Epoch'
    <3>1. \A e \in Epochs : e > 1 => won'[e] = {}
      BY <2>1 DEF Epochs
    <3>2. won' \in [Epochs -> SUBSET Claimants]
      BY <2>1, <2>3
    <3> QED BY <1>0, <2>1, <3>1, <3>2, Parameters DEF Epoch
  <2>5. Later
    BY <1>0, <2>1 DEF Later
  <2>6. Election!Enable(c)
    BY <2>1 DEF Election!Enable, Election!Enabled
  <2> QED BY <2>3, <2>4, <2>5, <2>6
<1>3. ASSUME NEW u \in Users, NEW s \in Slots, BumpWrite(u, s), ~UNCHANGED <<epoch, rev, won>>
      PROVE  Epoch' /\ Later /\ \E c \in Claimants, e \in Epochs : Election!Claim(c, e)
  <2> DEFINE t == task[u][s]
             e == t.e
             c == KeyOf(u, s)
  <2>1. t.tag = rev /\ epoch' = e /\ rev' = rev + 1 /\ won' = [won EXCEPT ![e] = won[e] \cup {c}]
    BY <1>3 DEF BumpWrite
  <2>2. t \in Task /\ t.at = "write" /\ Shape(u, s, t)
    BY <1>3 DEF BumpWrite, At, EInv, Chains
  <2>3. s \in Rotators
    BY <2>2 DEF Shape, Slots, Waiting
  <2>4. e \in Epochs /\ e > epoch /\ epoch > 0
    BY <2>1, <2>2, <2>3 DEF Shape
  <2>5. c \in Claimants
    BY <2>3 DEF KeyOf, Claimants, Rotators
  <2> HIDE DEF t, e, c
  <2>6. won[e] = {} /\ won \in [Epochs -> SUBSET Claimants]
    BY <2>4 DEF EInv, Epoch
  <2>7. Epoch'
    <3>1. ASSUME NEW x \in Epochs, x > e PROVE won'[x] = {}
      <4>1. x > epoch /\ x # e
        BY <1>0, <2>4, <3>1 DEF Epochs
      <4> QED BY <2>1, <2>6, <4>1 DEF EInv, Epoch
    <3>2. won' \in [Epochs -> SUBSET Claimants]
      BY <2>1, <2>4, <2>5, <2>6
    <3> QED BY <1>0, <2>1, <2>4, <3>1, <3>2 DEF Epoch, Epochs
  <2>8. Later
    BY <1>0, <2>1 DEF Later
  <2>9. Election!Claim(c, e)
    BY <2>1, <2>4, <2>6 DEF Election!Claim
  <2> QED BY <2>4, <2>5, <2>7, <2>8, <2>9
<1>4. ASSUME NEW u \in Users, NEW s \in Slots, Serve(u, s), ~BumpWrite(u, s) PROVE UNCHANGED <<epoch, rev, won>>
  <2>1. CASE RawPub(u, s) \/ Members(u, s) \/ BumpRead(u, s)
    BY <2>1 DEF RawPub, Members, BumpRead, server
  <2>2. CASE \E m \in Users : Share(u, s, m)
    BY <2>2 DEF Share
  <2>3. CASE Won(u, s) \/ Announce(u, s) \/ Reread(u, s) \/ ResetMeta(u, s)
    BY <2>3 DEF Won, Announce, Reread, ResetMeta, server
  <2>4. CASE FetchKeys(u, s) \/ AskTimeout(u, s)
    BY <2>4 DEF FetchKeys, AskTimeout, server
  <2> QED BY <1>4, <2>1, <2>2, <2>3, <2>4 DEF Serve
<1>5. ASSUME NEW u \in Users,
             \/ MetaAsk(u) \/ MetaSet(u) \/ Enable(u) \/ NobodyShared(u) \/ Enabled(u)
             \/ TakeChange(u) \/ TimerFires(u) \/ TakeNotice(u) \/ TakeStored(u) \/ Decrypt(u)
      PROVE  UNCHANGED <<epoch, rev, won>>
  BY <1>5 DEF MetaAsk, MetaSet, Enable, NobodyShared, Enabled, TakeChange, TimerFires, TakeNotice,
              TakeStored, Decrypt, server
<1>6. ASSUME NEW u \in Users, NEW s \in Slots, NEW v \in Users, AnswerTake(v, u, s) PROVE UNCHANGED <<epoch, rev, won>>
  BY <1>6 DEF AnswerTake, server
<1>7. ASSUME NEW u \in Users,
             \/ AnswerSend(u) \/ Join(u) \/ Leave(u) \/ Offline(u) \/ Blip(u)
             \/ Online(u) \/ LoadIdentity(u) \/ PublishIdentity(u)
      PROVE  UNCHANGED <<epoch, rev, won>>
  BY <1>7 DEF AnswerSend, Join, Leave, Offline, Blip, Online, LoadIdentity, PublishIdentity, Enter, server
<1> QED BY <1>1, <1>2, <1>3, <1>4, <1>5, <1>6, <1>7 DEF Next

\* A chain keeps its shape while the record changes ...
LEMMA ShapeStays ==
  ASSUME Epoch, Epoch', Later, NEW u \in Users, NEW s \in Slots, NEW t \in Task, Shape(u, s, t)
  PROVE  Shape(u, s, t)'
<1>1. rev \in Nat /\ rev' \in Nat /\ t.tag \in Nat
  BY DEF Epoch, Task
<1>2. t.at = "write" /\ t.tag <= rev /\ (t.tag = rev => t.e > epoch /\ epoch > 0) =>
        t.tag <= rev' /\ (t.tag = rev' => t.e > epoch' /\ epoch' > 0)
  BY <1>1 DEF Later
<1> QED BY <1>2 DEF Shape

LEMMA ChainsStay ==
  ASSUME EInv, Epoch', Later, UNCHANGED task
  PROVE  Chains'
<1>1. ASSUME NEW u \in Users, NEW s \in Slots PROVE Shape(u, s, task[u][s])'
  <2>1. PICK t \in Task : t = task[u][s]
    BY DEF EInv, Chains
  <2>2. Shape(u, s, t)
    BY <2>1 DEF EInv, Chains
  <2>3. Shape(u, s, t)'
    BY <2>2, ShapeStays DEF EInv
  <2> QED BY <2>1, <2>3 DEF Shape
<1> QED BY <1>1 DEF EInv, Chains, Shape

\* ... and when another one goes on.
LEMMA ChainGoes ==
  ASSUME EInv, Epoch', Later, NEW u \in Users, NEW s \in Slots, NEW t \in Task, SetTask(u, s, t), Shape(u, s, t)'
  PROVE  Chains'
<1>1. task' \in [Users -> [Slots -> Task]]
  BY DEF EInv, Chains, SetTask
<1>2. ASSUME NEW v \in Users, NEW r \in Slots PROVE Shape(v, r, task[v][r])'
  <2>1. CASE v = u /\ r = s
    <3>1. task'[v][r] = t
      BY <2>1 DEF EInv, Chains, SetTask
    <3> QED BY <3>1, <2>1 DEF Shape
  <2>2. CASE ~(v = u /\ r = s)
    <3>1. task'[v][r] = task[v][r]
      BY <2>2 DEF EInv, Chains, SetTask
    <3>2. PICK x \in Task : x = task[v][r]
      BY DEF EInv, Chains
    <3>3. Shape(v, r, x)
      BY <3>2 DEF EInv, Chains
    <3>4. Shape(v, r, x)'
      BY <3>3, ShapeStays DEF EInv
    <3> QED BY <3>1, <3>2, <3>4 DEF Shape
  <2> QED BY <2>1, <2>2
<1> QED BY <1>1, <1>2 DEF Chains, Shape

\* A chain that ends, or asks for keys.
LEMMA ShapeOfIdle ==
  ASSUME NEW u \in Users, NEW s \in Slots
  PROVE  /\ Idle \in Task /\ Shape(u, s, Idle)'
         /\ \A stage \in {"get", "ask"} :
              s # "enable" => [Idle EXCEPT !.at = stage] \in Task /\ Shape(u, s, [Idle EXCEPT !.at = stage])'
<1>1. Idle \in Task /\ Idle.at = "idle"
  BY Parameters DEF Idle, Task, Stages
<1>2. Shape(u, s, Idle)'
  BY <1>1 DEF Shape
<1>3. ASSUME NEW stage \in {"get", "ask"}, s # "enable"
      PROVE  [Idle EXCEPT !.at = stage] \in Task /\ Shape(u, s, [Idle EXCEPT !.at = stage])'
  <2> DEFINE t == [Idle EXCEPT !.at = stage]
  <2>1. t \in Task /\ t.at = stage
    BY <1>1 DEF Task, Stages
  <2> HIDE DEF t
  <2>2. Shape(u, s, t)'
    BY <1>3, <2>1 DEF Shape
  <2> QED BY <2>1, <2>2 DEF t
<1> QED BY <1>1, <1>2, <1>3

\* A chain that goes on is as it was but for where it is.
LEMMA MovedOn ==
  ASSUME Chains, NEW u \in Users, NEW s \in Slots, NEW stage \in Stages, Go(u, s, stage)
  PROVE  \E t \in Task : /\ SetTask(u, s, t) /\ t.at = stage
                         /\ t.e = task[u][s].e /\ t.tag = task[u][s].tag
<1>1. task[u][s] \in Task
  BY DEF Chains
<1> DEFINE t == [task[u][s] EXCEPT !.at = stage]
<1>2. t \in Task /\ t.at = stage /\ t.e = task[u][s].e /\ t.tag = task[u][s].tag
  BY <1>1 DEF Task
<1>3. SetTask(u, s, t)
  BY DEF Go, SetTask
<1> QED BY <1>2, <1>3

\* A chain that begins, and its record.
Starting(u, s, stage, e) == SetTask(u, s, [Idle EXCEPT !.at = stage, !.e = e])

LEMMA Starts ==
  ASSUME NEW u \in Users, NEW s \in Slots, NEW stage \in Stages, NEW e \in 0..MaxEpoch, Starting(u, s, stage, e)
  PROVE  \E t \in Task : SetTask(u, s, t) /\ t.at = stage /\ t.e = e
<1> DEFINE w == [Idle EXCEPT !.at = stage, !.e = e]
<1>1. w \in Task /\ w.at = stage /\ w.e = e
  <2>1. Idle \in Task
    BY Parameters DEF Idle, Task, Stages
  <2> QED BY <2>1 DEF Task
<1>2. SetTask(u, s, w)
  BY DEF Starting
<1> HIDE DEF w
<1> QED BY <1>1, <1>2

\* The chains of the clients.
LEMMA OwnChains ==
  ASSUME EInv, Epoch', Later, NEW u \in Users,
         \/ MetaAsk(u) \/ MetaSet(u) \/ Enable(u) \/ NobodyShared(u) \/ Put(u) \/ Enabled(u)
         \/ TakeChange(u) \/ TimerFires(u) \/ TakeNotice(u) \/ TakeStored(u) \/ Decrypt(u)
  PROVE  Chains'
<1>0. {"meta", "enable", "change", "timer", "notice", "decrypt"} \subseteq Slots /\ MaxEpoch \in Nat /\ 1 \in 0..MaxEpoch
  BY Parameters DEF Slots, Rotators
<1>1. ASSUME NEW s \in Slots, Stop(u, s)
      PROVE  Chains'
  BY <1>1, ShapeOfIdle, ChainGoes DEF Stop
<1>2. ASSUME NEW s \in Slots, s # "enable", Restart(u, s, "get")
      PROVE  Chains'
  BY <1>2, ShapeOfIdle, ChainGoes DEF Restart
<1>3. ASSUME NEW s \in Waiting, Go(u, s, "get")
      PROVE  Chains'
  <2>1. s \in Slots /\ s # "enable" /\ s \notin Rotators /\ "get" \in Stages
    BY DEF Slots, Waiting, Rotators, Stages
  <2>2. PICK t \in Task : SetTask(u, s, t) /\ t.at = "get"
    BY <1>3, <2>1, MovedOn DEF EInv
  <2>3. Shape(u, s, t)'
    BY <2>1, <2>2 DEF Shape
  <2> QED BY <2>1, <2>2, <2>3, ChainGoes
<1>4. CASE MetaAsk(u)
  <2>1. UNCHANGED task \/ \E e \in {epoch, Off} : Starting(u, "meta", "meta", e)
    BY <1>4 DEF MetaAsk, Starting
  <2>2. ASSUME NEW e \in {epoch, Off}, Starting(u, "meta", "meta", e)
        PROVE  Chains'
    <3>1. e \in 0..MaxEpoch /\ "meta" \in Stages
      BY Parameters DEF EInv, Epoch, Stages, Off
    <3>2. PICK t \in Task : SetTask(u, "meta", t) /\ t.at = "meta"
      BY <1>0, <2>2, <3>1, Starts
    <3>3. Shape(u, "meta", t)'
      BY <3>2 DEF Shape, Rotators, Waiting
    <3> QED BY <1>0, <3>2, <3>3, ChainGoes
  <2> QED BY <2>1, <2>2, ChainsStay
<1>5. CASE MetaSet(u)
  <2>1. Restart(u, "meta", "get") \/ Stop(u, "meta")
    BY <1>5 DEF MetaSet
  <2> QED BY <1>0, <1>1, <1>2, <2>1
<1>6. CASE Enable(u)
  <2>1. left["enable"] \in 1..MaxEnables
    <3>1. left["enable"] > 0 /\ left["enable"] \in Nat
      BY <1>6 DEF Enable, Spend, EInv, Plain, Kinds
    <3> QED BY <3>1, Parameters DEF EInv, Attempts
  <2>2. SetTask(u, "enable", [Idle EXCEPT !.at = "raw", !.e = 1, !.tag = left.enable])
    BY <1>6 DEF Enable
  <2>3. PICK t \in Task : SetTask(u, "enable", t) /\ t.at = "raw" /\ t.e = 1 /\ t.tag \in 1..MaxEnables
    <3> DEFINE w == [Idle EXCEPT !.at = "raw", !.e = 1, !.tag = left.enable]
    <3>1. w \in Task /\ w.at = "raw" /\ w.e = 1 /\ w.tag = left["enable"]
      <4>1. Idle \in Task
        BY Parameters DEF Idle, Task, Stages
      <4>2. left["enable"] \in Nat
        BY <2>1
      <4> QED BY <1>0, <4>1, <4>2 DEF Task, Stages
    <3>2. SetTask(u, "enable", w)
      BY <2>2
    <3> HIDE DEF w
    <3> QED BY <2>1, <3>1, <3>2
  <2>4. Shape(u, "enable", t)'
    BY <2>3 DEF Shape, Rotators, Waiting
  <2> QED BY <1>0, <2>3, <2>4, ChainGoes
<1>7. CASE NobodyShared(u) \/ Enabled(u)
  <2>1. Stop(u, "enable")
    BY <1>7 DEF NobodyShared, Enabled
  <2> QED BY <1>0, <1>1, <2>1
<1>8. CASE Put(u)
  <2>1. task[u]["enable"].at = "share" /\ (Go(u, "enable", "done") \/ Stop(u, "enable"))
    BY <1>8 DEF Put, At
  <2>2. CASE Go(u, "enable", "done")
    <3>1. task[u]["enable"].e = 1 /\ task[u]["enable"].tag \in 1..MaxEnables
      BY <1>0, <2>1 DEF EInv, Chains, Shape
    <3>2. PICK t \in Task : SetTask(u, "enable", t) /\ t.at = "done" /\ t.e = 1 /\ t.tag \in 1..MaxEnables
      BY <1>0, <2>2, <3>1, MovedOn DEF EInv, Stages
    <3>3. Shape(u, "enable", t)'
      BY <3>2 DEF Shape, Rotators, Waiting
    <3> QED BY <1>0, <3>2, <3>3, ChainGoes
  <2> QED BY <1>0, <1>1, <2>1, <2>2
<1>9. CASE TakeChange(u) \/ TimerFires(u)
  <2>1. UNCHANGED task \/ \E s \in Rotators : cmeta[u] > 0 /\ cmeta[u] < MaxEpoch
                            /\ Starting(u, s, "bump", cmeta[u] + 1)
    BY <1>9 DEF TakeChange, TimerFires, Rotate, Rotators, Starting
  <2>2. ASSUME NEW s \in Rotators, cmeta[u] > 0, cmeta[u] < MaxEpoch,
               Starting(u, s, "bump", cmeta[u] + 1)
        PROVE  Chains'
    <3>1. PICK e \in Epochs : e = cmeta[u] + 1 /\ e \in 0..MaxEpoch
      <4>1. cmeta[u] \in Int
        BY DEF EInv, Hearsay, Unset
      <4> QED BY <1>0, <2>2, <4>1 DEF Epochs
    <3>2. s \in Slots /\ "bump" \in Stages
      BY DEF Stages, Slots, Rotators
    <3>3. PICK t \in Task : SetTask(u, s, t) /\ t.at = "bump" /\ t.e = e
      BY <2>2, <3>1, <3>2, Starts
    <3>4. Shape(u, s, t)' /\ s \in Slots
      BY <3>1, <3>3 DEF Shape, Rotators, Waiting, Slots
    <3> QED BY <3>3, <3>4, ChainGoes
  <2> QED BY <2>1, <2>2, ChainsStay
<1>10. CASE TakeNotice(u) \/ Decrypt(u)
  <2>1. \E s \in Waiting : Go(u, s, "get")
    BY <1>10 DEF TakeNotice, Decrypt, Waiting
  <2> QED BY <1>3, <2>1
<1>11. CASE TakeStored(u)
  BY <1>11, ChainsStay DEF TakeStored
<1> QED BY <1>4, <1>5, <1>6, <1>7, <1>8, <1>9, <1>10, <1>11

\* The chains when keys were fetched.
LEMMA FetchChains ==
  ASSUME EInv, Epoch', Later, NEW u \in Users, NEW s \in Slots, s # "enable", FetchEnds(u, s)
  PROVE  Chains'
<1>1. CASE Stop(u, s)
  BY <1>1, ShapeOfIdle, ChainGoes DEF Stop
<1>2. CASE s \in Rotators /\ Go(u, s, "reread")
  <2>1. PICK t \in Task : SetTask(u, s, t) /\ t.at = "reread"
    BY <1>2, MovedOn DEF EInv, Stages
  <2>2. Shape(u, s, t)'
    BY <1>2, <2>1 DEF Shape, Rotators, Waiting
  <2> QED BY <2>1, <2>2, ChainGoes
<1> QED BY <1>1, <1>2 DEF FetchEnds

LEMMA ServedChains ==
  ASSUME EInv, Epoch', Later, NEW u \in Users, NEW s \in Slots, Serve(u, s)
  PROVE  Chains'
<1>0. task[u][s] \in Task /\ Shape(u, s, task[u][s])
  BY DEF EInv, Chains
<1>1. ASSUME Stop(u, s)
      PROVE  Chains'
  BY <1>1, ShapeOfIdle, ChainGoes DEF Stop
<1>2. CASE RawPub(u, s)
  <2>1. task[u][s].at = "raw" /\ (Go(u, s, "members") \/ Stop(u, s))
    BY <1>2 DEF RawPub, At
  <2>2. CASE Go(u, s, "members")
    <3>1. PICK t \in Task : SetTask(u, s, t) /\ t.at = "members" /\ t.e = task[u][s].e /\ t.tag = task[u][s].tag
      BY <2>2, MovedOn DEF EInv, Stages
    <3>2. Shape(u, s, t)'
      BY <1>0, <2>1, <3>1 DEF Shape
    <3> QED BY <3>1, <3>2, ChainGoes
  <2> QED BY <1>1, <2>1, <2>2
<1>3. CASE Members(u, s)
  <2> DEFINE ok == (s = "enable" /\ member = {})
             w == [task[u][s] EXCEPT !.at = "share", !.todo = member, !.ok = ok]
  <2>1. task[u][s].at = "members" /\ (SetTask(u, s, w) \/ Stop(u, s))
    BY <1>3 DEF Members, At
  <2>2. PICK t \in Task : t = w /\ t.at = "share" /\ t.e = task[u][s].e /\ t.tag = task[u][s].tag
    <3>1. ok \in BOOLEAN /\ member \in SUBSET Users
      BY DEF EInv, Plain
    <3> HIDE DEF ok
    <3>2. w \in Task /\ w.at = "share" /\ w.e = task[u][s].e /\ w.tag = task[u][s].tag
      BY <1>0, <3>1 DEF Task, Stages
    <3> HIDE DEF w
    <3> QED BY <3>2
  <2> HIDE DEF w
  <2>3. Shape(u, s, t)'
    BY <1>0, <2>1, <2>2 DEF Shape
  <2> QED BY <1>1, <2>1, <2>2, <2>3, ChainGoes
<1>4. ASSUME NEW m \in Users, Share(u, s, m)
      PROVE  Chains'
  <2> DEFINE todo == task[u][s].todo \ {m}
             ok(o) == task[u][s].ok \/ (s = "enable" /\ o # "lost" /\ m \in published)
             w(o) == [task[u][s] EXCEPT !.todo = todo, !.ok = ok(o)]
  <2>1. PICK o \in {"answered", "lost", "unheard"} : SetTask(u, s, w(o))
    BY <1>4, Zenon DEF Share
  <2>2. task[u][s].at = "share"
    BY <1>4 DEF Share, At
  <2>3. PICK t \in Task : t = w(o) /\ t.at = "share" /\ t.e = task[u][s].e /\ t.tag = task[u][s].tag
    <3>1. ok(o) \in BOOLEAN /\ todo \in SUBSET Users
      BY <1>0 DEF Task
    <3> HIDE DEF ok, todo
    <3>2. w(o) \in Task /\ w(o).at = "share" /\ w(o).e = task[u][s].e /\ w(o).tag = task[u][s].tag
      BY <1>0, <2>2, <3>1 DEF Task
    <3> HIDE DEF w
    <3> QED BY <3>2
  <2> HIDE DEF w
  <2>4. Shape(u, s, t)'
    BY <1>0, <2>2, <2>3 DEF Shape
  <2>5. SetTask(u, s, t)
    BY <2>1, <2>3
  <2> QED BY <2>3, <2>4, <2>5, ChainGoes
<1>5. CASE BumpRead(u, s)
  <2> DEFINE w == [task[u][s] EXCEPT !.at = "write", !.tag = rev]
  <2>1. task[u][s].at = "bump" /\ UNCHANGED <<epoch, rev>>
    BY <1>5 DEF BumpRead, At, server
  <2>2. s \in Rotators /\ s # "enable" /\ task[u][s].e \in Epochs
    BY <1>0, <2>1 DEF Shape, Rotators, Waiting, Slots
  <2>3. \/ Stop(u, s) \/ Restart(u, s, "get")
        \/ SetTask(u, s, w) /\ epoch > 0 /\ task[u][s].e > epoch
    BY <1>5 DEF BumpRead
  <2>4. CASE SetTask(u, s, w) /\ epoch > 0 /\ task[u][s].e > epoch
    <3>1. PICK t \in Task : t = w /\ t.at = "write" /\ t.e = task[u][s].e /\ t.tag = rev /\ rev \in Nat
      <4>1. rev \in Nat
        BY DEF EInv, Epoch
      <4>2. w \in Task /\ w.at = "write" /\ w.e = task[u][s].e /\ w.tag = rev
        BY <1>0, <4>1 DEF Task, Stages
      <4> HIDE DEF w
      <4> QED BY <4>1, <4>2
    <3> HIDE DEF w
    <3>2. Shape(u, s, t)'
      BY <2>1, <2>2, <2>4, <3>1 DEF Shape, Rotators, Waiting
    <3> QED BY <2>4, <3>1, <3>2, ChainGoes
  <2> QED BY <1>1, <2>2, <2>3, <2>4, ShapeOfIdle, ChainGoes DEF Restart
<1>6. CASE BumpWrite(u, s)
  <2> DEFINE w == [task[u][s] EXCEPT !.at = "won", !.tag = 0]
  <2>1. task[u][s].at = "write"
    BY <1>6 DEF BumpWrite, At
  <2>2. s \in Rotators /\ s # "enable" /\ task[u][s].e \in Epochs
    BY <1>0, <2>1 DEF Shape, Rotators, Waiting, Slots
  <2>3. Stop(u, s) \/ Restart(u, s, "get") \/ SetTask(u, s, w)
    BY <1>6 DEF BumpWrite
  <2>4. PICK t \in Task : t = w /\ t.at = "won" /\ t.e = task[u][s].e
    <3>1. w \in Task /\ w.at = "won" /\ w.e = task[u][s].e
      BY <1>0 DEF Task, Stages
    <3> HIDE DEF w
    <3> QED BY <3>1
  <2> HIDE DEF w
  <2>5. Shape(u, s, t)'
    BY <2>2, <2>4 DEF Shape, Rotators, Waiting
  <2> QED BY <1>1, <2>2, <2>3, <2>4, <2>5, ShapeOfIdle, ChainGoes DEF Restart
<1>7. CASE Won(u, s)
  <2>1. task[u][s].at = "won" /\ Go(u, s, "raw")
    BY <1>7 DEF Won, At
  <2>2. s \in Rotators /\ task[u][s].e \in Epochs
    BY <1>0, <2>1 DEF Shape, Rotators, Waiting, Slots
  <2>3. PICK t \in Task : SetTask(u, s, t) /\ t.at = "raw" /\ t.e = task[u][s].e
    BY <2>1, MovedOn DEF EInv, Stages
  <2>4. Shape(u, s, t)'
    BY <2>2, <2>3 DEF Shape, Rotators, Waiting
  <2> QED BY <2>3, <2>4, ChainGoes
<1>8. CASE Announce(u, s) \/ ResetMeta(u, s)
  <2>1. Stop(u, s)
    BY <1>8 DEF Announce, ResetMeta
  <2> QED BY <1>1, <2>1
<1>9. CASE Reread(u, s)
  <2>1. task[u][s].at = "reread"
    BY <1>9 DEF Reread, At
  <2>2. s \in Rotators
    BY <1>0, <2>1 DEF Shape, Rotators, Waiting, Slots
  <2>3. Stop(u, s) \/ \E e \in 0..MaxEpoch : Starting(u, s, "remeta", e)
    <3> DEFINE e(o) == IF o = "answered" THEN epoch ELSE Off
    <3>1. \A o : e(o) \in 0..MaxEpoch
      BY Parameters DEF EInv, Epoch, Off
    <3>2. \E o : Stop(u, s) \/ Starting(u, s, "remeta", e(o))
      BY <1>9, Zenon DEF Reread, Starting
    <3> HIDE DEF e
    <3> QED BY <3>1, <3>2
  <2>4. ASSUME NEW e \in 0..MaxEpoch, Starting(u, s, "remeta", e)
        PROVE  Chains'
    <3>1. "remeta" \in Stages
      BY DEF Stages
    <3>2. PICK t \in Task : SetTask(u, s, t) /\ t.at = "remeta"
      BY <2>4, <3>1, Starts
    <3>3. Shape(u, s, t)'
      BY <2>2, <3>2 DEF Shape, Rotators, Waiting
    <3> QED BY <3>2, <3>3, ChainGoes
  <2> QED BY <1>1, <2>3, <2>4
<1>10. CASE FetchKeys(u, s)
  <2> DEFINE todo == {v \in Users : Ready(v)}
             w == [task[u][s] EXCEPT !.at = "ask", !.todo = todo]
  <2>1. task[u][s].at = "get" /\ (SetTask(u, s, w) \/ FetchEnds(u, s))
    BY <1>10 DEF FetchKeys, At
  <2>2. s # "enable"
    BY <1>0, <2>1 DEF Shape
  <2>3. PICK t \in Task : t = w /\ t.at = "ask"
    <3>1. todo \in SUBSET Users
      OBVIOUS
    <3> HIDE DEF todo
    <3>2. w \in Task /\ w.at = "ask"
      BY <1>0, <3>1 DEF Task, Stages
    <3> HIDE DEF w
    <3> QED BY <3>2
  <2> HIDE DEF w
  <2>4. Shape(u, s, t)'
    BY <2>2, <2>3 DEF Shape
  <2> QED BY <2>1, <2>2, <2>3, <2>4, ChainGoes, FetchChains
<1>11. CASE AskTimeout(u, s)
  <2>1. s # "enable" /\ FetchEnds(u, s)
    BY <1>0, <1>11 DEF AskTimeout, At, Shape
  <2> QED BY <2>1, FetchChains
<1> QED BY <1>2, <1>3, <1>4, <1>5, <1>6, <1>7, <1>8, <1>9, <1>10, <1>11 DEF Serve

LEMMA OtherChains ==
  ASSUME EInv, Epoch', Later, NEW u \in Users,
         \/ \E v \in Users, s \in Slots : AnswerTake(v, u, s)
         \/ AnswerSend(u) \/ Join(u) \/ Leave(u) \/ Offline(u) \/ Blip(u)
         \/ Online(u) \/ LoadIdentity(u) \/ PublishIdentity(u)
  PROVE  Chains'
<1>1. ASSUME NEW v \in Users, NEW s \in Slots, AnswerTake(v, u, s)
      PROVE  Chains'
  <2> DEFINE w == [task[u][s] EXCEPT !.todo = task[u][s].todo \ {v}]
  <2>1. task[u][s].at = "ask" /\ SetTask(u, s, w)
    BY <1>1 DEF AnswerTake, At, SetTask
  <2>2. task[u][s] \in Task /\ Shape(u, s, task[u][s])
    BY DEF EInv, Chains
  <2>3. PICK t \in Task : t = w /\ t.at = "ask"
    <3>1. w \in Task /\ w.at = "ask"
      BY <2>1, <2>2 DEF Task
    <3> HIDE DEF w
    <3> QED BY <3>1
  <2> HIDE DEF w
  <2>4. Shape(u, s, t)'
    BY <2>1, <2>2, <2>3 DEF Shape
  <2> QED BY <2>1, <2>3, <2>4, ChainGoes
<1>2. CASE AnswerSend(u)
  <2>1. \/ UNCHANGED task
        \/ /\ ans[u].for \in member /\ At(ans[u].for, ans[u].slot, "ask")
           /\ FetchEnds(ans[u].for, ans[u].slot) /\ ans[u] # NoAnswer
    BY <1>2 DEF AnswerSend
  <2>2. ans[u].slot \in Slots /\ member \subseteq Users
    BY DEF EInv, Hearsay, Answer, Plain
  <2>3. ASSUME NEW f \in Users, NEW s \in Slots, At(f, s, "ask"), FetchEnds(f, s)
        PROVE  Chains'
    <3>1. s # "enable"
      BY <2>3 DEF At, EInv, Chains, Shape
    <3> QED BY <2>3, <3>1, FetchChains
  <2> QED BY <2>1, <2>2, <2>3, ChainsStay
<1>3. CASE Offline(u)
  <2>1. task' = [task EXCEPT ![u] = [s \in Slots |-> Idle]]
    BY <1>3 DEF Offline
  <2>2. Idle \in Task
    BY ShapeOfIdle DEF Slots, Rotators
  <2>3. task' \in [Users -> [Slots -> Task]]
    BY <2>1, <2>2 DEF EInv, Chains
  <2>4. ASSUME NEW v \in Users, NEW r \in Slots PROVE Shape(v, r, task[v][r])'
    <3>1. task'[v][r] = Idle \/ task'[v][r] = task[v][r]
      BY <2>1 DEF EInv, Chains
    <3>2. PICK t \in Task : t = task'[v][r] /\ Shape(v, r, t)'
      <4>1. Shape(v, r, Idle)'
        BY ShapeOfIdle
      <4>2. PICK x \in Task : x = task[v][r] /\ Shape(v, r, x)
        BY DEF EInv, Chains
      <4>3. Shape(v, r, x)'
        BY <4>2, ShapeStays DEF EInv
      <4> QED BY <2>2, <3>1, <4>1, <4>2, <4>3
    <3> QED BY <3>2 DEF Shape
  <2> QED BY <2>3, <2>4 DEF Chains
<1>4. CASE Join(u) \/ Leave(u) \/ Blip(u) \/ Online(u) \/ LoadIdentity(u) \/ PublishIdentity(u)
  BY <1>4, ChainsStay DEF Join, Leave, Blip, Online, LoadIdentity, PublishIdentity, Enter
<1> QED BY <1>1, <1>2, <1>3, <1>4

\* Keys that are stored are of the right type, and so is the epoch that is heard.
LEMMA StoredTyped ==
  ASSUME Places, NEW u \in Users, NEW given \in KeyRing, StoreKeys(u, given)
  PROVE  keys' \in [Users -> KeyRing] /\ heard' \in [Users -> 0..MaxEpoch]
<1> DEFINE new == {e \in Epochs : given[e] # NoKey}
           news == (new \ {1}) \cup {heard[u]}
           top == CHOOSE e \in news : \A x \in news : x <= e
           ring == [e \in Epochs |-> IF e \in new THEN given[e] ELSE keys[u][e]]
<1>1. MaxEpoch \in Nat /\ news \subseteq 0..MaxEpoch /\ news # {}
  BY Parameters DEF Places, Epochs
<1>2. top \in news
  <2>1. \E e \in news : \A x \in news : x <= e
    <3> HIDE DEF news
    <3> QED BY <1>1, MaxExists
  <2> HIDE DEF news
  <2> QED BY <2>1
<1>3. keys' = [keys EXCEPT ![u] = ring] /\ heard' = [heard EXCEPT ![u] = top]
  BY DEF StoreKeys, Places
<1>4. ring \in KeyRing
  BY DEF KeyRing, Places
<1>5. top \in 0..MaxEpoch
  BY <1>1, <1>2
<1> HIDE DEF top, ring
<1> QED BY <1>3, <1>4, <1>5 DEF Places

LEMMA OneKeyTyped ==
  ASSUME NEW e, NEW key \in Keys
  PROVE  [Empty EXCEPT ![e] = key] \in KeyRing
BY DEF Empty, KeyRing, Keys

LEMMA WrapTyped ==
  ASSUME Places, NEW m, NEW e, NEW key \in Keys, Wrap(m, e, key)
  PROVE  wrapped' \in [Users -> KeyRing]
<1>1. CASE m \in Users
  <2>1. [wrapped[m] EXCEPT ![e] = key] \in KeyRing
    BY <1>1 DEF Places, KeyRing
  <2>2. wrapped' = [wrapped EXCEPT ![m] = [wrapped[m] EXCEPT ![e] = key]]
    BY DEF Wrap
  <2> QED BY <2>1, <2>2 DEF Places
<1>2. CASE m \notin Users
  BY <1>2 DEF Places, Wrap
<1> QED BY <1>1, <1>2

LEMMA KeyTyped ==
  ASSUME EInv, NEW u \in Users, NEW s \in Slots, task[u][s].at \in {"raw", "members", "share", "done", "won"}
  PROVE  KeyOf(u, s) \in Keys
<1>1. Shape(u, s, task[u][s])
  BY DEF EInv, Chains
<1>2. s \in Rotators \cup {"enable"}
  BY <1>1 DEF Shape, Slots, Waiting
<1> QED BY <1>1, <1>2 DEF Shape, KeyOf, Keys, Claimants, Rotators

\* The keys, wherever they are kept.
LEMMA PlacesGo ==
  ASSUME EInv, Next
  PROVE  Places'
<1>1. ASSUME UNCHANGED <<raw, wrapped, keys, heard>>
      PROVE  Places'
  BY <1>1 DEF EInv, Places
<1>2. ASSUME NEW u \in Users, NEW given \in KeyRing, StoreKeys(u, given), raw' = raw,
             wrapped' \in [Users -> KeyRing]
      PROVE  Places'
  BY <1>2, StoredTyped DEF EInv, Places
<1>3. ASSUME NEW u \in Users,
             \/ MetaAsk(u) \/ MetaSet(u) \/ Enable(u) \/ NobodyShared(u) \/ Put(u)
             \/ TakeChange(u) \/ TimerFires(u) \/ TakeNotice(u) \/ Decrypt(u)
      PROVE  Places'
  <2>1. UNCHANGED <<raw, wrapped, keys, heard>>
    BY <1>3 DEF MetaAsk, MetaSet, Enable, NobodyShared, Put, TakeChange, TimerFires, TakeNotice, Decrypt, server
  <2> QED BY <1>1, <2>1
<1>4. ASSUME NEW u \in Users, Enabled(u)
      PROVE  Places'
  <2>1. task[u]["enable"].at = "done" /\ "enable" \in Slots
    BY <1>4 DEF Enabled, At, Slots
  <2>2. KeyOf(u, "enable") \in Keys
    BY <2>1, KeyTyped
  <2>3. [Empty EXCEPT ![1] = KeyOf(u, "enable")] \in KeyRing
    BY <2>2, OneKeyTyped
  <2>4. StoreKeys(u, [Empty EXCEPT ![1] = KeyOf(u, "enable")]) /\ UNCHANGED <<raw, wrapped>>
    BY <1>4 DEF Enabled, server
  <2> QED BY <1>2, <2>3, <2>4 DEF EInv, Places
<1>5. ASSUME NEW u \in Users, TakeStored(u)
      PROVE  Places'
  BY <1>5, Parameters DEF TakeStored, server, EInv, Places
<1>6. ASSUME NEW u \in Users, NEW s \in Slots, RawPub(u, s)
      PROVE  Places'
  <2>1. KeyOf(u, s) \in Keys
    BY <1>6, KeyTyped DEF RawPub, At
  <2>2. raw' = raw \/ raw' = [raw EXCEPT ![task[u][s].e] = KeyOf(u, s)]
    BY <1>6 DEF RawPub
  <2>3. UNCHANGED <<wrapped, keys, heard>>
    BY <1>6 DEF RawPub
  <2> QED BY <2>1, <2>2, <2>3 DEF EInv, Places, KeyRing
<1>7. ASSUME NEW u \in Users, NEW s \in Slots, NEW m \in Users, Share(u, s, m)
      PROVE  Places'
  <2>1. KeyOf(u, s) \in Keys
    BY <1>7, KeyTyped DEF Share, At
  <2>2. wrapped' = wrapped \/ Wrap(m, task[u][s].e, KeyOf(u, s))
    BY <1>7 DEF Share
  <2>3. wrapped' \in [Users -> KeyRing]
    BY <2>1, <2>2, WrapTyped DEF EInv, Places
  <2>4. UNCHANGED <<raw, keys, heard>>
    BY <1>7 DEF Share
  <2> QED BY <2>3, <2>4 DEF EInv, Places
<1>8. ASSUME NEW u \in Users, NEW s \in Slots, Won(u, s)
      PROVE  Places'
  <2>1. KeyOf(u, s) \in Keys
    BY <1>8, KeyTyped DEF Won, At
  <2>2. [Empty EXCEPT ![task[u][s].e] = KeyOf(u, s)] \in KeyRing
    BY <2>1, OneKeyTyped
  <2>3. StoreKeys(u, [Empty EXCEPT ![task[u][s].e] = KeyOf(u, s)]) /\ UNCHANGED <<raw, wrapped>>
    BY <1>8 DEF Won, server
  <2> QED BY <1>2, <2>2, <2>3 DEF EInv, Places
<1>9. ASSUME NEW u \in Users, NEW s \in Slots, Announce(u, s)
      PROVE  Places'
  <2>1. Pruned(keys[u], task[u][s].e) \in KeyRing
    BY DEF Pruned, EInv, Places, KeyRing, Keys
  <2>2. keys' = [keys EXCEPT ![u] = Pruned(keys[u], task[u][s].e)] /\ UNCHANGED <<raw, wrapped, heard>>
    BY <1>9 DEF Announce, server, EInv, Places
  <2> QED BY <2>1, <2>2 DEF EInv, Places
<1>10. ASSUME NEW u \in Users, NEW s \in Slots, FetchKeys(u, s)
       PROVE  Places'
  <2>1. Unwrapped(u) \in KeyRing
    BY DEF Unwrapped, EInv, Places, KeyRing, Keys
  <2>2. UNCHANGED <<raw, wrapped>> /\ (UNCHANGED <<keys, heard>> \/ StoreKeys(u, Unwrapped(u)))
    BY <1>10 DEF FetchKeys, server
  <2> QED BY <1>1, <1>2, <2>1, <2>2 DEF EInv, Places
<1>11. ASSUME NEW u \in Users, NEW s \in Slots,
              Members(u, s) \/ BumpRead(u, s) \/ BumpWrite(u, s) \/ Reread(u, s) \/ ResetMeta(u, s) \/ AskTimeout(u, s)
       PROVE  Places'
  <2>1. UNCHANGED <<raw, wrapped, keys, heard>>
    BY <1>11 DEF Members, BumpRead, BumpWrite, Reread, ResetMeta, AskTimeout, server
  <2> QED BY <1>1, <2>1
<1>12. ASSUME NEW v \in Users, AnswerSend(v)
       PROVE  Places'
  <2> DEFINE a == ans[v]
             key == keys[v][a.e]
  <2>1. \/ key \in Keys
        \/ UNCHANGED <<raw, wrapped, keys, heard>>
    <3>1. a # NoAnswer
      BY <1>12 DEF AnswerSend
    <3>2. a.e \in Epochs
      BY <3>1 DEF EInv, Hearsay
    <3> QED BY <3>2 DEF EInv, Places, KeyRing
  <2>2. CASE UNCHANGED <<raw, wrapped, keys, heard>>
    BY <1>1, <2>2
  <2>3. CASE key \in Keys
    <3>1. UNCHANGED raw /\ (wrapped' = wrapped \/ Wrap(a.for, a.e, key))
      BY <1>12 DEF AnswerSend
    <3>2. \/ UNCHANGED <<keys, heard>>
          \/ a.for \in member /\ StoreKeys(a.for, [Empty EXCEPT ![a.e] = key])
      BY <1>12 DEF AnswerSend
    <3> HIDE DEF key
    <3>3. wrapped' \in [Users -> KeyRing]
      BY <2>3, <3>1, WrapTyped DEF EInv, Places
    <3>4. [Empty EXCEPT ![a.e] = key] \in KeyRing /\ member \subseteq Users
      BY <2>3, OneKeyTyped DEF EInv, Plain
    <3>5. ASSUME NEW f \in Users, f = a.for, StoreKeys(f, [Empty EXCEPT ![a.e] = key])
          PROVE  Places'
      BY <1>2, <3>1, <3>3, <3>4, <3>5
    <3>6. CASE UNCHANGED <<keys, heard>>
      BY <3>1, <3>3, <3>6 DEF EInv, Places
    <3> QED BY <3>2, <3>4, <3>5, <3>6
  <2> QED BY <2>1, <2>2, <2>3
<1>13. ASSUME NEW u \in Users, NEW s \in Slots, NEW v \in Users, AnswerTake(v, u, s)
       PROVE  Places'
  BY <1>1, <1>13 DEF AnswerTake, server
<1>14. ASSUME NEW u \in Users,
              \/ Join(u) \/ Leave(u) \/ Blip(u) \/ Online(u) \/ LoadIdentity(u) \/ PublishIdentity(u)
       PROVE  Places'
  BY <1>1, <1>14 DEF Join, Leave, Blip, Online, LoadIdentity, PublishIdentity, Enter, server
<1>15. ASSUME NEW u \in Users, Offline(u)
       PROVE  Places'
  BY <1>15, Parameters DEF Offline, server, EInv, Places
<1> QED BY <1>3, <1>4, <1>5, <1>6, <1>7, <1>8, <1>9, <1>10, <1>11, <1>12, <1>13, <1>14, <1>15 DEF Next, Serve

\* What the clients believe, and what is on its way to them.
LEMMA HearsayGoes ==
  ASSUME EInv, Next
  PROVE  Hearsay'
<1>0. MaxEpoch \in Nat /\ Unset \in Unset..MaxEpoch /\ 0..MaxEpoch \subseteq Unset..MaxEpoch
  BY Parameters DEF Unset
<1>1. ASSUME UNCHANGED <<cmeta, notices, ans, belated>>
      PROVE  Hearsay'
  BY <1>1 DEF EInv, Hearsay
<1>2. ASSUME NEW u \in Users, NEW e \in Unset..MaxEpoch,
             cmeta' = [cmeta EXCEPT ![u] = e] \/ UNCHANGED cmeta, UNCHANGED <<notices, ans, belated>>
      PROVE  Hearsay'
  BY <1>2 DEF EInv, Hearsay
<1>3. \A u \in Users, s \in Slots : task[u][s].e \in 0..MaxEpoch /\ task[u][s].e \in Unset..MaxEpoch
  BY <1>0 DEF EInv, Chains, Task
<1>4. ASSUME NEW u \in Users,
             \/ MetaAsk(u) \/ Enable(u) \/ NobodyShared(u) \/ Put(u) \/ TakeChange(u) \/ TimerFires(u) \/ Decrypt(u)
      PROVE  Hearsay'
  <2>1. UNCHANGED <<cmeta, notices, ans, belated>>
    BY <1>4 DEF MetaAsk, Enable, NobodyShared, Put, TakeChange, TimerFires, Decrypt, net
  <2> QED BY <1>1, <2>1
<1>5. ASSUME NEW u \in Users, MetaSet(u)
      PROVE  Hearsay'
  <2>1. cmeta' = [cmeta EXCEPT ![u] = task[u]["meta"].e] /\ UNCHANGED <<notices, ans, belated>> /\ "meta" \in Slots
    BY <1>5 DEF MetaSet, net, Slots
  <2> QED BY <1>2, <1>3, <2>1
<1>6. ASSUME NEW u \in Users, Enabled(u)
      PROVE  Hearsay'
  <2>1. cmeta' = [cmeta EXCEPT ![u] = 1] /\ UNCHANGED <<notices, ans, belated>> /\ 1 \in Unset..MaxEpoch
    BY <1>6, Parameters DEF Enabled, net, Unset
  <2> QED BY <1>2, <2>1
<1>7. ASSUME NEW u \in Users, TakeNotice(u)
      PROVE  Hearsay'
  <2>1. notices \in [Users -> Seq(Epochs)] /\ notices[u] \in Seq(Epochs) /\ notices[u] # <<>>
    BY <1>7 DEF TakeNotice, EInv, Hearsay
  <2>2. Head(notices[u]) \in Epochs /\ Tail(notices[u]) \in Seq(Epochs) /\ Epochs \subseteq Unset..MaxEpoch
    BY <1>0, <2>1 DEF Epochs, Unset
  <2>3. /\ notices' = [notices EXCEPT ![u] = Tail(notices[u])] /\ UNCHANGED <<ans, belated>>
        /\ cmeta' = [cmeta EXCEPT ![u] = IF cmeta[u] > 0 THEN Head(notices[u]) ELSE cmeta[u]]
    BY <1>7 DEF TakeNotice, EInv, Hearsay
  <2> QED BY <2>1, <2>2, <2>3 DEF EInv, Hearsay
<1>8. ASSUME NEW u \in Users, TakeStored(u)
      PROVE  Hearsay'
  <2>1. heard[u] \in Unset..MaxEpoch
    BY <1>0 DEF EInv, Places
  <2>2. UNCHANGED <<notices, ans, belated>>
        /\ cmeta' = [cmeta EXCEPT ![u] = IF cmeta[u] > 0 /\ heard[u] > cmeta[u] THEN heard[u] ELSE cmeta[u]]
    BY <1>8 DEF TakeStored, net, EInv, Hearsay
  <2> QED BY <2>1, <2>2 DEF EInv, Hearsay
<1>9. ASSUME NEW u \in Users, NEW s \in Slots,
             \/ RawPub(u, s) \/ Members(u, s) \/ (\E m \in Users : Share(u, s, m))
             \/ BumpRead(u, s) \/ BumpWrite(u, s) \/ Reread(u, s) \/ FetchKeys(u, s) \/ AskTimeout(u, s)
      PROVE  Hearsay'
  <2>1. CASE RawPub(u, s) \/ Members(u, s) \/ (\E m \in Users : Share(u, s, m))
    <3>1. RawPub(u, s) => UNCHANGED <<cmeta, notices, ans, belated>>
      BY DEF RawPub, net
    <3>2. Members(u, s) => UNCHANGED <<cmeta, notices, ans, belated>>
      BY DEF Members, net
    <3>3. ASSUME NEW m \in Users, Share(u, s, m)
          PROVE  UNCHANGED <<cmeta, notices, ans, belated>>
      BY <3>3 DEF Share, net
    <3> QED BY <1>1, <2>1, <3>1, <3>2, <3>3
  <2>2. CASE BumpRead(u, s) \/ BumpWrite(u, s) \/ Reread(u, s)
    <3>1. UNCHANGED <<cmeta, notices, ans, belated>>
      BY <2>2 DEF BumpRead, BumpWrite, Reread, net
    <3> QED BY <1>1, <3>1
  <2>3. CASE FetchKeys(u, s) \/ AskTimeout(u, s)
    <3>1. UNCHANGED <<cmeta, notices, ans, belated>>
      BY <2>3 DEF FetchKeys, AskTimeout, net
    <3> QED BY <1>1, <3>1
  <2> QED BY <1>9, <2>1, <2>2, <2>3
<1>10. ASSUME NEW u \in Users, NEW s \in Slots, Won(u, s) \/ ResetMeta(u, s)
       PROVE  Hearsay'
  <2>1. UNCHANGED <<notices, ans, belated>>
    BY <1>10 DEF Won, ResetMeta, net
  <2>2. cmeta' \in [Users -> Unset..MaxEpoch]
    <3>1. cmeta' = cmeta \/ cmeta' = [cmeta EXCEPT ![u] = task[u][s].e]
      BY <1>10 DEF Won, ResetMeta, EInv, Hearsay
    <3> QED BY <1>3, <3>1 DEF EInv, Hearsay
  <2> QED BY <2>1, <2>2 DEF EInv, Hearsay
<1>11. ASSUME NEW u \in Users, NEW s \in Slots, Announce(u, s)
       PROVE  Hearsay'
  <2>1. task[u][s].at = "share" /\ s \in Rotators /\ Shape(u, s, task[u][s])
    BY <1>11 DEF Announce, At, EInv, Chains
  <2>2. PICK e \in Epochs : e = task[u][s].e
    BY <2>1 DEF Shape
  <2>3. /\ notices' = [v \in Users |-> IF Ready(v) THEN Append(notices[v], e) ELSE notices[v]]
        /\ UNCHANGED <<cmeta, ans, belated>>
    BY <1>11, <2>2 DEF Announce
  <2>4. \A v \in Users : Append(notices[v], e) \in Seq(Epochs) /\ notices[v] \in Seq(Epochs)
    BY <2>2 DEF EInv, Hearsay
  <2> QED BY <2>3, <2>4 DEF EInv, Hearsay
<1>12. ASSUME NEW u \in Users, NEW s \in Slots, NEW v \in Users, AnswerTake(v, u, s)
       PROVE  Hearsay'
  <2> DEFINE a == [for |-> u, slot |-> s, e |-> cmeta[v]]
  <2>1. UNCHANGED <<cmeta, notices, belated>> /\ ans' = IF cmeta[v] > 0 THEN [ans EXCEPT ![v] = a] ELSE ans
    BY <1>12 DEF AnswerTake, net
  <2>2. cmeta[v] > 0 => a \in Answer /\ a.e \in Epochs
    <3>1. cmeta[v] > 0 => cmeta[v] \in Epochs /\ cmeta[v] \in 0..MaxEpoch
      BY <1>0 DEF EInv, Hearsay, Unset, Epochs
    <3> QED BY <3>1 DEF Answer
  <2> HIDE DEF a
  <2>3. CASE cmeta[v] > 0
    <3>1. ans' \in [Users -> Answer] /\ \A x \in Users : ans'[x] = IF x = v THEN a ELSE ans[x]
      BY <2>1, <2>2, <2>3 DEF EInv, Hearsay
    <3> QED BY <2>1, <2>2, <2>3, <3>1 DEF EInv, Hearsay
  <2>4. CASE ~(cmeta[v] > 0)
    BY <1>1, <2>1, <2>4
  <2> QED BY <2>3, <2>4
<1>13. ASSUME NEW v \in Users, AnswerSend(v)
       PROVE  Hearsay'
  <2>1. UNCHANGED <<cmeta, notices>> /\ ans' = [ans EXCEPT ![v] = NoAnswer] /\ ans[v] # NoAnswer
    BY <1>13 DEF AnswerSend, net
  <2>2. NoAnswer \in Answer
    BY <1>0 DEF NoAnswer, Answer, Slots
  <2>3. ans' \in [Users -> Answer] /\ \A x \in Users : ans'[x] = IF x = v THEN NoAnswer ELSE ans[x]
    BY <2>1, <2>2 DEF EInv, Hearsay
  <2>4. belated' \subseteq Users \X Epochs
    <3>1. belated' = belated \/ (ans[v].for \in member /\ belated' = belated \cup {<<ans[v].for, ans[v].e>>})
      BY <1>13 DEF AnswerSend
    <3>2. ans[v].e \in Epochs /\ member \subseteq Users
      BY <2>1 DEF EInv, Hearsay, Plain
    <3> QED BY <3>1, <3>2 DEF EInv, Hearsay
  <2> QED BY <2>1, <2>3, <2>4 DEF EInv, Hearsay
<1>14. ASSUME NEW u \in Users, Join(u) \/ Leave(u) \/ Online(u) \/ LoadIdentity(u) \/ PublishIdentity(u)
       PROVE  Hearsay'
  BY <1>1, <1>14 DEF Join, Leave, Online, LoadIdentity, PublishIdentity, Enter, net
<1>15. ASSUME NEW u \in Users, Offline(u) \/ Blip(u)
       PROVE  Hearsay'
  <2>1. /\ notices' = [notices EXCEPT ![u] = <<>>] /\ UNCHANGED belated
        /\ UNCHANGED cmeta \/ cmeta' = [cmeta EXCEPT ![u] = Unset]
        /\ UNCHANGED ans \/ ans' = [ans EXCEPT ![u] = NoAnswer]
    BY <1>15 DEF Offline, Blip
  <2>2. NoAnswer \in Answer
    BY <1>0 DEF NoAnswer, Answer, Slots
  <2>3. notices' \in [Users -> Seq(Epochs)]
    <3>1. << >> \in Seq(Epochs)
      OBVIOUS
    <3> QED BY <2>1, <3>1 DEF EInv, Hearsay
  <2>4. cmeta' \in [Users -> Unset..MaxEpoch]
    BY <1>0, <2>1 DEF EInv, Hearsay
  <2>5. ans' \in [Users -> Answer] /\ \A x \in Users : ans'[x] = NoAnswer \/ ans'[x] = ans[x]
    <3>1. CASE UNCHANGED ans
      BY <3>1 DEF EInv, Hearsay
    <3>2. CASE ans' = [ans EXCEPT ![u] = NoAnswer]
      BY <2>2, <3>2 DEF EInv, Hearsay
    <3> QED BY <2>1, <3>1, <3>2
  <2> QED BY <2>1, <2>3, <2>4, <2>5 DEF EInv, Hearsay
<1> QED BY <1>4, <1>5, <1>6, <1>7, <1>8, <1>9, <1>10, <1>11, <1>12, <1>13, <1>14, <1>15 DEF Next, Serve

LEMMA EInvKept ==
  ASSUME EInv, [Next]_vars
  PROVE  EInv' /\ [Election!Next]_<<epoch, won>>
<1>1. CASE UNCHANGED vars
  <2>1. UNCHANGED <<epoch, rev, won>> /\ UNCHANGED task
    BY <1>1 DEF vars, server
  <2>2. Plain' /\ Attempts' /\ Epoch' /\ Places' /\ Hearsay'
    BY <1>1 DEF vars, server, net, bounds, EInv, Plain, Attempts, Epoch, Places, Hearsay
  <2>3. Chains'
    BY <2>1, <2>2, ChainsStay DEF Later
  <2> QED BY <2>1, <2>2, <2>3 DEF EInv
<1>2. CASE Next
  <2>1. Plain' /\ Attempts' /\ Places' /\ Hearsay'
    BY <1>2, PlainGoes, PlacesGo, HearsayGoes
  <2>2. Epoch' /\ Later /\ [Election!Next]_<<epoch, won>>
    BY <1>2, EpochGoes DEF Election!Next
  <2>3. Chains'
    BY <1>2, <2>2, OwnChains, ServedChains, OtherChains DEF Next
  <2> QED BY <2>1, <2>2, <2>3 DEF EInv
<1> QED BY <1>1, <1>2

\* Every variable has its type, however often encryption is enabled.
THEOREM TypeCorrect == Spec => []TypeOK
<1>1. EInv => TypeOK
  BY DEF EInv, Plain, Epoch, Chains, Places, Hearsay, TypeOK
<1> QED BY <1>1, EInvInit, EInvKept, PTL DEF Spec

\* The room begins as the election does.
LEMMA ElectionBegins == Init => Election!Init
<1> SUFFICES ASSUME Init PROVE Election!Init
  OBVIOUS
<1>1. First \in Claimants
  BY Parameters DEF First, Claimants
<1>2. CASE left.enable = 0
  <2>1. epoch = 1 /\ won = [e \in Epochs |-> IF e = 1 THEN {First} ELSE {}]
    BY <1>2 DEF Init
  <2> QED BY <1>1, <2>1 DEF Election!Init, Election!Enabled
<1>3. CASE left.enable # 0
  <2>1. epoch = 0 /\ won = [e \in Epochs |-> {}]
    BY <1>3 DEF Init
  <2> QED BY <2>1 DEF Election!Init
<1> QED BY <1>2, <1>3

\* The service's check and its compare-and-set implement the election of epochs: from
\* one enabling of encryption to the next each epoch is handed out once and in
\* increasing order, however often it is enabled, however many rotations race,
\* whatever fails and whoever reloads.
THEOREM ElectionHeld == Spec => ElectsOnce
<1>1. Init => EInv /\ Election!Init
  BY EInvInit, ElectionBegins
<1>2. EInv /\ [Next]_vars => EInv' /\ [Election!Next]_<<epoch, won>>
  BY EInvKept
<1> QED BY <1>1, <1>2, PTL DEF Spec, ElectsOnce, Election!Spec
=============================================================================
