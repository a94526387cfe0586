--------------------------- MODULE RoomService_proofs ---------------------------
(***************************************************************************)
(* The indexes of room-service's replicas agree with the ROOMS bucket, for *)
(* any rooms, users, replicas and tasks, with crashes, lost connections    *)
(* and failing calls: type correctness and CacheFollowsBucket of           *)
(* RoomMembership.  The handlers of RoomService use the bucket and the     *)
(* indexes only as RoomMembership allows, so what is proved there holds of *)
(* them; no stranger enters a private room; it has one owner; and who is   *)
(* taken out of it is out.                                                 *)
(***************************************************************************)
EXTENDS RoomService, TLAPS

(***************************************************************************)
(* RoomMembership: types.                                                  *)
(***************************************************************************)
LEMMA TypeStep == TypeOK /\ [Next]_vars => TypeOK'
<1> SUFFICES ASSUME TypeOK, [Next]_vars PROVE TypeOK'
  OBVIOUS
<1> USE DEF TypeOK
<1>1. ASSUME NEW t \in Task, NEW s \in Replica, NEW a \in Action, NEW p \in Pair,
             Start(t, s, a, p)
      PROVE  TypeOK'
  BY <1>1 DEF Start, Call
<1>2. ASSUME NEW t \in Task, KvChange(t) PROVE TypeOK'
  <2>1. op[t] \in Call
    BY <1>2 DEF KvChange, Idle
  <2>2. kv' \in SUBSET Pair
    BY <1>2, <2>1 DEF KvChange, Apply, Call
  <2>3. op' \in [Task -> Call \cup {Idle}]
    BY <1>2, <2>1 DEF KvChange, Call
  <2>4. raced' \in SUBSET Pair
    BY <1>2, <2>1 DEF KvChange, NoteRace, Call
  <2> QED
    BY <1>2, <2>2, <2>3, <2>4 DEF KvChange
<1>3. ASSUME NEW t \in Task, KvNoChange(t) PROVE TypeOK'
  BY <1>3 DEF KvNoChange, End
<1>4. ASSUME NEW t \in Task, KvError(t) PROVE TypeOK'
  <2>1. op[t] \in Call
    BY <1>4 DEF KvError, Idle
  <2>2. kv' \in SUBSET Pair /\ raced' \in SUBSET Pair
    BY <1>4, <2>1 DEF KvError, Apply, Call
  <2> QED
    BY <1>4, <2>2 DEF KvError, End
<1>5. ASSUME NEW t \in Task, UpdateLocal(t) PROVE TypeOK'
  <2>1. op[t] \in Call
    BY <1>5 DEF UpdateLocal, Idle
  <2>2. mem' \in [Replica -> SUBSET Pair] /\ dirty' \in [Replica -> SUBSET Pair]
    BY <1>5, <2>1 DEF UpdateLocal, ApplyAt, Apply, Call
  <2>3. op' \in [Task -> Call \cup {Idle}]
    BY <1>5, <2>1 DEF UpdateLocal, Call
  <2> QED
    BY <1>5, <2>2, <2>3 DEF UpdateLocal
<1>6. ASSUME NEW t \in Task, NEW type \in RoomTypes, PublishDelta(t, type) PROVE TypeOK'
  <2>1. op[t] \in Call
    BY <1>6 DEF PublishDelta, Idle
  <2>2. [action |-> op[t].action, pair |-> op[t].pair, type |-> type] \in Delta
    BY <2>1 DEF Call, Delta
  <2>3. inbox' \in [Replica -> Seq(Delta)]
    BY <1>6, <2>2 DEF PublishDelta
  <2> QED
    BY <1>6, <2>3 DEF PublishDelta, End
<1>7. ASSUME NEW s \in Replica, Deliver(s) PROVE TypeOK'
  <2>1. Head(inbox[s]) \in Delta /\ Tail(inbox[s]) \in Seq(Delta)
    BY <1>7 DEF Deliver
  <2>2. mem' \in [Replica -> SUBSET Pair] /\ dirty' \in [Replica -> SUBSET Pair]
    BY <1>7, <2>1 DEF Deliver, ApplyAt, Apply, Delta
  <2> QED
    BY <1>7, <2>1, <2>2 DEF Deliver
<1>8. ASSUME NEW s \in Replica, Hydrate(s) PROVE TypeOK'
  BY <1>8 DEF Hydrate, HydrateRead, HydrateSwap, HydrateFail, Hydrated, Read, Phase
<1>9. ASSUME NEW s \in Replica, Restart(s) \/ Reconnect(s) PROVE TypeOK'
  BY <1>9 DEF Restart, Reconnect, Phase
<1>10. ASSUME NEW s \in Replica, Crash(s) PROVE TypeOK'
  BY <1>10 DEF Crash, Phase
<1>11. ASSUME NEW s \in Replica, Disconnect(s) PROVE TypeOK'
  BY <1>11 DEF Disconnect, Phase
<1>12. CASE UNCHANGED vars
  BY <1>12 DEF vars
<1> QED
  BY <1>1, <1>2, <1>3, <1>4, <1>5, <1>6, <1>7, <1>8, <1>9, <1>10, <1>11, <1>12
  DEF Next, Step, Fault

\* Every variable keeps its type, whatever the faults.
THEOREM TypeCorrect == Spec => []TypeOK
<1>1. Init => TypeOK
  BY DEF Init, TypeOK, Phase
<1> QED
  BY <1>1, TypeStep, PTL DEF Spec

(***************************************************************************)
(* CacheFollowsBucket is not inductive: that the delta a replica is about  *)
(* to apply, or the snapshot it is about to install, is right has to be    *)
(* known before the step.  The pairs of raced are left out throughout.     *)
(***************************************************************************)
InboxEmpty == \A s \in Replica : ~Connected(s) => inbox[s] = <<>>

\* The bucket holds what the one unfinished change of p has made of it.
OpAgrees ==
  \A t \in Task, p \in Pair :
    (Unannounced(t, p) /\ p \notin raced) => (op[t].action = "join" <=> p \in kv)

\* The i-th delta queued for s is the last one about p.
Last(s, i, p) ==
  /\ inbox[s][i].pair = p
  /\ \A j \in 1..Len(inbox[s]) : j > i => inbox[s][j].pair # p

\* The last delta queued for a pair says what the bucket holds.
LastRight ==
  \A s \in Replica, p \in Pair :
    (p \notin raced /\ Quiet(p)) =>
      \A i \in 1..Len(inbox[s]) : Last(s, i, p) => (inbox[s][i].action = "join" <=> p \in kv)

\* A snapshot is right on what has not changed since it was read.
SnapRight ==
  \A s \in Replica, p \in Pair :
    (/\ phase[s] \in {"bootRead", "resyncRead"}
     /\ p \notin raced
     /\ p \notin dirty[s]
     /\ Quiet(p)
     /\ ~Pending(s, p))
    => (p \in snap[s] <=> p \in kv)

IInv ==
  /\ TypeOK
  /\ InboxEmpty
  /\ OpAgrees
  /\ LastRight
  /\ SnapRight
  /\ CacheFollowsBucket

\* Which changes are unannounced decides which pairs are quiet.
LEMMA SameQuiet ==
  ASSUME \A t \in Task, p \in Pair : Unannounced(t, p)' <=> Unannounced(t, p)
  PROVE  \A p \in Pair : Quiet(p)' <=> Quiet(p)
  BY DEF Quiet

\* The steps of a call that neither make nor announce a change.
LEMMA QuietStep ==
  ASSUME TypeOK, NEW t \in Task,
         \/ \E s \in Replica, a \in Action, p \in Pair : Start(t, s, a, p)
         \/ KvNoChange(t)
         \/ KvError(t)
         \/ UpdateLocal(t)
  PROVE  \A u \in Task, p \in Pair :
           /\ Unannounced(u, p)' <=> Unannounced(u, p)
           /\ Unannounced(u, p) => op'[u].action = op[u].action
<1> SUFFICES ASSUME NEW u \in Task, NEW p \in Pair
    PROVE /\ Unannounced(u, p)' <=> Unannounced(u, p)
          /\ Unannounced(u, p) => op'[u].action = op[u].action
  OBVIOUS
<1>1. CASE \E s \in Replica, a \in Action, q \in Pair : Start(t, s, a, q)
  BY <1>1 DEF TypeOK, Start, Unannounced, Idle
<1>2. CASE KvNoChange(t)
  BY <1>2 DEF TypeOK, KvNoChange, End, Unannounced, Idle
<1>3. CASE KvError(t)
  BY <1>3 DEF TypeOK, KvError, End, Unannounced, Idle
<1>4. CASE UpdateLocal(t)
  <2>1. op[t] \in Call
    BY <1>4 DEF TypeOK, UpdateLocal, Idle
  <2> QED
    BY <1>4, <2>1 DEF TypeOK, UpdateLocal, Unannounced, Call
<1> QED
  BY <1>1, <1>2, <1>3, <1>4

\* A step that changes nothing the invariant reads.
LEMMA FrameStep ==
  ASSUME IInv, TypeOK',
         UNCHANGED <<kv, mem, inbox, phase, snap, raced, missed, dirty>>,
         \A u \in Task, p \in Pair :
           /\ Unannounced(u, p)' <=> Unannounced(u, p)
           /\ Unannounced(u, p) => op'[u].action = op[u].action
  PROVE  IInv'
<1>0. \A p \in Pair : Quiet(p)' <=> Quiet(p)
  BY SameQuiet
<1>1. InboxEmpty' /\ OpAgrees'
  BY DEF IInv, InboxEmpty, OpAgrees, Connected
<1>2. LastRight'
  BY <1>0 DEF IInv, LastRight, Last
<1>3. SnapRight' /\ CacheFollowsBucket'
  BY <1>0 DEF IInv, SnapRight, CacheFollowsBucket, Pending
<1> QED
  BY <1>1, <1>2, <1>3 DEF IInv

\* Every step keeps the inductive invariant.
LEMMA InvStep == IInv /\ [Next]_vars => IInv'
<1> SUFFICES ASSUME IInv, [Next]_vars PROVE IInv'
  OBVIOUS
<1>0. TypeOK /\ TypeOK'
  BY TypeStep DEF IInv
<1> USE <1>0
<1>1. ASSUME NEW t \in Task, NEW s \in Replica, NEW a \in Action, NEW p \in Pair,
             Start(t, s, a, p)
      PROVE  IInv'
  BY <1>1, QuietStep, FrameStep DEF Start
<1>2. ASSUME NEW t \in Task, KvChange(t) PROVE IInv'
  <2>0. PICK q \in Pair : q = op[t].pair
    BY <1>2 DEF TypeOK, KvChange, Idle, Call
  <2>1. op[t] \in Call /\ op[t].pair = q /\ op[t].action \in Action
    BY <1>2, <2>0 DEF TypeOK, KvChange, Idle, Call
  <2>2. \A u \in Task, p \in Pair :
          /\ Unannounced(u, p)' <=> (Unannounced(u, p) \/ (u = t /\ p = q))
          /\ Unannounced(u, p)' => op'[u].action = op[u].action
    BY <1>2, <2>1 DEF TypeOK, KvChange, Unannounced, Call
  <2>3. ~Quiet(q)' /\ \A p \in Pair \ {q} : Quiet(p)' <=> Quiet(p)
    BY <2>1, <2>2 DEF Quiet
  <2>4. \A p \in Pair \ {q} : p \in kv' <=> p \in kv
    BY <1>2, <2>1 DEF KvChange, Apply
  <2>5. raced \subseteq raced'
    BY <1>2 DEF KvChange, NoteRace
  <2>6. InboxEmpty'
    BY <1>2 DEF KvChange, IInv, InboxEmpty, Connected
  <2>7. OpAgrees'
    <3> SUFFICES ASSUME NEW u \in Task, NEW p \in Pair, Unannounced(u, p)', p \notin raced'
        PROVE op'[u].action = "join" <=> p \in kv'
      BY DEF OpAgrees
    <3>1. CASE p # q
      BY <3>1, <2>2, <2>4, <2>5 DEF IInv, OpAgrees
    <3>2. CASE p = q
      <4>1. u = t
        BY <3>2, <2>1, <2>2, <1>2 DEF KvChange, NoteRace
      <4> QED
        BY <4>1, <3>2, <2>1, <2>2, <1>2 DEF KvChange, Apply, Action
    <3> QED
      BY <3>1, <3>2
  <2>8. LastRight'
    BY <1>2, <2>3, <2>4, <2>5 DEF KvChange, IInv, LastRight, Last
  <2>9. SnapRight' /\ CacheFollowsBucket'
    BY <1>2, <2>3, <2>4, <2>5 DEF KvChange, IInv, SnapRight, CacheFollowsBucket, Pending
  <2> QED
    BY <2>6, <2>7, <2>8, <2>9 DEF IInv
<1>3. ASSUME NEW t \in Task, KvNoChange(t) PROVE IInv'
  BY <1>3, QuietStep, FrameStep DEF KvNoChange
<1>4. ASSUME NEW t \in Task, KvError(t) PROVE IInv'
  <2>1. \A u \in Task, p \in Pair :
          /\ Unannounced(u, p)' <=> Unannounced(u, p)
          /\ Unannounced(u, p) => op'[u].action = op[u].action
    BY <1>4, QuietStep
  <2>2. \A p \in Pair : Quiet(p)' <=> Quiet(p)
    BY <2>1, SameQuiet
  <2>3. raced \subseteq raced'
    BY <1>4 DEF KvError
  <2>4. \A p \in Pair : p \notin raced' => (p \in kv' <=> p \in kv)
    BY <1>4 DEF KvError, Apply
  <2>5. InboxEmpty' /\ OpAgrees'
    BY <1>4, <2>1, <2>3, <2>4 DEF KvError, IInv, InboxEmpty, Connected, OpAgrees
  <2>6. LastRight'
    BY <1>4, <2>2, <2>3, <2>4 DEF KvError, IInv, LastRight, Last
  <2>7. SnapRight' /\ CacheFollowsBucket'
    BY <1>4, <2>2, <2>3, <2>4 DEF KvError, IInv, SnapRight, CacheFollowsBucket, Pending
  <2> QED
    BY <2>5, <2>6, <2>7 DEF IInv
<1>5. ASSUME NEW t \in Task, UpdateLocal(t) PROVE IInv'
  <2>0. PICK q \in Pair : q = op[t].pair
    BY <1>5 DEF TypeOK, UpdateLocal, Idle, Call
  <2>1. op[t] \in Call /\ op[t].pair = q /\ Unannounced(t, q)
    BY <1>5, <2>0 DEF TypeOK, UpdateLocal, Idle, Call, Unannounced
  <2>2. \A u \in Task, p \in Pair :
          /\ Unannounced(u, p)' <=> Unannounced(u, p)
          /\ Unannounced(u, p) => op'[u].action = op[u].action
    BY <1>5, QuietStep
  <2>3. \A p \in Pair : Quiet(p)' <=> Quiet(p)
    BY <2>2, SameQuiet
  <2>4. ~Quiet(q)'
    BY <2>1, <2>3 DEF Quiet
  <2>5. \A r \in Replica, p \in Pair \ {q} :
          /\ p \in mem'[r] <=> p \in mem[r]
          /\ p \in dirty'[r] <=> p \in dirty[r]
    BY <1>5, <2>1 DEF UpdateLocal, ApplyAt, Apply, TypeOK
  <2>6. InboxEmpty' /\ OpAgrees'
    BY <1>5, <2>2 DEF UpdateLocal, IInv, InboxEmpty, Connected, OpAgrees
  <2>7. LastRight'
    BY <1>5, <2>3 DEF UpdateLocal, IInv, LastRight, Last
  <2>8. SnapRight' /\ CacheFollowsBucket'
    BY <1>5, <2>3, <2>4, <2>5 DEF UpdateLocal, IInv, SnapRight, CacheFollowsBucket, Pending
  <2> QED
    BY <2>6, <2>7, <2>8 DEF IInv
<1>6. ASSUME NEW t \in Task, NEW type \in RoomTypes, PublishDelta(t, type) PROVE IInv'
  <2>0. PICK q \in Pair, delta \in Delta :
          q = op[t].pair /\ delta = [action |-> op[t].action, pair |-> q, type |-> type]
    BY <1>6 DEF TypeOK, PublishDelta, Idle, Call, Delta
  <2>1. /\ op[t] \in Call /\ op[t].pair = q /\ Unannounced(t, q)
        /\ delta.action = op[t].action /\ delta.pair = q
    BY <1>6, <2>0 DEF TypeOK, PublishDelta, Idle, Call, Unannounced
  <2>2. \A u \in Task, p \in Pair :
          /\ Unannounced(u, p)' => Unannounced(u, p)
          /\ Unannounced(u, p)' => op'[u].action = op[u].action
          /\ p # q => (Unannounced(u, p)' <=> Unannounced(u, p))
    BY <1>6, <2>1 DEF TypeOK, PublishDelta, End, Unannounced, Idle
  <2>3. \A p \in Pair \ {q} : Quiet(p)' <=> Quiet(p)
    BY <2>2 DEF Quiet
  <2>4. \A s \in Replica :
          /\ inbox[s] \in Seq(Delta)
          /\ Connected(s) => inbox'[s] = Append(inbox[s], delta)
          /\ ~Connected(s) => inbox'[s] = inbox[s]
    BY <1>6, <2>0 DEF TypeOK, PublishDelta
  <2>5. \A s \in Replica : Connected(s) => Pending(s, q)'
    <3> SUFFICES ASSUME NEW s \in Replica, Connected(s) PROVE Pending(s, q)'
      OBVIOUS
    <3>1. /\ Len(inbox'[s]) = Len(inbox[s]) + 1
          /\ inbox'[s][Len(inbox[s]) + 1] = delta
          /\ Len(inbox[s]) \in Nat
      BY <2>1, <2>4
    <3> QED
      BY <2>1, <3>1 DEF Pending
  <2>6. \A s \in Replica, p \in Pair : Pending(s, p) => Pending(s, p)'
    BY <2>1, <2>4 DEF Pending
  <2>7. InboxEmpty'
    BY <1>6, <2>4 DEF PublishDelta, IInv, InboxEmpty, Connected
  <2>8. OpAgrees'
    BY <1>6, <2>2 DEF PublishDelta, IInv, OpAgrees
  <2>9. LastRight'
    <3> SUFFICES ASSUME NEW s \in Replica, NEW p \in Pair, p \notin raced', Quiet(p)',
                        NEW i \in 1..Len(inbox'[s]), Last(s, i, p)'
                 PROVE  inbox'[s][i].action = "join" <=> p \in kv'
      BY DEF LastRight
    <3>1. kv' = kv /\ raced' = raced
      BY <1>6 DEF PublishDelta
    <3>2. CASE Connected(s)
      <4>1. /\ Len(inbox'[s]) = Len(inbox[s]) + 1
            /\ inbox'[s][Len(inbox[s]) + 1] = delta
            /\ \A j \in 1..Len(inbox[s]) : inbox'[s][j] = inbox[s][j]
            /\ Len(inbox[s]) \in Nat
        BY <2>1, <2>4, <3>2
      <4>2. CASE i = Len(inbox[s]) + 1
        <5>1. p = q
          BY <4>1, <4>2, <2>1 DEF Last
        <5> QED
          BY <5>1, <4>1, <4>2, <2>1, <3>1 DEF IInv, OpAgrees
      <4>3. CASE i \in 1..Len(inbox[s])
        <5>1. p # q
          BY <4>1, <4>3, <2>1 DEF Last
        <5>2. Quiet(p)
          BY <5>1, <2>3
        <5>3. inbox[s][i] = inbox'[s][i]
          BY <4>1, <4>3
        <5>4. \A j \in 1..Len(inbox[s]) : j \in 1..Len(inbox'[s]) /\ inbox[s][j] = inbox'[s][j]
          BY <4>1
        <5>5. Last(s, i, p)
          BY <5>3, <5>4 DEF Last
        <5> QED
          BY <4>3, <5>2, <5>3, <5>5, <3>1 DEF IInv, LastRight
      <4> QED
        BY <4>1, <4>2, <4>3
    <3>3. CASE ~Connected(s)
      BY <3>3, <2>4 DEF IInv, InboxEmpty
    <3> QED
      BY <3>2, <3>3
  <2>10. SnapRight'
    BY <1>6, <2>3, <2>5, <2>6 DEF PublishDelta, IInv, SnapRight, Connected
  <2>11. CacheFollowsBucket'
    BY <1>6, <2>3, <2>5, <2>6 DEF PublishDelta, IInv, CacheFollowsBucket, Connected
  <2> QED
    BY <2>7, <2>8, <2>9, <2>10, <2>11 DEF IInv
<1>7. ASSUME NEW s \in Replica, Deliver(s) PROVE IInv'
  <2>0. /\ inbox[s] \in Seq(Delta) /\ Len(inbox[s]) \in Nat /\ Len(inbox[s]) >= 1
        /\ Head(inbox[s]) = inbox[s][1] /\ Head(inbox[s]) \in Delta
    BY <1>7 DEF Deliver, TypeOK
  <2>1. PICK d \in Delta, q \in Pair : d = Head(inbox[s]) /\ q = d.pair
    BY <2>0 DEF Delta
  <2>2. /\ Len(inbox'[s]) = Len(inbox[s]) - 1
        /\ \A i \in 1..Len(inbox'[s]) : inbox'[s][i] = inbox[s][i + 1]
        /\ \A r \in Replica \ {s} : inbox'[r] = inbox[r]
    BY <1>7, <2>0 DEF Deliver, TypeOK
  <2>3. \A p \in Pair : Quiet(p)' <=> Quiet(p)
    BY <1>7 DEF Deliver, Quiet, Unannounced
  <2>4. ASSUME NEW r \in Replica, NEW p \in Pair, r # s \/ p # q
        PROVE  /\ Pending(r, p)' <=> Pending(r, p)
               /\ p \in mem'[r] <=> p \in mem[r]
               /\ p \in dirty'[r] <=> p \in dirty[r]
    <3>1. p \in mem'[r] <=> p \in mem[r]
      BY <1>7, <2>1, <2>4 DEF Deliver, ApplyAt, Apply, TypeOK
    <3>2. p \in dirty'[r] <=> p \in dirty[r]
      BY <1>7, <2>1, <2>4 DEF Deliver, ApplyAt, TypeOK
    <3>3. CASE r # s
      BY <3>1, <3>2, <3>3, <2>2 DEF Pending
    <3>4. CASE r = s /\ p # q
      <4>1. Pending(s, p)' => Pending(s, p)
        BY <2>0, <2>1, <2>2 DEF Pending
      <4>2. ASSUME NEW i \in 1..Len(inbox[s]), inbox[s][i].pair = p PROVE Pending(s, p)'
        <5>1. i - 1 \in 1..Len(inbox'[s])
          BY <4>2, <3>4, <2>0, <2>1, <2>2
        <5>2. inbox'[s][i - 1].pair = p
          BY <5>1, <4>2, <2>2
        <5> QED
          BY <5>1, <5>2 DEF Pending
      <4> QED
        BY <3>1, <3>2, <3>4, <4>1, <4>2 DEF Pending
    <3> QED
      BY <2>4, <3>3, <3>4
  <2>5. InboxEmpty'
    BY <1>7, <2>2 DEF Deliver, IInv, InboxEmpty, Connected
  <2>6. OpAgrees'
    BY <1>7 DEF Deliver, IInv, OpAgrees, Unannounced
  <2>7. LastRight'
    <3> SUFFICES ASSUME NEW r \in Replica, NEW p \in Pair, p \notin raced', Quiet(p)',
                        NEW i \in 1..Len(inbox'[r]), Last(r, i, p)'
                 PROVE  inbox'[r][i].action = "join" <=> p \in kv'
      BY DEF LastRight
    <3>0. kv' = kv /\ raced' = raced
      BY <1>7 DEF Deliver
    <3>1. CASE r # s
      BY <3>1, <3>0, <2>2, <2>3 DEF IInv, LastRight, Last
    <3>2. CASE r = s
      <4>1. i + 1 \in 1..Len(inbox[s]) /\ inbox'[s][i] = inbox[s][i + 1]
        BY <3>2, <2>0, <2>1, <2>2
      <4>2. Last(s, i + 1, p)
        <5>1. ASSUME NEW j \in 1..Len(inbox[s]), j > i + 1 PROVE inbox[s][j].pair # p
          <6>1. j - 1 \in 1..Len(inbox'[s]) /\ j - 1 > i /\ inbox'[s][j - 1] = inbox[s][j]
            BY <5>1, <3>2, <2>0, <2>1, <2>2
          <6> QED
            BY <6>1, <3>2 DEF Last
        <5> QED
          BY <5>1, <4>1, <3>2 DEF Last
      <4> QED
        BY <3>0, <3>2, <4>1, <4>2, <2>3 DEF IInv, LastRight
    <3> QED
      BY <3>1, <3>2
  <2>8. ASSUME q \notin raced, Quiet(q), ~Pending(s, q)'
        PROVE  d.action = "join" <=> q \in kv
    <3>1. Last(s, 1, q)
      <4>1. ASSUME NEW j \in 1..Len(inbox[s]), j > 1 PROVE inbox[s][j].pair # q
        <5>1. j - 1 \in 1..Len(inbox'[s]) /\ inbox'[s][j - 1] = inbox[s][j]
          BY <4>1, <2>0, <2>1, <2>2
        <5> QED
          BY <5>1, <2>8 DEF Pending
      <4> QED
        BY <4>1, <2>0, <2>1 DEF Last
    <3> QED
      BY <3>1, <2>0, <2>1, <2>8 DEF IInv, LastRight
  <2>9. SnapRight'
    <3> SUFFICES ASSUME NEW r \in Replica, NEW p \in Pair,
                        phase'[r] \in {"bootRead", "resyncRead"}, p \notin raced',
                        p \notin dirty'[r], Quiet(p)', ~Pending(r, p)'
                 PROVE  p \in snap'[r] <=> p \in kv'
      BY DEF SnapRight
    <3>1. CASE r = s /\ p = q
      BY <3>1, <1>7, <2>1 DEF Deliver, ApplyAt, TypeOK
    <3>2. CASE r # s \/ p # q
      <4>1. p \notin dirty[r] /\ ~Pending(r, p) /\ Quiet(p)
        BY <3>2, <2>3, <2>4
      <4> QED
        BY <4>1, <1>7 DEF Deliver, IInv, SnapRight
    <3> QED
      BY <3>1, <3>2
  <2>10. CacheFollowsBucket'
    <3> SUFFICES ASSUME NEW r \in Replica, NEW p \in Pair,
                        phase'[r] = "ready", p \notin raced', <<r, p>> \notin missed',
                        Quiet(p)', ~Pending(r, p)'
                 PROVE  p \in mem'[r] <=> p \in kv'
      BY DEF CacheFollowsBucket
    <3>1. CASE r = s /\ p = q
      <4>1. d.action = "join" <=> q \in kv
        BY <3>1, <1>7, <2>3, <2>8 DEF Deliver
      <4>2. q \in mem'[s] <=> d.action = "join"
        BY <1>7, <2>1 DEF Deliver, ApplyAt, Apply, TypeOK
      <4> QED
        BY <3>1, <4>1, <4>2, <1>7 DEF Deliver
    <3>2. CASE r # s \/ p # q
      <4>1. (p \in mem'[r] <=> p \in mem[r]) /\ ~Pending(r, p) /\ Quiet(p)
        BY <3>2, <2>3, <2>4
      <4> QED
        BY <4>1, <1>7 DEF Deliver, IInv, CacheFollowsBucket
    <3> QED
      BY <3>1, <3>2
  <2> QED
    BY <2>5, <2>6, <2>7, <2>9, <2>10 DEF IInv
<1>8. ASSUME NEW s \in Replica, HydrateRead(s) \/ HydrateSwap(s) \/ HydrateFail(s)
      PROVE  IInv'
  <2>1. /\ UNCHANGED <<kv, inbox, op, raced>>
        /\ \A r \in Replica : Connected(r)' <=> Connected(r)
        /\ \A r \in Replica \ {s} : /\ phase'[r] = phase[r] /\ snap'[r] = snap[r]
                                     /\ dirty'[r] = dirty[r] /\ mem'[r] = mem[r]
        /\ missed \subseteq missed'
    BY <1>8 DEF HydrateRead, HydrateSwap, HydrateFail, Hydrated, Read, Connected, TypeOK
  <2>2. \A p \in Pair : Quiet(p)' <=> Quiet(p)
    BY <2>1 DEF Quiet, Unannounced
  <2>3. InboxEmpty' /\ OpAgrees'
    BY <2>1 DEF IInv, InboxEmpty, OpAgrees, Unannounced
  <2>4. LastRight'
    BY <2>1, <2>2 DEF IInv, LastRight, Last
  <2>5. SnapRight'
    <3>1. CASE HydrateRead(s)
      BY <3>1, <2>1, <2>2 DEF HydrateRead, IInv, SnapRight, Pending, TypeOK
    <3>2. CASE HydrateSwap(s) \/ HydrateFail(s)
      BY <3>2, <2>1, <2>2
      DEF HydrateSwap, HydrateFail, Hydrated, IInv, SnapRight, Pending, TypeOK
    <3> QED
      BY <1>8, <3>1, <3>2
  <2>6. CacheFollowsBucket'
    <3> SUFFICES ASSUME NEW r \in Replica, NEW p \in Pair,
                        phase'[r] = "ready", p \notin raced', <<r, p>> \notin missed',
                        Quiet(p)', ~Pending(r, p)'
                 PROVE  p \in mem'[r] <=> p \in kv'
      BY DEF CacheFollowsBucket
    <3>1. <<r, p>> \notin missed /\ Quiet(p) /\ ~Pending(r, p)
      BY <2>1, <2>2 DEF Pending
    <3>2. CASE r # s
      BY <3>1, <3>2, <2>1 DEF IInv, CacheFollowsBucket
    <3>3. CASE r = s /\ HydrateRead(s)
      BY <3>3 DEF HydrateRead, Read, TypeOK
    <3>4. CASE r = s /\ HydrateSwap(s)
      <4>1. p \notin dirty[s] /\ mem'[s] = snap[s] /\ phase[s] \in {"bootRead", "resyncRead"}
        BY <3>4 DEF HydrateSwap, TypeOK
      <4> QED
        BY <3>1, <3>4, <4>1, <2>1 DEF IInv, SnapRight
    <3>5. CASE r = s /\ HydrateFail(s)
      BY <3>5 DEF HydrateFail
    <3> QED
      BY <1>8, <3>2, <3>3, <3>4, <3>5
  <2> QED
    BY <2>3, <2>4, <2>5, <2>6 DEF IInv
<1>9. ASSUME NEW s \in Replica, Restart(s) \/ Reconnect(s) PROVE IInv'
  <2>1. /\ UNCHANGED <<kv, mem, inbox, op, snap, raced, missed, dirty>>
        /\ phase' = [phase EXCEPT ![s] = phase'[s]]
        /\ phase[s] \in {"down", "lost"} /\ phase'[s] \in {"boot", "resync"}
    BY <1>9 DEF Restart, Reconnect, TypeOK
  <2>2. \A p \in Pair : Quiet(p)' <=> Quiet(p)
    BY <2>1 DEF Quiet, Unannounced
  <2>3. InboxEmpty' /\ OpAgrees'
    BY <2>1 DEF IInv, InboxEmpty, Connected, OpAgrees, Unannounced, TypeOK
  <2>4. LastRight'
    BY <2>1, <2>2 DEF IInv, LastRight, Last
  <2>5. SnapRight' /\ CacheFollowsBucket'
    BY <2>1, <2>2 DEF IInv, SnapRight, CacheFollowsBucket, Pending, TypeOK
  <2> QED
    BY <2>3, <2>4, <2>5 DEF IInv
<1>10. ASSUME NEW s \in Replica, Crash(s) PROVE IInv'
  <2>1. \A u \in Task, p \in Pair :
          /\ Unannounced(u, p)' => Unannounced(u, p) /\ op'[u] = op[u]
          /\ p \notin raced' => (Unannounced(u, p)' <=> Unannounced(u, p))
    BY <1>10 DEF Crash, Unannounced, Idle, TypeOK
  <2>2. raced \subseteq raced'
    BY <1>10 DEF Crash
  <2>3. \A p \in Pair : p \notin raced' => (Quiet(p)' <=> Quiet(p))
    BY <2>1 DEF Quiet
  <2>4. /\ kv' = kv /\ missed' = missed
        /\ phase'[s] = "down" /\ inbox'[s] = <<>>
        /\ \A r \in Replica \ {s} : /\ phase'[r] = phase[r] /\ inbox'[r] = inbox[r]
                                     /\ snap'[r] = snap[r] /\ dirty'[r] = dirty[r]
                                     /\ mem'[r] = mem[r]
    BY <1>10 DEF Crash, TypeOK
  <2>5. InboxEmpty' /\ OpAgrees'
    BY <2>1, <2>2, <2>4 DEF IInv, InboxEmpty, Connected, OpAgrees
  <2>6. LastRight'
    <3> SUFFICES ASSUME NEW r \in Replica, NEW p \in Pair, p \notin raced', Quiet(p)',
                        NEW i \in 1..Len(inbox'[r]), Last(r, i, p)'
                 PROVE  inbox'[r][i].action = "join" <=> p \in kv'
      BY DEF LastRight
    <3>1. r # s
      BY <2>4
    <3> QED
      BY <3>1, <2>2, <2>3, <2>4 DEF IInv, LastRight, Last
  <2>7. SnapRight' /\ CacheFollowsBucket'
    BY <2>2, <2>3, <2>4 DEF IInv, SnapRight, CacheFollowsBucket, Pending
  <2> QED
    BY <2>5, <2>6, <2>7 DEF IInv
<1>11. ASSUME NEW s \in Replica, Disconnect(s) PROVE IInv'
  <2>1. /\ UNCHANGED <<kv, mem, op, raced, missed>>
        /\ phase'[s] = "lost" /\ inbox'[s] = <<>>
        /\ \A r \in Replica \ {s} : /\ phase'[r] = phase[r] /\ inbox'[r] = inbox[r]
                                     /\ snap'[r] = snap[r] /\ dirty'[r] = dirty[r]
    BY <1>11 DEF Disconnect, TypeOK
  <2>2. \A p \in Pair : Quiet(p)' <=> Quiet(p)
    BY <2>1 DEF Quiet, Unannounced
  <2>3. InboxEmpty' /\ OpAgrees'
    BY <2>1 DEF IInv, InboxEmpty, Connected, OpAgrees, Unannounced
  <2>4. LastRight'
    <3> SUFFICES ASSUME NEW r \in Replica, NEW p \in Pair, p \notin raced', Quiet(p)',
                        NEW i \in 1..Len(inbox'[r]), Last(r, i, p)'
                 PROVE  inbox'[r][i].action = "join" <=> p \in kv'
      BY DEF LastRight
    <3>1. r # s
      BY <2>1
    <3> QED
      BY <3>1, <2>1, <2>2 DEF IInv, LastRight, Last
  <2>5. SnapRight' /\ CacheFollowsBucket'
    BY <2>1, <2>2 DEF IInv, SnapRight, CacheFollowsBucket, Pending
  <2> QED
    BY <2>3, <2>4, <2>5 DEF IInv
<1>12. CASE UNCHANGED vars
  BY <1>12, FrameStep DEF vars, Unannounced
<1> QED
  BY <1>1, <1>2, <1>3, <1>4, <1>5, <1>6, <1>7, <1>8, <1>9, <1>10, <1>11, <1>12
  DEF Next, Step, Hydrate, Fault

\* A hydrated replica lists exactly the bucket's members of a room, save for
\* changes under way, overlapping changes and what a hydration overwrote.
THEOREM CacheCorrect == Spec => []CacheFollowsBucket
<1>1. Init => IInv
  BY DEF Init, IInv, TypeOK, Phase, InboxEmpty, OpAgrees, LastRight, SnapRight,
         CacheFollowsBucket, Unannounced, Idle
<1>2. IInv => CacheFollowsBucket
  BY DEF IInv
<1> QED
  BY <1>1, <1>2, InvStep, PTL DEF Spec

(***************************************************************************)
(* RoomService: types.                                                     *)
(***************************************************************************)
LEMMA JobType ==
  ASSUME ServiceTypeOK, NEW t \in Task, job[t].kind \in Kind
  PROVE  /\ job[t] \in Job
         /\ job[t].kind \in Kind
         /\ job[t].at \in Replica
         /\ job[t].room \in Room
         /\ job[t].by \in User
         /\ job[t].who \in User
         /\ job[t].heir \in User
         /\ About(t) \in Pair
  BY DEF ServiceTypeOK, Job, NoJob, Kind, Adding, Revoking, About, Pair

\* A handler that moves on within the statements of the code stays a job.
LEMMA GotoType ==
  ASSUME ServiceTypeOK, NEW t \in Task, job[t].kind \in Kind, NEW pc \in Pc, Goto(t, pc)
  PROVE  job' \in [Task -> Job \cup {NoJob}]
<1>1. job[t] \in Job
  BY JobType
<1> QED
  BY <1>1 DEF ServiceTypeOK, Goto, Job

\* A handler that ends leaves no job.
LEMMA DropType ==
  ASSUME ServiceTypeOK, NEW t \in Task, Drop(t)
  PROVE  job' \in [Task -> Job \cup {NoJob}]
  BY DEF ServiceTypeOK, Drop

\* What follows addToRoom and removeFromRoom is a job or none.
LEMMA AnswerType ==
  ASSUME ServiceTypeOK, NEW t \in Task, job[t].kind \in Kind, Answer(t)
  PROVE  job' \in [Task -> Job \cup {NoJob}]
  BY GotoType, DropType DEF Answer, Pc

(***************************************************************************)
(* A task is inside addToRoom or removeFromRoom only on behalf of the      *)
(* request it handles.                                                     *)
(***************************************************************************)
OpOfJob ==
  \A t \in Task : op[t] # Idle =>
    /\ job[t].kind \in Kind
    /\ job[t].pc \in {"bucket", "lastBucket"}
    /\ op[t].at = job[t].at
    /\ op[t].pair = About(t)
    /\ op[t].action = "join" => (job[t].kind \in Adding /\ job[t].pc = "bucket")

SInv == TypeOK /\ ServiceTypeOK /\ OpOfJob

\* What a step of task t's handler has to leave behind.
Kept ==
  /\ [Next]_vars
  /\ job' \in [Task -> Job \cup {NoJob}]
  /\ OpOfJob'

\* A task between two calls of addToRoom or removeFromRoom is in neither.
LEMMA AtIdle ==
  ASSUME SInv, NEW t \in Task, NEW kinds \in SUBSET Kind, NEW pc, At(t, kinds, pc),
         pc \notin {"bucket", "lastBucket"}
  PROVE  op[t] = Idle /\ job[t].kind \in Kind /\ job[t].pc = pc
  BY DEF SInv, OpOfJob, At

\* A step that leaves the bucket alone and moves an idle task on, or drops its job.
LEMMA StillKept ==
  ASSUME SInv, NEW t \in Task, op[t] = Idle, UNCHANGED vars,
         job' \in [Task -> Job \cup {NoJob}],
         \A u \in Task \ {t} : job'[u] = job[u]
  PROVE  Kept
<1>1. OpOfJob'
  BY DEF SInv, OpOfJob, About, vars
<1> QED
  BY <1>1 DEF Kept

\* The steps that only read keep the invariant.
LEMMA ReadKept ==
  ASSUME SInv, NEW t \in Task, job[t].kind \in Kind, op[t] = Idle, UNCHANGED vars,
         NEW pc \in Pc, Goto(t, pc) \/ Drop(t)
  PROVE  Kept
<1>1. job' \in [Task -> Job \cup {NoJob}]
  BY GotoType, DropType DEF SInv
<1>2. \A u \in Task \ {t} : job'[u] = job[u]
  BY DEF SInv, ServiceTypeOK, Goto, Drop
<1> QED
  BY <1>1, <1>2, StillKept

\* A step that enters addToRoom or removeFromRoom.
LEMMA BucketKept ==
  ASSUME SInv, NEW t \in Task, job[t].kind \in Kind,
         NEW pc \in {"bucket", "lastBucket"}, ToBucket(t, pc),
         job[t].kind \in Adding => pc = "bucket"
  PROVE  Kept
<1> DEFINE a == IF job[t].kind \in Adding THEN "join" ELSE "leave"
<1>1. job[t] \in Job /\ About(t) \in Pair /\ job[t].at \in Replica
  BY JobType DEF SInv
<1>2. Start(t, job[t].at, a, About(t)) /\ a \in Action
  BY DEF ToBucket, StartBucket, Action
<1>3. Next
  BY <1>1, <1>2 DEF Next
<1>4. job' \in [Task -> Job \cup {NoJob}]
  BY GotoType DEF SInv, ToBucket, Pc
<1>5. /\ job'[t] = [job[t] EXCEPT !.pc = pc]
      /\ \A u \in Task \ {t} : job'[u] = job[u] /\ op'[u] = op[u]
      /\ op'[t] = [pc |-> "kv", action |-> a, at |-> job[t].at, pair |-> About(t)]
  BY <1>2 DEF SInv, ServiceTypeOK, TypeOK, ToBucket, Goto, Start
<1>6. /\ job'[t].kind = job[t].kind /\ job'[t].pc = pc /\ job'[t].at = job[t].at
      /\ job'[t].room = job[t].room /\ job'[t].who = job[t].who
  BY <1>1, <1>5 DEF Job
<1>7. OpOfJob'
  <2> SUFFICES ASSUME NEW u \in Task, op'[u] # Idle
               PROVE  /\ job'[u].kind \in Kind
                      /\ job'[u].pc \in {"bucket", "lastBucket"}
                      /\ op'[u].at = job'[u].at
                      /\ op'[u].pair = About(u)'
                      /\ op'[u].action = "join" => (job'[u].kind \in Adding /\ job'[u].pc = "bucket")
    BY DEF OpOfJob
  <2>1. CASE u = t
    <3>1. /\ op'[t].at = job[t].at /\ op'[t].pair = <<job[t].room, job[t].who>>
          /\ op'[t].action = a
      BY <1>5 DEF About
    <3>2. About(t)' = <<job[t].room, job[t].who>>
      BY <1>6 DEF About
    <3> QED
      BY <2>1, <3>1, <3>2, <1>6
  <2>2. CASE u # t
    BY <2>2, <1>5 DEF SInv, OpOfJob, About
  <2> QED
    BY <2>1, <2>2
<1> QED
  BY <1>3, <1>4, <1>7 DEF Kept

\* A step inside addToRoom or removeFromRoom, and the answer that follows.
LEMMA StepKept ==
  ASSUME SInv, NEW t \in Task, op[t] # Idle, Step(t),
         \/ Answer(t) /\ op' = [op EXCEPT ![t] = Idle]
         \/ job' = job /\ \E pc : op' = [op EXCEPT ![t].pc = pc]
  PROVE  Kept
<1>1. Next
  BY DEF Next
<1>2. job[t].kind \in Kind /\ op[t] \in Call
  BY DEF SInv, OpOfJob, TypeOK
<1>3. job' \in [Task -> Job \cup {NoJob}]
  BY <1>2, AnswerType DEF SInv, ServiceTypeOK
<1>4. CASE Answer(t) /\ op' = [op EXCEPT ![t] = Idle]
  <2>1. \A u \in Task \ {t} : job'[u] = job[u] /\ op'[u] = op[u]
    BY <1>4 DEF SInv, ServiceTypeOK, TypeOK, Answer, Goto, Drop
  <2>2. op'[t] = Idle
    BY <1>4 DEF SInv, TypeOK
  <2> QED
    BY <1>1, <1>3, <2>1, <2>2 DEF SInv, OpOfJob, About, Kept
<1>5. CASE job' = job /\ \E pc : op' = [op EXCEPT ![t].pc = pc]
  <2>1. PICK pc : op' = [op EXCEPT ![t].pc = pc]
    BY <1>5
  <2>2. /\ \A u \in Task \ {t} : op'[u] = op[u]
        /\ op'[t].at = op[t].at /\ op'[t].pair = op[t].pair /\ op'[t].action = op[t].action
    BY <1>2, <2>1 DEF SInv, TypeOK, Call
  <2> QED
    BY <1>1, <1>3, <1>5, <2>2 DEF SInv, OpOfJob, About, Kept
<1> QED
  BY <1>4, <1>5
(***************************************************************************)
(* One step per action of the service.                                     *)
(***************************************************************************)
LEMMA BeginKept ==
  ASSUME SInv, NEW t \in Task, NEW kind \in Kind, NEW s \in Replica, NEW r \in Room,
         NEW by \in User, NEW who \in User, Begin(t, kind, s, r, by, who)
  PROVE  Kept
<1> DEFINE j == [kind |-> kind, pc |-> First(kind), at |-> s, room |-> r,
                 by |-> by, who |-> who, heir |-> by]
<1>1. j \in Job
  BY DEF Job, First, Pc, Kind, Adding, Revoking
<1>2. /\ job' \in [Task -> Job \cup {NoJob}] /\ job'[t] = j
      /\ \A u \in Task \ {t} : job'[u] = job[u]
  BY <1>1 DEF Begin, SInv, ServiceTypeOK
<1>3. CASE kind = "leave"
  <2>1. Start(t, s, "leave", <<r, who>>)
    BY <1>3 DEF Begin, StartBucket, Adding
  <2>2. Next
    BY <2>1 DEF Next, Action, Pair
  <2>3. /\ op'[t] = [pc |-> "kv", action |-> "leave", at |-> s, pair |-> <<r, who>>]
        /\ \A u \in Task \ {t} : op'[u] = op[u]
    BY <2>1 DEF Start, SInv, TypeOK
  <2>4. job'[t].pc = "bucket"
    BY <1>2, <1>3 DEF First
  <2>5. OpOfJob'
    BY <1>2, <2>3, <2>4 DEF SInv, OpOfJob, About
  <2> QED
    BY <1>2, <2>2, <2>5 DEF Kept
<1>4. CASE kind # "leave"
  <2>1. op[t] = Idle /\ UNCHANGED vars
    BY <1>4 DEF Begin
  <2> QED
    BY <1>2, <2>1, StillKept
<1> QED
  BY <1>3, <1>4

\* Each query of a handler keeps the invariant.
LEMMA QueryKept ==
  ASSUME SInv, NEW t \in Task,
         \/ Gate(t) \/ Count(t) \/ Authorize(t)
         \/ TargetRole(t) \/ OwnRole(t) \/ PickHeir(t)
  PROVE  Kept
<1> USE DEF ReadTo, GiveUp, ReadBadly, LetIn, Kind, Adding, Revoking, Pc
<1>1. CASE Gate(t)
  <2>1. op[t] = Idle /\ job[t].kind \in Kind
    BY <1>1, AtIdle DEF Gate
  <2> QED
    BY <1>1, <2>1, ReadKept, BucketKept DEF Gate
<1>2. CASE Count(t)
  <2>1. op[t] = Idle /\ job[t].kind \in Kind
    BY <1>2, AtIdle DEF Count
  <2> QED
    BY <1>2, <2>1, ReadKept, BucketKept DEF Count
<1>3. CASE Authorize(t)
  <2>1. op[t] = Idle /\ job[t].kind \in Kind
    BY <1>3, AtIdle DEF Authorize
  <2> QED
    BY <1>3, <2>1, ReadKept DEF Authorize
<1>4. CASE TargetRole(t)
  <2>1. op[t] = Idle /\ job[t].kind \in Kind
    BY <1>4, AtIdle DEF TargetRole
  <2> QED
    BY <1>4, <2>1, ReadKept DEF TargetRole
<1>5. CASE OwnRole(t)
  <2>1. op[t] = Idle /\ job[t].kind \in Kind
    BY <1>5, AtIdle DEF OwnRole
  <2> QED
    BY <1>5, <2>1, ReadKept DEF OwnRole
<1>6. CASE PickHeir(t)
  <2>1. op[t] = Idle /\ job[t].kind \in Kind
    BY <1>6, AtIdle DEF PickHeir
  <2>2. ASSUME NEW h \in Heirs(job[t].room, job[t].by),
               job' = [job EXCEPT ![t].heir = h, ![t].pc = "promote"], UNCHANGED vars
        PROVE  Kept
    <3>1. h \in User
      BY DEF Heirs, Others
    <3>2. job[t] \in Job
      BY <2>1, JobType DEF SInv
    <3>3. job' \in [Task -> Job \cup {NoJob}] /\ \A u \in Task \ {t} : job'[u] = job[u]
      BY <2>2, <3>1, <3>2 DEF SInv, ServiceTypeOK, Job
    <3> QED
      BY <2>1, <2>2, <3>3, StillKept
  <2> QED
    BY <1>6, <2>1, <2>2, ReadKept DEF PickHeir
<1> QED
  BY <1>1, <1>2, <1>3, <1>4, <1>5, <1>6

\* Each statement that changes the database keeps the invariant.
LEMMA ChangeKept ==
  ASSUME SInv, NEW t \in Task,
         \/ Insert(t) \/ Mark(t) \/ InsertMember(t) \/ DeleteMember(t)
         \/ Promote(t) \/ DeleteSelf(t) \/ DeleteRoom(t) \/ Unmark(t)
  PROVE  Kept
<1> USE DEF GiveUp, ReadBadly, DeleteRow, Kind, Adding, Revoking, Pc
<1>1. CASE Insert(t)
  <2>1. op[t] = Idle /\ job[t].kind \in Kind
    BY <1>1, AtIdle DEF Insert
  <2> QED
    BY <1>1, <2>1, ReadKept DEF Insert
<1>2. CASE Mark(t)
  BY <1>2, AtIdle, BucketKept DEF Mark
<1>3. CASE InsertMember(t)
  <2>1. op[t] = Idle /\ job[t].kind \in Kind
    BY <1>3, AtIdle DEF InsertMember
  <2> QED
    BY <1>3, <2>1, ReadKept, BucketKept DEF InsertMember
<1>4. CASE DeleteMember(t)
  <2>1. op[t] = Idle /\ job[t].kind \in Kind
    BY <1>4, AtIdle DEF DeleteMember
  <2> QED
    BY <1>4, <2>1, ReadKept, BucketKept DEF DeleteMember
<1>5. CASE Promote(t)
  <2>1. op[t] = Idle /\ job[t].kind \in Kind
    BY <1>5, AtIdle DEF Promote
  <2> QED
    BY <1>5, <2>1, ReadKept DEF Promote
<1>6. CASE DeleteSelf(t)
  <2>1. op[t] = Idle /\ job[t].kind \in Kind
    BY <1>6, AtIdle DEF DeleteSelf
  <2> QED
    BY <1>6, <2>1, ReadKept, BucketKept DEF DeleteSelf
<1>7. CASE DeleteRoom(t)
  <2>1. op[t] = Idle /\ job[t].kind \in Kind /\ job[t].kind \notin Adding
    BY <1>7, AtIdle DEF DeleteRoom, At
  <2> QED
    BY <1>7, <2>1, BucketKept DEF DeleteRoom
<1>8. CASE Unmark(t)
  <2>1. op[t] = Idle /\ job[t].kind \in Kind
    BY <1>8, AtIdle DEF Unmark
  <2> QED
    BY <1>8, <2>1, ReadKept DEF Unmark
<1> QED
  BY <1>1, <1>2, <1>3, <1>4, <1>5, <1>6, <1>7, <1>8

\* The steps inside addToRoom and removeFromRoom keep the invariant.
LEMMA CallKept ==
  ASSUME SInv, NEW t \in Task, BucketStep(t) \/ BucketEnd(t) \/ BucketError(t)
  PROVE  Kept
<1>1. CASE BucketStep(t)
  <2>1. Step(t) /\ op[t] # Idle /\ job' = job
    BY <1>1 DEF BucketStep, Step, KvChange, UpdateLocal, Idle, svcVars
  <2>2. \E pc : op' = [op EXCEPT ![t].pc = pc]
    BY <1>1 DEF BucketStep, KvChange, UpdateLocal
  <2> QED
    BY <2>1, <2>2, StepKept
<1>2. CASE BucketEnd(t)
  <2>1. roomType(op[t].at, op[t].pair[1]) \in RoomTypes
    BY TypesAssumption DEF roomType
  <2>2. Step(t) /\ op[t] # Idle /\ Answer(t) /\ op' = [op EXCEPT ![t] = Idle]
    BY <1>2, <2>1 DEF BucketEnd, Step, KvNoChange, PublishDelta, End
  <2> QED
    BY <2>2, StepKept
<1>3. CASE BucketError(t)
  <2>1. Step(t) /\ op[t] # Idle /\ Answer(t) /\ op' = [op EXCEPT ![t] = Idle]
    BY <1>3 DEF BucketError, Step, KvError, End, Idle
  <2> QED
    BY <2>1, StepKept
<1> QED
  BY <1>1, <1>2, <1>3

\* Crashes, restarts and the network keep the invariant.
LEMMA ReplicaKept ==
  ASSUME SInv, NEW s \in Replica, CrashReplica(s) \/ RestartReplica(s) \/ Network(s)
  PROVE  Kept
<1>1. CASE CrashReplica(s)
  <2>1. Next
    BY <1>1 DEF CrashReplica, Next, Fault
  <2>2. \A t \in Task : job'[t] = IF job[t] # NoJob /\ job[t].at = s THEN NoJob ELSE job[t]
    BY <1>1 DEF CrashReplica, Lost
  <2>3. job' \in [Task -> Job \cup {NoJob}]
    BY <1>1, <2>2 DEF CrashReplica, SInv, ServiceTypeOK
  <2>4. \A t \in Task : op'[t] = IF op[t] # Idle /\ op[t].at = s THEN Idle ELSE op[t]
    BY <1>1 DEF CrashReplica, Crash
  <2>5. OpOfJob'
    BY <2>2, <2>4 DEF SInv, OpOfJob, About
  <2> QED
    BY <2>1, <2>3, <2>5 DEF Kept
<1>2. CASE RestartReplica(s) \/ Network(s)
  <2>1. Next /\ op' = op /\ job' = job
    BY <1>2 DEF RestartReplica, Network, Next, Restart, Deliver, Hydrate, HydrateRead,
                HydrateSwap, HydrateFail, Disconnect, Reconnect, Fault, svcVars
  <2> QED
    BY <2>1 DEF Kept, SInv, ServiceTypeOK, OpOfJob, About
<1> QED
  BY <1>1, <1>2

\* Every step of the service keeps calls matched with the jobs that made them.
LEMMA NextKept ==
  ASSUME SInv, [ServiceNext]_allVars
  PROVE  Kept
<1>1. CASE UNCHANGED allVars
  BY <1>1 DEF allVars, svcVars, vars, Kept, SInv, ServiceTypeOK, OpOfJob, About
<1>2. CASE ServiceNext
  BY <1>2, BeginKept, QueryKept, ChangeKept, CallKept, ReplicaKept DEF ServiceNext, Handler
<1> QED
  BY <1>1, <1>2

\* Every step of the service keeps the tables, the private rooms and the histories typed.
LEMMA DatabaseTypes ==
  ASSUME SInv, [ServiceNext]_allVars
  PROVE  /\ rooms' \in SUBSET Room
         /\ role' \in [Pair -> Role]
         /\ privateRooms' \in [Replica -> SUBSET Room]
         /\ admitted' \in SUBSET Pair
         /\ excused' \in SUBSET Pair
         /\ disputed' \in SUBSET Room
<1> DEFINE Types == /\ rooms' \in SUBSET Room
                    /\ role' \in [Pair -> Role]
                    /\ privateRooms' \in [Replica -> SUBSET Room]
                    /\ admitted' \in SUBSET Pair
                    /\ excused' \in SUBSET Pair
                    /\ disputed' \in SUBSET Room
<1> USE DEF SInv, ServiceTypeOK, dbVars, ghosts
<1>1. ASSUME NEW t \in Task, NEW kind \in Kind, NEW s \in Replica, NEW r \in Room,
             NEW by \in User, NEW who \in User, Begin(t, kind, s, r, by, who)
      PROVE  Types
  BY <1>1 DEF Begin, Pair
<1>2. ASSUME NEW t \in Task,
             \/ Gate(t) \/ Count(t) \/ Authorize(t)
             \/ TargetRole(t) \/ OwnRole(t) \/ PickHeir(t)
      PROVE  Types
  <2>1. job[t].kind \in Kind
    BY <1>2 DEF Gate, Count, Authorize, TargetRole, OwnRole, PickHeir, At, Kind, Adding, Revoking
  <2>2. job[t].room \in Room
    BY <2>1, JobType
  <2>3. /\ UNCHANGED <<rooms, role, privateRooms, admitted, excused>>
        /\ disputed' = disputed \/ disputed' = disputed \cup {job[t].room}
    BY <1>2 DEF Gate, Count, Authorize, TargetRole, OwnRole, PickHeir, ReadTo, LetIn, GiveUp,
                ReadBadly, Dispute
  <2> QED
    BY <2>2, <2>3
<1>3. ASSUME NEW t \in Task, Insert(t) PROVE Types
  <2>1. job[t].room \in Room /\ About(t) \in Pair
    BY <1>3, JobType DEF Insert, At, Kind, Adding
  <2>2. RoomPairs(job[t].room) \subseteq Pair /\ Traces(job[t].room) \subseteq Pair
    BY <2>1 DEF RoomPairs, Traces, Pair
  <2> QED
    BY <1>3, <2>1, <2>2 DEF Insert, GiveUp, Role
<1>4. ASSUME NEW t \in Task, Mark(t) \/ Unmark(t) PROVE Types
  <2>1. job[t].room \in Room /\ job[t].at \in Replica
    BY <1>4, JobType DEF Mark, Unmark, At, Kind, Adding, Revoking
  <2> QED
    BY <1>4, <2>1 DEF Mark, Unmark
<1>5. ASSUME NEW t \in Task, InsertMember(t) \/ DeleteMember(t) \/ DeleteSelf(t) PROVE Types
  <2>1. job[t].room \in Room /\ About(t) \in Pair
    BY <1>5, JobType DEF InsertMember, DeleteMember, DeleteSelf, At, Kind, Adding, Revoking
  <2> QED
    BY <1>5, <2>1 DEF InsertMember, DeleteMember, DeleteSelf, DeleteRow, GiveUp, Dispute, Role
<1>6. ASSUME NEW t \in Task, Promote(t) PROVE Types
  <2>1. job[t].room \in Room
    BY <1>6, JobType DEF Promote, At, Kind, Revoking
  <2> QED
    BY <1>6, <2>1 DEF Promote, ReadBadly, Dispute, Role
<1>7. ASSUME NEW t \in Task, DeleteRoom(t) PROVE Types
  <2>1. job[t].room \in Room
    BY <1>7, JobType DEF DeleteRoom, At, Kind, Revoking
  <2>2. RoomPairs(job[t].room) \subseteq Pair
    BY <2>1 DEF RoomPairs, Pair
  <2> QED
    BY <1>7, <2>1, <2>2 DEF DeleteRoom, Dispute, Role
<1>8. ASSUME NEW t \in Task, BucketStep(t) \/ BucketEnd(t) PROVE Types
  BY <1>8 DEF BucketStep, BucketEnd, svcVars
<1>9. ASSUME NEW t \in Task, BucketError(t) PROVE Types
  <2>1. Running(t, Revoking) => About(t) \in Pair
    BY JobType DEF Running, Kind
  <2> QED
    BY <1>9, <2>1 DEF BucketError
<1>10. ASSUME NEW s \in Replica, CrashReplica(s) PROVE Types
  <2>1. \A t \in Task : Running(t, Revoking) => About(t) \in Pair /\ job[t].room \in Room
    BY JobType DEF Running, Kind
  <2>2. {About(t) : t \in {u \in Lost(s) : Running(u, Revoking)}} \subseteq Pair
    BY <2>1 DEF Lost
  <2>3. {job[t].room : t \in {u \in Lost(s) : Running(u, {"depart"})}} \subseteq Room
    BY <2>1 DEF Lost, Running, Revoking
  <2> QED
    BY <1>10, <2>2, <2>3 DEF CrashReplica
<1>11. ASSUME NEW s \in Replica, RestartReplica(s) \/ Network(s) PROVE Types
  BY <1>11 DEF RestartReplica, Network, svcVars
<1>12. CASE UNCHANGED allVars
  BY <1>12 DEF allVars, svcVars
<1> QED
  BY <1>1, <1>2, <1>3, <1>4, <1>5, <1>6, <1>7, <1>8, <1>9, <1>10, <1>11, <1>12
  DEF ServiceNext, Handler

\* The service starts in the invariant.
LEMMA SInvInit == ServiceInit => SInv
<1> SUFFICES ASSUME ServiceInit PROVE SInv
  OBVIOUS
<1>1. TypeOK
  BY DEF ServiceInit, Init, TypeOK, Phase
<1>2. ServiceTypeOK
  BY DEF ServiceInit, ServiceTypeOK, Pair
<1> QED
  BY <1>1, <1>2 DEF SInv, OpOfJob, ServiceInit, Init

\* Every step keeps the invariant.
LEMMA SInvStep == SInv /\ [ServiceNext]_allVars => SInv'
<1> SUFFICES ASSUME SInv, [ServiceNext]_allVars PROVE SInv'
  OBVIOUS
<1>1. Kept
  BY NextKept
<1>2. TypeOK'
  BY <1>1, TypeStep DEF Kept, SInv
<1>3. ServiceTypeOK'
  BY <1>1, DatabaseTypes DEF Kept, ServiceTypeOK
<1> QED
  BY <1>1, <1>2, <1>3 DEF SInv, Kept

\* The database, the in-memory map and the requests keep their types: no handler
\* writes a role outside the schema's or answers a request it was not handling.
THEOREM ServiceTypeCorrect == ServiceSpec => []ServiceTypeOK
<1>1. SInv => ServiceTypeOK
  BY DEF SInv
<1> QED
  BY <1>1, SInvInit, SInvStep, PTL DEF ServiceSpec

\* Whatever the handlers do, the bucket, the indexes and the deltas behave as
\* RoomMembership says: every step is one of its steps or none.
THEOREM ServiceImplementsMembership == ServiceSpec => Spec
<1>1. ServiceInit => Init
  BY DEF ServiceInit
<1>2. SInv /\ [ServiceNext]_allVars => [Next]_vars
  BY NextKept DEF Kept
<1> QED
  BY <1>1, <1>2, SInvInit, SInvStep, PTL DEF ServiceSpec, Spec

\* Under the handlers, too, a hydrated replica's index agrees with the bucket.
THEOREM ServiceCacheCorrect == ServiceSpec => []CacheFollowsBucket
  BY ServiceImplementsMembership, CacheCorrect, PTL
(***************************************************************************)
(* StrangersStayOut.  The bucket and the indexes are filled from one       *)
(* another and from the calls under way, so all of these stay inside the   *)
(* admitted pairs together; what the gate reads, a missing room or a row,  *)
(* admits too.                                                             *)
(***************************************************************************)
Held(S) ==
  /\ kv \subseteq S
  /\ \A s \in Replica : mem[s] \subseteq S /\ snap[s] \subseteq S
  /\ \A s \in Replica : \A i \in 1..Len(inbox[s]) :
       inbox[s][i].action = "join" => inbox[s][i].pair \in S
  /\ \A t \in Task : (op[t] # Idle /\ op[t].action = "join") => op[t].pair \in S

RowsAdmitted == \A p \in Pair : role[p] # "none" => (p \in admitted /\ p[1] \in rooms)

OpenRoomsAdmit == \A p \in Pair : p[1] \notin rooms => p \in admitted

JobsAdmitted ==
  \A t \in Task :
    (Running(t, Adding) /\ job[t].pc \in {"mark", "bucket"}) => About(t) \in admitted

AInv == SInv /\ Held(admitted) /\ RowsAdmitted /\ OpenRoomsAdmit /\ JobsAdmitted

\* Only a call of addToRoom brings a new pair in.
LEMMA HeldStep ==
  ASSUME NEW S, TypeOK, Held(S), [Next]_vars,
         \A t \in Task : (op'[t] # Idle /\ op'[t].action = "join") => op'[t].pair \in S
  PROVE  Held(S)'
<1> USE DEF TypeOK, Held
<1>1. ASSUME NEW t \in Task, NEW s \in Replica, NEW a \in Action, NEW p \in Pair,
             Start(t, s, a, p)
      PROVE  Held(S)'
  BY <1>1 DEF Start, Idle
<1>2. ASSUME NEW t \in Task, KvChange(t) \/ KvNoChange(t) \/ KvError(t) PROVE Held(S)'
  <2>1. op[t] \in Call /\ op[t] # Idle
    BY <1>2 DEF KvChange, KvNoChange, KvError, Idle
  <2>2. UNCHANGED <<mem, snap, inbox>> /\ kv' \subseteq S
    BY <1>2, <2>1 DEF KvChange, KvNoChange, KvError, Apply
  <2>3. \A u \in Task : op'[u] # Idle => /\ op[u] # Idle
                                        /\ op'[u].action = op[u].action
                                        /\ op'[u].pair = op[u].pair
    BY <1>2, <2>1, SMTT(30) DEF KvChange, KvNoChange, KvError, End, Call
  <2> QED
    BY <2>2, <2>3
<1>3. ASSUME NEW t \in Task, UpdateLocal(t) PROVE Held(S)'
  <2>1. op[t] \in Call /\ op[t] # Idle
    BY <1>3 DEF UpdateLocal, Idle
  <2>2. UNCHANGED <<kv, snap, inbox>> /\ \A s \in Replica : mem'[s] \subseteq S
    BY <1>3, <2>1 DEF UpdateLocal, ApplyAt, Apply
  <2>3. \A u \in Task : op'[u] # Idle => /\ op[u] # Idle
                                        /\ op'[u].action = op[u].action
                                        /\ op'[u].pair = op[u].pair
    BY <1>3, <2>1 DEF UpdateLocal, Call
  <2> QED
    BY <2>2, <2>3
<1>4. ASSUME NEW t \in Task, NEW type \in RoomTypes, PublishDelta(t, type) PROVE Held(S)'
  <2>0. op[t] \in Call
    BY <1>4 DEF PublishDelta, Idle
  <2>1. PICK delta \in Delta :
          delta = [action |-> op[t].action, pair |-> op[t].pair, type |-> type]
    BY <2>0 DEF Call, Delta
  <2>2. delta.action = "join" => delta.pair \in S
    BY <1>4, <2>1 DEF PublishDelta, Idle
  <2>3. ASSUME NEW s \in Replica, NEW i \in 1..Len(inbox'[s])
        PROVE  inbox'[s][i].action = "join" => inbox'[s][i].pair \in S
    <3>1. inbox[s] \in Seq(Delta) /\ Len(inbox[s]) \in Nat
      OBVIOUS
    <3>2. \A j \in 1..Len(inbox[s]) : inbox[s][j].action = "join" => inbox[s][j].pair \in S
      OBVIOUS
    <3>3. CASE inbox'[s] = inbox[s]
      BY <3>2, <3>3
    <3>4. CASE inbox'[s] = Append(inbox[s], delta)
      <4>1. i \in 1..Len(inbox[s]) => inbox'[s][i] = inbox[s][i]
        BY <3>1, <3>4
      <4>2. i \notin 1..Len(inbox[s]) => inbox'[s][i] = delta
        BY <3>1, <3>4
      <4> QED
        BY <2>2, <3>2, <4>1, <4>2
    <3> QED
      BY <1>4, <2>1, <3>3, <3>4 DEF PublishDelta
  <2>4. UNCHANGED <<kv, mem, snap>> /\ \A u \in Task : op'[u] # Idle => op'[u] = op[u]
    BY <1>4 DEF PublishDelta, End
  <2> QED
    BY <2>3, <2>4
<1>5. ASSUME NEW s \in Replica, Deliver(s) PROVE Held(S)'
  <2>1. /\ inbox[s] \in Seq(Delta) /\ Len(inbox[s]) \in Nat /\ Len(inbox[s]) >= 1
        /\ Head(inbox[s]) = inbox[s][1]
    BY <1>5 DEF Deliver
  <2>2. /\ Len(inbox'[s]) = Len(inbox[s]) - 1
        /\ \A i \in 1..Len(inbox'[s]) : inbox'[s][i] = inbox[s][i + 1]
        /\ \A r \in Replica \ {s} : inbox'[r] = inbox[r]
    BY <1>5, <2>1 DEF Deliver
  <2>3. \A r \in Replica : mem'[r] \subseteq S
    BY <1>5, <2>1 DEF Deliver, ApplyAt, Apply
  <2>4. ASSUME NEW r \in Replica, NEW i \in 1..Len(inbox'[r])
        PROVE  inbox'[r][i].action = "join" => inbox'[r][i].pair \in S
    <3>1. CASE r # s
      BY <3>1, <2>2
    <3>2. CASE r = s
      <4>1. i + 1 \in 1..Len(inbox[s]) /\ inbox'[s][i] = inbox[s][i + 1]
        BY <3>2, <2>1, <2>2
      <4> QED
        BY <3>2, <4>1
    <3> QED
      BY <3>1, <3>2
  <2> QED
    BY <1>5, <2>3, <2>4 DEF Deliver
<1>6. ASSUME NEW s \in Replica, Hydrate(s) PROVE Held(S)'
  BY <1>6 DEF Hydrate, HydrateRead, HydrateSwap, HydrateFail, Hydrated
<1>7. ASSUME NEW s \in Replica, Restart(s) \/ Reconnect(s) PROVE Held(S)'
  BY <1>7 DEF Restart, Reconnect
<1>8. ASSUME NEW s \in Replica, Crash(s) \/ Disconnect(s) PROVE Held(S)'
  <2>1. /\ kv' = kv
        /\ \A r \in Replica : mem'[r] \subseteq S /\ snap'[r] \subseteq S
        /\ \A r \in Replica : inbox'[r] = <<>> \/ inbox'[r] = inbox[r]
        /\ \A t \in Task : op'[t] = Idle \/ op'[t] = op[t]
    BY <1>8 DEF Crash, Disconnect
  <2>2. ASSUME NEW r \in Replica, NEW i \in 1..Len(inbox'[r])
        PROVE  inbox'[r][i].action = "join" => inbox'[r][i].pair \in S
    BY <2>1
  <2> QED
    BY <2>1, <2>2
<1>9. CASE UNCHANGED vars
  BY <1>9 DEF vars
<1> QED
  BY <1>1, <1>2, <1>3, <1>4, <1>5, <1>6, <1>7, <1>8, <1>9 DEF Next, Step, Fault

\* Admitting more pairs keeps the ones that are held admitted.
LEMMA HeldGrows ==
  ASSUME NEW S, NEW T, S \subseteq T, Held(S)
  PROVE  Held(T)
  BY DEF Held

\* A call under way is about a pair its job may let in.
LEMMA OpsHeld ==
  ASSUME OpOfJob, JobsAdmitted, NEW t \in Task, op[t] # Idle, op[t].action = "join"
  PROVE  op[t].pair \in admitted
  BY DEF OpOfJob, JobsAdmitted, Running

\* Unless the admitted pairs shrink, a step keeps the bucket and the indexes inside.
LEMMA HeldKept ==
  ASSUME AInv, [ServiceNext]_allVars, JobsAdmitted', admitted \subseteq admitted'
  PROVE  Held(admitted)'
<1>1. Kept /\ SInv'
  BY NextKept, SInvStep DEF AInv
<1>2. PICK S : S = admitted'
  OBVIOUS
<1>3. Held(S)
  <2>1. PICK A : A = admitted
    OBVIOUS
  <2>2. Held(A) /\ A \subseteq S
    BY <1>2, <2>1 DEF AInv, Held
  <2> QED
    BY <2>2, HeldGrows
<1>4. \A t \in Task : (op'[t] # Idle /\ op'[t].action = "join") => op'[t].pair \in S
  BY <1>1, <1>2 DEF SInv, OpOfJob, JobsAdmitted, Running
<1>5. Held(S)'
  BY <1>1, <1>3, <1>4, HeldStep DEF AInv, SInv, Kept
<1> QED
  BY <1>2, <1>5 DEF Held

\* Moving on changes neither the room nor the user a job is about.
LEMMA GotoKeeps ==
  ASSUME SInv, NEW t \in Task, job[t].kind \in Kind, NEW pc, Goto(t, pc)
  PROVE  /\ job'[t].kind = job[t].kind /\ job'[t].pc = pc /\ About(t)' = About(t)
         /\ \A u \in Task \ {t} : job'[u] = job[u]
<1>1. job[t] \in Job
  BY JobType DEF SInv
<1> QED
  BY <1>1 DEF SInv, ServiceTypeOK, Goto, Job, About

\* A step of t that only moves t's job on, with About(t) admitted if it is let in.
LEMMA JobsKept ==
  ASSUME AInv, NEW t \in Task, job[t].kind \in Kind, admitted \subseteq admitted',
         \/ Drop(t)
         \/ \E pc : /\ Goto(t, pc)
                    /\ (job[t].kind \in Adding /\ pc \in {"mark", "bucket"})
                       => About(t) \in admitted'
  PROVE  JobsAdmitted'
<1>1. CASE Drop(t)
  BY <1>1 DEF AInv, SInv, ServiceTypeOK, JobsAdmitted, Drop, Running, About, NoJob, Adding
<1>2. ASSUME NEW pc, Goto(t, pc),
             (job[t].kind \in Adding /\ pc \in {"mark", "bucket"}) => About(t) \in admitted'
      PROVE  JobsAdmitted'
  <2>1. /\ job'[t].kind = job[t].kind /\ job'[t].pc = pc /\ About(t)' = About(t)
        /\ \A u \in Task \ {t} : job'[u] = job[u]
    BY <1>2, GotoKeeps DEF AInv
  <2> QED
    BY <1>2, <2>1 DEF AInv, JobsAdmitted, Running, About
<1> QED
  BY <1>1, <1>2
\* The steps that touch neither a row nor a room and admit nobody.
LEMMA RowsKept ==
  ASSUME AInv, UNCHANGED <<rooms, role, admitted>>
  PROVE  RowsAdmitted' /\ OpenRoomsAdmit'
  BY DEF AInv, RowsAdmitted, OpenRoomsAdmit

\* What the gate of room.join, and the rows a handler writes, admit.
AKept ==
  /\ admitted \subseteq admitted'
  /\ RowsAdmitted'
  /\ OpenRoomsAdmit'
  /\ JobsAdmitted'

\* No handler lets in a pair that was not admitted.
LEMMA HandlerAdmits ==
  ASSUME AInv, NEW t \in Task, Handler(t), ~Insert(t)
  PROVE  AKept
<1> USE DEF AKept, dbVars, ghosts
<1>0. SInv
  BY DEF AInv
<1>1. CASE Gate(t)
  <2>1. job[t].kind \in Kind /\ UNCHANGED <<rooms, role, admitted>>
    BY <1>1 DEF Gate, At, Kind, Adding, LetIn, ReadTo, GiveUp
  <2>2. job[t].room \notin rooms => About(t) \in admitted
    <3>1. About(t) \in Pair /\ About(t)[1] = job[t].room
      BY <1>0, <2>1, JobType DEF SInv, About
    <3> QED
      BY <3>1 DEF AInv, OpenRoomsAdmit
  <2>3. \/ Drop(t)
        \/ Goto(t, "count")
        \/ Goto(t, "bucket") /\ About(t) \in admitted
    BY <1>1, <2>2 DEF Gate, LetIn, ReadTo, GiveUp, ToBucket
  <2>4. JobsAdmitted'
    BY <2>1, <2>3, JobsKept
  <2> QED
    BY <2>1, <2>4, RowsKept
<1>2. CASE Count(t)
  <2>1. job[t].kind \in Kind /\ UNCHANGED <<rooms, role, admitted>>
    BY <1>2 DEF Count, At, Kind, Adding, LetIn, GiveUp
  <2>2. role[About(t)] # "none" => About(t) \in admitted
    BY <1>0, <2>1, JobType DEF SInv, AInv, RowsAdmitted
  <2>3. Drop(t) \/ (Goto(t, "bucket") /\ About(t) \in admitted)
    BY <1>2, <2>2 DEF Count, LetIn, GiveUp, ToBucket
  <2>4. JobsAdmitted'
    BY <2>1, <2>3, JobsKept
  <2> QED
    BY <2>1, <2>4, RowsKept
<1>3. CASE Authorize(t) \/ TargetRole(t) \/ OwnRole(t)
  <2>1. job[t].kind \in Kind /\ UNCHANGED <<rooms, role, admitted>>
    BY <1>3 DEF Authorize, TargetRole, OwnRole, At, Kind, Adding, Revoking, ReadTo, GiveUp, ReadBadly
  <2>2. \/ Drop(t)
        \/ \E pc : Goto(t, pc) /\ pc \notin {"mark", "bucket"}
    BY <1>3 DEF Authorize, TargetRole, OwnRole, ReadTo, GiveUp, ReadBadly
  <2>3. JobsAdmitted'
    BY <2>1, <2>2, JobsKept
  <2> QED
    BY <2>1, <2>3, RowsKept
<1>4. CASE PickHeir(t)
  <2>1. job[t].kind = "depart" /\ UNCHANGED <<rooms, role, admitted>>
    BY <1>4 DEF PickHeir, At, ReadTo, ReadBadly
  <2>2. job[t] \in Job
    BY <1>0, <2>1, JobType DEF SInv, Kind, Revoking
  <2>3. /\ job'[t].kind = "depart"
        /\ \A u \in Task \ {t} : job'[u] = job[u]
    <3>1. CASE \E h : job' = [job EXCEPT ![t].heir = h, ![t].pc = "promote"]
      BY <1>0, <2>1, <2>2, <3>1 DEF SInv, ServiceTypeOK, Job
    <3>2. CASE \E pc : Goto(t, pc)
      BY <1>0, <2>1, <3>2, GotoKeeps DEF Kind, Revoking
    <3> QED
      BY <1>4, <3>1, <3>2 DEF PickHeir, ReadTo, ReadBadly
  <2>4. JobsAdmitted'
    BY <2>1, <2>3 DEF AInv, JobsAdmitted, Running, Adding, About
  <2> QED
    BY <2>1, <2>4, RowsKept
<1>5. CASE Mark(t)
  <2>1. /\ job[t].kind = "create" /\ job[t].pc = "mark" /\ Goto(t, "bucket")
        /\ UNCHANGED <<rooms, role, admitted>>
    BY <1>5 DEF Mark, At, ToBucket
  <2>2. About(t) \in admitted
    BY <2>1 DEF AInv, JobsAdmitted, Running, Adding
  <2>3. JobsAdmitted'
    BY <2>1, <2>2, JobsKept DEF Kind, Adding
  <2> QED
    BY <2>1, <2>3, RowsKept
<1>6. CASE InsertMember(t)
  <2>1. job[t].kind \in Kind /\ rooms' = rooms
    BY <1>6 DEF InsertMember, At, Kind, Adding, GiveUp
  <2>2. About(t) \in Pair /\ About(t)[1] = job[t].room
    BY <1>0, <2>1, JobType DEF SInv, About
  <2>3. CASE GiveUp(t)
    BY <2>1, <2>3, RowsKept, JobsKept DEF GiveUp
  <2>4. CASE ~GiveUp(t)
    <3>1. /\ job[t].room \in rooms /\ Goto(t, "bucket") /\ admitted' = admitted \cup {About(t)}
          /\ role' = [role EXCEPT ![About(t)] = IF @ = "none" THEN "member" ELSE @]
      BY <1>6, <2>4 DEF InsertMember, ToBucket
    <3>2. JobsAdmitted'
      BY <2>1, <3>1, JobsKept
    <3> QED
      BY <1>0, <2>1, <2>2, <3>1, <3>2 DEF SInv, ServiceTypeOK, AInv, RowsAdmitted, OpenRoomsAdmit
  <2> QED
    BY <2>3, <2>4
<1>7. CASE DeleteMember(t) \/ Promote(t) \/ DeleteSelf(t)
  <2>1. /\ job[t].kind \in Kind \ Adding
        /\ UNCHANGED <<rooms, admitted>>
        /\ Drop(t) \/ \E pc : Goto(t, pc)
    BY <1>7 DEF DeleteMember, Promote, DeleteSelf, DeleteRow, GiveUp, ReadBadly, Dispute, ToBucket,
                At, Kind, Adding, Revoking
  <2>2. \A p \in Pair : role'[p] # "none" => role[p] # "none"
    BY <1>0, <1>7 DEF SInv, ServiceTypeOK, DeleteMember, Promote, DeleteSelf, DeleteRow, GiveUp,
                      ReadBadly, Dispute
  <2>3. JobsAdmitted'
    BY <2>1, JobsKept
  <2> QED
    BY <2>1, <2>2, <2>3 DEF AInv, RowsAdmitted, OpenRoomsAdmit
<1>8. CASE DeleteRoom(t)
  <2>1. job[t].kind \in Kind \ Adding /\ Goto(t, "lastBucket")
    BY <1>8 DEF DeleteRoom, At, Kind, Adding, Revoking, ToBucket
  <2>2. admitted \subseteq admitted'
    BY <1>8 DEF DeleteRoom
  <2>3. JobsAdmitted'
    BY <2>1, <2>2, JobsKept
  <2>4. RowsAdmitted' /\ OpenRoomsAdmit'
    BY <1>8 DEF DeleteRoom, RoomPairs, AInv, RowsAdmitted, OpenRoomsAdmit, Pair
  <2> QED
    BY <2>2, <2>3, <2>4
<1>9. CASE Unmark(t)
  <2>1. job[t].kind \in Kind /\ Drop(t) /\ UNCHANGED <<rooms, role, admitted>>
    BY <1>9 DEF Unmark, At, Kind, Revoking
  <2> QED
    BY <2>1, JobsKept, RowsKept
<1>10. CASE BucketStep(t)
  BY <1>10, RowsKept DEF BucketStep, svcVars, AInv, JobsAdmitted, Running, About
<1>11. CASE BucketEnd(t) \/ BucketError(t)
  <2>1. op[t] # Idle /\ Answer(t) /\ UNCHANGED <<rooms, role, admitted>>
    BY <1>11 DEF BucketEnd, BucketError, KvError, Idle
  <2>2. job[t].kind \in Kind
    BY <1>0, <2>1 DEF SInv, OpOfJob
  <2>3. JobsAdmitted'
    BY <2>1, <2>2, JobsKept DEF Answer
  <2> QED
    BY <2>1, <2>3, RowsKept
<1> QED
  BY <1>1, <1>2, <1>3, <1>4, <1>5, <1>6, <1>7, <1>8, <1>9, <1>10, <1>11 DEF Handler

\* A request that arrives lets nobody in by itself.
LEMMA BeginAdmits ==
  ASSUME AInv, NEW t \in Task, NEW kind \in Kind, NEW s \in Replica, NEW r \in Room,
         NEW by \in User, NEW who \in User, Begin(t, kind, s, r, by, who)
  PROVE  AKept
<1>1. /\ job'[t].kind = kind /\ job'[t].pc = First(kind)
      /\ \A u \in Task \ {t} : job'[u] = job[u]
  BY DEF Begin, AInv, SInv, ServiceTypeOK
<1>2. kind \in Adding => First(kind) \notin {"mark", "bucket"}
  BY DEF First, Adding
<1>3. JobsAdmitted'
  BY <1>1, <1>2 DEF Begin, AInv, JobsAdmitted, Running, About
<1> QED
  BY <1>3, RowsKept DEF Begin, dbVars, AKept

\* Crashes, restarts and the network let nobody in.
LEMMA ReplicaAdmits ==
  ASSUME AInv, NEW s \in Replica, CrashReplica(s) \/ RestartReplica(s) \/ Network(s)
  PROVE  AKept
<1>1. UNCHANGED <<rooms, role, admitted>>
  BY DEF CrashReplica, RestartReplica, Network, dbVars, ghosts, svcVars
<1>2. \A t \in Task : job'[t] = NoJob \/ job'[t] = job[t]
  BY DEF CrashReplica, RestartReplica, Network, svcVars
<1>3. JobsAdmitted'
  BY <1>1, <1>2 DEF AInv, JobsAdmitted, Running, About, NoJob, Adding
<1> QED
  BY <1>1, <1>3, RowsKept DEF AKept

\* The one step after which fewer pairs are admitted: the room gets its row, and
\* of the pairs of its name only those with a trace of being inside stay.
LEMMA InsertAdmits ==
  ASSUME AInv, NEW t \in Task, Insert(t)
  PROVE  Held(admitted)' /\ RowsAdmitted' /\ OpenRoomsAdmit' /\ JobsAdmitted'
<1>0. SInv /\ job[t].kind = "create" /\ op' = op /\ UNCHANGED vars
  BY DEF AInv, Insert, At, GiveUp, vars
<1> DEFINE r == job[t].room
<1>1. /\ About(t) \in Pair /\ About(t)[1] = r /\ r \in Room
  BY <1>0, JobType DEF SInv, Kind, Adding, About
<1>2. CASE GiveUp(t)
  <2>1. JobsAdmitted'
    BY <1>0, <1>2, JobsKept DEF GiveUp, ghosts, Kind, Adding
  <2>2. Held(admitted)'
    BY <1>2, <2>1, HeldKept DEF GiveUp, ghosts, ServiceNext, Handler
  <2> QED
    BY <1>2, <2>1, <2>2, RowsKept DEF GiveUp, dbVars, ghosts
<1>3. CASE ~GiveUp(t)
  <2>1. /\ r \notin rooms /\ rooms' = rooms \cup {r}
        /\ role' = [role EXCEPT ![About(t)] = "owner"]
        /\ admitted' = (admitted \ RoomPairs(r)) \cup Traces(r) \cup {About(t)}
        /\ Goto(t, "mark")
    BY <1>3 DEF Insert
  <2>2. \A p \in Pair : (p \in admitted /\ (p[1] # r \/ Trace(p))) => p \in admitted'
    BY <2>1 DEF RoomPairs, Traces, Pair
  <2>3. /\ job'[t].pc = "mark" /\ About(t)' = About(t)
        /\ \A u \in Task \ {t} : job'[u] = job[u]
    BY <1>0, <2>1, GotoKeeps DEF Kind, Adding
  <2>4. ASSUME NEW u \in Task \ {t}, Running(u, Adding), job[u].pc \in {"mark", "bucket"}
        PROVE  About(u) \in admitted'
    <3>1. About(u) \in Pair
      BY <1>0, <2>4, JobType DEF SInv, Running, Kind
    <3>2. Trace(About(u)) /\ About(u) \in admitted
      BY <2>4 DEF Trace, AInv, JobsAdmitted
    <3> QED
      BY <2>2, <3>1, <3>2
  <2>5. JobsAdmitted'
    <3>1. About(t) \in admitted'
      BY <2>1
    <3>2. ASSUME NEW u \in Task \ {t}, Running(u, Adding)', job'[u].pc \in {"mark", "bucket"}
          PROVE  About(u)' \in admitted'
      BY <2>3, <2>4, <3>2 DEF Running, About
    <3> QED
      BY <2>3, <3>1, <3>2 DEF JobsAdmitted
  <2>6. RowsAdmitted'
    BY <1>0, <1>1, <2>1, <2>2 DEF SInv, ServiceTypeOK, AInv, RowsAdmitted
  <2>7. OpenRoomsAdmit'
    BY <2>1, <2>2 DEF AInv, OpenRoomsAdmit
  <2>8. \A p \in Pair : Trace(p) /\ p \in admitted => p \in admitted'
    BY <2>2
  <2>9. kv' \subseteq admitted'
    BY <1>0, <2>8 DEF vars, AInv, SInv, TypeOK, Held, Trace
  <2>10. \A s \in Replica : mem'[s] \subseteq admitted' /\ snap'[s] \subseteq admitted'
    BY <1>0, <2>8 DEF vars, AInv, SInv, TypeOK, Held, Trace
  <2>11. ASSUME NEW s \in Replica, NEW i \in 1..Len(inbox'[s]), inbox'[s][i].action = "join"
         PROVE  inbox'[s][i].pair \in admitted'
    <3>1. inbox'[s] = inbox[s] /\ inbox[s][i] \in Delta
      BY <1>0 DEF vars, SInv, TypeOK
    <3>2. inbox[s][i].pair \in Pair /\ inbox[s][i].pair \in admitted
      BY <2>11, <3>1 DEF AInv, Held, Delta
    <3>3. Trace(inbox[s][i].pair)
      BY <3>1 DEF Trace, Pending
    <3> QED
      BY <2>8, <3>1, <3>2, <3>3
  <2>12. ASSUME NEW u \in Task, op'[u] # Idle, op'[u].action = "join"
         PROVE  op'[u].pair \in admitted'
    <3>1. Kept
      BY <1>0, NextKept DEF ServiceNext, Handler
    <3> QED
      BY <2>5, <2>12, <3>1 DEF Kept, OpOfJob, JobsAdmitted, Running
  <2> QED
    BY <2>5, <2>6, <2>7, <2>9, <2>10, <2>11, <2>12 DEF Held
<1> QED
  BY <1>2, <1>3

\* Every step keeps the admission invariant.
LEMMA AInvStep == AInv /\ [ServiceNext]_allVars => AInv'
<1> SUFFICES ASSUME AInv, [ServiceNext]_allVars PROVE AInv'
  OBVIOUS
<1>1. SInv'
  BY SInvStep DEF AInv
<1>2. ASSUME AKept PROVE AInv'
  BY <1>1, <1>2, HeldKept DEF AKept, AInv
<1>3. CASE \E t \in Task : Insert(t)
  BY <1>1, <1>3, InsertAdmits DEF AInv
<1>4. CASE \E t \in Task : Handler(t) /\ ~Insert(t)
  BY <1>2, <1>4, HandlerAdmits
<1>5. CASE \E t \in Task, kind \in Kind, s \in Replica, r \in Room, by \in User, who \in User :
             Begin(t, kind, s, r, by, who)
  BY <1>2, <1>5, BeginAdmits
<1>6. CASE \E s \in Replica : CrashReplica(s) \/ RestartReplica(s) \/ Network(s)
  BY <1>2, <1>6, ReplicaAdmits
<1>7. CASE UNCHANGED allVars
  <2>1. AKept
    BY <1>7, RowsKept DEF allVars, svcVars, AKept, AInv, JobsAdmitted, Running, About
  <2> QED
    BY <1>2, <2>1
<1> QED
  BY <1>3, <1>4, <1>5, <1>6, <1>7 DEF ServiceNext

\* At the start everybody inside was admitted.
LEMMA InitAdmits == ServiceInit => AInv
<1> SUFFICES ASSUME ServiceInit PROVE AInv
  OBVIOUS
<1>1. SInv
  BY SInvInit
<1>2. Held(admitted)
  BY DEF ServiceInit, Init, Held, Idle
<1>3. RowsAdmitted /\ OpenRoomsAdmit /\ JobsAdmitted
  BY DEF ServiceInit, RowsAdmitted, OpenRoomsAdmit, JobsAdmitted, Running, NoJob, Adding
<1> QED
  BY <1>1, <1>2, <1>3 DEF AInv

\* The gate holds: for any number of rooms, users, replicas and overlapping
\* requests, nobody is listed in a room without having been a member, an invited
\* user or a visitor of the name while it was open.
THEOREM Gatekeeping == ServiceSpec => []StrangersStayOut
<1>1. AInv => StrangersStayOut
  BY DEF AInv, Held, StrangersStayOut
<1> QED
  BY <1>1, InitAdmits, AInvStep, PTL DEF ServiceSpec
(***************************************************************************)
(* One owner.  What is known of the jobs J and the rows f of a room that   *)
(* no overlapping departure and no failed statement has touched.           *)
(***************************************************************************)
Departs(j, r) == j.kind = "depart" /\ j.room = r

\* The owner's row, and no other like it.
SoleOwner(r, u, f) == f[<<r, u>>] = "owner" /\ \A v \in User \ {u} : f[<<r, v>>] # "owner"

\* One owner besides u, who may still be one.
OwnerBesides(r, u, f) ==
  \E v \in User \ {u} : f[<<r, v>>] = "owner" /\ \A w \in User \ {u, v} : f[<<r, w>>] # "owner"

\* How far a departure is says who owns the room.
DepartFits(j, r, f) ==
  /\ j.who = j.by
  /\ j.pc \in {"ownRole", "pickHeir", "promote", "deleteSelf", "deleteRoom", "bucket"}
  /\ j.pc \in {"ownRole", "bucket"} => \E u \in User : SoleOwner(r, u, f)
  /\ j.pc \in {"pickHeir", "promote"} => SoleOwner(r, j.by, f)
  /\ j.pc = "promote" => j.heir \in User \ {j.by} /\ f[<<r, j.heir>>] # "none"
  /\ j.pc = "deleteSelf" => OwnerBesides(r, j.by, f)

\* The owner is not kicked.
KickFits(j, r, f) == j.pc = "deleteMember" => f[<<r, j.who>>] # "owner"

Fits(j, r, f) ==
  /\ Departs(j, r) => DepartFits(j, r, f)
  /\ (j.kind = "kick" /\ j.room = r) => KickFits(j, r, f)

\* Who departs is alone with the owner's row.
Alone(r, J) ==
  \A t, u \in Task :
    (Departs(J[t], r) /\ J[u].kind \in Revoking \cup {"create"} /\ J[u].room = r) => u = t

Owned(r, J, f) == (\A t \in Task : ~Departs(J[t], r)) => \E u \in User : SoleOwner(r, u, f)

RoomFits(r, J, f) == Alone(r, J) /\ Owned(r, J, f) /\ \A t \in Task : Fits(J[t], r, f)

OInv == AInv /\ \A r \in rooms \ disputed : RoomFits(r, job, role)

\* A job fits a room after a step that leaves its owners alone.
LEMMA FitsStill ==
  ASSUME NEW r \in Room, NEW j \in Job, NEW f, NEW g, Fits(j, r, f),
         \A v \in User : (g[<<r, v>>] = "owner") <=> (f[<<r, v>>] = "owner"),
         Departs(j, r) => \A v \in User : f[<<r, v>>] # "none" => g[<<r, v>>] # "none"
  PROVE  Fits(j, r, g)
<1>1. j.who \in User /\ j.by \in User
  BY DEF Job
<1>2. CASE Departs(j, r)
  <2>1. DepartFits(j, r, f) /\ j.kind # "kick"
    BY <1>2 DEF Fits, Departs
  <2>2. j.pc \in {"ownRole", "bucket"} => \E u \in User : SoleOwner(r, u, g)
    BY <2>1 DEF DepartFits, SoleOwner
  <2>3. j.pc \in {"pickHeir", "promote"} => SoleOwner(r, j.by, g)
    BY <1>1, <2>1 DEF DepartFits, SoleOwner
  <2>4. j.pc = "promote" => j.heir \in User \ {j.by} /\ g[<<r, j.heir>>] # "none"
    BY <1>2, <2>1 DEF DepartFits
  <2>5. j.pc = "deleteSelf" => OwnerBesides(r, j.by, g)
    BY <2>1 DEF DepartFits, OwnerBesides
  <2> QED
    BY <2>1, <2>2, <2>3, <2>4, <2>5 DEF Fits, DepartFits
<1>3. CASE ~Departs(j, r)
  BY <1>1, <1>3 DEF Fits, KickFits
<1> QED
  BY <1>2, <1>3

\* A room that fits, before a step.
Fitting(r) ==
  /\ r \in Room /\ RoomFits(r, job, role)
  /\ job \in [Task -> Job \cup {NoJob}] /\ job' \in [Task -> Job \cup {NoJob}]

\* A room fits after such a step of task t that ends t's job or moves it on.
LEMMA RoomStill ==
  ASSUME NEW r, Fitting(r),
         NEW t \in Task, \A u \in Task \ {t} : job'[u] = job[u],
         \A v \in User : (role'[<<r, v>>] = "owner") <=> (role[<<r, v>>] = "owner"),
         \A u \in Task : Departs(job[u], r) => \A v \in User : role[<<r, v>>] # "none" => role'[<<r, v>>] # "none",
         \/ job'[t] = NoJob /\ (Departs(job[t], r) => \E u \in User : SoleOwner(r, u, role))
         \/ job'[t].kind = job[t].kind /\ job'[t].room = job[t].room /\ Fits(job'[t], r, role')
  PROVE  RoomFits(r, job', role')
<1>1. Alone(r, job')
  BY DEF Fitting, RoomFits, Alone, Departs, NoJob, Revoking
<1>2. Owned(r, job', role')
  <2>1. (\E u \in User : SoleOwner(r, u, role)) => \E u \in User : SoleOwner(r, u, role')
    BY DEF SoleOwner
  <2>2. SUFFICES ASSUME \A u \in Task : ~Departs(job'[u], r) PROVE \E u \in User : SoleOwner(r, u, role)
    BY <2>1 DEF Owned
  <2>3. CASE Departs(job[t], r)
    BY <2>2, <2>3 DEF Departs
  <2>4. CASE ~Departs(job[t], r)
    <3>1. \A u \in Task : ~Departs(job[u], r)
      BY <2>2, <2>4
    <3> QED
      BY <3>1 DEF Fitting, RoomFits, Owned
  <2> QED
    BY <2>3, <2>4
<1>3. ASSUME NEW u \in Task PROVE Fits(job'[u], r, role')
  <2>1. CASE u = t
    BY <2>1 DEF Fits, Departs, NoJob
  <2>2. CASE u # t /\ job[u] \in Job
    BY <2>2, FitsStill DEF Fitting, RoomFits
  <2>3. CASE u # t /\ job[u] = NoJob
    BY <2>3 DEF Fits, Departs, NoJob
  <2> QED
    BY <2>1, <2>2, <2>3 DEF Fitting
<1> QED
  BY <1>1, <1>2, <1>3 DEF Fitting, RoomFits

\* A room that t is leaving, and goes on leaving, fits if t does, whatever t changed.
LEMMA DepartStill ==
  ASSUME NEW r, Fitting(r),
         NEW t \in Task, \A u \in Task \ {t} : job'[u] = job[u],
         Departs(job[t], r), Departs(job'[t], r), Fits(job'[t], r, role')
  PROVE  RoomFits(r, job', role')
<1>1. Alone(r, job')
  BY DEF Fitting, RoomFits, Alone, Departs, Revoking
<1>2. ASSUME NEW u \in Task PROVE Fits(job'[u], r, role')
  <2>1. u # t => ~Departs(job[u], r) /\ ~(job[u].kind = "kick" /\ job[u].room = r)
    BY DEF Fitting, RoomFits, Alone, Departs, Revoking
  <2> QED
    BY <2>1 DEF Fits
<1> QED
  BY <1>1, <1>2 DEF Fitting, RoomFits, Owned

\* Moving on to a point that fits.
LEMMA GotoFits ==
  ASSUME NEW r, Fitting(r), NEW t \in Task, job[t].kind \in Kind, NEW pc, Goto(t, pc),
         \A v \in User : (role'[<<r, v>>] = "owner") <=> (role[<<r, v>>] = "owner"),
         \A u \in Task : Departs(job[u], r) =>
            \A v \in User : role[<<r, v>>] # "none" => role'[<<r, v>>] # "none",
         job[t].kind \in {"depart", "kick"} /\ job[t].room = r => Fits([job[t] EXCEPT !.pc = pc], r, role')
  PROVE  RoomFits(r, job', role')
<1>1. job[t] \in Job
  BY DEF Fitting, NoJob, Kind, Adding, Revoking
<1>2. /\ job'[t] = [job[t] EXCEPT !.pc = pc]
      /\ \A u \in Task \ {t} : job'[u] = job[u]
  BY DEF Fitting, Goto
<1>3. job'[t].kind = job[t].kind /\ job'[t].room = job[t].room
  BY <1>1, <1>2 DEF Job
<1>4. Fits(job'[t], r, role')
  BY <1>2, <1>3 DEF Fits, Departs
<1> QED
  BY <1>2, <1>3, <1>4, RoomStill DEF Fitting

\* Ending, with an owner if it was a departure.
LEMMA DropFits ==
  ASSUME NEW r, Fitting(r), NEW t \in Task, Drop(t), role' = role,
         Departs(job[t], r) => \E u \in User : SoleOwner(r, u, role)
  PROVE  RoomFits(r, job', role')
<1>1. /\ job'[t] = NoJob
      /\ \A u \in Task \ {t} : job'[u] = job[u]
  BY DEF Fitting, Drop
<1> QED
  BY <1>1, RoomStill DEF Fitting

\* What a departure knows of the room it is about.
LEMMA DepartKnows ==
  ASSUME NEW r, Fitting(r), NEW t \in Task, Departs(job[t], r)
  PROVE  /\ job[t] \in Job /\ DepartFits(job[t], r, role)
         /\ job[t].by \in User /\ About(t) = <<r, job[t].by>>
  BY DEF Fitting, Departs, NoJob, Job, RoomFits, Fits, DepartFits, About

\* A departure that moves on in the room it is about.
LEMMA DepartFurther ==
  ASSUME NEW r, Fitting(r), NEW t \in Task, Departs(job[t], r),
         NEW pc \in {"pickHeir", "deleteSelf", "deleteRoom", "bucket"}, Goto(t, pc),
         pc = "pickHeir" => SoleOwner(r, job[t].by, role'),
         pc = "deleteSelf" => OwnerBesides(r, job[t].by, role'),
         pc = "bucket" => \E u \in User : SoleOwner(r, u, role')
  PROVE  RoomFits(r, job', role')
<1>1. job[t] \in Job /\ job[t].who = job[t].by
  BY DepartKnows DEF DepartFits
<1>2. /\ job'[t] = [job[t] EXCEPT !.pc = pc]
      /\ \A u \in Task \ {t} : job'[u] = job[u]
  BY DEF Fitting, Goto
<1>3. /\ Departs(job'[t], r) /\ job'[t].pc = pc
      /\ job'[t].by = job[t].by /\ job'[t].who = job[t].by
  BY <1>1, <1>2 DEF Job, Departs
<1>4. Fits(job'[t], r, role')
  BY <1>3 DEF Fits, Departs, DepartFits
<1> QED
  BY <1>2, <1>3, <1>4, DepartStill

\* A step of t in another room.
LEMMA ElsewhereFits ==
  ASSUME NEW r, Fitting(r), NEW t \in Task, job[t].kind \in {"depart", "kick"}, job[t].room # r,
         \A v \in User : role'[<<r, v>>] = role[<<r, v>>],
         NEW pc, Goto(t, pc) \/ Drop(t)
  PROVE  RoomFits(r, job', role')
<1>1. job[t] \in Job
  BY DEF Fitting, NoJob
<1>2. \A u \in Task \ {t} : job'[u] = job[u]
  BY DEF Fitting, Drop, Goto
<1>3. job'[t] = NoJob \/ (job'[t].kind = job[t].kind /\ job'[t].room = job[t].room)
  BY <1>1 DEF Fitting, Drop, Goto, Job
<1>4. job'[t] # NoJob => Fits(job'[t], r, role')
  BY <1>3 DEF Fits, Departs
<1> QED
  BY <1>2, <1>3, <1>4, RoomStill DEF Departs

\* The choice of the next owner, in another room or in this one.
LEMMA HeirFits ==
  ASSUME NEW r, Fitting(r), role' = role, NEW t \in Task, PickHeir(t), job[t].kind = "depart",
         NEW h \in Heirs(job[t].room, job[t].by), job' = [job EXCEPT ![t].heir = h, ![t].pc = "promote"]
  PROVE  RoomFits(r, job', role')
<1>1. job[t] \in Job
  BY DEF Fitting, NoJob
<1>2. /\ job'[t].kind = "depart" /\ job'[t].room = job[t].room /\ job'[t].pc = "promote"
      /\ job'[t].heir = h /\ job'[t].by = job[t].by /\ job'[t].who = job[t].who
      /\ \A u \in Task \ {t} : job'[u] = job[u]
  BY <1>1 DEF Fitting, Job
<1>3. CASE job[t].room # r
  BY <1>2, <1>3, RoomStill DEF Fits, Departs
<1>4. CASE job[t].room = r
  <2>1. SoleOwner(r, job[t].by, role) /\ job[t].who = job[t].by
    BY <1>4, DepartKnows DEF PickHeir, At, DepartFits, Departs
  <2>2. h \in User \ {job[t].by} /\ role[<<r, h>>] # "none"
    BY <1>4 DEF Heirs, Others
  <2>3. Fits(job'[t], r, role')
    BY <1>2, <2>1, <2>2 DEF Fits, Departs, DepartFits
  <2> QED
    BY <1>2, <1>4, <2>3, DepartStill DEF Departs
<1> QED
  BY <1>3, <1>4

\* No handler but that of create makes a room fit less.
LEMMA HandlerFits ==
  ASSUME AInv, ServiceTypeOK', NEW r, Fitting(r), r \in rooms', r \notin disputed',
         NEW t \in Task, Handler(t), ~Insert(t)
  PROVE  RoomFits(r, job', role')
<1>0. ServiceTypeOK /\ OpOfJob /\ role \in [Pair -> Role]
  BY DEF AInv, SInv, ServiceTypeOK
<1>1. CASE Gate(t) \/ Count(t) \/ Mark(t)
  <2>1. job[t].kind \in Kind \ {"depart", "kick"} /\ role' = role
    BY <1>1 DEF Gate, Count, Mark, At, Kind, Adding, LetIn, ReadTo, GiveUp, dbVars
  <2>2. Drop(t) \/ \E pc : Goto(t, pc)
    BY <1>1 DEF Gate, Count, Mark, LetIn, ReadTo, GiveUp, ToBucket
  <2> QED
    BY <2>1, <2>2, GotoFits, DropFits DEF Departs
<1>2. CASE Authorize(t) \/ TargetRole(t)
  <2>1. job[t].kind \in Kind \ {"depart"} /\ role' = role
    BY <1>2 DEF Authorize, TargetRole, At, Kind, Adding, Revoking, ReadTo, GiveUp, ReadBadly, dbVars
  <2>2. job[t].kind = "kick" /\ job[t].room = r => About(t) = <<r, job[t].who>>
    BY DEF About
  <2>3. \/ Drop(t)
        \/ \E pc : Goto(t, pc) /\ pc # "deleteMember"
        \/ Goto(t, "deleteMember") /\ (role[About(t)] # "owner" \/ job[t].room # r)
    BY <1>2 DEF Authorize, TargetRole, ReadTo, GiveUp, ReadBadly, Dispute
  <2>4. ASSUME NEW pc, Goto(t, pc), pc = "deleteMember" => (role[About(t)] # "owner" \/ job[t].room # r)
        PROVE  RoomFits(r, job', role')
    <3>1. job[t] \in Job
      BY <1>0, <2>1, JobType
    <3>2. job[t].kind \in {"depart", "kick"} /\ job[t].room = r => Fits([job[t] EXCEPT !.pc = pc], r, role')
      BY <2>1, <2>2, <2>4, <3>1 DEF Fits, Departs, KickFits, Job
    <3> QED
      BY <2>1, <2>4, <3>2, GotoFits
  <2>5. CASE Drop(t)
    BY <2>1, <2>5, DropFits DEF Departs
  <2> QED
    BY <2>3, <2>4, <2>5
<1>3. CASE OwnRole(t)
  <2>1. job[t].kind = "depart" /\ role' = role /\ job[t].pc = "ownRole"
    BY <1>3 DEF OwnRole, At, ReadTo, ReadBadly, dbVars
  <2>2. Goto(t, "pickHeir") \/ Goto(t, "deleteSelf")
    BY <1>3 DEF OwnRole, ReadTo, ReadBadly
  <2>3. CASE job[t].room # r
    BY <2>1, <2>2, <2>3, ElsewhereFits
  <2>4. CASE job[t].room = r
    <3>0. Departs(job[t], r)
      BY <2>1, <2>4 DEF Departs
    <3>1. PICK u \in User : SoleOwner(r, u, role)
      BY <2>1, <3>0, DepartKnows DEF DepartFits
    <3>2. /\ job[t].by \in User /\ About(t) = <<r, job[t].by>>
      BY <3>0, DepartKnows
    <3>3. CASE Goto(t, "pickHeir") /\ role[About(t)] = "owner"
      <4>1. SoleOwner(r, job[t].by, role)
        BY <3>1, <3>2, <3>3 DEF SoleOwner
      <4> QED
        BY <2>1, <3>0, <3>3, <4>1, DepartFurther
    <3>4. CASE Goto(t, "deleteSelf") /\ role[About(t)] # "owner"
      <4>1. OwnerBesides(r, job[t].by, role)
        BY <3>1, <3>2, <3>4 DEF SoleOwner, OwnerBesides
      <4> QED
        BY <2>1, <3>0, <3>4, <4>1, DepartFurther
    <3> QED
      BY <1>3, <2>4, <3>3, <3>4 DEF OwnRole, ReadTo, ReadBadly, Dispute
  <2> QED
    BY <2>3, <2>4
<1>4. CASE PickHeir(t)
  <2>1. job[t].kind = "depart" /\ role' = role
    BY <1>4 DEF PickHeir, At, ReadTo, ReadBadly, dbVars
  <2>2. CASE Goto(t, "deleteRoom")
    BY <2>1, <2>2, ElsewhereFits, DepartFurther DEF Departs
  <2>3. CASE \E h \in Heirs(job[t].room, job[t].by) :
               job' = [job EXCEPT ![t].heir = h, ![t].pc = "promote"]
    BY <1>4, <2>1, <2>3, HeirFits
  <2> QED
    BY <1>4, <2>2, <2>3 DEF PickHeir, ReadTo, ReadBadly
<1>5. CASE Promote(t)
  <2>1. job[t].kind = "depart" /\ job[t].pc = "promote" /\ Goto(t, "deleteSelf")
    BY <1>5 DEF Promote, At, ReadBadly
  <2>2. CASE job[t].room # r
    <3>1. \A v \in User : role'[<<r, v>>] = role[<<r, v>>]
      BY <1>0, <1>5, <2>2 DEF Promote, ReadBadly, dbVars, Fitting, Pair
    <3> QED
      BY <2>1, <2>2, <3>1, ElsewhereFits
  <2>3. CASE Departs(job[t], r)
    <3>1. role' = [role EXCEPT ![<<r, job[t].heir>>] = IF @ = "none" THEN "none" ELSE "owner"]
      BY <1>5, <2>3 DEF Promote, ReadBadly, Dispute, Departs
    <3>2. /\ SoleOwner(r, job[t].by, role) /\ job[t].heir \in User \ {job[t].by}
          /\ role[<<r, job[t].heir>>] # "none"
      BY <2>1, <2>3, DepartKnows DEF DepartFits
    <3>3. OwnerBesides(r, job[t].by, role')
      BY <1>0, <3>1, <3>2 DEF SoleOwner, OwnerBesides, Pair, Fitting
    <3> QED
      BY <2>1, <2>3, <3>3, DepartKnows, DepartFurther
  <2> QED
    BY <2>1, <2>2, <2>3 DEF Departs
<1>6. CASE DeleteSelf(t)
  <2>1. job[t].kind = "depart" /\ job[t].pc = "deleteSelf" /\ (Drop(t) \/ Goto(t, "bucket"))
    BY <1>6 DEF DeleteSelf, DeleteRow, ToBucket, At
  <2>2. CASE job[t].room # r
    <3>1. \A v \in User : role'[<<r, v>>] = role[<<r, v>>]
      BY <1>0, <1>6, <2>2 DEF DeleteSelf, DeleteRow, dbVars, Fitting, Pair, About
    <3> QED
      BY <2>1, <2>2, <3>1, ElsewhereFits
  <2>3. CASE Departs(job[t], r)
    <3>1. DeleteRow(t)
      BY <1>6, <2>3 DEF DeleteSelf, Dispute, Departs
    <3>2. role' = [role EXCEPT ![<<r, job[t].by>>] = "none"] /\ Goto(t, "bucket")
      BY <2>3, <3>1, DepartKnows DEF DeleteRow, ToBucket
    <3>3. OwnerBesides(r, job[t].by, role) /\ job[t].by \in User
      BY <2>1, <2>3, DepartKnows DEF DepartFits
    <3>4. \E u \in User : SoleOwner(r, u, role')
      BY <1>0, <3>2, <3>3 DEF SoleOwner, OwnerBesides, Pair, Fitting
    <3> QED
      BY <2>1, <2>3, <3>2, <3>4, DepartKnows, DepartFurther
  <2> QED
    BY <2>1, <2>2, <2>3 DEF Departs
<1>7. CASE DeleteRoom(t)
  <2>1. job[t].kind = "depart" /\ Goto(t, "lastBucket") /\ job[t].room # r
    BY <1>7 DEF DeleteRoom, At, ToBucket, Dispute
  <2>2. \A v \in User : role'[<<r, v>>] = role[<<r, v>>]
    BY <1>0, <1>7, <2>1 DEF DeleteRoom, dbVars, Fitting, Pair, RoomPairs
  <2> QED
    BY <2>1, <2>2, ElsewhereFits
<1>8. CASE Unmark(t)
  <2>1. job[t].kind = "depart" /\ job[t].pc = "unmark" /\ Drop(t) /\ role' = role
    BY <1>8 DEF Unmark, At, dbVars
  <2>2. ~Departs(job[t], r)
    BY <2>1, DepartKnows DEF DepartFits
  <2> QED
    BY <2>1, <2>2, DropFits
<1>9. CASE InsertMember(t)
  <2>1. job[t].kind = "invite"
    BY <1>9 DEF InsertMember, At
  <2>2. /\ \A p \in Pair : (role'[p] = "owner") <=> (role[p] = "owner")
        /\ \A p \in Pair : role[p] # "none" => role'[p] # "none"
    <3>1. About(t) \in Pair
      BY <1>0, <2>1, JobType DEF Kind, Adding
    <3> QED
      BY <1>0, <1>9, <3>1 DEF InsertMember, GiveUp, dbVars
  <2>3. CASE GiveUp(t)
    BY <2>1, <2>3, DropFits DEF GiveUp, dbVars, Departs
  <2>4. CASE ~GiveUp(t)
    <3>1. Goto(t, "bucket")
      BY <1>9, <2>4 DEF InsertMember, ToBucket
    <3>2. \A v \in User : <<r, v>> \in Pair
      BY DEF Fitting, Pair
    <3> QED
      BY <2>1, <2>2, <3>1, <3>2, GotoFits DEF Kind, Adding
  <2> QED
    BY <2>3, <2>4
<1>10. CASE DeleteMember(t)
  <2>1. job[t].kind = "kick" /\ job[t].pc = "deleteMember"
    BY <1>10 DEF DeleteMember, At
  <2>2. CASE GiveUp(t)
    BY <2>1, <2>2, DropFits DEF GiveUp, dbVars, Departs
  <2>3. CASE DeleteRow(t)
    <3>1. role' = [role EXCEPT ![About(t)] = "none"] /\ Goto(t, "bucket")
      BY <2>3 DEF DeleteRow, ToBucket, StartBucket
    <3>2. CASE job[t].room # r
      <4>1. \A v \in User : role'[<<r, v>>] = role[<<r, v>>]
        BY <1>0, <3>1, <3>2 DEF Fitting, Pair, About
      <4> QED
        BY <2>1, <3>1, <3>2, <4>1, ElsewhereFits
    <3>3. CASE job[t].room = r
      <4>1. job[t].who \in User /\ About(t) = <<r, job[t].who>> /\ role[<<r, job[t].who>>] # "owner"
        BY <1>0, <2>1, <3>3, JobType DEF About, Kind, Revoking, Fitting, RoomFits, Fits, KickFits
      <4>2. \A v \in User : (role'[<<r, v>>] = "owner") <=> (role[<<r, v>>] = "owner")
        BY <1>0, <3>1, <4>1 DEF Fitting, Pair
      <4>3. \A u \in Task : ~Departs(job[u], r)
        BY <2>1, <3>3 DEF Fitting, RoomFits, Alone, Departs, Revoking
      <4>4. job[t] \in Job
        BY <1>0, <2>1, JobType DEF Kind, Revoking
      <4>5. /\ [job[t] EXCEPT !.pc = "bucket"].kind = "kick"
            /\ [job[t] EXCEPT !.pc = "bucket"].pc = "bucket"
        BY <2>1, <4>4 DEF Job
      <4>6. Fits([job[t] EXCEPT !.pc = "bucket"], r, role')
        BY <4>5 DEF Fits, KickFits, Departs
      <4> QED
        BY <2>1, <3>1, <4>2, <4>3, <4>6, GotoFits DEF Kind, Revoking
    <3> QED
      BY <3>2, <3>3
  <2> QED
    BY <1>10, <2>2, <2>3 DEF DeleteMember
<1>11. CASE BucketStep(t)
  BY <1>11 DEF BucketStep, svcVars, Fitting
<1>12. CASE BucketEnd(t) \/ BucketError(t)
  <2>1. op[t] # Idle /\ Answer(t) /\ role' = role
    BY <1>12 DEF BucketEnd, BucketError, KvError, Idle, dbVars
  <2>2. job[t].kind \in Kind /\ job[t].pc \in {"bucket", "lastBucket"}
    BY <1>0, <2>1 DEF OpOfJob
  <2>3. CASE Departs(job[t], r)
    <3>1. DepartFits(job[t], r, role)
      BY <2>3, DepartKnows
    <3>2. Drop(t) /\ \E u \in User : SoleOwner(r, u, role)
      BY <2>1, <2>2, <3>1 DEF DepartFits, Answer
    <3> QED
      BY <2>1, <3>2, DropFits
  <2>4. CASE ~Departs(job[t], r)
    <3>1. job[t] \in Job
      BY <1>0, <2>2, JobType
    <3>2. /\ [job[t] EXCEPT !.pc = "unmark"].kind = job[t].kind
          /\ [job[t] EXCEPT !.pc = "unmark"].room = job[t].room
          /\ [job[t] EXCEPT !.pc = "unmark"].pc = "unmark"
      BY <3>1 DEF Job
    <3>3. Fits([job[t] EXCEPT !.pc = "unmark"], r, role')
      BY <2>4, <3>2 DEF Fits, KickFits, Departs
    <3> QED
      BY <2>1, <2>2, <2>4, <3>3, DropFits, GotoFits DEF Answer
  <2> QED
    BY <2>3, <2>4
<1> QED
  BY <1>1, <1>2, <1>3, <1>4, <1>5, <1>6, <1>7, <1>8, <1>9, <1>10, <1>11, <1>12
  DEF Handler

\* A request that arrives is a departure without rivals, or makes the room disputed.
LEMMA BeginFits ==
  ASSUME AInv, ServiceTypeOK', NEW r, Fitting(r), r \notin disputed',
         NEW t \in Task, NEW kind \in Kind, NEW s \in Replica, NEW q \in Room,
         NEW by \in User, NEW who \in User, Begin(t, kind, s, q, by, who)
  PROVE  RoomFits(r, job', role')
<1>1. /\ job[t] = NoJob /\ role' = role
      /\ job'[t].kind = kind /\ job'[t].pc = First(kind) /\ job'[t].room = q
      /\ job'[t].by = by /\ job'[t].who = who
      /\ kind \notin {"invite", "kick"} => who = by
      /\ \A u \in Task \ {t} : job'[u] = job[u]
  BY DEF Begin, Fitting, dbVars
<1>2. \A u \in Task : Contest(u, kind, q) => q \in disputed'
  BY DEF Begin
<1>3. Alone(r, job')
  <2>1. ASSUME q = r, kind \in Revoking \cup {"create"}, NEW u \in Task \ {t},
               job[u].kind \in Revoking \cup {"create"}, job[u].room = r
        PROVE  kind # "depart" /\ job[u].kind # "depart"
    BY <1>2, <2>1 DEF Contest, Running
  <2>2. SUFFICES ASSUME NEW v \in Task, NEW u \in Task, Departs(job'[v], r),
                        job'[u].kind \in Revoking \cup {"create"}, job'[u].room = r
                 PROVE  u = v
    BY DEF Alone
  <2>3. CASE u # t /\ v # t
    BY <1>1, <2>2, <2>3 DEF Fitting, RoomFits, Alone
  <2>4. CASE u = t /\ v # t
    BY <1>1, <2>1, <2>2, <2>4 DEF Departs, Revoking
  <2>5. CASE u # t /\ v = t
    BY <1>1, <2>1, <2>2, <2>5 DEF Departs, Revoking
  <2> QED
    BY <2>3, <2>4, <2>5
<1>4. ~Departs(job[t], r) /\ ~Departs(job'[t], r) => RoomFits(r, job', role')
  <2>1. SUFFICES ASSUME ~Departs(job[t], r), ~Departs(job'[t], r) PROVE RoomFits(r, job', role')
    OBVIOUS
  <2>2. Owned(r, job', role')
    BY <1>1, <2>1 DEF Fitting, RoomFits, Owned
  <2>3. \A u \in Task : Fits(job'[u], r, role')
    BY <1>1, <2>1 DEF Fitting, RoomFits, Fits, KickFits, First
  <2> QED
    BY <1>3, <2>2, <2>3 DEF RoomFits
<1>5. CASE kind = "depart" /\ q = r
  <2>1. \A u \in Task : ~Departs(job[u], r)
    BY <1>1, <1>2, <1>5 DEF Departs, Contest, Running, Revoking, NoJob
  <2>2. \E u \in User : SoleOwner(r, u, role)
    BY <2>1 DEF Fitting, RoomFits, Owned
  <2>3. Fits(job'[t], r, role')
    BY <1>1, <1>5, <2>2 DEF Fits, Departs, DepartFits, First
  <2>4. \A u \in Task : Fits(job'[u], r, role')
    BY <1>1, <2>3 DEF Fitting, RoomFits
  <2>5. Owned(r, job', role')
    BY <1>1, <2>2 DEF Owned
  <2> QED
    BY <1>3, <2>4, <2>5 DEF RoomFits
<1>6. CASE ~(kind = "depart" /\ q = r)
  BY <1>1, <1>4, <1>6 DEF Departs, NoJob
<1> QED
  BY <1>5, <1>6

\* A new room has the one owner its transaction gave it.
LEMMA InsertFits ==
  ASSUME AInv, ServiceTypeOK', NEW r \in rooms', r \notin disputed', NEW t \in Task, Insert(t),
         r \in rooms /\ r \notin disputed => Fitting(r)
  PROVE  RoomFits(r, job', role')
<1>0. /\ job[t].kind = "create" /\ job[t] \in Job /\ About(t) = <<job[t].room, job[t].who>>
      /\ job[t].who \in User /\ job[t].room \in Room
  BY JobType DEF AInv, SInv, Insert, At, Kind, Adding, About
<1>1. CASE GiveUp(t)
  BY <1>0, <1>1, DropFits DEF GiveUp, dbVars, ghosts, Departs
<1>2. CASE ~GiveUp(t)
  <2>1. /\ job[t].room \notin rooms /\ rooms' = rooms \cup {job[t].room}
        /\ role' = [role EXCEPT ![About(t)] = "owner"]
        /\ Goto(t, "mark")
        /\ disputed' = IF \E q \in RoomPairs(job[t].room) : BeingRemoved(q)
                         THEN disputed \cup {job[t].room} ELSE disputed \ {job[t].room}
    BY <1>2 DEF Insert
  <2>2. /\ job'[t].kind = "create" /\ job'[t].room = job[t].room
        /\ \A u \in Task \ {t} : job'[u] = job[u]
    BY <1>0, <2>1 DEF AInv, SInv, ServiceTypeOK, Goto, Job
  <2>3. CASE job[t].room # r
    <3>1. Fitting(r)
      BY <2>1, <2>3
    <3>2. \A v \in User : role'[<<r, v>>] = role[<<r, v>>]
      BY <1>0, <2>1, <2>3, <3>1 DEF AInv, SInv, ServiceTypeOK, Fitting, Pair
    <3> QED
      BY <1>0, <2>1, <3>1, <3>2, GotoFits DEF Kind, Adding
  <2>4. CASE job[t].room = r
    <3>1. \A u \in Task : ~(Running(u, Revoking) /\ job[u].room = r)
      <4>1. ASSUME NEW u \in Task, Running(u, Revoking), job[u].room = r PROVE FALSE
        <5>1. About(u) \in RoomPairs(r)
          BY <4>1, JobType DEF AInv, SInv, Running, Kind, About, RoomPairs
        <5> QED
          BY <2>1, <2>4, <4>1, <5>1 DEF BeingRemoved
      <4> QED
        BY <4>1
    <3>2. \A u \in Task : ~(job'[u].kind \in Revoking /\ job'[u].room = r)
      BY <2>2, <3>1 DEF Running, Revoking
    <3>3. SoleOwner(r, job[t].who, role')
      BY <1>0, <2>1, <2>4 DEF AInv, SInv, ServiceTypeOK, RowsAdmitted, SoleOwner, Pair
    <3> QED
      BY <1>0, <3>2, <3>3 DEF RoomFits, Alone, Owned, Fits, Departs, Revoking
  <2> QED
    BY <2>3, <2>4
<1> QED
  BY <1>1, <1>2

\* A departure that a crash ends makes the room disputed.
LEMMA ReplicaFits ==
  ASSUME NEW r, Fitting(r), r \notin disputed', NEW s \in Replica,
         CrashReplica(s) \/ RestartReplica(s) \/ Network(s)
  PROVE  RoomFits(r, job', role')
<1>1. role' = role /\ \A u \in Task : job'[u] = job[u] \/ (job'[u] = NoJob /\ ~Departs(job[u], r))
  BY DEF CrashReplica, RestartReplica, Network, svcVars, dbVars, Departs, Lost, Running
<1>2. \A u \in Task : Departs(job'[u], r) <=> Departs(job[u], r)
  BY <1>1 DEF Departs, NoJob
<1>3. Alone(r, job')
  BY <1>1 DEF Fitting, RoomFits, Alone, Departs, NoJob, Revoking
<1>4. Owned(r, job', role')
  BY <1>1, <1>2 DEF Fitting, RoomFits, Owned
<1>5. \A u \in Task : Fits(job'[u], r, role')
  BY <1>1 DEF Fitting, RoomFits, Fits, Departs, NoJob
<1> QED
  BY <1>3, <1>4, <1>5 DEF RoomFits

\* Every step keeps what is known of the owners.
LEMMA OInvStep == OInv /\ [ServiceNext]_allVars => OInv'
<1> SUFFICES ASSUME OInv, [ServiceNext]_allVars PROVE OInv'
  OBVIOUS
<1>1. AInv /\ AInv' /\ ServiceTypeOK /\ ServiceTypeOK'
  BY AInvStep DEF OInv, AInv, SInv
<1>2. SUFFICES ASSUME NEW r \in rooms', r \notin disputed' PROVE RoomFits(r, job', role')
  BY <1>1 DEF OInv
<1>3. r \in rooms /\ r \notin disputed => Fitting(r)
  BY <1>1 DEF OInv, Fitting, ServiceTypeOK
<1>4. CASE \E t \in Task : Insert(t)
  BY <1>1, <1>2, <1>3, <1>4, InsertFits
<1>5. CASE \E t \in Task : Handler(t) /\ ~Insert(t)
  <2>1. PICK t \in Task : Handler(t) /\ ~Insert(t)
    BY <1>5
  <2>2. r \in rooms /\ r \notin disputed
    BY <1>2, <2>1 DEF Handler, Gate, Count, Mark, Authorize, InsertMember, TargetRole, DeleteMember,
         OwnRole, PickHeir, Promote, DeleteSelf, DeleteRoom, Unmark, BucketStep, BucketEnd, BucketError,
         LetIn, ReadTo, GiveUp, ReadBadly, Dispute, DeleteRow, dbVars, ghosts, svcVars
  <2> QED
    BY <1>1, <1>2, <1>3, <2>1, <2>2, HandlerFits
<1>6. CASE \E t \in Task, kind \in Kind, s \in Replica, q \in Room, by \in User, who \in User :
             Begin(t, kind, s, q, by, who)
  <2>1. r \in rooms /\ r \notin disputed
    BY <1>2, <1>6 DEF Begin, dbVars
  <2> QED
    BY <1>1, <1>2, <1>3, <1>6, <2>1, BeginFits
<1>7. CASE \E s \in Replica : CrashReplica(s) \/ RestartReplica(s) \/ Network(s)
  <2>1. r \in rooms /\ r \notin disputed
    BY <1>2, <1>7 DEF CrashReplica, RestartReplica, Network, dbVars, ghosts, svcVars
  <2> QED
    BY <1>1, <1>2, <1>3, <1>7, <2>1, ReplicaFits
<1>8. CASE UNCHANGED allVars
  BY <1>2, <1>3, <1>8 DEF allVars, svcVars, Fitting
<1> QED
  BY <1>4, <1>5, <1>6, <1>7, <1>8 DEF ServiceNext

\* One owner: for any number of rooms, users, replicas and overlapping requests, a
\* private room that nobody is leaving has exactly one owner, unless a departure
\* met another departure, a kick or a create of that room, or a statement failed.
THEOREM Ownership == ServiceSpec => []RoomHasOneOwner
<1>1. ServiceInit => OInv
  <2> SUFFICES ASSUME ServiceInit PROVE OInv
    OBVIOUS
  <2>1. AInv
    BY InitAdmits
  <2>2. ASSUME NEW r \in rooms PROVE RoomFits(r, job, role)
    <3>1. OneOwner(r)
      BY <2>2 DEF ServiceInit
    <3>2. \A t \in Task : job[t] = NoJob
      BY DEF ServiceInit
    <3> QED
      BY <3>1, <3>2 DEF RoomFits, Alone, Owned, Fits, Departs, OneOwner, SoleOwner, NoJob, Revoking
  <2> QED
    BY <2>1, <2>2 DEF OInv
<1>2. OInv => RoomHasOneOwner
  <2> SUFFICES ASSUME OInv, NEW r \in rooms \ disputed,
                      \A t \in Task : ~(Running(t, {"depart"}) /\ job[t].room = r)
               PROVE  OneOwner(r)
    BY DEF RoomHasOneOwner
  <2>1. \A t \in Task : ~Departs(job[t], r)
    BY DEF Running, Departs
  <2>2. PICK u \in User : SoleOwner(r, u, role)
    BY <2>1 DEF OInv, RoomFits, Owned
  <2> QED
    BY <2>2 DEF OneOwner, SoleOwner
<1> QED
  BY <1>1, <1>2, OInvStep, PTL DEF ServiceSpec

(***************************************************************************)
(* RemovedUsersAreOut.  A key without a row is about to be deleted: the    *)
(* call that takes it out has still to come to the bucket, and no call     *)
(* that lets the user in is on its way there.                              *)
(***************************************************************************)
Removing(t, p) == Running(t, Revoking) /\ About(t) = p

\* Task t is past everything that could refuse the pair.
Entering(t, p) == Running(t, Adding) /\ About(t) = p /\ job[t].pc \in {"mark", "bucket"}

\* The key is to be deleted and still there.
Undone(t, p) == Removing(t, p) /\ op[t].pc = "kv" /\ op[t].action = "leave"

\* A removal and a call that lets in overlap only for an excused pair.
Apart(p) ==
  \A t, u \in Task :
    (Removing(t, p) /\ Running(u, Adding) /\ About(u) = p) => p \in excused

Rowless(p) == role[p] = "none" /\ p[1] \in rooms /\ p \notin excused

Outgoing(p) ==
  /\ \A t \in Task : ~Entering(t, p)
  /\ p \in kv => \E t \in Task : Undone(t, p)

\* The handlers and the bucket agree about who is being removed.
PairsFit == \A p \in Pair : Apart(p) /\ (Rowless(p) => Outgoing(p))

RInv == SInv /\ PairsFit

\* The jobs of the others stay as they are, and t goes on about the same pair or
\* ends.
Onward(t) ==
  /\ \A u \in Task \ {t} : job'[u] = job[u]
  /\ job'[t] = NoJob \/ (job'[t].kind = job[t].kind /\ About(t)' = About(t))

\* A handler that moves on does so about the same pair.
LEMMA MovesOnward ==
  ASSUME SInv, NEW t \in Task, job[t].kind \in Kind, Drop(t) \/ \E pc : Goto(t, pc)
  PROVE  Onward(t)
<1>1. CASE Drop(t)
  BY <1>1 DEF Drop, Onward, SInv, ServiceTypeOK
<1>2. CASE \E pc : Goto(t, pc)
  BY <1>2, GotoKeeps DEF Onward
<1> QED
  BY <1>1, <1>2

\* Moving on brings no removal and no entry together that were apart.
LEMMA ApartKept ==
  ASSUME RInv, NEW t \in Task, Onward(t), excused \subseteq excused', NEW p \in Pair
  PROVE  Apart(p)'
<1>1. \A u \in Task : /\ Removing(u, p)' => Removing(u, p)
                      /\ (Running(u, Adding) /\ About(u) = p)' => (Running(u, Adding) /\ About(u) = p)
  BY DEF Onward, Removing, Running, About, NoJob, Adding, Revoking
<1> QED
  BY <1>1 DEF RInv, PairsFit, Apart

\* A step of a task that is in no call: a pair without a row was one before, and
\* t does not come to let it in, or t now comes to take it out.
LEMMA PairsKept ==
  ASSUME RInv, NEW t \in Task, op[t] = Idle, Onward(t), kv' = kv, excused \subseteq excused',
         \A u \in Task \ {t} : op'[u] = op[u],
         \A p \in Pair : Rowless(p)' => \/ Rowless(p) /\ ~Entering(t, p)'
                                        \/ Undone(t, p)'
  PROVE  PairsFit'
<1> SUFFICES ASSUME NEW p \in Pair PROVE Apart(p)' /\ (Rowless(p)' => Outgoing(p)')
  BY DEF PairsFit
<1>1. Apart(p)'
  BY ApartKept
<1>2. ASSUME Rowless(p), ~Entering(t, p)' PROVE Outgoing(p)'
  <2>1. \A u \in Task \ {t} : (Entering(u, p)' <=> Entering(u, p)) /\ (Undone(u, p)' <=> Undone(u, p))
    BY DEF Onward, Entering, Undone, Removing, Running, About
  <2>2. ~Undone(t, p)
    BY DEF Undone, Idle
  <2> QED
    BY <1>2, <2>1, <2>2 DEF RInv, PairsFit, Outgoing
<1>3. ASSUME Rowless(p)', Undone(t, p)' PROVE Outgoing(p)'
  <2>1. \A u \in Task : ~Entering(u, p)'
    BY <1>1, <1>3 DEF Apart, Undone, Entering, Rowless
  <2> QED
    BY <1>3, <2>1 DEF Outgoing
<1> QED
  BY <1>1, <1>2, <1>3

\* A step that touches neither a row nor a call.
LEMMA ReadsOut ==
  ASSUME RInv, NEW t \in Task, op[t] = Idle, Onward(t), UNCHANGED <<kv, op, rooms, role>>,
         excused \subseteq excused',
         job'[t] # NoJob => ~(job[t].kind \in Adding /\ job'[t].pc \in {"mark", "bucket"})
  PROVE  PairsFit'
<1>1. \A p \in Pair : Rowless(p)' => (Rowless(p) /\ ~Entering(t, p)')
  BY DEF Rowless, Entering, Onward, Running, NoJob, Adding
<1> QED
  BY <1>1, PairsKept

\* What a task that enters addToRoom or removeFromRoom does to its call.
LEMMA Entered ==
  ASSUME SInv, NEW t \in Task, job[t].kind \in Kind, NEW pc, ToBucket(t, pc)
  PROVE  /\ op[t] = Idle /\ Onward(t) /\ UNCHANGED kv
         /\ \A u \in Task \ {t} : op'[u] = op[u]
         /\ job'[t].kind = job[t].kind /\ job'[t].pc = pc /\ About(t)' = About(t)
         /\ job[t].kind \in Revoking => Undone(t, About(t))'
<1>1. Onward(t) /\ job'[t].kind = job[t].kind /\ job'[t].pc = pc /\ About(t)' = About(t)
  BY MovesOnward, GotoKeeps DEF ToBucket
<1>2. /\ op[t] = Idle /\ UNCHANGED kv
      /\ \A u \in Task \ {t} : op'[u] = op[u]
      /\ op'[t].pc = "kv" /\ op'[t].action = IF job[t].kind \in Adding THEN "join" ELSE "leave"
  BY DEF ToBucket, StartBucket, Start, SInv, TypeOK
<1>3. job[t].kind \in Revoking => Undone(t, About(t))'
  BY <1>1, <1>2 DEF Undone, Removing, Running, Adding, Revoking
<1> QED
  BY <1>1, <1>2, <1>3

\* Who comes to let in what has a row, or the name of no room, leaves the rest.
LEMMA EntersOut ==
  ASSUME RInv, NEW t \in Task, job[t].kind \in Adding, NEW pc, ToBucket(t, pc), rooms' = rooms,
         excused \subseteq excused',
         \A p \in Pair : p = About(t) => ~Rowless(p)',
         \A p \in Pair : role'[p] = "none" => role[p] = "none"
  PROVE  PairsFit'
<1>1. /\ op[t] = Idle /\ Onward(t) /\ UNCHANGED kv
      /\ \A u \in Task \ {t} : op'[u] = op[u]
      /\ About(t)' = About(t)
  BY Entered DEF RInv, PairsFit, Kind
<1>2. \A p \in Pair : Rowless(p)' => (Rowless(p) /\ ~Entering(t, p)')
  <2> SUFFICES ASSUME NEW p \in Pair, Rowless(p)' PROVE Rowless(p) /\ ~Entering(t, p)'
    OBVIOUS
  <2>1. Rowless(p)
    BY DEF Rowless
  <2>2. p # About(t)
    OBVIOUS
  <2>3. ~Entering(t, p)'
    BY <1>1, <2>2 DEF Entering
  <2> QED
    BY <2>1, <2>3
<1> QED
  BY <1>1, <1>2, PairsKept

\* Who comes to take a pair out may have taken its row.
LEMMA LeavesOut ==
  ASSUME RInv, NEW t \in Task, job[t].kind \in Revoking, NEW pc, ToBucket(t, pc),
         excused \subseteq excused', rooms' \subseteq rooms,
         \A p \in Pair : Rowless(p)' => role[p] = "none" \/ p = About(t)
  PROVE  PairsFit'
<1>1. /\ op[t] = Idle /\ Onward(t) /\ UNCHANGED kv
      /\ \A u \in Task \ {t} : op'[u] = op[u]
      /\ job'[t].kind = job[t].kind /\ About(t)' = About(t)
      /\ Undone(t, About(t))'
  BY Entered DEF RInv, PairsFit, Kind
<1>2. ASSUME NEW p \in Pair, Rowless(p)'
      PROVE  (Rowless(p) /\ ~Entering(t, p)') \/ Undone(t, p)'
  <2>1. ~Entering(t, p)'
    BY <1>1 DEF Entering, Running, Adding, Revoking
  <2>2. CASE p = About(t)
    BY <1>1, <2>2
  <2>3. CASE role[p] = "none"
    BY <1>2, <2>1, <2>3 DEF Rowless
  <2> QED
    BY <1>2, <2>2, <2>3
<1> QED
  BY <1>1, <1>2, PairsKept

\* A handler that moves on and touches no row.
LEMMA MovesOut ==
  ASSUME RInv, NEW t \in Task, job[t].kind \in Kind, op[t] = Idle,
         NEW pc, Goto(t, pc) \/ Drop(t), job[t].kind \in Adding => pc \notin {"mark", "bucket"},
         UNCHANGED <<kv, op, rooms, role>>, excused \subseteq excused'
  PROVE  PairsFit'
<1>1. Onward(t)
  BY MovesOnward DEF RInv, PairsFit
<1>2. job'[t] # NoJob => job'[t].pc = pc
  BY GotoKeeps DEF Drop, RInv, PairsFit, SInv, ServiceTypeOK
<1> QED
  BY <1>1, <1>2, ReadsOut DEF PairsFit

\* Those who are let in have a row, or come to a room without one.
LEMMA EntrantsOut ==
  ASSUME RInv, NEW t \in Task, Gate(t) \/ Count(t) \/ Mark(t) \/ InsertMember(t)
  PROVE  PairsFit'
<1> USE DEF dbVars, ghosts
<1>0. /\ SInv
      /\ job[t].kind \in Adding /\ op[t] = Idle
      /\ job[t].pc \in {"gate", "count", "mark", "insertMember"}
  BY AtIdle DEF RInv, PairsFit, Gate, Count, Mark, InsertMember, At, Kind, Adding
<1>1. /\ job[t].kind \in Kind /\ About(t) \in Pair /\ About(t)[1] = job[t].room
  BY <1>0, JobType DEF SInv, About, Kind
<1>2. ASSUME ReadTo(t, "count") \/ GiveUp(t) PROVE PairsFit'
  BY <1>0, <1>1, <1>2, MovesOut DEF ReadTo, GiveUp, vars
<1>3. ASSUME LetIn(t), job[t].room \notin rooms \/ role[About(t)] # "none" PROVE PairsFit'
  <2>1. \A p \in Pair : p = About(t) => ~Rowless(p)'
    BY <1>1, <1>3 DEF Rowless, LetIn
  <2> QED
    BY <1>0, <1>3, <2>1, EntersOut DEF LetIn, PairsFit
<1>4. CASE Gate(t) \/ Count(t)
  BY <1>2, <1>3, <1>4 DEF Gate, Count
<1>5. CASE Mark(t)
  <2>1. Entering(t, About(t))
    BY <1>0, <1>5 DEF Entering, Running, Mark, At
  <2>2. \A p \in Pair : p = About(t) => ~Rowless(p)'
    BY <1>5, <2>1 DEF RInv, PairsFit, Outgoing, Rowless, Mark
  <2> QED
    BY <1>0, <1>5, <2>2, EntersOut DEF Mark, PairsFit
<1>6. CASE InsertMember(t) /\ ~GiveUp(t)
  <2>1. /\ ToBucket(t, "bucket") /\ UNCHANGED <<rooms, excused>>
        /\ role' = [role EXCEPT ![About(t)] = IF @ = "none" THEN "member" ELSE @]
    BY <1>6 DEF InsertMember
  <2>2. \A p \in Pair : /\ role'[p] = "none" => role[p] = "none"
                        /\ p = About(t) => ~Rowless(p)'
    BY <1>0, <1>1, <2>1 DEF SInv, ServiceTypeOK, Rowless
  <2> QED
    BY <1>0, <2>1, <2>2, EntersOut DEF PairsFit
<1> QED
  BY <1>2, <1>4, <1>5, <1>6

\* Kicks and departures take the row and then the key; a failed removal excuses.
LEMMA LeaversOut ==
  ASSUME RInv, NEW t \in Task,
         Authorize(t) \/ TargetRole(t) \/ DeleteMember(t) \/ OwnRole(t) \/ PickHeir(t) \/ Promote(t)
           \/ DeleteSelf(t) \/ DeleteRoom(t) \/ Unmark(t)
  PROVE  PairsFit'
<1> USE DEF dbVars, ghosts
<1>0. SInv /\ job[t].kind \in Kind /\ op[t] = Idle
  BY AtIdle DEF RInv, Authorize, TargetRole, DeleteMember, OwnRole, PickHeir, Promote, DeleteSelf,
                DeleteRoom, Unmark, At, Kind, Adding, Revoking
<1>1. job[t] \in Job /\ About(t) \in Pair /\ About(t)[1] = job[t].room
  BY <1>0, JobType DEF SInv, About
<1>2. CASE Authorize(t) \/ TargetRole(t) \/ OwnRole(t) \/ Unmark(t)
  <2>1. /\ Drop(t) \/ \E pc : Goto(t, pc) /\ pc \notin {"mark", "bucket"}
        /\ UNCHANGED <<kv, op, rooms, role, excused>>
    BY <1>2 DEF Authorize, TargetRole, OwnRole, Unmark, ReadTo, ReadBadly, GiveUp, vars
  <2> QED
    BY <1>0, <2>1, MovesOut
<1>3. CASE PickHeir(t)
  <2>1. /\ job[t].kind = "depart" /\ UNCHANGED <<kv, op, rooms, role, excused>>
    BY <1>3 DEF PickHeir, At, ReadTo, ReadBadly, vars
  <2>2. CASE \E h : job' = [job EXCEPT ![t].heir = h, ![t].pc = "promote"]
    <3>1. Onward(t)
      BY <1>0, <1>1, <2>2 DEF SInv, ServiceTypeOK, Onward, Job, About
    <3> QED
      BY <1>0, <2>1, <3>1, ReadsOut DEF PairsFit, Adding
  <2>3. CASE \E pc : Goto(t, pc)
    BY <1>0, <2>1, <2>3, MovesOut DEF Adding
  <2> QED
    BY <1>3, <2>2, <2>3 DEF PickHeir, ReadTo, ReadBadly
<1>4. CASE Promote(t)
  <2>1. /\ job[t].kind = "depart" /\ UNCHANGED <<kv, op, rooms, excused>> /\ Goto(t, "deleteSelf")
        /\ \A p \in Pair : role'[p] = "none" => role[p] = "none"
    BY <1>0, <1>4 DEF Promote, At, ReadBadly, vars, SInv, ServiceTypeOK
  <2>2. Onward(t) /\ job'[t].kind = "depart"
    BY <1>0, <2>1, MovesOnward, GotoKeeps
  <2>3. \A p \in Pair : Rowless(p)' => (Rowless(p) /\ ~Entering(t, p)')
    BY <2>1, <2>2 DEF Rowless, Entering, Running, Adding
  <2> QED
    BY <1>0, <2>1, <2>2, <2>3, PairsKept DEF PairsFit
<1>5. CASE DeleteMember(t) \/ DeleteSelf(t)
  <2>0. job[t].kind \in Revoking
    BY <1>5 DEF DeleteMember, DeleteSelf, At, Revoking
  <2>1. CASE DeleteRow(t)
    <3>1. \A p \in Pair : p # About(t) => role'[p] = role[p]
      BY <1>0, <2>1 DEF DeleteRow, SInv, ServiceTypeOK
    <3> QED
      BY <2>0, <2>1, <3>1, LeavesOut DEF DeleteRow, Rowless, PairsFit
  <2>2. CASE Drop(t) /\ UNCHANGED <<kv, op, rooms, role, excused>>
    BY <1>0, <2>0, <2>2, MovesOut DEF Revoking, Adding
  <2> QED
    BY <1>5, <2>1, <2>2 DEF DeleteMember, DeleteSelf, GiveUp, vars
<1>6. CASE DeleteRoom(t)
  <2>1. /\ job[t].kind \in Revoking /\ ToBucket(t, "lastBucket")
        /\ excused \subseteq excused' /\ rooms' \subseteq rooms
    BY <1>6 DEF DeleteRoom, At, Revoking
  <2>2. \A p \in Pair : Rowless(p)' => role[p] = "none"
    BY <1>6 DEF DeleteRoom, Rowless, RoomPairs, Pair
  <2> QED
    BY <2>1, <2>2, LeavesOut DEF PairsFit
<1> QED
  BY <1>2, <1>3, <1>4, <1>5, <1>6

\* The call itself: only a removal takes the key, and only who has a row brings it.
LEMMA CallsOut ==
  ASSUME RInv, NEW t \in Task, BucketStep(t) \/ BucketEnd(t) \/ BucketError(t)
  PROVE  PairsFit'
<1> USE DEF dbVars, ghosts
<1>0. /\ SInv /\ op[t] # Idle /\ op[t] \in Call /\ op[t].pair = About(t)
      /\ job[t].kind \in Kind /\ job[t].pc \in {"bucket", "lastBucket"}
      /\ op[t].action = "join" => Entering(t, About(t))
  <2>1. SInv /\ op[t] # Idle
    BY DEF RInv, PairsFit, BucketStep, BucketEnd, BucketError, KvChange, UpdateLocal, KvError, Idle
  <2> QED
    BY <2>1 DEF SInv, OpOfJob, TypeOK, Entering, Running
<1>1. /\ UNCHANGED <<rooms, role>> /\ excused \subseteq excused'
      /\ Onward(t)
  <2>1. CASE BucketStep(t)
    BY <2>1 DEF BucketStep, svcVars, Onward, About
  <2>2. CASE BucketEnd(t) \/ BucketError(t)
    <3>1. Drop(t) \/ \E pc : Goto(t, pc)
      BY <2>2 DEF BucketEnd, BucketError, Answer
    <3> QED
      BY <1>0, <2>2, <3>1, MovesOnward DEF BucketEnd, BucketError
  <2> QED
    BY <2>1, <2>2
<1>2. /\ \A u \in Task \ {t} : op'[u] = op[u]
      /\ \A p \in Pair : p # About(t) => (p \in kv' <=> p \in kv)
      /\ op[t].action = "leave" => kv' \subseteq kv
  BY <1>0 DEF SInv, TypeOK, BucketStep, BucketEnd, BucketError, KvChange, UpdateLocal, KvError, KvNoChange,
              PublishDelta, End, Apply
<1>3. ASSUME NEW p \in Pair, Rowless(p)' PROVE Outgoing(p)'
  <2>1. Rowless(p) /\ Outgoing(p)
    BY <1>1, <1>3 DEF Rowless, RInv, PairsFit
  <2>2. \A u \in Task : ~Entering(u, p)'
    <3>1. \A u \in Task \ {t} : ~Entering(u, p)'
      BY <1>1, <2>1 DEF Onward, Outgoing, Entering, Running, About
    <3>2. ~Entering(t, p)'
      <4>1. CASE BucketStep(t)
        BY <4>1, <2>1 DEF BucketStep, svcVars, Outgoing, Entering, Running, About
      <4>2. CASE Answer(t)
        <5>1. job'[t] = NoJob \/ job'[t].pc = "unmark"
          BY <1>0, <4>2, GotoKeeps DEF Answer, Drop, SInv, ServiceTypeOK
        <5> QED
          BY <5>1 DEF Entering, Running, NoJob, Adding
      <4> QED
        BY <4>1, <4>2 DEF BucketEnd, BucketError
    <3> QED
      BY <3>1, <3>2
  <2>3. \A u \in Task \ {t} : Undone(u, p)' <=> Undone(u, p)
    BY <1>1, <1>2 DEF Onward, Undone, Removing, Running, About
  <2>4. CASE p # About(t)
    <3>1. ~Undone(t, p)
      BY <2>4 DEF Undone, Removing
    <3> QED
      BY <1>2, <2>1, <2>2, <2>3, <2>4, <3>1 DEF Outgoing
  <2>5. CASE p = About(t)
    <3>1. op[t].action = "leave"
      BY <1>0, <2>1, <2>5 DEF Outgoing, Call, Action
    <3>2. CASE KvChange(t) \/ KvNoChange(t)
      <4>1. p \notin kv'
        BY <1>0, <2>5, <3>1, <3>2 DEF KvChange, KvNoChange, Apply
      <4> QED
        BY <2>2, <4>1 DEF Outgoing
    <3>3. CASE op[t].pc # "kv"
      <4>1. ~Undone(t, p)
        BY <3>3 DEF Undone
      <4> QED
        BY <1>2, <2>1, <2>2, <2>3, <3>1, <4>1 DEF Outgoing
    <3>4. CASE BucketError(t)
      <4>1. ~Running(t, Revoking)
        BY <1>3, <2>5, <3>4 DEF BucketError, Rowless
      <4>2. ~Undone(t, p)
        BY <4>1 DEF Undone, Removing
      <4> QED
        BY <1>2, <2>1, <2>2, <2>3, <3>1, <4>2 DEF Outgoing
    <3> QED
      BY <3>2, <3>3, <3>4 DEF BucketStep, BucketEnd, UpdateLocal, PublishDelta
  <2> QED
    BY <2>4, <2>5
<1> QED
  BY <1>1, <1>3, ApartKept DEF PairsFit

\* A request that contradicts one under way excuses its pair.
LEMMA BeginOut ==
  ASSUME RInv, NEW t \in Task, NEW kind \in Kind, NEW s \in Replica, NEW r \in Room,
         NEW by \in User, NEW who \in User, Begin(t, kind, s, r, by, who)
  PROVE  PairsFit'
<1>1. /\ job[t] = NoJob /\ op[t] = Idle /\ UNCHANGED <<kv, rooms, role>>
      /\ job'[t].kind = kind /\ job'[t].pc = First(kind) /\ About(t)' = <<r, who>>
      /\ \A u \in Task \ {t} : job'[u] = job[u] /\ op'[u] = op[u]
      /\ excused \subseteq excused'
      /\ \A u \in Task : Contrary(u, kind, <<r, who>>) => <<r, who>> \in excused'
  BY DEF Begin, RInv, PairsFit, SInv, ServiceTypeOK, TypeOK, dbVars, StartBucket, Start, vars, About
<1>2. SUFFICES ASSUME NEW p \in Pair PROVE Apart(p)' /\ (Rowless(p)' => Outgoing(p)')
  BY DEF PairsFit
<1>3. \A u \in Task \ {t} :
        /\ Removing(u, p)' <=> Removing(u, p)
        /\ Entering(u, p)' <=> Entering(u, p)
        /\ Undone(u, p)' <=> Undone(u, p)
        /\ (Running(u, Adding) /\ About(u) = p)' <=> (Running(u, Adding) /\ About(u) = p)
  BY <1>1 DEF Removing, Entering, Undone, Running, About
<1>4. Apart(p)'
  <2> SUFFICES ASSUME NEW u \in Task, NEW v \in Task, Removing(u, p)', (Running(v, Adding) /\ About(v) = p)'
               PROVE  p \in excused'
    BY DEF Apart
  <2>1. CASE u # t /\ v # t
    BY <1>1, <1>3, <2>1 DEF RInv, PairsFit, Apart
  <2>2. CASE u = t
    <3>1. v # t /\ kind \in Revoking /\ p = <<r, who>>
      BY <1>1, <2>2 DEF Removing, Running, Adding, Revoking
    <3>2. Contrary(v, kind, p)
      BY <1>3, <3>1 DEF Contrary, Running, NoJob, Adding
    <3> QED
      BY <1>1, <3>1, <3>2
  <2>3. CASE v = t
    <3>1. u # t /\ kind \in Adding /\ p = <<r, who>>
      BY <1>1, <2>3 DEF Removing, Running, Adding, Revoking
    <3>2. Contrary(u, kind, p)
      BY <1>3, <3>1 DEF Contrary, Removing, Running, NoJob, Revoking
    <3> QED
      BY <1>1, <3>1, <3>2
  <2> QED
    BY <2>1, <2>2, <2>3
<1>5. ASSUME Rowless(p)' PROVE Outgoing(p)'
  <2>1. Outgoing(p)
    BY <1>1, <1>5 DEF Rowless, RInv, PairsFit
  <2>2. ~Entering(t, p)'
    BY <1>1 DEF Entering, Running, First, Adding
  <2>3. ~Undone(t, p)
    BY <1>1 DEF Undone, Idle
  <2> QED
    BY <1>1, <1>3, <2>1, <2>2, <2>3 DEF Outgoing
<1> QED
  BY <1>4, <1>5

\* The room gets its row: who has left a trace inside, or is being removed, is
\* excused, and the others are neither inside nor on their way.
LEMMA InsertOut ==
  ASSUME RInv, NEW t \in Task, Insert(t)
  PROVE  PairsFit'
<1> DEFINE r == job[t].room
<1>0. /\ SInv /\ job[t].kind = "create" /\ job[t].kind \in Kind /\ op[t] = Idle
      /\ UNCHANGED <<kv, op>>
  BY AtIdle DEF RInv, PairsFit, Insert, At, GiveUp, vars, Kind, Adding
<1>1. About(t) \in Pair /\ About(t)[1] = r
  BY <1>0, JobType DEF SInv, About
<1>2. CASE GiveUp(t)
  BY <1>0, <1>2, MovesOut DEF GiveUp, ghosts, dbVars
<1>3. CASE ~GiveUp(t)
  <2>1. /\ r \notin rooms /\ rooms' = rooms \cup {r}
        /\ role' = [role EXCEPT ![About(t)] = "owner"]
        /\ excused' = (excused \ RoomPairs(r)) \cup Traces(r) \cup {q \in RoomPairs(r) : BeingRemoved(q)}
        /\ Goto(t, "mark")
    BY <1>3 DEF Insert
  <2>2. /\ Onward(t) /\ About(t)' = About(t)
        /\ \A u \in Task \ {t} : job'[u] = job[u]
    BY <1>0, <2>1, MovesOnward, GotoKeeps
  <2> SUFFICES ASSUME NEW p \in Pair PROVE Apart(p)' /\ (Rowless(p)' => Outgoing(p)')
    BY DEF PairsFit
  <2>3. /\ p[1] # r => (p \in excused <=> p \in excused')
        /\ p[1] = r => (Trace(p) \/ BeingRemoved(p) => p \in excused')
    BY <2>1 DEF RoomPairs, Traces, Pair
  <2>4. \A u \in Task : /\ Removing(u, p)' => Removing(u, p)
                        /\ (Running(u, Adding) /\ About(u) = p)' => (Running(u, Adding) /\ About(u) = p)
    BY <2>2 DEF Onward, Removing, Running, About, NoJob, Adding, Revoking
  <2>5. \A u \in Task \ {t} : (Entering(u, p)' <=> Entering(u, p)) /\ (Undone(u, p)' <=> Undone(u, p))
    BY <1>0, <2>2 DEF Entering, Undone, Removing, Running, About
  <2>6. Apart(p)'
    BY <2>3, <2>4 DEF RInv, PairsFit, Apart, BeingRemoved, Removing
  <2>7. ASSUME Rowless(p)' PROVE Outgoing(p)'
    <3>1. p # About(t) /\ role[p] = "none"
      BY <1>0, <1>1, <2>1, <2>7 DEF Rowless, SInv, ServiceTypeOK
    <3>2. ~Entering(t, p)' /\ ~Undone(t, p)
      BY <1>0, <2>2, <3>1 DEF Entering, Undone, Idle
    <3>3. CASE p[1] # r
      <4>1. Outgoing(p)
        BY <2>1, <2>3, <2>7, <3>1, <3>3 DEF Rowless, RInv, PairsFit
      <4> QED
        BY <1>0, <2>5, <3>2, <4>1 DEF Outgoing
    <3>4. CASE p[1] = r
      <4>1. ~Trace(p)
        BY <2>3, <2>7, <3>4 DEF Rowless
      <4>2. p \notin kv /\ \A u \in Task : ~Entering(u, p)
        BY <4>1 DEF Trace, Entering
      <4> QED
        BY <1>0, <2>5, <3>2, <4>2 DEF Outgoing
    <3> QED
      BY <3>3, <3>4
  <2> QED
    BY <2>6, <2>7
<1> QED
  BY <1>2, <1>3

\* A crash excuses whom the replica was taking out; the rest touches no call.
LEMMA ReplicaOut ==
  ASSUME RInv, NEW s \in Replica, CrashReplica(s) \/ RestartReplica(s) \/ Network(s)
  PROVE  PairsFit'
<1>0. SInv
  BY DEF RInv, PairsFit
<1>1. /\ UNCHANGED <<kv, rooms, role>> /\ excused \subseteq excused'
      /\ \A t \in Task : \/ job'[t] = job[t] /\ op'[t] = op[t]
                         \/ job'[t] = NoJob /\ (Running(t, Revoking) => About(t) \in excused')
  <2>1. CASE CrashReplica(s)
    <3>1. ASSUME NEW t \in Task, t \notin Lost(s) PROVE job'[t] = job[t] /\ op'[t] = op[t]
      <4>1. ~(op[t] # Idle /\ op[t].at = s)
        BY <1>0, <3>1 DEF Lost, SInv, OpOfJob, NoJob, Kind, Adding, Revoking
      <4> QED
        BY <2>1, <3>1, <4>1 DEF CrashReplica, Crash
    <3>2. ASSUME NEW t \in Task, t \in Lost(s)
          PROVE  job'[t] = NoJob /\ (Running(t, Revoking) => About(t) \in excused')
      BY <2>1, <3>2 DEF CrashReplica
    <3>3. UNCHANGED <<kv, rooms, role>> /\ excused \subseteq excused'
      BY <2>1 DEF CrashReplica, Crash, dbVars
    <3> QED
      BY <3>1, <3>2, <3>3
  <2>2. CASE RestartReplica(s) \/ Network(s)
    BY <2>2 DEF RestartReplica, Restart, Network, Deliver, Hydrate, HydrateRead, HydrateSwap, HydrateFail,
                Disconnect, Reconnect, dbVars, ghosts, svcVars
  <2> QED
    BY <2>1, <2>2
<1> SUFFICES ASSUME NEW p \in Pair PROVE Apart(p)' /\ (Rowless(p)' => Outgoing(p)')
  BY DEF PairsFit
<1>2. \A t \in Task :
        /\ Removing(t, p)' => Removing(t, p)
        /\ (Running(t, Adding) /\ About(t) = p)' => (Running(t, Adding) /\ About(t) = p)
        /\ Entering(t, p)' => Entering(t, p)
        /\ Undone(t, p) => (Undone(t, p)' \/ p \in excused')
  <2> SUFFICES ASSUME NEW t \in Task
               PROVE  /\ Removing(t, p)' => Removing(t, p)
                      /\ (Running(t, Adding) /\ About(t) = p)' => (Running(t, Adding) /\ About(t) = p)
                      /\ Entering(t, p)' => Entering(t, p)
                      /\ Undone(t, p) => (Undone(t, p)' \/ p \in excused')
    OBVIOUS
  <2>1. CASE job'[t] = job[t] /\ op'[t] = op[t]
    BY <2>1 DEF Removing, Entering, Undone, Running, About
  <2>2. CASE job'[t] = NoJob /\ (Running(t, Revoking) => About(t) \in excused')
    BY <2>2 DEF Removing, Entering, Undone, Running, NoJob, Adding, Revoking
  <2> QED
    BY <1>1, <2>1, <2>2
<1>3. Apart(p)'
  BY <1>1, <1>2 DEF RInv, PairsFit, Apart
<1>4. ASSUME Rowless(p)' PROVE Outgoing(p)'
  <2>1. Outgoing(p)
    BY <1>1, <1>4 DEF Rowless, RInv, PairsFit
  <2> QED
    BY <1>1, <1>2, <1>4, <2>1 DEF Outgoing, Rowless
<1> QED
  BY <1>3, <1>4

\* Every step keeps the invariant.
LEMMA RInvStep == RInv /\ [ServiceNext]_allVars => RInv'
<1> SUFFICES ASSUME RInv, [ServiceNext]_allVars PROVE RInv'
  OBVIOUS
<1>1. SInv'
  BY SInvStep DEF RInv, PairsFit
<1>2. CASE \E t \in Task : Handler(t)
  <2>1. PICK t \in Task : Handler(t)
    BY <1>2
  <2>2. PairsFit'
    BY <2>1, EntrantsOut, LeaversOut, InsertOut, CallsOut DEF Handler
  <2> QED
    BY <1>1, <2>2 DEF PairsFit, RInv
<1>3. CASE \E t \in Task, kind \in Kind, s \in Replica, r \in Room, by \in User, who \in User :
             Begin(t, kind, s, r, by, who)
  BY <1>1, <1>3, BeginOut DEF PairsFit, RInv
<1>4. CASE \E s \in Replica : CrashReplica(s) \/ RestartReplica(s) \/ Network(s)
  BY <1>1, <1>4, ReplicaOut DEF PairsFit, RInv
<1>5. CASE UNCHANGED allVars
  <2>1. UNCHANGED <<kv, op, job, rooms, role, excused>>
    BY <1>5 DEF allVars, svcVars, vars
  <2>2. ASSUME NEW p \in Pair PROVE Apart(p)' /\ (Rowless(p)' => Outgoing(p)')
    <3>1. Apart(p)' /\ (Rowless(p)' => Rowless(p))
      BY <2>1 DEF RInv, PairsFit, Apart, Rowless, Removing, Running, About
    <3>2. \A t \in Task : (Entering(t, p)' <=> Entering(t, p)) /\ (Undone(t, p)' <=> Undone(t, p))
      BY <2>1 DEF Entering, Undone, Removing, Running, About
    <3>3. (p \in kv) <=> (p \in kv')
      BY <2>1
    <3> QED
      BY <3>1, <3>2, <3>3 DEF RInv, PairsFit, Outgoing
  <2> QED
    BY <1>1, <2>2 DEF RInv, PairsFit
<1> QED
  BY <1>2, <1>3, <1>4, <1>5 DEF ServiceNext

\* Removal holds: for any number of rooms, users, replicas and overlapping
\* requests, with crashes and errors, a user of a private room who has no row and
\* whom nobody is taking out any more has no key in the bucket, but for those whom
\* a join or invite met on the way or whose removal failed.
THEOREM Removal == ServiceSpec => []RemovedUsersAreOut
<1>1. ServiceInit => RInv
  <2> SUFFICES ASSUME ServiceInit PROVE RInv
    OBVIOUS
  <2>1. SInv
    BY SInvInit
  <2>2. \A t \in Task : job[t] = NoJob
    BY DEF ServiceInit
  <2>3. \A p \in kv : ~Rowless(p)
    BY DEF ServiceInit, Rowless
  <2> QED
    BY <2>1, <2>2, <2>3 DEF RInv, PairsFit, Apart, Outgoing, Removing, Entering, Running, NoJob, Adding, Revoking
<1>2. RInv => RemovedUsersAreOut
  <2> SUFFICES ASSUME RInv, NEW p \in Pair, p \in kv, p[1] \in rooms, p \notin excused, role[p] = "none"
               PROVE  BeingRemoved(p)
    BY DEF RemovedUsersAreOut
  <2>1. PICK t \in Task : Undone(t, p)
    BY DEF RInv, PairsFit, Rowless, Outgoing
  <2> QED
    BY <2>1 DEF Undone, Removing, BeingRemoved
<1> QED
  BY <1>1, <1>2, RInvStep, PTL DEF ServiceSpec
=============================================================================
