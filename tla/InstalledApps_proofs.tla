------------------------ MODULE InstalledApps_proofs ------------------------
(***************************************************************************)
(* The apps of a room come to rest as they should: tabs, polls and a page  *)
(* of the knowledge base, for any number of apps, polls, writers, visits,  *)
(* words and faults.                                                       *)
(***************************************************************************)
EXTENDS InstalledApps, FiniteSetTheorems, TLAPS

\* Among one number more than a finite set has members there is one that none
\* of them has.
LEMMA FreshNumber ==
  ASSUME NEW S, IsFiniteSet(S), NEW f \in [S -> Int], NEW a \in Int
  PROVE  /\ Cardinality(S) \in Nat
         /\ \E n \in a..(a + Cardinality(S)) : \A s \in S : f[s] # n
<1>1. Cardinality(S) \in Nat
  BY FS_CardinalityType
<1> DEFINE I == {f[s] : s \in S}
           R == a..(a + Cardinality(S))
<1>2. IsFiniteSet(I) /\ Cardinality(I) <= Cardinality(S)
  <2>1. f \in Surjection(S, I)
    BY DEF Surjection
  <2> HIDE DEF I
  <2> QED BY <2>1, FS_Surjection
<1>3. Cardinality(R) = Cardinality(S) + 1
  <2>1. a + Cardinality(S) \in Int /\ a <= a + Cardinality(S)
    BY <1>1
  <2>2. Cardinality(R) = (a + Cardinality(S)) - a + 1
    BY <2>1, FS_Interval
  <2> QED BY <1>1, <2>2
<1>4. ~(R \subseteq I)
  <2> SUFFICES ASSUME R \subseteq I PROVE FALSE
    OBVIOUS
  <2> HIDE DEF R, I
  <2>1. Cardinality(R) <= Cardinality(I)
    BY <1>2, FS_Subset
  <2>2. Cardinality(I) \in Nat
    BY <1>2, FS_CardinalityType
  <2> QED BY <1>1, <1>2, <1>3, <2>1, <2>2
<1> QED BY <1>1, <1>4

(***************************************************************************)
(* AppTabs.                                                                *)
(***************************************************************************)
\* The tab of an app that is not shown waits for its script, into the container that
\* is on the screen, unless its script could not be loaded or another came late.
OnScreen == elements # {} /\ \A e \in elements : e.app = tab /\ e \in hearing
TabsInv ==
  /\ installed \subseteq RoomApps
  /\ (~crashed /\ tab \in installed) =>
       failed \/ late \/ OnScreen \/ \E s \in scripts : s.app = tab /\ s.for = container

\* A mounted app is alone in its container, and hears.
LEMMA MountedIsShown ==
  ASSUME NEW a, NEW heard, AppMounted(a, heard)
  PROVE  elements' # {} /\ \A e \in elements' : e.app = a /\ e \in hearing'
  BY DEF AppMounted

\* The effect shows the app of its tab or waits for its script.
LEMMA EffectShows ==
  ASSUME NEW t, NEW apps, apps \subseteq RoomApps, Effect(t, apps)
  PROVE  TabsInv'
<1>1. tab' = t /\ installed' = apps
  BY DEF Effect
<1>2. CASE t \in apps \cap defined
  <2>1. AppMounted(t, {e \in StillHearing(hearing) : e.app # tab \/ tab \notin installed})
    BY <1>2 DEF Effect
  <2>2. OnScreen'
    BY <1>1, <2>1, MountedIsShown DEF OnScreen
  <2> QED BY <1>1, <2>2 DEF TabsInv
<1>3. CASE t \in apps /\ t \notin defined
  <2> DEFINE s == [app |-> t, for |-> container', no |-> NextNo(scripts)]
  <2>1. scripts' = scripts \cup {s}
    BY <1>3 DEF Effect
  <2>2. s.app = t /\ s.for = container'
    OBVIOUS
  <2> HIDE DEF s
  <2> QED BY <1>1, <2>1, <2>2 DEF TabsInv
<1>4. CASE t \notin apps
  BY <1>1, <1>4 DEF TabsInv
<1> QED BY <1>2, <1>3, <1>4

LEMMA TabsInvKept ==
  ASSUME TabsInv, [TabsNext]_tabVars
  PROVE  TabsInv'
<1>1. ASSUME NEW t \in RoomApps \cup {Chat}, ChooseTab(t) PROVE TabsInv'
  BY <1>1, EffectShows DEF ChooseTab, TabsInv
<1>2. ASSUME NEW ok \in BOOLEAN, AppsListed(ok) PROVE TabsInv'
  <2> DEFINE apps == IF ok THEN RoomApps ELSE {}
  <2>1. apps \subseteq RoomApps
    OBVIOUS
  <2>2. tab = Chat => installed' = apps /\ tab' = tab
    BY <1>2 DEF AppsListed
  <2>3. tab # Chat => Effect(tab, apps)
    BY <1>2 DEF AppsListed
  <2> HIDE DEF apps
  <2>4. CASE tab = Chat
    BY <2>1, <2>2, <2>4, ChatIsNoApp DEF TabsInv
  <2> QED BY <2>1, <2>3, <2>4, EffectShows
<1>3. CASE Reconnected
  <2>1. CASE tab = Chat
    BY <1>3, <2>1, ChatIsNoApp DEF Reconnected, TabsInv
  <2> QED BY <1>3, <2>1, EffectShows DEF Reconnected, TabsInv
<1>4. ASSUME NEW s \in scripts, ScriptLoads(s) PROVE TabsInv'
  <2>1. UNCHANGED <<tab, installed, container, failed, crashed>> /\ scripts' = scripts \ {s}
    BY <1>4 DEF ScriptLoads
  <2>2. CASE s.for = container
    <3>1. AppMounted(s.app, StillHearing(hearing)) /\ late' = (late \/ s.app # tab)
      BY <1>4, <2>2 DEF ScriptLoads
    <3>2. s.app = tab => OnScreen'
      BY <2>1, <3>1, MountedIsShown DEF OnScreen
    <3> QED BY <2>1, <3>1, <3>2 DEF TabsInv
  <2>3. CASE s.for # container
    <3>1. UNCHANGED <<elements, late>> /\ hearing \subseteq hearing'
      BY <1>4, <2>3 DEF ScriptLoads
    <3> QED BY <2>1, <2>3, <3>1 DEF TabsInv, OnScreen
  <2> QED BY <2>2, <2>3
<1>5. ASSUME NEW s \in scripts, ScriptFails(s) PROVE TabsInv'
  BY <1>5 DEF ScriptFails, TabsInv
<1>6. CASE UNCHANGED tabVars
  BY <1>6 DEF tabVars, TabsInv, OnScreen
<1> QED BY <1>1, <1>2, <1>3, <1>4, <1>5, <1>6 DEF TabsNext

-----------------------------------------------------------------------------
\* The types, and that there are finitely many numbers to choose a new one
\* from.
TabsTypes == TabsTypeOK /\ IsFiniteSet(scripts) /\ IsFiniteSet(hearing)

\* The number after those of finitely many elements.
LEMMA NextNoIs ==
  ASSUME NEW es, IsFiniteSet(es)
  PROVE  NextNo(es) \in Nat /\ 1 <= NextNo(es)
<1>1. Cardinality(es) \in Nat
  BY FS_CardinalityType
<1> QED BY <1>1 DEF NextNo

\* The element of an app that is mounted.
LEMMA MountedTypes ==
  ASSUME NEW a \in RoomApps, NEW heard \in SUBSET Elem, IsFiniteSet(heard), AppMounted(a, heard)
  PROVE  elements' \subseteq Elem /\ hearing' \subseteq Elem /\ IsFiniteSet(hearing')
<1> DEFINE n == CHOOSE n \in 1..NextNo(heard) : [app |-> a, no |-> n] \notin heard
           e == [app |-> a, no |-> n]
<1>1. \E m \in 1..NextNo(heard) : [app |-> a, no |-> m] \notin heard
  <2> DEFINE f == [x \in heard |-> x.no]
  <2>1. f \in [heard -> Int]
    BY DEF Elem
  <2> HIDE DEF f
  <2>2. Cardinality(heard) \in Nat /\ \E m \in 1..(1 + Cardinality(heard)) : \A x \in heard : f[x] # m
    BY <2>1, FreshNumber
  <2>3. PICK m \in 1..(1 + Cardinality(heard)) : \A x \in heard : f[x] # m
    BY <2>2
  <2>4. [app |-> a, no |-> m] \notin heard
    BY <2>3 DEF f
  <2>5. m \in 1..NextNo(heard)
    BY <2>2, <2>3 DEF NextNo
  <2> QED BY <2>4, <2>5
<1>2. n \in 1..NextNo(heard)
  BY <1>1
<1>3. n \in Nat
  BY <1>2, NextNoIs
<1>4. e \in Elem
  BY <1>3 DEF Elem
<1>5. elements' = {e} /\ hearing' = heard \cup {e}
  BY DEF AppMounted
<1> HIDE DEF e
<1>6. IsFiniteSet(heard \cup {e})
  BY FS_AddElement
<1> QED BY <1>4, <1>5, <1>6

\* Spending from a budget leaves one.
LEMMA SpendTabTypes ==
  ASSUME tabsLeft \in [TabKinds -> Nat], NEW k \in TabKinds, SpendTab(k)
  PROVE  tabsLeft' \in [TabKinds -> Nat]
<1>1. tabsLeft[k] \in Nat /\ tabsLeft[k] > 0 /\ tabsLeft' = [tabsLeft EXCEPT ![k] = tabsLeft[k] - 1]
  BY DEF SpendTab
<1>2. tabsLeft[k] - 1 \in Nat
  BY <1>1
<1> QED BY <1>1, <1>2

\* What the effect changes, and what it leaves to its caller.
EffectTypes ==
  /\ tab \in RoomApps \cup {Chat} /\ installed \cup defined \subseteq RoomApps
  /\ scripts \subseteq [app : RoomApps, for : Nat, no : Nat] /\ elements \cup hearing \subseteq Elem
  /\ {container, containers} \subseteq Nat /\ {failed, crashed, late} \subseteq BOOLEAN
  /\ IsFiniteSet(scripts) /\ IsFiniteSet(hearing)

\* The effect of a tab keeps the types of what it changes.
LEMMA EffectKeepsTypes ==
  ASSUME TabsTypes, NEW t \in RoomApps \cup {Chat}, NEW apps \in SUBSET RoomApps, Effect(t, apps)
  PROVE  EffectTypes'
<1> USE DEF TabsTypes, TabsTypeOK
<1> DEFINE heard == {e \in StillHearing(hearing) : e.app # tab \/ tab \notin installed}
<1>1. heard \subseteq hearing
  BY DEF StillHearing
<1>2. IsFiniteSet(heard) /\ heard \in SUBSET Elem
  BY <1>1, FS_Subset
<1>3. /\ tab' = t /\ installed' = apps /\ failed' = FALSE /\ late' = FALSE /\ defined' = defined
      /\ containers' = IF tab = Chat /\ t # Chat THEN containers + 1 ELSE containers
      /\ container' = IF t = Chat THEN NoContainer ELSE containers'
      /\ crashed' \in BOOLEAN
  BY DEF Effect
<1>4. containers' \in Nat /\ container' \in Nat
  <2>1. containers \in Nat
    OBVIOUS
  <2>2. containers' \in Nat
    BY <1>3, <2>1
  <2> QED BY <1>3, <2>2 DEF NoContainer
<1>5. elements' \cup hearing' \subseteq Elem /\ IsFiniteSet(hearing')
  <2>1. CASE t \in apps \cap defined
    <3>1. AppMounted(t, heard)
      BY <2>1 DEF Effect
    <3> QED BY <1>2, <2>1, <3>1, MountedTypes
  <2>2. CASE t \notin apps \cap defined
    <3>1. elements' = {} /\ hearing' = heard
      BY <2>2 DEF Effect
    <3> QED BY <1>2, <3>1
  <2> QED BY <2>1, <2>2
<1>6. scripts' \subseteq [app : RoomApps, for : Nat, no : Nat] /\ IsFiniteSet(scripts')
  <2> DEFINE s == [app |-> t, for |-> container', no |-> NextNo(scripts)]
  <2>1. scripts' = scripts \/ (t \in apps /\ scripts' = scripts \cup {s})
    BY DEF Effect
  <2>2. t \in apps => s \in [app : RoomApps, for : Nat, no : Nat]
    BY <1>4, NextNoIs
  <2> HIDE DEF s
  <2>3. IsFiniteSet(scripts \cup {s})
    BY FS_AddElement
  <2> QED BY <2>1, <2>2, <2>3
<1>7. apps \subseteq RoomApps /\ defined \subseteq RoomApps
  OBVIOUS
<1> HIDE DEF TabsTypes, TabsTypeOK
<1> QED BY <1>3, <1>4, <1>5, <1>6, <1>7 DEF EffectTypes

\* Every step keeps the types.
LEMMA TabsTypesKept ==
  ASSUME TabsTypes, [TabsNext]_tabVars
  PROVE  TabsTypes'
<1> USE DEF TabsTypes, TabsTypeOK
<1>0. EffectTypes
  BY DEF EffectTypes
<1>1. ASSUME EffectTypes', listings' \in Nat, tabsLeft' \in [TabKinds -> Nat] PROVE TabsTypes'
  BY <1>1 DEF EffectTypes
<1>2. ASSUME NEW t \in RoomApps \cup {Chat}, ChooseTab(t) PROVE TabsTypes'
  <2>1. Effect(t, installed) /\ listings' = listings /\ SpendTab("tabs")
    BY <1>2 DEF ChooseTab
  <2>2. tabsLeft' \in [TabKinds -> Nat]
    BY <2>1, SpendTabTypes DEF TabKinds
  <2> QED BY <1>1, <2>1, <2>2, EffectKeepsTypes
<1>3. ASSUME NEW ok \in BOOLEAN, AppsListed(ok) PROVE TabsTypes'
  <2> DEFINE apps == IF ok THEN RoomApps ELSE {}
  <2>1. listings' \in Nat
    BY <1>3 DEF AppsListed
  <2>2. tabsLeft' \in [TabKinds -> Nat]
    <3>1. tabsLeft' = tabsLeft \/ SpendTab("failures")
      BY <1>3 DEF AppsListed
    <3> QED BY <3>1, SpendTabTypes DEF TabKinds
  <2>3. apps \in SUBSET RoomApps
    OBVIOUS
  <2>4. CASE tab = Chat
    <3>1. installed' = apps /\ UNCHANGED <<tab, defined, scripts, container, containers, elements, hearing, failed, crashed, late>>
      BY <1>3, <2>4 DEF AppsListed
    <3>2. EffectTypes'
      BY <1>0, <2>3, <3>1 DEF EffectTypes
    <3> QED BY <1>1, <2>1, <2>2, <3>2
  <2>5. CASE tab # Chat
    <3>1. Effect(tab, apps)
      BY <1>3, <2>5 DEF AppsListed
    <3> QED BY <1>1, <2>1, <2>2, <2>3, <3>1, EffectKeepsTypes
  <2> QED BY <2>4, <2>5
<1>4. CASE Reconnected
  <2>1. listings' \in Nat
    BY <1>4 DEF Reconnected
  <2>2. tabsLeft' \in [TabKinds -> Nat]
    BY <1>4, SpendTabTypes DEF TabKinds, Reconnected
  <2>3. CASE tab = Chat
    <3>1. UNCHANGED <<tab, installed, defined, scripts, container, containers, elements, hearing, failed, crashed, late>>
      BY <1>4, <2>3 DEF Reconnected
    <3>2. EffectTypes'
      BY <1>0, <3>1 DEF EffectTypes
    <3> QED BY <1>1, <2>1, <2>2, <3>2
  <2>4. CASE tab # Chat
    <3>1. Effect(Chat, installed)
      BY <1>4, <2>4 DEF Reconnected
    <3> QED BY <1>1, <2>1, <2>2, <3>1, EffectKeepsTypes
  <2> QED BY <2>3, <2>4
<1>5. ASSUME NEW s \in scripts, ScriptLoads(s) PROVE TabsTypes'
  <2>1. s \in [app : RoomApps, for : Nat, no : Nat]
    OBVIOUS
  <2>2. s.app \in RoomApps
    BY <2>1
  <2>3. /\ scripts' = scripts \ {s} /\ defined' = defined \cup {s.app}
        /\ UNCHANGED <<tab, installed, listings, container, containers, failed, crashed, tabsLeft>>
    BY <1>5 DEF ScriptLoads
  <2>4. IsFiniteSet(scripts')
    BY <2>3, FS_RemoveElement
  <2>5. elements' \cup hearing' \subseteq Elem /\ IsFiniteSet(hearing') /\ late' \in BOOLEAN
    <3>1. CASE s.for = container
      <4>1. AppMounted(s.app, StillHearing(hearing)) /\ late' \in BOOLEAN
        BY <1>5, <3>1 DEF ScriptLoads
      <4>2. StillHearing(hearing) \subseteq hearing
        BY DEF StillHearing
      <4>3. StillHearing(hearing) \in SUBSET Elem /\ IsFiniteSet(StillHearing(hearing))
        BY <4>2, FS_Subset
      <4> QED BY <2>2, <4>1, <4>3, MountedTypes
    <3>2. CASE s.for # container
      <4> DEFINE e == [app |-> s.app, no |-> NextNo(hearing)]
      <4>1. hearing' = hearing \cup {e} /\ UNCHANGED <<elements, late>>
        BY <1>5, <3>2 DEF ScriptLoads
      <4>2. e \in Elem
        BY <2>2, NextNoIs DEF Elem
      <4> HIDE DEF e
      <4>3. IsFiniteSet(hearing \cup {e})
        BY FS_AddElement
      <4> QED BY <4>1, <4>2, <4>3
    <3> QED BY <3>1, <3>2
  <2> QED BY <2>2, <2>3, <2>4, <2>5
<1>6. ASSUME NEW s \in scripts, ScriptFails(s) PROVE TabsTypes'
  <2>1. /\ scripts' = scripts \ {s} /\ SpendTab("failures") /\ failed' = TRUE
        /\ UNCHANGED <<tab, installed, listings, defined, container, containers, elements, hearing, crashed, late>>
    BY <1>6 DEF ScriptFails
  <2>2. IsFiniteSet(scripts')
    BY <2>1, FS_RemoveElement
  <2>3. tabsLeft' \in [TabKinds -> Nat]
    BY <2>1, SpendTabTypes DEF TabKinds
  <2> QED BY <2>1, <2>2, <2>3
<1>7. CASE UNCHANGED tabVars
  BY <1>7 DEF tabVars
<1> QED BY <1>2, <1>3, <1>4, <1>5, <1>6, <1>7 DEF TabsNext

\* They hold at first.
LEMMA TabsTypesInit ==
  ASSUME TabsInit
  PROVE  TabsTypes
<1>1. IsFiniteSet(scripts) /\ IsFiniteSet(hearing)
  BY FS_EmptySet DEF TabsInit
<1>2. tabsLeft \in [TabKinds -> Nat]
  BY CountedTabs DEF TabsInit
<1>3. {listings, container, containers} \subseteq Nat /\ {failed, crashed, late} \subseteq BOOLEAN
  <2>1. listings = 1 /\ container = 0 /\ containers = 0
    BY DEF TabsInit, NoContainer
  <2>2. failed = FALSE /\ crashed = FALSE /\ late = FALSE
    BY DEF TabsInit
  <2>3. {failed, crashed, late} \subseteq BOOLEAN
    BY <2>2, Zenon
  <2> QED BY <2>1, <2>3
<1> QED BY <1>1, <1>2, <1>3 DEF TabsInit, TabsTypes, TabsTypeOK

(***************************************************************************)
(* Polls.                                                                  *)
(***************************************************************************)
\* Votes are counted, and no answer is ahead of the count.
AskShape(q) == q.poll \in PollIds /\ q.votes \in Int /\ q = [poll |-> q.poll, no |-> q.no, votes |-> q.votes]
PollTypes ==
  /\ tally \in [PollIds -> Nat \cup {Unknown}] /\ results \in [PollIds -> Int]
  /\ events \in Seq(PollIds) /\ loads \in Seq(PollLoad) /\ (\A q \in resultAsks : AskShape(q))
  /\ listed \subseteq Polled /\ pollsUp \in BOOLEAN
NoneAhead ==
  /\ \A q \in resultAsks : q.votes <= tally[q.poll]
  /\ \A i \in 1..Len(loads), p \in PollIds : loads[i].got[p] <= tally[p]

\* A load that brings the votes of a poll; a request that does.
Brings(l, p, votes) == l.step = "list" \/ p \in l.todo \/ l.got[p] = votes
Answers(q, p, votes) == q.poll = p /\ q.votes \in {Unknown, votes}
\* The votes of a poll are shown, or an event, a request or a load is on its way.
FreshPoll(p) ==
  \/ results[p] = tally[p]
  \/ \E i \in 1..Len(events) : events[i] = p
  \/ \E q \in resultAsks : Answers(q, p, tally[p])
  \/ \E i \in 1..Len(loads) : Brings(loads[i], p, tally[p])
PollsInv == PollTypes /\ NoneAhead /\ (pollsUp => \A p \in listed \ chilled : FreshPoll(p))

\* Where the others are when one of a sequence is taken out.
LEMMA TakenOut ==
  ASSUME NEW S, NEW s \in Seq(S), NEW i \in 1..Len(s)
  PROVE  /\ RemoveAt(s, i) \in Seq(S)
         /\ \A j \in 1..Len(s) : j # i => \E k \in 1..Len(RemoveAt(s, i)) : RemoveAt(s, i)[k] = s[j]
         /\ \A k \in 1..Len(RemoveAt(s, i)) : \E j \in 1..Len(s) : RemoveAt(s, i)[k] = s[j]
<1> DEFINE a == SubSeq(s, 1, i - 1)
           b == SubSeq(s, i + 1, Len(s))
           r == RemoveAt(s, i)
<1>1. a \in Seq(S) /\ Len(a) = i - 1 /\ \A k \in 1..(i - 1) : a[k] = s[k]
  OBVIOUS
<1>2. b \in Seq(S) /\ Len(b) = Len(s) - i /\ \A k \in 1..(Len(s) - i) : b[k] = s[k + i]
  OBVIOUS
<1>3. r = a \o b
  BY DEF RemoveAt
<1> HIDE DEF a, b, r
<1>4. r \in Seq(S) /\ Len(r) = Len(s) - 1
  BY <1>1, <1>2, <1>3
<1>5. \A k \in 1..Len(r) : (k < i => r[k] = s[k]) /\ (k >= i => r[k] = s[k + 1])
  <2> SUFFICES ASSUME NEW k \in 1..Len(r) PROVE (k < i => r[k] = s[k]) /\ (k >= i => r[k] = s[k + 1])
    OBVIOUS
  <2>1. CASE k < i
    <3>1. r[k] = a[k]
      BY <1>1, <1>2, <1>3, <1>4, <2>1
    <3> QED BY <1>1, <2>1, <3>1
  <2>2. CASE k >= i
    <3>1. k - Len(a) \in 1..Len(b) /\ k \notin 1..Len(a)
      BY <1>1, <1>2, <1>4, <2>2
    <3>2. r[k] = b[k - Len(a)]
      BY <1>1, <1>2, <1>3, <1>4, <3>1, SMTT(30)
    <3>3. (k - Len(a)) + i = k + 1
      BY <1>1
    <3> QED BY <1>1, <1>2, <2>2, <3>1, <3>2, <3>3
  <2> QED BY <2>1, <2>2
<1>6. \A j \in 1..Len(s) : j # i => \E k \in 1..Len(r) : r[k] = s[j]
  <2> SUFFICES ASSUME NEW j \in 1..Len(s), j # i PROVE \E k \in 1..Len(r) : r[k] = s[j]
    OBVIOUS
  <2>1. CASE j < i
    BY <1>4, <1>5, <2>1
  <2>2. CASE j > i
    <3>1. j - 1 \in 1..Len(r) /\ j - 1 >= i /\ (j - 1) + 1 = j
      BY <1>4, <2>2
    <3> QED BY <1>5, <3>1
  <2> QED BY <2>1, <2>2
<1>7. \A k \in 1..Len(r) : \E j \in 1..Len(s) : r[k] = s[j]
  <2> SUFFICES ASSUME NEW k \in 1..Len(r) PROVE \E j \in 1..Len(s) : r[k] = s[j]
    OBVIOUS
  <2>1. k \in 1..Len(s) /\ k + 1 \in 1..Len(s)
    BY <1>4
  <2> QED BY <1>5, <2>1
<1> QED BY <1>4, <1>6, <1>7 DEF r

\* A poll that changes and is announced: its votes are asked for, or it is chilled.
LEMMA TallyAnnounced ==
  ASSUME PollsInv, NEW p \in PollIds, NEW n \in Nat, n >= tally[p], tally' = [tally EXCEPT ![p] = n], Announce(p),
         UNCHANGED <<results, listed, pollsUp>>, loads' \in {loads, Append(loads, NewLoad)},
         resultAsks' = resultAsks \/ \E ask : resultAsks' = resultAsks \cup {[poll |-> p, no |-> ask, votes |-> Unknown]}
  PROVE  PollsInv'
<1>10. PICK ask : resultAsks' \in {resultAsks, resultAsks \cup {[poll |-> p, no |-> ask, votes |-> Unknown]}}
  OBVIOUS
<1> DEFINE more == [poll |-> p, no |-> ask, votes |-> Unknown]
<1>1. PollTypes /\ NoneAhead /\ (pollsUp => \A r \in listed \ chilled : FreshPoll(r))
  BY DEF PollsInv
<1>2. NewLoad \in PollLoad /\ NewLoad.got = [r \in PollIds |-> Unknown]
  BY DEF NewLoad, PollLoad, Unknown
<1>3. AskShape(more) /\ more.votes = Unknown /\ resultAsks' \in {resultAsks, resultAsks \cup {more}}
  BY <1>10 DEF AskShape, Unknown
<1> HIDE DEF more
<1>4. \A r \in PollIds : tally'[r] >= tally[r] /\ tally'[r] \in Nat \cup {Unknown} /\ tally'[r] >= Unknown
  BY <1>1 DEF PollTypes, Unknown
<1>5. Len(loads) <= Len(loads') /\ (\A i \in 1..Len(loads) : loads'[i] = loads[i]) /\ loads' \in Seq(PollLoad)
      /\ \A i \in 1..Len(loads') : i \in 1..Len(loads) \/ loads'[i] = NewLoad
  <2>1. loads \in Seq(PollLoad)
    BY <1>1 DEF PollTypes
  <2>2. CASE loads' = loads
    BY <2>1, <2>2
  <2>3. CASE loads' = Append(loads, NewLoad)
    <3> HIDE DEF NewLoad
    <3> QED BY <1>2, <2>1, <2>3
  <2> QED BY <2>2, <2>3
<1>6. \/ events' = events /\ chilled' = chilled \cup {p}
      \/ /\ events' \in Seq(PollIds) /\ Len(events') = Len(events) + 1 /\ events'[Len(events) + 1] = p
         /\ \A i \in 1..Len(events) : events'[i] = events[i]
         /\ chilled' = chilled
  <2>1. events \in Seq(PollIds)
    BY <1>1 DEF PollTypes
  <2>2. CASE joinedUp
    <3>1. events' = Append(events, p) /\ chilled' = chilled
      BY <2>2 DEF Announce
    <3> QED BY <2>1, <3>1
  <2>3. CASE ~joinedUp
    BY <2>3 DEF Announce
  <2> QED BY <2>2, <2>3
<1>7. PollTypes'
  <2>1. Polled \subseteq Polled'
    BY <1>1, <1>4 DEF Polled, PollTypes, Unknown
  <2>2. tally' \in [PollIds -> Nat \cup {Unknown}]
    BY <1>1 DEF PollTypes
  <2> QED BY <1>1, <1>3, <1>5, <1>6, <2>1, <2>2 DEF PollTypes, more
<1>8. NoneAhead'
  <2>1. ASSUME NEW q \in resultAsks' PROVE q.votes <= tally'[q.poll]
    <3>1. CASE q \in resultAsks
      <4>1. q.poll \in PollIds /\ q.votes \in Int /\ tally[q.poll] \in Int /\ tally'[q.poll] \in Int
        BY <1>1, <1>4, <3>1 DEF PollTypes, AskShape, Unknown
      <4> QED BY <1>1, <1>4, <3>1, <4>1 DEF NoneAhead
    <3>2. CASE q = more
      BY <1>3, <1>4, <3>2 DEF more
    <3> QED BY <1>3, <3>1, <3>2
  <2>2. ASSUME NEW i \in 1..Len(loads'), NEW r \in PollIds PROVE loads'[i].got[r] <= tally'[r]
    <3>1. CASE i \in 1..Len(loads)
      <4>0. loads[i] \in PollLoad
        BY <1>1, <3>1 DEF PollTypes
      <4>1. loads[i].got[r] \in Int /\ tally[r] \in Int /\ tally'[r] \in Int
        BY <1>1, <1>4, <4>0 DEF PollTypes, PollLoad, Unknown
      <4> QED BY <1>1, <1>4, <1>5, <3>1, <4>1 DEF NoneAhead
    <3>2. CASE loads'[i] = NewLoad
      BY <1>2, <1>4, <3>2
    <3> QED BY <1>5, <3>1, <3>2
  <2> QED BY <2>1, <2>2 DEF NoneAhead
<1>9. ASSUME pollsUp', NEW r \in listed' \ chilled' PROVE FreshPoll(r)'
  <2>1. r \in listed \ chilled /\ FreshPoll(r)
    BY <1>1, <1>6, <1>9
  <2>2. CASE r = p
    <3>1. Len(events) + 1 \in 1..Len(events') /\ events'[Len(events) + 1] = p
      BY <1>1, <1>6, <1>9, <2>2 DEF PollTypes
    <3> QED BY <2>2, <3>1 DEF FreshPoll
  <2>3. CASE r # p
    <3>1. tally'[r] = tally[r] /\ r \in PollIds
      BY <1>1, <2>1, <2>3 DEF PollTypes, Polled
    <3>2. CASE results[r] = tally[r]
      BY <3>1, <3>2 DEF FreshPoll
    <3>3. CASE \E i \in 1..Len(events) : events[i] = r
      <4>1. PICK i \in 1..Len(events) : events[i] = r
        BY <3>3
      <4>2. i \in 1..Len(events') /\ events'[i] = r
        BY <1>1, <1>6, <4>1 DEF PollTypes
      <4> QED BY <4>2 DEF FreshPoll
    <3>4. CASE \E q \in resultAsks : Answers(q, r, tally[r])
      BY <3>1, <3>4 DEF FreshPoll, Answers
    <3>5. CASE \E i \in 1..Len(loads) : Brings(loads[i], r, tally[r])
      <4>1. PICK i \in 1..Len(loads) : Brings(loads[i], r, tally[r])
        BY <3>5
      <4>2. i \in 1..Len(loads') /\ loads'[i] = loads[i]
        BY <1>1, <1>5 DEF PollTypes
      <4> QED BY <3>1, <4>1, <4>2 DEF FreshPoll, Brings
    <3> QED BY <2>1, <3>2, <3>3, <3>4, <3>5 DEF FreshPoll
  <2> QED BY <2>2, <2>3
<1> QED BY <1>7, <1>8, <1>9 DEF PollsInv

\* Everything but what is asked for stays.
LEMMA AskedMore ==
  ASSUME PollsInv, NEW p \in PollIds, UNCHANGED <<tally, results, listed, pollsUp, loads, chilled>>, NEW ask,
         resultAsks' = resultAsks \cup {[poll |-> p, no |-> ask, votes |-> Unknown]}, events' \in Seq(PollIds),
         \A i \in 1..Len(events) : events[i] = p \/ \E k \in 1..Len(events') : events'[k] = events[i]
  PROVE  PollsInv'
<1> DEFINE more == [poll |-> p, no |-> ask, votes |-> Unknown]
<1>1. AskShape(more) /\ more.votes = Unknown /\ more.poll = p /\ resultAsks' = resultAsks \cup {more}
  BY DEF AskShape, Unknown
<1> HIDE DEF more
<1>2. Unknown <= tally[p]
  <2>1. tally[p] \in Nat \cup {-1}
    BY DEF PollsInv, PollTypes, Unknown
  <2> QED BY <2>1 DEF Unknown
<1>3. PollTypes' /\ NoneAhead'
  BY <1>1, <1>2 DEF PollsInv, PollTypes, NoneAhead, Polled
<1>4. ASSUME pollsUp, NEW r \in listed \ chilled PROVE FreshPoll(r)'
  <2>1. FreshPoll(r)
    BY <1>4 DEF PollsInv
  <2>2. r = p => Answers(more, r, tally[r])
    BY <1>1 DEF Answers
  <2>3. CASE \E i \in 1..Len(events) : events[i] = r
    <3>1. PICK i \in 1..Len(events) : events[i] = r
      BY <2>3
    <3> QED BY <1>1, <2>2, <3>1 DEF FreshPoll, Answers
  <2> QED BY <1>1, <2>1, <2>3 DEF FreshPoll, Answers, Brings
<1> QED BY <1>3, <1>4 DEF PollsInv

\* Polls that are not chilled by a step stay fresh if what brings their votes stays.
LEMMA PollsKeep ==
  ASSUME PollsInv, PollTypes', NoneAhead', UNCHANGED <<tally, pollsUp>>, pollsUp => listed' \ chilled' \subseteq listed \ chilled,
         \A p \in listed \ chilled : p \in chilled' \/ results'[p] = results[p] \/ results'[p] = tally[p],
         \A p \in listed \ chilled, i \in 1..Len(events) :
           p = events[i] => p \in chilled' \/ \E k \in 1..Len(events') : events'[k] = events[i],
         \A p \in listed \ chilled, q \in resultAsks :
           Answers(q, p, tally[p]) => p \in chilled' \/ results'[p] = tally[p] \/ \E k \in resultAsks' : Answers(k, p, tally[p]),
         \A p \in listed \ chilled, i \in 1..Len(loads) :
           Brings(loads[i], p, tally[p]) =>
             p \in chilled' \/ results'[p] = tally[p] \/ \E k \in 1..Len(loads') : Brings(loads'[k], p, tally[p])
  PROVE  PollsInv'
<1>1. ASSUME pollsUp, NEW p \in listed' \ chilled' PROVE FreshPoll(p)'
  <2>1. p \in listed \ chilled /\ p \notin chilled' /\ FreshPoll(p)
    BY <1>1 DEF PollsInv
  <2>2. CASE results[p] = tally[p]
    BY <2>1, <2>2 DEF FreshPoll
  <2>3. CASE \E i \in 1..Len(events) : events[i] = p
    BY <2>1, <2>3 DEF FreshPoll
  <2>4. CASE \E q \in resultAsks : Answers(q, p, tally[p])
    BY <2>1, <2>4 DEF FreshPoll, Answers
  <2>5. CASE \E i \in 1..Len(loads) : Brings(loads[i], p, tally[p])
    BY <2>1, <2>5 DEF FreshPoll, Brings
  <2> QED BY <2>1, <2>2, <2>3, <2>4, <2>5 DEF FreshPoll
<1> QED BY <1>1 DEF PollsInv

\* What a load asks for and brings.
LEMMA LoadsKeepPolls ==
  ASSUME PollsInv, NEW i \in DOMAIN loads
  PROVE  /\ PollsListed(i) => PollsInv'
         /\ \A p \in PollIds : ResultJoins(i, p) => PollsInv'
         /\ LoadEnds(i) => PollsInv'
         /\ LoadFails(i) => PollsInv'
<1>0. /\ PollTypes /\ NoneAhead /\ loads \in Seq(PollLoad) /\ i \in 1..Len(loads) /\ loads[i] \in PollLoad
      /\ \A p \in PollIds : tally[p] \in Int /\ results[p] \in Int
  BY DEF PollsInv, PollTypes, Unknown
<1>1. ASSUME NEW l \in PollLoad, loads' = [loads EXCEPT ![i] = l]
      PROVE  /\ loads' \in Seq(PollLoad) /\ Len(loads') = Len(loads) /\ loads'[i] = l
             /\ \A k \in 1..Len(loads) : k # i => loads'[k] = loads[k]
  BY <1>0, <1>1
<1>2. ASSUME PollsListed(i) PROVE PollsInv'
  <2> DEFINE l == [loads[i] EXCEPT !.step = "results", !.todo = Polled]
  <2>1. loads' = [loads EXCEPT ![i] = l] /\ UNCHANGED <<tally, results, events, pollsUp, resultAsks, chilled>> /\ listed' = Polled
    BY <1>2 DEF PollsListed
  <2>2. l \in PollLoad /\ l.todo = Polled /\ l.got = loads[i].got
    BY <1>0 DEF PollLoad, Polled
  <2> HIDE DEF l
  <2>3. /\ loads' \in Seq(PollLoad) /\ Len(loads') = Len(loads) /\ loads'[i] = l
        /\ \A k \in 1..Len(loads) : k # i => loads'[k] = loads[k]
    BY <1>1, <2>1, <2>2
  <2>4. PollTypes' /\ NoneAhead'
    BY <1>0, <2>1, <2>2, <2>3 DEF PollTypes, NoneAhead, Polled
  <2>5. \A p \in Polled : FreshPoll(p)'
    BY <1>0, <2>1, <2>2, <2>3 DEF FreshPoll, Brings
  <2> QED BY <2>1, <2>4, <2>5 DEF PollsInv
<1>3. ASSUME NEW p \in PollIds, ResultJoins(i, p) PROVE PollsInv'
  <2> DEFINE l == [loads[i] EXCEPT !.todo = @ \ {p}, !.got = [loads[i].got EXCEPT ![p] = tally[p]]]
  <2>1. loads' = [loads EXCEPT ![i] = l] /\ UNCHANGED <<tally, results, listed, events, pollsUp, resultAsks, chilled>>
    BY <1>3 DEF ResultJoins
  <2>2. loads[i].got \in [PollIds -> Int]
    BY <1>0 DEF PollLoad
  <2>3. l \in PollLoad /\ l.step = loads[i].step /\ l.todo = loads[i].todo \ {p} /\ l.got = [loads[i].got EXCEPT ![p] = tally[p]]
    BY <1>0, <2>2 DEF PollLoad
  <2> HIDE DEF l
  <2>4. /\ loads' \in Seq(PollLoad) /\ Len(loads') = Len(loads) /\ loads'[i] = l
        /\ \A k \in 1..Len(loads) : k # i => loads'[k] = loads[k]
    BY <1>1, <2>1, <2>3
  <2>5. \A r \in PollIds : l.got[r] = IF r = p THEN tally[p] ELSE loads[i].got[r]
    BY <2>2, <2>3
  <2>6. \A r \in PollIds : l.got[r] <= tally[r]
    BY <1>0, <2>5 DEF NoneAhead
  <2>7. PollTypes' /\ NoneAhead'
    BY <1>0, <2>1, <2>4, <2>6 DEF PollTypes, NoneAhead, Polled
  <2>8. \A r \in PollIds : Brings(loads[i], r, tally[r]) => Brings(l, r, tally[r])
    BY <2>3, <2>5 DEF Brings
  <2>9. \A r \in PollIds, k \in 1..Len(loads) : Brings(loads[k], r, tally[r]) => Brings(loads'[k], r, tally[r])
    BY <2>4, <2>8
  <2>10. listed \subseteq PollIds
    BY <1>0 DEF PollTypes, Polled
  <2> QED BY <2>1, <2>4, <2>7, <2>9, <2>10, PollsKeep
<1>4. /\ RemoveAt(loads, i) \in Seq(PollLoad)
      /\ \A j \in 1..Len(loads) : j # i => \E k \in 1..Len(RemoveAt(loads, i)) : RemoveAt(loads, i)[k] = loads[j]
      /\ \A k \in 1..Len(RemoveAt(loads, i)) : \E j \in 1..Len(loads) : RemoveAt(loads, i)[k] = loads[j]
  BY <1>0, TakenOut
<1>5. ASSUME LoadEnds(i) PROVE PollsInv'
  <2>1. /\ loads[i].step = "results" /\ loads[i].todo = {} /\ results' = loads[i].got /\ loads' = RemoveAt(loads, i)
        /\ chilled' = {p \in Polled : loads[i].got[p] # tally[p] /\ (p \in chilled \/ loads[i].got[p] < results[p])}
        /\ UNCHANGED <<tally, listed, events, pollsUp, resultAsks>>
    BY <1>5 DEF LoadEnds
  <2>2. loads[i].got \in [PollIds -> Int]
    BY <1>0 DEF PollLoad
  <2>3. PollTypes' /\ NoneAhead'
    <3>1. PollTypes'
      BY <1>0, <1>4, <2>1, <2>2 DEF PollTypes, Polled
    <3>2. ASSUME NEW k \in 1..Len(loads'), NEW p \in PollIds PROVE loads'[k].got[p] <= tally'[p]
      <4>1. PICK j \in 1..Len(loads) : loads'[k] = loads[j]
        BY <1>4, <2>1
      <4> QED BY <1>0, <2>1, <4>1 DEF NoneAhead
    <3>3. \A q \in resultAsks' : q.votes <= tally'[q.poll]
      BY <1>0, <2>1 DEF NoneAhead
    <3> QED BY <3>1, <3>2, <3>3 DEF NoneAhead
  <2>4. \A p \in listed \ chilled' : results'[p] = tally[p] \/ (p \notin chilled /\ results'[p] >= results[p])
    BY <1>0, <2>1, <2>2 DEF PollTypes, Polled
  <2>5. ASSUME pollsUp, NEW p \in listed \ chilled', results'[p] # tally[p] PROVE FreshPoll(p)'
    <3>1. p \in PollIds /\ p \notin chilled /\ results'[p] >= results[p] /\ FreshPoll(p)
      BY <1>0, <2>4, <2>5 DEF PollTypes, Polled, PollsInv
    <3>2. results[p] # tally[p]
      <4>1. results'[p] <= tally[p] /\ results'[p] \in Int
        BY <1>0, <2>1, <2>2, <3>1 DEF NoneAhead
      <4> QED BY <1>0, <2>5, <3>1, <4>1
    <3>3. CASE \E k \in 1..Len(loads) : Brings(loads[k], p, tally[p])
      <4>1. PICK j \in 1..Len(loads) : Brings(loads[j], p, tally[p])
        BY <3>3
      <4>2. j # i
        BY <2>1, <2>5, <4>1 DEF Brings
      <4>3. PICK k \in 1..Len(loads') : loads'[k] = loads[j]
        BY <1>4, <2>1, <4>2
      <4> QED BY <2>1, <4>1, <4>3 DEF FreshPoll, Brings
    <3>4. CASE \E k \in 1..Len(events) : events[k] = p
      BY <2>1, <3>4 DEF FreshPoll
    <3>5. CASE \E q \in resultAsks : Answers(q, p, tally[p])
      BY <2>1, <3>5 DEF FreshPoll, Answers
    <3> QED BY <3>1, <3>2, <3>3, <3>4, <3>5 DEF FreshPoll
  <2>6. \A p \in listed : results'[p] = tally[p] => FreshPoll(p)'
    BY <2>1 DEF FreshPoll
  <2> QED BY <2>1, <2>3, <2>5, <2>6 DEF PollsInv
<1>6. ASSUME LoadFails(i) PROVE PollsInv'
  <2>1. chilled' = PollIds /\ loads' = RemoveAt(loads, i) /\ UNCHANGED <<tally, results, listed, events, pollsUp, resultAsks>>
    BY <1>6 DEF LoadFails
  <2>2. PollTypes'
    BY <1>0, <1>4, <2>1 DEF PollTypes, Polled
  <2>3. ASSUME NEW k \in 1..Len(loads'), NEW p \in PollIds PROVE loads'[k].got[p] <= tally'[p]
    <3>1. PICK j \in 1..Len(loads) : loads'[k] = loads[j]
      BY <1>4, <2>1
    <3> QED BY <1>0, <2>1, <3>1 DEF NoneAhead
  <2>4. listed' \subseteq chilled'
    BY <2>1, <2>2 DEF PollTypes, Polled
  <2>5. NoneAhead'
    BY <1>0, <2>1, <2>3 DEF NoneAhead
  <2> QED BY <2>2, <2>4, <2>5 DEF PollsInv
<1> QED BY <1>2, <1>3, <1>5, <1>6

\* A single request for results.
LEMMA AsksKeepPolls ==
  ASSUME PollsInv, NEW q \in resultAsks, ResultsRead(q) \/ ResultsCome(q) \/ ResultsFail(q)
  PROVE  PollsInv'
<1>0. /\ PollTypes /\ NoneAhead /\ AskShape(q) /\ q.votes <= tally[q.poll]
      /\ \A p \in PollIds : tally[p] \in Int /\ results[p] \in Int
      /\ listed \subseteq PollIds
  BY DEF PollsInv, PollTypes, NoneAhead, Polled, Unknown
<1>1. CASE ResultsRead(q)
  <2> DEFINE k == [poll |-> q.poll, no |-> q.no, votes |-> tally[q.poll]]
  <2>1. k = [q EXCEPT !.votes = tally[q.poll]]
    BY <1>0 DEF AskShape
  <2>2. resultAsks' = (resultAsks \ {q}) \cup {k} /\ UNCHANGED <<tally, results, listed, events, pollsUp, loads, chilled>>
    BY <1>1, <2>1 DEF ResultsRead
  <2>3. AskShape(k) /\ k.poll = q.poll /\ k.votes = tally[q.poll]
    BY <1>0 DEF AskShape
  <2> HIDE DEF k
  <2>4. PollTypes' /\ NoneAhead'
    BY <1>0, <2>2, <2>3 DEF PollTypes, NoneAhead, Polled, AskShape
  <2>5. \A p \in listed \ chilled, a \in resultAsks : Answers(a, p, tally[p]) => \E b \in resultAsks' : Answers(b, p, tally[p])
    BY <2>2, <2>3 DEF Answers
  <2> QED BY <2>2, <2>4, <2>5, PollsKeep
<1>2. CASE ResultsCome(q)
  <2>1. /\ q.votes # Unknown /\ results' = [results EXCEPT ![q.poll] = q.votes] /\ resultAsks' = resultAsks \ {q}
        /\ chilled' = Warmed(q.poll, q.votes) /\ UNCHANGED <<tally, listed, events, pollsUp, loads>>
    BY <1>2 DEF ResultsCome
  <2>2. /\ \A p \in PollIds : results'[p] = IF p = q.poll THEN q.votes ELSE results[p]
        /\ q.poll \in PollIds /\ q.votes \in Int
    BY <1>0, <2>1 DEF PollTypes, AskShape
  <2>3. PollTypes' /\ NoneAhead'
    BY <1>0, <2>1, <2>2 DEF PollTypes, NoneAhead, Polled
  <2>4. \/ q.votes = tally[q.poll] /\ chilled' = chilled \ {q.poll}
        \/ q.votes # tally[q.poll] /\ q.votes < results[q.poll] /\ chilled' = chilled \cup {q.poll}
        \/ q.votes # tally[q.poll] /\ q.votes >= results[q.poll] /\ chilled' = chilled
    BY <1>0, <2>1, <2>2 DEF Warmed
  <2>5. ASSUME pollsUp, NEW p \in listed \ chilled' PROVE FreshPoll(p)'
    <3>1. CASE p = q.poll /\ q.votes = tally[p]
      BY <1>0, <2>1, <2>2, <3>1 DEF FreshPoll
    <3>2. CASE p = q.poll /\ q.votes # tally[p]
      <4>1. p \notin chilled /\ q.votes >= results[p] /\ FreshPoll(p)
        BY <2>4, <2>5, <3>2 DEF PollsInv
      <4>2. results[p] # tally[p]
        BY <1>0, <2>2, <3>2, <4>1
      <4>3. ~Answers(q, p, tally[p])
        BY <2>1, <3>2 DEF Answers
      <4> QED BY <2>1, <4>1, <4>2, <4>3 DEF FreshPoll, Answers, Brings
    <3>3. CASE p # q.poll
      <4>1. p \notin chilled /\ FreshPoll(p) /\ p \in PollIds
        BY <1>0, <2>4, <2>5, <3>3 DEF PollsInv
      <4>2. results'[p] = results[p] /\ ~Answers(q, p, tally[p])
        BY <2>2, <3>3, <4>1 DEF Answers
      <4> QED BY <2>1, <4>1, <4>2 DEF FreshPoll, Answers, Brings
    <3> QED BY <3>1, <3>2, <3>3
  <2> QED BY <2>1, <2>3, <2>5 DEF PollsInv
<1>3. CASE ResultsFail(q)
  <2>1. resultAsks' = resultAsks \ {q} /\ chilled' = chilled \cup {q.poll} /\ UNCHANGED <<tally, results, listed, events, pollsUp, loads>>
    BY <1>3 DEF ResultsFail
  <2>2. PollTypes' /\ NoneAhead'
    BY <1>0, <2>1 DEF PollTypes, NoneAhead, Polled
  <2>3. \A p \in listed \ chilled, a \in resultAsks :
          Answers(a, p, tally[p]) => p \in chilled' \/ \E b \in resultAsks' : Answers(b, p, tally[p])
    BY <2>1 DEF Answers
  <2> QED BY <2>1, <2>2, <2>3, PollsKeep
<1> QED BY <1>1, <1>2, <1>3

LEMMA PollsInvKept ==
  ASSUME PollsInv, [PollsNext]_pollVars
  PROVE  PollsInv'
<1>0. /\ PollTypes /\ NoneAhead /\ events \in Seq(PollIds) /\ loads \in Seq(PollLoad)
      /\ tally \in [PollIds -> Nat \cup {Unknown}] /\ listed \subseteq PollIds
  BY DEF PollsInv, PollTypes, Polled
<1>1. ASSUME NEW p \in PollIds, tally[p] # Unknown PROVE tally[p] \in Nat /\ tally = [tally EXCEPT ![p] = tally[p]]
  BY <1>0, <1>1
<1>2. ASSUME NEW p \in PollIds, OthersCreate(p) PROVE PollsInv'
  <2>1. 0 >= tally[p]
    BY <1>2 DEF OthersCreate, Unknown
  <2>2. /\ tally' = [tally EXCEPT ![p] = 0] /\ Announce(p) /\ UNCHANGED <<results, listed, pollsUp, loads, resultAsks>>
    BY <1>2 DEF OthersCreate
  <2> QED BY <2>1, <2>2, TallyAnnounced
<1>3. ASSUME NEW p \in PollIds, OthersVote(p) PROVE PollsInv'
  <2>1. tally[p] \in Nat /\ tally[p] + 1 \in Nat /\ tally[p] + 1 >= tally[p]
    BY <1>0, <1>3 DEF OthersVote, Polled
  <2>2. /\ tally' = [tally EXCEPT ![p] = tally[p] + 1] /\ Announce(p) /\ UNCHANGED <<results, listed, pollsUp, loads, resultAsks>>
    BY <1>3 DEF OthersVote
  <2> QED BY <2>1, <2>2, TallyAnnounced
<1>4. ASSUME NEW p \in PollIds, OthersClose(p) PROVE PollsInv'
  <2>1. tally[p] \in Nat /\ tally[p] >= tally[p] /\ tally' = [tally EXCEPT ![p] = tally[p]]
    BY <1>1, <1>4 DEF OthersClose, Polled
  <2>2. /\ Announce(p) /\ UNCHANGED <<results, listed, pollsUp, loads, resultAsks>>
    BY <1>4 DEF OthersClose
  <2> QED BY <2>1, <2>2, TallyAnnounced
<1>5. ASSUME NEW p \in PollIds, Vote(p) PROVE PollsInv'
  <2> DEFINE ask == FreshNo(p)
  <2>1. resultAsks' = resultAsks \cup {[poll |-> p, no |-> ask, votes |-> Unknown]} /\ UNCHANGED <<results, listed, pollsUp, loads>>
    BY <1>5 DEF Vote, Asked
  <2>2. CASE p \in shut
    <3>1. UNCHANGED <<tally, events, chilled>>
      BY <1>5, <2>2 DEF Vote
    <3> HIDE DEF ask
    <3> QED BY <1>0, <2>1, <3>1, AskedMore
  <2>3. CASE p \notin shut
    <3> DEFINE n == tally[p] + 1
    <3>1. tally' = [tally EXCEPT ![p] = n] /\ Announce(p)
      BY <1>5, <2>3 DEF Vote
    <3>2. n \in Nat /\ n >= tally[p]
      BY <1>0, <1>5 DEF Vote, PollTypes, Polled
    <3>3. UNCHANGED <<results, listed, pollsUp>> /\ loads' \in {loads, Append(loads, NewLoad)}
      BY <2>1
    <3>4. \E a : resultAsks' = resultAsks \cup {[poll |-> p, no |-> a, votes |-> Unknown]}
      BY <2>1
    <3> HIDE DEF ask, n
    <3> QED BY <3>1, <3>2, <3>3, <3>4, TallyAnnounced
  <2> QED BY <2>2, <2>3
<1>6. ASSUME NEW p \in PollIds, CreatePoll(p) PROVE PollsInv'
  <2>1. 0 >= tally[p]
    BY <1>6 DEF CreatePoll, Unknown
  <2>2. /\ tally' = [tally EXCEPT ![p] = 0] /\ Announce(p) /\ UNCHANGED <<results, listed, pollsUp, resultAsks>>
        /\ loads' = Append(loads, NewLoad)
    BY <1>6 DEF CreatePoll
  <2> QED BY <2>1, <2>2, TallyAnnounced
<1>7. ASSUME NEW p \in PollIds, ClosePoll(p) PROVE PollsInv'
  <2>1. tally[p] \in Nat /\ tally[p] >= tally[p] /\ tally' = [tally EXCEPT ![p] = tally[p]]
    BY <1>0, <1>1, <1>7 DEF ClosePoll, PollTypes, Polled
  <2>2. /\ Announce(p) /\ UNCHANGED <<results, listed, pollsUp, resultAsks>> /\ loads' = Append(loads, NewLoad)
    BY <1>7 DEF ClosePoll
  <2> QED BY <2>1, <2>2, TallyAnnounced
<1>8. CASE MountPolls
  <2>1. loads' = <<NewLoad>> /\ UNCHANGED <<tally, listed, events, results, resultAsks>> /\ pollsUp' = TRUE
    BY <1>8 DEF MountPolls
  <2>2. NewLoad \in PollLoad /\ NewLoad.step = "list" /\ \A p \in PollIds : NewLoad.got[p] = Unknown
    BY DEF NewLoad, PollLoad, Unknown
  <2>3. \A p \in PollIds : Unknown <= tally[p]
    BY <1>0 DEF Unknown
  <2> HIDE DEF NewLoad
  <2>4. loads' \in Seq(PollLoad) /\ Len(loads') = 1 /\ loads'[1] = NewLoad
    BY <2>1, <2>2
  <2>5. PollTypes' /\ NoneAhead'
    BY <1>0, <2>1, <2>2, <2>3, <2>4 DEF PollTypes, NoneAhead, Polled
  <2>6. \A p \in listed : FreshPoll(p)'
    BY <2>1, <2>2, <2>4 DEF FreshPoll, Brings
  <2> QED BY <2>1, <2>5, <2>6 DEF PollsInv
<1>9. CASE UnmountPolls
  <2>1. loads' = <<>> /\ listed' = {} /\ resultAsks' = {} /\ pollsUp' = FALSE /\ UNCHANGED <<tally, events>>
        /\ results' = [p \in PollIds |-> Unknown]
    BY <1>9 DEF UnmountPolls
  <2>2. results' \in [PollIds -> Int] /\ loads' \in Seq(PollLoad) /\ Len(loads') = 0
    BY <2>1 DEF Unknown
  <2>3. PollTypes'
    BY <1>0, <2>1, <2>2 DEF PollTypes
  <2>4. NoneAhead'
    BY <2>1, <2>2 DEF NoneAhead
  <2> QED BY <2>1, <2>3, <2>4 DEF PollsInv
<1>10. CASE Updated
  <2> DEFINE p == Head(events)
  <2>1. events # <<>> /\ events' = Tail(events) /\ UNCHANGED <<tally, results, listed, pollsUp, loads, chilled>>
        /\ resultAsks' = IF pollsUp THEN resultAsks \cup {[poll |-> p, no |-> FreshNo(p), votes |-> Unknown]} ELSE resultAsks
    BY <1>10 DEF Updated, Asked
  <2>2. /\ p \in PollIds /\ p = events[1] /\ events' \in Seq(PollIds) /\ Len(events') = Len(events) - 1
        /\ \A k \in 1..Len(events') : events'[k] = events[k + 1]
    BY <1>0, <2>1
  <2>3. \A k \in 1..Len(events) : events[k] = p \/ \E m \in 1..Len(events') : events'[m] = events[k]
    <3> SUFFICES ASSUME NEW k \in 1..Len(events), k # 1 PROVE \E m \in 1..Len(events') : events'[m] = events[k]
      BY <2>2
    <3>1. k - 1 \in 1..Len(events') /\ (k - 1) + 1 = k
      BY <1>0, <2>2
    <3> QED BY <2>2, <3>1
  <2> HIDE DEF p
  <2>4. CASE pollsUp
    <3> DEFINE ask == FreshNo(p)
    <3>1. resultAsks' = resultAsks \cup {[poll |-> p, no |-> ask, votes |-> Unknown]}
      BY <2>1, <2>4
    <3> HIDE DEF ask
    <3> QED BY <2>1, <2>2, <2>3, <3>1, AskedMore
  <2>5. CASE ~pollsUp
    BY <1>0, <2>1, <2>2, <2>5 DEF PollsInv, PollTypes, NoneAhead, Polled
  <2> QED BY <2>4, <2>5 DEF PollsInv, PollTypes
<1>11. CASE PollLinkDrops
  <2>1. /\ events' = <<>> /\ chilled' = chilled \cup ToSet(events)
        /\ UNCHANGED <<tally, results, listed, pollsUp, loads, resultAsks>>
    BY <1>11 DEF PollLinkDrops
  <2>2. \A i \in 1..Len(events) : events[i] \in chilled'
    BY <1>0, <2>1 DEF ToSet
  <2>3. PollTypes' /\ NoneAhead'
    BY <1>0, <2>1 DEF PollTypes, NoneAhead, Polled
  <2> QED BY <2>1, <2>2, <2>3, PollsKeep
<1>12. CASE PollLinkReturns \/ UNCHANGED pollVars
  <2>1. UNCHANGED <<tally, results, listed, events, pollsUp, loads, resultAsks, chilled>>
    BY <1>12 DEF PollLinkReturns, pollVars
  <2> QED BY <2>1 DEF PollsInv, PollTypes, NoneAhead, Polled, FreshPoll, Answers, Brings
<1>13. ASSUME NEW q \in resultAsks, ResultsRead(q) \/ ResultsCome(q) \/ ResultsFail(q) PROVE PollsInv'
  BY <1>13, AsksKeepPolls
<1>14. ASSUME NEW i \in DOMAIN loads, PollsListed(i) \/ LoadEnds(i) \/ LoadFails(i) \/ \E p \in PollIds : ResultJoins(i, p)
       PROVE  PollsInv'
  BY <1>14, LoadsKeepPolls
<1> QED BY <1>2, <1>3, <1>4, <1>5, <1>6, <1>7, <1>8, <1>9, <1>10, <1>11, <1>12, <1>13, <1>14 DEF PollsNext

-----------------------------------------------------------------------------
\* The members of a sequence.
LEMMA ToSetIn ==
  ASSUME NEW S, NEW s \in Seq(S)
  PROVE  ToSet(s) \subseteq S
BY DEF ToSet

\* The counts and the answers are numbers of votes, and there are finitely many
\* requests to number a new one after.
Votes == Nat \cup {Unknown}
Answered == [poll : PollIds, no : Nat, votes : Votes]
LoadSoFar == [step : {"list", "results"}, todo : SUBSET PollIds, got : [PollIds -> Votes]]
PollShape ==
  /\ tally \in [PollIds -> Votes] /\ results \in [PollIds -> Votes]
  /\ mine \subseteq PollIds /\ shut \subseteq PollIds /\ listed \subseteq PollIds /\ badged \subseteq PollIds
  /\ voted \subseteq PollIds /\ chilled \subseteq PollIds
  /\ events \in Seq(PollIds) /\ loads \in Seq(LoadSoFar) /\ resultAsks \subseteq Answered /\ IsFiniteSet(resultAsks)
  /\ pollsUp \in BOOLEAN /\ joinedUp \in BOOLEAN /\ pollsLeft \in [PollBudgetKinds -> Nat]

\* A request for the results of a poll gets a number that no other one has.
LEMMA AskedIs ==
  ASSUME PollShape, NEW p \in PollIds
  PROVE  Asked(p) \subseteq Answered /\ IsFiniteSet(Asked(p))
<1> DEFINE f == [q \in resultAsks |-> q.no]
           ask == [poll |-> p, no |-> FreshNo(p), votes |-> Unknown]
<1>1. f \in [resultAsks -> Int] /\ IsFiniteSet(resultAsks)
  BY DEF PollShape, Answered
<1> HIDE DEF f
<1>2. Cardinality(resultAsks) \in Nat /\ \E n \in 1..(1 + Cardinality(resultAsks)) : \A q \in resultAsks : f[q] # n
  BY <1>1, FreshNumber
<1>3. \E n \in 1..(Cardinality(resultAsks) + 1) : \A q \in resultAsks : q.poll = p => q.no # n
  <2>1. PICK n \in 1..(1 + Cardinality(resultAsks)) : \A q \in resultAsks : f[q] # n
    BY <1>2
  <2>2. \A q \in resultAsks : q.no # n
    BY <2>1 DEF f
  <2>3. n \in 1..(Cardinality(resultAsks) + 1)
    BY <1>2
  <2> QED BY <2>2, <2>3
<1>4. FreshNo(p) \in Nat
  <2>1. FreshNo(p) \in 1..(Cardinality(resultAsks) + 1)
    BY <1>3 DEF FreshNo
  <2> QED BY <1>2, <2>1
<1>5. ask \in Answered
  BY <1>4 DEF Answered, Votes
<1> HIDE DEF ask
<1>6. IsFiniteSet(resultAsks \cup {ask})
  BY <1>1, FS_AddElement
<1> QED BY <1>5, <1>6 DEF Asked, ask, PollShape

\* Spending from a budget leaves one.
LEMMA SpendPollTypes ==
  ASSUME pollsLeft \in [PollBudgetKinds -> Nat], NEW k \in PollBudgetKinds, SpendPoll(k)
  PROVE  pollsLeft' \in [PollBudgetKinds -> Nat]
<1>1. pollsLeft[k] \in Nat /\ pollsLeft[k] > 0 /\ pollsLeft' = [pollsLeft EXCEPT ![k] = pollsLeft[k] - 1]
  BY DEF SpendPoll
<1>2. pollsLeft[k] - 1 \in Nat
  BY <1>1
<1> QED BY <1>1, <1>2

\* An event that is sent, or lost, is about a poll.
LEMMA AnnounceTypes ==
  ASSUME PollShape, NEW p \in PollIds, Announce(p)
  PROVE  events' \in Seq(PollIds) /\ chilled' \subseteq PollIds
<1>1. CASE joinedUp
  <2>1. events' = Append(events, p) /\ chilled' = chilled
    BY <1>1 DEF Announce
  <2>2. events \in Seq(PollIds) /\ chilled \subseteq PollIds
    BY DEF PollShape
  <2> QED BY <2>1, <2>2
<1>2. CASE ~joinedUp
  BY <1>2 DEF Announce, PollShape
<1> QED BY <1>1, <1>2

\* A load that begins knows no votes.
LEMMA NewLoadIs == NewLoad \in LoadSoFar
BY DEF NewLoad, LoadSoFar, Votes

\* What others and this user do to a poll.
LEMMA PollActsShape ==
  ASSUME PollShape, NEW p \in PollIds,
         OthersCreate(p) \/ OthersVote(p) \/ OthersClose(p) \/ Vote(p) \/ CreatePoll(p) \/ ClosePoll(p)
  PROVE  PollShape'
<1>1. pollsLeft' \in [PollBudgetKinds -> Nat]
  <2>1. \E k \in PollBudgetKinds : SpendPoll(k)
    BY DEF PollBudgetKinds, OthersCreate, OthersVote, OthersClose, Vote, CreatePoll, ClosePoll
  <2> QED BY <2>1, SpendPollTypes DEF PollShape
<1>2. \A n \in Nat : [tally EXCEPT ![p] = n] \in [PollIds -> Votes]
  BY DEF PollShape, Votes
<1>3. p \in Polled => tally[p] + 1 \in Nat
  BY DEF PollShape, Votes, Polled
<1>4. CASE OthersCreate(p)
  <2>1. tally' = [tally EXCEPT ![p] = 0] /\ Announce(p) /\ UNCHANGED <<mine, shut, pollsUp, listed, badged, results, voted, loads, resultAsks, joinedUp>>
    BY <1>4 DEF OthersCreate
  <2>2. events' \in Seq(PollIds) /\ chilled' \subseteq PollIds
    BY <2>1, AnnounceTypes
  <2> QED BY <1>1, <1>2, <2>1, <2>2 DEF PollShape
<1>5. CASE OthersVote(p)
  <2>1. tally' = [tally EXCEPT ![p] = tally[p] + 1] /\ p \in Polled /\ Announce(p) /\ UNCHANGED <<mine, shut, pollsUp, listed, badged, results, voted, loads, resultAsks, joinedUp>>
    BY <1>5 DEF OthersVote
  <2>2. events' \in Seq(PollIds) /\ chilled' \subseteq PollIds
    BY <2>1, AnnounceTypes
  <2> QED BY <1>1, <1>2, <1>3, <2>1, <2>2 DEF PollShape
<1>6. CASE OthersClose(p)
  <2>1. shut' = shut \cup {p} /\ Announce(p) /\ UNCHANGED <<tally, mine, pollsUp, listed, badged, results, voted, loads, resultAsks, joinedUp>>
    BY <1>6 DEF OthersClose
  <2>2. events' \in Seq(PollIds) /\ chilled' \subseteq PollIds
    BY <2>1, AnnounceTypes
  <2> QED BY <1>1, <2>1, <2>2 DEF PollShape
<1>7. CASE Vote(p)
  <2>1. resultAsks' = Asked(p) /\ UNCHANGED <<mine, shut, pollsUp, listed, badged, results, loads, joinedUp>>
    BY <1>7 DEF Vote
  <2>2. resultAsks' \subseteq Answered /\ IsFiniteSet(resultAsks')
    BY <2>1, AskedIs
  <2>3. CASE p \in shut
    <3>1. UNCHANGED <<tally, voted, events, chilled>>
      BY <1>7, <2>3 DEF Vote
    <3> QED BY <1>1, <2>1, <2>2, <3>1 DEF PollShape
  <2>4. CASE p \notin shut
    <3>1. tally' = [tally EXCEPT ![p] = tally[p] + 1] /\ voted' = voted \cup {p} /\ Announce(p)
      BY <1>7, <2>4 DEF Vote
    <3>2. events' \in Seq(PollIds) /\ chilled' \subseteq PollIds
      BY <3>1, AnnounceTypes
    <3>3. tally[p] + 1 \in Nat
      BY DEF PollShape, Votes, Unknown
    <3> QED BY <1>1, <1>2, <2>1, <2>2, <3>1, <3>2, <3>3 DEF PollShape
  <2> QED BY <2>3, <2>4
<1>8. CASE CreatePoll(p)
  <2>1. /\ tally' = [tally EXCEPT ![p] = 0] /\ mine' = mine \cup {p} /\ Announce(p) /\ loads' = Append(loads, NewLoad)
        /\ UNCHANGED <<shut, pollsUp, listed, badged, results, voted, resultAsks, joinedUp>>
    BY <1>8 DEF CreatePoll
  <2>2. events' \in Seq(PollIds) /\ chilled' \subseteq PollIds
    BY <2>1, AnnounceTypes
  <2>3. loads' \in Seq(LoadSoFar)
    BY <2>1, NewLoadIs DEF PollShape
  <2> QED BY <1>1, <1>2, <2>1, <2>2, <2>3 DEF PollShape
<1>9. CASE ClosePoll(p)
  <2>1. /\ shut' = shut \cup {p} /\ Announce(p) /\ loads' = Append(loads, NewLoad)
        /\ UNCHANGED <<tally, mine, pollsUp, listed, badged, results, voted, resultAsks, joinedUp>>
    BY <1>9 DEF ClosePoll
  <2>2. events' \in Seq(PollIds) /\ chilled' \subseteq PollIds
    BY <2>1, AnnounceTypes
  <2>3. loads' \in Seq(LoadSoFar)
    BY <2>1, NewLoadIs DEF PollShape
  <2> QED BY <1>1, <2>1, <2>2, <2>3 DEF PollShape
<1> QED BY <1>4, <1>5, <1>6, <1>7, <1>8, <1>9

\* What becomes of a load.
LEMMA PollLoadsShape ==
  ASSUME PollShape, NEW i \in DOMAIN loads
  PROVE  /\ PollsListed(i) \/ LoadEnds(i) \/ LoadFails(i) => PollShape'
         /\ \A p \in PollIds : ResultJoins(i, p) => PollShape'
<1>1. i \in 1..Len(loads) /\ loads[i] \in LoadSoFar /\ loads \in Seq(LoadSoFar)
  BY DEF PollShape
<1>2. RemoveAt(loads, i) \in Seq(LoadSoFar)
  BY <1>1, TakenOut
<1>3. ASSUME PollsListed(i) PROVE PollShape'
  <2>1. [loads[i] EXCEPT !.step = "results", !.todo = Polled] \in LoadSoFar
    BY <1>1 DEF LoadSoFar, Polled
  <2>2. /\ listed' = Polled /\ badged' = shut /\ loads' = [loads EXCEPT ![i] = [loads[i] EXCEPT !.step = "results", !.todo = Polled]]
        /\ UNCHANGED <<tally, mine, shut, events, pollsUp, results, voted, resultAsks, joinedUp, chilled, pollsLeft>>
    BY <1>1, <1>3 DEF PollsListed
  <2>3. loads' \in Seq(LoadSoFar)
    BY <1>1, <2>1, <2>2
  <2> QED BY <2>2, <2>3 DEF PollShape, Polled
<1>4. ASSUME LoadEnds(i) PROVE PollShape'
  <2>1. /\ results' = loads[i].got /\ chilled' \subseteq PollIds /\ loads' = RemoveAt(loads, i)
        /\ UNCHANGED <<tally, mine, shut, events, pollsUp, listed, badged, voted, resultAsks, joinedUp, pollsLeft>>
    BY <1>4 DEF LoadEnds, Polled
  <2>2. results' \in [PollIds -> Votes]
    BY <1>1, <2>1 DEF LoadSoFar
  <2> QED BY <1>2, <2>1, <2>2 DEF PollShape
<1>5. ASSUME LoadFails(i) PROVE PollShape'
  <2>1. /\ chilled' = PollIds /\ loads' = RemoveAt(loads, i)
        /\ UNCHANGED <<tally, mine, shut, events, pollsUp, listed, badged, results, voted, resultAsks, joinedUp>>
    BY <1>5 DEF LoadFails
  <2>2. pollsLeft' = pollsLeft \/ SpendPoll("failures")
    BY <1>5 DEF LoadFails
  <2>3. pollsLeft' \in [PollBudgetKinds -> Nat]
    BY <2>2, SpendPollTypes DEF PollShape, PollBudgetKinds
  <2> QED BY <1>2, <2>1, <2>3 DEF PollShape
<1>6. ASSUME NEW p \in PollIds, ResultJoins(i, p) PROVE PollShape'
  <2>1. [loads[i] EXCEPT !.todo = loads[i].todo \ {p}, !.got = [loads[i].got EXCEPT ![p] = tally[p]]] \in LoadSoFar
    <3>1. tally[p] \in Votes
      BY DEF PollShape
    <3>2. [loads[i].got EXCEPT ![p] = tally[p]] \in [PollIds -> Votes]
      BY <1>1, <3>1 DEF LoadSoFar
    <3> QED BY <1>1, <3>2 DEF LoadSoFar
  <2>2. /\ loads' = [loads EXCEPT ![i] = [loads[i] EXCEPT !.todo = loads[i].todo \ {p}, !.got = [loads[i].got EXCEPT ![p] = tally[p]]]]
        /\ UNCHANGED <<tally, mine, shut, events, pollsUp, listed, badged, results, voted, resultAsks, joinedUp, chilled, pollsLeft>>
    BY <1>1, <1>6 DEF ResultJoins
  <2>3. loads' \in Seq(LoadSoFar)
    BY <1>1, <2>1, <2>2
  <2> QED BY <2>2, <2>3 DEF PollShape
<1> QED BY <1>3, <1>4, <1>5, <1>6

\* What becomes of a request.
LEMMA PollAsksShape ==
  ASSUME PollShape, NEW q \in resultAsks, ResultsRead(q) \/ ResultsCome(q) \/ ResultsFail(q)
  PROVE  PollShape'
<1>1. q \in Answered /\ q.poll \in PollIds /\ q.votes \in Votes /\ IsFiniteSet(resultAsks \ {q})
  BY FS_RemoveElement DEF PollShape, Answered
<1>2. CASE ResultsRead(q)
  <2> DEFINE r == [q EXCEPT !.votes = tally[q.poll]]
  <2>1. r \in Answered
    BY <1>1 DEF PollShape, Answered
  <2>2. /\ resultAsks' = (resultAsks \ {q}) \cup {r}
        /\ UNCHANGED <<tally, mine, shut, events, pollsUp, listed, badged, results, voted, loads, joinedUp, chilled, pollsLeft>>
    BY <1>2 DEF ResultsRead
  <2> HIDE DEF r
  <2>3. IsFiniteSet((resultAsks \ {q}) \cup {r})
    BY <1>1, FS_AddElement
  <2> QED BY <2>1, <2>2, <2>3 DEF PollShape
<1>3. CASE ResultsCome(q)
  <2>1. /\ results' = [results EXCEPT ![q.poll] = q.votes] /\ chilled' = Warmed(q.poll, q.votes) /\ resultAsks' = resultAsks \ {q}
        /\ UNCHANGED <<tally, mine, shut, events, pollsUp, listed, badged, voted, loads, joinedUp, pollsLeft>>
    BY <1>3 DEF ResultsCome
  <2>2. Warmed(q.poll, q.votes) \subseteq PollIds
    BY <1>1 DEF Warmed, PollShape
  <2> QED BY <1>1, <2>1, <2>2 DEF PollShape
<1>4. CASE ResultsFail(q)
  <2>1. /\ resultAsks' = resultAsks \ {q} /\ chilled' = chilled \cup {q.poll}
        /\ UNCHANGED <<tally, mine, shut, events, pollsUp, listed, badged, results, voted, loads, joinedUp>>
    BY <1>4 DEF ResultsFail
  <2>2. pollsLeft' = pollsLeft \/ SpendPoll("failures")
    BY <1>4 DEF ResultsFail
  <2>3. pollsLeft' \in [PollBudgetKinds -> Nat]
    BY <2>2, SpendPollTypes DEF PollShape, PollBudgetKinds
  <2> QED BY <1>1, <2>1, <2>3 DEF PollShape
<1> QED BY <1>2, <1>3, <1>4

\* Every step keeps the types.
LEMMA PollShapeKept ==
  ASSUME PollShape, [PollsNext]_pollVars
  PROVE  PollShape'
<1>1. CASE MountPolls
  <2>1. SpendPoll("mounts") /\ pollsUp' = TRUE /\ loads' = <<NewLoad>>
        /\ UNCHANGED <<tally, mine, shut, events, listed, badged, results, voted, resultAsks, joinedUp, chilled>>
    BY <1>1 DEF MountPolls
  <2>2. loads' \in Seq(LoadSoFar)
    BY <2>1, NewLoadIs
  <2>3. pollsLeft' \in [PollBudgetKinds -> Nat]
    BY <2>1, SpendPollTypes DEF PollShape, PollBudgetKinds
  <2> QED BY <2>1, <2>2, <2>3 DEF PollShape
<1>2. CASE UnmountPolls
  <2>1. /\ pollsUp' = FALSE /\ listed' = {} /\ badged' = {} /\ loads' = <<>> /\ resultAsks' = {}
        /\ results' = [p \in PollIds |-> Unknown] /\ chilled' = {}
        /\ UNCHANGED <<tally, mine, shut, events, voted, joinedUp, pollsLeft>>
    BY <1>2 DEF UnmountPolls
  <2>2. results' \in [PollIds -> Votes] /\ loads' \in Seq(LoadSoFar) /\ IsFiniteSet(resultAsks')
    BY <2>1, FS_EmptySet DEF Votes
  <2> QED BY <2>1, <2>2 DEF PollShape
<1>3. CASE Updated
  <2>1. /\ events # <<>> /\ events' = Tail(events)
        /\ UNCHANGED <<tally, mine, shut, pollsUp, listed, badged, results, voted, loads, joinedUp, chilled, pollsLeft>>
    BY <1>3 DEF Updated
  <2>2. Head(events) \in PollIds /\ events' \in Seq(PollIds)
    BY <2>1 DEF PollShape
  <2>3. resultAsks' = Asked(Head(events)) \/ resultAsks' = resultAsks
    BY <1>3 DEF Updated
  <2>4. resultAsks' \subseteq Answered /\ IsFiniteSet(resultAsks')
    BY <2>2, <2>3, AskedIs DEF PollShape
  <2> QED BY <2>1, <2>2, <2>4 DEF PollShape
<1>4. CASE PollLinkDrops
  <2>1. /\ SpendPoll("drops") /\ joinedUp' = FALSE /\ events' = <<>> /\ chilled' = chilled \cup ToSet(events)
        /\ UNCHANGED <<tally, mine, shut, pollsUp, listed, badged, results, voted, loads, resultAsks>>
    BY <1>4 DEF PollLinkDrops
  <2>2. ToSet(events) \subseteq PollIds /\ events' \in Seq(PollIds)
    BY <2>1, ToSetIn DEF PollShape
  <2>3. pollsLeft' \in [PollBudgetKinds -> Nat]
    BY <2>1, SpendPollTypes DEF PollShape, PollBudgetKinds
  <2> QED BY <2>1, <2>2, <2>3 DEF PollShape
<1>5. CASE PollLinkReturns
  BY <1>5 DEF PollLinkReturns, PollShape
<1>6. CASE UNCHANGED pollVars
  BY <1>6 DEF pollVars, PollShape
<1> QED BY <1>1, <1>2, <1>3, <1>4, <1>5, <1>6, PollActsShape, PollLoadsShape, PollAsksShape DEF PollsNext

\* They hold at first.
LEMMA PollShapeInit ==
  ASSUME PollsInit
  PROVE  PollShape
<1>1. /\ tally = [p \in PollIds |-> Unknown] /\ mine = {} /\ shut = {} /\ events = <<>>
      /\ pollsUp = FALSE /\ listed = {} /\ badged = {} /\ results = [p \in PollIds |-> Unknown]
      /\ voted = {} /\ loads = <<>> /\ resultAsks = {} /\ joinedUp = TRUE /\ chilled = {}
  BY DEF PollsInit
<1>2. tally \in [PollIds -> Votes] /\ results \in [PollIds -> Votes]
  BY <1>1 DEF Votes
<1>3. events \in Seq(PollIds) /\ loads \in Seq(LoadSoFar) /\ IsFiniteSet(resultAsks)
  BY <1>1, FS_EmptySet
<1>4. pollsLeft \in [PollBudgetKinds -> Nat]
  BY CountedPolls DEF PollsInit
<1> QED BY <1>1, <1>2, <1>3, <1>4 DEF PollShape

\* They are those of the variables.
LEMMA PollShapeTypes ==
  ASSUME PollShape
  PROVE  PollsTypeOK
<1>1. loads \in Seq(PollLoad)
  <2>1. loads \in Seq(LoadSoFar)
    BY DEF PollShape
  <2>2. LoadSoFar \subseteq PollLoad
    BY DEF LoadSoFar, PollLoad, Votes, Unknown
  <2> QED BY <2>1, <2>2
<1>2. resultAsks \subseteq ResultAsk
  BY DEF PollShape, Answered, ResultAsk, Votes, Unknown
<1>3. {pollsUp, joinedUp} \subseteq BOOLEAN
  <2>1. pollsUp \in BOOLEAN /\ joinedUp \in BOOLEAN
    BY DEF PollShape
  <2> QED BY <2>1, Zenon
<1>4. {tally, results} \subseteq [PollIds -> Nat \cup {Unknown}]
  BY DEF PollShape, Votes
<1> QED BY <1>1, <1>2, <1>3, <1>4 DEF PollShape, PollsTypeOK

(***************************************************************************)
(* PageEditor.                                                             *)
(***************************************************************************)
\* Editors and requests, whose texts are made of the words in t.
Kinds == {"load", "save", "editing", "stopedit", "delete"}
EditorWith(t) == [at : {"list", "loading", "ready"}, visit : Nat, text : SUBSET t, sent : SUBSET t,
                  timer : BOOLEAN, saving : BOOLEAN, blind : BOOLEAN, others : SUBSET Writers]
RequestWith(t) == [kind : Kinds, by : Writers, visit : Nat, text : SUBSET t, blind : BOOLEAN]
EditorTypes ==
  /\ editor \in [Writers -> EditorWith(typed)] /\ page \subseteq typed /\ tracker \subseteq Writers /\ there \in BOOLEAN
  /\ inbox \in Seq(RequestWith(typed)) /\ orphans \subseteq RequestWith(typed)
  /\ notes \in [Writers -> Seq(SUBSET Writers)]
  /\ \A w \in typed : w.by \in Writers /\ w.visit \in Nat /\ w.blind \in BOOLEAN
  /\ (\A o \in orphans : o.kind = "save") /\ \A u \in Writers : u \notin editor[u].others

\* A load is asked for once in a visit, and the editor waits for it; one that waits has
\* no page, and no word of it was typed with one.  A page is deleted from an editor that
\* shows it.
OneLoad(q) ==
  \A i, j \in 1..Len(q) : q[i].kind = "load" /\ q[j].kind = "load" /\ q[i].by = q[j].by /\ q[i].visit = q[j].visit => i = j
DatedIn(r, e) ==
  /\ r.visit <= e.visit
  /\ r.visit = e.visit => (r.kind = "load" => e.at # "ready") /\ (r.kind = "delete" => e.at # "loading")
Dated ==
  /\ OneLoad(inbox) /\ \A i \in 1..Len(inbox) : DatedIn(inbox[i], editor[inbox[i].by])
  /\ \A u \in Writers : (editor[u].at = "loading" => editor[u].blind) /\ (editor[u].at = "list" => ~editor[u].timer)
  /\ \A w \in typed : LET e == editor[w.by] IN w.visit <= e.visit /\ (w.visit = e.visit /\ e.at # "list" /\ e.blind => w.blind)
  /\ \A o \in orphans : o.visit <= editor[o.by].visit /\ (o.visit = editor[o.by].visit => editor[o.by].at = "list")

\* Where a word is that need not be typed again.
SavesOf(q, w) == \E i \in 1..Len(q) : q[i].kind = "save" /\ w \in q[i].text
Safe(w) == w \in page \/ w \in lost \/ SavesOf(inbox, w) \/ \E o \in orphans : w \in o.text
\* What an editor shows, and what one that is gone will save, has all the words of its
\* own; and a save has those that are on the page, or are saved before it.
WholeTexts ==
  /\ \A w \in typed : LET e == editor[w.by] IN e.at # "list" /\ w.visit = e.visit /\ w.blind = e.blind => w \in e.text
  /\ \A o \in orphans, w \in typed : Hand(w) = Hand(o) => w \in o.text
Newer(q, j, w) == q[j].kind = "save" /\ Hand(w) = Hand(q[j]) /\ w \notin q[j].text
InTurn(q, text, t) ==
  \A j \in 1..Len(q), w \in t :
    Newer(q, j, w) => w \notin text /\ \A i \in 1..Len(q) : i < j /\ q[i].kind = "save" => w \notin q[i].text
NoneForgotten ==
  /\ \A w \in typed : Safe(w) \/ (editor[w.by].timer /\ w \in editor[w.by].text)
  /\ \A u \in Writers : \A w \in editor[u].sent : Safe(w)
WordsInv == there => WholeTexts /\ InTurn(inbox, page, typed) /\ NoneForgotten

\* The last one a writer said, if it is still to come: that it edits the page or stops.
Said(q, kind, u) == \E i \in 1..Len(q) : q[i].kind = kind /\ q[i].by = u
Revoked(q, kind, other, u) ==
  \A i \in 1..Len(q) : q[i].kind = kind /\ q[i].by = u => \E j \in 1..Len(q) : j > i /\ q[j].kind = other /\ q[j].by = u
Keeps(q, u, t) == (u \in t \/ Said(q, "editing", u)) /\ Revoked(q, "stopedit", "editing", u)
Leaves(q, u, t) == (u \notin t \/ Said(q, "stopedit", u)) /\ Revoked(q, "editing", "stopedit", u)
Registers ==
  \A u \in Writers : u \notin misheard =>
    /\ editor[u].at = "ready" => Keeps(inbox, u, tracker)
    /\ editor[u].at # "ready" => Leaves(inbox, u, tracker)
    /\ \A i \in 1..Len(inbox) : inbox[i].kind = "load" /\ inbox[i].by = u => editor[u].at = "loading" /\ inbox[i].visit = editor[u].visit
\* The last list on its way to an editor is that of the service, and so is the one it
\* shows when none is on its way, unless it registers first.
Like(list, t, but) == \A v \in Writers : v \notin but => (v \in list <=> v \in t)
Informed ==
  \A u \in Writers :
    /\ notes[u] # <<>> => Like(notes[u][Len(notes[u])], tracker, misheard)
    /\ notes[u] = <<>> /\ u \notin misheard /\ editor[u].at = "ready" =>
         Said(inbox, "editing", u) \/ Like(editor[u].others \cup (tracker \cap {u}), tracker, misheard)
EditorInv == EditorTypes /\ Dated /\ WordsInv /\ Registers /\ Informed

-----------------------------------------------------------------------------
\* A queue when one is added at its end, and when its first is taken.
LEMMA Queued ==
  ASSUME NEW S, NEW q \in Seq(S), NEW r \in S
  PROVE  /\ Append(q, r) \in Seq(S) /\ Len(Append(q, r)) = Len(q) + 1 /\ Append(q, r)[Len(q) + 1] = r
         /\ \A i \in 1..Len(q) : Append(q, r)[i] = q[i]
  OBVIOUS

LEMMA Dequeued ==
  ASSUME NEW S, NEW q \in Seq(S), q # <<>>
  PROVE  /\ Tail(q) \in Seq(S) /\ Len(Tail(q)) = Len(q) - 1 /\ Head(q) = q[1] /\ q[1] \in S /\ 1 \in 1..Len(q)
         /\ \A i \in 1..Len(Tail(q)) : Tail(q)[i] = q[i + 1] /\ i + 1 \in 1..Len(q)
         /\ \A i \in 1..Len(q) : i = 1 \/ (i - 1 \in 1..Len(Tail(q)) /\ Tail(q)[i - 1] = q[i])
<1>1. Tail(q) \in Seq(S) /\ Len(Tail(q)) = Len(q) - 1 /\ Head(q) = q[1] /\ q[1] \in S /\ 1 \in 1..Len(q)
  OBVIOUS
<1>2. \A i \in 1..Len(Tail(q)) : Tail(q)[i] = q[i + 1] /\ i + 1 \in 1..Len(q)
  BY <1>1
<1>3. ASSUME NEW i \in 1..Len(q), i # 1 PROVE i - 1 \in 1..Len(Tail(q)) /\ Tail(q)[i - 1] = q[i]
  <2>1. i - 1 \in 1..Len(Tail(q)) /\ (i - 1) + 1 = i
    BY <1>1, <1>3
  <2> QED BY <1>2, <2>1
<1> QED BY <1>1, <1>2, <1>3

\* What is said when a request is added, and when one is taken.
LEMMA SaidQueued ==
  ASSUME NEW S, NEW q \in Seq(S), NEW r \in S, NEW k, NEW o, NEW u, k # o
  PROVE  /\ Said(Append(q, r), k, u) <=> Said(q, k, u) \/ (r.kind = k /\ r.by = u)
         /\ r.kind = o /\ r.by = u => Revoked(Append(q, r), k, o, u)
         /\ Revoked(q, k, o, u) /\ ~(r.kind = k /\ r.by = u) => Revoked(Append(q, r), k, o, u)
<1> DEFINE p == Append(q, r)
<1>1. Len(p) = Len(q) + 1 /\ p[Len(q) + 1] = r /\ (\A i \in 1..Len(q) : p[i] = q[i]) /\ Len(q) \in Nat
  BY Queued
<1> HIDE DEF p
<1>2. Said(p, k, u) <=> Said(q, k, u) \/ (r.kind = k /\ r.by = u)
  BY <1>1 DEF Said
<1>3. ASSUME r.kind = o, r.by = u PROVE Revoked(p, k, o, u)
  BY <1>1, <1>3 DEF Revoked
<1>4. ASSUME Revoked(q, k, o, u), ~(r.kind = k /\ r.by = u) PROVE Revoked(p, k, o, u)
  <2> SUFFICES ASSUME NEW i \in 1..Len(p), p[i].kind = k, p[i].by = u PROVE \E j \in 1..Len(p) : j > i /\ p[j].kind = o /\ p[j].by = u
    BY DEF Revoked
  <2>1. i \in 1..Len(q) /\ p[i] = q[i]
    BY <1>1, <1>4
  <2>2. PICK j \in 1..Len(q) : j > i /\ q[j].kind = o /\ q[j].by = u
    BY <1>4, <2>1 DEF Revoked
  <2>3. j \in 1..Len(p) /\ p[j] = q[j]
    BY <1>1
  <2> QED BY <2>2, <2>3
<1> QED BY <1>2, <1>3, <1>4 DEF p

LEMMA SaidDequeued ==
  ASSUME NEW S, NEW q \in Seq(S), q # <<>>, NEW k, NEW o, NEW u, k # o
  PROVE  /\ Said(q, k, u) <=> Said(Tail(q), k, u) \/ (q[1].kind = k /\ q[1].by = u)
         /\ Revoked(q, k, o, u) => Revoked(Tail(q), k, o, u) /\ (q[1].kind = k /\ q[1].by = u => Said(Tail(q), o, u))
<1> DEFINE p == Tail(q)
<1>1. /\ Len(p) = Len(q) - 1 /\ 1 \in 1..Len(q) /\ Len(q) \in Nat
      /\ \A i \in 1..Len(p) : p[i] = q[i + 1] /\ i + 1 \in 1..Len(q)
      /\ \A i \in 1..Len(q) : i = 1 \/ (i - 1 \in 1..Len(p) /\ p[i - 1] = q[i])
  BY Dequeued
<1> HIDE DEF p
<1>2. Said(q, k, u) <=> Said(p, k, u) \/ (q[1].kind = k /\ q[1].by = u)
  <2>1. ASSUME Said(q, k, u), ~(q[1].kind = k /\ q[1].by = u) PROVE Said(p, k, u)
    <3>1. PICK i \in 1..Len(q) : q[i].kind = k /\ q[i].by = u
      BY <2>1 DEF Said
    <3>2. i - 1 \in 1..Len(p) /\ p[i - 1] = q[i]
      BY <1>1, <2>1, <3>1
    <3> QED BY <3>1, <3>2 DEF Said
  <2>2. ASSUME Said(p, k, u) PROVE Said(q, k, u)
    BY <1>1, <2>2 DEF Said
  <2>3. ASSUME q[1].kind = k, q[1].by = u PROVE Said(q, k, u)
    BY <1>1, <2>3 DEF Said
  <2> QED BY <2>1, <2>2, <2>3
<1>3. ASSUME Revoked(q, k, o, u), NEW i \in 1..Len(q), q[i].kind = k, q[i].by = u
      PROVE  \E j \in 1..Len(p) : j + 1 > i /\ p[j].kind = o /\ p[j].by = u
  <2>1. PICK j \in 1..Len(q) : j > i /\ q[j].kind = o /\ q[j].by = u
    BY <1>3 DEF Revoked
  <2>2. j - 1 \in 1..Len(p) /\ p[j - 1] = q[j] /\ (j - 1) + 1 > i
    BY <1>1, <2>1
  <2> QED BY <2>1, <2>2
<1>4. ASSUME Revoked(q, k, o, u) PROVE Revoked(p, k, o, u)
  <2> SUFFICES ASSUME NEW i \in 1..Len(p), p[i].kind = k, p[i].by = u PROVE \E j \in 1..Len(p) : j > i /\ p[j].kind = o /\ p[j].by = u
    BY DEF Revoked
  <2>1. i + 1 \in 1..Len(q) /\ q[i + 1].kind = k /\ q[i + 1].by = u
    BY <1>1
  <2>2. PICK j \in 1..Len(p) : j + 1 > i + 1 /\ p[j].kind = o /\ p[j].by = u
    BY <1>3, <1>4, <2>1
  <2> QED BY <2>2
<1>5. ASSUME Revoked(q, k, o, u), q[1].kind = k, q[1].by = u PROVE Said(p, o, u)
  BY <1>1, <1>3, <1>5 DEF Said
<1> QED BY <1>2, <1>4, <1>5 DEF p

\* What the first request said of the editing of a user is what the rest may not say.
LEMMA EditingDequeued ==
  ASSUME NEW S, NEW q \in Seq(S), q # <<>>
  PROVE  \A u : Said(q, "editing", u) <=> Said(Tail(q), "editing", u) \/ (q[1].kind = "editing" /\ q[1].by = u)
<1> SUFFICES ASSUME NEW u
             PROVE  Said(q, "editing", u) <=> Said(Tail(q), "editing", u) \/ (q[1].kind = "editing" /\ q[1].by = u)
  OBVIOUS
<1>1. "editing" # "stopedit"
  OBVIOUS
<1> QED BY <1>1, SaidDequeued

\* What is saved when a request is added, and when one is taken.
LEMMA SavesQueued ==
  ASSUME NEW S, NEW q \in Seq(S), NEW r \in S, NEW text, NEW t
  PROVE  /\ \A w : SavesOf(Append(q, r), w) <=> SavesOf(q, w) \/ (r.kind = "save" /\ w \in r.text)
         /\ InTurn(q, text, t) /\ (r.kind = "save" => \A w \in t : Hand(w) = Hand(r) => w \in r.text) => InTurn(Append(q, r), text, t)
<1> DEFINE p == Append(q, r)
<1>1. Len(p) = Len(q) + 1 /\ p[Len(q) + 1] = r /\ (\A i \in 1..Len(q) : p[i] = q[i]) /\ Len(q) \in Nat
  BY Queued
<1> HIDE DEF p
<1>2. \A w : SavesOf(p, w) <=> SavesOf(q, w) \/ (r.kind = "save" /\ w \in r.text)
  BY <1>1 DEF SavesOf
<1>3. ASSUME InTurn(q, text, t), r.kind = "save" => \A w \in t : Hand(w) = Hand(r) => w \in r.text PROVE InTurn(p, text, t)
  <2> SUFFICES ASSUME NEW j \in 1..Len(p), NEW w \in t, Newer(p, j, w)
               PROVE  w \notin text /\ \A i \in 1..Len(p) : i < j /\ p[i].kind = "save" => w \notin p[i].text
    BY DEF InTurn
  <2>1. j \in 1..Len(q) /\ p[j] = q[j]
    BY <1>1, <1>3 DEF Newer
  <2>2. Newer(q, j, w)
    BY <2>1 DEF Newer
  <2>3. w \notin text /\ \A i \in 1..Len(q) : i < j /\ q[i].kind = "save" => w \notin q[i].text
    BY <1>3, <2>1, <2>2 DEF InTurn
  <2> QED BY <1>1, <2>1, <2>3
<1> QED BY <1>2, <1>3 DEF p

LEMMA SavesDequeued ==
  ASSUME NEW S, NEW q \in Seq(S), q # <<>>, NEW text, NEW t
  PROVE  /\ \A w : SavesOf(q, w) <=> SavesOf(Tail(q), w) \/ (q[1].kind = "save" /\ w \in q[1].text)
         /\ InTurn(q, text, t) => InTurn(Tail(q), text, t) /\ (q[1].kind = "save" => InTurn(Tail(q), q[1].text, t))
<1> DEFINE p == Tail(q)
<1>1. /\ Len(p) = Len(q) - 1 /\ 1 \in 1..Len(q) /\ Len(q) \in Nat
      /\ \A i \in 1..Len(p) : p[i] = q[i + 1] /\ i + 1 \in 1..Len(q)
      /\ \A i \in 1..Len(q) : i = 1 \/ (i - 1 \in 1..Len(p) /\ p[i - 1] = q[i])
  BY Dequeued
<1> HIDE DEF p
<1>2. ASSUME NEW w PROVE SavesOf(q, w) <=> SavesOf(p, w) \/ (q[1].kind = "save" /\ w \in q[1].text)
  <2>1. ASSUME SavesOf(q, w), ~(q[1].kind = "save" /\ w \in q[1].text) PROVE SavesOf(p, w)
    <3>1. PICK i \in 1..Len(q) : q[i].kind = "save" /\ w \in q[i].text
      BY <2>1 DEF SavesOf
    <3>2. i - 1 \in 1..Len(p) /\ p[i - 1] = q[i]
      BY <1>1, <2>1, <3>1
    <3> QED BY <3>1, <3>2 DEF SavesOf
  <2>2. ASSUME SavesOf(p, w) PROVE SavesOf(q, w)
    BY <1>1, <2>2 DEF SavesOf
  <2>3. ASSUME q[1].kind = "save", w \in q[1].text PROVE SavesOf(q, w)
    BY <1>1, <2>3 DEF SavesOf
  <2> QED BY <2>1, <2>2, <2>3
<1>3. ASSUME InTurn(q, text, t), NEW j \in 1..Len(p), NEW w \in t, Newer(p, j, w)
      PROVE  /\ w \notin text /\ (q[1].kind = "save" => w \notin q[1].text)
             /\ \A i \in 1..Len(p) : i < j /\ p[i].kind = "save" => w \notin p[i].text
  <2>1. j + 1 \in 1..Len(q) /\ p[j] = q[j + 1] /\ 1 < j + 1
    BY <1>1
  <2>2. Newer(q, j + 1, w)
    BY <1>3, <2>1 DEF Newer
  <2>3. w \notin text /\ \A i \in 1..Len(q) : i < j + 1 /\ q[i].kind = "save" => w \notin q[i].text
    BY <1>3, <2>1, <2>2 DEF InTurn
  <2>4. ASSUME NEW i \in 1..Len(p), i < j, p[i].kind = "save" PROVE w \notin p[i].text
    <3>1. i + 1 \in 1..Len(q) /\ p[i] = q[i + 1] /\ i + 1 < j + 1
      BY <1>1, <2>4
    <3> QED BY <2>3, <2>4, <3>1
  <2> QED BY <1>1, <2>1, <2>3, <2>4
<1>4. ASSUME InTurn(q, text, t) PROVE InTurn(p, text, t) /\ (q[1].kind = "save" => InTurn(p, q[1].text, t))
  BY <1>3, <1>4 DEF InTurn
<1> QED BY <1>2, <1>4 DEF p

\* Who keeps the page open and who leaves it, when a request is added or taken.
LEMMA GoingsQueued ==
  ASSUME NEW S, NEW q \in Seq(S), NEW r \in S, NEW u, NEW t
  PROVE  /\ r.by # u \/ r.kind \notin {"editing", "stopedit"} =>
              /\ Keeps(q, u, t) => Keeps(Append(q, r), u, t)
              /\ Leaves(q, u, t) => Leaves(Append(q, r), u, t)
         /\ r.by = u /\ r.kind = "editing" => Keeps(Append(q, r), u, t)
         /\ r.by = u /\ r.kind = "stopedit" => Leaves(Append(q, r), u, t)
<1>1. /\ Said(Append(q, r), "editing", u) <=> Said(q, "editing", u) \/ (r.kind = "editing" /\ r.by = u)
      /\ r.kind = "stopedit" /\ r.by = u => Revoked(Append(q, r), "editing", "stopedit", u)
      /\ Revoked(q, "editing", "stopedit", u) /\ ~(r.kind = "editing" /\ r.by = u) => Revoked(Append(q, r), "editing", "stopedit", u)
  BY SaidQueued
<1>2. /\ Said(Append(q, r), "stopedit", u) <=> Said(q, "stopedit", u) \/ (r.kind = "stopedit" /\ r.by = u)
      /\ r.kind = "editing" /\ r.by = u => Revoked(Append(q, r), "stopedit", "editing", u)
      /\ Revoked(q, "stopedit", "editing", u) /\ ~(r.kind = "stopedit" /\ r.by = u) => Revoked(Append(q, r), "stopedit", "editing", u)
  BY SaidQueued
<1> QED BY <1>1, <1>2 DEF Keeps, Leaves

LEMMA GoingsDequeued ==
  ASSUME NEW S, NEW q \in Seq(S), q # <<>>, NEW u, NEW t
  PROVE  /\ ~(q[1].by = u /\ q[1].kind \in {"editing", "stopedit"}) =>
              (Keeps(q, u, t) => Keeps(Tail(q), u, t)) /\ (Leaves(q, u, t) => Leaves(Tail(q), u, t))
         /\ q[1].by = u /\ q[1].kind = "editing" =>
              (Keeps(q, u, t) => Keeps(Tail(q), u, t \cup {u})) /\ (Leaves(q, u, t) => Leaves(Tail(q), u, t \cup {u}))
         /\ q[1].by = u /\ q[1].kind = "stopedit" =>
              (Keeps(q, u, t) => Keeps(Tail(q), u, t \ {u})) /\ (Leaves(q, u, t) => Leaves(Tail(q), u, t \ {u}))
<1>1. /\ Said(q, "editing", u) <=> Said(Tail(q), "editing", u) \/ (q[1].kind = "editing" /\ q[1].by = u)
      /\ Revoked(q, "editing", "stopedit", u) =>
           Revoked(Tail(q), "editing", "stopedit", u) /\ (q[1].kind = "editing" /\ q[1].by = u => Said(Tail(q), "stopedit", u))
  BY SaidDequeued
<1>2. /\ Said(q, "stopedit", u) <=> Said(Tail(q), "stopedit", u) \/ (q[1].kind = "stopedit" /\ q[1].by = u)
      /\ Revoked(q, "stopedit", "editing", u) =>
           Revoked(Tail(q), "stopedit", "editing", u) /\ (q[1].kind = "stopedit" /\ q[1].by = u => Said(Tail(q), "editing", u))
  BY SaidDequeued
<1> QED BY <1>1, <1>2 DEF Keeps, Leaves

\* Whether a writer is known as an editor changes nothing for others.
LEMMA GoingsOfOthers ==
  ASSUME NEW q, NEW u, NEW t, NEW s, u \in t <=> u \in s
  PROVE  (Keeps(q, u, t) => Keeps(q, u, s)) /\ (Leaves(q, u, t) => Leaves(q, u, s))
  BY DEF Keeps, Leaves

\* Words stay safe in a step that changes no text but those of editors that are left,
\* or that start, whose words are lost or safe.
LEMMA WordsStay ==
  ASSUME EditorTypes, WordsInv, UNCHANGED <<page, there, typed, orphans>>, lost \subseteq lost',
         InTurn(inbox, page, typed) => InTurn(inbox', page, typed), \A w : SavesOf(inbox, w) => SavesOf(inbox', w),
         there => \A w \in typed : LET d == editor[w.by]
                                      e == editor'[w.by]
                                  IN  e.at # "list" /\ w.visit = e.visit /\ w.blind = e.blind =>
                                        d.at # "list" /\ w.visit = d.visit /\ w.blind = d.blind /\ d.text \subseteq e.text,
         there => \A w \in typed : editor[w.by].timer /\ w \in editor[w.by].text =>
                                     (editor'[w.by].timer /\ w \in editor'[w.by].text) \/ Safe(w) \/ w \in lost',
         \A u \in Writers : editor'[u].sent \subseteq editor[u].sent
  PROVE  WordsInv'
<1> SUFFICES ASSUME there PROVE (WholeTexts /\ InTurn(inbox, page, typed) /\ NoneForgotten)'
  BY DEF WordsInv
<1>1. WholeTexts /\ InTurn(inbox, page, typed) /\ NoneForgotten
  BY DEF WordsInv
<1>2. WholeTexts'
  BY <1>1 DEF WholeTexts
<1>3. InTurn(inbox', page', typed')
  BY <1>1
<1>4. \A w : Safe(w) \/ w \in lost' => w \in page' \/ w \in lost' \/ SavesOf(inbox', w) \/ \E o \in orphans' : w \in o.text
  BY DEF Safe
<1>5. ASSUME NEW w \in typed
      PROVE  w \in page' \/ w \in lost' \/ SavesOf(inbox', w) \/ (\E o \in orphans' : w \in o.text) \/ (editor'[w.by].timer /\ w \in editor'[w.by].text)
  BY <1>1, <1>4 DEF NoneForgotten
<1>6. ASSUME NEW u \in Writers, NEW w \in editor'[u].sent
      PROVE  w \in page' \/ w \in lost' \/ SavesOf(inbox', w) \/ \E o \in orphans' : w \in o.text
  BY <1>1, <1>4, <1>6 DEF NoneForgotten
<1>7. NoneForgotten'
  BY <1>5, <1>6 DEF NoneForgotten, Safe
<1> QED BY <1>2, <1>3, <1>7

\* Which requests a queue has when one is added, and when one is taken.
LEMMA LoadsQueued ==
  ASSUME NEW S, NEW q \in Seq(S), NEW r \in S
  PROVE  /\ \A i \in 1..Len(Append(q, r)) : Append(q, r)[i] = r \/ \E k \in 1..Len(q) : Append(q, r)[i] = q[k]
         /\ OneLoad(q) /\ (r.kind = "load" => \A i \in 1..Len(q) : q[i].kind = "load" /\ q[i].by = r.by => q[i].visit # r.visit)
              => OneLoad(Append(q, r))
<1> DEFINE p == Append(q, r)
<1>1. Len(p) = Len(q) + 1 /\ p[Len(q) + 1] = r /\ (\A i \in 1..Len(q) : p[i] = q[i]) /\ Len(q) \in Nat
  BY Queued
<1> HIDE DEF p
<1>2. ASSUME OneLoad(q), r.kind = "load" => \A i \in 1..Len(q) : q[i].kind = "load" /\ q[i].by = r.by => q[i].visit # r.visit
      PROVE  OneLoad(p)
  <2> SUFFICES ASSUME NEW i \in 1..Len(p), NEW j \in 1..Len(p), p[i].kind = "load", p[j].kind = "load", p[i].by = p[j].by,
                      p[i].visit = p[j].visit
               PROVE  i = j
    BY DEF OneLoad
  <2>1. CASE i \in 1..Len(q) /\ j \in 1..Len(q)
    BY <1>1, <1>2, <2>1 DEF OneLoad
  <2>2. CASE i = Len(q) + 1 \/ j = Len(q) + 1
    BY <1>1, <1>2, <2>2
  <2> QED BY <1>1, <2>1, <2>2
<1> QED BY <1>1, <1>2 DEF p

LEMMA LoadsDequeued ==
  ASSUME NEW S, NEW q \in Seq(S), q # <<>>
  PROVE  /\ \A i \in 1..Len(Tail(q)) : \E k \in 1..Len(q) : Tail(q)[i] = q[k]
         /\ OneLoad(q) => /\ OneLoad(Tail(q))
                          /\ q[1].kind = "load" => \A i \in 1..Len(Tail(q)) :
                               Tail(q)[i].kind = "load" /\ Tail(q)[i].by = q[1].by => Tail(q)[i].visit # q[1].visit
<1> DEFINE p == Tail(q)
<1>1. /\ Len(p) = Len(q) - 1 /\ 1 \in 1..Len(q) /\ Len(q) \in Nat
      /\ \A i \in 1..Len(p) : p[i] = q[i + 1] /\ i + 1 \in 1..Len(q)
  BY Dequeued
<1> HIDE DEF p
<1>2. ASSUME OneLoad(q), NEW i \in 1..Len(p), NEW j \in 1..Len(p), p[i].kind = "load", p[j].kind = "load", p[i].by = p[j].by,
             p[i].visit = p[j].visit
      PROVE  i = j
  <2>1. i + 1 = j + 1
    BY <1>1, <1>2 DEF OneLoad
  <2> QED BY <2>1
<1>3. ASSUME OneLoad(q), q[1].kind = "load", NEW i \in 1..Len(p), p[i].kind = "load", p[i].by = q[1].by, p[i].visit = q[1].visit
      PROVE  FALSE
  <2>1. i + 1 = 1
    BY <1>1, <1>3 DEF OneLoad
  <2> QED BY <2>1
<1>4. OneLoad(q) => OneLoad(p)
  BY <1>2 DEF OneLoad
<1> QED BY <1>1, <1>3, <1>4 DEF p

\* One editor changes.
LEMMA EditorSet ==
  ASSUME EditorTypes, NEW u \in Writers, NEW e \in EditorWith(typed), editor' = [editor EXCEPT ![u] = e]
  PROVE  /\ editor' \in [Writers -> EditorWith(typed)] /\ editor'[u] = e
         /\ \A v \in Writers : v # u => editor'[v] = editor[v]
  BY DEF EditorTypes

\* No list is published, and who shows the page shows the list it had, or registers.
LEMMA InformedStays ==
  ASSUME Informed, UNCHANGED <<notes, tracker>>, misheard \subseteq misheard',
         \A v \in Writers : v \notin misheard' /\ editor'[v].at = "ready" =>
            \/ Said(inbox', "editing", v)
            \/ /\ editor[v].at = "ready" /\ editor'[v].others = editor[v].others
               /\ Said(inbox, "editing", v) => Said(inbox', "editing", v)
  PROVE  Informed'
  BY DEF Informed, Like

\* A sequence over a set is one over a larger set.
LEMMA Wider ==
  ASSUME NEW S, NEW t, NEW q \in Seq(S), S \subseteq t
  PROVE  q \in Seq(t)
  OBVIOUS

\* What the invariant says of the queue and of the editors.
LEMMA PageFacts ==
  ASSUME EditorInv
  PROVE  /\ EditorTypes /\ Dated /\ WordsInv /\ Registers /\ Informed /\ inbox \in Seq(RequestWith(typed)) /\ OneLoad(inbox)
         /\ \A u \in Writers : editor[u] \in EditorWith(typed)
         /\ \A i \in 1..Len(inbox) : inbox[i] \in RequestWith(typed) /\ DatedIn(inbox[i], editor[inbox[i].by])
<1>1. EditorTypes /\ Dated /\ WordsInv /\ Registers /\ Informed /\ inbox \in Seq(RequestWith(typed)) /\ OneLoad(inbox)
  BY DEF EditorInv, EditorTypes, Dated
<1>2. \A u \in Writers : editor[u] \in EditorWith(typed)
  BY <1>1 DEF EditorTypes
<1>3. \A i \in 1..Len(inbox) : inbox[i] \in RequestWith(typed) /\ DatedIn(inbox[i], editor[inbox[i].by])
  BY <1>1 DEF Dated
<1> QED BY <1>1, <1>2, <1>3

\* Dates stay right when an editor stays in its visit.
LEMMA DatedStays ==
  ASSUME EditorInv, NEW u \in Writers, NEW e \in EditorWith(typed), editor' = [editor EXCEPT ![u] = e], UNCHANGED typed,
         e.visit = editor[u].visit, e.blind => editor[u].blind \/ e.at = "list", e.at = "list" => ~e.timer, e.at = "loading" => e.blind,
         \/ e.at \in {editor[u].at, "list"}
         \/ /\ editor[u].at = "loading" /\ e.at = "ready"
            /\ \A i \in 1..Len(inbox') : inbox'[i].kind = "load" /\ inbox'[i].by = u => inbox'[i].visit # e.visit,
         OneLoad(inbox'),
         \A i \in 1..Len(inbox') : DatedIn(inbox'[i], editor'[inbox'[i].by]) \/ \E k \in 1..Len(inbox) : inbox'[i] = inbox[k],
         \A o \in orphans' : o \in orphans \/ (o.by = u /\ o.visit = e.visit /\ e.at = "list")
  PROVE  Dated'
<1>0. /\ EditorTypes /\ Dated /\ inbox \in Seq(RequestWith(typed)) /\ \A v \in Writers : editor[v] \in EditorWith(typed)
      /\ \A i \in 1..Len(inbox) : inbox[i] \in RequestWith(typed) /\ DatedIn(inbox[i], editor[inbox[i].by])
  BY PageFacts
<1>1. /\ editor' \in [Writers -> EditorWith(typed)] /\ editor'[u] = e /\ \A v \in Writers : v # u => editor'[v] = editor[v]
  BY <1>0, EditorSet
<1>2. ASSUME NEW i \in 1..Len(inbox') PROVE DatedIn(inbox'[i], editor'[inbox'[i].by])
  <2>1. ASSUME NEW k \in 1..Len(inbox), inbox'[i] = inbox[k] PROVE DatedIn(inbox'[i], editor'[inbox'[i].by])
    <3>1. inbox[k].by \in Writers /\ DatedIn(inbox[k], editor[inbox[k].by])
      BY <1>0 DEF RequestWith
    <3>2. CASE inbox[k].by = u
      BY <1>1, <2>1, <3>1, <3>2 DEF DatedIn
    <3> QED BY <1>1, <2>1, <3>1, <3>2
  <2> QED BY <2>1
<1>3. ASSUME NEW w \in typed' PROVE w.visit <= editor'[w.by].visit
          /\ (w.visit = editor'[w.by].visit /\ editor'[w.by].at # "list" /\ editor'[w.by].blind => w.blind)
  <2>1. /\ w.by \in Writers /\ w.visit <= editor[w.by].visit
        /\ (w.visit = editor[w.by].visit /\ editor[w.by].at # "list" /\ editor[w.by].blind => w.blind)
    BY <1>0, <1>3 DEF EditorTypes, Dated
  <2>2. CASE w.by = u
    BY <1>1, <2>1, <2>2
  <2> QED BY <1>1, <2>1, <2>2
<1>4. ASSUME NEW o \in orphans' PROVE o.visit <= editor'[o.by].visit /\ (o.visit = editor'[o.by].visit => editor'[o.by].at = "list")
  <2>1. CASE o.by = u /\ o.visit = e.visit /\ e.at = "list"
    BY <1>0, <1>1, <2>1 DEF EditorWith
  <2>2. CASE o \in orphans
    <3>1. /\ o.by \in Writers /\ o.visit <= editor[o.by].visit /\ (o.visit = editor[o.by].visit => editor[o.by].at = "list")
      BY <1>0, <2>2 DEF EditorTypes, Dated, RequestWith
    <3>2. CASE o.by = u
      BY <1>1, <3>1, <3>2
    <3> QED BY <1>1, <3>1, <3>2
  <2> QED BY <2>1, <2>2
<1>5. \A v \in Writers : (editor'[v].at = "loading" => editor'[v].blind) /\ (editor'[v].at = "list" => ~editor'[v].timer)
  BY <1>0, <1>1 DEF Dated
<1> QED BY <1>2, <1>3, <1>4, <1>5 DEF Dated

\* Each action of the editors, of the service and of the answers keeps the invariant.
LEMMA VisitKeeps ==
  ASSUME EditorInv, NEW u \in Writers, Visit(u)
  PROVE  EditorInv'
<1> DEFINE e == [Away EXCEPT !.at = "loading", !.visit = editor[u].visit + 1]
           r == [kind |-> "load", by |-> u, visit |-> editor[u].visit + 1, text |-> {}, blind |-> TRUE]
<1>0. /\ EditorTypes /\ Dated /\ WordsInv /\ Registers /\ Informed /\ inbox \in Seq(RequestWith(typed)) /\ OneLoad(inbox)
      /\ \A v \in Writers : editor[v] \in EditorWith(typed)
      /\ \A i \in 1..Len(inbox) : inbox[i] \in RequestWith(typed) /\ DatedIn(inbox[i], editor[inbox[i].by])
  BY PageFacts
<1>1. /\ editor[u].at = "list" /\ editor' = [editor EXCEPT ![u] = e] /\ inbox' = Append(inbox, r)
      /\ UNCHANGED <<page, there, tracker, notes, typed, orphans, lost, misheard>>
  <2>1. editor[u].at \in {"list", "loading", "ready"}
    BY <1>0 DEF EditorWith
  <2> HIDE DEF r
  <2>2. editor[u].at = "list" /\ editor' = [editor EXCEPT ![u] = e]
        /\ UNCHANGED <<page, there, tracker, notes, typed, orphans, lost, misheard>>
    BY <2>1 DEF Visit, Shows
  <2> USE DEF r
  <2>3. inbox' = Append(inbox, r)
    BY DEF Visit
  <2> QED BY <2>2, <2>3
<1>2. e \in EditorWith(typed) /\ r \in RequestWith(typed)
  <2>1. editor[u].visit + 1 \in Nat
    BY <1>0 DEF EditorWith
  <2>2. Away \in EditorWith(typed)
    BY DEF Away, EditorWith
  <2>3. e \in EditorWith(typed)
    BY <2>1, <2>2 DEF EditorWith
  <2> QED BY <2>1, <2>3 DEF RequestWith, Kinds
<1>3. /\ e.at = "loading" /\ e.visit = editor[u].visit + 1 /\ e.text = {} /\ e.sent = {} /\ ~e.timer /\ e.blind = TRUE /\ e.others = {}
      /\ r.kind = "load" /\ r.by = u /\ r.visit = e.visit /\ editor[u].visit \in Nat
  BY <1>0 DEF EditorWith, Away
<1> HIDE DEF e, r
<1>4. /\ editor' \in [Writers -> EditorWith(typed)] /\ editor'[u] = e /\ \A v \in Writers : v # u => editor'[v] = editor[v]
  BY <1>0, <1>1, <1>2, EditorSet
<1>5. /\ inbox' \in Seq(RequestWith(typed)) /\ Len(inbox') = Len(inbox) + 1 /\ inbox'[Len(inbox) + 1] = r
      /\ \A i \in 1..Len(inbox) : inbox'[i] = inbox[i]
  BY <1>0, <1>1, <1>2, Queued
<1>6. EditorTypes'
  BY <1>0, <1>1, <1>3, <1>4, <1>5 DEF EditorTypes
<1>7. \A i \in 1..Len(inbox) : inbox[i].by = u => inbox[i].visit < e.visit
  BY <1>0, <1>3 DEF DatedIn, RequestWith
<1>8. OneLoad(inbox') /\ \A i \in 1..Len(inbox') : inbox'[i] = r \/ \E k \in 1..Len(inbox) : inbox'[i] = inbox[k]
  BY <1>0, <1>1, <1>2, <1>3, <1>7, LoadsQueued
<1>9. ASSUME NEW i \in 1..Len(inbox') PROVE DatedIn(inbox'[i], editor'[inbox'[i].by])
  <2>1. CASE inbox'[i] = r
    BY <1>3, <1>4, <2>1 DEF DatedIn
  <2>2. ASSUME NEW k \in 1..Len(inbox), inbox'[i] = inbox[k] PROVE DatedIn(inbox'[i], editor'[inbox'[i].by])
    <3>1. inbox[k].by \in Writers /\ inbox[k].visit \in Nat /\ DatedIn(inbox[k], editor[inbox[k].by])
      BY <1>0 DEF RequestWith
    <3>2. CASE inbox[k].by = u
      BY <1>3, <1>4, <1>7, <2>2, <3>1, <3>2 DEF DatedIn
    <3> QED BY <1>4, <2>2, <3>1, <3>2
  <2> QED BY <1>8, <2>1, <2>2
<1>10. Dated'
  <2>1. ASSUME NEW w \in typed' PROVE w.visit <= editor'[w.by].visit
            /\ (w.visit = editor'[w.by].visit /\ editor'[w.by].at # "list" /\ editor'[w.by].blind => w.blind)
    <3>1. w.by \in Writers /\ w.visit \in Nat /\ w.visit <= editor[w.by].visit
      BY <1>0, <1>1, <2>1 DEF EditorTypes, Dated
    <3>2. CASE w.by = u
      BY <1>3, <1>4, <3>1, <3>2
    <3> QED BY <1>0, <1>1, <1>4, <3>1, <3>2 DEF Dated
  <2>2. ASSUME NEW o \in orphans' PROVE o.visit <= editor'[o.by].visit /\ (o.visit = editor'[o.by].visit => editor'[o.by].at = "list")
    <3>1. o.by \in Writers /\ o.visit \in Nat /\ o.visit <= editor[o.by].visit
      BY <1>0, <1>1, <2>2 DEF EditorTypes, Dated, RequestWith
    <3>2. CASE o.by = u
      BY <1>3, <1>4, <3>1, <3>2
    <3> QED BY <1>0, <1>1, <1>4, <3>1, <3>2 DEF Dated
  <2>3. \A v \in Writers : (editor'[v].at = "loading" => editor'[v].blind) /\ (editor'[v].at = "list" => ~editor'[v].timer)
    BY <1>0, <1>3, <1>4 DEF Dated
  <2> QED BY <1>8, <1>9, <2>1, <2>2, <2>3 DEF Dated
<1>11. WordsInv'
  <2>1. (InTurn(inbox, page, typed) => InTurn(inbox', page, typed)) /\ \A w : SavesOf(inbox, w) => SavesOf(inbox', w)
    BY <1>0, <1>1, <1>2, <1>3, SavesQueued
  <2>2. ASSUME NEW w \in typed, editor'[w.by].at # "list", w.visit = editor'[w.by].visit PROVE editor'[w.by] = editor[w.by]
    BY <1>0, <1>3, <1>4, <2>2 DEF EditorTypes, Dated
  <2>3. ASSUME NEW w \in typed, editor[w.by].timer PROVE editor'[w.by] = editor[w.by]
    BY <1>0, <1>1, <1>4, <2>3 DEF EditorTypes, Dated
  <2>4. \A v \in Writers : editor'[v].sent \subseteq editor[v].sent
    BY <1>3, <1>4
  <2> QED BY <1>0, <1>1, <2>1, <2>2, <2>3, <2>4, WordsStay
<1>12. Registers'
  <2> SUFFICES ASSUME NEW v \in Writers, v \notin misheard
               PROVE  /\ editor'[v].at = "ready" => Keeps(inbox', v, tracker)
                      /\ editor'[v].at # "ready" => Leaves(inbox', v, tracker)
                      /\ \A i \in 1..Len(inbox') : inbox'[i].kind = "load" /\ inbox'[i].by = v =>
                           editor'[v].at = "loading" /\ inbox'[i].visit = editor'[v].visit
    BY <1>1 DEF Registers
  <2>1. (Keeps(inbox, v, tracker) => Keeps(inbox', v, tracker)) /\ (Leaves(inbox, v, tracker) => Leaves(inbox', v, tracker))
    BY <1>0, <1>1, <1>2, <1>3, GoingsQueued
  <2>2. CASE v = u
    <3>1. \A i \in 1..Len(inbox) : ~(inbox[i].kind = "load" /\ inbox[i].by = u)
      BY <1>0, <1>1, <2>2 DEF Registers
    <3> QED BY <1>0, <1>1, <1>3, <1>4, <1>8, <2>1, <2>2, <3>1 DEF Registers
  <2>3. CASE v # u
    BY <1>0, <1>3, <1>4, <1>8, <2>1, <2>3 DEF Registers
  <2> QED BY <2>2, <2>3
<1>13. Informed'
  <2>1. \A v \in Writers : Said(inbox, "editing", v) => Said(inbox', "editing", v)
    BY <1>5, <1>0 DEF Said
  <2> QED BY <1>0, <1>1, <1>3, <1>4, <2>1, InformedStays
<1> QED BY <1>6, <1>10, <1>11, <1>12, <1>13 DEF EditorInv

LEMMA TypeKeeps ==
  ASSUME EditorInv, NEW u \in Writers, Type(u)
  PROVE  EditorInv'
<1> DEFINE n == NewWord(u)
           e == [editor[u] EXCEPT !.text = @ \cup {n}, !.timer = TRUE]
<1>0. /\ EditorTypes /\ Dated /\ WordsInv /\ Registers /\ Informed /\ inbox \in Seq(RequestWith(typed)) /\ OneLoad(inbox)
      /\ \A v \in Writers : editor[v] \in EditorWith(typed)
      /\ \A i \in 1..Len(inbox) : inbox[i] \in RequestWith(typed) /\ DatedIn(inbox[i], editor[inbox[i].by])
  BY PageFacts
<1>1. /\ editor[u].at # "list" /\ editor' = [editor EXCEPT ![u] = e] /\ typed' = typed \cup {n}
      /\ UNCHANGED <<page, there, tracker, inbox, notes, orphans, lost, misheard>>
  BY <1>0 DEF Type, Shows, EditorTypes
<1>2. n.by = u /\ n.visit = editor[u].visit /\ n.blind = editor[u].blind /\ Hand(n) = <<u, editor[u].visit, editor[u].blind>>
  BY DEF NewWord, Hand
<1>3. editor[u].text \cup {n} \subseteq typed'
  BY <1>0, <1>1 DEF EditorWith
<1>4. /\ e \in EditorWith(typed') /\ e.at = editor[u].at /\ e.visit = editor[u].visit /\ e.text = editor[u].text \cup {n}
      /\ e.sent = editor[u].sent /\ e.timer = TRUE /\ e.blind = editor[u].blind /\ e.others = editor[u].others
  <2>1. editor[u] \in EditorWith(typed')
    BY <1>0, <1>1 DEF EditorWith
  <2> HIDE DEF n
  <2> QED BY <1>3, <2>1 DEF EditorWith
<1> HIDE DEF e, n
<1>5. /\ editor' \in [Writers -> EditorWith(typed')] /\ editor'[u] = e /\ \A v \in Writers : v # u => editor'[v] = editor[v]
  <2>1. EditorWith(typed) \subseteq EditorWith(typed')
    BY <1>1 DEF EditorWith
  <2>2. editor \in [Writers -> EditorWith(typed')]
    BY <1>0, <2>1 DEF EditorTypes
  <2> QED BY <1>1, <1>4, <2>2
<1>6. /\ \A v \in Writers : /\ editor'[v].at = editor[v].at /\ editor'[v].visit = editor[v].visit /\ editor'[v].blind = editor[v].blind
                            /\ editor[v].text \subseteq editor'[v].text /\ editor'[v].sent = editor[v].sent
                            /\ editor'[v].others = editor[v].others /\ (editor[v].timer => editor'[v].timer)
      /\ n \in editor'[u].text /\ editor'[u].timer
  BY <1>4, <1>5
<1>7. /\ inbox' \in Seq(RequestWith(typed')) /\ orphans' \subseteq RequestWith(typed') /\ RequestWith(typed) \subseteq RequestWith(typed')
  <2>1. RequestWith(typed) \subseteq RequestWith(typed')
    BY <1>1 DEF RequestWith
  <2>2. \A o \in orphans : o \in RequestWith(typed) /\ o.kind = "save"
    BY <1>0 DEF EditorTypes
  <2>3. inbox \in Seq(RequestWith(typed'))
    BY <1>0, <2>1, Wider
  <2> QED BY <1>1, <2>1, <2>2, <2>3
<1>8. EditorTypes'
  <2>1. n.visit \in Nat /\ n.blind \in BOOLEAN
    BY <1>0, <1>2 DEF EditorWith
  <2>2. \A w \in typed' : w.by \in Writers /\ w.visit \in Nat /\ w.blind \in BOOLEAN
    BY <1>0, <1>1, <1>2, <2>1 DEF EditorTypes
  <2>3. \A v \in Writers : v \notin editor'[v].others
    BY <1>0, <1>6 DEF EditorTypes
  <2> QED BY <1>0, <1>1, <1>5, <1>7, <2>2, <2>3 DEF EditorTypes
<1>9. Dated'
  <2>1. ASSUME NEW i \in 1..Len(inbox) PROVE DatedIn(inbox[i], editor'[inbox[i].by])
    <3>1. inbox[i].by \in Writers /\ DatedIn(inbox[i], editor[inbox[i].by])
      BY <1>0 DEF RequestWith
    <3> QED BY <1>6, <3>1 DEF DatedIn
  <2>2. ASSUME NEW w \in typed' PROVE w.visit <= editor'[w.by].visit
            /\ (w.visit = editor'[w.by].visit /\ editor'[w.by].at # "list" /\ editor'[w.by].blind => w.blind)
    <3>1. CASE w = n
      BY <1>0, <1>2, <1>6, <3>1 DEF EditorWith
    <3>2. CASE w \in typed
      <4>1. /\ w.by \in Writers /\ w.visit <= editor[w.by].visit
            /\ (w.visit = editor[w.by].visit /\ editor[w.by].at # "list" /\ editor[w.by].blind => w.blind)
        BY <1>0, <3>2 DEF EditorTypes, Dated
      <4> QED BY <1>6, <4>1
    <3> QED BY <1>1, <3>1, <3>2
  <2>3. ASSUME NEW o \in orphans PROVE o.visit <= editor'[o.by].visit /\ (o.visit = editor'[o.by].visit => editor'[o.by].at = "list")
    <3>1. o.by \in Writers /\ o.visit <= editor[o.by].visit /\ (o.visit = editor[o.by].visit => editor[o.by].at = "list")
      BY <1>0, <2>3 DEF EditorTypes, Dated, RequestWith
    <3> QED BY <1>6, <3>1
  <2>4. \A v \in Writers : (editor'[v].at = "loading" => editor'[v].blind) /\ (editor'[v].at = "list" => ~editor'[v].timer)
    BY <1>0, <1>1, <1>5, <1>6 DEF Dated
  <2> QED BY <1>0, <1>1, <2>1, <2>2, <2>3, <2>4 DEF Dated
<1>10. WordsInv'
  <2> SUFFICES ASSUME there, n \notin typed PROVE WholeTexts' /\ InTurn(inbox', page', typed') /\ NoneForgotten'
    <3>1. ASSUME n \in typed, there, WholeTexts, InTurn(inbox, page, typed), NoneForgotten
          PROVE  WholeTexts' /\ InTurn(inbox', page', typed') /\ NoneForgotten'
      <4>1. typed' = typed
        BY <1>1, <3>1
      <4>2. ASSUME NEW w \in typed, editor'[w.by].at # "list", w.visit = editor'[w.by].visit, w.blind = editor'[w.by].blind
            PROVE  w \in editor'[w.by].text
        <5>1. w.by \in Writers
          BY <1>0 DEF EditorTypes
        <5>2. editor[w.by].at # "list" /\ w.visit = editor[w.by].visit /\ w.blind = editor[w.by].blind
          BY <1>6, <4>2, <5>1
        <5>3. w \in editor[w.by].text
          BY <3>1, <5>2 DEF WholeTexts
        <5> QED BY <1>6, <5>1, <5>3
      <4>4. WholeTexts'
        BY <1>1, <3>1, <4>1, <4>2 DEF WholeTexts
      <4>3. NoneForgotten'
        BY <1>0, <1>1, <1>6, <3>1, <4>1 DEF NoneForgotten, Safe, EditorTypes
      <4> QED BY <1>1, <3>1, <4>1, <4>3, <4>4
    <3> QED BY <1>0, <1>1, <3>1 DEF WordsInv
  <2>1. WholeTexts /\ InTurn(inbox, page, typed) /\ NoneForgotten
    BY <1>0 DEF WordsInv
  <2>2. WholeTexts'
    <3>1. ASSUME NEW w \in typed', editor'[w.by].at # "list", w.visit = editor'[w.by].visit, w.blind = editor'[w.by].blind
          PROVE  w \in editor'[w.by].text
      <4>1. CASE w = n
        BY <1>2, <1>6, <4>1
      <4>2. CASE w \in typed
        <5>1. w.by \in Writers
          BY <1>0, <4>2 DEF EditorTypes
        <5>2. editor[w.by].at # "list" /\ w.visit = editor[w.by].visit /\ w.blind = editor[w.by].blind
          BY <1>6, <3>1, <5>1
        <5>3. w \in editor[w.by].text
          BY <2>1, <4>2, <5>2 DEF WholeTexts
        <5> QED BY <1>6, <5>1, <5>3
      <4> QED BY <1>1, <4>1, <4>2
    <3>2. ASSUME NEW o \in orphans, NEW w \in typed', Hand(w) = Hand(o) PROVE w \in o.text
      <4>1. CASE w = n
        <5>1. o.by = u /\ o.visit = editor[u].visit
          BY <1>2, <3>2, <4>1 DEF Hand
        <5> QED BY <1>0, <1>1, <5>1 DEF Dated
      <4>2. CASE w \in typed
        BY <2>1, <3>2, <4>2 DEF WholeTexts
      <4> QED BY <1>1, <4>1, <4>2
    <3> QED BY <1>1, <3>1, <3>2 DEF WholeTexts
  <2>3. InTurn(inbox, page, typed')
    <3>1. n \notin page /\ \A i \in 1..Len(inbox) : n \notin inbox[i].text
      BY <1>0 DEF EditorTypes, RequestWith
    <3> QED BY <1>1, <2>1, <3>1 DEF InTurn
  <2>4. NoneForgotten'
    <3>1. \A w : Safe(w) => Safe(w)'
      BY <1>1 DEF Safe
    <3>2. ASSUME NEW w \in typed' PROVE Safe(w)' \/ (editor'[w.by].timer /\ w \in editor'[w.by].text)
      <4>1. CASE w = n
        BY <1>2, <1>6, <4>1
      <4>2. CASE w \in typed
        BY <1>0, <1>6, <2>1, <3>1, <4>2 DEF NoneForgotten, EditorTypes
      <4> QED BY <1>1, <4>1, <4>2
    <3> QED BY <1>6, <2>1, <3>1, <3>2 DEF NoneForgotten
  <2> QED BY <1>1, <2>2, <2>3, <2>4
<1>11. Registers'
  BY <1>0, <1>1, <1>6 DEF Registers
<1>12. Informed'
  BY <1>0, <1>1, <1>6, InformedStays
<1> QED BY <1>8, <1>9, <1>10, <1>11, <1>12 DEF EditorInv

LEMMA SaveKeeps ==
  ASSUME EditorInv, NEW u \in Writers, Save(u)
  PROVE  EditorInv'
<1> DEFINE e == [editor[u] EXCEPT !.timer = FALSE, !.saving = TRUE, !.sent = editor[u].text]
           r == [kind |-> "save", by |-> u, visit |-> editor[u].visit, text |-> editor[u].text, blind |-> editor[u].blind]
<1>0. /\ EditorTypes /\ Dated /\ WordsInv /\ Registers /\ Informed /\ inbox \in Seq(RequestWith(typed)) /\ OneLoad(inbox)
      /\ \A v \in Writers : editor[v] \in EditorWith(typed)
      /\ \A i \in 1..Len(inbox) : inbox[i] \in RequestWith(typed) /\ DatedIn(inbox[i], editor[inbox[i].by])
  BY PageFacts
<1>1. /\ editor[u].timer /\ editor' = [editor EXCEPT ![u] = e] /\ inbox' = Append(inbox, r)
      /\ UNCHANGED <<page, there, tracker, notes, typed, orphans, lost, misheard>>
  BY DEF Save, Post
<1>2. e \in EditorWith(typed) /\ r \in RequestWith(typed)
  <2>1. editor[u] \in EditorWith(typed)
    BY <1>0
  <2>2. e \in EditorWith(typed)
    BY <2>1 DEF EditorWith
  <2> QED BY <2>1, <2>2 DEF EditorWith, RequestWith, Kinds
<1>3. /\ e.at = editor[u].at /\ e.visit = editor[u].visit /\ e.text = editor[u].text /\ e.sent = editor[u].text /\ ~e.timer
      /\ e.blind = editor[u].blind /\ e.others = editor[u].others
      /\ r.kind = "save" /\ r.by = u /\ r.visit = editor[u].visit /\ r.text = editor[u].text
      /\ Hand(r) = <<u, editor[u].visit, editor[u].blind>>
  <2>1. editor[u] \in EditorWith(typed)
    BY <1>0
  <2> QED BY <2>1 DEF EditorWith, Hand
<1> HIDE DEF e, r
<1>4. /\ editor' \in [Writers -> EditorWith(typed)] /\ editor'[u] = e /\ \A v \in Writers : v # u => editor'[v] = editor[v]
  BY <1>0, <1>1, <1>2, EditorSet
<1>5. /\ inbox' \in Seq(RequestWith(typed)) /\ Len(inbox') = Len(inbox) + 1 /\ inbox'[Len(inbox) + 1] = r
      /\ \A i \in 1..Len(inbox) : inbox'[i] = inbox[i]
  BY <1>0, <1>1, <1>2, Queued
<1>6. EditorTypes'
  BY <1>0, <1>1, <1>3, <1>4, <1>5 DEF EditorTypes
<1>7. OneLoad(inbox') /\ \A i \in 1..Len(inbox') : inbox'[i] = r \/ \E k \in 1..Len(inbox) : inbox'[i] = inbox[k]
  BY <1>0, <1>1, <1>2, <1>3, LoadsQueued
<1>8. DatedIn(r, editor'[r.by])
  BY <1>0, <1>3, <1>4 DEF DatedIn, EditorWith
<1>9. Dated'
  <2>1. /\ e.visit = editor[u].visit /\ (e.blind => editor[u].blind \/ e.at = "list") /\ (e.at = "list" => ~e.timer)
        /\ (e.at = "loading" => e.blind) /\ e.at \in {editor[u].at, "list"}
    BY <1>0, <1>3, <1>2 DEF Dated, EditorWith
  <2>2. \A i \in 1..Len(inbox') : DatedIn(inbox'[i], editor'[inbox'[i].by]) \/ \E k \in 1..Len(inbox) : inbox'[i] = inbox[k]
    BY <1>7, <1>8
  <2> QED BY <1>1, <1>2, <1>7, <2>1, <2>2, DatedStays
<1>10. WordsInv'
  <2> SUFFICES ASSUME there PROVE WholeTexts' /\ InTurn(inbox', page', typed') /\ NoneForgotten'
    BY <1>1 DEF WordsInv
  <2>1. WholeTexts /\ InTurn(inbox, page, typed) /\ NoneForgotten
    BY <1>0 DEF WordsInv
  <2>2. editor[u].at # "list"
    BY <1>0, <1>1 DEF Dated
  <2>3. \A w \in typed : Hand(w) = Hand(r) => w \in r.text
    BY <1>3, <2>1, <2>2 DEF WholeTexts, Hand
  <2>4. InTurn(inbox', page, typed) /\ \A w : SavesOf(inbox', w) <=> SavesOf(inbox, w) \/ w \in r.text
    BY <1>0, <1>1, <1>2, <1>3, <2>1, <2>3, SavesQueued
  <2>5. WholeTexts'
    <3>1. \A w \in typed : w.by \in Writers
      BY <1>0 DEF EditorTypes
    <3> QED BY <1>1, <1>3, <1>4, <2>1, <3>1 DEF WholeTexts
  <2>6. \A w : Safe(w) => Safe(w)'
    BY <1>1, <2>4 DEF Safe
  <2>7. \A w \in editor[u].text : Safe(w)'
    BY <1>3, <2>4 DEF Safe
  <2>8. ASSUME NEW w \in typed PROVE Safe(w)' \/ (editor'[w.by].timer /\ w \in editor'[w.by].text)
    <3>1. w.by \in Writers
      BY <1>0 DEF EditorTypes
    <3> QED BY <1>4, <2>1, <2>6, <2>7, <3>1 DEF NoneForgotten
  <2>9. ASSUME NEW v \in Writers, NEW w \in editor'[v].sent PROVE Safe(w)'
    BY <1>3, <1>4, <2>1, <2>6, <2>7, <2>9 DEF NoneForgotten
  <2>10. NoneForgotten'
    BY <1>1, <2>8, <2>9 DEF NoneForgotten
  <2> QED BY <1>1, <2>4, <2>5, <2>10
<1>11. Registers'
  <2>1. \A v \in Writers : /\ Keeps(inbox, v, tracker) => Keeps(inbox', v, tracker)
                           /\ Leaves(inbox, v, tracker) => Leaves(inbox', v, tracker)
    BY <1>0, <1>1, <1>2, <1>3, GoingsQueued
  <2>2. \A v \in Writers : editor'[v].at = editor[v].at /\ editor'[v].visit = editor[v].visit
    BY <1>3, <1>4
  <2> QED BY <1>0, <1>1, <1>3, <1>7, <2>1, <2>2 DEF Registers
<1>12. Informed'
  <2>1. \A v \in Writers : Said(inbox, "editing", v) => Said(inbox', "editing", v)
    BY <1>5, <1>0 DEF Said
  <2> QED BY <1>0, <1>1, <1>3, <1>4, <2>1, InformedStays
<1> QED BY <1>6, <1>9, <1>10, <1>11, <1>12 DEF EditorInv

LEMMA GoBackKeeps ==
  ASSUME EditorInv, NEW u \in Writers, GoBack(u)
  PROVE  EditorInv'
<1> DEFINE e == [Away EXCEPT !.visit = editor[u].visit]
           r == [kind |-> "stopedit", by |-> u, visit |-> editor[u].visit, text |-> {}, blind |-> editor[u].blind]
<1>0. /\ EditorTypes /\ Dated /\ WordsInv /\ Registers /\ Informed /\ inbox \in Seq(RequestWith(typed)) /\ OneLoad(inbox)
      /\ \A v \in Writers : editor[v] \in EditorWith(typed)
      /\ \A i \in 1..Len(inbox) : inbox[i] \in RequestWith(typed) /\ DatedIn(inbox[i], editor[inbox[i].by])
  BY PageFacts
<1>1. /\ editor[u].at # "list" /\ editor' = [editor EXCEPT ![u] = e] /\ inbox' = Append(inbox, r)
      /\ lost' = lost \cup (editor[u].text \ editor[u].sent)
      /\ misheard' = IF editor[u].at = "loading" THEN misheard \cup {u} ELSE misheard
      /\ UNCHANGED <<page, there, tracker, notes, typed, orphans>>
  BY DEF GoBack, Post, Shows
<1>2. e \in EditorWith(typed) /\ r \in RequestWith(typed)
  <2>1. editor[u].visit \in Nat /\ editor[u].blind \in BOOLEAN
    BY <1>0 DEF EditorWith
  <2>2. Away \in EditorWith(typed)
    BY DEF Away, EditorWith
  <2>3. e \in EditorWith(typed)
    BY <2>1, <2>2 DEF EditorWith
  <2> QED BY <2>1, <2>3 DEF RequestWith, Kinds
<1>3. /\ e.at = "list" /\ e.visit = editor[u].visit /\ e.sent = {} /\ ~e.timer /\ e.others = {}
      /\ r.kind = "stopedit" /\ r.by = u /\ r.visit = editor[u].visit
  BY <1>0 DEF EditorWith, Away
<1> HIDE DEF e, r
<1>4. /\ editor' \in [Writers -> EditorWith(typed)] /\ editor'[u] = e /\ \A v \in Writers : v # u => editor'[v] = editor[v]
  BY <1>0, <1>1, <1>2, EditorSet
<1>5. /\ inbox' \in Seq(RequestWith(typed)) /\ Len(inbox') = Len(inbox) + 1 /\ inbox'[Len(inbox) + 1] = r
      /\ \A i \in 1..Len(inbox) : inbox'[i] = inbox[i]
  BY <1>0, <1>1, <1>2, Queued
<1>6. EditorTypes'
  BY <1>0, <1>1, <1>3, <1>4, <1>5 DEF EditorTypes
<1>7. OneLoad(inbox') /\ \A i \in 1..Len(inbox') : inbox'[i] = r \/ \E k \in 1..Len(inbox) : inbox'[i] = inbox[k]
  BY <1>0, <1>1, <1>2, <1>3, LoadsQueued
<1>8. DatedIn(r, editor'[r.by])
  BY <1>0, <1>3, <1>4 DEF DatedIn, EditorWith
<1>9. Dated'
  BY <1>0, <1>1, <1>2, <1>3, <1>7, <1>8, DatedStays DEF Dated
<1>10. WordsInv'
  <2>1. (InTurn(inbox, page, typed) => InTurn(inbox', page, typed)) /\ \A w : SavesOf(inbox, w) => SavesOf(inbox', w)
    BY <1>0, <1>1, <1>2, <1>3, SavesQueued
  <2>2. ASSUME NEW w \in typed, editor'[w.by].at # "list" PROVE editor'[w.by] = editor[w.by]
    BY <1>0, <1>3, <1>4, <2>2 DEF EditorTypes
  <2>3. ASSUME there, NEW w \in typed, editor[w.by].timer, w \in editor[w.by].text
        PROVE  (editor'[w.by].timer /\ w \in editor'[w.by].text) \/ Safe(w) \/ w \in lost'
    <3>1. CASE w.by = u
      BY <1>0, <1>1, <2>3, <3>1 DEF WordsInv, NoneForgotten
    <3>2. CASE w.by # u
      BY <1>0, <1>4, <2>3, <3>2 DEF EditorTypes
    <3> QED BY <3>1, <3>2
  <2>4. \A v \in Writers : editor'[v].sent \subseteq editor[v].sent
    BY <1>3, <1>4
  <2> QED BY <1>0, <1>1, <2>1, <2>2, <2>3, <2>4, WordsStay
<1>11. Registers'
  <2> SUFFICES ASSUME NEW v \in Writers, v \notin misheard'
               PROVE  /\ editor'[v].at = "ready" => Keeps(inbox', v, tracker)
                      /\ editor'[v].at # "ready" => Leaves(inbox', v, tracker)
                      /\ \A i \in 1..Len(inbox') : inbox'[i].kind = "load" /\ inbox'[i].by = v =>
                           editor'[v].at = "loading" /\ inbox'[i].visit = editor'[v].visit
    BY <1>1 DEF Registers
  <2>1. CASE v = u
    <3>1. editor[u].at = "ready" /\ u \notin misheard
      BY <1>0, <1>1, <2>1 DEF EditorWith
    <3>2. \A i \in 1..Len(inbox) : ~(inbox[i].kind = "load" /\ inbox[i].by = u)
      BY <1>0, <3>1 DEF Registers
    <3>3. Leaves(inbox', u, tracker)
      BY <1>0, <1>1, <1>2, <1>3, GoingsQueued
    <3> QED BY <1>3, <1>4, <1>7, <2>1, <3>2, <3>3
  <2>2. CASE v # u
    <3>1. (Keeps(inbox, v, tracker) => Keeps(inbox', v, tracker)) /\ (Leaves(inbox, v, tracker) => Leaves(inbox', v, tracker))
      BY <1>0, <1>1, <1>2, <1>3, <2>2, GoingsQueued
    <3> QED BY <1>0, <1>1, <1>3, <1>4, <1>7, <2>2, <3>1 DEF Registers
  <2> QED BY <2>1, <2>2
<1>12. Informed'
  <2>1. \A v \in Writers : Said(inbox, "editing", v) => Said(inbox', "editing", v)
    BY <1>5, <1>0 DEF Said
  <2> QED BY <1>0, <1>1, <1>3, <1>4, <2>1, InformedStays
<1> QED BY <1>6, <1>9, <1>10, <1>11, <1>12 DEF EditorInv

\* The request that is taken, and those behind it.
LEMMA RequestTaken ==
  ASSUME EditorInv, inbox # <<>>
  PROVE  /\ Head(inbox) = inbox[1] /\ inbox[1] \in RequestWith(typed) /\ DatedIn(inbox[1], editor[inbox[1].by])
         /\ Tail(inbox) \in Seq(RequestWith(typed)) /\ OneLoad(Tail(inbox)) /\ 1 \in 1..Len(inbox)
         /\ \A i \in 1..Len(Tail(inbox)) : \E k \in 1..Len(inbox) : Tail(inbox)[i] = inbox[k]
         /\ inbox[1].kind = "load" => \A i \in 1..Len(Tail(inbox)) :
              Tail(inbox)[i].kind = "load" /\ Tail(inbox)[i].by = inbox[1].by => Tail(inbox)[i].visit # inbox[1].visit
<1>1. inbox \in Seq(RequestWith(typed)) /\ OneLoad(inbox) /\ \A i \in 1..Len(inbox) : DatedIn(inbox[i], editor[inbox[i].by])
  BY PageFacts
<1>2. /\ Head(inbox) = inbox[1] /\ inbox[1] \in RequestWith(typed) /\ Tail(inbox) \in Seq(RequestWith(typed)) /\ 1 \in 1..Len(inbox)
  BY <1>1, Dequeued
<1>3. /\ \A i \in 1..Len(Tail(inbox)) : \E k \in 1..Len(inbox) : Tail(inbox)[i] = inbox[k]
      /\ OneLoad(Tail(inbox))
      /\ inbox[1].kind = "load" => \A i \in 1..Len(Tail(inbox)) :
           Tail(inbox)[i].kind = "load" /\ Tail(inbox)[i].by = inbox[1].by => Tail(inbox)[i].visit # inbox[1].visit
  BY <1>1, LoadsDequeued
<1> QED BY <1>1, <1>2, <1>3

\* Dates stay right when no editor changes its place.
LEMMA DatedStands ==
  ASSUME EditorInv, UNCHANGED typed, orphans' \subseteq orphans, OneLoad(inbox'),
         \A v \in Writers : editor'[v].at = editor[v].at /\ editor'[v].visit = editor[v].visit
                            /\ editor'[v].blind = editor[v].blind /\ editor'[v].timer = editor[v].timer,
         \A i \in 1..Len(inbox') : \/ inbox'[i].by \in Writers /\ DatedIn(inbox'[i], editor[inbox'[i].by])
                                   \/ \E k \in 1..Len(inbox) : inbox'[i] = inbox[k]
  PROVE  Dated'
<1>0. /\ EditorTypes /\ Dated /\ \A i \in 1..Len(inbox) : inbox[i] \in RequestWith(typed) /\ DatedIn(inbox[i], editor[inbox[i].by])
  BY PageFacts
<1>1. ASSUME NEW i \in 1..Len(inbox') PROVE DatedIn(inbox'[i], editor'[inbox'[i].by])
  <2>1. inbox'[i].by \in Writers /\ DatedIn(inbox'[i], editor[inbox'[i].by])
    BY <1>0 DEF RequestWith
  <2> QED BY <2>1 DEF DatedIn
<1>2. ASSUME NEW w \in typed' PROVE w.visit <= editor'[w.by].visit
          /\ (w.visit = editor'[w.by].visit /\ editor'[w.by].at # "list" /\ editor'[w.by].blind => w.blind)
  <2>1. w.by \in Writers
    BY <1>0, <1>2 DEF EditorTypes
  <2> QED BY <1>0, <1>2, <2>1 DEF Dated
<1>3. ASSUME NEW o \in orphans' PROVE o.visit <= editor'[o.by].visit /\ (o.visit = editor'[o.by].visit => editor'[o.by].at = "list")
  <2>1. o \in orphans /\ o.by \in Writers
    BY <1>0, <1>3 DEF EditorTypes, RequestWith
  <2> QED BY <1>0, <2>1 DEF Dated
<1>4. \A v \in Writers : (editor'[v].at = "loading" => editor'[v].blind) /\ (editor'[v].at = "list" => ~editor'[v].timer)
  BY <1>0 DEF Dated
<1> QED BY <1>1, <1>2, <1>3, <1>4 DEF Dated

\* Who registers stays right when no editor changes its place.
LEMMA RegistersStands ==
  ASSUME EditorInv, misheard \subseteq misheard', \A v \in Writers : editor'[v].at = editor[v].at /\ editor'[v].visit = editor[v].visit,
         \A i \in 1..Len(inbox') : inbox'[i].kind # "load" \/ \E k \in 1..Len(inbox) : inbox'[i] = inbox[k],
         \A v \in Writers : v \notin misheard' =>
            /\ Keeps(inbox, v, tracker) => Keeps(inbox', v, tracker')
            /\ Leaves(inbox, v, tracker) => Leaves(inbox', v, tracker')
  PROVE  Registers'
<1>1. Registers
  BY PageFacts
<1> QED BY <1>1 DEF Registers

LEMMA HideAppKeeps ==
  ASSUME EditorInv, NEW u \in Writers, HideApp(u)
  PROVE  EditorInv'
<1> DEFINE e == [Away EXCEPT !.visit = editor[u].visit]
           o == [kind |-> "save", by |-> u, visit |-> editor[u].visit, text |-> editor[u].text, blind |-> editor[u].blind]
<1>0. /\ EditorTypes /\ Dated /\ WordsInv /\ Registers /\ Informed /\ inbox \in Seq(RequestWith(typed)) /\ OneLoad(inbox)
      /\ \A v \in Writers : editor[v] \in EditorWith(typed)
  BY PageFacts
<1>1. /\ editor[u].at # "list" /\ editor' = [editor EXCEPT ![u] = e] /\ misheard' = misheard \cup {u}
      /\ orphans \subseteq orphans' /\ orphans' \subseteq orphans \cup {o} /\ (editor[u].timer => o \in orphans')
      /\ UNCHANGED <<page, there, tracker, inbox, notes, typed, lost>>
  BY DEF HideApp, Post
<1>2. e \in EditorWith(typed) /\ o \in RequestWith(typed)
  <2>1. editor[u].visit \in Nat /\ editor[u].blind \in BOOLEAN /\ editor[u].text \subseteq typed
    BY <1>0 DEF EditorWith
  <2>2. Away \in EditorWith(typed)
    BY DEF Away, EditorWith
  <2>3. e \in EditorWith(typed)
    BY <2>1, <2>2 DEF EditorWith
  <2> QED BY <2>1, <2>3 DEF RequestWith, Kinds
<1>3. /\ e.at = "list" /\ e.visit = editor[u].visit /\ e.sent = {} /\ ~e.timer /\ e.others = {}
      /\ o.kind = "save" /\ o.by = u /\ o.visit = editor[u].visit /\ o.text = editor[u].text
      /\ Hand(o) = <<u, editor[u].visit, editor[u].blind>>
  BY <1>0 DEF EditorWith, Away, Hand
<1> HIDE DEF e, o
<1>4. /\ editor' \in [Writers -> EditorWith(typed)] /\ editor'[u] = e /\ \A v \in Writers : v # u => editor'[v] = editor[v]
  BY <1>0, <1>1, <1>2, EditorSet
<1>5. EditorTypes'
  BY <1>0, <1>1, <1>2, <1>3, <1>4 DEF EditorTypes
<1>6. Dated'
  <2>1. \A x \in orphans' : x \in orphans \/ (x.by = u /\ x.visit = e.visit /\ e.at = "list")
    BY <1>1, <1>3
  <2>2. OneLoad(inbox') /\ \A i \in 1..Len(inbox') : \E k \in 1..Len(inbox) : inbox'[i] = inbox[k]
    BY <1>0, <1>1
  <2> QED BY <1>1, <1>2, <1>3, <2>1, <2>2, DatedStays
<1>7. WordsInv'
  <2> SUFFICES ASSUME there PROVE WholeTexts' /\ InTurn(inbox', page', typed') /\ NoneForgotten'
    BY <1>1 DEF WordsInv
  <2>1. WholeTexts /\ InTurn(inbox, page, typed) /\ NoneForgotten
    BY <1>0 DEF WordsInv
  <2>2. \A w \in typed : w.by \in Writers
    BY <1>0 DEF EditorTypes
  <2>3. \A w \in typed : Hand(w) = Hand(o) => w \in o.text
    BY <1>1, <1>3, <2>1 DEF WholeTexts, Hand
  <2>4. WholeTexts'
    BY <1>1, <1>3, <1>4, <2>1, <2>2, <2>3 DEF WholeTexts
  <2>5. \A w : Safe(w) => Safe(w)'
    BY <1>1 DEF Safe
  <2>6. ASSUME NEW w \in typed PROVE Safe(w)' \/ (editor'[w.by].timer /\ w \in editor'[w.by].text)
    <3>1. CASE Safe(w)
      BY <2>5, <3>1
    <3>2. CASE editor[w.by].timer /\ w \in editor[w.by].text /\ w.by = u
      BY <1>1, <1>3, <3>2 DEF Safe
    <3>3. CASE editor[w.by].timer /\ w \in editor[w.by].text /\ w.by # u
      BY <1>4, <2>2, <3>3
    <3> QED BY <2>1, <3>1, <3>2, <3>3 DEF NoneForgotten
  <2>7. ASSUME NEW v \in Writers, NEW w \in editor'[v].sent PROVE Safe(w)'
    BY <1>3, <1>4, <2>1, <2>5, <2>7 DEF NoneForgotten
  <2>8. NoneForgotten'
    BY <1>1, <2>6, <2>7 DEF NoneForgotten
  <2> QED BY <1>1, <2>1, <2>4, <2>8
<1>8. Registers'
  BY <1>0, <1>1, <1>4 DEF Registers
<1>9. Informed'
  BY <1>0, <1>1, <1>3, <1>4, InformedStays
<1> QED BY <1>5, <1>6, <1>7, <1>8, <1>9 DEF EditorInv

LEMMA OrphanSaveKeeps ==
  ASSUME EditorInv, NEW o \in orphans, OrphanSave(o)
  PROVE  EditorInv'
<1>0. /\ EditorTypes /\ Dated /\ WordsInv /\ Registers /\ Informed /\ inbox \in Seq(RequestWith(typed)) /\ OneLoad(inbox)
  BY PageFacts
<1>1. /\ orphans' = orphans \ {o} /\ inbox' = Append(inbox, o)
      /\ UNCHANGED <<page, there, tracker, notes, editor, typed, lost, misheard>>
  BY DEF OrphanSave
<1>2. o \in RequestWith(typed) /\ o.kind = "save" /\ o.by \in Writers /\ DatedIn(o, editor[o.by])
  BY <1>0 DEF EditorTypes, Dated, DatedIn, RequestWith
<1>3. /\ inbox' \in Seq(RequestWith(typed)) /\ Len(inbox') = Len(inbox) + 1 /\ inbox'[Len(inbox) + 1] = o
      /\ \A i \in 1..Len(inbox) : inbox'[i] = inbox[i]
  BY <1>0, <1>1, <1>2, Queued
<1>4. OneLoad(inbox') /\ \A i \in 1..Len(inbox') : inbox'[i] = o \/ \E k \in 1..Len(inbox) : inbox'[i] = inbox[k]
  BY <1>0, <1>1, <1>2, LoadsQueued
<1>5. EditorTypes'
  BY <1>0, <1>1, <1>3 DEF EditorTypes
<1>6. Dated'
  BY <1>1, <1>2, <1>4, DatedStands
<1>7. WordsInv'
  <2> SUFFICES ASSUME there PROVE WholeTexts' /\ InTurn(inbox', page', typed') /\ NoneForgotten'
    BY <1>1 DEF WordsInv
  <2>1. WholeTexts /\ InTurn(inbox, page, typed) /\ NoneForgotten
    BY <1>0 DEF WordsInv
  <2>2. WholeTexts'
    BY <1>1, <2>1 DEF WholeTexts
  <2>3. \A w \in typed : Hand(w) = Hand(o) => w \in o.text
    BY <2>1 DEF WholeTexts
  <2>4. InTurn(inbox', page, typed) /\ \A w : SavesOf(inbox', w) <=> SavesOf(inbox, w) \/ w \in o.text
    BY <1>0, <1>1, <1>2, <2>1, <2>3, SavesQueued
  <2>5. \A w : Safe(w) => Safe(w)'
    BY <1>1, <2>4 DEF Safe
  <2>6. NoneForgotten'
    BY <1>1, <2>1, <2>5 DEF NoneForgotten
  <2> QED BY <1>1, <2>2, <2>4, <2>6
<1>8. Registers'
  <2>1. \A v \in Writers : /\ Keeps(inbox, v, tracker) => Keeps(inbox', v, tracker)
                           /\ Leaves(inbox, v, tracker) => Leaves(inbox', v, tracker)
    BY <1>0, <1>1, <1>2, GoingsQueued
  <2> QED BY <1>1, <1>2, <1>4, <2>1, RegistersStands
<1>9. Informed'
  <2>1. \A v \in Writers : Said(inbox, "editing", v) => Said(inbox', "editing", v)
    BY <1>3, <1>0 DEF Said
  <2> QED BY <1>0, <1>1, <2>1, InformedStays
<1> QED BY <1>5, <1>6, <1>7, <1>8, <1>9 DEF EditorInv

LEMMA RemovePageKeeps ==
  ASSUME EditorInv, NEW u \in Writers, RemovePage(u)
  PROVE  EditorInv'
<1> DEFINE r == [kind |-> "delete", by |-> u, visit |-> editor[u].visit, text |-> {}, blind |-> editor[u].blind]
<1>0. /\ EditorTypes /\ Dated /\ WordsInv /\ Registers /\ Informed /\ inbox \in Seq(RequestWith(typed)) /\ OneLoad(inbox)
      /\ \A v \in Writers : editor[v] \in EditorWith(typed)
  BY PageFacts
<1>1. /\ editor[u].at = "ready" /\ inbox' = Append(inbox, r)
      /\ UNCHANGED <<page, there, tracker, notes, editor, typed, orphans, lost, misheard>>
  BY DEF RemovePage, Post
<1>2. r \in RequestWith(typed) /\ r.kind = "delete" /\ r.by = u /\ r.visit = editor[u].visit /\ DatedIn(r, editor[u])
  <2>1. editor[u].visit \in Nat /\ editor[u].blind \in BOOLEAN
    BY <1>0 DEF EditorWith
  <2> QED BY <1>1, <2>1 DEF RequestWith, Kinds, DatedIn
<1> HIDE DEF r
<1>3. /\ inbox' \in Seq(RequestWith(typed)) /\ Len(inbox') = Len(inbox) + 1 /\ inbox'[Len(inbox) + 1] = r
      /\ \A i \in 1..Len(inbox) : inbox'[i] = inbox[i]
  BY <1>0, <1>1, <1>2, Queued
<1>4. OneLoad(inbox') /\ \A i \in 1..Len(inbox') : inbox'[i] = r \/ \E k \in 1..Len(inbox) : inbox'[i] = inbox[k]
  BY <1>0, <1>1, <1>2, LoadsQueued
<1>5. EditorTypes'
  BY <1>0, <1>1, <1>3 DEF EditorTypes
<1>6. Dated'
  BY <1>1, <1>2, <1>4, DatedStands
<1>7. WordsInv'
  <2>1. (InTurn(inbox, page, typed) => InTurn(inbox', page, typed)) /\ \A w : SavesOf(inbox, w) => SavesOf(inbox', w)
    BY <1>0, <1>1, <1>2, SavesQueued
  <2> QED BY <1>0, <1>1, <2>1, WordsStay
<1>8. Registers'
  <2>1. \A v \in Writers : /\ Keeps(inbox, v, tracker) => Keeps(inbox', v, tracker)
                           /\ Leaves(inbox, v, tracker) => Leaves(inbox', v, tracker)
    BY <1>0, <1>1, <1>2, GoingsQueued
  <2> QED BY <1>1, <1>2, <1>4, <2>1, RegistersStands
<1>9. Informed'
  <2>1. \A v \in Writers : Said(inbox, "editing", v) => Said(inbox', "editing", v)
    BY <1>3, <1>0 DEF Said
  <2> QED BY <1>0, <1>1, <2>1, InformedStays
<1> QED BY <1>5, <1>6, <1>7, <1>8, <1>9 DEF EditorInv


LEMMA NoticeKeeps ==
  ASSUME EditorInv, NEW u \in Writers, Notice(u)
  PROVE  EditorInv'
<1> DEFINE seen == IF editor[u].at = "ready" THEN Head(notes[u]) \ {u} ELSE editor[u].others
           e == [editor[u] EXCEPT !.others = seen]
<1>0. /\ EditorTypes /\ Dated /\ WordsInv /\ Registers /\ Informed /\ inbox \in Seq(RequestWith(typed)) /\ OneLoad(inbox)
      /\ \A v \in Writers : editor[v] \in EditorWith(typed)
  BY PageFacts
<1>1. /\ notes[u] # <<>> /\ notes' = [notes EXCEPT ![u] = Tail(notes[u])] /\ editor' = [editor EXCEPT ![u] = e]
      /\ UNCHANGED <<page, there, tracker, inbox, typed, orphans, lost, misheard>>
  BY DEF Notice
<1>2. /\ notes[u] \in Seq(SUBSET Writers) /\ Head(notes[u]) = notes[u][1] /\ notes[u][1] \in SUBSET Writers
      /\ Tail(notes[u]) \in Seq(SUBSET Writers) /\ Len(Tail(notes[u])) = Len(notes[u]) - 1
      /\ \A i \in 1..Len(Tail(notes[u])) : Tail(notes[u])[i] = notes[u][i + 1]
  <2>1. notes[u] \in Seq(SUBSET Writers)
    BY <1>0 DEF EditorTypes
  <2> QED BY <1>1, <2>1, Dequeued
<1>3. seen \subseteq Writers /\ u \notin seen /\ (editor[u].at = "ready" => seen = notes[u][1] \ {u})
  BY <1>0, <1>2 DEF EditorTypes, EditorWith
<1> HIDE DEF seen
<1>4. /\ e \in EditorWith(typed) /\ e.at = editor[u].at /\ e.visit = editor[u].visit /\ e.text = editor[u].text
      /\ e.sent = editor[u].sent /\ e.timer = editor[u].timer /\ e.blind = editor[u].blind /\ e.others = seen
  <2>1. editor[u] \in EditorWith(typed)
    BY <1>0
  <2> QED BY <1>3, <2>1 DEF EditorWith
<1> HIDE DEF e
<1>5. /\ editor' \in [Writers -> EditorWith(typed)] /\ editor'[u] = e /\ \A v \in Writers : v # u => editor'[v] = editor[v]
  BY <1>0, <1>1, <1>4, EditorSet
<1>6. /\ notes' \in [Writers -> Seq(SUBSET Writers)] /\ notes'[u] = Tail(notes[u]) /\ \A v \in Writers : v # u => notes'[v] = notes[v]
  BY <1>0, <1>1, <1>2 DEF EditorTypes
<1>7. \A v \in Writers : /\ editor'[v].at = editor[v].at /\ editor'[v].visit = editor[v].visit
                         /\ editor'[v].blind = editor[v].blind /\ editor'[v].timer = editor[v].timer
                         /\ editor'[v].text = editor[v].text /\ editor'[v].sent = editor[v].sent
  BY <1>4, <1>5
<1>8. EditorTypes'
  BY <1>0, <1>1, <1>3, <1>4, <1>5, <1>6 DEF EditorTypes
<1>9. Dated'
  BY <1>0, <1>1, <1>7, DatedStands
<1>10. WordsInv'
  <2>1. \A w \in typed : w.by \in Writers
    BY <1>0 DEF EditorTypes
  <2> QED BY <1>0, <1>1, <1>7, <2>1, WordsStay
<1>11. Registers'
  BY <1>0, <1>1, <1>7, RegistersStands
<1>12. Informed'
  <2>1. ASSUME NEW v \in Writers, v # u
        PROVE  /\ notes'[v] # <<>> => Like(notes'[v][Len(notes'[v])], tracker, misheard)
               /\ notes'[v] = <<>> /\ v \notin misheard /\ editor'[v].at = "ready" =>
                    Said(inbox, "editing", v) \/ Like(editor'[v].others \cup (tracker \cap {v}), tracker, misheard)
    BY <1>0, <1>5, <1>6, <2>1 DEF Informed
  <2>2. Like(notes[u][Len(notes[u])], tracker, misheard)
    BY <1>0, <1>1 DEF Informed
  <2>3. ASSUME Tail(notes[u]) # <<>> PROVE Like(Tail(notes[u])[Len(Tail(notes[u]))], tracker, misheard)
    <3>1. Len(Tail(notes[u])) \in 1..Len(Tail(notes[u])) /\ Len(Tail(notes[u])) + 1 = Len(notes[u])
      BY <1>2, <2>3
    <3> QED BY <1>2, <2>2, <3>1
  <2>4. ASSUME Tail(notes[u]) = <<>>, editor[u].at = "ready"
        PROVE  Like(seen \cup (tracker \cap {u}), tracker, misheard)
    <3>1. Len(notes[u]) = 1
      <4>3. Len(<<>>) = 0
        OBVIOUS
      <4>1. Len(Tail(notes[u])) = 0
        BY <2>4, <4>3, Zenon
      <4>2. Len(notes[u]) \in Nat
        BY <1>2
      <4> QED BY <1>2, <4>1, <4>2
    <3>2. Like(notes[u][1], tracker, misheard)
      BY <2>2, <3>1
    <3> QED BY <1>3, <2>4, <3>2 DEF Like
  <2> QED BY <1>1, <1>4, <1>5, <1>6, <2>1, <2>3, <2>4 DEF Informed
<1> QED BY <1>8, <1>9, <1>10, <1>11, <1>12 DEF EditorInv

LEMMA ExpireKeeps ==
  ASSUME EditorInv, NEW u \in Writers, Expire(u)
  PROVE  EditorInv'
<1>0. /\ EditorTypes /\ Dated /\ WordsInv /\ Registers /\ Informed /\ inbox \in Seq(RequestWith(typed)) /\ OneLoad(inbox)
      /\ \A v \in Writers : editor[v] \in EditorWith(typed)
  BY PageFacts
<1>1. /\ tracker' = tracker \ {u} /\ misheard' = misheard \cup {u}
      /\ UNCHANGED <<page, there, inbox, notes, editor, typed, orphans, lost>>
  BY DEF Expire
<1>2. EditorTypes'
  BY <1>0, <1>1 DEF EditorTypes
<1>3. Dated'
  BY <1>0, <1>1 DEF Dated
<1>4. WordsInv'
  BY <1>0, <1>1, WordsStay
<1>5. Registers'
  <2>1. ASSUME NEW v \in Writers, v \notin misheard'
        PROVE  (Keeps(inbox, v, tracker) => Keeps(inbox, v, tracker')) /\ (Leaves(inbox, v, tracker) => Leaves(inbox, v, tracker'))
    <3>1. v \in tracker <=> v \in tracker'
      BY <1>1, <2>1
    <3> QED BY <3>1, GoingsOfOthers
  <2> QED BY <1>0, <1>1, <2>1, RegistersStands
<1>6. Informed'
  BY <1>0, <1>1 DEF Informed, Like
<1> QED BY <1>2, <1>3, <1>4, <1>5, <1>6 DEF EditorInv

\* The requests when a load is taken and its editor registers.
LEMMA LoadTaken ==
  ASSUME EditorInv, First("load"), inbox' = Registered(Head(inbox))
  PROVE  /\ Head(inbox) = inbox[1] /\ inbox[1] \in RequestWith(typed) /\ inbox[1].kind = "load" /\ 1 \in 1..Len(inbox)
         /\ DatedIn(inbox[1], editor[inbox[1].by]) /\ inbox' \in Seq(RequestWith(typed)) /\ OneLoad(inbox')
         /\ \A i \in 1..Len(inbox') : \/ inbox'[i].kind = "editing" /\ inbox'[i].by = inbox[1].by /\ inbox'[i].visit = inbox[1].visit
                                      \/ \E k \in 1..Len(inbox) : inbox'[i] = inbox[k]
         /\ \A i \in 1..Len(inbox') : inbox'[i].kind = "load" /\ inbox'[i].by = inbox[1].by => inbox'[i].visit # inbox[1].visit
         /\ (InTurn(inbox, page, typed) => InTurn(inbox', page, typed)) /\ \A w : SavesOf(inbox, w) => SavesOf(inbox', w)
         /\ \A v : v # inbox[1].by => /\ Keeps(inbox, v, tracker) => Keeps(inbox', v, tracker)
                                      /\ Leaves(inbox, v, tracker) => Leaves(inbox', v, tracker)
         /\ Keeps(inbox', inbox[1].by, tracker) /\ Said(inbox', "editing", inbox[1].by)
         /\ \A v : Said(inbox, "editing", v) => Said(inbox', "editing", v)
<1> DEFINE r == inbox[1]
           a == [inbox[1] EXCEPT !.kind = "editing"]
           q == Tail(inbox)
<1>0. inbox \in Seq(RequestWith(typed)) /\ inbox # <<>>
  BY PageFacts DEF First
<1>1. /\ Head(inbox) = r /\ r \in RequestWith(typed) /\ DatedIn(r, editor[r.by])
      /\ q \in Seq(RequestWith(typed)) /\ OneLoad(q) /\ 1 \in 1..Len(inbox)
      /\ \A i \in 1..Len(q) : \E k \in 1..Len(inbox) : q[i] = inbox[k]
      /\ r.kind = "load" => \A i \in 1..Len(q) : q[i].kind = "load" /\ q[i].by = r.by => q[i].visit # r.visit
  BY <1>0, RequestTaken
<1>2. r.kind = "load" /\ inbox' = Append(q, a)
  BY <1>1 DEF First, Registered
<1>3. a \in RequestWith(typed) /\ a.kind = "editing" /\ a.by = r.by /\ a.visit = r.visit
  BY <1>1 DEF RequestWith, Kinds
<1>4. /\ InTurn(inbox, page, typed) => InTurn(q, page, typed)
      /\ \A w : SavesOf(inbox, w) => SavesOf(q, w)
  BY <1>0, <1>2, SavesDequeued
<1>5. \A v : v # r.by => /\ Keeps(inbox, v, tracker) => Keeps(q, v, tracker)
                         /\ Leaves(inbox, v, tracker) => Leaves(q, v, tracker)
  BY <1>0, GoingsDequeued
<1>6. \A v : Said(inbox, "editing", v) => Said(q, "editing", v)
  <2>1. \A v : Said(inbox, "editing", v) <=> Said(Tail(inbox), "editing", v) \/ (inbox[1].kind = "editing" /\ inbox[1].by = v)
    BY <1>0, EditingDequeued
  <2> QED BY <1>2, <2>1
<1> HIDE DEF r, a, q
<1>16. q \in Seq(RequestWith(typed)) /\ a \in RequestWith(typed) /\ inbox' = Append(q, a) /\ a.kind = "editing" /\ a.by = r.by
  BY <1>1, <1>2, <1>3
<1>7. /\ inbox' \in Seq(RequestWith(typed)) /\ Len(inbox') = Len(q) + 1 /\ inbox'[Len(q) + 1] = a
      /\ \A i \in 1..Len(q) : inbox'[i] = q[i]
  BY <1>16, Queued
<1>8. OneLoad(inbox') /\ \A i \in 1..Len(inbox') : inbox'[i] = a \/ \E k \in 1..Len(q) : inbox'[i] = q[k]
  <2>1. OneLoad(q)
    BY <1>1
  <2>2. \A i \in 1..Len(Append(q, a)) : Append(q, a)[i] = a \/ \E k \in 1..Len(q) : Append(q, a)[i] = q[k]
    BY <1>16, LoadsQueued
  <2>3. OneLoad(Append(q, a))
    BY <1>16, <2>1, LoadsQueued
  <2> QED BY <1>16, <2>2, <2>3
<1>9. \A i \in 1..Len(inbox') : inbox'[i] = a \/ \E k \in 1..Len(inbox) : inbox'[i] = inbox[k]
  BY <1>1, <1>8
<1>10. \A i \in 1..Len(inbox') : inbox'[i].kind = "load" /\ inbox'[i].by = r.by => inbox'[i].visit # r.visit
  BY <1>1, <1>2, <1>3, <1>8
<1>11. (InTurn(q, page, typed) => InTurn(inbox', page, typed)) /\ \A w : SavesOf(q, w) => SavesOf(inbox', w)
  <2>1. InTurn(q, page, typed) => InTurn(Append(q, a), page, typed)
    BY <1>16, SavesQueued
  <2>2. \A w : SavesOf(q, w) => SavesOf(Append(q, a), w)
    BY <1>16, SavesQueued
  <2> QED BY <1>16, <2>1, <2>2
<1>12. /\ \A v : v # r.by => /\ Keeps(q, v, tracker) => Keeps(inbox', v, tracker)
                             /\ Leaves(q, v, tracker) => Leaves(inbox', v, tracker)
       /\ Keeps(inbox', r.by, tracker)
  BY <1>16, GoingsQueued
<1>13. Said(inbox', "editing", r.by) /\ \A v : Said(q, "editing", v) => Said(inbox', "editing", v)
  <2>1. Said(inbox', "editing", r.by)
    <3>1. Len(q) + 1 \in 1..Len(inbox')
      BY <1>7, <1>16
    <3> QED BY <1>7, <1>16, <3>1 DEF Said
  <2>2. ASSUME NEW v, Said(q, "editing", v) PROVE Said(inbox', "editing", v)
    <3>1. PICK i \in 1..Len(q) : q[i].kind = "editing" /\ q[i].by = v
      BY <2>2 DEF Said
    <3>2. i \in 1..Len(inbox') /\ inbox'[i] = q[i]
      BY <1>1, <1>7
    <3> QED BY <3>1, <3>2 DEF Said
  <2> QED BY <2>1, <2>2
<1>14. /\ (InTurn(inbox, page, typed) => InTurn(inbox', page, typed)) /\ \A w : SavesOf(inbox, w) => SavesOf(inbox', w)
       /\ \A v : v # r.by => /\ Keeps(inbox, v, tracker) => Keeps(inbox', v, tracker)
                             /\ Leaves(inbox, v, tracker) => Leaves(inbox', v, tracker)
       /\ Keeps(inbox', r.by, tracker) /\ Said(inbox', "editing", r.by)
       /\ \A v : Said(inbox, "editing", v) => Said(inbox', "editing", v)
  BY <1>4, <1>5, <1>6, <1>11, <1>12, <1>13
<1>15. \A i \in 1..Len(inbox') : \/ inbox'[i].kind = "editing" /\ inbox'[i].by = r.by /\ inbox'[i].visit = r.visit
                                 \/ \E k \in 1..Len(inbox) : inbox'[i] = inbox[k]
  BY <1>3, <1>9
<1> QED BY <1>1, <1>2, <1>7, <1>8, <1>10, <1>14, <1>15 DEF r

\* The answer to a load: with the page, or empty.
LEMMA LoadKeeps ==
  ASSUME EditorInv, First("load"), NEW u, u = Head(inbox).by, inbox' = Registered(Head(inbox)),
         NEW e \in EditorWith(typed), editor' = [editor EXCEPT ![u] = e],
         UNCHANGED <<page, there, tracker, notes, typed, orphans, misheard>>, lost \subseteq lost',
         e.visit = editor[u].visit /\ e.sent = editor[u].sent /\ e.timer = editor[u].timer,
         u \notin e.others, editor[u].text \subseteq e.text \cup page \cup lost',
         IF Current(Head(inbox))
           THEN e.at = "ready" /\ ((e.blind = editor[u].blind /\ e.text = editor[u].text) \/ e.blind = ~there)
           ELSE e = editor[u]
  PROVE  EditorInv'
<1> DEFINE r == inbox[1]
<1>0. /\ EditorTypes /\ Dated /\ WordsInv /\ Registers /\ Informed /\ inbox \in Seq(RequestWith(typed)) /\ OneLoad(inbox)
      /\ \A v \in Writers : editor[v] \in EditorWith(typed)
  BY PageFacts
<1>1. /\ Head(inbox) = r /\ r \in RequestWith(typed) /\ r.kind = "load" /\ 1 \in 1..Len(inbox)
      /\ DatedIn(r, editor[r.by]) /\ inbox' \in Seq(RequestWith(typed)) /\ OneLoad(inbox')
  BY LoadTaken
<1>2. /\ \A i \in 1..Len(inbox') : \/ inbox'[i].kind = "editing" /\ inbox'[i].by = r.by /\ inbox'[i].visit = r.visit
                                   \/ \E k \in 1..Len(inbox) : inbox'[i] = inbox[k]
      /\ \A i \in 1..Len(inbox') : inbox'[i].kind = "load" /\ inbox'[i].by = r.by => inbox'[i].visit # r.visit
  BY LoadTaken
<1>3. /\ (InTurn(inbox, page, typed) => InTurn(inbox', page, typed)) /\ \A w : SavesOf(inbox, w) => SavesOf(inbox', w)
      /\ \A v : v # r.by => /\ Keeps(inbox, v, tracker) => Keeps(inbox', v, tracker)
                            /\ Leaves(inbox, v, tracker) => Leaves(inbox', v, tracker)
      /\ Keeps(inbox', r.by, tracker) /\ Said(inbox', "editing", r.by)
      /\ \A v : Said(inbox, "editing", v) => Said(inbox', "editing", v)
  BY LoadTaken
<1>4. r.by = u /\ u \in Writers /\ r.visit \in Nat /\ r.visit <= editor[u].visit
  BY <1>1 DEF RequestWith, DatedIn
<1>5. ASSUME Current(r) PROVE editor[u].at = "loading" /\ editor[u].visit = r.visit /\ editor[u].blind
  <2>1. editor[u].at # "list" /\ editor[u].visit = r.visit
    BY <1>4, <1>5 DEF Current, Shows
  <2>2. editor[u].at = "loading"
    BY <1>0, <1>1, <1>4, <2>1 DEF DatedIn, EditorWith
  <2> QED BY <1>0, <1>4, <2>1, <2>2 DEF Dated
<1>6. IF Current(r)
        THEN e.at = "ready" /\ ((e.blind = editor[u].blind /\ e.text = editor[u].text) \/ e.blind = ~there)
        ELSE e = editor[u]
  BY <1>1
<1>7. /\ editor' \in [Writers -> EditorWith(typed)] /\ editor'[u] = e /\ \A v \in Writers : v # u => editor'[v] = editor[v]
  BY <1>0, <1>4, EditorSet
<1> HIDE DEF r
<1>12. EditorTypes'
  BY <1>0, <1>1, <1>4, <1>7 DEF EditorTypes
<1>13. Dated'
  <2>1. \A i \in 1..Len(inbox') : DatedIn(inbox'[i], editor'[inbox'[i].by]) \/ \E k \in 1..Len(inbox) : inbox'[i] = inbox[k]
    BY <1>2, <1>4, <1>7 DEF DatedIn
  <2>2. editor[u].blind \in BOOLEAN /\ (editor[u].at = "list" => ~editor[u].timer) /\ (editor[u].at = "loading" => editor[u].blind)
    BY <1>0, <1>4 DEF Dated, EditorWith
  <2>3. CASE Current(r)
    <3>1. editor[u].at = "loading" /\ e.at = "ready" /\ editor[u].blind /\ e.visit = r.visit
      BY <1>5, <1>6, <2>3
    <3>2. \A i \in 1..Len(inbox') : inbox'[i].kind = "load" /\ inbox'[i].by = u => inbox'[i].visit # e.visit
      BY <1>2, <1>4, <3>1
    <3> QED BY <1>1, <1>4, <2>1, <3>1, <3>2, DatedStays
  <2>4. CASE ~Current(r)
    BY <1>1, <1>4, <1>6, <2>1, <2>2, <2>4, DatedStays
  <2> QED BY <2>3, <2>4
<1>14. WordsInv'
  <2>4. ASSUME there, NEW w \in typed, editor'[w.by].at # "list", w.visit = editor'[w.by].visit, w.blind = editor'[w.by].blind
        PROVE  /\ editor[w.by].at # "list" /\ w.visit = editor[w.by].visit /\ w.blind = editor[w.by].blind
               /\ editor[w.by].text \subseteq editor'[w.by].text
    <3>1. w.by \in Writers
      BY <1>0 DEF EditorTypes
    <3>2. CASE w.by # u
      BY <1>7, <2>4, <3>1, <3>2
    <3>3. CASE w.by = u /\ ~Current(r)
      BY <1>6, <1>7, <2>4, <3>3
    <3>4. CASE w.by = u /\ Current(r) /\ e.blind = editor[u].blind /\ e.text = editor[u].text
      BY <1>5, <1>7, <2>4, <3>4
    <3>5. CASE w.by = u /\ Current(r) /\ e.blind = ~there
      <4>1. w.blind
        BY <1>0, <1>5, <1>7, <2>4, <3>5 DEF Dated
      <4>2. ~e.blind
        BY <2>4, <3>5
      <4> QED BY <1>7, <2>4, <3>5, <4>1, <4>2
    <3> QED BY <1>6, <3>2, <3>3, <3>4, <3>5
  <2>5. ASSUME NEW w \in typed, editor[w.by].timer, w \in editor[w.by].text
        PROVE  (editor'[w.by].timer /\ w \in editor'[w.by].text) \/ Safe(w) \/ w \in lost'
    <3>1. w.by \in Writers
      BY <1>0 DEF EditorTypes
    <3>2. CASE w.by = u
      BY <1>7, <2>5, <3>2 DEF Safe
    <3> QED BY <1>7, <2>5, <3>1, <3>2
  <2>6. \A v \in Writers : editor'[v].sent \subseteq editor[v].sent
    BY <1>7
  <2> QED BY <1>0, <1>3, <2>4, <2>5, <2>6, WordsStay
<1>15. Registers'
  <2> SUFFICES ASSUME NEW v \in Writers, v \notin misheard
               PROVE  /\ editor'[v].at = "ready" => Keeps(inbox', v, tracker)
                      /\ editor'[v].at # "ready" => Leaves(inbox', v, tracker)
                      /\ \A i \in 1..Len(inbox') : inbox'[i].kind = "load" /\ inbox'[i].by = v =>
                           editor'[v].at = "loading" /\ inbox'[i].visit = editor'[v].visit
    BY DEF Registers
  <2>1. /\ editor[v].at = "ready" => Keeps(inbox, v, tracker)
        /\ editor[v].at # "ready" => Leaves(inbox, v, tracker)
        /\ \A i \in 1..Len(inbox) : inbox[i].kind = "load" /\ inbox[i].by = v =>
             editor[v].at = "loading" /\ inbox[i].visit = editor[v].visit
    BY <1>0 DEF Registers
  <2>2. CASE v = u
    <3>1. editor[u].at = "loading" /\ editor[u].visit = r.visit
      BY <1>1, <1>4, <2>1, <2>2 DEF r
    <3>2. Current(r)
      BY <1>4, <3>1 DEF Current, Shows
    <3>3. e.at = "ready"
      BY <1>6, <3>2
    <3>4. Keeps(inbox', u, tracker)
      BY <1>3, <1>4
    <3>5. ASSUME NEW i \in 1..Len(inbox'), inbox'[i].kind = "load", inbox'[i].by = u PROVE FALSE
      <4>1. PICK k \in 1..Len(inbox) : inbox'[i] = inbox[k]
        BY <1>2, <3>5
      <4>2. inbox[k].visit = editor[u].visit
        BY <2>1, <2>2, <3>5, <4>1
      <4> QED BY <1>2, <1>4, <3>1, <3>5, <4>1, <4>2
    <3> QED BY <1>7, <2>2, <3>3, <3>4, <3>5
  <2>3. CASE v # u
    BY <1>2, <1>3, <1>4, <1>7, <2>1, <2>3
  <2> QED BY <2>2, <2>3
<1>16. Informed'
  <2>3. ASSUME NEW v \in Writers, editor'[v].at = "ready"
        PROVE  \/ Said(inbox', "editing", v)
               \/ /\ editor[v].at = "ready" /\ editor'[v].others = editor[v].others
                  /\ Said(inbox, "editing", v) => Said(inbox', "editing", v)
    BY <1>3, <1>4, <1>7, <2>3
  <2> QED BY <1>0, <2>3, InformedStays
<1> QED BY <1>12, <1>13, <1>14, <1>15, <1>16 DEF EditorInv

LEMMA LoadPageKeeps ==
  ASSUME EditorInv, LoadPage
  PROVE  EditorInv'
<1> DEFINE u == Head(inbox).by
           d == [editor[u] EXCEPT !.at = "ready", !.text = page, !.blind = ~there, !.others = tracker \ {u}]
<1>0. /\ EditorTypes /\ \A v \in Writers : editor[v] \in EditorWith(typed)
  BY PageFacts
<1>1. inbox # <<>> /\ First("load") /\ inbox' = Registered(Head(inbox)) /\ UNCHANGED <<page, there, tracker, notes, typed, orphans, misheard>>
  BY DEF LoadPage, First
<1>2. u \in Writers
  BY <1>1, RequestTaken DEF RequestWith
<1>3. IF Current(Head(inbox)) THEN editor' = [editor EXCEPT ![u] = d] /\ lost' = lost \cup (editor[u].text \ page)
                              ELSE editor' = editor /\ lost' = lost
  BY DEF LoadPage
<1>4. /\ d \in EditorWith(typed) /\ d.at = "ready" /\ d.visit = editor[u].visit /\ d.text = page
      /\ d.sent = editor[u].sent /\ d.timer = editor[u].timer /\ d.blind = ~there /\ d.others = tracker \ {u}
  <2>1. editor[u] \in EditorWith(typed) /\ page \subseteq typed /\ tracker \subseteq Writers /\ there \in BOOLEAN
    BY <1>0, <1>2 DEF EditorTypes
  <2> HIDE DEF u
  <2> QED BY <2>1 DEF EditorWith
<1>5. editor = [editor EXCEPT ![u] = editor[u]] /\ editor[u] \in EditorWith(typed) /\ u \notin editor[u].others
  BY <1>0, <1>2 DEF EditorTypes
<1> HIDE DEF u, d
<1>6. u = Head(inbox).by
  BY DEF u
<1>7. CASE Current(Head(inbox))
  BY <1>1, <1>3, <1>4, <1>6, <1>7, LoadKeeps
<1>8. CASE ~Current(Head(inbox))
  BY <1>1, <1>3, <1>5, <1>6, <1>8, LoadKeeps
<1> QED BY <1>7, <1>8

LEMMA LoadPageFailsKeeps ==
  ASSUME EditorInv, LoadPageFails
  PROVE  EditorInv'
<1> DEFINE u == Head(inbox).by
           d == [editor[u] EXCEPT !.at = "ready"]
           w == [editor[u] EXCEPT !.at = "ready", !.text = {}, !.blind = ~there, !.others = {}]
<1>0. /\ EditorTypes /\ \A v \in Writers : editor[v] \in EditorWith(typed)
  BY PageFacts
<1>1. /\ inbox # <<>> /\ First("load") /\ inbox' = Registered(Head(inbox))
      /\ UNCHANGED <<page, there, tracker, notes, typed, orphans, misheard>>
  BY DEF LoadPageFails, First
<1>2. u \in Writers
  BY <1>1, RequestTaken DEF RequestWith
<1>3. editor[u] \in EditorWith(typed) /\ u \notin editor[u].others /\ editor \in [Writers -> EditorWith(typed)]
  BY <1>0, <1>2 DEF EditorTypes
<1>4. \/ editor' = [editor EXCEPT ![u].at = IF Current(Head(inbox)) THEN "ready" ELSE editor[u].at] /\ lost' = lost
      \/ Current(Head(inbox)) /\ editor' = [editor EXCEPT ![u] = w] /\ lost' = lost \cup (editor[u].text \ page)
  BY <1>2, <1>3 DEF LoadPageFails
<1>5. /\ d \in EditorWith(typed) /\ d.at = "ready" /\ d.visit = editor[u].visit /\ d.text = editor[u].text
      /\ d.sent = editor[u].sent /\ d.timer = editor[u].timer /\ d.blind = editor[u].blind /\ d.others = editor[u].others
  <2> HIDE DEF u
  <2> QED BY <1>3 DEF EditorWith
<1>6. /\ w \in EditorWith(typed) /\ w.at = "ready" /\ w.visit = editor[u].visit /\ w.text = {}
      /\ w.sent = editor[u].sent /\ w.timer = editor[u].timer /\ w.blind = ~there /\ w.others = {}
  <2>1. there \in BOOLEAN
    BY <1>0 DEF EditorTypes
  <2> HIDE DEF u
  <2> QED BY <1>3, <2>1 DEF EditorWith
<1>7. editor[u] = [editor[u] EXCEPT !.at = editor[u].at]
  <2> HIDE DEF u
  <2> QED BY <1>3 DEF EditorWith
<1> HIDE DEF u, d, w
<1>8. u = Head(inbox).by
  BY DEF u
<1>9. CASE Current(Head(inbox)) /\ editor' = [editor EXCEPT ![u] = w] /\ lost' = lost \cup (editor[u].text \ page)
  BY <1>1, <1>3, <1>6, <1>8, <1>9, LoadKeeps
<1>10. CASE editor' = [editor EXCEPT ![u].at = IF Current(Head(inbox)) THEN "ready" ELSE editor[u].at] /\ lost' = lost
  <2>1. CASE Current(Head(inbox))
    <3>1. editor' = [editor EXCEPT ![u] = d]
      BY <1>10, <2>1 DEF d
    <3> QED BY <1>1, <1>3, <1>5, <1>8, <1>10, <2>1, <3>1, LoadKeeps
  <2>2. CASE ~Current(Head(inbox))
    <3>1. editor' = [editor EXCEPT ![u] = editor[u]]
      BY <1>7, <1>10, <2>2
    <3> QED BY <1>1, <1>3, <1>8, <1>10, <2>2, <3>1, LoadKeeps
  <2> QED BY <2>1, <2>2
<1> QED BY <1>4, <1>9, <1>10


\* The answer to a save: its text is on the page, or lost.
LEMMA SaveAnswered ==
  ASSUME EditorInv, First("save"), inbox' = Tail(inbox), NEW r, r = Head(inbox),
         NEW busy \in BOOLEAN, editor' = [editor EXCEPT ![r.by].saving = busy],
         UNCHANGED <<there, tracker, notes, typed, orphans, misheard>>, page' \in {page, r.text},
         there => \A w \in typed : w \in page \/ w \in lost \/ w \in r.text =>
                    w \in page' \/ w \in lost' \/ (Hand(w) = Hand(r) /\ w \notin r.text /\ w \in page)
  PROVE  EditorInv'
<1> DEFINE u == r.by
           e == [editor[u] EXCEPT !.saving = busy]
<1>0. /\ EditorTypes /\ Dated /\ WordsInv /\ Registers /\ Informed /\ inbox \in Seq(RequestWith(typed)) /\ OneLoad(inbox)
      /\ \A v \in Writers : editor[v] \in EditorWith(typed)
  BY PageFacts
<1>1. inbox # <<>>
  BY DEF First
<1>2. /\ r = inbox[1] /\ r \in RequestWith(typed) /\ 1 \in 1..Len(inbox)
      /\ inbox' \in Seq(RequestWith(typed)) /\ OneLoad(inbox')
      /\ \A i \in 1..Len(inbox') : \E k \in 1..Len(inbox) : inbox'[i] = inbox[k]
  BY <1>1, RequestTaken
<1>3. r.kind = "save" /\ u \in Writers /\ r.text \subseteq typed
  BY <1>2 DEF First, RequestWith
<1>4. /\ editor' = [editor EXCEPT ![u] = e] /\ e \in EditorWith(typed) /\ e.at = editor[u].at /\ e.visit = editor[u].visit
      /\ e.text = editor[u].text /\ e.sent = editor[u].sent /\ e.timer = editor[u].timer /\ e.blind = editor[u].blind
      /\ e.others = editor[u].others
  <2>1. editor[u] \in EditorWith(typed) /\ editor \in [Writers -> EditorWith(typed)]
    BY <1>0, <1>3 DEF EditorTypes
  <2>2. editor' = [editor EXCEPT ![u] = e]
    BY <1>3, <2>1
  <2> HIDE DEF u
  <2> QED BY <2>1, <2>2 DEF EditorWith
<1> HIDE DEF e, u
<1>5. /\ editor' \in [Writers -> EditorWith(typed)] /\ editor'[u] = e /\ \A v \in Writers : v # u => editor'[v] = editor[v]
  BY <1>0, <1>3, <1>4, EditorSet
<1>6. \A v \in Writers : /\ editor'[v].at = editor[v].at /\ editor'[v].visit = editor[v].visit
                         /\ editor'[v].blind = editor[v].blind /\ editor'[v].timer = editor[v].timer
                         /\ editor'[v].text = editor[v].text /\ editor'[v].sent = editor[v].sent
                         /\ editor'[v].others = editor[v].others
  BY <1>4, <1>5
<1>7. EditorTypes'
  BY <1>0, <1>2, <1>3, <1>5, <1>6 DEF EditorTypes
<1>8. Dated'
  BY <1>0, <1>2, <1>6, DatedStands
<1>9. WordsInv'
  <2> SUFFICES ASSUME there PROVE WholeTexts' /\ InTurn(inbox', page', typed') /\ NoneForgotten'
    BY DEF WordsInv
  <2>1. WholeTexts /\ InTurn(inbox, page, typed) /\ NoneForgotten
    BY <1>0 DEF WordsInv
  <2>2. \A w \in typed : w.by \in Writers
    BY <1>0 DEF EditorTypes
  <2>3. WholeTexts'
    BY <1>6, <2>1, <2>2 DEF WholeTexts
  <2>4. /\ InTurn(Tail(inbox), page, typed) /\ InTurn(Tail(inbox), r.text, typed)
        /\ \A w : SavesOf(inbox, w) <=> SavesOf(Tail(inbox), w) \/ w \in r.text
    BY <1>0, <1>1, <1>2, <1>3, <2>1, SavesDequeued
  <2>5. InTurn(inbox', page', typed)
    BY <2>4
  <2>6. ASSUME NEW w \in typed, Safe(w) PROVE Safe(w)'
    <3>1. ~(Hand(w) = Hand(r) /\ w \notin r.text /\ w \in page)
      BY <1>2, <1>3, <2>1, <2>6 DEF InTurn, Newer
    <3>2. w \in page \/ w \in lost \/ w \in r.text => w \in page' \/ w \in lost'
      BY <2>6, <3>1
    <3> QED BY <2>4, <2>6, <3>2 DEF Safe
  <2>7. ASSUME NEW w \in typed PROVE Safe(w)' \/ (editor'[w.by].timer /\ w \in editor'[w.by].text)
    BY <1>6, <2>1, <2>2, <2>6, <2>7 DEF NoneForgotten
  <2>8. ASSUME NEW v \in Writers, NEW w \in editor'[v].sent PROVE Safe(w)'
    <3>1. w \in typed /\ w \in editor[v].sent
      BY <1>0, <1>6, <2>8 DEF EditorWith
    <3> QED BY <2>1, <2>6, <3>1 DEF NoneForgotten
  <2>9. NoneForgotten'
    BY <2>7, <2>8 DEF NoneForgotten
  <2> QED BY <2>3, <2>5, <2>9
<1>10. Registers'
  <2>1. \A v \in Writers : /\ Keeps(inbox, v, tracker) => Keeps(Tail(inbox), v, tracker)
                           /\ Leaves(inbox, v, tracker) => Leaves(Tail(inbox), v, tracker)
    BY <1>0, <1>1, <1>2, <1>3, GoingsDequeued
  <2> QED BY <1>2, <1>6, <2>1, RegistersStands
<1>11. Informed'
  <2>1. ASSUME NEW v \in Writers PROVE Said(inbox, "editing", v) => Said(inbox', "editing", v)
    <3>1. "editing" # "stopedit"
      OBVIOUS
    <3>2. Said(inbox, "editing", v) <=> Said(Tail(inbox), "editing", v) \/ (inbox[1].kind = "editing" /\ inbox[1].by = v)
      BY <1>0, <1>1, <3>1, SaidDequeued
    <3> QED BY <1>2, <1>3, <3>2
  <2> QED BY <1>0, <1>6, <2>1, InformedStays
<1> QED BY <1>7, <1>8, <1>9, <1>10, <1>11 DEF EditorInv

LEMMA SavePageKeeps ==
  ASSUME EditorInv, SavePage \/ SaveFails
  PROVE  EditorInv'
<1> DEFINE r == Head(inbox)
           busy == editor[r.by].saving /\ ~Current(r)
<1>1. /\ First("save") /\ inbox' = Tail(inbox) /\ editor' = [editor EXCEPT ![r.by].saving = busy]
      /\ UNCHANGED <<there, tracker, notes, typed, orphans, misheard>> /\ busy \in BOOLEAN
  BY DEF SavePage, SaveFails
<1>2. page' \in {page, r.text}
  BY DEF SavePage, SaveFails
<1>3. there => \A w \in typed : w \in page \/ w \in lost \/ w \in r.text =>
                 w \in page' \/ w \in lost' \/ (Hand(w) = Hand(r) /\ w \notin r.text /\ w \in page)
  <2>1. CASE SavePage
    <3>1. page' = (IF there THEN r.text ELSE page) /\ lost' = (lost \ page') \cup {w \in page \ r.text : Hand(w) # Hand(r)}
      BY <2>1 DEF SavePage, Overwritten
    <3> HIDE DEF r
    <3> QED BY <3>1
  <2>2. CASE SaveFails
    BY <2>2 DEF SaveFails
  <2> QED BY <2>1, <2>2
<1> HIDE DEF busy
<1> QED BY <1>1, <1>2, <1>3, SaveAnswered

LEMMA DeletePageKeeps ==
  ASSUME EditorInv, DeletePage
  PROVE  EditorInv'
<1> DEFINE r == inbox[1]
           u == r.by
           e == [Away EXCEPT !.visit = r.visit]
           a == [r EXCEPT !.kind = "stopedit"]
           q == Tail(inbox)
<1>0. /\ EditorTypes /\ Dated /\ WordsInv /\ Registers /\ Informed /\ inbox \in Seq(RequestWith(typed)) /\ OneLoad(inbox)
      /\ \A v \in Writers : editor[v] \in EditorWith(typed)
  BY PageFacts
<1>1. inbox # <<>>
  BY DEF DeletePage, First
<1>2. /\ Head(inbox) = r /\ r \in RequestWith(typed) /\ 1 \in 1..Len(inbox) /\ DatedIn(r, editor[u])
      /\ q \in Seq(RequestWith(typed)) /\ OneLoad(q) /\ \A i \in 1..Len(q) : \E k \in 1..Len(inbox) : q[i] = inbox[k]
  BY <1>1, RequestTaken
<1>3. r.kind = "delete" /\ u \in Writers /\ r.visit \in Nat /\ a \in RequestWith(typed) /\ a.kind = "stopedit" /\ a.by = u /\ a.visit = r.visit
  BY <1>2 DEF DeletePage, First, RequestWith, Kinds
<1>4. /\ there' = FALSE /\ page' = {} /\ UNCHANGED <<tracker, notes, typed, orphans, lost, misheard>>
      /\ \/ Current(r) /\ inbox' = Append(q, a) /\ editor' = [editor EXCEPT ![u] = e]
         \/ inbox' = q /\ editor' = editor
  BY <1>2 DEF DeletePage
<1>5. e \in EditorWith(typed) /\ e.at = "list" /\ e.visit = r.visit /\ e.text = {} /\ e.sent = {} /\ ~e.timer /\ e.others = {}
  <2>1. Away \in EditorWith(typed)
    BY DEF Away, EditorWith
  <2> HIDE DEF r
  <2>2. e \in EditorWith(typed)
    BY <1>3, <2>1 DEF EditorWith
  <2> QED BY <2>1, <2>2 DEF EditorWith, Away
<1>6. \A v \in Writers : /\ Keeps(inbox, v, tracker) => Keeps(q, v, tracker)
                         /\ Leaves(inbox, v, tracker) => Leaves(q, v, tracker)
  BY <1>0, <1>1, <1>3, GoingsDequeued
<1>7. \A v \in Writers : Said(inbox, "editing", v) => Said(q, "editing", v)
  <2> SUFFICES ASSUME NEW v \in Writers PROVE Said(inbox, "editing", v) => Said(q, "editing", v)
    OBVIOUS
  <2>1. "editing" # "stopedit"
    OBVIOUS
  <2>2. Said(inbox, "editing", v) <=> Said(Tail(inbox), "editing", v) \/ (inbox[1].kind = "editing" /\ inbox[1].by = v)
    BY <1>0, <1>1, <2>1, SaidDequeued
  <2> QED BY <1>3, <2>2
<1> HIDE DEF r, u, e, a, q
<1>8. WordsInv'
  BY <1>4 DEF WordsInv
<1>9. CASE inbox' = q /\ editor' = editor
  <2>1. EditorTypes'
    BY <1>0, <1>2, <1>4, <1>9 DEF EditorTypes
  <2>2. Dated'
    BY <1>2, <1>4, <1>9, DatedStands
  <2>3. Registers'
    BY <1>2, <1>4, <1>6, <1>9, RegistersStands
  <2>4. Informed'
    BY <1>0, <1>4, <1>7, <1>9, InformedStays
  <2> QED BY <1>8, <2>1, <2>2, <2>3, <2>4 DEF EditorInv
<1>10. CASE Current(r) /\ inbox' = Append(q, a) /\ editor' = [editor EXCEPT ![u] = e]
  <2>0. editor[u].at = "ready" /\ editor[u].visit = r.visit
    BY <1>0, <1>2, <1>3, <1>10 DEF Current, Shows, DatedIn, EditorWith, u
  <2>1. /\ editor' \in [Writers -> EditorWith(typed)] /\ editor'[u] = e /\ \A v \in Writers : v # u => editor'[v] = editor[v]
    BY <1>0, <1>3, <1>5, <1>10, EditorSet
  <2>2. q \in Seq(RequestWith(typed)) /\ a \in RequestWith(typed) /\ inbox' = Append(q, a) /\ a.kind = "stopedit" /\ a.by = u
    BY <1>2, <1>3, <1>10
  <2>3. /\ inbox' \in Seq(RequestWith(typed)) /\ Len(inbox') = Len(q) + 1 /\ inbox'[Len(q) + 1] = a
        /\ \A i \in 1..Len(q) : inbox'[i] = q[i]
    BY <2>2, Queued
  <2>4. \A i \in 1..Len(inbox') : inbox'[i] = a \/ \E k \in 1..Len(inbox) : inbox'[i] = inbox[k]
    <3>1. \A i \in 1..Len(Append(q, a)) : Append(q, a)[i] = a \/ \E k \in 1..Len(q) : Append(q, a)[i] = q[k]
      BY <2>2, LoadsQueued
    <3> QED BY <1>2, <2>2, <3>1
  <2>5. OneLoad(inbox')
    <3>1. OneLoad(q)
      BY <1>2
    <3>2. OneLoad(Append(q, a))
      BY <2>2, <3>1, LoadsQueued
    <3> QED BY <2>2, <3>2
  <2>6. EditorTypes'
    BY <1>0, <1>3, <1>4, <1>5, <2>1, <2>3 DEF EditorTypes
  <2>7. Dated'
    <3>1. DatedIn(a, editor'[a.by])
      BY <1>3, <1>5, <2>1 DEF DatedIn
    <3>2. \A i \in 1..Len(inbox') : DatedIn(inbox'[i], editor'[inbox'[i].by]) \/ \E k \in 1..Len(inbox) : inbox'[i] = inbox[k]
      BY <2>4, <3>1
    <3>3. \A o \in orphans' : o \in orphans
      BY <1>4
    <3> QED BY <1>3, <1>4, <1>5, <1>10, <2>0, <2>5, <3>2, <3>3, DatedStays
  <2>8. Registers'
    <3> SUFFICES ASSUME NEW v \in Writers, v \notin misheard
                 PROVE  /\ editor'[v].at = "ready" => Keeps(inbox', v, tracker)
                        /\ editor'[v].at # "ready" => Leaves(inbox', v, tracker)
                        /\ \A i \in 1..Len(inbox') : inbox'[i].kind = "load" /\ inbox'[i].by = v =>
                             editor'[v].at = "loading" /\ inbox'[i].visit = editor'[v].visit
      BY <1>4 DEF Registers
    <3>1. /\ editor[v].at = "ready" => Keeps(inbox, v, tracker)
          /\ editor[v].at # "ready" => Leaves(inbox, v, tracker)
          /\ \A i \in 1..Len(inbox) : inbox[i].kind = "load" /\ inbox[i].by = v =>
               editor[v].at = "loading" /\ inbox[i].visit = editor[v].visit
      BY <1>0 DEF Registers
    <3>2. CASE v = u
      <4>1. Leaves(inbox', u, tracker)
        BY <2>2, GoingsQueued
      <4> QED BY <1>5, <2>0, <2>1, <2>2, <2>4, <3>1, <3>2, <4>1
    <3>3. CASE v # u
      <4>1. (Keeps(q, v, tracker) => Keeps(inbox', v, tracker)) /\ (Leaves(q, v, tracker) => Leaves(inbox', v, tracker))
        BY <2>2, <3>3, GoingsQueued
      <4> QED BY <1>6, <2>1, <2>2, <2>4, <3>1, <3>3, <4>1
    <3> QED BY <3>2, <3>3
  <2>9. Informed'
    <3>1. \A v \in Writers : Said(q, "editing", v) => Said(inbox', "editing", v)
      BY <2>2, <2>3 DEF Said
    <3> QED BY <1>0, <1>4, <1>5, <1>7, <2>1, <3>1, InformedStays
  <2> QED BY <1>8, <2>6, <2>7, <2>8, <2>9 DEF EditorInv
<1> QED BY <1>4, <1>9, <1>10

\* The requests when a writer's word about editing is taken.
LEMMA GoingTaken ==
  ASSUME EditorInv, First("editing") \/ First("stopedit"), inbox' = Tail(inbox),
         UNCHANGED <<page, there, editor, typed, orphans, lost>>
  PROVE  /\ Head(inbox).by = inbox[1].by /\ Head(inbox).kind = inbox[1].kind /\ inbox[1].by \in Writers /\ inbox \in Seq(RequestWith(typed)) /\ inbox # <<>>
         /\ inbox' \in Seq(RequestWith(typed)) /\ Dated' /\ WordsInv'
         /\ \A i \in 1..Len(inbox') : \E k \in 1..Len(inbox) : inbox'[i] = inbox[k]
<1>0. /\ WordsInv /\ inbox \in Seq(RequestWith(typed)) /\ OneLoad(inbox)
  BY PageFacts
<1>1. inbox # <<>>
  BY DEF First
<1>2. /\ Head(inbox) = inbox[1] /\ inbox[1] \in RequestWith(typed)
      /\ inbox' \in Seq(RequestWith(typed)) /\ OneLoad(inbox')
      /\ \A i \in 1..Len(inbox') : \E k \in 1..Len(inbox) : inbox'[i] = inbox[k]
  BY <1>1, RequestTaken
<1>3. Dated'
  BY <1>2, DatedStands
<1>4. WordsInv'
  <2>1. /\ InTurn(inbox, page, typed) => InTurn(Tail(inbox), page, typed)
        /\ \A w : SavesOf(inbox, w) <=> SavesOf(Tail(inbox), w) \/ (inbox[1].kind = "save" /\ w \in inbox[1].text)
    BY <1>0, <1>1, SavesDequeued
  <2>2. inbox[1].kind # "save"
    BY <1>2 DEF First
  <2>3. EditorTypes
    BY PageFacts
  <2> QED BY <1>0, <2>1, <2>2, <2>3, WordsStay
<1> QED BY <1>0, <1>1, <1>2, <1>3, <1>4 DEF RequestWith

LEMMA HandleEditingKeeps ==
  ASSUME EditorInv, HandleEditing \/ StopEdit
  PROVE  EditorInv'
<1> DEFINE u == inbox[1].by
<1>0. EditorTypes /\ Registers /\ Informed
  BY PageFacts
<1>1. /\ First("editing") \/ First("stopedit")
      /\ inbox' = Tail(inbox) /\ UNCHANGED <<page, there, editor, typed, orphans, lost, misheard>>
      /\ notes' = [v \in Writers |-> Append(notes[v], tracker')]
  BY DEF HandleEditing, StopEdit, Publish
<1>2. /\ Head(inbox).by = u /\ Head(inbox).kind = inbox[1].kind /\ u \in Writers /\ inbox \in Seq(RequestWith(typed)) /\ inbox # <<>>
      /\ inbox' \in Seq(RequestWith(typed)) /\ Dated' /\ WordsInv'
      /\ \A i \in 1..Len(inbox') : \E k \in 1..Len(inbox) : inbox'[i] = inbox[k]
  BY <1>1, GoingTaken
<1>3. \/ inbox[1].kind = "editing" /\ tracker' = tracker \cup {u}
      \/ inbox[1].kind = "stopedit" /\ tracker' = tracker \ {u}
  BY <1>2 DEF HandleEditing, StopEdit, First
<1>4. \A v \in Writers : /\ Keeps(inbox, v, tracker) => Keeps(inbox', v, tracker')
                         /\ Leaves(inbox, v, tracker) => Leaves(inbox', v, tracker')
  <2> SUFFICES ASSUME NEW v \in Writers
               PROVE  /\ Keeps(inbox, v, tracker) => Keeps(inbox', v, tracker')
                      /\ Leaves(inbox, v, tracker) => Leaves(inbox', v, tracker')
    OBVIOUS
  <2>1. /\ ~(inbox[1].by = v /\ inbox[1].kind \in {"editing", "stopedit"}) =>
             (Keeps(inbox, v, tracker) => Keeps(Tail(inbox), v, tracker)) /\ (Leaves(inbox, v, tracker) => Leaves(Tail(inbox), v, tracker))
        /\ inbox[1].by = v /\ inbox[1].kind = "editing" =>
             /\ Keeps(inbox, v, tracker) => Keeps(Tail(inbox), v, tracker \cup {v})
             /\ Leaves(inbox, v, tracker) => Leaves(Tail(inbox), v, tracker \cup {v})
        /\ inbox[1].by = v /\ inbox[1].kind = "stopedit" =>
             /\ Keeps(inbox, v, tracker) => Keeps(Tail(inbox), v, tracker \ {v})
             /\ Leaves(inbox, v, tracker) => Leaves(Tail(inbox), v, tracker \ {v})
    BY <1>2, GoingsDequeued
  <2>2. CASE v = u
    BY <1>1, <1>3, <2>1, <2>2
  <2>3. CASE v # u
    <3>1. v \in tracker <=> v \in tracker'
      BY <1>3, <2>3
    <3>2. /\ Keeps(inbox, v, tracker) => Keeps(inbox', v, tracker)
          /\ Leaves(inbox, v, tracker) => Leaves(inbox', v, tracker)
      BY <1>1, <2>1, <2>3
    <3>3. /\ Keeps(inbox', v, tracker) => Keeps(inbox', v, tracker')
          /\ Leaves(inbox', v, tracker) => Leaves(inbox', v, tracker')
      BY <3>1, GoingsOfOthers
    <3> QED BY <3>2, <3>3
  <2> QED BY <2>2, <2>3
<1> HIDE DEF u
<1>5. tracker' \subseteq Writers
  BY <1>0, <1>2, <1>3 DEF EditorTypes
<1>6. EditorTypes'
  <2>1. \A v \in Writers : Append(notes[v], tracker') \in Seq(SUBSET Writers)
    BY <1>0, <1>5, Queued DEF EditorTypes
  <2> QED BY <1>0, <1>1, <1>2, <1>5, <2>1 DEF EditorTypes
<1>7. Registers'
  BY <1>1, <1>2, <1>4, RegistersStands
<1>8. Informed'
  <2> SUFFICES ASSUME NEW v \in Writers
               PROVE  notes'[v] # <<>> /\ Like(notes'[v][Len(notes'[v])], tracker', misheard')
    BY DEF Informed
  <2>1. notes[v] \in Seq(SUBSET Writers) /\ notes'[v] = Append(notes[v], tracker')
    BY <1>0, <1>1 DEF EditorTypes
  <2>2. Len(notes'[v]) = Len(notes[v]) + 1 /\ notes'[v][Len(notes[v]) + 1] = tracker'
    BY <1>5, <2>1, Queued
  <2>3. notes'[v] # <<>>
    BY <2>1, <2>2
  <2> QED BY <2>2, <2>3 DEF Like
<1> QED BY <1>2, <1>6, <1>7, <1>8 DEF EditorInv

LEMMA PresenceFailsKeeps ==
  ASSUME EditorInv, PresenceFails
  PROVE  EditorInv'
<1> DEFINE u == inbox[1].by
<1>0. EditorTypes /\ Registers /\ Informed
  BY PageFacts
<1>1. /\ First("editing") \/ First("stopedit")
      /\ inbox' = Tail(inbox) /\ misheard' = misheard \cup {Head(inbox).by}
      /\ UNCHANGED <<page, there, tracker, notes, editor, typed, orphans, lost>>
  BY DEF PresenceFails
<1>2. /\ Head(inbox).by = u /\ u \in Writers /\ inbox \in Seq(RequestWith(typed)) /\ inbox # <<>>
      /\ inbox' \in Seq(RequestWith(typed)) /\ Dated' /\ WordsInv'
      /\ \A i \in 1..Len(inbox') : \E k \in 1..Len(inbox) : inbox'[i] = inbox[k]
  BY <1>1, GoingTaken
<1>3. EditorTypes'
  BY <1>0, <1>1, <1>2 DEF EditorTypes
<1>4. Registers'
  <2>1. \A v \in Writers : v # u => /\ Keeps(inbox, v, tracker) => Keeps(Tail(inbox), v, tracker)
                                    /\ Leaves(inbox, v, tracker) => Leaves(Tail(inbox), v, tracker)
    BY <1>2, GoingsDequeued
  <2> QED BY <1>1, <1>2, <2>1, RegistersStands
<1>5. Informed'
  <2>1. ASSUME NEW v \in Writers, v # u PROVE Said(inbox, "editing", v) => Said(inbox', "editing", v)
    <3>1. "editing" # "stopedit"
      OBVIOUS
    <3>2. Said(inbox, "editing", v) <=> Said(Tail(inbox), "editing", v) \/ (inbox[1].kind = "editing" /\ inbox[1].by = v)
      BY <1>2, <3>1, SaidDequeued
    <3> QED BY <1>1, <2>1, <3>2
  <2> QED BY <1>0, <1>1, <1>2, <2>1, InformedStays
<1> QED BY <1>2, <1>3, <1>4, <1>5 DEF EditorInv

LEMMA PageInvKept ==
  EditorInv /\ [PageNext]_pageVars => EditorInv'
<1> SUFFICES ASSUME EditorInv, [PageNext]_pageVars PROVE EditorInv'
  OBVIOUS
<1>1. ASSUME NEW u \in Writers, Visit(u) \/ Type(u) \/ Save(u) \/ GoBack(u) PROVE EditorInv'
  BY <1>1, VisitKeeps, TypeKeeps, SaveKeeps, GoBackKeeps
<1>2. ASSUME NEW u \in Writers, HideApp(u) \/ RemovePage(u) \/ Notice(u) \/ Expire(u) PROVE EditorInv'
  BY <1>2, HideAppKeeps, RemovePageKeeps, NoticeKeeps, ExpireKeeps
<1>3. ASSUME NEW o \in orphans, OrphanSave(o) PROVE EditorInv'
  BY <1>3, OrphanSaveKeeps
<1>4. CASE LoadPage \/ LoadPageFails \/ SavePage \/ SaveFails
  BY <1>4, LoadPageKeeps, LoadPageFailsKeeps, SavePageKeeps
<1>5. CASE DeletePage \/ HandleEditing \/ StopEdit \/ PresenceFails
  BY <1>5, DeletePageKeeps, HandleEditingKeeps, PresenceFailsKeeps
<1>6. CASE UNCHANGED pageVars
  <2>1. /\ EditorTypes /\ Dated /\ WordsInv /\ Registers /\ Informed
    BY PageFacts
  <2>2. EditorTypes' /\ Registers'
    BY <1>6, <2>1 DEF pageVars, EditorTypes, Registers
  <2>3. Dated' /\ Informed'
    BY <1>6, <2>1 DEF pageVars, Dated, Informed
  <2>4. WordsInv'
    BY <1>6, <2>1 DEF pageVars, WordsInv, WholeTexts, NoneForgotten, Safe
  <2> QED BY <2>2, <2>3, <2>4 DEF EditorInv
<1> QED BY <1>1, <1>2, <1>3, <1>4, <1>5, <1>6 DEF PageNext

LEMMA PageStarts ==
  PageInit => EditorInv
<1> SUFFICES ASSUME PageInit PROVE EditorInv
  OBVIOUS
<1>1. \A u \in Writers : editor[u] = Away /\ notes[u] = <<>>
  BY DEF PageInit
<1>2. /\ Away \in EditorWith(typed) /\ Away.at = "list" /\ ~Away.timer /\ Away.sent = {} /\ Away.others = {}
  BY DEF Away, EditorWith
<1>3. editor \in [Writers -> EditorWith(typed)] /\ notes \in [Writers -> Seq(SUBSET Writers)]
  BY <1>2 DEF PageInit
<1>4. /\ inbox = <<>> /\ typed = {} /\ orphans = {} /\ page = {} /\ there = TRUE /\ tracker = {} /\ misheard = {}
      /\ inbox \in Seq(RequestWith(typed)) /\ Len(inbox) = 0
  BY DEF PageInit
<1>5. EditorTypes
  BY <1>1, <1>2, <1>3, <1>4 DEF EditorTypes
<1>6. Dated
  BY <1>1, <1>2, <1>4 DEF Dated, OneLoad
<1>7. WordsInv
  BY <1>1, <1>2, <1>4 DEF WordsInv, WholeTexts, InTurn, NoneForgotten
<1>8. Registers
  BY <1>1, <1>2, <1>4 DEF Registers, Leaves, Revoked
<1>9. Informed
  BY <1>1, <1>2, <1>4 DEF Informed
<1> QED BY <1>5, <1>6, <1>7, <1>8, <1>9 DEF EditorInv

\* What the invariant says when all is at rest.
LEMMA PageRests ==
  EditorInv => WordsAreSaved /\ EditorsShown
<1> SUFFICES ASSUME EditorInv PROVE WordsAreSaved /\ EditorsShown
  OBVIOUS
<1>0. EditorTypes /\ WordsInv /\ Registers /\ Informed
  BY PageFacts
<1>1. WordsAreSaved
  <2> SUFFICES ASSUME PageAtRest, there, NEW w \in typed PROVE w \in page \cup lost
    BY DEF WordsAreSaved
  <2>1. w.by \in Writers /\ inbox = <<>> /\ orphans = {} /\ ~editor[w.by].timer
    BY <1>0 DEF EditorTypes, PageAtRest
  <2>2. Safe(w)
    BY <1>0, <2>1 DEF WordsInv, NoneForgotten
  <2>3. Len(inbox) = 0
    BY <2>1
  <2> QED BY <2>1, <2>2, <2>3 DEF Safe, SavesOf
<1>2. EditorsShown
  <2> SUFFICES ASSUME inbox = <<>>, NEW u \in Writers \ misheard, editor[u].at = "ready", notes[u] = <<>>
               PROVE  editor[u].others \ misheard = {v \in Writers : editor[v].at = "ready"} \ (misheard \cup {u})
    BY DEF EditorsShown
  <2>1. Len(inbox) = 0
    OBVIOUS
  <2>2. \A k, v : ~Said(inbox, k, v)
    BY <2>1 DEF Said
  <2>3. \A v \in Writers : v \notin misheard => (v \in tracker <=> editor[v].at = "ready")
    BY <1>0, <2>2 DEF Registers, Keeps, Leaves
  <2>4. Like(editor[u].others \cup (tracker \cap {u}), tracker, misheard)
    BY <1>0, <2>2 DEF Informed
  <2>5. u \notin editor[u].others /\ editor[u].others \subseteq Writers
    BY <1>0 DEF EditorTypes, EditorWith
  <2> QED BY <2>3, <2>4, <2>5 DEF Like
<1> QED BY <1>1, <1>2


\* The apps of a room come to rest as they should: what was written in a page is saved
\* and its editors are shown, the results of the polls are those of the service, and the
\* tab that is chosen shows its app, but for what the properties name
\* (page-editor.component.ts and NatsHandler.java of kb, App.tsx and main.go of poll,
\* ChatRoom.tsx).
THEOREM AppsRest == PageSpec /\ PollsSpec /\ TabsSpec => []AppsSettle
<1>1. PollsInit => PollsInv
  <2> SUFFICES ASSUME PollsInit PROVE PollsInv
    OBVIOUS
  <2>1. tally \in [PollIds -> Nat \cup {Unknown}] /\ results \in [PollIds -> Int]
    BY DEF PollsInit, Unknown
  <2>2. /\ events = <<>> /\ loads = <<>> /\ resultAsks = {} /\ listed = {} /\ pollsUp = FALSE
        /\ events \in Seq(PollIds) /\ loads \in Seq(PollLoad) /\ Len(loads) = 0
    BY DEF PollsInit
  <2>3. PollTypes
    BY <2>1, <2>2 DEF PollTypes, Polled
  <2>4. NoneAhead
    BY <2>2 DEF NoneAhead
  <2> QED BY <2>2, <2>3, <2>4 DEF PollsInv
<1>2. PollsInv => PollsSettle
  <2> SUFFICES ASSUME PollsInv, pollsUp, events = <<>>, loads = <<>>, resultAsks = {}, NEW p \in listed \ chilled
               PROVE  results[p] = tally[p]
    BY DEF PollsSettle
  <2>1. FreshPoll(p) /\ Len(events) = 0 /\ Len(loads) = 0
    BY DEF PollsInv
  <2> QED BY <2>1 DEF FreshPoll
<1>3. TabsInit => TabsInv
  BY ChatIsNoApp DEF TabsInit, TabsInv
<1>4. TabsInv => TabShowsItsApp
  BY DEF TabsInv, OnScreen, TabShowsItsApp
<1>5. WordsAreSaved /\ EditorsShown /\ PollsSettle /\ TabShowsItsApp => AppsSettle
  BY DEF AppsSettle
<1>6. PollsInv /\ [PollsNext]_pollVars => PollsInv'
  BY PollsInvKept
<1>7. TabsInv /\ [TabsNext]_tabVars => TabsInv'
  BY TabsInvKept
<1> QED BY <1>1, <1>2, <1>3, <1>4, <1>5, <1>6, <1>7, PageStarts, PageInvKept, PageRests, PTL DEF PageSpec, PollsSpec, TabsSpec

-----------------------------------------------------------------------------
\* The types the argument above has no use for: of the ghosts, and of the number
\* of a word, which is the number of words that may still be typed.
GhostTypes ==
  /\ typed \subseteq Word /\ lost \subseteq Word /\ misheard \subseteq Writers
  /\ pageLeft \in [PageKinds -> Nat] /\ pageLeft["words"] <= MaxWords

\* Spending from a budget leaves one, with no more words to type.
LEMMA SpendPageTypes ==
  ASSUME pageLeft \in [PageKinds -> Nat], pageLeft["words"] <= MaxWords, NEW k \in PageKinds, SpendPage(k)
  PROVE  pageLeft' \in [PageKinds -> Nat] /\ pageLeft'["words"] <= MaxWords
<1>1. pageLeft[k] \in Nat /\ pageLeft[k] > 0 /\ pageLeft' = [pageLeft EXCEPT ![k] = pageLeft[k] - 1]
  BY DEF SpendPage
<1>2. pageLeft[k] - 1 \in Nat /\ pageLeft["words"] \in Nat
  BY <1>1 DEF PageKinds
<1> QED BY <1>1, <1>2, WordsAreCounted DEF PageKinds

\* Every step keeps the types of the ghosts.
LEMMA GhostTypesKept ==
  ASSUME EditorTypes, GhostTypes, [PageNext]_pageVars
  PROVE  GhostTypes'
<1>1. \A u \in Writers : /\ editor[u] \in EditorWith(typed) /\ editor[u].text \subseteq typed
                         /\ editor[u].visit \in Nat /\ editor[u].blind \in BOOLEAN
  BY DEF EditorTypes, EditorWith
<1>2. inbox # <<>> => Head(inbox).by \in Writers /\ Head(inbox).text \subseteq typed
  <2>1. inbox # <<>> => Head(inbox) \in RequestWith(typed)
    BY DEF EditorTypes
  <2> QED BY <2>1 DEF RequestWith
<1>3. typed \subseteq Word /\ page \subseteq Word
  BY DEF GhostTypes, EditorTypes
<1>4. \A k \in PageKinds : SpendPage(k) => pageLeft' \in [PageKinds -> Nat] /\ pageLeft'["words"] <= MaxWords
  BY SpendPageTypes DEF GhostTypes
<1>5. ASSUME NEW u \in Writers, Visit(u) PROVE GhostTypes'
  BY <1>4, <1>5 DEF Visit, GhostTypes, PageKinds
<1>6. ASSUME NEW u \in Writers, Type(u) PROVE GhostTypes'
  <2>1. SpendPage("words") /\ typed' = typed \cup {NewWord(u)} /\ UNCHANGED <<lost, misheard>>
    BY <1>6 DEF Type
  <2>2. pageLeft["words"] \in 1..MaxWords
    BY <2>1, WordsAreCounted DEF SpendPage, GhostTypes, PageKinds
  <2>3. NewWord(u) \in Word
    BY <1>1, <2>2 DEF NewWord, Word
  <2> QED BY <1>4, <2>1, <2>3 DEF GhostTypes, PageKinds
<1>7. ASSUME NEW u \in Writers, Save(u) \/ Notice(u) PROVE GhostTypes'
  BY <1>7 DEF Save, Notice, GhostTypes
<1>8. ASSUME NEW u \in Writers, GoBack(u) PROVE GhostTypes'
  <2>1. /\ lost' = lost \cup (editor[u].text \ editor[u].sent) /\ misheard' \subseteq misheard \cup {u}
        /\ UNCHANGED <<typed, pageLeft>>
    BY <1>8 DEF GoBack
  <2> QED BY <1>1, <1>3, <2>1 DEF GhostTypes
<1>9. ASSUME NEW u \in Writers, HideApp(u) \/ RemovePage(u) \/ Expire(u) PROVE GhostTypes'
  <2>1. \E k \in PageKinds : SpendPage(k)
    BY <1>9 DEF HideApp, RemovePage, Expire, PageKinds
  <2>2. UNCHANGED <<typed, lost>> /\ misheard' \subseteq misheard \cup {u}
    BY <1>9 DEF HideApp, RemovePage, Expire
  <2> QED BY <1>4, <2>1, <2>2 DEF GhostTypes
<1>10. ASSUME NEW o \in orphans, OrphanSave(o) PROVE GhostTypes'
  BY <1>10 DEF OrphanSave, GhostTypes
<1>11. CASE LoadPage
  <2>1. inbox # <<>> /\ UNCHANGED <<typed, misheard, pageLeft>>
    BY <1>11 DEF LoadPage, First
  <2>2. lost' = lost \/ lost' = lost \cup (editor[Head(inbox).by].text \ page)
    BY <1>11 DEF LoadPage
  <2> QED BY <1>1, <1>2, <1>3, <2>1, <2>2 DEF GhostTypes
<1>12. CASE LoadPageFails
  <2>1. inbox # <<>> /\ SpendPage("failures") /\ UNCHANGED <<typed, misheard>>
    BY <1>12 DEF LoadPageFails, First
  <2>2. lost' = lost \/ lost' = lost \cup (editor[Head(inbox).by].text \ page)
    BY <1>12 DEF LoadPageFails
  <2> QED BY <1>1, <1>2, <1>3, <1>4, <2>1, <2>2 DEF GhostTypes, PageKinds
<1>13. CASE SavePage
  <2>1. lost' = (lost \ page') \cup Overwritten(Head(inbox)) /\ UNCHANGED <<typed, misheard, pageLeft>>
    BY <1>13 DEF SavePage
  <2> QED BY <1>3, <2>1 DEF Overwritten, GhostTypes
<1>14. CASE SaveFails
  <2>1. inbox # <<>> /\ SpendPage("failures") /\ lost' = lost \cup (Head(inbox).text \ page) /\ UNCHANGED <<typed, misheard>>
    BY <1>14 DEF SaveFails, First
  <2> QED BY <1>2, <1>3, <1>4, <2>1 DEF GhostTypes, PageKinds
<1>15. CASE DeletePage
  BY <1>15 DEF DeletePage, GhostTypes
<1>16. CASE HandleEditing
  BY <1>16 DEF HandleEditing, GhostTypes
<1>17. CASE StopEdit
  BY <1>17 DEF StopEdit, GhostTypes
<1>18. CASE PresenceFails
  <2>1. inbox # <<>> /\ SpendPage("failures") /\ misheard' = misheard \cup {Head(inbox).by} /\ UNCHANGED <<typed, lost>>
    BY <1>18 DEF PresenceFails, First
  <2> QED BY <1>2, <1>4, <2>1 DEF GhostTypes, PageKinds
<1>19. CASE UNCHANGED pageVars
  BY <1>19 DEF pageVars, GhostTypes
<1> QED BY <1>5, <1>6, <1>7, <1>8, <1>9, <1>10, <1>11, <1>12, <1>13, <1>14, <1>15, <1>16, <1>17, <1>18, <1>19 DEF PageNext

\* They hold at first.
LEMMA GhostTypesInit ==
  ASSUME PageInit
  PROVE  GhostTypes
<1>1. typed = {} /\ lost = {} /\ misheard = {} /\ pageLeft \in PageBudgets
  BY DEF PageInit
<1> QED BY <1>1, CountedPages DEF GhostTypes

\* With EditorTypes they are those of the variables.
LEMMA PageTypesAre ==
  ASSUME EditorTypes, GhostTypes
  PROVE  PageTypeOK
<1>1. page \subseteq typed /\ typed \subseteq Word /\ there \in BOOLEAN /\ tracker \subseteq Writers
      /\ notes \in [Writers -> Seq(SUBSET Writers)]
  BY DEF EditorTypes, GhostTypes
<1>2. editor \in [Writers -> EditorState]
  <2>1. EditorWith(typed) \subseteq EditorState
    BY <1>1 DEF EditorWith, EditorState
  <2>2. editor \in [Writers -> EditorWith(typed)]
    BY DEF EditorTypes
  <2> QED BY <2>1, <2>2
<1>3. {there} \subseteq BOOLEAN
  BY <1>1, Zenon
<1> QED BY <1>1, <1>2, <1>3 DEF GhostTypes, PageTypeOK

\* Every variable of the apps of a room has its type: the tabs of ChatRoom.tsx, the
\* polls of App.tsx and main.go, and the page of page-editor.component.ts and
\* NatsHandler.java.
THEOREM AppsTypeCorrect ==
  PageSpec /\ PollsSpec /\ TabsSpec => []PageTypeOK /\ []PollsTypeOK /\ []TabsTypeOK
<1>1. PageSpec => []PageTypeOK
  <2>1. EditorInv /\ [PageNext]_pageVars => EditorInv'
    BY PageInvKept
  <2>2. EditorInv => EditorTypes
    BY DEF EditorInv
  <2> QED BY <2>1, <2>2, PageStarts, GhostTypesInit, GhostTypesKept, PageTypesAre, PTL DEF PageSpec
<1>2. PollsSpec => []PollsTypeOK
  BY PollShapeInit, PollShapeKept, PollShapeTypes, PTL DEF PollsSpec
<1>3. TabsSpec => []TabsTypeOK
  <2>1. TabsTypes => TabsTypeOK
    BY DEF TabsTypes
  <2> QED BY <2>1, TabsTypesInit, TabsTypesKept, PTL DEF TabsSpec
<1> QED BY <1>1, <1>2, <1>3
=============================================================================
