---------------------------- MODULE Parts_proofs ----------------------------
(***************************************************************************)
(* What is proved of each part holds of all of them in one specification:  *)
(* a step of one leaves the others alone.  Every variable has its type.    *)
(***************************************************************************)
EXTENDS Parts, Messages_proofs, InstalledApps_proofs, WebClient_proofs

(***************************************************************************)
(* PresenceView.                                                           *)
(***************************************************************************)
\* A question has a number, and there are finitely many of them to choose a new
\* number from.
AskedOf == [n : Nat, read : BOOLEAN, list : [People -> Status], stale : SUBSET People]
Owing == [user : People, status : Status, no : Nat]
PresenceTypes ==
  /\ status \in [People -> Status] /\ shown \in [People -> Status]
  /\ diffs \in Seq(Diff)
  /\ inRoom \in BOOLEAN /\ linked \in BOOLEAN /\ cold \in BOOLEAN
  /\ blurred \subseteq People /\ doubted \subseteq People /\ lagging \subseteq People
  /\ unsent \subseteq Owing
  /\ questions \subseteq AskedOf /\ IsFiniteSet(questions)
  /\ changes \in 0..MaxChanges /\ presenceFaults \in 0..MaxPresenceFaults

\* A question gets a number that no other one has.
LEMMA QuestionIs ==
  ASSUME PresenceTypes
  PROVE  Question \in AskedOf
<1> DEFINE f == [q \in questions |-> q.n]
           k == CHOOSE k \in 0..Cardinality(questions) : \A q \in questions : q.n # k
<1>1. IsFiniteSet(questions) /\ f \in [questions -> Int] /\ \A q \in questions : f[q] = q.n
  BY DEF PresenceTypes, AskedOf
<1> HIDE DEF f
<1>2. Cardinality(questions) \in Nat /\ \E n \in 0..(0 + Cardinality(questions)) : \A q \in questions : f[q] # n
  BY <1>1, FreshNumber
<1>3. \E n \in 0..Cardinality(questions) : \A q \in questions : q.n # n
  BY <1>1, <1>2
<1>4. k \in 0..Cardinality(questions)
  BY <1>3
<1>5. k \in Nat
  BY <1>2, <1>4
<1>6. AllOffline \in [People -> Status]
  BY DEF AllOffline, Status
<1>7. Question = [n |-> k, read |-> FALSE, list |-> AllOffline, stale |-> {}]
  BY DEF Question
<1> HIDE DEF k
<1> QED BY <1>5, <1>6, <1>7 DEF AskedOf

\* Every step keeps the types.
LEMMA PresenceTypesKept ==
  ASSUME PresenceTypes, [PresenceNext]_presenceVars
  PROVE  PresenceTypes'
<1>1. /\ status \in [People -> Status] /\ shown \in [People -> Status]
      /\ diffs \in Seq(Diff)
      /\ inRoom \in BOOLEAN /\ linked \in BOOLEAN /\ cold \in BOOLEAN
      /\ blurred \subseteq People /\ doubted \subseteq People /\ lagging \subseteq People /\ unsent \subseteq Owing
      /\ questions \subseteq AskedOf /\ IsFiniteSet(questions)
      /\ changes \in 0..MaxChanges /\ presenceFaults \in 0..MaxPresenceFaults /\ MaxChanges \in Nat /\ MaxPresenceFaults \in Nat
  BY PresenceParameters DEF PresenceTypes
<1>2. Asking => cold' \in BOOLEAN /\ questions' \subseteq AskedOf /\ IsFiniteSet(questions')
  <2> SUFFICES ASSUME Asking PROVE cold' \in BOOLEAN /\ questions' \subseteq AskedOf /\ IsFiniteSet(questions')
    OBVIOUS
  <2>1. questions' = questions \cup {Question} /\ cold' = FALSE
    BY DEF Asking
  <2>2. IsFiniteSet(questions')
    BY <1>1, <2>1, FS_AddElement
  <2> QED BY <1>1, <2>1, <2>2, QuestionIs
<1>3. \A q \in questions : IsFiniteSet(questions \ {q})
  BY <1>1, FS_RemoveElement
<1>4. ASSUME NEW u \in People, NEW s \in Status, Change(u, s) PROVE PresenceTypes'
  <2> DEFINE Inquiry(q) == IF q.read THEN [q EXCEPT !.stale = @ \cup {u}] ELSE q
  <2>1. /\ changes' = changes + 1 /\ changes < MaxChanges /\ status' = [status EXCEPT ![u] = s]
        /\ unsent' = unsent \cup {[user |-> u, status |-> s, no |-> changes]} /\ lagging' = lagging \cup {u}
        /\ questions' = {Inquiry(q) : q \in questions}
        /\ UNCHANGED <<diffs, inRoom, linked, shown, blurred, doubted, cold, presenceFaults>>
    BY <1>4 DEF Change
  <2>2. \A q \in questions : Inquiry(q) \in AskedOf
    <3> TAKE q \in questions
    <3>1. q \in AskedOf
      BY <1>1
    <3>2. [q EXCEPT !.stale = @ \cup {u}] \in AskedOf
      BY <3>1 DEF AskedOf
    <3> QED BY <3>1, <3>2
  <2> HIDE DEF Inquiry
  <2>3. IsFiniteSet(questions')
    <3>1. IsFiniteSet({Inquiry(q) : q \in questions})
      <4> DEFINE f == [q \in questions |-> Inquiry(q)]
      <4>1. f \in Surjection(questions, {Inquiry(q) : q \in questions})
        BY DEF Surjection
      <4> HIDE DEF f
      <4> QED BY <1>1, <4>1, FS_Surjection
    <3> QED BY <2>1, <3>1
  <2>4. questions' \subseteq AskedOf
    BY <2>1, <2>2
  <2>5. [user |-> u, status |-> s, no |-> changes] \in Owing
    BY <1>1 DEF Owing
  <2>6. unsent' \subseteq Owing /\ lagging' \subseteq People
    BY <1>1, <2>1, <2>5
  <2>7. status' \in [People -> Status] /\ changes' \in 0..MaxChanges
    BY <1>1, <2>1
  <2> QED BY <1>1, <2>1, <2>3, <2>4, <2>6, <2>7 DEF PresenceTypes
<1>5. CASE JoinRoom
  <2>1. inRoom' = TRUE /\ Asking /\ UNCHANGED <<status, unsent, lagging, diffs, linked, shown, blurred, doubted, changes, presenceFaults>>
    BY <1>5 DEF JoinRoom, service
  <2> QED BY <1>1, <1>2, <2>1 DEF PresenceTypes
<1>6. CASE Rejoin
  <2>1. /\ linked' = TRUE /\ (Asking \/ UNCHANGED <<questions, cold>>)
        /\ UNCHANGED <<status, unsent, lagging, diffs, inRoom, shown, blurred, doubted, changes, presenceFaults>>
    BY <1>6 DEF Rejoin, service
  <2>2. cold' \in BOOLEAN /\ questions' \subseteq AskedOf /\ IsFiniteSet(questions')
    BY <1>1, <1>2, <2>1
  <2> QED BY <1>1, <2>1, <2>2 DEF PresenceTypes
<1>7. CASE LinkLost
  <2>1. /\ presenceFaults < MaxPresenceFaults /\ presenceFaults' = presenceFaults + 1 /\ linked' = FALSE /\ diffs' = <<>>
        /\ questions' = {q \in questions : ~q.read} /\ UNCHANGED <<status, unsent, lagging, inRoom, shown, blurred, doubted, cold, changes>>
    BY <1>7 DEF LinkLost, service
  <2>2. questions' \subseteq questions
    BY <2>1
  <2>3. IsFiniteSet(questions')
    BY <1>1, <2>2, FS_Subset
  <2>4. diffs' \in Seq(Diff) /\ presenceFaults' \in 0..MaxPresenceFaults
    BY <1>1, <2>1
  <2>5. questions' \subseteq AskedOf
    BY <1>1, <2>2
  <2> QED BY <1>1, <2>1, <2>3, <2>4, <2>5 DEF PresenceTypes
<1>8. CASE DiffArrives
  <2>1. /\ diffs # <<>> /\ shown' = [shown EXCEPT ![diffs[1].user] = diffs[1].status] /\ diffs' = Tail(diffs)
        /\ blurred' = blurred \ {diffs[1].user}
        /\ UNCHANGED <<status, unsent, lagging, inRoom, linked, questions, doubted, cold, changes, presenceFaults>>
    BY <1>8 DEF DiffArrives, service
  <2>2. diffs[1] \in Diff /\ diffs' \in Seq(Diff)
    BY <1>1, <2>1
  <2>3. diffs[1].status \in Status
    BY <2>2 DEF Diff
  <2>4. shown' \in [People -> Status] /\ blurred' \subseteq People
    BY <1>1, <2>1, <2>3
  <2> QED BY <1>1, <2>1, <2>2, <2>4 DEF PresenceTypes
<1>9. ASSUME NEW q \in questions, NEW list \in [People -> Status], ListPeople(q, list) PROVE PresenceTypes'
  <2> DEFINE a == [q EXCEPT !.read = TRUE, !.list = list, !.stale = lagging]
  <2>1. questions' = (questions \ {q}) \cup {a}
        /\ UNCHANGED <<status, unsent, lagging, diffs, inRoom, linked, shown, blurred, doubted, cold, changes, presenceFaults>>
    BY <1>9 DEF ListPeople, service
  <2>2. q \in AskedOf
    BY <1>1
  <2>3. a \in AskedOf
    BY <1>1, <2>2 DEF AskedOf
  <2> HIDE DEF a
  <2>4. IsFiniteSet(questions')
    BY <1>3, <2>1, FS_AddElement
  <2> QED BY <1>1, <2>1, <2>3, <2>4 DEF PresenceTypes
<1>10. ASSUME NEW q \in questions, ListComes(q) PROVE PresenceTypes'
  <2>1. /\ questions' = questions \ {q} /\ shown' = q.list /\ blurred' = q.stale /\ cold' = FALSE
        /\ doubted' = {u \in doubted : Expected(u)}
        /\ UNCHANGED <<status, unsent, lagging, diffs, inRoom, linked, changes, presenceFaults>>
    BY <1>10 DEF ListComes, service
  <2>2. q \in AskedOf
    BY <1>1
  <2>3. q.list \in [People -> Status] /\ q.stale \subseteq People
    BY <2>2 DEF AskedOf
  <2>4. doubted' \subseteq People
    BY <1>1, <2>1
  <2> QED BY <1>1, <1>3, <2>1, <2>3, <2>4 DEF PresenceTypes
<1>11. ASSUME NEW q \in questions, NoListComes(q) PROVE PresenceTypes'
  <2>1. /\ questions' = questions \ {q} /\ cold' = TRUE
        /\ presenceFaults' = presenceFaults \/ (presenceFaults < MaxPresenceFaults /\ presenceFaults' = presenceFaults + 1)
        /\ UNCHANGED <<status, unsent, lagging, diffs, inRoom, linked, shown, blurred, doubted, changes>>
    BY <1>11 DEF NoListComes, service
  <2>2. presenceFaults' \in 0..MaxPresenceFaults
    BY <1>1, <2>1
  <2> QED BY <1>1, <1>3, <2>1, <2>2 DEF PresenceTypes
<1>12. CASE UNCHANGED presenceVars
  BY <1>1, <1>12 DEF presenceVars, service, PresenceTypes
<1>13. ASSUME NEW d \in unsent, DiffPublished(d) \/ DiffNeverPublished(d) PROVE PresenceTypes'
  <2> DEFINE f == [user |-> d.user, status |-> d.status]
  <2>1. /\ unsent' = unsent \ {d} /\ (diffs' = diffs \/ diffs' = Append(diffs, f))
        /\ (doubted' = doubted \/ doubted' = doubted \cup {d.user})
        /\ UNCHANGED <<status, lagging, inRoom, linked, shown, questions, blurred, cold, changes, presenceFaults>>
    BY <1>13 DEF DiffPublished, DiffNeverPublished
  <2>2. d.user \in People /\ f \in Diff
    BY <1>1 DEF Owing, Diff
  <2> HIDE DEF f
  <2>3. Append(diffs, f) \in Seq(Diff)
    BY <1>1, <2>2
  <2>4. diffs' \in Seq(Diff) /\ doubted' \subseteq People
    BY <1>1, <2>1, <2>2, <2>3
  <2> QED BY <1>1, <2>1, <2>4 DEF PresenceTypes
<1>14. ASSUME NEW u \in People, HeardEverywhere(u) PROVE PresenceTypes'
  BY <1>1, <1>14 DEF HeardEverywhere, PresenceTypes
<1> QED BY <1>4, <1>5, <1>6, <1>7, <1>8, <1>9, <1>10, <1>11, <1>12, <1>13, <1>14
  DEF PresenceNext

\* They hold at first.
LEMMA PresenceTypesInit ==
  ASSUME PresenceInit
  PROVE  PresenceTypes
<1>1. AllOffline \in [People -> Status]
  BY DEF AllOffline, Status
<1>2. IsFiniteSet({})
  BY FS_EmptySet
<1>3. <<>> \in Seq(Diff) /\ 0 \in 0..MaxChanges /\ 0 \in 0..MaxPresenceFaults
  BY PresenceParameters
<1>4. /\ status \in [People -> Status] /\ diffs = <<>> /\ inRoom = FALSE /\ linked = TRUE /\ shown = AllOffline
      /\ questions = {} /\ blurred = {} /\ doubted = {} /\ lagging = {} /\ unsent = {} /\ cold = FALSE /\ changes = 0 /\ presenceFaults = 0
  BY DEF PresenceInit
<1> QED BY <1>1, <1>2, <1>3, <1>4 DEF PresenceTypes

\* They are those of the variables.
LEMMA PresenceTypesAre ==
  ASSUME PresenceTypes
  PROVE  PresenceTypeOK
<1>1. {inRoom, linked, cold} \subseteq BOOLEAN
  BY Zenon DEF PresenceTypes
<1> QED BY <1>1 DEF PresenceTypes, PresenceTypeOK, AskedOf, Diff, Owing

\* Every variable of the statuses shown (PresenceManager.ts) has its type.
THEOREM PresenceTypeCorrect == PresenceSpec => []PresenceTypeOK
BY PresenceTypesInit, PresenceTypesKept, PresenceTypesAre, PTL DEF PresenceSpec

-----------------------------------------------------------------------------
(***************************************************************************)
(* All the parts.                                                          *)
(***************************************************************************)

\* What each part allows.
EverySpec ==
  /\ ChatSpec /\ DecryptSpec /\ SessionSpec /\ PresenceSpec
  /\ BoardSpec /\ PageSpec /\ SearchSpec /\ MarketSpec
  /\ AttachSpec /\ TranslationsSpec /\ PollsSpec /\ TabsSpec
  /\ DmSpec /\ ReadSpec /\ ConnectionSpec /\ PersistSpec

\* Each part starts as it may.
LEMMA WebStarts ==
  ASSUME WebInit
  PROVE
    /\ ChatInit /\ DecryptInit /\ SessionInit /\ PresenceInit
    /\ BoardInit /\ PageInit /\ SearchInit /\ MarketInit
    /\ AttachInit /\ TranslationsInit /\ PollsInit /\ TabsInit
    /\ DmInit /\ ReadInit /\ ConnectionInit /\ PersistInit
BY DEF WebInit

\* A step is one of each part, or leaves it alone.
LEMMA WebSteps ==
  ASSUME [WebNext]_webVars
  PROVE
    /\ [ChatNext]_chatVars
    /\ [DecryptNext]_decryptVars
    /\ [SessionNext]_sessionVars
    /\ [PresenceNext]_presenceVars
    /\ [BoardNext]_boardVars
    /\ [PageNext]_pageVars
    /\ [SearchNext]_searchVars
    /\ [MarketNext]_marketVars
    /\ [AttachNext]_attachVars
    /\ [TranslationsNext]_translationVars
    /\ [PollsNext]_pollVars
    /\ [TabsNext]_tabVars
    /\ [DmNext]_dmVars
    /\ [ReadNext]_readVars
    /\ [ConnectionNext]_connectionVars
    /\ [PersistNext]_persistVars
BY DEF WebNext, webVars

\* Each behaviour of all the parts is one of every part.
THEOREM WebIsEvery == WebSpec => EverySpec
BY WebStarts, WebSteps, PTL
   DEF WebSpec, EverySpec, ChatSpec, DecryptSpec, SessionSpec, PresenceSpec, BoardSpec, PageSpec, SearchSpec,
       MarketSpec, AttachSpec, TranslationsSpec, PollsSpec, TabsSpec, DmSpec, ReadSpec, ConnectionSpec, PersistSpec

\* Every variable of the web client, of the room apps, of presence-service and of
\* persist-worker has its type, whatever the parts do.
THEOREM WebTypeCorrect == WebSpec => []WebTypeOK
<1>1. WebSpec =>
        /\ []ChatTypeOK /\ []DecryptTypeOK /\ []SessionTypeOK /\ []PresenceTypeOK
        /\ []BoardTypeOK /\ []PageTypeOK /\ []SearchTypeOK /\ []MarketTypeOK
        /\ []AttachTypeOK /\ []TranslationsTypeOK /\ []PollsTypeOK /\ []TabsTypeOK
        /\ []DmTypeOK /\ []ReadTypeOK /\ []ConnectionTypeOK /\ []PersistTypeOK
  BY WebIsEvery, ChatTypeCorrect, DecryptTypeCorrect, SessionTypeCorrect, PresenceTypeCorrect, BoardTypeCorrect,
     AppsTypeCorrect, FieldTypeCorrect, TranslationsTypeCorrect, DmTypeCorrect, ReadTypeCorrect,
     ConnectionTypeCorrect, PersistTypeCorrect DEF EverySpec
<1>2. /\ ChatTypeOK /\ DecryptTypeOK /\ SessionTypeOK /\ PresenceTypeOK
      /\ BoardTypeOK /\ PageTypeOK /\ SearchTypeOK /\ MarketTypeOK
      /\ AttachTypeOK /\ TranslationsTypeOK /\ PollsTypeOK /\ TabsTypeOK
      /\ DmTypeOK /\ ReadTypeOK /\ ConnectionTypeOK /\ PersistTypeOK
      => WebTypeOK
  BY DEF WebTypeOK
<1> QED BY <1>1, <1>2, PTL

\* All that is said of the parts one by one holds when they are taken together: what
\* the browser shows is right, and what the services keep is.
THEOREM WebIsRight ==
  WebSpec =>
    /\ []EachShownOnce /\ []DeletedStaysDeleted /\ []NoneUnreadInView /\ []TriedAreDecrypted
    /\ []SessionSettles /\ []StatusesSettle /\ []BoardsAgree /\ VersionsGrow
    /\ []TextOfOneAnswer /\ []AppsSettle /\ []FieldSettles /\ []DmsReachTheUser
    /\ []PositionsPersisted /\ []SweptByOne /\ []PresenceIsRight /\ []TablesFollowStream
BY WebIsEvery, EachOnce, Deleted, NoneUnread, TriedShown, SettlesDown, ShownIsKnown, Agreement, Growing,
   TextsHold, AppsRest, FieldRests, DmsAreRight, ReportedIsKept, OneSweeper, Presence, TablesFollow DEF EverySpec
=============================================================================
