--------------------------- MODULE DirectMessages ---------------------------
(***************************************************************************)
(* The direct messages of one user: which of them his tabs list, and the   *)
(* membership without which the fan-out service sends him none.  A tab     *)
(* finds them in the browser's storage, in the answer of history-service   *)
(* and in what arrives unread.  Joining is for both users; a tab that is   *)
(* closed leaves the rooms that were opened in it, for the user and not    *)
(* for the tab, and presence-service takes a user without a connection out *)
(* of all his rooms.                                                       *)
(***************************************************************************)
EXTENDS Naturals, FiniteSets

CONSTANTS Dms,       \* the rooms of the user and each of the others
          DmTabs,    \* the tabs of the user
          DmBudgets  \* bound: how often each event happens

DmKinds == {"start", "peer", "say", "select", "close", "drop", "failure"}

ASSUME CountedDms == DmBudgets \subseteq [DmKinds -> Nat]

VARIABLES
  dmTabs,    \* what each tab has
  dmsStored, \* localStorage, which the tabs share
  present,   \* the rooms the user is a member of, at the fan-out service
  said,      \* the rooms in which a message was sent
  persisted, \* those of which a message is in the database
  notices,   \* messages on their way to a tab
  dmAnswers, \* answers to chat.dms on their way
  unseen,    \* ghost: rooms with a message that a tab could not learn of
  lapsed,    \* a connection of the user has ended, and presence-service may sweep him
  leaving,   \* the room.leave messages of a sweep, under way to room-service
  taken,     \* ghost: rooms a sweep or a tab that closed took from the user, not joined since
  dmsLeft

dmVars == <<dmTabs, dmsStored, present, said, persisted, notices, dmAnswers, unseen, lapsed, leaving, taken, dmsLeft>>
presenceOfUser == <<lapsed, leaving>>

\* dms: dmRooms.  entered: dmRoomsJoinedRef.  viewed: joined by ChatClient.
DmTab == [open : BOOLEAN, up : BOOLEAN, asking : BOOLEAN, dms : SUBSET Dms, entered : SUBSET Dms, viewed : SUBSET Dms]
ClosedTab == [open |-> FALSE, up |-> FALSE, asking |-> FALSE, dms |-> {}, entered |-> {}, viewed |-> {}]
SpendDm(kind) == dmsLeft[kind] > 0 /\ dmsLeft' = [dmsLeft EXCEPT ![kind] = @ - 1]

DmInit ==
  /\ dmTabs = [t \in DmTabs |-> ClosedTab] /\ dmsStored = {} /\ present = {} /\ said = {} /\ persisted = {}
  /\ notices = {} /\ dmAnswers = {} /\ unseen = [t \in DmTabs |-> {}] /\ taken = {}
  /\ lapsed = FALSE /\ leaving = {} /\ dmsLeft \in DmBudgets

\* The list of a tab becomes ds: it is stored, and when the tab is connected the
\* rooms that are new to it are joined.  next is the tab but for that.
Listing(t, next, ds) ==
  /\ dmTabs' = [dmTabs EXCEPT ![t] = [next EXCEPT !.dms = ds, !.entered = IF next.up THEN @ \cup ds ELSE @]]
  /\ dmsStored' = ds
NewDms(next, ds) == IF next.up THEN ds \ next.entered ELSE {}
JoinDms(rooms) == present' = present \cup rooms /\ taken' = taken \ rooms
TakeDms(rooms) == present' = present \ rooms /\ taken' = taken \cup (rooms \cap present)

\* The page is loaded, and lists what is stored.  What was said before is for
\* the answer of history-service.
OpenDmTab(t) ==
  /\ ~dmTabs[t].open
  /\ Listing(t, [ClosedTab EXCEPT !.open = TRUE], dmsStored)
  /\ unseen' = [unseen EXCEPT ![t] = said \ dmsStored]
  /\ UNCHANGED <<present, said, persisted, notices, dmAnswers, presenceOfUser, dmsLeft, taken>>

\* The client's rooms are joined again, those of the list only if they never were.
Connects(t, entering) ==
  /\ dmTabs[t].open /\ ~dmTabs[t].up
  /\ LET next == [dmTabs[t] EXCEPT !.up = TRUE, !.asking = TRUE] IN
       IF entering
         THEN Listing(t, next, next.dms) /\ JoinDms(NewDms(next, next.dms) \cup next.viewed)
         ELSE dmTabs' = [dmTabs EXCEPT ![t] = next] /\ dmsStored' = next.dms /\ JoinDms(next.viewed)
  /\ UNCHANGED <<said, persisted, notices, dmAnswers, unseen, presenceOfUser, dmsLeft>>
\* A bug: the rooms found in the storage are listed, and not joined.
DmTabConnectsOnly(t) == Connects(t, FALSE)
DmTabConnects(t) == Connects(t, TRUE)

\* chat.dms, once for every connection: history-service reads the database ...
DmsRead(t) ==
  /\ dmTabs[t].asking /\ dmTabs' = [dmTabs EXCEPT ![t].asking = FALSE]
  /\ \E ok \in BOOLEAN :
       /\ IF ok THEN UNCHANGED dmsLeft ELSE SpendDm("failure")
       /\ dmAnswers' = dmAnswers \cup {[tab |-> t, found |-> IF ok THEN persisted ELSE {}]}
       /\ unseen' = IF ok THEN [unseen EXCEPT ![t] = @ \ persisted] ELSE unseen
  /\ UNCHANGED <<dmsStored, present, said, persisted, notices, presenceOfUser, taken>>

\* A bug: the answer replaces the list.
DmsListedOnly(a) ==
  /\ a \in dmAnswers /\ dmAnswers' = dmAnswers \ {a}
  /\ Listing(a.tab, dmTabs[a.tab], a.found) /\ JoinDms(NewDms(dmTabs[a.tab], a.found))
  /\ UNCHANGED <<said, persisted, notices, unseen, presenceOfUser, dmsLeft>>
\* ... and the answer is merged into the list.
DmsListed(a) ==
  /\ a \in dmAnswers /\ dmAnswers' = dmAnswers \ {a}
  /\ LET ds == dmTabs[a.tab].dms \cup a.found IN
       Listing(a.tab, dmTabs[a.tab], ds) /\ JoinDms(NewDms(dmTabs[a.tab], ds))
  /\ UNCHANGED <<said, persisted, notices, unseen, presenceOfUser, dmsLeft>>

\* handleStartDm joins for both, and ChatRoom joins the room it shows.
StartDm(t) ==
  /\ dmTabs[t].up /\ SpendDm("start")
  /\ \E d \in Dms :
       /\ Listing(t, [dmTabs[t] EXCEPT !.viewed = @ \cup {d}], dmTabs[t].dms \cup {d})
       /\ JoinDms({d})
  /\ UNCHANGED <<said, persisted, notices, dmAnswers, unseen, presenceOfUser>>

\* A room of the list is shown: the client joins it, once.
SelectDm(t) ==
  /\ dmTabs[t].up /\ SpendDm("select")
  /\ \E d \in dmTabs[t].dms \ dmTabs[t].viewed :
       /\ dmTabs' = [dmTabs EXCEPT ![t].viewed = @ \cup {d}] /\ JoinDms({d})
  /\ UNCHANGED <<dmsStored, said, persisted, notices, dmAnswers, unseen, presenceOfUser>>

\* The other one starts a direct message, or loads a page that lists it.
PeerStarts ==
  /\ SpendDm("peer") /\ \E d \in Dms : JoinDms({d})
  /\ UNCHANGED <<dmTabs, dmsStored, said, persisted, notices, dmAnswers, unseen, presenceOfUser>>

\* The other one writes: the connected tabs are told if the user is a member.
PeerWrites ==
  /\ SpendDm("say")
  /\ \E d \in Dms :
       LET told == {t \in DmTabs : dmTabs[t].up /\ d \in present} IN
       /\ said' = said \cup {d}
       /\ notices' = notices \cup {[tab |-> t, dm |-> d] : t \in told}
       /\ unseen' = [t \in DmTabs |-> IF t \in told THEN unseen[t] ELSE unseen[t] \cup ({d} \ dmTabs[t].dms)]
  /\ UNCHANGED <<dmTabs, dmsStored, present, persisted, dmAnswers, presenceOfUser, taken>>

\* The user writes in a room he has opened; a message of his own is not unread
\* in his other tabs.
UserWrites(t) ==
  /\ dmTabs[t].up /\ SpendDm("say")
  /\ \E d \in dmTabs[t].viewed :
       /\ said' = said \cup {d}
       /\ unseen' = [o \in DmTabs |-> unseen[o] \cup ({d} \ dmTabs[o].dms)]
  /\ UNCHANGED <<dmTabs, dmsStored, present, persisted, notices, dmAnswers, presenceOfUser, taken>>

\* persist-worker writes it to the database.
DmPersisted ==
  /\ \E d \in said \ persisted : persisted' = persisted \cup {d}
  /\ UNCHANGED <<dmTabs, dmsStored, present, said, notices, dmAnswers, unseen, presenceOfUser, dmsLeft, taken>>

\* The message is fetched and unread: its room is listed and joined.
NoticeComes(n) ==
  /\ n \in notices /\ notices' = notices \ {n}
  /\ LET ds == dmTabs[n.tab].dms \cup {n.dm} IN
       Listing(n.tab, dmTabs[n.tab], ds) /\ JoinDms(NewDms(dmTabs[n.tab], ds))
  /\ UNCHANGED <<said, persisted, dmAnswers, unseen, presenceOfUser, dmsLeft>>

\* Its text cannot be fetched.
NoticeFails(n) ==
  /\ n \in notices /\ notices' = notices \ {n} /\ SpendDm("failure")
  /\ unseen' = [unseen EXCEPT ![n.tab] = @ \cup ({n.dm} \ dmTabs[n.tab].dms)]
  /\ UNCHANGED <<dmTabs, dmsStored, present, said, persisted, dmAnswers, presenceOfUser, taken>>

\* What was on its way to a tab is gone with its connection.
CutOff(t, gone) ==
  /\ notices' = {n \in notices : n.tab # t} /\ dmAnswers' = {a \in dmAnswers : a.tab # t}
  /\ unseen' = [unseen EXCEPT ![t] = gone]
Unheard(t) == unseen[t] \cup {n.dm : n \in {m \in notices : m.tab = t}}
                        \cup UNION {a.found : a \in {b \in dmAnswers : b.tab = t}}

\* With a new token it is the end of the client, and the next one has joined nothing.
DmLinkDrops(t) ==
  /\ dmTabs[t].up /\ SpendDm("drop") /\ lapsed' = TRUE
  /\ \E viewed \in {dmTabs[t].viewed, {}} :
       dmTabs' = [dmTabs EXCEPT ![t] = [@ EXCEPT !.up = FALSE, !.asking = FALSE, !.viewed = viewed]]
  /\ CutOff(t, Unheard(t) \ dmTabs[t].dms)
  /\ UNCHANGED <<dmsStored, present, said, persisted, leaving, taken>>

\* beforeunload: leaveAll and publishDisconnect, if there is a connection.
CloseDmTab(t) ==
  /\ dmTabs[t].open /\ SpendDm("close")
  /\ dmTabs' = [dmTabs EXCEPT ![t] = ClosedTab] /\ CutOff(t, {})
  /\ TakeDms(IF dmTabs[t].up THEN dmTabs[t].viewed ELSE {})
  /\ lapsed' = (lapsed \/ dmTabs[t].up)
  /\ UNCHANGED <<dmsStored, said, persisted, leaving>>

\* handleUserOffline: at once behind a last disconnect, or 45 seconds behind the
\* last heartbeat; a tab may be connected again by then (LiveUserSwept).  The
\* rooms are those of the index of the instance.
SweepUser ==
  /\ lapsed /\ lapsed' = FALSE
  /\ \E rooms \in SUBSET present : leaving' = leaving \cup rooms
  /\ UNCHANGED <<dmTabs, dmsStored, present, said, persisted, notices, dmAnswers, unseen, dmsLeft, taken>>

UserTakenOut(d) ==
  /\ d \in leaving /\ leaving' = leaving \ {d} /\ TakeDms({d})
  /\ UNCHANGED <<dmTabs, dmsStored, said, persisted, notices, dmAnswers, unseen, lapsed, dmsLeft>>

DmNext ==
  \/ PeerStarts \/ PeerWrites \/ DmPersisted \/ SweepUser \/ \E d \in leaving : UserTakenOut(d)
  \/ \E t \in DmTabs :
       \/ OpenDmTab(t) \/ DmTabConnects(t) \/ DmsRead(t) \/ StartDm(t) \/ SelectDm(t) \/ UserWrites(t)
       \/ DmLinkDrops(t) \/ CloseDmTab(t)
  \/ \E a \in dmAnswers : DmsListed(a)
  \/ \E n \in notices : NoticeComes(n) \/ NoticeFails(n)

DmSpec == DmInit /\ [][DmNext]_dmVars
-----------------------------------------------------------------------------
DmTypeOK ==
  /\ dmTabs \in [DmTabs -> DmTab] /\ dmsStored \cup present \cup said \cup taken \cup leaving \subseteq Dms /\ persisted \subseteq said
  /\ notices \subseteq [tab : DmTabs, dm : Dms] /\ dmAnswers \subseteq [tab : DmTabs, found : SUBSET Dms]
  /\ unseen \in [DmTabs -> SUBSET Dms] /\ lapsed \in BOOLEAN /\ dmsLeft \in [DmKinds -> Nat]

Quiet(t) == dmTabs[t].up /\ ~dmTabs[t].asking /\ ~\E a \in dmAnswers : a.tab = t

\* A connected tab that waits for no answer and no message lists every room of
\* which a message is in the database, whatever was read, told, stored by the
\* other tab and cut off in between; unless the list could not be read when the
\* message was there, and the message did not reach the tab.
DmsAreListed ==
  \A t \in DmTabs : (Quiet(t) /\ ~\E n \in notices : n.tab = t) => persisted \subseteq dmTabs[t].dms \cup unseen[t]

\* The user is a member of every room a connected tab lists, so that messages
\* reach him there; unless the room was taken from him, by a sweep or by another
\* tab in which it was opened and which was closed, and nobody has joined it since.
DmsAreJoined == \A t \in DmTabs : dmTabs[t].up => dmTabs[t].dms \subseteq present \cup taken

\* Direct messages: every one is listed, and those listed are delivered.
DmsReachTheUser == DmsAreListed /\ DmsAreJoined
=============================================================================
