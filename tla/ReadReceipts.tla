---------------------------- MODULE ReadReceipts ----------------------------
(***************************************************************************)
(* How far a user has read in a room: the tabs that report it three        *)
(* seconds after the last change of what they show, the read-receipt       *)
(* service that keeps it in a bucket and writes it to the database now and *)
(* then, and what is shown of it: the line above the unread messages and   *)
(* the readers of a message.  One user, in some tabs, and one room.        *)
(***************************************************************************)
EXTENDS Integers, Sequences

CONSTANTS ReadTabs,    \* the tabs of the user
          MaxTs,       \* bound: the messages of the room, whose timestamps are 1, 2, ...
          ReadBudgets  \* bound: how often each event happens

ASSUME ReadParameters == MaxTs \in Nat \ {0}

\* No position is kept; the keys are drained, the positions not yet read.
Absent == -1
KeysDrained == -2

ReadKinds == {"say", "visit", "leave", "eye", "drop", "restart", "failure"}

ASSUME CountedReads == ReadBudgets \subseteq [ReadKinds -> Nat]

VARIABLES
  spoken,     \* the timestamp of the latest message
  screens,    \* what each tab shows and is waiting for
  reports,     \* read.update messages under way
  asks,       \* read.state requests under way
  position,   \* the bucket READ_STATE
  kept,       \* the table read_receipts
  update,     \* the report the service is handling: to be put, or put and to be marked
  dirty,      \* dirtySet
  flushing,   \* the value a transaction is writing
  forgotten,  \* ghost: the service forgot, or never knew, that a position is not written yet
  readsLeft

readVars == <<spoken, screens, reports, asks, position, kept, update, dirty, flushing, forgotten, readsLeft>>
serviceVars == <<reports, position, kept, update, dirty, flushing, forgotten>>

Ts == 1..MaxTs
Positions == {Absent} \cup 0..MaxTs
\* live: what the store has of the room.  early: the last message of the
\* history, nothing if 0.  timer: what is to be reported, nothing if 0.
Screen == [up : BOOLEAN, open : BOOLEAN, live : Seq(Ts), coming : SUBSET Ts, history : BOOLEAN, early : 0..MaxTs,
           timer : 0..MaxTs, line : Positions, eye : 0..MaxTs, read : BOOLEAN]
\* A request is for the readers of a message, or for the line: that is message 0.
ForLine == 0
\* ReadUpdate, and how far its handler is.
Update == [at : {"put", "mark"}, last : Positions]
NoUpdate == [at |-> "no", last |-> Absent]
SpendRead(kind) == readsLeft[kind] > 0 /\ readsLeft' = [readsLeft EXCEPT ![kind] = @ - 1]

\* Positions of an earlier client, which called them lastRead, may be there.
ReadInit ==
  /\ spoken = 0 /\ reports = {} /\ asks = {} /\ update = NoUpdate
  /\ dirty = FALSE /\ flushing = Absent /\ forgotten = FALSE /\ readsLeft \in ReadBudgets
  /\ \E old \in {Absent, 0, 1} : position = old /\ kept = old
  /\ screens = [t \in ReadTabs |-> [up |-> TRUE, open |-> FALSE, live |-> <<>>, coming |-> {}, history |-> FALSE,
                                    early |-> 0, timer |-> 0, line |-> Absent, eye |-> 0, read |-> FALSE]]

-----------------------------------------------------------------------------
(* A tab.                                                                   *)

\* The last message on the screen; the live ones no newer than the history are hidden.
Latest(s) ==
  LET new == {i \in DOMAIN s.live : s.live[i] > s.early} IN
  IF new = {} THEN s.early ELSE s.live[CHOOSE i \in new : \A j \in new : j <= i]
\* markRead whenever what is shown changes; the timer starts again.
MarkRead(s) == IF s.open /\ Latest(s) # 0 THEN [s EXCEPT !.timer = Latest(s)] ELSE s

Speak ==
  /\ spoken < MaxTs /\ SpendRead("say") /\ spoken' = spoken + 1
  /\ screens' = [t \in ReadTabs |-> IF screens[t].up THEN [screens[t] EXCEPT !.coming = @ \cup {spoken + 1}]
                                                     ELSE screens[t]]
  /\ UNCHANGED <<serviceVars, asks>>

\* The text of a message comes, whatever came of those before it.
TextComes(t) ==
  /\ \E k \in screens[t].coming :
       screens' = [screens EXCEPT ![t] = MarkRead([screens[t] EXCEPT !.coming = @ \ {k}, !.live = Append(@, k)])]
  /\ UNCHANGED <<spoken, serviceVars, asks, readsLeft>>

\* The effect of ChatRoom on a room that is shown, and on each new connection.
Refetched(s) == [s EXCEPT !.history = TRUE, !.early = 0, !.line = Absent]

VisitRoom(t) ==
  /\ screens[t].up /\ ~screens[t].open /\ SpendRead("visit")
  /\ screens' = [screens EXCEPT ![t] = MarkRead([Refetched(@) EXCEPT !.open = TRUE])]
  /\ asks' = asks \cup {[tab |-> t, for |-> ForLine]}
  /\ UNCHANGED <<spoken, serviceVars>>

\* The timer of the room goes on; requests about it are answered in vain.
LeaveRoom(t) ==
  /\ screens[t].open /\ SpendRead("leave")
  /\ screens' = [screens EXCEPT ![t] = [@ EXCEPT !.open = FALSE, !.history = FALSE, !.early = 0, !.line = Absent,
                                                 !.eye = 0, !.read = FALSE]]
  /\ asks' = {q \in asks : q.tab # t}
  /\ UNCHANGED <<spoken, serviceVars>>

\* The history has what was stored by then; one that fails changes nothing.
HistoryShown(t) ==
  /\ screens[t].history
  /\ \E n \in 0..spoken : screens' = [screens EXCEPT ![t] = MarkRead([@ EXCEPT !.history = FALSE, !.early = n])]
  /\ UNCHANGED <<spoken, serviceVars, asks, readsLeft>>

\* Three seconds later; what is sent while the link is down may be lost.
TimerFires(t) ==
  /\ screens[t].timer # 0
  /\ screens' = [screens EXCEPT ![t].timer = 0]
  /\ \/ reports' = reports \cup {screens[t].timer}
     \/ ~screens[t].up /\ UNCHANGED reports
  /\ UNCHANGED <<spoken, asks, position, kept, update, dirty, flushing, forgotten, readsLeft>>

ReadLinkDrops(t) ==
  /\ screens[t].up /\ SpendRead("drop")
  /\ screens' = [screens EXCEPT ![t] = [@ EXCEPT !.up = FALSE, !.coming = {}, !.history = FALSE]]
  /\ UNCHANGED <<spoken, serviceVars, asks>>

ReadLinkReturns(t) ==
  /\ ~screens[t].up
  /\ screens' = [screens EXCEPT ![t] = MarkRead([IF @.open THEN Refetched(@) ELSE @ EXCEPT !.up = TRUE])]
  /\ asks' = IF screens[t].open THEN asks \cup {[tab |-> t, for |-> ForLine]} ELSE asks
  /\ UNCHANGED <<spoken, serviceVars, readsLeft>>

\* The eye beside a message: who has read it?
OpenEye(t) ==
  /\ screens[t].open /\ SpendRead("eye")
  /\ \E k \in Ts :
       /\ k <= Latest(screens[t]) /\ k # screens[t].eye
       /\ screens' = [screens EXCEPT ![t] = [@ EXCEPT !.eye = k, !.read = FALSE]]
       /\ asks' = asks \cup {[tab |-> t, for |-> k]}
  /\ UNCHANGED <<spoken, serviceVars>>

\* The answer is filtered for the message it was asked for, and shown beside the
\* one whose readers are shown now.  No answer is an empty one.
StateComes(q) ==
  /\ q \in asks /\ asks' = asks \ {q}
  /\ \E known \in IF position = Absent \/ ~screens[q.tab].up THEN {Absent} ELSE {position} :
       screens' = [screens EXCEPT ![q.tab] =
         IF q.for = ForLine THEN [@ EXCEPT !.line = IF known = Absent THEN 0 ELSE known]
         ELSE [@ EXCEPT !.read = known # Absent /\ known >= q.for]]
  /\ UNCHANGED <<spoken, serviceVars, readsLeft>>

-----------------------------------------------------------------------------
(* The service.                                                             *)

\* The client calls the position "timestamp", ReadUpdate calls it "lastRead":
\* what json.Unmarshal does not find is zero.
Decoded(ts) == 0

\* One report at a time.  What the bucket has is compared, ...
UpdateComes ==
  /\ update = NoUpdate
  /\ \E ts \in reports :
       /\ reports' = reports \ {ts}
       /\ update' = IF position # Absent /\ position >= Decoded(ts) THEN NoUpdate
                    ELSE [at |-> "put", last |-> Decoded(ts)]
  /\ UNCHANGED <<spoken, screens, asks, position, kept, dirty, flushing, forgotten, readsLeft>>

\* ... unless it cannot be read, ...
UpdateUnread ==
  /\ update = NoUpdate /\ SpendRead("failure")
  /\ \E ts \in reports : reports' = reports \ {ts} /\ update' = [at |-> "put", last |-> Decoded(ts)]
  /\ UNCHANGED <<spoken, screens, asks, position, kept, dirty, flushing, forgotten>>

\* ... the position put, ...
UpdatePut ==
  /\ update.at = "put" /\ position' = update.last /\ update' = [update EXCEPT !.at = "mark"]
  /\ UNCHANGED <<spoken, screens, asks, reports, kept, dirty, flushing, forgotten, readsLeft>>

\* ... and the key marked.
UpdateMarks ==
  /\ update.at = "mark" /\ dirty' = TRUE /\ update' = NoUpdate
  /\ UNCHANGED <<spoken, screens, asks, reports, position, kept, flushing, forgotten, readsLeft>>

\* A put that failed, or the answer to which is lost: the key is not marked.
UpdateFails ==
  /\ update.at = "put" /\ SpendRead("failure") /\ update' = NoUpdate
  /\ \/ UNCHANGED <<position, forgotten>>
     \/ position' = update.last /\ forgotten' = TRUE
  /\ UNCHANGED <<spoken, screens, asks, reports, kept, dirty, flushing>>

\* flushToPostgres: the keys are drained, ...
FlushDrains ==
  /\ dirty /\ flushing = Absent /\ dirty' = FALSE /\ flushing' = KeysDrained
  /\ UNCHANGED <<spoken, screens, asks, reports, position, kept, update, forgotten, readsLeft>>

\* A bug: the keys are not put back when there is no transaction.
FlushWaitsNot ==
  /\ flushing = KeysDrained /\ SpendRead("failure") /\ flushing' = Absent /\ UNCHANGED dirty
  /\ UNCHANGED <<spoken, screens, asks, reports, position, kept, update, forgotten>>

\* (no transaction or no statement: the keys are put back)
FlushWaits ==
  /\ flushing = KeysDrained /\ SpendRead("failure") /\ flushing' = Absent /\ dirty' = TRUE
  /\ UNCHANGED <<spoken, screens, asks, reports, position, kept, update, forgotten>>

\* ... the positions read, ...
FlushReads ==
  /\ flushing = KeysDrained /\ flushing' = position
  /\ UNCHANGED <<spoken, screens, asks, reports, position, kept, update, dirty, forgotten, readsLeft>>

\* ... and written.
FlushEnds ==
  /\ flushing \notin {Absent, KeysDrained} /\ flushing' = Absent /\ kept' = flushing
  /\ UNCHANGED <<spoken, screens, asks, reports, position, update, dirty, forgotten, readsLeft>>

\* The position cannot be read, or a statement or the commit fails: the keys are
\* gone.  A commit may have been made all the same.
FlushFails ==
  /\ flushing # Absent /\ SpendRead("failure") /\ flushing' = Absent /\ forgotten' = TRUE
  /\ kept' \in {kept} \cup ({flushing} \ {KeysDrained})
  /\ UNCHANGED <<spoken, screens, asks, reports, position, update, dirty>>

\* A crash, or the end of the half second a shutdown leaves to the last flush;
\* loadFromPostgres then puts what the table has into the bucket, if it can.
RestartService ==
  /\ SpendRead("restart")
  /\ forgotten' = (forgotten \/ dirty \/ flushing # Absent \/ update.at = "mark")
  /\ dirty' = FALSE /\ flushing' = Absent /\ update' = NoUpdate
  /\ position' \in {position} \cup ({kept} \ {Absent})
  /\ UNCHANGED <<spoken, screens, asks, reports, kept>>

ReadNext ==
  \/ Speak
  \/ UpdateComes \/ UpdateUnread \/ UpdatePut \/ UpdateMarks \/ UpdateFails
  \/ FlushDrains \/ FlushWaits \/ FlushReads \/ FlushEnds \/ FlushFails \/ RestartService
  \/ \E t \in ReadTabs :
       \/ TextComes(t) \/ VisitRoom(t) \/ LeaveRoom(t) \/ HistoryShown(t) \/ TimerFires(t)
       \/ ReadLinkDrops(t) \/ ReadLinkReturns(t) \/ OpenEye(t)
  \/ \E q \in asks : StateComes(q)

ReadSpec == ReadInit /\ [][ReadNext]_readVars
-----------------------------------------------------------------------------
ReadTypeOK ==
  /\ spoken \in 0..MaxTs /\ screens \in [ReadTabs -> Screen] /\ reports \subseteq Ts
  /\ asks \subseteq [tab : ReadTabs, for : 0..MaxTs]
  /\ {position, kept} \subseteq Positions /\ flushing \in Positions \cup {KeysDrained}
  /\ update \in Update \cup {NoUpdate} /\ {dirty, forgotten} \subseteq BOOLEAN
  /\ readsLeft \in [ReadKinds -> Nat]

\* What the bucket says is in the table or on its way there, through every
\* interleaving of reports, flushes, failures and restarts: a transaction under
\* way is writing it, or the key is dirty or about to be; but for what a put
\* without an answer, a failed transaction or a crash left unmarked.
PositionsPersisted ==
  \/ position = IF flushing = Absent THEN kept ELSE flushing
  \/ dirty \/ flushing = KeysDrained \/ update.at = "mark" \/ forgotten
=============================================================================
