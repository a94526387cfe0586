------------------------------ MODULE ChatView ------------------------------
(***************************************************************************)
(* What one user sees of one room and of one of its threads: MessageStore, *)
(* the messaging calls of ChatClient, and the views ChatRoom and           *)
(* ThreadPanel that combine live messages with history.                    *)
(*                                                                         *)
(* What is posted is an event of the log: the stream persist-worker writes *)
(* to the database in order, and fanout-service announces in any order,    *)
(* for it runs several instances.  An announcement names the event; its    *)
(* content is fetched with a request of its own, and the fetches end in    *)
(* any order.  The view reads the database when it is opened, whenever its *)
(* effect runs again, and when the user scrolls up.                        *)
(*                                                                         *)
(* A message is identified by its timestamp, which its sender's clock      *)
(* gives.  Texts are left out: a message is edited or not, deleted or not. *)
(***************************************************************************)
EXTENDS Integers, Sequences, FiniteSets

CONSTANTS MaxId,        \* bound: the timestamps
          Page,         \* the messages of a page of history (code: 25)
          Cap,          \* the messages the store keeps (code: 200)
          ChatBudgets   \* bound: the timestamps, and how often each event happens

Ids == 1..MaxId
ChatKinds == {"ids", "say", "own", "reply", "broadcast", "amend", "erase", "void",
              "open", "close", "more", "panel", "rerun", "drop", "failure"}

ASSUME ChatSizes == MaxId \in Nat /\ Page \in Nat \ {0} /\ Cap \in Nat \ {0}

ASSUME ChatCounts == \A b \in ChatBudgets : b \in [ChatKinds -> Nat] /\ b["ids"] <= MaxId

VARIABLES
  log,        \* the events, in the order of the stream
  stored,     \* how many of them are in the database
  coming,     \* announcements on their way to this client
  fetching,   \* contents being fetched
  msgs,       \* messagesByRoom of the room
  thread,     \* threadMessages of the thread
  replies,    \* replyCounts of the thread
  updates,    \* the overlay: what is known to have happened to a timestamp
  unread,     \* unreadCounts of the room
  private,    \* the room is private: room.info comes before its history
  joined,     \* the client has subscribed to the room's announcements
  link,       \* the connection is up
  open,       \* the room is on the screen (and is the active room)
  panel,      \* so is the thread
  hist,       \* historyMessages
  histTo,     \* how much of the log the history shown was read from
  hasMore, loadingMore,
  reqs,       \* requests of the views not yet finished
  asked,      \* the number of the last request
  mounted,    \* its value when the room was put on the screen
  current,    \* the number of the last request for the newest page
  missed,     \* ghost: events not announced to this client, or in vain
  revived,    \* ghost: deleted replies that came back after the deletion was heard of
  torn,       \* ghost: an answer was taken that is not to the question last asked, or
              \* that the history it joins is ahead of
  chatLeft, chatCalm

chatVars == <<log, stored, coming, fetching, msgs, thread, replies, updates, unread,
              private, joined, link, open, panel, hist, histTo, hasMore, loadingMore,
              reqs, asked, mounted, current, missed, revived, torn, chatLeft, chatCalm>>
chatServer == <<log, stored, private>>
chatLive == <<coming, fetching, msgs, thread, replies, updates, unread, missed, revived>>
chatPage == <<hist, histTo, hasMore, loadingMore, torn>>
chatScreen == <<joined, link, open, panel, mounted, current>>
chatBounds == <<chatLeft, chatCalm>>

\* A message of the room; a reply in the thread; the copy of a reply that is
\* shown in the room too.
Places == {"room", "thread", "copy"}
Event == [act : {"message", "edit", "delete", "react"}, id : Ids, mine : BOOLEAN, place : Places]
Entry == [ev : Nat, marks : SUBSET {"edited", "deleted"}]
Ask == [n : Nat, kind : {"info", "first", "more", "thread"}, before : 0..(MaxId + 1),
        answered : BOOLEAN, upto : Nat]

IdOf(m) == log[m.ev].id
Fresh == (1..chatLeft["ids"]) \ {log[i].id : i \in DOMAIN log}
LastOf(s) == s[Len(s)]

Use(kind) ==
  /\ chatLeft[kind] > 0
  /\ chatLeft' = [chatLeft EXCEPT ![kind] = @ - 1]
  /\ chatCalm' = (chatCalm /\ kind # "failure")

ChatInit ==
  /\ log = <<>> /\ stored = 0 /\ coming = {} /\ fetching = {}
  /\ msgs = <<>> /\ thread = <<>> /\ replies = 0 /\ updates = [t \in Ids |-> {}] /\ unread = 0
  /\ private \in BOOLEAN /\ joined \in BOOLEAN /\ link = TRUE
  /\ open = FALSE /\ panel = FALSE /\ hist = <<>> /\ histTo = 0
  /\ hasMore = TRUE /\ loadingMore = FALSE
  /\ reqs = {} /\ asked = 0 /\ mounted = 0 /\ current = 0 /\ missed = {} /\ revived = {} /\ torn = FALSE
  /\ chatLeft \in ChatBudgets /\ chatCalm = TRUE

-----------------------------------------------------------------------------
(* What anyone posts, the user included, and what the services make of it.  *)

\* The ingest of fanout-service puts the events on the stream; they are
\* announced to a client that is subscribed at that moment.
Ingest(events) ==
  /\ log' = log \o events
  /\ LET new == DOMAIN log' \ DOMAIN log IN
     IF link /\ joined THEN coming' = coming \cup new /\ UNCHANGED missed
                      ELSE missed' = missed \cup new /\ UNCHANGED coming
  /\ UNCHANGED <<stored, private, fetching, msgs, thread, replies, updates, unread,
                 revived, chatPage, chatScreen, reqs, asked>>

Say(mine) ==
  /\ Use(IF mine THEN "own" ELSE "say")
  /\ \E t \in Fresh : Ingest(<<[act |-> "message", id |-> t, mine |-> mine, place |-> "room"]>>)

\* sendThreadReply: with "also send to the room" it is published twice.
Reply(mine) ==
  \E t \in Fresh :
    LET e == [act |-> "message", id |-> t, mine |-> mine, place |-> "thread"] IN
    \/ Use("reply") /\ Ingest(<<e>>)
    \/ Use("broadcast") /\ Ingest(<<e, [e EXCEPT !.place = "copy"]>>)

\* editThreadMessage and deleteThreadMessage carry the timestamp of the reply.
Amend(act, kind) ==
  /\ Use(kind)
  /\ \E i \in DOMAIN log :
       /\ log[i].act = "message" /\ log[i].place = "thread"
       /\ Ingest(<<[log[i] EXCEPT !.act = act]>>)

\* editMessage, deleteMessage, reactToMessage and reactToThreadMessage carry
\* the time of the call, which is no message's.
Void(mine) ==
  /\ Use("void")
  /\ \E t \in Fresh, act \in {"edit", "delete", "react"}, p \in {"room", "thread"} :
       /\ p = "thread" => act = "react"
       /\ Ingest(<<[act |-> act, id |-> t, mine |-> mine, place |-> p]>>)

\* persist-worker writes the next event.
Persist ==
  /\ stored < Len(log)
  /\ stored' = stored + 1
  /\ UNCHANGED <<log, private, chatLive, chatPage, chatScreen, reqs, asked, chatBounds>>

\* What an edit or a delete among the first k events does to the rows of t.
MarksAt(t, k) ==
  {mark \in {"edited", "deleted"} :
     \E i \in 1..k : log[i].id = t /\ log[i].act = (IF mark = "edited" THEN "edit" ELSE "delete")}

\* The rows the database holds after k events, in the order of their timestamps,
\* which are below a bound.  No view asks for other rows than messages of the room.
Kept(places, k, below) ==
  {i \in 1..k : log[i].act = "message" /\ log[i].place \in places /\ log[i].id < below}
Before(i, j) == log[i].id < log[j].id \/ (log[i].id = log[j].id /\ i < j)
Rank(is, i) == Cardinality({j \in is : Before(j, i)})
Rows(places, k, below) ==
  LET is == Kept(places, k, below)
      at(n) == CHOOSE i \in is : Rank(is, i) = n - 1
  IN [n \in 1..Cardinality(is) |-> [ev |-> at(n), marks |-> MarksAt(log[at(n)].id, k)]]

Newest(s, n) == IF Len(s) <= n THEN s ELSE SubSeq(s, Len(s) - n + 1, Len(s))

-----------------------------------------------------------------------------
(* MessageStore: processNotification, fetchMessageContent and               *)
(* processRoomChatMessage.                                                  *)

\* applyUpdateToMessages, applyUpdateToThreads
Marked(s, t, mark) == [n \in DOMAIN s |-> IF IdOf(s[n]) = t THEN [s[n] EXCEPT !.marks = @ \cup {mark}] ELSE s[n]]
Appended(s, i) == Append(Newest(s, Cap - 1), [ev |-> i, marks |-> {}])
Overlay(t, mark) == updates' = [updates EXCEPT ![t] = @ \cup {mark}]

\* A delete is applied from the announcement; that of a reply, to the threads
\* alone.
TakeDelete(i) ==
  LET e == log[i] IN
  /\ i \in coming /\ e.act = "delete"
  /\ coming' = coming \ {i}
  /\ Overlay(e.id, "deleted")
  /\ thread' = Marked(thread, e.id, "deleted")
  /\ msgs' = IF e.place = "room" THEN Marked(msgs, e.id, "deleted") ELSE msgs
  /\ UNCHANGED <<chatServer, fetching, replies, unread, missed, revived, chatPage, chatScreen, reqs, asked, chatBounds>>

\* Everything else is fetched first; a reply is counted before.
TakeOther(i) ==
  LET e == log[i] IN
  /\ i \in coming /\ e.act # "delete"
  /\ coming' = coming \ {i} /\ fetching' = fetching \cup {i}
  /\ replies' = IF e.act = "message" /\ e.place = "thread" THEN replies + 1 ELSE replies
  /\ UNCHANGED <<chatServer, msgs, thread, updates, unread, missed, revived, chatPage, chatScreen, reqs, asked, chatBounds>>

Fetched(i) == i \in fetching /\ fetching' = fetching \ {i}

FetchFails(i) ==
  /\ Fetched(i) /\ Use("failure")
  /\ UNCHANGED <<chatServer, coming, msgs, thread, replies, updates, unread, missed, revived, chatPage, chatScreen, reqs, asked>>

\* A reply is appended as it comes, though it may have been deleted since.
ReplyArrives(i) ==
  LET e == log[i] IN
  /\ Fetched(i) /\ e.act = "message" /\ e.place = "thread"
  /\ thread' = Appended(thread, i)
  /\ revived' = IF "deleted" \in updates[e.id] THEN revived \cup {e.id} ELSE revived
  /\ UNCHANGED <<chatServer, coming, msgs, replies, updates, unread, missed, chatPage, chatScreen, reqs, asked, chatBounds>>

\* A bug: the update of an edit replaces what was known of the message.
EditArrivesAlone(i) ==
  LET e == log[i] IN
  /\ Fetched(i) /\ e.act = "edit"
  /\ updates' = [updates EXCEPT ![e.id] = {"edited"}]
  /\ msgs' = Marked(msgs, e.id, "edited") /\ thread' = Marked(thread, e.id, "edited")
  /\ UNCHANGED <<chatServer, coming, replies, unread, missed, revived, chatPage, chatScreen, reqs, asked, chatBounds>>

EditArrives(i) ==
  LET e == log[i] IN
  /\ Fetched(i) /\ e.act = "edit"
  /\ Overlay(e.id, "edited")
  /\ msgs' = Marked(msgs, e.id, "edited") /\ thread' = Marked(thread, e.id, "edited")
  /\ UNCHANGED <<chatServer, coming, replies, unread, missed, revived, chatPage, chatScreen, reqs, asked, chatBounds>>

\* The rest is a message, a reaction too, for none names its target; it is
\* appended unless one of that timestamp is there.
IsMessage(e) == e.act = "react" \/ (e.act = "message" /\ e.place # "thread")

\* A bug: messages are counted whatever is on the screen.
MessageArrivesCounted(i) ==
  LET e == log[i]
      known == \E n \in DOMAIN msgs : IdOf(msgs[n]) = e.id
  IN
  /\ Fetched(i) /\ IsMessage(e)
  /\ msgs' = IF known THEN msgs ELSE Appended(msgs, i)
  /\ unread' = IF known \/ e.mine THEN unread ELSE unread + 1
  /\ UNCHANGED <<chatServer, coming, thread, replies, updates, missed, revived, chatPage, chatScreen, reqs, asked, chatBounds>>

MessageArrives(i) ==
  LET e == log[i]
      known == \E n \in DOMAIN msgs : IdOf(msgs[n]) = e.id
  IN
  /\ Fetched(i) /\ IsMessage(e)
  /\ msgs' = IF known THEN msgs ELSE Appended(msgs, i)
  /\ unread' = IF known \/ open \/ e.mine THEN unread ELSE unread + 1
  /\ UNCHANGED <<chatServer, coming, thread, replies, updates, missed, revived, chatPage, chatScreen, reqs, asked, chatBounds>>

-----------------------------------------------------------------------------
(* ChatRoom and ThreadPanel.                                                *)

New(kind, before) == [n |-> asked + 1, kind |-> kind, before |-> before, answered |-> FALSE, upto |-> 0]
Request(kind, before) ==
  /\ asked' = asked + 1
  /\ reqs' = reqs \cup {New(kind, before)}

\* fetchHistory of ChatRoom: join, mark as read, ask for the last page.
Fetch ==
  /\ joined' = TRUE /\ unread' = 0
  /\ Request("first", MaxId + 1) /\ current' = asked + 1

\* The effect of ChatRoom: everything shown of the history is reset.
Refresh ==
  /\ hist' = <<>> /\ histTo' = 0 /\ hasMore' = TRUE /\ loadingMore' = FALSE
  /\ torn' = FALSE
  /\ IF private THEN Request("info", 0) /\ UNCHANGED <<joined, unread, current>> ELSE Fetch

ChatRest == UNCHANGED <<chatServer, coming, fetching, msgs, thread, replies, updates, missed, revived>>

Open ==
  /\ ~open /\ Use("open") /\ open' = TRUE /\ mounted' = asked
  /\ IF link THEN Refresh
     ELSE /\ hist' = <<>> /\ histTo' = 0 /\ hasMore' = TRUE /\ loadingMore' = FALSE
          /\ torn' = FALSE /\ UNCHANGED <<joined, unread, asked, reqs, current>>
  /\ ChatRest /\ UNCHANGED <<link, panel>>

Close ==
  /\ open /\ Use("close")
  /\ open' = FALSE /\ panel' = FALSE
  /\ ChatRest /\ UNCHANGED <<unread, chatPage, joined, link, mounted, current, reqs, asked>>

\* userInfo, the list of private rooms or a callback is a new object.
Rerun ==
  /\ open /\ link /\ Use("rerun")
  /\ Refresh
  /\ ChatRest /\ UNCHANGED <<link, open, panel, mounted>>

\* The panel asks for the thread's history as for the last page of the room's.
OpenThread ==
  /\ open /\ ~panel /\ Use("panel") /\ panel' = TRUE
  /\ IF link THEN Request("thread", MaxId + 1) ELSE UNCHANGED <<reqs, asked>>
  /\ ChatRest /\ UNCHANGED <<unread, chatPage, joined, link, open, mounted, current>>

\* loadMore, when the user scrolls to the top.
LoadMore ==
  /\ open /\ link /\ ~loadingMore /\ hasMore /\ hist # <<>> /\ Use("more")
  /\ loadingMore' = TRUE
  /\ Request("more", IdOf(hist[1]))
  /\ ChatRest /\ UNCHANGED <<unread, hist, histTo, hasMore, torn, chatScreen>>

\* The connection goes: announcements on their way are lost.
Drop ==
  /\ link /\ Use("drop")
  /\ link' = FALSE /\ coming' = {} /\ missed' = missed \cup coming
  /\ UNCHANGED <<chatServer, fetching, msgs, thread, replies, updates, unread, revived, chatPage,
                 joined, open, panel, mounted, current, reqs, asked>>

\* It is back: the rooms are subscribed again (rejoinAll), the effects of the
\* views that are open run again.
Back ==
  /\ ~link /\ link' = TRUE
  /\ IF open THEN Refresh ELSE UNCHANGED <<unread, chatPage, joined, current, reqs, asked>>
  /\ ChatRest /\ UNCHANGED <<open, panel, mounted, chatBounds>>

\* history-service reads the database ...
ReadPage(r) ==
  /\ r \in reqs /\ ~r.answered
  /\ reqs' = (reqs \ {r}) \cup {[r EXCEPT !.answered = TRUE, !.upto = stored]}
  /\ UNCHANGED <<chatServer, chatLive, chatPage, chatScreen, asked, chatBounds>>

Older(r) == Rows({"room"}, r.upto, r.before)
Got(r, kind) == r \in reqs /\ link /\ r.answered /\ r.kind = kind
\* ... and the answer arrives.  A view that has gone does not see it.
Mounted(r) == open /\ r.n > mounted
Done(r) == reqs' = reqs \ {r} /\ UNCHANGED asked

FirstArrives(r) ==
  LET rows == Older(r) IN
  /\ Got(r, "first") /\ Done(r)
  /\ IF Mounted(r)
       THEN /\ hist' = IF rows = <<>> THEN hist ELSE Newest(rows, Page)
            /\ histTo' = IF rows = <<>> THEN histTo ELSE r.upto
            /\ hasMore' = (Len(rows) > Page)
            /\ torn' = (r.n # current \/ (torn /\ rows = <<>>))
       ELSE UNCHANGED <<hist, histTo, hasMore, torn>>
  /\ UNCHANGED <<chatServer, chatLive, loadingMore, chatScreen, chatBounds>>

MoreArrives(r) ==
  LET rows == Older(r) IN
  /\ Got(r, "more") /\ Done(r)
  /\ IF Mounted(r)
       THEN /\ hist' = Newest(rows, Page) \o hist
            /\ hasMore' = (Len(rows) > Page)
            /\ loadingMore' = FALSE
            /\ torn' = (torn \/ hist = <<>> \/ IdOf(hist[1]) # r.before \/ r.upto < histTo)
       ELSE UNCHANGED <<hist, hasMore, loadingMore, torn>>
  /\ UNCHANGED <<chatServer, chatLive, histTo, chatScreen, chatBounds>>

\* room.info: unless the user is no member the effect goes on, whether its view
\* is still there or not, and whether or not an answer came.
InfoEnds(r) ==
  /\ r \in reqs /\ r.kind = "info"
  /\ IF link /\ r.answered THEN UNCHANGED chatBounds ELSE Use("failure")
  /\ joined' = TRUE /\ unread' = 0
  /\ asked' = asked + 1
  /\ current' = IF Mounted(r) THEN asked + 1 ELSE current
  /\ reqs' = (reqs \ {r}) \cup {[New("first", MaxId + 1) EXCEPT !.n = IF Mounted(r) THEN @ ELSE 0]}
  /\ ChatRest /\ UNCHANGED <<chatPage, link, open, panel, mounted>>

\* The view tells the App, which puts another room on the screen.
Denied(r) ==
  /\ Got(r, "info") /\ Use("close") /\ Done(r)
  /\ open' = FALSE /\ panel' = FALSE
  /\ ChatRest /\ UNCHANGED <<unread, chatPage, joined, link, mounted, current>>

\* fetchThreadHistory names the thread in its request, but on the subject of the
\* room: the answer is the newest page of the room, and takes the place of the
\* replies.
ThreadArrives(r) ==
  /\ Got(r, "thread") /\ Done(r)
  /\ thread' = Newest(Newest(Older(r), Page), Cap)
  /\ UNCHANGED <<chatServer, coming, fetching, msgs, replies, updates, unread, missed, revived, chatPage, chatScreen, chatBounds>>

\* The request times out; the error is logged.
AskFails(r) ==
  /\ r \in reqs /\ r.kind # "info" /\ Use("failure") /\ Done(r)
  /\ loadingMore' = (loadingMore /\ ~(r.kind = "more" /\ Mounted(r)))
  /\ UNCHANGED <<chatServer, chatLive, hist, histTo, hasMore, torn, chatScreen>>

Announced(i) == TakeDelete(i) \/ TakeOther(i)
Content(i) == FetchFails(i) \/ ReplyArrives(i) \/ EditArrives(i) \/ MessageArrives(i)

ChatNext ==
  \/ \E mine \in BOOLEAN : Say(mine) \/ Reply(mine) \/ Void(mine)
  \/ Amend("edit", "amend") \/ Amend("delete", "erase") \/ Persist
  \/ \E i \in coming : Announced(i)
  \/ \E i \in fetching : Content(i)
  \/ Open \/ Close \/ Rerun \/ OpenThread \/ LoadMore \/ Drop \/ Back
  \/ \E r \in reqs : ReadPage(r) \/ FirstArrives(r) \/ MoreArrives(r) \/ InfoEnds(r)
                     \/ Denied(r) \/ ThreadArrives(r) \/ AskFails(r)

ChatSpec == ChatInit /\ [][ChatNext]_chatVars

-----------------------------------------------------------------------------
\* A bug: messages of the same time are taken too.
ShownAgain ==
  ({"hist"} \X DOMAIN hist) \cup
  ({"live"} \X {n \in DOMAIN msgs : hist = <<>> \/ IdOf(msgs[n]) >= IdOf(LastOf(hist))})

\* The places on the screen: those of the history, and those of the live messages
\* that are newer.
Shown ==
  ({"hist"} \X DOMAIN hist) \cup
  ({"live"} \X {n \in DOMAIN msgs : hist = <<>> \/ IdOf(msgs[n]) > IdOf(LastOf(hist))})
RowAt(p) == IF p[1] = "hist" THEN hist[p[2]] ELSE msgs[p[2]]

\* Every variable has its type.
ChatTypeOK ==
  /\ log \in Seq(Event) /\ stored \in 0..Len(log)
  /\ coming \subseteq DOMAIN log /\ fetching \subseteq DOMAIN log /\ missed \subseteq DOMAIN log
  /\ msgs \in Seq(Entry) /\ thread \in Seq(Entry) /\ hist \in Seq(Entry)
  /\ Len(msgs) <= Cap /\ Len(thread) <= Cap
  /\ replies \in Nat /\ unread \in Nat /\ histTo \in 0..Len(log)
  /\ updates \in [Ids -> SUBSET {"edited", "deleted"}] /\ revived \subseteq Ids
  /\ {private, joined, link, open, panel, hasMore, loadingMore, torn, chatCalm} \subseteq BOOLEAN
  /\ reqs \subseteq Ask /\ asked \in Nat /\ mounted \in 0..asked /\ current \in 0..asked
  /\ chatLeft \in [ChatKinds -> Nat]

\* No message is on the screen twice, from the history and live, or from two
\* pages: but for a page that was asked for before the history was reset.
NoneShownTwice ==
  ~torn => \A p, q \in Shown : IdOf(RowAt(p)) = IdOf(RowAt(q)) => p = q

ChatAtRest == open /\ link /\ coming = {} /\ fetching = {} /\ reqs = {} /\ chatCalm /\ ~torn

\* When everything has come to rest and nothing failed, a message of the room
\* is on the screen if the database had it when the history was read, or is
\* among the older pages; one that it did not have yet is there if it was
\* announced to this client, unless the store is full or the clock of its
\* sender puts it before the end of the history.
NoneLost ==
  ChatAtRest =>
    \A i \in DOMAIN log : log[i].act = "message" /\ log[i].place = "room" =>
      \/ \E p \in Shown : RowAt(p).ev = i
      \/ i <= histTo /\ hist # <<>> /\ hasMore /\ log[i].id < IdOf(hist[1])
      \/ i > histTo /\ (i \in missed \/ Len(msgs) = Cap)
      \/ i > histTo /\ hist # <<>> /\ log[i].id < IdOf(LastOf(hist))

\* ChatRoom and MessageStore: what the stores and the history have of a room is
\* on the screen, each message once, whatever arrives while they are read.
EachShownOnce == NoneLost /\ NoneShownTwice

\* A reply whose deletion this client has heard of is shown as deleted, in the
\* room (its copy) and in the thread, however edits, contents and histories are
\* interleaved with the deletion: but for a reply whose content came to the
\* thread after that.
DeletedStaysDeleted ==
  \A i \in DOMAIN log : log[i].act = "delete" /\ i \notin coming \cup missed =>
    /\ \A p \in Shown : IdOf(RowAt(p)) = log[i].id =>
         "deleted" \in RowAt(p).marks \cup updates[log[i].id]
    /\ \A n \in DOMAIN thread : IdOf(thread[n]) = log[i].id /\ log[i].id \notin revived =>
         "deleted" \in thread[n].marks

\* The room that is on the screen has no unread messages, but while the
\* question whether it may be shown is open.
NoneUnreadInView ==
  (open /\ link /\ \A r \in reqs : r.kind # "info") => unread = 0
=============================================================================
