--------------------------- MODULE Messages_proofs ---------------------------
(***************************************************************************)
(* What becomes of the messages: what a room shows of them (ChatView), for *)
(* any timestamps, sizes of a page and of the store, and any number of     *)
(* messages, calls and faults; and what is stored of them (PersistWorker), *)
(* for any instances, deliveries, epochs of keys, crashes and failures.    *)
(***************************************************************************)
EXTENDS ChatView, PersistWorker, FiniteSetTheorems, TLAPS

-----------------------------------------------------------------------------
(***************************************************************************)
(* The rows of the database.                                               *)
(***************************************************************************)

\* The rows kept are finitely many events of the log.
LEMMA KeptFinite ==
  ASSUME NEW k \in Nat, NEW places, NEW below
  PROVE  /\ IsFiniteSet(Kept(places, k, below))
         /\ Cardinality(Kept(places, k, below)) \in Nat
         /\ \A i \in Kept(places, k, below) : i \in 1..k
<1>1. IsFiniteSet(1..k)
  BY FS_Interval
<1>2. Kept(places, k, below) \in SUBSET (1..k)
  BY DEF Kept
<1> QED BY <1>1, <1>2, FS_Subset, FS_CardinalityType

\* The order of the rows is a total one.
LEMMA BeforeOrders ==
  ASSUME log \in Seq(Event), NEW i \in DOMAIN log, NEW j \in DOMAIN log
  PROVE  /\ ~Before(i, i)
         /\ i # j => Before(i, j) \/ Before(j, i)
         /\ \A h \in DOMAIN log : Before(i, j) /\ Before(j, h) => Before(i, h)
<1>1. \A x \in DOMAIN log : x \in Int /\ log[x].id \in Int
  <2>1. \A x \in DOMAIN log : x \in Int /\ log[x] \in Event
    OBVIOUS
  <2> QED BY <2>1 DEF Event, Ids
<1> QED BY <1>1 DEF Before

\* A later row has more rows before it, and all the others are fewer.
LEMMA RankGrows ==
  ASSUME log \in Seq(Event), NEW is \in SUBSET DOMAIN log, IsFiniteSet(is)
  PROVE  /\ \A i \in is : Rank(is, i) \in 0..(Cardinality(is) - 1)
         /\ \A i, j \in is : Before(i, j) => Rank(is, i) < Rank(is, j)
<1> DEFINE D(i) == {j \in is : Before(j, i)}
<1>0. Cardinality(is) \in Nat
  BY FS_CardinalityType
<1>1. \A i \in is : IsFiniteSet(D(i)) /\ Cardinality(D(i)) \in Nat /\ Rank(is, i) = Cardinality(D(i))
  <2> TAKE i \in is
  <2>1. D(i) \in SUBSET is
    OBVIOUS
  <2>2. IsFiniteSet(D(i))
    BY <2>1, FS_Subset
  <2> QED BY <2>2, FS_CardinalityType DEF Rank
<1>2. ASSUME NEW i \in is
      PROVE  Cardinality(D(i)) + 1 <= Cardinality(is)
  <2>1. i \notin D(i)
    BY BeforeOrders
  <2>2. D(i) \cup {i} \in SUBSET is
    OBVIOUS
  <2>3. Cardinality(D(i) \cup {i}) = Cardinality(D(i)) + 1
    BY <1>1, <2>1, FS_AddElement
  <2>4. Cardinality(D(i) \cup {i}) <= Cardinality(is)
    BY <2>2, FS_Subset
  <2> QED BY <2>3, <2>4
<1>3. ASSUME NEW i \in is, NEW j \in is, Before(i, j)
      PROVE  Cardinality(D(i)) + 1 <= Cardinality(D(j))
  <2>1. i \notin D(i)
    BY BeforeOrders
  <2>2. D(i) \cup {i} \in SUBSET D(j)
    <3>1. \A h \in is : Before(h, i) => Before(h, j)
      BY <1>3, BeforeOrders
    <3> QED BY <1>3, <3>1
  <2>3. Cardinality(D(i) \cup {i}) = Cardinality(D(i)) + 1
    BY <1>1, <2>1, FS_AddElement
  <2>4. Cardinality(D(i) \cup {i}) <= Cardinality(D(j))
    BY <1>1, <2>2, FS_Subset
  <2> QED BY <2>3, <2>4
<1> HIDE DEF D
<1>4. \A i \in is : Rank(is, i) \in 0..(Cardinality(is) - 1)
  BY <1>0, <1>1, <1>2
<1>5. \A i, j \in is : Before(i, j) => Rank(is, i) < Rank(is, j)
  BY <1>1, <1>3
<1> QED BY <1>4, <1>5

\* Each place below the number of rows is the rank of one of them.
LEMMA RankOnto ==
  ASSUME log \in Seq(Event), NEW is \in SUBSET DOMAIN log, IsFiniteSet(is),
         NEW n \in 1..Cardinality(is)
  PROVE  \E i \in is : Rank(is, i) = n - 1
<1> DEFINE c == Cardinality(is)
           f == [i \in is |-> Rank(is, i) + 1]
<1>0. c \in Nat
  BY FS_CardinalityType
<1>1. \A i \in is : Rank(is, i) \in 0..(c - 1)
  BY RankGrows
<1>2. \A i, j \in is : Rank(is, i) = Rank(is, j) => i = j
  <2> SUFFICES ASSUME NEW i \in is, NEW j \in is, i # j
               PROVE  Rank(is, i) # Rank(is, j)
    OBVIOUS
  <2>1. Before(i, j) \/ Before(j, i)
    BY BeforeOrders
  <2>2. Rank(is, i) < Rank(is, j) \/ Rank(is, j) < Rank(is, i)
    BY <2>1, RankGrows
  <2> QED BY <1>1, <2>2
<1>3. f \in [is -> 1..c]
  BY <1>0, <1>1
<1>4. \A i, j \in is : f[i] = f[j] => i = j
  BY <1>1, <1>2
<1> HIDE DEF f
<1>5. f \in Injection(is, 1..c)
  BY <1>3, <1>4 DEF Injection, IsInjective
<1>6. IsFiniteSet(1..c) /\ Cardinality(1..c) = c
  BY <1>0, FS_Interval
<1>7. f \in Surjection(is, 1..c)
  BY <1>5, <1>6, FS_Injection
<1>8. PICK i \in is : f[i] = n
  BY <1>7 DEF Surjection
<1> QED BY <1>1, <1>8 DEF f

\* What the rows are: an entry for each event kept, in order, marked by what the
\* events did to it.
LEMMA RowsAre ==
  ASSUME log \in Seq(Event), NEW k \in 0..Len(log), NEW places, NEW below
  PROVE  LET entries == Rows(places, k, below) IN
         /\ entries \in Seq(Entry)
         /\ \A n \in DOMAIN entries : /\ entries[n].ev \in Kept(places, k, below)
                                   /\ entries[n].marks = MarksAt(IdOf(entries[n]), k)
         /\ \A i \in Kept(places, k, below) : \E n \in DOMAIN entries : entries[n].ev = i
         /\ \A m, n \in DOMAIN entries : m < n => Before(entries[m].ev, entries[n].ev)
<1> DEFINE is == Kept(places, k, below)
           c == Cardinality(is)
           at(n) == CHOOSE i \in is : Rank(is, i) = n - 1
           entries == Rows(places, k, below)
<1>1. IsFiniteSet(is) /\ c \in Nat /\ is \in SUBSET DOMAIN log /\ is \in SUBSET Nat
  <2>1. k \in Nat /\ 1..k \subseteq DOMAIN log /\ 1..k \subseteq Nat
    OBVIOUS
  <2> QED BY <2>1, KeptFinite
<1>2. entries = [n \in 1..c |-> [ev |-> at(n), marks |-> MarksAt(log[at(n)].id, k)]]
  BY DEF Rows
<1> HIDE DEF is
<1>3. \A n \in 1..c : at(n) \in is /\ Rank(is, at(n)) = n - 1
  BY <1>1, RankOnto
<1> HIDE DEF at
<1>4. \A n \in 1..c : MarksAt(log[at(n)].id, k) \subseteq {"edited", "deleted"}
  BY DEF MarksAt
<1> HIDE DEF c, entries
<1>5. DOMAIN entries = 1..c /\ \A n \in 1..c : entries[n].ev = at(n) /\ entries[n].marks = MarksAt(log[at(n)].id, k)
  BY <1>2
<1>6. entries \in Seq(Entry)
  <2>1. \A n \in 1..c : entries[n] \in Entry
    BY <1>1, <1>2, <1>3, <1>4 DEF Entry
  <2>2. entries \in [1..c -> Entry]
    BY <1>2, <2>1
  <2> QED BY <1>1, <2>2
<1>7. \A i \in is : \E n \in 1..c : at(n) = i
  <2> SUFFICES ASSUME NEW i \in is
               PROVE  \E n \in 1..c : at(n) = i
    OBVIOUS
  <2> DEFINE n == Rank(is, i) + 1
  <2>1. Rank(is, i) \in 0..(c - 1)
    BY <1>1, RankGrows DEF c
  <2>2. n \in 1..c /\ n - 1 = Rank(is, i)
    BY <1>1, <2>1
  <2>3. at(n) \in is /\ Rank(is, at(n)) = Rank(is, i)
    BY <1>3, <2>2
  <2>4. at(n) = i
    <3> SUFFICES ASSUME at(n) # i
                 PROVE  FALSE
      OBVIOUS
    <3>1. Before(at(n), i) \/ Before(i, at(n))
      BY <1>1, <2>3, BeforeOrders
    <3> QED BY <1>1, <2>1, <2>3, <3>1, RankGrows
  <2> QED BY <2>2, <2>4
<1>8. \A m, n \in 1..c : m < n => Before(at(m), at(n))
  <2> SUFFICES ASSUME NEW m \in 1..c, NEW n \in 1..c, m < n
               PROVE  Before(at(m), at(n))
    OBVIOUS
  <2>1. at(m) \in is /\ at(n) \in is /\ Rank(is, at(m)) = m - 1 /\ Rank(is, at(n)) = n - 1
    BY <1>3
  <2>2. at(m) # at(n) /\ ~(Rank(is, at(n)) < Rank(is, at(m)))
    BY <1>1, <2>1
  <2>3. ~Before(at(n), at(m))
    BY <1>1, <2>1, <2>2, RankGrows
  <2> QED BY <1>1, <2>1, <2>2, <2>3, BeforeOrders
<1>9. \A n \in DOMAIN entries : entries[n].ev \in is /\ entries[n].marks = MarksAt(IdOf(entries[n]), k)
  BY <1>3, <1>5 DEF IdOf
<1>10. \A i \in is : \E n \in DOMAIN entries : entries[n].ev = i
  BY <1>5, <1>7
<1>11. \A m, n \in DOMAIN entries : m < n => Before(entries[m].ev, entries[n].ev)
  BY <1>5, <1>8
<1> QED BY <1>6, <1>9, <1>10, <1>11 DEF is, entries

\* The last n of a sequence.
LEMMA NewestAre ==
  ASSUME NEW S, NEW s \in Seq(S), NEW n \in Nat
  PROVE  /\ Newest(s, n) \in Seq(S)
         /\ Len(Newest(s, n)) = IF Len(s) <= n THEN Len(s) ELSE n
         /\ \A m \in 1..Len(Newest(s, n)) :
              /\ Len(s) - Len(Newest(s, n)) + m \in 1..Len(s)
              /\ Newest(s, n)[m] = s[Len(s) - Len(Newest(s, n)) + m]
<1>1. CASE Len(s) <= n
  BY <1>1 DEF Newest
<1>2. CASE ~(Len(s) <= n)
  <2> DEFINE d == Len(s) - n
  <2>1. d \in Nat /\ Newest(s, n) = SubSeq(s, d + 1, Len(s)) /\ n = Len(s) - d /\ d < Len(s) + 1
    BY <1>2 DEF Newest
  <2> HIDE DEF d
  <2>2. SubSeq(s, d + 1, Len(s)) \in Seq(S) /\ Len(SubSeq(s, d + 1, Len(s))) = Len(s) - d
    BY <2>1
  <2>3. \A m \in 1..(Len(s) - d) : SubSeq(s, d + 1, Len(s))[m] = s[d + m] /\ d + m \in 1..Len(s)
    BY <2>1
  <2>4. Newest(s, n) \in Seq(S) /\ Len(Newest(s, n)) = n /\ Len(s) - Len(Newest(s, n)) = d
    BY <2>1, <2>2
  <2>5. \A m \in 1..n : Newest(s, n)[m] = s[d + m] /\ d + m \in 1..Len(s)
    BY <2>1, <2>3
  <2> QED BY <1>2, <2>4, <2>5
<1> QED BY <1>1, <1>2

-----------------------------------------------------------------------------
(***************************************************************************)
(* Types.                                                                  *)
(***************************************************************************)

\* Entries of events that are in the log.
Entries(s) == s \in Seq(Entry) /\ \A n \in DOMAIN s : s[n].ev \in DOMAIN log

LogInv ==
  /\ log \in Seq(Event) /\ stored \in 0..Len(log)
  /\ coming \subseteq DOMAIN log /\ fetching \subseteq DOMAIN log /\ missed \subseteq DOMAIN log
  /\ private \in BOOLEAN /\ chatCalm \in BOOLEAN
  /\ chatLeft \in [ChatKinds -> Nat] /\ chatLeft["ids"] <= MaxId

StoreInv ==
  /\ Entries(msgs) /\ Entries(thread) /\ Len(msgs) <= Cap /\ Len(thread) <= Cap
  /\ replies \in Nat /\ unread \in Nat
  /\ updates \in [Ids -> SUBSET {"edited", "deleted"}] /\ revived \subseteq Ids

PageInv ==
  /\ Entries(hist) /\ histTo \in 0..stored
  /\ hasMore \in BOOLEAN /\ loadingMore \in BOOLEAN /\ torn \in BOOLEAN

ScreenInv ==
  /\ joined \in BOOLEAN /\ link \in BOOLEAN /\ open \in BOOLEAN /\ panel \in BOOLEAN
  /\ asked \in Nat /\ mounted \in 0..asked /\ current \in 0..asked
  /\ reqs \subseteq Ask /\ \A r \in reqs : r.upto <= stored

TInv == LogInv /\ StoreInv /\ PageInv /\ ScreenInv

\* What is posted: an amendment, one new event, or a reply and its copy.
Posted(events) ==
  \/ \E e \in Event, i \in DOMAIN log :
       /\ events = <<e>> /\ log[i].act = "message" /\ log[i].place = "thread"
       /\ e.id = log[i].id /\ e.act # "message" /\ e.act # "react"
  \/ \E e \in Event : events = <<e>> /\ \A i \in DOMAIN log : log[i].id # e.id
  \/ \E e, f \in Event :
       /\ events = <<e, f>> /\ f.id = e.id /\ e.place # "room" /\ f.place # "room"
       /\ \A i \in DOMAIN log : log[i].id # e.id

\* A budget is spent.
LEMMA UseTypes ==
  ASSUME LogInv, NEW kind \in ChatKinds, Use(kind)
  PROVE  /\ chatLeft' \in [ChatKinds -> Nat] /\ chatLeft'["ids"] <= MaxId /\ chatCalm' \in BOOLEAN
         /\ chatCalm' => chatCalm /\ kind # "failure"
<1>1. chatLeft[kind] \in Nat \ {0} /\ chatLeft' = [chatLeft EXCEPT ![kind] = chatLeft[kind] - 1]
  BY DEF LogInv, Use
<1>2. "ids" \in ChatKinds /\ chatLeft \in [ChatKinds -> Nat] /\ chatLeft["ids"] <= MaxId
  BY DEF LogInv, ChatKinds
<1>3. chatLeft' \in [ChatKinds -> Nat]
  BY <1>1, <1>2
<1>4. chatLeft'["ids"] <= chatLeft["ids"]
  BY <1>1, <1>2
<1>5. chatLeft'["ids"] <= MaxId
  BY <1>2, <1>3, <1>4, ChatSizes
<1>6. chatCalm' \in BOOLEAN /\ (chatCalm' => chatCalm /\ kind # "failure")
  BY DEF LogInv, Use
<1> QED BY <1>3, <1>5, <1>6

Posting == \/ \E mine \in BOOLEAN : Say(mine) \/ Reply(mine) \/ Void(mine)
           \/ Amend("edit", "amend") \/ Amend("delete", "erase")

\* Whoever posts, it is one of the three, and a budget is spent on it.
LEMMA PostsAre ==
  ASSUME LogInv, Posting
  PROVE  /\ \E events \in Seq(Event) : Posted(events) /\ Ingest(events)
         /\ chatLeft' \in [ChatKinds -> Nat] /\ chatLeft'["ids"] <= MaxId /\ chatCalm' \in BOOLEAN
         /\ chatCalm' => chatCalm
<1>1. \A t \in Fresh : t \in Ids /\ \A i \in DOMAIN log : log[i].id # t
  <2>1. "ids" \in ChatKinds
    BY DEF ChatKinds
  <2>2. chatLeft["ids"] \in Nat /\ chatLeft["ids"] <= MaxId
    BY <2>1 DEF LogInv
  <2>3. 1..chatLeft["ids"] \subseteq Ids
    BY <2>2, ChatSizes DEF Ids
  <2> QED BY <2>3 DEF Fresh
<1>2. ASSUME NEW e \in Event, \A i \in DOMAIN log : log[i].id # e.id
      PROVE  <<e>> \in Seq(Event) /\ Posted(<<e>>)
  BY <1>2 DEF Posted
<1>3. ASSUME NEW mine \in BOOLEAN, Say(mine)
      PROVE  /\ \E events \in Seq(Event) : Posted(events) /\ Ingest(events)
             /\ \E kind \in ChatKinds : Use(kind)
  <2>1. PICK t \in Fresh : Ingest(<<[act |-> "message", id |-> t, mine |-> mine, place |-> "room"]>>)
    BY <1>3 DEF Say
  <2> DEFINE e == [act |-> "message", id |-> t, mine |-> mine, place |-> "room"]
  <2>2. e \in Event /\ e.id = t
    BY <1>1 DEF Event, Places
  <2>3. \E kind \in ChatKinds : Use(kind)
    BY <1>3 DEF Say, ChatKinds
  <2> QED BY <1>1, <1>2, <2>1, <2>2, <2>3
<1>4. ASSUME NEW mine \in BOOLEAN, Reply(mine)
      PROVE  /\ \E events \in Seq(Event) : Posted(events) /\ Ingest(events)
             /\ \E kind \in ChatKinds : Use(kind)
  <2>1. PICK t \in Fresh :
          LET e == [act |-> "message", id |-> t, mine |-> mine, place |-> "thread"] IN
          \/ Use("reply") /\ Ingest(<<e>>)
          \/ Use("broadcast") /\ Ingest(<<e, [e EXCEPT !.place = "copy"]>>)
    BY <1>4 DEF Reply
  <2> DEFINE e == [act |-> "message", id |-> t, mine |-> mine, place |-> "thread"]
             f == [e EXCEPT !.place = "copy"]
  <2>2. e \in Event /\ f \in Event /\ e.id = t /\ f.id = t /\ e.place = "thread" /\ f.place = "copy"
    BY <1>1 DEF Event, Places
  <2>3. (Use("reply") /\ Ingest(<<e>>)) \/ (Use("broadcast") /\ Ingest(<<e, f>>))
    BY <2>1
  <2> HIDE DEF e, f
  <2>4. <<e, f>> \in Seq(Event)
    BY <2>2
  <2>5. Posted(<<e, f>>)
    BY <1>1, <2>2 DEF Posted
  <2>6. <<e>> \in Seq(Event) /\ Posted(<<e>>)
    BY <1>1, <1>2, <2>2
  <2>7. "reply" \in ChatKinds /\ "broadcast" \in ChatKinds
    BY DEF ChatKinds
  <2> QED BY <2>3, <2>4, <2>5, <2>6, <2>7
<1>5. ASSUME NEW mine \in BOOLEAN, Void(mine)
      PROVE  /\ \E events \in Seq(Event) : Posted(events) /\ Ingest(events)
             /\ \E kind \in ChatKinds : Use(kind)
  <2>1. PICK t \in Fresh, act \in {"edit", "delete", "react"}, p \in {"room", "thread"} :
          Ingest(<<[act |-> act, id |-> t, mine |-> mine, place |-> p]>>)
    BY <1>5 DEF Void
  <2> DEFINE e == [act |-> act, id |-> t, mine |-> mine, place |-> p]
  <2>2. e \in Event /\ e.id = t
    BY <1>1 DEF Event, Places
  <2>3. Use("void") /\ "void" \in ChatKinds
    BY <1>5 DEF Void, ChatKinds
  <2> QED BY <1>1, <1>2, <2>1, <2>2, <2>3
<1>6. ASSUME NEW act \in {"edit", "delete"}, NEW kind \in ChatKinds, Amend(act, kind)
      PROVE  /\ \E events \in Seq(Event) : Posted(events) /\ Ingest(events)
             /\ Use(kind)
  <2>1. PICK i \in DOMAIN log : /\ log[i].act = "message" /\ log[i].place = "thread"
                               /\ Ingest(<<[log[i] EXCEPT !.act = act]>>)
    BY <1>6 DEF Amend
  <2> DEFINE e == [log[i] EXCEPT !.act = act]
  <2>2. log[i] \in Event
    BY DEF LogInv
  <2>3. e \in Event /\ e.id = log[i].id /\ e.act = act
    BY <2>2 DEF Event
  <2> HIDE DEF e
  <2>4. Posted(<<e>>) /\ <<e>> \in Seq(Event)
    BY <2>1, <2>3 DEF Posted
  <2> QED BY <1>6, <2>1, <2>4 DEF Amend, e
<1>7. /\ \E events \in Seq(Event) : Posted(events) /\ Ingest(events)
      /\ \E kind \in ChatKinds : Use(kind)
  BY <1>3, <1>4, <1>5, <1>6 DEF Posting, ChatKinds
<1> QED BY <1>7, UseTypes

\* The log only grows.
LogKept ==
  /\ log' \in Seq(Event) /\ Len(log) <= Len(log') /\ DOMAIN log \subseteq DOMAIN log'
  /\ \A i \in DOMAIN log : log'[i] = log[i]

\* What is posted is appended to the log.
LEMMA IngestAppends ==
  ASSUME LogInv, NEW events \in Seq(Event), Ingest(events)
  PROVE  /\ LogKept /\ Len(log') = Len(log) + Len(events)
         /\ \A j \in DOMAIN events : Len(log) + j \in DOMAIN log' \ DOMAIN log
                                     /\ log'[Len(log) + j] = events[j]
         /\ \A i \in DOMAIN log' \ DOMAIN log : i - Len(log) \in DOMAIN events
                                               /\ log'[i] = events[i - Len(log)]
<1>1. log' = log \o events /\ log \in Seq(Event)
  BY DEF Ingest, LogInv
<1>2. log' \in Seq(Event) /\ Len(log') = Len(log) + Len(events) /\ Len(events) \in Nat /\ Len(log) \in Nat
  BY <1>1
<1>3. \A i \in 1..Len(log) : log'[i] = log[i]
  BY <1>1
<1>4. \A j \in 1..Len(events) : log'[Len(log) + j] = events[j]
  BY <1>1
<1>5. DOMAIN log = 1..Len(log) /\ DOMAIN log' = 1..Len(log') /\ DOMAIN events = 1..Len(events)
  BY <1>1, <1>2
<1>6. \A i \in 1..Len(log') : i \notin 1..Len(log) =>
        i - Len(log) \in 1..Len(events) /\ i = Len(log) + (i - Len(log))
  BY <1>2
<1>7. \A j \in 1..Len(events) : Len(log) + j \in 1..Len(log') /\ Len(log) + j \notin 1..Len(log)
  BY <1>2
<1>8. LogKept
  BY <1>2, <1>3, <1>5 DEF LogKept
<1>9. \A i \in DOMAIN log' \ DOMAIN log : i - Len(log) \in DOMAIN events /\ log'[i] = events[i - Len(log)]
  <2> TAKE i \in DOMAIN log' \ DOMAIN log
  <2>1. i - Len(log) \in 1..Len(events) /\ i = Len(log) + (i - Len(log))
    BY <1>5, <1>6
  <2> QED BY <1>4, <1>5, <2>1
<1> QED BY <1>2, <1>4, <1>5, <1>7, <1>8, <1>9

\* The steps, by what they are about.
Getting == \E i \in fetching : Content(i)
Taking == \E i \in coming : Announced(i)
Looking == Open \/ Close \/ Rerun \/ OpenThread \/ LoadMore \/ Drop \/ Back
Answering == \E r \in reqs : ReadPage(r) \/ FirstArrives(r) \/ MoreArrives(r) \/ InfoEnds(r)
                             \/ Denied(r) \/ ThreadArrives(r) \/ AskFails(r)

\* Every step is one of these.
LEMMA StepsAre ==
  ChatNext => Posting \/ Persist \/ Taking \/ Getting \/ Looking \/ Answering
BY DEF ChatNext, Posting, Taking, Getting, Looking, Answering

\* Only what is posted changes the log, and only persist-worker the database.
LEMMA LogStays ==
  ASSUME Taking \/ Getting \/ Looking \/ Answering
  PROVE  log' = log /\ stored' = stored /\ private' = private
<1>1. CASE Taking
  BY <1>1 DEF Taking, Announced, TakeDelete, TakeOther, chatServer
<1>2. CASE Getting
  BY <1>2 DEF Getting, Content, FetchFails, ReplyArrives, EditArrives, MessageArrives, chatServer
<1>3. CASE Looking
  BY <1>3 DEF Looking, Open, Close, Rerun, OpenThread, LoadMore, Drop, Back, ChatRest, chatServer
<1>4. CASE Answering
  BY <1>4 DEF Answering, ReadPage, FirstArrives, MoreArrives, InfoEnds, Denied, ThreadArrives, AskFails,
              ChatRest, chatServer
<1> QED BY <1>1, <1>2, <1>3, <1>4

\* Budgets are only spent, and a failure is remembered.
LEMMA BudgetsAre ==
  ASSUME LogInv, ChatNext
  PROVE  /\ chatLeft' \in [ChatKinds -> Nat] /\ chatLeft'["ids"] <= MaxId /\ chatCalm' \in BOOLEAN
         /\ chatCalm' => chatCalm
<1>1. CASE Posting
  BY <1>1, PostsAre
<1>2. (\E kind \in ChatKinds : Use(kind)) => chatLeft' \in [ChatKinds -> Nat] /\ chatLeft'["ids"] <= MaxId
                                             /\ chatCalm' \in BOOLEAN /\ (chatCalm' => chatCalm)
  BY UseTypes
<1>3. chatLeft \in [ChatKinds -> Nat] /\ chatLeft["ids"] <= MaxId /\ chatCalm \in BOOLEAN
  BY DEF LogInv
<1>4. ASSUME Persist \/ Taking \/ Getting \/ Looking \/ Answering
      PROVE  (\E kind \in ChatKinds : Use(kind)) \/ UNCHANGED chatBounds
  <2>1. \A kind \in {"failure", "open", "close", "rerun", "panel", "more", "drop"} : kind \in ChatKinds
    BY DEF ChatKinds
  <2>2. CASE Persist \/ Taking
    BY <2>2 DEF Persist, Taking, Announced, TakeDelete, TakeOther
  <2>3. CASE Getting
    BY <2>1, <2>3 DEF Getting, Content, FetchFails, ReplyArrives, EditArrives, MessageArrives
  <2>4. CASE Looking
    BY <2>1, <2>4 DEF Looking, Open, Close, Rerun, OpenThread, LoadMore, Drop, Back
  <2>5. CASE Answering
    BY <2>1, <2>5 DEF Answering, ReadPage, FirstArrives, MoreArrives, InfoEnds, Denied, ThreadArrives, AskFails
  <2> QED BY <1>4, <2>2, <2>3, <2>4, <2>5
<1> QED BY <1>1, <1>2, <1>3, <1>4, StepsAre DEF chatBounds

\* An announcement is on its way, taken or missed; a content is being fetched.
LEMMA LogTypes ==
  ASSUME LogInv, ChatNext
  PROVE  LogInv' /\ LogKept /\ stored <= stored'
<1>1. /\ chatLeft' \in [ChatKinds -> Nat] /\ chatLeft'["ids"] <= MaxId /\ chatCalm' \in BOOLEAN
  BY BudgetsAre
<1>2. log \in Seq(Event) /\ stored \in Nat /\ stored <= Len(log) /\ private \in BOOLEAN
      /\ coming \subseteq DOMAIN log /\ fetching \subseteq DOMAIN log /\ missed \subseteq DOMAIN log
  BY DEF LogInv
<1>3. CASE Posting
  <2>1. PICK events \in Seq(Event) : Ingest(events)
    BY <1>3, PostsAre
  <2>2. LogKept
    BY <2>1, IngestAppends
  <2>3. coming' \subseteq DOMAIN log' /\ missed' \subseteq DOMAIN log' /\ fetching' = fetching
        /\ stored' = stored /\ private' = private
    BY <1>2, <2>1, <2>2 DEF Ingest, LogKept
  <2>4. stored' <= Len(log') /\ log' \in Seq(Event)
    BY <1>2, <2>2, <2>3 DEF LogKept
  <2> QED BY <1>1, <1>2, <2>2, <2>3, <2>4 DEF LogInv, LogKept
<1>4. CASE Persist
  BY <1>1, <1>2, <1>4 DEF Persist, LogInv, LogKept, chatLive
<1>5. CASE Taking \/ Getting \/ Looking \/ Answering
  <2>1. log' = log /\ stored' = stored /\ private' = private
    BY <1>5, LogStays
  <2>2. coming' \subseteq DOMAIN log /\ fetching' \subseteq DOMAIN log /\ missed' \subseteq DOMAIN log
    <3>1. CASE Taking
      BY <1>2, <3>1 DEF Taking, Announced, TakeDelete, TakeOther
    <3>2. CASE Getting
      BY <1>2, <3>2 DEF Getting, Content, FetchFails, ReplyArrives, EditArrives, MessageArrives, Fetched
    <3>3. CASE Looking
      BY <1>2, <3>3 DEF Looking, Open, Close, Rerun, OpenThread, LoadMore, Drop, Back, ChatRest
    <3>4. CASE Answering
      BY <1>2, <3>4 DEF Answering, ReadPage, FirstArrives, MoreArrives, InfoEnds, Denied, ThreadArrives,
                        AskFails, ChatRest, chatLive
    <3> QED BY <1>5, <3>1, <3>2, <3>3, <3>4
  <2> QED BY <1>1, <1>2, <2>1, <2>2 DEF LogInv, LogKept
<1> QED BY <1>3, <1>4, <1>5, StepsAre

-----------------------------------------------------------------------------
(***************************************************************************)
(* The helpers of MessageStore.                                            *)
(***************************************************************************)

\* An event has a timestamp, and below the bound.
LEMMA IdsAre ==
  ASSUME log \in Seq(Event), NEW i \in DOMAIN log
  PROVE  log[i].id \in Ids /\ log[i].id \in Nat /\ log[i].id < MaxId + 1
<1>1. log[i] \in Event
  OBVIOUS
<1> QED BY <1>1, ChatSizes DEF Event, Ids

\* A mark is added to some entries, and nothing else changes.
LEMMA MarkedAre ==
  ASSUME NEW s, Entries(s), NEW t, NEW mark \in {"edited", "deleted"}
  PROVE  /\ Entries(Marked(s, t, mark)) /\ Len(Marked(s, t, mark)) = Len(s)
         /\ DOMAIN Marked(s, t, mark) = DOMAIN s
         /\ \A n \in DOMAIN s :
              /\ Marked(s, t, mark)[n].ev = s[n].ev
              /\ s[n].marks \subseteq Marked(s, t, mark)[n].marks
              /\ IdOf(s[n]) = t => mark \in Marked(s, t, mark)[n].marks
<1> DEFINE u == Marked(s, t, mark)
           v(n) == [s[n] EXCEPT !.marks = @ \cup {mark}]
<1>1. s \in Seq(Entry) /\ \A n \in DOMAIN s : s[n] \in Entry /\ s[n].ev \in DOMAIN log
  BY DEF Entries
<1>2. \A n \in DOMAIN s : /\ v(n) \in Entry /\ v(n).ev = s[n].ev /\ v(n).marks = s[n].marks \cup {mark}
  BY <1>1 DEF Entry
<1>3. u = [n \in DOMAIN s |-> IF IdOf(s[n]) = t THEN v(n) ELSE s[n]]
  BY DEF Marked
<1> HIDE DEF u, v
<1>4. DOMAIN u = DOMAIN s /\ \A n \in DOMAIN s : u[n] = IF IdOf(s[n]) = t THEN v(n) ELSE s[n]
  BY <1>3
<1>5. \A n \in DOMAIN s : u[n] \in Entry /\ u[n].ev = s[n].ev /\ s[n].marks \subseteq u[n].marks
                          /\ (IdOf(s[n]) = t => mark \in u[n].marks)
  BY <1>1, <1>2, <1>4
<1>6. u \in Seq(Entry) /\ Len(u) = Len(s)
  <2>1. DOMAIN s = 1..Len(s) /\ Len(s) \in Nat
    BY <1>1
  <2>2. u \in [1..Len(s) -> Entry]
    BY <1>3, <1>4, <1>5, <2>1
  <2> QED BY <2>1, <2>2
<1>7. Entries(u)
  BY <1>1, <1>4, <1>5, <1>6 DEF Entries
<1> QED BY <1>4, <1>5, <1>6, <1>7 DEF u

\* The last entries stay, and one comes after them.
LEMMA AppendedAre ==
  ASSUME log \in Seq(Event), NEW s, Entries(s), Len(s) <= Cap, NEW i \in DOMAIN log
  PROVE  LET u == Appended(s, i)
             d == Len(s) + 1 - Len(Appended(s, i))
         IN /\ Entries(u) /\ Len(u) \in 1..Cap /\ u[Len(u)] = [ev |-> i, marks |-> {}]
            /\ d \in Nat /\ (d # 0 => Len(u) = Cap)
            /\ \A n \in 1..(Len(u) - 1) : d + n \in DOMAIN s /\ u[n] = s[d + n]
<1> DEFINE w == Newest(s, Cap - 1)
           x == [ev |-> i, marks |-> {}]
           u == Append(w, x)
<1>1. s \in Seq(Entry) /\ Len(s) \in Nat /\ \A n \in DOMAIN s : s[n].ev \in DOMAIN log
  BY DEF Entries
<1>2. Cap - 1 \in Nat /\ Cap \in Nat
  BY ChatSizes
<1>3. /\ w \in Seq(Entry) /\ Len(w) = IF Len(s) <= Cap - 1 THEN Len(s) ELSE Cap - 1
      /\ \A m \in 1..Len(w) : Len(s) - Len(w) + m \in 1..Len(s) /\ w[m] = s[Len(s) - Len(w) + m]
  BY <1>1, <1>2, NewestAre
<1>4. x \in Entry /\ x.ev = i
  <2>1. i \in Nat
    OBVIOUS
  <2> QED BY <2>1 DEF Entry
<1> HIDE DEF w, x
<1>5. u \in Seq(Entry) /\ Len(u) = Len(w) + 1 /\ u[Len(u)] = x /\ \A m \in 1..Len(w) : u[m] = w[m]
  BY <1>3, <1>4
<1> HIDE DEF u
<1>6. Len(u) \in 1..Cap /\ Len(s) + 1 - Len(u) \in Nat /\ (Len(s) + 1 - Len(u) # 0 => Len(u) = Cap)
      /\ Len(u) - 1 = Len(w) /\ Len(s) + 1 - Len(u) = Len(s) - Len(w)
  BY <1>1, <1>2, <1>3, <1>5
<1>7. \A n \in 1..(Len(u) - 1) : Len(s) + 1 - Len(u) + n \in DOMAIN s /\ u[n] = s[Len(s) + 1 - Len(u) + n]
  <2> TAKE n \in 1..(Len(u) - 1)
  <2>1. n \in 1..Len(w) /\ Len(s) + 1 - Len(u) + n = Len(s) - Len(w) + n
    BY <1>6
  <2>2. DOMAIN s = 1..Len(s)
    BY <1>1
  <2>3. Len(s) - Len(w) + n \in DOMAIN s /\ u[n] = s[Len(s) - Len(w) + n]
    BY <1>3, <1>5, <2>1, <2>2
  <2> QED BY <2>1, <2>3
<1>8. Entries(u)
  <2>1. \A n \in DOMAIN u : n = Len(u) \/ n \in 1..(Len(u) - 1)
    BY <1>5, <1>6
  <2>2. \A n \in DOMAIN u : u[n].ev \in DOMAIN log
    BY <1>1, <1>4, <1>5, <1>7, <2>1
  <2> QED BY <1>5, <2>2 DEF Entries
<1> QED BY <1>5, <1>6, <1>7, <1>8 DEF u, w, x, Appended

\* The same in numbers: d entries are dropped, and only when the store is full.
LEMMA AppendedShape ==
  ASSUME log \in Seq(Event), NEW s, Entries(s), Len(s) <= Cap, NEW i \in DOMAIN log
  PROVE  \E d \in Nat, l \in Nat :
           /\ DOMAIN Appended(s, i) = 1..l /\ Len(Appended(s, i)) = l /\ l # 0 /\ l <= Cap
           /\ DOMAIN s = 1..Len(s) /\ Len(s) = l - 1 + d /\ (d # 0 => l = Cap)
           /\ Appended(s, i)[l].ev = i
           /\ \A n \in 1..(l - 1) : Appended(s, i)[n] = s[d + n]
<1> DEFINE u == Appended(s, i)
           l == Len(u)
           h == Len(s)
           d == h + 1 - l
<1>1. /\ Entries(u) /\ l \in 1..Cap /\ u[l] = [ev |-> i, marks |-> {}]
      /\ d \in Nat /\ (d # 0 => l = Cap)
      /\ \A n \in 1..(l - 1) : d + n \in DOMAIN s /\ u[n] = s[d + n]
  BY AppendedAre
<1>2. Cap \in Nat
  BY ChatSizes
<1>3. h \in Nat /\ DOMAIN s = 1..h
  BY DEF Entries
<1> HIDE DEF u
<1>4. DOMAIN u = 1..l
  BY <1>1 DEF Entries
<1>5. l \in 1..Cap /\ d \in Nat /\ (d # 0 => l = Cap) /\ u[l].ev = i /\ \A n \in 1..(l - 1) : u[n] = s[d + n]
  BY <1>1
<1> HIDE DEF l, h
<1>6. l \in Nat /\ l # 0 /\ l <= Cap /\ h = l - 1 + d
  BY <1>2, <1>3, <1>5
<1> HIDE DEF d
<1>7. \E e \in Nat, k \in Nat :
           /\ DOMAIN u = 1..k /\ l = k /\ k # 0 /\ k <= Cap
           /\ DOMAIN s = 1..h /\ h = k - 1 + e /\ (e # 0 => k = Cap)
           /\ u[k].ev = i /\ \A n \in 1..(k - 1) : u[n] = s[e + n]
  BY <1>3, <1>4, <1>5, <1>6
<1> QED BY <1>7 DEF u, l, h

\* The newest rows of the database are entries.
LEMMA NewestRowsAre ==
  ASSUME LogInv, NEW k \in 0..stored, NEW places, NEW below, NEW n \in Nat
  PROVE  LET entries == Rows(places, k, below)
         IN  Entries(entries) /\ Entries(Newest(entries, n)) /\ Len(Newest(entries, n)) <= n
<1> DEFINE entries == Rows(places, k, below)
           new == Newest(entries, n)
<1>1. log \in Seq(Event) /\ stored \in 0..Len(log)
  BY DEF LogInv
<1>2. k \in 0..Len(log) /\ k \in Nat
  BY <1>1
<1>3. entries \in Seq(Entry) /\ \A m \in DOMAIN entries : entries[m].ev \in Kept(places, k, below)
  BY <1>1, <1>2, RowsAre
<1>4. \A i \in Kept(places, k, below) : i \in DOMAIN log
  BY <1>1, <1>2, KeptFinite
<1> HIDE DEF entries
<1>5. /\ new \in Seq(Entry) /\ Len(new) = IF Len(entries) <= n THEN Len(entries) ELSE n
      /\ \A m \in 1..Len(new) : Len(entries) - Len(new) + m \in 1..Len(entries)
                                /\ new[m] = entries[Len(entries) - Len(new) + m]
  BY <1>3, NewestAre
<1> HIDE DEF new
<1>6. Entries(entries) /\ Entries(new)
  <2>1. \A m \in DOMAIN entries : entries[m].ev \in DOMAIN log
    BY <1>3, <1>4
  <2>2. DOMAIN entries = 1..Len(entries) /\ DOMAIN new = 1..Len(new)
    BY <1>3, <1>5
  <2>3. \A m \in DOMAIN new : new[m].ev \in DOMAIN log
    BY <1>5, <2>1, <2>2
  <2> QED BY <1>3, <1>5, <2>1, <2>3 DEF Entries
<1>7. Len(new) <= n
  BY <1>3, <1>5
<1> QED BY <1>6, <1>7 DEF entries, new

\* What a thread is given for its history: entries of messages of the room.
LEMMA ThreadRowsAre ==
  ASSUME LogInv, NEW r \in reqs, r.upto \in 0..stored
  PROVE  LET cut == Newest(Newest(Older(r), Page), Cap)
         IN  /\ Entries(cut) /\ Len(cut) <= Cap
             /\ \A n \in DOMAIN cut : log[cut[n].ev].act = "message" /\ log[cut[n].ev].place = "room"
<1> DEFINE all == Rows({"room"}, r.upto, r.before)
           page == Newest(all, Page)
           cut == Newest(page, Cap)
<1>1. log \in Seq(Event) /\ r.upto \in 0..Len(log) /\ Page \in Nat /\ Cap \in Nat
  BY ChatSizes DEF LogInv
<1>2. all \in Seq(Entry) /\ \A m \in DOMAIN all : all[m].ev \in Kept({"room"}, r.upto, r.before)
  BY <1>1, RowsAre
<1>3. \A i \in Kept({"room"}, r.upto, r.before) :
        i \in DOMAIN log /\ log[i].act = "message" /\ log[i].place = "room"
  BY <1>1 DEF Kept
<1> HIDE DEF all
<1>4. /\ page \in Seq(Entry) /\ \A m \in 1..Len(page) : Len(all) - Len(page) + m \in 1..Len(all)
                                                     /\ page[m] = all[Len(all) - Len(page) + m]
  BY <1>1, <1>2, NewestAre
<1> HIDE DEF page
<1>5. /\ cut \in Seq(Entry) /\ Len(cut) = IF Len(page) <= Cap THEN Len(page) ELSE Cap
      /\ \A m \in 1..Len(cut) : Len(page) - Len(cut) + m \in 1..Len(page)
                                /\ cut[m] = page[Len(page) - Len(cut) + m]
  BY <1>1, <1>4, NewestAre
<1> HIDE DEF cut
<1>6. DOMAIN all = 1..Len(all) /\ DOMAIN page = 1..Len(page) /\ DOMAIN cut = 1..Len(cut)
  BY <1>2, <1>4, <1>5
<1>7. ASSUME NEW m \in DOMAIN cut
      PROVE  cut[m].ev \in Kept({"room"}, r.upto, r.before)
  <2>1. PICK k \in DOMAIN page : cut[m] = page[k]
    BY <1>5, <1>6
  <2>2. PICK l \in DOMAIN all : page[k] = all[l]
    BY <1>4, <1>6
  <2> QED BY <1>2, <2>1, <2>2
<1>8. Entries(cut) /\ Len(cut) <= Cap
  BY <1>1, <1>3, <1>4, <1>5, <1>7 DEF Entries
<1> QED BY <1>3, <1>7, <1>8 DEF cut, page, all, Older

-----------------------------------------------------------------------------
(***************************************************************************)
(* The requests.                                                           *)
(***************************************************************************)

\* A new request has the next number and no answer.
LEMMA NewIs ==
  ASSUME asked \in Nat, NEW kind \in {"info", "first", "more", "thread"}, NEW before \in 0..(MaxId + 1)
  PROVE  LET q == New(kind, before) IN
         /\ q \in Ask /\ q.n = asked + 1 /\ q.kind = kind /\ q.before = before
         /\ q.answered = FALSE /\ q.upto = 0
BY DEF New, Ask

\* What a request becomes when history-service has read the database.
Read(q, r) == /\ q \in Ask /\ q.n = r.n /\ q.kind = r.kind /\ q.before = r.before
              /\ q.answered = TRUE /\ q.upto = stored

\* history-service changes nothing but the request it answers.
LEMMA ReadPageIs ==
  ASSUME LogInv, ScreenInv, NEW r \in reqs, ReadPage(r)
  PROVE  /\ \E q \in Ask : Read(q, r) /\ reqs' = (reqs \ {r}) \cup {q}
         /\ UNCHANGED <<chatServer, chatLive, chatPage, chatScreen, asked, chatBounds>>
<1> DEFINE q == [[r EXCEPT !.answered = TRUE] EXCEPT !.upto = stored]
<1>1. r \in Ask /\ stored \in Nat
  BY DEF LogInv, ScreenInv
<1>2. [r EXCEPT !.answered = TRUE] \in Ask
  BY <1>1 DEF Ask
<1>3. q \in Ask /\ q.n = r.n /\ q.kind = r.kind /\ q.before = r.before /\ q.answered = TRUE /\ q.upto = stored
  BY <1>1, <1>2 DEF Ask
<1>4. q = [r EXCEPT !.answered = TRUE, !.upto = stored]
  OBVIOUS
<1> HIDE DEF q
<1>5. reqs' = (reqs \ {r}) \cup {q}
  BY <1>4 DEF ReadPage
<1> QED BY <1>3, <1>5 DEF ReadPage, Read

\* What the end of room.info asks for.
LEMMA InfoEndsIs ==
  ASSUME ScreenInv, NEW r \in reqs, InfoEnds(r)
  PROVE  \E q \in Ask : /\ reqs' = (reqs \ {r}) \cup {q}
                        /\ q.kind = "first" /\ q.before = MaxId + 1 /\ q.answered = FALSE /\ q.upto = 0
                        /\ q.n = IF Mounted(r) THEN asked + 1 ELSE 0
<1> DEFINE w == New("first", MaxId + 1)
           q == [w EXCEPT !.n = IF Mounted(r) THEN @ ELSE 0]
<1>1. MaxId + 1 \in 0..(MaxId + 1) /\ asked \in Nat
  BY ChatSizes DEF ScreenInv
<1>2. w \in Ask /\ w.n = asked + 1 /\ w.kind = "first" /\ w.before = MaxId + 1 /\ w.answered = FALSE /\ w.upto = 0
  BY <1>1, NewIs
<1>3. reqs' = (reqs \ {r}) \cup {q}
  BY DEF InfoEnds
<1> HIDE DEF w
<1>4. /\ q \in Ask /\ q.kind = "first" /\ q.before = MaxId + 1 /\ q.answered = FALSE /\ q.upto = 0
      /\ q.n = IF Mounted(r) THEN asked + 1 ELSE 0
  BY <1>1, <1>2 DEF Ask
<1> QED BY <1>3, <1>4

\* A view asks for something, or for nothing.
AsksForPage(kinds) ==
  \/ UNCHANGED <<reqs, asked>>
  \/ \E q \in Ask : /\ asked' = asked + 1 /\ reqs' = reqs \cup {q}
                    /\ q.n = asked + 1 /\ q.kind \in kinds /\ q.answered = FALSE /\ q.upto = 0
                    /\ q.kind = "first" => q.before = MaxId + 1

\* What the effect of the room does.
LEMMA RefreshIs ==
  ASSUME TInv, Refresh
  PROVE  /\ AsksForPage({"info", "first"})
         /\ joined' \in BOOLEAN /\ current' \in {current, asked'} /\ asked' = asked + 1
         /\ hist' = <<>> /\ histTo' = 0 /\ hasMore' = TRUE /\ loadingMore' = FALSE /\ torn' = FALSE
         /\ unread' = 0 \/ \E q \in reqs' : q.kind = "info"
         /\ unread' \in {0, unread}
<1>1. MaxId + 1 \in 0..(MaxId + 1) /\ 0 \in 0..(MaxId + 1) /\ asked \in Nat /\ joined \in BOOLEAN
  BY ChatSizes DEF TInv, ScreenInv
<1>2. CASE private
  <2>1. Request("info", 0) /\ UNCHANGED <<joined, unread, current>>
    BY <1>2 DEF Refresh
  <2>2. New("info", 0) \in Ask /\ New("info", 0).n = asked + 1 /\ New("info", 0).kind = "info"
        /\ New("info", 0).answered = FALSE /\ New("info", 0).upto = 0
    BY <1>1, NewIs
  <2>3. AsksForPage({"info", "first"}) /\ New("info", 0) \in reqs'
    BY <2>1, <2>2 DEF Request, AsksForPage
  <2> QED BY <1>1, <2>1, <2>2, <2>3 DEF Refresh, Request
<1>3. CASE ~private
  <2>1. joined' = TRUE /\ unread' = 0 /\ Request("first", MaxId + 1) /\ current' = asked + 1
    BY <1>3 DEF Refresh, Fetch
  <2>2. LET q == New("first", MaxId + 1) IN
        q \in Ask /\ q.n = asked + 1 /\ q.kind = "first" /\ q.answered = FALSE /\ q.upto = 0 /\ q.before = MaxId + 1
    BY <1>1, NewIs
  <2>3. AsksForPage({"info", "first"})
    BY <2>1, <2>2 DEF Request, AsksForPage
  <2> QED BY <1>1, <2>1, <2>3 DEF Refresh, Request
<1> QED BY <1>2, <1>3

\* Scrolling up and opening the thread ask for something too.
LEMMA CallsAre ==
  ASSUME TInv, OpenThread \/ LoadMore
  PROVE  AsksForPage({"more", "thread"})
<1>1. MaxId + 1 \in 0..(MaxId + 1) /\ asked \in Nat
  BY ChatSizes DEF TInv, ScreenInv
<1>2. CASE OpenThread
  <2>1. New("thread", MaxId + 1) \in Ask /\ New("thread", MaxId + 1).n = asked + 1 /\ New("thread", MaxId + 1).kind = "thread"
        /\ New("thread", MaxId + 1).answered = FALSE /\ New("thread", MaxId + 1).upto = 0
    BY <1>1, NewIs
  <2> QED BY <1>2, <2>1 DEF OpenThread, Request, AsksForPage
<1>3. CASE LoadMore
  <2>1. IdOf(hist[1]) \in 0..(MaxId + 1)
    <3>1. hist # <<>> /\ Entries(hist) /\ log \in Seq(Event)
      BY <1>3 DEF LoadMore, TInv, PageInv, LogInv
    <3>2. 1 \in DOMAIN hist
      BY <3>1 DEF Entries
    <3>3. hist[1].ev \in DOMAIN log
      BY <3>1, <3>2 DEF Entries
    <3>4. log[hist[1].ev].id \in Ids
      BY <3>1, <3>3, IdsAre
    <3> QED BY <3>4, ChatSizes DEF IdOf, Ids
  <2> DEFINE q == New("more", IdOf(hist[1]))
  <2>2. q \in Ask /\ q.n = asked + 1 /\ q.kind = "more" /\ q.answered = FALSE /\ q.upto = 0
    BY <1>1, <2>1, NewIs
  <2>3. asked' = asked + 1 /\ reqs' = reqs \cup {q}
    BY <1>3 DEF LoadMore, Request
  <2> QED BY <2>2, <2>3 DEF AsksForPage
<1> QED BY <1>2, <1>3

\* A request is no longer waited for.
Finish(r) == reqs' = reqs \ {r} /\ UNCHANGED asked

\* The end of room.info.
AskFirst(r) ==
  /\ asked' = asked + 1
  /\ \E q \in Ask : /\ reqs' = (reqs \ {r}) \cup {q}
                    /\ q.kind = "first" /\ q.before = MaxId + 1 /\ q.answered = FALSE /\ q.upto = 0
                    /\ q.n = IF Mounted(r) THEN asked + 1 ELSE 0

\* All that happens to the requests.
LEMMA RequestsAre ==
  ASSUME TInv, ChatNext
  PROVE  \/ AsksForPage({"info", "first", "more", "thread"})
         \/ \E r \in reqs : Finish(r)
         \/ \E r \in reqs : AskFirst(r)
         \/ \E r \in reqs : UNCHANGED asked /\ \E q \in Ask : Read(q, r) /\ reqs' = (reqs \ {r}) \cup {q}
<1> USE DEF TInv
<1>0. AsksForPage({"info", "first"}) \/ AsksForPage({"more", "thread"}) \/ UNCHANGED <<reqs, asked>>
        => AsksForPage({"info", "first", "more", "thread"})
  BY DEF AsksForPage
<1>1. CASE Posting
  BY <1>0, <1>1, PostsAre DEF Ingest
<1>2. CASE Persist \/ Taking
  BY <1>0, <1>2 DEF Persist, Taking, Announced, TakeDelete, TakeOther
<1>3. CASE Getting
  BY <1>0, <1>3 DEF Getting, Content, FetchFails, ReplyArrives, EditArrives, MessageArrives
<1>4. CASE Looking
  <2>1. CASE Close \/ Drop
    BY <1>0, <2>1 DEF Close, Drop
  <2>2. CASE Open \/ Rerun \/ Back
    <3>1. Refresh \/ UNCHANGED <<reqs, asked>>
      BY <2>2 DEF Open, Rerun, Back
    <3> QED BY <1>0, <3>1, RefreshIs
  <2>3. CASE OpenThread \/ LoadMore
    BY <1>0, <2>3, CallsAre
  <2> QED BY <1>4, <2>1, <2>2, <2>3 DEF Looking
<1>5. CASE Answering
  <2>1. PICK r \in reqs : ReadPage(r) \/ FirstArrives(r) \/ MoreArrives(r) \/ InfoEnds(r)
                          \/ Denied(r) \/ ThreadArrives(r) \/ AskFails(r)
    BY <1>5 DEF Answering
  <2>2. CASE ReadPage(r)
    BY <2>2, ReadPageIs
  <2>3. CASE InfoEnds(r)
    <3>1. asked' = asked + 1
      BY <2>3 DEF InfoEnds
    <3> QED BY <2>3, <3>1, InfoEndsIs DEF AskFirst
  <2>4. CASE FirstArrives(r) \/ MoreArrives(r) \/ Denied(r) \/ ThreadArrives(r) \/ AskFails(r)
    BY <2>4 DEF FirstArrives, MoreArrives, Denied, ThreadArrives, AskFails, Done, Finish
  <2> QED BY <2>1, <2>2, <2>3, <2>4
<1> QED BY <1>1, <1>2, <1>3, <1>4, <1>5, StepsAre

\* What is on the screen, and what it waits for, has its type.
LEMMA ScreenTypes ==
  ASSUME TInv, ChatNext
  PROVE  ScreenInv' /\ asked <= asked'
<1>1. /\ joined \in BOOLEAN /\ link \in BOOLEAN /\ open \in BOOLEAN /\ panel \in BOOLEAN
      /\ asked \in Nat /\ mounted \in 0..asked /\ current \in 0..asked
      /\ reqs \subseteq Ask /\ \A r \in reqs : r.upto <= stored
  BY DEF TInv, ScreenInv
<1>2. asked' \in Nat /\ asked <= asked'
  <2>1. asked' = asked \/ asked' = asked + 1
    BY RequestsAre DEF AsksForPage, Finish, AskFirst
  <2> QED BY <1>1, <2>1
<1>3. stored \in Nat /\ stored' \in Nat /\ stored <= stored'
  BY LogTypes DEF TInv, LogInv
<1>4. reqs' \subseteq Ask /\ \A q \in reqs' : q.upto <= stored'
  <2>1. \A q \in Ask : q.upto \in Nat
    BY DEF Ask
  <2>2. \A q \in reqs : q.upto <= stored'
    BY <1>1, <1>3, <2>1
  <2>3. CASE AsksForPage({"info", "first", "more", "thread"}) \/ \E r \in reqs : AskFirst(r)
    BY <1>1, <1>3, <2>2, <2>3 DEF AsksForPage, AskFirst
  <2>4. CASE \E r \in reqs : Finish(r)
    BY <1>1, <2>2, <2>4 DEF Finish
  <2>5. CASE \E r \in reqs : UNCHANGED asked /\ \E q \in Ask : Read(q, r) /\ reqs' = (reqs \ {r}) \cup {q}
    BY <1>1, <1>3, <2>2, <2>5 DEF Read
  <2> QED BY <2>3, <2>4, <2>5, RequestsAre
<1>5. /\ joined' \in BOOLEAN /\ link' \in BOOLEAN /\ open' \in BOOLEAN /\ panel' \in BOOLEAN
      /\ mounted' \in {mounted, asked} /\ current' \in {current, asked'}
  <2>1. CASE Posting
    <3>1. \E events \in Seq(Event) : Ingest(events)
      BY <2>1, PostsAre DEF TInv
    <3> QED BY <1>1, <3>1 DEF Ingest, chatScreen
  <2>2. CASE Persist \/ Taking
    BY <1>1, <2>2 DEF Persist, Taking, Announced, TakeDelete, TakeOther, chatScreen
  <2>3. CASE Getting
    BY <1>1, <2>3 DEF Getting, Content, FetchFails, ReplyArrives, EditArrives, MessageArrives, chatScreen
  <2>4. CASE Looking
    <3>1. Refresh => joined' \in BOOLEAN /\ current' \in {current, asked'}
      BY RefreshIs
    <3> QED BY <1>1, <2>4, <3>1 DEF Looking, Open, Close, Rerun, OpenThread, LoadMore, Drop, Back, chatScreen
  <2>5. CASE Answering
    <3>1. PICK r \in reqs : ReadPage(r) \/ FirstArrives(r) \/ MoreArrives(r) \/ InfoEnds(r)
                            \/ Denied(r) \/ ThreadArrives(r) \/ AskFails(r)
      BY <2>5 DEF Answering
    <3>2. CASE ReadPage(r)
      BY <1>1, <3>2 DEF ReadPage, chatScreen
    <3>3. CASE InfoEnds(r)
      BY <1>1, <3>3 DEF InfoEnds
    <3>4. CASE FirstArrives(r) \/ MoreArrives(r) \/ Denied(r) \/ ThreadArrives(r) \/ AskFails(r)
      BY <1>1, <3>4 DEF FirstArrives, MoreArrives, Denied, ThreadArrives, AskFails, chatScreen
    <3> QED BY <3>1, <3>2, <3>3, <3>4
  <2> QED BY <2>1, <2>2, <2>3, <2>4, <2>5, StepsAre
<1>6. mounted' \in 0..asked' /\ current' \in 0..asked'
  BY <1>1, <1>2, <1>5
<1> QED BY <1>2, <1>4, <1>5, <1>6 DEF ScreenInv

\* The stores hold entries of the log, and no more than they may.
LEMMA StoreTypes ==
  ASSUME TInv, ChatNext
  PROVE  StoreInv'
<1> USE DEF TInv
<1>1. /\ Entries(msgs) /\ Entries(thread) /\ Len(msgs) <= Cap /\ Len(thread) <= Cap
      /\ replies \in Nat /\ unread \in Nat
      /\ updates \in [Ids -> SUBSET {"edited", "deleted"}] /\ revived \subseteq Ids
      /\ Cap \in Nat /\ log \in Seq(Event)
  BY ChatSizes DEF StoreInv, LogInv
<1>2. /\ LogKept
      /\ \A s : Entries(s) => s \in Seq(Entry) /\ \A n \in DOMAIN s : s[n].ev \in DOMAIN log'
  BY LogTypes DEF LogKept, Entries
<1>3. \A i \in DOMAIN log : log[i].id \in Ids
  BY <1>1, IdsAre
<1>4. CASE UNCHANGED <<msgs, thread, replies, updates, revived>> /\ unread' \in {0, unread}
  <2>1. Entries(msgs)' /\ Entries(thread)'
    BY <1>1, <1>2, <1>4 DEF Entries
  <2>2. unread' \in Nat
    BY <1>1, <1>4
  <2> QED BY <1>1, <1>4, <2>1, <2>2 DEF StoreInv
<1>5. CASE Posting \/ Persist
  <2>1. UNCHANGED <<msgs, thread, replies, updates, revived, unread>>
    <3>1. CASE Posting
      BY <3>1, PostsAre DEF Ingest
    <3>2. CASE Persist
      BY <3>2 DEF Persist, chatLive
    <3> QED BY <1>5, <3>1, <3>2
  <2> QED BY <1>4, <2>1
<1>6. CASE Looking
  <2>1. UNCHANGED <<msgs, thread, replies, updates, revived>>
    BY <1>6 DEF Looking, Open, Close, Rerun, OpenThread, LoadMore, Drop, Back, ChatRest
  <2>2. Refresh => unread' \in {0, unread}
    BY RefreshIs
  <2>3. unread' \in {0, unread}
    BY <1>6, <2>2 DEF Looking, Open, Close, Rerun, OpenThread, LoadMore, Drop, Back
  <2> QED BY <1>4, <2>1, <2>3
<1>7. CASE Taking
  <2>0. log' = log
    BY <1>7, LogStays
  <2>1. PICK i \in coming : Announced(i)
    BY <1>7 DEF Taking
  <2>2. i \in DOMAIN log
    BY DEF LogInv
  <2>3. CASE TakeDelete(i)
    <3> DEFINE t == log[i].id
    <3>1. /\ thread' = Marked(thread, t, "deleted") /\ msgs' \in {msgs, Marked(msgs, t, "deleted")}
          /\ updates' = [updates EXCEPT ![t] = @ \cup {"deleted"}] /\ UNCHANGED <<replies, unread, revived>>
      BY <2>3 DEF TakeDelete, Overlay
    <3>2. Entries(Marked(thread, t, "deleted")) /\ Len(Marked(thread, t, "deleted")) = Len(thread)
          /\ Entries(Marked(msgs, t, "deleted")) /\ Len(Marked(msgs, t, "deleted")) = Len(msgs)
      BY <1>1, MarkedAre
    <3>3. updates' \in [Ids -> SUBSET {"edited", "deleted"}]
      BY <1>1, <1>3, <2>2, <3>1
    <3> QED BY <1>1, <2>0, <3>1, <3>2, <3>3 DEF StoreInv, Entries
  <2>4. CASE TakeOther(i)
    BY <1>1, <2>0, <2>4 DEF TakeOther, StoreInv, Entries
  <2> QED BY <2>1, <2>3, <2>4 DEF Announced
<1>8. CASE Getting
  <2>0. log' = log
    BY <1>8, LogStays
  <2>1. PICK i \in fetching : Content(i)
    BY <1>8 DEF Getting
  <2>2. i \in DOMAIN log
    BY DEF LogInv
  <2>3. CASE FetchFails(i)
    BY <1>4, <2>3 DEF FetchFails
  <2>4. CASE ReplyArrives(i)
    <3>1. Entries(Appended(thread, i)) /\ Len(Appended(thread, i)) \in 1..Cap
      BY <1>1, <2>2, AppendedAre
    <3>2. /\ thread' = Appended(thread, i) /\ UNCHANGED <<msgs, replies, updates, unread>>
          /\ revived' \in {revived, revived \cup {log[i].id}}
      BY <2>4 DEF ReplyArrives
    <3>3. Entries(thread)' /\ Entries(msgs)'
      BY <1>1, <2>0, <3>1, <3>2 DEF Entries
    <3>4. Len(thread') <= Cap /\ Len(msgs') <= Cap
      BY <1>1, <3>1, <3>2, ChatSizes
    <3>5. revived' \subseteq Ids
      BY <1>1, <1>3, <2>2, <3>2
    <3> QED BY <1>1, <3>2, <3>3, <3>4, <3>5 DEF StoreInv
  <2>5. CASE EditArrives(i)
    <3> DEFINE t == log[i].id
    <3>1. /\ thread' = Marked(thread, t, "edited") /\ msgs' = Marked(msgs, t, "edited")
          /\ updates' = [updates EXCEPT ![t] = @ \cup {"edited"}] /\ UNCHANGED <<replies, unread, revived>>
      BY <2>5 DEF EditArrives, Overlay
    <3>2. Entries(Marked(thread, t, "edited")) /\ Len(Marked(thread, t, "edited")) = Len(thread)
          /\ Entries(Marked(msgs, t, "edited")) /\ Len(Marked(msgs, t, "edited")) = Len(msgs)
      BY <1>1, MarkedAre
    <3>3. updates' \in [Ids -> SUBSET {"edited", "deleted"}]
      BY <1>1, <1>3, <2>2, <3>1
    <3> QED BY <1>1, <2>0, <3>1, <3>2, <3>3 DEF StoreInv, Entries
  <2>6. CASE MessageArrives(i)
    <3>1. Entries(Appended(msgs, i)) /\ Len(Appended(msgs, i)) \in 1..Cap
      BY <1>1, <2>2, AppendedAre
    <3>2. /\ msgs' \in {msgs, Appended(msgs, i)} /\ UNCHANGED <<thread, replies, updates, revived>>
          /\ unread' \in {unread, unread + 1}
      BY <2>6 DEF MessageArrives
    <3> QED BY <1>1, <2>0, <3>1, <3>2 DEF StoreInv, Entries
  <2> QED BY <2>1, <2>3, <2>4, <2>5, <2>6 DEF Content
<1>9. CASE Answering
  <2>0. log' = log
    BY <1>9, LogStays
  <2>1. PICK r \in reqs : ReadPage(r) \/ FirstArrives(r) \/ MoreArrives(r) \/ InfoEnds(r)
                          \/ Denied(r) \/ ThreadArrives(r) \/ AskFails(r)
    BY <1>9 DEF Answering
  <2>2. CASE ReadPage(r)
    BY <1>4, <2>2, ReadPageIs DEF chatLive
  <2>3. CASE FirstArrives(r) \/ MoreArrives(r) \/ AskFails(r)
    BY <1>4, <2>3 DEF FirstArrives, MoreArrives, AskFails, chatLive
  <2>4. CASE InfoEnds(r) \/ Denied(r)
    BY <1>4, <2>4 DEF InfoEnds, Denied, ChatRest
  <2>5. CASE ThreadArrives(r)
    <3>1. r.upto \in 0..stored
      BY DEF ScreenInv, Ask, LogInv
    <3>2. Entries(thread') /\ Len(thread') <= Cap
      BY <2>5, <3>1, ThreadRowsAre DEF ThreadArrives
    <3>3. UNCHANGED <<msgs, replies, updates, unread, revived>>
      BY <2>5 DEF ThreadArrives
    <3> QED BY <1>1, <2>0, <3>2, <3>3 DEF StoreInv, Entries
  <2> QED BY <2>1, <2>2, <2>3, <2>4, <2>5
<1> QED BY <1>5, <1>6, <1>7, <1>8, <1>9, StepsAre

\* So does the history.
LEMMA PageTypes ==
  ASSUME TInv, ChatNext
  PROVE  PageInv'
<1> USE DEF TInv
<1>1. Entries(hist) /\ histTo \in 0..stored /\ stored \in Nat
      /\ hasMore \in BOOLEAN /\ loadingMore \in BOOLEAN /\ torn \in BOOLEAN
  BY DEF PageInv, LogInv
<1>2. LogInv' /\ LogKept /\ stored <= stored'
  BY LogTypes
<1>3. CASE hist' \in {hist, <<>>} /\ histTo' \in {histTo, 0}
           /\ hasMore' \in BOOLEAN /\ loadingMore' \in BOOLEAN /\ torn' \in BOOLEAN
  <2>1. histTo' \in 0..stored'
    BY <1>1, <1>2, <1>3 DEF LogInv
  <2>2. Entries(hist)'
    <3>1. CASE hist' = hist
      BY <1>1, <1>2, <3>1 DEF Entries, LogKept
    <3>2. CASE hist' = <<>>
      BY <3>2 DEF Entries
    <3> QED BY <1>3, <3>1, <3>2
  <2> QED BY <1>3, <2>1, <2>2 DEF PageInv
<1>4. CASE Posting \/ Persist \/ Taking \/ Getting
  <2>1. UNCHANGED <<hist, histTo, hasMore, loadingMore, torn>>
    <3>1. CASE Posting
      BY <3>1, PostsAre DEF Ingest, chatPage
    <3>2. CASE Persist \/ Taking
      BY <3>2 DEF Persist, Taking, Announced, TakeDelete, TakeOther, chatPage
    <3>3. CASE Getting
      BY <3>3 DEF Getting, Content, FetchFails, ReplyArrives, EditArrives, MessageArrives, chatPage
    <3> QED BY <1>4, <3>1, <3>2, <3>3
  <2> QED BY <1>1, <1>3, <2>1
<1>5. CASE Looking
  <2>1. Refresh => hist' = <<>> /\ histTo' = 0 /\ hasMore' = TRUE /\ loadingMore' = FALSE /\ torn' = FALSE
    BY DEF Refresh
  <2>2. hist' \in {hist, <<>>} /\ histTo' \in {histTo, 0}
        /\ hasMore' \in BOOLEAN /\ loadingMore' \in BOOLEAN /\ torn' \in BOOLEAN
    BY <1>1, <1>5, <2>1 DEF Looking, Open, Close, Rerun, OpenThread, LoadMore, Drop, Back, chatPage
  <2> QED BY <1>3, <2>2
<1>6. CASE Answering
  <2>0. log' = log /\ stored' = stored
    BY <1>6, LogStays
  <2>1. PICK r \in reqs : ReadPage(r) \/ FirstArrives(r) \/ MoreArrives(r) \/ InfoEnds(r)
                          \/ Denied(r) \/ ThreadArrives(r) \/ AskFails(r)
    BY <1>6 DEF Answering
  <2> DEFINE entries == Older(r)
  <2>2. r.upto \in 0..stored /\ Page \in Nat
    BY ChatSizes DEF ScreenInv, Ask, LogInv
  <2>3. Entries(entries) /\ Entries(Newest(entries, Page)) /\ Len(entries) \in Nat
    <3>1. Entries(entries) /\ Entries(Newest(entries, Page))
      BY <2>2, NewestRowsAre DEF Older
    <3> QED BY <3>1 DEF Entries
  <2> HIDE DEF entries
  <2>4. CASE ReadPage(r)
    BY <1>1, <1>3, <2>4, ReadPageIs DEF chatPage
  <2>5. CASE InfoEnds(r) \/ Denied(r) \/ ThreadArrives(r) \/ AskFails(r)
    BY <1>1, <1>3, <2>5 DEF InfoEnds, Denied, ThreadArrives, AskFails, chatPage
  <2>6. CASE FirstArrives(r)
    <3>1. hist' \in {hist, Newest(entries, Page)} /\ histTo' \in {histTo, r.upto}
          /\ hasMore' \in BOOLEAN /\ loadingMore' = loadingMore /\ torn' \in BOOLEAN
      <4>1. CASE Mounted(r)
        <5>1. /\ hist' = IF entries = <<>> THEN hist ELSE Newest(entries, Page)
              /\ histTo' = IF entries = <<>> THEN histTo ELSE r.upto
              /\ hasMore' = (Len(entries) > Page) /\ loadingMore' = loadingMore
              /\ torn' = (r.n # current \/ (torn /\ entries = <<>>))
          BY <2>6, <4>1 DEF FirstArrives, entries
        <5>2. hasMore' \in BOOLEAN /\ torn' \in BOOLEAN
          BY <5>1
        <5> QED BY <5>1, <5>2
      <4>2. CASE ~Mounted(r)
        BY <1>1, <2>6, <4>2 DEF FirstArrives
      <4> QED BY <4>1, <4>2
    <3> QED BY <1>1, <2>0, <2>2, <2>3, <3>1 DEF PageInv, Entries
  <2>7. CASE MoreArrives(r)
    <3>1. hist' \in {hist, Newest(entries, Page) \o hist} /\ histTo' = histTo
          /\ hasMore' \in BOOLEAN /\ loadingMore' \in BOOLEAN /\ torn' \in BOOLEAN
      <4>1. CASE Mounted(r)
        <5>1. /\ hist' = Newest(entries, Page) \o hist /\ histTo' = histTo
              /\ hasMore' = (Len(entries) > Page) /\ loadingMore' = FALSE
              /\ torn' = (torn \/ hist = <<>> \/ IdOf(hist[1]) # r.before \/ r.upto < histTo)
          BY <2>7, <4>1 DEF MoreArrives, entries
        <5>2. hasMore' \in BOOLEAN /\ torn' \in BOOLEAN
          BY <5>1
        <5> QED BY <5>1, <5>2
      <4>2. CASE ~Mounted(r)
        BY <1>1, <2>7, <4>2 DEF MoreArrives
      <4> QED BY <4>1, <4>2
    <3>2. Entries(Newest(entries, Page) \o hist)
      <4> DEFINE new == Newest(entries, Page)
                 both == new \o hist
      <4>1. new \in Seq(Entry) /\ hist \in Seq(Entry)
            /\ (\A n \in 1..Len(new) : new[n].ev \in DOMAIN log) /\ (\A n \in 1..Len(hist) : hist[n].ev \in DOMAIN log)
        BY <1>1, <2>3 DEF Entries
      <4> HIDE DEF new
      <4>2. both \in Seq(Entry) /\ Len(both) = Len(new) + Len(hist)
            /\ (\A n \in 1..Len(new) : both[n] = new[n])
            /\ (\A n \in 1..Len(both) : n \notin 1..Len(new) => n - Len(new) \in 1..Len(hist) /\ both[n] = hist[n - Len(new)])
        BY <4>1
      <4> HIDE DEF both
      <4>3. \A n \in 1..Len(both) : both[n].ev \in DOMAIN log
        BY <4>1, <4>2
      <4>4. Entries(both)
        BY <4>2, <4>3 DEF Entries
      <4> QED BY <4>4 DEF both, new
    <3> QED BY <1>1, <2>0, <3>1, <3>2 DEF PageInv, Entries
  <2> QED BY <2>1, <2>4, <2>5, <2>6, <2>7
<1> QED BY <1>4, <1>5, <1>6, StepsAre

\* At the start everything is empty.
LEMMA TypesInit ==
  ASSUME ChatInit
  PROVE  TInv
<1>1. log = <<>> /\ DOMAIN log = {} /\ Len(log) = 0 /\ log \in Seq(Event)
  BY DEF ChatInit
<1>2. LogInv
  <2>1. chatLeft \in [ChatKinds -> Nat] /\ chatLeft["ids"] <= MaxId
    BY ChatCounts DEF ChatInit
  <2> QED BY <1>1, <2>1 DEF ChatInit, LogInv
<1>3. StoreInv
  BY <1>1, ChatSizes DEF ChatInit, StoreInv, Entries
<1>4. PageInv
  <2>1. hist = <<>> /\ histTo = 0 /\ stored = 0 /\ hasMore = TRUE /\ loadingMore = FALSE /\ torn = FALSE
    BY DEF ChatInit
  <2>2. Entries(hist)
    BY <2>1 DEF Entries
  <2>3. histTo \in 0..stored
    BY <2>1
  <2>4. hasMore \in BOOLEAN /\ loadingMore \in BOOLEAN /\ torn \in BOOLEAN
    BY <2>1, Zenon
  <2> QED BY <2>2, <2>3, <2>4, Zenon DEF PageInv
<1>5. ScreenInv
  <2>1. /\ joined \in BOOLEAN /\ link = TRUE /\ open = FALSE /\ panel = FALSE
        /\ asked = 0 /\ mounted = 0 /\ current = 0 /\ reqs = {}
    BY DEF ChatInit
  <2>2. joined \in BOOLEAN /\ link \in BOOLEAN /\ open \in BOOLEAN /\ panel \in BOOLEAN
    BY <2>1, Zenon
  <2>3. asked \in Nat /\ mounted \in 0..asked /\ current \in 0..asked
    BY <2>1
  <2>4. reqs \subseteq Ask /\ \A r \in reqs : r.upto <= stored
    BY <2>1
  <2> QED BY <2>2, <2>3, <2>4, Zenon DEF ScreenInv
<1> QED BY <1>2, <1>3, <1>4, <1>5 DEF TInv

\* The types are kept by every step.
LEMMA TypesStay ==
  ASSUME TInv, [ChatNext]_chatVars
  PROVE  TInv'
<1>1. CASE ChatNext
  BY <1>1, LogTypes, StoreTypes, PageTypes, ScreenTypes DEF TInv
<1>2. CASE UNCHANGED chatVars
  BY <1>2 DEF chatVars, TInv, LogInv, StoreInv, PageInv, ScreenInv, Entries
<1> QED BY <1>1, <1>2

\* Every variable of the view has its type, and the stores hold events of the log.
THEOREM ChatTypes == ChatSpec => []TInv
<1>1. ChatInit => TInv
  BY TypesInit
<1>2. TInv /\ [ChatNext]_chatVars => TInv'
  BY TypesStay
<1> QED BY <1>1, <1>2, PTL DEF ChatSpec

\* MessageStore, ChatRoom and ThreadPanel: every variable has its type, the stores
\* never hold more than they may, and the history was not read from more of the
\* log than there is.
THEOREM ChatTypeCorrect == ChatSpec => []ChatTypeOK
<1>1. TInv => ChatTypeOK
  <2> SUFFICES ASSUME TInv
               PROVE  ChatTypeOK
    OBVIOUS
  <2>1. msgs \in Seq(Entry) /\ thread \in Seq(Entry) /\ hist \in Seq(Entry)
    BY DEF TInv, StoreInv, PageInv, Entries
  <2>2. stored \in 0..Len(log) /\ histTo \in 0..stored
    BY DEF TInv, LogInv, PageInv
  <2>3. histTo \in 0..Len(log)
    BY <2>2
  <2> QED BY <2>1, <2>2, <2>3 DEF TInv, LogInv, StoreInv, PageInv, ScreenInv, ChatTypeOK
<1> QED BY <1>1, ChatTypes, PTL

-----------------------------------------------------------------------------
(***************************************************************************)
(* The unread messages of the room that is on the screen.                  *)
(***************************************************************************)

\* While the question whether the room may be shown is open, it may have unread
\* messages; when it is answered, it has none.
LEMMA UnreadStays ==
  ASSUME TInv, NoneUnreadInView, ChatNext
  PROVE  NoneUnreadInView'
<1> USE DEF NoneUnreadInView
<1>1. CASE UNCHANGED <<open, link, unread, reqs>>
  BY <1>1
<1>2. CASE Posting \/ Persist \/ Taking
  <2>1. UNCHANGED <<open, link, unread, reqs>>
    <3>1. CASE Posting
      BY <3>1, PostsAre DEF Ingest, chatScreen, TInv
    <3>2. CASE Persist \/ Taking
      BY <3>2 DEF Persist, Taking, Announced, TakeDelete, TakeOther, chatScreen, chatLive
    <3> QED BY <1>2, <3>1, <3>2
  <2> QED BY <1>1, <2>1
<1>3. CASE Getting
  BY <1>3 DEF Getting, Content, FetchFails, ReplyArrives, EditArrives, MessageArrives, chatScreen
<1>4. CASE Looking
  <2>1. Refresh => unread' = 0 \/ \E q \in reqs' : q.kind = "info"
    BY RefreshIs
  <2>2. CASE Open \/ Rerun \/ Back
    BY <2>1, <2>2 DEF Open, Rerun, Back
  <2>3. CASE Close \/ Drop
    BY <2>3 DEF Close, Drop
  <2>4. CASE OpenThread \/ LoadMore
    <3>1. reqs \subseteq reqs'
      BY <2>4, CallsAre DEF AsksForPage
    <3>2. UNCHANGED <<open, link, unread>>
      BY <2>4 DEF OpenThread, LoadMore, chatScreen
    <3> QED BY <3>1, <3>2
  <2> QED BY <1>4, <2>2, <2>3, <2>4 DEF Looking
<1>5. CASE Answering
  <2>1. PICK r \in reqs : ReadPage(r) \/ FirstArrives(r) \/ MoreArrives(r) \/ InfoEnds(r)
                          \/ Denied(r) \/ ThreadArrives(r) \/ AskFails(r)
    BY <1>5 DEF Answering
  <2>2. CASE ReadPage(r)
    <3>1. UNCHANGED <<open, link, unread>>
      BY <2>2, ReadPageIs DEF chatScreen, chatLive, TInv
    <3>2. PICK q \in Ask : q.kind = r.kind /\ reqs' = (reqs \ {r}) \cup {q}
      BY <2>2, ReadPageIs DEF Read, TInv
    <3>3. (\A a \in reqs' : a.kind # "info") => \A a \in reqs : a.kind # "info"
      BY <3>2
    <3> QED BY <3>1, <3>3
  <2>3. CASE InfoEnds(r)
    BY <2>3 DEF InfoEnds
  <2>4. CASE Denied(r)
    BY <2>4 DEF Denied
  <2>5. CASE FirstArrives(r) \/ MoreArrives(r) \/ ThreadArrives(r) \/ AskFails(r)
    <3>1. UNCHANGED <<open, link, unread>> /\ reqs' = reqs \ {r} /\ r.kind # "info"
      BY <2>5 DEF FirstArrives, MoreArrives, ThreadArrives, AskFails, Done, Got, chatScreen, chatLive
    <3> QED BY <3>1
  <2> QED BY <2>1, <2>2, <2>3, <2>4, <2>5
<1> QED BY <1>2, <1>3, <1>4, <1>5, StepsAre

\* ChatClient and ChatRoom: a message that comes while its room is on the screen
\* is not counted as unread, and showing the room forgets those that were.
THEOREM NoneUnread == ChatSpec => []NoneUnreadInView
<1>1. ChatInit => NoneUnreadInView
  BY DEF ChatInit, NoneUnreadInView
<1>2. TInv /\ NoneUnreadInView /\ [ChatNext]_chatVars => NoneUnreadInView'
  <2> SUFFICES ASSUME TInv, NoneUnreadInView, [ChatNext]_chatVars
               PROVE  NoneUnreadInView'
    OBVIOUS
  <2>1. CASE UNCHANGED chatVars
    BY <2>1 DEF chatVars, NoneUnreadInView
  <2> QED BY <2>1, UnreadStays
<1> QED BY <1>1, <1>2, ChatTypes, PTL DEF ChatSpec

-----------------------------------------------------------------------------
(***************************************************************************)
(* Deletions.                                                              *)
(***************************************************************************)

InRoom(i) == log[i].act = "message" /\ log[i].place = "room"

\* The timestamp of a message of the room is that of no other event.
Unique == \A i, j \in DOMAIN log : InRoom(i) /\ log[j].id = log[i].id => j = i

\* A new message of the room has a timestamp of its own, and no amendment has it.
LEMMA UniqueStays ==
  ASSUME TInv, Unique, ChatNext
  PROVE  Unique'
<1> USE DEF TInv
<1>1. CASE log' = log
  BY <1>1 DEF Unique, InRoom
<1>2. CASE Posting
  <2>1. PICK events \in Seq(Event) : Posted(events) /\ Ingest(events)
    BY <1>2, PostsAre
  <2>2. /\ LogKept
        /\ \A i \in DOMAIN log' \ DOMAIN log : i - Len(log) \in DOMAIN events /\ log'[i] = events[i - Len(log)]
        /\ DOMAIN log' \subseteq Nat /\ Len(log) \in Nat
    <3>1. log \in Seq(Event)
      BY DEF LogInv
    <3>2. LogKept
          /\ \A i \in DOMAIN log' \ DOMAIN log : i - Len(log) \in DOMAIN events /\ log'[i] = events[i - Len(log)]
      BY <2>1, IngestAppends
    <3>3. DOMAIN log' \subseteq Nat
      BY <3>2 DEF LogKept
    <3> QED BY <3>1, <3>2, <3>3
  <2> DEFINE old == DOMAIN log
             new == DOMAIN log' \ DOMAIN log
  <2>3. \A i \in old : i \in DOMAIN log' /\ log'[i] = log[i]
    BY <2>2 DEF LogKept
  <2> SUFFICES ASSUME NEW i \in DOMAIN log', NEW j \in DOMAIN log',
                      log'[i].act = "message", log'[i].place = "room", log'[j].id = log'[i].id
               PROVE  j = i
    BY DEF Unique, InRoom
  <2>4. CASE \E e \in Event, k \in DOMAIN log :
               /\ events = <<e>> /\ log[k].act = "message" /\ log[k].place = "thread"
               /\ e.id = log[k].id /\ e.act # "message" /\ e.act # "react"
    <3>1. PICK e \in Event, k \in DOMAIN log :
               /\ events = <<e>> /\ log[k].act = "message" /\ log[k].place = "thread"
               /\ e.id = log[k].id /\ e.act # "message"
      BY <2>4
    <3>2. \A x \in new : log'[x] = e
      BY <2>2, <3>1
    <3>3. i \in old
      BY <3>1, <3>2
    <3>4. j \in old
      <4> SUFFICES ASSUME j \in new
                   PROVE  FALSE
        OBVIOUS
      <4>1. log[i].act = "message" /\ log[i].place = "room" /\ log[k].id = log[i].id
        BY <2>3, <3>1, <3>2, <3>3
      <4>2. k = i
        BY <3>3, <4>1 DEF Unique, InRoom
      <4> QED BY <3>1, <4>1, <4>2
    <3> QED BY <2>3, <3>3, <3>4 DEF Unique, InRoom
  <2>5. CASE \E e \in Event : events = <<e>> /\ \A k \in DOMAIN log : log[k].id # e.id
    <3>1. PICK e \in Event : events = <<e>> /\ \A k \in DOMAIN log : log[k].id # e.id
      BY <2>5
    <3>2. \A x \in new : log'[x] = e /\ x = Len(log) + 1
      <4>1. \A x \in new : x - Len(log) \in {1} /\ log'[x] = events[x - Len(log)]
        BY <2>2, <3>1
      <4> QED BY <2>2, <3>1, <4>1
    <3> QED BY <2>3, <3>1, <3>2 DEF Unique, InRoom
  <2>6. CASE \E e, f \in Event :
               /\ events = <<e, f>> /\ f.id = e.id /\ e.place # "room" /\ f.place # "room"
               /\ \A k \in DOMAIN log : log[k].id # e.id
    <3>1. PICK e \in Event, f \in Event :
               /\ events = <<e, f>> /\ f.id = e.id /\ e.place # "room" /\ f.place # "room"
               /\ \A k \in DOMAIN log : log[k].id # e.id
      BY <2>6
    <3>2. \A x \in new : log'[x] \in {e, f}
      BY <2>2, <3>1
    <3> QED BY <2>3, <3>1, <3>2 DEF Unique, InRoom
  <2> QED BY <2>1, <2>4, <2>5, <2>6 DEF Posted
<1>3. CASE Persist
  BY <1>1, <1>3 DEF Persist
<1> QED BY <1>1, <1>2, <1>3, LogStays, StepsAre

\* The overlay knows the deletions this client has heard of.
HearsLive == \A i \in DOMAIN log : log[i].act = "delete" /\ i \notin coming \cup missed =>
           "deleted" \in updates[log[i].id]

\* It knows no other deletions.
Deletes(t) == \E i \in DOMAIN log : log[i].act = "delete" /\ log[i].id = t
HearsNoMore == \A t \in Ids : "deleted" \in updates[t] => Deletes(t)

\* The thread shows as deleted what the overlay says is, but for what came back.
Struck == \A n \in DOMAIN thread :
            "deleted" \in updates[IdOf(thread[n])] /\ IdOf(thread[n]) \notin revived =>
              "deleted" \in thread[n].marks

\* The overlay forgets no deletion, and what is announced is taken or missed.
LEMMA HeardStays ==
  ASSUME TInv, HearsLive, ChatNext
  PROVE  HearsLive' /\ \A t \in Ids : "deleted" \in updates[t] => "deleted" \in updates'[t]
<1> USE DEF TInv
<1>1. /\ coming \subseteq DOMAIN log /\ fetching \subseteq DOMAIN log /\ log \in Seq(Event)
      /\ updates \in [Ids -> SUBSET {"edited", "deleted"}]
  BY DEF LogInv, StoreInv
<1>2. \A i \in DOMAIN log : log[i].id \in Ids
  BY <1>1, IdsAre
<1>3. CASE UNCHANGED <<log, updates>> /\ coming \cup missed \subseteq coming' \cup missed'
  BY <1>3 DEF HearsLive
<1>4. CASE Posting
  <2>1. PICK events \in Seq(Event) : Ingest(events)
    BY <1>4, PostsAre
  <2>2. LogKept
    BY <2>1, IngestAppends
  <2>3. /\ updates' = updates /\ coming \cup missed \subseteq coming' \cup missed'
        /\ DOMAIN log' \ DOMAIN log \subseteq coming' \cup missed'
    BY <2>1 DEF Ingest
  <2> QED BY <2>2, <2>3 DEF HearsLive, LogKept
<1>5. CASE Persist \/ Answering
  <2>1. UNCHANGED <<log, updates, coming, missed>>
    <3>1. CASE Persist
      BY <3>1 DEF Persist, chatLive
    <3>2. CASE Answering
      <4>1. PICK r \in reqs : ReadPage(r) \/ FirstArrives(r) \/ MoreArrives(r) \/ InfoEnds(r)
                              \/ Denied(r) \/ ThreadArrives(r) \/ AskFails(r)
        BY <3>2 DEF Answering
      <4>2. CASE ReadPage(r)
        BY <4>2, ReadPageIs DEF chatServer, chatLive
      <4>3. CASE InfoEnds(r)
        BY <4>3 DEF InfoEnds, ChatRest, chatServer
      <4> QED BY <4>1, <4>2, <4>3 DEF FirstArrives, MoreArrives, Denied, ThreadArrives, AskFails,
                                     ChatRest, chatServer, chatLive
    <3> QED BY <1>5, <3>1, <3>2
  <2> QED BY <1>3, <2>1
<1>6. CASE Looking
  <2>1. UNCHANGED <<log, updates>> /\ coming \cup missed \subseteq coming' \cup missed'
    BY <1>6 DEF Looking, Open, Close, Rerun, OpenThread, LoadMore, Drop, Back, ChatRest, chatServer
  <2> QED BY <1>3, <2>1
<1>7. CASE Taking
  <2>1. PICK i \in coming : Announced(i)
    BY <1>7 DEF Taking
  <2>2. log' = log /\ coming' = coming \ {i} /\ missed' = missed
    BY <2>1 DEF Announced, TakeDelete, TakeOther, chatServer
  <2>3. CASE TakeDelete(i)
    <3>1. updates' = [updates EXCEPT ![log[i].id] = @ \cup {"deleted"}]
      BY <2>3 DEF TakeDelete, Overlay
    <3>2. log[i].id \in Ids /\ i \in DOMAIN log
      BY <1>1, <1>2
    <3>3. "deleted" \in updates'[log[i].id] /\ \A t \in Ids : updates[t] \subseteq updates'[t]
      BY <1>1, <3>1, <3>2
    <3> QED BY <1>2, <2>2, <3>2, <3>3 DEF HearsLive
  <2>4. CASE TakeOther(i)
    <3>1. updates' = updates /\ log[i].act # "delete"
      BY <2>4 DEF TakeOther
    <3> QED BY <2>2, <3>1 DEF HearsLive
  <2> QED BY <2>1, <2>3, <2>4 DEF Announced
<1>8. CASE Getting
  <2>1. PICK i \in fetching : Content(i)
    BY <1>8 DEF Getting
  <2>2. CASE EditArrives(i)
    <3>1. updates' = [updates EXCEPT ![log[i].id] = @ \cup {"edited"}] /\ UNCHANGED <<log, coming, missed>>
      BY <2>2 DEF EditArrives, Overlay, chatServer
    <3>2. \A t \in Ids : updates[t] \subseteq updates'[t]
      BY <1>1, <1>2, <3>1
    <3> QED BY <1>2, <3>1, <3>2 DEF HearsLive
  <2>3. CASE FetchFails(i) \/ ReplyArrives(i) \/ MessageArrives(i)
    BY <1>3, <2>3 DEF FetchFails, ReplyArrives, MessageArrives, chatServer
  <2> QED BY <2>1, <2>2, <2>3 DEF Content
<1> QED BY <1>4, <1>5, <1>6, <1>7, <1>8, StepsAre

\* A reply of the thread is struck by its deletion, and stays so.
LEMMA HearsNoMoreStays ==
  ASSUME TInv, HearsNoMore, ChatNext
  PROVE  HearsNoMore'
<1> USE DEF TInv
<1>1. /\ coming \subseteq DOMAIN log /\ fetching \subseteq DOMAIN log /\ log \in Seq(Event)
      /\ updates \in [Ids -> SUBSET {"edited", "deleted"}]
  BY DEF LogInv, StoreInv
<1>2. \A t \in Ids : Deletes(t) => Deletes(t)'
  BY LogTypes DEF LogKept, Deletes
<1>3. CASE updates' = updates
  BY <1>2, <1>3 DEF HearsNoMore
<1>4. CASE Posting
  BY <1>3, <1>4, PostsAre DEF Ingest
<1>5. CASE Persist \/ Looking
  BY <1>3, <1>5 DEF Persist, Looking, Open, Close, Rerun, OpenThread, LoadMore, Drop, Back, ChatRest, chatLive
<1>6. CASE Taking
  <2>1. PICK i \in coming : Announced(i)
    BY <1>6 DEF Taking
  <2>2. CASE TakeDelete(i)
    <3>1. i \in DOMAIN log /\ log[i].act = "delete" /\ log[i].id \in Ids
          /\ updates' = [updates EXCEPT ![log[i].id] = @ \cup {"deleted"}]
      BY <1>1, <2>2, IdsAre DEF TakeDelete, Overlay
    <3>2. Deletes(log[i].id)
      BY <3>1 DEF Deletes
    <3>3. \A t \in Ids : "deleted" \in updates'[t] => Deletes(t)
      BY <1>1, <3>1, <3>2 DEF HearsNoMore
    <3> QED BY <1>2, <3>3 DEF HearsNoMore
  <2>3. CASE TakeOther(i)
    BY <1>3, <2>3 DEF TakeOther
  <2> QED BY <2>1, <2>2, <2>3 DEF Announced
<1>7. CASE Getting
  <2>1. PICK i \in fetching : Content(i)
    BY <1>7 DEF Getting
  <2>2. CASE EditArrives(i)
    <3>1. log[i].id \in Ids /\ updates' = [updates EXCEPT ![log[i].id] = @ \cup {"edited"}]
      BY <1>1, <2>2, IdsAre DEF EditArrives, Overlay
    <3>2. \A t \in Ids : "deleted" \in updates'[t] => Deletes(t)
      BY <1>1, <3>1 DEF HearsNoMore
    <3> QED BY <1>2, <3>2 DEF HearsNoMore
  <2>3. CASE FetchFails(i) \/ ReplyArrives(i) \/ MessageArrives(i)
    BY <1>3, <2>3 DEF FetchFails, ReplyArrives, MessageArrives
  <2> QED BY <2>1, <2>2, <2>3 DEF Content
<1>8. CASE Answering
  <2>1. PICK r \in reqs : ReadPage(r) \/ FirstArrives(r) \/ MoreArrives(r) \/ InfoEnds(r)
                          \/ Denied(r) \/ ThreadArrives(r) \/ AskFails(r)
    BY <1>8 DEF Answering
  <2>2. CASE ReadPage(r)
    BY <1>3, <2>2, ReadPageIs DEF chatLive
  <2>3. CASE ThreadArrives(r)
    BY <1>3, <2>3 DEF ThreadArrives
  <2>4. CASE FirstArrives(r) \/ MoreArrives(r) \/ AskFails(r) \/ InfoEnds(r) \/ Denied(r)
    BY <1>3, <2>4 DEF FirstArrives, MoreArrives, AskFails, InfoEnds, Denied, ChatRest, chatLive
  <2> QED BY <2>1, <2>2, <2>3, <2>4
<1> QED BY <1>4, <1>5, <1>6, <1>7, <1>8, StepsAre

\* A message of the room is never deleted, so the history of a thread, which holds
\* no others, is struck as it comes.
LEMMA StruckStays ==
  ASSUME TInv, Unique, HearsNoMore, Struck, ChatNext
  PROVE  Struck'
<1> USE DEF TInv
<1>1. /\ coming \subseteq DOMAIN log /\ fetching \subseteq DOMAIN log /\ log \in Seq(Event)
      /\ updates \in [Ids -> SUBSET {"edited", "deleted"}]
      /\ Entries(thread) /\ Len(thread) <= Cap
  BY DEF LogInv, StoreInv
<1>2. \A n \in DOMAIN thread : IdOf(thread[n]) \in Ids
  BY <1>1, IdsAre DEF IdOf, Entries
<1>3. ASSUME UNCHANGED <<thread, updates, revived>>
      PROVE  Struck'
  <2>1. \A n \in DOMAIN thread : log'[thread[n].ev].id = log[thread[n].ev].id
    BY <1>1, LogTypes DEF LogKept, Entries
  <2> QED BY <1>3, <2>1 DEF Struck, IdOf
<1>4. ASSUME NEW t \in Ids, NEW mark \in {"edited", "deleted"}, log' = log, revived' = revived,
             updates' = [updates EXCEPT ![t] = @ \cup {mark}], thread' = Marked(thread, t, mark)
      PROVE  Struck'
  <2>1. DOMAIN thread' = DOMAIN thread
        /\ \A n \in DOMAIN thread : /\ thread'[n].ev = thread[n].ev
                                    /\ thread[n].marks \subseteq thread'[n].marks
                                    /\ IdOf(thread[n]) = t => mark \in thread'[n].marks
    BY <1>1, <1>4, MarkedAre
  <2>2. \A x \in Ids : updates'[x] = IF x = t THEN updates[x] \cup {mark} ELSE updates[x]
    BY <1>1, <1>4
  <2> SUFFICES ASSUME NEW n \in DOMAIN thread,
                      "deleted" \in updates'[IdOf(thread[n])], IdOf(thread[n]) \notin revived
               PROVE  "deleted" \in thread'[n].marks
    BY <1>4, <2>1 DEF Struck, IdOf
  <2>3. CASE IdOf(thread[n]) = t /\ mark = "deleted"
    BY <2>1, <2>3
  <2>4. CASE ~(IdOf(thread[n]) = t /\ mark = "deleted")
    <3>1. "deleted" \in updates[IdOf(thread[n])]
      BY <1>2, <2>2, <2>4
    <3>2. "deleted" \in thread[n].marks
      BY <3>1 DEF Struck
    <3> QED BY <2>1, <3>2
  <2> QED BY <2>3, <2>4
<1>5. CASE Posting \/ Persist \/ Looking
  <2>1. CASE Posting
    BY <1>3, <2>1, PostsAre DEF Ingest
  <2>2. CASE Persist \/ Looking
    BY <1>3, <2>2 DEF Persist, Looking, Open, Close, Rerun, OpenThread, LoadMore, Drop, Back, ChatRest, chatLive
  <2> QED BY <1>5, <2>1, <2>2
<1>6. CASE Taking
  <2>1. PICK i \in coming : Announced(i)
    BY <1>6 DEF Taking
  <2>2. log[i].id \in Ids
    BY <1>1, IdsAre
  <2>3. CASE TakeDelete(i)
    BY <1>4, <2>2, <2>3 DEF TakeDelete, Overlay, chatServer
  <2>4. CASE TakeOther(i)
    BY <1>3, <2>4 DEF TakeOther
  <2> QED BY <2>1, <2>3, <2>4 DEF Announced
<1>7. CASE Getting
  <2>1. PICK i \in fetching : Content(i)
    BY <1>7 DEF Getting
  <2>2. log[i].id \in Ids /\ i \in DOMAIN log
    BY <1>1, IdsAre
  <2>3. CASE EditArrives(i)
    BY <1>4, <2>2, <2>3 DEF EditArrives, Overlay, chatServer
  <2>4. CASE FetchFails(i) \/ MessageArrives(i)
    BY <1>3, <2>4 DEF FetchFails, MessageArrives
  <2>5. CASE ReplyArrives(i)
    <3>1. /\ thread' = Appended(thread, i) /\ updates' = updates /\ log' = log
          /\ revived' = IF "deleted" \in updates[log[i].id] THEN revived \cup {log[i].id} ELSE revived
      BY <2>5 DEF ReplyArrives, chatServer
    <3> DEFINE l == Len(thread')
    <3>2. /\ Entries(Appended(thread, i)) /\ l \in Nat /\ thread'[l] = [ev |-> i, marks |-> {}]
          /\ \A n \in 1..(l - 1) : \E m \in DOMAIN thread : thread'[n] = thread[m]
      <4> DEFINE u == Appended(thread, i)
                 d == Len(thread) + 1 - Len(u)
      <4>1. /\ Entries(u) /\ Len(u) \in 1..Cap /\ u[Len(u)] = [ev |-> i, marks |-> {}]
            /\ \A n \in 1..(Len(u) - 1) : d + n \in DOMAIN thread /\ u[n] = thread[d + n]
        BY <1>1, <2>2, AppendedAre
      <4> HIDE DEF u, d
      <4>2. \A n \in 1..(Len(u) - 1) : \E m \in DOMAIN thread : u[n] = thread[m]
        BY <4>1
      <4>3. Len(u) \in Nat /\ thread' = u
        BY <3>1, <4>1 DEF u
      <4> QED BY <4>1, <4>2, <4>3 DEF u
    <3>3. \A n \in DOMAIN thread' : n = l \/ n \in 1..(l - 1)
      <4>1. thread' \in Seq(Entry)
        BY <3>1, <3>2 DEF Entries
      <4> QED BY <3>2, <4>1
    <3>4. ASSUME NEW n \in DOMAIN thread',
                 "deleted" \in updates[IdOf(thread'[n])], IdOf(thread'[n]) \notin revived'
          PROVE  "deleted" \in thread'[n].marks
      <4>1. n # l
        BY <3>1, <3>2, <3>4 DEF IdOf
      <4>2. PICK m \in DOMAIN thread : thread'[n] = thread[m]
        BY <3>2, <3>3, <4>1
      <4> QED BY <3>1, <3>4, <4>2 DEF Struck
    <3> QED BY <3>1, <3>4 DEF Struck, IdOf
  <2> QED BY <2>1, <2>3, <2>4, <2>5 DEF Content
<1>8. CASE Answering
  <2>1. PICK r \in reqs : ReadPage(r) \/ FirstArrives(r) \/ MoreArrives(r) \/ InfoEnds(r)
                          \/ Denied(r) \/ ThreadArrives(r) \/ AskFails(r)
    BY <1>8 DEF Answering
  <2>2. CASE ReadPage(r)
    BY <1>3, <2>2, ReadPageIs DEF chatLive
  <2>3. CASE FirstArrives(r) \/ MoreArrives(r) \/ AskFails(r) \/ InfoEnds(r) \/ Denied(r)
    BY <1>3, <2>3 DEF FirstArrives, MoreArrives, AskFails, InfoEnds, Denied, ChatRest, chatLive
  <2>4. CASE ThreadArrives(r)
    <3>1. UNCHANGED <<updates, log>> /\ r.upto \in 0..stored
      BY <2>4 DEF ThreadArrives, chatServer, ScreenInv, Ask, LogInv
    <3>2. /\ Entries(thread')
          /\ \A n \in DOMAIN thread' : InRoom(thread'[n].ev)
      BY <2>4, <3>1, ThreadRowsAre DEF ThreadArrives, InRoom
    <3> SUFFICES ASSUME NEW n \in DOMAIN thread', "deleted" \in updates[IdOf(thread'[n])]
                 PROVE  FALSE
      BY <3>1 DEF Struck, IdOf
    <3>3. thread'[n].ev \in DOMAIN log /\ IdOf(thread'[n]) = log[thread'[n].ev].id
      BY <3>2 DEF Entries, IdOf
    <3>4. IdOf(thread'[n]) \in Ids
      BY <1>1, <3>3, IdsAre
    <3>5. PICK i \in DOMAIN log : log[i].act = "delete" /\ log[i].id = IdOf(thread'[n])
      BY <3>4 DEF HearsNoMore, Deletes
    <3>6. i = thread'[n].ev
      BY <3>2, <3>3, <3>5 DEF Unique
    <3> QED BY <3>2, <3>5, <3>6 DEF InRoom
  <2> QED BY <2>1, <2>2, <2>3, <2>4
<1> QED BY <1>5, <1>6, <1>7, <1>8, StepsAre

\* MessageStore, ChatRoom and ThreadPanel: a reply this client has heard is deleted
\* is shown as deleted, in the room and in the thread, in whatever order deletion,
\* edit, content and history come; but for a reply whose content came after that.
THEOREM Deleted == ChatSpec => []DeletedStaysDeleted
<1> DEFINE Inv == Unique /\ HearsLive /\ HearsNoMore /\ Struck
<1>1. ChatInit => Inv
  BY DEF ChatInit, Unique, InRoom, HearsLive, HearsNoMore, Struck
<1>2. TInv /\ Inv /\ [ChatNext]_chatVars => Inv'
  <2> SUFFICES ASSUME TInv, Inv, [ChatNext]_chatVars
               PROVE  Inv'
    OBVIOUS
  <2>1. CASE UNCHANGED chatVars
    BY <2>1 DEF chatVars, Unique, InRoom, HearsLive, HearsNoMore, Deletes, Struck, IdOf
  <2>2. CASE ChatNext
    BY <2>2, UniqueStays, HeardStays, HearsNoMoreStays, StruckStays
  <2> QED BY <2>1, <2>2
<1>3. Inv => DeletedStaysDeleted
  <2> SUFFICES ASSUME HearsLive, Struck, NEW i \in DOMAIN log, log[i].act = "delete", i \notin coming \cup missed
               PROVE  /\ \A p \in Shown : IdOf(RowAt(p)) = log[i].id =>
                           "deleted" \in RowAt(p).marks \cup updates[log[i].id]
                      /\ \A n \in DOMAIN thread : IdOf(thread[n]) = log[i].id /\ log[i].id \notin revived =>
                           "deleted" \in thread[n].marks
    BY DEF DeletedStaysDeleted
  <2>1. "deleted" \in updates[log[i].id]
    BY DEF HearsLive
  <2> QED BY <2>1 DEF Struck
<1> HIDE DEF Inv
<1> QED BY <1>1, <1>2, <1>3, ChatTypes, PTL DEF ChatSpec

-----------------------------------------------------------------------------
(***************************************************************************)
(* What is on the screen.                                                  *)
(***************************************************************************)

\* A request is named by its number, but for those of views that have gone.
Numbered == \A r \in reqs : /\ r.n <= asked
                            /\ r.kind = "first" => r.before = MaxId + 1
                            /\ \A q \in reqs : q.n = r.n /\ r.n # 0 => q = r

\* The store has each message once.
OneEach == \A m, n \in DOMAIN msgs : IdOf(msgs[m]) = IdOf(msgs[n]) => m = n

\* A message is on its way, or in the store, unless something went wrong.
Carried ==
  chatCalm => \A i \in DOMAIN log : InRoom(i) =>
    \/ i \in coming \cup fetching \cup missed
    \/ Len(msgs) = Cap
    \/ \E n \in DOMAIN msgs : msgs[n].ev = i

\* The history shows messages of the room.
OfRoom == (\A n \in DOMAIN hist : InRoom(hist[n].ev)) /\ (hist = <<>> => histTo = 0)

\* It shows them in order, from one that was read first ...
Ordered == /\ \A m, n \in DOMAIN hist : m < n => IdOf(hist[m]) < IdOf(hist[n])
           /\ hist # <<>> => LastOf(hist).ev <= histTo

\* ... without a gap ...
Complete ==
  \A i \in 1..histTo : InRoom(i) =>
    \/ \E n \in DOMAIN hist : hist[n].ev = i
    \/ hist # <<>> /\ hasMore /\ log[i].id < IdOf(hist[1])

\* ... and the newest page that is still to come was read no earlier.
NoneOlder ==
  \A r \in reqs : r.kind = "first" /\ r.answered /\ Mounted(r) /\ r.n = current => histTo <= r.upto

Whole == ~torn => Ordered /\ Complete /\ NoneOlder

SInv == Unique /\ Numbered /\ OneEach /\ Carried /\ OfRoom /\ Whole

\* New requests get new numbers.
LEMMA NumberedStays ==
  ASSUME TInv, Numbered, ChatNext
  PROVE  Numbered'
<1>1. asked \in Nat /\ asked' \in Nat /\ asked <= asked' /\ reqs \subseteq Ask
  BY ScreenTypes DEF TInv, ScreenInv
<1>2. \A r \in reqs : r.n \in Nat /\ r.n <= asked
  BY <1>1 DEF Ask, Numbered
<1>3. CASE \E r \in reqs : Finish(r)
  BY <1>3 DEF Finish, Numbered
<1>4. CASE \E r \in reqs : UNCHANGED asked /\ \E q \in Ask : Read(q, r) /\ reqs' = (reqs \ {r}) \cup {q}
  BY <1>4 DEF Read, Numbered
<1>5. ASSUME NEW some \in SUBSET reqs, NEW q, reqs' = some \cup {q}, asked' = asked + 1,
             q.n = asked + 1 \/ q.n = 0, q.kind = "first" => q.before = MaxId + 1
      PROVE  Numbered'
  <2>1. \A r \in some : r.n # asked + 1 /\ r.n <= asked'
    BY <1>1, <1>2
  <2>2. q.n <= asked'
    BY <1>1, <1>5
  <2>3. \A r \in some, a \in some : a.n = r.n /\ r.n # 0 => a = r
    BY DEF Numbered
  <2>4. \A r \in reqs', a \in reqs' : a.n = r.n /\ r.n # 0 => a = r
    BY <1>5, <2>1, <2>3
  <2>5. \A r \in reqs' : r.kind = "first" => r.before = MaxId + 1
    BY <1>5 DEF Numbered
  <2> QED BY <1>5, <2>1, <2>2, <2>4, <2>5 DEF Numbered
<1>6. CASE AsksForPage({"info", "first", "more", "thread"})
  BY <1>5, <1>6 DEF AsksForPage, Numbered
<1>7. CASE \E r \in reqs : AskFirst(r)
  <2>1. PICK r \in reqs : AskFirst(r)
    BY <1>7
  <2>2. reqs \ {r} \in SUBSET reqs
    OBVIOUS
  <2> QED BY <1>5, <2>1, <2>2 DEF AskFirst
<1> QED BY <1>3, <1>4, <1>6, <1>7, RequestsAre

\* A message of a timestamp that is there is not stored.
LEMMA OneEachStays ==
  ASSUME TInv, OneEach, ChatNext
  PROVE  OneEach'
<1> USE DEF TInv
<1>1. /\ coming \subseteq DOMAIN log /\ fetching \subseteq DOMAIN log /\ log \in Seq(Event)
      /\ Entries(msgs) /\ Len(msgs) <= Cap
  BY DEF LogInv, StoreInv
<1>2. \A n \in DOMAIN msgs : log'[msgs[n].ev] = log[msgs[n].ev]
  BY <1>1, LogTypes DEF LogKept, Entries
<1>3. CASE msgs' = msgs
  BY <1>2, <1>3 DEF OneEach, IdOf
<1>4. ASSUME NEW t, NEW mark \in {"edited", "deleted"}, log' = log, msgs' = Marked(msgs, t, mark)
      PROVE  OneEach'
  <2>1. DOMAIN msgs' = DOMAIN msgs /\ \A n \in DOMAIN msgs : msgs'[n].ev = msgs[n].ev
    BY <1>1, <1>4, MarkedAre
  <2> QED BY <1>4, <2>1 DEF OneEach, IdOf
<1>5. CASE Posting \/ Persist \/ Looking
  <2>1. CASE Posting
    BY <1>3, <2>1, PostsAre DEF Ingest
  <2>2. CASE Persist \/ Looking
    BY <1>3, <2>2 DEF Persist, Looking, Open, Close, Rerun, OpenThread, LoadMore, Drop, Back, ChatRest, chatLive
  <2> QED BY <1>5, <2>1, <2>2
<1>6. CASE Taking
  BY <1>3, <1>4, <1>6 DEF Taking, Announced, TakeDelete, TakeOther, chatServer
<1>7. CASE Getting
  <2>1. PICK i \in fetching : Content(i)
    BY <1>7 DEF Getting
  <2>2. i \in DOMAIN log
    BY <1>1
  <2>3. CASE EditArrives(i)
    BY <1>4, <2>3 DEF EditArrives, chatServer
  <2>4. CASE FetchFails(i) \/ ReplyArrives(i)
    BY <1>3, <2>4 DEF FetchFails, ReplyArrives
  <2>5. CASE MessageArrives(i)
    <3> DEFINE known == \E n \in DOMAIN msgs : IdOf(msgs[n]) = log[i].id
    <3>1. CASE known
      BY <1>3, <2>5, <3>1 DEF MessageArrives
    <3>2. CASE ~known
      <4> DEFINE u == Appended(msgs, i)
                 d == Len(msgs) + 1 - Len(u)
      <4>1. /\ Entries(u) /\ Len(u) \in 1..Cap /\ u[Len(u)] = [ev |-> i, marks |-> {}] /\ d \in Nat
            /\ \A n \in 1..(Len(u) - 1) : d + n \in DOMAIN msgs /\ u[n] = msgs[d + n]
        BY <1>1, <2>2, AppendedAre
      <4>2. msgs' = u /\ log' = log
        BY <2>5, <3>2 DEF MessageArrives, chatServer
      <4> HIDE DEF u, d
      <4>3. DOMAIN u = 1..Len(u) /\ Len(u) \in Nat
        BY <4>1 DEF Entries
      <4>4. \A n \in DOMAIN u : n = Len(u) \/ n \in 1..(Len(u) - 1)
        BY <4>3
      <4>5. \A n \in 1..(Len(u) - 1) : IdOf(u[n]) # IdOf(u[Len(u)])
        BY <3>2, <4>1 DEF IdOf
      <4>6. \A m, n \in 1..(Len(u) - 1) : IdOf(u[m]) = IdOf(u[n]) => m = n
        <5> TAKE m, n \in 1..(Len(u) - 1)
        <5>1. d + m \in DOMAIN msgs /\ d + n \in DOMAIN msgs /\ u[m] = msgs[d + m] /\ u[n] = msgs[d + n]
          BY <4>1
        <5>2. IdOf(u[m]) = IdOf(u[n]) => d + m = d + n
          BY <5>1 DEF OneEach
        <5>3. d + m = d + n => m = n
          BY <4>1, <4>3
        <5> QED BY <5>2, <5>3
      <4>7. \A m, n \in DOMAIN u : IdOf(u[m]) = IdOf(u[n]) => m = n
        BY <4>4, <4>5, <4>6
      <4> QED BY <4>2, <4>7 DEF OneEach, IdOf
    <3> QED BY <3>1, <3>2
  <2> QED BY <2>1, <2>3, <2>4, <2>5 DEF Content
<1>8. CASE Answering
  <2>1. PICK r \in reqs : ReadPage(r) \/ FirstArrives(r) \/ MoreArrives(r) \/ InfoEnds(r)
                          \/ Denied(r) \/ ThreadArrives(r) \/ AskFails(r)
    BY <1>8 DEF Answering
  <2>2. CASE ReadPage(r)
    BY <1>3, <2>2, ReadPageIs DEF chatLive
  <2>3. CASE FirstArrives(r) \/ MoreArrives(r) \/ AskFails(r) \/ InfoEnds(r) \/ Denied(r) \/ ThreadArrives(r)
    BY <1>3, <2>3 DEF FirstArrives, MoreArrives, AskFails, InfoEnds, Denied, ThreadArrives, ChatRest, chatLive
  <2> QED BY <2>1, <2>2, <2>3
<1> QED BY <1>5, <1>6, <1>7, <1>8, StepsAre

\* What is announced is fetched, and what is fetched is stored, unless the fetch
\* fails.
LEMMA CarriedStays ==
  ASSUME TInv, Unique, Carried, ChatNext
  PROVE  Carried'
<1> USE DEF TInv
<1>1. /\ coming \subseteq DOMAIN log /\ fetching \subseteq DOMAIN log /\ log \in Seq(Event)
      /\ Entries(msgs) /\ Len(msgs) <= Cap /\ LogKept /\ (chatCalm' => chatCalm)
  BY LogTypes, BudgetsAre DEF LogInv, StoreInv
<1>2. ASSUME msgs' = msgs, \A i \in DOMAIN log : InRoom(i) =>
               (i \in coming \cup fetching \cup missed => i \in coming' \cup fetching' \cup missed'),
             \A i \in DOMAIN log' \ DOMAIN log : i \in coming' \cup missed'
      PROVE  Carried'
  BY <1>1, <1>2 DEF Carried, InRoom, LogKept
<1>3. CASE Posting
  <2>1. PICK events \in Seq(Event) : Ingest(events)
    BY <1>3, PostsAre
  <2>2. msgs' = msgs /\ fetching' = fetching /\ coming \cup missed \subseteq coming' \cup missed'
        /\ DOMAIN log' \ DOMAIN log \subseteq coming' \cup missed'
    BY <2>1 DEF Ingest
  <2> QED BY <1>2, <2>2
<1>4. CASE Persist \/ Looking
  <2>1. msgs' = msgs /\ fetching' = fetching /\ coming \cup missed \subseteq coming' \cup missed' /\ log' = log
    BY <1>4 DEF Persist, Looking, Open, Close, Rerun, OpenThread, LoadMore, Drop, Back, ChatRest, chatServer, chatLive
  <2> QED BY <1>2, <2>1
<1>5. CASE Answering
  <2>1. PICK r \in reqs : ReadPage(r) \/ FirstArrives(r) \/ MoreArrives(r) \/ InfoEnds(r)
                          \/ Denied(r) \/ ThreadArrives(r) \/ AskFails(r)
    BY <1>5 DEF Answering
  <2>2. UNCHANGED <<log, msgs, coming, fetching, missed>>
    <3>1. CASE ReadPage(r)
      BY <3>1, ReadPageIs DEF chatLive, chatServer
    <3>2. CASE FirstArrives(r) \/ MoreArrives(r) \/ AskFails(r) \/ InfoEnds(r) \/ Denied(r) \/ ThreadArrives(r)
      BY <3>2 DEF FirstArrives, MoreArrives, AskFails, InfoEnds, Denied, ThreadArrives, ChatRest, chatLive, chatServer
    <3> QED BY <2>1, <3>1, <3>2
  <2> QED BY <1>2, <2>2
<1>6. ASSUME NEW t, NEW mark \in {"edited", "deleted"}, log' = log, msgs' \in {msgs, Marked(msgs, t, mark)},
             \A i \in DOMAIN log : InRoom(i) =>
               (i \in coming \cup fetching \cup missed => i \in coming' \cup fetching' \cup missed')
      PROVE  Carried'
  <2>1. Len(msgs') = Len(msgs) /\ DOMAIN msgs' = DOMAIN msgs /\ \A n \in DOMAIN msgs : msgs'[n].ev = msgs[n].ev
    BY <1>1, <1>6, MarkedAre
  <2> QED BY <1>1, <1>6, <2>1 DEF Carried, InRoom
<1>7. CASE Taking
  <2>1. PICK i \in coming : Announced(i)
    BY <1>7 DEF Taking
  <2>2. CASE TakeDelete(i)
    <3>1. log[i].act = "delete" /\ coming' = coming \ {i} /\ UNCHANGED <<log, fetching, missed>>
      BY <2>2 DEF TakeDelete, chatServer
    <3>2. msgs' \in {msgs, Marked(msgs, log[i].id, "deleted")}
      BY <2>2 DEF TakeDelete
    <3>3. ~InRoom(i)
      BY <3>1 DEF InRoom
    <3> QED BY <1>6, <3>1, <3>2, <3>3
  <2>3. CASE TakeOther(i)
    BY <1>2, <2>3 DEF TakeOther, chatServer
  <2> QED BY <2>1, <2>2, <2>3 DEF Announced
<1>8. CASE Getting
  <2>1. PICK i \in fetching : Content(i)
    BY <1>8 DEF Getting
  <2>2. i \in DOMAIN log /\ log' = log
    BY <1>1, <1>8, LogStays
  <2>3. CASE FetchFails(i)
    <3>1. "failure" \in ChatKinds
      BY DEF ChatKinds
    <3>2. ~chatCalm'
      BY <2>3, <3>1, UseTypes DEF FetchFails
    <3> QED BY <3>2 DEF Carried
  <2>4. CASE ReplyArrives(i)
    <3>1. fetching' = fetching \ {i} /\ UNCHANGED <<msgs, coming, missed>> /\ ~InRoom(i)
      BY <2>4 DEF ReplyArrives, Fetched, InRoom
    <3> QED BY <1>2, <2>2, <3>1
  <2>5. CASE EditArrives(i)
    <3>1. fetching' = fetching \ {i} /\ UNCHANGED <<coming, missed>> /\ ~InRoom(i)
          /\ msgs' = Marked(msgs, log[i].id, "edited")
      BY <2>5 DEF EditArrives, Fetched, InRoom
    <3> QED BY <1>6, <2>2, <3>1
  <2>6. CASE MessageArrives(i)
    <3> DEFINE known == \E n \in DOMAIN msgs : IdOf(msgs[n]) = log[i].id
    <3>1. fetching' = fetching \ {i} /\ UNCHANGED <<coming, missed>>
          /\ msgs' = IF known THEN msgs ELSE Appended(msgs, i)
      BY <2>6 DEF MessageArrives, Fetched
    <3>2. CASE known
      <4>1. InRoom(i) => \E n \in DOMAIN msgs : msgs[n].ev = i
        BY <1>1, <2>2, <3>2 DEF Unique, IdOf, Entries
      <4> QED BY <2>2, <1>1, <3>1, <3>2, <4>1 DEF Carried, InRoom
    <3>3. CASE ~known
      <4> DEFINE u == Appended(msgs, i)
                 h == Len(msgs)
      <4>1. PICK d \in Nat, l \in Nat :
              /\ DOMAIN u = 1..l /\ Len(u) = l /\ l # 0 /\ l <= Cap
              /\ DOMAIN msgs = 1..h /\ h = l - 1 + d /\ (d # 0 => l = Cap)
              /\ u[l].ev = i /\ \A n \in 1..(l - 1) : u[n] = msgs[d + n]
        BY <1>1, <2>2, AppendedShape, ZenonT(40)
      <4>2. Cap \in Nat /\ h <= Cap
        BY <1>1, ChatSizes
      <4> HIDE DEF u, h
      <4>3. h = Cap => l = Cap
        BY <4>1, <4>2
      <4>4. l = Cap \/ \A n \in DOMAIN msgs : n \in DOMAIN u /\ u[n] = msgs[n]
        <5> SUFFICES ASSUME l # Cap, NEW n \in DOMAIN msgs
                     PROVE  n \in DOMAIN u /\ u[n] = msgs[n]
          OBVIOUS
        <5>1. d = 0 /\ l - 1 = h
          BY <4>1
        <5>2. d + n = n /\ n \in 1..(l - 1) /\ n \in 1..l
          BY <4>1, <5>1
        <5> QED BY <4>1, <5>2
      <4>5. \E n \in DOMAIN u : u[n].ev = i
        BY <4>1
      <4>6. msgs' = u
        BY <3>1, <3>3 DEF u
      <4>7. \A j \in DOMAIN log : InRoom(j) /\ j # i =>
              (j \in coming \cup fetching \cup missed => j \in coming' \cup fetching' \cup missed')
        BY <3>1
      <4>8. (Len(msgs) = Cap => Len(u) = Cap)
            /\ (Len(u) = Cap \/ \A n \in DOMAIN msgs : n \in DOMAIN u /\ u[n] = msgs[n])
        BY <4>1, <4>3, <4>4 DEF h
      <4> QED BY <1>1, <2>2, <4>5, <4>6, <4>7, <4>8 DEF Carried, InRoom
    <3> QED BY <3>2, <3>3
  <2> QED BY <2>1, <2>3, <2>4, <2>5, <2>6 DEF Content
<1> QED BY <1>3, <1>4, <1>5, <1>7, <1>8, StepsAre

\* A page of the room: its rows are in order, and what is not in it is older.
LEMMA PageIs ==
  ASSUME LogInv, Unique, NEW k \in 0..stored, NEW below \in Nat
  PROVE  LET entries == Rows({"room"}, k, below)
             new == Newest(entries, Page)
         IN /\ Entries(entries) /\ Entries(new) /\ (entries = <<>> <=> new = <<>>)
            /\ \A n \in DOMAIN new : InRoom(new[n].ev) /\ new[n].ev <= k /\ IdOf(new[n]) < below
            /\ \A m, n \in DOMAIN new : m < n => IdOf(new[m]) < IdOf(new[n])
            /\ \A i \in 1..k : InRoom(i) /\ log[i].id < below =>
                 \/ \E n \in DOMAIN new : new[n].ev = i
                 \/ Len(entries) > Page /\ new # <<>> /\ log[i].id < IdOf(new[1])
<1> DEFINE entries == Rows({"room"}, k, below)
           new == Newest(entries, Page)
           d == Len(entries) - Len(new)
<1>1. log \in Seq(Event) /\ k \in 0..Len(log) /\ k \in Nat /\ Page \in Nat \ {0}
  <2>1. log \in Seq(Event) /\ stored \in 0..Len(log)
    BY DEF LogInv
  <2> QED BY <2>1, ChatSizes
<1>2. /\ entries \in Seq(Entry)
      /\ \A n \in DOMAIN entries : entries[n].ev \in Kept({"room"}, k, below)
      /\ \A i \in Kept({"room"}, k, below) : \E n \in DOMAIN entries : entries[n].ev = i
      /\ \A m, n \in DOMAIN entries : m < n => Before(entries[m].ev, entries[n].ev)
  BY <1>1, RowsAre
<1>3. \A i : i \in Kept({"room"}, k, below) <=> i \in 1..k /\ InRoom(i) /\ log[i].id < below
  BY DEF Kept, InRoom
<1>4. Entries(entries) /\ Entries(new)
  BY <1>1, NewestRowsAre
<1> HIDE DEF entries
<1>5. /\ Len(entries) \in Nat /\ DOMAIN entries = 1..Len(entries)
      /\ new \in Seq(Entry) /\ Len(new) = IF Len(entries) <= Page THEN Len(entries) ELSE Page
      /\ \A m \in 1..Len(new) : d + m \in 1..Len(entries) /\ new[m] = entries[d + m]
  BY <1>1, <1>2, NewestAre
<1> HIDE DEF new
<1>6. /\ DOMAIN new = 1..Len(new) /\ Len(new) \in Nat /\ d \in Nat /\ Len(entries) = d + Len(new)
      /\ (d # 0 => Len(entries) > Page) /\ (Len(entries) # 0 => Len(new) # 0)
  <2>1. DOMAIN new = 1..Len(new) /\ Len(new) \in Nat
    BY <1>5
  <2>2. /\ Len(entries) \in Nat /\ Page \in Nat \ {0}
        /\ Len(new) = IF Len(entries) <= Page THEN Len(entries) ELSE Page
    BY <1>1, <1>5
  <2> QED BY <2>1, <2>2
<1> HIDE DEF d
<1>7. entries = <<>> <=> new = <<>>
  BY <1>2, <1>5, <1>6
<1>8. \A m, n \in DOMAIN entries : m < n => IdOf(entries[m]) < IdOf(entries[n])
  <2> SUFFICES ASSUME NEW m \in DOMAIN entries, NEW n \in DOMAIN entries, m < n
               PROVE  log[entries[m].ev].id < log[entries[n].ev].id
    BY DEF IdOf
  <2> DEFINE i == entries[m].ev
             j == entries[n].ev
  <2>1. Before(i, j) /\ InRoom(i) /\ i \in DOMAIN log /\ j \in DOMAIN log /\ i \in Nat /\ j \in Nat
    BY <1>1, <1>2, <1>3
  <2>2. log[i].id = log[j].id => j = i
    BY <2>1 DEF Unique
  <2> HIDE DEF i, j
  <2>3. log[i].id < log[j].id
    BY <2>1, <2>2 DEF Before
  <2> QED BY <2>3 DEF i, j
<1>9. \A n \in DOMAIN new : InRoom(new[n].ev) /\ new[n].ev <= k /\ IdOf(new[n]) < below
  <2> TAKE n \in DOMAIN new
  <2>1. d + n \in DOMAIN entries /\ new[n] = entries[d + n]
    BY <1>5, <1>6
  <2>2. entries[d + n].ev \in 1..k /\ InRoom(entries[d + n].ev) /\ log[entries[d + n].ev].id < below
    BY <1>2, <1>3, <2>1
  <2> QED BY <1>1, <2>1, <2>2 DEF IdOf
<1>10. \A m, n \in DOMAIN new : m < n => IdOf(new[m]) < IdOf(new[n])
  <2> SUFFICES ASSUME NEW m \in DOMAIN new, NEW n \in DOMAIN new, m < n
               PROVE  IdOf(new[m]) < IdOf(new[n])
    OBVIOUS
  <2>1. d + m \in DOMAIN entries /\ new[m] = entries[d + m] /\ d + n \in DOMAIN entries /\ new[n] = entries[d + n]
    BY <1>5, <1>6
  <2>2. d + m < d + n
    BY <1>6
  <2> QED BY <1>8, <2>1, <2>2
<1>11. ASSUME NEW i \in 1..k, InRoom(i), log[i].id < below
       PROVE  \/ \E n \in DOMAIN new : new[n].ev = i
              \/ Len(entries) > Page /\ new # <<>> /\ log[i].id < IdOf(new[1])
  <2>1. PICK m \in DOMAIN entries : entries[m].ev = i
    BY <1>2, <1>3, <1>11
  <2>2. CASE d < m
    <3>1. m - d \in DOMAIN new /\ d + (m - d) = m
      BY <1>5, <1>6, <2>2
    <3>2. new[m - d] = entries[m]
      BY <1>5, <1>6, <3>1
    <3> QED BY <2>1, <3>1, <3>2
  <2>3. CASE ~(d < m)
    <3>1. m \in Nat /\ m >= 1 /\ m < d + 1 /\ d # 0 /\ Len(entries) > Page
      BY <1>5, <1>6, <2>3
    <3>2. Len(new) # 0 /\ 1 \in DOMAIN new
      BY <1>6, <3>1
    <3>3. d + 1 \in DOMAIN entries /\ new[1] = entries[d + 1]
      BY <1>5, <1>6, <3>2
    <3>4. IdOf(entries[m]) < IdOf(new[1])
      BY <1>8, <3>1, <3>3
    <3>5. new # <<>>
      BY <3>2
    <3> QED BY <2>1, <3>1, <3>4, <3>5 DEF IdOf
  <2> QED BY <1>6, <2>2, <2>3
<1> QED BY <1>4, <1>7, <1>9, <1>10, <1>11 DEF entries, new

\* The first page replaces the history: what it shows is in order and whole, for
\* no other answer to the question last asked is still to come.
LEMMA FirstKeeps ==
  ASSUME TInv, SInv, NEW r \in reqs, FirstArrives(r)
  PROVE  OfRoom' /\ Whole'
<1> USE DEF TInv, SInv
<1>1. log' = log /\ reqs' = reqs \ {r} /\ UNCHANGED chatScreen /\ r.kind = "first" /\ r.answered
  BY DEF FirstArrives, Got, Done, chatServer
<1>2. CASE ~Mounted(r)
  <2>1. UNCHANGED <<hist, histTo, hasMore, torn>>
    BY <1>2 DEF FirstArrives
  <2> QED BY <1>1, <2>1 DEF OfRoom, Whole, Ordered, Complete, NoneOlder, InRoom, IdOf, LastOf, Mounted, chatScreen
<1>3. CASE Mounted(r)
  <2> DEFINE entries == Older(r)
             new == Newest(entries, Page)
  <2>1. /\ hist' = IF entries = <<>> THEN hist ELSE new
        /\ histTo' = IF entries = <<>> THEN histTo ELSE r.upto
        /\ hasMore' = (Len(entries) > Page)
        /\ torn' = (r.n # current \/ (torn /\ entries = <<>>))
    BY <1>3 DEF FirstArrives
  <2>2. r.before = MaxId + 1 /\ MaxId + 1 \in Nat /\ r.upto \in 0..stored /\ r.upto \in Nat
    BY <1>1, ChatSizes DEF Numbered, ScreenInv, LogInv, Ask
  <2>3. /\ Entries(entries) /\ Entries(new) /\ (entries = <<>> <=> new = <<>>)
        /\ \A n \in DOMAIN new : InRoom(new[n].ev) /\ new[n].ev <= r.upto /\ IdOf(new[n]) < MaxId + 1
        /\ \A m, n \in DOMAIN new : m < n => IdOf(new[m]) < IdOf(new[n])
        /\ \A i \in 1..r.upto : InRoom(i) /\ log[i].id < MaxId + 1 =>
             \/ \E n \in DOMAIN new : new[n].ev = i
             \/ Len(entries) > Page /\ new # <<>> /\ log[i].id < IdOf(new[1])
    BY <2>2, PageIs DEF Older
  <2> HIDE DEF entries, new
  <2>4. \A i \in 1..r.upto : log[i].id < MaxId + 1
    <3>1. log \in Seq(Event) /\ stored \in 0..Len(log)
      BY DEF LogInv
    <3>2. \A i \in 1..r.upto : i \in DOMAIN log
      BY <2>2, <3>1
    <3> QED BY <3>1, <3>2, IdsAre
  <2>5. r.n = current => \A q \in reqs' : ~(Mounted(q)' /\ q.n = current')
    <3>1. r.n # 0
      BY <1>3 DEF Mounted, ScreenInv
    <3>2. \A q \in reqs : q.n = r.n => q = r
      BY <3>1 DEF Numbered
    <3> QED BY <1>1, <3>2 DEF chatScreen
  <2>6. CASE entries = <<>>
    <3>1. OfRoom'
      BY <1>1, <2>1, <2>6 DEF OfRoom, InRoom
    <3>2. ASSUME ~torn'
          PROVE  Ordered' /\ Complete' /\ NoneOlder'
      <4>1. ~torn /\ r.n = current
        BY <2>1, <2>6, <3>2
      <4>2. hist = <<>>
        <5> SUFFICES ASSUME hist # <<>>
                     PROVE  FALSE
          OBVIOUS
        <5>1. Ordered /\ NoneOlder
          BY <4>1 DEF Whole
        <5>2. histTo <= r.upto /\ histTo \in Nat
          BY <1>1, <1>3, <4>1, <5>1 DEF NoneOlder, PageInv, LogInv
        <5>3. hist \in Seq(Entry) /\ Len(hist) \in DOMAIN hist
          BY DEF PageInv, Entries
        <5> DEFINE i == LastOf(hist).ev
        <5>4. i <= histTo /\ InRoom(i) /\ i \in DOMAIN log
          BY <5>1, <5>3 DEF Ordered, OfRoom, PageInv, Entries, LastOf
        <5>5. i \in 1..r.upto
          <6>1. i \in Nat /\ i >= 1
            BY <5>4 DEF LogInv
          <6> QED BY <2>2, <5>2, <5>4, <6>1
        <5>6. new # <<>>
          <6>1. (\E n \in DOMAIN new : new[n].ev = i) \/ new # <<>>
            BY <2>3, <2>4, <5>4, <5>5
          <6> QED BY <6>1
        <5> QED BY <2>3, <2>6, <5>6
      <4>3. hist' = <<>> /\ histTo' = 0
        BY <2>1, <2>6, <4>2 DEF OfRoom
      <4> QED BY <2>5, <4>1, <4>3 DEF Ordered, Complete, NoneOlder
    <3> QED BY <3>1, <3>2 DEF Whole
  <2>7. CASE entries # <<>>
    <3>1. hist' = new /\ histTo' = r.upto /\ new # <<>>
      BY <2>1, <2>3, <2>7
    <3>2. OfRoom'
      BY <1>1, <2>3, <3>1 DEF OfRoom, InRoom
    <3>3. ASSUME ~torn'
          PROVE  Ordered' /\ Complete' /\ NoneOlder'
      <4>1. r.n = current
        BY <2>1, <3>3
      <4>2. Len(new) \in DOMAIN new
        BY <2>3, <3>1 DEF Entries
      <4>3. Ordered'
        BY <1>1, <2>3, <3>1, <4>2 DEF Ordered, IdOf, LastOf
      <4>4. Complete'
        BY <1>1, <2>1, <2>3, <2>4, <3>1 DEF Complete, InRoom, IdOf
      <4>5. NoneOlder'
        BY <2>5, <4>1 DEF NoneOlder
      <4> QED BY <4>3, <4>4, <4>5
    <3> QED BY <3>2, <3>3 DEF Whole
  <2> QED BY <2>6, <2>7
<1> QED BY <1>2, <1>3

\* An older page comes before the history, and ends where the history begins, if
\* the question was asked of that history and answered no earlier.
LEMMA MoreKeeps ==
  ASSUME TInv, SInv, NEW r \in reqs, MoreArrives(r)
  PROVE  OfRoom' /\ Whole'
<1> USE DEF TInv, SInv
<1>1. log' = log /\ reqs' = reqs \ {r} /\ UNCHANGED chatScreen /\ histTo' = histTo
  BY DEF MoreArrives, Got, Done, chatServer
<1>2. CASE ~Mounted(r)
  <2>1. UNCHANGED <<hist, hasMore, torn>>
    BY <1>2 DEF MoreArrives
  <2> QED BY <1>1, <2>1 DEF OfRoom, Whole, Ordered, Complete, NoneOlder, InRoom, IdOf, LastOf, Mounted, chatScreen
<1>3. CASE Mounted(r)
  <2> DEFINE entries == Older(r)
             new == Newest(entries, Page)
             all == new \o hist
  <2>1. /\ hist' = all /\ hasMore' = (Len(entries) > Page)
        /\ torn' = (torn \/ hist = <<>> \/ IdOf(hist[1]) # r.before \/ r.upto < histTo)
    BY <1>3 DEF MoreArrives
  <2>2. r.before \in Nat /\ r.upto \in 0..stored /\ r.upto \in Nat
    BY ChatSizes DEF ScreenInv, LogInv, Ask
  <2>3. /\ Entries(entries) /\ Entries(new) /\ (entries = <<>> <=> new = <<>>)
        /\ \A n \in DOMAIN new : InRoom(new[n].ev) /\ new[n].ev <= r.upto /\ IdOf(new[n]) < r.before
        /\ \A m, n \in DOMAIN new : m < n => IdOf(new[m]) < IdOf(new[n])
        /\ \A i \in 1..r.upto : InRoom(i) /\ log[i].id < r.before =>
             \/ \E n \in DOMAIN new : new[n].ev = i
             \/ Len(entries) > Page /\ new # <<>> /\ log[i].id < IdOf(new[1])
    BY <2>2, PageIs DEF Older
  <2> HIDE DEF entries, new
  <2> DEFINE a == Len(new)
             b == Len(hist)
  <2>4. /\ a \in Nat /\ b \in Nat /\ DOMAIN new = 1..a /\ DOMAIN hist = 1..b /\ DOMAIN all = 1..(a + b)
        /\ Len(all) = a + b
        /\ (\A n \in 1..a : all[n] = new[n]) /\ (\A n \in 1..b : all[a + n] = hist[n])
        /\ (new # <<>> <=> a # 0) /\ (hist # <<>> <=> b # 0) /\ (all # <<>> <=> a + b # 0)
    <3>1. new \in Seq(Entry) /\ hist \in Seq(Entry)
      BY <2>3 DEF Entries, PageInv
    <3>2. DOMAIN new = 1..a /\ DOMAIN hist = 1..b /\ a \in Nat /\ b \in Nat /\ Len(all) = a + b
          /\ all \in Seq(Entry)
      BY <3>1
    <3>3. (\A n \in 1..a : all[n] = new[n]) /\ (\A n \in 1..b : all[a + n] = hist[n])
      BY <3>1
    <3>4. (new # <<>> <=> a # 0) /\ (hist # <<>> <=> b # 0) /\ (all # <<>> <=> a + b # 0)
      BY <3>1, <3>2
    <3>5. DOMAIN all = 1..(a + b)
      BY <3>2
    <3> QED BY <3>2, <3>3, <3>4, <3>5
  <2> HIDE DEF all, a, b
  <2>5. \A n \in 1..(a + b) : \/ n \in 1..a /\ all[n] = new[n]
                              \/ \E k \in 1..b : n = a + k /\ all[n] = hist[k]
    <3> TAKE n \in 1..(a + b)
    <3>1. CASE n \in 1..a
      BY <2>4, <3>1
    <3>2. CASE n \notin 1..a
      <4>1. n - a \in 1..b /\ n = a + (n - a)
        BY <2>4, <3>2
      <4> QED BY <2>4, <4>1
    <3> QED BY <3>1, <3>2
  <2>6. OfRoom'
    <3>1. \A n \in DOMAIN all : InRoom(all[n].ev)
      BY <2>3, <2>4, <2>5 DEF OfRoom
    <3>2. all = <<>> => histTo = 0
      BY <2>4 DEF OfRoom
    <3> QED BY <1>1, <2>1, <3>1, <3>2 DEF OfRoom, InRoom
  <2>7. ASSUME ~torn'
        PROVE  Ordered' /\ Complete' /\ NoneOlder'
    <3>1. ~torn /\ hist # <<>> /\ IdOf(hist[1]) = r.before /\ ~(r.upto < histTo)
      BY <2>1, <2>7
    <3>2. Ordered /\ Complete /\ NoneOlder
      BY <3>1 DEF Whole
    <3>3. b # 0 /\ 1 \in 1..b /\ b \in 1..b /\ histTo \in Nat
      BY <2>4, <3>1 DEF PageInv, LogInv
    <3>4. \A k \in 1..b : r.before <= IdOf(hist[k]) /\ IdOf(hist[k]) \in Nat
      <4> TAKE k \in 1..b
      <4>1. IdOf(hist[k]) \in Nat
        <5>1. hist[k].ev \in DOMAIN log /\ log \in Seq(Event)
          BY <2>4 DEF PageInv, Entries, LogInv
        <5> QED BY <5>1, IdsAre DEF IdOf
      <4>2. k = 1 \/ 1 < k
        BY <2>4
      <4>3. 1 < k => IdOf(hist[1]) < IdOf(hist[k])
        BY <2>4, <3>2, <3>3 DEF Ordered
      <4>4. r.before \in Nat /\ r.before = IdOf(hist[1])
        BY <2>2, <3>1
      <4>5. CASE k = 1
        BY <4>1, <4>4, <4>5
      <4>6. CASE 1 < k
        BY <4>1, <4>3, <4>4, <4>6
      <4> QED BY <4>2, <4>5, <4>6
    <3>5. \A k \in 1..a : IdOf(new[k]) < r.before /\ IdOf(new[k]) \in Nat
      <4> TAKE k \in 1..a
      <4>1. new[k].ev \in DOMAIN log /\ log \in Seq(Event)
        BY <2>3, <2>4 DEF Entries, LogInv
      <4> QED BY <2>3, <2>4, <4>1, IdsAre DEF IdOf
    <3>6. \A m, n \in DOMAIN all : m < n => IdOf(all[m]) < IdOf(all[n])
      <4> SUFFICES ASSUME NEW m \in 1..(a + b), NEW n \in 1..(a + b), m < n
                   PROVE  IdOf(all[m]) < IdOf(all[n])
        BY <2>4
      <4>1. CASE n \in 1..a
        <5>1. m \in 1..a
          BY <2>4, <4>1
        <5> QED BY <2>3, <2>4, <4>1, <5>1
      <4>2. CASE n \notin 1..a
        <5>1. PICK k \in 1..b : n = a + k /\ all[n] = hist[k]
          BY <2>5, <4>2
        <5>2. CASE m \in 1..a
          BY <2>2, <2>4, <3>4, <3>5, <5>1, <5>2
        <5>3. CASE m \notin 1..a
          <6>1. PICK h \in 1..b : m = a + h /\ all[m] = hist[h]
            BY <2>5, <5>3
          <6>2. h < k
            BY <2>4, <5>1, <6>1
          <6> QED BY <2>4, <3>2, <5>1, <6>1, <6>2 DEF Ordered
        <5> QED BY <5>2, <5>3
      <4> QED BY <4>1, <4>2
    <3>7. LastOf(all) = LastOf(hist)
      BY <2>4, <3>3 DEF LastOf, b
    <3>8. Ordered'
      BY <1>1, <2>1, <3>1, <3>2, <3>6, <3>7 DEF Ordered, IdOf, LastOf
    <3>9. Complete'
      <4> SUFFICES ASSUME NEW i \in 1..histTo, InRoom(i)
                   PROVE  \/ \E n \in DOMAIN all : all[n].ev = i
                          \/ all # <<>> /\ Len(entries) > Page /\ log[i].id < IdOf(all[1])
        BY <1>1, <2>1 DEF Complete, InRoom, IdOf
      <4>1. CASE \E n \in DOMAIN hist : hist[n].ev = i
        <5>1. PICK n \in 1..b : hist[n].ev = i
          BY <2>4, <4>1
        <5>2. a + n \in DOMAIN all /\ all[a + n] = hist[n]
          BY <2>4
        <5> QED BY <5>1, <5>2
      <4>2. CASE log[i].id < IdOf(hist[1])
        <5>1. i \in 1..r.upto
          BY <2>2, <3>1, <3>3
        <5>2. CASE \E n \in DOMAIN new : new[n].ev = i
          <6>1. PICK n \in 1..a : new[n].ev = i
            BY <2>4, <5>2
          <6>2. n \in DOMAIN all /\ all[n] = new[n]
            BY <2>4
          <6> QED BY <6>1, <6>2
        <5>3. CASE Len(entries) > Page /\ new # <<>> /\ log[i].id < IdOf(new[1])
          <6>1. a # 0 /\ 1 \in 1..a /\ all # <<>>
            BY <2>4, <5>3
          <6>2. all[1] = new[1]
            BY <2>4, <6>1
          <6> QED BY <5>3, <6>1, <6>2
        <5> QED BY <2>3, <3>1, <4>2, <5>1, <5>2, <5>3
      <4> QED BY <3>2, <4>1, <4>2 DEF Complete
    <3>10. NoneOlder'
      BY <1>1, <3>2 DEF NoneOlder, Mounted, chatScreen
    <3> QED BY <3>8, <3>9, <3>10
  <2> QED BY <2>6, <2>7 DEF Whole
<1> QED BY <1>2, <1>3

\* Everything else leaves the history as it is, or begins it anew.
LEMMA PageStays ==
  ASSUME TInv, SInv, ChatNext
  PROVE  OfRoom' /\ Whole'
<1> USE DEF TInv, SInv
<1>1. /\ log \in Seq(Event) /\ LogKept /\ Entries(hist) /\ stored \in 0..Len(log) /\ histTo \in 0..stored
      /\ ScreenInv'
  BY LogTypes, ScreenTypes DEF LogInv, PageInv
<1>2. /\ \A n \in DOMAIN hist : hist[n].ev \in DOMAIN log /\ log'[hist[n].ev] = log[hist[n].ev]
      /\ \A i \in 1..histTo : log'[i] = log[i]
      /\ hist # <<>> => 1 \in DOMAIN hist
  <2>1. \A i \in 1..histTo : i \in DOMAIN log
    BY <1>1
  <2>2. hist # <<>> => 1 \in DOMAIN hist
    BY <1>1 DEF Entries
  <2> QED BY <1>1, <2>1, <2>2 DEF LogKept, Entries
<1>3. ASSUME UNCHANGED <<hist, histTo, hasMore, torn>>, NoneOlder => NoneOlder'
      PROVE  OfRoom' /\ Whole'
  <2>1. OfRoom'
    BY <1>2, <1>3 DEF OfRoom, InRoom
  <2>2. Ordered => Ordered'
    BY <1>2, <1>3 DEF Ordered, IdOf, LastOf
  <2>3. Complete => Complete'
    BY <1>2, <1>3 DEF Complete, InRoom, IdOf
  <2> QED BY <1>3, <2>1, <2>2, <2>3 DEF Whole
<1>4. ASSUME hist' = <<>>, histTo' = 0
      PROVE  OfRoom' /\ Whole'
  <2>1. \A q \in reqs' : 0 <= q.upto
    BY <1>1 DEF ScreenInv, Ask
  <2> QED BY <1>4, <2>1 DEF OfRoom, Whole, Ordered, Complete, NoneOlder
<1>5. ASSUME reqs' \subseteq reqs, UNCHANGED <<mounted, current, histTo>>, open' => open
      PROVE  NoneOlder => NoneOlder'
  BY <1>5 DEF NoneOlder, Mounted
<1>6. CASE Posting \/ Persist \/ Taking \/ Getting
  <2>1. UNCHANGED <<chatPage, chatScreen, reqs>>
    <3>1. CASE Posting
      BY <3>1, PostsAre DEF Ingest
    <3>2. CASE Persist \/ Taking
      BY <3>2 DEF Persist, Taking, Announced, TakeDelete, TakeOther
    <3>3. CASE Getting
      BY <3>3 DEF Getting, Content, FetchFails, ReplyArrives, EditArrives, MessageArrives
    <3> QED BY <1>6, <3>1, <3>2, <3>3
  <2> QED BY <1>3, <1>5, <2>1 DEF chatPage, chatScreen
<1>7. CASE Looking
  <2>1. CASE Open \/ Rerun \/ (Back /\ open)
    <3>1. Refresh => hist' = <<>> /\ histTo' = 0
      BY DEF Refresh
    <3>2. hist' = <<>> /\ histTo' = 0
      BY <2>1, <3>1 DEF Open, Rerun, Back
    <3> QED BY <1>4, <3>2
  <2>2. CASE Close \/ Drop \/ (Back /\ ~open)
    <3>1. UNCHANGED <<hist, histTo, hasMore, torn, reqs, mounted, current>> /\ (open' => open)
      BY <2>2 DEF Close, Drop, Back, chatPage
    <3> QED BY <1>3, <1>5, <3>1
  <2>3. CASE OpenThread \/ LoadMore
    <3>1. UNCHANGED <<hist, histTo, hasMore, torn, mounted, current, open>>
      BY <2>3 DEF OpenThread, LoadMore, chatPage, chatScreen
    <3>2. \A q \in reqs' : q \in reqs \/ q.answered = FALSE
      BY <2>3, CallsAre DEF AsksForPage
    <3>3. NoneOlder => NoneOlder'
      BY <3>1, <3>2 DEF NoneOlder, Mounted
    <3> QED BY <1>3, <3>1, <3>3
  <2> QED BY <1>7, <2>1, <2>2, <2>3 DEF Looking
<1>8. CASE Answering
  <2>1. PICK r \in reqs : ReadPage(r) \/ FirstArrives(r) \/ MoreArrives(r) \/ InfoEnds(r)
                          \/ Denied(r) \/ ThreadArrives(r) \/ AskFails(r)
    BY <1>8 DEF Answering
  <2>2. CASE ReadPage(r)
    <3>1. PICK q \in Ask : Read(q, r) /\ reqs' = (reqs \ {r}) \cup {q}
      BY <2>2, ReadPageIs
    <3>2. UNCHANGED <<hist, histTo, hasMore, torn, mounted, current, open>>
      BY <2>2, ReadPageIs DEF chatPage, chatScreen
    <3>3. histTo <= q.upto
      BY <1>1, <3>1 DEF Read
    <3>4. NoneOlder => NoneOlder'
      BY <3>1, <3>2, <3>3 DEF NoneOlder, Mounted
    <3> QED BY <1>3, <3>2, <3>4
  <2>3. CASE InfoEnds(r)
    <3>1. UNCHANGED <<hist, histTo, hasMore, torn, mounted, open>>
          /\ current' = IF Mounted(r) THEN asked + 1 ELSE current
      BY <2>3 DEF InfoEnds, chatPage
    <3>2. \A q \in reqs' : q \in reqs \/ q.answered = FALSE
      BY <2>3, InfoEndsIs
    <3>3. \A q \in reqs : q.n # asked + 1
      BY DEF Numbered, ScreenInv, Ask
    <3>4. NoneOlder => NoneOlder'
      BY <3>1, <3>2, <3>3 DEF NoneOlder, Mounted
    <3> QED BY <1>3, <3>1, <3>4
  <2>4. CASE Denied(r) \/ ThreadArrives(r) \/ AskFails(r)
    <3>1. UNCHANGED <<hist, histTo, hasMore, torn, mounted, current>> /\ (open' => open) /\ reqs' \subseteq reqs
      BY <2>4 DEF Denied, ThreadArrives, AskFails, Done, chatPage, chatScreen
    <3> QED BY <1>3, <1>5, <3>1
  <2> QED BY <2>1, <2>2, <2>3, <2>4, FirstKeeps, MoreKeeps
<1> QED BY <1>6, <1>7, <1>8, StepsAre

\* The six are kept together.
LEMMA ScreenStays ==
  ASSUME TInv, SInv, [ChatNext]_chatVars
  PROVE  SInv'
<1>1. CASE ChatNext
  BY <1>1, UniqueStays, NumberedStays, OneEachStays, CarriedStays, PageStays DEF SInv
<1>2. CASE UNCHANGED chatVars
  BY <1>2 DEF chatVars, SInv, Unique, Numbered, OneEach, Carried, OfRoom, Whole, Ordered, Complete,
              NoneOlder, InRoom, IdOf, LastOf, Mounted
<1> QED BY <1>1, <1>2

\* No message is on the screen twice: the history is in order, and a live one is
\* shown if it is newer than the last of it.
LEMMA ShownOnce ==
  ASSUME TInv, SInv
  PROVE  NoneShownTwice
<1> SUFFICES ASSUME ~torn, NEW p \in Shown, NEW q \in Shown, IdOf(RowAt(p)) = IdOf(RowAt(q))
             PROVE  p = q
  BY DEF NoneShownTwice
<1>1. Ordered /\ OneEach
  BY DEF SInv, Whole
<1>2. hist \in Seq(Entry) /\ log \in Seq(Event) /\ \A n \in DOMAIN hist : IdOf(hist[n]) \in Nat
  <2>1. hist \in Seq(Entry) /\ log \in Seq(Event) /\ \A n \in DOMAIN hist : hist[n].ev \in DOMAIN log
    BY DEF TInv, LogInv, PageInv, Entries
  <2> QED BY <2>1, IdsAre DEF IdOf
<1>3. \A n \in DOMAIN msgs : IdOf(msgs[n]) \in Nat
  <2>1. \A n \in DOMAIN msgs : msgs[n].ev \in DOMAIN log
    BY DEF TInv, StoreInv, Entries
  <2> QED BY <1>2, <2>1, IdsAre DEF IdOf
<1>4. \A n \in DOMAIN hist : IdOf(hist[n]) <= IdOf(LastOf(hist))
  <2> TAKE n \in DOMAIN hist
  <2> DEFINE b == Len(hist)
  <2>1. b \in DOMAIN hist /\ (n = b \/ n < b)
    BY <1>2
  <2> HIDE DEF b
  <2>2. LastOf(hist) = hist[b]
    BY DEF LastOf, b
  <2>3. n < b => IdOf(hist[n]) < IdOf(hist[b])
    BY <1>1, <2>1 DEF Ordered
  <2> QED BY <1>2, <2>1, <2>2, <2>3
<1>5. ASSUME NEW m \in DOMAIN hist, NEW n \in DOMAIN hist, IdOf(hist[m]) = IdOf(hist[n])
      PROVE  m = n
  <2>1. m = n \/ m < n \/ n < m
    BY <1>2
  <2> QED BY <1>1, <1>2, <1>5, <2>1 DEF Ordered
<1>6. ASSUME NEW m \in DOMAIN hist, NEW n \in DOMAIN msgs, hist = <<>> \/ IdOf(msgs[n]) > IdOf(LastOf(hist))
      PROVE  IdOf(hist[m]) # IdOf(msgs[n])
  <2>1. hist # <<>> /\ IdOf(LastOf(hist)) \in Nat
    <3>1. Len(hist) \in DOMAIN hist
      BY <1>2
    <3> QED BY <1>2, <3>1 DEF LastOf
  <2> QED BY <1>2, <1>3, <1>4, <1>6, <2>1
<1>7. \A s \in Shown : \/ \E n \in DOMAIN hist : s = <<"hist", n>> /\ RowAt(s) = hist[n]
                       \/ \E n \in DOMAIN msgs : /\ s = <<"live", n>> /\ RowAt(s) = msgs[n]
                                                 /\ hist = <<>> \/ IdOf(msgs[n]) > IdOf(LastOf(hist))
  BY DEF Shown, RowAt
<1>8. CASE \E n \in DOMAIN hist : p = <<"hist", n>> /\ RowAt(p) = hist[n]
  BY <1>5, <1>6, <1>7, <1>8
<1>9. CASE \E n \in DOMAIN msgs : /\ p = <<"live", n>> /\ RowAt(p) = msgs[n]
                                  /\ hist = <<>> \/ IdOf(msgs[n]) > IdOf(LastOf(hist))
  BY <1>1, <1>6, <1>7, <1>9 DEF OneEach
<1> QED BY <1>7, <1>8, <1>9

\* Nothing is lost when all is at rest: what the history was read from is in it or
\* older, and the rest was stored, or was missed, or came from a clock behind.
LEMMA NothingLost ==
  ASSUME TInv, SInv
  PROVE  NoneLost
<1> SUFFICES ASSUME ChatAtRest, NEW i \in DOMAIN log, InRoom(i)
             PROVE  \/ \E p \in Shown : RowAt(p).ev = i
                    \/ i <= histTo /\ hist # <<>> /\ hasMore /\ log[i].id < IdOf(hist[1])
                    \/ i > histTo /\ (i \in missed \/ Len(msgs) = Cap)
                    \/ i > histTo /\ hist # <<>> /\ log[i].id < IdOf(LastOf(hist))
  BY DEF NoneLost, InRoom
<1>1. Unique /\ Carried /\ Complete /\ coming = {} /\ fetching = {} /\ chatCalm
  BY DEF SInv, Whole, ChatAtRest
<1>2. i \in Nat /\ i >= 1 /\ histTo \in Nat /\ log \in Seq(Event) /\ hist \in Seq(Entry)
      /\ \A n \in DOMAIN hist : hist[n].ev \in DOMAIN log
  <2>1. log \in Seq(Event) /\ stored \in Nat /\ hist \in Seq(Entry) /\ \A n \in DOMAIN hist : hist[n].ev \in DOMAIN log
    BY DEF TInv, LogInv, PageInv, Entries
  <2> QED BY <2>1 DEF TInv, PageInv
<1>3. \A n \in DOMAIN hist : <<"hist", n>> \in Shown /\ RowAt(<<"hist", n>>) = hist[n]
  BY DEF Shown, RowAt
<1>4. CASE i <= histTo
  <2>1. i \in 1..histTo
    BY <1>2, <1>4
  <2>2. CASE \E n \in DOMAIN hist : hist[n].ev = i
    BY <1>3, <2>2
  <2> QED BY <1>1, <1>4, <2>1, <2>2 DEF Complete
<1>5. CASE i > histTo
  <2>1. i \in missed \/ Len(msgs) = Cap \/ \E n \in DOMAIN msgs : msgs[n].ev = i
    BY <1>1 DEF Carried
  <2>2. CASE \E n \in DOMAIN msgs : msgs[n].ev = i
    <3>1. PICK n \in DOMAIN msgs : msgs[n].ev = i
      BY <2>2
    <3>2. CASE hist = <<>> \/ IdOf(msgs[n]) > IdOf(LastOf(hist))
      <4>1. <<"live", n>> \in Shown /\ RowAt(<<"live", n>>) = msgs[n]
        BY <3>2 DEF Shown, RowAt
      <4> QED BY <3>1, <4>1
    <3>3. CASE ~(hist = <<>> \/ IdOf(msgs[n]) > IdOf(LastOf(hist)))
      <4>1. Len(hist) \in DOMAIN hist
        BY <1>2, <3>3
      <4>2. LastOf(hist) = hist[Len(hist)] /\ LastOf(hist).ev \in DOMAIN log
        BY <1>2, <4>1 DEF LastOf
      <4>3. log[i].id \in Nat /\ IdOf(LastOf(hist)) = log[LastOf(hist).ev].id /\ IdOf(LastOf(hist)) \in Nat
        BY <1>2, <4>2, IdsAre DEF IdOf
      <4>4. log[i].id < IdOf(LastOf(hist)) \/ log[i].id = IdOf(LastOf(hist))
        BY <3>1, <3>3, <4>3 DEF IdOf
      <4>5. CASE log[i].id = IdOf(LastOf(hist))
        <5>1. LastOf(hist).ev = i
          BY <1>1, <4>2, <4>3, <4>5 DEF Unique
        <5> QED BY <1>3, <4>1, <4>2, <5>1
      <4> QED BY <1>5, <3>3, <4>4, <4>5
    <3> QED BY <3>2, <3>3
  <2> QED BY <1>5, <2>1, <2>2
<1> QED BY <1>2, <1>4, <1>5

\* ChatRoom and MessageStore: what the stores and the history have of a room is on
\* the screen, each message once, in whatever order announcements, contents and
\* pages come, and however often the room is opened or the connection lost.
THEOREM EachOnce == ChatSpec => []EachShownOnce
<1>1. ChatInit => SInv
  BY DEF ChatInit, SInv, Unique, Numbered, OneEach, Carried, OfRoom, Whole, Ordered, Complete, NoneOlder
<1>2. TInv /\ SInv /\ [ChatNext]_chatVars => SInv'
  BY ScreenStays
<1>3. TInv /\ SInv => EachShownOnce
  BY ShownOnce, NothingLost DEF EachShownOnce
<1> QED BY <1>1, <1>2, <1>3, ChatTypes, PTL DEF ChatSpec


-----------------------------------------------------------------------------
(* PersistWorker: its inductive invariant.                                  *)

Written == ToSet(done)

\* A callback that is past its beginning has an event, and what it is about to
\* acknowledge or to toggle was written.
StepFits ==
  \A w \in Persisters :
    /\ step[w] # AtStart => held[w] # <<>>
    /\ step[w].at \in {"toggle", "ack"} => Now(w) \in Written
\* An encrypted event has a key that was made for its epoch.
LocksFit ==
  \A i \in DOMAIN stream :
    stream[i].lock = InPlain \/ (stream[i].lock.epoch \in KeyEpochs /\ stream[i].lock.key \in 1..made[stream[i].lock.epoch])

\* What is acknowledged, and the reactions there are, were written.
WrittenInv == acked \subseteq Written /\ reactions \subseteq Written
PersistTypes == PersistTypeOK /\ StepFits /\ LocksFit /\ WrittenInv

\* The message comes before what is about it.
MessagesFirst ==
  /\ \A i \in DOMAIN stream : Sent(stream[i].id)
  /\ \A i, j \in DOMAIN stream : stream[i].act = "message" /\ stream[j].id = stream[i].id => i <= j

\* What was written of a message.
WrittenOf(m) == {i \in Written : stream[i].id = m}
DeletedBy(m) == {i \in WrittenOf(m) : stream[i].act = "delete"}
WrittenTexts(m) == {i \in WrittenOf(m) : HasText(stream[i]) /\ \A d \in DeletedBy(m) : i < d}
Inserted(m) == \E i \in WrittenOf(m) : stream[i].act = "message"
RowRight(m) ==
  IF Inserted(m)
  THEN /\ Len(rows[m]) = 1
       /\ IsLatest(rows[m][1].text, WrittenTexts(m)) /\ rows[m][1].gone = (DeletedBy(m) # {})
       /\ AreLatest(versions[m], WrittenTexts(m) \ {rows[m][1].text})
  ELSE rows[m] = <<>> /\ versions[m] = <<>>
ReactionsRight(m) == \A i \in WrittenOf(m) : stream[i].act = "react" => i \in reactions
TablesInv == \A m \in MessageIds : WrittenInOrder(m) => RowRight(m) /\ ReactionsRight(m)

\* Without faults an event is at one place.
IsAt(i, w, d) == d \in DOMAIN held[w] /\ held[w][d].of = i
Holding(i) == \E w \in Persisters : \E d \in DOMAIN held[w] : held[w][d].of = i
Placed ==
  upsets \subseteq {"key"} =>
    /\ \A v, w \in Persisters : \A c \in DOMAIN held[v], d \in DOMAIN held[w] : held[v][c].of = held[w][d].of => v = w /\ c = d
    /\ \A w \in Persisters : \A d \in DOMAIN held[w] : held[w][d].of \notin due \cup acked

OnceInv ==
  upsets = {} =>
    /\ due = {} /\ \A i \in 1..given : i \in acked \/ Holding(i)
    /\ \A i \in Written : i \in acked \/ \E w \in Persisters : step[w].at = "ack" /\ Now(w) = i
    /\ \A w \in Persisters : step[w].at # "toggle"
    /\ \A i, j \in DOMAIN done : done[i] = done[j] => i = j

\* One instance alone goes through the stream from its beginning.
AloneInv ==
  upsets = {} => \A w \in Persisters : crew = {w} =>
    /\ \A d \in DOMAIN held[w] : held[w][d].of = given - Len(held[w]) + d
    /\ \A i \in DOMAIN done : done[i] = i
    /\ Len(done) = given - Len(held[w]) + (IF step[w].at = "ack" THEN 1 ELSE 0)

\* Keys: those of the service are made, it had those of the served events.
KeysInv ==
  /\ \A e \in KeyEpochs : rawKey[e] <= made[e]
  /\ \A i \in served : stream[i].lock # InPlain /\ stream[i].lock.key <= rawKey[stream[i].lock.epoch]
  /\ \A w \in Persisters : \A a, b \in DOMAIN keyCache[w] : keyCache[w][a].epoch = keyCache[w][b].epoch => a = b

\* The service has had the key of the event since it was sent.
Fair(i) == i \in served /\ rawKey[stream[i].lock.epoch] = stream[i].lock.key
Clean(w, i) == \A c \in DOMAIN keyCache[w] : keyCache[w][c].epoch = stream[i].lock.epoch => keyCache[w][c].key = stream[i].lock.key
CleanOnes(i) == {w \in crew : Clean(w, i)}
TriesInv ==
  upsets \subseteq {"key"} =>
    /\ \A w \in Persisters : \A d \in DOMAIN held[w] : held[w][d].n <= tries[held[w][d].of]
    /\ \A i \in DOMAIN stream : Fair(i) => tries[i] <= Cardinality(CleanOnes(i)) + (IF Holding(i) \/ i \in acked THEN 1 ELSE 0)
ServeInv ==
  upsets \subseteq {"key"} /\ MaxTries >= Cardinality(crew) =>
    /\ \A w \in Persisters : step[w].cipher => ~Fair(Now(w))
    /\ \A m \in MessageIds : \A r \in DOMAIN rows[m] : rows[m][r].cipher => ~Fair(rows[m][r].text)
-----------------------------------------------------------------------------
(* Sequences.                                                               *)

LEMMA PutAt ==
  ASSUME NEW S, NEW s \in Seq(S), NEW i \in DOMAIN s, NEW x \in S, NEW t, t = [s EXCEPT ![i] = x]
  PROVE  t \in Seq(S) /\ Len(t) = Len(s) /\ DOMAIN t = DOMAIN s /\ t[i] = x /\ \A j \in DOMAIN s : j # i => t[j] = s[j]
<1>1. s \in [1..Len(s) -> S] /\ Len(s) \in Nat /\ DOMAIN s = 1..Len(s)
  OBVIOUS
<1>2. t \in [1..Len(s) -> S] /\ DOMAIN t = DOMAIN s
  BY <1>1
<1> QED BY <1>1, <1>2

LEMMA TailOf ==
  ASSUME NEW S, NEW s \in Seq(S), s # <<>>
  PROVE  /\ Tail(s) \in Seq(S) /\ Len(Tail(s)) = Len(s) - 1 /\ Len(s) \in Nat \ {0} /\ 1 \in DOMAIN s
         /\ Head(s) = s[1] /\ Head(s) \in S
         /\ \A i \in DOMAIN Tail(s) : i + 1 \in DOMAIN s /\ Tail(s)[i] = s[i + 1]
OBVIOUS

LEMMA AppendTo ==
  ASSUME NEW S, NEW s \in Seq(S), NEW x \in S
  PROVE  LET t == Append(s, x) IN
         /\ t \in Seq(S) /\ Len(t) = Len(s) + 1 /\ DOMAIN t = DOMAIN s \cup {Len(s) + 1} /\ Len(s) + 1 \notin DOMAIN s
         /\ t[Len(s) + 1] = x /\ \A i \in DOMAIN s : t[i] = s[i]
         /\ s # <<>> => Head(t) = Head(s)
         /\ t # <<>>
<1> DEFINE t == Append(s, x)
<1>1. t \in Seq(S) /\ Len(t) = Len(s) + 1 /\ DOMAIN t = 1..(Len(s) + 1) /\ DOMAIN s = 1..Len(s) /\ Len(s) \in Nat
  OBVIOUS
<1>2. t[Len(s) + 1] = x /\ \A i \in DOMAIN s : t[i] = s[i]
  OBVIOUS
<1>3. t # <<>> /\ Head(t) = t[1]
  BY <1>1
<1>4. s # <<>> => 1 \in DOMAIN s /\ Head(s) = s[1]
  OBVIOUS
<1> HIDE DEF t
<1>5. DOMAIN t = DOMAIN s \cup {Len(s) + 1} /\ Len(s) + 1 \notin DOMAIN s
  BY <1>1
<1>6. s # <<>> => Head(t) = Head(s)
  BY <1>2, <1>3, <1>4
<1> QED BY <1>1, <1>2, <1>3, <1>5, <1>6 DEF t

OnePerEpoch(s) == \A a, b \in DOMAIN s : s[a].epoch = s[b].epoch => a = b

\* A key that leaves the cache leaves none of its epoch if there was one of each.
LEMMA WithoutIs ==
  ASSUME NEW S, NEW s \in Seq(S), NEW e
  PROVE  LET t == WithoutEpoch(s, e) IN
         /\ t \in Seq(S) /\ Len(t) <= Len(s)
         /\ \A i \in DOMAIN t : \E j \in DOMAIN s : t[i] = s[j]
         /\ OnePerEpoch(s) => OnePerEpoch(t) /\ \A i \in DOMAIN t : t[i].epoch # e
<1> DEFINE M == {j \in DOMAIN s : s[j].epoch = e}
           i == CHOOSE j \in M : TRUE
           a == SubSeq(s, 1, i - 1)
           b == SubSeq(s, i + 1, Len(s))
<1>1. CASE M = {}
  <2>1. WithoutEpoch(s, e) = s
    BY <1>1 DEF WithoutEpoch
  <2> QED BY <1>1, <2>1
<1>2. CASE M # {}
  <2>1. i \in 1..Len(s) /\ s[i].epoch = e
    BY <1>2
  <2>2. WithoutEpoch(s, e) = a \o b
    BY <1>2 DEF WithoutEpoch, RemoveAt
  <2> HIDE DEF i, M
  <2>3. a \in Seq(S) /\ Len(a) = i - 1 /\ \A j \in 1..(i - 1) : a[j] = s[j]
    BY <2>1
  <2>4. b \in Seq(S) /\ Len(b) = Len(s) - i /\ \A j \in 1..(Len(s) - i) : b[j] = s[i + j]
    <3>1. b \in Seq(S) /\ Len(b) = Len(s) - i
      BY <2>1
    <3>2. \A j \in 1..(Len(s) - i) : b[j] = s[i + j]
      BY <2>1
    <3> QED BY <3>1, <3>2
  <2> HIDE DEF a, b
  <2>5. (a \o b) \in Seq(S) /\ Len(a \o b) = Len(s) - 1 /\ Len(s) \in Nat
    <3>1. Len(s) \in Nat
      OBVIOUS
    <3>2. a \in Seq(S) /\ b \in Seq(S) /\ Len(a) \in Nat /\ Len(b) \in Nat
      BY <2>3, <2>4
    <3>3. (a \o b) \in Seq(S) /\ Len(a \o b) = Len(a) + Len(b)
      BY <3>2
    <3> QED BY <2>1, <2>3, <2>4, <3>1, <3>3
  <2> DEFINE P(j) == IF j < i THEN j ELSE j + 1
  <2>6. \A j \in 1..(Len(s) - 1) : (a \o b)[j] = s[P(j)]
    <3> SUFFICES ASSUME NEW j \in 1..(Len(s) - 1)
                 PROVE  (a \o b)[j] = s[P(j)]
      OBVIOUS
    <3>1. CASE j < i
      BY <2>1, <2>3, <2>4, <3>1
    <3>2. CASE ~(j < i)
      <4>1. (a \o b)[j] = b[j - (i - 1)]
        BY <2>1, <2>3, <2>4, <2>5, <3>2
      <4>2. j - (i - 1) \in 1..(Len(s) - i) /\ i + (j - (i - 1)) = j + 1
        BY <2>1, <2>5, <3>2
      <4> QED BY <2>4, <3>2, <4>1, <4>2
    <3> QED BY <3>1, <3>2
  <2>7. \A j \in 1..(Len(s) - 1) : P(j) \in DOMAIN s /\ P(j) # i
    BY <2>1, <2>5
  <2>8. \A j, k \in 1..(Len(s) - 1) : P(j) = P(k) => j = k
    BY <2>1, <2>5
  <2> HIDE DEF P
  <2> DEFINE t == a \o b
  <2>9. t \in Seq(S) /\ DOMAIN t = 1..(Len(s) - 1) /\ Len(t) = Len(s) - 1
    BY <2>5
  <2>10. \A j \in DOMAIN t : t[j] = s[P(j)]
    BY <2>6, <2>9
  <2> HIDE DEF t
  <2>11. ASSUME OnePerEpoch(s)
         PROVE  OnePerEpoch(t) /\ \A j \in DOMAIN t : t[j].epoch # e
    <3>1. \A j \in DOMAIN t : t[j].epoch # e
      BY <2>1, <2>7, <2>9, <2>10, <2>11 DEF OnePerEpoch
    <3>2. OnePerEpoch(t)
      BY <2>7, <2>8, <2>9, <2>10, <2>11 DEF OnePerEpoch
    <3> QED BY <3>1, <3>2
  <2>12. \A j \in DOMAIN t : \E k \in DOMAIN s : t[j] = s[k]
    BY <2>7, <2>9, <2>10
  <2>13. Len(t) <= Len(s)
    BY <2>5, <2>9
  <2>14. WithoutEpoch(s, e) = t
    BY <2>2 DEF t
  <2> QED BY <2>9, <2>11, <2>12, <2>13, <2>14
<1> QED BY <1>1, <1>2

\* A key that enters the cache keeps one of each epoch, if there was none of its own.
LEMMA WithKeyIs ==
  ASSUME NEW S, NEW s \in Seq(S), Len(s) <= KeptKeys, NEW x \in S
  PROVE  LET t == WithKey(s, x) IN
         /\ t \in Seq(S) /\ Len(t) <= KeptKeys
         /\ \A i \in DOMAIN t : t[i] = x \/ \E j \in DOMAIN s : t[i] = s[j]
         /\ OnePerEpoch(s) /\ (\A j \in DOMAIN s : s[j].epoch # x.epoch) => OnePerEpoch(t)
<1> DEFINE r == IF Len(s) >= KeptKeys THEN Tail(s) ELSE s
           t == Append(r, x)
           P(i) == IF Len(s) >= KeptKeys THEN i + 1 ELSE i
<1>1. Len(s) \in Nat /\ KeptKeys \in Nat \ {0} /\ DOMAIN s = 1..Len(s)
  BY PersistParameters
<1>2. /\ r \in Seq(S) /\ Len(r) + 1 <= KeptKeys /\ Len(r) \in Nat /\ DOMAIN r = 1..Len(r)
      /\ \A i \in DOMAIN r : P(i) \in DOMAIN s /\ r[i] = s[P(i)]
  <2>1. CASE Len(s) >= KeptKeys
    <3>1. s # <<>> /\ r = Tail(s)
      BY <1>1, <2>1
    <3> HIDE DEF r
    <3>2. r \in Seq(S) /\ Len(r) = Len(s) - 1 /\ \A i \in DOMAIN r : i + 1 \in DOMAIN s /\ r[i] = s[i + 1]
      BY <3>1, TailOf
    <3>3. DOMAIN r = 1..Len(r) /\ Len(r) \in Nat
      BY <3>2
    <3> QED BY <1>1, <2>1, <3>2, <3>3
  <2>2. CASE ~(Len(s) >= KeptKeys)
    <3>1. r = s
      BY <2>2
    <3> HIDE DEF r
    <3> QED BY <1>1, <2>2, <3>1
  <2> QED BY <2>1, <2>2
<1> HIDE DEF r
<1>3. /\ t \in Seq(S) /\ Len(t) = Len(r) + 1 /\ DOMAIN t = DOMAIN r \cup {Len(r) + 1} /\ Len(r) + 1 \notin DOMAIN r
      /\ t[Len(r) + 1] = x /\ \A i \in DOMAIN r : t[i] = r[i]
  BY <1>2, AppendTo
<1>4. \A i, j \in DOMAIN r : P(i) = P(j) => i = j
  BY <1>1, <1>2
<1>5. WithKey(s, x) = t
  BY DEF WithKey, r
<1> HIDE DEF t, P
<1>6. \A i \in DOMAIN t : t[i] = x \/ \E j \in DOMAIN s : t[i] = s[j]
  BY <1>2, <1>3
<1>7. ASSUME OnePerEpoch(s), \A j \in DOMAIN s : s[j].epoch # x.epoch
      PROVE  OnePerEpoch(t)
  BY <1>2, <1>3, <1>4, <1>7 DEF OnePerEpoch
<1>8. Len(t) <= KeptKeys
  BY <1>2, <1>3
<1> QED BY <1>3, <1>5, <1>6, <1>7, <1>8

LEMMA IsSeq ==
  ASSUME NEW S, NEW n \in Nat, NEW f \in [1..n -> S]
  PROVE  f \in Seq(S) /\ Len(f) = n
OBVIOUS

LEMMA SeqGrows ==
  ASSUME NEW S, NEW T, S \subseteq T, NEW s \in Seq(S)
  PROVE  s \in Seq(T)
OBVIOUS
-----------------------------------------------------------------------------
(* The steps.                                                               *)

\* What a client sends: a message is new, the rest is about one that was sent.
FittingEvent(e) ==
  /\ e \in StreamEvent /\ (e.lock = InPlain \/ (e.lock.epoch \in KeyEpochs /\ e.lock.key \in 1..made[e.lock.epoch]))
  /\ e.act = "message" => ~Sent(e.id)
  /\ e.act # "message" => Sent(e.id)
Sends == \E e : FittingEvent(e) /\ SendsOut(e)

LEMMA SendsAre ==
  ASSUME PersistTypeOK,
         \/ \E lock \in Locks : SendMessage(lock) \/ \E m \in MessageIds : EditOf(m, lock)
         \/ \E m \in MessageIds : DeletionOf(m) \/ ReactionTo(m)
  PROVE  Sends
<1>1. made \in [KeyEpochs -> Nat] /\ InPlain \in [epoch : {0} \cup KeyEpochs, key : Nat]
  BY DEF PersistTypeOK, InPlain
<1>2. ASSUME NEW lock \in Locks
      PROVE  /\ lock \in [epoch : {0} \cup KeyEpochs, key : Nat]
             /\ lock = InPlain \/ (lock.epoch \in KeyEpochs /\ lock.key \in 1..made[lock.epoch])
  <2>1. CASE made[1] = 0
    BY <1>1, <2>1 DEF Locks
  <2>2. CASE made[1] # 0
    <3>1. lock \in Encrypting /\ lock.key <= made[lock.epoch]
      BY <2>2 DEF Locks
    <3>2. PICK e \in KeyEpochs, k \in 1..2 : lock = [epoch |-> e, key |-> k]
      BY <3>1 DEF Encrypting
    <3> QED BY <1>1, <3>1, <3>2
  <2> QED BY <2>1, <2>2
<1>3. ASSUME NEW lock \in Locks, SendMessage(lock)
      PROVE  Sends
  <2>1. PICK m \in MessageIds : ~Sent(m) /\ SendsOut([act |-> "message", id |-> m, lock |-> lock])
    BY <1>3 DEF SendMessage
  <2>2. FittingEvent([act |-> "message", id |-> m, lock |-> lock])
    BY <1>2, <2>1 DEF FittingEvent, StreamEvent
  <2> QED BY <2>1, <2>2 DEF Sends
<1>4. ASSUME NEW lock \in Locks, NEW m \in MessageIds, EditOf(m, lock)
      PROVE  Sends
  <2>1. Sent(m) /\ SendsOut([act |-> "edit", id |-> m, lock |-> lock])
    BY <1>4 DEF EditOf
  <2>2. FittingEvent([act |-> "edit", id |-> m, lock |-> lock])
    BY <1>2, <2>1 DEF FittingEvent, StreamEvent
  <2> QED BY <2>1, <2>2 DEF Sends
<1>5. ASSUME NEW m \in MessageIds, DeletionOf(m)
      PROVE  Sends
  <2>1. Sent(m) /\ SendsOut([act |-> "delete", id |-> m, lock |-> InPlain])
    BY <1>5 DEF DeletionOf
  <2>2. FittingEvent([act |-> "delete", id |-> m, lock |-> InPlain])
    BY <1>1, <2>1 DEF FittingEvent, StreamEvent
  <2> QED BY <2>1, <2>2 DEF Sends
<1>6. ASSUME NEW m \in MessageIds, ReactionTo(m)
      PROVE  Sends
  <2>1. Sent(m) /\ SendsOut([act |-> "react", id |-> m, lock |-> InPlain])
    BY <1>6 DEF ReactionTo
  <2>2. FittingEvent([act |-> "react", id |-> m, lock |-> InPlain])
    BY <1>1, <2>1 DEF FittingEvent, StreamEvent
  <2> QED BY <2>1, <2>2 DEF Sends
<1> QED BY <1>3, <1>4, <1>5, <1>6

\* A statement that took effect, with its answer or without.
Stores(w) ==
  \E ok \in BOOLEAN :
    StoreMessage(w, ok) \/ StoreEdit(w, ok) \/ StoreDeletion(w, ok) \/ StoreReaction(w, ok) \/ RemoveReaction(w, ok)
Decrypts(w) == DecryptCached(w) \/ DecryptFetched(w)

\* A step of an instance is a step of one that is there.
LEMMA PersistSteps ==
  ASSUME PersistTypeOK, PersistNext
  PROVE  \/ Sends \/ EnableAgain \/ RawKeyStored
         \/ \E i \in 1..given : Overdue(i)
         \/ \E w \in Persisters : w \in crew /\
              (Give(w) \/ Acknowledge(w) \/ CrashOf(w) \/ Decrypts(w) \/ ReactionThere(w) \/ WriteFails(w) \/ Stores(w))
<1>1. crew \subseteq Persisters
  BY DEF PersistTypeOK
<1> QED BY <1>1, SendsAre DEF PersistNext, Stores, Decrypts

\* What an instance does with the first of its events: goes on with it, or lets it go.
Moves(w, at) == step' = [step EXCEPT ![w] = at] /\ UNCHANGED held
LetsGo(w) == held[w] # <<>> /\ LeavesHand(w)
-----------------------------------------------------------------------------
(* Types.                                                                   *)

Deliveries == [of : 1..given, n : Nat]
Stages == [at : {"idle", "write", "toggle", "ack"}, cipher : BOOLEAN]
CachedKey == [epoch : KeyEpochs, key : Nat]
Row == [text : 1..given, cipher : BOOLEAN, gone : BOOLEAN]
Troubles == {"crash", "failure", "stall", "key"}
TypeStream == stream \in Seq(StreamEvent) /\ tries \in Seq(Nat) /\ Len(tries) = Len(stream) /\ served \subseteq DOMAIN stream
TypeGiven == given \in 0..Len(stream) /\ due \subseteq 1..given /\ acked \subseteq 1..given /\ due \cap acked = {}
TypeHeld == held \in [Persisters -> Seq(Deliveries)] /\ \A w \in Persisters : w \notin crew => held[w] = <<>>
TypeStep == step \in [Persisters -> Stages]
TypeCache == keyCache \in [Persisters -> Seq(CachedKey)] /\ \A w \in Persisters : Len(keyCache[w]) <= KeptKeys
TypeKeys == made \in [KeyEpochs -> Nat] /\ rawKey \in [KeyEpochs -> Nat]
TypeTables == rows \in [MessageIds -> Seq(Row)] /\ versions \in [MessageIds -> Seq(1..given)] /\ reactions \subseteq 1..given
TypeDone == crew \subseteq Persisters /\ done \in Seq(1..given)
TypeUpsets == upsets \subseteq Troubles /\ persistLeft \in [PersistKinds -> Nat]

LEMMA TypesAre == PersistTypeOK <=> TypeStream /\ TypeGiven /\ TypeHeld /\ TypeStep /\ TypeCache /\ TypeKeys /\ TypeTables /\ TypeDone /\ TypeUpsets
BY DEF PersistTypeOK, Deliveries, Stages, CachedKey, Row, Troubles, TypeStream, TypeGiven, TypeHeld, TypeStep, TypeCache, TypeKeys, TypeTables, TypeDone, TypeUpsets

LEMMA TypesAreNext == PersistTypeOK' <=> TypeStream' /\ TypeGiven' /\ TypeHeld' /\ TypeStep' /\ TypeCache' /\ TypeKeys' /\ TypeTables' /\ TypeDone' /\ TypeUpsets'
BY DEF PersistTypeOK, Deliveries, Stages, CachedKey, Row, Troubles, TypeStream, TypeGiven, TypeHeld, TypeStep, TypeCache, TypeKeys, TypeTables, TypeDone, TypeUpsets

\* What is counted by what was given keeps its type when more is given.
LEMMA MoreGiven ==
  ASSUME PersistTypeOK, NEW n, n \in Nat, given <= n
  PROVE  /\ 1..given \subseteq 1..n
         /\ held \in [Persisters -> Seq([of : 1..n, n : Nat])]
         /\ rows \in [MessageIds -> Seq([text : 1..n, cipher : BOOLEAN, gone : BOOLEAN])]
         /\ versions \in [MessageIds -> Seq(1..n)] /\ reactions \subseteq 1..n /\ done \in Seq(1..n)
<1>1. given \in Nat /\ 1..given \subseteq 1..n
  BY DEF PersistTypeOK
<1>2. Deliveries \subseteq [of : 1..n, n : Nat] /\ Row \subseteq [text : 1..n, cipher : BOOLEAN, gone : BOOLEAN]
  BY <1>1 DEF Deliveries, Row
<1>3. /\ held \in [Persisters -> Seq(Deliveries)] /\ rows \in [MessageIds -> Seq(Row)]
      /\ versions \in [MessageIds -> Seq(1..given)] /\ reactions \subseteq 1..given /\ done \in Seq(1..given)
  BY TypesAre DEF TypeHeld, TypeTables, TypeDone
<1> DEFINE D == [of : 1..n, n : Nat] R == [text : 1..n, cipher : BOOLEAN, gone : BOOLEAN] N == 1..n
<1>4. Seq(Deliveries) \subseteq Seq(D)
  BY <1>2, SeqGrows
<1>5. Seq(Row) \subseteq Seq(R)
  BY <1>2, SeqGrows
<1>6. Seq(1..given) \subseteq Seq(N)
  BY <1>1, SeqGrows
<1> HIDE DEF D, R, N
<1>7. held \in [Persisters -> Seq(D)] /\ rows \in [MessageIds -> Seq(R)] /\ versions \in [MessageIds -> Seq(N)] /\ done \in Seq(N)
  BY <1>3, <1>4, <1>5, <1>6
<1> QED BY <1>1, <1>3, <1>7 DEF D, R, N

LEMMA SpentOf ==
  ASSUME TypeUpsets, NEW k \in PersistKinds, SpendPersist(k)
  PROVE  persistLeft' \in [PersistKinds -> Nat]
BY DEF TypeUpsets, SpendPersist

LEMMA UpsetTyped ==
  ASSUME TypeUpsets, Calmly \/ KeyMissing \/ \E k \in {"crash", "failure", "stall"} : Upset(k)
  PROVE  TypeUpsets'
<1>1. CASE Calmly
  BY <1>1 DEF TypeUpsets, Calmly
<1>2. CASE KeyMissing
  BY <1>2 DEF TypeUpsets, KeyMissing, Troubles
<1>3. ASSUME NEW k \in {"crash", "failure", "stall"}, Upset(k)
      PROVE  TypeUpsets'
  <2>1. k \in PersistKinds
    BY DEF PersistKinds
  <2>2. persistLeft' \in [PersistKinds -> Nat]
    BY <1>3, <2>1, SpentOf DEF Upset
  <2> QED BY <1>3, <2>2 DEF TypeUpsets, Upset, Troubles
<1> QED BY <1>1, <1>2, <1>3

\* The hands and callbacks keep their type when one instance moves on or lets go.
LEMMA HandsTyped ==
  ASSUME PersistTypes, NEW w \in Persisters, LetsGo(w) \/ \E at \in Stages : Moves(w, at), UNCHANGED <<given, crew>>
  PROVE  TypeHeld' /\ TypeStep'
<1>1. TypeHeld /\ TypeStep /\ AtStart \in Stages /\ UNCHANGED Deliveries
  BY TypesAre DEF PersistTypes, AtStart, Stages, Deliveries
<1>2. CASE LetsGo(w)
  <2>1. Tail(held[w]) \in Seq(Deliveries) /\ (w \notin crew => held[w] = <<>>)
    BY <1>1, <1>2, TailOf DEF TypeHeld, LetsGo
  <2>2. TypeHeld'
    BY <1>1, <1>2, <2>1 DEF TypeHeld, LetsGo, LeavesHand
  <2>3. TypeStep'
    BY <1>1, <1>2 DEF TypeStep, LetsGo, LeavesHand, Stages
  <2> QED BY <2>2, <2>3
<1>3. ASSUME NEW at \in Stages, Moves(w, at)
      PROVE  TypeHeld' /\ TypeStep'
  <2>1. TypeHeld'
    BY <1>1, <1>3 DEF TypeHeld, Moves
  <2>2. TypeStep'
    BY <1>1, <1>3 DEF TypeStep, Moves, Stages
  <2> QED BY <2>1, <2>2
<1> QED BY <1>2, <1>3

\* ... and a callback still has its event.
LEMMA HandsFit ==
  ASSUME PersistTypes, NEW w \in Persisters, Written \subseteq Written',
         \/ LetsGo(w)
         \/ \E at \in Stages : Moves(w, at) /\ held[w] # <<>> /\ (at.at \in {"toggle", "ack"} => Now(w) \in Written')
  PROVE  StepFits'
<1>1. TypeHeld /\ TypeStep /\ StepFits
  BY TypesAre DEF PersistTypes
<1> SUFFICES ASSUME NEW v \in Persisters
             PROVE  (step'[v] # AtStart => held'[v] # <<>>) /\ (step'[v].at \in {"toggle", "ack"} => Head(held'[v]).of \in Written')
  BY DEF StepFits, Now, AtStart
<1>2. (step[v] # AtStart => held[v] # <<>>) /\ (step[v].at \in {"toggle", "ack"} => Head(held[v]).of \in Written)
  BY <1>1 DEF StepFits, Now
<1>3. CASE LetsGo(w)
  <2>1. step'[v] = (IF v = w THEN AtStart ELSE step[v]) /\ (v # w => held'[v] = held[v])
    BY <1>1, <1>3 DEF LetsGo, LeavesHand, TypeHeld, TypeStep
  <2> QED BY <1>2, <2>1 DEF AtStart
<1>4. ASSUME NEW at \in Stages, Moves(w, at), held[w] # <<>>, at.at \in {"toggle", "ack"} => Now(w) \in Written'
      PROVE  (step'[v] # AtStart => held'[v] # <<>>) /\ (step'[v].at \in {"toggle", "ack"} => Head(held'[v]).of \in Written')
  <2>1. step'[v] = (IF v = w THEN at ELSE step[v]) /\ held'[v] = held[v]
    BY <1>1, <1>4 DEF Moves, TypeHeld, TypeStep
  <2> QED BY <1>2, <1>4, <2>1 DEF Now
<1> QED BY <1>3, <1>4

\* What a callback has in hand.
LEMMA InHandIs ==
  ASSUME PersistTypeOK, NEW w \in Persisters, held[w] # <<>>
  PROVE  /\ Now(w) \in 1..given /\ Now(w) \in DOMAIN stream /\ InHand(w) \in StreamEvent
         /\ Head(held[w]) = held[w][1] /\ 1 \in DOMAIN held[w] /\ Head(held[w]).n \in Nat
<1>1. held[w] \in Seq(Deliveries) /\ stream \in Seq(StreamEvent) /\ given \in 0..Len(stream)
  BY TypesAre DEF TypeHeld, TypeStream, TypeGiven
<1>2. Head(held[w]) \in Deliveries /\ Head(held[w]) = held[w][1] /\ 1 \in DOMAIN held[w]
  BY <1>1, TailOf
<1>3. Now(w) \in 1..given /\ Now(w) \in DOMAIN stream /\ Head(held[w]).n \in Nat
  BY <1>1, <1>2 DEF Now, Deliveries
<1> QED BY <1>1, <1>2, <1>3 DEF InHand

LEMMA AnInstance == TypeStep => \A w \in Persisters : step[w] \in Stages
BY DEF TypeStep

\* An attempt to decrypt: the text is open, or is left encrypted, or comes again.
LEMMA DecryptIs ==
  ASSUME PersistTypes, NEW w \in Persisters, Decrypts(w)
  PROVE  /\ held[w] # <<>> /\ step[w].at = "idle" /\ InHand(w).lock # InPlain /\ InHand(w).lock.epoch \in KeyEpochs
         /\ LetsGo(w) \/ \E cipher \in BOOLEAN : Moves(w, [at |-> "write", cipher |-> cipher])
         /\ \E c \in Seq(CachedKey) : Len(c) <= KeptKeys /\ keyCache' = [keyCache EXCEPT ![w] = c]
         /\ Calmly \/ KeyMissing \/ Upset("failure")
         /\ UNCHANGED <<stream, given, due, acked, tries, made, rawKey, persistTables, crew, done, served>>
<1>1. Locked(w) /\ UNCHANGED <<stream, given, due, acked, tries, made, rawKey, persistTables, crew, done, served>>
  BY DEF Decrypts, DecryptCached, DecryptFetched
<1>2. held[w] # <<>> /\ step[w].at = "idle" /\ InHand(w).lock # InPlain /\ InHand(w).lock.epoch \in KeyEpochs
  BY <1>1, InHandIs DEF Locked, PersistTypes, LocksFit, InHand
<1>3. /\ keyCache \in [Persisters -> Seq(CachedKey)] /\ keyCache[w] \in Seq(CachedKey) /\ Len(keyCache[w]) <= KeptKeys
      /\ KeptKeys \in Nat \ {0} /\ rawKey \in [KeyEpochs -> Nat]
  BY TypesAre, PersistParameters DEF TypeCache, TypeKeys, PersistTypes
<1>4. ASSUME NotDecrypted(w)
      PROVE  LetsGo(w) \/ \E cipher \in BOOLEAN : Moves(w, [at |-> "write", cipher |-> cipher])
  BY <1>2, <1>4 DEF NotDecrypted, LetsGo, Moves
<1>5. ASSUME NEW c \in Seq(CachedKey), Len(c) <= KeptKeys, NEW k, OpensWith(w, c, k)
      PROVE  /\ LetsGo(w) \/ \E cipher \in BOOLEAN : Moves(w, [at |-> "write", cipher |-> cipher])
             /\ \E x \in Seq(CachedKey) : Len(x) <= KeptKeys /\ keyCache' = [keyCache EXCEPT ![w] = x]
             /\ Calmly \/ KeyMissing
  <2>1. CASE k = InHand(w).lock.key
    BY <1>5, <2>1 DEF OpensWith, Opened, Moves, Calmly
  <2>2. CASE k # InHand(w).lock.key
    <3> DEFINE x == WithoutEpoch(c, InHand(w).lock.epoch)
    <3>1. x \in Seq(CachedKey) /\ Len(x) <= Len(c)
      BY WithoutIs
    <3>2. Len(x) \in Nat /\ Len(c) \in Nat
      BY <3>1
    <3>3. keyCache' = [keyCache EXCEPT ![w] = x] /\ NotDecrypted(w) /\ KeyMissing
      BY <1>5, <2>2 DEF OpensWith
    <3> HIDE DEF x
    <3>4. Len(x) <= KeptKeys
      BY <1>3, <1>5, <3>1, <3>2
    <3> QED BY <1>4, <3>1, <3>3, <3>4
  <2> QED BY <2>1, <2>2
<1>6. CASE DecryptCached(w)
  BY <1>1, <1>2, <1>3, <1>5, <1>6 DEF DecryptCached
<1>7. CASE DecryptFetched(w)
  <2> DEFINE e == InHand(w).lock.epoch
             c == WithKey(keyCache[w], [epoch |-> e, key |-> rawKey[e]])
  <2>1. CASE rawKey[e] > 0 /\ OpensWith(w, c, rawKey[e])
    <3>1. e \in KeyEpochs
      BY <1>2
    <3>2. [epoch |-> e, key |-> rawKey[e]] \in CachedKey
      BY <1>3, <3>1 DEF CachedKey
    <3>3. c \in Seq(CachedKey) /\ Len(c) <= KeptKeys
      BY <1>3, <3>2, WithKeyIs
    <3> HIDE DEF c
    <3> QED BY <1>1, <1>2, <1>5, <2>1, <3>3
  <2>2. CASE (IF rawKey[e] = 0 THEN KeyMissing ELSE Upset("failure")) /\ NotDecrypted(w) /\ UNCHANGED keyCache
    <3>1. keyCache' = [keyCache EXCEPT ![w] = keyCache[w]]
      BY <1>3, <2>2
    <3>2. KeyMissing \/ Upset("failure")
      BY <2>2
    <3> QED BY <1>1, <1>2, <1>3, <1>4, <2>2, <3>1, <3>2
  <2> QED BY <1>7, <2>1, <2>2 DEF DecryptFetched
<1> QED BY <1>6, <1>7 DEF Decrypts

\* A statement that took effect: it is written down, and acknowledged or naked next.
StoresAs(w) ==
  /\ held[w] # <<>> /\ done' = Append(done, Now(w)) /\ UNCHANGED <<stream, given, acked, tries, persistKeys, crew, served>>
  /\ \/ Calmly /\ Moves(w, [step[w] EXCEPT !.at = "ack"]) /\ UNCHANGED due
     \/ Upset("failure") /\ LetsGo(w) /\ due' = due \cup ({Now(w)} \ acked)

LEMMA StoresAre ==
  ASSUME PersistTypes, NEW w \in Persisters, Stores(w)
  PROVE  /\ StoresAs(w)
         /\ step[w].at \in {"idle", "write"} \/ (step[w].at = "toggle" /\ Now(w) \in Written)
<1>1. TypeStep /\ StepFits
  BY TypesAre DEF PersistTypes
<1>2. PICK ok \in BOOLEAN : StoreMessage(w, ok) \/ StoreEdit(w, ok) \/ StoreDeletion(w, ok) \/ StoreReaction(w, ok) \/ RemoveReaction(w, ok)
  BY DEF Stores
<1>3. Goes(w, ok) /\ TookEffect(w)
  BY <1>2 DEF StoreMessage, StoreEdit, StoreDeletion, StoreReaction, RemoveReaction
<1>4. (step[w].at \in {"idle", "write"} /\ held[w] # <<>>) \/ step[w].at = "toggle"
  BY <1>2 DEF StoreMessage, StoreEdit, StoreDeletion, StoreReaction, RemoveReaction, Writes
<1>5. step[w].at = "toggle" => held[w] # <<>> /\ Now(w) \in Written
  BY <1>1 DEF StepFits, AtStart
<1>6. held[w] # <<>>
  BY <1>4, <1>5
<1>7. step' = [step EXCEPT ![w].at = "ack"] => step' = [step EXCEPT ![w] = [step[w] EXCEPT !.at = "ack"]]
  BY <1>1 DEF TypeStep
<1> QED BY <1>3, <1>4, <1>5, <1>6, <1>7 DEF Goes, TookEffect, StoresAs, Moves, LetsGo, Naked

LEMMA WrittenGrows ==
  ASSUME PersistTypeOK, NEW i \in 1..given, done' = Append(done, i)
  PROVE  Written' = Written \cup {i}
<1>1. done \in Seq(1..given)
  BY DEF PersistTypeOK
<1>2. DOMAIN done' = DOMAIN done \cup {Len(done) + 1} /\ done'[Len(done) + 1] = i /\ \A j \in DOMAIN done : done'[j] = done[j]
  BY <1>1, AppendTo
<1> QED BY <1>2 DEF Written, ToSet

LEMMA StoresWritten ==
  ASSUME PersistTypeOK, NEW w \in Persisters, StoresAs(w)
  PROVE  Written' = Written \cup {Now(w)} /\ Now(w) \in 1..given
BY InHandIs, WrittenGrows DEF StoresAs

\* What a client sends is the next event.
SentAs(e) ==
  /\ e \in StreamEvent /\ SpendPersist(e.act)
  /\ stream' = Append(stream, e) /\ tries' = Append(tries, 0) /\ served \subseteq served' /\ served' \subseteq served \cup {Len(stream) + 1}
  /\ Len(stream') = Len(stream) + 1 /\ DOMAIN stream' = DOMAIN stream \cup {Len(stream) + 1} /\ Len(stream) + 1 \notin DOMAIN stream
  /\ stream'[Len(stream) + 1] = e /\ \A i \in DOMAIN stream : stream'[i] = stream[i]
  /\ DOMAIN tries' = DOMAIN stream' /\ tries'[Len(stream) + 1] = 0 /\ \A i \in DOMAIN stream : tries'[i] = tries[i]
  /\ UNCHANGED <<upsets, given, due, acked, held, step, persistKeys, persistTables, crew, done>>

LEMMA SentIs ==
  ASSUME PersistTypeOK, NEW e, FittingEvent(e), SendsOut(e)
  PROVE  SentAs(e)
<1>1. stream \in Seq(StreamEvent) /\ tries \in Seq(Nat) /\ Len(tries) = Len(stream) /\ DOMAIN tries = DOMAIN stream
  BY DEF PersistTypeOK
<1>2. e \in StreamEvent /\ stream' = Append(stream, e) /\ tries' = Append(tries, 0)
  BY DEF FittingEvent, SendsOut
<1>3. /\ Len(stream') = Len(stream) + 1 /\ DOMAIN stream' = DOMAIN stream \cup {Len(stream) + 1} /\ Len(stream) + 1 \notin DOMAIN stream
      /\ stream'[Len(stream) + 1] = e /\ \A i \in DOMAIN stream : stream'[i] = stream[i]
  BY <1>1, <1>2, AppendTo
<1>4. /\ DOMAIN tries' = DOMAIN tries \cup {Len(tries) + 1}
      /\ tries'[Len(tries) + 1] = 0 /\ \A i \in DOMAIN tries : tries'[i] = tries[i]
  BY <1>1, <1>2, AppendTo
<1> QED BY <1>1, <1>2, <1>3, <1>4 DEF SendsOut, SentAs

LEMMA SendsTyped ==
  ASSUME PersistTypes, Sends
  PROVE  PersistTypes'
<1>1. PICK e : FittingEvent(e) /\ SendsOut(e)
  BY DEF Sends
<1>2. SentAs(e)
  BY <1>1, SentIs DEF PersistTypes
<1>3. TypeStream /\ TypeGiven /\ TypeHeld /\ TypeStep /\ TypeCache /\ TypeKeys /\ TypeTables /\ TypeDone /\ TypeUpsets /\ Len(stream) \in Nat
  BY TypesAre DEF PersistTypes, TypeStream
<1>4. TypeStream'
  BY <1>2, <1>3, AppendTo DEF TypeStream, SentAs
<1>5. TypeGiven'
  BY <1>2, <1>3 DEF TypeGiven, SentAs
<1>6. TypeUpsets'
  <2>1. e.act \in PersistKinds
    BY <1>2 DEF SentAs, StreamEvent, PersistKinds
  <2> QED BY <1>2, <1>3, <2>1, SpentOf DEF TypeUpsets, SentAs
<1>7. TypeHeld' /\ TypeStep' /\ TypeCache' /\ TypeKeys' /\ TypeTables' /\ TypeDone'
  BY <1>2, <1>3 DEF SentAs, persistKeys, persistTables, TypeHeld, TypeStep, TypeCache, TypeKeys, TypeTables, TypeDone, Deliveries, Row
<1>8. StepFits'
  BY <1>2 DEF PersistTypes, StepFits, SentAs, Written, Now, AtStart
<1>9. LocksFit'
  BY <1>1, <1>2 DEF PersistTypes, LocksFit, SentAs, persistKeys, FittingEvent
<1>10. WrittenInv'
  BY <1>2 DEF PersistTypes, WrittenInv, SentAs, Written, persistTables
<1> QED BY <1>4, <1>5, <1>6, <1>7, <1>8, <1>9, <1>10, TypesAreNext DEF PersistTypes

LEMMA KeysTyped ==
  ASSUME PersistTypes, EnableAgain \/ RawKeyStored
  PROVE  PersistTypes'
<1>3. TypeStream /\ TypeGiven /\ TypeHeld /\ TypeStep /\ TypeCache /\ TypeKeys /\ TypeTables /\ TypeDone /\ TypeUpsets
  BY TypesAre DEF PersistTypes
<1>4. TypeKeys' /\ \A e \in KeyEpochs : made[e] <= made'[e]
  <2>1. CASE EnableAgain
    BY <1>3, <2>1 DEF TypeKeys, EnableAgain, KeyEpochs
  <2>2. CASE RawKeyStored
    BY <1>3, <2>2 DEF TypeKeys, RawKeyStored, KeyEpochs
  <2> QED BY <2>1, <2>2
<1>5. TypeUpsets'
  <2>1. CASE EnableAgain
    <3>1. "rekey" \in PersistKinds
      BY DEF PersistKinds
    <3> QED BY <1>3, <2>1, <3>1, SpentOf DEF TypeUpsets, EnableAgain
  <2>2. CASE RawKeyStored
    BY <1>3, <2>2 DEF TypeUpsets, RawKeyStored
  <2> QED BY <2>1, <2>2
<1>6. UNCHANGED <<stream, given, due, acked, tries, held, step, keyCache, rows, versions, reactions, crew, done, served>>
  BY DEF EnableAgain, RawKeyStored, persistQueue, persistTables
<1>7. TypeStream' /\ TypeGiven' /\ TypeHeld' /\ TypeStep' /\ TypeCache' /\ TypeTables' /\ TypeDone'
  BY <1>3, <1>6 DEF TypeStream, TypeGiven, TypeHeld, TypeStep, TypeCache, TypeTables, TypeDone, Deliveries, Row
<1>8. StepFits'
  BY <1>6 DEF PersistTypes, StepFits, Written, Now, AtStart
<1>9. LocksFit'
  <2> SUFFICES ASSUME NEW i \in DOMAIN stream, stream[i].lock # InPlain
               PROVE  stream[i].lock.epoch \in KeyEpochs /\ stream[i].lock.key \in 1..made'[stream[i].lock.epoch]
    BY <1>6 DEF LocksFit
  <2>1. stream[i].lock.epoch \in KeyEpochs /\ stream[i].lock.key \in 1..made[stream[i].lock.epoch]
    BY DEF PersistTypes, LocksFit
  <2> DEFINE e == stream[i].lock.epoch
  <2>2. made[e] \in Nat /\ made'[e] \in Nat /\ made[e] <= made'[e]
    BY <1>3, <1>4, <2>1 DEF TypeKeys
  <2> QED BY <2>1, <2>2
<1>10. WrittenInv'
  BY <1>6 DEF PersistTypes, WrittenInv, Written
<1> QED BY <1>4, <1>5, <1>7, <1>8, <1>9, <1>10, TypesAreNext DEF PersistTypes

\* Steps that change no event and no key.
LEMMA LocksStay ==
  ASSUME PersistTypes, UNCHANGED <<stream, made>>
  PROVE  LocksFit'
BY DEF PersistTypes, LocksFit

LEMMA OverdueTyped ==
  ASSUME PersistTypes, NEW i \in 1..given, Overdue(i)
  PROVE  PersistTypes'
<1>3. TypeStream /\ TypeGiven /\ TypeHeld /\ TypeStep /\ TypeCache /\ TypeKeys /\ TypeTables /\ TypeDone /\ TypeUpsets
  BY TypesAre DEF PersistTypes
<1>4. TypeUpsets'
  BY <1>3, UpsetTyped DEF Overdue
<1>5. TypeGiven'
  BY <1>3 DEF TypeGiven, Overdue
<1>6. UNCHANGED <<stream, given, acked, tries, held, step, keyCache, made, rawKey, rows, versions, reactions, crew, done, served>>
  BY DEF Overdue, persistKeys, persistTables
<1>7. TypeStream' /\ TypeHeld' /\ TypeStep' /\ TypeCache' /\ TypeKeys' /\ TypeTables' /\ TypeDone'
  BY <1>3, <1>6 DEF TypeStream, TypeHeld, TypeStep, TypeCache, TypeKeys, TypeTables, TypeDone, Deliveries, Row
<1>8. StepFits'
  BY <1>6 DEF PersistTypes, StepFits, Written, Now, AtStart
<1>9. WrittenInv'
  BY <1>6 DEF PersistTypes, WrittenInv, Written
<1> QED BY <1>4, <1>5, <1>6, <1>7, <1>8, <1>9, LocksStay, TypesAreNext DEF PersistTypes

\* What is given to an instance.
GivenAs(w, i) ==
  /\ i \in DOMAIN stream /\ (i \in due \/ (due = {} /\ i = given + 1))
  /\ held' = [held EXCEPT ![w] = Append(@, [of |-> i, n |-> tries[i] + 1])]
  /\ tries' = [tries EXCEPT ![i] = @ + 1]
  /\ due' = due \ {i} /\ given' = (IF i > given THEN i ELSE given)
  /\ given' \in Nat /\ given <= given' /\ given' <= Len(stream) /\ i \in 1..given'
  /\ UNCHANGED <<stream, acked, step, persistKeys, persistTables, crew, done, served, upsets, persistLeft>>

LEMMA GiveIs ==
  ASSUME PersistTypeOK, NEW w \in Persisters, Give(w)
  PROVE  \E i : GivenAs(w, i)
<1>1. PICK i \in IF due # {} THEN due ELSE {given + 1} \cap DOMAIN stream :
       /\ held' = [held EXCEPT ![w] = Append(@, [of |-> i, n |-> tries[i] + 1])]
       /\ tries' = [tries EXCEPT ![i] = @ + 1]
       /\ due' = due \ {i} /\ given' = IF i > given THEN i ELSE given
  BY DEF Give
<1>2. stream \in Seq(StreamEvent) /\ given \in 0..Len(stream) /\ due \subseteq 1..given /\ Len(stream) \in Nat /\ DOMAIN stream = 1..Len(stream)
  BY DEF PersistTypeOK
<1>3. i \in DOMAIN stream /\ (i \in due \/ (due = {} /\ i = given + 1))
  BY <1>2
<1>4. given' \in Nat /\ given <= given' /\ given' <= Len(stream) /\ i \in 1..given'
  BY <1>1, <1>2, <1>3
<1> QED BY <1>1, <1>3, <1>4 DEF GivenAs, Give

LEMMA GiveTyped ==
  ASSUME PersistTypes, NEW w \in Persisters, w \in crew, Give(w)
  PROVE  PersistTypes'
<1>1. PICK i : GivenAs(w, i)
  BY GiveIs DEF PersistTypes
<1>2. TypeStream /\ TypeGiven /\ TypeHeld /\ TypeStep /\ TypeCache /\ TypeKeys /\ TypeTables /\ TypeDone /\ TypeUpsets
  BY TypesAre DEF PersistTypes
<1>3. /\ given' \in Nat /\ given <= given' /\ given' <= Len(stream) /\ i \in 1..given' /\ i \in DOMAIN stream
      /\ UNCHANGED <<stream, acked, step, keyCache, made, rawKey, rows, versions, reactions, crew, done, served, upsets, persistLeft>>
  BY <1>1 DEF GivenAs, persistKeys, persistTables
<1> DEFINE n == given' N == 1..n D == [of : 1..n, n : Nat]
<1>4. /\ 1..given \subseteq 1..n
      /\ held \in [Persisters -> Seq([of : 1..n, n : Nat])]
      /\ rows \in [MessageIds -> Seq([text : 1..n, cipher : BOOLEAN, gone : BOOLEAN])]
      /\ versions \in [MessageIds -> Seq(1..n)] /\ reactions \subseteq 1..n /\ done \in Seq(1..n)
  BY <1>3, MoreGiven DEF PersistTypes
<1>5. TypeTables' /\ TypeDone'
  BY <1>2, <1>3, <1>4 DEF TypeTables, TypeDone, Row
<1>6. TypeStream'
  <2>1. tries[i] \in Nat /\ DOMAIN tries = DOMAIN stream /\ tries \in Seq(Nat)
    BY <1>2, <1>3 DEF TypeStream
  <2>2. tries' \in Seq(Nat) /\ Len(tries') = Len(tries)
    BY <1>1, <1>3, <2>1, PutAt DEF GivenAs
  <2> QED BY <1>2, <1>3, <2>2 DEF TypeStream
<1>7. TypeGiven'
  <2>1. due \subseteq 1..given /\ acked \subseteq 1..given /\ due \cap acked = {} /\ due' = due \ {i} /\ acked' = acked /\ Len(stream) \in Nat
    BY <1>1, <1>2 DEF TypeGiven, TypeStream, GivenAs
  <2>2. due' \subseteq 1..given' /\ acked' \subseteq 1..given' /\ due' \cap acked' = {}
    BY <1>4, <2>1
  <2>3. given' \in 0..Len(stream')
    BY <1>3, <2>1
  <2> QED BY <2>2, <2>3 DEF TypeGiven
<1>8. [of |-> i, n |-> tries[i] + 1] \in D
  <2>1. tries[i] \in Nat
    BY <1>2, <1>3 DEF TypeStream
  <2> QED BY <1>3, <2>1
<1>9. TypeHeld'
  <2>1. D = Deliveries'
    BY DEF Deliveries
  <2> HIDE DEF D
  <2>2. held \in [Persisters -> Seq(D)]
    BY <1>4 DEF D
  <2>3. held' = [held EXCEPT ![w] = Append(@, [of |-> i, n |-> tries[i] + 1])]
    BY <1>1 DEF GivenAs
  <2>4. held' \in [Persisters -> Seq(D)]
    BY <1>8, <2>2, <2>3
  <2>5. \A v \in Persisters : v \notin crew' => held'[v] = <<>>
    BY <1>2, <1>3, <2>3 DEF TypeHeld
  <2> QED BY <2>1, <2>4, <2>5 DEF TypeHeld
<1>10. TypeStep' /\ TypeCache' /\ TypeKeys' /\ TypeUpsets'
  BY <1>2, <1>3 DEF TypeStep, TypeCache, TypeKeys, TypeUpsets
<1>11. StepFits'
  <2> SUFFICES ASSUME NEW v \in Persisters
               PROVE  (step[v] # AtStart => held'[v] # <<>>) /\ (step[v].at \in {"toggle", "ack"} => Head(held'[v]).of \in Written)
    BY <1>3 DEF StepFits, Now, AtStart, Written
  <2>1. (step[v] # AtStart => held[v] # <<>>) /\ (step[v].at \in {"toggle", "ack"} => Head(held[v]).of \in Written)
    BY DEF PersistTypes, StepFits, Now
  <2>2. CASE v = w
    <3>1. held[w] \in Seq(D) /\ held'[w] = Append(held[w], [of |-> i, n |-> tries[i] + 1])
      BY <1>1, <1>2, <1>4 DEF GivenAs
    <3>2. held'[w] # <<>> /\ (held[w] # <<>> => Head(held'[w]) = Head(held[w]))
      <4> HIDE DEF D
      <4> DEFINE x == [of |-> i, n |-> tries[i] + 1]
      <4>1. x \in D
        BY <1>8
      <4> HIDE DEF x
      <4>2. Append(held[w], x) # <<>> /\ (held[w] # <<>> => Head(Append(held[w], x)) = Head(held[w]))
        BY <3>1, <4>1, AppendTo
      <4> QED BY <3>1, <4>2 DEF x
    <3>3. step[v].at \in {"toggle", "ack"} => step[v] # AtStart
      BY DEF AtStart
    <3> QED BY <2>1, <2>2, <3>2, <3>3
  <2>3. CASE v # w
    BY <1>1, <1>2, <2>1, <2>3 DEF GivenAs, TypeHeld
  <2> QED BY <2>2, <2>3
<1>12. WrittenInv'
  BY <1>3 DEF PersistTypes, WrittenInv, Written
<1> QED BY <1>3, <1>5, <1>6, <1>7, <1>9, <1>10, <1>11, <1>12, LocksStay, TypesAreNext DEF PersistTypes

\* An acknowledgement: the event leaves the hand, and is not given again.
Acks(w) ==
  /\ held[w] # <<>> /\ LetsGo(w) /\ step[w].at = "ack" /\ Now(w) \in Written
  /\ \/ Calmly /\ acked' = acked \cup {Now(w)} /\ due' = due \ {Now(w)}
     \/ Upset("failure") /\ UNCHANGED <<acked, due>>
  /\ UNCHANGED <<stream, given, tries, persistKeys, persistTables, crew, done, served>>

LEMMA AcksAre ==
  ASSUME PersistTypes, NEW w \in Persisters, Acknowledge(w)
  PROVE  Acks(w)
<1>1. step[w].at = "ack" /\ LeavesHand(w)
  BY DEF Acknowledge
<1>2. held[w] # <<>> /\ Now(w) \in Written
  BY <1>1 DEF PersistTypes, StepFits, AtStart
<1> QED BY <1>1, <1>2 DEF Acks, LetsGo, Acknowledge

\* A failure: the event leaves the hand, and is given again.
StepFails(w) ==
  /\ held[w] # <<>> /\ LetsGo(w) /\ Upset("failure") /\ due' = due \cup ({Now(w)} \ acked)
  /\ UNCHANGED <<stream, given, acked, tries, persistKeys, persistTables, crew, done, served>>

LEMMA FailsAre ==
  ASSUME PersistTypes, NEW w \in Persisters, WriteFails(w)
  PROVE  StepFails(w)
<1>1. CanFail(w) /\ Upset("failure") /\ Naked(w)
  BY DEF WriteFails
<1>2. held[w] # <<>>
  <2>1. step[w].at = "toggle" => held[w] # <<>>
    BY DEF PersistTypes, StepFits, AtStart
  <2> QED BY <1>1, <2>1 DEF CanFail, Writes
<1> QED BY <1>1, <1>2 DEF StepFails, LetsGo, Naked, WriteFails

\* The reaction is there: it is to be removed.
Toggles(w) ==
  /\ held[w] # <<>> /\ Moves(w, [step[w] EXCEPT !.at = "toggle"]) /\ step[w].at \in {"idle", "write"}
  /\ Calmly /\ Now(w) \in reactions
  /\ UNCHANGED <<persistQueue, persistKeys, persistTables, crew, done, served>>

LEMMA TogglesAre ==
  ASSUME PersistTypes, NEW w \in Persisters, ReactionThere(w)
  PROVE  Toggles(w)
<1>1. TypeStep /\ step' = [step EXCEPT ![w].at = "toggle"]
  BY TypesAre DEF PersistTypes, ReactionThere
<1>2. step' = [step EXCEPT ![w] = [step[w] EXCEPT !.at = "toggle"]]
  BY <1>1 DEF TypeStep
<1> QED BY <1>2 DEF ReactionThere, Writes, Toggles, Moves

\* What is written and what is due stays within what was given.
LEMMA QueueTyped ==
  ASSUME PersistTypeOK, NEW w \in Persisters, held[w] # <<>>, UNCHANGED <<stream, given, tries, served>>,
         \/ UNCHANGED <<acked, due>>
         \/ acked' = acked \cup {Now(w)} /\ due' = due \ {Now(w)}
         \/ UNCHANGED acked /\ due' = due \cup ({Now(w)} \ acked)
  PROVE  TypeStream' /\ TypeGiven'
<1>1. TypeStream /\ TypeGiven /\ Now(w) \in 1..given
  BY TypesAre, InHandIs
<1>2. TypeStream'
  BY <1>1 DEF TypeStream
<1>3. TypeGiven'
  BY <1>1 DEF TypeGiven
<1> QED BY <1>2, <1>3

LEMMA CallsTyped ==
  ASSUME PersistTypes, NEW w \in Persisters, Acknowledge(w) \/ WriteFails(w) \/ ReactionThere(w) \/ Decrypts(w)
  PROVE  PersistTypes'
<1>1. TypeStream /\ TypeGiven /\ TypeHeld /\ TypeStep /\ TypeCache /\ TypeKeys /\ TypeTables /\ TypeDone /\ TypeUpsets /\ PersistTypeOK
  BY TypesAre DEF PersistTypes
<1>2. \A cipher \in BOOLEAN : [at |-> "write", cipher |-> cipher] \in Stages
  BY DEF Stages
<1>3. [step[w] EXCEPT !.at = "toggle"] \in Stages
  BY <1>1 DEF TypeStep, Stages
<1>4. CASE Acknowledge(w)
  <2>1. Acks(w) /\ UNCHANGED <<stream, given, tries, keyCache, made, rawKey, rows, versions, reactions, crew, done, served>>
    BY <1>4, AcksAre DEF Acks, persistKeys, persistTables
  <2>2. TypeUpsets'
    BY <1>1, <2>1, UpsetTyped DEF Acks
  <2>3. TypeStream' /\ TypeGiven'
    BY <1>1, <2>1, QueueTyped DEF Acks
  <2>4. TypeHeld' /\ TypeStep' /\ StepFits'
    BY <1>1, <2>1, HandsTyped, HandsFit DEF Acks, Written
  <2>5. TypeCache' /\ TypeKeys' /\ TypeTables' /\ TypeDone'
    BY <1>1, <2>1 DEF TypeCache, TypeKeys, TypeTables, TypeDone, Row
  <2>6. WrittenInv'
    BY <2>1 DEF PersistTypes, WrittenInv, Written, Acks
  <2> QED BY <2>1, <2>2, <2>3, <2>4, <2>5, <2>6, LocksStay, TypesAreNext DEF PersistTypes
<1>5. CASE WriteFails(w)
  <2>1. StepFails(w) /\ UNCHANGED <<stream, given, acked, tries, keyCache, made, rawKey, rows, versions, reactions, crew, done, served>>
    BY <1>5, FailsAre DEF StepFails, persistKeys, persistTables
  <2>2. TypeUpsets'
    BY <1>1, <2>1, UpsetTyped DEF StepFails
  <2>3. TypeStream' /\ TypeGiven'
    BY <1>1, <2>1, QueueTyped DEF StepFails
  <2>4. TypeHeld' /\ TypeStep' /\ StepFits'
    BY <1>1, <2>1, HandsTyped, HandsFit DEF StepFails, Written
  <2>5. TypeCache' /\ TypeKeys' /\ TypeTables' /\ TypeDone'
    BY <1>1, <2>1 DEF TypeCache, TypeKeys, TypeTables, TypeDone, Row
  <2>6. WrittenInv'
    BY <2>1 DEF PersistTypes, WrittenInv, Written, StepFails
  <2> QED BY <2>1, <2>2, <2>3, <2>4, <2>5, <2>6, LocksStay, TypesAreNext DEF PersistTypes
<1>6. CASE ReactionThere(w)
  <2>1. Toggles(w) /\ UNCHANGED <<stream, given, due, acked, tries, keyCache, made, rawKey, rows, versions, reactions, crew, done, served>>
    BY <1>6, TogglesAre DEF Toggles, persistQueue, persistKeys, persistTables
  <2>2. TypeUpsets'
    BY <1>1, <2>1, UpsetTyped DEF Toggles
  <2>3. TypeStream' /\ TypeGiven'
    BY <1>1, <2>1 DEF TypeStream, TypeGiven
  <2>4. TypeHeld' /\ TypeStep'
    BY <1>1, <1>3, <2>1, HandsTyped DEF Toggles
  <2>5. Now(w) \in Written
    BY <2>1 DEF Toggles, PersistTypes, WrittenInv
  <2>6. StepFits'
    BY <1>1, <1>3, <2>1, <2>5, HandsFit DEF Toggles, Written
  <2>7. TypeCache' /\ TypeKeys' /\ TypeTables' /\ TypeDone'
    BY <1>1, <2>1 DEF TypeCache, TypeKeys, TypeTables, TypeDone, Row
  <2>8. WrittenInv'
    BY <2>1 DEF PersistTypes, WrittenInv, Written
  <2> QED BY <2>1, <2>2, <2>3, <2>4, <2>6, <2>7, <2>8, LocksStay, TypesAreNext DEF PersistTypes
<1>7. CASE Decrypts(w)
  <2>1. /\ held[w] # <<>>
        /\ LetsGo(w) \/ \E cipher \in BOOLEAN : Moves(w, [at |-> "write", cipher |-> cipher])
        /\ \E c \in Seq(CachedKey) : Len(c) <= KeptKeys /\ keyCache' = [keyCache EXCEPT ![w] = c]
        /\ Calmly \/ KeyMissing \/ Upset("failure")
        /\ UNCHANGED <<stream, given, due, acked, tries, made, rawKey, rows, versions, reactions, crew, done, served>>
    BY <1>7, DecryptIs DEF persistTables
  <2>2. TypeUpsets'
    BY <1>1, <2>1, UpsetTyped
  <2>3. TypeStream' /\ TypeGiven'
    BY <1>1, <2>1 DEF TypeStream, TypeGiven
  <2>4. TypeHeld' /\ TypeStep'
    BY <1>2, <2>1, HandsTyped
  <2>5. StepFits'
    <3>1. LetsGo(w) \/ \E at \in Stages : Moves(w, at) /\ held[w] # <<>> /\ (at.at \in {"toggle", "ack"} => Now(w) \in Written')
      BY <1>2, <2>1
    <3>2. Written \subseteq Written'
      BY <2>1 DEF Written
    <3> QED BY <3>1, <3>2, HandsFit
  <2>6. TypeCache'
    BY <1>1, <2>1 DEF TypeCache
  <2>7. TypeKeys' /\ TypeTables' /\ TypeDone'
    BY <1>1, <2>1 DEF TypeKeys, TypeTables, TypeDone, Row
  <2>8. WrittenInv'
    BY <2>1 DEF PersistTypes, WrittenInv, Written
  <2> QED BY <2>1, <2>2, <2>3, <2>4, <2>5, <2>6, <2>7, <2>8, LocksStay, TypesAreNext DEF PersistTypes
<1> QED BY <1>4, <1>5, <1>6, <1>7

LEMMA CrashTyped ==
  ASSUME PersistTypes, NEW w \in Persisters, CrashOf(w)
  PROVE  PersistTypes'
<1>1. TypeStream /\ TypeGiven /\ TypeHeld /\ TypeStep /\ TypeCache /\ TypeKeys /\ TypeTables /\ TypeDone /\ TypeUpsets /\ PersistTypeOK
  BY TypesAre DEF PersistTypes
<1>2. /\ Upset("crash") /\ held' = [held EXCEPT ![w] = <<>>] /\ step' = [step EXCEPT ![w] = AtStart] /\ keyCache' = [keyCache EXCEPT ![w] = <<>>]
      /\ UNCHANGED <<stream, given, due, acked, tries, made, rawKey, rows, versions, reactions, crew, done, served>>
  BY DEF CrashOf, persistQueue, persistTables
<1>3. <<>> \in Seq(Deliveries) /\ <<>> \in Seq(CachedKey) /\ Len(<<>>) = 0 /\ KeptKeys \in Nat /\ AtStart \in Stages
  BY PersistParameters DEF AtStart, Stages
<1>4. TypeHeld'
  <2>1. Deliveries' = Deliveries
    BY <1>2 DEF Deliveries
  <2> QED BY <1>1, <1>2, <1>3, <2>1 DEF TypeHeld
<1>5. TypeStep'
  BY <1>1, <1>2, <1>3 DEF TypeStep, Stages
<1>6. TypeCache'
  BY <1>1, <1>2, <1>3 DEF TypeCache
<1>7. TypeUpsets'
  BY <1>1, <1>2, UpsetTyped
<1>8. TypeStream' /\ TypeGiven' /\ TypeKeys' /\ TypeTables' /\ TypeDone'
  BY <1>1, <1>2 DEF TypeStream, TypeGiven, TypeKeys, TypeTables, TypeDone, Row
<1>9. StepFits'
  <2> SUFFICES ASSUME NEW v \in Persisters
               PROVE  (step'[v] # AtStart => held'[v] # <<>>) /\ (step'[v].at \in {"toggle", "ack"} => Head(held'[v]).of \in Written)
    BY <1>2 DEF StepFits, Now, AtStart, Written
  <2>1. (step[v] # AtStart => held[v] # <<>>) /\ (step[v].at \in {"toggle", "ack"} => Head(held[v]).of \in Written)
    BY DEF PersistTypes, StepFits, Now
  <2>2. step'[v] = (IF v = w THEN AtStart ELSE step[v]) /\ (v # w => held'[v] = held[v])
    BY <1>1, <1>2 DEF TypeHeld, TypeStep
  <2> QED BY <2>1, <2>2 DEF AtStart
<1>10. WrittenInv'
  BY <1>2 DEF PersistTypes, WrittenInv, Written
<1> QED BY <1>2, <1>4, <1>5, <1>6, <1>7, <1>8, <1>9, <1>10, LocksStay, TypesAreNext DEF PersistTypes

\* The texts that become versions are those of the rows that are not deleted.
LEMMA LiveTextsAre ==
  ASSUME PersistTypeOK, NEW m \in MessageIds, NEW live \in SetToSeqs(LiveRows(m))
  PROVE  LET t == [k \in DOMAIN live |-> rows[m][live[k]].text] IN
         /\ t \in Seq(1..given) /\ Len(t) = Cardinality(LiveRows(m)) /\ Cardinality(LiveRows(m)) \in Nat
         /\ \A k \in 1..Len(t) : live[k] \in LiveRows(m) /\ t[k] = rows[m][live[k]].text
<1> DEFINE t == [k \in DOMAIN live |-> rows[m][live[k]].text]
           n == Cardinality(LiveRows(m))
<1>1. rows[m] \in Seq(Row)
  BY TypesAre DEF TypeTables
<1>2. LiveRows(m) \subseteq 1..Len(rows[m]) /\ Len(rows[m]) \in Nat
  BY <1>1 DEF LiveRows
<1>3. n \in Nat
  <2>1. IsFiniteSet(1..Len(rows[m]))
    BY <1>2, FS_Interval
  <2>2. IsFiniteSet(LiveRows(m))
    BY <1>2, <2>1, FS_Subset
  <2> QED BY <2>2, FS_CardinalityType
<1>4. live \in [1..n -> LiveRows(m)]
  <2>1. live \in {f \in [1..n -> LiveRows(m)] : \A i, j \in 1..n : i # j => f[i] # f[j]}
    BY Zenon DEF SetToSeqs
  <2> QED BY <2>1
<1> HIDE DEF n
<1>5. DOMAIN live = 1..n /\ \A k \in 1..n : live[k] \in LiveRows(m) /\ live[k] \in DOMAIN rows[m]
  BY <1>1, <1>2, <1>4
<1>6. \A j \in DOMAIN rows[m] : rows[m][j].text \in 1..given
  <2>1. \A j \in DOMAIN rows[m] : rows[m][j] \in Row
    BY <1>1
  <2> QED BY <2>1 DEF Row
<1>7. t \in [1..n -> 1..given] /\ \A k \in 1..n : t[k] = rows[m][live[k]].text
  <2> DEFINE x(k) == rows[m][live[k]].text
  <2>1. \A k \in 1..n : x(k) \in 1..given
    BY <1>5, <1>6
  <2>2. t = [k \in 1..n |-> x(k)]
    BY <1>5
  <2> HIDE DEF t, x
  <2>3. t \in [1..n -> 1..given] /\ \A k \in 1..n : t[k] = x(k)
    BY <2>1, <2>2
  <2> QED BY <2>3 DEF x
<1> HIDE DEF t
<1>8. t \in Seq(1..given) /\ Len(t) = n
  BY <1>3, <1>7, IsSeq
<1> QED BY <1>3, <1>5, <1>7, <1>8 DEF t, n

\* Of the versions the last are kept.
LEMMA TrimmedIs ==
  ASSUME NEW S, NEW s \in Seq(S)
  PROVE  LET t == Trimmed(s)
             over == IF Len(s) > KeptVersions THEN Len(s) - KeptVersions ELSE 0
         IN /\ t \in Seq(S) /\ over \in 0..Len(s) /\ Len(t) = Len(s) - over
            /\ \A i \in 1..Len(t) : t[i] = s[over + i]
<1>1. Len(s) \in Nat /\ KeptVersions \in Nat
  BY PersistParameters
<1>2. CASE Len(s) > KeptVersions
  <2>1. Trimmed(s) = SubSeq(s, Len(s) - KeptVersions + 1, Len(s))
    BY <1>2 DEF Trimmed
  <2> DEFINE a == Len(s) - KeptVersions + 1
             u == SubSeq(s, a, Len(s))
  <2>2. a \in Nat \ {0} /\ a <= Len(s) + 1
    BY <1>1, <1>2
  <2> HIDE DEF a
  <2>3. u \in Seq(S) /\ Len(u) = Len(s) - a + 1
    BY <1>1, <2>2
  <2>4. \A i \in 1..Len(u) : u[i] = s[a - 1 + i]
    BY <1>1, <2>2, <2>3
  <2> HIDE DEF u
  <2>5. a = Len(s) - KeptVersions + 1 /\ Trimmed(s) = u
    BY <2>1 DEF a, u
  <2> QED BY <1>1, <1>2, <2>3, <2>4, <2>5
<1>3. CASE ~(Len(s) > KeptVersions)
  <2>1. Trimmed(s) = s
    BY <1>3 DEF Trimmed
  <2> QED BY <1>1, <1>3, <2>1
<1> QED BY <1>2, <1>3

\* What the statements make of the rows of a message.
EditedRow(w, r) == IF r.gone THEN r ELSE [r EXCEPT !.text = Now(w), !.cipher = step[w].cipher]
VersionsOf(m, live) == [k \in DOMAIN live |-> rows[m][live[k]].text]
EditedRows(w, s) == [i \in DOMAIN s |-> EditedRow(w, s[i])]
DeletedRows(s) == [i \in DOMAIN s |-> [s[i] EXCEPT !.gone = TRUE]]

LEMMA RowsTyped ==
  ASSUME PersistTypes, NEW w \in Persisters, Now(w) \in 1..given, NEW s \in Seq(Row)
  PROVE  /\ EditedRows(w, s) \in Seq(Row) /\ Len(EditedRows(w, s)) = Len(s)
         /\ DeletedRows(s) \in Seq(Row) /\ Len(DeletedRows(s)) = Len(s)
         /\ [text |-> Now(w), cipher |-> step[w].cipher, gone |-> FALSE] \in Row
<1>1. step[w].cipher \in BOOLEAN
  <2>1. step[w] \in Stages
    BY TypesAre DEF PersistTypes, TypeStep
  <2> QED BY <2>1 DEF Stages
<1>2. \A i \in DOMAIN s : s[i] \in Row
  OBVIOUS
<1>3. \A i \in DOMAIN s : EditedRow(w, s[i]) \in Row /\ [s[i] EXCEPT !.gone = TRUE] \in Row
  <2> SUFFICES ASSUME NEW i \in DOMAIN s
               PROVE  EditedRow(w, s[i]) \in Row /\ [s[i] EXCEPT !.gone = TRUE] \in Row
    OBVIOUS
  <2>1. s[i] \in Row
    BY <1>2
  <2> HIDE DEF Row
  <2> DEFINE r == s[i]
  <2>2. r \in Row
    BY <2>1
  <2> HIDE DEF r
  <2>3. EditedRow(w, r) \in Row /\ [r EXCEPT !.gone = TRUE] \in Row
    BY <1>1, <2>2 DEF Row, EditedRow
  <2> QED BY <2>3 DEF r
<1>4. Len(s) \in Nat /\ DOMAIN s = 1..Len(s)
  OBVIOUS
<1>5. EditedRows(w, s) \in [1..Len(s) -> Row] /\ DeletedRows(s) \in [1..Len(s) -> Row]
  BY <1>3, <1>4 DEF EditedRows, DeletedRows
<1>6. [text |-> Now(w), cipher |-> step[w].cipher, gone |-> FALSE] \in Row
  BY <1>1 DEF Row
<1> QED BY <1>4, <1>5, <1>6, IsSeq

\* What a statement does to the tables.
MessageStored(w) ==
  /\ InHand(w).act = "message" /\ step[w].at \in {"idle", "write"}
  /\ rows' = [rows EXCEPT ![InHand(w).id] = Append(@, [text |-> Now(w), cipher |-> step[w].cipher, gone |-> FALSE])]
  /\ UNCHANGED <<versions, reactions>>
EditStored(w) ==
  /\ InHand(w).act = "edit" /\ step[w].at \in {"idle", "write"}
  /\ rows' = [rows EXCEPT ![InHand(w).id] = EditedRows(w, @)]
  /\ \E live \in SetToSeqs(LiveRows(InHand(w).id)) :
       versions' = [versions EXCEPT ![InHand(w).id] = Trimmed(@ \o VersionsOf(InHand(w).id, live))]
  /\ UNCHANGED reactions
DeletionStored(w) ==
  /\ InHand(w).act = "delete" /\ step[w].at \in {"idle", "write"}
  /\ rows' = [rows EXCEPT ![InHand(w).id] = DeletedRows(@)]
  /\ UNCHANGED <<versions, reactions>>
ReactionStored(w) ==
  /\ InHand(w).act = "react" /\ step[w].at \in {"idle", "write"}
  /\ reactions' = reactions \cup {Now(w)} /\ UNCHANGED <<rows, versions>>
ReactionRemoved(w) ==
  /\ step[w].at = "toggle" /\ Now(w) \in Written
  /\ reactions' = reactions \ {Now(w)} /\ UNCHANGED <<rows, versions>>

LEMMA StoredAs ==
  ASSUME PersistTypes, NEW w \in Persisters, Stores(w)
  PROVE  MessageStored(w) \/ EditStored(w) \/ DeletionStored(w) \/ ReactionStored(w) \/ ReactionRemoved(w)
<1>1. PICK ok \in BOOLEAN : StoreMessage(w, ok) \/ StoreEdit(w, ok) \/ StoreDeletion(w, ok) \/ StoreReaction(w, ok) \/ RemoveReaction(w, ok)
  BY DEF Stores
<1>2. \A act : Writes(w, act) => InHand(w).act = act /\ step[w].at \in {"idle", "write"}
  BY DEF Writes
<1>3. CASE StoreMessage(w, ok)
  BY <1>2, <1>3 DEF StoreMessage, MessageStored
<1>4. CASE StoreEdit(w, ok)
  BY <1>2, <1>4 DEF StoreEdit, EditStored, EditedRows, EditedRow, VersionsOf
<1>5. CASE StoreDeletion(w, ok)
  BY <1>2, <1>5 DEF StoreDeletion, DeletionStored, DeletedRows
<1>6. CASE StoreReaction(w, ok)
  BY <1>2, <1>6 DEF StoreReaction, ReactionStored
<1>7. CASE RemoveReaction(w, ok)
  <2>1. step[w].at = "toggle" /\ reactions' = reactions \ {Now(w)} /\ UNCHANGED <<rows, versions>>
    BY <1>7 DEF RemoveReaction
  <2>2. Now(w) \in Written
    BY <2>1 DEF PersistTypes, StepFits
  <2> QED BY <2>1, <2>2 DEF ReactionRemoved
<1> QED BY <1>1, <1>3, <1>4, <1>5, <1>6, <1>7

LEMMA StoresTyped ==
  ASSUME PersistTypes, NEW w \in Persisters, Stores(w)
  PROVE  PersistTypes'
<1>1. TypeStream /\ TypeGiven /\ TypeHeld /\ TypeStep /\ TypeCache /\ TypeKeys /\ TypeTables /\ TypeDone /\ TypeUpsets /\ PersistTypeOK
  BY TypesAre DEF PersistTypes
<1>2. StoresAs(w) /\ UNCHANGED <<stream, given, acked, tries, keyCache, made, rawKey, crew, served>>
  BY StoresAre DEF StoresAs, persistKeys
<1>3. Now(w) \in 1..given /\ InHand(w) \in StreamEvent /\ InHand(w).id \in MessageIds /\ Written' = Written \cup {Now(w)}
  BY <1>1, <1>2, InHandIs, StoresWritten DEF StoresAs, StreamEvent
<1>4. Calmly \/ Upset("failure")
  BY <1>2 DEF StoresAs
<1>5. TypeUpsets'
  BY <1>1, <1>4, UpsetTyped
<1>6. TypeStream' /\ TypeGiven'
  BY <1>1, <1>2, QueueTyped DEF StoresAs
<1>7. [step[w] EXCEPT !.at = "ack"] \in Stages
  BY <1>1 DEF TypeStep, Stages
<1>8. TypeHeld' /\ TypeStep'
  BY <1>2, <1>7, HandsTyped DEF StoresAs
<1>9. StepFits'
  BY <1>2, <1>3, <1>7, HandsFit DEF StoresAs
<1>10. TypeCache' /\ TypeKeys'
  BY <1>1, <1>2 DEF TypeCache, TypeKeys
<1>11. TypeDone'
  <2>1. done \in Seq(1..given) /\ done' = Append(done, Now(w)) /\ given' = given /\ crew' = crew /\ crew \subseteq Persisters
    BY <1>1, <1>2 DEF TypeDone, StoresAs
  <2>2. done' \in Seq(1..given)
    BY <1>3, <2>1, AppendTo
  <2> QED BY <2>1, <2>2 DEF TypeDone
<1>12. Row' = Row
  BY <1>2 DEF Row
<1> DEFINE m == InHand(w).id
<1>13. /\ rows \in [MessageIds -> Seq(Row)] /\ versions \in [MessageIds -> Seq(1..given)] /\ reactions \subseteq 1..given
       /\ rows[m] \in Seq(Row) /\ versions[m] \in Seq(1..given)
  BY <1>1, <1>3 DEF TypeTables
<1>14. /\ EditedRows(w, rows[m]) \in Seq(Row) /\ DeletedRows(rows[m]) \in Seq(Row)
       /\ [text |-> Now(w), cipher |-> step[w].cipher, gone |-> FALSE] \in Row
  BY <1>3, <1>13, RowsTyped
<1>15. TypeTables' /\ reactions' \subseteq reactions \cup {Now(w)}
  <2> HIDE DEF m
  <2>1. CASE MessageStored(w)
    <3> DEFINE x == [text |-> Now(w), cipher |-> step[w].cipher, gone |-> FALSE]
    <3>1. rows' = [rows EXCEPT ![m] = Append(@, x)] /\ UNCHANGED <<versions, reactions>>
      BY <2>1 DEF MessageStored, m
    <3>2. x \in Row
      BY <1>14
    <3> HIDE DEF x
    <3>3. rows' \in [MessageIds -> Seq(Row)]
      BY <1>13, <3>1, <3>2, AppendTo
    <3> QED BY <1>2, <1>12, <1>13, <3>1, <3>3 DEF TypeTables
  <2>2. CASE EditStored(w)
    <3>1. PICK live \in SetToSeqs(LiveRows(m)) :
            versions' = [versions EXCEPT ![m] = Trimmed(@ \o VersionsOf(m, live))]
      BY <2>2 DEF EditStored, m
    <3>2. rows' = [rows EXCEPT ![m] = EditedRows(w, @)] /\ UNCHANGED reactions
      BY <2>2 DEF EditStored, m
    <3> DEFINE t == VersionsOf(m, live)
    <3>3. t \in Seq(1..given)
      BY <1>1, <1>3, LiveTextsAre DEF m, VersionsOf
    <3> HIDE DEF t
    <3>4. (versions[m] \o t) \in Seq(1..given)
      BY <1>13, <3>3
    <3>5. Trimmed(versions[m] \o t) \in Seq(1..given)
      BY <3>4, TrimmedIs
    <3>6. versions' = [versions EXCEPT ![m] = Trimmed(versions[m] \o t)]
      BY <3>1 DEF t
    <3>7. versions' \in [MessageIds -> Seq(1..given)] /\ rows' \in [MessageIds -> Seq(Row)]
      BY <1>13, <1>14, <3>2, <3>5, <3>6
    <3> QED BY <1>2, <1>12, <1>13, <3>2, <3>7 DEF TypeTables
  <2>3. CASE DeletionStored(w)
    <3>1. rows' = [rows EXCEPT ![m] = DeletedRows(@)] /\ UNCHANGED <<versions, reactions>>
      BY <2>3 DEF DeletionStored, m
    <3>2. rows' \in [MessageIds -> Seq(Row)]
      BY <1>13, <1>14, <3>1
    <3> QED BY <1>2, <1>12, <1>13, <3>1, <3>2 DEF TypeTables
  <2>4. CASE ReactionStored(w) \/ ReactionRemoved(w)
    <3>1. UNCHANGED <<rows, versions>> /\ reactions' \subseteq reactions \cup {Now(w)}
      BY <2>4 DEF ReactionStored, ReactionRemoved
    <3> QED BY <1>2, <1>3, <1>12, <1>13, <3>1 DEF TypeTables
  <2> QED BY <2>1, <2>2, <2>3, <2>4, StoredAs
<1>16. WrittenInv'
  BY <1>2, <1>3, <1>15 DEF PersistTypes, WrittenInv
<1> QED BY <1>2, <1>5, <1>6, <1>8, <1>9, <1>10, <1>11, <1>15, <1>16, LocksStay, TypesAreNext DEF PersistTypes

LEMMA PersistTypesInit ==
  ASSUME PersistInit
  PROVE  PersistTypes
<1>1. PICK b \in PersistBudgets :
       /\ persistLeft = [k \in PersistKinds |-> b[k]] /\ crew = b.crew
       /\ made = [e \in KeyEpochs |-> IF e <= b.epochs THEN 1 ELSE 0]
       /\ rawKey = [e \in KeyEpochs |-> IF e <= b.epochs /\ ~(b.late /\ e = 2) THEN 1 ELSE 0]
  BY DEF PersistInit
<1>2. crew \subseteq Persisters /\ persistLeft \in [PersistKinds -> Nat]
  BY <1>1, PersistCounts
<1>3. TypeKeys
  BY <1>1 DEF TypeKeys
<1>4. /\ stream = <<>> /\ given = 0 /\ due = {} /\ acked = {} /\ tries = <<>>
      /\ held = [w \in Persisters |-> <<>>] /\ step = [w \in Persisters |-> AtStart]
      /\ keyCache = [w \in Persisters |-> <<>>]
      /\ rows = [m \in MessageIds |-> <<>>] /\ versions = [m \in MessageIds |-> <<>>] /\ reactions = {}
      /\ done = <<>> /\ served = {} /\ upsets = {}
  BY DEF PersistInit
<1>5. TypeStream /\ TypeGiven /\ TypeDone /\ TypeUpsets
  BY <1>2, <1>4 DEF TypeStream, TypeGiven, TypeDone, TypeUpsets
<1>6. TypeHeld /\ TypeStep /\ TypeTables
  BY <1>4 DEF TypeHeld, TypeStep, TypeTables, AtStart, Stages
<1>7. TypeCache
  <2>1. Len(<<>>) = 0 /\ KeptKeys \in Nat
    BY PersistParameters
  <2> QED BY <1>4, <2>1 DEF TypeCache
<1>8. StepFits /\ LocksFit /\ WrittenInv
  <2>1. \A w \in Persisters : step[w] = AtStart
    BY <1>4
  <2>2. StepFits
    BY <2>1 DEF StepFits, AtStart
  <2> QED BY <1>4, <2>2 DEF LocksFit, WrittenInv
<1> QED BY <1>3, <1>5, <1>6, <1>7, <1>8, TypesAre DEF PersistTypes

LEMMA TypesStep ==
  ASSUME PersistTypes, [PersistNext]_persistVars
  PROVE  PersistTypes'
<1>1. CASE PersistNext
  <2>1. PersistTypeOK
    BY DEF PersistTypes
  <2> QED BY <1>1, <2>1, PersistSteps, SendsTyped, KeysTyped, OverdueTyped, GiveTyped, CrashTyped, CallsTyped, StoresTyped
<1>2. CASE UNCHANGED persistVars
  <2>1. UNCHANGED <<stream, given, due, acked, tries, held, step, keyCache, made, rawKey, rows, versions, reactions, crew, done, served, upsets, persistLeft>>
    BY <1>2 DEF persistVars, persistQueue, persistKeys, persistTables
  <2>2. PersistTypeOK'
    BY <2>1 DEF PersistTypes, PersistTypeOK
  <2>3. StepFits' /\ LocksFit' /\ WrittenInv'
    BY <2>1 DEF PersistTypes, StepFits, LocksFit, WrittenInv, Written, Now, AtStart
  <2> QED BY <2>2, <2>3 DEF PersistTypes
<1> QED BY <1>1, <1>2

\* Every variable of the persist worker has its type.
THEOREM PersistTypeCorrect == PersistSpec => []PersistTypeOK
<1>1. PersistInit => PersistTypes
  BY PersistTypesInit
<1>2. PersistTypes /\ [PersistNext]_persistVars => PersistTypes'
  BY TypesStep
<1>3. PersistTypes => PersistTypeOK
  BY DEF PersistTypes
<1> QED BY <1>1, <1>2, <1>3, PTL DEF PersistSpec
-----------------------------------------------------------------------------
(* The tables.                                                              *)

\* No event of the stream is ever changed.
StreamStays == \A i \in DOMAIN stream : i \in DOMAIN stream' /\ stream'[i] = stream[i]

LEMMA StreamSteps ==
  ASSUME PersistTypes, [PersistNext]_persistVars
  PROVE  StreamStays /\ (UNCHANGED stream \/ Sends) /\ (UNCHANGED <<rows, versions, reactions, done>> \/ \E w \in Persisters : Stores(w))
<1>1. CASE Sends
  <2>1. PICK e : SentAs(e)
    BY <1>1, SentIs DEF Sends, PersistTypes
  <2> QED BY <1>1, <2>1 DEF SentAs, StreamStays, persistTables
<1>2. CASE EnableAgain \/ RawKeyStored \/ \E i \in 1..given : Overdue(i)
  BY <1>2 DEF EnableAgain, RawKeyStored, Overdue, StreamStays, persistQueue, persistTables
<1>3. ASSUME NEW w \in Persisters, Give(w) \/ Acknowledge(w) \/ CrashOf(w) \/ ReactionThere(w) \/ WriteFails(w)
      PROVE  UNCHANGED <<stream, rows, versions, reactions, done>>
  BY <1>3 DEF Give, Acknowledge, CrashOf, ReactionThere, WriteFails, persistQueue, persistTables
<1>4. ASSUME NEW w \in Persisters, Decrypts(w)
      PROVE  UNCHANGED <<stream, rows, versions, reactions, done>>
  BY <1>4 DEF Decrypts, DecryptCached, DecryptFetched, persistTables
<1>5. ASSUME NEW w \in Persisters, Stores(w)
      PROVE  UNCHANGED stream
  BY <1>5, StoresAre DEF StoresAs
<1>6. CASE UNCHANGED persistVars
  BY <1>6 DEF persistVars, persistQueue, persistTables, StreamStays
<1>7. PersistNext => Sends \/ (EnableAgain \/ RawKeyStored \/ \E i \in 1..given : Overdue(i)) \/
        \E w \in Persisters : (Give(w) \/ Acknowledge(w) \/ CrashOf(w) \/ ReactionThere(w) \/ WriteFails(w)) \/ Decrypts(w) \/ Stores(w)
  BY PersistSteps DEF PersistTypes
<1> QED BY <1>1, <1>2, <1>3, <1>4, <1>5, <1>6, <1>7 DEF StreamStays

LEMMA FirstStays ==
  ASSUME PersistTypes, MessagesFirst, [PersistNext]_persistVars
  PROVE  MessagesFirst'
<1>1. CASE UNCHANGED stream
  BY <1>1 DEF MessagesFirst, Sent
<1>2. CASE Sends
  <2>1. PICK e : FittingEvent(e) /\ SentAs(e)
    BY <1>2, SentIs DEF Sends, PersistTypes
  <2>2. /\ DOMAIN stream' = DOMAIN stream \cup {Len(stream) + 1} /\ stream'[Len(stream) + 1] = e
        /\ \A i \in DOMAIN stream : stream'[i] = stream[i]
        /\ Len(stream) + 1 \notin DOMAIN stream
    BY <2>1 DEF SentAs
  <2>3. DOMAIN stream = 1..Len(stream) /\ Len(stream) \in Nat
    BY TypesAre DEF PersistTypes, TypeStream
  <2>4. \A m : Sent(m) => Sent(m)'
    BY <2>2 DEF Sent
  <2>5. Sent(e.id)'
    BY <2>1, <2>2, <2>4 DEF FittingEvent, Sent
  <2>6. \A i \in DOMAIN stream' : \E k \in DOMAIN stream' : stream'[k].act = "message" /\ stream'[k].id = stream'[i].id
    <3> SUFFICES ASSUME NEW i \in DOMAIN stream'
                 PROVE  \E k \in DOMAIN stream' : stream'[k].act = "message" /\ stream'[k].id = stream'[i].id
      OBVIOUS
    <3>1. CASE i \in DOMAIN stream
      BY <2>2, <3>1 DEF MessagesFirst, Sent
    <3>2. CASE i \notin DOMAIN stream
      BY <2>2, <2>5, <3>2 DEF Sent
    <3> QED BY <3>1, <3>2
  <2>7. \A i, j \in DOMAIN stream' : stream'[i].act = "message" /\ stream'[j].id = stream'[i].id => i <= j
    <3> SUFFICES ASSUME NEW i \in DOMAIN stream', NEW j \in DOMAIN stream', stream'[i].act = "message", stream'[j].id = stream'[i].id
                 PROVE  i <= j
      OBVIOUS
    <3>1. CASE i \in DOMAIN stream /\ j \in DOMAIN stream
      BY <2>2, <3>1 DEF MessagesFirst
    <3>2. CASE i \notin DOMAIN stream
      <4>1. stream'[i] = e /\ i = Len(stream) + 1 /\ ~Sent(e.id)
        BY <2>1, <2>2, <3>2 DEF FittingEvent
      <4>2. j \notin DOMAIN stream
        BY <2>2, <4>1 DEF MessagesFirst
      <4> QED BY <2>2, <2>3, <4>1, <4>2
    <3>3. CASE i \in DOMAIN stream /\ j \notin DOMAIN stream
      BY <2>2, <2>3, <3>3
    <3> QED BY <3>1, <3>2, <3>3
  <2> QED BY <2>6, <2>7 DEF MessagesFirst, Sent
<1> QED BY <1>1, <1>2, StreamSteps

LEMMA TablesFrame ==
  ASSUME PersistTypes, TablesInv, StreamStays, UNCHANGED <<rows, versions, reactions, done>>
  PROVE  TablesInv'
<1>1. Written \subseteq DOMAIN stream /\ Written' = Written
  BY TypesAre DEF PersistTypes, TypeDone, TypeGiven, TypeStream, Written, ToSet
<1>2. \A i \in DOMAIN done : done[i] \in DOMAIN stream
  BY <1>1 DEF Written, ToSet
<1> SUFFICES ASSUME NEW m \in MessageIds, WrittenInOrder(m)'
             PROVE  RowRight(m)' /\ ReactionsRight(m)'
  BY DEF TablesInv
<1>3. WrittenInOrder(m)
  BY <1>2 DEF WrittenInOrder, StreamStays
<1>4. WrittenOf(m)' = WrittenOf(m) /\ \A i \in WrittenOf(m) : stream'[i] = stream[i]
  BY <1>1 DEF WrittenOf, StreamStays
<1>5. DeletedBy(m)' = DeletedBy(m) /\ Inserted(m)' = Inserted(m)
  BY <1>4 DEF DeletedBy, Inserted
<1>6. WrittenTexts(m)' = WrittenTexts(m)
  BY <1>4, <1>5 DEF WrittenTexts, HasText
<1>7. RowRight(m) /\ ReactionsRight(m)
  BY <1>3 DEF TablesInv
<1>8. RowRight(m)'
  BY <1>5, <1>6, <1>7 DEF RowRight, IsLatest, AreLatest
<1>9. ReactionsRight(m)'
  BY <1>4, <1>7 DEF ReactionsRight
<1> QED BY <1>8, <1>9

\* A later text is the last of the versions, and the oldest makes room for it.
LEMMA TrimmedLatest ==
  ASSUME NEW S, S \subseteq Nat, NEW kept \in Seq(S), NEW T, T \subseteq S, NEW x \in S, AreLatest(kept, T), \A t \in T : t < x
  PROVE  AreLatest(Trimmed(Append(kept, x)), T \cup {x})
<1> DEFINE k == Len(kept)
           ext == Append(kept, x)
           last == Trimmed(ext)
           over == IF Len(ext) > KeptVersions THEN Len(ext) - KeptVersions ELSE 0
<1>1. k \in Nat /\ k <= KeptVersions /\ KeptVersions \in Nat
  BY PersistParameters DEF AreLatest
<1>2. DOMAIN kept = 1..k
  OBVIOUS
<1>3. ext \in Seq(S) /\ Len(ext) = k + 1 /\ ext[k + 1] = x /\ \A i \in DOMAIN kept : ext[i] = kept[i]
  BY AppendTo
<1>4. last \in Seq(S) /\ Len(last) = Len(ext) - over /\ \A i \in 1..Len(last) : last[i] = ext[over + i]
  BY <1>3, TrimmedIs
<1> HIDE DEF last, ext, k
<1>5. Len(ext) = k + 1 /\ ext[k + 1] = x
  BY <1>3
<1>6. DOMAIN ext = 1..(k + 1)
  <2>1. ext \in Seq(S)
    BY <1>3
  <2> QED BY <1>5, <2>1
<1>7. \A i \in 1..k : ext[i] = kept[i]
  BY <1>2, <1>3
<1>8. over \in {0, 1} /\ (over = 1 => k = KeptVersions) /\ (over = 0 => k < KeptVersions)
  <2>1. Len(ext) = k + 1
    BY <1>5
  <2>2. over = IF k + 1 > KeptVersions THEN k + 1 - KeptVersions ELSE 0
    BY <1>1, <2>1
  <2> HIDE DEF over
  <2> QED BY <1>1, <2>2
<1> HIDE DEF over
<1>9. Len(last) = k + 1 - over
  BY <1>1, <1>4, <1>5, <1>8
<1>10. DOMAIN last = 1..(k + 1 - over)
  <2>1. last \in Seq(S)
    BY <1>4
  <2> QED BY <1>9, <2>1
<1>11. \A i \in 1..(k + 1 - over) : last[i] = ext[over + i]
  BY <1>4, <1>9
<1>12. /\ \A i \in 1..k : kept[i] \in T
       /\ \A i, j \in 1..k : i < j => kept[i] < kept[j]
       /\ \A t \in T : (\A i \in 1..k : kept[i] # t) => k = KeptVersions /\ \A i \in 1..k : t < kept[i]
  BY <1>2 DEF AreLatest, ToSet, k
<1>13. \A i \in 1..(k + 1) : i = k + 1 \/ i \in 1..k
  BY <1>1
<1>14. \A i \in 1..(k + 1) : ext[i] \in T \cup {x}
  BY <1>5, <1>7, <1>12, <1>13
<1>15. ASSUME NEW i \in 1..(k + 1), NEW j \in 1..(k + 1), i < j
       PROVE  ext[i] < ext[j]
  <2>1. i \in 1..k
    BY <1>1, <1>15
  <2>2. ext[i] = kept[i] /\ kept[i] \in T
    BY <1>7, <1>12, <2>1
  <2>3. CASE j = k + 1
    BY <1>5, <2>2, <2>3
  <2>4. CASE j \in 1..k
    BY <1>7, <1>12, <1>15, <2>1, <2>2, <2>4
  <2> QED BY <1>13, <2>3, <2>4
<1>16. \A i \in 1..(k + 1 - over) : over + i \in 1..(k + 1)
  BY <1>1, <1>8
<1>17. ASSUME NEW i \in 1..(k + 1 - over), NEW j \in 1..(k + 1 - over), i < j
       PROVE  last[i] < last[j]
  <2>1. over + i < over + j
    BY <1>8, <1>17
  <2>2. ext[over + i] < ext[over + j]
    BY <1>15, <1>16, <2>1
  <2> QED BY <1>11, <2>2
<1>18. \A i \in 1..(k + 1 - over) : last[i] \in T \cup {x}
  BY <1>11, <1>14, <1>16
<1>19. k + 1 - over <= KeptVersions
  BY <1>1, <1>8
<1>20. ASSUME NEW t \in T \cup {x}, \A i \in 1..(k + 1 - over) : last[i] # t
       PROVE  k + 1 - over = KeptVersions /\ \A i \in 1..(k + 1 - over) : t < last[i]
  <2>1. ASSUME NEW j \in 1..(k + 1), over < j
        PROVE  ext[j] # t
    <3>1. j - over \in 1..(k + 1 - over) /\ over + (j - over) = j
      BY <1>1, <1>8, <2>1
    <3> QED BY <1>11, <1>20, <3>1
  <2>2. k + 1 \in 1..(k + 1) /\ \A i \in 1..k : i \in 1..(k + 1)
    BY <1>1
  <2>3. CASE over = 0
    <3>1. over < k + 1 /\ \A i \in 1..k : over < i
      BY <1>1, <2>3
    <3>2. t # x
      BY <1>5, <2>1, <2>2, <3>1
    <3>3. \A i \in 1..k : kept[i] # t
      BY <1>7, <2>1, <2>2, <3>1
    <3>4. k = KeptVersions
      BY <1>12, <3>2, <3>3
    <3> QED BY <1>1, <1>8, <2>3, <3>4
  <2>4. CASE over = 1
    <3>1. k + 1 - over = k /\ k = KeptVersions
      BY <1>1, <1>8, <2>4
    <3>2. ASSUME NEW i \in 1..k
          PROVE  t < last[i]
      <4>1. last[i] = ext[1 + i]
        BY <1>11, <2>4, <3>1
      <4>2. 1 + i \in 1..(k + 1) /\ 1 \in 1..(k + 1) /\ 1 < 1 + i /\ 1 \in 1..k
        BY <1>1
      <4>3. t # x
        <5>1. over < k + 1
          BY <1>1, <2>4, <4>2
        <5> QED BY <1>5, <2>1, <2>2, <5>1
      <4>4. CASE t = kept[1]
        <5>1. ext[1] = kept[1]
          BY <1>7, <4>2
        <5> QED BY <1>15, <4>1, <4>2, <4>4, <5>1
      <4>5. CASE t # kept[1]
        <5>1. ASSUME NEW j \in 1..k
              PROVE  kept[j] # t
          <6>1. CASE j = 1
            BY <4>5, <6>1
          <6>2. CASE j # 1
            <7>1. over < j
              BY <2>4, <6>2
            <7> QED BY <1>7, <2>1, <2>2, <7>1
          <6> QED BY <6>1, <6>2
        <5>2. \A j \in 1..k : t < kept[j]
          BY <1>12, <4>3, <5>1
        <5>3. t < x
          BY <4>3
        <5>4. CASE 1 + i = k + 1
          BY <1>5, <4>1, <5>3, <5>4
        <5>5. CASE 1 + i \in 1..k
          BY <1>7, <4>1, <5>2, <5>5
        <5> QED BY <1>13, <4>2, <5>4, <5>5
      <4> QED BY <4>4, <4>5
    <3> QED BY <3>1, <3>2
  <2> QED BY <1>8, <2>3, <2>4
<1>21. \A i, j \in DOMAIN last : i < j => last[i] < last[j]
  BY <1>10, <1>17
<1>22. ToSet(last) \subseteq T \cup {x}
  BY <1>10, <1>18 DEF ToSet
<1>23. \A t \in (T \cup {x}) \ ToSet(last) : Len(last) = KeptVersions /\ \A i \in DOMAIN last : t < last[i]
  <2> SUFFICES ASSUME NEW t \in (T \cup {x}) \ ToSet(last)
               PROVE  Len(last) = KeptVersions /\ \A i \in DOMAIN last : t < last[i]
    OBVIOUS
  <2>1. \A i \in 1..(k + 1 - over) : last[i] # t
    BY <1>10 DEF ToSet
  <2> QED BY <1>9, <1>10, <1>20, <2>1
<1>24. Len(last) <= KeptVersions
  BY <1>9, <1>19
<1> QED BY <1>21, <1>22, <1>23, <1>24 DEF AreLatest, last, ext

\* Nothing is added to the versions: they stay.
LEMMA TrimmedSame ==
  ASSUME NEW S, NEW kept \in Seq(S), NEW t, t \in Seq(S), Len(t) = 0, Len(kept) <= KeptVersions
  PROVE  Trimmed(kept \o t) = kept
<1>1. t = <<>> /\ Len(kept) \in Nat
  OBVIOUS
<1>2. kept \o t = kept
  BY <1>1
<1>3. ~(Len(kept) > KeptVersions)
  BY <1>1, PersistParameters
<1> QED BY <1>2, <1>3 DEF Trimmed

\* What is written in order comes after what was written before.
LEMMA InOrderIs ==
  ASSUME PersistTypes, NEW w \in Persisters, StoresAs(w), NEW i, i = Now(w), NEW n \in MessageIds, WrittenInOrder(n)'
  PROVE  WrittenInOrder(n) /\ (stream[i].id = n => \A j \in WrittenOf(n) : j < i)
<1>1. done \in Seq(1..given) /\ stream' = stream /\ done' = Append(done, i) /\ i \in 1..given
  BY StoresWritten, TypesAre DEF PersistTypes, StoresAs, TypeDone
<1>2. DOMAIN done' = DOMAIN done \cup {Len(done) + 1} /\ done'[Len(done) + 1] = i /\ \A j \in DOMAIN done : done'[j] = done[j]
  BY <1>1, AppendTo
<1>3. \A j \in DOMAIN done : j < Len(done) + 1
  <2>1. DOMAIN done = 1..Len(done) /\ Len(done) \in Nat
    BY <1>1
  <2> QED BY <2>1
<1>4. \A j, k \in DOMAIN done' : j < k /\ stream[done'[j]].id = n /\ stream[done'[k]].id = n => done'[j] < done'[k]
  BY <1>1 DEF WrittenInOrder
<1>5. WrittenInOrder(n)
  BY <1>2, <1>4 DEF WrittenInOrder
<1>6. stream[i].id = n => \A j \in WrittenOf(n) : j < i
  BY <1>2, <1>3, <1>4 DEF WrittenOf, Written, ToSet
<1> QED BY <1>5, <1>6

\* What is written of one message leaves the others as they are.
LEMMA OtherTables ==
  ASSUME PersistTypes, NEW w \in Persisters, Stores(w), TablesInv, NEW n \in MessageIds, n # InHand(w).id, WrittenInOrder(n)'
  PROVE  RowRight(n)' /\ ReactionsRight(n)'
<1>1. StoresAs(w) /\ stream' = stream /\ Written' = Written \cup {Now(w)}
  BY StoresAre, StoresWritten DEF PersistTypes, StoresAs
<1>2. WrittenOf(n)' = WrittenOf(n)
  BY <1>1 DEF WrittenOf, InHand
<1>3. DeletedBy(n)' = DeletedBy(n) /\ Inserted(n)' = Inserted(n)
  BY <1>1, <1>2 DEF DeletedBy, Inserted
<1>4. WrittenTexts(n)' = WrittenTexts(n)
  BY <1>1, <1>2, <1>3 DEF WrittenTexts, HasText
<1>5. RowRight(n) /\ ReactionsRight(n)
  <2>1. PICK i : i = Now(w)
    OBVIOUS
  <2> QED BY <1>1, <2>1, InOrderIs DEF TablesInv
<1>6. rows \in [MessageIds -> Seq(Row)] /\ versions \in [MessageIds -> Seq(1..given)]
  BY TypesAre DEF PersistTypes, TypeTables
<1>7. rows'[n] = rows[n] /\ versions'[n] = versions[n]
  BY <1>6, StoredAs DEF MessageStored, EditStored, DeletionStored, ReactionStored, ReactionRemoved
<1>8. RowRight(n)'
  BY <1>3, <1>4, <1>5, <1>7 DEF RowRight, IsLatest, AreLatest
<1>9. \A j \in WrittenOf(n) : j \in reactions => j \in reactions'
  <2>1. \A j \in WrittenOf(n) : j # Now(w)
    BY DEF WrittenOf, InHand
  <2>2. \A j \in reactions : j # Now(w) => j \in reactions'
    BY StoredAs DEF MessageStored, EditStored, DeletionStored, ReactionStored, ReactionRemoved
  <2> QED BY <2>1, <2>2
<1>10. ReactionsRight(n)'
  BY <1>1, <1>2, <1>5, <1>9 DEF ReactionsRight
<1> QED BY <1>8, <1>10

\* What is written of a message, in order, keeps its tables right.
LEMMA ItsTables ==
  ASSUME PersistTypes, MessagesFirst, NEW w \in Persisters, Stores(w), TablesInv,
         NEW i, i = Now(w), NEW m \in MessageIds, m = stream[i].id, WrittenInOrder(m)'
  PROVE  RowRight(m)' /\ ReactionsRight(m)'
<1>1. StoresAs(w) /\ stream' = stream /\ Written' = Written \cup {i} /\ i \in 1..given /\ i \in DOMAIN stream /\ InHand(w) = stream[i] /\ InHand(w).id = m
  BY StoresAre, StoresWritten, InHandIs DEF PersistTypes, StoresAs, InHand
<1>2. RowRight(m) /\ ReactionsRight(m) /\ \A j \in WrittenOf(m) : j < i
  BY <1>1, InOrderIs DEF TablesInv
<1>3. Written \subseteq 1..given /\ Written \subseteq DOMAIN stream /\ \A j \in WrittenOf(m) : j \in Nat /\ j # i
  <2>1. given \in Nat /\ Written \subseteq 1..given /\ Written \subseteq DOMAIN stream
    BY TypesAre DEF PersistTypes, TypeDone, TypeGiven, TypeStream, Written, ToSet
  <2> QED BY <1>1, <1>2, <2>1 DEF WrittenOf
<1>4. WrittenOf(m)' = WrittenOf(m) \cup {i} /\ i \notin WrittenOf(m) /\ i \notin Written
  BY <1>1, <1>3 DEF WrittenOf
<1>5. /\ rows \in [MessageIds -> Seq(Row)] /\ versions \in [MessageIds -> Seq(1..given)]
      /\ rows[m] \in Seq(Row) /\ versions[m] \in Seq(1..given) /\ 1..given \subseteq Nat
  BY TypesAre DEF PersistTypes, TypeTables
<1>6. DeletedBy(m) \subseteq WrittenOf(m) /\ WrittenTexts(m) \subseteq WrittenOf(m)
  BY DEF DeletedBy, WrittenTexts
<1>7. i \in Nat
  BY <1>1, <1>5
<1>8. CASE MessageStored(w)
  <2>1. stream[i].act = "message" /\ ~HasText([act |-> "delete"])
    BY <1>1, <1>8 DEF MessageStored, HasText
  <2>2. WrittenOf(m) = {}
    <3>1. \A j \in WrittenOf(m) : i <= j
      BY <1>1, <1>3, <2>1 DEF MessagesFirst, WrittenOf
    <3> QED BY <1>2, <1>3, <1>7, <3>1
  <2>3. rows[m] = <<>> /\ versions[m] = <<>>
    BY <1>2, <2>2 DEF RowRight, Inserted
  <2>4. DeletedBy(m)' = {} /\ WrittenTexts(m)' = {i} /\ Inserted(m)'
    <3>1. WrittenOf(m)' = {i}
      BY <1>4, <2>2
    <3>2. DeletedBy(m)' = {}
      BY <1>1, <2>1, <3>1 DEF DeletedBy
    <3> QED BY <1>1, <2>1, <3>1, <3>2 DEF WrittenTexts, HasText, Inserted
  <2>5. rows'[m] = <<[text |-> i, cipher |-> step[w].cipher, gone |-> FALSE]>> /\ versions'[m] = <<>> /\ reactions' = reactions
    <3> DEFINE x == [text |-> i, cipher |-> step[w].cipher, gone |-> FALSE]
    <3>1. rows' = [rows EXCEPT ![m] = Append(@, x)] /\ UNCHANGED <<versions, reactions>>
      BY <1>1, <1>8 DEF MessageStored
    <3> HIDE DEF x
    <3>2. rows'[m] = Append(<<>>, x) /\ Append(<<>>, x) = <<x>>
      BY <1>5, <2>3, <3>1
    <3> QED BY <2>3, <3>1, <3>2 DEF x
  <2>6. IsLatest(i, {i}) /\ AreLatest(<<>>, {i} \ {i})
    BY <1>7, PersistParameters DEF IsLatest, AreLatest, ToSet
  <2>7. RowRight(m)'
    <3>1. Len(rows'[m]) = 1 /\ rows'[m][1].text = i /\ rows'[m][1].gone = FALSE
      BY <2>5
    <3>2. IsLatest(rows'[m][1].text, WrittenTexts(m)')
      BY <2>4, <2>6, <3>1
    <3>3. AreLatest(versions'[m], WrittenTexts(m)' \ {rows'[m][1].text})
      BY <2>4, <2>5, <2>6, <3>1
    <3> QED BY <2>4, <3>1, <3>2, <3>3 DEF RowRight
  <2>8. ReactionsRight(m)'
    BY <1>1, <1>4, <2>1, <2>2 DEF ReactionsRight
  <2> QED BY <2>7, <2>8
<1>9. CASE ReactionStored(w) \/ ReactionRemoved(w)
  <2>1. ReactionStored(w)
    BY <1>1, <1>4, <1>9 DEF ReactionRemoved
  <2>2. stream[i].act = "react" /\ reactions' = reactions \cup {i} /\ UNCHANGED <<rows, versions>>
    BY <1>1, <2>1 DEF ReactionStored
  <2>3. DeletedBy(m)' = DeletedBy(m) /\ Inserted(m)' = Inserted(m)
    BY <1>1, <1>4, <2>2 DEF DeletedBy, Inserted
  <2>4. WrittenTexts(m)' = WrittenTexts(m)
    BY <1>1, <1>4, <2>2, <2>3 DEF WrittenTexts, HasText
  <2>5. RowRight(m)'
    BY <1>2, <2>2, <2>3, <2>4 DEF RowRight, IsLatest, AreLatest
  <2>6. ReactionsRight(m)'
    BY <1>1, <1>2, <1>4, <2>2 DEF ReactionsRight
  <2> QED BY <2>5, <2>6
<1>10. CASE DeletionStored(w)
  <2>1. stream[i].act = "delete" /\ rows' = [rows EXCEPT ![m] = DeletedRows(@)] /\ UNCHANGED <<versions, reactions>>
    BY <1>1, <1>10 DEF DeletionStored
  <2>2. Inserted(m)' = Inserted(m) /\ DeletedBy(m)' = DeletedBy(m) \cup {i}
    BY <1>1, <1>4, <2>1 DEF DeletedBy, Inserted
  <2>3. WrittenTexts(m)' = WrittenTexts(m)
    <3>1. \A t \in WrittenOf(m) : t < i
      BY <1>2
    <3> QED BY <1>1, <1>4, <2>1, <2>2, <3>1 DEF WrittenTexts, HasText
  <2>4. rows'[m] = DeletedRows(rows[m]) /\ versions'[m] = versions[m]
    BY <1>5, <2>1
  <2>5. CASE Inserted(m)
    <3>1. Len(rows[m]) = 1 /\ 1 \in DOMAIN rows[m]
      BY <1>2, <1>5, <2>5 DEF RowRight
    <3>2. Len(rows'[m]) = 1
      BY <1>1, <1>5, <2>4, <3>1, RowsTyped
    <3>3. rows[m][1] \in Row /\ rows'[m][1] = [rows[m][1] EXCEPT !.gone = TRUE]
      BY <1>5, <2>4, <3>1 DEF DeletedRows
    <3>4. rows'[m][1].text = rows[m][1].text /\ rows'[m][1].gone = TRUE
      BY <3>3 DEF Row
    <3> QED BY <1>1, <1>2, <1>4, <2>1, <2>2, <2>3, <2>4, <2>5, <3>2, <3>4 DEF RowRight, ReactionsRight, IsLatest, AreLatest
  <2>6. CASE ~Inserted(m)
    <3>1. rows[m] = <<>> /\ versions[m] = <<>>
      BY <1>2, <2>6 DEF RowRight
    <3>2. rows'[m] = <<>>
      BY <2>4, <3>1 DEF DeletedRows
    <3> QED BY <1>1, <1>2, <1>4, <2>1, <2>2, <2>4, <2>6, <3>1, <3>2 DEF RowRight, ReactionsRight
  <2> QED BY <2>5, <2>6
<1>11. CASE EditStored(w)
  <2>1. PICK live \in SetToSeqs(LiveRows(m)) :
          versions' = [versions EXCEPT ![m] = Trimmed(@ \o VersionsOf(m, live))]
    BY <1>1, <1>11 DEF EditStored
  <2> DEFINE t == VersionsOf(m, live)
  <2>2. /\ t \in Seq(1..given) /\ Len(t) = Cardinality(LiveRows(m)) /\ Cardinality(LiveRows(m)) \in Nat
        /\ \A k \in 1..Len(t) : live[k] \in LiveRows(m) /\ t[k] = rows[m][live[k]].text
    BY LiveTextsAre DEF PersistTypes, VersionsOf
  <2>3. versions'[m] = Trimmed(versions[m] \o t)
    BY <1>5, <2>1
  <2> HIDE DEF t
  <2>4. stream[i].act = "edit" /\ rows'[m] = EditedRows(w, rows[m]) /\ UNCHANGED reactions
    BY <1>1, <1>5, <1>11 DEF EditStored
  <2>5. Inserted(m)' = Inserted(m) /\ DeletedBy(m)' = DeletedBy(m)
    BY <1>1, <1>4, <2>4 DEF DeletedBy, Inserted
  <2>6. ReactionsRight(m)'
    BY <1>1, <1>2, <1>4, <2>4 DEF ReactionsRight
  <2>7. LiveRows(m) = {} => versions[m] = versions'[m] \/ Len(versions[m]) > KeptVersions
    BY <1>5, <2>2, <2>3, TrimmedSame, FS_EmptySet, PersistParameters
  <2>8. CASE ~Inserted(m)
    <3>1. rows[m] = <<>> /\ versions[m] = <<>>
      BY <1>2, <2>8 DEF RowRight
    <3>2. LiveRows(m) = {} /\ Len(versions[m]) = 0
      BY <3>1 DEF LiveRows
    <3>3. versions'[m] = <<>>
      BY <2>7, <3>1, <3>2, PersistParameters
    <3>4. rows'[m] = <<>>
      BY <2>4, <3>1 DEF EditedRows
    <3> QED BY <2>5, <2>6, <2>8, <3>3, <3>4 DEF RowRight
  <2>9. ASSUME Inserted(m)
        PROVE  RowRight(m)'
    <3>1. /\ Len(rows[m]) = 1 /\ IsLatest(rows[m][1].text, WrittenTexts(m)) /\ rows[m][1].gone = (DeletedBy(m) # {})
          /\ AreLatest(versions[m], WrittenTexts(m) \ {rows[m][1].text})
      BY <1>2, <2>9 DEF RowRight
    <3>2. DOMAIN rows[m] = {1} /\ rows[m][1] \in Row
      BY <1>5, <3>1
    <3>3. Len(rows'[m]) = 1 /\ rows'[m][1] = EditedRow(w, rows[m][1])
      <4>1. Len(rows'[m]) = 1
        BY <1>1, <1>5, <2>4, <3>1, RowsTyped
      <4> QED BY <2>4, <3>2, <4>1 DEF EditedRows
    <3>4. CASE DeletedBy(m) # {}
      <4>1. WrittenTexts(m)' = WrittenTexts(m)
        <5>1. PICK d \in DeletedBy(m) : d < i
          BY <1>2, <1>6, <3>4
        <5>2. ~(i < d)
          BY <1>3, <1>6, <1>7, <5>1
        <5> QED BY <1>1, <1>4, <2>5, <5>2 DEF WrittenTexts, HasText
      <4>2. rows'[m][1] = rows[m][1] /\ LiveRows(m) = {}
        BY <3>1, <3>2, <3>3, <3>4 DEF EditedRow, LiveRows
      <4>3. Len(versions[m]) <= KeptVersions /\ Len(versions[m]) \in Nat
        BY <1>5, <3>1 DEF AreLatest
      <4>4. versions'[m] = versions[m]
        BY <2>7, <4>2, <4>3, PersistParameters
      <4>5. /\ Len(rows'[m]) = 1
            /\ IsLatest(rows'[m][1].text, WrittenTexts(m)') /\ rows'[m][1].gone = (DeletedBy(m)' # {})
            /\ AreLatest(versions'[m], WrittenTexts(m)' \ {rows'[m][1].text})
        BY <2>5, <3>1, <3>3, <4>1, <4>2, <4>4
      <4> QED BY <2>5, <2>9, <4>5 DEF RowRight, IsLatest, AreLatest
    <3>5. CASE DeletedBy(m) = {}
      <4> DEFINE x == rows[m][1].text
      <4>1. WrittenTexts(m)' = WrittenTexts(m) \cup {i}
        BY <1>1, <1>4, <2>4, <2>5, <3>5 DEF WrittenTexts, HasText
      <4>2. rows[m][1].gone = FALSE /\ LiveRows(m) = {1}
        BY <3>1, <3>2, <3>5 DEF LiveRows
      <4>3. rows'[m][1].text = i /\ rows'[m][1].gone = FALSE
        BY <3>2, <3>3, <4>2 DEF EditedRow, Row
      <4>4. x \in WrittenTexts(m) /\ x \in 1..given /\ \A s \in WrittenTexts(m) : s <= x
        BY <3>1, <3>2 DEF IsLatest, Row
      <4>5. Len(t) = 1 /\ t[1] = x
        <5>1. Cardinality({1}) = 1
          BY FS_Singleton
        <5>2. Len(t) = 1
          BY <2>2, <4>2, <5>1
        <5>3. live[1] = 1 /\ t[1] = rows[m][live[1]].text
          <6>1. 1 \in 1..Len(t)
            BY <5>2
          <6>2. live[1] \in LiveRows(m) /\ t[1] = rows[m][live[1]].text
            BY <2>2, <6>1
          <6> QED BY <4>2, <6>2
        <5> QED BY <5>2, <5>3
      <4>6. versions[m] \o t = Append(versions[m], x)
        <5> HIDE DEF x
        <5>1. t = <<x>>
          BY <2>2, <4>5
        <5> QED BY <1>5, <5>1
      <4>7. versions'[m] = Trimmed(Append(versions[m], x))
        BY <2>3, <4>6
      <4> DEFINE T == WrittenTexts(m) \ {x}
      <4>8. WrittenTexts(m) \subseteq 1..given
        BY <1>3, <1>6 DEF WrittenOf
      <4>9. T \subseteq 1..given /\ \A s \in T : s < x
        BY <1>5, <4>4, <4>8
      <4>10. AreLatest(versions[m], T)
        BY <3>1
      <4> HIDE DEF T, x
      <4>11. AreLatest(versions'[m], T \cup {x})
        <5> DEFINE N == 1..given
        <5>1. N \subseteq Nat /\ versions[m] \in Seq(N) /\ T \subseteq N /\ x \in N
          BY <1>5, <4>4, <4>9
        <5> HIDE DEF N
        <5>2. AreLatest(Trimmed(Append(versions[m], x)), T \cup {x})
          BY <4>9, <4>10, <5>1, TrimmedLatest
        <5> QED BY <4>7, <5>2
      <4>12. T \cup {x} = WrittenTexts(m)' \ {i}
        BY <1>4, <1>6, <4>1, <4>4 DEF T
      <4>13. IsLatest(i, WrittenTexts(m)')
        BY <1>2, <1>3, <1>6, <1>7, <4>1 DEF IsLatest
      <4>14. IsLatest(rows'[m][1].text, WrittenTexts(m)')
        BY <4>3, <4>13
      <4>15. AreLatest(versions'[m], WrittenTexts(m)' \ {rows'[m][1].text})
        BY <4>3, <4>11, <4>12
      <4> QED BY <2>5, <2>9, <3>3, <3>5, <4>3, <4>14, <4>15 DEF RowRight
    <3> QED BY <3>4, <3>5
  <2> QED BY <2>6, <2>8, <2>9
<1> QED BY <1>8, <1>9, <1>10, <1>11, StoredAs

LEMMA TablesStep ==
  ASSUME PersistTypes, MessagesFirst, TablesInv, [PersistNext]_persistVars
  PROVE  TablesInv'
<1>1. CASE UNCHANGED <<rows, versions, reactions, done>>
  BY <1>1, StreamSteps, TablesFrame
<1>2. ASSUME NEW w \in Persisters, Stores(w)
      PROVE  TablesInv'
  <2> SUFFICES ASSUME NEW n \in MessageIds, WrittenInOrder(n)'
               PROVE  RowRight(n)' /\ ReactionsRight(n)'
    BY DEF TablesInv
  <2>1. PICK i : i = Now(w)
    OBVIOUS
  <2>2. InHand(w) = stream[i]
    BY <2>1 DEF InHand
  <2>3. CASE n = stream[i].id
    BY <1>2, <2>1, <2>3, ItsTables
  <2>4. CASE n # stream[i].id
    BY <1>2, <2>2, <2>4, OtherTables
  <2> QED BY <2>3, <2>4
<1> QED BY <1>1, <1>2, StreamSteps
-----------------------------------------------------------------------------
(* Where the events are, while nothing goes wrong but keys.                 *)

LEMMA UpsetsGrow ==
  ASSUME PersistTypes, [PersistNext]_persistVars
  PROVE  upsets \subseteq upsets'
<1>1. CASE Sends
  BY <1>1 DEF Sends, SendsOut
<1>2. CASE EnableAgain \/ RawKeyStored \/ \E i \in 1..given : Overdue(i)
  BY <1>2 DEF EnableAgain, RawKeyStored, Overdue, Upset, Calmly
<1>3. ASSUME NEW w \in Persisters, Give(w) \/ Acknowledge(w) \/ CrashOf(w) \/ ReactionThere(w) \/ WriteFails(w)
      PROVE  upsets \subseteq upsets'
  BY <1>3 DEF Give, Acknowledge, CrashOf, ReactionThere, WriteFails, Upset, Calmly
<1>4. ASSUME NEW w \in Persisters, Decrypts(w)
      PROVE  upsets \subseteq upsets'
  BY <1>4, DecryptIs DEF Upset, Calmly, KeyMissing
<1>5. ASSUME NEW w \in Persisters, Stores(w)
      PROVE  upsets \subseteq upsets'
  BY <1>5, StoresAre DEF StoresAs, Upset, Calmly
<1>6. CASE UNCHANGED persistVars
  BY <1>6 DEF persistVars
<1>7. PersistNext => Sends \/ (EnableAgain \/ RawKeyStored \/ \E i \in 1..given : Overdue(i)) \/
        \E w \in Persisters : (Give(w) \/ Acknowledge(w) \/ CrashOf(w) \/ ReactionThere(w) \/ WriteFails(w)) \/ Decrypts(w) \/ Stores(w)
  BY PersistSteps DEF PersistTypes
<1> QED BY <1>1, <1>2, <1>3, <1>4, <1>5, <1>6, <1>7

\* The steps there are then.
RestStays == UNCHANGED <<given, due, acked, held, step, keyCache, reactions, crew, done, upsets>>
Delayed(i) == i \in 1..given /\ i \notin acked \cup due /\ ~Holding(i) /\ due' = due \cup {i} /\ UNCHANGED <<stream, tries, given, acked, held, step, keyCache, rawKey, reactions, crew, done, served, upsets>>
AcksQuietly(w) ==
  /\ LetsGo(w) /\ step[w].at = "ack" /\ Now(w) \in Written /\ acked' = acked \cup {Now(w)} /\ due' = due \ {Now(w)}
  /\ UNCHANGED <<stream, tries, given, keyCache, rawKey, reactions, crew, done, served, upsets>>
StoresQuietly(w) ==
  /\ Stores(w) /\ held[w] # <<>> /\ Moves(w, [step[w] EXCEPT !.at = "ack"]) /\ done' = Append(done, Now(w))
  /\ step[w].at \in {"idle", "write"} \/ (step[w].at = "toggle" /\ Now(w) \in Written)
  /\ UNCHANGED <<stream, tries, given, due, acked, keyCache, rawKey, crew, served, upsets>>

LEMMA QuietSteps ==
  ASSUME PersistTypes, [PersistNext]_persistVars, upsets' \subseteq {"key"}
  PROVE  \/ RestStays /\ (Sends \/ EnableAgain \/ RawKeyStored \/ UNCHANGED persistVars)
         \/ \E i \in 1..given : Delayed(i)
         \/ \E w \in Persisters : w \in crew /\
              \/ \E i : GivenAs(w, i)
              \/ AcksQuietly(w) \/ Toggles(w) \/ StoresQuietly(w) \/ Decrypts(w)
<1>1. CASE Sends
  BY <1>1 DEF Sends, SendsOut, RestStays, persistKeys, persistTables
<1>2. CASE EnableAgain \/ RawKeyStored
  BY <1>2 DEF EnableAgain, RawKeyStored, RestStays, persistQueue, persistTables
<1>3. ASSUME NEW i \in 1..given, Overdue(i)
      PROVE  Delayed(i)
  <2>1. ~IsHeld(i)
    BY <1>3 DEF Overdue, Upset
  <2>2. ~Holding(i)
    <3>1. \A w \in Persisters : w \notin crew => DOMAIN held[w] = {}
      BY TypesAre DEF PersistTypes, TypeHeld
    <3> QED BY <2>1, <3>1 DEF IsHeld, Holding
  <2> QED BY <1>3, <2>1, <2>2 DEF Overdue, Delayed, Calmly, persistKeys, persistTables
<1>4. ASSUME NEW w \in Persisters, Give(w)
      PROVE  \E i : GivenAs(w, i)
  BY <1>4, GiveIs DEF PersistTypes
<1>5. ASSUME NEW w \in Persisters, Acknowledge(w)
      PROVE  AcksQuietly(w)
  BY <1>5, AcksAre DEF Acks, AcksQuietly, Upset, Calmly, persistKeys, persistTables
<1>6. ASSUME NEW w \in Persisters, CrashOf(w) \/ WriteFails(w)
      PROVE  FALSE
  BY <1>6 DEF CrashOf, WriteFails, Upset
<1>7. ASSUME NEW w \in Persisters, ReactionThere(w)
      PROVE  Toggles(w)
  BY <1>7, TogglesAre
<1>8. ASSUME NEW w \in Persisters, Stores(w)
      PROVE  StoresQuietly(w)
  BY <1>8, StoresAre DEF StoresAs, StoresQuietly, Upset, Calmly, persistKeys
<1>9. CASE UNCHANGED persistVars
  BY <1>9 DEF persistVars, persistQueue, persistKeys, persistTables, RestStays
<1>10. PersistNext => Sends \/ EnableAgain \/ RawKeyStored \/ (\E i \in 1..given : Overdue(i)) \/
        \E w \in Persisters : w \in crew /\ (Give(w) \/ Acknowledge(w) \/ (CrashOf(w) \/ WriteFails(w)) \/ ReactionThere(w) \/ Decrypts(w) \/ Stores(w))
  BY PersistSteps DEF PersistTypes
<1> QED BY <1>1, <1>2, <1>3, <1>4, <1>5, <1>6, <1>7, <1>8, <1>9, <1>10

\* What is left in the hands when an event is let go: all but it.
LEMMA LeftInHands ==
  ASSUME PersistTypes, NEW w \in Persisters, LetsGo(w)
  PROVE  /\ held[w] \in Seq(Deliveries) /\ held'[w] = Tail(held[w]) /\ Len(held'[w]) = Len(held[w]) - 1 /\ Len(held[w]) \in Nat \ {0}
         /\ DOMAIN held[w] = 1..Len(held[w]) /\ DOMAIN held'[w] = 1..(Len(held[w]) - 1)
         /\ \A d \in DOMAIN held'[w] : d + 1 \in DOMAIN held[w] /\ d + 1 # 1 /\ held'[w][d] = held[w][d + 1]
         /\ 1 \in DOMAIN held[w] /\ Now(w) = held[w][1].of
         /\ \A d \in DOMAIN held[w] : d = 1 \/ \E c \in DOMAIN held'[w] : d = c + 1
         /\ \A v \in Persisters : v # w => held'[v] = held[v]
         /\ \A v \in Persisters : step'[v] = IF v = w THEN AtStart ELSE step[v]
<1>1. held \in [Persisters -> Seq(Deliveries)] /\ step \in [Persisters -> Stages] /\ held[w] \in Seq(Deliveries)
  BY TypesAre DEF PersistTypes, TypeHeld, TypeStep
<1>2. held[w] # <<>> /\ held'[w] = Tail(held[w]) /\ \A v \in Persisters : v # w => held'[v] = held[v]
  BY <1>1 DEF LetsGo, LeavesHand
<1>3. \A v \in Persisters : step'[v] = IF v = w THEN AtStart ELSE step[v]
  BY <1>1 DEF LetsGo, LeavesHand
<1> DEFINE s == held[w] t == held'[w]
<1>4. /\ t \in Seq(Deliveries) /\ Len(t) = Len(s) - 1 /\ Len(s) \in Nat \ {0} /\ 1 \in DOMAIN s
      /\ Head(s) = s[1] /\ \A i \in DOMAIN t : i + 1 \in DOMAIN s /\ t[i] = s[i + 1]
  <2>1. s \in Seq(Deliveries) /\ s # <<>> /\ t = Tail(s)
    BY <1>1, <1>2
  <2> HIDE DEF s, t
  <2> QED BY <2>1, TailOf
<1>5. s \in Seq(Deliveries)
  BY <1>1
<1> HIDE DEF s, t
<1>6. DOMAIN s = 1..Len(s) /\ DOMAIN t = 1..Len(t)
  BY <1>4, <1>5
<1>7. DOMAIN t = 1..(Len(s) - 1)
  BY <1>4, <1>6
<1>8. \A d \in DOMAIN s : d = 1 \/ (d - 1 \in DOMAIN t /\ d = (d - 1) + 1)
  BY <1>4, <1>6, <1>7
<1>9. \A d \in DOMAIN t : d + 1 # 1
  BY <1>4, <1>7
<1> QED BY <1>2, <1>3, <1>4, <1>5, <1>6, <1>7, <1>8, <1>9 DEF s, t, Now

\* What is in the hands when an event is given: it as well, at the end.
LEMMA AddedToHands ==
  ASSUME PersistTypes, NEW w \in Persisters, NEW i, GivenAs(w, i)
  PROVE  /\ held[w] \in Seq(Deliveries) /\ Len(held'[w]) = Len(held[w]) + 1 /\ Len(held[w]) \in Nat
         /\ DOMAIN held'[w] = DOMAIN held[w] \cup {Len(held[w]) + 1} /\ Len(held[w]) + 1 \notin DOMAIN held[w]
         /\ held'[w][Len(held[w]) + 1].of = i /\ held'[w][Len(held[w]) + 1].n = tries[i] + 1
         /\ \A d \in DOMAIN held[w] : held'[w][d] = held[w][d]
         /\ held[w] # <<>> => Head(held'[w]) = Head(held[w])
         /\ \A v \in Persisters : v # w => held'[v] = held[v]
<1>1. held \in [Persisters -> Seq(Deliveries)] /\ held[w] \in Seq(Deliveries)
  BY TypesAre DEF PersistTypes, TypeHeld
<1> DEFINE x == [of |-> i, n |-> tries[i] + 1]
           D == Deliveries \cup {x}
<1>2. held'[w] = Append(held[w], x) /\ \A v \in Persisters : v # w => held'[v] = held[v]
  BY <1>1 DEF GivenAs
<1>3. x \in D /\ Deliveries \subseteq D
  OBVIOUS
<1> HIDE DEF x, D
<1>4. held[w] \in Seq(D)
  BY <1>1, <1>3, SeqGrows
<1>5. /\ Len(held'[w]) = Len(held[w]) + 1
      /\ DOMAIN held'[w] = DOMAIN held[w] \cup {Len(held[w]) + 1} /\ Len(held[w]) + 1 \notin DOMAIN held[w]
      /\ held'[w][Len(held[w]) + 1] = x
      /\ \A d \in DOMAIN held[w] : held'[w][d] = held[w][d]
      /\ held[w] # <<>> => Head(held'[w]) = Head(held[w])
  BY <1>2, <1>3, <1>4, AppendTo
<1>6. Len(held[w]) \in Nat
  BY <1>1
<1>7. x.of = i /\ x.n = tries[i] + 1
  BY DEF x
<1> QED BY <1>1, <1>2, <1>5, <1>6, <1>7

LEMMA PlacedStep ==
  ASSUME PersistTypes, Placed, [PersistNext]_persistVars
  PROVE  Placed'
<1> SUFFICES ASSUME upsets' \subseteq {"key"}
             PROVE  /\ \A v, u \in Persisters : \A c \in DOMAIN held'[v], d \in DOMAIN held'[u] : held'[v][c].of = held'[u][d].of => v = u /\ c = d
                    /\ \A u \in Persisters : \A d \in DOMAIN held'[u] : held'[u][d].of \notin due' \cup acked'
  BY DEF Placed
<1>1. /\ \A v, u \in Persisters : \A c \in DOMAIN held[v], d \in DOMAIN held[u] : held[v][c].of = held[u][d].of => v = u /\ c = d
      /\ \A u \in Persisters : \A d \in DOMAIN held[u] : held[u][d].of \notin due \cup acked
  <2>1. upsets \subseteq {"key"}
    BY UpsetsGrow
  <2> QED BY <2>1 DEF Placed
<1>2. CASE RestStays
  BY <1>1, <1>2 DEF RestStays
<1>3. ASSUME NEW i, Delayed(i)
      PROVE  /\ \A v, u \in Persisters : \A c \in DOMAIN held'[v], d \in DOMAIN held'[u] : held'[v][c].of = held'[u][d].of => v = u /\ c = d
             /\ \A u \in Persisters : \A d \in DOMAIN held'[u] : held'[u][d].of \notin due' \cup acked'
  BY <1>1, <1>3 DEF Delayed, Holding
<1>4. ASSUME NEW w \in Persisters, LetsGo(w), due' \cup acked' \subseteq due \cup acked \cup {Now(w)}
      PROVE  /\ \A v, u \in Persisters : \A c \in DOMAIN held'[v], d \in DOMAIN held'[u] : held'[v][c].of = held'[u][d].of => v = u /\ c = d
             /\ \A u \in Persisters : \A d \in DOMAIN held'[u] : held'[u][d].of \notin due' \cup acked'
  <2>1. /\ \A d \in DOMAIN held'[w] : d + 1 \in DOMAIN held[w] /\ d + 1 # 1 /\ held'[w][d] = held[w][d + 1]
        /\ 1 \in DOMAIN held[w] /\ Now(w) = held[w][1].of /\ \A v \in Persisters : v # w => held'[v] = held[v]
        /\ DOMAIN held'[w] = 1..(Len(held[w]) - 1) /\ Len(held[w]) \in Nat \ {0}
    BY <1>4, LeftInHands
  <2>2. \A c, d \in DOMAIN held'[w] : c + 1 = d + 1 => c = d
    BY <2>1
  <2> DEFINE P(v, c) == IF v = w THEN c + 1 ELSE c
  <2>3. \A v \in Persisters : \A c \in DOMAIN held'[v] : P(v, c) \in DOMAIN held[v] /\ held'[v][c] = held[v][P(v, c)] /\ (v # w \/ P(v, c) # 1)
    BY <2>1
  <2>4. \A v \in Persisters : \A c, d \in DOMAIN held'[v] : P(v, c) = P(v, d) => c = d
    BY <2>1, <2>2
  <2> HIDE DEF P
  <2>5. \A v, u \in Persisters : \A c \in DOMAIN held'[v], d \in DOMAIN held'[u] : held'[v][c].of = held'[u][d].of => v = u /\ c = d
    <3> SUFFICES ASSUME NEW v \in Persisters, NEW u \in Persisters, NEW c \in DOMAIN held'[v], NEW d \in DOMAIN held'[u], held'[v][c].of = held'[u][d].of
                 PROVE  v = u /\ c = d
      OBVIOUS
    <3>1. v = u /\ P(v, c) = P(u, d)
      BY <1>1, <2>3
    <3> QED BY <2>4, <3>1
  <2>6. \A u \in Persisters : \A d \in DOMAIN held'[u] : held'[u][d].of \notin due' \cup acked'
    <3> SUFFICES ASSUME NEW u \in Persisters, NEW d \in DOMAIN held'[u]
                 PROVE  held'[u][d].of \notin due' \cup acked'
      OBVIOUS
    <3>1. held'[u][d].of \notin due \cup acked
      BY <1>1, <2>3
    <3>2. held'[u][d].of # Now(w)
      BY <1>1, <2>1, <2>3
    <3> QED BY <1>4, <3>1, <3>2
  <2> QED BY <2>5, <2>6
<1>5. ASSUME NEW w \in Persisters, NEW i, GivenAs(w, i)
      PROVE  /\ \A v, u \in Persisters : \A c \in DOMAIN held'[v], d \in DOMAIN held'[u] : held'[v][c].of = held'[u][d].of => v = u /\ c = d
             /\ \A u \in Persisters : \A d \in DOMAIN held'[u] : held'[u][d].of \notin due' \cup acked'
  <2>1. /\ DOMAIN held'[w] = DOMAIN held[w] \cup {Len(held[w]) + 1} /\ Len(held[w]) + 1 \notin DOMAIN held[w]
        /\ held'[w][Len(held[w]) + 1].of = i
        /\ \A d \in DOMAIN held[w] : held'[w][d] = held[w][d]
        /\ \A v \in Persisters : v # w => held'[v] = held[v]
    BY <1>5, AddedToHands
  <2>2. \A u \in Persisters : \A d \in DOMAIN held[u] : held[u][d].of # i
    <3>1. \A u \in Persisters : \A d \in DOMAIN held[u] : held[u][d].of \in 1..given
      <4>1. \A u \in Persisters : held[u] \in Seq(Deliveries)
        BY TypesAre DEF PersistTypes, TypeHeld
      <4>2. \A u \in Persisters : \A d \in DOMAIN held[u] : held[u][d] \in Deliveries
        BY <4>1
      <4> QED BY <4>2 DEF Deliveries
    <3>2. given + 1 \notin 1..given
      BY TypesAre DEF PersistTypes, TypeGiven
    <3> QED BY <1>1, <1>5, <3>1, <3>2 DEF GivenAs
  <2>3. i \notin due' \cup acked' /\ due' \cup acked' \subseteq due \cup acked
    <3>1. due \cap acked = {} /\ acked \subseteq 1..given /\ given + 1 \notin 1..given
      BY TypesAre DEF PersistTypes, TypeGiven
    <3> QED BY <1>5, <3>1 DEF GivenAs
  <2> DEFINE Is(v, c) == v = w /\ c = Len(held[w]) + 1
  <2>4. \A v \in Persisters : \A c \in DOMAIN held'[v] : IF Is(v, c) THEN held'[v][c].of = i ELSE c \in DOMAIN held[v] /\ held'[v][c] = held[v][c]
    BY <2>1
  <2>5. \A v, u \in Persisters : \A c \in DOMAIN held'[v], d \in DOMAIN held'[u] : held'[v][c].of = held'[u][d].of => v = u /\ c = d
    BY <1>1, <2>2, <2>4
  <2>6. \A u \in Persisters : \A d \in DOMAIN held'[u] : held'[u][d].of \notin due' \cup acked'
    BY <1>1, <2>3, <2>4
  <2> QED BY <2>5, <2>6
<1>6. ASSUME NEW w \in Persisters, AcksQuietly(w)
      PROVE  LetsGo(w) /\ due' \cup acked' \subseteq due \cup acked \cup {Now(w)}
  BY <1>6 DEF AcksQuietly
<1>7. ASSUME NEW w \in Persisters, Toggles(w) \/ StoresQuietly(w)
      PROVE  UNCHANGED <<held, due, acked>>
  BY <1>7 DEF Toggles, StoresQuietly, Moves, persistQueue
<1>8. ASSUME NEW w \in Persisters, Decrypts(w)
      PROVE  UNCHANGED <<held, due, acked>> \/ (LetsGo(w) /\ due' \cup acked' \subseteq due \cup acked \cup {Now(w)})
  BY <1>8, DecryptIs DEF Moves
<1>9. CASE UNCHANGED <<held, due, acked>>
  BY <1>1, <1>9
<1> QED BY <1>2, <1>3, <1>4, <1>5, <1>6, <1>7, <1>8, <1>9, QuietSteps

LEMMA MovesIs ==
  ASSUME PersistTypes, NEW w \in Persisters, NEW at, Moves(w, at)
  PROVE  held' = held /\ \A v \in Persisters : step'[v] = IF v = w THEN at ELSE step[v]
<1>1. step \in [Persisters -> Stages]
  BY TypesAre DEF PersistTypes, TypeStep
<1> QED BY <1>1 DEF Moves

\* Without trouble every text is opened.
LEMMA OpensAlways ==
  ASSUME PersistTypes, NEW w \in Persisters, Decrypts(w), upsets' = {}
  PROVE  Moves(w, [at |-> "write", cipher |-> FALSE])
<1>1. ASSUME NEW c, NEW k, OpensWith(w, c, k)
      PROVE  Opened(w)
  BY <1>1 DEF OpensWith, KeyMissing
<1>2. Opened(w)
  BY <1>1 DEF Decrypts, DecryptCached, DecryptFetched, KeyMissing, Upset
<1> QED BY <1>2 DEF Opened, Moves

\* What an instance has not written, nobody has.
LEMMA FreshHand ==
  ASSUME PersistTypes, Placed, OnceInv, upsets = {}, NEW w \in Persisters, held[w] # <<>>, step[w].at # "ack"
  PROVE  Now(w) \notin Written
<1>1. \A v \in Persisters : held[v] # <<>> => 1 \in DOMAIN held[v] /\ Now(v) = held[v][1].of
  BY InHandIs DEF PersistTypes, Now
<1>2. Now(w) \notin acked
  BY <1>1 DEF Placed
<1>3. \A v \in Persisters : step[v].at = "ack" /\ Now(v) = Now(w) => v = w
  <2>1. \A v \in Persisters : step[v].at = "ack" => held[v] # <<>>
    BY DEF PersistTypes, StepFits, AtStart
  <2> QED BY <1>1, <2>1 DEF Placed
<1> QED BY <1>2, <1>3 DEF OnceInv

LEMMA OnceStep ==
  ASSUME PersistTypes, Placed, OnceInv, [PersistNext]_persistVars
  PROVE  OnceInv'
<1> SUFFICES ASSUME upsets' = {}
             PROVE  OnceInv'
  BY DEF OnceInv
<1>1. upsets = {}
  BY UpsetsGrow
<1>2. /\ due = {} /\ \A i \in 1..given : i \in acked \/ Holding(i)
      /\ \A i \in Written : i \in acked \/ \E w \in Persisters : step[w].at = "ack" /\ Now(w) = i
      /\ \A w \in Persisters : step[w].at # "toggle"
      /\ \A i, j \in DOMAIN done : done[i] = done[j] => i = j
  BY <1>1 DEF OnceInv
<1>3. PersistTypes'
  BY TypesStep
<1>4. CASE RestStays
  BY <1>2, <1>4 DEF RestStays, OnceInv, Holding, Written, Now
<1>5. ASSUME NEW i \in 1..given, Delayed(i)
      PROVE  FALSE
  BY <1>2, <1>5 DEF Delayed
<1>6. ASSUME NEW w \in Persisters, NEW i, GivenAs(w, i)
      PROVE  OnceInv'
  <2>1. i = given + 1 /\ given' = given + 1 /\ due' = {} /\ UNCHANGED <<acked, step, done>>
    <3>1. given \in Nat /\ i = given + 1
      BY <1>2, <1>6, TypesAre DEF PersistTypes, TypeGiven, GivenAs
    <3> QED BY <1>2, <1>6, <3>1 DEF GivenAs
  <2>2. /\ DOMAIN held'[w] = DOMAIN held[w] \cup {Len(held[w]) + 1} /\ held'[w][Len(held[w]) + 1].of = i
        /\ \A d \in DOMAIN held[w] : held'[w][d] = held[w][d]
        /\ held[w] # <<>> => Head(held'[w]) = Head(held[w])
        /\ \A v \in Persisters : v # w => held'[v] = held[v]
    BY <1>6, AddedToHands
  <2>3. \A j : Holding(j) => Holding(j)'
    <3> SUFFICES ASSUME NEW j, Holding(j)
                 PROVE  \E v \in Persisters : \E d \in DOMAIN held'[v] : held'[v][d].of = j
      BY DEF Holding
    <3>1. PICK v \in Persisters : \E d \in DOMAIN held[v] : held[v][d].of = j
      BY DEF Holding
    <3>2. PICK d \in DOMAIN held[v] : held[v][d].of = j
      BY <3>1
    <3>3. d \in DOMAIN held'[v] /\ held'[v][d] = held[v][d]
      BY <2>2
    <3> QED BY <3>2, <3>3
  <2>4. Holding(i)'
    BY <2>2 DEF Holding
  <2>5. \A j \in 1..(given + 1) : j \in acked \/ Holding(j)'
    <3>1. \A j \in 1..(given + 1) : j \in 1..given \/ j = i
      BY <2>1, TypesAre DEF PersistTypes, TypeGiven
    <3> QED BY <1>2, <2>3, <2>4, <3>1
  <2>6. \A v \in Persisters : step[v].at = "ack" => Now(v)' = Now(v)
    <3>1. \A v \in Persisters : step[v].at = "ack" => held[v] # <<>>
      BY DEF PersistTypes, StepFits, AtStart
    <3> QED BY <2>2, <3>1 DEF Now
  <2>7. Written' = Written
    BY <2>1 DEF Written
  <2>8. \A j \in Written' : j \in acked' \/ \E v \in Persisters : step'[v].at = "ack" /\ Head(held'[v]).of = j
    BY <1>2, <2>1, <2>6, <2>7 DEF Now
  <2> QED BY <1>2, <2>1, <2>5, <2>8 DEF OnceInv, Now
<1>7. ASSUME NEW w \in Persisters, AcksQuietly(w)
      PROVE  OnceInv'
  <2>1. LetsGo(w) /\ step[w].at = "ack" /\ acked' = acked \cup {Now(w)} /\ due' = {} /\ UNCHANGED <<given, done>>
    BY <1>2, <1>7 DEF AcksQuietly
  <2>2. /\ \A d \in DOMAIN held[w] : d = 1 \/ \E c \in DOMAIN held'[w] : d = c + 1
        /\ \A d \in DOMAIN held'[w] : d + 1 \in DOMAIN held[w] /\ held'[w][d] = held[w][d + 1]
        /\ 1 \in DOMAIN held[w] /\ Now(w) = held[w][1].of
        /\ \A v \in Persisters : v # w => held'[v] = held[v]
        /\ \A v \in Persisters : step'[v] = IF v = w THEN AtStart ELSE step[v]
    BY <2>1, LeftInHands
  <2>3. \A j : Holding(j) => j = Now(w) \/ Holding(j)'
    <3> SUFFICES ASSUME NEW j, Holding(j), j # Now(w)
                 PROVE  \E v \in Persisters : \E d \in DOMAIN held'[v] : held'[v][d].of = j
      BY DEF Holding
    <3>1. PICK v \in Persisters : \E d \in DOMAIN held[v] : held[v][d].of = j
      BY DEF Holding
    <3>2. PICK d \in DOMAIN held[v] : held[v][d].of = j
      BY <3>1
    <3> QED BY <2>2, <3>2
  <2>4. \A j \in 1..given' : j \in acked' \/ Holding(j)'
    BY <1>2, <2>1, <2>3
  <2>5. \A j \in Written' : j \in acked' \/ \E v \in Persisters : step'[v].at = "ack" /\ Head(held'[v]).of = j
    <3> SUFFICES ASSUME NEW j \in Written', j \notin acked'
                 PROVE  \E v \in Persisters : step'[v].at = "ack" /\ Head(held'[v]).of = j
      OBVIOUS
    <3>1. Written' = Written
      BY <2>1 DEF Written
    <3>2. PICK v \in Persisters : step[v].at = "ack" /\ Now(v) = j
      BY <1>2, <2>1, <3>1
    <3>3. v # w
      BY <2>1, <3>2
    <3>4. step'[v].at = "ack" /\ Head(held'[v]).of = j
      BY <2>2, <3>2, <3>3 DEF Now
    <3> QED BY <3>4
  <2>6. \A v \in Persisters : step'[v].at # "toggle"
    BY <1>2, <2>2 DEF AtStart
  <2> QED BY <1>2, <2>1, <2>4, <2>5, <2>6 DEF OnceInv, Now
<1>8. ASSUME NEW w \in Persisters, Toggles(w)
      PROVE  FALSE
  BY <1>1, <1>8, FreshHand DEF Toggles, PersistTypes, WrittenInv
<1>9. ASSUME NEW w \in Persisters, StoresQuietly(w)
      PROVE  OnceInv'
  <2>1. /\ held[w] # <<>> /\ Moves(w, [step[w] EXCEPT !.at = "ack"]) /\ done' = Append(done, Now(w)) /\ UNCHANGED <<given, due, acked>>
        /\ step[w].at \in {"idle", "write"}
    BY <1>2, <1>9 DEF StoresQuietly
  <2>2. held' = held /\ \A v \in Persisters : step'[v] = IF v = w THEN [step[w] EXCEPT !.at = "ack"] ELSE step[v]
    BY <2>1, MovesIs
  <2>3. step'[w].at = "ack" /\ \A v \in Persisters : v # w => step'[v] = step[v]
    <3>1. step[w] \in Stages
      BY TypesAre, AnInstance DEF PersistTypes
    <3> QED BY <2>2, <3>1 DEF Stages
  <2>4. Now(w) \notin Written /\ Now(w) \in 1..given /\ Written' = Written \cup {Now(w)} /\ done \in Seq(1..given)
    BY <1>1, <2>1, FreshHand, InHandIs, WrittenGrows, TypesAre DEF PersistTypes, TypeDone
  <2>5. \A i, j \in DOMAIN done' : done'[i] = done'[j] => i = j
    <3>1. DOMAIN done' = DOMAIN done \cup {Len(done) + 1} /\ done'[Len(done) + 1] = Now(w) /\ \A j \in DOMAIN done : done'[j] = done[j]
      BY <2>1, <2>4, AppendTo
    <3>2. \A j \in DOMAIN done : done[j] # Now(w)
      BY <2>4 DEF Written, ToSet
    <3> QED BY <1>2, <3>1, <3>2
  <2>6. \A j \in Written' : j \in acked' \/ \E v \in Persisters : step'[v].at = "ack" /\ Head(held'[v]).of = j
    <3> SUFFICES ASSUME NEW j \in Written', j \notin acked'
                 PROVE  \E v \in Persisters : step'[v].at = "ack" /\ Head(held'[v]).of = j
      OBVIOUS
    <3>1. CASE j = Now(w)
      BY <2>2, <2>3, <3>1 DEF Now
    <3>2. CASE j # Now(w)
      <4>1. PICK v \in Persisters : step[v].at = "ack" /\ Now(v) = j
        BY <1>2, <2>1, <2>4, <3>2
      <4> QED BY <2>2, <2>3, <3>2, <4>1 DEF Now
    <3> QED BY <3>1, <3>2
  <2>7. \A j \in 1..given' : j \in acked' \/ Holding(j)'
    BY <1>2, <2>1, <2>2 DEF Holding
  <2>8. \A v \in Persisters : step'[v].at # "toggle"
    BY <1>2, <2>3
  <2> QED BY <1>2, <2>1, <2>5, <2>6, <2>7, <2>8 DEF OnceInv, Now
<1>10. ASSUME NEW w \in Persisters, Decrypts(w)
       PROVE  OnceInv'
  <2>1. Moves(w, [at |-> "write", cipher |-> FALSE]) /\ step[w].at = "idle" /\ UNCHANGED <<given, due, acked, done>>
    BY <1>10, OpensAlways, DecryptIs
  <2>2. held' = held /\ \A v \in Persisters : step'[v] = IF v = w THEN [at |-> "write", cipher |-> FALSE] ELSE step[v]
    BY <2>1, MovesIs
  <2>3. \A v \in Persisters : (step'[v].at = "ack" <=> step[v].at = "ack") /\ step'[v].at # "toggle"
    BY <1>2, <2>1, <2>2
  <2>4. \A j \in Written' : j \in acked' \/ \E v \in Persisters : step'[v].at = "ack" /\ Head(held'[v]).of = j
    BY <1>2, <2>1, <2>2, <2>3 DEF Written, Now
  <2>5. \A j \in 1..given' : j \in acked' \/ Holding(j)'
    BY <1>2, <2>1, <2>2 DEF Holding
  <2> QED BY <1>2, <2>1, <2>3, <2>4, <2>5 DEF OnceInv, Now
<1>11. upsets' \subseteq {"key"}
  OBVIOUS
<1> QED BY <1>4, <1>5, <1>6, <1>7, <1>8, <1>9, <1>10, <1>11, QuietSteps

\* The order of one instance alone.
InLine(w) ==
  /\ \A d \in DOMAIN held[w] : held[w][d].of = given - Len(held[w]) + d
  /\ \A i \in DOMAIN done : done[i] = i
  /\ Len(done) = given - Len(held[w]) + (IF step[w].at = "ack" THEN 1 ELSE 0)

LEMMA AloneStep ==
  ASSUME PersistTypes, OnceInv, AloneInv, [PersistNext]_persistVars
  PROVE  AloneInv'
<1> SUFFICES ASSUME upsets' = {}, NEW w \in Persisters, crew' = {w}
             PROVE  InLine(w)'
  BY DEF AloneInv, InLine
<1>1. upsets = {} /\ due = {} /\ \A v \in Persisters : step[v].at # "toggle"
  BY UpsetsGrow DEF OnceInv
<1>2. /\ given \in Nat /\ held[w] \in Seq(Deliveries) /\ Len(held[w]) \in Nat /\ done \in Seq(1..given) /\ Len(done) \in Nat
      /\ step[w] \in Stages
  BY TypesAre DEF PersistTypes, TypeGiven, TypeHeld, TypeDone, TypeStep
<1>3. crew = {w} => InLine(w)
  BY <1>1 DEF AloneInv, InLine
<1>4. CASE RestStays
  <2>1. crew = {w}
    BY <1>4 DEF RestStays
  <2> QED BY <1>3, <1>4, <2>1 DEF RestStays, InLine
<1>5. ASSUME NEW i \in 1..given, Delayed(i)
      PROVE  InLine(w)'
  BY <1>3, <1>5 DEF Delayed, InLine
<1>6. ASSUME NEW v \in Persisters, v \in crew, NEW i, GivenAs(v, i)
      PROVE  InLine(w)'
  <2>1. crew = {w} /\ v = w /\ UNCHANGED <<step, done>>
    BY <1>6 DEF GivenAs
  <2>2. given' = given + 1 /\ i = given + 1
    <3>1. i = given + 1
      BY <1>1, <1>6 DEF GivenAs
    <3> QED BY <1>2, <1>6, <3>1 DEF GivenAs
  <2>3. InLine(w)
    BY <1>3, <2>1
  <2>4. /\ DOMAIN held'[w] = DOMAIN held[w] \cup {Len(held[w]) + 1} /\ held'[w][Len(held[w]) + 1].of = i
        /\ \A d \in DOMAIN held[w] : held'[w][d] = held[w][d]
        /\ Len(held'[w]) = Len(held[w]) + 1
    BY <1>6, <2>1, AddedToHands
  <2>5. ASSUME NEW d \in DOMAIN held'[w]
        PROVE  held'[w][d].of = given' - Len(held'[w]) + d
    <3>1. CASE d \in DOMAIN held[w]
      <4>1. held[w][d].of = given - Len(held[w]) + d
        BY <2>3, <3>1 DEF InLine
      <4>2. held'[w][d] = held[w][d]
        BY <2>4, <3>1
      <4>3. given' - Len(held'[w]) = given - Len(held[w])
        <5>1. Len(held'[w]) = Len(held[w]) + 1
          BY <2>4
        <5> QED BY <1>2, <2>2, <5>1
      <4> QED BY <4>1, <4>2, <4>3
    <3>2. CASE d = Len(held[w]) + 1
      <4>1. held'[w][d].of = given + 1
        BY <2>2, <2>4, <3>2
      <4>2. given' - Len(held'[w]) + d = given + 1
        <5>1. Len(held'[w]) = Len(held[w]) + 1
          BY <2>4
        <5>2. given \in Nat /\ Len(held[w]) \in Nat
          BY <1>2
        <5>3. given' - Len(held'[w]) = given - Len(held[w])
          BY <2>2, <5>1, <5>2
        <5>4. given - Len(held[w]) + d = given + 1
          <6>1. \A a, b \in Nat : a - b + (b + 1) = a + 1
            OBVIOUS
          <6>2. given - Len(held[w]) + (Len(held[w]) + 1) = given + 1
            BY <5>2, <6>1
          <6> QED BY <3>2, <6>2
        <5> QED BY <5>3, <5>4
      <4> QED BY <4>1, <4>2
    <3> QED BY <2>4, <3>1, <3>2
  <2>6. Len(done) = given' - Len(held'[w]) + (IF step[w].at = "ack" THEN 1 ELSE 0)
    <3>1. Len(done) = given - Len(held[w]) + (IF step[w].at = "ack" THEN 1 ELSE 0)
      BY <2>3 DEF InLine
    <3> QED BY <1>2, <2>2, <2>4, <3>1
  <2> QED BY <2>1, <2>3, <2>5, <2>6 DEF InLine
<1>7. ASSUME NEW v \in Persisters, v \in crew, AcksQuietly(v)
      PROVE  InLine(w)'
  <2>1. crew = {w} /\ v = w /\ UNCHANGED <<given, done>> /\ LetsGo(w) /\ step[w].at = "ack"
    BY <1>7 DEF AcksQuietly
  <2>2. InLine(w)
    BY <1>3, <2>1
  <2>3. /\ Len(held'[w]) = Len(held[w]) - 1 /\ Len(held[w]) \in Nat \ {0}
        /\ DOMAIN held'[w] = 1..(Len(held[w]) - 1)
        /\ \A d \in DOMAIN held'[w] : d + 1 \in DOMAIN held[w] /\ held'[w][d] = held[w][d + 1]
        /\ step'[w] = AtStart
    BY <2>1, LeftInHands
  <2>4. ASSUME NEW d \in DOMAIN held'[w]
        PROVE  held'[w][d].of = given' - Len(held'[w]) + d
    <3>1. held'[w][d].of = given - Len(held[w]) + (d + 1) /\ d \in Nat
      BY <2>2, <2>3 DEF InLine
    <3> QED BY <1>2, <2>1, <2>3, <3>1
  <2>5. Len(done) = given' - Len(held'[w]) + (IF step'[w].at = "ack" THEN 1 ELSE 0)
    <3>1. Len(done) = given - Len(held[w]) + 1 /\ step'[w].at = "idle"
      BY <2>1, <2>2, <2>3 DEF InLine, AtStart
    <3> QED BY <1>2, <2>1, <2>3, <3>1
  <2> QED BY <2>1, <2>2, <2>4, <2>5 DEF InLine
<1>8. ASSUME NEW v \in Persisters, v \in crew, Toggles(v)
      PROVE  InLine(w)'
  <2>1. crew = {w} /\ v = w /\ UNCHANGED <<given, done>> /\ Moves(w, [step[w] EXCEPT !.at = "toggle"]) /\ step[w].at \in {"idle", "write"}
    BY <1>8 DEF Toggles, persistQueue
  <2>2. held' = held /\ step'[w].at = "toggle"
    BY <1>2, <2>1, MovesIs DEF Stages
  <2> QED BY <1>3, <2>1, <2>2 DEF InLine
<1>9. ASSUME NEW v \in Persisters, v \in crew, StoresQuietly(v)
      PROVE  InLine(w)'
  <2>1. /\ crew = {w} /\ v = w /\ UNCHANGED given /\ held[w] # <<>> /\ Moves(w, [step[w] EXCEPT !.at = "ack"]) /\ done' = Append(done, Now(w))
        /\ step[w].at # "ack"
    BY <1>9 DEF StoresQuietly
  <2>2. held' = held /\ step'[w].at = "ack"
    BY <1>2, <2>1, MovesIs DEF Stages
  <2>3. InLine(w)
    BY <1>3, <2>1
  <2>4. Len(done) = given - Len(held[w])
    BY <1>2, <2>1, <2>3 DEF InLine
  <2>5. Now(w) = Len(done) + 1 /\ Now(w) \in 1..given
    <3>1. 1 \in DOMAIN held[w] /\ Now(w) = held[w][1].of /\ Now(w) \in 1..given
      BY <2>1, InHandIs DEF PersistTypes, Now
    <3>2. held[w][1].of = given - Len(held[w]) + 1
      BY <2>3, <3>1 DEF InLine
    <3> QED BY <2>4, <3>1, <3>2
  <2>6. DOMAIN done' = DOMAIN done \cup {Len(done) + 1} /\ done'[Len(done) + 1] = Now(w) /\ (\A j \in DOMAIN done : done'[j] = done[j]) /\ Len(done') = Len(done) + 1
    BY <1>2, <2>1, <2>5, AppendTo
  <2>7. \A i \in DOMAIN done' : done'[i] = i
    BY <2>3, <2>5, <2>6 DEF InLine
  <2>8. \A d \in DOMAIN held'[w] : held'[w][d].of = given' - Len(held'[w]) + d
    BY <2>1, <2>2, <2>3 DEF InLine
  <2>9. Len(done') = given' - Len(held'[w]) + (IF step'[w].at = "ack" THEN 1 ELSE 0)
    BY <1>2, <2>1, <2>2, <2>4, <2>6
  <2> QED BY <2>7, <2>8, <2>9 DEF InLine
<1>10. ASSUME NEW v \in Persisters, v \in crew, Decrypts(v)
       PROVE  InLine(w)'
  <2>1. Moves(v, [at |-> "write", cipher |-> FALSE]) /\ step[v].at = "idle" /\ UNCHANGED <<given, crew, done>>
    BY <1>10, OpensAlways, DecryptIs
  <2>2. crew = {w} /\ v = w
    BY <1>10, <2>1
  <2>3. held' = held /\ step'[w].at = "write"
    BY <2>1, <2>2, MovesIs
  <2> QED BY <1>3, <2>1, <2>2, <2>3 DEF InLine
<1>11. upsets' \subseteq {"key"}
  OBVIOUS
<1> QED BY <1>4, <1>5, <1>6, <1>7, <1>8, <1>9, <1>10, <1>11, QuietSteps
-----------------------------------------------------------------------------
(* The keys.                                                                *)

\* What an attempt does with the cache, and why it may fail.
CacheBecomes(w, c) ==
  /\ c \in Seq(CachedKey) /\ keyCache' = [keyCache EXCEPT ![w] = c] /\ OnePerEpoch(c)
  /\ \A i \in DOMAIN c : (\E j \in DOMAIN keyCache[w] : c[i] = keyCache[w][j]) \/ c[i] = [epoch |-> InHand(w).lock.epoch, key |-> rawKey[InHand(w).lock.epoch]]
FailsFairly(w, c) ==
  \/ "failure" \in upsets'
  \/ rawKey[InHand(w).lock.epoch] # InHand(w).lock.key
  \/ ~Clean(w, Now(w)) /\ \A i \in DOMAIN c : c[i].epoch # InHand(w).lock.epoch
Attempt(w, c) == Moves(w, [at |-> "write", cipher |-> FALSE]) \/ (NotDecrypted(w) /\ FailsFairly(w, c))

LEMMA DecryptKeys ==
  ASSUME PersistTypes, KeysInv, NEW w \in Persisters, Decrypts(w)
  PROVE  \E c : CacheBecomes(w, c) /\ Attempt(w, c)
<1> DEFINE e == InHand(w).lock.epoch
           key == InHand(w).lock.key
           s == keyCache[w]
           x == [epoch |-> e, key |-> rawKey[e]]
<1>1. e \in KeyEpochs /\ InHand(w).lock # InPlain /\ held[w] # <<>> /\ Now(w) \in DOMAIN stream /\ InHand(w) = stream[Now(w)]
  BY DecryptIs, InHandIs DEF PersistTypes, InHand
<1>2. key \in 1..made[e]
  BY <1>1 DEF PersistTypes, LocksFit
<1>3. /\ keyCache \in [Persisters -> Seq(CachedKey)] /\ s \in Seq(CachedKey) /\ Len(s) <= KeptKeys /\ rawKey \in [KeyEpochs -> Nat]
  BY TypesAre DEF PersistTypes, TypeCache, TypeKeys
<1>4. OnePerEpoch(s)
  BY DEF KeysInv, OnePerEpoch
<1>5. CASE DecryptCached(w)
  <2>1. PICK i \in CachedKeys(w, e) : OpensWith(w, s, s[i].key)
    BY <1>5 DEF DecryptCached
  <2>2. CASE s[i].key = key
    <3>1. keyCache' = [keyCache EXCEPT ![w] = s] /\ Opened(w)
      BY <2>1, <2>2 DEF OpensWith
    <3>2. CacheBecomes(w, s)
      BY <1>3, <1>4, <3>1 DEF CacheBecomes
    <3> QED BY <3>1, <3>2 DEF Attempt, Opened, Moves
  <2>3. CASE s[i].key # key
    <3> DEFINE c == WithoutEpoch(s, e)
    <3>1. keyCache' = [keyCache EXCEPT ![w] = c] /\ NotDecrypted(w)
      BY <2>1, <2>3 DEF OpensWith
    <3>2. /\ c \in Seq(CachedKey)
          /\ \A j \in DOMAIN c : \E k \in DOMAIN s : c[j] = s[k]
          /\ OnePerEpoch(c) /\ \A j \in DOMAIN c : c[j].epoch # e
      BY <1>3, <1>4, WithoutIs
    <3>3. ~Clean(w, Now(w))
      BY <1>1, <2>1, <2>3 DEF Clean, CachedKeys
    <3> HIDE DEF c
    <3>4. CacheBecomes(w, c)
      BY <3>1, <3>2 DEF CacheBecomes
    <3>5. FailsFairly(w, c)
      BY <3>2, <3>3 DEF FailsFairly
    <3> QED BY <3>1, <3>4, <3>5 DEF Attempt
  <2> QED BY <2>2, <2>3
<1>6. CASE DecryptFetched(w)
  <2>1. CachedKeys(w, e) = {}
    BY <1>6 DEF DecryptFetched
  <2>2. \A j \in DOMAIN s : s[j].epoch # e
    BY <2>1 DEF CachedKeys
  <2>3. CASE OpensWith(w, WithKey(s, x), rawKey[e])
    <3> DEFINE t == WithKey(s, x)
    <3>1. x \in CachedKey /\ x.epoch = e
      BY <1>1, <1>3 DEF CachedKey
    <3>2. OpensWith(w, t, rawKey[e])
      BY <2>3
    <3> HIDE DEF x
    <3>3. /\ t \in Seq(CachedKey) /\ Len(t) <= KeptKeys
          /\ \A j \in DOMAIN t : t[j] = x \/ \E k \in DOMAIN s : t[j] = s[k]
          /\ OnePerEpoch(t)
      BY <1>3, <1>4, <2>2, <3>1, WithKeyIs
    <3> HIDE DEF t
    <3>4. CASE rawKey[e] = key
      <4>1. keyCache' = [keyCache EXCEPT ![w] = t] /\ Opened(w)
        BY <3>2, <3>4 DEF OpensWith
      <4>2. CacheBecomes(w, t)
        BY <3>3, <4>1 DEF CacheBecomes, x
      <4> QED BY <4>1, <4>2 DEF Attempt, Opened, Moves
    <3>5. CASE rawKey[e] # key
      <4> DEFINE c == WithoutEpoch(t, e)
      <4>1. keyCache' = [keyCache EXCEPT ![w] = c] /\ NotDecrypted(w)
        BY <3>2, <3>5 DEF OpensWith
      <4>2. c \in Seq(CachedKey) /\ OnePerEpoch(c) /\ \A j \in DOMAIN c : \E k \in DOMAIN t : c[j] = t[k]
        BY <3>3, WithoutIs
      <4> HIDE DEF c
      <4>3. \A j \in DOMAIN c : c[j] = x \/ \E k \in DOMAIN s : c[j] = s[k]
        BY <3>3, <4>2
      <4>4. CacheBecomes(w, c)
        BY <4>1, <4>2, <4>3 DEF CacheBecomes, x
      <4>5. FailsFairly(w, c)
        BY <3>5 DEF FailsFairly
      <4> QED BY <4>1, <4>4, <4>5 DEF Attempt
    <3> QED BY <3>4, <3>5
  <2>4. CASE (IF rawKey[e] = 0 THEN KeyMissing ELSE Upset("failure")) /\ NotDecrypted(w) /\ UNCHANGED keyCache
    <3>1. keyCache' = [keyCache EXCEPT ![w] = s]
      BY <1>3, <2>4
    <3>2. CacheBecomes(w, s)
      BY <1>3, <1>4, <3>1 DEF CacheBecomes
    <3>3. rawKey[e] = 0 => rawKey[e] # key
      BY <1>2
    <3>4. FailsFairly(w, s)
      BY <2>4, <3>3 DEF FailsFairly, Upset
    <3> QED BY <2>4, <3>2, <3>4 DEF Attempt
  <2> QED BY <1>6, <2>3, <2>4 DEF DecryptFetched
<1> QED BY <1>5, <1>6 DEF Decrypts

\* A step leaves made, the keys of the service and what was served, or adds to them.
KeysStay == UNCHANGED <<stream, made, rawKey, served, keyCache>>

LEMMA KeySteps ==
  ASSUME PersistTypes, [PersistNext]_persistVars
  PROVE  \/ KeysStay \/ Sends \/ EnableAgain \/ RawKeyStored
         \/ \E w \in Persisters : CrashOf(w) \/ Decrypts(w)
<1>1. ASSUME NEW i, Overdue(i)
      PROVE  KeysStay
  BY <1>1 DEF Overdue, KeysStay, persistKeys
<1>2. ASSUME NEW w \in Persisters, Give(w) \/ Acknowledge(w) \/ ReactionThere(w) \/ WriteFails(w)
      PROVE  KeysStay
  BY <1>2 DEF Give, Acknowledge, ReactionThere, WriteFails, KeysStay, persistKeys, persistQueue
<1>3. ASSUME NEW w \in Persisters, Stores(w)
      PROVE  KeysStay
  BY <1>3, StoresAre DEF StoresAs, KeysStay, persistKeys
<1>4. CASE UNCHANGED persistVars
  BY <1>4 DEF persistVars, KeysStay, persistKeys, persistQueue
<1> QED BY <1>1, <1>2, <1>3, <1>4, PersistSteps DEF PersistTypes

LEMMA KeysStep ==
  ASSUME PersistTypes, KeysInv, [PersistNext]_persistVars
  PROVE  KeysInv' /\ \A e \in KeyEpochs : rawKey[e] <= rawKey'[e]
<1>1. /\ made \in [KeyEpochs -> Nat] /\ rawKey \in [KeyEpochs -> Nat] /\ served \subseteq DOMAIN stream
      /\ keyCache \in [Persisters -> Seq(CachedKey)] /\ PersistTypeOK
  BY TypesAre DEF PersistTypes, TypeKeys, TypeStream, TypeCache
<1>2. /\ \A e \in KeyEpochs : rawKey[e] <= made[e]
      /\ \A i \in served : stream[i].lock # InPlain /\ stream[i].lock.key <= rawKey[stream[i].lock.epoch]
      /\ \A w \in Persisters : OnePerEpoch(keyCache[w])
  BY DEF KeysInv, OnePerEpoch
<1>3. \A i \in served : stream[i].lock.epoch \in KeyEpochs /\ stream[i].lock.key \in Nat
  <2> SUFFICES ASSUME NEW i \in served
               PROVE  stream[i].lock.epoch \in KeyEpochs /\ stream[i].lock.key \in Nat
    OBVIOUS
  <2>1. stream[i].lock.epoch \in KeyEpochs /\ stream[i].lock.key \in 1..made[stream[i].lock.epoch]
    BY <1>1, <1>2 DEF PersistTypes, LocksFit
  <2> QED BY <1>1, <2>1
<1>4. CASE KeysStay
  BY <1>1, <1>2, <1>4 DEF KeysStay, KeysInv, OnePerEpoch
<1>5. CASE Sends
  <2>1. PICK e : FittingEvent(e) /\ SendsOut(e)
    BY <1>5 DEF Sends
  <2>2. SentAs(e) /\ UNCHANGED <<made, rawKey, keyCache>>
    BY <1>1, <2>1, SentIs DEF SentAs, persistKeys
  <2>3. /\ stream'[Len(stream) + 1] = e /\ (\A i \in DOMAIN stream : stream'[i] = stream[i])
        /\ served' = IF e.lock.epoch > 0 /\ rawKey[e.lock.epoch] = e.lock.key THEN served \cup {Len(stream) + 1} ELSE served
    BY <2>1, <2>2 DEF SentAs, SendsOut
  <2>4. e.lock.epoch > 0 /\ rawKey[e.lock.epoch] = e.lock.key => e.lock # InPlain /\ e.lock.key <= rawKey[e.lock.epoch]
    <3> SUFFICES ASSUME e.lock.epoch > 0, rawKey[e.lock.epoch] = e.lock.key
                 PROVE  e.lock # InPlain /\ e.lock.key <= rawKey[e.lock.epoch]
      OBVIOUS
    <3>1. e.lock # InPlain
      BY DEF InPlain
    <3>2. e.lock.epoch \in KeyEpochs
      BY <2>1, <3>1 DEF FittingEvent
    <3> QED BY <1>1, <3>1, <3>2
  <2>5. \A i \in served' : stream'[i].lock # InPlain /\ stream'[i].lock.key <= rawKey'[stream'[i].lock.epoch]
    BY <1>1, <1>2, <2>2, <2>3, <2>4
  <2> QED BY <1>1, <1>2, <2>2, <2>5 DEF KeysInv, OnePerEpoch
<1>6. ASSUME UNCHANGED <<stream, served, keyCache>>, \A e \in KeyEpochs : rawKey[e] <= rawKey'[e] /\ rawKey'[e] <= made'[e] /\ rawKey'[e] \in Nat
      PROVE  KeysInv'
  <2>1. \A i \in served' : stream'[i].lock # InPlain /\ stream'[i].lock.key <= rawKey'[stream'[i].lock.epoch]
    <3> SUFFICES ASSUME NEW i \in served
                 PROVE  stream[i].lock # InPlain /\ stream[i].lock.key <= rawKey'[stream[i].lock.epoch]
      BY <1>6
    <3>1. stream[i].lock.key <= rawKey[stream[i].lock.epoch] /\ stream[i].lock.epoch \in KeyEpochs /\ stream[i].lock.key \in Nat /\ stream[i].lock # InPlain
      BY <1>2, <1>3
    <3> DEFINE k == stream[i].lock.key e == stream[i].lock.epoch
    <3>2. k <= rawKey[e] /\ e \in KeyEpochs /\ k \in Nat
      BY <3>1
    <3> HIDE DEF k, e
    <3>3. rawKey[e] \in Nat /\ rawKey'[e] \in Nat /\ rawKey[e] <= rawKey'[e]
      BY <1>1, <1>6, <3>2
    <3>4. k <= rawKey'[e]
      BY <3>2, <3>3
    <3> QED BY <3>1, <3>4 DEF k, e
  <2> QED BY <1>2, <1>6, <2>1 DEF KeysInv, OnePerEpoch
<1>7. CASE EnableAgain
  <2>1. \A e \in KeyEpochs : rawKey[e] <= rawKey'[e] /\ rawKey'[e] <= made'[e] /\ rawKey'[e] \in Nat
    BY <1>1, <1>2, <1>7 DEF EnableAgain, KeyEpochs
  <2> QED BY <1>6, <1>7, <2>1 DEF EnableAgain, persistQueue
<1>8. CASE RawKeyStored
  <2>1. \A e \in KeyEpochs : rawKey[e] <= rawKey'[e] /\ rawKey'[e] <= made'[e] /\ rawKey'[e] \in Nat
    BY <1>1, <1>2, <1>8 DEF RawKeyStored, KeyEpochs
  <2> QED BY <1>6, <1>8, <2>1 DEF RawKeyStored, persistQueue
<1>9. ASSUME NEW w \in Persisters, NEW c, OnePerEpoch(c), keyCache' = [keyCache EXCEPT ![w] = c], UNCHANGED <<stream, made, rawKey, served>>
      PROVE  KeysInv' /\ \A e \in KeyEpochs : rawKey[e] <= rawKey'[e]
  <2>1. \A v \in Persisters : keyCache'[v] = IF v = w THEN c ELSE keyCache[v]
    BY <1>1, <1>9
  <2>2. \A v \in Persisters : OnePerEpoch(keyCache'[v])
    BY <1>2, <1>9, <2>1
  <2> QED BY <1>1, <1>2, <1>9, <2>2 DEF KeysInv, OnePerEpoch
<1>10. ASSUME NEW w \in Persisters, CrashOf(w)
       PROVE  KeysInv' /\ \A e \in KeyEpochs : rawKey[e] <= rawKey'[e]
  <2>1. OnePerEpoch(<<>>)
    BY DEF OnePerEpoch
  <2>2. keyCache' = [keyCache EXCEPT ![w] = <<>>] /\ UNCHANGED <<stream, made, rawKey, served>>
    BY <1>10 DEF CrashOf, persistQueue
  <2> QED BY <1>9, <2>1, <2>2
<1>11. ASSUME NEW w \in Persisters, Decrypts(w)
       PROVE  KeysInv' /\ \A e \in KeyEpochs : rawKey[e] <= rawKey'[e]
  <2>1. PICK c : CacheBecomes(w, c)
    BY <1>11, DecryptKeys
  <2>2. UNCHANGED <<stream, made, rawKey, served>>
    BY <1>11, DecryptIs
  <2> QED BY <1>9, <2>1, <2>2 DEF CacheBecomes
<1>12. EnableAgain \/ RawKeyStored => \A e \in KeyEpochs : rawKey[e] <= rawKey'[e]
  BY <1>1, <1>2 DEF EnableAgain, RawKeyStored, KeyEpochs
<1>13. Sends => \A e \in KeyEpochs : rawKey[e] <= rawKey'[e]
  BY <1>1 DEF Sends, SendsOut, persistKeys
<1> QED BY <1>4, <1>5, <1>7, <1>8, <1>10, <1>11, <1>12, <1>13, KeySteps

\* A key once overtaken by another is not the one of the service again.
LEMMA FairStays ==
  ASSUME PersistTypes, KeysInv, [PersistNext]_persistVars, NEW i \in DOMAIN stream, Fair(i)'
  PROVE  Fair(i) /\ stream'[i] = stream[i]
<1>1. stream'[i] = stream[i]
  BY StreamSteps DEF StreamStays
<1>2. i \in served
  <2>1. CASE Sends
    <3>1. PICK e : SentAs(e)
      BY <2>1, SentIs DEF Sends, PersistTypes
    <3>2. served' \subseteq served \cup {Len(stream) + 1} /\ Len(stream) + 1 \notin DOMAIN stream
      BY <3>1 DEF SentAs
    <3> QED BY <3>2 DEF Fair
  <2>2. CASE UNCHANGED served
    BY <2>2 DEF Fair
  <2>3. Sends \/ UNCHANGED served
    <3>1. EnableAgain \/ RawKeyStored => UNCHANGED served
      BY DEF EnableAgain, RawKeyStored
    <3>2. \A w \in Persisters : CrashOf(w) => UNCHANGED served
      BY DEF CrashOf
    <3>3. \A w \in Persisters : Decrypts(w) => UNCHANGED served
      BY DecryptIs
    <3> QED BY <3>1, <3>2, <3>3, KeySteps DEF KeysStay
  <2> QED BY <2>1, <2>2, <2>3
<1> DEFINE e == stream[i].lock.epoch k == stream[i].lock.key
<1>3. k <= rawKey[e] /\ stream[i].lock # InPlain
  BY <1>2 DEF KeysInv
<1>4. e \in KeyEpochs /\ k \in 1..made[e]
  BY <1>3 DEF PersistTypes, LocksFit
<1>5. rawKey[e] \in Nat /\ rawKey'[e] \in Nat /\ k \in Nat
  <2>1. rawKey \in [KeyEpochs -> Nat] /\ made \in [KeyEpochs -> Nat] /\ rawKey' \in [KeyEpochs -> Nat]
    BY TypesStep, TypesAre, TypesAreNext DEF PersistTypes, TypeKeys
  <2> QED BY <1>4, <2>1
<1>6. rawKey'[e] = k /\ rawKey[e] <= rawKey'[e]
  BY <1>1, <1>4, KeysStep DEF Fair
<1> QED BY <1>1, <1>2, <1>3, <1>5, <1>6 DEF Fair

LEMMA CrewStays ==
  ASSUME PersistTypes, [PersistNext]_persistVars, upsets' \subseteq {"key"}
  PROVE  crew' = crew
<1>1. \A w \in Persisters : AcksQuietly(w) \/ Toggles(w) \/ StoresQuietly(w) => crew' = crew
  BY DEF AcksQuietly, Toggles, StoresQuietly
<1>2. \A w \in Persisters : Decrypts(w) => crew' = crew
  BY DecryptIs
<1>3. \A w, i : GivenAs(w, i) => crew' = crew
  BY DEF GivenAs
<1>4. (\A i : Delayed(i) => crew' = crew) /\ (RestStays => crew' = crew)
  BY DEF Delayed, RestStays
<1> QED BY <1>1, <1>2, <1>3, <1>4, QuietSteps

\* An instance that has no wrong key for an event gets none, while it is fair.
LEMMA CleanStays ==
  ASSUME PersistTypes, KeysInv, [PersistNext]_persistVars, upsets' \subseteq {"key"}, NEW i \in DOMAIN stream, Fair(i)
  PROVE  CleanOnes(i) \subseteq CleanOnes(i)'
<1>1. stream'[i] = stream[i] /\ crew' = crew
  BY StreamSteps, CrewStays DEF StreamStays
<1>2. keyCache \in [Persisters -> Seq(CachedKey)] /\ crew \subseteq Persisters
  BY TypesAre DEF PersistTypes, TypeCache, TypeDone
<1>3. CASE UNCHANGED keyCache
  BY <1>1, <1>3 DEF CleanOnes, Clean
<1>4. ASSUME NEW w \in Persisters, Decrypts(w)
      PROVE  CleanOnes(i) \subseteq CleanOnes(i)'
  <2>1. PICK c : CacheBecomes(w, c)
    BY <1>4, DecryptKeys
  <2>2. \A v \in Persisters : keyCache'[v] = IF v = w THEN c ELSE keyCache[v]
    BY <1>2, <2>1 DEF CacheBecomes
  <2>3. ASSUME Clean(w, i), NEW d \in DOMAIN c, c[d].epoch = stream[i].lock.epoch
        PROVE  c[d].key = stream[i].lock.key
    BY <2>1, <2>3 DEF CacheBecomes, Clean, Fair
  <2> QED BY <1>1, <1>2, <2>2, <2>3 DEF CleanOnes, Clean
<1>5. ASSUME NEW w \in Persisters, CrashOf(w)
      PROVE  FALSE
  BY <1>5 DEF CrashOf, Upset
<1>6. KeysStay \/ Sends \/ EnableAgain \/ RawKeyStored => UNCHANGED keyCache
  BY DEF KeysStay, Sends, SendsOut, EnableAgain, RawKeyStored, persistKeys
<1> QED BY <1>3, <1>4, <1>5, <1>6, KeySteps

LEMMA CleanCount ==
  ASSUME PersistTypes, NEW i
  PROVE  /\ IsFiniteSet(CleanOnes(i)) /\ Cardinality(CleanOnes(i)) \in Nat /\ Cardinality(crew) \in Nat
         /\ \A w \in crew : w \notin CleanOnes(i) => Cardinality(CleanOnes(i)) + 1 <= Cardinality(crew)
<1>1. IsFiniteSet(crew) /\ CleanOnes(i) \subseteq crew
  <2>1. crew \subseteq Persisters
    BY TypesAre DEF PersistTypes, TypeDone
  <2> QED BY <2>1, PersistCounts, FS_Subset DEF CleanOnes
<1>2. IsFiniteSet(CleanOnes(i)) /\ Cardinality(crew) \in Nat
  BY <1>1, FS_Subset, FS_CardinalityType
<1>3. Cardinality(CleanOnes(i)) \in Nat
  BY <1>2, FS_CardinalityType
<1>4. ASSUME NEW w \in crew, w \notin CleanOnes(i)
      PROVE  Cardinality(CleanOnes(i)) + 1 <= Cardinality(crew)
  <2>1. Cardinality(CleanOnes(i) \cup {w}) = Cardinality(CleanOnes(i)) + 1
    BY <1>2, <1>4, FS_AddElement
  <2>2. Cardinality(CleanOnes(i) \cup {w}) <= Cardinality(crew)
    BY <1>1, FS_Subset
  <2> QED BY <2>1, <2>2
<1> QED BY <1>2, <1>3, <1>4

\* The count stays right where an event is given no more often and stays where it is.
LEMMA CountStays ==
  ASSUME PersistTypes, KeysInv, TriesInv, [PersistNext]_persistVars, upsets' \subseteq {"key"},
         NEW i \in DOMAIN stream, Fair(i)', tries'[i] = tries[i],
         Holding(i) \/ i \in acked => (Holding(i) \/ i \in acked)'
  PROVE  tries'[i] <= Cardinality(CleanOnes(i)') + (IF (Holding(i) \/ i \in acked)' THEN 1 ELSE 0)
<1>1. Fair(i)
  BY FairStays
<1>2. upsets \subseteq {"key"}
  BY UpsetsGrow
<1>3. tries[i] <= Cardinality(CleanOnes(i)) + (IF Holding(i) \/ i \in acked THEN 1 ELSE 0) /\ tries[i] \in Nat
  <2>1. tries[i] \in Nat
    BY TypesAre DEF PersistTypes, TypeStream
  <2> QED BY <1>1, <1>2, <2>1 DEF TriesInv
<1>4. CleanOnes(i) \subseteq CleanOnes(i)'
  BY <1>1, CleanStays
<1>5. IsFiniteSet(CleanOnes(i)') /\ Cardinality(CleanOnes(i)') \in Nat
  <2>1. PersistTypes'
    BY TypesStep
  <2>2. crew' = crew /\ crew \subseteq Persisters /\ CleanOnes(i)' \subseteq crew'
    BY CrewStays, TypesAre DEF PersistTypes, TypeDone, CleanOnes
  <2>3. IsFiniteSet(CleanOnes(i)')
    BY <2>2, PersistCounts, FS_Subset
  <2> QED BY <2>3, FS_CardinalityType
<1>6. Cardinality(CleanOnes(i)) <= Cardinality(CleanOnes(i)') /\ Cardinality(CleanOnes(i)) \in Nat
  BY <1>4, <1>5, FS_Subset, CleanCount
<1> QED BY <1>3, <1>5, <1>6

\* No delivery has a count above that of its event.
LEMMA CountsStep ==
  ASSUME PersistTypes, TriesInv, [PersistNext]_persistVars, upsets' \subseteq {"key"}
  PROVE  \A v \in Persisters : \A d \in DOMAIN held'[v] : held'[v][d].n <= tries'[held'[v][d].of]
<1>1. \A v \in Persisters : \A d \in DOMAIN held[v] : held[v][d].n <= tries[held[v][d].of]
  <2>1. upsets \subseteq {"key"}
    BY UpsetsGrow
  <2> QED BY <2>1 DEF TriesInv
<1>2. /\ tries \in Seq(Nat) /\ DOMAIN tries = DOMAIN stream
      /\ \A v \in Persisters : \A d \in DOMAIN held[v] : held[v][d].of \in DOMAIN stream /\ held[v][d].n \in Nat
  <2>1. \A v \in Persisters : held[v] \in Seq(Deliveries)
    BY TypesAre DEF PersistTypes, TypeHeld
  <2>2. \A v \in Persisters : \A d \in DOMAIN held[v] : held[v][d] \in Deliveries
    BY <2>1
  <2>3. 1..given \subseteq DOMAIN stream /\ tries \in Seq(Nat) /\ DOMAIN tries = DOMAIN stream
    BY TypesAre DEF PersistTypes, TypeGiven, TypeStream
  <2> QED BY <2>2, <2>3 DEF Deliveries
<1>3. ASSUME \A i \in DOMAIN stream : tries'[i] = tries[i],
             \A v \in Persisters : \A d \in DOMAIN held'[v] : \E c \in DOMAIN held[v] : held'[v][d] = held[v][c]
      PROVE  \A v \in Persisters : \A d \in DOMAIN held'[v] : held'[v][d].n <= tries'[held'[v][d].of]
  BY <1>1, <1>2, <1>3
<1>4. CASE RestStays /\ (Sends \/ EnableAgain \/ RawKeyStored \/ UNCHANGED persistVars)
  <2>1. \A i \in DOMAIN stream : tries'[i] = tries[i]
    <3>1. CASE Sends
      BY <3>1, SentIs DEF Sends, SentAs, PersistTypes
    <3>2. CASE EnableAgain \/ RawKeyStored \/ UNCHANGED persistVars
      BY <3>2 DEF EnableAgain, RawKeyStored, persistVars, persistQueue
    <3> QED BY <1>4, <3>1, <3>2
  <2> QED BY <1>3, <1>4, <2>1 DEF RestStays
<1>5. ASSUME NEW i, Delayed(i)
      PROVE  UNCHANGED <<tries, held>>
  BY <1>5 DEF Delayed
<1>6. ASSUME NEW w \in Persisters, Toggles(w) \/ StoresQuietly(w)
      PROVE  UNCHANGED <<tries, held>>
  BY <1>6 DEF Toggles, StoresQuietly, Moves, persistQueue
<1>7. ASSUME NEW w \in Persisters, AcksQuietly(w) \/ Decrypts(w)
      PROVE  UNCHANGED <<tries, held>> \/ (LetsGo(w) /\ UNCHANGED tries)
  BY <1>7, DecryptIs DEF AcksQuietly, Moves
<1>8. CASE UNCHANGED <<tries, held>>
  BY <1>3, <1>8
<1>9. ASSUME NEW w \in Persisters, LetsGo(w), UNCHANGED tries
      PROVE  \A v \in Persisters : \A d \in DOMAIN held'[v] : held'[v][d].n <= tries'[held'[v][d].of]
  BY <1>3, <1>9, LeftInHands
<1>10. ASSUME NEW w \in Persisters, NEW i, GivenAs(w, i)
       PROVE  \A v \in Persisters : \A d \in DOMAIN held'[v] : held'[v][d].n <= tries'[held'[v][d].of]
  <2>1. i \in DOMAIN stream /\ tries' = [tries EXCEPT ![i] = @ + 1] /\ tries[i] \in Nat
    BY <1>2, <1>10 DEF GivenAs
  <2>2. \A j \in DOMAIN stream : tries[j] \in Nat /\ tries'[j] = IF j = i THEN tries[i] + 1 ELSE tries[j]
    BY <1>2, <2>1
  <2>3. \A v \in Persisters : \A d \in DOMAIN held[v] : held[v][d].n <= tries'[held[v][d].of]
    <3> SUFFICES ASSUME NEW v \in Persisters, NEW d \in DOMAIN held[v]
                 PROVE  held[v][d].n <= tries'[held[v][d].of]
      OBVIOUS
    <3> DEFINE n == held[v][d].n j == held[v][d].of
    <3>1. n <= tries[j] /\ j \in DOMAIN stream /\ n \in Nat
      BY <1>1, <1>2
    <3> HIDE DEF n, j
    <3>2. n <= tries'[j]
      BY <2>2, <3>1
    <3> QED BY <3>2 DEF n, j
  <2>4. /\ DOMAIN held'[w] = DOMAIN held[w] \cup {Len(held[w]) + 1}
        /\ held'[w][Len(held[w]) + 1].of = i /\ held'[w][Len(held[w]) + 1].n = tries[i] + 1
        /\ \A d \in DOMAIN held[w] : held'[w][d] = held[w][d]
        /\ \A v \in Persisters : v # w => held'[v] = held[v]
    BY <1>10, AddedToHands
  <2>5. held'[w][Len(held[w]) + 1].n <= tries'[held'[w][Len(held[w]) + 1].of]
    BY <2>1, <2>2, <2>4
  <2> QED BY <2>3, <2>4, <2>5
<1> QED BY <1>4, <1>5, <1>6, <1>7, <1>8, <1>9, <1>10, QuietSteps

LEMMA TriesStep ==
  ASSUME PersistTypes, KeysInv, Placed, TriesInv, [PersistNext]_persistVars
  PROVE  TriesInv'
<1> SUFFICES ASSUME upsets' \subseteq {"key"}
             PROVE  \A i \in DOMAIN stream' : Fair(i)' => tries'[i] <= Cardinality(CleanOnes(i)') + (IF (Holding(i) \/ i \in acked)' THEN 1 ELSE 0)
  BY CountsStep DEF TriesInv
<1>1. upsets \subseteq {"key"}
  BY UpsetsGrow
<1>2. /\ tries \in Seq(Nat) /\ DOMAIN tries = DOMAIN stream
  BY TypesAre DEF PersistTypes, TypeStream
<1>3. \A i : Cardinality(CleanOnes(i)') \in Nat
  <2> SUFFICES ASSUME NEW i
               PROVE  Cardinality(CleanOnes(i)') \in Nat
    OBVIOUS
  <2>1. crew' = crew /\ crew \subseteq Persisters /\ CleanOnes(i)' \subseteq crew'
    BY CrewStays, TypesAre DEF PersistTypes, TypeDone, CleanOnes
  <2> QED BY <2>1, PersistCounts, FS_Subset, FS_CardinalityType
<1>4. CASE RestStays /\ (Sends \/ EnableAgain \/ RawKeyStored \/ UNCHANGED persistVars)
  <2>1. \A i : Holding(i) \/ i \in acked => (Holding(i) \/ i \in acked)'
    BY <1>4 DEF RestStays, Holding
  <2>2. CASE Sends
    <3>1. PICK e : SentAs(e)
      BY <2>2, SentIs DEF Sends, PersistTypes
    <3>2. DOMAIN stream' = DOMAIN stream \cup {Len(stream) + 1} /\ tries'[Len(stream) + 1] = 0 /\ \A i \in DOMAIN stream : tries'[i] = tries[i]
      BY <3>1 DEF SentAs
    <3>3. \A i \in DOMAIN stream : Fair(i)' => tries'[i] <= Cardinality(CleanOnes(i)') + (IF (Holding(i) \/ i \in acked)' THEN 1 ELSE 0)
      BY <2>1, <3>2, CountStays
    <3>4. 0 <= Cardinality(CleanOnes(Len(stream) + 1)') + (IF (Holding(Len(stream) + 1) \/ Len(stream) + 1 \in acked)' THEN 1 ELSE 0)
      BY <1>3
    <3>5. ASSUME NEW i \in DOMAIN stream', Fair(i)'
          PROVE  tries'[i] <= Cardinality(CleanOnes(i)') + (IF (Holding(i) \/ i \in acked)' THEN 1 ELSE 0)
      <4>1. CASE i \in DOMAIN stream
        BY <3>3, <3>5, <4>1
      <4>2. CASE i = Len(stream) + 1
        <5>1. tries'[i] = 0 /\ Cardinality(CleanOnes(i)') \in Nat
          BY <1>3, <3>2, <4>2
        <5> QED BY <5>1
      <4> QED BY <3>2, <4>1, <4>2
    <3> QED BY <3>5
  <2>3. CASE EnableAgain \/ RawKeyStored \/ UNCHANGED persistVars
    <3>1. UNCHANGED <<stream, tries>>
      BY <2>3 DEF EnableAgain, RawKeyStored, persistVars, persistQueue
    <3> QED BY <2>1, <3>1, CountStays
  <2> QED BY <1>4, <2>2, <2>3
<1>5. ASSUME NEW j \in 1..given, Delayed(j)
      PROVE  UNCHANGED <<stream, tries>> /\ \A i : Holding(i) \/ i \in acked => (Holding(i) \/ i \in acked)'
  BY <1>5 DEF Delayed, Holding
<1>6. ASSUME NEW w \in Persisters, Toggles(w) \/ StoresQuietly(w)
      PROVE  UNCHANGED <<stream, tries>> /\ \A i : Holding(i) \/ i \in acked => (Holding(i) \/ i \in acked)'
  BY <1>6 DEF Toggles, StoresQuietly, Moves, Holding, persistQueue
<1>7. ASSUME NEW w \in Persisters, LetsGo(w)
      PROVE  \A i : Holding(i) => i = Now(w) \/ Holding(i)'
  <2> SUFFICES ASSUME NEW i, Holding(i), i # Now(w)
               PROVE  \E v \in Persisters : \E d \in DOMAIN held'[v] : held'[v][d].of = i
    BY DEF Holding
  <2>1. PICK v \in Persisters : \E d \in DOMAIN held[v] : held[v][d].of = i
    BY DEF Holding
  <2>2. PICK d \in DOMAIN held[v] : held[v][d].of = i
    BY <2>1
  <2> QED BY <1>7, <2>2, LeftInHands
<1>8. ASSUME NEW w \in Persisters, AcksQuietly(w)
      PROVE  UNCHANGED <<stream, tries>> /\ \A i : Holding(i) \/ i \in acked => (Holding(i) \/ i \in acked)'
  BY <1>7, <1>8 DEF AcksQuietly
<1>9. ASSUME NEW w \in Persisters, NEW j, GivenAs(w, j), NEW i \in DOMAIN stream, Fair(i)'
      PROVE  tries'[i] <= Cardinality(CleanOnes(i)') + (IF (Holding(i) \/ i \in acked)' THEN 1 ELSE 0)
  <2>1. /\ DOMAIN held'[w] = DOMAIN held[w] \cup {Len(held[w]) + 1} /\ held'[w][Len(held[w]) + 1].of = j
        /\ \A d \in DOMAIN held[w] : held'[w][d] = held[w][d]
        /\ \A v \in Persisters : v # w => held'[v] = held[v]
    BY <1>9, AddedToHands
  <2>2. Holding(j)' /\ (Holding(i) => Holding(i)')
    <3>1. Holding(j)'
      BY <2>1 DEF Holding
    <3>2. ASSUME Holding(i)
          PROVE  Holding(i)'
      <4>1. PICK v \in Persisters : \E d \in DOMAIN held[v] : held[v][d].of = i
        BY <3>2 DEF Holding
      <4>2. PICK d \in DOMAIN held[v] : held[v][d].of = i
        BY <4>1
      <4>3. d \in DOMAIN held'[v] /\ held'[v][d] = held[v][d]
        BY <2>1
      <4> QED BY <4>2, <4>3 DEF Holding
    <3> QED BY <3>1, <3>2
  <2>3. UNCHANGED <<stream, acked>> /\ tries' = [tries EXCEPT ![j] = @ + 1]
    BY <1>9 DEF GivenAs
  <2>4. CASE i # j
    BY <1>2, <1>9, <2>2, <2>3, <2>4, CountStays
  <2>5. CASE i = j
    <3>1. ~Holding(i) /\ i \notin acked
      <4>1. due \cap acked = {} /\ acked \subseteq 1..given /\ given + 1 \notin 1..given
        BY TypesAre DEF PersistTypes, TypeGiven
      <4>2. ASSUME NEW v \in Persisters, NEW d \in DOMAIN held[v]
            PROVE  held[v][d].of \in 1..given /\ held[v][d].of \notin due
        <5>1. held[v] \in Seq(Deliveries)
          BY TypesAre DEF PersistTypes, TypeHeld
        <5>2. held[v][d] \in Deliveries
          BY <5>1
        <5> QED BY <1>1, <5>2 DEF Placed, Deliveries
      <4>3. i \in due \/ i = given + 1
        BY <1>9, <2>5 DEF GivenAs
      <4> QED BY <4>1, <4>2, <4>3 DEF Holding
    <3>2. Fair(i)
      BY <1>9, FairStays
    <3>3. tries[i] <= Cardinality(CleanOnes(i)) + 0 /\ tries[i] \in Nat
      BY <1>1, <1>2, <3>1, <3>2 DEF TriesInv
    <3>4. CleanOnes(i)' = CleanOnes(i)
      BY <1>9 DEF GivenAs, CleanOnes, Clean, persistKeys
    <3>5. tries'[i] = tries[i] + 1
      BY <1>2, <2>3, <2>5
    <3>6. Cardinality(CleanOnes(i)) \in Nat
      BY CleanCount
    <3> QED BY <2>2, <2>5, <3>3, <3>4, <3>5, <3>6
  <2> QED BY <2>4, <2>5
<1>10. ASSUME NEW w \in Persisters, w \in crew, Decrypts(w), NEW i \in DOMAIN stream, Fair(i)'
       PROVE  tries'[i] <= Cardinality(CleanOnes(i)') + (IF (Holding(i) \/ i \in acked)' THEN 1 ELSE 0)
  <2>1. UNCHANGED <<stream, tries, acked, crew>> /\ held[w] # <<>>
    BY <1>10, DecryptIs
  <2>2. CASE UNCHANGED held
    BY <1>10, <2>1, <2>2, CountStays DEF Holding
  <2>3. CASE LetsGo(w) /\ i # Now(w)
    BY <1>7, <1>10, <2>1, <2>3, CountStays
  <2>4. CASE LetsGo(w) /\ i = Now(w) /\ ~UNCHANGED held
    <3>1. PICK c : CacheBecomes(w, c) /\ Attempt(w, c)
      BY <1>10, DecryptKeys
    <3>2. FailsFairly(w, c)
      BY <2>4, <3>1 DEF Attempt, Moves
    <3>3. Fair(i) /\ InHand(w) = stream[i]
      BY <1>10, <2>4, FairStays DEF InHand
    <3>4. ~Clean(w, i) /\ \A d \in DOMAIN c : c[d].epoch # stream[i].lock.epoch
      BY <2>4, <3>2, <3>3 DEF FailsFairly, Fair
    <3>5. w \notin CleanOnes(i) /\ w \in CleanOnes(i)'
      <4>1. keyCache'[w] = c
        <5>1. keyCache \in [Persisters -> Seq(CachedKey)]
          BY TypesAre DEF PersistTypes, TypeCache
        <5> QED BY <3>1, <5>1 DEF CacheBecomes
      <4> QED BY <1>10, <2>1, <3>4, <4>1 DEF CleanOnes, Clean
    <3>6. CleanOnes(i) \cup {w} \subseteq CleanOnes(i)'
      BY <3>3, <3>5, CleanStays
    <3>7. IsFiniteSet(CleanOnes(i)')
      <4>1. crew \subseteq Persisters /\ CleanOnes(i)' \subseteq crew'
        BY TypesAre DEF PersistTypes, TypeDone, CleanOnes
      <4> QED BY <2>1, <4>1, PersistCounts, FS_Subset
    <3>8. Cardinality(CleanOnes(i)) + 1 <= Cardinality(CleanOnes(i)') /\ Cardinality(CleanOnes(i)) \in Nat
      <4>1. Cardinality(CleanOnes(i) \cup {w}) = Cardinality(CleanOnes(i)) + 1
        BY <3>5, CleanCount, FS_AddElement
      <4> QED BY <3>6, <3>7, <4>1, FS_Subset, CleanCount
    <3>9. tries[i] <= Cardinality(CleanOnes(i)) + (IF Holding(i) \/ i \in acked THEN 1 ELSE 0) /\ tries[i] \in Nat
      BY <1>1, <1>2, <3>3 DEF TriesInv
    <3>10. tries[i] <= Cardinality(CleanOnes(i)')
      BY <1>3, <3>8, <3>9
    <3> QED BY <1>3, <1>2, <2>1, <3>10
  <2>5. UNCHANGED held \/ LetsGo(w)
    BY <1>10, DecryptIs DEF Moves
  <2> QED BY <2>2, <2>3, <2>4, <2>5
<1>11. CASE UNCHANGED <<stream, tries>> /\ \A i : Holding(i) \/ i \in acked => (Holding(i) \/ i \in acked)'
  BY <1>11, CountStays
<1>12. \A w, i : GivenAs(w, i) => stream' = stream
  BY DEF GivenAs
<1>13. \A w \in Persisters : Decrypts(w) => stream' = stream
  BY DecryptIs
<1> QED BY <1>4, <1>5, <1>6, <1>8, <1>9, <1>10, <1>11, <1>12, <1>13, QuietSteps

\* What an attempt has left encrypted was not of the key of the service.
LEMMA CallsServe ==
  ASSUME PersistTypes, KeysInv, TriesInv, ServeInv, [PersistNext]_persistVars, upsets' \subseteq {"key"}, MaxTries >= Cardinality(crew)
  PROVE  \A v \in Persisters : step'[v].cipher => ~Fair(Now(v))'
<1>1. upsets \subseteq {"key"}
  BY UpsetsGrow
<1>2. \A v \in Persisters : step[v].cipher => ~Fair(Now(v))
  BY <1>1 DEF ServeInv
<1>3. \A v \in Persisters : step[v].cipher => held[v] # <<>>
  BY DEF PersistTypes, StepFits, AtStart
<1> SUFFICES ASSUME NEW v \in Persisters, step'[v].cipher
             PROVE  ~Fair(Now(v))'
  OBVIOUS
<1>4. ASSUME NEW i \in DOMAIN stream, ~Fair(i), Now(v)' = i
      PROVE  ~Fair(Now(v))'
  <2>1. ~Fair(i)'
    BY <1>4, FairStays
  <2> QED BY <1>4, <2>1 DEF Fair
<1>5. ASSUME step[v].cipher, Head(held'[v]) = Head(held[v])
      PROVE  ~Fair(Now(v))'
  <2>1. Now(v) \in DOMAIN stream
    BY <1>3, <1>5, InHandIs DEF PersistTypes
  <2>2. PICK i \in DOMAIN stream : i = Now(v)
    BY <2>1
  <2>3. Now(v)' = i /\ ~Fair(i)
    BY <1>2, <1>5, <2>2 DEF Now
  <2> QED BY <1>4, <2>3
<1>6. CASE RestStays \/ \E i : Delayed(i)
  BY <1>5, <1>6 DEF RestStays, Delayed
<1>7. ASSUME NEW w \in Persisters, NEW i, GivenAs(w, i)
      PROVE  ~Fair(Now(v))'
  <2>1. step' = step
    BY <1>7 DEF GivenAs
  <2>2. held[v] # <<>> => Head(held'[v]) = Head(held[v])
    BY <1>7, AddedToHands
  <2> QED BY <1>3, <1>5, <2>1, <2>2
<1>8. ASSUME NEW w \in Persisters, LetsGo(w)
      PROVE  ~Fair(Now(v))'
  <2>1. v # w /\ step'[v] = step[v] /\ held'[v] = held[v]
    BY <1>8, LeftInHands DEF AtStart
  <2> QED BY <1>5, <2>1
<1>9. ASSUME NEW w \in Persisters, NEW at, Moves(w, [step[w] EXCEPT !.at = at])
      PROVE  ~Fair(Now(v))'
  <2>1. step[w] \in Stages
    BY TypesAre, AnInstance DEF PersistTypes
  <2> DEFINE x == [step[w] EXCEPT !.at = at]
  <2>2. x.cipher = step[w].cipher
    BY <2>1 DEF Stages
  <2>3. Moves(w, x)
    BY <1>9
  <2> HIDE DEF x
  <2>4. held' = held /\ step'[v] = IF v = w THEN x ELSE step[v]
    BY <1>1, <2>3, MovesIs
  <2>5. step'[v].cipher = step[v].cipher
    BY <2>2, <2>4
  <2> QED BY <1>5, <2>4, <2>5
<1>10. ASSUME NEW w \in Persisters, w \in crew, Decrypts(w), ~LetsGo(w)
       PROVE  ~Fair(Now(v))'
  <2>1. PICK cipher \in BOOLEAN : Moves(w, [at |-> "write", cipher |-> cipher])
    BY <1>10, DecryptIs
  <2>2. held' = held /\ \A u \in Persisters : step'[u] = IF u = w THEN [at |-> "write", cipher |-> cipher] ELSE step[u]
    BY <2>1, MovesIs
  <2>3. CASE v # w
    BY <1>5, <2>2, <2>3
  <2>4. CASE v = w
    <3>1. PICK c : CacheBecomes(w, c) /\ Attempt(w, c)
      BY <1>10, DecryptKeys
    <3>2. step'[w].cipher = cipher /\ cipher = TRUE
      BY <2>2, <2>4
    <3>3. ~Moves(w, [at |-> "write", cipher |-> FALSE])
      <4> SUFFICES ASSUME Moves(w, [at |-> "write", cipher |-> FALSE])
                   PROVE  FALSE
        OBVIOUS
      <4>1. step'[w] = [at |-> "write", cipher |-> FALSE]
        BY MovesIs
      <4>2. step'[w].cipher = FALSE
        BY <4>1
      <4> QED BY <3>2, <4>2
    <3>4. NotDecrypted(w) /\ FailsFairly(w, c)
      BY <3>1, <3>3 DEF Attempt
    <3>5. held[w] # <<>> /\ UNCHANGED stream
      BY <1>10, DecryptIs
    <3>6. Head(held[w]).n > MaxTries
      BY <1>10, <3>4, <3>5 DEF NotDecrypted, LetsGo
    <3>7. Now(w) \in DOMAIN stream /\ Head(held[w]) = held[w][1] /\ 1 \in DOMAIN held[w] /\ Head(held[w]).n \in Nat
      BY <3>5, InHandIs DEF PersistTypes
    <3>8. PICK i \in DOMAIN stream : i = Now(w)
      BY <3>7
    <3>9. ~Fair(i)
      <4> SUFFICES ASSUME Fair(i)
                   PROVE  FALSE
        OBVIOUS
      <4>1. w \notin CleanOnes(i)
        BY <3>4, <3>8 DEF FailsFairly, Fair, InHand, CleanOnes
      <4>2. Cardinality(CleanOnes(i)) + 1 <= Cardinality(crew) /\ Cardinality(crew) \in Nat /\ Cardinality(CleanOnes(i)) \in Nat
        BY <1>10, <4>1, CleanCount
      <4>3. tries[i] <= Cardinality(CleanOnes(i)) + (IF Holding(i) \/ i \in acked THEN 1 ELSE 0) /\ tries[i] \in Nat
        <5>1. tries[i] \in Nat
          BY TypesAre DEF PersistTypes, TypeStream
        <5> QED BY <1>1, <5>1 DEF TriesInv
      <4>4. Head(held[w]).n <= tries[i]
        BY <1>1, <3>7, <3>8 DEF TriesInv, Now
      <4>5. tries[i] <= Cardinality(crew)
        BY <4>2, <4>3
      <4> QED BY <3>6, <3>7, <4>2, <4>3, <4>4, <4>5, PersistParameters
    <3>10. Now(v)' = i
      BY <2>2, <2>4, <3>8 DEF Now
    <3> QED BY <1>4, <3>9, <3>10
  <2> QED BY <2>3, <2>4
<1>11. \A w \in Persisters : Toggles(w) \/ StoresQuietly(w) => \E at : Moves(w, [step[w] EXCEPT !.at = at])
  BY DEF Toggles, StoresQuietly
<1>12. \A w \in Persisters : AcksQuietly(w) => LetsGo(w)
  BY DEF AcksQuietly
<1> QED BY <1>6, <1>7, <1>8, <1>9, <1>10, <1>11, <1>12, QuietSteps

\* A row that is encrypted was so before, or is of what the callback had in hand.
LEMMA RowsServe ==
  ASSUME PersistTypes, NEW w \in Persisters, Stores(w), NEW m \in MessageIds, NEW r \in DOMAIN rows'[m], rows'[m][r].cipher
  PROVE  \/ r \in DOMAIN rows[m] /\ rows[m][r].cipher /\ rows'[m][r].text = rows[m][r].text
         \/ step[w].cipher /\ rows'[m][r].text = Now(w)
<1>1. rows \in [MessageIds -> Seq(Row)] /\ rows[m] \in Seq(Row)
  BY TypesAre DEF PersistTypes, TypeTables
<1>2. \A k \in DOMAIN rows[m] : rows[m][k] \in Row
  BY <1>1
<1>3. Now(w) \in 1..given
  BY StoresAre, StoresWritten DEF PersistTypes
<1>4. CASE rows'[m] = rows[m]
  BY <1>4
<1>5. CASE MessageStored(w) /\ m = InHand(w).id
  <2> DEFINE x == [text |-> Now(w), cipher |-> step[w].cipher, gone |-> FALSE]
  <2>1. rows'[m] = Append(rows[m], x)
    BY <1>1, <1>5 DEF MessageStored
  <2>2. x \in Row /\ x.text = Now(w) /\ x.cipher = step[w].cipher
    BY <1>1, <1>3, RowsTyped
  <2> HIDE DEF x
  <2>3. DOMAIN rows'[m] = DOMAIN rows[m] \cup {Len(rows[m]) + 1} /\ rows'[m][Len(rows[m]) + 1] = x /\ \A k \in DOMAIN rows[m] : rows'[m][k] = rows[m][k]
    BY <1>1, <2>1, <2>2, AppendTo
  <2> QED BY <2>2, <2>3
<1>6. CASE EditStored(w) /\ m = InHand(w).id
  <2>1. rows'[m] = EditedRows(w, rows[m])
    BY <1>1, <1>6 DEF EditStored
  <2>2. r \in DOMAIN rows[m] /\ rows'[m][r] = EditedRow(w, rows[m][r])
    BY <2>1 DEF EditedRows
  <2>3. CASE rows[m][r].gone
    BY <2>2, <2>3 DEF EditedRow
  <2>4. CASE ~rows[m][r].gone
    <3>1. rows[m][r] \in Row
      BY <1>2, <2>2
    <3>2. rows'[m][r].text = Now(w) /\ rows'[m][r].cipher = step[w].cipher
      BY <2>2, <2>4, <3>1 DEF EditedRow, Row
    <3> QED BY <3>2
  <2> QED BY <2>3, <2>4
<1>7. CASE DeletionStored(w) /\ m = InHand(w).id
  <2>1. rows'[m] = DeletedRows(rows[m])
    BY <1>1, <1>7 DEF DeletionStored
  <2>2. r \in DOMAIN rows[m] /\ rows'[m][r] = [rows[m][r] EXCEPT !.gone = TRUE]
    BY <2>1 DEF DeletedRows
  <2>3. rows[m][r] \in Row
    BY <1>2, <2>2
  <2>4. rows'[m][r].text = rows[m][r].text /\ rows'[m][r].cipher = rows[m][r].cipher
    BY <2>2, <2>3 DEF Row
  <2> QED BY <2>2, <2>4
<1>8. rows'[m] = rows[m] \/ ((MessageStored(w) \/ EditStored(w) \/ DeletionStored(w)) /\ m = InHand(w).id)
  BY <1>1, StoredAs DEF MessageStored, EditStored, DeletionStored, ReactionStored, ReactionRemoved
<1> QED BY <1>4, <1>5, <1>6, <1>7, <1>8

LEMMA ServeStep ==
  ASSUME PersistTypes, KeysInv, TriesInv, ServeInv, [PersistNext]_persistVars
  PROVE  ServeInv'
<1> SUFFICES ASSUME upsets' \subseteq {"key"}, MaxTries >= Cardinality(crew)'
             PROVE  /\ \A w \in Persisters : step'[w].cipher => ~Fair(Now(w))'
                    /\ \A m \in MessageIds : \A r \in DOMAIN rows'[m] : rows'[m][r].cipher => ~Fair(rows[m][r].text)'
  BY DEF ServeInv
<1>1. upsets \subseteq {"key"} /\ MaxTries >= Cardinality(crew)
  BY UpsetsGrow, CrewStays
<1>2. \A w \in Persisters : step'[w].cipher => ~Fair(Now(w))'
  BY <1>1, CallsServe
<1>3. ASSUME NEW m \in MessageIds, NEW r \in DOMAIN rows'[m], rows'[m][r].cipher
      PROVE  ~Fair(rows[m][r].text)'
  <2>1. ASSUME NEW i \in DOMAIN stream, ~Fair(i), rows'[m][r].text = i
        PROVE  ~Fair(rows[m][r].text)'
    <3>1. ~Fair(i)'
      BY <2>1, FairStays
    <3> QED BY <2>1, <3>1 DEF Fair
  <2>2. \A k \in DOMAIN rows[m] : rows[m][k].text \in DOMAIN stream /\ (rows[m][k].cipher => ~Fair(rows[m][k].text))
    <3>1. \A k \in DOMAIN rows[m] : rows[m][k] \in Row
      <4>1. rows[m] \in Seq(Row)
        BY TypesAre DEF PersistTypes, TypeTables
      <4> QED BY <4>1
    <3>2. 1..given \subseteq DOMAIN stream
      BY TypesAre DEF PersistTypes, TypeGiven, TypeStream
    <3> QED BY <1>1, <3>1, <3>2 DEF ServeInv, Row
  <2>3. CASE UNCHANGED rows
    BY <1>3, <2>1, <2>2, <2>3
  <2>4. ASSUME NEW w \in Persisters, Stores(w)
        PROVE  ~Fair(rows[m][r].text)'
    <3>1. Now(w) \in DOMAIN stream /\ (step[w].cipher => ~Fair(Now(w)))
      BY <1>1, <2>4, StoresAre, InHandIs DEF ServeInv, StoresAs, PersistTypes
    <3>2. \/ r \in DOMAIN rows[m] /\ rows[m][r].cipher /\ rows'[m][r].text = rows[m][r].text
          \/ step[w].cipher /\ rows'[m][r].text = Now(w)
      BY <1>3, <2>4, RowsServe
    <3> QED BY <2>1, <2>2, <3>1, <3>2
  <2> QED BY <2>3, <2>4, StreamSteps
<1> QED BY <1>2, <1>3
-----------------------------------------------------------------------------
(* What the tables say.                                                     *)

PersistInv == PersistTypes /\ MessagesFirst /\ TablesInv /\ Placed /\ OnceInv /\ AloneInv /\ KeysInv /\ TriesInv /\ ServeInv

\* At the beginning there is nothing but instances and keys.
LEMMA PersistInvInit ==
  ASSUME PersistInit
  PROVE  PersistInv
<1>1. PersistTypes
  BY PersistTypesInit
<1>2. /\ stream = <<>> /\ given = 0 /\ due = {} /\ acked = {} /\ tries = <<>>
      /\ held = [w \in Persisters |-> <<>>] /\ step = [w \in Persisters |-> AtStart]
      /\ keyCache = [w \in Persisters |-> <<>>]
      /\ rows = [m \in MessageIds |-> <<>>] /\ versions = [m \in MessageIds |-> <<>>] /\ reactions = {}
      /\ done = <<>> /\ served = {} /\ upsets = {}
  BY DEF PersistInit
<1>3. Written = {} /\ DOMAIN stream = {} /\ DOMAIN done = {} /\ Len(done) = 0
  <2>1. DOMAIN stream = {} /\ DOMAIN done = {} /\ Len(done) = 0
    BY <1>2
  <2> QED BY <2>1 DEF Written, ToSet
<1>4. \A w \in Persisters : held[w] = <<>> /\ Len(held[w]) = 0 /\ DOMAIN held[w] = {} /\ DOMAIN keyCache[w] = {} /\ step[w] = AtStart
  BY <1>2
<1>5. \A w \in Persisters : step[w].at = "idle" /\ step[w].cipher = FALSE
  BY <1>4 DEF AtStart
<1>6. \A m \in MessageIds : rows[m] = <<>> /\ versions[m] = <<>> /\ DOMAIN rows[m] = {}
  BY <1>2
<1>7. MessagesFirst
  BY <1>3 DEF MessagesFirst
<1>8. TablesInv
  <2>1. \A m \in MessageIds : WrittenOf(m) = {}
    BY <1>3 DEF WrittenOf
  <2> QED BY <2>1, <1>6 DEF TablesInv, RowRight, ReactionsRight, Inserted
<1>9. Placed
  BY <1>4 DEF Placed
<1>10. OnceInv
  BY <1>2, <1>3, <1>5 DEF OnceInv
<1>11. AloneInv
  BY <1>2, <1>3, <1>4, <1>5 DEF AloneInv
<1>12. KeysInv
  <2>1. PICK b \in PersistBudgets :
         /\ made = [e \in KeyEpochs |-> IF e <= b.epochs THEN 1 ELSE 0]
         /\ rawKey = [e \in KeyEpochs |-> IF e <= b.epochs /\ ~(b.late /\ e = 2) THEN 1 ELSE 0]
    BY DEF PersistInit
  <2>2. \A e \in KeyEpochs : rawKey[e] <= made[e]
    BY <2>1
  <2> QED BY <2>2, <1>2, <1>4 DEF KeysInv
<1>13. TriesInv
  BY <1>3, <1>4 DEF TriesInv
<1>14. ServeInv
  BY <1>5, <1>6 DEF ServeInv
<1> QED BY <1>1, <1>7, <1>8, <1>9, <1>10, <1>11, <1>12, <1>13, <1>14 DEF PersistInv

LEMMA PersistInvStep ==
  ASSUME PersistInv, [PersistNext]_persistVars
  PROVE  PersistInv'
<1>1. PersistTypes /\ MessagesFirst /\ TablesInv /\ Placed /\ OnceInv /\ AloneInv /\ KeysInv /\ TriesInv /\ ServeInv
  BY DEF PersistInv
<1> QED
  BY <1>1, TypesStep, FirstStays, TablesStep, PlacedStep, OnceStep, AloneStep, KeysStep, TriesStep, ServeStep DEF PersistInv

\* When all is acknowledged, what was written of a message is what was sent of it.
LEMMA AllWritten ==
  ASSUME PersistTypes, acked = DOMAIN stream, NEW m \in MessageIds
  PROVE  /\ DeletedBy(m) = DeletionsOf(m) /\ WrittenTexts(m) = TextsOf(m)
         /\ Sent(m) => Inserted(m)
         /\ \A i \in ReactionsTo(m) : i \in WrittenOf(m) /\ stream[i].act = "react"
<1>1. Written \subseteq 1..given
  <2>1. done \in Seq(1..given)
    BY TypesAre DEF PersistTypes, TypeDone
  <2>2. \A d \in DOMAIN done : done[d] \in 1..given
    <3> DEFINE S == 1..given
    <3>1. done \in Seq(S)
      BY <2>1
    <3> HIDE DEF S
    <3>2. \A d \in DOMAIN done : done[d] \in S
      BY <3>1
    <3> QED BY <3>2 DEF S
  <2> QED BY <2>2 DEF Written, ToSet
<1>2. 1..given \subseteq DOMAIN stream
  BY TypesAre DEF PersistTypes, TypeGiven, TypeStream
<1>3. Written = DOMAIN stream
  BY <1>1, <1>2 DEF PersistTypes, WrittenInv
<1>4. DeletedBy(m) = DeletionsOf(m)
  BY <1>3 DEF DeletedBy, WrittenOf, DeletionsOf
<1> QED BY <1>3, <1>4 DEF WrittenTexts, WrittenOf, TextsOf, Sent, Inserted, ReactionsTo

LEMMA TablesAreRight ==
  ASSUME PersistTypes, TablesInv
  PROVE  TablesRight
<1> SUFFICES ASSUME PersistAtRest, NEW m \in MessageIds, Sent(m), WrittenInOrder(m)
             PROVE  /\ Len(rows[m]) = 1
                    /\ IsLatest(rows[m][1].text, TextsOf(m)) /\ rows[m][1].gone = (DeletionsOf(m) # {})
                    /\ AreLatest(versions[m], TextsOf(m) \ {rows[m][1].text})
                    /\ ReactionsTo(m) \subseteq reactions
  BY DEF TablesRight
<1>1. acked = DOMAIN stream
  BY DEF PersistAtRest
<1>2. DeletedBy(m) = DeletionsOf(m) /\ WrittenTexts(m) = TextsOf(m) /\ Inserted(m)
  BY <1>1, AllWritten
<1>3. RowRight(m) /\ ReactionsRight(m)
  BY DEF TablesInv
<1>4. ReactionsTo(m) \subseteq reactions
  BY <1>1, <1>3, AllWritten DEF ReactionsRight
<1> QED BY <1>2, <1>3, <1>4 DEF RowRight

LEMMA OrderIsKept ==
  ASSUME PersistTypes, OnceInv, AloneInv
  PROVE  OrderKept
<1> SUFFICES ASSUME upsets = {}
             PROVE  /\ IsInjective(done)
                    /\ \A w \in Persisters : crew = {w} => done = [i \in DOMAIN done |-> i]
  BY DEF OrderKept
<1>1. IsInjective(done)
  BY DEF OnceInv, IsInjective
<1>2. ASSUME NEW w \in Persisters, crew = {w}
      PROVE  done = [i \in DOMAIN done |-> i]
  <2>1. \A i \in DOMAIN done : done[i] = i
    BY <1>2 DEF AloneInv
  <2>2. done \in Seq(1..given)
    BY TypesAre DEF PersistTypes, TypeDone
  <2>3. done = [i \in DOMAIN done |-> done[i]]
    BY <2>2
  <2> QED BY <2>1, <2>3
<1> QED BY <1>1, <1>2

LEMMA KeysDoServe ==
  ASSUME ServeInv
  PROVE  KeysServe
BY DEF ServeInv, KeysServe, Fair

\* What is acknowledged was written, whatever crashed or failed; without trouble
\* it was written once, and by one instance alone in the order of the stream; a
\* text whose key the service has is stored decrypted; and when all is
\* acknowledged the tables say of a message what the stream says of it, but for a
\* message whose events were written twice or out of order.
THEOREM TablesFollow == PersistSpec => []TablesFollowStream
<1>1. PersistInit => PersistInv
  BY PersistInvInit
<1>2. PersistInv /\ [PersistNext]_persistVars => PersistInv'
  BY PersistInvStep
<1>3. PersistInv => TablesFollowStream
  <2> SUFFICES ASSUME PersistInv
               PROVE  TablesFollowStream
    OBVIOUS
  <2>1. PersistTypes /\ TablesInv /\ OnceInv /\ AloneInv /\ ServeInv
    BY DEF PersistInv
  <2>2. NothingForgotten
    BY <2>1 DEF PersistTypes, WrittenInv, Written, NothingForgotten
  <2> QED BY <2>1, <2>2, OrderIsKept, KeysDoServe, TablesAreRight DEF TablesFollowStream
<1> QED BY <1>1, <1>2, <1>3, PTL DEF PersistSpec
=============================================================================
