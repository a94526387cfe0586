-------------------------------- MODULE Polls --------------------------------
(***************************************************************************)
(* The poll app of a room: what one user's page shows of the polls, and    *)
(* poll-service, which tells the room about each vote.  The page asks for  *)
(* results at three places (a load of everything, a vote of its own, an    *)
(* event), whose answers arrive in any order.                              *)
(***************************************************************************)
EXTENDS Integers, Sequences, FiniteSets, SequencesExt

CONSTANTS PollIds,      \* the polls of the room
          PollBudgets   \* bound: how often each event happens

PollBudgetKinds == {"own", "foreign", "votes", "closes", "mounts", "drops", "failures"}

ASSUME CountedPolls == PollBudgets \subseteq [PollBudgetKinds -> Nat]

Unknown == -1

VARIABLES
  tally,       \* votes of each poll that exists, Unknown of the others
  mine,        \* polls this user created
  shut,        \* closed polls
  events,      \* "updated" events on their way to the user, in order
  pollsUp,     \* the app is on the screen
  listed,      \* polls of the page: the state
  badged,      \* those it shows as closed
  results,     \* results of the page: the votes, Unknown before an answer
  voted,       \* polls the user has a vote in
  loads,       \* loadPolls calls under way
  resultAsks,  \* single requests for results under way
  joinedUp,    \* connected
  chilled,     \* ghost: polls of which an event or an answer was lost or overtaken
  pollsLeft

pollVars == <<tally, mine, shut, events, pollsUp, listed, badged, results, voted,
              loads, resultAsks, joinedUp, chilled, pollsLeft>>

Polled == {p \in PollIds : tally[p] # Unknown}
SpendPoll(kind) == pollsLeft[kind] > 0 /\ pollsLeft' = [pollsLeft EXCEPT ![kind] = @ - 1]
\* A load: asking for the list (todo is the polls still to ask for) or results.
PollLoad == [step : {"list", "results"}, todo : SUBSET PollIds, got : [PollIds -> Int]]
NewLoad == [step |-> "list", todo |-> {}, got |-> [p \in PollIds |-> Unknown]]
ResultAsk == [poll : PollIds, no : Nat, votes : Int]

PollsInit ==
  /\ tally = [p \in PollIds |-> Unknown] /\ mine = {} /\ shut = {} /\ events = <<>>
  /\ pollsUp = FALSE /\ listed = {} /\ badged = {} /\ results = [p \in PollIds |-> Unknown]
  /\ voted = {} /\ loads = <<>> /\ resultAsks = {} /\ joinedUp = TRUE /\ chilled = {}
  /\ pollsLeft \in PollBudgets

\* publishUpdated, and the fanout to a user who is connected or not.
Announce(p) ==
  IF joinedUp THEN events' = Append(events, p) /\ UNCHANGED chilled
              ELSE chilled' = chilled \cup {p} /\ UNCHANGED events

FreshNo(p) == CHOOSE no \in 1..(Cardinality(resultAsks) + 1) : \A q \in resultAsks : q.poll = p => q.no # no
Asked(p) == resultAsks \cup {[poll |-> p, no |-> FreshNo(p), votes |-> Unknown]}
Warmed(p, votes) == IF votes = tally[p] THEN chilled \ {p} ELSE IF votes < results[p] THEN chilled \cup {p} ELSE chilled

-----------------------------------------------------------------------------
(* The service.                                                             *)

OthersCreate(p) ==
  /\ tally[p] = Unknown /\ SpendPoll("foreign") /\ tally' = [tally EXCEPT ![p] = 0] /\ Announce(p)
  /\ UNCHANGED <<mine, shut, pollsUp, listed, badged, results, voted, loads, resultAsks, joinedUp>>

OthersVote(p) ==
  /\ p \in Polled \ shut /\ SpendPoll("votes") /\ tally' = [tally EXCEPT ![p] = @ + 1] /\ Announce(p)
  /\ UNCHANGED <<mine, shut, pollsUp, listed, badged, results, voted, loads, resultAsks, joinedUp>>

\* Only the creator closes a poll.
OthersClose(p) ==
  /\ p \in Polled \ (mine \cup shut) /\ SpendPoll("closes") /\ shut' = shut \cup {p} /\ Announce(p)
  /\ UNCHANGED <<tally, mine, pollsUp, listed, badged, results, voted, loads, resultAsks, joinedUp>>

-----------------------------------------------------------------------------
(* The page.                                                                *)

\* The tab is chosen: setBridge renders App, whose effect loads and subscribes.
MountPolls ==
  /\ ~pollsUp /\ SpendPoll("mounts") /\ pollsUp' = TRUE /\ loads' = <<NewLoad>>
  /\ UNCHANGED <<tally, mine, shut, events, listed, badged, results, voted, resultAsks, joinedUp, chilled>>

\* Another tab: the component goes with all it knows.
UnmountPolls ==
  /\ pollsUp /\ pollsUp' = FALSE /\ listed' = {} /\ badged' = {} /\ loads' = <<>> /\ resultAsks' = {}
  /\ results' = [p \in PollIds |-> Unknown] /\ chilled' = {}
  /\ UNCHANGED <<tally, mine, shut, events, voted, joinedUp, pollsLeft>>

\* The answer to "list"; the results are then asked for one poll after the other.
PollsListed(i) ==
  /\ i \in DOMAIN loads /\ loads[i].step = "list" /\ joinedUp
  /\ listed' = Polled /\ badged' = shut
  /\ loads' = [loads EXCEPT ![i].step = "results", ![i].todo = Polled]
  /\ UNCHANGED <<tally, mine, shut, events, pollsUp, results, voted, resultAsks, joinedUp, chilled, pollsLeft>>

\* One of its results is read by the service and comes back.
ResultJoins(i, p) ==
  /\ i \in DOMAIN loads /\ p \in loads[i].todo /\ joinedUp
  /\ loads' = [loads EXCEPT ![i].todo = @ \ {p}, ![i].got[p] = tally[p]]
  /\ UNCHANGED <<tally, mine, shut, events, pollsUp, listed, badged, results, voted, resultAsks, joinedUp, chilled, pollsLeft>>

\* After the last one the map replaces the results the page had.
LoadEnds(i) ==
  /\ i \in DOMAIN loads /\ loads[i].step = "results" /\ loads[i].todo = {}
  /\ results' = loads[i].got
  /\ chilled' = {p \in Polled : LET v == loads[i].got[p] IN v # tally[p] /\ (p \in chilled \/ v < results[p])}
  /\ loads' = RemoveAt(loads, i)
  /\ UNCHANGED <<tally, mine, shut, events, pollsUp, listed, badged, voted, resultAsks, joinedUp, pollsLeft>>

\* A request of it fails: what it has so far is dropped.
LoadFails(i) ==
  /\ i \in DOMAIN loads /\ (joinedUp => SpendPoll("failures")) /\ (~joinedUp => UNCHANGED pollsLeft)
  /\ chilled' = PollIds /\ loads' = RemoveAt(loads, i)
  /\ UNCHANGED <<tally, mine, shut, events, pollsUp, listed, badged, results, voted, resultAsks, joinedUp>>

\* A bug: while everything is loaded, single events are passed over.
UpdatedUnlessLoading ==
  /\ events # <<>> /\ events' = Tail(events)
  /\ resultAsks' = IF pollsUp /\ loads = <<>> THEN Asked(Head(events)) ELSE resultAsks
  /\ UNCHANGED <<tally, mine, shut, pollsUp, listed, badged, results, voted, loads, joinedUp, chilled, pollsLeft>>

\* The callback of "updated".  The service always names the poll, so a new or a
\* closed one is asked for its results too; the list is not loaded again.
Updated ==
  /\ events # <<>> /\ events' = Tail(events)
  /\ resultAsks' = IF pollsUp THEN Asked(Head(events)) ELSE resultAsks
  /\ UNCHANGED <<tally, mine, shut, pollsUp, listed, badged, results, voted, loads, joinedUp, chilled, pollsLeft>>

\* getPollResults reads the votes, at any of the workers.
ResultsRead(q) ==
  /\ q \in resultAsks /\ q.votes = Unknown /\ joinedUp
  /\ resultAsks' = (resultAsks \ {q}) \cup {[q EXCEPT !.votes = tally[q.poll]]}
  /\ UNCHANGED <<tally, mine, shut, events, pollsUp, listed, badged, results, voted, loads, joinedUp, chilled, pollsLeft>>

ResultsCome(q) ==
  /\ q \in resultAsks /\ q.votes # Unknown /\ joinedUp
  /\ results' = [results EXCEPT ![q.poll] = q.votes] /\ chilled' = Warmed(q.poll, q.votes)
  /\ resultAsks' = resultAsks \ {q}
  /\ UNCHANGED <<tally, mine, shut, events, pollsUp, listed, badged, voted, loads, joinedUp, pollsLeft>>

ResultsFail(q) ==
  /\ q \in resultAsks /\ (joinedUp => SpendPoll("failures")) /\ (~joinedUp => UNCHANGED pollsLeft)
  /\ resultAsks' = resultAsks \ {q} /\ chilled' = chilled \cup {q.poll}
  /\ UNCHANGED <<tally, mine, shut, events, pollsUp, listed, badged, results, voted, loads, joinedUp>>

\* handleVote, up to its question: offered on a card that shows no vote of the
\* user and no badge.  The refusal of a closed poll is an answer like any other.
Vote(p) ==
  /\ p \in listed \ (badged \cup voted) /\ results[p] # Unknown /\ joinedUp /\ SpendPoll("votes")
  /\ resultAsks' = Asked(p)
  /\ IF p \in shut
       THEN UNCHANGED <<tally, voted, events, chilled>>
       ELSE tally' = [tally EXCEPT ![p] = @ + 1] /\ voted' = voted \cup {p} /\ Announce(p)
  /\ UNCHANGED <<mine, shut, pollsUp, listed, badged, results, loads, joinedUp>>

\* handleCreate and handleClose load everything again.
CreatePoll(p) ==
  /\ pollsUp /\ joinedUp /\ tally[p] = Unknown /\ SpendPoll("own")
  /\ tally' = [tally EXCEPT ![p] = 0] /\ mine' = mine \cup {p} /\ Announce(p)
  /\ loads' = Append(loads, NewLoad)
  /\ UNCHANGED <<shut, pollsUp, listed, badged, results, voted, resultAsks, joinedUp>>
ClosePoll(p) ==
  /\ p \in (listed \cap mine) \ badged /\ results[p] # Unknown /\ joinedUp /\ SpendPoll("closes")
  /\ shut' = shut \cup {p} /\ Announce(p) /\ loads' = Append(loads, NewLoad)
  /\ UNCHANGED <<tally, mine, pollsUp, listed, badged, results, voted, resultAsks, joinedUp>>

\* The connection: events on their way are lost with it.
PollLinkDrops ==
  /\ joinedUp /\ SpendPoll("drops") /\ joinedUp' = FALSE
  /\ events' = <<>> /\ chilled' = chilled \cup ToSet(events)
  /\ UNCHANGED <<tally, mine, shut, pollsUp, listed, badged, results, voted, loads, resultAsks>>
PollLinkReturns ==
  /\ ~joinedUp /\ joinedUp' = TRUE
  /\ UNCHANGED <<tally, mine, shut, events, pollsUp, listed, badged, results, voted, loads, resultAsks, chilled, pollsLeft>>

PollsNext ==
  \/ \E p \in PollIds : OthersCreate(p) \/ OthersVote(p) \/ OthersClose(p) \/ Vote(p) \/ CreatePoll(p) \/ ClosePoll(p)
  \/ \E i \in DOMAIN loads : PollsListed(i) \/ LoadEnds(i) \/ LoadFails(i)
  \/ \E i \in DOMAIN loads, p \in PollIds : ResultJoins(i, p)
  \/ \E q \in resultAsks : ResultsRead(q) \/ ResultsCome(q) \/ ResultsFail(q)
  \/ MountPolls \/ UnmountPolls \/ Updated \/ PollLinkDrops \/ PollLinkReturns

PollsSpec == PollsInit /\ [][PollsNext]_pollVars
-----------------------------------------------------------------------------
PollsTypeOK ==
  /\ {tally, results} \subseteq [PollIds -> Nat \cup {Unknown}]
  /\ mine \cup shut \cup listed \cup badged \cup voted \cup chilled \subseteq PollIds
  /\ events \in Seq(PollIds) /\ loads \in Seq(PollLoad) /\ resultAsks \subseteq ResultAsk
  /\ {pollsUp, joinedUp} \subseteq BOOLEAN /\ pollsLeft \in [PollBudgetKinds -> Nat]

\* Once all answers have come, each poll of the page shows the votes the service
\* has, but for those of which an answer was overtaken by a newer one, or an
\* event or an answer was lost.
PollsSettle ==
  pollsUp /\ events = <<>> /\ loads = <<>> /\ resultAsks = {} =>
    \A p \in listed \ chilled : results[p] = tally[p]
=============================================================================
