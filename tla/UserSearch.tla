----------------------------- MODULE UserSearch -----------------------------
(***************************************************************************)
(* The three places where users are looked up while a name is typed: a     *)
(* mention in the message field, a new direct conversation, an invitation  *)
(* to a private room.  The search starts 300 ms after the last change, and *)
(* an answer that comes late is taken like any other.                      *)
(*                                                                         *)
(* Words are numbered as they are typed; an answer is the word it is for   *)
(* and how many users it names.                                            *)
(***************************************************************************)
EXTENDS Integers, FiniteSets

CONSTANTS MaxTyped,      \* bound: words typed
          MaxFound,      \* bound: users in an answer
          SearchBudgets  \* bound: how often each other event happens

ASSUME SearchBounds == MaxTyped \in Nat /\ MaxFound \in Nat \ {0}

Boxes == {"mention", "direct", "invite"}
SearchKinds == {"opens", "moves", "drops"}

ASSUME CountedSearches == SearchBudgets \subseteq [SearchKinds -> Nat]

VARIABLES
  box,          \* which of the three
  opened,       \* showSearch, showInvite; the message field is always open
  name,         \* mentionQuery, searchQuery, inviteQuery: the word, or 0
  found,        \* searchResults, inviteResults
  armed,        \* debounceRef
  sought,       \* users.search requests under way
  searching,    \* the flag; the invitation has none
  highlighted,  \* activeIndex, of the mention
  moved,        \* ghost: the user went down a list, and the place was not reset since
  overtaken,    \* ghost: the answer shown is to an older word, or the word was not asked for
  online,       \* client.isConnected
  names, searchLeft

searchVars == <<box, opened, name, found, armed, sought, searching, highlighted, moved, overtaken, online, names, searchLeft>>

NoName == 0
NoUsers == [of |-> NoName, users |-> 0]
Answer == [of : 0..MaxTyped, users : 0..MaxFound]

SpendSearch(kind) == searchLeft[kind] > 0 /\ searchLeft' = [searchLeft EXCEPT ![kind] = @ - 1]

SearchInit ==
  /\ box \in Boxes /\ opened = (box = "mention") /\ name = NoName /\ found = NoUsers
  /\ armed = FALSE /\ sought = {} /\ searching = FALSE /\ highlighted = 0
  /\ moved = FALSE /\ overtaken = FALSE /\ online = TRUE /\ names = 0 /\ searchLeft \in SearchBudgets

\* A bug: the place in the list is kept.
SearchForHere(n) ==
  /\ armed' = online
  /\ searching' = (online /\ box # "invite") /\ UNCHANGED <<found, highlighted>>
  /\ name' = n /\ moved' = FALSE /\ overtaken' = ~online

\* The effect for a word: the old timer is cleared by the cleanup, a new one set.
\* Without a connection the mention is given up; the others keep what they show.
SearchFor(n) ==
  /\ armed' = online
  /\ IF online
       THEN searching' = (box # "invite") /\ highlighted' = 0 /\ moved' = FALSE /\ UNCHANGED found
       ELSE /\ UNCHANGED <<highlighted, moved>>
            /\ IF box = "mention" THEN found' = NoUsers /\ searching' = FALSE
                                  ELSE UNCHANGED <<found, searching>>
  /\ name' = n /\ overtaken' = ~online

\* Another word: detectMention, or a change of the field.
TypeName ==
  /\ opened /\ names < MaxTyped /\ names' = names + 1
  /\ SearchFor(names + 1)
  /\ UNCHANGED <<box, opened, sought, online, searchLeft>>

\* No word: the results go, and so does the timer; not the requests.
Cleared ==
  /\ name' = NoName /\ found' = NoUsers /\ armed' = FALSE
  /\ overtaken' = FALSE /\ UNCHANGED moved

\* The word is deleted, or the mention has ended; without a connection the effect
\* returns at once, but for the mention.
EraseName ==
  /\ opened /\ name # NoName
  /\ IF online \/ box = "mention"
       THEN Cleared /\ searching' = FALSE
       ELSE /\ name' = NoName /\ armed' = FALSE /\ overtaken' = FALSE
            /\ UNCHANGED <<found, searching, moved>>
  /\ UNCHANGED <<box, opened, sought, highlighted, online, names, searchLeft>>

\* The timer.
AskUsers ==
  /\ armed /\ armed' = FALSE
  /\ sought' = sought \cup {name}
  /\ UNCHANGED <<box, opened, name, found, searching, highlighted, moved, overtaken, online, names, searchLeft>>

\* searchUsers; a request that fails is answered with no user, never an error.
UsersFound(n, k) ==
  /\ n \in sought /\ sought' = sought \ {n}
  /\ found' = [of |-> n, users |-> k]
  /\ searching' = FALSE
  /\ overtaken' = IF name \in sought THEN n # name ELSE overtaken \/ n # name
  /\ UNCHANGED <<box, opened, name, armed, highlighted, moved, online, names, searchLeft>>

\* The keys up and down, and the mouse, in the list of the mention.
Move(i) ==
  /\ box = "mention" /\ name # NoName /\ i \in 0..(found.users - 1) /\ i # highlighted
  /\ SpendSearch("moves")
  /\ highlighted' = i /\ moved' = TRUE
  /\ UNCHANGED <<box, opened, name, found, armed, sought, searching, overtaken, online, names>>

\* selectUser, handleSelectUser, handleInvite: the list goes, and the popover.
\* A key picks the active user, who must be in the list.
Pick ==
  /\ name # NoName /\ found.users > 0 /\ (box = "mention" => highlighted < found.users)
  /\ Cleared /\ opened' = (box = "mention")
  /\ searching' = IF box = "mention" THEN FALSE ELSE searching
  /\ UNCHANGED <<box, sought, highlighted, online, names, searchLeft>>

\* handleToggleSearch forgets the word, the popover of the invitation keeps it.
\* The effect of a closed one returns at once and leaves the flag.
CloseSearch ==
  /\ box # "mention" /\ opened /\ opened' = FALSE
  /\ IF box = "direct" THEN Cleared
                       ELSE armed' = FALSE /\ UNCHANGED <<name, found, moved, overtaken>>
  /\ UNCHANGED <<box, sought, searching, highlighted, online, names, searchLeft>>
OpenSearch ==
  /\ ~opened /\ SpendSearch("opens") /\ opened' = TRUE
  /\ IF name # NoName THEN SearchFor(name)
     ELSE IF online THEN Cleared /\ searching' = FALSE /\ UNCHANGED highlighted
     ELSE UNCHANGED <<name, found, armed, searching, highlighted, moved, overtaken>>
  /\ UNCHANGED <<box, sought, online, names>>

\* Only the invitation searches again after a reconnection.
Unplug == online /\ SpendSearch("drops") /\ online' = FALSE
          /\ armed' = (armed /\ box # "invite")
          /\ overtaken' = (overtaken \/ (armed /\ box = "invite"))
          /\ UNCHANGED <<box, opened, name, found, sought, searching, highlighted, moved, names>>
Replug ==
  /\ ~online /\ online' = TRUE
  /\ IF box = "invite" /\ opened /\ name # NoName
       THEN armed' = TRUE /\ overtaken' = FALSE
       ELSE UNCHANGED <<armed, overtaken>>
  /\ UNCHANGED <<box, opened, name, found, sought, searching, highlighted, moved, names, searchLeft>>

SearchNext ==
  \/ TypeName \/ EraseName \/ AskUsers \/ Pick \/ CloseSearch \/ OpenSearch \/ Unplug \/ Replug
  \/ \E n \in sought, k \in 0..MaxFound : UsersFound(n, k)
  \/ \E i \in 0..(MaxFound - 1) : Move(i)

SearchSpec == SearchInit /\ [][SearchNext]_searchVars
-----------------------------------------------------------------------------
SearchTypeOK ==
  /\ box \in Boxes /\ name \in 0..MaxTyped /\ found \in Answer /\ sought \subseteq 1..MaxTyped
  /\ {opened, armed, searching, moved, overtaken, online} \subseteq BOOLEAN
  /\ highlighted \in 0..(MaxFound - 1) /\ names \in 0..MaxTyped /\ searchLeft \in [SearchKinds -> Nat]

\* When no timer and no request is left, an open search does not say that it is
\* searching, and lists the users found for the word that is typed, unless the
\* answer to an older word came after its own, or the connection was down when
\* the word was typed: then "Searching" may stay for good.  And the user the Enter
\* key would pick is in the list, unless the user had gone down a list and an answer
\* made it shorter, with no word typed over a connection since: there the key throws.
SearchSettles ==
  /\ (opened /\ name # NoName /\ ~armed /\ sought = {}) => overtaken \/ (~searching /\ found.of = name)
  /\ (box = "mention" /\ name # NoName /\ found.users > 0 /\ ~moved) => highlighted < found.users
=============================================================================
