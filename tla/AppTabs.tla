------------------------------- MODULE AppTabs -------------------------------
(***************************************************************************)
(* The tabs of a room: the chat and the apps installed in it.  The effect  *)
(* that shows an app puts its element into the container, at once or when  *)
(* the script of the app is loaded; the cleanup empties the container and  *)
(* drops the subscriptions of the app.  The container stays from one app   *)
(* to the next, and goes when the chat is shown.                           *)
(***************************************************************************)
EXTENDS Naturals, FiniteSets

CONSTANTS RoomApps,     \* the apps installed in the room
          Careless,     \* those whose elements do not unsubscribe when they go
          Chat,         \* the tab of the messages
          TabBudgets    \* bound: how often each event happens

ASSUME ChatIsNoApp == Chat \notin RoomApps /\ Careless \subseteq RoomApps

TabKinds == {"tabs", "reconnects", "failures"}

ASSUME CountedTabs == TabBudgets \subseteq [TabKinds -> Nat]

VARIABLES
  tab,        \* activeTab
  installed,  \* installedApps
  listings,   \* getInstalledApps requests under way
  defined,    \* customElements
  scripts,    \* scripts that are being loaded, with the container they are for
  container,  \* the number of the container, if there is one
  containers, \* how many there were
  elements,   \* what is in the container
  hearing,    \* appCallbacks: the elements that hear events of the room
  failed,     \* appLoadError
  crashed,    \* the page was torn down by an error of React
  late,       \* ghost: a script was loaded after its tab had been left
  tabsLeft

tabVars == <<tab, installed, listings, defined, scripts, container, containers, elements,
             hearing, failed, crashed, late, tabsLeft>>

NoContainer == 0
Elem == [app : RoomApps, no : Nat]
SpendTab(kind) == tabsLeft[kind] > 0 /\ tabsLeft' = [tabsLeft EXCEPT ![kind] = @ - 1]

TabsInit ==
  /\ tab = Chat /\ installed = {} /\ listings = 1 /\ defined = {} /\ scripts = {}
  /\ container = NoContainer /\ containers = 0 /\ elements = {} /\ hearing = {}
  /\ failed = FALSE /\ crashed = FALSE /\ late = FALSE /\ tabsLeft \in TabBudgets

NextNo(es) == Cardinality(es) + 1
\* mountApp in the container on the screen: what was there is taken out; the
\* elements of some apps unsubscribe then.
StillHearing(heard) == {e \in heard : e \in elements => e.app \in Careless}
AppMounted(a, heard) ==
  LET e == [app |-> a, no |-> CHOOSE n \in 1..NextNo(heard) : [app |-> a, no |-> n] \notin heard] IN
  elements' = {e} /\ hearing' = heard \cup {e}

\* The effect for tab t with the apps given, after the cleanup of the last one.
\* React fails to take down an error message that the cleanup has taken out.
Effect(t, apps) ==
  LET heard == {e \in StillHearing(hearing) : e.app # tab \/ tab \notin installed} IN
  /\ tab' = t /\ installed' = apps /\ failed' = FALSE /\ late' = FALSE
  /\ containers' = IF tab = Chat /\ t # Chat THEN containers + 1 ELSE containers
  /\ container' = IF t = Chat THEN NoContainer ELSE containers'
  /\ crashed' = (failed /\ tab \in installed /\ t # Chat)
  /\ IF t \in apps \cap defined
       THEN AppMounted(t, heard) /\ UNCHANGED scripts
       ELSE /\ elements' = {} /\ hearing' = heard
            /\ scripts' = IF t \in apps THEN scripts \cup {[app |-> t, for |-> container', no |-> NextNo(scripts)]}
                                        ELSE scripts
  /\ UNCHANGED defined

ChooseTab(t) ==
  /\ ~crashed /\ t # tab /\ installed # {} /\ SpendTab("tabs")
  /\ Effect(t, installed) /\ UNCHANGED listings

\* getInstalledApps; one that fails is answered with no app.  The state is new
\* even if it is the same, and an app that is shown starts anew.
AppsListed(ok) ==
  /\ ~crashed /\ listings > 0 /\ listings' = listings - 1
  /\ IF ok THEN UNCHANGED tabsLeft ELSE SpendTab("failures")
  /\ LET apps == IF ok THEN RoomApps ELSE {} IN
       IF tab = Chat
         THEN /\ installed' = apps
              /\ UNCHANGED <<tab, defined, scripts, container, containers, elements, hearing, failed, crashed, late>>
         ELSE Effect(tab, apps)

\* Connected again: the apps are asked for, and the chat is shown.
Reconnected ==
  /\ ~crashed /\ SpendTab("reconnects") /\ listings' = listings + 1
  /\ IF tab = Chat
       THEN UNCHANGED <<tab, installed, defined, scripts, container, containers, elements, hearing, failed, crashed, late>>
       ELSE Effect(Chat, installed)

\* A bug: a script that was loaded already mounts nothing.
ScriptLoadsOnce(s) ==
  /\ ~crashed /\ s \in scripts /\ scripts' = scripts \ {s} /\ defined' = defined \cup {s.app}
  /\ IF s.app \in defined THEN UNCHANGED <<elements, hearing, late>>
     ELSE IF s.for = container
       THEN AppMounted(s.app, StillHearing(hearing)) /\ late' = (late \/ s.app # tab)
       ELSE /\ hearing' = hearing \cup {[app |-> s.app, no |-> NextNo(hearing)]}
            /\ UNCHANGED <<elements, late>>
  /\ UNCHANGED <<tab, installed, listings, container, containers, failed, crashed, tabsLeft>>

\* onload: the app is mounted in the container it was meant for, whatever tab is
\* shown now; in one that is gone it runs unseen.
ScriptLoads(s) ==
  /\ ~crashed /\ s \in scripts /\ scripts' = scripts \ {s} /\ defined' = defined \cup {s.app}
  /\ IF s.for = container
       THEN AppMounted(s.app, StillHearing(hearing)) /\ late' = (late \/ s.app # tab)
       ELSE /\ hearing' = hearing \cup {[app |-> s.app, no |-> NextNo(hearing)]}
            /\ UNCHANGED <<elements, late>>
  /\ UNCHANGED <<tab, installed, listings, container, containers, failed, crashed, tabsLeft>>

\* onerror: the message is shown in the tab that is active by now.
ScriptFails(s) ==
  /\ ~crashed /\ s \in scripts /\ scripts' = scripts \ {s} /\ SpendTab("failures")
  /\ failed' = TRUE
  /\ UNCHANGED <<tab, installed, listings, defined, container, containers, elements, hearing, crashed, late>>

TabsNext ==
  \/ \E t \in RoomApps \cup {Chat} : ChooseTab(t)
  \/ \E ok \in BOOLEAN : AppsListed(ok)
  \/ \E s \in scripts : ScriptLoads(s) \/ ScriptFails(s)
  \/ Reconnected

TabsSpec == TabsInit /\ [][TabsNext]_tabVars
-----------------------------------------------------------------------------
TabsTypeOK ==
  /\ tab \in RoomApps \cup {Chat} /\ installed \cup defined \subseteq RoomApps
  /\ scripts \subseteq [app : RoomApps, for : Nat, no : Nat] /\ elements \cup hearing \subseteq Elem
  /\ {listings, container, containers} \subseteq Nat /\ {failed, crashed, late} \subseteq BOOLEAN
  /\ tabsLeft \in [TabKinds -> Nat]

\* Once no script is being loaded, the tab of an installed app shows this app,
\* and what it shows hears the events of the room, whatever tabs were chosen
\* before and however long their scripts took; unless a script could not be
\* loaded, or that of a tab that had been left for this one was loaded later.
TabShowsItsApp ==
  (~crashed /\ tab \in installed /\ scripts = {}) =>
    failed \/ late \/ (elements # {} /\ \A e \in elements : e.app = tab /\ e \in hearing)
=============================================================================
