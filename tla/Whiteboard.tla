----------------------------- MODULE Whiteboard -----------------------------
(***************************************************************************)
(* One board of the whiteboard app: the views of its editors, and the      *)
(* service, which runs any number of handlers at once.  Every element      *)
(* carries a version; a change with a greater version replaces it.         *)
(*                                                                         *)
(* A handler reads the board, merges and writes it back in two queries.    *)
(* The changes it broadcasts come through fanout-service, in any order.    *)
(***************************************************************************)
EXTENDS Integers, FiniteSets

CONSTANTS Editors,       \* users, each with one view
          Elements,      \* the elements that may be drawn
          Nobody,        \* no editor
          BoardBudgets   \* bound: how often each event happens

ASSUME NobodyIsNoEditor == Nobody \notin Editors

BoardKinds == {"edits", "opens", "closes", "deletions", "faults"}

ASSUME CountedBoards == BoardBudgets \subseteq [BoardKinds -> Nat]

VARIABLES
  board,      \* the elements in the database
  exists,     \* the row is there
  deltas,     \* delta requests on their way or in a handler
  syncs,      \* broadcasts on their way to each view
  view,       \* what each editor looks at
  loaded,     \* the answer to load, for a view that is opening
  scene,      \* the elements of each view
  known,      \* localElementsRef: the versions each view has seen or sent
  muted,      \* isSendingDeltaRef
  pending,    \* pendingChangesRef
  blemished,  \* ghost: elements of which a change was lost, tied or came too late
  boardLeft

boardVars == <<board, exists, deltas, syncs, view, loaded, scene, known, muted, pending, blemished, boardLeft>>

Element == [ver : Nat, by : Editors \cup {Nobody}, gone : BOOLEAN]
NoElement == [ver |-> 0, by |-> Nobody, gone |-> FALSE]
Nothing == [e \in Elements |-> NoElement]
In(els) == {e \in Elements : els[e].ver > 0}
Delta == [from : Editors, els : [Elements -> Element], read : BOOLEAN, stored : [Elements -> Element]]

SpendOn(kind) == boardLeft[kind] > 0 /\ boardLeft' = [boardLeft EXCEPT ![kind] = @ - 1]

BoardInit ==
  /\ board = Nothing /\ exists = TRUE /\ deltas = {} /\ syncs = [u \in Editors |-> {}]
  /\ view = [u \in Editors |-> "list"] /\ loaded = [u \in Editors |-> Nothing]
  /\ scene = [u \in Editors |-> Nothing] /\ known = [u \in Editors |-> [e \in Elements |-> 0]]
  /\ muted = [u \in Editors |-> FALSE] /\ pending = [u \in Editors |-> Nothing]
  /\ blemished = {} /\ boardLeft \in BoardBudgets

\* A bug: the elements received replace the others whatever their versions.
MergedBlindly(base, els) == [e \in Elements |-> IF els[e].ver > 0 THEN els[e] ELSE base[e]]
\* mergeElements, of the service and of the view.
Merged(base, els) == [e \in Elements |-> IF els[e].ver > base[e].ver THEN els[e] ELSE base[e]]
\* Two changes of one version: the one that is there stays.
Tied(base, els) == {e \in In(els) : els[e].ver = base[e].ver /\ els[e] # base[e]}

-----------------------------------------------------------------------------
(* BoardView.                                                               *)

OpenBoard(u) ==
  /\ view[u] = "list" /\ SpendOn("opens")
  /\ view' = [view EXCEPT ![u] = "asking"]
  /\ UNCHANGED <<board, exists, deltas, syncs, loaded, scene, known, muted, pending, blemished>>

\* handleLoad; the error for a board that is gone shows an empty one.
Load(u) ==
  /\ view[u] = "asking"
  /\ view' = [view EXCEPT ![u] = "opening"]
  /\ loaded' = [loaded EXCEPT ![u] = IF exists THEN board ELSE Nothing]
  /\ UNCHANGED <<board, exists, deltas, syncs, scene, known, muted, pending, blemished, boardLeft>>

\* The board is shown, and only now are broadcasts listened to.
Show(u) ==
  /\ view[u] = "opening"
  /\ view' = [view EXCEPT ![u] = "open"]
  /\ scene' = [scene EXCEPT ![u] = loaded[u]]
  /\ known' = [known EXCEPT ![u] = [e \in Elements |-> loaded[u][e].ver]]
  /\ loaded' = [loaded EXCEPT ![u] = Nothing]
  /\ UNCHANGED <<board, exists, deltas, syncs, muted, pending, blemished, boardLeft>>

\* handleChange: what is newer than the version known is to be sent; nothing is
\* noticed in the 50 ms after a broadcast.
Unreported(u, els) == {e \in Elements : els[e].ver > known[u][e]}
HandleChange(u, els) ==
  IF muted[u] THEN UNCHANGED <<known, pending>>
  ELSE LET changed == Unreported(u, els) IN
       /\ known' = [known EXCEPT ![u] = [e \in Elements |-> IF e \in changed THEN els[e].ver ELSE @[e]]]
       /\ pending' = [pending EXCEPT ![u] = [e \in Elements |-> IF e \in changed THEN els[e] ELSE @[e]]]

\* The user draws an element, or moves or deletes one.
Edit(u, e, gone) ==
  LET new == [ver |-> scene[u][e].ver + 1, by |-> u, gone |-> gone]
      after == [scene[u] EXCEPT ![e] = new]
  IN
  /\ view[u] = "open" /\ SpendOn("edits")
  /\ IF scene[u][e].ver = 0
       THEN ~gone /\ known[u][e] = 0 /\ \A v \in Editors : scene[v][e].ver = 0
                  /\ board[e].ver = 0 /\ \A d \in deltas : d.els[e].ver = 0
       ELSE ~scene[u][e].gone
  /\ scene' = [scene EXCEPT ![u] = after]
  /\ HandleChange(u, after)
  /\ UNCHANGED <<board, exists, deltas, syncs, view, loaded, muted, blemished>>

\* Excalidraw reports a change of something else; a change missed is noticed.
OnChange(u) ==
  /\ view[u] = "open" /\ ~muted[u] /\ Unreported(u, scene[u]) # {}
  /\ HandleChange(u, scene[u])
  /\ UNCHANGED <<board, exists, deltas, syncs, view, loaded, scene, muted, blemished, boardLeft>>

Unmute(u) ==
  /\ muted[u] /\ muted' = [muted EXCEPT ![u] = FALSE]
  /\ UNCHANGED <<board, exists, deltas, syncs, view, loaded, scene, known, pending, blemished, boardLeft>>

\* flushDelta, 300 ms after the last change.
Send(u) ==
  IF pending[u] = Nothing THEN UNCHANGED <<deltas, pending>>
  ELSE /\ deltas' = deltas \cup {[from |-> u, els |-> pending[u], read |-> FALSE, stored |-> Nothing]}
       /\ pending' = [pending EXCEPT ![u] = Nothing]
Flush(u) ==
  /\ view[u] = "open" /\ pending[u] # Nothing
  /\ Send(u)
  /\ UNCHANGED <<board, exists, syncs, view, loaded, scene, known, muted, blemished, boardLeft>>

\* A bug: what was drawn stays when another view is opened.
CloseKeeping(u) ==
  /\ view[u] = "open" /\ SpendOn("closes")
  /\ view' = [view EXCEPT ![u] = "list"]
  /\ Send(u)
  /\ UNCHANGED <<board, exists, syncs, loaded, scene, known, muted, blemished>>

\* The view goes; its timer stays, so what is pending is still sent.
CloseBoard(u) ==
  /\ view[u] = "open" /\ SpendOn("closes")
  /\ view' = [view EXCEPT ![u] = "list"]
  /\ Send(u)
  /\ scene' = [scene EXCEPT ![u] = Nothing]
  /\ known' = [known EXCEPT ![u] = [e \in Elements |-> 0]]
  /\ muted' = [muted EXCEPT ![u] = FALSE]
  /\ UNCHANGED <<board, exists, syncs, loaded, blemished>>

\* getSceneElements leaves out the deleted ones, whose versions are forgotten.
Live(els) == [e \in Elements |-> IF els[e].gone THEN NoElement ELSE els[e]]
Revived(u, els) == {e \in In(els) : els[e].ver < known[u][e] /\ Live(scene[u])[e] = NoElement}
\* A deletion made while the view was muted is left out before it was reported.
Unsaid(u) == {e \in Unreported(u, scene[u]) : scene[u][e].gone}

\* A bug: the tracker is left as it was, so the change looks like the user's own.
SyncUntracked(u, els) ==
  /\ els \in syncs[u] /\ syncs' = [syncs EXCEPT ![u] = @ \ {els}]
  /\ view[u] = "open"
  /\ scene' = [scene EXCEPT ![u] = Merged(Live(scene[u]), els)]
  /\ muted' = [muted EXCEPT ![u] = TRUE]
  /\ UNCHANGED <<board, exists, deltas, view, loaded, pending, known, blemished, boardLeft>>

\* What a view that does not listen has not got yet.
Missed(u, els) ==
  {e \in In(els) : \/ view[u] = "opening" /\ els[e] # loaded[u][e]
                   \/ view[u] = "open" /\ els[e].ver > known[u][e]}

\* A broadcast arrives; before the board is open nobody listens.
Sync(u, els) ==
  /\ els \in syncs[u] /\ syncs' = [syncs EXCEPT ![u] = @ \ {els}]
  /\ IF view[u] = "open"
       THEN /\ scene' = [scene EXCEPT ![u] = Merged(Live(scene[u]), els)]
            /\ known' = [known EXCEPT ![u] = [e \in Elements |-> IF els[e].ver > @[e] THEN els[e].ver ELSE @[e]]]
            /\ muted' = [muted EXCEPT ![u] = TRUE]
            /\ blemished' = blemished \cup Tied(scene[u], els) \cup Revived(u, els) \cup Unsaid(u)
       ELSE /\ blemished' = blemished \cup Missed(u, els)
            /\ UNCHANGED <<scene, known, muted>>
  /\ UNCHANGED <<board, exists, deltas, view, loaded, pending, boardLeft>>

SyncLost(u, els) ==
  /\ els \in syncs[u] /\ syncs' = [syncs EXCEPT ![u] = @ \ {els}]
  /\ SpendOn("faults") /\ blemished' = blemished \cup In(els)
  /\ UNCHANGED <<board, exists, deltas, view, loaded, scene, known, muted, pending>>

-----------------------------------------------------------------------------
(* handleDelta and handleDelete.                                            *)

\* SELECT; a change that replaces nothing is answered and forgotten, and so is
\* one of a board that is gone.
DeltaRead(d) ==
  /\ d \in deltas /\ ~d.read
  /\ IF exists /\ Merged(board, d.els) # board
       THEN deltas' = (deltas \ {d}) \cup {[d EXCEPT !.read = TRUE, !.stored = board]}
       ELSE deltas' = deltas \ {d}
  /\ blemished' = blemished \cup (IF exists THEN Tied(board, d.els) ELSE In(d.els))
  /\ UNCHANGED <<board, exists, syncs, view, loaded, scene, known, muted, pending, boardLeft>>

\* A bug: only elements that were there before are broadcast.
ChangedKnown(d) ==
  [e \in Elements |-> IF d.stored[e].ver > 0 /\ d.els[e].ver > d.stored[e].ver THEN d.els[e] ELSE NoElement]
Changed(d) == [e \in Elements |-> IF d.els[e].ver > d.stored[e].ver THEN d.els[e] ELSE NoElement]

\* UPDATE, of all elements, and the broadcast; the sender does not listen to it,
\* not even in a view it has opened since.
DeltaWrite(d) ==
  LET after == Merged(d.stored, d.els) IN
  /\ d \in deltas /\ d.read /\ deltas' = deltas \ {d}
  /\ board' = IF exists THEN after ELSE board
  /\ blemished' = blemished \cup {e \in Elements : after[e] # Merged(board, d.els)[e]} \cup Missed(d.from, Changed(d))
  /\ syncs' = [u \in Editors |-> IF u = d.from THEN syncs[u] ELSE syncs[u] \cup {Changed(d)}]
  /\ UNCHANGED <<exists, view, loaded, scene, known, muted, pending, boardLeft>>

\* The request is lost or a query fails; the view logs it and goes on.
DeltaFails(d) ==
  /\ d \in deltas /\ deltas' = deltas \ {d}
  /\ SpendOn("faults") /\ blemished' = blemished \cup In(d.els)
  /\ UNCHANGED <<board, exists, syncs, view, loaded, scene, known, muted, pending>>

DeleteBoard(u) ==
  /\ exists /\ view[u] = "list" /\ SpendOn("deletions")
  /\ exists' = FALSE /\ board' = Nothing
  /\ UNCHANGED <<deltas, syncs, view, loaded, scene, known, muted, pending, blemished>>

Editing(u) ==
  \/ OpenBoard(u) \/ Load(u) \/ Show(u) \/ OnChange(u) \/ Unmute(u) \/ Flush(u) \/ CloseBoard(u) \/ DeleteBoard(u)
  \/ \E e \in Elements, gone \in BOOLEAN : Edit(u, e, gone)
  \/ \E els \in syncs[u] : Sync(u, els) \/ SyncLost(u, els)

BoardNext ==
  \/ \E u \in Editors : Editing(u)
  \/ \E d \in deltas : DeltaRead(d) \/ DeltaWrite(d) \/ DeltaFails(d)

BoardSpec == BoardInit /\ [][BoardNext]_boardVars
-----------------------------------------------------------------------------
\* Every variable has its type, and a view that is not open has drawn nothing.
BoardTypeOK ==
  /\ board \in [Elements -> Element] /\ exists \in BOOLEAN /\ deltas \subseteq Delta
  /\ \A u \in Editors : syncs[u] \subseteq [Elements -> Element]
  /\ view \in [Editors -> {"list", "asking", "opening", "open"}]
  /\ loaded \in [Editors -> [Elements -> Element]] /\ scene \in [Editors -> [Elements -> Element]]
  /\ known \in [Editors -> [Elements -> Nat]] /\ muted \in [Editors -> BOOLEAN]
  /\ pending \in [Editors -> [Elements -> Element]] /\ blemished \subseteq Elements
  /\ boardLeft \in [BoardKinds -> Nat]
  /\ \A u \in Editors : view[u] # "open" => scene[u] = Nothing /\ pending[u] = Nothing /\ ~muted[u]

\* A view sends nothing but its user's own changes: what came from others is not
\* sent back, whenever broadcasts, edits and timers meet.
NoEcho ==
  /\ \A d \in deltas : \A e \in In(d.els) : d.els[e].by = d.from
  /\ \A u \in Editors : \A e \in In(pending[u]) : pending[u][e].by = u

\* On the screen an element never goes back to an older version, in whatever
\* order broadcasts come, unless it was deleted there.
VersionsGrow ==
  [][\A u \in Editors : view[u] = "open" /\ view'[u] = "open" =>
       \A e \in Elements : scene'[u][e].ver >= scene[u][e].ver \/ scene[u][e].gone]_boardVars

Reported(u) == Unreported(u, scene[u]) = {} /\ pending[u] = Nothing
Alike(a, b) == a = b \/ (a.gone /\ b = NoElement)
BoardAtRest == deltas = {} /\ exists /\ \A u \in Editors : syncs[u] = {} /\ Reported(u)

\* When nothing is under way any more all views show what the database has,
\* element by element, but for those of which two handlers at once lost a
\* change, two users made the same version, a broadcast passed an opening view
\* by or revived what was deleted, a deletion went unsaid, or a request failed.
ScenesAgree ==
  BoardAtRest => \A u \in Editors, e \in Elements \ blemished :
                   view[u] = "open" => Alike(board[e], scene[u][e])

\* BoardView and the whiteboard service: whoever looks at a board that is still
\* sees the same, and nobody sends back what he was sent.
BoardsAgree == ScenesAgree /\ NoEcho
=============================================================================
