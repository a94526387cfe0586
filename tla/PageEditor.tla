----------------------------- MODULE PageEditor -----------------------------
(***************************************************************************)
(* One page of the knowledge base: the editors of its writers in the       *)
(* browser, which save two seconds after the last change, and kb-service,  *)
(* which handles the requests of all one after the other and tells every   *)
(* editor who else is editing.                                             *)
(*                                                                         *)
(* A text is the set of the words in it.  Each word is typed once, and     *)
(* carries where: in which editor of its writer, and with the page or      *)
(* before it had come.                                                     *)
(***************************************************************************)
EXTENDS Integers, Sequences, FiniteSets

CONSTANTS Writers,       \* users, each with one editor at a time
          MaxWords,      \* bound: words typed
          PageBudgets    \* bound: how often each event happens

ASSUME WordsAreCounted == MaxWords \in Nat

PageKinds == {"words", "visits", "hides", "removals", "expiries", "failures"}

ASSUME CountedPages == PageBudgets \subseteq [PageKinds -> Nat] /\ \A b \in PageBudgets : b["words"] <= MaxWords

VARIABLES
  page,      \* the text in the database
  there,     \* the row is there
  tracker,   \* EditingPresenceTracker: who edits, as the service sees it
  inbox,     \* requests on their way to the service, in order
  notes,     \* presence events on their way to each writer, in order
  editor,    \* the editor each writer looks at
  typed,     \* ghost: the words typed so far
  orphans,   \* timers of editors that are gone from the screen but still run
  lost,      \* ghost: words that the code gives up
  misheard,  \* ghost: writers about whom, or to whom, no event was sent
  pageLeft

pageVars == <<page, there, tracker, inbox, notes, editor, typed, orphans, lost, misheard, pageLeft>>

Word == [by : Writers, visit : Nat, blind : BOOLEAN, no : 1..MaxWords]
EditorState == [at : {"list", "loading", "ready"}, visit : Nat, text : SUBSET Word, sent : SUBSET Word,
           timer : BOOLEAN, saving : BOOLEAN, blind : BOOLEAN, others : SUBSET Writers]
Away == [at |-> "list", visit |-> 0, text |-> {}, sent |-> {},
         timer |-> FALSE, saving |-> FALSE, blind |-> TRUE, others |-> {}]
Post(kind, u, text) ==
  [kind |-> kind, by |-> u, visit |-> editor[u].visit, text |-> text, blind |-> editor[u].blind]

SpendPage(kind) == pageLeft[kind] > 0 /\ pageLeft' = [pageLeft EXCEPT ![kind] = @ - 1]

PageInit ==
  /\ page = {} /\ there = TRUE /\ tracker = {} /\ inbox = <<>> /\ notes = [u \in Writers |-> <<>>]
  /\ editor = [u \in Writers |-> Away] /\ typed = {} /\ orphans = {} /\ lost = {} /\ misheard = {}
  /\ pageLeft \in PageBudgets

NewWord(u) == [by |-> u, visit |-> editor[u].visit, blind |-> editor[u].blind, no |-> pageLeft["words"]]
Hand(x) == <<x.by, x.visit, x.blind>>
Shows(u) == editor[u].at # "list"

-----------------------------------------------------------------------------
(* PageEditorComponent.                                                     *)

\* A page of the list is chosen: ngOnInit asks for it.
Visit(u) ==
  /\ ~Shows(u) /\ SpendPage("visits")
  /\ editor' = [editor EXCEPT ![u] = [Away EXCEPT !.at = "loading", !.visit = editor[u].visit + 1]]
  /\ inbox' = Append(inbox, [kind |-> "load", by |-> u, visit |-> editor[u].visit + 1, text |-> {}, blind |-> TRUE])
  /\ UNCHANGED <<page, there, tracker, notes, typed, orphans, lost, misheard>>

\* A bug: while a save is under way, a change arms no timer.
TypeWhileSaving(u) ==
  /\ Shows(u) /\ SpendPage("words")
  /\ editor' = [editor EXCEPT ![u].text = @ \cup {NewWord(u)},
                              ![u].timer = @ \/ ~editor[u].saving]
  /\ typed' = typed \cup {NewWord(u)}
  /\ UNCHANGED <<page, there, tracker, inbox, notes, orphans, lost, misheard>>

\* A change of the title or the content, or a command of the toolbar: the timer
\* is set anew.  Nothing keeps the user from typing before the page has come.
Type(u) ==
  /\ Shows(u) /\ SpendPage("words")
  /\ editor' = [editor EXCEPT ![u].text = @ \cup {NewWord(u)},
                              ![u].timer = TRUE]
  /\ typed' = typed \cup {NewWord(u)}
  /\ UNCHANGED <<page, there, tracker, inbox, notes, orphans, lost, misheard>>

\* save, with what the editor shows.
Save(u) ==
  /\ editor[u].timer
  /\ inbox' = Append(inbox, Post("save", u, editor[u].text))
  /\ editor' = [editor EXCEPT ![u].timer = FALSE, ![u].saving = TRUE, ![u].sent = editor[u].text]
  /\ UNCHANGED <<page, there, tracker, notes, typed, orphans, lost, misheard, pageLeft>>

\* goBack and ngOnDestroy: the timer is cleared, whatever waits for it.
GoBack(u) ==
  /\ Shows(u)
  /\ inbox' = Append(inbox, Post("stopedit", u, {}))
  /\ editor' = [editor EXCEPT ![u] = [Away EXCEPT !.visit = editor[u].visit]]
  /\ lost' = lost \cup (editor[u].text \ editor[u].sent)
  /\ misheard' = IF editor[u].at = "loading" THEN misheard \cup {u} ELSE misheard
  /\ UNCHANGED <<page, there, tracker, notes, typed, orphans, pageLeft>>

\* Another tab of the room is chosen: the element is taken off the page and its
\* subscriptions are dropped, but the component is not destroyed.
HideApp(u) ==
  /\ editor[u].at = "ready" \/ (editor[u].at = "loading" /\ ~editor[u].timer)
  /\ SpendPage("hides")
  /\ orphans' = IF editor[u].timer THEN orphans \cup {Post("save", u, editor[u].text)} ELSE orphans
  /\ editor' = [editor EXCEPT ![u] = [Away EXCEPT !.visit = editor[u].visit]]
  /\ misheard' = misheard \cup {u}
  /\ UNCHANGED <<page, there, tracker, inbox, notes, typed, lost>>

OrphanSave(o) ==
  /\ o \in orphans /\ orphans' = orphans \ {o}
  /\ inbox' = Append(inbox, o)
  /\ UNCHANGED <<page, there, tracker, notes, editor, typed, lost, misheard, pageLeft>>

\* deletePage, confirmed and answered; only then goBack.
RemovePage(u) ==
  /\ editor[u].at = "ready" /\ SpendPage("removals")
  /\ inbox' = Append(inbox, Post("delete", u, {}))
  /\ UNCHANGED <<page, there, tracker, notes, editor, typed, orphans, lost, misheard>>

\* The callback of the bridge; who has left the page hears nothing.
Notice(u) ==
  /\ notes[u] # <<>> /\ notes' = [notes EXCEPT ![u] = Tail(@)]
  /\ editor' = [editor EXCEPT ![u].others = IF editor[u].at = "ready" THEN Head(notes[u]) \ {u} ELSE @]
  /\ UNCHANGED <<page, there, tracker, inbox, typed, orphans, lost, misheard, pageLeft>>

-----------------------------------------------------------------------------
(* The handlers of the service, and the answers.                            *)

First(kind) == inbox # <<>> /\ Head(inbox).kind = kind
Current(r) == Shows(r.by) /\ editor[r.by].visit = r.visit

\* After load, with or without the page, the editor registers; so does one that
\* was left meanwhile.
Registered(r) == Append(Tail(inbox), [r EXCEPT !.kind = "editing"])

\* handleLoad: the page replaces what was typed before it came.
LoadPage ==
  LET r == Head(inbox) IN
  /\ First("load") /\ inbox' = Registered(r)
  /\ IF Current(r)
       THEN /\ editor' = [editor EXCEPT ![r.by].at = "ready", ![r.by].text = page, ![r.by].blind = ~there,
                                        ![r.by].others = tracker \ {r.by}]
            /\ lost' = lost \cup (editor[r.by].text \ page)
       ELSE UNCHANGED <<editor, lost>>
  /\ UNCHANGED <<page, there, tracker, notes, typed, orphans, misheard, pageLeft>>

\* No answer: the editor may be used as it is.  An error is taken for a page
\* without a title and without content, and wipes out what was typed.
LoadPageFails ==
  LET r == Head(inbox) IN
  /\ First("load") /\ SpendPage("failures") /\ inbox' = Registered(r)
  /\ \/ editor' = [editor EXCEPT ![r.by].at = IF Current(r) THEN "ready" ELSE @] /\ UNCHANGED lost
     \/ /\ Current(r)
        /\ editor' = [editor EXCEPT ![r.by].at = "ready", ![r.by].text = {}, ![r.by].blind = ~there,
                                    ![r.by].others = {}]
        /\ lost' = lost \cup (editor[r.by].text \ page)
  /\ UNCHANGED <<page, there, tracker, notes, typed, orphans, misheard>>

\* Words that a save wipes out and that its text was not written upon: another
\* writer's, or those of an editor of this writer that had another page.
Overwritten(r) == {w \in page \ r.text : Hand(w) # Hand(r)}

\* handleSave; for a page that is gone the answer is {ok: false}, which the editor
\* takes for success.  Any answer ends "Saving...", another save's too.
SavePage ==
  LET r == Head(inbox) IN
  /\ First("save") /\ inbox' = Tail(inbox)
  /\ page' = IF there THEN r.text ELSE page
  /\ lost' = (lost \ page') \cup Overwritten(r)
  /\ editor' = [editor EXCEPT ![r.by].saving = @ /\ ~Current(r)]
  /\ UNCHANGED <<there, tracker, notes, typed, orphans, misheard, pageLeft>>

\* The request is lost, or answered with an error, which is not looked at; the
\* text is not sent again before the next change.
SaveFails ==
  LET r == Head(inbox) IN
  /\ First("save") /\ SpendPage("failures") /\ inbox' = Tail(inbox)
  /\ lost' = lost \cup (r.text \ page)
  /\ editor' = [editor EXCEPT ![r.by].saving = @ /\ ~Current(r)]
  /\ UNCHANGED <<page, there, tracker, notes, typed, orphans, misheard>>

\* handleDelete, and back to the list if the editor is still the same.
DeletePage ==
  LET r == Head(inbox) IN
  /\ First("delete")
  /\ there' = FALSE /\ page' = {}
  /\ IF Current(r)
       THEN /\ inbox' = Append(Tail(inbox), [r EXCEPT !.kind = "stopedit"])
            /\ editor' = [editor EXCEPT ![r.by] = [Away EXCEPT !.visit = r.visit]]
       ELSE inbox' = Tail(inbox) /\ UNCHANGED editor
  /\ UNCHANGED <<tracker, notes, typed, orphans, lost, misheard, pageLeft>>

\* publishPresence: the whole list to everybody.
Publish(editors) == notes' = [u \in Writers |-> Append(notes[u], editors)]

\* A bug: an editor who is in the list already is not announced.
EditingOnce ==
  LET u == Head(inbox).by IN
  /\ First("editing") /\ inbox' = Tail(inbox)
  /\ tracker' = tracker \cup {u}
  /\ IF tracker = {} THEN Publish(tracker') ELSE UNCHANGED notes
  /\ UNCHANGED <<page, there, editor, typed, orphans, lost, misheard, pageLeft>>

\* handleEditing, handleStopEdit.
HandleEditing ==
  LET u == Head(inbox).by IN
  /\ First("editing") /\ inbox' = Tail(inbox)
  /\ tracker' = tracker \cup {u} /\ Publish(tracker')
  /\ UNCHANGED <<page, there, editor, typed, orphans, lost, misheard, pageLeft>>

StopEdit ==
  LET u == Head(inbox).by IN
  /\ First("stopedit") /\ inbox' = Tail(inbox)
  /\ tracker' = tracker \ {u} /\ Publish(tracker')
  /\ UNCHANGED <<page, there, editor, typed, orphans, lost, misheard, pageLeft>>

PresenceFails ==
  /\ First("editing") \/ First("stopedit")
  /\ SpendPage("failures") /\ inbox' = Tail(inbox)
  /\ misheard' = misheard \cup {Head(inbox).by}
  /\ UNCHANGED <<page, there, tracker, notes, editor, typed, orphans, lost>>

\* cleanupStale: the editor says so once, and a minute later is forgotten;
\* nobody is told.
Expire(u) ==
  /\ u \in tracker /\ SpendPage("expiries")
  /\ tracker' = tracker \ {u} /\ misheard' = misheard \cup {u}
  /\ UNCHANGED <<page, there, inbox, notes, editor, typed, orphans, lost>>

PageNext ==
  \/ \E u \in Writers : Visit(u) \/ Type(u) \/ Save(u) \/ GoBack(u) \/ HideApp(u) \/ RemovePage(u) \/ Notice(u) \/ Expire(u)
  \/ \E o \in orphans : OrphanSave(o)
  \/ LoadPage \/ LoadPageFails \/ SavePage \/ SaveFails \/ DeletePage \/ HandleEditing \/ StopEdit \/ PresenceFails

PageSpec == PageInit /\ [][PageNext]_pageVars
-----------------------------------------------------------------------------
\* Every variable has its type.
PageTypeOK ==
  /\ page \subseteq Word /\ typed \subseteq Word /\ {there} \subseteq BOOLEAN /\ tracker \subseteq Writers
  /\ editor \in [Writers -> EditorState] /\ lost \subseteq Word /\ misheard \subseteq Writers
  /\ notes \in [Writers -> Seq(SUBSET Writers)] /\ pageLeft \in [PageKinds -> Nat]

PageAtRest == inbox = <<>> /\ orphans = {} /\ \A u \in Writers : ~editor[u].timer

\* When every timer has run and every request was handled, each word that was
\* typed is on the page, in whatever order changes, timers, saves and visits
\* came; but for words typed before the page had come or left unsaved, words
\* whose save failed, and those another text was written over.
WordsAreSaved == PageAtRest /\ there => typed \subseteq page \cup lost

\* When no request or event is under way, each editor shows exactly who else has
\* the page open, although the list is read before the editor is registered and
\* subscribed; but for those who were forgotten, left before the page had come,
\* or whose request failed.
EditorsShown ==
  inbox = <<>> =>
    \A u \in Writers \ misheard : (editor[u].at = "ready" /\ notes[u] = <<>>) =>
      editor[u].others \ misheard = {v \in Writers : editor[v].at = "ready"} \ (misheard \cup {u})
=============================================================================
