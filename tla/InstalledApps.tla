---------------------------- MODULE InstalledApps ---------------------------
(***************************************************************************)
(* The apps of a room as one user sees them: a page of the knowledge base, *)
(* the polls, and the tabs that show the one or the other.                 *)
(***************************************************************************)
EXTENDS PageEditor, Polls, AppTabs

\* The room apps at rest: what was written in a page is saved and its editors
\* are shown, the results of the polls are those of the service, and the tab
\* that is chosen shows its app.
AppsSettle == WordsAreSaved /\ EditorsShown /\ PollsSettle /\ TabShowsItsApp
=============================================================================
