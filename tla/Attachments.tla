---------------------------- MODULE Attachments -----------------------------
(***************************************************************************)
(* Files that are attached to messages.  The files of one choice are       *)
(* uploaded one after the other, each in three steps: a place is asked     *)
(* for, the bytes are transferred, the upload is confirmed.  When all are  *)
(* done they wait in the message field for the next message.               *)
(***************************************************************************)
EXTENDS Integers, FiniteSets

CONSTANTS Files,             \* the files that may be chosen
          AttachmentBudgets  \* bound: how often each event happens

ASSUME FilesAreFinite == IsFiniteSet(Files)

AttachmentKinds == {"choices", "words", "leaves", "drops", "failures"}

ASSUME CountedAttachments == AttachmentBudgets \subseteq [AttachmentKinds -> Nat]

VARIABLES
  uploads,       \* handleFileUpload calls under way: files to do and done, and the step
  uploading,     \* the flag
  uploaded,      \* files the service has confirmed
  pendingFiles,  \* pendingFiles
  sent,          \* the files of each message that was published
  draft,         \* there is text in the field
  written,       \* the field is on the screen
  plugged,       \* connected
  forsaken,      \* ghost: files taken away, of a choice that failed, or left behind
  attachLeft

attachVars == <<uploads, uploading, uploaded, pendingFiles, sent, draft, written, plugged, forsaken, attachLeft>>

Upload == [todo : SUBSET Files, done : SUBSET Files, step : {"place", "bytes", "confirm"}, here : BOOLEAN]
SpendAttach(kind) == attachLeft[kind] > 0 /\ attachLeft' = [attachLeft EXCEPT ![kind] = @ - 1]
Known == uploaded \cup UNION {u.todo : u \in uploads}

AttachInit ==
  /\ uploads = {} /\ uploading = FALSE /\ uploaded = {} /\ pendingFiles = {} /\ sent = {}
  /\ draft = FALSE /\ written = TRUE /\ plugged = TRUE /\ forsaken = {} /\ attachLeft \in AttachmentBudgets

\* handleFileUpload; the button is off while a file is uploaded, but files may
\* be dropped on the field at any time.
ChooseFiles(chosen, dropped) ==
  /\ written /\ chosen # {} /\ chosen \cap Known = {} /\ (dropped \/ (plugged /\ ~uploading))
  /\ SpendAttach("choices")
  /\ IF plugged
       THEN /\ uploads' = uploads \cup {[todo |-> chosen, done |-> {}, step |-> "place", here |-> TRUE]}
            /\ uploading' = TRUE
       ELSE UNCHANGED <<uploads, uploading>>
  /\ UNCHANGED <<uploaded, pendingFiles, sent, draft, written, plugged, forsaken>>

\* upload: requestUpload, uploadFile.
UploadStep(u, next) ==
  /\ u \in uploads /\ <<u.step, next>> \in {<<"place", "bytes">>, <<"bytes", "confirm">>}
  /\ (u.step = "place" => plugged)
  /\ uploads' = (uploads \ {u}) \cup {[u EXCEPT !.step = next]}
  /\ UNCHANGED <<uploading, uploaded, pendingFiles, sent, draft, written, plugged, forsaken, attachLeft>>

\* confirmUpload; after the last file those of the choice join what waits.
FileStored(u, f) ==
  LET rest == u.todo \ {f} IN
  /\ u \in uploads /\ u.step = "confirm" /\ f \in u.todo /\ plugged
  /\ uploaded' = uploaded \cup {f}
  /\ IF rest # {}
       THEN /\ uploads' = (uploads \ {u}) \cup {[u EXCEPT !.todo = rest, !.done = @ \cup {f}, !.step = "place"]}
            /\ UNCHANGED <<uploading, pendingFiles, forsaken>>
       ELSE /\ uploads' = uploads \ {u}
            /\ IF u.here
                 THEN pendingFiles' = pendingFiles \cup u.done \cup {f} /\ uploading' = FALSE /\ UNCHANGED forsaken
                 ELSE forsaken' = forsaken \cup u.done \cup {f} /\ UNCHANGED <<pendingFiles, uploading>>
  /\ UNCHANGED <<sent, draft, written, plugged, attachLeft>>

\* A step fails: too large, refused, not connected, timed out.  The files of the
\* choice that are stored already are forgotten.  The last step may fail although
\* the service has done its part.
UploadFails(u, confirmed) ==
  /\ u \in uploads /\ (confirmed => u.step = "confirm")
  /\ IF plugged \/ u.step = "bytes" THEN SpendAttach("failures") ELSE UNCHANGED attachLeft
  /\ uploads' = uploads \ {u} /\ uploading' = (uploading /\ ~u.here)
  /\ uploaded' = IF confirmed THEN uploaded \cup {CHOOSE f \in u.todo : TRUE} ELSE uploaded
  /\ forsaken' = forsaken \cup u.done \cup (uploaded' \ uploaded)
  /\ UNCHANGED <<pendingFiles, sent, draft, written, plugged>>

\* The cross of a file that waits.
TakeAway(f) ==
  /\ written /\ f \in pendingFiles
  /\ pendingFiles' = pendingFiles \ {f} /\ forsaken' = forsaken \cup {f}
  /\ UNCHANGED <<uploads, uploading, uploaded, sent, draft, written, plugged, attachLeft>>

WriteDraft ==
  /\ written /\ plugged /\ ~draft /\ SpendAttach("words") /\ draft' = TRUE
  /\ UNCHANGED <<uploads, uploading, uploaded, pendingFiles, sent, written, plugged, forsaken>>

\* A bug: only the text is cleared.
SubmitText(delivered) ==
  /\ written /\ plugged /\ (draft \/ pendingFiles # {})
  /\ IF delivered THEN UNCHANGED attachLeft ELSE SpendAttach("failures")
  /\ sent' = IF delivered THEN sent \cup {[no |-> Cardinality(sent), files |-> pendingFiles]} ELSE sent
  /\ forsaken' = IF delivered THEN forsaken ELSE forsaken \cup pendingFiles
  /\ draft' = FALSE
  /\ UNCHANGED <<uploads, uploading, uploaded, pendingFiles, written, plugged>>

\* handleSubmit and handleSend: the field is cleared, whether sendMessage fails
\* or not.
Submit(delivered) ==
  /\ written /\ plugged /\ (draft \/ pendingFiles # {})
  /\ IF delivered THEN UNCHANGED attachLeft ELSE SpendAttach("failures")
  /\ sent' = IF delivered THEN sent \cup {[no |-> Cardinality(sent), files |-> pendingFiles]} ELSE sent
  /\ forsaken' = IF delivered THEN forsaken ELSE forsaken \cup pendingFiles
  /\ draft' = FALSE /\ pendingFiles' = {}
  /\ UNCHANGED <<uploads, uploading, uploaded, written, plugged>>

\* Another room or tab is chosen: the field goes, and what waits in it; its
\* uploads go on.
LeaveField ==
  /\ written /\ SpendAttach("leaves") /\ written' = FALSE
  /\ forsaken' = forsaken \cup pendingFiles /\ pendingFiles' = {} /\ draft' = FALSE /\ uploading' = FALSE
  /\ uploads' = {[u EXCEPT !.here = FALSE] : u \in uploads}
  /\ UNCHANGED <<uploaded, sent, plugged>>
ReturnToField ==
  /\ ~written /\ written' = TRUE
  /\ UNCHANGED <<uploads, uploading, uploaded, pendingFiles, sent, draft, plugged, forsaken, attachLeft>>

LinkFalls ==
  /\ plugged /\ SpendAttach("drops") /\ plugged' = FALSE
  /\ UNCHANGED <<uploads, uploading, uploaded, pendingFiles, sent, draft, written, forsaken>>
LinkRises ==
  /\ ~plugged /\ plugged' = TRUE
  /\ UNCHANGED <<uploads, uploading, uploaded, pendingFiles, sent, draft, written, forsaken, attachLeft>>

AttachNext ==
  \/ \E chosen \in SUBSET Files, dropped \in BOOLEAN : ChooseFiles(chosen, dropped)
  \/ \E u \in uploads, next \in {"bytes", "confirm"} : UploadStep(u, next)
  \/ \E u \in uploads, f \in Files : FileStored(u, f)
  \/ \E u \in uploads, b \in BOOLEAN : UploadFails(u, b)
  \/ \E f \in pendingFiles : TakeAway(f)
  \/ \E b \in BOOLEAN : Submit(b)
  \/ WriteDraft \/ LeaveField \/ ReturnToField \/ LinkFalls \/ LinkRises

AttachSpec == AttachInit /\ [][AttachNext]_attachVars
-----------------------------------------------------------------------------
AttachTypeOK ==
  /\ uploads \subseteq Upload /\ uploaded \cup pendingFiles \cup forsaken \subseteq Files
  /\ {uploading, draft, written, plugged} \subseteq BOOLEAN
  /\ sent \subseteq [no : Nat, files : SUBSET Files] /\ attachLeft \in [AttachmentKinds -> Nat]

\* Each file the service has stored is at one place and one only: with its
\* choice, in the field, in one message; but for those of a choice of which a
\* later file failed, and those of a message that could not be sent, which no
\* place has any more.
FilesAccountedFor ==
  LET places == {u.done : u \in uploads} \cup {pendingFiles, forsaken} \cup {m.files : m \in sent} IN
  /\ uploaded = UNION places
  /\ Cardinality(uploaded) = Cardinality(pendingFiles) + Cardinality(forsaken)
       + Cardinality(UNION {u.done : u \in uploads}) + Cardinality(UNION {m.files : m \in sent})
  /\ \A m, n \in sent : m # n => m.files \cap n.files = {}
=============================================================================
