----------------------------- MODULE Translations -----------------------------
(***************************************************************************)
(* Translations of messages.  The service streams an answer in chunks that *)
(* carry the key of the message and not the request they answer, to        *)
(* deliver.{user}: every tab of the user appends each to its text of that  *)
(* key, whichever tab asked.                                               *)
(***************************************************************************)
EXTENDS Naturals, Sequences

CONSTANTS TranslationTabs,     \* the tabs of the user
          Keys,                \* the messages that may be translated
          Chunks,              \* chunks of an answer, the last of which says done
          TranslationBudgets   \* bound: how often each event happens

TranslationKinds == {"asks", "failures", "probes", "waits", "leaves", "drops", "refreshes"}

ASSUME AnswersHaveChunks == Chunks \in Nat \ {0}

ASSUME CountedTranslations == TranslationBudgets \subseteq [TranslationKinds -> Nat]

VARIABLES
  answers,    \* answers the service gives, each at its next chunk
  flowing,     \* chunks published and on their way to each tab
  texts,      \* the text of each message in each tab: the chunks appended so far
  spinning,   \* translatingKeys of the room on the screen of each tab
  available,  \* the tabs that take the service for available
  healthy,    \* what the service answers to a ping
  wired,      \* the tabs that are connected
  latest,     \* ghost: the number of the last request for each message
  mixed,      \* ghost: messages whose text in a tab another answer was added to
  gapped,     \* ghost: messages a tab lost a chunk of
  translationsLeft

translationVars == <<answers, flowing, texts, spinning, available, healthy, wired, latest, mixed, gapped,
                     translationsLeft>>

Streamed == [no : Nat, key : Keys, next : 1..Chunks]
SpendTranslation(kind) ==
  translationsLeft[kind] > 0 /\ translationsLeft' = [translationsLeft EXCEPT ![kind] = @ - 1]
Mentions(k, chunks) == \E c \in chunks : c.key = k

TranslationsInit ==
  /\ answers = {} /\ flowing = [t \in TranslationTabs |-> {}] /\ healthy = TRUE
  /\ texts = [t \in TranslationTabs |-> [k \in Keys |-> <<>>]]
  /\ spinning = [t \in TranslationTabs |-> {}] /\ available = {} /\ wired = TranslationTabs
  /\ latest = [k \in Keys |-> 0] /\ mixed = [t \in TranslationTabs |-> {}]
  /\ gapped = [t \in TranslationTabs |-> {}] /\ translationsLeft \in TranslationBudgets

-----------------------------------------------------------------------------
(* A tab.                                                                   *)

\* The answer to a request of t meets the texts of every tab.
AskedFor(t, k) ==
  LET met == {s \in TranslationTabs : Mentions(k, answers \cup flowing[s]) \/ (s # t /\ texts[s][k] # <<>>)} IN
  /\ {t} \subseteq available \cap wired /\ SpendTranslation("asks")
  /\ spinning' = [spinning EXCEPT ![t] = @ \cup {k}]
  /\ answers' = answers \cup {[no |-> translationsLeft["asks"], key |-> k, next |-> 1]}
  /\ latest' = [latest EXCEPT ![k] = translationsLeft["asks"]]
  /\ mixed' = [s \in TranslationTabs |-> IF s \in met THEN mixed[s] \cup {k} ELSE mixed[s] \ {k}]
  /\ gapped' = [s \in TranslationTabs |-> IF s \in met THEN gapped[s] ELSE gapped[s] \ {k}]
  /\ UNCHANGED <<flowing, available, healthy, wired>>

\* A bug: the text of an earlier translation stays.
TranslateOver(t, k) == AskedFor(t, k) /\ UNCHANGED texts

\* handleTranslate, offered while the service is taken for available.
Translate(t, k) == AskedFor(t, k) /\ texts' = [texts EXCEPT ![t][k] = <<>>]

\* handleResult: the chunk is appended, and the spinner goes at the first one.
\* The chunks of one answer come in their order.
ChunkComes(t, c) ==
  /\ c \in flowing[t] /\ \A d \in flowing[t] : d.no = c.no => c.next <= d.next
  /\ flowing' = [flowing EXCEPT ![t] = @ \ {c}]
  /\ texts' = [texts EXCEPT ![t][c.key] = Append(@, <<c.no, c.next>>)]
  /\ spinning' = [spinning EXCEPT ![t] = @ \ {c.key}]
  /\ UNCHANGED <<answers, available, healthy, wired, latest, mixed, gapped, translationsLeft>>

\* Fifteen seconds without a chunk for a message that waits: the service is
\* taken for gone, and every spinner is taken down.
GiveUpWaiting(t) ==
  /\ spinning[t] # {} /\ SpendTranslation("waits")
  /\ available' = available \ {t} /\ spinning' = [spinning EXCEPT ![t] = {}]
  /\ UNCHANGED <<answers, flowing, texts, healthy, wired, latest, mixed, gapped>>

\* checkAvailability, at the connect and each minute the service seems away.
CheckAvailability(t) ==
  /\ t \in wired \ available /\ healthy /\ available' = available \cup {t}
  /\ UNCHANGED <<answers, flowing, texts, spinning, healthy, wired, latest, mixed, gapped, translationsLeft>>

\* Another room: the spinners are state of the room, the texts are not.
OtherRoom(t) ==
  /\ spinning[t] # {} /\ SpendTranslation("leaves") /\ spinning' = [spinning EXCEPT ![t] = {}]
  /\ UNCHANGED <<answers, flowing, texts, available, healthy, wired, latest, mixed, gapped>>

\* A new token makes a new client: it has no texts, and of an answer that is
\* being given the chunks that are still to come.
TokenRefreshed(t) ==
  LET begun == {a \in answers : a.next > 1} \cup flowing[t] IN
  /\ SpendTranslation("refreshes")
  /\ flowing' = [flowing EXCEPT ![t] = {}] /\ texts' = [texts EXCEPT ![t] = [k \in Keys |-> <<>>]]
  /\ available' = available \ {t} /\ wired' = wired \ {t}
  /\ gapped' = [gapped EXCEPT ![t] = @ \cup {k \in Keys : Mentions(k, begun)}]
  /\ UNCHANGED <<answers, spinning, healthy, latest, mixed>>

-----------------------------------------------------------------------------
(* The service and the connections.                                         *)

\* A chunk goes to every tab that is connected.
ChunkPublished(a) ==
  /\ a \in answers
  /\ flowing' = [t \in TranslationTabs |-> IF t \in wired THEN flowing[t] \cup {a} ELSE flowing[t]]
  /\ gapped' = [t \in TranslationTabs |-> IF t \in wired THEN gapped[t] ELSE gapped[t] \cup {a.key}]
  /\ answers' = (answers \ {a}) \cup IF a.next < Chunks THEN {[a EXCEPT !.next = @ + 1]} ELSE {}
  /\ healthy' = (healthy \/ a.next = Chunks)
  /\ UNCHANGED <<texts, spinning, available, wired, latest, mixed, translationsLeft>>

\* streamTranslation fails: no chunk says so.
AnswerFails(a) ==
  /\ a \in answers /\ SpendTranslation("failures")
  /\ answers' = answers \ {a} /\ healthy' = FALSE
  /\ UNCHANGED <<flowing, texts, spinning, available, wired, latest, mixed, gapped>>

\* The probe of the model, every 30 seconds.
ProbeModel(ok) ==
  /\ ok # healthy /\ SpendTranslation("probes") /\ healthy' = ok
  /\ UNCHANGED <<answers, flowing, texts, spinning, available, wired, latest, mixed, gapped>>

WireCut(t) ==
  /\ t \in wired /\ SpendTranslation("drops") /\ wired' = wired \ {t}
  /\ flowing' = [flowing EXCEPT ![t] = {}]
  /\ gapped' = [gapped EXCEPT ![t] = @ \cup {k \in Keys : Mentions(k, flowing[t])}]
  /\ UNCHANGED <<answers, texts, spinning, available, healthy, latest, mixed>>
WireMended(t) ==
  /\ t \notin wired /\ wired' = wired \cup {t}
  /\ UNCHANGED <<answers, flowing, texts, spinning, available, healthy, latest, mixed, gapped, translationsLeft>>

TranslationsNext ==
  \/ \E t \in TranslationTabs :
       \/ \E k \in Keys : Translate(t, k)
       \/ \E c \in flowing[t] : ChunkComes(t, c)
       \/ GiveUpWaiting(t) \/ CheckAvailability(t) \/ OtherRoom(t) \/ TokenRefreshed(t) \/ WireCut(t) \/ WireMended(t)
  \/ \E a \in answers : ChunkPublished(a) \/ AnswerFails(a)
  \/ \E ok \in BOOLEAN : ProbeModel(ok)

TranslationsSpec == TranslationsInit /\ [][TranslationsNext]_translationVars
-----------------------------------------------------------------------------
TranslationsTypeOK ==
  /\ answers \subseteq Streamed /\ flowing \in [TranslationTabs -> SUBSET Streamed]
  /\ texts \in [TranslationTabs -> [Keys -> Seq(Nat \X (1..Chunks))]]
  /\ {spinning, mixed, gapped} \subseteq [TranslationTabs -> SUBSET Keys]
  /\ available \cup wired \subseteq TranslationTabs /\ healthy \in BOOLEAN
  /\ latest \in [Keys -> Nat] /\ translationsLeft \in [TranslationKinds -> Nat]

\* The text a tab shows below a message is the beginning of the answer to the
\* user's last request for it, in order and without a gap, whichever tab asked,
\* unless the request found the tab with a text of its own or an answer still
\* to come, or a chunk was lost or went to an earlier client of the tab; and a
\* message that still waits shows no text.
TextOfOneAnswer ==
  \A t \in TranslationTabs, k \in Keys :
    /\ k \notin mixed[t] \cup gapped[t] => texts[t][k] = [i \in 1..Len(texts[t][k]) |-> <<latest[k], i>>]
    /\ k \in spinning[t] => texts[t][k] = <<>>
=============================================================================
