------------------------------- MODULE Parts -------------------------------
(***************************************************************************)
(* The parts of the web client and of the room apps, the service that      *)
(* knows who is connected and the one that stores the messages, in one     *)
(* specification.  They share no variable, so that each behaviour is one   *)
(* of one part, the others staying where they start: interleaving them     *)
(* would multiply the states and show nothing more.                        *)
(***************************************************************************)
EXTENDS ChatView, DecryptMessages, ClientSession, PresenceView, Whiteboard, InstalledApps, MessageField,
        Translations, DirectMessages, ReadReceipts, PresenceService, PersistWorker

VARIABLE part  \* the part that is awake

Parts == {"chat", "decrypt", "session", "presence", "board", "page", "search", "market",
          "attachments", "translations", "polls", "tabs", "dms", "reads", "connections", "persist"}
webVars == <<part, chatVars, decryptVars, sessionVars, presenceVars, boardVars, pageVars, searchVars,
            marketVars, attachVars, translationVars, pollVars, tabVars, dmVars, readVars, connectionVars,
            persistVars>>

\* A part that sleeps is in one of its initial states only, the pinned one.
Starts(p, pinned) == part = p \/ pinned
OneOf(budgets) == CHOOSE b \in budgets : TRUE

WebInit ==
  /\ part \in Parts
  /\ ChatInit /\ Starts("chat", private = FALSE /\ joined = FALSE /\ chatLeft = OneOf(ChatBudgets))
  /\ DecryptInit /\ Starts("decrypt", lines = 0 /\ secret = {})
  /\ SessionInit /\ Starts("session", member = {} /\ seen.priv = {} /\ sessionLeft = OneOf(SessionBudgets))
  /\ PresenceInit /\ Starts("presence", status = AllOffline)
  /\ BoardInit /\ Starts("board", boardLeft = OneOf(BoardBudgets))
  /\ PageInit /\ Starts("page", pageLeft = OneOf(PageBudgets))
  /\ SearchInit /\ Starts("search", box = "invite" /\ searchLeft = OneOf(SearchBudgets))
  /\ MarketInit /\ Starts("market", marketLeft = OneOf(MarketBudgets))
  /\ AttachInit /\ Starts("attachments", attachLeft = OneOf(AttachmentBudgets))
  /\ TranslationsInit /\ Starts("translations", translationsLeft = OneOf(TranslationBudgets))
  /\ PollsInit /\ Starts("polls", pollsLeft = OneOf(PollBudgets))
  /\ TabsInit /\ Starts("tabs", tabsLeft = OneOf(TabBudgets))
  /\ DmInit /\ Starts("dms", dmsLeft = OneOf(DmBudgets))
  /\ ReadInit /\ Starts("reads", position = Absent /\ readsLeft = OneOf(ReadBudgets))
  /\ ConnectionInit /\ Starts("connections", browser = [c \in Browsers |-> "gone"])
  /\ PersistInit /\ Starts("persist", crew = {})

WebNext ==
  \/ part = "chat" /\ ChatNext
     /\ UNCHANGED <<part, decryptVars, sessionVars, presenceVars, boardVars, pageVars, searchVars, marketVars,
                    attachVars, translationVars, pollVars, tabVars, dmVars, readVars, connectionVars, persistVars>>
  \/ part = "decrypt" /\ DecryptNext
     /\ UNCHANGED <<part, chatVars, sessionVars, presenceVars, boardVars, pageVars, searchVars, marketVars,
                    attachVars, translationVars, pollVars, tabVars, dmVars, readVars, connectionVars, persistVars>>
  \/ part = "session" /\ SessionNext
     /\ UNCHANGED <<part, chatVars, decryptVars, presenceVars, boardVars, pageVars, searchVars, marketVars,
                    attachVars, translationVars, pollVars, tabVars, dmVars, readVars, connectionVars, persistVars>>
  \/ part = "presence" /\ PresenceNext
     /\ UNCHANGED <<part, chatVars, decryptVars, sessionVars, boardVars, pageVars, searchVars, marketVars,
                    attachVars, translationVars, pollVars, tabVars, dmVars, readVars, connectionVars, persistVars>>
  \/ part = "board" /\ BoardNext
     /\ UNCHANGED <<part, chatVars, decryptVars, sessionVars, presenceVars, pageVars, searchVars, marketVars,
                    attachVars, translationVars, pollVars, tabVars, dmVars, readVars, connectionVars, persistVars>>
  \/ part = "page" /\ PageNext
     /\ UNCHANGED <<part, chatVars, decryptVars, sessionVars, presenceVars, boardVars, searchVars, marketVars,
                    attachVars, translationVars, pollVars, tabVars, dmVars, readVars, connectionVars, persistVars>>
  \/ part = "search" /\ SearchNext
     /\ UNCHANGED <<part, chatVars, decryptVars, sessionVars, presenceVars, boardVars, pageVars, marketVars,
                    attachVars, translationVars, pollVars, tabVars, dmVars, readVars, connectionVars, persistVars>>
  \/ part = "market" /\ MarketNext
     /\ UNCHANGED <<part, chatVars, decryptVars, sessionVars, presenceVars, boardVars, pageVars, searchVars,
                    attachVars, translationVars, pollVars, tabVars, dmVars, readVars, connectionVars, persistVars>>
  \/ part = "attachments" /\ AttachNext
     /\ UNCHANGED <<part, chatVars, decryptVars, sessionVars, presenceVars, boardVars, pageVars, searchVars,
                    marketVars, translationVars, pollVars, tabVars, dmVars, readVars, connectionVars, persistVars>>
  \/ part = "translations" /\ TranslationsNext
     /\ UNCHANGED <<part, chatVars, decryptVars, sessionVars, presenceVars, boardVars, pageVars, searchVars,
                    marketVars, attachVars, pollVars, tabVars, dmVars, readVars, connectionVars, persistVars>>
  \/ part = "polls" /\ PollsNext
     /\ UNCHANGED <<part, chatVars, decryptVars, sessionVars, presenceVars, boardVars, pageVars, searchVars,
                    marketVars, attachVars, translationVars, tabVars, dmVars, readVars, connectionVars, persistVars>>
  \/ part = "tabs" /\ TabsNext
     /\ UNCHANGED <<part, chatVars, decryptVars, sessionVars, presenceVars, boardVars, pageVars, searchVars,
                    marketVars, attachVars, translationVars, pollVars, dmVars, readVars, connectionVars, persistVars>>
  \/ part = "dms" /\ DmNext
     /\ UNCHANGED <<part, chatVars, decryptVars, sessionVars, presenceVars, boardVars, pageVars, searchVars,
                    marketVars, attachVars, translationVars, pollVars, tabVars, readVars, connectionVars, persistVars>>
  \/ part = "reads" /\ ReadNext
     /\ UNCHANGED <<part, chatVars, decryptVars, sessionVars, presenceVars, boardVars, pageVars, searchVars,
                    marketVars, attachVars, translationVars, pollVars, tabVars, dmVars, connectionVars, persistVars>>
  \/ part = "connections" /\ ConnectionNext
     /\ UNCHANGED <<part, chatVars, decryptVars, sessionVars, presenceVars, boardVars, pageVars, searchVars,
                    marketVars, attachVars, translationVars, pollVars, tabVars, dmVars, readVars, persistVars>>
  \/ part = "persist" /\ PersistNext
     /\ UNCHANGED <<part, chatVars, decryptVars, sessionVars, presenceVars, boardVars, pageVars, searchVars,
                    marketVars, attachVars, translationVars, pollVars, tabVars, dmVars, readVars, connectionVars>>

WebSpec == WebInit /\ [][WebNext]_webVars
-----------------------------------------------------------------------------
\* Each part keeps the types of its variables.
WebTypeOK ==
  /\ part = "chat" => ChatTypeOK
  /\ part = "decrypt" => DecryptTypeOK
  /\ part = "session" => SessionTypeOK
  /\ part = "presence" => PresenceTypeOK
  /\ part = "board" => BoardTypeOK
  /\ part = "page" => PageTypeOK
  /\ part = "search" => SearchTypeOK
  /\ part = "market" => MarketTypeOK
  /\ part = "attachments" => AttachTypeOK
  /\ part = "translations" => TranslationsTypeOK
  /\ part = "polls" => PollsTypeOK
  /\ part = "tabs" => TabsTypeOK
  /\ part = "dms" => DmTypeOK
  /\ part = "reads" => ReadTypeOK
  /\ part = "connections" => ConnectionTypeOK
  /\ part = "persist" => PersistTypeOK
=============================================================================
