--------------------------- MODULE StickerMarket ----------------------------
(***************************************************************************)
(* The dialog in which a sticker is chosen: first the packs, fetched once, *)
(* then the stickers of a pack.  One flag says that something is loading.  *)
(* An effect that is cleaned up ignores its answer, and its flag with it.  *)
(***************************************************************************)
EXTENDS Integers, FiniteSets

CONSTANTS Packs,         \* the packs of the service
          NoPack,        \* no pack is chosen
          MarketBudgets  \* bound: how often each event happens

ASSUME NoPackIsNone == NoPack \notin Packs /\ "packs" \notin Packs

MarketKinds == {"shows", "choices", "failures"}

ASSUME CountedMarkets == MarketBudgets \subseteq [MarketKinds -> Nat]

VARIABLES
  market,         \* the dialog is open
  packs,          \* products
  pack,           \* selectedProduct
  stickers,       \* of which pack the stickers are shown
  loading,
  fetched,        \* fetchedRef
  marketFetches,  \* the fetches whose effect is still there: "packs", or a pack
  ignored,        \* fetches of effects that were cleaned up
  stranded,       \* ghost: a fetch was cleaned up, and none was started since
  fruitless,      \* ghost: the packs will not be fetched again
  chosen,         \* stickers sent
  marketLeft

marketVars == <<market, packs, pack, stickers, loading, fetched, marketFetches, ignored, stranded, fruitless, chosen, marketLeft>>

SpendMarket(kind) == marketLeft[kind] > 0 /\ marketLeft' = [marketLeft EXCEPT ![kind] = @ - 1]

MarketInit ==
  /\ market = FALSE /\ packs = {} /\ pack = NoPack /\ stickers = NoPack /\ loading = FALSE
  /\ fetched = FALSE /\ marketFetches = {} /\ ignored = {} /\ stranded = FALSE /\ fruitless = FALSE
  /\ chosen = {} /\ marketLeft \in MarketBudgets

\* The dialog opens; the packs are fetched the first time.
ShowMarket ==
  /\ ~market /\ SpendMarket("shows") /\ market' = TRUE
  /\ IF fetched THEN UNCHANGED <<loading, fetched, marketFetches, stranded>>
     ELSE fetched' = TRUE /\ loading' = TRUE /\ marketFetches' = {"packs"} /\ stranded' = FALSE
  /\ UNCHANGED <<packs, pack, stickers, ignored, fruitless, chosen>>

\* Every effect that depends on the choice or on the dialog is cleaned up.
Abandon(which) ==
  /\ marketFetches' = marketFetches \ which /\ ignored' = ignored \cup (marketFetches \cap which)
  /\ stranded' = (stranded \/ (marketFetches \cap which # {}))
  /\ fruitless' = (fruitless \/ "packs" \in marketFetches \cap which)

\* The dialog closes, and the choice is forgotten.
Hide ==
  /\ market /\ market' = FALSE
  /\ Abandon(marketFetches) /\ pack' = NoPack /\ stickers' = NoPack
  /\ UNCHANGED <<packs, loading, fetched>>
HideMarket == Hide /\ UNCHANGED <<chosen, marketLeft>>

\* The arrow back to the packs.
BackToPacks ==
  /\ market /\ pack # NoPack /\ pack' = NoPack /\ stickers' = NoPack
  /\ Abandon(marketFetches \cap Packs)
  /\ UNCHANGED <<market, packs, loading, fetched, chosen, marketLeft>>

\* A pack is shown to choose only when nothing is loading.
ChoosePack(p) ==
  /\ market /\ ~loading /\ pack = NoPack /\ p \in packs /\ SpendMarket("choices")
  /\ pack' = p /\ loading' = TRUE /\ marketFetches' = marketFetches \cup {p} /\ stranded' = FALSE
  /\ UNCHANGED <<market, packs, stickers, fetched, ignored, fruitless, chosen>>

\* A bug: only an answer that came is the end of the loading.
FetchEndsOnlyWell(f, ok) ==
  /\ f \in marketFetches /\ marketFetches' = marketFetches \ {f}
  /\ IF ok THEN UNCHANGED marketLeft ELSE SpendMarket("failures")
  /\ loading' = (loading /\ ~ok)
  /\ packs' = IF f = "packs" /\ ok THEN Packs ELSE packs
  /\ fruitless' = (fruitless \/ (f = "packs" /\ ~ok))
  /\ stickers' = IF f \in Packs /\ ok THEN f ELSE stickers
  /\ UNCHANGED <<market, pack, fetched, ignored, stranded, chosen>>

\* An answer; one that fails is an empty list.
FetchEnds(f, ok) ==
  /\ f \in marketFetches /\ marketFetches' = marketFetches \ {f}
  /\ IF ok THEN UNCHANGED marketLeft ELSE SpendMarket("failures")
  /\ loading' = FALSE
  /\ packs' = IF f = "packs" /\ ok THEN Packs ELSE packs
  /\ fruitless' = (fruitless \/ (f = "packs" /\ ~ok))
  /\ stickers' = IF f \in Packs /\ ok THEN f ELSE stickers
  /\ UNCHANGED <<market, pack, fetched, ignored, stranded, chosen>>

\* An answer to an effect that is gone.
FetchIgnored(f) ==
  /\ f \in ignored /\ ignored' = ignored \ {f}
  /\ UNCHANGED <<market, packs, pack, stickers, loading, fetched, marketFetches, stranded, fruitless, chosen, marketLeft>>

\* A sticker of the list is clicked: it is sent, and the dialog closes.
ChooseSticker ==
  /\ market /\ ~loading /\ pack # NoPack /\ stickers # NoPack
  /\ chosen' = chosen \cup {stickers}
  /\ Hide /\ UNCHANGED marketLeft

MarketNext ==
  \/ ShowMarket \/ HideMarket \/ BackToPacks \/ ChooseSticker
  \/ \E p \in Packs : ChoosePack(p)
  \/ \E f \in Packs \cup {"packs"}, ok \in BOOLEAN : FetchEnds(f, ok)
  \/ \E f \in ignored : FetchIgnored(f)

MarketSpec == MarketInit /\ [][MarketNext]_marketVars
-----------------------------------------------------------------------------
MarketTypeOK ==
  /\ {market, loading, fetched, stranded, fruitless} \subseteq BOOLEAN
  /\ packs \subseteq Packs /\ {pack, stickers} \subseteq Packs \cup {NoPack} /\ chosen \subseteq Packs
  /\ marketFetches \cup ignored \subseteq Packs \cup {"packs"} /\ marketLeft \in [MarketKinds -> Nat]

\* "Loading..." is shown only while an answer is awaited that will end it, and
\* once it has ended the packs are there, and so are the stickers of the pack
\* that was chosen and of no other; unless the dialog was closed or left for the
\* packs in the middle of a fetch, or the one fetch of the packs had no answer.
MarketSettles ==
  /\ loading => marketFetches # {} \/ stranded
  /\ (fetched /\ marketFetches = {}) => packs = Packs \/ fruitless
  /\ stickers # NoPack => stickers = pack
=============================================================================
