---------------------------- MODULE MessageField ----------------------------
(***************************************************************************)
(* The message field of a room: the users looked up while a name is typed, *)
(* the stickers, and the files that are attached.  They share nothing but  *)
(* the screen, and each is to come to rest by itself.                      *)
(***************************************************************************)
EXTENDS UserSearch, StickerMarket, Attachments

\* The message field at rest: a search shows what was searched for, the sticker
\* market stops loading, and every file that was stored is sent or waits.
FieldSettles == SearchSettles /\ MarketSettles /\ FilesAccountedFor
=============================================================================
