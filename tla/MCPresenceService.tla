------------------------- MODULE MCPresenceService -------------------------
(***************************************************************************)
(* A tab that is cut off and comes back.                                   *)
(***************************************************************************)
EXTENDS PresenceService

NoEvents == [kind \in ConnKinds \cup {"there", "fresh"} |-> IF kind \in ConnKinds THEN 0 ELSE {}]
MCOneCut == {[NoEvents EXCEPT !.there = Browsers, !.cut = 1]}
=============================================================================
