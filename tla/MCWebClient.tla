---------------------------- MODULE MCWebClient ----------------------------
(***************************************************************************)
(* A small instance of every part, checked in one run.                     *)
(***************************************************************************)
EXTENDS Parts

(* The bounds: how often each event happens in a behaviour.  A set of        *)
(* budgets is a set of scenarios.                                            *)

CB(ids, say, own, reply, bro, am, er, vo, op, cl, mo, pa, rr, dr, fa) ==
 [ids |-> ids, say |-> say, own |-> own, reply |-> reply, broadcast |-> bro, amend |-> am, erase |-> er, void |-> vo, open |-> op, close |-> cl,
 more |-> mo, panel |-> pa, rerun |-> rr, drop |-> dr, failure |-> fa]
\*    say own rep bro am er vo op cl mo pa rr dr fa
MCChatBudgets == {
  CB(3, 3,0,  0,  0, 0, 0, 0, 1, 0, 1, 0, 0, 0, 0),
  CB(2, 2,0,  0,  0, 0, 0, 0, 1, 0, 1, 0, 1, 0, 0),
  CB(2, 2,0,  0,  0, 0, 0, 0, 1, 0, 0, 0, 0, 1, 0),
  CB(2, 1,1,  0,  0, 0, 0, 0, 2, 1, 0, 0, 0, 0, 0),
  CB(1, 1,0,  0,  0, 0, 0, 0, 1, 1, 1, 0, 0, 0, 1),
  CB(1, 0,0,  1,  0, 1, 1, 0, 1, 0, 0, 0, 0, 0, 0),
  CB(2, 1,0,  1,  0, 0, 0, 0, 1, 0, 0, 1, 0, 0, 0),
  CB(1, 0,0,  0,  1, 0, 1, 0, 1, 0, 0, 1, 0, 0, 0),
  CB(2, 1,0,  0,  0, 0, 0, 1, 1, 0, 0, 0, 0, 0, 0)}

SB(to, dr, cl, fa, se, cr, re) == [token |-> to, drop |-> dr, close |-> cl, failure |-> fa, select |-> se, create |-> cr, removal |-> re]
MCSessionBudgets == {SB(1,1,0,1,0,0,0), SB(0,1,1,1,0,0,0), SB(1,0,0,0,1,0,0), SB(0,0,1,0,1,0,0), SB(0,1,0,0,0,1,1), SB(0,0,0,1,0,1,1),SB(1,0,0,1,0,1,0)}

BB(ed, op, cl, de, fa) == [edits |-> ed, opens |-> op, closes |-> cl, deletions |-> de, faults |-> fa]
MCBoardBudgets == {BB(3,2,0,0,0), BB(2,3,1,0,0), BB(2,2,0,0,1), BB(1,2,1,1,0)}

PB(w, v, h, r, e, f) == [words |-> w, visits |-> v, hides |-> h, removals |-> r, expiries |-> e, failures |-> f]
MCPageBudgets == {PB(2,1,0,0,0,1), PB(1,2,1,0,0,0), PB(2,1,1,0,0,0), PB(0,2,0,0,1,1), PB(1,1,0,1,0,0)}

UB(o, m, d) == [opens |-> o, moves |-> m, drops |-> d]
MCSearchBudgets == {UB(1,1,0), UB(1,0,1), UB(2,0,0), UB(0,1,1)}

MB(s, c, f) == [shows |-> s, choices |-> c, failures |-> f]
MCMarketBudgets == {MB(3,3,1)}

AB(c, w, l, d, f) == [choices |-> c, words |-> w, leaves |-> l, drops |-> d, failures |-> f]
MCAttachmentBudgets == {AB(2,1,0,0,1), AB(2,0,1,0,0), AB(2,0,0,1,0)}

XB(as, failures, probes, waits, leaves, drops, refreshes) ==
  [asks |-> as, failures |-> failures, probes |-> probes, waits |-> waits, leaves |-> leaves, drops |-> drops,
   refreshes |-> refreshes]
MCTranslationBudgets == {XB(2,1,0,1,0,0,0), XB(2,0,0,0,0,0,1), XB(2,0,0,0,0,1,0), XB(1,0,1,0,1,0,0)}

LB(own, foreign, votes, closes, mounts, drops, failures) ==
  [own |-> own, foreign |-> foreign, votes |-> votes, closes |-> closes, mounts |-> mounts, drops |-> drops, failures |-> failures]
MCPollBudgets == {LB(0,1,2,0,1,0,0), LB(1,0,1,0,1,0,0), LB(1,0,0,1,1,0,0), LB(0,1,1,0,1,1,0), LB(0,1,1,1,1,0,1), LB(0,2,1,0,1,0,0), LB(0,1,1,0,2,0,0)}

TB(t, r, f) == [tabs |-> t, reconnects |-> r, failures |-> f]
MCTabBudgets == {TB(4,0,0), TB(3,1,1)}

DB(st, pe, sa, se, cl, dr, fa) == [start |-> st, peer |-> pe, say |-> sa, select |-> se, close |-> cl, drop |-> dr, failure |-> fa]
MCDmBudgets == {DB(1,0,1,0,1,0,0), DB(0,1,1,0,0,1,0), DB(0,1,1,1,1,0,0), DB(1,0,1,0,0,0,1), DB(1,1,1,0,0,0,0), DB(0,1,2,0,0,0,1)}

RR(sa, vi, le, ey, dr, re, fa) == [say |-> sa, visit |-> vi, leave |-> le, eye |-> ey, drop |-> dr, restart |-> re, failure |-> fa]
MCReadBudgets == {RR(1,2,0,0,0,0,1), RR(1,1,0,0,0,1,2), RR(1,1,1,1,0,0,0), RR(1,1,0,0,1,0,0), RR(2,1,0,0,0,0,0)}

N(here, fresh, be, cl, di, cu, se, dr, fa) ==
 [there |-> here, fresh |-> fresh, beat |-> be, close |-> cl, die |-> di, cut |-> cu, set |-> se, drop |-> dr, failure |-> fa]
\* The first is that of the part that sleeps: no tab is open.
MCConnBudgets == {
  N({},{}, 0,0,0,0,0,0,0),
  N({"a"},{}, 0,0,0,1,0,0,0), N({"a"},{}, 0,1,0,0,1,0,0), N({"a"},{}, 0,0,1,0,0,1,1), N({},{"b"}, 0,0,0,0,0,1,0),
  N({"a"},{}, 0,0,1,0,1,0,0), N({"a"},{}, 0,1,0,0,0,0,1), N({},{"b"}, 0,0,1,0,0,0,1),
  N({"a","b"},{}, 0,1,1,0,0,0,0), N({"a"},{}, 1,0,1,0,0,0,0)}

PP(instances, epochs, tardy, me, ed, de, re, cr, fa, st, rk) ==
  [crew |-> instances, epochs |-> epochs, late |-> tardy, message |-> me, edit |-> ed, delete |-> de, react |-> re,
   crash |-> cr, failure |-> fa, stall |-> st, rekey |-> rk]
Noone == {}
One == {"p"}
Two == {"p", "q"}
\* The first is that of the part that sleeps: no instance.
MCPersistBudgets == {
  PP(Noone,0,FALSE, 0,0,0,0, 0,0,0,0),
  PP(One,0,FALSE, 1,1,1,0, 1,1,0,0), PP(One,0,FALSE, 1,2,0,0, 0,1,1,0), PP(One,0,FALSE, 2,1,1,1, 0,0,0,0), PP(One,0,FALSE, 1,1,0,2, 1,0,0,0),
  PP(Two,0,FALSE, 1,1,1,0, 1,0,0,0), PP(Two,0,FALSE, 1,0,0,2, 0,1,0,0), PP(Two,0,FALSE, 1,0,0,3, 0,0,0,0),
  PP(Two,0,FALSE, 1,2,1,0, 0,0,0,0), PP(Two,0,FALSE, 1,1,0,0, 0,0,1,0),
  PP(One,2,TRUE, 1,1,0,0, 0,1,0,0), PP(One,2,FALSE, 2,1,0,0, 0,0,0,0), PP(Two,1,FALSE, 2,0,0,0, 0,0,0,1), PP(One,2,TRUE, 2,0,0,0, 0,0,0,0), PP(One,2,TRUE, 1,0,0,0, 1,0,0,0)}
=============================================================================
