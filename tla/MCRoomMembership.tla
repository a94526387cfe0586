-------------------------- MODULE MCRoomMembership --------------------------
(***************************************************************************)
(* The replicated membership with a bound on the faults of a behaviour, so *)
(* that its liveness can be checked where calls overlap.                   *)
(***************************************************************************)
EXTENDS RoomMembership

CONSTANT MaxFaults  \* bound: errors of the bucket, crashes and lost connections
VARIABLE faults     \* how many there have been

GoesWrong ==
  \/ \E t \in Task : KvError(t)
  \/ \E s \in Replica : HydrateFail(s) \/ Fault(s)

GoesWell ==
  \/ \E t \in Task, s \in Replica, action \in Action, p \in Pair : Start(t, s, action, p)
  \/ \E t \in Task :
       KvChange(t) \/ KvNoChange(t) \/ UpdateLocal(t) \/ \E type \in RoomTypes : PublishDelta(t, type)
  \/ \E s \in Replica : Deliver(s) \/ HydrateRead(s) \/ HydrateSwap(s) \/ Restart(s) \/ Reconnect(s)

MCInit == Init /\ faults = 0
MCNext ==
  \/ GoesWell /\ UNCHANGED faults
  \/ faults < MaxFaults /\ faults' = faults + 1 /\ GoesWrong
MCSpec == MCInit /\ [][MCNext]_<<vars, faults>> /\ Fairness
=============================================================================
