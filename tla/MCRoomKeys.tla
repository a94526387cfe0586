----------------------------- MODULE MCRoomKeys -----------------------------
EXTENDS RoomKeys
B(e, t, l, j, r, f, d) == [enable |-> e, timer |-> t, leave |-> l, join |-> j, reload |-> r, failure |-> f, decrypt |-> d]
MCBudgets ==
  {B(0,2,0,0,0,0,0), B(0,1,0,0,0,1,0), B(0,1,0,0,1,0,0), B(0,1,0,1,0,0,0), B(0,0,1,1,0,0,0), B(0,0,1,0,0,1,0),
   B(1,1,0,0,0,0,0), B(1,0,0,1,0,1,0), B(1,0,0,0,1,0,1)}
LeaverBudgets == {B(1,1,1,0,0,0,0)}
=============================================================================
