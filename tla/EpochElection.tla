--------------------------- MODULE EpochElection ---------------------------
(***************************************************************************)
(* What the key service promises the web clients about the epochs of one   *)
(* encrypted room: from one enabling of encryption to the next an epoch is *)
(* claimed at most once, by one rotation, and only above every epoch       *)
(* claimed before it.  RoomKeys is the protocol that implements it with a  *)
(* read, a check and a compare-and-set.                                    *)
(***************************************************************************)
EXTENDS Naturals

CONSTANTS Claimants,   \* those who compete: the runs that enable or rotate
          Epochs       \* the epochs of the room, a set of positive numbers

VARIABLES epoch,       \* the highest epoch claimed, 0 before encryption
          won          \* won[e]: the claimants the service has told "ok" for e

\* c has the first epoch and nobody has another.
Enabled(c) == [e \in Epochs |-> IF e = 1 THEN {c} ELSE {}]

\* Nothing is claimed yet, or the first epoch is and the room is encrypted.
Init ==
  \/ epoch = 0 /\ won = [e \in Epochs |-> {}]
  \/ \E c \in Claimants : epoch = 1 /\ won = Enabled(c)

\* Encryption is enabled, or enabled again.
Enable(c) ==
  /\ epoch' = 1
  /\ won' = Enabled(c)

Claim(c, e) ==
  /\ epoch > 0
  /\ e > epoch
  /\ won[e] = {}
  /\ epoch' = e
  /\ won' = [won EXCEPT ![e] = {c}]

Next == \E c \in Claimants : Enable(c) \/ \E e \in Epochs : Claim(c, e)

Spec == Init /\ [][Next]_<<epoch, won>>
=============================================================================
