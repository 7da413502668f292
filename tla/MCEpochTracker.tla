--------------------------- MODULE MCEpochTracker ---------------------------
(***************************************************************************)
(* EpochTracker on small instances: one participant with a balance of 1,   *)
(* or two with different balances.  The configurations differ in what may  *)
(* fail and in the bounds.                                                 *)
(***************************************************************************)
EXTENDS EpochTracker

CONSTANTS p1, p2

OneParticipant == {p1}
TwoParticipants == {p1, p2}
OneCoinEach == [p \in Participant |-> 1]
AnotherForTheSecond == [p \in Participant |-> IF p = p1 THEN 1 ELSE 2]

AllButEpochAndDisk == Failures \ {"epoch", "disk"}
AllButDisk == Failures \ {"disk"}
=============================================================================
