---------------------------- MODULE MCRoomCount ----------------------------
(* Instances of RoomCount for TLC. *)
EXTENDS RoomCount, TLC

CONSTANTS r1, r2, r3, c1, c2

OwnerMC == r1 :> c1 @@ r2 :> c1 @@ r3 :> c2
MaxPendingMC == c1 :> 4 @@ c2 :> 4
=============================================================================
