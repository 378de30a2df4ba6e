---------------------------- MODULE MCChatUsers ----------------------------
(* Instances of ChatUsers for TLC: two workers, the first with two objects *)
(* and the second with one; a room, if there is one, is the first's.       *)
EXTENDS ChatUsers, TLC

CONSTANTS w1, w2, a1, a2, b1, la1, la2, lb1, ra1, ra2, rb1, pidOfRoom, usersOfRoom

ClientMC == {w1, w2}
ConnMC == {a1, a2, b1}
HomeMC == a1 :> w1 @@ a2 :> w1 @@ b1 :> w2
PidMC == w1 :> 1 @@ w2 :> 2
MaxPendingMC == w1 :> 2 @@ w2 :> 2
LoginHookMC == a1 :> la1 @@ a2 :> la2 @@ b1 :> lb1
RoomHookMC == a1 :> ra1 @@ a2 :> ra2 @@ b1 :> rb1
OwnerMC == [r \in Room |-> w1]
PidKeyMC == [r \in Room |-> pidOfRoom]
UserKeyMC == [r \in Room |-> usersOfRoom]
KeyMC == Name \cup {PidKeyMC[r] : r \in Room} \cup {UserKeyMC[r] : r \in Room}
HookMC == {la1, la2, lb1, ra1, ra2, rb1}
=============================================================================
