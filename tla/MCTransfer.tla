----------------------------- MODULE MCTransfer -----------------------------
(* Instances of Transfer for TLC: two clients for one port, one for the     *)
(* other.                                                                   *)
EXTENDS Transfer, TLC

CONSTANTS c1, c2, c3

PortOfMC == c1 :> 1 @@ c2 :> 1 @@ c3 :> 2
OutcomesMC == {<<"listens", "listens">>, <<"nobind", "listens">>, <<"nosocket", "listens">>}
RawCapacityMC == [w \in Worker |-> IF w = 1 THEN 1 ELSE 3]
=============================================================================
