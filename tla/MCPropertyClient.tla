-------------------------- MODULE MCPropertyClient --------------------------
(* Instances of PropertyClient for TLC: two servers, the second of which   *)
(* knows the speed of the device but has no target_speed.                  *)
EXTENDS PropertyClient, TLC

CONSTANTS s1, s2

TwoServers == {s1, s2}
TwoLists == s1 :> Ids @@ s2 :> {"current_speed"}
=============================================================================
