--------------------------- MODULE MCBroadcastPeer ---------------------------
(* Instances of BroadcastPeer for TLC: two peers, one of which sends, and  *)
(* two keys.                                                               *)
EXTENDS BroadcastPeer

CONSTANTS a, b, k1, k2

MCNodes == {a, b}
MCSenders == {a}
MCKeys == {k1, k2}
=============================================================================
