--------------------------- MODULE MCProtobufBridge ---------------------------
(* Instances of ProtobufBridge for TLC: next_client_id_ starts below, at and *)
(* above zero.                                                               *)
EXTENDS ProtobufBridge

MCStartIds == {-2, 0, 5}
MCOneStart == {0}
=============================================================================
