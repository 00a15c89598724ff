------------------------------ MODULE MCRobots ------------------------------
(* Instance of Robots for TLC: two robots that send from one host.         *)
EXTENDS Robots

CONSTANTS p1, p2

TwoPeers == {p1, p2}
OneHost == [p \in TwoPeers |-> "host"]
=============================================================================
