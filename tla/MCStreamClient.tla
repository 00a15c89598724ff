--------------------------- MODULE MCStreamClient ---------------------------
(* Instances of StreamClient for TLC: both front ends.                     *)
EXTENDS StreamClient

MCPrograms == {"controller", "shell"}
=============================================================================
