--------------------------- MODULE MCThreadWakeup ---------------------------
(* Small instances of ThreadWakeup for TLC.                                *)
EXTENDS ThreadWakeup

CONSTANTS w1, w2
=============================================================================
