--------------------------- MODULE MCThreadManager ---------------------------
(* Small instances of ThreadManager for TLC.                               *)
EXTENDS ThreadManager, TLC

CONSTANTS t1, t2, t3, la, lb

TwoLists == la :> <<t1, t2>> @@ lb :> <<t3>>
OneList == la :> <<t1, t2>>
=============================================================================
