----------------------------- MODULE MCBenchmark -----------------------------
(* Instances of Benchmark for TLC: two scenarios that have tasks, [NONE] and *)
(* one that nobody registered.                                               *)
EXTENDS Benchmark, TLC

CONSTANTS bnt, btt, irl

MCScenarios == {bnt, btt}
MCUnregistered == {irl}
MCTaskCount == (None :> 0) @@ (bnt :> 1) @@ (btt :> 2)
MCItemCount == (None :> 0) @@ (bnt :> 0) @@ (btt :> 3)
=============================================================================
