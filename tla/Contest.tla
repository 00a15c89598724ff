------------------------------- MODULE Contest -------------------------------
(***************************************************************************)
(* What a referee is promised of one benchmark, without machine, agenda or *)
(* timer: stages follow each other, a clock runs in two of them, and the   *)
(* tasks on offer are shown to the robots only while the clock of the      *)
(* execution runs.  Tasks are exchanged for ones nobody has seen.          *)
(***************************************************************************)
CONSTANT Task

VARIABLES
    stage,  \* "idle", "preparation", "execution" or "over"
    clock,  \* "stopped", "running" or "paused"
    offer,  \* tasks of the benchmark
    shown   \* tasks the robots have seen, of this benchmark and the ones before

cvars == <<stage, clock, offer, shown>>

CInit == stage = "idle" /\ clock = "stopped" /\ offer = {} /\ shown = {}

FreshOffer ==
    /\ offer' \in SUBSET Task
    /\ offer' \cap shown = {}
    /\ UNCHANGED shown

\* The referee sets up a benchmark, the same again or another one
SetUp ==
    /\ stage' \in {"idle", "preparation"} /\ clock' = "stopped"
    /\ UNCHANGED <<offer, shown>> \/ FreshOffer

Exchange == FreshOffer /\ UNCHANGED <<stage, clock>>

\* The clock starts or goes on; only the break after the preparation and a stop
\* and start in one step take it into the next stage
StartClock ==
    /\ stage \in {"preparation", "execution"}
    /\ clock' = "running"
    /\ stage' = stage \/ stage' = "execution"
    /\ UNCHANGED <<offer, shown>>

PauseClock ==
    /\ clock = "running" /\ clock' = "paused"
    /\ UNCHANGED <<stage, offer, shown>>

\* The clock is stopped by the referee or by the time limit
StopClock ==
    /\ clock \in {"running", "paused"} /\ clock' = "stopped"
    /\ \/ stage = "preparation" /\ stage' \in {"preparation", "execution"}
       \/ stage = "execution" /\ stage' \in {"execution", "over"}
    /\ UNCHANGED <<offer, shown>>

Show ==
    /\ stage = "execution" /\ clock = "running"
    /\ shown' = shown \cup offer
    /\ UNCHANGED <<stage, clock, offer>>

CNext == SetUp \/ Exchange \/ StartClock \/ PauseClock \/ StopClock \/ Show

CSpec == CInit /\ [][CNext]_cvars
=============================================================================
