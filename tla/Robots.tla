------------------------------- MODULE Robots -------------------------------
(***************************************************************************)
(* The roster of robots that the referee box keeps from their beacons      *)
(* (robots.clp, the rules of net.clp that touch a robot fact, and the      *)
(* signal of VersionInfo that a new robot restarts).                       *)
(*                                                                         *)
(* A broadcast is only asserted when it arrives; the rules run when the    *)
(* timer fires, with a fact that holds the time, or when a client connects *)
(* or goes, without one.  Rules of equal salience are taken in any order,  *)
(* which includes the order of CLIPS (the latest activation first).        *)
(* Times are kept as ages, in a unit of the model; the rules take no time. *)
(***************************************************************************)
EXTENDS Naturals, Sequences, SequencesExt

CONSTANTS Peers,      \* pairs of host and port that robots send from
          HostOf,     \* [Peers -> hosts]
          LOST,       \* PEER-LOST-TIMEOUT
          REMOVE,     \* PEER-REMOVE-TIMEOUT
          PERIOD,     \* BC-VERSIONINFO-PERIOD
          COUNT,      \* BC-VERSIONINFO-COUNT
          Wait,       \* the timer fires again within this time
          MaxInbox    \* bound on the messages that wait for a run

ASSUME TimesAssumption ==
  /\ {LOST, REMOVE, PERIOD, COUNT, Wait, MaxInbox} \subseteq Nat
  /\ LOST < REMOVE /\ PERIOD < REMOVE /\ Wait > 0 /\ Wait <= LOST /\ COUNT > 0

VARIABLES
  robots,    \* the robot facts
  inbox,     \* the facts of messages
  run,       \* "no", "timed" (there is a time fact) or "plain"
  signal,    \* count and age of the signal of type version-info
  waited,    \* time since the timer fired
  silence,   \* history: time since a robot's last beacon arrived
  untold     \* history: robots registered since the last VersionInfo

facts == <<robots, inbox, signal, untold>>
clock == <<waited, silence>>
vars == <<robots, inbox, run, signal, waited, silence, untold>>

(* Ages beyond every timeout are all alike.                                *)
Ages == 0 .. REMOVE + 1
Older(age) == IF age \in 0 .. REMOVE THEN age + 1 ELSE REMOVE + 1

Kinds == {"beacon", "logging", "not logging"}
Robots == [peer : Peers, age : Ages, warned : BOOLEAN, logging : BOOLEAN]
Messages == [kind : Kinds, peer : Peers, age : 0 .. Wait]

TypeOK ==
  /\ robots \subseteq Robots
  /\ inbox \in Seq(Messages) /\ Len(inbox) <= MaxInbox
  /\ run \in {"no", "timed", "plain"}
  /\ signal \in [count : 0 .. COUNT, age : Ages]
  /\ waited \in 0 .. Wait /\ silence \in [Peers -> Ages]
  /\ untold \subseteq Peers

Init ==
  /\ robots = {} /\ inbox = <<>> /\ run = "no"
  /\ signal = [count |-> 1, age |-> REMOVE + 1]
  /\ waited = 0 /\ silence = [p \in Peers |-> REMOVE + 1]
  /\ untold = {}

-----------------------------------------------------------------------------
(* Outside of the engine.                                                  *)

Tick ==
  /\ run = "no" /\ waited < Wait
  /\ waited' = waited + 1
  /\ silence' = [p \in Peers |-> Older(silence[p])]
  /\ robots' = {[r EXCEPT !.age = Older(r.age)] : r \in robots}
  /\ inbox' = [i \in DOMAIN inbox |-> [inbox[i] EXCEPT !.age = @ + 1]]
  /\ signal' = [signal EXCEPT !.age = Older(@)]
  /\ UNCHANGED <<run, untold>>

(* handle_peer_msg, which waits for the engine to be idle.                 *)
Arrive(p, kind) ==
  /\ run = "no" /\ Len(inbox) < MaxInbox
  /\ inbox' = Append(inbox, [kind |-> kind, peer |-> p, age |-> 0])
  /\ silence' = IF kind = "beacon" THEN [silence EXCEPT ![p] = 0] ELSE silence
  /\ UNCHANGED <<robots, run, signal, waited, untold>>

StartTimed == /\ run = "no" /\ run' = "timed" /\ waited' = 0
              /\ UNCHANGED <<facts, silence>>

StartPlain == /\ run = "no" /\ run' = "plain"
              /\ UNCHANGED <<facts, clock>>

-----------------------------------------------------------------------------
(* The rules.  The first conjuncts of each are its patterns.               *)

Silent(r) == run = "timed" /\ ~r.warned /\ r.age > LOST
(* Mutant: only a robot that was not warned before is removed.             *)
GoneUnwarned(r) == run = "timed" /\ ~r.warned /\ r.age > REMOVE

Gone(r) == run = "timed" /\ r.age > REMOVE
At(host, r) == HostOf[r.peer] = host
From(p, r) == r.peer = p
Matches(msg, r) == IF msg.kind = "beacon" THEN From(msg.peer, r)
                                          ELSE At(HostOf[msg.peer], r)
(* The PUBLIC peer, which the rule sends by, is taken to be there: the      *)
(* configuration names it and net-init-public makes it at the start.       *)
Due == run = "timed" /\ signal.count < COUNT /\ signal.age > PERIOD

Modify(r, s) == robots' = (robots \ {r}) \cup {s}

RobotLost == \E r \in robots :
  /\ Silent(r)
  /\ Modify(r, [r EXCEPT !.warned = TRUE])
  /\ UNCHANGED <<inbox, run, signal, untold, clock>>

RobotRemove == \E r \in robots :
  /\ Gone(r)
  /\ robots' = robots \ {r}
  /\ UNCHANGED <<inbox, run, signal, untold, clock>>

(* Mutant: only the warning is taken back.                                 *)
BeaconKnownUnstamped == \E i \in DOMAIN inbox : \E r \in robots :
  /\ run # "no" /\ inbox[i].kind = "beacon" /\ From(inbox[i].peer, r)
  /\ inbox' = RemoveAt(inbox, i)
  /\ Modify(r, [r EXCEPT !.warned = FALSE])
  /\ UNCHANGED <<run, signal, untold, clock>>

BeaconKnown == \E i \in DOMAIN inbox : \E r \in robots :
  /\ run # "no" /\ inbox[i].kind = "beacon" /\ From(inbox[i].peer, r)
  /\ inbox' = RemoveAt(inbox, i)
  /\ Modify(r, [r EXCEPT !.age = inbox[i].age, !.warned = FALSE])
  /\ UNCHANGED <<run, signal, untold, clock>>

Register(i) ==
  /\ inbox' = RemoveAt(inbox, i)
  /\ robots' = robots \cup {[peer |-> inbox[i].peer, age |-> inbox[i].age,
                             warned |-> FALSE, logging |-> FALSE]}
  /\ untold' = untold \cup {inbox[i].peer}

(* Mutant: the time of the signal is reset and its count is not.           *)
BeaconUnknownCounting == \E i \in DOMAIN inbox :
  /\ run # "no" /\ inbox[i].kind = "beacon" /\ \A r \in robots : ~From(inbox[i].peer, r)
  /\ Register(i)
  /\ signal' = [signal EXCEPT !.age = REMOVE + 1]
  /\ UNCHANGED <<run, clock>>

BeaconUnknown == \E i \in DOMAIN inbox :
  /\ run # "no" /\ inbox[i].kind = "beacon" /\ \A r \in robots : ~From(inbox[i].peer, r)
  /\ Register(i)
  /\ signal' = [count |-> 0, age |-> REMOVE + 1]
  /\ UNCHANGED <<run, clock>>

(* Of two robots on one host either may get the status.                    *)
LoggingStatus == \E i \in DOMAIN inbox : \E r \in robots :
  /\ run # "no" /\ inbox[i].kind # "beacon" /\ At(HostOf[inbox[i].peer], r)
  /\ inbox' = RemoveAt(inbox, i)
  /\ Modify(r, [r EXCEPT !.logging = inbox[i].kind = "logging"])
  /\ UNCHANGED <<run, signal, untold, clock>>

SendVersionInfo ==
  /\ Due
  /\ signal' = [count |-> signal.count + 1, age |-> 0]
  /\ untold' = {}
  /\ UNCHANGED <<robots, inbox, run, clock>>

(* No rule of a higher salience than those that clean up.                  *)
Settled ==
  /\ ~Due /\ \A r \in robots : ~Silent(r) /\ ~Gone(r)
  /\ \A i \in DOMAIN inbox : inbox[i].kind # "beacon"
                             /\ \A r \in robots : ~Matches(inbox[i], r)

(* protobuf-cleanup-message: nothing matched what is left.                 *)
CleanUp == \E i \in DOMAIN inbox :
  /\ run # "no" /\ Settled
  /\ inbox' = RemoveAt(inbox, i)
  /\ UNCHANGED <<robots, run, signal, untold, clock>>

(* retract-time, where there is a time.                                    *)
EndRun == /\ run # "no" /\ Settled /\ inbox = <<>>
          /\ run' = "no"
          /\ UNCHANGED <<facts, clock>>

-----------------------------------------------------------------------------
Rules == \/ RobotLost \/ RobotRemove \/ BeaconKnown \/ BeaconUnknown
         \/ LoggingStatus \/ SendVersionInfo \/ CleanUp \/ EndRun

Next ==
  \/ Tick
  \/ \E p \in Peers, kind \in Kinds : Arrive(p, kind)
  \/ StartTimed \/ StartPlain
  \/ RobotLost \/ RobotRemove \/ BeaconKnown \/ BeaconUnknown
  \/ LoggingStatus \/ SendVersionInfo \/ CleanUp \/ EndRun

Spec == Init /\ [][Next]_vars

(* A run comes to an end; time passes and the timer fires although clients *)
(* that come and go may run the engine in between.                         *)
FairSpec == Spec /\ WF_vars(Rules) /\ SF_vars(Tick) /\ SF_vars(StartTimed)

-----------------------------------------------------------------------------
(* Properties.                                                             *)

Waiting(p) == \E i \in DOMAIN inbox : inbox[i].kind = "beacon" /\ inbox[i].peer = p

(* A robot has one fact.  It never dates the robot later than its last     *)
(* beacon and, when none of its beacons waits, earlier by one firing of    *)
(* the timer at most, in whatever order the beacons of a batch are taken;  *)
(* so no warning of robot-lost stands against a robot heard within         *)
(* LOST - Wait, although the rule may overtake the beacon.                 *)
RosterFaithful ==
  /\ \A r, s \in robots : r.peer = s.peer => r = s
  /\ \A r \in robots : silence[r.peer] <= r.age
  /\ \A r \in robots : ~Waiting(r.peer) =>
       /\ r.age <= silence[r.peer] + Wait
       /\ r.warned => silence[r.peer] + Wait > LOST

(* What makes RosterFaithful inductive: a message is no older than the     *)
(* timer's last firing, but in a run, and a beacon that waits is not       *)
(* younger than the last one that arrived from its robot.                  *)
InboxFresh == run = "no" => \A i \in DOMAIN inbox : inbox[i].age <= waited
BeaconsDated ==
  \A i \in DOMAIN inbox :
     inbox[i].kind = "beacon" => silence[inbox[i].peer] <= inbox[i].age
RosterInv == TypeOK /\ InboxFresh /\ BeaconsDated /\ RosterFaithful

Known(p) == \E r \in robots : r.peer = p

(* robot-remove: a robot that sends no beacon any more leaves the roster,  *)
(* whatever runs of clients come between and whether it was warned or not. *)
SilentLeaves == \A p \in Peers : Known(p) ~> (~Known(p) \/ silence[p] = 0)

(* net-recv-beacon-unknown restarts the series of VersionInfo, so that     *)
(* each robot that comes gets one after it has come, also when the series  *)
(* had ended or another robot came in the same run (given a PUBLIC peer).  *)
NewcomerTold == \A p \in Peers : p \in untold ~> p \notin untold
=============================================================================
