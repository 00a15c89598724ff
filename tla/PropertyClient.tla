---------------------------- MODULE PropertyClient ----------------------------
(***************************************************************************)
(* A device of the arena (conveyor belt or rotating turntable) as the      *)
(* referee box sees it: PropertyClient::Client finds the device's server   *)
(* through Avahi, polls its properties and reports to the plugin's thread; *)
(* the rules of the engine send commands and broadcast the device's status *)
(* (libs/property_client, plugins/conveyor_belt and rotating_turntable,    *)
(* device-*.clp).                                                          *)
(*                                                                         *)
(* Three threads share a Client: its own loop ("poll"), the one of Avahi   *)
(* and the one that runs the engine.  A step is a section under mutex_ up  *)
(* to the next request or callback, or an access without the mutex:        *)
(* is_connected() and the plugin's two flags are read without it.          *)
(***************************************************************************)
EXTENDS FiniteSets

CONSTANTS Servers,     \* the property servers that Avahi may announce
          None,        \* no server
          Lists        \* [Servers -> properties the server has for the device]

(* The two properties that matter: current_speed and target_speed.         *)
Ids == {"current_speed", "target_speed"}
Threads == {"poll", "avahi", "engine"}

ASSUME ServersAssumption == None \notin Servers \cup Threads /\ Lists \in [Servers -> SUBSET Ids]

VARIABLES
  answers,     \* what a server answers: the device, something else, or nothing
  moving,      \* the device at the server moves
  servers,     \* Client::servers_
  http,        \* the server of Client::http_client_
  properties,  \* Client::properties_: absent, a null pointer, or known
  seen,        \* the timestamp of current_speed is the device's
  mutex,       \* holder of Client::mutex_
  poll,        \* where Client::loop is
  untested,    \* the servers that search_server has not tried yet
  news,        \* the speed that property_changed is about to report
  drop,        \* how far device_disconnected is
  engine,      \* what the rules are doing
  want,        \* the speed that the command asks for
  connected,   \* ConveyorBeltThread::connected_
  running,     \* ConveyorBeltThread::running_
  draft,       \* the connection state of the status being built
  status       \* the last status sent

world == <<answers, moving>>
client == <<servers, http, properties, seen>>
loop == <<poll, untested, news>>
rules == <<engine, want, draft, status>>
flags == <<connected, running>>
vars == <<world, client, mutex, loop, drop, rules, flags>>

(* A null pointer was used: the process is gone.                           *)
Crashed == poll = "crashed"

Answers == {"device", "other", "nothing"}
Statuses == [connected : BOOLEAN, running : BOOLEAN]

TypeOK ==
  /\ answers \in [Servers -> Answers] /\ moving \in [Servers -> BOOLEAN]
  /\ servers \subseteq Servers /\ http \in Servers \cup {None}
  /\ properties \in [Ids -> {"absent", "null", "known"}] /\ seen \in BOOLEAN
  /\ mutex \in Threads \cup {None}
  /\ poll \in {"sleep", "request", "search", "changed", "found", "connected", "crashed"}
  /\ untested \subseteq Servers /\ news \in BOOLEAN
  /\ drop \in {"no", "connected", "running"}
  /\ engine \in {"idle", "get", "set", "put", "status"} /\ want \in BOOLEAN
  /\ connected \in BOOLEAN /\ running \in BOOLEAN
  /\ draft \in BOOLEAN /\ status \in Statuses

NoProperties == [id \in Ids |-> "absent"]

(* The plugin's init() creates and starts the client.                      *)
Init ==
  /\ answers \in [Servers -> Answers] /\ moving \in [Servers -> BOOLEAN]
  /\ servers = {} /\ http = None
  /\ properties = NoProperties /\ seen = FALSE
  /\ mutex = None
  /\ poll = "sleep" /\ untested = {} /\ news = FALSE
  /\ drop = "no"
  /\ engine = "idle" /\ want = FALSE
  /\ connected = FALSE /\ running = FALSE
  /\ draft = FALSE /\ status = [connected |-> FALSE, running |-> FALSE]

-----------------------------------------------------------------------------
(* The servers and the device.                                             *)

ServerChanges(s) ==
  /\ \E a \in Answers \ {answers[s]} : answers' = [answers EXCEPT ![s] = a]
  /\ UNCHANGED <<moving, client, mutex, loop, drop, rules, flags>>

(* Every change of the speed has a timestamp of its own.                   *)
Move(s, m) == /\ moving' = [moving EXCEPT ![s] = m]
              /\ seen' = (seen /\ s # http)

SpeedChanges(s) ==
  /\ Move(s, ~moving[s])
  /\ UNCHANGED <<answers, servers, http, properties, mutex, loop, drop, rules, flags>>

-----------------------------------------------------------------------------
(* Client::loop, every 250 ms.                                             *)

StartLoop ==
  /\ poll = "sleep" /\ mutex = None
  /\ mutex' = "poll"
  /\ IF http # None THEN poll' = "request" /\ UNCHANGED untested
                    ELSE poll' = "search" /\ untested' = servers
  /\ UNCHANGED <<world, client, news, drop, rules, flags>>

EndLoop == poll' = "sleep" /\ mutex' = None

(* process_property dereferences what properties_ has for a listed id; a   *)
(* property that is new has timestamp 0 and counts as changed.             *)
PointersGood(s) == \A id \in Lists[s] : properties[id] # "null"

(* Mutant: a property that is new is not reported, only a later change.    *)
HasLaterNews(s) ==
  "current_speed" \in Lists[s] /\ ~seen /\ properties["current_speed"] = "known"

HasNews(s) == "current_speed" \in Lists[s] /\ ~seen

ReadProperties(s) ==
  /\ properties' = [id \in Ids |-> IF id \in Lists[s] THEN "known" ELSE properties[id]]
  /\ seen' = ("current_speed" \in Lists[s])
  /\ news' = (HasNews(s) /\ moving[s])

(* test_server: the first server that has the device is taken.             *)
FindDevice(s) ==
  /\ poll = "search" /\ s \in untested /\ answers[s] = "device"
  /\ http' = s /\ untested' = {}
  /\ IF PointersGood(s)
     THEN /\ ReadProperties(s)
          /\ poll' = IF HasNews(s) THEN "found" ELSE "connected"
     ELSE poll' = "crashed" /\ UNCHANGED <<properties, seen, news>>
  /\ UNCHANGED <<world, servers, mutex, drop, rules, flags>>

PassServer(s) ==
  /\ poll = "search" /\ s \in untested /\ answers[s] # "device"
  /\ untested' = untested \ {s}
  /\ UNCHANGED <<world, client, mutex, poll, news, drop, rules, flags>>

FindNothing ==
  /\ poll = "search" /\ untested = {}
  /\ EndLoop
  /\ UNCHANGED <<world, client, untested, news, drop, rules, flags>>

(* poll_properties does not look at the status code: what is no list of    *)
(* properties leaves everything as it is.                                  *)
Poll ==
  /\ poll = "request" /\ answers[http] = "device"
  /\ IF PointersGood(http)
     THEN /\ ReadProperties(http)
          /\ IF HasNews(http) THEN poll' = "changed" /\ UNCHANGED mutex ELSE EndLoop
     ELSE poll' = "crashed" /\ UNCHANGED <<mutex, properties, seen, news>>
  /\ UNCHANGED <<world, servers, http, untested, drop, rules, flags>>

PollOther ==
  /\ poll = "request" /\ answers[http] = "other"
  /\ EndLoop
  /\ UNCHANGED <<world, client, untested, news, drop, rules, flags>>

(* Mutant: the properties of the server that is gone are kept.             *)
DisconnectKeeping ==
  /\ http' = None
  /\ seen' = FALSE /\ UNCHANGED properties
  /\ drop' = "connected"

(* The connection is given up: no server, no properties, and the plugin is *)
(* told, device_disconnected clearing one flag after the other.            *)
Disconnect ==
  /\ http' = None
  /\ properties' = NoProperties /\ seen' = FALSE
  /\ drop' = "connected"

PollFails ==
  /\ poll = "request" /\ answers[http] # "device"
  /\ Disconnect
  /\ poll' = "sleep"
  /\ UNCHANGED <<world, servers, mutex, untested, news, rules, flags>>

(* property_changed, before device_connected when the device is new.       *)
PropertyChanged ==
  /\ poll \in {"changed", "found"}
  /\ running' = news
  /\ IF poll = "changed" THEN EndLoop ELSE poll' = "connected" /\ UNCHANGED mutex
  /\ news' = FALSE
  /\ UNCHANGED <<world, client, untested, drop, rules, connected>>

DeviceConnected ==
  /\ poll = "connected"
  /\ connected' = TRUE
  /\ EndLoop
  /\ UNCHANGED <<world, client, untested, news, drop, rules, running>>

(* device_disconnected, within whichever thread holds the mutex.           *)
ClearConnected ==
  /\ drop = "connected"
  /\ connected' = FALSE
  /\ drop' = "running"
  /\ UNCHANGED <<world, client, mutex, loop, rules, running>>

ClearRunning ==
  /\ drop = "running"
  /\ running' = FALSE
  /\ drop' = "no" /\ mutex' = None
  /\ UNCHANGED <<world, client, loop, rules, connected>>

-----------------------------------------------------------------------------
(* Avahi.                                                                  *)

ServiceAdded(s) ==
  /\ mutex = None
  /\ servers' = servers \cup {s}
  /\ UNCHANGED <<world, http, properties, seen, mutex, loop, drop, rules, flags>>

ServiceRemoved(s) ==
  /\ mutex = None
  /\ servers' = servers \ {s}
  /\ IF http = s THEN Disconnect /\ mutex' = "avahi"
                 ELSE UNCHANGED <<http, properties, seen, drop, mutex>>
  /\ UNCHANGED <<world, loop, rules, flags>>

-----------------------------------------------------------------------------
(* The rules: a command looks for a connection, fetches the property       *)
(* target_speed and sets it, each time taking the mutex anew.              *)

Command(speed) ==
  /\ engine = "idle" /\ ~Crashed /\ http # None
  /\ engine' = "get" /\ want' = speed
  /\ UNCHANGED <<world, client, mutex, loop, drop, draft, status, flags>>

EndCommand == engine' = "idle" /\ want' = FALSE

(* properties_[id] leaves a null pointer where there was nothing.          *)
GetProperty ==
  /\ engine = "get" /\ mutex = None
  /\ IF properties["target_speed"] = "known" THEN engine' = "set" /\ UNCHANGED want
                                             ELSE EndCommand
  /\ properties' = [properties EXCEPT !["target_speed"] = IF @ = "absent" THEN "null" ELSE @]
  /\ UNCHANGED <<world, servers, http, seen, mutex, loop, drop, draft, status, flags>>

(* update_property keeps the mutex during the request.                     *)
UpdateProperty ==
  /\ engine = "set" /\ mutex = None
  /\ IF http = None THEN EndCommand /\ UNCHANGED mutex
                    ELSE engine' = "put" /\ mutex' = "engine" /\ UNCHANGED want
  /\ UNCHANGED <<world, client, loop, drop, draft, status, flags>>

(* Mutant: a request that fails does not give the mutex back.              *)
PutSucceeds ==
  /\ engine = "put"
  /\ answers[http] = "device" /\ Move(http, want)
  /\ EndCommand /\ mutex' = None
  /\ UNCHANGED <<answers, servers, http, properties, loop, drop, draft, status, flags>>

PutAnswered ==
  /\ engine = "put"
  /\ \/ answers[http] = "device" /\ Move(http, want)
     \/ answers[http] # "device" /\ UNCHANGED <<moving, seen>>
  /\ EndCommand /\ mutex' = None
  /\ UNCHANGED <<answers, servers, http, properties, loop, drop, draft, status, flags>>

(* net-create-ConveyorBeltStatus asks for one flag after the other.        *)
BeginStatus ==
  /\ engine = "idle" /\ ~Crashed
  /\ draft' = connected
  /\ engine' = "status"
  /\ UNCHANGED <<world, client, mutex, loop, drop, want, status, flags>>

SendStatus ==
  /\ engine = "status" /\ ~Crashed
  /\ status' = [connected |-> draft, running |-> running]
  /\ engine' = "idle" /\ draft' = FALSE
  /\ UNCHANGED <<world, client, mutex, loop, drop, want, flags>>

-----------------------------------------------------------------------------
LoopStep ==
  \/ \E s \in Servers : FindDevice(s) \/ PassServer(s)
  \/ FindNothing \/ Poll \/ PollOther \/ PollFails \/ PropertyChanged \/ DeviceConnected

EngineStep == GetProperty \/ UpdateProperty

Next ==
  \/ \E s \in Servers : \/ ServerChanges(s) \/ SpeedChanges(s)
                        \/ ServiceAdded(s) \/ ServiceRemoved(s)
  \/ StartLoop \/ LoopStep \/ ClearConnected \/ ClearRunning
  \/ \E speed \in BOOLEAN : Command(speed)
  \/ EngineStep \/ PutAnswered \/ BeginStatus \/ SendStatus

Spec == Init /\ [][Next]_vars

(* Requests end, with a timeout if need be; each thread gets the mutex in  *)
(* time, because the loop sleeps 250 ms without it; the engine sends the   *)
(* status ten times a second.                                              *)
Fairness ==
  /\ WF_vars(LoopStep \/ ClearConnected \/ ClearRunning)
  /\ WF_vars(PutAnswered) /\ WF_vars(SendStatus)
  /\ SF_vars(StartLoop)
  /\ SF_vars(EngineStep)
  /\ SF_vars(BeginStatus)

FairSpec == Spec /\ Fairness

-----------------------------------------------------------------------------
(* Properties                                                              *)

(* Whenever nobody is inside the client, its server, its properties and    *)
(* what it has told the plugin fit together: client.cpp:73, :116, :166 and *)
(* :354 each change several of them, in an order of their own.             *)
ViewAgrees ==
  mutex = None =>
    /\ connected <=> http # None
    /\ http = None => ~running /\ \A id \in Ids : properties[id] # "known"
    /\ http # None => http \in servers
    /\ seen => http # None /\ running = moving[http]

(* What makes ViewAgrees inductive: who holds the mutex is where, and what *)
(* fits together already while it is held.                                 *)
MutexHeld ==
  /\ mutex = None => poll = "sleep" /\ drop = "no"
  /\ mutex = "avahi" => drop # "no"
  /\ mutex = "engine" <=> engine = "put"
  /\ poll # "sleep" => mutex = "poll" /\ drop = "no"
  /\ mutex = "poll" /\ poll = "sleep" => drop # "no"
  /\ drop # "no" => mutex \in {"poll", "avahi"}

Half ==
  /\ http # None => http \in servers
  /\ poll = "search" => untested \subseteq servers
  /\ poll \in {"request", "changed", "found", "connected"} \/ mutex = "engine" => http # None
  /\ poll = "search" \/ drop # "no" => http = None
  /\ http = None => ~seen /\ \A id \in Ids : properties[id] # "known"
  /\ poll \notin {"found", "connected"} /\ drop # "connected" => (connected <=> http # None)
  /\ http = None /\ drop = "no" => ~running
  /\ seen => IF poll \in {"changed", "found"} THEN news = moving[http] ELSE running = moving[http]

DeviceInv == TypeOK /\ MutexHeld /\ (Crashed \/ Half)

(* When the only server that has the device stays, and the speed does, the *)
(* status the rules send (device-conveyor-belt.clp:35) becomes the truth   *)
(* and stays so, whatever was sent before, torn statuses included.         *)
Steady(s, m) ==
  /\ ~Crashed
  /\ s \in servers /\ answers[s] = "device" /\ moving[s] = m /\ "current_speed" \in Lists[s]
  /\ \A r \in Servers \ {s} : answers[r] = "nothing"

StatusSettles ==
  \A s \in Servers, m \in BOOLEAN :
    <>[]Steady(s, m) => <>[](status = [connected |-> TRUE, running |-> m])

(* A command of a rule (conveyor_belt_thread.cpp:82) comes back, although  *)
(* it waits for a mutex that is held during requests, and the engine with  *)
(* all its rules waits with it.                                            *)
CommandsReturn == engine \in {"get", "set", "put"} ~> engine = "idle" \/ Crashed

(* A property that is not there is no error: conveyor_belt_thread.cpp:85   *)
(* asks get_property for it and returns when the answer is NULL.           *)
AbsentTolerated == ~Crashed
=============================================================================
