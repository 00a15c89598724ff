------------------------ MODULE PropertyClientProofs ------------------------
(* Machine-checked proof about PropertyClient: what the client of a device  *)
(* knows, has and has told fits together whenever nobody is inside it, for  *)
(* any servers and any lists of properties.                                 *)
EXTENDS PropertyClient, TLAPS

(* The values of the variables, without their lists.                        *)
LEMMA Types ==
  ASSUME TypeOK
  PROVE  /\ answers \in [Servers -> Answers] /\ moving \in [Servers -> BOOLEAN]
         /\ properties \in [Ids -> {"absent", "null", "known"}]
         /\ seen \in BOOLEAN /\ news \in BOOLEAN
         /\ connected \in BOOLEAN /\ running \in BOOLEAN
BY DEF TypeOK

(* Nobody is no thread and no server.                                       *)
LEMMA NoThread ==
  /\ None \notin Servers
  /\ None # "poll" /\ None # "avahi" /\ None # "engine"
BY ServersAssumption DEF Threads

LEMMA InitInv == Init => DeviceInv
<1> SUFFICES ASSUME Init PROVE DeviceInv
  OBVIOUS
<1>1. status \in Statuses /\ properties \in [Ids -> {"absent", "null", "known"}]
  BY DEF Init, Statuses, NoProperties
<1>2. TypeOK
  BY <1>1 DEF Init, TypeOK
<1>3. MutexHeld /\ Half
  BY NoThread DEF Init, MutexHeld, Half, NoProperties
<1> QED BY <1>2, <1>3 DEF DeviceInv

-----------------------------------------------------------------------------
(* The servers and the device.                                              *)

LEMMA ServerChangesInv ==
  ASSUME DeviceInv, NEW s \in Servers, ServerChanges(s)
  PROVE  DeviceInv'
BY DEF DeviceInv, TypeOK, MutexHeld, Half, Crashed, ServerChanges, client, loop, rules, flags

(* A change of the speed is a change the client has not seen.               *)
LEMMA MoveSeen ==
  ASSUME TypeOK, NEW s \in Servers, NEW m \in BOOLEAN, Move(s, m)
  PROVE  /\ moving' \in [Servers -> BOOLEAN] /\ seen' \in BOOLEAN
         /\ seen' => seen /\ moving'[http] = moving[http]
BY ServersAssumption DEF TypeOK, Move

LEMMA SpeedChangesInv ==
  ASSUME DeviceInv, NEW s \in Servers, SpeedChanges(s)
  PROVE  DeviceInv'
<1>1. TypeOK /\ Move(s, ~moving[s]) /\ (~moving[s]) \in BOOLEAN
  BY Types DEF DeviceInv, SpeedChanges
<1>2. /\ moving' \in [Servers -> BOOLEAN] /\ seen' \in BOOLEAN
      /\ seen' => seen /\ moving'[http] = moving[http]
  BY <1>1, MoveSeen
<1>3. TypeOK'
  BY <1>1, <1>2 DEF TypeOK, SpeedChanges, loop, rules, flags
<1>4. MutexHeld'
  BY DEF DeviceInv, MutexHeld, SpeedChanges, loop, rules, flags
<1>5. ~Crashed' => ~Crashed
  BY DEF Crashed, SpeedChanges, loop
<1>6. ~Crashed' => Half'
  BY <1>2, <1>5 DEF DeviceInv, Half, SpeedChanges, loop, rules, flags
<1> QED BY <1>3, <1>4, <1>6 DEF DeviceInv

-----------------------------------------------------------------------------
(* The loop of the client.                                                  *)

LEMMA StartLoopInv == DeviceInv /\ StartLoop => DeviceInv'
BY NoThread
DEF DeviceInv, TypeOK, MutexHeld, Half, Crashed, StartLoop, Threads, world, client, rules, flags

(* A list of properties that the client has read.                           *)
LEMMA ReadTypes ==
  ASSUME TypeOK, NEW s \in Servers, ReadProperties(s)
  PROVE  /\ properties' \in [Ids -> {"absent", "null", "known"}]
         /\ seen' \in BOOLEAN /\ news' \in BOOLEAN
         /\ HasNews(s) \in BOOLEAN
         /\ HasNews(s) => seen' /\ news' = moving[s]
         /\ ~HasNews(s) => (seen' => seen)
<1>1. properties' \in [Ids -> {"absent", "null", "known"}]
  BY Types DEF ReadProperties
<1>2. /\ seen' = ("current_speed" \in Lists[s])
      /\ news' = (HasNews(s) /\ moving[s])
      /\ HasNews(s) = ("current_speed" \in Lists[s] /\ ~seen)
  BY DEF ReadProperties, HasNews
<1>3. moving[s] \in BOOLEAN
  BY Types
<1>4. moving[s] = TRUE \/ moving[s] = FALSE
  BY <1>3, Zenon
<1>5. CASE "current_speed" \in Lists[s] /\ ~seen
  <2>1. HasNews(s) = TRUE /\ seen' = TRUE
    BY <1>2, <1>5, Zenon
  <2>2. news' = moving[s]
    BY <1>2, <1>4, <2>1, Zenon
  <2> QED BY <1>1, <1>3, <2>1, <2>2, Zenon
<1>6. CASE ~("current_speed" \in Lists[s] /\ ~seen)
  <2>1. HasNews(s) = FALSE
    BY <1>2, <1>6, Zenon
  <2>2. news' = FALSE
    BY <1>2, <2>1, Zenon
  <2>3. seen' = TRUE \/ seen' = FALSE
    BY <1>2, <1>6
  <2>4. seen' => seen
    BY <1>2, <1>6, Zenon
  <2>5. seen' \in BOOLEAN
    BY <2>3, Zenon
  <2> QED BY <1>1, <2>1, <2>2, <2>4, <2>5, Zenon
<1> QED BY <1>5, <1>6, Zenon

LEMMA FindDeviceInv ==
  ASSUME DeviceInv, NEW s \in Servers, FindDevice(s)
  PROVE  DeviceInv'
<1>1. /\ TypeOK /\ MutexHeld /\ Half /\ poll = "search" /\ s \in untested
      /\ http' = s /\ untested' = {} /\ s # None
      /\ UNCHANGED <<world, servers, mutex, drop, rules, flags>>
  BY ServersAssumption DEF DeviceInv, Crashed, FindDevice
<1>2. CASE ~PointersGood(s)
  <2>1. poll' = "crashed" /\ UNCHANGED <<properties, seen, news>>
    BY <1>2 DEF FindDevice
  <2> QED BY <2>1, <1>1 DEF DeviceInv, TypeOK, MutexHeld, Crashed, world, rules, flags
<1>3. CASE PointersGood(s)
  <2>1. ReadProperties(s) /\ poll' = IF HasNews(s) THEN "found" ELSE "connected"
    BY <1>3 DEF FindDevice
  <2>2. /\ properties' \in [Ids -> {"absent", "null", "known"}]
        /\ seen' \in BOOLEAN /\ news' \in BOOLEAN
        /\ HasNews(s) => seen' /\ news' = moving[s]
        /\ ~HasNews(s) => (seen' => seen)
    BY <1>1, <2>1, ReadTypes
  <2>3. TypeOK'
    BY <1>1, <2>1, <2>2 DEF TypeOK, world, rules, flags
  <2>4. MutexHeld'
    BY <1>1, <2>1 DEF MutexHeld, rules
  <2>5. ~seen /\ s \in servers
    BY <1>1 DEF Half
  <2>6. Half'
    BY <1>1, <2>1, <2>2, <2>5, NoThread DEF Half, MutexHeld, world, flags
  <2> QED BY <2>3, <2>4, <2>6 DEF DeviceInv
<1> QED BY <1>2, <1>3

LEMMA PassServerInv ==
  ASSUME DeviceInv, NEW s \in Servers, PassServer(s)
  PROVE  DeviceInv'
BY DEF DeviceInv, TypeOK, MutexHeld, Half, Crashed, PassServer, world, client, rules, flags

LEMMA FindNothingInv == DeviceInv /\ FindNothing => DeviceInv'
BY NoThread
DEF DeviceInv, TypeOK, MutexHeld, Half, Crashed, FindNothing, EndLoop, Threads,
    world, client, rules, flags

LEMMA PollInv == DeviceInv /\ Poll => DeviceInv'
<1> SUFFICES ASSUME DeviceInv, Poll PROVE DeviceInv'
  OBVIOUS
<1>1. /\ TypeOK /\ MutexHeld /\ Half /\ poll = "request" /\ mutex = "poll" /\ drop = "no"
      /\ http \in Servers /\ http # None
      /\ UNCHANGED <<world, servers, http, untested, drop, rules, flags>>
  BY DEF DeviceInv, TypeOK, MutexHeld, Half, Crashed, Poll
<1>2. CASE ~PointersGood(http)
  <2>1. poll' = "crashed" /\ UNCHANGED <<mutex, properties, seen, news>>
    BY <1>2 DEF Poll
  <2> QED BY <2>1, <1>1 DEF DeviceInv, TypeOK, MutexHeld, Crashed, world, rules, flags
<1>3. CASE PointersGood(http)
  <2>1. /\ ReadProperties(http)
        /\ IF HasNews(http) THEN poll' = "changed" /\ UNCHANGED mutex
                            ELSE poll' = "sleep" /\ mutex' = None
    BY <1>3 DEF Poll, EndLoop
  <2>2. /\ properties' \in [Ids -> {"absent", "null", "known"}]
        /\ seen' \in BOOLEAN /\ news' \in BOOLEAN
        /\ HasNews(http) => seen' /\ news' = moving[http]
        /\ ~HasNews(http) => (seen' => seen)
    BY <1>1, <2>1, ReadTypes
  <2>3. TypeOK'
    BY <1>1, <2>1, <2>2 DEF TypeOK, Threads, world, rules, flags
  <2>4. MutexHeld'
    BY <1>1, <2>1, NoThread DEF MutexHeld, TypeOK, rules
  <2>5. Half'
    BY <1>1, <2>1, <2>2, NoThread DEF Half, MutexHeld, world, flags
  <2> QED BY <2>3, <2>4, <2>5 DEF DeviceInv
<1> QED BY <1>2, <1>3

LEMMA PollOtherInv == DeviceInv /\ PollOther => DeviceInv'
BY NoThread
DEF DeviceInv, TypeOK, MutexHeld, Half, Crashed, PollOther, EndLoop, Threads,
    world, client, rules, flags

LEMMA PollFailsInv == DeviceInv /\ PollFails => DeviceInv'
BY NoThread
DEF DeviceInv, TypeOK, MutexHeld, Half, Crashed, PollFails, Disconnect, NoProperties, Threads,
    Ids, world, rules, flags

LEMMA PropertyChangedInv == DeviceInv /\ PropertyChanged => DeviceInv'
<1> SUFFICES ASSUME DeviceInv, PropertyChanged PROVE DeviceInv'
  OBVIOUS
<1>1. TypeOK /\ MutexHeld /\ (Crashed \/ Half)
  BY DEF DeviceInv
<1>2. TypeOK'
  <2>1. /\ UNCHANGED <<answers, moving, servers, http, properties, seen, untested, drop>>
        /\ UNCHANGED <<engine, want, draft, status, connected>>
    BY DEF PropertyChanged, world, client, rules
  <2>2. /\ poll' \in {"sleep", "connected"} /\ mutex' \in {mutex, None}
        /\ running' = news /\ news' = FALSE
    BY DEF PropertyChanged, EndLoop
  <2>3. running' \in BOOLEAN /\ news' \in BOOLEAN
    BY <1>1, <2>2, Zenon DEF TypeOK
  <2> QED BY <1>1, <2>1, <2>2, <2>3 DEF TypeOK
<1>3. MutexHeld'
  BY <1>1, NoThread DEF TypeOK, MutexHeld, PropertyChanged, EndLoop, world, client, rules
<1>4. Half' \/ Crashed'
  BY <1>1, NoThread DEF TypeOK, MutexHeld, Half, Crashed, PropertyChanged, EndLoop, world, client, rules
<1> QED BY <1>2, <1>3, <1>4 DEF DeviceInv

LEMMA DeviceConnectedInv == DeviceInv /\ DeviceConnected => DeviceInv'
BY NoThread
DEF DeviceInv, TypeOK, MutexHeld, Half, Crashed, DeviceConnected, EndLoop, Threads,
    world, client, rules

LEMMA ClearConnectedInv == DeviceInv /\ ClearConnected => DeviceInv'
<1> SUFFICES ASSUME DeviceInv, ClearConnected PROVE DeviceInv'
  OBVIOUS
<1>1. TypeOK /\ MutexHeld /\ (Crashed \/ Half)
  BY DEF DeviceInv
<1>2. TypeOK'
  <2>1. /\ UNCHANGED <<answers, moving, servers, http, properties, seen, mutex, running>>
        /\ UNCHANGED <<poll, untested, news, engine, want, draft, status>>
        /\ connected' = FALSE /\ drop' = "running"
    BY DEF ClearConnected, world, client, loop, rules
  <2>2. connected' \in BOOLEAN /\ drop' \in {"no", "connected", "running"}
    BY <2>1
  <2>3. /\ answers' \in [Servers -> Answers] /\ moving' \in [Servers -> BOOLEAN]
        /\ servers' \subseteq Servers /\ http' \in Servers \cup {None}
        /\ properties' \in [Ids -> {"absent", "null", "known"}] /\ seen' \in BOOLEAN
        /\ mutex' \in Threads \cup {None} /\ running' \in BOOLEAN
    BY <1>1, <2>1, Zenon DEF TypeOK
  <2> QED BY <1>1, <2>1, <2>2, <2>3, ZenonT(30) DEF TypeOK
<1>3. MutexHeld'
  BY <1>1, NoThread DEF TypeOK, MutexHeld, ClearConnected, world, client, loop, rules
<1>4. Half' \/ Crashed'
  BY <1>1, NoThread DEF TypeOK, MutexHeld, Half, Crashed, ClearConnected, world, client, loop, rules
<1> QED BY <1>2, <1>3, <1>4 DEF DeviceInv

LEMMA ClearRunningInv == DeviceInv /\ ClearRunning => DeviceInv'
<1> SUFFICES ASSUME DeviceInv, ClearRunning PROVE DeviceInv'
  OBVIOUS
<1>1. TypeOK /\ MutexHeld /\ (Crashed \/ Half)
  BY DEF DeviceInv
<1>2. TypeOK'
  <2>1. /\ UNCHANGED <<answers, moving, servers, http, properties, seen, connected>>
        /\ UNCHANGED <<poll, untested, news, engine, want, draft, status>>
        /\ running' = FALSE /\ drop' = "no" /\ mutex' = None
    BY DEF ClearRunning, world, client, loop, rules
  <2> QED BY <1>1, <2>1, ZenonT(30) DEF TypeOK
<1>3. MutexHeld'
  BY <1>1, NoThread DEF TypeOK, MutexHeld, ClearRunning, world, client, loop, rules
<1>4. Half' \/ Crashed'
  BY <1>1, NoThread DEF TypeOK, MutexHeld, Half, Crashed, ClearRunning, world, client, loop, rules
<1> QED BY <1>2, <1>3, <1>4 DEF DeviceInv

-----------------------------------------------------------------------------
(* Avahi and the rules.                                                     *)

LEMMA ServiceAddedInv ==
  ASSUME DeviceInv, NEW s \in Servers, ServiceAdded(s)
  PROVE  DeviceInv'
BY DEF DeviceInv, TypeOK, MutexHeld, Half, Crashed, ServiceAdded, world, loop, rules, flags

LEMMA ServiceRemovedInv ==
  ASSUME DeviceInv, NEW s \in Servers, ServiceRemoved(s)
  PROVE  DeviceInv'
<1>1. CASE http = s
  BY <1>1, NoThread
  DEF DeviceInv, TypeOK, MutexHeld, Half, Crashed, ServiceRemoved, Disconnect, NoProperties,
      Threads, Ids, world, loop, rules, flags
<1>2. CASE http # s
  BY <1>2, ServersAssumption
  DEF DeviceInv, TypeOK, MutexHeld, Half, Crashed, ServiceRemoved, world, loop, rules, flags
<1> QED BY <1>1, <1>2

LEMMA CommandInv ==
  ASSUME DeviceInv, NEW speed \in BOOLEAN, Command(speed)
  PROVE  DeviceInv'
BY DEF DeviceInv, TypeOK, MutexHeld, Half, Crashed, Command, world, client, loop, flags

LEMMA GetPropertyInv == DeviceInv /\ GetProperty => DeviceInv'
<1> SUFFICES ASSUME DeviceInv, GetProperty PROVE DeviceInv'
  OBVIOUS
<1>1. /\ engine = "get" /\ mutex = None /\ engine' \in {"idle", "set"} /\ want' \in BOOLEAN
      /\ UNCHANGED <<world, servers, http, seen, mutex, loop, drop, draft, status, flags>>
  BY DEF DeviceInv, TypeOK, GetProperty, EndCommand
<1>2. /\ properties' \in [Ids -> {"absent", "null", "known"}]
      /\ \A id \in Ids : properties'[id] = "known" => properties[id] = "known"
  BY DEF DeviceInv, TypeOK, GetProperty, Ids
<1> QED BY <1>1, <1>2
    DEF DeviceInv, TypeOK, MutexHeld, Half, Crashed, world, loop, flags

LEMMA UpdatePropertyInv == DeviceInv /\ UpdateProperty => DeviceInv'
<1> SUFFICES ASSUME DeviceInv, UpdateProperty PROVE DeviceInv'
  OBVIOUS
<1>1. TypeOK /\ MutexHeld /\ (Crashed \/ Half)
  BY DEF DeviceInv
<1>2. TypeOK'
  <2>1. /\ UNCHANGED <<answers, moving, servers, http, properties, seen, drop>>
        /\ UNCHANGED <<poll, untested, news, draft, status, connected, running>>
    BY DEF UpdateProperty, world, client, loop, flags
  <2>2. engine' \in {"idle", "put"} /\ mutex' \in {mutex, "engine"} /\ want' \in {want, FALSE}
    BY DEF UpdateProperty, EndCommand
  <2>3. engine' \in {"idle", "get", "set", "put", "status"} /\ mutex' \in Threads \cup {None}
    BY <1>1, <2>2 DEF TypeOK, Threads
  <2>4. want' \in BOOLEAN
    BY <1>1, <2>2, Zenon DEF TypeOK
  <2> QED BY <1>1, <2>1, <2>3, <2>4, ZenonT(30) DEF TypeOK
<1>3. MutexHeld'
  BY <1>1, NoThread DEF TypeOK, MutexHeld, UpdateProperty, EndCommand, world, client, loop, flags
<1>4. Half' \/ Crashed'
  BY <1>1, NoThread DEF TypeOK, MutexHeld, Half, Crashed, UpdateProperty, EndCommand, world, client, loop, flags
<1> QED BY <1>2, <1>3, <1>4 DEF DeviceInv

LEMMA PutAnsweredInv == DeviceInv /\ PutAnswered => DeviceInv'
<1> SUFFICES ASSUME DeviceInv, PutAnswered PROVE DeviceInv'
  OBVIOUS
<1>1. /\ engine = "put" /\ mutex = "engine" /\ poll = "sleep" /\ drop = "no" /\ ~Crashed
      /\ TypeOK /\ MutexHeld /\ Half /\ http \in Servers /\ want \in BOOLEAN
      /\ engine' = "idle" /\ want' = FALSE /\ mutex' = None
      /\ UNCHANGED <<answers, servers, http, properties, loop, drop, draft, status, flags>>
  BY DEF DeviceInv, TypeOK, MutexHeld, Half, Crashed, PutAnswered, EndCommand
<1>2. /\ moving' \in [Servers -> BOOLEAN] /\ seen' \in BOOLEAN
      /\ seen' => seen /\ moving'[http] = moving[http]
  <2>1. CASE Move(http, want)
    BY <2>1, <1>1, MoveSeen
  <2>2. CASE UNCHANGED <<moving, seen>>
    BY <2>2, <1>1, Types
  <2> QED BY <2>1, <2>2 DEF PutAnswered
<1>3. TypeOK'
  BY <1>1, <1>2 DEF TypeOK, loop, flags
<1>4. MutexHeld'
  BY <1>1, NoThread DEF MutexHeld, TypeOK, loop
<1>5. Half'
  BY <1>1, <1>2, NoThread DEF Half, loop, flags
<1> QED BY <1>3, <1>4, <1>5 DEF DeviceInv

LEMMA BeginStatusInv == DeviceInv /\ BeginStatus => DeviceInv'
BY DEF DeviceInv, TypeOK, MutexHeld, Half, Crashed, BeginStatus, world, client, loop, flags

LEMMA SendStatusInv == DeviceInv /\ SendStatus => DeviceInv'
<1> SUFFICES ASSUME DeviceInv, SendStatus PROVE DeviceInv'
  OBVIOUS
<1>1. TypeOK /\ MutexHeld /\ (Crashed \/ Half)
  BY DEF DeviceInv
<1>2. TypeOK'
  <2>1. status' = [connected |-> draft, running |-> running]
        /\ draft \in BOOLEAN /\ running \in BOOLEAN
    BY <1>1 DEF TypeOK, SendStatus
  <2>2. status' \in Statuses
    BY <2>1, Zenon DEF Statuses
  <2>3. /\ UNCHANGED <<answers, moving, servers, http, properties, seen, mutex, drop>>
        /\ UNCHANGED <<poll, untested, news, want, connected, running>>
        /\ engine' = "idle" /\ draft' = FALSE
    BY DEF SendStatus, world, client, loop, flags
  <2> QED BY <1>1, <2>2, <2>3, ZenonT(30) DEF TypeOK
<1>3. MutexHeld'
  BY <1>1, NoThread DEF TypeOK, MutexHeld, SendStatus, Statuses, world, client, loop, flags
<1>4. Half' \/ Crashed'
  BY <1>1, NoThread DEF TypeOK, MutexHeld, Half, Crashed, SendStatus, Statuses, world, client, loop, flags
<1> QED BY <1>2, <1>3, <1>4 DEF DeviceInv

-----------------------------------------------------------------------------
(* The inductive invariant holds of every behaviour.                        *)
THEOREM DeviceInvariance == Spec => []DeviceInv
<1>1. DeviceInv /\ [Next]_vars => DeviceInv'
  <2> SUFFICES ASSUME DeviceInv, [Next]_vars PROVE DeviceInv'
    OBVIOUS
  <2>1. ASSUME NEW s \in Servers, ServerChanges(s) PROVE DeviceInv'
    BY <2>1, ServerChangesInv
  <2>2. ASSUME NEW s \in Servers, SpeedChanges(s) PROVE DeviceInv'
    BY <2>2, SpeedChangesInv
  <2>3. ASSUME NEW s \in Servers, ServiceAdded(s) PROVE DeviceInv'
    BY <2>3, ServiceAddedInv
  <2>4. ASSUME NEW s \in Servers, ServiceRemoved(s) PROVE DeviceInv'
    BY <2>4, ServiceRemovedInv
  <2>5. ASSUME NEW speed \in BOOLEAN, Command(speed) PROVE DeviceInv'
    BY <2>5, CommandInv
  <2>6. ASSUME LoopStep PROVE DeviceInv'
    <3>1. ASSUME NEW s \in Servers, FindDevice(s) PROVE DeviceInv'
      BY <3>1, FindDeviceInv
    <3>2. ASSUME NEW s \in Servers, PassServer(s) PROVE DeviceInv'
      BY <3>2, PassServerInv
    <3> QED BY <2>6, <3>1, <3>2, FindNothingInv, PollInv, PollOtherInv, PollFailsInv,
               PropertyChangedInv, DeviceConnectedInv
            DEF LoopStep
  <2>7. ASSUME EngineStep PROVE DeviceInv'
    BY <2>7, GetPropertyInv, UpdatePropertyInv DEF EngineStep
  <2>8. CASE UNCHANGED vars
    BY <2>8 DEF vars, world, client, loop, rules, flags, DeviceInv, TypeOK, MutexHeld, Half, Crashed
  <2> QED BY <2>1, <2>2, <2>3, <2>4, <2>5, <2>6, <2>7, <2>8, StartLoopInv, ClearConnectedInv,
             ClearRunningInv, PutAnsweredInv, BeginStatusInv, SendStatusInv
          DEF Next
<1> QED BY <1>1, InitInv, PTL DEF Spec

(* Server, properties and what the plugin was told agree between the        *)
(* sections under the client's mutex (client.cpp, poll_properties,          *)
(* test_server, process_property and service_removed).                      *)
THEOREM ViewKept == Spec => []ViewAgrees
<1>1. DeviceInv => ViewAgrees
  BY NoThread DEF DeviceInv, TypeOK, MutexHeld, Half, Crashed, ViewAgrees
<1> QED BY <1>1, DeviceInvariance, PTL
=============================================================================
