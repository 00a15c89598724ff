# The @Work central factory hub, in TLA+

The repository holds a *referee box*: a program that runs beside a robot
competition, keeps the state of the benchmark that a team performs, generates
its tasks, tells robots and referees what they may know, and takes the
referees' commands.  It began as the referee box of the Logistics League
(`src/llsf`), was adapted to RoCKIn@Work (`src/rockin`) and then to the @Work
league (`src/atwork`); the three share the C++ program under `src/src`.  This
directory holds a model of the program in its @Work configuration
(`src/cfg/config.yaml` loads the rules of `src/atwork/clips`), the TLC
configurations that check it, and proofs.

Paths below are those of the repository with `src/` in front of them.

Contents: [1 the system](#1-the-system), [2 the modules](#2-the-modules),
[3 the runs](#3-the-runs), [4 bounds and fairness](#4-bounds-and-fairness),
[5 the proofs](#5-the-proofs), [6 disagreements found](#6-disagreements-found),
[7 what is not modelled](#7-what-is-not-modelled), [8 plan](#8-plan),
[9 running it](#9-running-it).

## 1. The system

### 1.1 Parts, their state and their operations

| Part | Source | State | Operations |
|---|---|---|---|
| State machine | `src/atwork/clips/state-machine.clp` | current state, transitions, `BenchmarkTime.timer`, `last-time` | `set-state`, `process-event`, `update`, `on-enter`/`on-update`/`on-exit` of each class |
| Benchmark | `src/atwork/clips/benchmark.clp`, `globals.clp`, `benchmark-time.clp` | registered, current and requested scenario | `request-scenario`, `switch-scenario`, `setup`, `generate`, `cleanup`, rules `init-benchmark`, `benchmark-update` |
| Scenarios | `src/atwork/clips/basic-*.clp`, `precision-placement-tests.clp`, `conveyor-belt-tests.clp`, `at-work-finals.clp` | one instance per test (BNT1, BMT1, BTT1-3, PPT1, CBT1-2, AWF1) | `setup` builds the states, `generate` the tasks and the inventory |
| Tasks, inventory | `src/atwork/clips/task.clp`, `task-info.clp`, `inventory.clp` | task list, shared `next-id`, items | construction, `create-msg` |
| Network rules | `src/atwork/clips/net.clp` | `network-client`, `network-peer`, `signal` and `robot` facts | commands, periodic broadcasts, attention messages, version info, beacons |
| Robots | `src/atwork/clips/robots.clp`, `net.clp` | `robot` facts: last seen, warning sent, logging | registration, `robot-lost`, `robot-remove`, status messages |
| Device rules | `src/atwork/clips/device-*.clp` | none; they ask the device plugins | commands of robots, periodic device status |
| Device plugins | `src/atwork/plugins`, `src/src/libs/property_client` | known servers, connection, polled properties, the plugin's two flags | discovery, polling, commands, callbacks |
| Engine host | `src/src/refbox/refbox.cpp` | timer, CLIPS environment, `clips_mutex_`, message facts | start-up, 40 ms timer, signals, retraction of messages |
| Communicator | `src/src/libs/protobuf_clips/communicator.cpp` | client id maps, endpoints, peers, `map_mutex_` | `enable_server`, `pb-send`, `pb-broadcast`, handlers of connects, disconnects, messages |
| Stream server | `src/src/libs/protobuf_comm/server.cpp` | sessions, outbound queues | accept, read, write, send, disconnect |
| Stream client | `src/src/libs/protobuf_comm/client.cpp` | one connection, outbound queue | resolve, connect, read, write |
| Broadcast peer | `src/src/libs/protobuf_comm/peer.cpp`, `crypto.cpp` | UDP socket, outbound queue, buffers, cipher | send, receive, encrypt, decrypt |
| Message register | `src/src/libs/protobuf_comm/message_register.cpp` | types by (component, message) and by name | register, serialize, deserialize |
| Logging | `src/src/libs/logging`, `src/src/refbox/clips_logger.cpp` | loggers | forwards log lines to console, file and stream clients |
| Threads | `src/src/libs/core/threading`, `src/src/libs/baseapp/thread_manager.cpp` | thread flags and mutexes, lists, barriers | init, start, loop, wakeup, prepare, cancel, stop, finalize |
| Plugins and aspects | `src/src/libs/plugin`, `src/src/libs/aspect` | loaded plugins, meta plugins, their threads | load, unload, notification of listeners |
| Configuration | `src/src/libs/config` | YAML tree, SQLite database | get, set, notify |
| Front ends | `src/atwork/controller`, `src/atwork/viewer`, `src/atwork/tools`, `src/llsf/shell` | last `BenchmarkState`, `RobotInfo`, ...; reconnection | buttons that send commands, displays |
| Older leagues | `src/rockin`, `src/llsf` | their own rules, shells and plugins | not loaded by the @Work configuration |

### 1.2 How they work together

The CLIPS environment is the centre.  It has one agenda and one `run` at a time,
under `clips_mutex_`.  Three things put facts into it:

* the timer (`handle_timer`, every 40 ms) asserts `(time s us)` and runs CLIPS;
* the asio thread of the stream server asserts `protobuf-server-client-connected`
  or `-disconnected` and runs CLIPS;
* the asio threads of the stream server and of each peer assert a `protobuf-msg`
  fact and do **not** run CLIPS: it waits for the next run of the others.

Rules send through `pb-send` and `pb-broadcast`, which take `map_mutex_`.
Scenarios, machine and tasks are COOL objects that rules change by messages;
nothing else changes them.

Around the engine, three further pieces of concurrent machinery run in the same process:

* the *broadcast peers*, each with an asio thread of its own, which send what rules and timer queue and
  report what robots send;
* the *plugins*: `PluginManager` loads modules and hands their threads to `ThreadManager`, which initialises, starts,
  stops and finalises them in lists; the device plugins make functions for the rules out of a `PropertyClient`,
  whose own thread polls a device while Avahi's thread reports servers;
* the *threads* library under all of them: barriers with a timeout, loops with two mutexes, lists that are woken together.

The front ends are other processes: a *stream client* each, which reconnects in a way of its own.

### 1.3 What is hard

* *Order on the agenda.* CLIPS' default strategy puts the newest activation first.
  Two commands that arrive between two runs are handled newest first, and the
  periodic broadcasts mix with commands, with the update of the machine and with the rules that look at the time.
* *One timer for everything.* `BenchmarkTime.timer` belongs to a shared instance;
  `prep-running`, `prep-paused`, `exec-running` and `exec-paused` all count in it,
  and only `on-exit` of a stopped state and `on-enter` of the timeout state set it to 0.
* *Several lists that must agree.* The scenario, the machine, the tasks and the
  inventory change in different handlers; the plugins are on the books of manager, loader, thread manager and listeners;
  a client is in two maps of the communicator, in the server's sessions and in the engine's facts.
* *Mutexes in different orders, or not at all.* Handlers of the communicator take
  `map_mutex_` and `clips_mutex_` in different orders; the server's sessions, the barrier's `__wait_at_barrier`,
  `Thread::__barrier` and the device plugins' flags are read without one.
* *Failure half-way.* A thread of a list that does not initialise, a plugin of a meta plugin that does not load,
  a write or a resolve that fails, a datagram that cannot be decrypted, a server that goes in the middle of a command.
* *Timeouts against late answers.* The wakeup barrier, the robots' timeouts, the reconnection of clients.
* *Start-up.* The server accepts clients before the rule base is loaded and reset.

### 1.4 What makes each part correct

| Part | Property |
|---|---|
| Benchmark and network rules | robots get tasks and inventory only while the execution clock runs; what is on offer belongs to the current scenario; newly generated tasks are unknown to the robots |
| State machine | the timer starts at 0, is bounded by the phase's maximum plus what one update may add, phases follow each other and end |
| Communicator and stream server | ids of clients are unique and the two maps inverse; each client is served from its connection to its end, in order and beginning with the version; the locks are released |
| Stream client | messages leave in order and not twice over all connections; after a failure the client keeps trying, and is connected in the end |
| Broadcast peer | one datagram at a time, in order; failures do not block the queue; what is received once is handed on once |
| Engine host | every message fact is retracted and freed once; a run follows every assertion |
| Robots | the roster never contradicts the beacons; a silent robot leaves it, a new one is told the version |
| Devices | connection, server, properties and what the rules report fit together; the status becomes the truth; commands return |
| Threads | preparation to finalise and loop exclude each other; a list is started and finalised as a whole; a barrier is passed by all or by none, and is kept for whoever has still to come to it |
| Plugins | all books agree after any sequence of loads and unloads that fail anywhere |
| Message register | (component, message) and type determine each other |

## 2. The modules

### 2.1 `Benchmark`: the rule engine

One step of the module is the firing of one rule, or the arrival of one fact.

| Variable | In the code |
|---|---|
| `machine.state` | `current-state` of the scenario's `state-machine` instance |
| `machine.timer` | `BenchmarkTime.timer` of `[benchmark-time]` |
| `machine.lag` | now minus `last-time`, kept at 0 where `last-time` is not read |
| `current`, `requested` | `current-scenario`, `requested-scenario` of `[benchmark]` |
| `tasks`, `nextId` | ids in `[task-info]`, the shared slot `Task.next-id` |
| `items` | length of the items of `[inventory]` |
| `known`, `stocked` | what has been broadcast to the robots so far |
| `agenda` | activations of the run in progress, or waiting for the next |
| `running` | a `Run` of CLIPS is in progress (`clips_mutex_` is held) |
| `started`, `generating` | history variables of a property and of a bound |

| Action | In the code |
|---|---|
| `BenchmarkUpdate` | rule `benchmark-update`, `Benchmark.update`, `on-update` of the current state |
| `RequestScenario` | rule `net-recv-SetBenchmarkScenario`, `request-scenario` |
| `Reset` | `RESET`: `switch-scenario` to the requested one (with `cleanup` and `generate` when it differs), `setup` |
| `Shuffle` | `SHUFFLE`: `cleanup` and `generate` |
| `Skip` | `SKIP`: two events, `STOP` and `START`, in one rule |
| `Transition(e)` | `START`, `STOP`, `PAUSE`: `process-event` |
| `SendTaskInfo`, `SendInventory` | rules `net-send-TaskInfo-peer`, `net-send-Inventory-peer` |
| `RunEnds` | the agenda is empty, the mutex is released |
| `Tick` | `handle_timer`: asserts the time, which activates the update and every periodic rule that is due, in any order |
| `ServerRun` | a TCP client comes or goes: its handler runs CLIPS with what is on the agenda |
| `ReceiveScenario`, `ReceiveEvent` | a `protobuf-msg` fact arrives and waits |
| `Pass` | time goes by |

The machine is a table (`Target`) because all scenarios build the same nine states and
the same transitions; `ProcessEvent`, `Advance` and `Update` are the handlers of its
classes.  The contents of a task (places, objects, their random choice) are abstracted to
its id, an inventory to its size; `TaskCount` and `ItemCount` give what a scenario generates.
Attention messages, log lines and the `BenchmarkState` sent to the referees are left out:
they read the state and change none of it.  The `RESET` of `[NONE]` is included, for which
`setup` builds the one state `init`.

### 2.2 `Contest`: what referees and teams are promised

An abstract benchmark without agenda, timer or rules: a stage (idle, preparation,
execution, over), a clock, the tasks on offer and the tasks shown.  It says that stages
follow each other, that tasks are shown only while the execution's clock runs, and that
tasks are exchanged only for ones nobody has seen.  `Benchmark` defines `C` as an instance of it
(`Stage`, `Clock` are the refinement mapping) and `ImplementsContest` says that
every step of the engine is one of `Contest` or changes nothing in it.

### 2.3 `MCBenchmark`, `BenchmarkProofs`

`MCBenchmark` gives TLC two scenarios with tasks, `[NONE]` and an unregistered one.
`BenchmarkProofs` holds the theorems about `Benchmark`.

### 2.4 `ProtobufBridge`: communicator, stream server and the engine's view of clients

Two threads take turns.  The main thread starts the engine and then runs it at every tick; the asio
thread of the stream server accepts, reads, writes and reports to the communicator.  A step ends where a thread may have
to wait for `clips_mutex_` or `map_mutex_`, and between the search of `sessions_` and its use, because
`sessions_` is shared without a lock.

| Variable | In the code |
|---|---|
| `link` | what the network knows of a client: not connected yet, connected, gone |
| `sessions`, `reading` | keys of `sessions_` in `server.cpp`; sessions with a pending `async_read` |
| `outbound`, `queue` | the entry of the pending `async_write` (`outbound_active_`), `outbound_queue_` |
| `wire` | what the socket has taken, from first to last |
| `server`, `rev`, `nextId` | `server_clients_`, `rev_server_clients_`, `next_client_id_` of the communicator |
| `peers` | keys of `peers_` |
| `facts` | `protobuf-server-client-connected` and `-disconnected`, `network-client` and `protobuf-msg` facts |
| `up` | the rule files have been loaded |
| `clips`, `map` | who holds `clips_mutex_`, `map_mutex_` |
| `main`, `asio` | where the two threads are |
| `round` | how many rounds of broadcasts to the clients there were |
| `fate` | whether the process lives, or what ended it |
| `joined` | history: the round in which the engine met a client |

| Action | In the code |
|---|---|
| `StartClips`, `CreatePeer` | `start_clips` with the `(reset)` at the end of `init.clp`; the peers that the rules create |
| `TimerRun`, `SendToClient`, `FindSession`, `UseSession`, `RunEnds` | one run in `handle_timer` that sends to every `network-client`: `clips_pb_send`, `ProtobufStreamServer::send`, `Session::send` |
| `Accept` | `handle_accept` with `start_session` |
| `Register`, `Announce` | the two halves of `handle_server_client_connected`, with rule `net-client-connected` |
| `Message`, `PeerMessage` | `handle_server_client_msg`, `handle_peer_msg` |
| `BadMessage`, `ReportFailure` | the two halves of `handle_server_client_fail` |
| `Written`, `Broken` | `handle_write` without and with an error, `handle_read_*` with an error |
| `Unregister`, `Retire` | the two halves of `handle_server_client_disconnected`, with rule `net-client-disconnected` |
| `Leave` | external: the client closes its connection |

Abstractions.  A message is the version, a log line, or the number of the round it was broadcast in.
Of the log lines only those of the two rules about clients are modelled; others are sent through the same
function at other times.  `protobuf-server-receive-failed` facts are retracted by a rule of `protobuf.clp` that does nothing else but log, and are left out; taking the two mutexes for
them is not.  `sessions_` and `client_endpoints_` are `std::map`s that two threads change without a common lock: of
what may come of that the model has the one outcome that the source text shows, the session that has gone between search and use.
The read of a client's address in `start_session` fails if the client has left; nothing catches the exception, so the process ends.
`next_client_id_` is not initialised by either constructor: `StartIds` is the set of values it may hold.  It is
a `long`, and the `client-id` of a message an `unsigned int`: `MessageOf` reduces it modulo `Wrap`.

### 2.5 `MCProtobufBridge`, `ProtobufBridgeProofs`

`MCProtobufBridge` gives the values of `StartIds`; `ProtobufBridgeProofs` holds the theorems about `ProtobufBridge`.

### 2.6 `ThreadManager`, `ThreadCollector`: the life of threads

Callers add and remove lists of threads; the workers are the pthreads.  A caller's step is a call on one thread of
its list, a worker's is delimited by the mutexes of `thread.cpp`.

| Variable | In the code |
|---|---|
| `started`, `cancelled`, `prepared`, `hold` | `__started`, `__cancelled`, `finalize_prepared`, `__prepfin_hold` of each `Thread` |
| `aspects`, `ready` | what `AspectManager::init` and `Thread::init` have set up |
| `worker` | where `Thread::entry` and `run` are |
| `loopMutex`, `antistarve` | holders of `loop_mutex`, `loopinterrupt_antistarve_mutex` |
| `sealed`, `listLock` | `ThreadList::__sealed` and its mutex |
| `managed` | `ThreadManager::__untimed_threads` |
| `op` | the call each caller is in: step, list, position, what has gone wrong so far |

| Action | In the code |
|---|---|
| `CallAdd`, `CallRemove`, `LockList` | entry of `add_maybelocked`, `remove_maybelocked`, `force_remove` |
| `InitAspects`, `InitThread`, `Undo`, `Seal`, `Start`, `Register` | `ThreadList::init` with its failures, `seal`, `start`, registration |
| `PrepareAspects` ... `PrepareUser` | `prepare_finalize` of the list: aspects, hold, the two mutexes, the user's answer |
| `Verdict`, `CancelFinalize`, `UnlockVetoed` | what a veto or an exception leads to |
| `StopThread`, `JoinThread`, `FinalizeThread`, `Unlist` | `ThreadList::stop` and `finalize`, removal from the list |
| `SetHold` | `set_prepfin_hold` by anybody |
| `Once`, `StopBy`, `EnterLoop`, `LeaveLoop`, `Die`, `Exit` | `Thread::run`, cancellation, `pthread_exit` in `loop()` |

`ThreadCollector` is the promise that `PluginManager` relies on: a list is fresh, running, stopped, gone or broken.
`Listed` maps the manager's state to it and `KeepsPromise` is the refinement.
The timed threads that some of its comments mention do not exist in this program.

### 2.7 `ThreadWakeup`: wakeups and the barrier with a timeout

One host wakes the threads of a list and waits for them with a timeout (`ThreadList::wakeup_and_wait`), flags those that are late,
puts their barrier aside, and takes them back when they sleep again (`try_recover`).  Others wake the same threads (`Thread::wakeup()`).

| Variable | In the code |
|---|---|
| `pending`, `waiting`, `barrier` | `__pending_wakeups`, `__waiting_for_wakeup`, `__barrier` of each thread |
| `at`, `mine` | where each thread and the host are, and the barrier in their hands |
| `bars` | the `InterruptibleBarrier`s: parties, threads left, timeout, `__wait_at_barrier`, passed threads, and the POSIX barrier inside |
| `current`, `badBars`, `aside`, `flagged` | `__wnw_barrier`, `__wnw_bad_barriers`, `FLAG_BAD` |
| `todo`, `expected`, `recovered` | the host's progress through the list, or through a bad barrier's list; who was woken and has not thrown; the local `recovered_threads` of `try_recover` |

Actions: `EnterBarrier`, `Woken`, `TimeOut`, `ExitBarrier`, `LeaveBarrier` are `InterruptibleBarrier::wait` cut where its mutex is released;
`Sleep`, `Proceed`, `LoopEnds`, `ReadBarrier`, `TakeBarrier` are `Thread::run`; `Wakeup`, `WakeupAndWait`, `WakeupWithBarrier`,
`WaitForAll`, `Judge` are the wakeups and the call of the list; a thread whose barrier is still set makes `Thread::wakeup(barrier)` throw,
and the call ends before the host waits.  `TryRecover`, `Ask`, `NextBarrier` are `try_recover()`: it goes through the bad barriers, oldest first, and asks
`waiting()` of each thread of each of them anew, while the threads run.  A thread of two lists can be seen running for one and asleep for the other: it is not flagged
any more and stays in the first list, whose barrier stays with it.  The memory of a deleted barrier is taken to be intact.

### 2.8 `OrderedPipe`, `StreamClient`: the front ends' TCP client

`OrderedPipe` is what every sender of the repository promises: messages leave in the order in which they were taken, none twice.
`StreamClient` and `BroadcastPeer` implement it, the first without gaps, the second with single messages missing.

`StreamClient` models `client.cpp` with the ways its two kinds of users reconnect: `program` is the controller (and the viewer, which
is alike), or the shell.  `socket`, `reads`, `writing`, `resolving` are the operations that asio has pending;
`done` holds what has completed and waits for its handler, in that order; `connected`, `outbound_active`, `outbound_queue` are
`connected_`, `outbound_active_`, `outbound_queue_`.
`ResolveDone`, `ConnectDone`, `ReadDone`, `WriteDone`, `Hangup` are the network; `HandleNext` runs the handler of the oldest completion
(`HandleClientResolve`, `HandleConnect`, `HandleReadHeader`, `HandleReadMessage`, `HandleWrite`);
`Click`, `SendNext` are the buttons and `send()`; `ArmTimer`, `TimerExpires`, `HandleReconnectTimer` the shell's timer.
Left out: what the messages say, `disconnect()` by the application, which no front end calls while it runs, and the destructor.
Some names (`ClientInit`, `ClientNext`, `ClientSpec`, `ClientTypes`) differ from those of the other modules, because `SenderProofs` extends both senders.

### 2.9 `BroadcastPeer`: UDP, plain or encrypted

Each node has an asio thread and a thread of the application.  `active`, `queue`, `sending`, `calls` are the sending half,
`key`, `cryptoBuf`, `into`, `inData` the receiving half with its two buffers; `air` is the network, which loses, repeats and reorders.
`Send`, `StartSend`, `HandleSent`, `HandleResolve`, `SetupCrypto`, `HandleRecv` are the functions of `peer.cpp`.
`Found` says what `handle_recv` finds in `in_data_` after a datagram: text of an earlier message may still be there, because an
error in the frame is reported and not returned from.  Frames are V2; V1 frames have no encryption.
The ciphers are data: text decrypted with another key cannot be deserialized.

### 2.10 `PluginManager`: plugins and meta plugins

`plugins`, `metas` are the manager's, `open` the loader's map, `threads` what has become of a plugin's thread list under the promise of
`ThreadCollector`, `announced` what a listener has been told.  `stack` holds the recursion of `load()` through meta plugins.
`EnterMeta`, `LeaveMeta`, `SkipLoaded`, `RefuseOpen`, `LoadPlugin`, `FailInit`, `FailStart`, `Unwind` are the branches of `load()`;
`Unload`, `RefuseUnload`, `UnloadMeta` those of `unload()`; `Destroy` is the destructor; `HangLoading` and `HangUnloading` are a call that
waits for the list's mutex, which is not recursive, for ever.  No run has a meta plugin of the name of a module (section 5 says what then
does not hold).  The second part of the module is what makes its invariants inductive.

### 2.11 `PropertyClient`: a device and its status

Three threads share `PropertyClient::Client`: its loop, Avahi's and the engine's.  `servers`, `http`, `properties` are
`servers_`, `http_client_`, `properties_`; `seen` says that the timestamp of the speed is the device's; `mutex` is `mutex_`;
`connected`, `running` are the plugin's flags, `draft` and `status` the message that the rules send.

| Action | In the code |
|---|---|
| `StartLoop`, `FindDevice`, `PassServer`, `FindNothing`, `Poll`, `PollOther`, `PollFails` | `Client::loop`, `search_server`, `test_server`, `poll_properties` |
| `PropertyChanged`, `DeviceConnected`, `ClearConnected`, `ClearRunning` | the callbacks of the plugin, with the mutex held |
| `ServiceAdded`, `ServiceRemoved` | Avahi's callbacks |
| `Command`, `GetProperty`, `UpdateProperty`, `PutAnswered` | `start_belt`/`stop_belt` and the like: `is_connected`, `get_property`, `set_value` |
| `BeginStatus`, `SendStatus` | rule `net-send-ConveyorBeltStatus` and its function |
| `ServerChanges`, `SpeedChanges` | external: the device and its server |

The conveyor belt and the turntable have the same client and the same rules; the quality control camera has no plugin that is loaded.
Only the two properties that a plugin asks for by name are kept, and of a speed whether it is 0.

### 2.12 `Robots`: the roster

`robots` are the `robot` facts (last beacon as an age, `warning-sent`, the logging flag), `inbox` the `protobuf-msg` facts of beacons and logging
messages, `signal` the signal of `VersionInfo`, `run` the run of the engine in progress, with a `time` fact or without one.
`silence` and `untold` are history.  `RobotLost`, `RobotRemove`, `BeaconKnown`, `BeaconUnknown`, `LoggingStatus`, `SendVersionInfo`, `CleanUp`
are rules; `Arrive`, `StartTimed`, `StartPlain`, `EndRun`, `Tick` the host and the time.  Rules of the same salience fire in any order here:
the property does not depend on the agenda's strategy.
`VersionInfo` is sent by the `PUBLIC` peer (`net.clp:496`), which the module takes to be there: the repository's configuration names it
(`cfg/config.yaml:42`) and `net-init-public` makes it at the start.  Without it no newcomer is told anything.

### 2.13 Instances and proofs

`MCThreadManager`, `MCThreadWakeup`, `MCStreamClient`, `MCBroadcastPeer`, `MCPluginManager`, `MCPropertyClient`, `MCRobots` give the constants for TLC.
`BenchmarkProofs`, `ProtobufBridgeProofs`, `RobotsProofs`, `PropertyClientProofs`, `ThreadManagerProofs`, `PluginManagerProofs`
and `ThreadWakeupProofs` hold the theorems about the modules of their names, `SenderProofs` those about `BroadcastPeer` and `StreamClient` (section 5).

## 3. The runs

| Run | Configuration | Checks |
|---|---|---|
| `safety` | `MCBenchmark.cfg` | `DisclosedOnlyAfterStart`, `GoodsMatchScenario`, `TimerBounded`, `FreshTimer`, `PhaseOrder`, `ImplementsContest`, with two commands per window |
| `progress` | `MCBenchmarkLive.cfg` | `PhasesEnd` under `FairSpec`, while commands come |
| `bridge` | `MCProtobufBridge.cfg` | `OneToOne`, `Served`, `Roster` with two clients, two rounds, malformed messages, and three initial values of `next_client_id_` |
| `bridge_progress` | `MCProtobufBridgeLive.cfg` | `RunsEnd`, `GoneForgotten`, `QueuesDrain` under `FairSpec`, with two clients, one round and malformed messages |
| `threads` | `MCThreadManager.cfg` | `PrepareExclusive`, `Settled`, `FinalizedAtRest`, `CallsEnd`, `KeepsPromise` with two lists, every failure the code handles, a held, a concurrent and two one-shot threads |
| `wakeup` | `MCThreadWakeup.cfg` | `ReachedAll`, `ReadyForNext`, `BarrierKept`, `RoundsEnd`, `WokenRun` with two threads, one of which coalesces wakeups, and four barriers |
| `client` | `MCStreamClient.cfg` | `ClientInv`, `DeliversInOrder`, `Recovers` for the controller and the shell, three messages, two faults |
| `peers` | `MCBroadcastPeer.cfg` | `NoReplay`, `SendsInOrder`, `QueueDrains` with a sender, a receiver, two keys or none, two faults |
| `plugins` | `MCPluginManager.cfg` | `ExpandedOnce`, `BooksAgree`, `ListenersAgree` with three plugins and four meta plugins that contain each other |
| `device` | `MCPropertyClient.cfg` | `ViewAgrees`, `StatusSettles`, `CommandsReturn` with two servers, one of which lacks a property |
| `robots` | `MCRobots.cfg` | `RosterFaithful`, `SilentLeaves`, `NewcomerTold` with two robots on one host |
| `absent_property` | `MCPropertyClientAbsent.cfg` | `AbsentTolerated` is violated |

Of `Benchmark`:

* `DisclosedOnlyAfterStart`: no robot holds a task or the inventory of the present
  generation before `exec-running` was entered for it.  It would break if a broadcast that
  is already on the agenda fired after a `RESET` or `SHUFFLE` that regenerates, without asking for the state again.
* `GoodsMatchScenario`: tasks and inventory are those of the current scenario.
* `TimerBounded`: how far the timer may exceed the maximum of its phase.  `on-update` compares
  the value from before the step, so the overshoot is not 0 but less than one gap between updates
  (two for the final time).
* `FreshTimer`: whatever leads into a running phase, its timer starts at 0, unless it is `START` after a pause of the same phase.  That covers the update after the break and
  `SKIP` from a preparation that runs or is paused straight into the execution, which stops and starts in one rule.
* `PhaseOrder`: only `RESET` leads from execution back to preparation.
* `ImplementsContest`: refinement of `Contest`; it includes that newly generated tasks are ones nobody has seen.
* `PhasesEnd`: preparation, break and execution end, by a command or, when none comes, by the update of a tick.  (`START`, `SKIP` and `RESET` leave the break as well.)

Of `ProtobufBridge`:

* `OneToOne`: the two maps of clients are inverse and share no id with the peers.  It breaks if a disconnection,
  which the read and the write of a session may both report, erases one map and not the other.
* `Served`: a client that the engine met gets the version, and after it every round of broadcasts since, once
  each and in order, whatever the log lines in between and whoever wrote when.
* `Roster`: while no client is being retired the `network-client` facts are the clients of the communicator that the engine met.
  Clients from before the rules were loaded are never met, and a negative id is never reported as gone.
* `RunsEnd`: every run of the engine ends.  `GoneForgotten`: a client that left is forgotten.  `QueuesDrain`: queues are worked off.
  All three say `\/ Stopped`: the process was lost, or is `Crossed`, the one deadlock of the two mutexes that the code has (section 6).  With malformed messages in the run,
  `RunsEnd` shows that there is no other.

Of `ThreadManager`: `PrepareExclusive`: `prepare_finalize_user()` and `loop()` exclude each other.  `Settled`: whenever a list's lock is free
it is untouched, running as a whole or stopped as a whole; a veto leaves it as if nothing had been asked.  `FinalizedAtRest`: nothing is finalised
under a running worker.  `CallsEnd`: calls end, with the two exceptions that the definition names.  `KeepsPromise`: refinement of `ThreadCollector`.

Of `ThreadWakeup`: `ReachedAll`: when the host returns in time, exactly the expected threads have passed the barrier of this call.
`ReadyForNext`: between calls the barrier is unused and fits the threads that are not flagged, none of which has another barrier to come to, so that the next wakeup does not throw;
and whoever is flagged is bad at some barrier put aside, where `try_recover()` will ask for it.  The converse is false of the code (section 6).
`BarrierKept`: nobody has still to come to, or to be released from, a deleted barrier.  `RoundsEnd`: the list never waits for ever.  `WokenRun`: no wakeup is lost; the one way
for a thread to hang is named by `Caught` (section 6).

Of `StreamClient`: `ClientInv`: something is always under way that ends in a connection or in the signal that there is none, and a set `outbound_active_` has a reason.
`DeliversInOrder`: refinement of `OrderedPipe` over all connections together.  `Recovers`: with a single attempt under way the client is connected in the end.

Of `BroadcastPeer`: `NoReplay`: a message is handed on at most as often as it arrived.  `SendsInOrder`: refinement of `OrderedPipe`.
`QueueDrains`: somebody always sends what is queued, after errors too.

Of `PluginManager`: `ExpandedOnce`: recursion through meta plugins ends.  `BooksAgree`: list, loader and threads agree between calls.
`ListenersAgree`: what listeners were told adds up to the list of plugins and to what `is_loaded()` answers, but for a plugin that a failed start left open (`HalfLoaded`, section 6);
and a meta plugin never counts as loaded with a plugin of its own missing.

Of `PropertyClient`: `ViewAgrees`: connection, server, properties and flags fit together whenever nobody is inside the client.
`StatusSettles`: in a steady world the status that is sent becomes the truth and stays so.  `CommandsReturn`: a command returns although requests are made under the mutex.

Of `Robots`: `RosterFaithful`: the roster never dates a robot later than its last beacon, and earlier by one firing of the timer at most; no warning stands against a robot just heard.
`SilentLeaves`: a silent robot leaves.  `NewcomerTold`: a robot that comes is sent the version after it came.

Every property of a passing run has a mutant in `PROJECT.json`: a definition changed the way a plausible bug would change the
code, under which the same run finds the property violated.  The mutants' operators stand beside the definitions they alter, with a comment that says so.

## 4. Bounds and fairness

*`Benchmark`.* `MaxPending` bounds the commands that wait for a run.  Two are enough for every pair to meet
in one window in both orders, and the agenda takes the periodic rules on top.
`MaxGenerations` bounds `RESET` and `SHUFFLE` commands, because ids grow with every generation; two
let a scenario be generated, disclosed, replaced and generated again.  `MaxGap` bounds the
time between two updates; it is 2 so that the timer can stand below, at and above the maximum.
`PrepTime` and `ExecTime` are in units of the clock and are small, because the machine compares
them and does nothing else; `ExecTime` differs from `PrepTime` so that a timer taken
from the wrong phase shows.  Two scenarios, of which one has an inventory and one has not, let each replace the other.
`FairSpec` has `WF(Fire)`: a run that has begun goes on, as CLIPS fires until its agenda is empty;
`SF(Pass)`: time goes by, whatever is going on; and `SF(Tick)`: the timer thread gets `clips_mutex_`
in the end although handlers of network threads take it too.  That a mutex is not starved for ever
is the assumption; the timer is re-armed at the end of every `handle_timer`.

*`ProtobufBridge`.* `MaxClients` is 2, enough for one client to come or go while the other is served and for ids to be mixed up;
`MaxRounds` is 2 where order matters and 1 where it is the number of interleavings that costs.  `PeerCount` is 1: the peer and the clients draw ids from one counter.
`StartIds` is {-2, 0, 5}: from -2 the ids run through -1 and 0, the two values the code treats specially.
`Wrap` is 16, above every id there is.  `Malformed` lets clients send what cannot be deserialized.
It is `TRUE` in both runs.
`CHECK_DEADLOCK FALSE`: the process may end (`fate`), the two threads may wait for each other for ever, and all clients may have left after the last round.
`FairSpec` has `WF(Main)`, the main thread goes on; `SF(Handler)`, the asio thread gets a mutex that is free again and again;
and strong fairness of the end of each client's operations (`Written` or `Broken`): the operating system reports it, and asio runs its handlers in the order in which they are due, so that the
messages of other clients, however many, do not keep it away.  No client has to send or leave.

*`ThreadManager`.* One caller, as in the program: `PluginManager` holds its own mutex around every call.  Two lists, of two threads and of one, so that a failure
has a thread before it and one behind it.  Callers and workers are weakly fair, and `loop()` returns, except that of a concurrent thread, which asked for concurrency
because it blocks.  `SF(CancelFinalize)` and `SF(PrepareHold)`: the caller competes with a worker for a mutex that is free again and again, and with a holder that lets go again and again.
No fairness says that a worker is woken (`StopBy`).  `CHECK_DEADLOCK FALSE`: all lists may be gone.

*`ThreadWakeup`.* Two threads; four barriers let a timeout be followed by a recovery, a second timeout and a second recovery.  `MaxPending` bounds what others wake.
That is also what a thread needs to be bad at two barriers at once and to be recovered from one of them only.  Nothing is assumed of the time a thread needs to return from a barrier
that has released it.  Weak fairness for every worker and for the host, whose timeout fires.  `CHECK_DEADLOCK FALSE`: the barriers are used up.

*`StreamClient`.* Three messages, of which the controller's button for a scenario sends two at once, and two faults, so that the reconnection can fail as well.  Weak fairness of handlers,
of operations that were started and of the shell's timer; a read ends only when something arrives or the peer is gone.  `CHECK_DEADLOCK FALSE`: the program may have died, or be connected with everything sent.

*`BroadcastPeer`.* One node sends, both receive (the sender its own messages too); a message arrives once at each or not at all, so that whatever is handed on a second time is a replay (repeated datagrams are not in the run); two faults: failed sends, a failed resolve, changes of keys.
Weak fairness of what asio and `start_send()` have begun.  `CHECK_DEADLOCK FALSE`: everything is sent and has arrived.

*`PluginManager`.* No unbounded state, so no bound: three plugins with different failures, and meta plugins that contain each other, an empty one, and one with a plugin that has no module.
`CHECK_DEADLOCK FALSE`: the manager is destroyed or hangs.

*`PropertyClient`.* No bound either.  Two servers, so that one can replace the other, of which the second has no `target_speed`.  Requests end (`WF`), each thread gets the mutex in time (`SF(StartLoop)`, `SF(EngineStep)`), because
the loop sleeps 250 ms without it, and the rules send the status ten times a second (`SF(BeginStatus)`).  `CHECK_DEADLOCK FALSE`: the process may have crashed.

*`Robots`.* Times are ages in a unit of the model; `LOST`, `REMOVE`, `PERIOD` are small and in the order of the real ones, `Wait`, the time between two firings of the timer, at most `LOST`.
Ages above `REMOVE` are alike.  Two messages can wait for one run.  `WF(Rules)`: a run ends; `SF(Tick)`, `SF(StartTimed)`: time passes and the timer fires although clients that come and go run the engine in between.
Deadlock is checked.

## 5. The proofs

`BenchmarkProofs` proves, for every value of the constants that satisfies the assumptions of `Benchmark`
(any number of scenarios, tasks, items, any phase lengths, gap and bounds):

| Theorem | States |
|---|---|
| `TypeCorrect` | `Spec => []TypeOK` |
| `Invariance` | `Spec => []IInv`, the inductive invariant |
| `Disclosure` | `Spec => []DisclosedOnlyAfterStart` |
| `Goods` | `Spec => []GoodsMatchScenario` |
| `TimeBound` | `Spec => []TimerBounded` |
| `TimerFresh` | `Spec => FreshTimer` |
| `Fresh` | `Spec => FreshTasks` |
| `Order` | `Spec => PhaseOrder` |
| `Implementation` | `Spec => ImplementsContest` |

The properties are not inductive alone.  `IInv` adds three facts.  `IdsBelowNext`: every id in use or known to a
robot is below `nextId`; without it new tasks could meet old ones.  `RunningIsStarted`: in `exec-running`
the history variable `started` holds; without it a broadcast could fire in a state no one started.
`BreakIsReset`: `prep-timeup` is entered with the timer at 0; without it the automatic start of the execution
could inherit the preparation's time.  `TimerBounded` is split per group of states (`WithinTime`) and proved of `ProcessEvent`
and `Update` as operators before it is used of the actions (`ProcessEventTime`, `UpdateTime`); the refinement rests on
`TargetMoves` and `UpdateMoves`, which say which stage and clock each transition leads to.

`TypeCorrect` comes first and by itself; `Invariance` uses it.  The bounds `MaxPending` and `MaxGenerations` are used nowhere.

`FreshTimer` needs `BreakIsReset` for the step out of the break, and a lemma for `SKIP` (`SkipFresh`): its first event leads to a stopped state, whose exit resets the timer, or changes nothing, as in the break, where the timer is 0.

`ProtobufBridgeProofs` proves, for any number of clients, peers and rounds and any integer in `next_client_id_`:

| Theorem | States |
|---|---|
| `BridgeInvariance` | `Spec => []BridgeInv`, the inductive invariant |
| `OneIdOneClient` | `Spec => []OneToOne` |
| `RosterKept` | `Spec => []Roster` |
| `ServedInvariance` | `Spec => []ServedInv`, the inductive invariant of delivery |
| `BridgeTyped` | `Spec => []TypeOK` |
| `EverybodyServed` | `Spec => []Served` |

`BridgeInv` adds four facts.  `IdsGiven`: every id in use is at most `nextId`, so that a new one is new.
`Registration`: a client is in no map before its connection, and is registered once.  `Retiring`: while a client
is retired it is in no map, and is the only one the engine still knows.  `NobodyMet`: before the rules are
loaded the engine knows nobody.  Two facts came out of the proof.  `Roster` holds of non-negative ids only, because
`handle_server_client_disconnected` takes a negative one for "not found".  And what it says needs `joined`:
the plain equality of facts and map is false for clients that came during start-up.  The steps
are proved in three groups: `TypesStep`, `IdsStep`, `RosterStep`; frame lemmas dispose of the steps that leave the maps alone.

`Served` speaks of moments in which the main thread is idle; a broadcast, however, gives up `map_mutex_` between two clients, and there the asio thread may
take a client away or add one.  `ServedInv` says at every step who has had what:

* `MutexInv`: `Sending` and `Looking` say how far the main thread is; they decide who holds `clips_mutex_` and `map_mutex_`, and the clients that a broadcast still
  has to reach (`todo`) have their facts;
* `SessionInv`: a session that the engine met is registered in both maps and has its fact, a connection under way has been met by nobody, and a session with nothing
  going out has nothing queued;
* `StreamInv`: what a client has been sent and what waits in its queue (`Stream`) is, but for log lines, what is due to it, in order (`InOrder`), and a client that the
  engine met lacks nothing but the round of a broadcast that is on its way to it (`Pending`, `Current`).

Two things about streams carry the argument: a write leaves `Stream` as it is and an error cuts it off, which leaves it in order (`WrittenStream`, `CutOff`), and a
message is appended only if it is due and above all that are there (`MessageMore`).  `Told` and `Gets` take the place of
a filtered sequence, so that no induction is needed.

`RobotsProofs` proves, for any set of robots and any times that satisfy the assumptions of `Robots`, `RosterInvariance` (`Spec => []RosterInv`),
`RosterTypes` and `RosterKept` (`Spec => []RosterFaithful`).  `RosterInv` is the types and three facts: a beacon that waits is no younger than the robot's silence
(`BeaconsDated`); between two runs, whatever waits has come since the timer last fired (`InboxFresh`); and the property.
The dating is what makes it inductive: a beacon carries the time at which it arrived (`communicator.cpp:845`), not that at which a rule takes it, so that it may be written late but never dated late.

`PropertyClientProofs` proves, for any servers and lists of properties, `DeviceInvariance` (`Spec => []DeviceInv`) and `ViewKept` (`Spec => []ViewAgrees`).
`ViewAgrees` says something of moments in which nobody is in the client; `DeviceInv` adds that whoever is inside holds the mutex (`MutexHeld`) and what
each of the half-way points leaves undone (`Half`).

`SenderProofs` proves of `BroadcastPeer`, for any nodes, keys and messages, `PeerInvariance` (`Spec => []PeerInv`), `PeerTypes`, `NothingReplayed` (`Spec => []NoReplay`)
and the refinement `SentInOrder` (`Spec => SendsInOrder`, `OrderedPipe` for each peer).  `ReceiveInv` knows what the receive buffer holds (`BufferKnown`);
`SendInv` relates queue, write in flight and what has left the peer (`Flow`).

Of `StreamClient` it proves, for both ways of reconnecting and any number of messages and failures:

| Theorem | States |
|---|---|
| `ClientInvariance` | `ClientSpec => []FlowInv`, the inductive invariant |
| `NeverForgetsToTry` | `ClientSpec => []ClientInv` |
| `ClientDeliversInOrder` | `ClientSpec => DeliversInOrder`, the refinement of `OrderedPipe` without gaps |

`FlowInv` is the types, `Trying` (the first part of `NeverStranded`) and `OutboundFlow`, which the other two parts and the refinement follow from.  The message before the queue, the `Front`, is
being written, has been, or has failed: there is one write at most, pending or completed (`OneWrite`); what was written is `1, 2, ...` up to the front if its success waits for `handle_write`
and up to the one before otherwise; and while `outbound_active_` is not set nothing is queued or being written, and all that was taken has been written.  This is what makes a failed write final:
it leaves `outbound_active_` set, and with it no later `send()` writes.  Most steps are `Quiet`: they neither start nor finish a write, abort one at most, and have `QuietStep` for a lemma;
the others are `WriteDoneFlow`, `WriteFlow`, `ClickFlow` and `SendFlow`.  What completed operations say (`HasWrite`, `Wrote`, `HasOther`) is carried
through `Append`, `Tail` and concatenation by `AppendOps`, `HeadOps`, `ConcatOps` and `AbortedOps`.

`ThreadManagerProofs` proves, for any threads, lists, failures and workers, and under the one hypothesis `OneCaller` (there is one caller of the manager at a time,
as `PluginManager` ensures with its mutex):

| Theorem | States |
|---|---|
| `ManagerInvariance` | `OneCaller => (Spec => []ManagerInv)`, the inductive invariant |
| `ManagerTypes` | `OneCaller => (Spec => []TypeOK)` |
| `PreparedDoNotLoop` | `OneCaller => (Spec => []PrepareExclusive)` |
| `ListsWhole` | `OneCaller => (Spec => []Settled)` |
| `FinalizedAfterStop` | `OneCaller => (Spec => FinalizedAtRest)` |
| `PromiseKept` | `OneCaller => (Spec => KeepsPromise)`, the refinement of `ThreadCollector` |

`ManagerInv` is the types, `WorkersAgree` (what a worker does fits the flags of its thread), `MutexesAgree` (who asks a thread's user method holds its loop mutex),
`CallsAgree` (how far a call has come with every thread of its list: those before its position are done, those behind are not begun) and `ListsAgree`
(a list whose lock is free is at rest).  Each step of `add()` and `remove()` has a lemma for each part.  `OneCaller` is needed: after a veto the list is unlocked twice, and a second caller
that has locked it in between loses its lock.

`PluginManagerProofs` proves, for any plugins, failures and configuration of meta plugins:

| Theorem | States |
|---|---|
| `PluginInvariance` | `Spec => []PluginInv`, the inductive invariant |
| `LoadExpandsOnce` | `Spec => []ExpandedOnce` |
| `BooksKept` | `Spec => []BooksAgree` |
| `ListenersTold` | `DisjointNames` implies `Spec => []ListenersAgree` |

`PluginInv` is the types, `StackInv` (what is expanded on the stack is in `metas`, which is why nothing is expanded twice) and `BooksInv` (`BooksAgree` at every step),
and `OpenInv`: the loader has what is on the list and what failed starts left behind, which is what `is_loaded()` answers by.
`ListenersInv` adds what the listeners cannot know yet: a meta plugin on the stack has not been announced, and what is missing of its list is still to be loaded.
`DisjointNames`, no meta plugin has the name of a module, is a hypothesis because the property needs it: `load()` drops the exception of a module that fails if its name is that of a
loaded meta plugin (`manager.cpp:341`), so that the meta plugin around it is announced with that module missing.  With disjoint names that branch is
reached only by a meta plugin within itself, for which there is no module.  The configuration of the repository (`src/cfg`) defines no meta plugin at all.

`ThreadWakeupProofs` proves, for any finite list of threads and any number of barriers and wakeups:

| Theorem | States |
|---|---|
| `WakeupInvariance` | `Spec => []WakeupInv`, the inductive invariant |
| `WakeupTyped` | `Spec => []TypeOK` |
| `EverybodyReached` | `Spec => []ReachedAll` |
| `ListReady` | `Spec => []ReadyForNext` |
| `BarriersKept` | `Spec => []BarrierKept` |

A barrier counts; what is claimed is about who came.  `CountInv` relates the two: while a call is under way the counter is the number of parties less the
cardinality of those that have passed (`Here`), who are a subset of the expected.  When it is 0 all of the expected are there, a fact about finite sets
(`AllCame`).  `PlacesInv` says of everybody inside the barrier that he has come and of everybody who is still to come that he is expected and has not;
`AsideInv` and `UsedInv` keep the threads of the barriers put aside apart from those of the list's barrier, so that nobody is counted twice; `SleepInv` says
what a thread that sleeps owes (nothing), `CallInv` that the list's barrier was made for those not flagged, except after somebody has recovered and before `try_recover()` renews it.
`AsideInv` is what survives that `try_recover()` asks thread by thread: that a flagged thread is in some list, and that whoever has still to come to a barrier put aside is flagged and in its list;
not that whoever is in a list is flagged.  A thread that is found asleep owes nothing (`AskStep`), and a barrier goes when its list is empty, hence when nobody has still to come to it (`BarrierDeleted`).
That there is an oldest barrier to begin with is the well-foundedness of `<` on the naturals (`OldestIn`).
That the list is finite is an assumption of the module: a `ThreadList` is.

Every invariant, action property and refinement of the passing runs has a theorem.  Model-checked only is liveness, which is out of the prover's reach: `PhasesEnd`,
`RunsEnd`, `GoneForgotten`, `QueuesDrain`, `CallsEnd`, `RoundsEnd`, `WokenRun`, `Recovers`, `QueueDrains`, `StatusSettles`, `CommandsReturn`, `SilentLeaves`, `NewcomerTold`.

## 6. Disagreements found

`absent_property` is the run that ends in a violation.  `get_property` of a property that is not there leaves a null pointer in `properties_`
(`src/src/libs/property_client/client.cpp:372`), and the next list of properties that names it is processed through that pointer (`:155`).  Its callers
take an absent property for an ordinary case (`conveyor_belt_thread.cpp:85`).  The trace: a command finds the device connected, the connection goes, the command asks for the property,
the device comes back.

Modelling met further places where the code and what the repository says of it disagree, or where the code does what nobody can have meant.
The models keep the code's behaviour, and the properties say what holds in spite of it:

| Where | What the code does | What it shows in the model |
|---|---|---|
| `benchmark.clp:106` | A `SetBenchmarkScenario` and a `RESET` of one run are handled newest first: `RESET` installs the scenario from before, although `BenchmarkState.proto:124` has it "re-initialize the benchmark scenario (e.g. after setting a new benchmark scenario)" and the controller sends both at once (`atwork-controller.cpp:206`, `:210`) | hazard without a property: what `RESET` installs is what was requested when it fires, and no more can be said |
| `benchmark.clp:107` | `RESET` to the same scenario returns to the preparation with the tasks that the robots already hold (`README.md:17`: given "when the timer starts, and not earlier") | hazard without a property |
| `net.clp:81` | A log line is sent to a new client before the version (`doc/manual/llsf-refbox.tex:869`: "as the first message") | `Served` allows it |
| `refbox.cpp:285` | A client that connects between `enable_server` and `(reset)` is never met by the rules | `joined` in `Roster`, `Served` |
| `server.cpp:331` | A session can be erased between the search and the use in `send`, which makes a null session where `:328` has an exception | outcome of `UseSession` that ends the process |
| `communicator.cpp:957` | `handle_server_client_fail` takes `map_mutex_` before `clips_mutex_`, a run of the engine the other way round | `Crossed` in `RunsEnd` |
| `communicator.cpp:852` | Every message of a peer is marked `STREAM`, because the peer's id is not 0: the rules of `net.clp:200` and `:235` that report commands received by broadcast never fire | in `PeerMessage` |
| `client.cpp:318` | After a failed write `outbound_active_` stays set and the queue stays: the next connection takes messages and writes none | `DeliversInOrder` stops at the first lost message; `ClientInv` says no more than that of `active` |
| `atwork-controller.cpp:109` | Read and write of one connection fail separately, each failure starts an attempt, and two attempts abort each other for ever | `Recovers` assumes one attempt |
| `client.cpp` (`send`) | `send()` throws when the connection has gone since the controller asked; nothing catches it | `app = -1` in `SendNext` |
| `peer.cpp:389` | A resolve that fails leaves `outbound_active_` set: the peer never sends | exception in `QueueDrains` |
| `peer.cpp:294`, `:315`, `:453` | Plain text that arrives under a key, and a key that is changed under a receive, hand on the previous message once more | `mixed` in `NoReplay` |
| `peer.cpp` (`start_send`) | An `encrypt()` that throws leaves `outbound_active_` set | not modelled: it throws when OpenSSL fails only |
| `thread_manager.cpp:279` | A veto unlocks the list before it throws, the handler unlocks it again | `UnlockVetoed`; harmless with one caller |
| `thread.cpp:1052`, `:393` | A thread that ends itself in `loop()` keeps the loop mutex; `cancel_finalize` waits for it even of concurrent threads | `HeldUp` in `CallsEnd` |
| `thread.cpp:519` | A failed `pthread_create` leaves list and plugin manager locked | `Abandoned` in `CallsEnd`, `locked` in `BooksAgree` |
| `interruptible_barrier.cpp:285` | The timeout that races the last thread changes `__wait_at_barrier`, which the others read without the mutex: one of them may wait in the POSIX barrier for ever | `Caught` in `WokenRun` |
| `thread_list.cpp:347` | A barrier is deleted when its late threads sleep again, though one that was in time may still be returning from `wait()` | not covered: `BarrierKept` is about who has still to come or to be released |
| `thread_list.cpp:331` | `try_recover` asks for a thread of two bad lists twice, and the thread may fall asleep in between: it is taken back and stays in the first list, whose barrier stays until a later `try_recover` | `ReadyForNext` has only that a flagged thread is in a list; `BarrierKept` holds in spite of it |
| `manager.cpp:239`, `:333` | After a thread could not be created `is_loaded()` answers yes for a plugin that is on no list and that no listener heard of | `HalfLoaded` in `ListenersAgree` |
| `manager.cpp:412` | `unload()` of a meta plugin (`:356`: "can be a meta plugin") calls itself with its own mutex held and hangs | `UnloadMeta` |
| `basic-manipulation-tests.clp:40` | `STOP` of a running execution leads to `FINISHED`, where `BenchmarkState.proto:134` has `STOPPED` | in `Target` |

## 7. What is not modelled

The repository has some 52 000 lines of implementation, and the modules stand for less than a tenth of them.  What is left is, for the larger part, code that has no
protocol to model, that no @Work configuration loads, or both:

* *`src/llsf`, `src/rockin`*: the earlier leagues' rules, shells and visualisations.  Of the shell only its reconnection is modelled.
* *The network library* (`src/src/libs/netcomm`): sockets, Avahi and service classes of Fawkes; all that the program uses of it, the announcement of services, is external to `PropertyClient`.
* *Configuration, utilities, databases, logging*: YAML trees and SQLite, strings, files, argument parsing, MongoDB: sequential code around libraries.
* *PLC communication* (`llsf_sps`): for the Logistics League's machines only.
* *Other classes of the threads library* (read-write locks, reference counts, spin locks, wait conditions): each wraps one POSIX object; `Barrier` is not used by the program, `InterruptibleBarrier` is modelled.
* *Contents of tasks, items and state messages; robots' status reports; attention messages*: data that no modelled rule branches on.
* *Displays*: viewer, controller windows, visualisation tools; command-line senders and examples.
* *Outgoing stream clients of the communicator* (`pb-connect`): no @Work rule uses them.
* *Life cycle of `protobuf-msg` facts and shutdown of the host*: a message is retracted by the rule that reads it or by `protobuf-cleanup-message`, which `Benchmark` and `Robots` have as part of
  their rules; the growth of `msg_facts_` is listed as a hazard.
* *Message register*: two maps filled at start-up and read afterwards.

Within the modelled parts: what `json` throws, the status code of polls, which is not looked at by the code either, and two robots of one address but different names.
Data races are modelled by the outcomes that the source text shows, not by what a compiler may make of them.

`PROJECT.json` lists every part with its state, and every hazard with the property that covers it or the reason why none does.

## 8. What could come next

| Subject | What is open |
|---|---|
| Composition | `Benchmark`, `Robots` and `ProtobufBridge` share the engine's runs; a `Hub` would show commands of a client that leaves |
| Host | message facts, `pb-destroy`, the order of destruction |
| Threads | two callers of `ThreadManager` on one list, for which `Settled` does not hold |

## 9. Running it

In this directory:

    tlc -config MCBenchmark.cfg MCBenchmark
    tlapm BenchmarkProofs.tla

The other runs are the other `.cfg` files with the module their name begins with, the other proofs the other modules `*Proofs.tla`.  The largest run (`bridge`) has about two million
states; none takes more than two minutes.  The proofs of a module take about a minute, those of `ThreadManagerProofs`, `ThreadWakeupProofs` and `ProtobufBridgeProofs` several.
