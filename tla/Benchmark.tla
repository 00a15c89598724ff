------------------------------ MODULE Benchmark ------------------------------
(***************************************************************************)
(* The rule engine of the @Work referee box: the benchmark state machine,  *)
(* its timer, the current and the requested scenario, the tasks and the    *)
(* inventory generated for it, the referee commands that drive them and    *)
(* the broadcasts that disclose tasks and inventory to the robots.         *)
(*                                                                         *)
(* CLIPS runs one rule at a time from an agenda.  Facts are asserted by    *)
(* network threads while no run is in progress (clips_mutex_), and a run   *)
(* starts when the 40 ms timer fires or when a TCP client comes or goes.   *)
(* The agenda follows CLIPS' default conflict resolution, depth: a new     *)
(* activation goes in front of the older ones of its salience.             *)
(***************************************************************************)
EXTENDS Integers, Sequences, FiniteSets

CONSTANTS
    Scenarios,      \* registered scenarios that have a setup and tasks (BNT1, BTT1, ...)
    None,           \* the scenario [NONE]
    Unregistered,   \* scenarios a client may ask for that nobody registered (IRL1)
    TaskCount,      \* how many tasks a scenario's generate handler makes
    ItemCount,      \* how many inventory items it makes
    MaxItems,       \* an inventory of this size is no longer broadcast (23)
    PrepTime,       \* max-time of prep-running, in units of the clock
    ExecTime,       \* max-time of exec-running
    MaxGap,         \* bound: longest time between two updates of the state machine
    MaxPending,     \* bound: commands that arrive between two runs
    MaxGenerations  \* bound: RESET and SHUFFLE commands in a behaviour

Registered == Scenarios \cup {None}

ASSUME ScenarioAssumption ==
    /\ None \notin Scenarios
    /\ Unregistered \cap Registered = {}
ASSUME CountAssumption ==
    /\ TaskCount \in [Registered -> Nat]
    /\ ItemCount \in [Registered -> Nat]
    /\ TaskCount[None] = 0 /\ ItemCount[None] = 0
    /\ MaxItems \in Nat
    /\ \A s \in Registered : ItemCount[s] < MaxItems
ASSUME TimeAssumption ==
    PrepTime \in Nat \ {0} /\ ExecTime \in Nat \ {0} /\ MaxGap \in Nat
ASSUME BoundAssumption == MaxPending \in Nat /\ MaxGenerations \in Nat

-----------------------------------------------------------------------------
(* States of the machine that the scenarios' setup handlers build *)

StoppedStates == {"prep-stopped", "exec-stopped"}
RunningStates == {"prep-running", "exec-running"}
PausedStates  == {"prep-paused", "exec-paused"}
States == {"init", "prep-timeup", "exec-finished"}
            \cup StoppedStates \cup RunningStates \cup PausedStates

\* to-robot-phase: InitState keeps the default of the slot, EXECUTION
Phase(s) == IF s \in {"prep-stopped", "prep-running", "prep-paused", "prep-timeup"}
              THEN "PREPARATION" ELSE "EXECUTION"

\* to-robot-state of the state's class
RobotState(s) == CASE s \in RunningStates    -> "RUNNING"
                   [] s \in PausedStates     -> "PAUSED"
                   [] s = "exec-finished"    -> "FINISHED"
                   [] OTHER                  -> "STOPPED"

MaxTime(s) == IF s = "prep-running" THEN PrepTime ELSE ExecTime

Events == {"RESET", "START", "STOP", "PAUSE", "SKIP", "SHUFFLE"}
Generating == {"RESET", "SHUFFLE"}

Activations ==
    [rule : {"benchmark-update", "net-send-TaskInfo-peer", "net-send-Inventory-peer"},
     arg  : {"time"}]
    \cup [rule : {"net-recv-SetBenchmarkScenario"}, arg : Registered \cup Unregistered]
    \cup [rule : {"net-recv-SetBenchmarkTransitionEvent"}, arg : Events]

VARIABLES
    machine,    \* [state, timer, lag]: current state, BenchmarkTime.timer, now - last-time
    current,    \* current-scenario of [benchmark]
    requested,  \* requested-scenario of [benchmark]
    tasks,      \* ids of the tasks in [task-info]
    nextId,     \* Task.next-id, shared by all instances
    items,      \* number of items in [inventory]
    known,      \* ids of the tasks that have been broadcast to the robots
    stocked,    \* has the present inventory been broadcast to the robots
    agenda,     \* activations, the next to fire first
    running,    \* is a CLIPS run in progress (clips_mutex_ held)
    started,    \* history: exec-running entered since tasks were last generated
    generating  \* history: how many generating commands arrived

vars == <<machine, current, requested, tasks, nextId, items, known, stocked,
          agenda, running, started, generating>>
goods == <<tasks, nextId, items, known, stocked>>

-----------------------------------------------------------------------------
(* The state machine *)

\* Mutant of Target: exec-paused STOP leads back to the preparation
TargetStopBack(s, e) ==
    CASE s \in {"prep-stopped", "prep-paused"} /\ e = "START" -> "prep-running"
      [] s \in {"exec-stopped", "exec-paused", "prep-timeup"} /\ e = "START" -> "exec-running"
      [] s = "exec-running" /\ e = "PAUSE" -> "exec-paused"
      [] s = "exec-paused" /\ e = "STOP" -> "prep-stopped"
      [] s = "prep-running" /\ e \in {"STOP", "TIMEOUT"} -> "exec-stopped"
      [] OTHER -> s
\* The transition table that every scenario's setup handler builds; a pair
\* that has no transition leaves the state alone ("Ignoring event").
Target(s, e) ==
    CASE s \in {"prep-stopped", "prep-paused"} /\ e = "START" -> "prep-running"
      [] s = "prep-running" /\ e = "PAUSE"                    -> "prep-paused"
      [] s \in {"prep-running", "prep-paused"} /\ e = "STOP"  -> "exec-stopped"
      [] s = "prep-running" /\ e = "TIMEOUT"                  -> "prep-timeup"
      [] s \in {"prep-timeup", "exec-stopped", "exec-paused"} /\ e = "START"
                                                              -> "exec-running"
      [] s = "exec-running" /\ e = "PAUSE"                    -> "exec-paused"
      [] s = "exec-running" /\ e \in {"STOP", "TIMEOUT"}      -> "exec-finished"
      [] s = "exec-paused" /\ e = "STOP"                      -> "exec-stopped"
      [] OTHER                                                -> s

\* Mutant of ProcessEvent: StoppedState's on-exit does not reset the timer
ProcessEventKeepsTimer(m, e) ==
    LET s == Target(m.state, e) IN
    IF s = m.state THEN m
    ELSE [state |-> s, timer |-> IF s = "prep-timeup" THEN 0 ELSE m.timer, lag |-> 0]

\* process-event and set-state: on-exit of a StoppedState and on-enter of the
\* TimeoutState set the timer to 0, on-enter of a RunningState sets last-time.
\* last-time is read in a RunningState only, so lag is 0 everywhere else.
ProcessEvent(m, e) ==
    LET s == Target(m.state, e) IN
    IF s = m.state THEN m
    ELSE [state |-> s,
          timer |-> IF m.state \in StoppedStates \/ s = "prep-timeup" THEN 0 ELSE m.timer,
          lag   |-> 0]

\* on-update of a RunningState: the timer is compared as it was before the step
Advance(m) == [state |-> m.state, timer |-> m.timer + m.lag, lag |-> 0]

\* Mutant of Update: at the maximum the clock stops, without an event
UpdateNoEvent(m) ==
    CASE m.state \in RunningStates /\ m.timer >= MaxTime(m.state) -> [m EXCEPT !.lag = 0]
      [] m.state \in RunningStates /\ m.timer < MaxTime(m.state)  -> Advance(m)
      [] m.state = "prep-timeup"        -> ProcessEvent(m, "START")
      [] OTHER                          -> m

\* Mutant of Update: time is up only when the timer is beyond the maximum
UpdateStrict(m) ==
    CASE m.state \in RunningStates /\ m.timer > MaxTime(m.state)
                                        -> ProcessEvent(Advance(m), "TIMEOUT")
      [] m.state \in RunningStates /\ m.timer <= MaxTime(m.state) -> Advance(m)
      [] m.state = "prep-timeup"        -> ProcessEvent(m, "START")
      [] OTHER                          -> m

Update(m) ==
    CASE m.state \in RunningStates /\ m.timer >= MaxTime(m.state)
                                        -> ProcessEvent(Advance(m), "TIMEOUT")
      [] m.state \in RunningStates /\ m.timer < MaxTime(m.state) -> Advance(m)
      [] m.state = "prep-timeup"        -> ProcessEvent(m, "START")
      [] OTHER                          -> m

\* setup makes every state and the machine anew; the timer is not part of it
Setup(scenario) ==
    [state |-> IF scenario = None THEN "init" ELSE "prep-stopped",
     timer |-> machine.timer, lag |-> 0]

SetMachine(m) ==
    /\ machine' = m
    /\ started' = (started \/ m.state = "exec-running")

\* Mutant of Generate: without cleanup the old tasks and items stay
GenerateNoCleanup(scenario) ==
    /\ tasks' = tasks \cup (nextId .. (nextId + TaskCount[scenario] - 1))
    /\ nextId' = nextId + TaskCount[scenario]
    /\ items' = items + ItemCount[scenario]
    /\ stocked' = FALSE
    /\ UNCHANGED known

\* cleanup followed by the scenario's generate handler
Generate(scenario) ==
    /\ tasks' = nextId .. (nextId + TaskCount[scenario] - 1)
    /\ nextId' = nextId + TaskCount[scenario]
    /\ items' = ItemCount[scenario]
    /\ stocked' = FALSE
    /\ UNCHANGED known

-----------------------------------------------------------------------------
(* A run: one rule after the other *)

Fires(rule) ==
    /\ running /\ agenda # <<>> /\ Head(agenda).rule = rule
    /\ agenda' = Tail(agenda)
    /\ UNCHANGED <<running, generating>>

Command(event) ==
    Fires("net-recv-SetBenchmarkTransitionEvent") /\ Head(agenda).arg = event

BenchmarkUpdate ==
    /\ Fires("benchmark-update")
    /\ SetMachine(Update(machine))
    /\ UNCHANGED <<current, requested, goods>>

\* request-scenario: a scenario that is not registered is only reported
RequestScenario ==
    /\ Fires("net-recv-SetBenchmarkScenario")
    /\ requested' = IF Head(agenda).arg \in Registered THEN Head(agenda).arg ELSE requested
    /\ UNCHANGED <<machine, current, goods, started>>

\* RESET: switch-scenario generates only when the scenario changes
Reset ==
    /\ Command("RESET")
    /\ current' = requested
    /\ machine' = Setup(requested)
    /\ \/ current # requested /\ Generate(requested) /\ started' = FALSE
       \/ current = requested /\ UNCHANGED <<goods, started>>
    /\ UNCHANGED requested

Shuffle ==
    /\ Command("SHUFFLE")
    /\ Generate(current)
    /\ started' = (machine.state = "exec-running")
    /\ UNCHANGED <<machine, current, requested>>

Skip ==
    /\ Command("SKIP")
    /\ SetMachine(ProcessEvent(ProcessEvent(machine, "STOP"), "START"))
    /\ UNCHANGED <<current, requested, goods>>

Transition(event) ==
    /\ Command(event)
    /\ SetMachine(ProcessEvent(machine, event))
    /\ UNCHANGED <<current, requested, goods>>

\* Mutants of Disclosing: the phase, or the state, is not asked for
DisclosingInAnyPhase == RobotState(machine.state) = "RUNNING"
DisclosingInAnyState == Phase(machine.state) = "EXECUTION"

\* Robots get the tasks and the inventory while the EXECUTION timer runs
Disclosing ==
    RobotState(machine.state) = "RUNNING" /\ Phase(machine.state) = "EXECUTION"

SendTaskInfo ==
    /\ Fires("net-send-TaskInfo-peer")
    /\ known' = IF Disclosing THEN known \cup tasks ELSE known
    /\ UNCHANGED <<machine, current, requested, tasks, nextId, items, stocked, started>>

SendInventory ==
    /\ Fires("net-send-Inventory-peer")
    /\ stocked' = (stocked \/ (Disclosing /\ items < MaxItems))
    /\ UNCHANGED <<machine, current, requested, tasks, nextId, items, known, started>>

RunEnds ==
    /\ running /\ agenda = <<>>
    /\ running' = FALSE
    /\ UNCHANGED <<machine, current, requested, goods, agenda, started, generating>>

Fire ==
    \/ BenchmarkUpdate \/ RequestScenario \/ Reset \/ Shuffle \/ Skip
    \/ \E e \in {"START", "STOP", "PAUSE"} : Transition(e)
    \/ SendTaskInfo \/ SendInventory \/ RunEnds

-----------------------------------------------------------------------------
(* What happens between two runs *)

TimeRules(due) == [rule : due \cup {"benchmark-update"}, arg : {"time"}]

\* handle_timer asserts (time ...): benchmark-update is activated and so are the
\* periodic broadcasts whose period is over, in an order CLIPS does not promise
Orders(S) == {p \in [1 .. Cardinality(S) -> S] : \A r \in S : \E i \in DOMAIN p : p[i] = r}

Tick ==
    /\ ~running
    /\ \E due \in SUBSET {"net-send-TaskInfo-peer", "net-send-Inventory-peer"} :
       \E order \in Orders(TimeRules(due)) : agenda' = order \o agenda
    /\ running' = TRUE
    /\ UNCHANGED <<machine, current, requested, goods, started, generating>>

\* A TCP client connects or disconnects: its handler runs CLIPS at once
ServerRun ==
    /\ ~running
    /\ running' = TRUE
    /\ UNCHANGED <<machine, current, requested, goods, agenda, started, generating>>

Receive(activation) ==
    /\ ~running /\ Len(agenda) < MaxPending
    /\ activation.arg \in Generating => generating < MaxGenerations
    /\ agenda' = <<activation>> \o agenda
    /\ generating' = IF activation.arg \in Generating THEN generating + 1 ELSE generating
    /\ UNCHANGED <<machine, current, requested, goods, running, started>>

\* A referee's client sends SetBenchmarkScenario or SetBenchmarkTransitionEvent
ReceiveScenario ==
    \E s \in Registered \cup Unregistered :
        Receive([rule |-> "net-recv-SetBenchmarkScenario", arg |-> s])
ReceiveEvent ==
    \E e \in Events :
        Receive([rule |-> "net-recv-SetBenchmarkTransitionEvent", arg |-> e])

\* Time goes by; the timer thread keeps the gap between two updates bounded
Pass ==
    /\ ~running /\ machine.state \in RunningStates /\ machine.lag < MaxGap
    /\ machine' = [machine EXCEPT !.lag = @ + 1]
    /\ UNCHANGED <<current, requested, goods, agenda, running, started, generating>>

-----------------------------------------------------------------------------

\* After the run that start_clips makes: init-benchmark has switched to [NONE]
\* and the dummy task holds id 0
Init ==
    /\ machine = [state |-> "init", timer |-> 0, lag |-> 0]
    /\ current = None /\ requested = None
    /\ tasks = {} /\ nextId = 1 /\ items = 0
    /\ known = {} /\ stocked = FALSE
    /\ agenda = <<>> /\ running = FALSE
    /\ started = FALSE /\ generating = 0

Next == Fire \/ Tick \/ ServerRun \/ ReceiveScenario \/ ReceiveEvent \/ Pass

Spec == Init /\ [][Next]_vars

\* A run ends once begun; time passes; the timer is not starved of the mutex
FairSpec == Spec /\ WF_vars(Fire) /\ SF_vars(Pass) /\ SF_vars(Tick)

-----------------------------------------------------------------------------
(* Properties *)

TypeOK ==
    /\ machine \in [state : States, timer : Nat, lag : 0 .. MaxGap]
    /\ current \in Registered /\ requested \in Registered
    /\ tasks \subseteq Nat /\ nextId \in Nat /\ items \in Nat
    /\ known \subseteq Nat
    /\ agenda \in Seq(Activations)
    /\ stocked \in BOOLEAN /\ running \in BOOLEAN
    /\ started \in BOOLEAN /\ generating \in Nat

\* No robot holds a task or the inventory of the present generation before the
\* EXECUTION timer has run for it (net-send-TaskInfo-peer, net-send-Inventory-peer
\* against cleanup and generate).
DisclosedOnlyAfterStart == known \cap tasks # {} \/ stocked => started

\* The task list and the inventory are those the current scenario generates:
\* neither leftovers of an earlier generation nor a scenario without its tasks.
GoodsMatchScenario ==
    Cardinality(tasks) = TaskCount[current] /\ items = ItemCount[current]

\* The timer of a benchmark that runs or is paused exceeds its maximum by less
\* than one gap, and the final time by less than two: RunningState's on-update
\* compares the value from before the step.
WithinTime(m) ==
    /\ m.state \in {"prep-running", "prep-paused"} => m.timer < PrepTime + MaxGap
    /\ m.state \in {"exec-running", "exec-paused"} => m.timer < ExecTime + MaxGap
    /\ m.state = "exec-finished" => m.timer < ExecTime + 2 * MaxGap
TimerBounded == WithinTime(machine)

\* Whatever leads into a running phase, the update after the preparation and SKIP
\* out of the other phase included, its timer starts at 0; only START after a pause
\* goes on with the time of the pause (StoppedState's on-exit, TimeoutState's on-enter).
Resumes == /\ machine.state \in PausedStates
           /\ Phase(machine.state) = Phase(machine'.state) /\ Command("START")
FreshTimer ==
    [][ machine'.state \in RunningStates /\ machine'.state # machine.state
            => machine'.timer = IF Resumes THEN machine.timer ELSE 0 ]_vars

\* Newly generated tasks were never shown to a robot, whatever was generated,
\* broadcast and thrown away before (Task.next-id survives cleanup).
FreshTasks == [][ tasks' # tasks => tasks' \cap known' = {} ]_vars

\* A benchmark does not go back from EXECUTION to PREPARATION but by RESET.
PhaseOrder ==
    [][ Phase(machine.state) = "EXECUTION" /\ Phase(machine'.state) = "PREPARATION"
            => Command("RESET") ]_vars

\* A phase that runs comes to an end, is interrupted or is paused, and so does the
\* break between the phases, whether or not a command comes: the update of every
\* tick brings TIMEOUT in the end (state-machine.clp, on-update).
PhasesEnd ==
    \A s \in {"prep-running", "prep-timeup", "exec-running"} :
        machine.state = s ~> machine.state # s

\* What makes the three invariants above inductive: ids are handed out below
\* nextId, exec-running is only entered with started set, and the break after the
\* preparation is entered with the timer at 0.
IdsBelowNext == tasks \cup known \subseteq 0 .. (nextId - 1)
RunningIsStarted == machine.state = "exec-running" => started
BreakIsReset == machine.state = "prep-timeup" => machine.timer = 0

IInv == /\ TypeOK
        /\ IdsBelowNext /\ RunningIsStarted /\ BreakIsReset
        /\ DisclosedOnlyAfterStart /\ GoodsMatchScenario /\ TimerBounded

-----------------------------------------------------------------------------
(* The rule engine implements what Contest promises the referees *)

Stage(s) == CASE s = "init"                -> "idle"
              [] Phase(s) = "PREPARATION"  -> "preparation"
              [] s = "exec-finished"       -> "over"
              [] OTHER                     -> "execution"
Clock(s) == CASE s \in RunningStates -> "running"
              [] s \in PausedStates  -> "paused"
              [] OTHER               -> "stopped"

C == INSTANCE Contest WITH
        Task  <- Nat,
        stage <- Stage(machine.state), clock <- Clock(machine.state),
        offer <- tasks, shown <- known

\* Every step of the rule engine is a step of Contest or leaves what a referee
\* and the robots see alone.
ImplementsContest == C!CSpec

=============================================================================
