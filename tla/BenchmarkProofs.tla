--------------------------- MODULE BenchmarkProofs ---------------------------
(* Machine-checked proofs about Benchmark, for every scenario set, time limit *)
(* and bound.                                                                 *)
EXTENDS Benchmark, FiniteSetTheorems, SequenceTheorems, TLAPS

\* The state machine stays in its states and its clocks stay numbers, whatever
\* event it is given.
LEMMA ProcessEventType ==
    ASSUME NEW m \in [state : States, timer : Nat, lag : 0 .. MaxGap], NEW e
    PROVE  /\ ProcessEvent(m, e) \in [state : States, timer : Nat, lag : 0 .. MaxGap]
           /\ ProcessEvent(m, e).state = Target(m.state, e)
<1>1. Target(m.state, e) \in States
  BY DEF Target, States, StoppedStates, RunningStates, PausedStates
<1> QED BY <1>1, TimeAssumption DEF ProcessEvent

LEMMA UpdateType ==
    ASSUME NEW m \in [state : States, timer : Nat, lag : 0 .. MaxGap]
    PROVE  Update(m) \in [state : States, timer : Nat, lag : 0 .. MaxGap]
<1>1. Advance(m) \in [state : States, timer : Nat, lag : 0 .. MaxGap]
  BY TimeAssumption DEF Advance
<1>2. /\ ProcessEvent(Advance(m), "TIMEOUT") \in [state : States, timer : Nat, lag : 0 .. MaxGap]
      /\ ProcessEvent(m, "START") \in [state : States, timer : Nat, lag : 0 .. MaxGap]
  BY <1>1, ProcessEventType
<1> QED BY <1>1, <1>2 DEF Update

\* What a rule takes from the agenda leaves an agenda.
LEMMA AgendaType ==
    ASSUME TypeOK, agenda # <<>>
    PROVE  Head(agenda) \in Activations /\ Tail(agenda) \in Seq(Activations)
BY DEF TypeOK

\* The rules that a tick activates, in any order, are a sequence of activations.
LEMMA OrdersType ==
    ASSUME NEW due \in SUBSET {"net-send-TaskInfo-peer", "net-send-Inventory-peer"},
           NEW order \in Orders(TimeRules(due))
    PROVE  order \in Seq(Activations)
<1> DEFINE Act(r) == [rule |-> r, arg |-> "time"]
<1>1. IsFiniteSet({Act("benchmark-update"), Act("net-send-TaskInfo-peer"),
                   Act("net-send-Inventory-peer")})
  <2> DEFINE A == {} \cup {Act("benchmark-update")}
             B == A \cup {Act("net-send-TaskInfo-peer")}
             D == B \cup {Act("net-send-Inventory-peer")}
  <2>1. IsFiniteSet(A)
    BY FS_EmptySet, FS_AddElement
  <2>2. IsFiniteSet(B)
    BY <2>1, FS_AddElement
  <2>3. IsFiniteSet(D)
    BY <2>2, FS_AddElement
  <2>4. D = {Act("benchmark-update"), Act("net-send-TaskInfo-peer"),
             Act("net-send-Inventory-peer")}
    OBVIOUS
  <2> QED BY <2>3, <2>4
<1>2. TimeRules(due) \subseteq {Act("benchmark-update"), Act("net-send-TaskInfo-peer"),
                               Act("net-send-Inventory-peer")}
  <2> SUFFICES ASSUME NEW a \in TimeRules(due)
               PROVE  a \in {Act("benchmark-update"), Act("net-send-TaskInfo-peer"),
                             Act("net-send-Inventory-peer")}
    OBVIOUS
  <2>1. /\ a = Act(a.rule)
        /\ a.rule \in {"benchmark-update", "net-send-TaskInfo-peer", "net-send-Inventory-peer"}
    BY DEF TimeRules
  <2> QED BY <2>1
<1>3. IsFiniteSet(TimeRules(due))
  BY <1>1, <1>2, FS_Subset
<1>4. Cardinality(TimeRules(due)) \in Nat
  BY <1>3, FS_CardinalityType
<1>5. order \in [1 .. Cardinality(TimeRules(due)) -> Activations]
  BY <1>2 DEF Orders, Activations, TimeRules
<1> QED BY <1>4, <1>5, SeqDef

\* cleanup and generate keep the types.
LEMMA GenerateType ==
    ASSUME TypeOK, NEW s \in Registered, Generate(s)
    PROVE  /\ tasks' \subseteq Nat /\ nextId' \in Nat /\ items' \in Nat
           /\ known' \subseteq Nat /\ stocked' \in BOOLEAN
<1>1. TaskCount[s] \in Nat /\ ItemCount[s] \in Nat
  BY CountAssumption
<1>2. tasks' \subseteq Nat /\ nextId' \in Nat /\ items' \in Nat /\ known' \subseteq Nat
  BY <1>1 DEF TypeOK, Generate
<1>3. stocked' \in BOOLEAN
  BY DEF Generate
<1> QED BY <1>2, <1>3

\* The state after start_clips has the types.
LEMMA InitType == Init => TypeOK
  <1> SUFFICES ASSUME Init PROVE TypeOK
  OBVIOUS
<1>1. machine \in [state : States, timer : Nat, lag : 0 .. MaxGap]
  BY TimeAssumption DEF Init, States
<1>2. /\ current \in Registered /\ requested \in Registered
      /\ tasks \subseteq Nat /\ nextId \in Nat /\ items \in Nat /\ known \subseteq Nat
      /\ agenda \in Seq(Activations) /\ generating \in Nat
  BY DEF Init, Registered
<1>3. /\ stocked \in BOOLEAN /\ running \in BOOLEAN
      /\ started \in BOOLEAN
  BY DEF Init
<1> QED BY <1>1, <1>2, <1>3 DEF TypeOK

\* Every step keeps the types.
LEMMA TypeStep == TypeOK /\ [Next]_vars => TypeOK'
<1> SUFFICES ASSUME TypeOK, [Next]_vars PROVE TypeOK'
  OBVIOUS
<1>1. CASE BenchmarkUpdate
  BY <1>1, UpdateType, AgendaType
  DEF BenchmarkUpdate, Fires, SetMachine, goods, TypeOK
<1>2. CASE RequestScenario
  BY <1>2, AgendaType DEF RequestScenario, Fires, goods, TypeOK
<1>3. CASE Reset
  <2>1. Setup(requested) \in [state : States, timer : Nat, lag : 0 .. MaxGap]
    BY TimeAssumption DEF Setup, TypeOK, States, StoppedStates
  <2>2. agenda' \in Seq(Activations)
    BY <1>3, AgendaType DEF Reset, Command, Fires
  <2>3. CASE Generate(requested) /\ started' = FALSE
    BY <1>3, <2>1, <2>2, <2>3, GenerateType DEF Reset, Command, Fires, TypeOK
  <2>4. CASE UNCHANGED <<goods, started>>
    BY <1>3, <2>1, <2>2, <2>4 DEF Reset, Command, Fires, goods, TypeOK
  <2> QED BY <1>3, <2>3, <2>4 DEF Reset
<1>4. CASE Shuffle
  <2>1. Generate(current) /\ current \in Registered
    BY <1>4 DEF Shuffle, TypeOK
  <2>2. agenda' \in Seq(Activations)
    BY <1>4, AgendaType DEF Shuffle, Command, Fires
  <2> QED BY <1>4, <2>1, <2>2, GenerateType DEF Shuffle, Command, Fires, TypeOK
<1>5. CASE Skip
  <2>1. ProcessEvent(ProcessEvent(machine, "STOP"), "START")
          \in [state : States, timer : Nat, lag : 0 .. MaxGap]
    BY ProcessEventType DEF TypeOK
  <2> QED BY <1>5, <2>1, AgendaType
      DEF Skip, Command, Fires, SetMachine, goods, TypeOK
<1>6. ASSUME NEW e \in {"START", "STOP", "PAUSE"}, Transition(e) PROVE TypeOK'
  <2>1. ProcessEvent(machine, e) \in [state : States, timer : Nat, lag : 0 .. MaxGap]
    BY ProcessEventType DEF TypeOK
  <2> QED BY <1>6, <2>1, AgendaType
      DEF Transition, Command, Fires, SetMachine, goods, TypeOK
<1>7. CASE SendTaskInfo
  BY <1>7, AgendaType DEF SendTaskInfo, Fires, TypeOK
<1>8. CASE SendInventory
  BY <1>8, AgendaType DEF SendInventory, Fires, TypeOK
<1>9. CASE RunEnds
  BY <1>9 DEF RunEnds, goods, TypeOK
<1>10. CASE Tick
  <2>1. PICK due \in SUBSET {"net-send-TaskInfo-peer", "net-send-Inventory-peer"} :
           \E order \in Orders(TimeRules(due)) : agenda' = order \o agenda
    BY <1>10 DEF Tick
  <2>2. PICK order \in Orders(TimeRules(due)) : agenda' = order \o agenda
    BY <2>1
  <2>3. order \in Seq(Activations)
    BY <2>1, OrdersType
  <2>4. agenda' \in Seq(Activations)
    BY <2>2, <2>3 DEF TypeOK
  <2> QED BY <1>10, <2>4 DEF Tick, goods, TypeOK
<1>11. CASE ServerRun
  BY <1>11 DEF ServerRun, goods, TypeOK
<1>12. ASSUME NEW a \in Activations, Receive(a) PROVE TypeOK'
  <2>1. <<a>> \o agenda \in Seq(Activations)
    BY DEF TypeOK
  <2> QED BY <1>12, <2>1 DEF Receive, goods, TypeOK
<1>13. CASE ReceiveScenario
  BY <1>12, <1>13 DEF ReceiveScenario, Activations
<1>14. CASE ReceiveEvent
  BY <1>12, <1>14 DEF ReceiveEvent, Activations
<1>15. CASE Pass
  BY <1>15, TimeAssumption DEF Pass, goods, TypeOK
<1>16. CASE UNCHANGED vars
  BY <1>16 DEF vars, goods, TypeOK
<1> QED
  BY <1>1, <1>2, <1>3, <1>4, <1>5, <1>6, <1>7, <1>8, <1>9, <1>10, <1>11, <1>13,
     <1>14, <1>15, <1>16 DEF Next, Fire

\* THEOREM: machine, scenarios, goods and agenda have their types in every
\* reachable state.
THEOREM TypeCorrect == Spec => []TypeOK
<1>1. Init => TypeOK
  BY InitType
<1>2. TypeOK /\ [Next]_vars => TypeOK'
  BY TypeStep
<1> QED BY <1>1, <1>2, PTL DEF Spec

-----------------------------------------------------------------------------
(* The timer *)

Machines == [state : States, timer : Nat, lag : 0 .. MaxGap]
TimeOK(m) == WithinTime(m) /\ (m.state = "prep-timeup" => m.timer = 0)

\* No event takes the timer beyond its bound: a timer that starts has been reset.
LEMMA ProcessEventTime ==
    ASSUME NEW m \in Machines, TimeOK(m), NEW e
    PROVE  TimeOK(ProcessEvent(m, e))
<1> DEFINE n == ProcessEvent(m, e)
<1>1. CASE Target(m.state, e) = m.state
  BY <1>1 DEF ProcessEvent
<1>2. CASE Target(m.state, e) # m.state
  <2>1. n.state = Target(m.state, e) /\ n.timer \in {0, m.timer}
    BY <1>2 DEF ProcessEvent
  <2>2. /\ m.timer \in Nat
        /\ n.state = "prep-running" =>
              n.timer = 0 \/ (m.state = "prep-paused" /\ n.timer = m.timer)
        /\ n.state = "prep-paused" => m.state = "prep-running"
        /\ n.state = "prep-timeup" => n.timer = 0
        /\ n.state = "exec-running" =>
              n.timer = 0 \/ (m.state = "exec-paused" /\ n.timer = m.timer)
        /\ n.state \in {"exec-paused", "exec-finished"} => m.state = "exec-running"
    BY <1>2 DEF ProcessEvent, Target, StoppedStates, TimeOK, Machines
  <2> QED BY <2>1, <2>2, TimeAssumption DEF TimeOK, WithinTime
<1> QED BY <1>1, <1>2

\* The update of a tick: below the maximum the timer gains at most one gap, at
\* the maximum it gains one more and the machine leaves the state.
LEMMA UpdateTime ==
    ASSUME NEW m \in Machines, TimeOK(m)
    PROVE  TimeOK(Update(m))
<1> DEFINE a == Advance(m)
<1>1. /\ a.state = m.state /\ a.timer = m.timer + m.lag
      /\ a.timer \in Nat /\ a.timer <= m.timer + MaxGap
  BY TimeAssumption DEF Advance, Machines
<1>2. CASE m.state \in RunningStates /\ m.timer >= MaxTime(m.state)
  <2>1. Update(m) = ProcessEvent(a, "TIMEOUT")
    BY <1>2, TimeAssumption DEF Update, Machines, MaxTime, RunningStates
  <2>2. CASE m.state = "prep-running"
    <3>1. Update(m).state = "prep-timeup" /\ Update(m).timer = 0
      BY <2>1, <2>2, <1>1 DEF ProcessEvent, Target
    <3> QED BY <3>1 DEF TimeOK, WithinTime
  <2>3. CASE m.state = "exec-running"
    <3>1. Update(m).state = "exec-finished" /\ Update(m).timer = a.timer
      BY <2>1, <2>3, <1>1 DEF ProcessEvent, Target, StoppedStates
    <3> QED BY <3>1, <2>3, <1>1, TimeAssumption DEF TimeOK, WithinTime, Machines
  <2> QED BY <1>2, <2>2, <2>3 DEF RunningStates
<1>3. CASE m.state \in RunningStates /\ m.timer < MaxTime(m.state)
  <2>1. Update(m) = a
    BY <1>3, TimeAssumption DEF Update, Machines, MaxTime, RunningStates
  <2> QED BY <2>1, <1>1, <1>3, TimeAssumption
      DEF TimeOK, WithinTime, MaxTime, RunningStates, Machines
<1>4. CASE m.state = "prep-timeup"
  BY <1>4, ProcessEventTime DEF Update, RunningStates
<1>5. CASE m.state \notin RunningStates /\ m.state # "prep-timeup"
  BY <1>5 DEF Update
<1> QED BY <1>2, <1>3, <1>4, <1>5, TimeAssumption DEF MaxTime, Machines, RunningStates

\* Every step keeps the bounds of the timer.
LEMMA TimeStep == TypeOK /\ TimeOK(machine) /\ [Next]_vars => TimeOK(machine)'
<1> SUFFICES ASSUME TypeOK, TimeOK(machine), [Next]_vars PROVE TimeOK(machine')
  BY DEF TimeOK, WithinTime
<1>0. machine \in Machines
  BY DEF TypeOK, Machines
<1>1. CASE BenchmarkUpdate
  BY <1>0, <1>1, UpdateTime DEF BenchmarkUpdate, SetMachine
<1>2. CASE Reset
  <2>1. machine'.state \in {"init", "prep-stopped"}
    BY <1>2 DEF Reset, Setup
  <2> QED BY <2>1 DEF TimeOK, WithinTime
<1>3. CASE Skip
  <2>1. ProcessEvent(machine, "STOP") \in Machines
    BY <1>0, ProcessEventType DEF Machines
  <2>2. TimeOK(ProcessEvent(ProcessEvent(machine, "STOP"), "START"))
    BY <1>0, <2>1, ProcessEventTime
  <2> QED BY <1>3, <2>2 DEF Skip, SetMachine
<1>4. ASSUME NEW e \in {"START", "STOP", "PAUSE"}, Transition(e) PROVE TimeOK(machine')
  BY <1>0, <1>4, ProcessEventTime DEF Transition, SetMachine
<1>5. CASE Pass
  <2>1. machine'.state = machine.state /\ machine'.timer = machine.timer
    BY <1>5 DEF Pass, TypeOK
  <2> QED BY <2>1 DEF TimeOK, WithinTime
<1>6. ASSUME machine' = machine PROVE TimeOK(machine')
  BY <1>6
<1> QED
  BY <1>1, <1>2, <1>3, <1>4, <1>5, <1>6
  DEF Next, Fire, RequestScenario, Shuffle, SendTaskInfo, SendInventory, RunEnds, Tick,
      ServerRun, ReceiveScenario, ReceiveEvent, Receive, vars

-----------------------------------------------------------------------------
(* Tasks and inventory *)

GoodsOK == /\ IdsBelowNext /\ RunningIsStarted
           /\ DisclosedOnlyAfterStart /\ GoodsMatchScenario

\* Generated tasks are as many as the scenario asks for and have ids that no
\* robot has seen.
LEMMA GenerateGoods ==
    ASSUME TypeOK, IdsBelowNext, NEW s \in Registered, Generate(s)
    PROVE  /\ IdsBelowNext'
           /\ Cardinality(tasks') = TaskCount[s] /\ items' = ItemCount[s]
           /\ known' \cap tasks' = {} /\ stocked' = FALSE
<1> DEFINE n == TaskCount[s]
<1>1. n \in Nat /\ nextId \in Nat
  BY CountAssumption DEF TypeOK
<1>2. /\ tasks' = nextId .. (nextId + n - 1) /\ nextId' = nextId + n
      /\ known' = known /\ items' = ItemCount[s] /\ stocked' = FALSE
  BY DEF Generate
<1>3. known \subseteq 0 .. (nextId - 1)
  BY DEF IdsBelowNext
<1> HIDE DEF n
<1>4. tasks' \cup known' \subseteq 0 .. (nextId' - 1) /\ known' \cap tasks' = {}
  <2>1. \A t \in tasks' : t \in Int /\ nextId <= t /\ t <= nextId + n - 1
    BY <1>1, <1>2
  <2>2. \A k \in known' : k \in Int /\ 0 <= k /\ k <= nextId - 1
    BY <1>1, <1>2, <1>3
  <2>3. nextId' = nextId + n
    BY <1>2
  <2> QED BY <1>1, <2>1, <2>2, <2>3
<1>5. Cardinality(tasks') = n
  <2>1. Cardinality(nextId .. (nextId + n - 1)) =
          IF nextId > nextId + n - 1 THEN 0 ELSE (nextId + n - 1) - nextId + 1
    <3>1. nextId \in Int /\ nextId + n - 1 \in Int
      BY <1>1
    <3> QED BY <3>1, FS_Interval
  <2> QED BY <1>1, <1>2, <2>1
<1> QED BY <1>2, <1>4, <1>5 DEF IdsBelowNext, n

\* A machine that enters exec-running sets started, and nothing unsets it.
LEMMA SetMachineStarted ==
    ASSUME NEW m, SetMachine(m)
    PROVE  RunningIsStarted' /\ (started => started')
BY DEF SetMachine, RunningIsStarted

\* Every step keeps tasks, inventory and what was disclosed of them in order.
LEMMA GoodsStep == TypeOK /\ GoodsOK /\ [Next]_vars => GoodsOK'
<1> SUFFICES ASSUME TypeOK, GoodsOK, [Next]_vars PROVE GoodsOK'
  OBVIOUS
<1>1. ASSUME NEW m, SetMachine(m), UNCHANGED <<current, requested, goods>>
      PROVE  GoodsOK'
  <2>1. RunningIsStarted' /\ (started => started')
    BY <1>1, SetMachineStarted
  <2>2. DisclosedOnlyAfterStart'
    BY <1>1, <2>1 DEF GoodsOK, DisclosedOnlyAfterStart, goods
  <2>3. IdsBelowNext' /\ GoodsMatchScenario'
    BY <1>1 DEF GoodsOK, IdsBelowNext, GoodsMatchScenario, goods
  <2> QED BY <2>1, <2>2, <2>3 DEF GoodsOK
<1>2. CASE BenchmarkUpdate \/ Skip \/ \E e \in {"START", "STOP", "PAUSE"} : Transition(e)
  BY <1>1, <1>2 DEF BenchmarkUpdate, Skip, Transition
<1>3. CASE Reset
  <2>1. machine'.state # "exec-running" /\ requested \in Registered /\ current' = requested
    BY <1>3 DEF Reset, Setup, TypeOK
  <2>2. RunningIsStarted'
    BY <2>1 DEF RunningIsStarted
  <2>3. CASE Generate(requested) /\ started' = FALSE
    <3>1. /\ IdsBelowNext' /\ known' \cap tasks' = {} /\ stocked' = FALSE
          /\ Cardinality(tasks') = TaskCount[requested] /\ items' = ItemCount[requested]
      BY <2>1, <2>3, GenerateGoods DEF GoodsOK
    <3>2. DisclosedOnlyAfterStart'
      BY <3>1 DEF DisclosedOnlyAfterStart
    <3>3. GoodsMatchScenario'
      BY <2>1, <3>1 DEF GoodsMatchScenario
    <3> QED BY <2>2, <3>1, <3>2, <3>3 DEF GoodsOK
  <2>4. CASE current = requested /\ UNCHANGED <<goods, started>>
    <3>1. IdsBelowNext' /\ GoodsMatchScenario'
      BY <2>1, <2>4 DEF GoodsOK, IdsBelowNext, GoodsMatchScenario, goods
    <3>2. DisclosedOnlyAfterStart'
      BY <2>4 DEF GoodsOK, DisclosedOnlyAfterStart, goods
    <3> QED BY <2>2, <3>1, <3>2 DEF GoodsOK
  <2> QED BY <1>3, <2>3, <2>4 DEF Reset
<1>4. CASE Shuffle
  <2>1. /\ Generate(current) /\ current \in Registered /\ current' = current
        /\ machine' = machine /\ started' = (machine.state = "exec-running")
    BY <1>4 DEF Shuffle, TypeOK
  <2>2. /\ IdsBelowNext' /\ known' \cap tasks' = {} /\ stocked' = FALSE
        /\ Cardinality(tasks') = TaskCount[current] /\ items' = ItemCount[current]
    BY <2>1, GenerateGoods DEF GoodsOK
  <2>3. RunningIsStarted'
    BY <2>1 DEF RunningIsStarted
  <2>4. DisclosedOnlyAfterStart'
    BY <2>2 DEF DisclosedOnlyAfterStart
  <2>5. GoodsMatchScenario'
    BY <2>1, <2>2 DEF GoodsMatchScenario
  <2> QED BY <2>2, <2>3, <2>4, <2>5 DEF GoodsOK
<1>5. Disclosing => started
  BY DEF Disclosing, RobotState, Phase, RunningStates, PausedStates, GoodsOK, RunningIsStarted
<1>6. CASE SendTaskInfo
  <2>1. /\ machine' = machine /\ started' = started /\ current' = current
        /\ tasks' = tasks /\ nextId' = nextId /\ items' = items /\ stocked' = stocked
        /\ known' = IF Disclosing THEN known \cup tasks ELSE known
    BY <1>6 DEF SendTaskInfo
  <2>2. IdsBelowNext' /\ GoodsMatchScenario' /\ RunningIsStarted'
    BY <2>1 DEF GoodsOK, IdsBelowNext, GoodsMatchScenario, RunningIsStarted
  <2>3. DisclosedOnlyAfterStart'
    BY <1>5, <2>1 DEF GoodsOK, DisclosedOnlyAfterStart
  <2> QED BY <2>2, <2>3 DEF GoodsOK
<1>7. CASE SendInventory
  <2>1. /\ machine' = machine /\ started' = started /\ current' = current
        /\ tasks' = tasks /\ nextId' = nextId /\ items' = items /\ known' = known
        /\ stocked' => stocked \/ Disclosing
    BY <1>7 DEF SendInventory
  <2>2. IdsBelowNext' /\ GoodsMatchScenario' /\ RunningIsStarted'
    BY <2>1 DEF GoodsOK, IdsBelowNext, GoodsMatchScenario, RunningIsStarted
  <2>3. DisclosedOnlyAfterStart'
    BY <1>5, <2>1 DEF GoodsOK, DisclosedOnlyAfterStart
  <2> QED BY <2>2, <2>3 DEF GoodsOK
<1>8. CASE UNCHANGED <<current, goods, started>> /\ machine'.state = machine.state
  BY <1>8 DEF GoodsOK, IdsBelowNext, GoodsMatchScenario, RunningIsStarted,
              DisclosedOnlyAfterStart, goods
<1>9. CASE Pass
  <2>1. machine'.state = machine.state
    BY <1>9 DEF Pass, TypeOK
  <2> QED BY <1>8, <1>9, <2>1 DEF Pass
<1> QED
  BY <1>2, <1>3, <1>4, <1>6, <1>7, <1>8, <1>9
  DEF Next, Fire, RequestScenario, RunEnds, Tick, ServerRun, ReceiveScenario,
      ReceiveEvent, Receive, vars, goods

-----------------------------------------------------------------------------
(* The invariants *)

LEMMA IInvParts == IInv <=> TypeOK /\ TimeOK(machine) /\ GoodsOK
BY DEF IInv, TimeOK, TimerBounded, BreakIsReset, GoodsOK

LEMMA IInvInit == Init => IInv
<1> SUFFICES ASSUME Init PROVE IInv
  OBVIOUS
<1>1. TypeOK
  BY InitType
<1>2. TimeOK(machine)
  BY DEF Init, TimeOK, WithinTime
<1>3. IdsBelowNext /\ RunningIsStarted /\ DisclosedOnlyAfterStart
  BY DEF Init, IdsBelowNext, RunningIsStarted, DisclosedOnlyAfterStart
<1>4. GoodsMatchScenario
  BY CountAssumption, FS_EmptySet DEF Init, GoodsMatchScenario
<1> QED BY <1>1, <1>2, <1>3, <1>4, IInvParts DEF GoodsOK

LEMMA IInvStep == IInv /\ [Next]_vars => IInv'
<1> SUFFICES ASSUME IInv, [Next]_vars PROVE IInv'
  OBVIOUS
<1>1. TypeOK /\ TimeOK(machine) /\ GoodsOK
  BY IInvParts
<1>2. TypeOK' /\ TimeOK(machine)' /\ GoodsOK'
  BY <1>1, TypeStep, TimeStep, GoodsStep
<1> QED BY <1>2 DEF IInv, TimeOK, TimerBounded, BreakIsReset, GoodsOK

\* THEOREM: the inductive invariant holds in every reachable state.
THEOREM Invariance == Spec => []IInv
BY IInvInit, IInvStep, PTL DEF Spec

\* THEOREM: no robot holds a task or the inventory of the present generation
\* before the EXECUTION timer has run for it.
THEOREM Disclosure == Spec => []DisclosedOnlyAfterStart
<1>1. IInv => DisclosedOnlyAfterStart
  BY DEF IInv
<1> QED BY <1>1, Invariance, PTL

\* THEOREM: tasks and inventory are always those of the current scenario.
THEOREM Goods == Spec => []GoodsMatchScenario
<1>1. IInv => GoodsMatchScenario
  BY DEF IInv
<1> QED BY <1>1, Invariance, PTL

\* THEOREM: the timer exceeds the maximum of its phase by less than one gap
\* between updates, and the final time by less than two.
THEOREM TimeBound == Spec => []TimerBounded
<1>1. IInv => TimerBounded
  BY DEF IInv
<1> QED BY <1>1, Invariance, PTL

\* THEOREM: newly generated tasks were never shown to a robot.
THEOREM Fresh == Spec => FreshTasks
<1>1. IInv /\ [Next]_vars => [tasks' # tasks => tasks' \cap known' = {}]_vars
  <2> SUFFICES ASSUME IInv, Next, tasks' # tasks PROVE tasks' \cap known' = {}
    OBVIOUS
  <2>1. TypeOK /\ IdsBelowNext
    BY DEF IInv
  <2>2. \E s \in Registered : Generate(s)
    BY <2>1 DEF Next, Fire, BenchmarkUpdate, RequestScenario, Reset, Shuffle, Skip,
       Transition, SendTaskInfo, SendInventory, RunEnds, Tick, ServerRun, ReceiveScenario,
       ReceiveEvent, Receive, Pass, goods, TypeOK
  <2> QED BY <2>1, <2>2, GenerateGoods
<1> QED BY <1>1, Invariance, PTL DEF Spec, FreshTasks

-----------------------------------------------------------------------------
(* Timer and phase of a step *)

\* An event that leads into a RunningState resets the timer, but for START after
\* a pause, which stays in the phase and keeps it.
LEMMA ProcessEventFresh ==
    ASSUME NEW m \in Machines, TimeOK(m), NEW e,
           ProcessEvent(m, e).state \in RunningStates, ProcessEvent(m, e).state # m.state
    PROVE  \/ m.state \notin PausedStates /\ ProcessEvent(m, e).timer = 0
           \/ /\ m.state \in PausedStates /\ e = "START"
              /\ Phase(ProcessEvent(m, e).state) = Phase(m.state)
              /\ ProcessEvent(m, e).timer = m.timer
<1> USE DEF ProcessEvent, Target, StoppedStates, RunningStates, PausedStates
<1>1. CASE m.state \in PausedStates
  BY <1>1 DEF Phase
<1>2. CASE m.state \notin PausedStates
  BY <1>2 DEF Machines, TimeOK
<1> QED BY <1>1, <1>2

\* SKIP out of a preparation or a pause passes through a StoppedState, which
\* resets the timer; out of a running execution it does not run again.
LEMMA SkipFresh ==
    ASSUME NEW m \in Machines, TimeOK(m),
           ProcessEvent(ProcessEvent(m, "STOP"), "START").state \in RunningStates
    PROVE  ProcessEvent(ProcessEvent(m, "STOP"), "START").timer = 0
<1> DEFINE n == ProcessEvent(m, "STOP")
<1>1. n.state \in StoppedStates \/ n = m
  BY DEF ProcessEvent, Target, Machines, StoppedStates, RunningStates, PausedStates
<1>2. CASE n.state \in StoppedStates
  BY <1>2 DEF ProcessEvent, Target, StoppedStates, RunningStates
<1>3. CASE n = m /\ m.state \notin StoppedStates
  BY <1>3 DEF ProcessEvent, Target, Machines, TimeOK, StoppedStates, RunningStates, PausedStates
<1> QED BY <1>1, <1>2, <1>3

\* THEOREM: a running phase is entered with the timer at 0 or, by START after a
\* pause, with the time of the pause.
THEOREM TimerFresh == Spec => FreshTimer
<1> DEFINE Starts == machine'.state \in RunningStates /\ machine'.state # machine.state
           Fresh1 == machine'.timer = IF Resumes THEN machine.timer ELSE 0
<1>1. IInv /\ [Next]_vars => [Starts => Fresh1]_vars
  <2> SUFFICES ASSUME IInv, Next, Starts PROVE Fresh1
    OBVIOUS
  <2>1. machine \in Machines /\ TimeOK(machine) /\ TypeOK
    BY IInvParts DEF TypeOK, Machines
  <2>2. ASSUME NEW e, Transition(e) PROVE Fresh1
    <3>1. machine' = ProcessEvent(machine, e) /\ Command(e)
      BY <2>2 DEF Transition, SetMachine
    <3>2. CASE machine.state \notin PausedStates /\ machine'.timer = 0
      BY <3>2 DEF Resumes
    <3>3. CASE /\ machine.state \in PausedStates /\ e = "START"
               /\ Phase(machine'.state) = Phase(machine.state)
               /\ machine'.timer = machine.timer
      BY <3>1, <3>3 DEF Resumes
    <3> QED BY <2>1, <3>1, <3>2, <3>3, ProcessEventFresh
  <2>3. CASE BenchmarkUpdate
    <3>1. machine' = Update(machine)
      BY <2>3 DEF BenchmarkUpdate, SetMachine
    <3>2. machine.state = "prep-timeup" /\ machine' = ProcessEvent(machine, "START")
      <4>1. CASE machine.state \in RunningStates
        <5>1. machine'.state \in {machine.state, Target(machine.state, "TIMEOUT")}
          <6>1. \/ Update(machine) = ProcessEvent(Advance(machine), "TIMEOUT")
                \/ Update(machine) = Advance(machine)
            <7>1. machine.timer \in Nat /\ MaxTime(machine.state) \in Nat
              BY <2>1, TimeAssumption DEF MaxTime, Machines
            <7>2. machine.timer >= MaxTime(machine.state) \/ machine.timer < MaxTime(machine.state)
              BY <7>1
            <7>3. CASE machine.timer >= MaxTime(machine.state)
              BY <2>1, <4>1, <7>3, TimeAssumption
              DEF Update, Machines, MaxTime, RunningStates
            <7>4. CASE machine.timer < MaxTime(machine.state)
              BY <2>1, <4>1, <7>4, TimeAssumption
              DEF Update, Machines, MaxTime, RunningStates
            <7> QED BY <7>2, <7>3, <7>4
          <6>2. Advance(machine).state = machine.state
            BY DEF Advance
          <6> QED BY <3>1, <6>1, <6>2 DEF ProcessEvent
        <5> QED BY <4>1, <5>1 DEF Target, RunningStates
      <4>2. CASE machine.state \notin RunningStates
        BY <3>1, <4>2 DEF Update
      <4> QED BY <4>1, <4>2
    <3> QED BY <2>1, <3>2, ProcessEventFresh DEF PausedStates, Resumes
  <2>4. CASE Skip
    <3>1. machine'.timer = 0
      BY <2>1, <2>4, SkipFresh DEF Skip, SetMachine
    <3>2. ~Command("START")
      BY <2>4 DEF Skip, Command
    <3> QED BY <3>1, <3>2 DEF Resumes
  <2>5. CASE \E e \in {"START", "STOP", "PAUSE"} : Transition(e)
    BY <2>2, <2>5
  <2>6. CASE Reset
    BY <2>6 DEF Reset, Setup, RunningStates
  <2>7. CASE Pass
    BY <2>1, <2>7 DEF Pass, TypeOK
  <2> QED
    BY <2>3, <2>4, <2>5, <2>6, <2>7
    DEF Next, Fire, RequestScenario, Shuffle, SendTaskInfo, SendInventory, RunEnds, Tick,
        ServerRun, ReceiveScenario, ReceiveEvent, Receive
<1> QED BY <1>1, Invariance, PTL DEF Spec, FreshTimer

-----------------------------------------------------------------------------
(* The refinement *)

\* What a step of the state machine may look like to a referee.
Moves(s, t) ==
    \/ Stage(t) = Stage(s) /\ Clock(t) = Clock(s)
    \/ /\ Stage(s) \in {"preparation", "execution"} /\ Clock(t) = "running"
       /\ Stage(t) = Stage(s) \/ Stage(t) = "execution"
    \/ Clock(s) = "running" /\ Clock(t) = "paused" /\ Stage(t) = Stage(s)
    \/ /\ Clock(s) \in {"running", "paused"} /\ Clock(t) = "stopped"
       /\ \/ Stage(s) = "preparation" /\ Stage(t) \in {"preparation", "execution"}
          \/ Stage(s) = "execution" /\ Stage(t) \in {"execution", "over"}

\* Every transition, and the two that SKIP takes at once, is such a step.
LEMMA TargetMoves ==
    ASSUME NEW s \in States, NEW e
    PROVE  Moves(s, Target(s, e)) /\ Moves(s, Target(Target(s, "STOP"), "START"))
<1> USE DEF Moves, Stage, Clock, Phase, RunningStates, PausedStates, StoppedStates, States
<1>1. Moves(s, Target(s, e))
  BY DEF Target
<1>2. Moves(s, Target(Target(s, "STOP"), "START"))
  BY DEF Target
<1> QED BY <1>1, <1>2

\* The update of a tick is such a step, too.
LEMMA UpdateMoves ==
    ASSUME NEW m \in Machines
    PROVE  Moves(m.state, Update(m).state)
<1>1. m.state \in States /\ Advance(m).state = m.state /\ Advance(m) \in Machines
  BY TimeAssumption DEF Machines, Advance
<1>2. /\ ProcessEvent(Advance(m), "TIMEOUT").state = Target(m.state, "TIMEOUT")
      /\ ProcessEvent(m, "START").state = Target(m.state, "START")
  BY <1>1, ProcessEventType DEF Machines
<1>3. Update(m).state \in {m.state, Target(m.state, "TIMEOUT"), Target(m.state, "START")}
  BY <1>1, <1>2 DEF Update
<1>4. Moves(m.state, m.state)
  BY DEF Moves
<1> QED BY <1>1, <1>3, <1>4, TargetMoves

\* Every step of the rule engine is a step of Contest or is not seen by referee
\* and robots.
LEMMA ContestStep == IInv /\ [Next]_vars => [C!CNext]_(C!cvars)
<1> SUFFICES ASSUME IInv, [Next]_vars PROVE [C!CNext]_(C!cvars)
  OBVIOUS
<1>0. TypeOK /\ IdsBelowNext /\ machine \in Machines /\ machine.state \in States
  BY DEF IInv, TypeOK, Machines
<1>1. ASSUME Moves(machine.state, machine'.state), UNCHANGED <<tasks, known>>
      PROVE  [C!CNext]_(C!cvars)
  BY <1>1 DEF Moves, C!CNext, C!StartClock, C!PauseClock, C!StopClock, C!cvars
<1>2. CASE BenchmarkUpdate
  BY <1>0, <1>1, <1>2, UpdateMoves DEF BenchmarkUpdate, SetMachine, goods
<1>3. CASE Skip
  <2>1. ProcessEvent(machine, "STOP") \in Machines
    BY <1>0, ProcessEventType DEF Machines
  <2>2. ProcessEvent(ProcessEvent(machine, "STOP"), "START").state
          = Target(Target(machine.state, "STOP"), "START")
    BY <1>0, <2>1, ProcessEventType DEF Machines
  <2> QED BY <1>0, <1>1, <1>3, <2>2, TargetMoves DEF Skip, SetMachine, goods
<1>4. ASSUME NEW e, Transition(e) PROVE [C!CNext]_(C!cvars)
  <2>1. ProcessEvent(machine, e).state = Target(machine.state, e)
    BY <1>0, ProcessEventType DEF Machines
  <2> QED BY <1>0, <1>1, <1>4, <2>1, TargetMoves DEF Transition, SetMachine, goods
<1>5. ASSUME NEW s \in Registered, Generate(s) PROVE C!FreshOffer
  <2>1. tasks' \cap known' = {} /\ tasks' \subseteq Nat /\ known' = known
    BY <1>0, <1>5, GenerateGoods, GenerateType DEF Generate
  <2> QED BY <2>1 DEF C!FreshOffer
<1>6. CASE Reset
  <2>1. /\ Stage(machine'.state) \in {"idle", "preparation"}
        /\ Clock(machine'.state) = "stopped"
    BY <1>6 DEF Reset, Setup, Stage, Clock, Phase, RunningStates, PausedStates
  <2>2. UNCHANGED <<tasks, known>> \/ C!FreshOffer
    BY <1>0, <1>5, <1>6 DEF Reset, goods, TypeOK
  <2> QED BY <2>1, <2>2 DEF C!CNext, C!SetUp
<1>7. CASE Shuffle
  <2>1. C!FreshOffer
    BY <1>0, <1>5, <1>7 DEF Shuffle, TypeOK
  <2> QED BY <1>7, <2>1 DEF Shuffle, C!CNext, C!Exchange
<1>8. CASE SendTaskInfo
  <2>1. CASE Disclosing
    <3>1. Stage(machine.state) = "execution" /\ Clock(machine.state) = "running"
      BY <2>1 DEF Disclosing, RobotState, Phase, Stage, Clock, RunningStates, PausedStates
    <3>2. known' = known \cup tasks /\ UNCHANGED <<machine, tasks>>
      BY <1>8, <2>1 DEF SendTaskInfo
    <3> QED BY <3>1, <3>2 DEF C!CNext, C!Show
  <2>2. CASE ~Disclosing
    BY <1>8, <2>2 DEF SendTaskInfo, C!cvars
  <2> QED BY <2>1, <2>2
<1>9. CASE UNCHANGED <<tasks, known>> /\ machine'.state = machine.state
  BY <1>9 DEF C!cvars
<1>10. CASE Pass
  <2>1. machine'.state = machine.state
    BY <1>0, <1>10 DEF Pass, TypeOK
  <2> QED BY <1>9, <1>10, <2>1 DEF Pass, goods
<1> QED
  BY <1>2, <1>3, <1>4, <1>6, <1>7, <1>8, <1>9, <1>10
  DEF Next, Fire, RequestScenario, SendInventory, RunEnds, Tick, ServerRun,
      ReceiveScenario, ReceiveEvent, Receive, vars, goods

\* THEOREM: the rule engine implements Contest.
THEOREM Implementation == Spec => ImplementsContest
<1>1. Init => C!CInit
  BY DEF Init, C!CInit, Stage, Clock, Phase, RunningStates, PausedStates
<1>2. IInv /\ [Next]_vars => [C!CNext]_(C!cvars)
  BY ContestStep
<1> QED BY <1>1, <1>2, Invariance, PTL DEF Spec, ImplementsContest, C!CSpec

\* THEOREM: a benchmark goes back from EXECUTION to PREPARATION by RESET only.
THEOREM Order == Spec => PhaseOrder
<1> DEFINE Back == Phase(machine.state) = "EXECUTION" /\ Phase(machine'.state) = "PREPARATION"
<1>1. IInv /\ [Next]_vars => [Back => Command("RESET")]_vars
  <2> SUFFICES ASSUME IInv, Next, Back PROVE Command("RESET")
    OBVIOUS
  <2>1. machine \in Machines /\ machine.state \in States /\ TypeOK
    BY DEF IInv, TypeOK, Machines
  <2>2. machine.state # machine'.state
    OBVIOUS
  <2>3. ASSUME NEW e PROVE Phase(Target(machine.state, e)) = "EXECUTION"
    BY <2>1 DEF Phase, Target, States, StoppedStates, RunningStates, PausedStates
  <2>4. Phase(Target(Target(machine.state, "STOP"), "START")) = "EXECUTION"
    BY <2>1 DEF Phase, Target, States, StoppedStates, RunningStates, PausedStates
  <2>5. ASSUME NEW e, machine' = ProcessEvent(machine, e) PROVE FALSE
    BY <2>1, <2>3, <2>5, ProcessEventType DEF Machines
  <2>6. CASE BenchmarkUpdate
    <3>1. Advance(machine) \in Machines /\ Advance(machine).state = machine.state
      BY <2>1, TimeAssumption DEF Machines, Advance
    <3>2. machine'.state \in {machine.state, Target(machine.state, "TIMEOUT"),
                              Target(machine.state, "START")}
      BY <2>1, <2>6, <3>1, ProcessEventType
      DEF BenchmarkUpdate, SetMachine, Update, Machines
    <3> QED BY <2>3, <3>2
  <2>7. CASE Skip
    <3>1. ProcessEvent(machine, "STOP") \in Machines
      BY <2>1, ProcessEventType DEF Machines
    <3>2. machine'.state = Target(Target(machine.state, "STOP"), "START")
      BY <2>1, <2>7, <3>1, ProcessEventType DEF Skip, SetMachine, Machines
    <3> QED BY <2>4, <3>2
  <2>8. CASE \E e \in {"START", "STOP", "PAUSE"} : Transition(e)
    BY <2>5, <2>8 DEF Transition, SetMachine
  <2>9. CASE Reset
    BY <2>9 DEF Reset
  <2>10. CASE Pass
    BY <2>1, <2>2, <2>10 DEF Pass, TypeOK
  <2> QED
    BY <2>2, <2>6, <2>7, <2>8, <2>9, <2>10
    DEF Next, Fire, RequestScenario, Shuffle, SendTaskInfo, SendInventory, RunEnds, Tick,
        ServerRun, ReceiveScenario, ReceiveEvent, Receive
<1> QED BY <1>1, Invariance, PTL DEF Spec, PhaseOrder
=============================================================================
