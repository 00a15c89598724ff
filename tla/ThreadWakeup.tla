---------------------------- MODULE ThreadWakeup ----------------------------
(***************************************************************************)
(* Threads that wait for a wakeup, and the list that wakes them and waits  *)
(* for all of them with a timeout: Thread::run, Thread::wakeup,            *)
(* ThreadList::wakeup_and_wait and try_recover, InterruptibleBarrier::wait.*)
(*                                                                         *)
(* One thread, the host, calls wakeup_and_wait() and try_recover() on the  *)
(* list; others may call wakeup() on its threads.  The workers' steps are  *)
(* delimited by the sleep mutex and by the mutex of the barrier.           *)
(***************************************************************************)
EXTENDS Integers, FiniteSets

CONSTANTS Workers,       \* the threads of the list
          Coalesce,      \* those with set_coalesce_wakeups(true)
          Host,          \* the thread that waits for the list
          NoBarrier,     \* a NULL barrier
          MaxBarriers,   \* bound: barriers created
          MaxPending     \* bound: wakeups somebody else keeps pending

ASSUME WakeupAssumption ==
  /\ IsFiniteSet(Workers) /\ Host \notin Workers /\ Coalesce \subseteq Workers
  /\ MaxBarriers \in Nat \ {0} /\ MaxPending \in Nat
  /\ NoBarrier \notin 1 .. MaxBarriers

Barriers == 1 .. MaxBarriers
Parties == Workers \cup {Host}

VARIABLES
  pending,   \* Thread::__pending_wakeups
  waiting,   \* Thread::__waiting_for_wakeup
  barrier,   \* Thread::__barrier
  at,        \* where every worker and the host are
  mine,      \* the barrier at hand: a local variable of run() and wakeup_and_wait(),
             \* try_recover()'s iterator
  flagged,   \* the threads with FLAG_BAD
  bars,      \* the InterruptibleBarriers created so far
  created,   \* how many
  current,   \* ThreadList::__wnw_barrier
  badBars,   \* ThreadList::__wnw_bad_barriers: barrier -> its bad threads
  aside,     \* the barriers in it
  todo,      \* the threads the host has still to wake, or to ask
  expected,  \* the threads the host waits for
  recovered  \* those try_recover() has found asleep (changed, when not empty)

vars == <<pending, waiting, barrier, at, mine, flagged, bars, created, current, badBars,
          aside, todo, expected, recovered>>

(* count: parties; left: threads_left; native: who is inside the POSIX     *)
(* barrier that lets all of them go at once.                               *)
NewBarrier(n) == [count |-> n, left |-> 0, timeout |-> FALSE, waitAt |-> FALSE,
                  passed |-> {}, native |-> {}]
Unflagged(f) == Workers \ f

(* run() begins by waiting for its first wakeup.                           *)
Init ==
  /\ pending = [t \in Workers |-> 0]
  /\ waiting = [t \in Workers |-> TRUE]
  /\ barrier = [t \in Workers |-> NoBarrier]
  /\ at = [p \in Parties |-> IF p = Host THEN "idle" ELSE "rest"]
  /\ mine = [p \in Parties |-> NoBarrier]
  /\ flagged = {}
  /\ bars = [b \in Barriers |-> NewBarrier(IF b = 1 THEN Cardinality(Workers) + 1 ELSE 0)]
  /\ created = 1 /\ current = 1
  /\ badBars = [b \in Barriers |-> {}] /\ aside = {}
  /\ todo = {} /\ expected = {} /\ recovered = {}

thread == <<pending, waiting, barrier>>
list == <<flagged, created, current, badBars, aside, todo, expected, recovered>>

Goto(p, s) == at' = [at EXCEPT ![p] = s]

-----------------------------------------------------------------------------
(* InterruptibleBarrier::wait, called by workers and by the host.          *)

(* What follows wait(): the worker tests for wakeups, the host judges.     *)
Back(p) == IF p = Host THEN "judge" ELSE "rest"

(* Nobody has come yet: the fields are initialised.                        *)
Opened(b) == IF bars[b].left > 0 THEN bars[b]
             ELSE [NewBarrier(bars[b].count) EXCEPT !.left = bars[b].count,
                                                    !.native = bars[b].native]

(* The last to come opens the way into the POSIX barrier; on a barrier     *)
(* whose wait has timed out nobody waits any more.                         *)
EnterBarrier(p) ==
  LET b == mine[p]
      o == Opened(b) IN
  /\ at[p] = "enter"
  /\ IF o.timeout
     THEN Goto(p, Back(p)) /\ UNCHANGED bars
     ELSE /\ bars' = [bars EXCEPT ![b] = [o EXCEPT !.left = @ - 1, !.passed = @ \cup {p},
                                                   !.waitAt = o.left = 1]]
          /\ Goto(p, IF o.left = 1 THEN "exit" ELSE "blocked")
  /\ UNCHANGED <<thread, mine, list>>

(* Mutant: the one that times out does not wake the others.                *)
WokenByLast(p) ==
  /\ at[p] = "blocked" /\ bars[mine[p]].left = 0
  /\ Goto(p, "exit")
  /\ UNCHANGED <<thread, mine, bars, list>>

(* Woken by the last to come or by the one that has timed out.             *)
Woken(p) ==
  /\ at[p] = "blocked"
  /\ bars[mine[p]].left = 0 \/ bars[mine[p]].timeout
  /\ Goto(p, "exit")
  /\ UNCHANGED <<thread, mine, bars, list>>

(* Mutant: the timeout is not recorded.                                    *)
TimeOutUnnoticed ==
  /\ at[Host] = "blocked"
  /\ Goto(Host, "exit")
  /\ UNCHANGED <<thread, mine, bars, list>>

(* The host's timeout, which may come with the last thread: it still takes *)
(* the mutex and finds nobody left to wait for.                            *)
TimeOut ==
  /\ at[Host] = "blocked"
  /\ bars' = [bars EXCEPT ![mine[Host]].timeout = TRUE, ![mine[Host]].waitAt = FALSE]
  /\ Goto(Host, "exit")
  /\ UNCHANGED <<thread, mine, list>>

(* Mutant: the POSIX barrier is made for one party more.                   *)
ExitBarrierOneMore(p) ==
  LET b == mine[p]
      in == bars[b].native \cup {p} IN
  /\ at[p] = "exit"
  /\ CASE ~bars[b].waitAt -> Goto(p, Back(p)) /\ UNCHANGED bars
       [] bars[b].waitAt /\ Cardinality(in) <= bars[b].count ->
            Goto(p, "native") /\ bars' = [bars EXCEPT ![b].native = in]
       [] OTHER -> /\ at' = [q \in Parties |-> IF q \in in THEN "leave" ELSE at[q]]
                   /\ bars' = [bars EXCEPT ![b].native = {}]
  /\ UNCHANGED <<thread, mine, list>>

(* __wait_at_barrier is read after the mutex has been released; the POSIX  *)
(* barrier lets everybody go when the last party enters it.                *)
ExitBarrier(p) ==
  LET b == mine[p]
      in == bars[b].native \cup {p} IN
  /\ at[p] = "exit"
  /\ CASE ~bars[b].waitAt -> Goto(p, Back(p)) /\ UNCHANGED bars
       [] bars[b].waitAt /\ Cardinality(in) < bars[b].count ->
            Goto(p, "native") /\ bars' = [bars EXCEPT ![b].native = in]
       [] OTHER -> /\ at' = [q \in Parties |-> IF q \in in THEN "leave" ELSE at[q]]
                   /\ bars' = [bars EXCEPT ![b].native = {}]
  /\ UNCHANGED <<thread, mine, list>>

(* return ! __timeout                                                      *)
LeaveBarrier(p) ==
  /\ at[p] = "leave"
  /\ Goto(p, Back(p))
  /\ UNCHANGED <<thread, mine, bars, list>>

-----------------------------------------------------------------------------
(* The worker: Thread::run.                                                *)

(* __sleep_condition->wait() with no wakeup pending.                       *)
Sleep(t) ==
  /\ at[t] = "rest" /\ pending[t] = 0 /\ ~waiting[t]
  /\ waiting' = [waiting EXCEPT ![t] = TRUE]
  /\ UNCHANGED <<pending, barrier, at, mine, bars, list>>

(* A pending wakeup starts an iteration.                                   *)
Proceed(t) ==
  /\ at[t] = "rest" /\ pending[t] > 0
  /\ pending' = [pending EXCEPT ![t] = @ - 1]
  /\ Goto(t, "loop")
  /\ UNCHANGED <<waiting, barrier, mine, bars, list>>

(* loop() returns.                                                         *)
LoopEnds(t) ==
  /\ at[t] = "loop"
  /\ Goto(t, "after")
  /\ UNCHANGED <<thread, mine, bars, list>>

(* if (__barrier), without the sleep mutex.                                *)
ReadBarrier(t) ==
  /\ at[t] = "after"
  /\ Goto(t, IF barrier[t] = NoBarrier THEN "rest" ELSE "take")
  /\ UNCHANGED <<thread, mine, bars, list>>

(* Under the sleep mutex the barrier is taken; its wait() follows.         *)
TakeBarrier(t) ==
  /\ at[t] = "take"
  /\ mine' = [mine EXCEPT ![t] = barrier[t]]
  /\ barrier' = [barrier EXCEPT ![t] = NoBarrier]
  /\ Goto(t, "enter")
  /\ UNCHANGED <<pending, waiting, bars, list>>

-----------------------------------------------------------------------------
(* Wakeups.                                                                *)

(* Thread::wakeup() by anybody; it throws while a barrier is to be met.    *)
Wakeup(t) ==
  /\ barrier[t] = NoBarrier /\ pending[t] < MaxPending
  /\ pending' = [pending EXCEPT ![t] = IF t \in Coalesce THEN 1 ELSE @ + 1]
  /\ waiting' = [waiting EXCEPT ![t] = FALSE]
  /\ UNCHANGED <<barrier, at, mine, bars, list>>

CanRenew == created < MaxBarriers

(* wakeup_and_wait locks the list and wakes the threads that are not bad.  *)
WakeupAndWait ==
  /\ at[Host] = "idle" /\ CanRenew
  /\ todo' = Unflagged(flagged) /\ expected' = Unflagged(flagged)
  /\ mine' = [mine EXCEPT ![Host] = current]
  /\ Goto(Host, "wake")
  /\ UNCHANGED <<thread, flagged, bars, created, current, badBars, aside, recovered>>

(* Thread::wakeup(barrier) throws for a thread that still has to meet one. *)
WakeupWithBarrier(t) ==
  /\ at[Host] = "wake" /\ t \in todo
  /\ todo' = todo \ {t}
  /\ IF ~waiting[t] /\ barrier[t] # NoBarrier
     THEN expected' = expected \ {t} /\ UNCHANGED thread
     ELSE /\ pending' = [pending EXCEPT ![t] = @ + 1]
          /\ barrier' = [barrier EXCEPT ![t] = mine[Host]]
          /\ waiting' = [waiting EXCEPT ![t] = FALSE]
          /\ UNCHANGED expected
  /\ UNCHANGED <<at, mine, flagged, bars, created, current, badBars, aside, recovered>>

(* All are woken: the host goes to the barrier itself, unless a wakeup has *)
(* thrown or the number of parties is not the barrier's.                   *)
WaitForAll ==
  /\ at[Host] = "wake" /\ todo = {}
  /\ Goto(Host, IF /\ expected = Unflagged(flagged)
                   /\ Cardinality(Unflagged(flagged)) + 1 = bars[mine[Host]].count
                THEN "enter" ELSE "idle")
  /\ UNCHANGED <<thread, mine, bars, list>>

(* update_barrier: the old barrier, if any, is deleted and a new one       *)
(* counts the threads that are not bad.                                    *)
UpdateBarrier(f) ==
  /\ created' = created + 1
  /\ current' = created + 1
  /\ bars' = [bars EXCEPT ![created + 1] = NewBarrier(Cardinality(Unflagged(f)) + 1)]

(* After a timeout the threads that did not come are flagged bad, and the  *)
(* barrier is put aside with them.                                         *)
Judge ==
  LET b == mine[Host]
      late == Workers \ bars[b].passed IN
  /\ at[Host] = "judge"
  /\ IF bars[b].timeout
     THEN /\ flagged' = flagged \cup late
          /\ badBars' = [badBars EXCEPT ![b] = late] /\ aside' = aside \cup {b}
          /\ UpdateBarrier(flagged')
     ELSE UNCHANGED <<flagged, badBars, aside, bars, created, current>>
  /\ Goto(Host, "idle")
  /\ expected' = {}
  /\ UNCHANGED <<thread, mine, todo, recovered>>

Oldest(S) == CHOOSE b \in S : \A c \in S : b <= c

(* try_recover locks the list and begins with the oldest barrier.          *)
TryRecover ==
  /\ at[Host] = "idle" /\ aside # {} /\ CanRenew
  /\ mine' = [mine EXCEPT ![Host] = Oldest(aside)]
  /\ todo' = badBars[Oldest(aside)]
  /\ Goto(Host, "recover")
  /\ UNCHANGED <<thread, flagged, bars, created, current, badBars, aside, expected, recovered>>

(* Mutant: a thread that has no wakeup pending counts as asleep.           *)
AskPending(t) ==
  /\ at[Host] = "recover" /\ t \in todo
  /\ todo' = todo \ {t}
  /\ IF pending[t] = 0
     THEN /\ flagged' = flagged \ {t}
          /\ badBars' = [badBars EXCEPT ![mine[Host]] = @ \ {t}]
          /\ recovered' = recovered \cup {t}
     ELSE UNCHANGED <<flagged, badBars, recovered>>
  /\ UNCHANGED <<thread, at, mine, bars, created, current, aside, expected>>

(* A bad thread that sleeps again has passed its barrier.  waiting() is    *)
(* asked anew, and without a lock, for every barrier the thread is bad at: *)
(* it may run at the first question and sleep at the next, and is then not *)
(* flagged any more, but still in the first list.                          *)
Ask(t) ==
  /\ at[Host] = "recover" /\ t \in todo
  /\ todo' = todo \ {t}
  /\ IF waiting[t]
     THEN /\ flagged' = flagged \ {t}
          /\ badBars' = [badBars EXCEPT ![mine[Host]] = @ \ {t}]
          /\ recovered' = recovered \cup {t}
     ELSE UNCHANGED <<flagged, badBars, recovered>>
  /\ UNCHANGED <<thread, at, mine, bars, created, current, aside, expected>>

Later == {b \in aside : b > mine[Host]}

(* Mutant: a barrier goes with the first of its threads that recovers.     *)
NextBarrierFirst ==
  /\ at[Host] = "recover" /\ todo = {}
  /\ aside' = IF recovered # {} \/ badBars[mine[Host]] = {} THEN aside \ {mine[Host]} ELSE aside
  /\ IF Later # {}
     THEN /\ mine' = [mine EXCEPT ![Host] = Oldest(Later)]
          /\ todo' = badBars[Oldest(Later)]
          /\ UNCHANGED <<at, bars, created, current, recovered>>
     ELSE /\ Goto(Host, "idle") /\ recovered' = {}
          /\ IF recovered # {} THEN UpdateBarrier(flagged) ELSE UNCHANGED <<bars, created, current>>
          /\ UNCHANGED <<mine, todo>>
  /\ UNCHANGED <<thread, flagged, badBars, expected>>

(* A barrier put aside is deleted when it has no bad thread left.  After   *)
(* the last of them the list's own barrier is renewed, if any recovered.   *)
NextBarrier ==
  /\ at[Host] = "recover" /\ todo = {}
  /\ aside' = IF badBars[mine[Host]] = {} THEN aside \ {mine[Host]} ELSE aside
  /\ IF Later # {}
     THEN /\ mine' = [mine EXCEPT ![Host] = Oldest(Later)]
          /\ todo' = badBars[Oldest(Later)]
          /\ UNCHANGED <<at, bars, created, current, recovered>>
     ELSE /\ Goto(Host, "idle") /\ recovered' = {}
          /\ IF recovered # {} THEN UpdateBarrier(flagged) ELSE UNCHANGED <<bars, created, current>>
          /\ UNCHANGED <<mine, todo>>
  /\ UNCHANGED <<thread, flagged, badBars, expected>>

-----------------------------------------------------------------------------
WorkerStep(t) ==
  \/ Sleep(t) \/ Proceed(t) \/ LoopEnds(t) \/ ReadBarrier(t) \/ TakeBarrier(t)
  \/ EnterBarrier(t) \/ Woken(t) \/ ExitBarrier(t) \/ LeaveBarrier(t)

HostStep ==
  \/ \E t \in Workers : WakeupWithBarrier(t) \/ Ask(t)
  \/ WaitForAll \/ Judge \/ NextBarrier
  \/ EnterBarrier(Host) \/ Woken(Host) \/ TimeOut \/ ExitBarrier(Host) \/ LeaveBarrier(Host)

Next ==
  \/ \E t \in Workers : WorkerStep(t) \/ Wakeup(t)
  \/ WakeupAndWait \/ TryRecover \/ HostStep

(* Workers are scheduled and their loops return; the host goes on once it  *)
(* has begun, and its timeout fires.  Nobody has to wake anything.         *)
Spec == Init /\ [][Next]_vars
FairSpec == Spec /\ WF_vars(HostStep) /\ \A t \in Workers : WF_vars(WorkerStep(t))

-----------------------------------------------------------------------------
(* Properties.                                                             *)

Places == {"rest", "loop", "after", "take", "enter", "blocked", "exit", "native", "leave",
           "idle", "wake", "judge", "recover"}
BarrierRecords == [count : Nat, left : Nat, timeout : BOOLEAN, waitAt : BOOLEAN,
                   passed : SUBSET Parties, native : SUBSET Parties]

(* Every variable has its type.                                            *)
TypeOK ==
  /\ pending \in [Workers -> Nat] /\ waiting \in [Workers -> BOOLEAN]
  /\ barrier \in [Workers -> Barriers \cup {NoBarrier}]
  /\ at \in [Parties -> Places] /\ mine \in [Parties -> Barriers \cup {NoBarrier}]
  /\ bars \in [Barriers -> BarrierRecords]
  /\ created \in Barriers /\ current \in Barriers
  /\ flagged \subseteq Workers /\ todo \subseteq Workers /\ expected \subseteq Workers
  /\ recovered \subseteq Workers
  /\ badBars \in [Barriers -> SUBSET Workers] /\ aside \subseteq Barriers

(* wakeup_and_wait() returns without an exception only after every thread  *)
(* that was not bad has come to the barrier of this very call, and no bad  *)
(* thread has (InterruptibleBarrier::wait returns ! __timeout).            *)
ReachedAll ==
  at[Host] = "judge" /\ ~bars[mine[Host]].timeout =>
     bars[mine[Host]].passed = expected \cup {Host}

(* Between two calls the list's barrier is unused and made for the threads *)
(* that are not flagged (update_barrier; wakeup_unlocked compares counts), *)
(* who have no other barrier to meet, so that Thread::wakeup(barrier) will *)
(* not throw; and a flagged thread is bad at a barrier put aside, where    *)
(* try_recover() will ask for it.                                          *)
ReadyForNext ==
  at[Host] = "idle" =>
     /\ bars[current].count = Cardinality(Unflagged(flagged)) + 1
     /\ bars[current].left = 0 /\ current \notin aside
     /\ \A t \in Unflagged(flagged) : barrier[t] = NoBarrier /\ at[t] # "enter"
     /\ flagged \subseteq UNION {badBars[b] : b \in aside}

(* A thread that came to the POSIX barrier with the last one while the     *)
(* host's timeout was changing __wait_at_barrier: nobody will follow it.   *)
Caught(t) == at[t] = "native" /\ bars[mine[t]].timeout

(* Nobody has still to come to, or to be released from, a barrier that has *)
(* been deleted, although try_recover() deletes one when its bad threads   *)
(* sleep again, one by one, and the current one whenever it is renewed     *)
(* (update_barrier).  Who has been released by a timeout, and is returning *)
(* from wait(), may be in one: the code does not wait for him.             *)
BarrierKept ==
  \A t \in Workers :
     /\ barrier[t] # NoBarrier => barrier[t] \in aside \cup {current}
     /\ at[t] = "enter" \/ (at[t] \in {"blocked", "exit", "native"} /\ ~bars[mine[t]].timeout)
           => mine[t] \in aside \cup {current}

-----------------------------------------------------------------------------
(* The inductive invariant behind the safety properties.                   *)

(* A worker has still to come to a barrier, is inside it.                  *)
Owes(t, b) == barrier[t] = b \/ (at[t] = "enter" /\ mine[t] = b)
Inside(p, b) == at[p] \in {"blocked", "exit", "native"} /\ mine[p] = b

(* The host has come to the barrier of its call; somebody has; who has.    *)
HostCame == at[Host] \in {"blocked", "exit", "native", "leave", "judge"}
Begun == bars[current].left > 0 \/ HostCame
Here == IF Begun THEN bars[current].passed ELSE {}

(* A worker that waits has nothing to do; one that has a barrier to meet   *)
(* is on its way to it.                                                    *)
SleepInv ==
  \A t \in Workers :
     /\ at[t] \notin {"idle", "wake", "judge", "recover"}
     /\ waiting[t] => at[t] = "rest" /\ pending[t] = 0 /\ barrier[t] = NoBarrier
     /\ barrier[t] # NoBarrier => pending[t] > 0 \/ at[t] \in {"loop", "after", "take"}
     /\ at[t] = "take" => barrier[t] # NoBarrier

(* A call uses the list's barrier, which is made for who is not flagged    *)
(* unless try_recover() is about to renew it; that one walks through the   *)
(* barriers put aside.                                                     *)
CallInv ==
  /\ at[Host] \notin {"rest", "loop", "after", "take"}
  /\ created = current
  /\ recovered = {} => bars[current].count = Cardinality(Unflagged(flagged)) + 1
  /\ recovered # {} => at[Host] = "recover"
  /\ at[Host] \notin {"idle", "recover"} =>
       mine[Host] = current /\ created < MaxBarriers /\ expected = Unflagged(flagged)
  /\ at[Host] = "recover" => mine[Host] \in aside /\ created < MaxBarriers
  /\ todo # {} => \/ at[Host] = "wake" /\ todo \subseteq Unflagged(flagged)
                  \/ at[Host] = "recover" /\ todo \subseteq badBars[mine[Host]]

(* The barriers put aside hold the flagged threads, and have timed out;    *)
(* who has still to come to one is flagged.                                *)
AsideInv ==
  /\ current \notin aside
  /\ flagged \subseteq UNION {badBars[b] : b \in aside}
  /\ \A b \in aside : b < created /\ bars[b].timeout /\ ~bars[b].waitAt
  /\ \A b \in aside : \A t \in Workers :
       Owes(t, b) => t \in badBars[b] /\ t \in flagged /\ bars[b].left > 0

(* The list's barrier counts who has come to it in this call.              *)
CountInv ==
  /\ at[Host] \in {"idle", "recover"} => bars[current].left = 0
  /\ bars[current].timeout => at[Host] \in {"exit", "judge"}
  /\ Here \subseteq Unflagged(flagged) \cup {Host} /\ Here \cap todo = {}
  /\ Host \in Here <=> HostCame
  /\ Begun => /\ bars[current].left = bars[current].count - Cardinality(Here)
              /\ bars[current].waitAt <=> bars[current].left = 0 /\ ~bars[current].timeout

(* Who is inside it has come; who has still to come is expected.           *)
PlacesInv ==
  /\ \A t \in Workers : Owes(t, current) =>
       /\ at[Host] \notin {"idle", "recover"}
       /\ t \in Unflagged(flagged) /\ t \notin todo /\ t \notin Here
  /\ \A p \in Parties :
       /\ Inside(p, current) => p \in Here
       /\ Inside(p, current) /\ at[p] = "exit" =>
            bars[current].left = 0 \/ bars[current].timeout
       /\ p \in bars[current].native <=> at[p] = "native" /\ mine[p] = current
  /\ bars[current].native # {} => bars[current].left = 0
  /\ at[Host] \in {"leave", "judge"} /\ ~bars[current].timeout =>
       bars[current].left = 0 /\ \A p \in Parties : ~Inside(p, current)

(* A worker has its barrier from the list or from the ones put aside; the  *)
(* others it is still inside have timed out.                               *)
UsedInv ==
  \A t \in Workers :
     /\ barrier[t] # NoBarrier => barrier[t] \in aside \cup {current}
     /\ at[t] = "enter" => mine[t] \in aside \cup {current} /\ barrier[t] # mine[t]
     /\ at[t] \in {"blocked", "exit", "native", "leave"} =>
          mine[t] \in Barriers /\ mine[t] <= created
     /\ at[t] \in {"blocked", "exit", "native"} /\ mine[t] # current =>
          bars[mine[t]].timeout /\ ~bars[mine[t]].waitAt

WakeupInv == TypeOK /\ SleepInv /\ CallInv /\ AsideInv /\ CountInv /\ PlacesInv /\ UsedInv

(* The list never waits for ever, and no wakeup is lost: a thread that is  *)
(* woken runs its loop again, unless it is caught in the barrier.          *)
RoundsEnd == at[Host] # "idle" ~> at[Host] = "idle"
WokenRun == \A t \in Workers : pending[t] > 0 ~> at[t] = "loop" \/ Caught(t)
=============================================================================
