---------------------------- MODULE ThreadManager ----------------------------
(***************************************************************************)
(* The life of Fawkes threads under the ThreadManager: lists of threads    *)
(* (one list per plugin) are initialised, started, asked whether they may  *)
(* be finalised, stopped and finalised, while every started thread runs    *)
(* its own loop.  Sources: core/threading/thread.cpp and thread_list.cpp,  *)
(* baseapp/thread_manager.cpp, aspect/manager.cpp.                         *)
(*                                                                         *)
(* A caller is a thread of the host that calls add(), remove() or          *)
(* force_remove(); a worker is the pthread behind a started Thread.  The   *)
(* callers' steps are the calls on one thread of the list, the workers'    *)
(* steps are delimited by the mutexes that thread.cpp takes.               *)
(***************************************************************************)
EXTENDS Integers, Sequences, Functions

CONSTANTS Threads,        \* the Thread objects
          Lists,          \* the thread lists
          Member,         \* [Lists -> Seq(Threads)]: the threads of a list, in order
          Callers,        \* the threads that use the manager
          Free,           \* nobody holds the mutex
          Worker,         \* the worker itself holds the mutex
          ConcLoop,       \* threads with set_prepfin_conc_loop(true)
          OneShot,        \* threads whose loop() ends with pthread_exit()
          MayFailInit,    \* threads whose aspects or init() may fail
          MayFailStart,   \* threads whose pthread_create may fail
          MayVeto,        \* threads that may answer prepare_finalize() with false
          MayFailFinalize,\* threads whose finalize() may throw
          MayHold         \* threads whose prepare_finalize() somebody may hold

ASSUME ListsAssumption ==
  /\ Member \in [Lists -> Seq(Threads)]
  /\ \A l \in Lists : Member[l] # <<>>
  /\ \A k, l \in Lists : \A i \in DOMAIN Member[k], j \in DOMAIN Member[l] :
        Member[k][i] = Member[l][j] => k = l /\ i = j

ASSUME MutexAssumption == /\ Free \notin Callers \cup {Worker}
                          /\ Worker \notin Callers

VARIABLES
  started,     \* Thread::__started
  cancelled,   \* Thread::__cancelled
  prepared,    \* Thread::finalize_prepared
  hold,        \* Thread::__prepfin_hold
  aspects,     \* the aspects of the thread are initialised
  ready,       \* Thread::init() succeeded and Thread::finalize() has not been called
  worker,      \* where the pthread is
  loopMutex,   \* holder of Thread::loop_mutex
  antistarve,  \* holder of Thread::loopinterrupt_antistarve_mutex
  sealed,      \* ThreadList::__sealed
  listLock,    \* holder of the list's mutex
  managed,     \* ThreadManager::__untimed_threads
  op           \* what every caller is doing

flags == <<started, cancelled, prepared, hold>>
inits == <<aspects, ready>>
mutexes == <<loopMutex, antistarve>>
lists == <<sealed, listLock, managed>>
vars == <<flags, inits, worker, mutexes, lists, op>>

AddSteps == {"want_add", "aspects", "init", "undo", "seal", "start", "register"}
StopSteps == {"stop", "join", "finalize"}
RemoveSteps == {"want_remove", "prep_aspects", "prep_check", "prep_hold", "prep_starve",
                "prep_loop", "prep_user", "verdict", "cancel", "unlock", "unlock_again",
                "unlist"} \cup StopSteps

(* A call: the step, the list, the position in it, whether it is forced,   *)
(* whether some thread said no, whether something was thrown.              *)
Calls == [step : AddSteps \cup RemoveSteps, list : Lists, pos : Nat,
          force : BOOLEAN, no : BOOLEAN, threw : BOOLEAN]
Idle == [step |-> "idle"]

Members(l) == Range(Member[l])
At(c, s) == op[c].step = s
Current(c) == Member[op[c].list][op[c].pos]
Last(c) == Len(Member[op[c].list])

Init ==
  /\ started = [t \in Threads |-> FALSE]
  /\ cancelled = [t \in Threads |-> FALSE]
  /\ prepared = [t \in Threads |-> FALSE]
  /\ hold = [t \in Threads |-> FALSE]
  /\ aspects = [t \in Threads |-> FALSE]
  /\ ready = [t \in Threads |-> FALSE]
  /\ worker = [t \in Threads |-> "none"]
  /\ loopMutex = [t \in Threads |-> Free]
  /\ antistarve = [t \in Threads |-> Free]
  /\ sealed = [l \in Lists |-> FALSE]
  /\ listLock = [l \in Lists |-> Free]
  /\ managed = {}
  /\ op = [c \in Callers |-> Idle]

-----------------------------------------------------------------------------
(* The steps of a call.                                                    *)

Goto(c, s) == op' = [op EXCEPT ![c].step = s]
GotoAt(c, s, p) == op' = [op EXCEPT ![c].step = s, ![c].pos = p]
Return(c) == op' = [op EXCEPT ![c] = Idle]
Unlock(c) == listLock' = [listLock EXCEPT ![op[c].list] = Free]

(* add_maybelocked refuses a sealed list; otherwise it waits for the lock. *)
CallAdd(c, l) ==
  /\ At(c, "idle") /\ ~sealed[l]
  /\ op' = [op EXCEPT ![c] = [step |-> "want_add", list |-> l, pos |-> 1, force |-> FALSE,
                              no |-> FALSE, threw |-> FALSE]]
  /\ UNCHANGED <<flags, inits, worker, mutexes, lists>>

(* remove_maybelocked and force_remove accept sealed lists only.           *)
CallRemove(c, l, force) ==
  /\ At(c, "idle") /\ sealed[l]
  /\ op' = [op EXCEPT ![c] = [step |-> "want_remove", list |-> l, pos |-> Len(Member[l]),
                              force |-> force, no |-> FALSE, threw |-> FALSE]]
  /\ UNCHANGED <<flags, inits, worker, mutexes, lists>>

LockList(c) ==
  /\ op[c].step \in {"want_add", "want_remove"}
  /\ listLock[op[c].list] = Free
  /\ listLock' = [listLock EXCEPT ![op[c].list] = c]
  /\ \/ At(c, "want_add") /\ Goto(c, "aspects")
     \/ At(c, "want_remove") /\ Goto(c, "prep_aspects")
  /\ UNCHANGED <<flags, inits, worker, mutexes, sealed, managed>>

(* AspectManager::init: on failure it finalises what it had initialised.   *)
InitAspects(c) ==
  LET t == Current(c) IN
  /\ At(c, "aspects")
  /\ \/ aspects' = [aspects EXCEPT ![t] = TRUE] /\ Goto(c, "init")
     \/ t \in MayFailInit /\ GotoAt(c, "undo", op[c].pos - 1) /\ UNCHANGED aspects
  /\ UNCHANGED <<flags, ready, worker, mutexes, lists>>

(* Thread::init(): a failure finalises the aspects of this very thread.    *)
InitThread(c) ==
  LET t == Current(c) IN
  /\ At(c, "init")
  /\ \/ /\ ready' = [ready EXCEPT ![t] = TRUE]
        /\ IF op[c].pos < Last(c) THEN GotoAt(c, "aspects", op[c].pos + 1) ELSE Goto(c, "seal")
        /\ UNCHANGED aspects
     \/ /\ t \in MayFailInit
        /\ aspects' = [aspects EXCEPT ![t] = FALSE]
        /\ GotoAt(c, "undo", op[c].pos - 1)
        /\ UNCHANGED ready
  /\ UNCHANGED <<flags, worker, mutexes, lists>>

(* One thread of ThreadList::finalize: the aspects first, then             *)
(* Thread::finalize(), which may throw.                                    *)
Finalize(t) == /\ aspects' = [aspects EXCEPT ![t] = FALSE]
               /\ ready' = [ready EXCEPT ![t] = FALSE]

(* The threads initialised before the failure are finalised, last first;   *)
(* then add() unlocks and throws.                                          *)
Undo(c) ==
  /\ At(c, "undo")
  /\ IF op[c].pos = 0
     THEN Return(c) /\ Unlock(c) /\ UNCHANGED inits
     ELSE Finalize(Current(c)) /\ GotoAt(c, "undo", op[c].pos - 1) /\ UNCHANGED listLock
  /\ UNCHANGED <<flags, worker, mutexes, sealed, managed>>

Seal(c) ==
  /\ At(c, "seal")
  /\ sealed' = [sealed EXCEPT ![op[c].list] = TRUE]
  /\ GotoAt(c, "start", 1)
  /\ UNCHANGED <<flags, inits, worker, mutexes, listLock, managed>>

(* Thread::start sets its flags before pthread_create; if that fails the   *)
(* exception leaves add_maybelocked with the list still locked.            *)
Start(c) ==
  LET t == Current(c) IN
  /\ At(c, "start")
  /\ started' = [started EXCEPT ![t] = TRUE]
  /\ cancelled' = [cancelled EXCEPT ![t] = FALSE]
  /\ \/ /\ worker' = [worker EXCEPT ![t] = "born"]
        /\ IF op[c].pos < Last(c) THEN GotoAt(c, "start", op[c].pos + 1) ELSE Goto(c, "register")
     \/ t \in MayFailStart /\ Return(c) /\ UNCHANGED worker
  /\ UNCHANGED <<prepared, hold, inits, mutexes, lists>>

Register(c) ==
  /\ At(c, "register")
  /\ managed' = managed \cup Members(op[c].list)
  /\ Unlock(c) /\ Return(c)
  /\ UNCHANGED <<flags, inits, worker, mutexes, sealed>>

(* A call goes on with a new answer.                                       *)
Answer(o, s, p, no, threw) ==
  [step |-> s, list |-> o.list, pos |-> p, force |-> o.force, no |-> no, threw |-> threw]

(* The next thread of ThreadList::prepare_finalize; every thread is asked. *)
NextPrepared(c, no, threw) ==
  op' = [op EXCEPT ![c] =
           IF @.pos > 1 THEN Answer(@, "prep_aspects", @.pos - 1, @.no \/ no, @.threw \/ threw)
           ELSE Answer(@, "verdict", @.pos, @.no \/ no, @.threw \/ threw)]

(* AspectManager::prepare_finalize: an aspect may object.                  *)
PrepareAspects(c) ==
  /\ At(c, "prep_aspects")
  /\ \E no \in {FALSE} \cup {Current(c) \in MayVeto} :
        op' = [op EXCEPT ![c] = Answer(@, "prep_check", @.pos, @.no \/ no, @.threw)]
  /\ UNCHANGED <<flags, inits, worker, mutexes, lists>>

(* Thread::prepare_finalize throws for a thread that is not started or     *)
(* that is already prepared.                                               *)
PrepareCheck(c) ==
  LET t == Current(c) IN
  /\ At(c, "prep_check")
  /\ IF ~started[t] \/ prepared[t] THEN NextPrepared(c, FALSE, TRUE) ELSE Goto(c, "prep_hold")
  /\ UNCHANGED <<flags, inits, worker, mutexes, lists>>

(* It waits while somebody holds the finalisation ...                      *)
PrepareHold(c) ==
  LET t == Current(c) IN
  /\ At(c, "prep_hold") /\ ~hold[t]
  /\ IF t \in ConcLoop
     THEN prepared' = [prepared EXCEPT ![t] = TRUE] /\ Goto(c, "prep_user")
     ELSE Goto(c, "prep_starve") /\ UNCHANGED prepared
  /\ UNCHANGED <<started, cancelled, hold, inits, worker, mutexes, lists>>

(* ... bars the worker from its next iteration ...                         *)
PrepareStarve(c) ==
  LET t == Current(c) IN
  /\ At(c, "prep_starve") /\ antistarve[t] = Free
  /\ antistarve' = [antistarve EXCEPT ![t] = c]
  /\ Goto(c, "prep_loop")
  /\ UNCHANGED <<flags, inits, worker, loopMutex, lists>>

(* ... and waits for the end of the current one.                           *)
PrepareLoop(c) ==
  LET t == Current(c) IN
  /\ At(c, "prep_loop") /\ loopMutex[t] = Free
  /\ loopMutex' = [loopMutex EXCEPT ![t] = c]
  /\ prepared' = [prepared EXCEPT ![t] = TRUE]
  /\ Goto(c, "prep_user")
  /\ UNCHANGED <<started, cancelled, hold, inits, worker, antistarve, lists>>

(* prepare_finalize_user() answers; the mutexes are released.              *)
PrepareUser(c) ==
  LET t == Current(c) IN
  /\ At(c, "prep_user")
  /\ \E no \in {FALSE} \cup {t \in MayVeto} : NextPrepared(c, no, FALSE)
  /\ IF t \in ConcLoop
     THEN UNCHANGED mutexes
     ELSE /\ loopMutex' = [loopMutex EXCEPT ![t] = Free]
          /\ antistarve' = [antistarve EXCEPT ![t] = Free]
  /\ UNCHANGED <<flags, inits, worker, lists>>

(* Mutant: force_stop() gives up on a veto as it does on an exception.     *)
VerdictHeedsVeto(c) ==
  /\ At(c, "verdict")
  /\ CASE (op[c].threw \/ op[c].no) /\ op[c].force -> Goto(c, "unlist") /\ UNCHANGED listLock
       [] op[c].threw /\ ~op[c].force -> Return(c) /\ Unlock(c)
       [] ~op[c].threw /\ op[c].no /\ ~op[c].force ->
            GotoAt(c, "cancel", Last(c)) /\ UNCHANGED listLock
       [] OTHER -> GotoAt(c, "stop", Last(c)) /\ UNCHANGED listLock
  /\ UNCHANGED <<flags, inits, worker, mutexes, sealed, managed>>

(* What follows the questions: remove() throws, cancels the finalisation   *)
(* or stops the threads; force_stop() ignores a no, but an exception ends  *)
(* it, and force_remove() takes the threads from its list in every case.   *)
Verdict(c) ==
  /\ At(c, "verdict")
  /\ CASE op[c].threw /\ op[c].force -> Goto(c, "unlist") /\ UNCHANGED listLock
       [] op[c].threw /\ ~op[c].force -> Return(c) /\ Unlock(c)
       [] ~op[c].threw /\ op[c].no /\ ~op[c].force ->
            GotoAt(c, "cancel", Last(c)) /\ UNCHANGED listLock
       [] OTHER -> GotoAt(c, "stop", Last(c)) /\ UNCHANGED listLock
  /\ UNCHANGED <<flags, inits, worker, mutexes, sealed, managed>>

(* Mutant: the threads that did not object are forgotten.                  *)
CancelFinalizeFirstOnly(c) ==
  LET t == Current(c) IN
  /\ At(c, "cancel") /\ loopMutex[t] = Free
  /\ prepared' = [prepared EXCEPT ![t] = FALSE]
  /\ Goto(c, "unlock")
  /\ UNCHANGED <<started, cancelled, hold, inits, worker, mutexes, lists>>

(* Thread::cancel_finalize, which throws for a thread that is not started. *)
CancelFinalize(c) ==
  LET t == Current(c) IN
  /\ At(c, "cancel")
  /\ IF started[t]
     THEN /\ loopMutex[t] = Free
          /\ prepared' = [prepared EXCEPT ![t] = FALSE]
          /\ IF op[c].pos > 1 THEN GotoAt(c, "cancel", op[c].pos - 1) ELSE Goto(c, "unlock")
     ELSE Goto(c, "unlock_again") /\ UNCHANGED prepared
  /\ UNCHANGED <<started, cancelled, hold, inits, worker, mutexes, lists>>

(* After a veto remove_maybelocked unlocks the list and throws; the handler*)
(* of that exception, in the same function, unlocks it once more, whoever  *)
(* holds it by then.                                                       *)
UnlockVetoed(c) ==
  /\ \/ At(c, "unlock") /\ Goto(c, "unlock_again")
     \/ At(c, "unlock_again") /\ Return(c)
  /\ Unlock(c)
  /\ UNCHANGED <<flags, inits, worker, mutexes, sealed, managed>>

(* ThreadList::stop: Thread::cancel and Thread::join, last thread first.   *)
StopThread(c) ==
  LET t == Current(c) IN
  /\ At(c, "stop")
  /\ cancelled' = [cancelled EXCEPT ![t] = started[t] \/ @]
  /\ Goto(c, "join")
  /\ UNCHANGED <<started, prepared, hold, inits, worker, mutexes, lists>>

(* Mutant: join() does not wait for the pthread.                           *)
JoinThreadAtOnce(c) ==
  LET t == Current(c) IN
  /\ At(c, "join")
  /\ started' = [started EXCEPT ![t] = FALSE]
  /\ IF op[c].pos > 1 THEN GotoAt(c, "stop", op[c].pos - 1) ELSE GotoAt(c, "finalize", Last(c))
  /\ UNCHANGED <<cancelled, prepared, hold, inits, worker, mutexes, lists>>

(* join() also takes the loop mutex from a worker that died with it.       *)
JoinThread(c) ==
  LET t == Current(c) IN
  /\ At(c, "join")
  /\ IF started[t]
     THEN /\ worker[t] = "done"
          /\ worker' = [worker EXCEPT ![t] = "none"]
          /\ started' = [started EXCEPT ![t] = FALSE]
          /\ loopMutex' = [loopMutex EXCEPT ![t] = Free]
     ELSE UNCHANGED <<worker, started, loopMutex>>
  /\ IF op[c].pos > 1 THEN GotoAt(c, "stop", op[c].pos - 1) ELSE GotoAt(c, "finalize", Last(c))
  /\ UNCHANGED <<cancelled, prepared, hold, inits, antistarve, lists>>

(* ThreadList::finalize goes through all threads and throws at the end if  *)
(* one of them failed; force_stop ignores that.                            *)
FinalizeThread(c) ==
  LET t == Current(c) IN
  /\ At(c, "finalize")
  /\ Finalize(t)
  /\ \E fails \in {FALSE} \cup {t \in MayFailFinalize} :
       IF op[c].pos > 1
       THEN /\ op' = [op EXCEPT ![c] = Answer(@, "finalize", @.pos - 1, @.no, @.threw \/ fails)]
            /\ UNCHANGED listLock
       ELSE IF (fails \/ op[c].threw) /\ ~op[c].force
            THEN Return(c) /\ Unlock(c)
            ELSE Goto(c, "unlist") /\ UNCHANGED listLock
  /\ UNCHANGED <<flags, worker, mutexes, sealed, managed>>

Unlist(c) ==
  /\ At(c, "unlist")
  /\ managed' = managed \ Members(op[c].list)
  /\ Unlock(c) /\ Return(c)
  /\ UNCHANGED <<flags, inits, worker, mutexes, sealed>>

(* Thread::set_prepfin_hold, called by whoever needs the thread; it does   *)
(* not get its mutex while prepare_finalize() runs.                        *)
Preparing(t) == \E c \in Callers : op[c].step \in {"prep_starve", "prep_loop", "prep_user"}
                                     /\ Current(c) = t
SetHold(t, h) ==
  /\ t \in MayHold /\ hold[t] # h
  /\ ~Preparing(t)
  /\ h => ~prepared[t]
  /\ hold' = [hold EXCEPT ![t] = h]
  /\ UNCHANGED <<started, cancelled, prepared, inits, worker, mutexes, lists, op>>

-----------------------------------------------------------------------------
(* The worker of a thread: Thread::entry and Thread::run.                  *)

Move(t, w) == /\ worker' = [worker EXCEPT ![t] = w]
              /\ UNCHANGED <<flags, inits, antistarve, lists, op>>

(* once() runs under the loop mutex and asks nobody.                       *)
Once(t) ==
  /\ worker[t] = "born" /\ loopMutex[t] = Free
  /\ loopMutex' = [loopMutex EXCEPT ![t] = Worker]
  /\ Move(t, "once")

(* Mutant: the worker does not stop by at the second mutex.                *)
StopByNothing(t) ==
  /\ worker[t] = "idle"
  /\ Move(t, "pass") /\ UNCHANGED loopMutex

(* loopinterrupt_antistarve_mutex->stopby(); a thread in wait-for-wakeup   *)
(* mode may wait here for as long as nobody wakes it.                      *)
StopBy(t) ==
  /\ worker[t] = "idle" /\ antistarve[t] = Free
  /\ Move(t, "pass") /\ UNCHANGED loopMutex

AfterLoop(t) == IF cancelled[t] THEN "done" ELSE "idle"

(* Mutant: finalize_prepared is not looked at.                             *)
EnterLoopPrepared(t) ==
  /\ worker[t] = "pass" /\ loopMutex[t] = Free
  /\ Move(t, "loop") /\ loopMutex' = [loopMutex EXCEPT ![t] = Worker]

(* The worker takes the loop mutex; a prepared thread skips its loop().    *)
EnterLoop(t) ==
  /\ worker[t] = "pass" /\ loopMutex[t] = Free
  /\ IF prepared[t]
     THEN Move(t, AfterLoop(t)) /\ UNCHANGED loopMutex
     ELSE Move(t, "loop") /\ loopMutex' = [loopMutex EXCEPT ![t] = Worker]

(* The loop mutex is released and the cancellation tested.                 *)
LeaveLoop(t) ==
  /\ worker[t] \in {"once", "loop"}
  /\ loopMutex' = [loopMutex EXCEPT ![t] = Free]
  /\ Move(t, IF worker[t] = "once" THEN "idle" ELSE AfterLoop(t))

(* Death at a cancellation point, inside loop() with the mutex held.       *)
Die(t) ==
  /\ cancelled[t] /\ worker[t] \in {"once", "idle", "loop"}
  /\ Move(t, "done") /\ UNCHANGED loopMutex

(* Thread::loop()'s default, and Thread::exit(): pthread_exit() with the   *)
(* loop mutex held.                                                        *)
Exit(t) ==
  /\ t \in OneShot /\ worker[t] = "loop"
  /\ Move(t, "done") /\ UNCHANGED loopMutex

-----------------------------------------------------------------------------
CallerStep(c) ==
  \/ LockList(c) \/ InitAspects(c) \/ InitThread(c) \/ Undo(c) \/ Seal(c) \/ Start(c)
  \/ Register(c) \/ PrepareAspects(c) \/ PrepareCheck(c) \/ PrepareHold(c)
  \/ PrepareStarve(c) \/ PrepareLoop(c) \/ PrepareUser(c) \/ Verdict(c)
  \/ UnlockVetoed(c) \/ StopThread(c) \/ JoinThread(c) \/ FinalizeThread(c) \/ Unlist(c)

WorkerStep(t) == Once(t) \/ EnterLoop(t) \/ Die(t)

Next ==
  \/ \E c \in Callers : CallerStep(c) \/ CancelFinalize(c)
  \/ \E c \in Callers, l \in Lists : CallAdd(c, l) \/ \E f \in BOOLEAN : CallRemove(c, l, f)
  \/ \E t \in Threads : StopBy(t) \/ WorkerStep(t) \/ LeaveLoop(t) \/ Exit(t) \/ \E h \in BOOLEAN : SetHold(t, h)

(* Callers and workers are scheduled; once() and loop() return, except     *)
(* those of a thread that asked for concurrency because it blocks; who holds*)
(* a finalisation releases it and does not take it again each time before  *)
(* the waiting prepare_finalize() wakes up.  cancel_finalize() competes    *)
(* for the loop mutex with a worker that does no more than test a flag     *)
(* under it, and gets it some time.  No fairness says a worker is woken.   *)
Fairness ==
  /\ \A c \in Callers : /\ WF_vars(CallerStep(c))
                         /\ SF_vars(CancelFinalize(c)) /\ SF_vars(PrepareHold(c))
  /\ \A t \in Threads : WF_vars(WorkerStep(t)) /\ WF_vars(SetHold(t, FALSE))
  /\ \A t \in Threads \ ConcLoop : WF_vars(LeaveLoop(t))

Spec == Init /\ [][Next]_vars
FairSpec == Spec /\ Fairness

-----------------------------------------------------------------------------
(* Properties.                                                             *)

(* Every variable has its type and a call's position is in its list.       *)
TypeOK ==
  /\ flags \in [Threads -> BOOLEAN] \X [Threads -> BOOLEAN]
                 \X [Threads -> BOOLEAN] \X [Threads -> BOOLEAN]
  /\ inits \in [Threads -> BOOLEAN] \X [Threads -> BOOLEAN]
  /\ worker \in [Threads -> {"none", "born", "once", "idle", "pass", "loop", "done"}]
  /\ loopMutex \in [Threads -> Callers \cup {Free, Worker}]
  /\ antistarve \in [Threads -> Callers \cup {Free}]
  /\ sealed \in [Lists -> BOOLEAN] /\ listLock \in [Lists -> Callers \cup {Free}]
  /\ managed \subseteq Threads
  /\ op \in [Callers -> Calls \cup {Idle}]
  /\ \A c \in Callers : op[c] # Idle => op[c].pos \in 0 .. Last(c)
                                          /\ (op[c].pos = 0 => At(c, "undo"))

(* prepare_finalize_user() and loop() of a thread exclude each other,      *)
(* unless the thread asked for concurrency, and a thread that has been     *)
(* prepared does not loop until the finalisation is cancelled              *)
(* (thread.cpp: prepare_finalize, run and the two mutexes).                *)
PrepareExclusive ==
  \A t \in Threads \ ConcLoop : worker[t] = "loop" => ~prepared[t]

(* Between calls a list is in one piece (ThreadManager::add and remove are *)
(* all or nothing): no thread of it has been touched; or all of them are   *)
(* initialised, managed, started and not prepared to finalise, as if no    *)
(* finalisation had been tried; or all are stopped and finalised, which is *)
(* how a removal ends, successful or not.  A list whose lock was never     *)
(* given back has lost a pthread_create.                                   *)
Untouched(l) == \A t \in Members(l) : ~started[t] /\ ~aspects[t] /\ ~ready[t] /\ t \notin managed
Running(l) == \A t \in Members(l) : started[t] /\ aspects[t] /\ ready[t] /\ t \in managed
                                      /\ ~prepared[t]
Stopped(l) == \A t \in Members(l) : ~started[t] /\ ~aspects[t] /\ ~ready[t]
                                      /\ worker[t] = "none" /\ (t \in managed <=> Members(l) \subseteq managed)
Settled ==
  \A l \in Lists : listLock[l] = Free =>
     IF sealed[l] THEN Running(l) \/ Stopped(l) ELSE Untouched(l)

(* A thread is finalised once, after its pthread has ended or before it    *)
(* began: no step takes its initialisation away while its worker may run   *)
(* (ThreadList::stop before finalize; undo before start).                  *)
RestsFirst ==
  \A t \in Threads : (ready[t] /\ ~ready'[t]) \/ (aspects[t] /\ ~aspects'[t])
                       => worker[t] = "none" /\ ~started[t]
FinalizedAtRest == [][RestsFirst]_vars

(* A list whose lock stays with a caller that has left: a failed start.    *)
Abandoned(l) == sealed[l] /\ listLock[l] # Free
                  /\ \A c \in Callers : op[c] # Idle => op[c].step = "want_remove"
(* A call waits for the loop mutex of a worker that has ended itself with  *)
(* pthread_exit() in its loop(), or cancel_finalize() waits for a          *)
(* concurrent thread's loop(), which may block for ever.                   *)
HeldUp(c) ==
  LET t == Current(c) IN
  /\ op[c] # Idle /\ op[c].step \in {"prep_loop", "cancel"}
  /\ loopMutex[t] = Worker
  /\ worker[t] = "done" \/ (t \in ConcLoop /\ At(c, "cancel"))

(* Every call ends, however fast the threads loop, unless it needs a list  *)
(* that lost a pthread_create or a loop mutex that never comes back.       *)
CallsEnd ==
  \A c \in Callers : op[c] # Idle ~>
     op[c] = Idle \/ Abandoned(op[c].list) \/ HeldUp(c)

(* What the users of the manager see of a list.                            *)
Doing(l, steps) == \E c \in Callers : op[c] # Idle /\ op[c].list = l /\ op[c].step \in steps
StartSteps == {"start", "register"}
Listed(l) ==
  IF ~sealed[l] \/ Doing(l, StartSteps) THEN "fresh"
  ELSE IF Members(l) \cap managed = {}
       THEN IF \E t \in Members(l) : started[t] THEN "broken" ELSE "gone"
       ELSE IF Doing(l, StopSteps) \/ \A t \in Members(l) : started[t] THEN "running" ELSE "stopped"

Collector == INSTANCE ThreadCollector WITH state <- [l \in Lists |-> Listed(l)]
(* The manager implements the promise of ThreadCollector.                  *)
KeepsPromise == Collector!Spec
=============================================================================
