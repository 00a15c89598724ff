------------------------- MODULE ThreadManagerProofs -------------------------
(* Machine-checked proofs about ThreadManager: for any threads, any lists   *)
(* of them and whatever fails, one caller of the manager keeps every list   *)
(* in one piece, finalises only threads at rest, and never has a thread     *)
(* loop after it has been prepared to finalise.                             *)
EXTENDS ThreadManager, TLAPS

-----------------------------------------------------------------------------
(* The invariant.                                                           *)

(* A call is at a thread of its list.                                       *)
Placed ==
  \A c \in Callers : op[c] # Idle => op[c].pos \in 0 .. Last(c)
                                         /\ (op[c].pos = 0 => At(c, "undo"))

(* TypeOK, variable by variable.                                            *)
Typed ==
  /\ started \in [Threads -> BOOLEAN] /\ cancelled \in [Threads -> BOOLEAN]
  /\ prepared \in [Threads -> BOOLEAN] /\ hold \in [Threads -> BOOLEAN]
  /\ aspects \in [Threads -> BOOLEAN] /\ ready \in [Threads -> BOOLEAN]
  /\ worker \in [Threads -> {"none", "born", "once", "idle", "pass", "loop", "done"}]
  /\ loopMutex \in [Threads -> Callers \cup {Free, Worker}]
  /\ antistarve \in [Threads -> Callers \cup {Free}]
  /\ sealed \in [Lists -> BOOLEAN] /\ listLock \in [Lists -> Callers \cup {Free}]
  /\ managed \subseteq Threads
  /\ op \in [Callers -> Calls \cup {Idle}]
  /\ Placed

(* A thread that is not started has no pthread; once() and loop() run under *)
(* the loop mutex; a prepared thread does not loop.                         *)
WorkersAgree ==
  \A t \in Threads :
     /\ ~started[t] => worker[t] = "none"
     /\ worker[t] \in {"once", "loop"} => loopMutex[t] = Worker
     /\ t \notin ConcLoop /\ prepared[t] => worker[t] # "loop"

(* prepare_finalize() asks the user's method with both mutexes.             *)
MutexesAgree ==
  \A c \in Callers :
     At(c, "prep_user") /\ Current(c) \notin ConcLoop => loopMutex[Current(c)] = c

(* The states of a thread in the course of a call.                          *)
Fresh(t)    == ~started[t] /\ ~aspects[t] /\ ~ready[t] /\ t \notin managed /\ ~prepared[t]
Equipped(t) == ~started[t] /\  aspects[t] /\ ~ready[t] /\ t \notin managed /\ ~prepared[t]
Inited(t)   == ~started[t] /\  aspects[t] /\  ready[t] /\ t \notin managed /\ ~prepared[t]
Born(t)     ==  started[t] /\  aspects[t] /\  ready[t] /\ t \notin managed /\ ~prepared[t]
Up(t)       ==  started[t] /\  aspects[t] /\  ready[t] /\ t \in managed
Halted(t)   == ~started[t] /\  aspects[t] /\  ready[t] /\ t \in managed
Down(t)     == ~started[t] /\ ~aspects[t] /\ ~ready[t]

(* A list that is sealed and at rest.                                       *)
AllUp(l) == \A t \in Members(l) : Up(t) /\ ~prepared[t]
AllDown(l) == \A t \in Members(l) : Down(t) /\ (t \in managed <=> Members(l) \subseteq managed)

(* Where a call of add() has left thread i of its list.                     *)
Adding(o, i) ==
  LET t == Member[o.list][i] IN
  CASE o.step = "aspects" -> IF i < o.pos THEN Inited(t) ELSE Fresh(t)
    [] o.step = "init" -> IF i < o.pos THEN Inited(t)
                          ELSE IF i = o.pos THEN Equipped(t) ELSE Fresh(t)
    [] o.step = "undo" -> IF i <= o.pos THEN Inited(t) ELSE Fresh(t)
    [] o.step = "seal" -> Inited(t)
    [] o.step = "start" -> IF i < o.pos THEN Born(t) ELSE Inited(t)
    [] o.step = "register" -> Born(t)
    [] OTHER -> TRUE

(* Where a call of remove() has left thread i of a list that was running.   *)
AskSteps == {"prep_aspects", "prep_check", "prep_hold", "prep_starve", "prep_loop"}
Removing(o, i) ==
  LET t == Member[o.list][i] IN
  CASE o.step \in AskSteps -> Up(t) /\ (i <= o.pos => ~prepared[t])
    [] o.step = "prep_user" -> Up(t) /\ (i < o.pos => ~prepared[t])
    [] o.step = "verdict" -> Up(t)
    [] o.step = "cancel" -> Up(t) /\ (i > o.pos => ~prepared[t])
    [] o.step = "unlock" -> Up(t) /\ ~prepared[t]
    [] o.step \in {"stop", "join"} -> IF i <= o.pos THEN Up(t) ELSE Halted(t)
    [] o.step = "finalize" -> t \in managed /\ (IF i <= o.pos THEN Halted(t) ELSE Down(t))
    [] OTHER -> FALSE

(* A call of remove() on a list that was stopped: every thread makes        *)
(* Thread::prepare_finalize throw.                                          *)
Again(o) ==
  /\ AllDown(o.list)
  /\ o.step \in {"prep_aspects", "prep_check", "verdict", "unlist"}
  /\ o.threw \/ o.step = "unlist" \/ (o.step # "verdict" /\ o.pos = Len(Member[o.list]))

Unsealed == {"want_add", "aspects", "init", "undo", "seal"}
Waiting == {"want_add", "want_remove", "unlock_again"}

(* A call with the lock of its list.                                        *)
Busy(o) ==
  IF o.step \in AddSteps
  THEN \A i \in DOMAIN Member[o.list] : Adding(o, i)
  ELSE \/ /\ o.step \in AskSteps \cup {"prep_user", "verdict"} => ~o.threw
          /\ \A i \in DOMAIN Member[o.list] : Removing(o, i)
       \/ Again(o)

CallsAgree ==
  \A c \in Callers : op[c] # Idle =>
     /\ (op[c].step \in Unsealed) = ~sealed[op[c].list]
     /\ op[c].step = "want_add" => op[c].pos = 1
     /\ op[c].step = "want_remove" => op[c].pos = Len(Member[op[c].list]) /\ ~op[c].threw
     /\ op[c].step = "unlock_again" => listLock[op[c].list] = Free
     /\ op[c].step \notin Waiting => listLock[op[c].list] = c /\ Busy(op[c])

(* A list whose lock is free is at rest.                                    *)
AtRest(l) == IF sealed[l] THEN AllUp(l) \/ AllDown(l) ELSE \A t \in Members(l) : Fresh(t)
ListsAgree == \A l \in Lists : listLock[l] = Free => AtRest(l)

ManagerInv == Typed /\ WorkersAgree /\ MutexesAgree /\ CallsAgree /\ ListsAgree

-----------------------------------------------------------------------------
(* Lists, calls and their positions.                                        *)

LEMMA TypedSplit == (TypeOK <=> Typed) /\ (TypeOK' <=> Typed')
BY DEF TypeOK, Typed, Placed, flags, inits

LEMMA MemberFacts ==
  ASSUME NEW l \in Lists
  PROVE  /\ Member[l] \in Seq(Threads)
         /\ Len(Member[l]) \in Nat /\ Len(Member[l]) >= 1
         /\ DOMAIN Member[l] = 1 .. Len(Member[l])
         /\ \A i \in 1 .. Len(Member[l]) : Member[l][i] \in Threads /\ Member[l][i] \in Members(l)
         /\ \A t \in Members(l) : \E i \in 1 .. Len(Member[l]) : Member[l][i] = t
         /\ Members(l) \subseteq Threads /\ Members(l) # {}
<1>1. Member[l] \in Seq(Threads) /\ Member[l] # <<>>
  BY ListsAssumption
<1>2. /\ Len(Member[l]) \in Nat /\ Len(Member[l]) >= 1
      /\ DOMAIN Member[l] = 1 .. Len(Member[l])
      /\ \A i \in 1 .. Len(Member[l]) : Member[l][i] \in Threads
  BY <1>1
<1>3. Members(l) = {Member[l][i] : i \in 1 .. Len(Member[l])}
  BY <1>2 DEF Members, Range
<1>4. 1 \in 1 .. Len(Member[l])
  BY <1>2
<1>5. \A i \in 1 .. Len(Member[l]) : Member[l][i] \in Members(l)
  BY <1>3
<1>6. Members(l) # {}
  BY <1>4, <1>5
<1>7. Members(l) \subseteq Threads
  BY <1>2, <1>3
<1>8. \A t \in Members(l) : \E i \in 1 .. Len(Member[l]) : Member[l][i] = t
  BY <1>3
<1> QED BY <1>1, <1>2, <1>5, <1>6, <1>7, <1>8

(* Two lists share no thread, and a list names each of its threads once.    *)
LEMMA MembersApart ==
  /\ \A k, l \in Lists : k # l => Members(k) \cap Members(l) = {}
  /\ \A l \in Lists : \A i, j \in 1 .. Len(Member[l]) : Member[l][i] = Member[l][j] => i = j
<1>1. \A k, l \in Lists : \A i \in 1 .. Len(Member[k]), j \in 1 .. Len(Member[l]) :
        Member[k][i] = Member[l][j] => k = l /\ i = j
  BY MemberFacts, ListsAssumption
<1>2. \A l \in Lists : \A t \in Members(l) : \E i \in 1 .. Len(Member[l]) : Member[l][i] = t
  BY MemberFacts
<1> QED BY <1>1, <1>2

LEMMA Positions ==
  ASSUME Typed, NEW c \in Callers, op[c] # Idle
  PROVE  /\ op[c] \in Calls /\ op[c].list \in Lists
         /\ op[c].pos \in Nat /\ op[c].pos <= Last(c)
         /\ Last(c) = Len(Member[op[c].list]) /\ Last(c) \in Nat /\ Last(c) >= 1
         /\ ~At(c, "undo") => op[c].pos >= 1
         /\ op[c].pos >= 1 => Current(c) = Member[op[c].list][op[c].pos]
                                 /\ Current(c) \in Threads /\ Current(c) \in Members(op[c].list)
<1>1. op[c] \in Calls /\ op[c].list \in Lists
  BY DEF Typed, Calls
<1> QED BY <1>1, MemberFacts DEF Typed, Placed, Last, Current, At, Calls

(* What a step does to the record of a call.                                *)
Steps == AddSteps \cup RemoveSteps

LEMMA GotoFacts ==
  ASSUME Typed, NEW c \in Callers, op[c] # Idle, NEW s \in Steps, Goto(c, s)
  PROVE  /\ op' \in [Callers -> Calls \cup {Idle}]
         /\ op'[c] \in Calls /\ op'[c] # Idle
         /\ op'[c].step = s /\ op'[c].list = op[c].list /\ op'[c].pos = op[c].pos
         /\ op'[c].threw = op[c].threw
BY Positions DEF Typed, Goto, Calls, Idle, Steps, AddSteps, RemoveSteps, StopSteps

LEMMA GotoAtFacts ==
  ASSUME Typed, NEW c \in Callers, op[c] # Idle, NEW s \in Steps, NEW p \in Nat, GotoAt(c, s, p)
  PROVE  /\ op' \in [Callers -> Calls \cup {Idle}]
         /\ op'[c] \in Calls /\ op'[c] # Idle
         /\ op'[c].step = s /\ op'[c].list = op[c].list /\ op'[c].pos = p
         /\ op'[c].threw = op[c].threw
<1>1. op[c] \in Calls /\ op' = [op EXCEPT ![c].step = s, ![c].pos = p]
      /\ op \in [Callers -> Calls \cup {Idle}]
  BY Positions DEF GotoAt, Typed
<1>2. op'[c] = [op[c] EXCEPT !.step = s, !.pos = p]
  BY <1>1
<1>3. /\ op'[c] \in Calls
      /\ op'[c].step = s /\ op'[c].list = op[c].list /\ op'[c].pos = p
      /\ op'[c].threw = op[c].threw
  BY <1>1, <1>2 DEF Calls, Steps
<1>4. s # "idle"
  BY DEF Steps, AddSteps, RemoveSteps, StopSteps
<1>5. op'[c] # Idle
  BY <1>3, <1>4 DEF Idle
<1>6. op' \in [Callers -> Calls \cup {Idle}]
  BY <1>1, <1>3
<1> QED BY <1>3, <1>5, <1>6

(* A call returns.                                                          *)
LEMMA ReturnFacts ==
  ASSUME Typed, NEW c \in Callers, Return(c)
  PROVE  op' \in [Callers -> Calls \cup {Idle}] /\ op'[c] = Idle
BY DEF Typed, Return

(* The records of calls keep their type when one caller moves.              *)
LEMMA AnswerCalls ==
  ASSUME NEW o \in Calls, NEW s \in Steps, NEW p \in Nat, NEW no \in BOOLEAN, NEW threw \in BOOLEAN
  PROVE  Answer(o, s, p, no, threw) \in Calls
BY DEF Calls, Answer, Steps

LEMMA OpBecomes ==
  ASSUME Typed, NEW c \in Callers, NEW r \in Calls, op' = [op EXCEPT ![c] = r]
  PROVE  op' \in [Callers -> Calls \cup {Idle}] /\ op'[c] = r /\ op'[c] # Idle
<1>1. r # Idle
  <2>1. r.step # "idle"
    BY DEF Calls, AddSteps, RemoveSteps, StopSteps
  <2> QED BY <2>1 DEF Idle
<1> QED BY <1>1 DEF Typed

LEMMA NextPreparedFacts ==
  ASSUME Typed, NEW c \in Callers, op[c] # Idle, ~At(c, "undo"),
         NEW no \in BOOLEAN, NEW threw \in BOOLEAN, NextPrepared(c, no, threw)
  PROVE  /\ op' \in [Callers -> Calls \cup {Idle}] /\ op'[c] # Idle
         /\ op'[c].list = op[c].list /\ (op'[c].threw <=> op[c].threw \/ threw)
         /\ op[c].pos > 1 => op'[c].step = "prep_aspects" /\ op'[c].pos = op[c].pos - 1
         /\ op[c].pos <= 1 => op'[c].step = "verdict" /\ op'[c].pos = op[c].pos
<1>1. op[c] \in Calls /\ op[c].pos \in Nat /\ op[c].pos >= 1
  BY Positions
<1>2. PICK n \in BOOLEAN, w \in BOOLEAN :
        /\ w <=> op[c].threw \/ threw
        /\ op' = [op EXCEPT ![c] = IF op[c].pos > 1
                                   THEN Answer(op[c], "prep_aspects", op[c].pos - 1, n, w)
                                   ELSE Answer(op[c], "verdict", op[c].pos, n, w)]
  <2>1. PICK n \in BOOLEAN, w \in BOOLEAN :
          n = (op[c].no \/ no) /\ w = (op[c].threw \/ threw)
    OBVIOUS
  <2> QED BY <2>1, Zenon DEF NextPrepared
<1>3. CASE op[c].pos > 1
  <2> DEFINE r == Answer(op[c], "prep_aspects", op[c].pos - 1, n, w)
  <2>1. op' = [op EXCEPT ![c] = r]
    BY <1>2, <1>3, Zenon
  <2>2. r \in Calls
    <3>1. op[c].pos - 1 \in Nat
      BY <1>1, <1>3
    <3> QED BY <1>1, <3>1, AnswerCalls DEF Steps, RemoveSteps
  <2>3. r.step = "prep_aspects" /\ r.list = op[c].list /\ r.pos = op[c].pos - 1 /\ r.threw = w
    BY Zenon DEF Answer
  <2> HIDE DEF r
  <2>4. op' \in [Callers -> Calls \cup {Idle}] /\ op'[c] = r /\ op'[c] # Idle
    BY <2>1, <2>2, OpBecomes
  <2>5. op'[c].threw <=> op[c].threw \/ threw
    BY <1>2, <2>3, <2>4, Zenon
  <2> QED BY <1>1, <1>3, <2>3, <2>4, <2>5
<1>4. CASE ~(op[c].pos > 1)
  <2> DEFINE r == Answer(op[c], "verdict", op[c].pos, n, w)
  <2>1. op' = [op EXCEPT ![c] = r]
    BY <1>2, <1>4, Zenon
  <2>2. r \in Calls
    BY <1>1, AnswerCalls DEF Steps, RemoveSteps
  <2>3. r.step = "verdict" /\ r.list = op[c].list /\ r.pos = op[c].pos /\ r.threw = w
    BY Zenon DEF Answer
  <2> HIDE DEF r
  <2>4. op' \in [Callers -> Calls \cup {Idle}] /\ op'[c] = r /\ op'[c] # Idle
    BY <2>1, <2>2, OpBecomes
  <2>5. op'[c].threw <=> op[c].threw \/ threw
    BY <1>2, <2>3, <2>4, Zenon
  <2> QED BY <1>1, <1>4, <2>3, <2>4, <2>5
<1> QED BY <1>3, <1>4

LEMMA AspectsFacts ==
  ASSUME Typed, NEW c \in Callers, op[c] # Idle, PrepareAspects(c)
  PROVE  /\ op' \in [Callers -> Calls \cup {Idle}] /\ op'[c] # Idle
         /\ op'[c].step = "prep_check" /\ op'[c].list = op[c].list /\ op'[c].pos = op[c].pos
         /\ op'[c].threw = op[c].threw
<1>1. op[c] \in Calls /\ op[c].pos \in Nat /\ op[c].threw \in BOOLEAN
  BY Positions DEF Calls
<1>2. PICK n \in BOOLEAN :
        op' = [op EXCEPT ![c] = Answer(op[c], "prep_check", op[c].pos, n, op[c].threw)]
  BY Zenon DEF PrepareAspects
<1> DEFINE r == Answer(op[c], "prep_check", op[c].pos, n, op[c].threw)
<1>3. r \in Calls
  BY <1>1, AnswerCalls DEF Steps, RemoveSteps
<1>4. r.step = "prep_check" /\ r.list = op[c].list /\ r.pos = op[c].pos /\ r.threw = op[c].threw
  BY Zenon DEF Answer
<1>5. op' = [op EXCEPT ![c] = r]
  BY <1>2
<1> HIDE DEF r
<1>6. op' \in [Callers -> Calls \cup {Idle}] /\ op'[c] = r /\ op'[c] # Idle
  BY <1>3, <1>5, OpBecomes
<1> QED BY <1>4, <1>6, Zenon

LEMMA PreparedFacts ==
  ASSUME Typed, NEW c \in Callers, op[c] # Idle, PrepareUser(c)
  PROVE  /\ op' \in [Callers -> Calls \cup {Idle}] /\ op'[c] # Idle
         /\ op'[c].list = op[c].list /\ (op'[c].threw <=> op[c].threw)
         /\ op[c].pos > 1 => op'[c].step = "prep_aspects" /\ op'[c].pos = op[c].pos - 1
         /\ op[c].pos <= 1 => op'[c].step = "verdict" /\ op'[c].pos = op[c].pos
<1>1. PICK no \in BOOLEAN : NextPrepared(c, no, FALSE)
  BY Zenon DEF PrepareUser
<1>2. ~At(c, "undo")
  BY DEF PrepareUser, At
<1> QED BY <1>1, <1>2, NextPreparedFacts

LEMMA CheckFacts ==
  ASSUME Typed, NEW c \in Callers, op[c] # Idle, PrepareCheck(c)
  PROVE  /\ op' \in [Callers -> Calls \cup {Idle}] /\ op'[c] # Idle
         /\ op'[c].list = op[c].list
         /\ \/ /\ ~started[Current(c)] \/ prepared[Current(c)]
               /\ op'[c].threw
               /\ op[c].pos > 1 => op'[c].step = "prep_aspects" /\ op'[c].pos = op[c].pos - 1
               /\ op[c].pos <= 1 => op'[c].step = "verdict" /\ op'[c].pos = op[c].pos
            \/ /\ started[Current(c)] /\ ~prepared[Current(c)]
               /\ op'[c].threw = op[c].threw
               /\ op'[c].step = "prep_hold" /\ op'[c].pos = op[c].pos
<1>1. ~At(c, "undo") /\ "prep_hold" \in Steps
  BY DEF PrepareCheck, At, Steps, RemoveSteps
<1>2. CASE ~started[Current(c)] \/ prepared[Current(c)]
  <2>1. PICK n \in BOOLEAN, y \in BOOLEAN : y /\ NextPrepared(c, n, y)
    BY <1>2, Zenon DEF PrepareCheck
  <2> QED BY <1>1, <1>2, <2>1, NextPreparedFacts
<1>3. CASE ~(~started[Current(c)] \/ prepared[Current(c)])
  <2>1. Goto(c, "prep_hold")
    BY <1>3, Zenon DEF PrepareCheck
  <2> QED BY <1>1, <1>3, <2>1, GotoFacts
<1> QED BY <1>2, <1>3

(* The next thread of ThreadList::finalize.                                 *)
LEMMA FinalizeFacts ==
  ASSUME Typed, NEW c \in Callers, op[c] # Idle, FinalizeThread(c)
  PROVE  /\ op' \in [Callers -> Calls \cup {Idle}] /\ op[c].pos >= 1
         /\ \/ /\ op[c].pos > 1 /\ op'[c] # Idle
               /\ op'[c].step = "finalize" /\ op'[c].list = op[c].list
               /\ op'[c].pos = op[c].pos - 1 /\ listLock' = listLock
            \/ /\ op[c].pos = 1 /\ op'[c] # Idle
               /\ op'[c].step = "unlist" /\ op'[c].list = op[c].list
               /\ op'[c].pos = 1 /\ listLock' = listLock
            \/ op[c].pos = 1 /\ op'[c] = Idle /\ Unlock(c)
<1>1. op[c] \in Calls /\ op[c].pos \in Nat /\ op[c].pos >= 1 /\ op[c].no \in BOOLEAN
  BY Positions DEF FinalizeThread, At, Calls
<1>2. CASE op[c].pos > 1
  <2>1. PICK w \in BOOLEAN :
          op' = [op EXCEPT ![c] = Answer(op[c], "finalize", op[c].pos - 1, op[c].no, w)]
    BY <1>2, Zenon DEF FinalizeThread
  <2> DEFINE r == Answer(op[c], "finalize", op[c].pos - 1, op[c].no, w)
  <2>2. r \in Calls
    <3>1. op[c].pos - 1 \in Nat
      BY <1>1, <1>2
    <3> QED BY <1>1, <3>1, AnswerCalls DEF Steps, RemoveSteps, StopSteps
  <2>3. r.step = "finalize" /\ r.list = op[c].list /\ r.pos = op[c].pos - 1
    BY Zenon DEF Answer
  <2>4. op' = [op EXCEPT ![c] = r] /\ listLock' = listLock
    BY <1>2, <2>1, Zenon DEF FinalizeThread
  <2> HIDE DEF r
  <2>5. op' \in [Callers -> Calls \cup {Idle}] /\ op'[c] = r /\ op'[c] # Idle
    BY <2>2, <2>4, OpBecomes
  <2> QED BY <1>1, <1>2, <2>3, <2>4, <2>5
<1>3. CASE ~(op[c].pos > 1)
  <2>1. op[c].pos = 1
    BY <1>1, <1>3
  <2>2. (Return(c) /\ Unlock(c)) \/ (Goto(c, "unlist") /\ listLock' = listLock)
    BY <1>3, Zenon DEF FinalizeThread
  <2>3. "unlist" \in Steps
    BY DEF Steps, RemoveSteps
  <2> QED BY <1>1, <2>1, <2>2, <2>3, ReturnFacts, GotoFacts
<1> QED BY <1>2, <1>3

LEMMA OpPlaced ==
  ASSUME NEW c \in Callers, \A x \in Callers : x = c,
         op'[c] # Idle => op'[c].pos \in 0 .. Len(Member[op'[c].list])
                            /\ (op'[c].pos = 0 => op'[c].step = "undo")
  PROVE  Placed'
BY DEF Placed, Last, At

LEMMA Active == \A c \in Callers : op[c].step # "idle" => op[c] # Idle
BY DEF Idle

-----------------------------------------------------------------------------
(* Types.                                                                   *)

LEMMA InitTyped == Init => Typed
BY DEF Init, Typed, Placed

LEMMA CallTyped ==
  ASSUME Typed, NEW c \in Callers, \A x \in Callers : x = c, NEW l \in Lists,
         CallAdd(c, l) \/ \E f \in BOOLEAN : CallRemove(c, l, f)
  PROVE  Typed'
<1>1. PICK r \in Calls : op' = [op EXCEPT ![c] = r] /\ r.list = l /\ r.pos \in 1 .. Len(Member[l])
  <2> DEFINE add == [step |-> "want_add", list |-> l, pos |-> 1, force |-> FALSE,
                     no |-> FALSE, threw |-> FALSE]
             remove(f) == [step |-> "want_remove", list |-> l, pos |-> Len(Member[l]),
                           force |-> f, no |-> FALSE, threw |-> FALSE]
  <2>1. add \in Calls /\ add.list = l /\ add.pos \in 1 .. Len(Member[l])
    BY MemberFacts DEF Calls, AddSteps
  <2>2. \A f \in BOOLEAN : /\ remove(f) \in Calls /\ remove(f).list = l
                            /\ remove(f).pos \in 1 .. Len(Member[l])
    BY MemberFacts DEF Calls, RemoveSteps
  <2> QED BY <2>1, <2>2, Zenon DEF CallAdd, CallRemove
<1>3. op' \in [Callers -> Calls \cup {Idle}] /\ op'[c].pos \in 1 .. Len(Member[op'[c].list])
  BY <1>1 DEF Typed
<1>2. Placed'
  BY <1>3, MemberFacts, OpPlaced
<1> QED BY <1>2, <1>3 DEF Typed, CallAdd, CallRemove, flags, inits, mutexes, lists

LEMMA CallerTyped ==
  ASSUME Typed, NEW c \in Callers, \A x \in Callers : x = c, CallerStep(c) \/ CancelFinalize(c)
  PROVE  Typed'
<1>1. CASE LockList(c)
  <2>1. op[c] # Idle
    BY <1>1, Active DEF LockList, At
  <2>2. op' \in [Callers -> Calls \cup {Idle}]
      /\ (op'[c] # Idle => op'[c].pos \in 0 .. Len(Member[op'[c].list])
                             /\ (op'[c].pos = 0 => op'[c].step = "undo"))
    BY <1>1, <2>1, Positions, GotoFacts DEF LockList, Steps, AddSteps, RemoveSteps, StopSteps, At
  <2>3. Placed'
    BY <2>2, OpPlaced
  <2> QED BY <1>1, <2>1, <2>2, <2>3, Positions DEF Typed, LockList, flags, inits, mutexes, lists, At
<1>2. CASE InitAspects(c)
  <2>1. op[c] # Idle
    BY <1>2, Active DEF InitAspects, At
  <2>2. op' \in [Callers -> Calls \cup {Idle}]
      /\ (op'[c] # Idle => op'[c].pos \in 0 .. Len(Member[op'[c].list])
                             /\ (op'[c].pos = 0 => op'[c].step = "undo"))
    BY <1>2, <2>1, Positions, GotoFacts, GotoAtFacts DEF InitAspects, Steps, AddSteps, RemoveSteps, StopSteps, At
  <2>3. Placed'
    BY <2>2, OpPlaced
  <2> QED BY <1>2, <2>1, <2>2, <2>3, Positions DEF Typed, InitAspects, flags, inits, mutexes, lists, At
<1>3. CASE InitThread(c)
  <2>1. op[c] # Idle
    BY <1>3, Active DEF InitThread, At
  <2>2. op' \in [Callers -> Calls \cup {Idle}]
      /\ (op'[c] # Idle => op'[c].pos \in 0 .. Len(Member[op'[c].list])
                             /\ (op'[c].pos = 0 => op'[c].step = "undo"))
    BY <1>3, <2>1, Positions, GotoFacts, GotoAtFacts, SMTT(40) DEF InitThread, Steps, AddSteps, RemoveSteps, StopSteps, At
  <2>3. Placed'
    BY <2>2, OpPlaced
  <2> QED BY <1>3, <2>1, <2>2, <2>3, Positions DEF Typed, InitThread, flags, inits, mutexes, lists, At
<1>4. CASE Undo(c)
  <2>1. op[c] # Idle
    BY <1>4, Active DEF Undo, At
  <2>2. op' \in [Callers -> Calls \cup {Idle}]
      /\ (op'[c] # Idle => op'[c].pos \in 0 .. Len(Member[op'[c].list])
                             /\ (op'[c].pos = 0 => op'[c].step = "undo"))
    BY <1>4, <2>1, Positions, ReturnFacts, GotoAtFacts DEF Undo, Steps, AddSteps, RemoveSteps, StopSteps, At, Finalize, Unlock
  <2>3. Placed'
    BY <2>2, OpPlaced
  <2> QED BY <1>4, <2>1, <2>2, <2>3, Positions DEF Typed, Undo, flags, inits, mutexes, lists, At, Finalize, Unlock
<1>5. CASE Seal(c)
  <2>1. op[c] # Idle
    BY <1>5, Active DEF Seal, At
  <2>2. op' \in [Callers -> Calls \cup {Idle}]
      /\ (op'[c] # Idle => op'[c].pos \in 0 .. Len(Member[op'[c].list])
                             /\ (op'[c].pos = 0 => op'[c].step = "undo"))
    BY <1>5, <2>1, Positions, GotoAtFacts DEF Seal, Steps, AddSteps, RemoveSteps, StopSteps, At
  <2>3. Placed'
    BY <2>2, OpPlaced
  <2> QED BY <1>5, <2>1, <2>2, <2>3, Positions DEF Typed, Seal, flags, inits, mutexes, lists, At
<1>6. CASE Start(c)
  <2>1. op[c] # Idle
    BY <1>6, Active DEF Start, At
  <2>2. op' \in [Callers -> Calls \cup {Idle}]
      /\ (op'[c] # Idle => op'[c].pos \in 0 .. Len(Member[op'[c].list])
                             /\ (op'[c].pos = 0 => op'[c].step = "undo"))
    BY <1>6, <2>1, Positions, ReturnFacts, GotoFacts, GotoAtFacts DEF Start, Steps, AddSteps, RemoveSteps, StopSteps, At
  <2>3. Placed'
    BY <2>2, OpPlaced
  <2> QED BY <1>6, <2>1, <2>2, <2>3, Positions DEF Typed, Start, flags, inits, mutexes, lists, At
<1>7. CASE Register(c)
  <2>1. op[c] # Idle
    BY <1>7, Active DEF Register, At
  <2>2. op' \in [Callers -> Calls \cup {Idle}]
      /\ (op'[c] # Idle => op'[c].pos \in 0 .. Len(Member[op'[c].list])
                             /\ (op'[c].pos = 0 => op'[c].step = "undo"))
    BY <1>7, <2>1, Positions, ReturnFacts DEF Register, Steps, AddSteps, RemoveSteps, StopSteps, At, Unlock
  <2>3. Placed'
    BY <2>2, OpPlaced
  <2> QED BY <1>7, <2>1, <2>2, <2>3, Positions, MemberFacts DEF Typed, Register, flags, inits, mutexes, lists, At, Unlock
<1>8. CASE PrepareAspects(c)
  <2>1. op[c] # Idle
    BY <1>8, Active DEF PrepareAspects, At
  <2>4. op[c].pos \in Nat /\ op[c].pos >= 1 /\ op[c].pos <= Len(Member[op[c].list])
    BY <1>8, <2>1, Positions DEF PrepareAspects, At
  <2>2. op' \in [Callers -> Calls \cup {Idle}]
      /\ (op'[c] # Idle => op'[c].pos \in 0 .. Len(Member[op'[c].list])
                             /\ (op'[c].pos = 0 => op'[c].step = "undo"))
    BY <1>8, <2>1, <2>4, AspectsFacts
  <2>3. Placed'
    BY <2>2, OpPlaced
  <2> QED BY <1>8, <2>1, <2>2, <2>3, Positions DEF Typed, PrepareAspects, flags, inits, mutexes, lists, At
<1>9. CASE PrepareCheck(c)
  <2>1. op[c] # Idle
    BY <1>9, Active DEF PrepareCheck, At
  <2>4. op[c].pos \in Nat /\ op[c].pos >= 1 /\ op[c].pos <= Len(Member[op[c].list])
    BY <1>9, <2>1, Positions DEF PrepareCheck, At
  <2>2. op' \in [Callers -> Calls \cup {Idle}]
      /\ (op'[c] # Idle => op'[c].pos \in 0 .. Len(Member[op'[c].list])
                             /\ (op'[c].pos = 0 => op'[c].step = "undo"))
    BY <1>9, <2>1, <2>4, CheckFacts
  <2>3. Placed'
    BY <2>2, OpPlaced
  <2> QED BY <1>9, <2>1, <2>2, <2>3, Positions DEF Typed, PrepareCheck, flags, inits, mutexes, lists, At
<1>10. CASE PrepareHold(c)
  <2>1. op[c] # Idle
    BY <1>10, Active DEF PrepareHold, At
  <2>2. op' \in [Callers -> Calls \cup {Idle}]
      /\ (op'[c] # Idle => op'[c].pos \in 0 .. Len(Member[op'[c].list])
                             /\ (op'[c].pos = 0 => op'[c].step = "undo"))
    BY <1>10, <2>1, Positions, GotoFacts DEF PrepareHold, Steps, AddSteps, RemoveSteps, StopSteps, At
  <2>3. Placed'
    BY <2>2, OpPlaced
  <2> QED BY <1>10, <2>1, <2>2, <2>3, Positions DEF Typed, PrepareHold, flags, inits, mutexes, lists, At
<1>11. CASE PrepareStarve(c)
  <2>1. op[c] # Idle
    BY <1>11, Active DEF PrepareStarve, At
  <2>2. op' \in [Callers -> Calls \cup {Idle}]
      /\ (op'[c] # Idle => op'[c].pos \in 0 .. Len(Member[op'[c].list])
                             /\ (op'[c].pos = 0 => op'[c].step = "undo"))
    BY <1>11, <2>1, Positions, GotoFacts DEF PrepareStarve, Steps, AddSteps, RemoveSteps, StopSteps, At
  <2>3. Placed'
    BY <2>2, OpPlaced
  <2> QED BY <1>11, <2>1, <2>2, <2>3, Positions DEF Typed, PrepareStarve, flags, inits, mutexes, lists, At
<1>12. CASE PrepareLoop(c)
  <2>1. op[c] # Idle
    BY <1>12, Active DEF PrepareLoop, At
  <2>2. op' \in [Callers -> Calls \cup {Idle}]
      /\ (op'[c] # Idle => op'[c].pos \in 0 .. Len(Member[op'[c].list])
                             /\ (op'[c].pos = 0 => op'[c].step = "undo"))
    BY <1>12, <2>1, Positions, GotoFacts DEF PrepareLoop, Steps, AddSteps, RemoveSteps, StopSteps, At
  <2>3. Placed'
    BY <2>2, OpPlaced
  <2> QED BY <1>12, <2>1, <2>2, <2>3, Positions DEF Typed, PrepareLoop, flags, inits, mutexes, lists, At
<1>13. CASE PrepareUser(c)
  <2>1. op[c] # Idle
    BY <1>13, Active DEF PrepareUser, At
  <2>4. op[c].pos \in Nat /\ op[c].pos >= 1 /\ op[c].pos <= Len(Member[op[c].list])
    BY <1>13, <2>1, Positions DEF PrepareUser, At
  <2>2. op' \in [Callers -> Calls \cup {Idle}]
      /\ (op'[c] # Idle => op'[c].pos \in 0 .. Len(Member[op'[c].list])
                             /\ (op'[c].pos = 0 => op'[c].step = "undo"))
    BY <1>13, <2>1, <2>4, PreparedFacts
  <2>3. Placed'
    BY <2>2, OpPlaced
  <2> QED BY <1>13, <2>1, <2>2, <2>3, Positions DEF Typed, PrepareUser, flags, inits, mutexes, lists, At
<1>14. CASE Verdict(c)
  <2>1. op[c] # Idle
    BY <1>14, Active DEF Verdict, At
  <2>2. op' \in [Callers -> Calls \cup {Idle}]
      /\ (op'[c] # Idle => op'[c].pos \in 0 .. Len(Member[op'[c].list])
                             /\ (op'[c].pos = 0 => op'[c].step = "undo"))
    BY <1>14, <2>1, Positions, ReturnFacts, GotoFacts, GotoAtFacts DEF Verdict, Steps, AddSteps, RemoveSteps, StopSteps, At, Unlock
  <2>3. Placed'
    BY <2>2, OpPlaced
  <2> QED BY <1>14, <2>1, <2>2, <2>3, Positions DEF Typed, Verdict, flags, inits, mutexes, lists, At, Unlock
<1>15. CASE UnlockVetoed(c)
  <2>1. op[c] # Idle
    BY <1>15, Active DEF UnlockVetoed, At
  <2>2. op' \in [Callers -> Calls \cup {Idle}]
      /\ (op'[c] # Idle => op'[c].pos \in 0 .. Len(Member[op'[c].list])
                             /\ (op'[c].pos = 0 => op'[c].step = "undo"))
    BY <1>15, <2>1, Positions, ReturnFacts, GotoFacts DEF UnlockVetoed, Steps, AddSteps, RemoveSteps, StopSteps, At, Unlock
  <2>3. Placed'
    BY <2>2, OpPlaced
  <2> QED BY <1>15, <2>1, <2>2, <2>3, Positions DEF Typed, UnlockVetoed, flags, inits, mutexes, lists, At, Unlock
<1>16. CASE StopThread(c)
  <2>1. op[c] # Idle
    BY <1>16, Active DEF StopThread, At
  <2>2. op' \in [Callers -> Calls \cup {Idle}]
      /\ (op'[c] # Idle => op'[c].pos \in 0 .. Len(Member[op'[c].list])
                             /\ (op'[c].pos = 0 => op'[c].step = "undo"))
    BY <1>16, <2>1, Positions, GotoFacts DEF StopThread, Steps, AddSteps, RemoveSteps, StopSteps, At
  <2>3. Placed'
    BY <2>2, OpPlaced
  <2> QED BY <1>16, <2>1, <2>2, <2>3, Positions DEF Typed, StopThread, flags, inits, mutexes, lists, At
<1>17. CASE JoinThread(c)
  <2>1. op[c] # Idle
    BY <1>17, Active DEF JoinThread, At
  <2>2. op' \in [Callers -> Calls \cup {Idle}]
      /\ (op'[c] # Idle => op'[c].pos \in 0 .. Len(Member[op'[c].list])
                             /\ (op'[c].pos = 0 => op'[c].step = "undo"))
    BY <1>17, <2>1, Positions, GotoAtFacts DEF JoinThread, Steps, AddSteps, RemoveSteps, StopSteps, At
  <2>3. Placed'
    BY <2>2, OpPlaced
  <2> QED BY <1>17, <2>1, <2>2, <2>3, Positions DEF Typed, JoinThread, flags, inits, mutexes, lists, At
<1>18. CASE FinalizeThread(c)
  <2>1. op[c] # Idle
    BY <1>18, Active DEF FinalizeThread, At
  <2>2. op' \in [Callers -> Calls \cup {Idle}]
      /\ (op'[c] # Idle => op'[c].pos \in 0 .. Len(Member[op'[c].list])
                             /\ (op'[c].pos = 0 => op'[c].step = "undo"))
    BY <2>1, <1>18, Positions, MemberFacts, FinalizeFacts
  <2>3. Placed'
    BY <2>2, OpPlaced
  <2> QED BY <1>18, <2>1, <2>2, <2>3, Positions DEF Typed, FinalizeThread, flags, inits, mutexes, lists, At, Finalize, Unlock
<1>19. CASE Unlist(c)
  <2>1. op[c] # Idle
    BY <1>19, Active DEF Unlist, At
  <2>2. op' \in [Callers -> Calls \cup {Idle}]
      /\ (op'[c] # Idle => op'[c].pos \in 0 .. Len(Member[op'[c].list])
                             /\ (op'[c].pos = 0 => op'[c].step = "undo"))
    BY <1>19, <2>1, Positions, ReturnFacts DEF Unlist, Steps, AddSteps, RemoveSteps, StopSteps, At, Unlock
  <2>3. Placed'
    BY <2>2, OpPlaced
  <2> QED BY <1>19, <2>1, <2>2, <2>3, Positions DEF Typed, Unlist, flags, inits, mutexes, lists, At, Unlock
<1>20. CASE CancelFinalize(c)
  <2>1. op[c] # Idle
    BY <1>20, Active DEF CancelFinalize, At
  <2>2. op' \in [Callers -> Calls \cup {Idle}]
      /\ (op'[c] # Idle => op'[c].pos \in 0 .. Len(Member[op'[c].list])
                             /\ (op'[c].pos = 0 => op'[c].step = "undo"))
    BY <1>20, <2>1, Positions, GotoFacts, GotoAtFacts DEF CancelFinalize, Steps, AddSteps, RemoveSteps, StopSteps, At
  <2>3. Placed'
    BY <2>2, OpPlaced
  <2> QED BY <1>20, <2>1, <2>2, <2>3, Positions DEF Typed, CancelFinalize, flags, inits, mutexes, lists, At
<1> QED BY <1>1, <1>2, <1>3, <1>4, <1>5, <1>6, <1>7, <1>8, <1>9, <1>10, <1>11, <1>12, <1>13, <1>14, <1>15, <1>16, <1>17, <1>18, <1>19, <1>20 DEF CallerStep

-----------------------------------------------------------------------------
(* Workers and mutexes.                                                     *)

LEMMA InitInv == Init => ManagerInv
<1> SUFFICES ASSUME Init PROVE ManagerInv
  OBVIOUS
<1>1. WorkersAgree /\ MutexesAgree /\ CallsAgree
  BY DEF Init, WorkersAgree, MutexesAgree, CallsAgree, At, Idle
<1>2. ListsAgree
  BY MemberFacts DEF Init, ListsAgree, AtRest, Fresh
<1> QED BY <1>1, <1>2, InitTyped DEF ManagerInv

(* What the workers do is nothing to calls and lists.                       *)
LEMMA BooksFrame ==
  ASSUME CallsAgree, ListsAgree,
         UNCHANGED <<started, prepared, aspects, ready, managed, sealed, listLock, op>>
  PROVE  CallsAgree' /\ ListsAgree'
<1> USE DEF Fresh, Equipped, Inited, Born, Up, Halted, Down
<1>1. ASSUME NEW o, NEW i PROVE Adding(o, i)' <=> Adding(o, i)
  BY Zenon DEF Adding
<1>2. ASSUME NEW o, NEW i PROVE Removing(o, i)' <=> Removing(o, i)
  BY Zenon DEF Removing
<1>3. ASSUME NEW l PROVE (AllUp(l)' <=> AllUp(l)) /\ (AllDown(l)' <=> AllDown(l))
  BY Zenon DEF AllUp, AllDown, Members
<1>4. ASSUME NEW l PROVE AtRest(l)' <=> AtRest(l)
  BY <1>3, Zenon DEF AtRest
<1>5. ASSUME NEW o PROVE Busy(o)' <=> Busy(o)
  BY <1>1, <1>2, <1>3, Zenon DEF Busy, Again
<1>6. op' = op /\ sealed' = sealed /\ listLock' = listLock
  OBVIOUS
<1>7. CallsAgree'
  BY <1>5, <1>6, Zenon DEF CallsAgree
<1>8. ListsAgree'
  BY <1>4, <1>6, Zenon DEF ListsAgree
<1> QED BY <1>7, <1>8

LEMMA WorkerInv ==
  ASSUME ManagerInv, NEW t \in Threads,
         \/ StopBy(t) \/ WorkerStep(t) \/ LeaveLoop(t) \/ Exit(t) 
         \/ \E h \in BOOLEAN : SetHold(t, h)
  PROVE  ManagerInv'
<1> USE MutexAssumption DEF ManagerInv
<1>1. Typed'
  BY DEF Typed, Placed, Last, At, StopBy, WorkerStep, Once, EnterLoop, AfterLoop, Die, LeaveLoop, Exit,
         SetHold, Move, flags, inits, mutexes, lists
<1>2. UNCHANGED <<started, prepared, aspects, ready, managed, sealed, listLock, op>>
  BY DEF StopBy, WorkerStep, Once, EnterLoop, Die, LeaveLoop, Exit, SetHold, Move,
         flags, inits, mutexes, lists
<1>3. CallsAgree' /\ ListsAgree'
  BY <1>2, BooksFrame
<1>4. WorkersAgree'
  <2> USE DEF WorkersAgree, Typed, Move, flags
  <2>1. CASE StopBy(t)
    BY <2>1 DEF StopBy
  <2>2. CASE Once(t)
    BY <2>2 DEF Once
  <2>3. CASE EnterLoop(t)
    BY <2>3 DEF EnterLoop, AfterLoop
  <2>4. CASE Die(t)
    BY <2>4 DEF Die
  <2>5. CASE LeaveLoop(t)
    BY <2>5 DEF LeaveLoop, AfterLoop
  <2>6. CASE Exit(t)
    BY <2>6 DEF Exit
  <2>7. CASE \E h \in BOOLEAN : SetHold(t, h)
    BY <2>7 DEF SetHold, mutexes
  <2> QED BY <2>1, <2>2, <2>3, <2>4, <2>5, <2>6, <2>7 DEF WorkerStep
<1>5. MutexesAgree'
  <2> SUFFICES ASSUME NEW c \in Callers, At(c, "prep_user"), Current(c) \notin ConcLoop
               PROVE  (loopMutex[Current(c)] = c)'
    BY <1>2 DEF MutexesAgree, At, Current
  <2>1. loopMutex[Current(c)] = c /\ Current(c)' = Current(c)
    BY <1>2 DEF MutexesAgree, Current
  <2>2. c # Free /\ c # Worker
    OBVIOUS
  <2>3. loopMutex[t] # c => loopMutex'[Current(c)] = loopMutex[Current(c)]
    <3>1. loopMutex' = loopMutex \/ \E v : loopMutex' = [loopMutex EXCEPT ![t] = v]
      BY DEF StopBy, WorkerStep, Once, EnterLoop, Die, LeaveLoop, Exit, SetHold, Move, mutexes
    <3>2. Current(c) \in Threads
      BY Active, Positions DEF At
    <3> QED BY <2>1, <3>1, <3>2 DEF Typed
  <2>4. loopMutex[t] = c => loopMutex' = loopMutex
    BY <2>2 DEF WorkersAgree, StopBy, WorkerStep, Once, EnterLoop, Die, LeaveLoop, Exit, SetHold, Move, mutexes
  <2> QED BY <2>1, <2>3, <2>4
<1> QED BY <1>1, <1>3, <1>4, <1>5

LEMMA CallerWorkers ==
  ASSUME ManagerInv, NEW c \in Callers, \A x \in Callers : x = c, CallerStep(c) \/ CancelFinalize(c)
  PROVE  WorkersAgree'
<1> USE MutexAssumption DEF ManagerInv
<1>6. CASE Start(c)
  <2>1. op[c] # Idle /\ Current(c) \in Threads
    BY <1>6, Active, Positions DEF Start, At
  <2> QED BY <1>6, <2>1 DEF Start, WorkersAgree, MutexesAgree, At, Typed, flags, inits, mutexes
<1>10. CASE PrepareHold(c)
  <2>1. op[c] # Idle /\ Current(c) \in Threads
    BY <1>10, Active, Positions DEF PrepareHold, At
  <2> QED BY <1>10, <2>1 DEF PrepareHold, WorkersAgree, MutexesAgree, At, Typed, flags, inits, mutexes
<1>12. CASE PrepareLoop(c)
  <2>1. op[c] # Idle /\ Current(c) \in Threads
    BY <1>12, Active, Positions DEF PrepareLoop, At
  <2> QED BY <1>12, <2>1 DEF PrepareLoop, WorkersAgree, MutexesAgree, At, Typed, flags, inits, mutexes
<1>13. CASE PrepareUser(c)
  <2>1. op[c] # Idle /\ Current(c) \in Threads
    BY <1>13, Active, Positions DEF PrepareUser, At
  <2> QED BY <1>13, <2>1 DEF PrepareUser, WorkersAgree, MutexesAgree, At, Typed, flags, inits, mutexes
<1>17. CASE JoinThread(c)
  <2>1. op[c] # Idle /\ Current(c) \in Threads
    BY <1>17, Active, Positions DEF JoinThread, At
  <2> QED BY <1>17, <2>1 DEF JoinThread, WorkersAgree, MutexesAgree, At, Typed, flags, inits, mutexes
<1>20. CASE CancelFinalize(c)
  <2>1. op[c] # Idle /\ Current(c) \in Threads
    BY <1>20, Active, Positions DEF CancelFinalize, At
  <2> QED BY <1>20, <2>1 DEF CancelFinalize, WorkersAgree, MutexesAgree, At, Typed, flags, inits, mutexes
<1>21. CASE UNCHANGED <<started, prepared, worker, loopMutex>>
  BY <1>21 DEF WorkersAgree
<1> QED BY <1>6, <1>10, <1>12, <1>13, <1>17, <1>20, <1>21
        DEF CallerStep, LockList, InitAspects, InitThread, Undo, Seal, Register, PrepareAspects, PrepareCheck, PrepareStarve, Verdict, UnlockVetoed, StopThread, FinalizeThread, Unlist, flags, inits, mutexes

(* After these steps nobody is asking a thread's prepare_finalize_user().   *)
LEMMA CallerMutexes ==
  ASSUME ManagerInv, NEW c \in Callers, \A x \in Callers : x = c, CallerStep(c) \/ CancelFinalize(c)
  PROVE  MutexesAgree'
<1> USE DEF ManagerInv
<1> SUFFICES ASSUME op'[c].step = "prep_user", (Current(c) \notin ConcLoop)'
             PROVE  (loopMutex[Current(c)] = c)'
  BY DEF MutexesAgree, At
<1>1. CASE LockList(c)
  <2>1. op[c] # Idle
    BY <1>1, Active DEF LockList, At
  <2> QED BY <1>1, <2>1, Positions, GotoFacts, GotoAtFacts, ReturnFacts DEF LockList, At, Steps, AddSteps, RemoveSteps, StopSteps, Idle
<1>2. CASE InitAspects(c)
  <2>1. op[c] # Idle
    BY <1>2, Active DEF InitAspects, At
  <2>2. op[c].pos >= 1 /\ op[c].pos \in Nat /\ op[c].pos - 1 \in Nat /\ op[c].pos + 1 \in Nat
    BY <1>2, <2>1, Positions DEF InitAspects, At
  <2>3. \E s \in Steps \ {"prep_user"} : Goto(c, s) \/ \E p \in Nat : GotoAt(c, s, p)
    BY <1>2, <2>2 DEF InitAspects, Steps, AddSteps
  <2> QED BY <2>1, <2>3, GotoFacts, GotoAtFacts
<1>3. CASE InitThread(c)
  <2>1. op[c] # Idle
    BY <1>3, Active DEF InitThread, At
  <2>2. op[c].pos >= 1 /\ op[c].pos \in Nat /\ op[c].pos - 1 \in Nat /\ op[c].pos + 1 \in Nat
    BY <1>3, <2>1, Positions DEF InitThread, At
  <2>3. \E s \in Steps \ {"prep_user"} : Goto(c, s) \/ \E p \in Nat : GotoAt(c, s, p)
    BY <1>3, <2>2 DEF InitThread, Steps, AddSteps
  <2> QED BY <2>1, <2>3, GotoFacts, GotoAtFacts
<1>4. CASE Undo(c)
  <2>1. op[c] # Idle
    BY <1>4, Active DEF Undo, At
  <2> QED BY <1>4, <2>1, Positions, GotoFacts, GotoAtFacts, ReturnFacts DEF Undo, At, Steps, AddSteps, RemoveSteps, StopSteps, Idle
<1>5. CASE Seal(c)
  <2>1. op[c] # Idle
    BY <1>5, Active DEF Seal, At
  <2> QED BY <1>5, <2>1, Positions, GotoFacts, GotoAtFacts, ReturnFacts DEF Seal, At, Steps, AddSteps, RemoveSteps, StopSteps, Idle
<1>6. CASE Start(c)
  <2>1. op[c] # Idle
    BY <1>6, Active DEF Start, At
  <2> QED BY <1>6, <2>1, Positions, GotoFacts, GotoAtFacts, ReturnFacts DEF Start, At, Steps, AddSteps, RemoveSteps, StopSteps, Idle
<1>7. CASE Register(c)
  <2>1. op[c] # Idle
    BY <1>7, Active DEF Register, At
  <2> QED BY <1>7, <2>1, Positions, GotoFacts, GotoAtFacts, ReturnFacts DEF Register, At, Steps, AddSteps, RemoveSteps, StopSteps, Idle
<1>8. CASE PrepareAspects(c)
  <2>1. op[c] # Idle
    BY <1>8, Active DEF PrepareAspects, At
  <2> QED BY <1>8, <2>1, Positions, AspectsFacts DEF PrepareAspects, At, Steps, AddSteps, RemoveSteps, StopSteps, Idle
<1>9. CASE PrepareCheck(c)
  <2>1. op[c] # Idle
    BY <1>9, Active DEF PrepareCheck, At
  <2>2. op[c].pos \in Nat
    BY <2>1, Positions
  <2> QED BY <1>9, <2>1, <2>2, CheckFacts
<1>10. CASE PrepareHold(c)
  <2>1. op[c] # Idle /\ Current(c) \in Threads
    BY <1>10, Active, Positions DEF PrepareHold, At
  <2>2. Current(c)' = Current(c)
    BY <1>10, <2>1, GotoFacts DEF PrepareHold, Current, Steps, RemoveSteps
  <2> QED BY <1>10, <2>1, <2>2, GotoFacts DEF PrepareHold, At, Typed, Steps, RemoveSteps
<1>11. CASE PrepareStarve(c)
  <2>1. op[c] # Idle
    BY <1>11, Active DEF PrepareStarve, At
  <2> QED BY <1>11, <2>1, Positions, GotoFacts, GotoAtFacts, ReturnFacts DEF PrepareStarve, At, Steps, AddSteps, RemoveSteps, StopSteps, Idle
<1>12. CASE PrepareLoop(c)
  <2>1. op[c] # Idle /\ Current(c) \in Threads
    BY <1>12, Active, Positions DEF PrepareLoop, At
  <2>2. Current(c)' = Current(c)
    BY <1>12, <2>1, GotoFacts DEF PrepareLoop, Current, Steps, RemoveSteps
  <2> QED BY <1>12, <2>1, <2>2, GotoFacts DEF PrepareLoop, At, Typed, Steps, RemoveSteps
<1>13. CASE PrepareUser(c)
  <2>1. op[c] # Idle
    BY <1>13, Active DEF PrepareUser, At
  <2>2. op[c].pos \in Nat
    BY <2>1, Positions
  <2> QED BY <1>13, <2>1, <2>2, PreparedFacts
<1>14. CASE Verdict(c)
  <2>1. op[c] # Idle
    BY <1>14, Active DEF Verdict, At
  <2> QED BY <1>14, <2>1, Positions, GotoFacts, GotoAtFacts, ReturnFacts DEF Verdict, At, Steps, AddSteps, RemoveSteps, StopSteps, Idle
<1>15. CASE UnlockVetoed(c)
  <2>1. op[c] # Idle
    BY <1>15, Active DEF UnlockVetoed, At
  <2> QED BY <1>15, <2>1, Positions, GotoFacts, GotoAtFacts, ReturnFacts DEF UnlockVetoed, At, Steps, AddSteps, RemoveSteps, StopSteps, Idle
<1>16. CASE StopThread(c)
  <2>1. op[c] # Idle
    BY <1>16, Active DEF StopThread, At
  <2> QED BY <1>16, <2>1, Positions, GotoFacts, GotoAtFacts, ReturnFacts DEF StopThread, At, Steps, AddSteps, RemoveSteps, StopSteps, Idle
<1>17. CASE JoinThread(c)
  <2>1. op[c] # Idle
    BY <1>17, Active DEF JoinThread, At
  <2> QED BY <1>17, <2>1, Positions, GotoFacts, GotoAtFacts, ReturnFacts DEF JoinThread, At, Steps, AddSteps, RemoveSteps, StopSteps, Idle
<1>18. CASE FinalizeThread(c)
  <2>1. op[c] # Idle
    BY <1>18, Active DEF FinalizeThread, At
  <2> QED BY <1>18, <2>1, Positions, FinalizeFacts DEF FinalizeThread, At, Steps, AddSteps, RemoveSteps, StopSteps, Idle
<1>19. CASE Unlist(c)
  <2>1. op[c] # Idle
    BY <1>19, Active DEF Unlist, At
  <2> QED BY <1>19, <2>1, Positions, GotoFacts, GotoAtFacts, ReturnFacts DEF Unlist, At, Steps, AddSteps, RemoveSteps, StopSteps, Idle
<1>20. CASE CancelFinalize(c)
  <2>1. op[c] # Idle
    BY <1>20, Active DEF CancelFinalize, At
  <2> QED BY <1>20, <2>1, Positions, GotoFacts, GotoAtFacts, ReturnFacts DEF CancelFinalize, At, Steps, AddSteps, RemoveSteps, StopSteps, Idle
<1> QED BY <1>1, <1>2, <1>3, <1>4, <1>5, <1>6, <1>7, <1>8, <1>9, <1>10, <1>11, <1>12, <1>13, <1>14, <1>15, <1>16, <1>17, <1>18, <1>19, <1>20 DEF CallerStep

-----------------------------------------------------------------------------
(* Calls and lists.                                                         *)

(* A step of a call touches no other list and no thread of another list.    *)
Touches(l) ==
  /\ \A t \in Threads \ Members(l) :
        /\ started'[t] = started[t] /\ prepared'[t] = prepared[t]
        /\ aspects'[t] = aspects[t] /\ ready'[t] = ready[t]
        /\ t \in managed' <=> t \in managed
  /\ \A k \in Lists \ {l} : sealed'[k] = sealed[k] /\ listLock'[k] = listLock[k]

LEMMA OtherLists ==
  ASSUME ListsAgree, NEW l \in Lists, Touches(l),
         (listLock[l] = Free => AtRest(l))'
  PROVE  ListsAgree'
<1> SUFFICES ASSUME NEW k \in Lists \ {l}, listLock'[k] = Free
             PROVE  AtRest(k)'
  BY DEF ListsAgree
<1>1. AtRest(k) /\ sealed'[k] = sealed[k]
  BY DEF ListsAgree, Touches
<1>2. Members(k) \subseteq Threads \ Members(l) /\ Members(k)' = Members(k)
  BY MemberFacts, MembersApart DEF Members
<1>3. (Members(k) \subseteq managed') <=> (Members(k) \subseteq managed)
  BY <1>2 DEF Touches
<1>4. AllUp(k) => AllUp(k)'
  BY <1>2 DEF AllUp, Up, Touches
<1>5. AllDown(k) => AllDown(k)'
  BY <1>2, <1>3 DEF AllDown, Down, Touches
<1>6. (\A t \in Members(k) : Fresh(t)) => \A t \in Members(k) : Fresh(t)'
  BY <1>2 DEF Fresh, Touches
<1> QED BY <1>1, <1>2, <1>4, <1>5, <1>6 DEF AtRest

(* With one caller it is enough to look at its own call.                    *)
LEMMA OneCall ==
  ASSUME NEW c \in Callers, \A x \in Callers : x = c,
         op'[c] # Idle =>
           /\ (op'[c].step \in Unsealed) = ~sealed'[op'[c].list]
           /\ op'[c].step = "want_add" => op'[c].pos = 1
           /\ op'[c].step = "want_remove" => op'[c].pos = Len(Member[op'[c].list]) /\ ~op'[c].threw
           /\ op'[c].step = "unlock_again" => listLock'[op'[c].list] = Free
           /\ op'[c].step \notin Waiting => listLock'[op'[c].list] = c /\ Busy(op[c])'
  PROVE  CallsAgree'
BY DEF CallsAgree

LEMMA AddFacts ==
  ASSUME ManagerInv, NEW c \in Callers, op[c] # Idle, op[c].step \in AddSteps \ {"want_add"}
  PROVE  /\ listLock[op[c].list] = c
         /\ \A i \in 1 .. Last(c) : /\ Adding(op[c], i) /\ Member[op[c].list][i] \in Threads
                                    /\ Member[op[c].list][i] \in Members(op[c].list)
         /\ op[c].pos >= 1 => \A i \in 1 .. Last(c) :
                                (Member[op[c].list][i] = Current(c)) <=> i = op[c].pos
<1>1. op[c].list \in Lists /\ op[c].pos \in Nat /\ op[c].pos <= Last(c)
      /\ Last(c) = Len(Member[op[c].list])
  BY Positions DEF ManagerInv
<1>2. op[c].step \notin Waiting
  BY DEF Waiting, AddSteps
<1>3. listLock[op[c].list] = c /\ Busy(op[c])
  BY <1>2 DEF ManagerInv, CallsAgree
<1>4. \A i \in 1 .. Last(c) : Adding(op[c], i)
  BY <1>1, <1>3, MemberFacts DEF Busy
<1>5. op[c].pos >= 1 => \A i \in 1 .. Last(c) :
        (Member[op[c].list][i] = Current(c)) <=> i = op[c].pos
  BY <1>1, MembersApart DEF Current
<1> QED BY <1>1, <1>3, <1>4, <1>5, MemberFacts

LEMMA RemoveFacts ==
  ASSUME ManagerInv, NEW c \in Callers, op[c] # Idle,
         op[c].step \in RemoveSteps \ {"want_remove", "unlock_again"}
  PROVE  /\ listLock[op[c].list] = c /\ sealed[op[c].list]
         /\ op[c].pos >= 1 /\ Current(c) \in Members(op[c].list)
         /\ \A i \in 1 .. Last(c) : /\ Member[op[c].list][i] \in Threads
                                    /\ Member[op[c].list][i] \in Members(op[c].list)
                                    /\ (Member[op[c].list][i] = Current(c)) <=> i = op[c].pos
         /\ \/ Again(op[c])
            \/ /\ op[c].step \in AskSteps \cup {"prep_user", "verdict"} => ~op[c].threw
               /\ \A i \in 1 .. Last(c) : Removing(op[c], i)
<1>1. /\ op[c].list \in Lists /\ op[c].pos \in Nat /\ op[c].pos <= Last(c)
      /\ Last(c) = Len(Member[op[c].list]) /\ op[c].pos >= 1 /\ Current(c) \in Members(op[c].list)
  BY Positions DEF ManagerInv, At, RemoveSteps, StopSteps
<1>2. op[c].step \notin Waiting /\ op[c].step \notin AddSteps /\ op[c].step \notin Unsealed
  BY DEF Waiting, AddSteps, RemoveSteps, StopSteps, Unsealed
<1>3. listLock[op[c].list] = c /\ Busy(op[c]) /\ sealed[op[c].list]
  BY <1>1, <1>2 DEF ManagerInv, CallsAgree, Typed
<1>4. \/ Again(op[c])
      \/ /\ op[c].step \in AskSteps \cup {"prep_user", "verdict"} => ~op[c].threw
         /\ \A i \in 1 .. Last(c) : Removing(op[c], i)
  BY <1>1, <1>2, <1>3, MemberFacts DEF Busy
<1>5. \A i \in 1 .. Last(c) : (Member[op[c].list][i] = Current(c)) <=> i = op[c].pos
  BY <1>1, MembersApart DEF Current
<1> QED BY <1>1, <1>3, <1>4, <1>5, MemberFacts

(* add() and remove() go on under the lock.                                 *)
LEMMA AddGoesOn ==
  ASSUME ManagerInv, NEW c \in Callers, \A x \in Callers : x = c, NEW l \in Lists, Touches(l),
         listLock'[l] = c, op'[c] # Idle, op'[c].list = l,
         op'[c].step \in AddSteps \ {"want_add"},
         (op'[c].step \in Unsealed) = ~sealed'[l],
         \A i \in 1 .. Len(Member[l]) : Adding(op[c], i)'
  PROVE  CallsAgree' /\ ListsAgree'
<1>1. ListsAgree'
  BY OtherLists, MutexAssumption DEF ManagerInv
<1>2. op'[c].step \notin Waiting /\ op'[c].step \in AddSteps
  BY DEF AddSteps, Waiting
<1>3. Busy(op[c])'
  BY <1>2, MemberFacts DEF Busy
<1> QED BY <1>1, <1>2, <1>3, OneCall DEF Waiting

LEMMA RemoveGoesOn ==
  ASSUME ManagerInv, NEW c \in Callers, \A x \in Callers : x = c, NEW l \in Lists, Touches(l),
         listLock'[l] = c, sealed'[l], op'[c] # Idle, op'[c].list = l,
         op'[c].step \in RemoveSteps \ {"want_remove", "unlock_again"},
         \/ Again(op[c])'
         \/ /\ op'[c].step \in AskSteps \cup {"prep_user", "verdict"} => ~op'[c].threw
            /\ \A i \in 1 .. Len(Member[l]) : Removing(op[c], i)'
  PROVE  CallsAgree' /\ ListsAgree'
<1>1. ListsAgree'
  BY OtherLists, MutexAssumption DEF ManagerInv
<1>2. op'[c].step \notin Waiting /\ op'[c].step \notin AddSteps /\ op'[c].step \notin Unsealed
  BY DEF AddSteps, RemoveSteps, StopSteps, Unsealed, Waiting
<1>3. Busy(op[c])'
  BY <1>2, MemberFacts DEF Busy
<1> QED BY <1>1, <1>2, <1>3, OneCall DEF Waiting

(* A call returns, and its list is at rest or keeps its lock.               *)
LEMMA CallReturns ==
  ASSUME ManagerInv, NEW c \in Callers, \A x \in Callers : x = c, NEW l \in Lists, Touches(l),
         op'[c] = Idle, (listLock[l] = Free => AtRest(l))'
  PROVE  CallsAgree' /\ ListsAgree'
BY OneCall, OtherLists DEF ManagerInv

LEMMA CallLists ==
  ASSUME ManagerInv, NEW c \in Callers, \A x \in Callers : x = c, NEW l \in Lists,
         CallAdd(c, l) \/ \E f \in BOOLEAN : CallRemove(c, l, f)
  PROVE  CallsAgree' /\ ListsAgree'
<1> USE DEF ManagerInv
<1>1. /\ op'[c].list = l /\ op'[c].step \in {"want_add", "want_remove"}
      /\ (op'[c].step \in Unsealed) = ~sealed[l]
      /\ op'[c].step = "want_add" => op'[c].pos = 1
      /\ op'[c].step = "want_remove" => op'[c].pos = Len(Member[l]) /\ ~op'[c].threw
  BY DEF Typed, CallAdd, CallRemove, Unsealed
<1>2. UNCHANGED <<started, prepared, aspects, ready, managed, sealed, listLock>>
  BY DEF CallAdd, CallRemove, flags, inits, lists
<1>3. CallsAgree'
  BY <1>1, <1>2, OneCall DEF Waiting
<1>4. Touches(l)
  BY <1>2 DEF Touches
<1>5. AtRest(l)' <=> AtRest(l)
  BY <1>2, Zenon DEF AtRest, AllUp, AllDown, Members, Fresh, Up, Down
<1>6. ListsAgree'
  BY <1>2, <1>4, <1>5, OtherLists DEF ListsAgree
<1> QED BY <1>3, <1>6

LEMMA LockListLists ==
  ASSUME ManagerInv, NEW c \in Callers, \A x \in Callers : x = c, LockList(c)
  PROVE  CallsAgree' /\ ListsAgree'
<1> USE DEF ManagerInv
<1>1. PICK l \in Lists : l = op[c].list
  BY Active, Positions DEF LockList
<1>2. op[c] # Idle /\ op[c].pos \in Nat
  BY Active, Positions DEF LockList
<1>3. /\ UNCHANGED <<started, prepared, aspects, ready, managed, sealed>>
      /\ listLock' = [listLock EXCEPT ![l] = c] /\ listLock[l] = Free
  BY <1>1 DEF LockList, flags, inits
<1>4. Touches(l) /\ listLock'[l] = c
  BY <1>3 DEF Touches, Typed
<1>5. AtRest(l)
  BY <1>3 DEF ListsAgree
<1>6. CASE At(c, "want_add")
  <2>1. /\ op'[c] # Idle /\ op'[c].list = l /\ op'[c].step = "aspects" /\ op'[c].pos = op[c].pos
    BY <1>1, <1>2, <1>6, GotoFacts DEF LockList, At, Steps, AddSteps
  <2>2. ~sealed[l] /\ op[c].pos = 1
    BY <1>1, <1>2, <1>6 DEF CallsAgree, Unsealed, At, Typed
  <2>3. \A i \in 1 .. Len(Member[l]) : Fresh(Member[l][i])
    BY <1>5, <2>2, MemberFacts DEF AtRest
  <2>4. \A i \in 1 .. Len(Member[l]) : Adding(op[c], i)'
    BY <1>3, <2>1, <2>2, <2>3, MemberFacts DEF Adding, Fresh
  <2>5. op'[c].step \in AddSteps \ {"want_add"} /\ (op'[c].step \in Unsealed) = ~sealed'[l]
    BY <1>3, <2>1, <2>2 DEF AddSteps, Unsealed
  <2> QED BY <1>4, <2>1, <2>4, <2>5, AddGoesOn
<1>7. CASE At(c, "want_remove")
  <2>1. /\ op'[c] # Idle /\ op'[c].list = l /\ op'[c].step = "prep_aspects"
        /\ op'[c].pos = op[c].pos /\ op'[c].threw = op[c].threw
    BY <1>1, <1>2, <1>7, GotoFacts DEF LockList, At, Steps, RemoveSteps
  <2>2. sealed[l] /\ op[c].pos = Len(Member[l]) /\ ~op[c].threw
    BY <1>1, <1>2, <1>7 DEF CallsAgree, Unsealed, At, Typed
  <2>3. op'[c].step \in RemoveSteps \ {"want_remove", "unlock_again"} /\ sealed'[l]
    BY <1>3, <2>1, <2>2 DEF RemoveSteps
  <2>4. CASE AllUp(l)
    <3>1. \A i \in 1 .. Len(Member[l]) : Removing(op[c], i)'
      BY <1>3, <2>1, <2>4, MemberFacts DEF Removing, AskSteps, AllUp, Up
    <3>2. op'[c].step \in AskSteps \cup {"prep_user", "verdict"} => ~op'[c].threw
      BY <2>1, <2>2
    <3> QED BY <1>4, <2>1, <2>3, <3>1, <3>2, RemoveGoesOn
  <2>5. CASE AllDown(l)
    <3>1. AllDown(l)'
      BY <1>3, <2>5, Zenon DEF AllDown, Down, Members
    <3>2. Again(op[c])'
      BY <2>1, <2>2, <3>1 DEF Again
    <3> QED BY <1>4, <2>1, <2>3, <3>2, RemoveGoesOn
  <2> QED BY <1>5, <2>2, <2>4, <2>5 DEF AtRest
<1> QED BY <1>6, <1>7 DEF LockList

LEMMA InitAspectsLists ==
  ASSUME ManagerInv, NEW c \in Callers, \A x \in Callers : x = c, InitAspects(c)
  PROVE  CallsAgree' /\ ListsAgree'
<1> USE DEF ManagerInv
<1>1. PICK l \in Lists : l = op[c].list
  BY Active, Positions DEF InitAspects, At
<1>2. /\ op[c] # Idle /\ op[c].pos \in Nat /\ op[c].pos <= Len(Member[l]) /\ Last(c) = Len(Member[l])
      /\ ~At(c, "undo") => op[c].pos >= 1 /\ Current(c) \in Members(l) /\ Current(c) \in Threads
  BY <1>1, Active, Positions DEF InitAspects, At
<1>3. /\ listLock[l] = c
      /\ \A i \in 1 .. Len(Member[l]) : Adding(op[c], i) /\ Member[l][i] \in Threads
      /\ op[c].pos >= 1 => \A i \in 1 .. Len(Member[l]) : (Member[l][i] = Current(c)) <=> i = op[c].pos
  BY <1>1, <1>2, AddFacts DEF InitAspects, At, AddSteps
<1>4. (op[c].step \in Unsealed) = ~sealed[l]
  BY <1>1, <1>2 DEF CallsAgree
<1>5. ~sealed[l]
  BY <1>4 DEF InitAspects, At, Unsealed
<1>6. /\ UNCHANGED <<started, prepared, ready, managed, sealed, listLock>>
      /\ \A t \in Threads : t # Current(c) => aspects'[t] = aspects[t]
  BY DEF InitAspects, flags, lists, Typed
<1>7. Touches(l) /\ listLock'[l] = c /\ ~sealed'[l]
  BY <1>2, <1>3, <1>5, <1>6 DEF Touches, InitAspects, At
<1>8. \/ /\ op'[c] # Idle /\ op'[c].list = l /\ op'[c].step = "init" /\ op'[c].pos = op[c].pos
         /\ aspects'[Current(c)]
      \/ /\ op'[c] # Idle /\ op'[c].list = l /\ op'[c].step = "undo" /\ op'[c].pos = op[c].pos - 1
         /\ aspects' = aspects
  <2>1. op[c].pos - 1 \in Nat /\ "init" \in Steps /\ "undo" \in Steps /\ Current(c) \in Threads
    BY <1>2 DEF InitAspects, At, Steps, AddSteps
  <2> QED BY <1>1, <1>2, <2>1, GotoFacts, GotoAtFacts DEF InitAspects, Typed
<1>9. ASSUME NEW i \in 1 .. Len(Member[l]) PROVE Adding(op[c], i)'
  <2>1. PICK t \in Threads : t = Member[l][i] /\ (t = Current(c) <=> i = op[c].pos)
    BY <1>2, <1>3 DEF InitAspects, At
  <2>2. IF i < op[c].pos THEN Inited(t) ELSE Fresh(t)
    <3>1. Adding(op[c], i) /\ op[c].step = "aspects"
      BY <1>3 DEF InitAspects, At
    <3> QED BY <1>1, <2>1, <3>1 DEF Adding
  <2>3. i # op[c].pos => aspects'[t] = aspects[t]
    BY <1>6, <2>1
  <2>4. i < op[c].pos => Inited(t)'
    BY <1>2, <1>6, <2>2, <2>3 DEF Inited
  <2>5. i > op[c].pos => Fresh(t)'
    BY <1>2, <1>6, <2>2, <2>3 DEF Fresh
  <2>6. CASE op'[c].step = "init" /\ op'[c].pos = op[c].pos /\ aspects'[Current(c)]
    <3>1. i = op[c].pos => Equipped(t)'
      BY <1>2, <1>6, <2>1, <2>2, <2>6 DEF Fresh, Equipped
    <3> QED BY <1>2, <1>8, <2>1, <2>4, <2>5, <2>6, <3>1 DEF Adding
  <2>7. CASE op'[c].step = "undo" /\ op'[c].pos = op[c].pos - 1 /\ aspects' = aspects
    <3>1. i = op[c].pos => Fresh(t)'
      BY <1>2, <1>6, <2>2, <2>7 DEF Fresh
    <3> QED BY <1>2, <1>8, <2>1, <2>4, <2>5, <2>7, <3>1 DEF Adding
  <2> QED BY <1>8, <2>6, <2>7
<1> QED BY <1>7, <1>8, <1>9, AddGoesOn DEF AddSteps, Unsealed

LEMMA InitThreadLists ==
  ASSUME ManagerInv, NEW c \in Callers, \A x \in Callers : x = c, InitThread(c)
  PROVE  CallsAgree' /\ ListsAgree'
<1> USE DEF ManagerInv
<1>1. PICK l \in Lists : l = op[c].list
  BY Active, Positions DEF InitThread, At
<1>2. /\ op[c] # Idle /\ op[c].pos \in Nat /\ op[c].pos <= Len(Member[l]) /\ Last(c) = Len(Member[l])
      /\ ~At(c, "undo") => op[c].pos >= 1 /\ Current(c) \in Members(l) /\ Current(c) \in Threads
  BY <1>1, Active, Positions DEF InitThread, At
<1>3. /\ listLock[l] = c
      /\ \A i \in 1 .. Len(Member[l]) : Adding(op[c], i) /\ Member[l][i] \in Threads
      /\ op[c].pos >= 1 => \A i \in 1 .. Len(Member[l]) : (Member[l][i] = Current(c)) <=> i = op[c].pos
  BY <1>1, <1>2, AddFacts DEF InitThread, At, AddSteps
<1>4. (op[c].step \in Unsealed) = ~sealed[l]
  BY <1>1, <1>2 DEF CallsAgree
<1>5. ~sealed[l]
  BY <1>4 DEF InitThread, At, Unsealed
<1>6. /\ UNCHANGED <<started, prepared, managed, sealed, listLock>>
      /\ \A t \in Threads : t # Current(c) => aspects'[t] = aspects[t] /\ ready'[t] = ready[t]
  BY DEF InitThread, flags, lists, Typed
<1>7. Touches(l) /\ listLock'[l] = c /\ ~sealed'[l]
  BY <1>2, <1>3, <1>5, <1>6 DEF Touches, InitThread, At
<1>8. \/ /\ op'[c] # Idle /\ op'[c].list = l /\ op'[c].step = "aspects" /\ op'[c].pos = op[c].pos + 1
         /\ aspects' = aspects /\ ready'[Current(c)]
      \/ /\ op'[c] # Idle /\ op'[c].list = l /\ op'[c].step = "seal" /\ op[c].pos >= Last(c)
         /\ aspects' = aspects /\ ready'[Current(c)]
      \/ /\ op'[c] # Idle /\ op'[c].list = l /\ op'[c].step = "undo" /\ op'[c].pos = op[c].pos - 1
         /\ ready' = ready /\ ~aspects'[Current(c)]
  <2>1. /\ op[c].pos - 1 \in Nat /\ op[c].pos + 1 \in Nat /\ Last(c) \in Nat
        /\ "aspects" \in Steps /\ "undo" \in Steps /\ "seal" \in Steps /\ Current(c) \in Threads
    BY <1>2, MemberFacts DEF InitThread, At, Steps, AddSteps
  <2> QED BY <1>1, <1>2, <2>1, GotoFacts, GotoAtFacts DEF InitThread, Typed
<1>9. ASSUME NEW i \in 1 .. Len(Member[l]) PROVE Adding(op[c], i)'
  <2>1. /\ op[c].step = "init" /\ op[c].pos >= 1 /\ Member[l][i] \in Threads
        /\ (Member[l][i] = Current(c)) <=> i = op[c].pos
        /\ Adding(op[c], i)
    BY <1>2, <1>3 DEF InitThread, At
  <2>2. CASE i = op[c].pos
    <3>1. PICK t \in Threads : t = Current(c) /\ t = Member[l][i]
      BY <2>1, <2>2
    <3>2. Equipped(t)
      BY <1>1, <2>1, <2>2, <3>1 DEF Adding
    <3>3. op'[c].step # "undo" => Inited(t)' /\ (op'[c].step = "seal" \/ op'[c].pos > i)
      BY <1>2, <1>6, <1>8, <2>2, <3>1, <3>2 DEF Inited, Equipped
    <3>4. op'[c].step = "undo" => Fresh(t)' /\ op'[c].pos < i
      BY <1>2, <1>6, <1>8, <2>2, <3>1, <3>2 DEF Fresh, Equipped
    <3> QED BY <1>2, <1>8, <2>2, <3>1, <3>3, <3>4 DEF Adding
  <2>3. CASE i # op[c].pos
    <3>1. PICK t \in Threads : t = Member[l][i] /\ t # Current(c)
      BY <2>1, <2>3
    <3>2. IF i < op[c].pos THEN Inited(t) ELSE Fresh(t)
      BY <1>1, <1>2, <2>1, <2>3, <3>1 DEF Adding
    <3>3. aspects'[t] = aspects[t] /\ ready'[t] = ready[t]
      BY <1>6, <3>1
    <3>4. IF i < op[c].pos THEN Inited(t)' ELSE Fresh(t)'
      BY <1>6, <3>2, <3>3 DEF Inited, Fresh
    <3> QED BY <1>2, <1>8, <2>3, <3>1, <3>4 DEF Adding
  <2> QED BY <2>2, <2>3
<1> QED BY <1>7, <1>8, <1>9, AddGoesOn DEF AddSteps, Unsealed

LEMMA UndoLists ==
  ASSUME ManagerInv, NEW c \in Callers, \A x \in Callers : x = c, Undo(c)
  PROVE  CallsAgree' /\ ListsAgree'
<1> USE DEF ManagerInv
<1>1. PICK l \in Lists : l = op[c].list
  BY Active, Positions DEF Undo, At
<1>2. /\ op[c] # Idle /\ op[c].pos \in Nat /\ op[c].pos <= Len(Member[l]) /\ Last(c) = Len(Member[l])
      /\ ~At(c, "undo") => op[c].pos >= 1 /\ Current(c) \in Members(l) /\ Current(c) \in Threads
  BY <1>1, Active, Positions DEF Undo, At
<1>3. /\ listLock[l] = c
      /\ \A i \in 1 .. Len(Member[l]) : Adding(op[c], i) /\ Member[l][i] \in Threads
      /\ op[c].pos >= 1 => \A i \in 1 .. Len(Member[l]) : (Member[l][i] = Current(c)) <=> i = op[c].pos
  BY <1>1, <1>2, AddFacts DEF Undo, At, AddSteps
<1>4. (op[c].step \in Unsealed) = ~sealed[l]
  BY <1>1, <1>2 DEF CallsAgree
<1>5. ~sealed[l]
  BY <1>4 DEF Undo, At, Unsealed
<1>6. CASE op[c].pos = 0
  <2>1. UNCHANGED <<started, prepared, aspects, ready, managed, sealed>>
    BY <1>6 DEF Undo, flags, inits
  <2>2. op'[c] = Idle /\ listLock' = [listLock EXCEPT ![l] = Free]
    BY <1>1, <1>6, ReturnFacts DEF Undo, Unlock
  <2>3. \A i \in 1 .. Len(Member[l]) : Fresh(Member[l][i])
    BY <1>1, <1>3, <1>6 DEF Undo, At, Adding
  <2>4. \A t \in Members(l) : Fresh(t)'
    BY <2>1, <2>3, MemberFacts DEF Fresh
  <2>5. AtRest(l)'
    BY <1>5, <2>1, <2>4 DEF AtRest, Members
  <2>6. Touches(l)
    BY <2>1, <2>2 DEF Touches, Typed
  <2> QED BY <2>2, <2>5, <2>6, CallReturns
<1>7. CASE op[c].pos # 0
  <2>1. op[c].pos >= 1 /\ op[c].pos - 1 \in Nat /\ Current(c) \in Members(l) /\ Current(c) \in Threads
    BY <1>1, <1>2, <1>7, Positions
  <2>2. /\ UNCHANGED <<started, prepared, managed, sealed, listLock>>
        /\ aspects' = [aspects EXCEPT ![Current(c)] = FALSE]
        /\ ready' = [ready EXCEPT ![Current(c)] = FALSE]
    BY <1>7 DEF Undo, Finalize, flags
  <2>3. op'[c] # Idle /\ op'[c].list = l /\ op'[c].step = "undo" /\ op'[c].pos = op[c].pos - 1
    BY <1>1, <1>2, <1>7, <2>1, GotoAtFacts DEF Undo, Steps, AddSteps
  <2>4. ASSUME NEW i \in 1 .. Len(Member[l]) PROVE Adding(op[c], i)'
    <3>1. PICK t \in Threads : t = Member[l][i] /\ (t = Current(c) <=> i = op[c].pos)
      BY <1>3, <2>1
    <3>2. IF i <= op[c].pos THEN Inited(t) ELSE Fresh(t)
      <4>1. Adding(op[c], i) /\ op[c].step = "undo"
        BY <1>3 DEF Undo, At
      <4> QED BY <1>1, <3>1, <4>1 DEF Adding
    <3>3. IF i = op[c].pos THEN ~aspects'[t] /\ ~ready'[t]
                           ELSE aspects'[t] = aspects[t] /\ ready'[t] = ready[t]
      BY <2>1, <2>2, <3>1 DEF Typed
    <3>4. IF i <= op[c].pos - 1 THEN Inited(t)' ELSE Fresh(t)'
      <4>1. (i <= op[c].pos - 1 <=> i <= op[c].pos /\ i # op[c].pos)
            /\ (i = op[c].pos => i <= op[c].pos)
        BY <1>2
      <4>2. CASE i = op[c].pos
        BY <2>2, <3>2, <3>3, <4>1, <4>2, Zenon DEF Inited, Fresh
      <4>3. CASE i # op[c].pos
        BY <2>2, <3>2, <3>3, <4>1, <4>3, Zenon DEF Inited, Fresh
      <4> QED BY <4>2, <4>3
    <3> QED BY <2>3, <3>1, <3>4 DEF Adding
  <2>5. Touches(l) /\ listLock'[l] = c /\ ~sealed'[l]
    BY <1>3, <1>5, <2>1, <2>2 DEF Touches, Typed
  <2> QED BY <2>3, <2>4, <2>5, AddGoesOn DEF AddSteps, Unsealed
<1> QED BY <1>6, <1>7

LEMMA SealLists ==
  ASSUME ManagerInv, NEW c \in Callers, \A x \in Callers : x = c, Seal(c)
  PROVE  CallsAgree' /\ ListsAgree'
<1> USE DEF ManagerInv
<1>1. PICK l \in Lists : l = op[c].list
  BY Active, Positions DEF Seal, At
<1>2. /\ op[c] # Idle /\ op[c].pos \in Nat /\ op[c].pos <= Len(Member[l]) /\ Last(c) = Len(Member[l])
      /\ ~At(c, "undo") => op[c].pos >= 1 /\ Current(c) \in Members(l) /\ Current(c) \in Threads
  BY <1>1, Active, Positions DEF Seal, At
<1>3. /\ listLock[l] = c
      /\ \A i \in 1 .. Len(Member[l]) : Adding(op[c], i) /\ Member[l][i] \in Threads
      /\ op[c].pos >= 1 => \A i \in 1 .. Len(Member[l]) : (Member[l][i] = Current(c)) <=> i = op[c].pos
  BY <1>1, <1>2, AddFacts DEF Seal, At, AddSteps
<1>4. (op[c].step \in Unsealed) = ~sealed[l]
  BY <1>1, <1>2 DEF CallsAgree
<1>5. /\ UNCHANGED <<started, prepared, aspects, ready, managed, listLock>>
      /\ sealed' = [sealed EXCEPT ![l] = TRUE]
  BY <1>1 DEF Seal, flags, inits
<1>6. Touches(l) /\ listLock'[l] = c /\ sealed'[l]
  BY <1>3, <1>5 DEF Touches, Typed
<1>7. op'[c] # Idle /\ op'[c].list = l /\ op'[c].step = "start" /\ op'[c].pos = 1
  <2>1. "start" \in Steps /\ 1 \in Nat /\ GotoAt(c, "start", 1)
    BY DEF Seal, Steps, AddSteps
  <2> QED BY <1>1, <1>2, <2>1, GotoAtFacts
<1>8. \A i \in 1 .. Len(Member[l]) : Adding(op[c], i)'
  BY <1>1, <1>2, <1>3, <1>5, <1>7 DEF Seal, At, Adding, Inited
<1> QED BY <1>6, <1>7, <1>8, AddGoesOn DEF AddSteps, Unsealed

LEMMA StartLists ==
  ASSUME ManagerInv, NEW c \in Callers, \A x \in Callers : x = c, Start(c)
  PROVE  CallsAgree' /\ ListsAgree'
<1> USE DEF ManagerInv
<1>1. PICK l \in Lists : l = op[c].list
  BY Active, Positions DEF Start, At
<1>2. /\ op[c] # Idle /\ op[c].pos \in Nat /\ op[c].pos <= Len(Member[l]) /\ Last(c) = Len(Member[l])
      /\ ~At(c, "undo") => op[c].pos >= 1 /\ Current(c) \in Members(l) /\ Current(c) \in Threads
  BY <1>1, Active, Positions DEF Start, At
<1>3. /\ listLock[l] = c
      /\ \A i \in 1 .. Len(Member[l]) : Adding(op[c], i) /\ Member[l][i] \in Threads
      /\ op[c].pos >= 1 => \A i \in 1 .. Len(Member[l]) : (Member[l][i] = Current(c)) <=> i = op[c].pos
  BY <1>1, <1>2, AddFacts DEF Start, At, AddSteps
<1>4. (op[c].step \in Unsealed) = ~sealed[l]
  BY <1>1, <1>2 DEF CallsAgree
<1>5. sealed[l] /\ op[c].pos >= 1 /\ Current(c) \in Members(l) /\ Current(c) \in Threads
  BY <1>2, <1>4 DEF Start, At, Unsealed, Typed
<1>6. /\ UNCHANGED <<prepared, aspects, ready, managed, sealed, listLock>>
      /\ started' = [started EXCEPT ![Current(c)] = TRUE]
  BY DEF Start, inits, lists
<1>7. Touches(l) /\ listLock'[l] = c /\ sealed'[l]
  BY <1>3, <1>5, <1>6 DEF Touches, Typed
<1>8. \/ op'[c] = Idle
      \/ /\ op'[c] # Idle /\ op'[c].list = l /\ op'[c].step = "start" /\ op'[c].pos = op[c].pos + 1
      \/ /\ op'[c] # Idle /\ op'[c].list = l /\ op'[c].step = "register" /\ op[c].pos >= Last(c)
  <2>1. /\ op[c].pos + 1 \in Nat /\ Last(c) \in Nat /\ "start" \in Steps /\ "register" \in Steps
    BY <1>2, MemberFacts DEF Steps, AddSteps
  <2> QED BY <1>1, <1>2, <2>1, GotoFacts, GotoAtFacts, ReturnFacts DEF Start
<1>9. CASE op'[c] = Idle
  <2>1. listLock'[l] # Free
    BY <1>7, MutexAssumption
  <2> QED BY <1>7, <1>9, <2>1, CallReturns
<1>10. CASE op'[c] # Idle
  <2>1. ASSUME NEW i \in 1 .. Len(Member[l]) PROVE Adding(op[c], i)'
    <3>1. PICK t \in Threads : t = Member[l][i] /\ (t = Current(c) <=> i = op[c].pos)
      BY <1>3, <1>5
    <3>2. IF i < op[c].pos THEN Born(t) ELSE Inited(t)
      <4>1. Adding(op[c], i) /\ op[c].step = "start"
        BY <1>3 DEF Start, At
      <4> QED BY <1>1, <3>1, <4>1 DEF Adding
    <3>3. IF i = op[c].pos THEN started'[t] ELSE started'[t] = started[t]
      BY <1>5, <1>6, <3>1 DEF Typed
    <3>4. IF i <= op[c].pos THEN Born(t)' ELSE Inited(t)'
      <4>1. (i < op[c].pos <=> i <= op[c].pos /\ i # op[c].pos) /\ (i = op[c].pos => i <= op[c].pos)
        BY <1>2
      <4>2. CASE i = op[c].pos
        BY <1>6, <3>2, <3>3, <4>1, <4>2, Zenon DEF Born, Inited
      <4>3. CASE i # op[c].pos
        BY <1>6, <3>2, <3>3, <4>1, <4>3, Zenon DEF Born, Inited
      <4> QED BY <4>2, <4>3
    <3> QED BY <1>2, <1>8, <1>10, <3>1, <3>4 DEF Adding
  <2> QED BY <1>7, <1>8, <1>10, <2>1, AddGoesOn DEF AddSteps, Unsealed
<1> QED BY <1>9, <1>10

LEMMA RegisterLists ==
  ASSUME ManagerInv, NEW c \in Callers, \A x \in Callers : x = c, Register(c)
  PROVE  CallsAgree' /\ ListsAgree'
<1> USE DEF ManagerInv
<1>1. PICK l \in Lists : l = op[c].list
  BY Active, Positions DEF Register, At
<1>2. /\ op[c] # Idle /\ op[c].pos \in Nat /\ op[c].pos <= Len(Member[l]) /\ Last(c) = Len(Member[l])
      /\ ~At(c, "undo") => op[c].pos >= 1 /\ Current(c) \in Members(l) /\ Current(c) \in Threads
  BY <1>1, Active, Positions DEF Register, At
<1>3. /\ listLock[l] = c
      /\ \A i \in 1 .. Len(Member[l]) : Adding(op[c], i) /\ Member[l][i] \in Threads
      /\ op[c].pos >= 1 => \A i \in 1 .. Len(Member[l]) : (Member[l][i] = Current(c)) <=> i = op[c].pos
  BY <1>1, <1>2, AddFacts DEF Register, At, AddSteps
<1>4. (op[c].step \in Unsealed) = ~sealed[l]
  BY <1>1, <1>2 DEF CallsAgree
<1>5. sealed[l]
  BY <1>4 DEF Register, At, Unsealed, Typed
<1>6. /\ UNCHANGED <<started, prepared, aspects, ready, sealed>>
      /\ managed' = managed \cup Members(l) /\ listLock' = [listLock EXCEPT ![l] = Free]
  BY <1>1 DEF Register, Unlock, flags, inits
<1>7. Touches(l) /\ op'[c] = Idle
  BY <1>6, ReturnFacts DEF Touches, Typed, Register
<1>8. \A i \in 1 .. Len(Member[l]) : Born(Member[l][i])
  BY <1>1, <1>3 DEF Register, At, Adding
<1>9. \A t \in Members(l) : (Up(t) /\ ~prepared[t])'
  BY <1>6, <1>8, MemberFacts DEF Born, Up
<1>10. AtRest(l)'
  BY <1>5, <1>6, <1>9 DEF AtRest, AllUp, Members
<1> QED BY <1>7, <1>10, CallReturns

LEMMA AllDownFrame ==
  ASSUME NEW l \in Lists, UNCHANGED <<started, aspects, ready, managed>>
  PROVE  AllDown(l) => AllDown(l)'
BY Zenon DEF AllDown, Down, Members

LEMMA PrepareAspectsLists ==
  ASSUME ManagerInv, NEW c \in Callers, \A x \in Callers : x = c, PrepareAspects(c)
  PROVE  CallsAgree' /\ ListsAgree'
<1> USE DEF ManagerInv
<1>1. PICK l \in Lists : l = op[c].list
  BY Active, Positions DEF PrepareAspects, At
<1>2. /\ op[c] # Idle /\ op[c].pos \in Nat /\ op[c].pos <= Len(Member[l]) /\ Last(c) = Len(Member[l])
      /\ op[c].pos >= 1 /\ Current(c) \in Members(l) /\ Current(c) \in Threads
      /\ Len(Member[l]) \in Nat /\ Len(Member[l]) >= 1
  BY <1>1, Active, Positions DEF PrepareAspects, At
<1>3. /\ listLock[l] = c /\ sealed[l]
      /\ \A i \in 1 .. Len(Member[l]) : Member[l][i] \in Threads /\ ((Member[l][i] = Current(c)) <=> i = op[c].pos)
      /\ \/ Again(op[c])
         \/ /\ op[c].step \in AskSteps \cup {"prep_user", "verdict"} => ~op[c].threw
            /\ \A i \in 1 .. Len(Member[l]) : Removing(op[c], i)
  BY <1>1, <1>2, RemoveFacts DEF PrepareAspects, At, RemoveSteps, StopSteps
<1>4. UNCHANGED <<started, prepared, aspects, ready, managed, sealed, listLock>>
  BY DEF PrepareAspects, flags, inits, lists
<1>5. /\ op'[c] # Idle /\ op'[c].list = l /\ op'[c].step = "prep_check" /\ op'[c].pos = op[c].pos
      /\ op'[c].threw = op[c].threw
  BY <1>1, <1>2, AspectsFacts
<1>6. Touches(l) /\ listLock'[l] = c /\ sealed'[l]
  BY <1>3, <1>4 DEF Touches
<1>7. CASE Again(op[c])
  <2>1. AllDown(l)'
    BY <1>1, <1>4, <1>7, AllDownFrame DEF Again
  <2>2. Again(op[c])'
    BY <1>1, <1>5, <1>7, <2>1 DEF Again, PrepareAspects, At
  <2> QED BY <1>5, <1>6, <2>2, RemoveGoesOn DEF RemoveSteps
<1>8. CASE ~Again(op[c])
  <2>1. ~op'[c].threw /\ \A i \in 1 .. Len(Member[l]) : Removing(op[c], i)'
    BY <1>1, <1>3, <1>4, <1>5, <1>8 DEF Removing, AskSteps, Up, PrepareAspects, At
  <2> QED BY <1>5, <1>6, <2>1, RemoveGoesOn DEF RemoveSteps
<1> QED BY <1>7, <1>8

LEMMA PrepareCheckLists ==
  ASSUME ManagerInv, NEW c \in Callers, \A x \in Callers : x = c, PrepareCheck(c)
  PROVE  CallsAgree' /\ ListsAgree'
<1> USE DEF ManagerInv
<1>1. PICK l \in Lists : l = op[c].list
  BY Active, Positions DEF PrepareCheck, At
<1>2. /\ op[c] # Idle /\ op[c].pos \in Nat /\ op[c].pos <= Len(Member[l]) /\ Last(c) = Len(Member[l])
      /\ op[c].pos >= 1 /\ Current(c) \in Members(l) /\ Current(c) \in Threads
      /\ Len(Member[l]) \in Nat /\ Len(Member[l]) >= 1
  BY <1>1, Active, Positions DEF PrepareCheck, At
<1>3. /\ listLock[l] = c /\ sealed[l]
      /\ \A i \in 1 .. Len(Member[l]) : Member[l][i] \in Threads /\ ((Member[l][i] = Current(c)) <=> i = op[c].pos)
      /\ \/ Again(op[c])
         \/ /\ op[c].step \in AskSteps \cup {"prep_user", "verdict"} => ~op[c].threw
            /\ \A i \in 1 .. Len(Member[l]) : Removing(op[c], i)
  BY <1>1, <1>2, RemoveFacts DEF PrepareCheck, At, RemoveSteps, StopSteps
<1>4. UNCHANGED <<started, prepared, aspects, ready, managed, sealed, listLock>>
  BY DEF PrepareCheck, flags, inits, lists
<1>5. Touches(l) /\ listLock'[l] = c /\ sealed'[l]
  BY <1>3, <1>4 DEF Touches
<1>6. CASE Again(op[c])
  <2>1. AllDown(l)'
    BY <1>1, <1>4, <1>6, AllDownFrame DEF Again
  <2>2. ~started[Current(c)]
    BY <1>1, <1>2, <1>6 DEF Again, AllDown, Down
  <2>3. /\ op'[c] # Idle /\ op'[c].list = l /\ op'[c].step \in {"prep_aspects", "verdict"} /\ op'[c].threw
    BY <1>1, <1>2, <2>2, CheckFacts
  <2>4. Again(op[c])'
    BY <2>1, <2>3 DEF Again
  <2> QED BY <1>5, <2>3, <2>4, RemoveGoesOn DEF RemoveSteps
<1>7. CASE ~Again(op[c])
  <2>1. started[Current(c)] /\ ~prepared[Current(c)] /\ ~op[c].threw
    BY <1>1, <1>2, <1>3, <1>7 DEF Removing, AskSteps, Up, PrepareCheck, At
  <2>2. /\ op'[c] # Idle /\ op'[c].list = l /\ op'[c].step = "prep_hold" /\ op'[c].pos = op[c].pos
        /\ op'[c].threw = op[c].threw
    BY <1>1, <1>2, <2>1, CheckFacts
  <2>3. ~op'[c].threw /\ \A i \in 1 .. Len(Member[l]) : Removing(op[c], i)'
    BY <1>1, <1>3, <1>4, <1>7, <2>1, <2>2 DEF Removing, AskSteps, Up, PrepareCheck, At
  <2> QED BY <1>5, <2>2, <2>3, RemoveGoesOn DEF RemoveSteps
<1> QED BY <1>6, <1>7

LEMMA PrepareHoldLists ==
  ASSUME ManagerInv, NEW c \in Callers, \A x \in Callers : x = c, PrepareHold(c)
  PROVE  CallsAgree' /\ ListsAgree'
<1> USE DEF ManagerInv
<1>1. PICK l \in Lists : l = op[c].list
  BY Active, Positions DEF PrepareHold, At
<1>2. /\ op[c] # Idle /\ op[c].pos \in Nat /\ op[c].pos <= Len(Member[l]) /\ Last(c) = Len(Member[l])
      /\ op[c].pos >= 1 /\ Current(c) \in Members(l) /\ Current(c) \in Threads
      /\ Len(Member[l]) \in Nat /\ Len(Member[l]) >= 1
  BY <1>1, Active, Positions DEF PrepareHold, At
<1>3. /\ listLock[l] = c /\ sealed[l]
      /\ \A i \in 1 .. Len(Member[l]) : Member[l][i] \in Threads /\ ((Member[l][i] = Current(c)) <=> i = op[c].pos)
      /\ \/ Again(op[c])
         \/ /\ op[c].step \in AskSteps \cup {"prep_user", "verdict"} => ~op[c].threw
            /\ \A i \in 1 .. Len(Member[l]) : Removing(op[c], i)
  BY <1>1, <1>2, RemoveFacts DEF PrepareHold, At, RemoveSteps, StopSteps
<1>4. /\ UNCHANGED <<started, aspects, ready, managed, sealed, listLock>>
      /\ \A t \in Threads : t # Current(c) => prepared'[t] = prepared[t]
  BY DEF PrepareHold, flags, inits, lists, Typed
<1>5. Touches(l) /\ listLock'[l] = c /\ sealed'[l]
  BY <1>2, <1>3, <1>4 DEF Touches
<1>6. /\ \A i \in 1 .. Len(Member[l]) : Removing(op[c], i)
      /\ ~op[c].threw
  BY <1>3 DEF Again, PrepareHold, At, AskSteps
<1>7. /\ op'[c] # Idle /\ op'[c].list = l /\ op'[c].pos = op[c].pos /\ op'[c].threw = op[c].threw
      /\ \/ op'[c].step = "prep_user"
         \/ op'[c].step = "prep_starve" /\ prepared' = prepared
  BY <1>1, <1>2, GotoFacts DEF PrepareHold, Steps, RemoveSteps
<1>9. ASSUME NEW i \in 1 .. Len(Member[l]) PROVE Removing(op[c], i)'
  <2>1. /\ Up(Member[l][i]) /\ (i <= op[c].pos => ~prepared[Member[l][i]])
        /\ Member[l][i] \in Threads /\ ((Member[l][i] = Current(c)) <=> i = op[c].pos)
    BY <1>1, <1>3, <1>6 DEF Removing, AskSteps, PrepareHold, At
  <2>2. Up(Member[l][i])'
    BY <1>4, <2>1 DEF Up
  <2>3. CASE op'[c].step = "prep_user"
    <3>1. i < op[c].pos => ~prepared'[Member[l][i]]
      BY <1>2, <1>4, <2>1
    <3> QED BY <1>7, <2>2, <2>3, <3>1 DEF Removing, AskSteps
  <2>4. CASE op'[c].step = "prep_starve" /\ prepared' = prepared
    BY <1>7, <2>1, <2>2, <2>4 DEF Removing, AskSteps
  <2> QED BY <1>7, <2>3, <2>4
<1>8. ~op'[c].threw /\ \A i \in 1 .. Len(Member[l]) : Removing(op[c], i)'
  BY <1>6, <1>7, <1>9
<1> QED BY <1>5, <1>7, <1>8, RemoveGoesOn DEF RemoveSteps

LEMMA PrepareStarveLists ==
  ASSUME ManagerInv, NEW c \in Callers, \A x \in Callers : x = c, PrepareStarve(c)
  PROVE  CallsAgree' /\ ListsAgree'
<1> USE DEF ManagerInv
<1>1. PICK l \in Lists : l = op[c].list
  BY Active, Positions DEF PrepareStarve, At
<1>2. /\ op[c] # Idle /\ op[c].pos \in Nat /\ op[c].pos <= Len(Member[l]) /\ Last(c) = Len(Member[l])
      /\ op[c].pos >= 1 /\ Current(c) \in Members(l) /\ Current(c) \in Threads
      /\ Len(Member[l]) \in Nat /\ Len(Member[l]) >= 1
  BY <1>1, Active, Positions DEF PrepareStarve, At
<1>3. /\ listLock[l] = c /\ sealed[l]
      /\ \A i \in 1 .. Len(Member[l]) : Member[l][i] \in Threads /\ ((Member[l][i] = Current(c)) <=> i = op[c].pos)
      /\ \/ Again(op[c])
         \/ /\ op[c].step \in AskSteps \cup {"prep_user", "verdict"} => ~op[c].threw
            /\ \A i \in 1 .. Len(Member[l]) : Removing(op[c], i)
  BY <1>1, <1>2, RemoveFacts DEF PrepareStarve, At, RemoveSteps, StopSteps
<1>4. /\ UNCHANGED <<started, aspects, ready, managed, sealed, listLock>>
      /\ \A t \in Threads : t # Current(c) => prepared'[t] = prepared[t]
  BY DEF PrepareStarve, flags, inits, lists, Typed
<1>5. Touches(l) /\ listLock'[l] = c /\ sealed'[l]
  BY <1>2, <1>3, <1>4 DEF Touches
<1>6. /\ \A i \in 1 .. Len(Member[l]) : Removing(op[c], i)
      /\ ~op[c].threw
  BY <1>3 DEF Again, PrepareStarve, At, AskSteps
<1>7. /\ op'[c] # Idle /\ op'[c].list = l /\ op'[c].pos = op[c].pos /\ op'[c].threw = op[c].threw
      /\ op'[c].step = "prep_loop" /\ prepared' = prepared
  BY <1>1, <1>2, GotoFacts DEF PrepareStarve, Steps, RemoveSteps, flags
<1>8. ~op'[c].threw /\ \A i \in 1 .. Len(Member[l]) : Removing(op[c], i)'
  BY <1>1, <1>2, <1>3, <1>4, <1>6, <1>7 DEF Removing, AskSteps, Up, PrepareStarve, At
<1> QED BY <1>5, <1>7, <1>8, RemoveGoesOn DEF RemoveSteps

LEMMA PrepareLoopLists ==
  ASSUME ManagerInv, NEW c \in Callers, \A x \in Callers : x = c, PrepareLoop(c)
  PROVE  CallsAgree' /\ ListsAgree'
<1> USE DEF ManagerInv
<1>1. PICK l \in Lists : l = op[c].list
  BY Active, Positions DEF PrepareLoop, At
<1>2. /\ op[c] # Idle /\ op[c].pos \in Nat /\ op[c].pos <= Len(Member[l]) /\ Last(c) = Len(Member[l])
      /\ op[c].pos >= 1 /\ Current(c) \in Members(l) /\ Current(c) \in Threads
      /\ Len(Member[l]) \in Nat /\ Len(Member[l]) >= 1
  BY <1>1, Active, Positions DEF PrepareLoop, At
<1>3. /\ listLock[l] = c /\ sealed[l]
      /\ \A i \in 1 .. Len(Member[l]) : Member[l][i] \in Threads /\ ((Member[l][i] = Current(c)) <=> i = op[c].pos)
      /\ \/ Again(op[c])
         \/ /\ op[c].step \in AskSteps \cup {"prep_user", "verdict"} => ~op[c].threw
            /\ \A i \in 1 .. Len(Member[l]) : Removing(op[c], i)
  BY <1>1, <1>2, RemoveFacts DEF PrepareLoop, At, RemoveSteps, StopSteps
<1>4. /\ UNCHANGED <<started, aspects, ready, managed, sealed, listLock>>
      /\ \A t \in Threads : t # Current(c) => prepared'[t] = prepared[t]
  BY DEF PrepareLoop, flags, inits, lists, Typed
<1>5. Touches(l) /\ listLock'[l] = c /\ sealed'[l]
  BY <1>2, <1>3, <1>4 DEF Touches
<1>6. /\ \A i \in 1 .. Len(Member[l]) : Removing(op[c], i)
      /\ ~op[c].threw
  BY <1>3 DEF Again, PrepareLoop, At, AskSteps
<1>7. /\ op'[c] # Idle /\ op'[c].list = l /\ op'[c].pos = op[c].pos /\ op'[c].threw = op[c].threw
      /\ op'[c].step = "prep_user"
  BY <1>1, <1>2, GotoFacts DEF PrepareLoop, Steps, RemoveSteps
<1>8. ASSUME NEW i \in 1 .. Len(Member[l]) PROVE Removing(op[c], i)'
  <2>1. PICK t \in Threads : t = Member[l][i] /\ (t = Current(c) <=> i = op[c].pos)
    BY <1>3
  <2>2. Up(t) /\ (i <= op[c].pos => ~prepared[t])
    <3>1. Removing(op[c], i) /\ op[c].step = "prep_loop"
      BY <1>6 DEF PrepareLoop, At
    <3> QED BY <1>1, <2>1, <3>1 DEF Removing, AskSteps
  <2>3. Up(t)' /\ (i < op[c].pos => ~prepared'[t])
    BY <1>2, <1>4, <2>1, <2>2 DEF Up
  <2> QED BY <1>7, <2>1, <2>3 DEF Removing, AskSteps
<1>9. ~op'[c].threw
  BY <1>6, <1>7
<1> QED BY <1>5, <1>7, <1>8, <1>9, RemoveGoesOn DEF RemoveSteps

LEMMA PrepareUserLists ==
  ASSUME ManagerInv, NEW c \in Callers, \A x \in Callers : x = c, PrepareUser(c)
  PROVE  CallsAgree' /\ ListsAgree'
<1> USE DEF ManagerInv
<1>1. PICK l \in Lists : l = op[c].list
  BY Active, Positions DEF PrepareUser, At
<1>2. /\ op[c] # Idle /\ op[c].pos \in Nat /\ op[c].pos <= Len(Member[l]) /\ Last(c) = Len(Member[l])
      /\ op[c].pos >= 1 /\ Current(c) \in Members(l) /\ Current(c) \in Threads
      /\ Len(Member[l]) \in Nat /\ Len(Member[l]) >= 1
  BY <1>1, Active, Positions DEF PrepareUser, At
<1>3. /\ listLock[l] = c /\ sealed[l]
      /\ \A i \in 1 .. Len(Member[l]) : Member[l][i] \in Threads /\ ((Member[l][i] = Current(c)) <=> i = op[c].pos)
      /\ \/ Again(op[c])
         \/ /\ op[c].step \in AskSteps \cup {"prep_user", "verdict"} => ~op[c].threw
            /\ \A i \in 1 .. Len(Member[l]) : Removing(op[c], i)
  BY <1>1, <1>2, RemoveFacts DEF PrepareUser, At, RemoveSteps, StopSteps
<1>4. UNCHANGED <<started, prepared, aspects, ready, managed, sealed, listLock>>
  BY DEF PrepareUser, flags, inits, lists
<1>5. Touches(l) /\ listLock'[l] = c /\ sealed'[l]
  BY <1>3, <1>4 DEF Touches
<1>6. /\ \A i \in 1 .. Len(Member[l]) : Removing(op[c], i)
      /\ ~op[c].threw
  BY <1>3 DEF Again, PrepareUser, At, AskSteps
<1>7. /\ op'[c] # Idle /\ op'[c].list = l /\ ~op'[c].threw
      /\ op[c].pos > 1 => op'[c].step = "prep_aspects" /\ op'[c].pos = op[c].pos - 1
      /\ op[c].pos <= 1 => op'[c].step = "verdict" /\ op'[c].pos = op[c].pos
  BY <1>1, <1>2, <1>6, PreparedFacts
<1>8. ASSUME NEW i \in 1 .. Len(Member[l]) PROVE Removing(op[c], i)'
  <2>1. PICK t \in Threads : t = Member[l][i]
    BY <1>3
  <2>2. Up(t) /\ (i < op[c].pos => ~prepared[t])
    <3>1. Removing(op[c], i) /\ op[c].step = "prep_user"
      BY <1>6 DEF PrepareUser, At
    <3> QED BY <1>1, <2>1, <3>1 DEF Removing, AskSteps
  <2>3. Up(t)' /\ (i <= op[c].pos - 1 => ~prepared'[t])
    BY <1>2, <1>4, <2>2 DEF Up
  <2>4. CASE op[c].pos > 1
    BY <1>7, <2>1, <2>3, <2>4 DEF Removing, AskSteps
  <2>5. CASE op[c].pos <= 1
    BY <1>7, <2>1, <2>3, <2>5 DEF Removing, AskSteps
  <2> QED BY <1>2, <2>4, <2>5
<1>9. op'[c].step \in {"prep_aspects", "verdict"}
  BY <1>2, <1>7
<1> QED BY <1>5, <1>7, <1>8, <1>9, RemoveGoesOn DEF RemoveSteps

LEMMA VerdictLists ==
  ASSUME ManagerInv, NEW c \in Callers, \A x \in Callers : x = c, Verdict(c)
  PROVE  CallsAgree' /\ ListsAgree'
<1> USE DEF ManagerInv
<1>1. PICK l \in Lists : l = op[c].list
  BY Active, Positions DEF Verdict, At
<1>2. /\ op[c] # Idle /\ op[c].pos \in Nat /\ op[c].pos <= Len(Member[l]) /\ Last(c) = Len(Member[l])
      /\ op[c].pos >= 1 /\ Current(c) \in Members(l) /\ Current(c) \in Threads
      /\ Len(Member[l]) \in Nat /\ Len(Member[l]) >= 1
  BY <1>1, Active, Positions DEF Verdict, At
<1>3. /\ listLock[l] = c /\ sealed[l]
      /\ \A i \in 1 .. Len(Member[l]) : Member[l][i] \in Threads /\ ((Member[l][i] = Current(c)) <=> i = op[c].pos)
      /\ \/ Again(op[c])
         \/ /\ op[c].step \in AskSteps \cup {"prep_user", "verdict"} => ~op[c].threw
            /\ \A i \in 1 .. Len(Member[l]) : Removing(op[c], i)
  BY <1>1, <1>2, RemoveFacts DEF Verdict, At, RemoveSteps, StopSteps
<1>4. UNCHANGED <<started, prepared, aspects, ready, managed, sealed>>
  BY DEF Verdict, flags, inits
<1>5. CASE Again(op[c])
  <2>1. op[c].threw /\ AllDown(l)
    BY <1>1, <1>5 DEF Again, Verdict, At
  <2>2. AllDown(l)'
    BY <1>4, <2>1, AllDownFrame
  <2>3. CASE op[c].force
    <3>1. op'[c] # Idle /\ op'[c].list = l /\ op'[c].step = "unlist" /\ listLock' = listLock
      BY <1>1, <1>2, <2>1, <2>3, GotoFacts DEF Verdict, Steps, RemoveSteps
    <3>2. Touches(l) /\ listLock'[l] = c /\ sealed'[l]
      BY <1>3, <1>4, <3>1 DEF Touches
    <3>3. Again(op[c])'
      BY <2>2, <3>1 DEF Again
    <3> QED BY <3>1, <3>2, <3>3, RemoveGoesOn DEF RemoveSteps
  <2>4. CASE ~op[c].force
    <3>1. op'[c] = Idle /\ listLock' = [listLock EXCEPT ![l] = Free]
      BY <1>1, <2>1, <2>4, ReturnFacts DEF Verdict, Unlock
    <3>2. Touches(l)
      BY <1>4, <3>1 DEF Touches, Typed
    <3>3. AtRest(l)'
      BY <1>3, <1>4, <2>2 DEF AtRest
    <3> QED BY <3>1, <3>2, <3>3, CallReturns
  <2> QED BY <2>3, <2>4
<1>6. CASE ~Again(op[c])
  <2>1. /\ ~op[c].threw
        /\ \A i \in 1 .. Len(Member[l]) : Up(Member[l][i])
    BY <1>1, <1>3, <1>6 DEF Verdict, At, Removing, AskSteps
  <2>2. /\ op'[c] # Idle /\ op'[c].list = l /\ op'[c].step \in {"cancel", "stop"}
        /\ op'[c].pos = Len(Member[l]) /\ listLock' = listLock
    <3>1. "cancel" \in Steps /\ "stop" \in Steps /\ Last(c) \in Nat
      BY <1>2 DEF Steps, RemoveSteps, StopSteps
    <3> QED BY <1>1, <1>2, <2>1, <3>1, GotoAtFacts DEF Verdict
  <2>3. Touches(l) /\ listLock'[l] = c /\ sealed'[l]
    BY <1>3, <1>4, <2>2 DEF Touches
  <2>4. \A i \in 1 .. Len(Member[l]) : Removing(op[c], i)'
    BY <1>2, <1>4, <2>1, <2>2 DEF Removing, AskSteps, Up
  <2>5. op'[c].step \in RemoveSteps \ {"want_remove", "unlock_again"}
        /\ op'[c].step \notin AskSteps \cup {"prep_user", "verdict"}
    BY <2>2 DEF RemoveSteps, StopSteps, AskSteps
  <2> QED BY <2>2, <2>3, <2>4, <2>5, RemoveGoesOn
<1> QED BY <1>5, <1>6

LEMMA CancelFinalizeLists ==
  ASSUME ManagerInv, NEW c \in Callers, \A x \in Callers : x = c, CancelFinalize(c)
  PROVE  CallsAgree' /\ ListsAgree'
<1> USE DEF ManagerInv
<1>1. PICK l \in Lists : l = op[c].list
  BY Active, Positions DEF CancelFinalize, At
<1>2. /\ op[c] # Idle /\ op[c].pos \in Nat /\ op[c].pos <= Len(Member[l]) /\ Last(c) = Len(Member[l])
      /\ op[c].pos >= 1 /\ Current(c) \in Members(l) /\ Current(c) \in Threads
      /\ Len(Member[l]) \in Nat /\ Len(Member[l]) >= 1
  BY <1>1, Active, Positions DEF CancelFinalize, At
<1>3. /\ listLock[l] = c /\ sealed[l]
      /\ \A i \in 1 .. Len(Member[l]) : Member[l][i] \in Threads /\ ((Member[l][i] = Current(c)) <=> i = op[c].pos)
      /\ \/ Again(op[c])
         \/ /\ op[c].step \in AskSteps \cup {"prep_user", "verdict"} => ~op[c].threw
            /\ \A i \in 1 .. Len(Member[l]) : Removing(op[c], i)
  BY <1>1, <1>2, RemoveFacts DEF CancelFinalize, At, RemoveSteps, StopSteps
<1>4. \A i \in 1 .. Len(Member[l]) : Removing(op[c], i)
  BY <1>3 DEF Again, CancelFinalize, At
<1>5. started[Current(c)]
  <2>1. op[c].pos \in 1 .. Len(Member[l]) /\ Member[l][op[c].pos] = Current(c)
    BY <1>2, <1>3
  <2>2. Removing(op[c], op[c].pos) /\ op[c].step = "cancel"
    BY <1>4, <2>1 DEF CancelFinalize, At
  <2>3. Up(Current(c))
    BY <1>1, <2>1, <2>2 DEF Removing, AskSteps
  <2> QED BY <2>3 DEF Up
<1>6. /\ UNCHANGED <<started, aspects, ready, managed, sealed, listLock>>
      /\ prepared' = [prepared EXCEPT ![Current(c)] = FALSE]
  BY <1>5 DEF CancelFinalize, inits, lists
<1>7. Touches(l) /\ listLock'[l] = c /\ sealed'[l]
  BY <1>2, <1>3, <1>6 DEF Touches, Typed
<1>8. /\ op'[c] # Idle /\ op'[c].list = l
      /\ \/ op[c].pos > 1 /\ op'[c].step = "cancel" /\ op'[c].pos = op[c].pos - 1
         \/ op[c].pos = 1 /\ op'[c].step = "unlock"
  <2>1. op[c].pos - 1 \in Nat /\ "cancel" \in Steps /\ "unlock" \in Steps
    BY <1>2 DEF Steps, RemoveSteps
  <2> QED BY <1>1, <1>2, <1>5, <2>1, GotoFacts, GotoAtFacts DEF CancelFinalize
<1>9. ASSUME NEW i \in 1 .. Len(Member[l]) PROVE Removing(op[c], i)'
  <2>1. /\ Up(Member[l][i]) /\ (i > op[c].pos => ~prepared[Member[l][i]])
        /\ Member[l][i] \in Threads /\ ((Member[l][i] = Current(c)) <=> i = op[c].pos)
    BY <1>1, <1>3, <1>4 DEF Removing, AskSteps, CancelFinalize, At
  <2>2. Up(Member[l][i])' /\ (i >= op[c].pos => ~prepared'[Member[l][i]])
    BY <1>2, <1>6, <2>1 DEF Up, Typed
  <2> QED BY <1>2, <1>8, <2>2 DEF Removing, AskSteps
<1>10. op'[c].step \in RemoveSteps \ {"want_remove", "unlock_again"}
       /\ op'[c].step \notin AskSteps \cup {"prep_user", "verdict"}
  BY <1>8 DEF RemoveSteps, AskSteps
<1> QED BY <1>7, <1>8, <1>9, <1>10, RemoveGoesOn

LEMMA UnlockVetoedLists ==
  ASSUME ManagerInv, NEW c \in Callers, \A x \in Callers : x = c, UnlockVetoed(c)
  PROVE  CallsAgree' /\ ListsAgree'
<1> USE DEF ManagerInv
<1>1. PICK l \in Lists : l = op[c].list
  BY Active, Positions DEF UnlockVetoed, At
<1>2. op[c] # Idle
  BY Active DEF UnlockVetoed, At
<1>3. /\ UNCHANGED <<started, prepared, aspects, ready, managed, sealed>>
      /\ listLock' = [listLock EXCEPT ![l] = Free]
  BY <1>1 DEF UnlockVetoed, Unlock, flags, inits
<1>4. Touches(l) /\ listLock'[l] = Free
  BY <1>3 DEF Touches, Typed
<1>5. AtRest(l)
  <2>1. CASE At(c, "unlock")
    <3>1. /\ sealed[l] /\ \A i \in 1 .. Last(c) : Removing(op[c], i)
      BY <1>1, <1>2, <2>1, RemoveFacts DEF At, RemoveSteps, Again
    <3>2. Last(c) = Len(Member[l])
      BY <1>1, <1>2, Positions
    <3>3. \A i \in 1 .. Len(Member[l]) : Up(Member[l][i]) /\ ~prepared[Member[l][i]]
      BY <1>1, <2>1, <3>1, <3>2 DEF Removing, AskSteps, At
    <3> QED BY <3>1, <3>3, MemberFacts DEF AtRest, AllUp
  <2>2. CASE At(c, "unlock_again")
    BY <1>1, <1>2, <2>2 DEF CallsAgree, ListsAgree, At
  <2> QED BY <2>1, <2>2 DEF UnlockVetoed
<1>6. AtRest(l)'
  BY <1>3, <1>5, Zenon DEF AtRest, AllUp, AllDown, Members, Fresh, Up, Down
<1>7. ListsAgree'
  BY <1>4, <1>6, OtherLists
<1>8. CASE op'[c] = Idle
  BY <1>7, <1>8, OneCall
<1>9. CASE op'[c] # Idle
  <2>1. op'[c].list = l /\ op'[c].step = "unlock_again" /\ At(c, "unlock")
    BY <1>1, <1>2, <1>9, GotoFacts, ReturnFacts DEF UnlockVetoed, Steps, RemoveSteps
  <2>2. sealed[l]
    BY <1>1, <1>2, <2>1, RemoveFacts DEF At, RemoveSteps
  <2>3. op'[c].step \notin Unsealed /\ op'[c].step \in Waiting
    BY <2>1 DEF Unsealed, Waiting
  <2>4. (op'[c].step \in Unsealed) = ~sealed'[op'[c].list]
    BY <1>3, <2>1, <2>2, <2>3
  <2>5. CallsAgree'
    BY <1>4, <2>1, <2>3, <2>4, OneCall
  <2> QED BY <1>7, <2>5
<1> QED BY <1>7, <1>8, <1>9

LEMMA StopThreadLists ==
  ASSUME ManagerInv, NEW c \in Callers, \A x \in Callers : x = c, StopThread(c)
  PROVE  CallsAgree' /\ ListsAgree'
<1> USE DEF ManagerInv
<1>1. PICK l \in Lists : l = op[c].list
  BY Active, Positions DEF StopThread, At
<1>2. /\ op[c] # Idle /\ op[c].pos \in Nat /\ op[c].pos <= Len(Member[l]) /\ Last(c) = Len(Member[l])
      /\ op[c].pos >= 1 /\ Current(c) \in Members(l) /\ Current(c) \in Threads
      /\ Len(Member[l]) \in Nat /\ Len(Member[l]) >= 1
  BY <1>1, Active, Positions DEF StopThread, At
<1>3. /\ listLock[l] = c /\ sealed[l]
      /\ \A i \in 1 .. Len(Member[l]) : Member[l][i] \in Threads /\ ((Member[l][i] = Current(c)) <=> i = op[c].pos)
      /\ \/ Again(op[c])
         \/ /\ op[c].step \in AskSteps \cup {"prep_user", "verdict"} => ~op[c].threw
            /\ \A i \in 1 .. Len(Member[l]) : Removing(op[c], i)
  BY <1>1, <1>2, RemoveFacts DEF StopThread, At, RemoveSteps, StopSteps
<1>4. UNCHANGED <<started, prepared, aspects, ready, managed, sealed, listLock>>
  BY DEF StopThread, inits, lists
<1>5. \A i \in 1 .. Len(Member[l]) : Removing(op[c], i)
  BY <1>3 DEF Again, StopThread, At
<1>6. op'[c] # Idle /\ op'[c].list = l /\ op'[c].step = "join" /\ op'[c].pos = op[c].pos
  BY <1>1, <1>2, GotoFacts DEF StopThread, Steps, RemoveSteps, StopSteps
<1>7. Touches(l) /\ listLock'[l] = c /\ sealed'[l]
  BY <1>3, <1>4 DEF Touches
<1>8. \A i \in 1 .. Len(Member[l]) : Removing(op[c], i)'
  BY <1>1, <1>4, <1>5, <1>6 DEF Removing, AskSteps, Up, Halted, StopThread, At
<1>9. op'[c].step \in RemoveSteps \ {"want_remove", "unlock_again"}
       /\ op'[c].step \notin AskSteps \cup {"prep_user", "verdict"}
  BY <1>6 DEF RemoveSteps, StopSteps, AskSteps
<1> QED BY <1>6, <1>7, <1>8, <1>9, RemoveGoesOn

LEMMA JoinThreadLists ==
  ASSUME ManagerInv, NEW c \in Callers, \A x \in Callers : x = c, JoinThread(c)
  PROVE  CallsAgree' /\ ListsAgree'
<1> USE DEF ManagerInv
<1>1. PICK l \in Lists : l = op[c].list
  BY Active, Positions DEF JoinThread, At
<1>2. /\ op[c] # Idle /\ op[c].pos \in Nat /\ op[c].pos <= Len(Member[l]) /\ Last(c) = Len(Member[l])
      /\ op[c].pos >= 1 /\ Current(c) \in Members(l) /\ Current(c) \in Threads
      /\ Len(Member[l]) \in Nat /\ Len(Member[l]) >= 1
  BY <1>1, Active, Positions DEF JoinThread, At
<1>3. /\ listLock[l] = c /\ sealed[l]
      /\ \A i \in 1 .. Len(Member[l]) : Member[l][i] \in Threads /\ ((Member[l][i] = Current(c)) <=> i = op[c].pos)
      /\ \/ Again(op[c])
         \/ /\ op[c].step \in AskSteps \cup {"prep_user", "verdict"} => ~op[c].threw
            /\ \A i \in 1 .. Len(Member[l]) : Removing(op[c], i)
  BY <1>1, <1>2, RemoveFacts DEF JoinThread, At, RemoveSteps, StopSteps
<1>4. \A i \in 1 .. Len(Member[l]) : Removing(op[c], i)
  BY <1>3 DEF Again, JoinThread, At
<1>5. /\ UNCHANGED <<prepared, aspects, ready, managed, sealed, listLock>>
      /\ started' = [started EXCEPT ![Current(c)] = FALSE]
  BY <1>2 DEF JoinThread, inits, lists, Typed
<1>6. Touches(l) /\ listLock'[l] = c /\ sealed'[l]
  BY <1>2, <1>3, <1>5 DEF Touches, Typed
<1>7. /\ op'[c] # Idle /\ op'[c].list = l
      /\ \/ op[c].pos > 1 /\ op'[c].step = "stop" /\ op'[c].pos = op[c].pos - 1
         \/ op[c].pos = 1 /\ op'[c].step = "finalize" /\ op'[c].pos = Len(Member[l])
  <2>1. op[c].pos - 1 \in Nat /\ Last(c) \in Nat /\ "stop" \in Steps /\ "finalize" \in Steps
    BY <1>2 DEF Steps, RemoveSteps, StopSteps
  <2> QED BY <1>1, <1>2, <2>1, GotoAtFacts DEF JoinThread
<1>8. ASSUME NEW i \in 1 .. Len(Member[l]) PROVE Removing(op[c], i)'
  <2>1. /\ IF i <= op[c].pos THEN Up(Member[l][i]) ELSE Halted(Member[l][i])
        /\ Member[l][i] \in Threads /\ ((Member[l][i] = Current(c)) <=> i = op[c].pos)
    BY <1>1, <1>3, <1>4 DEF Removing, AskSteps, JoinThread, At
  <2>2. IF i < op[c].pos THEN Up(Member[l][i])' ELSE Halted(Member[l][i])'
    BY <1>2, <1>5, <2>1 DEF Up, Halted, Typed
  <2>3. IF i <= op'[c].pos THEN op'[c].step = "stop" => Up(Member[l][i])' ELSE Halted(Member[l][i])'
    BY <1>2, <1>7, <2>2
  <2>4. op'[c].step = "finalize" => Halted(Member[l][i])' /\ i <= op'[c].pos /\ Member[l][i] \in managed'
    BY <1>2, <1>7, <2>2 DEF Halted
  <2> QED BY <1>7, <2>3, <2>4 DEF Removing, AskSteps
<1>9. op'[c].step \in RemoveSteps \ {"want_remove", "unlock_again"}
       /\ op'[c].step \notin AskSteps \cup {"prep_user", "verdict"}
  BY <1>7 DEF RemoveSteps, StopSteps, AskSteps
<1> QED BY <1>6, <1>7, <1>8, <1>9, RemoveGoesOn

LEMMA FinalizeThreadLists ==
  ASSUME ManagerInv, NEW c \in Callers, \A x \in Callers : x = c, FinalizeThread(c)
  PROVE  CallsAgree' /\ ListsAgree'
<1> USE DEF ManagerInv
<1>1. PICK l \in Lists : l = op[c].list
  BY Active, Positions DEF FinalizeThread, At
<1>2. /\ op[c] # Idle /\ op[c].pos \in Nat /\ op[c].pos <= Len(Member[l]) /\ Last(c) = Len(Member[l])
      /\ op[c].pos >= 1 /\ Current(c) \in Members(l) /\ Current(c) \in Threads
      /\ Len(Member[l]) \in Nat /\ Len(Member[l]) >= 1
  BY <1>1, Active, Positions DEF FinalizeThread, At
<1>3. /\ listLock[l] = c /\ sealed[l]
      /\ \A i \in 1 .. Len(Member[l]) : Member[l][i] \in Threads /\ ((Member[l][i] = Current(c)) <=> i = op[c].pos)
      /\ \/ Again(op[c])
         \/ /\ op[c].step \in AskSteps \cup {"prep_user", "verdict"} => ~op[c].threw
            /\ \A i \in 1 .. Len(Member[l]) : Removing(op[c], i)
  BY <1>1, <1>2, RemoveFacts DEF FinalizeThread, At, RemoveSteps, StopSteps
<1>4. \A i \in 1 .. Len(Member[l]) : Removing(op[c], i)
  BY <1>3 DEF Again, FinalizeThread, At
<1>5. /\ UNCHANGED <<started, prepared, managed, sealed>>
      /\ aspects' = [aspects EXCEPT ![Current(c)] = FALSE]
      /\ ready' = [ready EXCEPT ![Current(c)] = FALSE]
  BY DEF FinalizeThread, Finalize, flags
<1>6. \A i \in 1 .. Len(Member[l]) :
        Member[l][i] \in managed' /\ IF i < op[c].pos THEN Halted(Member[l][i])' ELSE Down(Member[l][i])'
  <2> SUFFICES ASSUME NEW i \in 1 .. Len(Member[l])
               PROVE  Member[l][i] \in managed'
                        /\ IF i < op[c].pos THEN Halted(Member[l][i])' ELSE Down(Member[l][i])'
    OBVIOUS
  <2>1. /\ Member[l][i] \in managed
        /\ IF i <= op[c].pos THEN Halted(Member[l][i]) ELSE Down(Member[l][i])
        /\ Member[l][i] \in Threads /\ ((Member[l][i] = Current(c)) <=> i = op[c].pos)
    BY <1>1, <1>3, <1>4 DEF Removing, AskSteps, FinalizeThread, At
  <2> QED BY <1>2, <1>5, <2>1 DEF Halted, Down, Typed
<1>7. CASE op[c].pos > 1
  <2>1. /\ op'[c] # Idle /\ op'[c].list = l /\ op'[c].step = "finalize"
        /\ op'[c].pos = op[c].pos - 1 /\ listLock' = listLock
    BY <1>1, <1>2, <1>7, FinalizeFacts
  <2>2. \A i \in 1 .. Len(Member[l]) : Removing(op[c], i)'
    BY <1>2, <1>6, <2>1 DEF Removing, AskSteps
  <2>3. Touches(l) /\ listLock'[l] = c /\ sealed'[l]
    BY <1>2, <1>3, <1>5, <2>1 DEF Touches, Typed
  <2>4. op'[c].step \in RemoveSteps \ {"want_remove", "unlock_again"}
         /\ op'[c].step \notin AskSteps \cup {"prep_user", "verdict"}
    BY <2>1 DEF RemoveSteps, StopSteps, AskSteps
  <2> QED BY <2>1, <2>2, <2>3, <2>4, RemoveGoesOn
<1>8. CASE op[c].pos = 1
  <2>1. \A i \in 1 .. Len(Member[l]) : Member[l][i] \in managed' /\ Down(Member[l][i])'
    BY <1>6, <1>8
  <2>2. AllDown(l)'
    <3>1. \A t \in Members(l) : t \in managed' /\ Down(t)'
      BY <2>1, MemberFacts
    <3> QED BY <3>1 DEF AllDown, Members
  <2>3. CASE op'[c] = Idle
    <3>1. listLock' = [listLock EXCEPT ![l] = Free]
      BY <1>1, <1>2, <1>8, <2>3, FinalizeFacts DEF Unlock
    <3>2. Touches(l)
      BY <1>2, <1>5, <3>1 DEF Touches, Typed
    <3>3. AtRest(l)'
      BY <1>3, <1>5, <2>2 DEF AtRest
    <3> QED BY <2>3, <3>2, <3>3, CallReturns
  <2>4. CASE op'[c] # Idle
    <3>1. op'[c].list = l /\ op'[c].step = "unlist" /\ listLock' = listLock
      BY <1>1, <1>2, <1>8, <2>4, FinalizeFacts
    <3>2. Touches(l) /\ listLock'[l] = c /\ sealed'[l]
      BY <1>2, <1>3, <1>5, <3>1 DEF Touches, Typed
    <3>3. Again(op[c])'
      BY <2>2, <3>1 DEF Again
    <3> QED BY <2>4, <3>1, <3>2, <3>3, RemoveGoesOn DEF RemoveSteps
  <2> QED BY <2>3, <2>4
<1> QED BY <1>2, <1>7, <1>8

LEMMA UnlistLists ==
  ASSUME ManagerInv, NEW c \in Callers, \A x \in Callers : x = c, Unlist(c)
  PROVE  CallsAgree' /\ ListsAgree'
<1> USE DEF ManagerInv
<1>1. PICK l \in Lists : l = op[c].list
  BY Active, Positions DEF Unlist, At
<1>2. /\ op[c] # Idle /\ op[c].pos \in Nat /\ op[c].pos <= Len(Member[l]) /\ Last(c) = Len(Member[l])
      /\ op[c].pos >= 1 /\ Current(c) \in Members(l) /\ Current(c) \in Threads
      /\ Len(Member[l]) \in Nat /\ Len(Member[l]) >= 1
  BY <1>1, Active, Positions DEF Unlist, At
<1>3. /\ listLock[l] = c /\ sealed[l]
      /\ \A i \in 1 .. Len(Member[l]) : Member[l][i] \in Threads /\ ((Member[l][i] = Current(c)) <=> i = op[c].pos)
      /\ \/ Again(op[c])
         \/ /\ op[c].step \in AskSteps \cup {"prep_user", "verdict"} => ~op[c].threw
            /\ \A i \in 1 .. Len(Member[l]) : Removing(op[c], i)
  BY <1>1, <1>2, RemoveFacts DEF Unlist, At, RemoveSteps, StopSteps
<1>4. AllDown(l)
  BY <1>1, <1>2, <1>3 DEF Again, Removing, AskSteps, Unlist, At
<1>5. /\ UNCHANGED <<started, prepared, aspects, ready, sealed>>
      /\ managed' = managed \ Members(l) /\ listLock' = [listLock EXCEPT ![l] = Free]
  BY <1>1 DEF Unlist, Unlock, flags, inits
<1>6. Touches(l) /\ op'[c] = Idle
  BY <1>5, ReturnFacts DEF Touches, Typed, Unlist
<1>7. \A t \in Members(l) : Down(t)' /\ t \notin managed'
  BY <1>4, <1>5 DEF AllDown, Down
<1>8. AllDown(l)'
  BY <1>7, MemberFacts DEF AllDown, Members
<1>9. AtRest(l)'
  BY <1>3, <1>5, <1>8 DEF AtRest
<1> QED BY <1>6, <1>9, CallReturns

-----------------------------------------------------------------------------
(* The invariant holds.                                                     *)

OneCaller == \A c, d \in Callers : c = d

LEMMA CallInv ==
  ASSUME OneCaller, ManagerInv, NEW c \in Callers, NEW l \in Lists,
         CallAdd(c, l) \/ \E f \in BOOLEAN : CallRemove(c, l, f)
  PROVE  ManagerInv'
<1>1. \A x \in Callers : x = c
  BY DEF OneCaller
<1>2. Typed'
  BY <1>1, CallTyped DEF ManagerInv
<1>3. WorkersAgree'
  BY DEF ManagerInv, WorkersAgree, CallAdd, CallRemove, flags, mutexes
<1>4. MutexesAgree'
  <2>1. op'[c].step # "prep_user"
    BY DEF ManagerInv, Typed, CallAdd, CallRemove
  <2> QED BY <1>1, <2>1 DEF MutexesAgree, At
<1> QED BY <1>1, <1>2, <1>3, <1>4, CallLists DEF ManagerInv

LEMMA CallerInv ==
  ASSUME OneCaller, ManagerInv, NEW c \in Callers, CallerStep(c) \/ CancelFinalize(c)
  PROVE  ManagerInv'
<1>1. \A x \in Callers : x = c
  BY DEF OneCaller
<1>2. CallsAgree' /\ ListsAgree'
  <2>1. CASE LockList(c)
    BY <1>1, <2>1, LockListLists
  <2>2. CASE InitAspects(c)
    BY <1>1, <2>2, InitAspectsLists
  <2>3. CASE InitThread(c)
    BY <1>1, <2>3, InitThreadLists
  <2>4. CASE Undo(c)
    BY <1>1, <2>4, UndoLists
  <2>5. CASE Seal(c)
    BY <1>1, <2>5, SealLists
  <2>6. CASE Start(c)
    BY <1>1, <2>6, StartLists
  <2>7. CASE Register(c)
    BY <1>1, <2>7, RegisterLists
  <2>8. CASE PrepareAspects(c)
    BY <1>1, <2>8, PrepareAspectsLists
  <2>9. CASE PrepareCheck(c)
    BY <1>1, <2>9, PrepareCheckLists
  <2>10. CASE PrepareHold(c)
    BY <1>1, <2>10, PrepareHoldLists
  <2>11. CASE PrepareStarve(c)
    BY <1>1, <2>11, PrepareStarveLists
  <2>12. CASE PrepareLoop(c)
    BY <1>1, <2>12, PrepareLoopLists
  <2>13. CASE PrepareUser(c)
    BY <1>1, <2>13, PrepareUserLists
  <2>14. CASE Verdict(c)
    BY <1>1, <2>14, VerdictLists
  <2>15. CASE UnlockVetoed(c)
    BY <1>1, <2>15, UnlockVetoedLists
  <2>16. CASE StopThread(c)
    BY <1>1, <2>16, StopThreadLists
  <2>17. CASE JoinThread(c)
    BY <1>1, <2>17, JoinThreadLists
  <2>18. CASE FinalizeThread(c)
    BY <1>1, <2>18, FinalizeThreadLists
  <2>19. CASE Unlist(c)
    BY <1>1, <2>19, UnlistLists
  <2>20. CASE CancelFinalize(c)
    BY <1>1, <2>20, CancelFinalizeLists
  <2> QED BY <2>1, <2>2, <2>3, <2>4, <2>5, <2>6, <2>7, <2>8, <2>9, <2>10,
           <2>11, <2>12, <2>13, <2>14, <2>15, <2>16, <2>17, <2>18, <2>19, <2>20 DEF CallerStep
<1> QED BY <1>1, <1>2, CallerTyped, CallerWorkers, CallerMutexes DEF ManagerInv

LEMMA StutterInv ==
  ASSUME ManagerInv, UNCHANGED vars
  PROVE  ManagerInv'
<1>1. CallsAgree' /\ ListsAgree'
  BY BooksFrame DEF ManagerInv, vars, flags, inits, lists
<1>2. Typed' /\ WorkersAgree' /\ MutexesAgree'
  BY DEF ManagerInv, Typed, Placed, At, Last, Current, WorkersAgree, MutexesAgree, vars, flags, inits,
         mutexes, lists
<1> QED BY <1>1, <1>2 DEF ManagerInv

LEMMA NextInv == OneCaller /\ ManagerInv /\ [Next]_vars => ManagerInv'
BY CallInv, CallerInv, WorkerInv, StutterInv DEF Next

(* With one caller, whatever fails and whatever the threads do, threads,    *)
(* mutexes, calls and lists agree (baseapp/thread_manager.cpp).             *)
THEOREM ManagerInvariance == OneCaller => (Spec => []ManagerInv)
<1> SUFFICES ASSUME OneCaller PROVE Spec => []ManagerInv
  OBVIOUS
<1>1. ManagerInv /\ [Next]_vars => ManagerInv'
  BY NextInv
<1> QED BY <1>1, InitInv, PTL DEF Spec

(* Every variable has its type, and a call is at a thread of its list.      *)
THEOREM ManagerTypes == OneCaller => (Spec => []TypeOK)
<1> SUFFICES ASSUME OneCaller PROVE Spec => []TypeOK
  OBVIOUS
<1>1. ManagerInv => TypeOK
  BY TypedSplit DEF ManagerInv
<1> QED BY <1>1, ManagerInvariance, PTL

(* No thread loops after it was prepared to finalise (the two mutexes of    *)
(* Thread::prepare_finalize and Thread::run).                               *)
THEOREM PreparedDoNotLoop == OneCaller => (Spec => []PrepareExclusive)
<1> SUFFICES ASSUME OneCaller PROVE Spec => []PrepareExclusive
  OBVIOUS
<1>1. ManagerInv => PrepareExclusive
  BY DEF ManagerInv, WorkersAgree, PrepareExclusive
<1> QED BY <1>1, ManagerInvariance, PTL

(* Between calls every list is in one piece, wherever a call failed         *)
(* (ThreadManager::add_maybelocked, remove_maybelocked, force_remove).      *)
THEOREM ListsWhole == OneCaller => (Spec => []Settled)
<1> SUFFICES ASSUME OneCaller PROVE Spec => []Settled
  OBVIOUS
<1>1. ASSUME ManagerInv PROVE Settled
  <2> SUFFICES ASSUME NEW l \in Lists, listLock[l] = Free
               PROVE  IF sealed[l] THEN Running(l) \/ Stopped(l) ELSE Untouched(l)
    BY DEF Settled
  <2>1. AtRest(l)
    BY <1>1 DEF ManagerInv, ListsAgree
  <2>2. AllUp(l) => Running(l)
    BY DEF AllUp, Up, Running
  <2>3. AllDown(l) => Stopped(l)
    BY <1>1, MemberFacts DEF ManagerInv, WorkersAgree, AllDown, Down, Stopped
  <2>4. (\A t \in Members(l) : Fresh(t)) => Untouched(l)
    BY DEF Fresh, Untouched
  <2> QED BY <2>1, <2>2, <2>3, <2>4 DEF AtRest
<1> QED BY <1>1, ManagerInvariance, PTL

(* Only a thread that does not run loses its initialisation.                *)
LEMMA RestsFirstStep ==
  ASSUME OneCaller, ManagerInv, [Next]_vars
  PROVE  [RestsFirst]_vars
<1> SUFFICES ASSUME Next, NEW t \in Threads, (ready[t] /\ ~ready'[t]) \/ (aspects[t] /\ ~aspects'[t])
             PROVE  ~started[t]
  BY DEF RestsFirst, ManagerInv, WorkersAgree
<1>1. PICK c \in Callers : InitThread(c) \/ Undo(c) \/ FinalizeThread(c)
  <2>1. ASSUME NEW c \in Callers, CallerStep(c) \/ CancelFinalize(c),
               ~(InitThread(c) \/ Undo(c) \/ FinalizeThread(c))
        PROVE  ready'[t] = ready[t] /\ (aspects[t] => aspects'[t])
    BY <2>1 DEF CallerStep, CancelFinalize, LockList, InitAspects, Seal, Start, Register,
         PrepareAspects, PrepareCheck, PrepareHold, PrepareStarve, PrepareLoop, PrepareUser, Verdict,
         UnlockVetoed, StopThread, JoinThread, Unlist, inits, ManagerInv, Typed
  <2>2. ASSUME NEW c \in Callers, NEW l \in Lists, CallAdd(c, l) \/ \E f \in BOOLEAN : CallRemove(c, l, f)
        PROVE  ready' = ready /\ aspects' = aspects
    BY <2>2 DEF CallAdd, CallRemove, inits
  <2>3. ASSUME NEW u \in Threads, \/ StopBy(u) \/ WorkerStep(u) \/ LeaveLoop(u) \/ Exit(u)
                                  \/ \E h \in BOOLEAN : SetHold(u, h)
        PROVE  ready' = ready /\ aspects' = aspects
    BY <2>3 DEF StopBy, WorkerStep, Once, EnterLoop, Die, LeaveLoop, Exit, SetHold, Move, inits
  <2> QED BY <2>1, <2>2, <2>3 DEF Next
<1>2. op[c] # Idle
  BY <1>1, Active DEF InitThread, Undo, FinalizeThread, At
<1>3. op[c].list \in Lists /\ Last(c) \in Nat /\ op[c].pos \in Nat /\ op[c].pos <= Last(c)
      /\ Last(c) = Len(Member[op[c].list])
  BY <1>2, Positions DEF ManagerInv
<1>4. t = Current(c) /\ op[c].pos >= 1
  BY <1>1, <1>2, <1>3, Positions DEF InitThread, Undo, FinalizeThread, Finalize, At, ManagerInv, Typed, inits
<1>5. Current(c) = Member[op[c].list][op[c].pos]
  BY DEF Current
<1>6. CASE InitThread(c) \/ Undo(c)
  <2>1. Adding(op[c], op[c].pos)
    BY <1>2, <1>3, <1>4, <1>6, AddFacts DEF InitThread, Undo, At, AddSteps
  <2>2. op[c].step \in {"init", "undo"}
    BY <1>6 DEF InitThread, Undo, At
  <2>3. Equipped(t) \/ Inited(t)
    BY <1>3, <1>4, <1>5, <2>1, <2>2 DEF Adding
  <2> QED BY <2>3 DEF Equipped, Inited
<1>7. CASE FinalizeThread(c)
  <2>1. Removing(op[c], op[c].pos)
    BY <1>2, <1>3, <1>4, <1>7, RemoveFacts DEF FinalizeThread, At, RemoveSteps, StopSteps, Again
  <2>2. op[c].step = "finalize"
    BY <1>7 DEF FinalizeThread, At
  <2>3. Halted(t)
    BY <1>3, <1>4, <1>5, <2>1, <2>2 DEF Removing, AskSteps
  <2> QED BY <2>3 DEF Halted
<1> QED BY <1>1, <1>6, <1>7

(* A thread is finalised after its pthread has ended or before it began     *)
(* (ThreadList::finalize comes after stop, the undo of add() before start). *)
THEOREM FinalizedAfterStop == OneCaller => (Spec => FinalizedAtRest)
<1> SUFFICES ASSUME OneCaller PROVE Spec => FinalizedAtRest
  OBVIOUS
<1>1. ManagerInv /\ [Next]_vars => [RestsFirst]_vars
  BY RestsFirstStep
<1> QED BY <1>1, ManagerInvariance, PTL DEF Spec, FinalizedAtRest

-----------------------------------------------------------------------------
(* The manager implements ThreadCollector.                                  *)

LEMMA ListedSame ==
  ASSUME NEW l \in Lists, sealed'[l] = sealed[l],
         Doing(l, StartSteps)' <=> Doing(l, StartSteps),
         Doing(l, StopSteps)' <=> Doing(l, StopSteps),
         \A t \in Members(l) : started'[t] = started[t] /\ (t \in managed' <=> t \in managed)
  PROVE  Listed(l)' = Listed(l)
<1>1. Members(l)' = Members(l)
  BY DEF Members
<1>2. (Members(l) \cap managed' = {}) <=> (Members(l) \cap managed = {})
  OBVIOUS
<1> HIDE DEF Doing, StartSteps, StopSteps
<1>3. \A t \in Members(l) : started'[t] = started[t]
  OBVIOUS
<1>4. CASE ~sealed[l] \/ Doing(l, StartSteps)
  BY <1>4, Zenon DEF Listed
<1>5. CASE ~(~sealed[l] \/ Doing(l, StartSteps)) /\ Members(l) \cap managed = {}
  BY <1>1, <1>2, <1>3, <1>5, Zenon DEF Listed
<1>6. CASE ~(~sealed[l] \/ Doing(l, StartSteps)) /\ Members(l) \cap managed # {}
  BY <1>1, <1>2, <1>3, <1>6, Zenon DEF Listed
<1> QED BY <1>4, <1>5, <1>6

(* A step that changes one list at most, and as promised.                   *)
Promised(l) ==
  \/ Listed(l)' = Listed(l)
  \/ Listed(l) = "fresh" /\ Listed(l)' \in {"running", "broken"}
  \/ Listed(l) = "running" /\ Listed(l)' = "stopped"
  \/ Listed(l) = "stopped" /\ Listed(l)' = "gone"

LEMMA PromisedStep ==
  ASSUME NEW l \in Lists, Promised(l), \A k \in Lists \ {l} : Listed(k)' = Listed(k)
  PROVE  [Collector!Next]_([k \in Lists |-> Listed(k)])
<1> DEFINE st == [k \in Lists |-> Listed(k)]
<1>1. st' = [st EXCEPT ![l] = Listed(l)']
  OBVIOUS
<1>2. CASE Listed(l)' = Listed(l)
  <2>1. st' = st
    BY <1>2
  <2> QED BY <2>1
<1>3. CASE Listed(l) = "fresh" /\ Listed(l)' \in {"running", "broken"}
  BY <1>1, <1>3 DEF Collector!Next, Collector!Add, Collector!Become
<1>4. CASE Listed(l) = "running" /\ Listed(l)' = "stopped"
  BY <1>1, <1>4 DEF Collector!Next, Collector!Remove, Collector!Become
<1>5. CASE Listed(l) = "stopped" /\ Listed(l)' = "gone"
  BY <1>1, <1>5 DEF Collector!Next, Collector!Forget, Collector!Become
<1> QED BY <1>2, <1>3, <1>4, <1>5 DEF Promised

(* Steps of a call are about its list.                                      *)
LEMMA CallerTouches ==
  ASSUME ManagerInv, NEW c \in Callers, CallerStep(c) \/ CancelFinalize(c)
  PROVE  /\ op[c] # Idle /\ op[c].list \in Lists
         /\ Touches(op[c].list) /\ (op'[c] # Idle => op'[c].list = op[c].list)
<1> USE DEF ManagerInv
<1>1. op[c] # Idle
  BY Active DEF CallerStep, LockList, InitAspects, InitThread, Undo, Seal, Start, Register, PrepareAspects, PrepareCheck, PrepareHold,
                PrepareStarve, PrepareLoop, PrepareUser, Verdict, UnlockVetoed, StopThread, JoinThread, FinalizeThread, Unlist, CancelFinalize, At
<1>2. /\ op[c].list \in Lists /\ Last(c) \in Nat /\ op[c].pos \in Nat
      /\ op[c].pos >= 1 => Current(c) \in Members(op[c].list) /\ Current(c) \in Threads
      /\ ~At(c, "undo") => op[c].pos >= 1 /\ op[c].pos - 1 \in Nat
      /\ op[c].pos + 1 \in Nat
  BY <1>1, Positions
<1> USE DEF Touches, At
<1>3. CASE LockList(c)
  <2>1. op'[c] # Idle => op'[c].list = op[c].list
    BY <1>1, <1>2, <1>3, GotoFacts, GotoAtFacts, ReturnFacts DEF LockList, Steps, AddSteps, RemoveSteps, StopSteps
  <2>2. Touches(op[c].list)
    BY <1>1, <1>2, <1>3 DEF LockList, Finalize, Unlock, Typed, flags, inits, mutexes, lists
  <2> QED BY <1>1, <1>2, <2>1, <2>2
<1>4. CASE InitAspects(c)
  <2>1. op'[c] # Idle => op'[c].list = op[c].list
    BY <1>1, <1>2, <1>4, GotoFacts, GotoAtFacts, ReturnFacts DEF InitAspects, Steps, AddSteps, RemoveSteps, StopSteps
  <2>2. Touches(op[c].list)
    BY <1>1, <1>2, <1>4 DEF InitAspects, Finalize, Unlock, Typed, flags, inits, mutexes, lists
  <2> QED BY <1>1, <1>2, <2>1, <2>2
<1>5. CASE InitThread(c)
  <2>1. op'[c] # Idle => op'[c].list = op[c].list
    BY <1>1, <1>2, <1>5, GotoFacts, GotoAtFacts, ReturnFacts DEF InitThread, Steps, AddSteps, RemoveSteps, StopSteps
  <2>2. Touches(op[c].list)
    BY <1>1, <1>2, <1>5 DEF InitThread, Finalize, Unlock, Typed, flags, inits, mutexes, lists
  <2> QED BY <1>1, <1>2, <2>1, <2>2
<1>6. CASE Undo(c)
  <2>1. op'[c] # Idle => op'[c].list = op[c].list
    BY <1>1, <1>2, <1>6, GotoFacts, GotoAtFacts, ReturnFacts DEF Undo, Steps, AddSteps, RemoveSteps, StopSteps
  <2>2. Touches(op[c].list)
    BY <1>1, <1>2, <1>6 DEF Undo, Finalize, Unlock, Typed, flags, inits, mutexes, lists
  <2> QED BY <1>1, <1>2, <2>1, <2>2
<1>7. CASE Seal(c)
  <2>1. op'[c] # Idle => op'[c].list = op[c].list
    BY <1>1, <1>2, <1>7, GotoFacts, GotoAtFacts, ReturnFacts DEF Seal, Steps, AddSteps, RemoveSteps, StopSteps
  <2>2. Touches(op[c].list)
    BY <1>1, <1>2, <1>7 DEF Seal, Finalize, Unlock, Typed, flags, inits, mutexes, lists
  <2> QED BY <1>1, <1>2, <2>1, <2>2
<1>8. CASE Start(c)
  <2>1. op'[c] # Idle => op'[c].list = op[c].list
    BY <1>1, <1>2, <1>8, GotoFacts, GotoAtFacts, ReturnFacts DEF Start, Steps, AddSteps, RemoveSteps, StopSteps
  <2>2. Touches(op[c].list)
    BY <1>1, <1>2, <1>8 DEF Start, Finalize, Unlock, Typed, flags, inits, mutexes, lists
  <2> QED BY <1>1, <1>2, <2>1, <2>2
<1>9. CASE Register(c)
  <2>1. op'[c] # Idle => op'[c].list = op[c].list
    BY <1>1, <1>2, <1>9, GotoFacts, GotoAtFacts, ReturnFacts DEF Register, Steps, AddSteps, RemoveSteps, StopSteps
  <2>2. Touches(op[c].list)
    BY <1>1, <1>2, <1>9 DEF Register, Finalize, Unlock, Typed, flags, inits, mutexes, lists
  <2> QED BY <1>1, <1>2, <2>1, <2>2
<1>10. CASE PrepareAspects(c)
  <2>1. op'[c] # Idle => op'[c].list = op[c].list
    BY <1>1, <1>2, <1>10, AspectsFacts DEF PrepareAspects, Steps, AddSteps, RemoveSteps, StopSteps
  <2>2. Touches(op[c].list)
    BY <1>1, <1>2, <1>10 DEF PrepareAspects, Finalize, Unlock, Typed, flags, inits, mutexes, lists
  <2> QED BY <1>1, <1>2, <2>1, <2>2
<1>11. CASE PrepareCheck(c)
  <2>1. op'[c] # Idle => op'[c].list = op[c].list
    BY <1>1, <1>2, <1>11, CheckFacts DEF PrepareCheck, Steps, AddSteps, RemoveSteps, StopSteps
  <2>2. Touches(op[c].list)
    BY <1>1, <1>2, <1>11 DEF PrepareCheck, Finalize, Unlock, Typed, flags, inits, mutexes, lists
  <2> QED BY <1>1, <1>2, <2>1, <2>2
<1>12. CASE PrepareHold(c)
  <2>1. op'[c] # Idle => op'[c].list = op[c].list
    BY <1>1, <1>2, <1>12, GotoFacts, GotoAtFacts, ReturnFacts DEF PrepareHold, Steps, AddSteps, RemoveSteps, StopSteps
  <2>2. Touches(op[c].list)
    BY <1>1, <1>2, <1>12 DEF PrepareHold, Finalize, Unlock, Typed, flags, inits, mutexes, lists
  <2> QED BY <1>1, <1>2, <2>1, <2>2
<1>13. CASE PrepareStarve(c)
  <2>1. op'[c] # Idle => op'[c].list = op[c].list
    BY <1>1, <1>2, <1>13, GotoFacts, GotoAtFacts, ReturnFacts DEF PrepareStarve, Steps, AddSteps, RemoveSteps, StopSteps
  <2>2. Touches(op[c].list)
    BY <1>1, <1>2, <1>13 DEF PrepareStarve, Finalize, Unlock, Typed, flags, inits, mutexes, lists
  <2> QED BY <1>1, <1>2, <2>1, <2>2
<1>14. CASE PrepareLoop(c)
  <2>1. op'[c] # Idle => op'[c].list = op[c].list
    BY <1>1, <1>2, <1>14, GotoFacts, GotoAtFacts, ReturnFacts DEF PrepareLoop, Steps, AddSteps, RemoveSteps, StopSteps
  <2>2. Touches(op[c].list)
    BY <1>1, <1>2, <1>14 DEF PrepareLoop, Finalize, Unlock, Typed, flags, inits, mutexes, lists
  <2> QED BY <1>1, <1>2, <2>1, <2>2
<1>15. CASE PrepareUser(c)
  <2>1. op'[c] # Idle => op'[c].list = op[c].list
    BY <1>1, <1>2, <1>15, PreparedFacts DEF PrepareUser, Steps, AddSteps, RemoveSteps, StopSteps
  <2>2. Touches(op[c].list)
    BY <1>1, <1>2, <1>15 DEF PrepareUser, Finalize, Unlock, Typed, flags, inits, mutexes, lists
  <2> QED BY <1>1, <1>2, <2>1, <2>2
<1>16. CASE Verdict(c)
  <2>1. op'[c] # Idle => op'[c].list = op[c].list
    BY <1>1, <1>2, <1>16, GotoFacts, GotoAtFacts, ReturnFacts DEF Verdict, Steps, AddSteps, RemoveSteps, StopSteps
  <2>2. Touches(op[c].list)
    BY <1>1, <1>2, <1>16 DEF Verdict, Finalize, Unlock, Typed, flags, inits, mutexes, lists
  <2> QED BY <1>1, <1>2, <2>1, <2>2
<1>17. CASE UnlockVetoed(c)
  <2>1. op'[c] # Idle => op'[c].list = op[c].list
    BY <1>1, <1>2, <1>17, GotoFacts, GotoAtFacts, ReturnFacts DEF UnlockVetoed, Steps, AddSteps, RemoveSteps, StopSteps
  <2>2. Touches(op[c].list)
    BY <1>1, <1>2, <1>17 DEF UnlockVetoed, Finalize, Unlock, Typed, flags, inits, mutexes, lists
  <2> QED BY <1>1, <1>2, <2>1, <2>2
<1>18. CASE StopThread(c)
  <2>1. op'[c] # Idle => op'[c].list = op[c].list
    BY <1>1, <1>2, <1>18, GotoFacts, GotoAtFacts, ReturnFacts DEF StopThread, Steps, AddSteps, RemoveSteps, StopSteps
  <2>2. Touches(op[c].list)
    BY <1>1, <1>2, <1>18 DEF StopThread, Finalize, Unlock, Typed, flags, inits, mutexes, lists
  <2> QED BY <1>1, <1>2, <2>1, <2>2
<1>19. CASE JoinThread(c)
  <2>1. op'[c] # Idle => op'[c].list = op[c].list
    BY <1>1, <1>2, <1>19, GotoFacts, GotoAtFacts, ReturnFacts DEF JoinThread, Steps, AddSteps, RemoveSteps, StopSteps
  <2>2. Touches(op[c].list)
    BY <1>1, <1>2, <1>19 DEF JoinThread, Finalize, Unlock, Typed, flags, inits, mutexes, lists
  <2> QED BY <1>1, <1>2, <2>1, <2>2
<1>20. CASE FinalizeThread(c)
  <2>1. op'[c] # Idle => op'[c].list = op[c].list
    BY <1>1, <1>2, <1>20, FinalizeFacts DEF FinalizeThread, Steps, AddSteps, RemoveSteps, StopSteps
  <2>2. Touches(op[c].list)
    BY <1>1, <1>2, <1>20 DEF FinalizeThread, Finalize, Unlock, Typed, flags, inits, mutexes, lists
  <2> QED BY <1>1, <1>2, <2>1, <2>2
<1>21. CASE Unlist(c)
  <2>1. op'[c] # Idle => op'[c].list = op[c].list
    BY <1>1, <1>2, <1>21, GotoFacts, GotoAtFacts, ReturnFacts DEF Unlist, Steps, AddSteps, RemoveSteps, StopSteps
  <2>2. Touches(op[c].list)
    BY <1>1, <1>2, <1>21 DEF Unlist, Finalize, Unlock, Typed, flags, inits, mutexes, lists
  <2> QED BY <1>1, <1>2, <2>1, <2>2
<1>22. CASE CancelFinalize(c)
  <2>1. op'[c] # Idle => op'[c].list = op[c].list
    BY <1>1, <1>2, <1>22, GotoFacts, GotoAtFacts, ReturnFacts DEF CancelFinalize, Steps, AddSteps, RemoveSteps, StopSteps
  <2>2. Touches(op[c].list)
    BY <1>1, <1>2, <1>22 DEF CancelFinalize, Finalize, Unlock, Typed, flags, inits, mutexes, lists
  <2> QED BY <1>1, <1>2, <2>1, <2>2
<1> QED BY <1>3, <1>4, <1>5, <1>6, <1>7, <1>8, <1>9, <1>10, <1>11, <1>12, <1>13, <1>14, <1>15, <1>16, <1>17, <1>18, <1>19, <1>20, <1>21, <1>22 DEF CallerStep

LEMMA OtherListed ==
  ASSUME NEW c \in Callers, \A x \in Callers : x = c, NEW l \in Lists, Touches(l),
         op[c] # Idle => op[c].list = l, op'[c] # Idle => op'[c].list = l,
         NEW k \in Lists \ {l}
  PROVE  Listed(k)' = Listed(k)
<1>1. Members(k) \subseteq Threads \ Members(l)
  BY MemberFacts, MembersApart
<1>2. \A S : ~Doing(k, S) /\ ~Doing(k, S)'
  BY DEF Doing
<1>3. sealed'[k] = sealed[k]
  BY DEF Touches
<1>4. \A t \in Members(k) : started'[t] = started[t] /\ (t \in managed' <=> t \in managed)
  BY <1>1 DEF Touches
<1>5. /\ ~Doing(k, StartSteps) /\ ~Doing(k, StartSteps)'
      /\ ~Doing(k, StopSteps) /\ ~Doing(k, StopSteps)'
  BY <1>2
<1> QED BY <1>3, <1>4, <1>5, ListedSame

(* A step that neither starts, stops, lists nor unlists.                    *)
LEMMA QuietStep ==
  ASSUME NEW c \in Callers, \A x \in Callers : x = c, NEW l \in Lists, op[c] # Idle, op[c].list = l,
         op'[c] # Idle => op'[c].list = l,
         UNCHANGED <<started, managed, sealed>>,
         op[c].step \notin StartSteps \cup StopSteps,
         op'[c] # Idle => op'[c].step \notin StartSteps \cup StopSteps
  PROVE  Promised(l)
<1>1. /\ ~Doing(l, StartSteps) /\ ~Doing(l, StartSteps)'
      /\ ~Doing(l, StopSteps) /\ ~Doing(l, StopSteps)'
  BY DEF Doing
<1>2. Listed(l)' = Listed(l)
  BY <1>1, ListedSame
<1> QED BY <1>2 DEF Promised

LEMMA CallerPromised ==
  ASSUME ManagerInv, NEW c \in Callers, \A x \in Callers : x = c, CallerStep(c) \/ CancelFinalize(c),
         NEW l \in Lists, l = op[c].list
  PROVE  Promised(l)
<1> USE DEF ManagerInv
<1>1. op[c] # Idle /\ (op'[c] # Idle => op'[c].list = l) /\ Touches(l)
  BY CallerTouches
<1>2. /\ Last(c) = Len(Member[l]) /\ Last(c) \in Nat /\ op[c].pos \in Nat /\ op[c].pos <= Last(c)
      /\ (Last(c) >= 1 /\ op[c].pos - 1 \in Nat) \/ op[c].pos = 0
      /\ ~At(c, "undo") => op[c].pos >= 1 /\ Current(c) \in Members(l) /\ Current(c) \in Threads
  BY <1>1, Positions
<1>3. \A S : /\ Doing(l, S) <=> op[c].step \in S
             /\ Doing(l, S)' <=> op'[c] # Idle /\ op'[c].step \in S
  BY <1>1 DEF Doing
<1>4. CASE LockList(c)
  <2>1. UNCHANGED <<started, managed, sealed>>
    BY <1>4 DEF LockList, flags, lists
  <2>2. op[c].step \notin StartSteps \cup StopSteps
    BY <1>4 DEF LockList, At, StartSteps, StopSteps
  <2>3. op'[c] # Idle => op'[c].step \notin StartSteps \cup StopSteps
    BY <1>1, <1>2, <1>4, GotoFacts DEF LockList, At, Steps, AddSteps, RemoveSteps, StopSteps, StartSteps
  <2> QED BY <1>1, <2>1, <2>2, <2>3, QuietStep
<1>5. CASE InitAspects(c)
  <2>1. UNCHANGED <<started, managed, sealed>>
    BY <1>5 DEF InitAspects, flags, lists
  <2>2. op[c].step \notin StartSteps \cup StopSteps
    BY <1>5 DEF InitAspects, At, StartSteps, StopSteps
  <2>3. op'[c] # Idle => op'[c].step \notin StartSteps \cup StopSteps
    BY <1>1, <1>2, <1>5, GotoFacts, GotoAtFacts DEF InitAspects, At, Steps, AddSteps, RemoveSteps, StopSteps, StartSteps
  <2> QED BY <1>1, <2>1, <2>2, <2>3, QuietStep
<1>6. CASE InitThread(c)
  <2>1. UNCHANGED <<started, managed, sealed>>
    BY <1>6 DEF InitThread, flags, lists
  <2>2. op[c].step \notin StartSteps \cup StopSteps
    BY <1>6 DEF InitThread, At, StartSteps, StopSteps
  <2>3. op'[c] # Idle => op'[c].step \notin StartSteps \cup StopSteps
    BY <1>1, <1>2, <1>6, GotoFacts, GotoAtFacts, SMTT(40) DEF InitThread, At, Steps, AddSteps, RemoveSteps, StopSteps, StartSteps
  <2> QED BY <1>1, <2>1, <2>2, <2>3, QuietStep
<1>7. CASE Undo(c)
  <2>1. UNCHANGED <<started, managed, sealed>>
    BY <1>7 DEF Undo, flags, lists
  <2>2. op[c].step \notin StartSteps \cup StopSteps
    BY <1>7 DEF Undo, At, StartSteps, StopSteps
  <2>3. op'[c] # Idle => op'[c].step \notin StartSteps \cup StopSteps
    BY <1>1, <1>2, <1>7, GotoAtFacts, ReturnFacts DEF Undo, At, Steps, AddSteps, RemoveSteps, StopSteps, StartSteps
  <2> QED BY <1>1, <2>1, <2>2, <2>3, QuietStep
<1>8. CASE PrepareAspects(c)
  <2>1. UNCHANGED <<started, managed, sealed>>
    BY <1>8 DEF PrepareAspects, flags, lists
  <2>2. op[c].step \notin StartSteps \cup StopSteps
    BY <1>8 DEF PrepareAspects, At, StartSteps, StopSteps
  <2>3. op'[c] # Idle => op'[c].step \notin StartSteps \cup StopSteps
    BY <1>1, <1>2, <1>8, AspectsFacts DEF PrepareAspects, At, Steps, AddSteps, RemoveSteps, StopSteps, StartSteps
  <2> QED BY <1>1, <2>1, <2>2, <2>3, QuietStep
<1>9. CASE PrepareCheck(c)
  <2>1. UNCHANGED <<started, managed, sealed>>
    BY <1>9 DEF PrepareCheck, flags, lists
  <2>2. op[c].step \notin StartSteps \cup StopSteps
    BY <1>9 DEF PrepareCheck, At, StartSteps, StopSteps
  <2>3. op'[c] # Idle => op'[c].step \notin StartSteps \cup StopSteps
    <3>1. op'[c].step \in {"prep_aspects", "verdict", "prep_hold"}
      BY <1>1, <1>2, <1>9, CheckFacts
    <3> QED BY <3>1 DEF StopSteps, StartSteps
  <2> QED BY <1>1, <2>1, <2>2, <2>3, QuietStep
<1>10. CASE PrepareHold(c)
  <2>1. UNCHANGED <<started, managed, sealed>>
    BY <1>10 DEF PrepareHold, flags, lists
  <2>2. op[c].step \notin StartSteps \cup StopSteps
    BY <1>10 DEF PrepareHold, At, StartSteps, StopSteps
  <2>3. op'[c] # Idle => op'[c].step \notin StartSteps \cup StopSteps
    BY <1>1, <1>2, <1>10, GotoFacts DEF PrepareHold, At, Steps, AddSteps, RemoveSteps, StopSteps, StartSteps
  <2> QED BY <1>1, <2>1, <2>2, <2>3, QuietStep
<1>11. CASE PrepareStarve(c)
  <2>1. UNCHANGED <<started, managed, sealed>>
    BY <1>11 DEF PrepareStarve, flags, lists
  <2>2. op[c].step \notin StartSteps \cup StopSteps
    BY <1>11 DEF PrepareStarve, At, StartSteps, StopSteps
  <2>3. op'[c] # Idle => op'[c].step \notin StartSteps \cup StopSteps
    BY <1>1, <1>2, <1>11, GotoFacts DEF PrepareStarve, At, Steps, AddSteps, RemoveSteps, StopSteps, StartSteps
  <2> QED BY <1>1, <2>1, <2>2, <2>3, QuietStep
<1>12. CASE PrepareLoop(c)
  <2>1. UNCHANGED <<started, managed, sealed>>
    BY <1>12 DEF PrepareLoop, flags, lists
  <2>2. op[c].step \notin StartSteps \cup StopSteps
    BY <1>12 DEF PrepareLoop, At, StartSteps, StopSteps
  <2>3. op'[c] # Idle => op'[c].step \notin StartSteps \cup StopSteps
    BY <1>1, <1>2, <1>12, GotoFacts DEF PrepareLoop, At, Steps, AddSteps, RemoveSteps, StopSteps, StartSteps
  <2> QED BY <1>1, <2>1, <2>2, <2>3, QuietStep
<1>13. CASE PrepareUser(c)
  <2>1. UNCHANGED <<started, managed, sealed>>
    BY <1>13 DEF PrepareUser, flags, lists
  <2>2. op[c].step \notin StartSteps \cup StopSteps
    BY <1>13 DEF PrepareUser, At, StartSteps, StopSteps
  <2>3. op'[c] # Idle => op'[c].step \notin StartSteps \cup StopSteps
    <3>1. op'[c].step \in {"prep_aspects", "verdict", "prep_hold"}
      BY <1>1, <1>2, <1>13, PreparedFacts
    <3> QED BY <3>1 DEF StopSteps, StartSteps
  <2> QED BY <1>1, <2>1, <2>2, <2>3, QuietStep
<1>14. CASE UnlockVetoed(c)
  <2>1. UNCHANGED <<started, managed, sealed>>
    BY <1>14 DEF UnlockVetoed, flags, lists
  <2>2. op[c].step \notin StartSteps \cup StopSteps
    BY <1>14 DEF UnlockVetoed, At, StartSteps, StopSteps
  <2>3. op'[c] # Idle => op'[c].step \notin StartSteps \cup StopSteps
    BY <1>1, <1>2, <1>14, GotoFacts, ReturnFacts DEF UnlockVetoed, At, Steps, AddSteps, RemoveSteps, StopSteps, StartSteps
  <2> QED BY <1>1, <2>1, <2>2, <2>3, QuietStep
<1>15. CASE CancelFinalize(c)
  <2>1. UNCHANGED <<started, managed, sealed>>
    BY <1>15 DEF CancelFinalize, flags, lists
  <2>2. op[c].step \notin StartSteps \cup StopSteps
    BY <1>15 DEF CancelFinalize, At, StartSteps, StopSteps
  <2>3. op'[c] # Idle => op'[c].step \notin StartSteps \cup StopSteps
    BY <1>1, <1>2, <1>15, GotoFacts, GotoAtFacts DEF CancelFinalize, At, Steps, AddSteps, RemoveSteps, StopSteps, StartSteps
  <2> QED BY <1>1, <2>1, <2>2, <2>3, QuietStep
<1>16. CASE Seal(c)
  <2>1. ~sealed[l]
    BY <1>1, <1>16 DEF Seal, At, CallsAgree, Unsealed, Typed
  <2>2. op'[c] # Idle /\ op'[c].step = "start"
    BY <1>1, <1>16, GotoAtFacts DEF Seal, Steps, AddSteps
  <2>3. Doing(l, StartSteps)'
    BY <1>3, <2>2 DEF StartSteps
  <2>4. Listed(l) = "fresh" /\ Listed(l)' = "fresh"
    BY <2>1, <2>3, Zenon DEF Listed
  <2> QED BY <2>4 DEF Promised
<1>17. CASE Start(c)
  <2>1. Listed(l) = "fresh"
    <3>1. Doing(l, StartSteps)
      BY <1>3, <1>17 DEF Start, At, StartSteps
    <3> QED BY <3>1, Zenon DEF Listed
  <2>2. CASE op'[c] # Idle
    <3>1. op'[c].step \in StartSteps
      BY <1>1, <1>2, <1>17, <2>2, GotoFacts, GotoAtFacts, ReturnFacts DEF Start, Steps, AddSteps, StartSteps
    <3>2. Doing(l, StartSteps)'
      BY <1>3, <2>2, <3>1
    <3>3. Listed(l)' = "fresh"
      BY <3>2, Zenon DEF Listed
    <3> QED BY <2>1, <3>3 DEF Promised
  <2>3. CASE op'[c] = Idle
    <3>1. sealed'[l] /\ ~Doing(l, StartSteps)'
      <4>1. sealed[l]
        BY <1>1, <1>17 DEF Start, At, CallsAgree, Unsealed, Typed
      <4> QED BY <1>3, <1>17, <2>3, <4>1 DEF Start, lists
    <3>2. \A i \in 1 .. Len(Member[l]) : Adding(op[c], i)
      BY <1>1, <1>2, <1>17, AddFacts DEF Start, At, AddSteps
    <3>3. \A i \in 1 .. Len(Member[l]) : Member[l][i] \notin managed
      BY <1>17, <3>2 DEF Start, At, Adding, Born, Inited
    <3>4. Members(l)' \cap managed' = {}
      <4>1. \A t \in Members(l) : t \notin managed
        BY <3>3, MemberFacts
      <4> QED BY <1>17, <4>1 DEF Start, lists, Members
    <3>5. \E t \in Members(l)' : started'[t]
      BY <1>2, <1>17 DEF Start, At, Typed, Members
    <3>6. Listed(l)' = "broken"
      BY <3>1, <3>4, <3>5, Zenon DEF Listed
    <3> QED BY <2>1, <3>6 DEF Promised
  <2> QED BY <2>2, <2>3
<1>18. CASE Register(c)
  <2>1. Listed(l) = "fresh"
    <3>1. Doing(l, StartSteps)
      BY <1>3, <1>18 DEF Register, At, StartSteps
    <3> QED BY <3>1, Zenon DEF Listed
  <2>2. sealed'[l] /\ ~Doing(l, StartSteps)'
    <3>1. sealed[l]
      BY <1>1, <1>18 DEF Register, At, CallsAgree, Unsealed, Typed
    <3>2. op'[c] = Idle
      BY <1>18, ReturnFacts DEF Register
    <3> QED BY <1>3, <1>18, <3>1, <3>2 DEF Register
  <2>3. \A i \in 1 .. Len(Member[l]) : Adding(op[c], i)
    BY <1>1, <1>2, <1>18, AddFacts DEF Register, At, AddSteps
  <2>4. \A t \in Members(l) : started[t]
    BY <1>18, <2>3, MemberFacts DEF Register, At, Adding, Born
  <2>5. Members(l)' \cap managed' # {} /\ \A t \in Members(l)' : started'[t]
    BY <1>18, <2>4, MemberFacts DEF Register, flags, Members
  <2>6. Listed(l)' = "running"
    BY <2>2, <2>5, Zenon DEF Listed
  <2> QED BY <2>1, <2>6 DEF Promised
<1>19. ASSUME op[c].step \in StopSteps \cup {"verdict", "unlist"}
       PROVE  /\ sealed[l] /\ ~Doing(l, StartSteps)
              /\ Again(op[c]) \/ \A i \in 1 .. Len(Member[l]) : Removing(op[c], i)
  <2>1. op[c].step \in RemoveSteps \ {"want_remove", "unlock_again"} /\ op[c].step \notin StartSteps
    BY <1>19 DEF RemoveSteps, StopSteps, StartSteps
  <2> QED BY <1>1, <1>2, <1>3, <2>1, RemoveFacts
<1>20. CASE StopThread(c) \/ JoinThread(c) \/ (FinalizeThread(c) /\ op[c].pos > 1)
  <2>1. op[c].step \in StopSteps /\ op[c].step # "unlist" /\ op[c].step # "verdict"
    BY <1>20 DEF StopThread, JoinThread, FinalizeThread, At, StopSteps
  <2>2. op'[c] # Idle /\ op'[c].step \in StopSteps
    <3>1. CASE StopThread(c)
      BY <1>1, <3>1, GotoFacts DEF StopThread, Steps, RemoveSteps, StopSteps
    <3>2. CASE JoinThread(c)
      <4>1. op[c].pos - 1 \in Nat /\ "stop" \in Steps /\ "finalize" \in Steps
        BY <1>2, <3>2 DEF JoinThread, At, Steps, RemoveSteps, StopSteps
      <4> QED BY <1>1, <1>2, <3>2, <4>1, GotoAtFacts DEF JoinThread, StopSteps
    <3>3. CASE FinalizeThread(c) /\ op[c].pos > 1
      BY <1>1, <1>2, <3>3, FinalizeFacts DEF StopSteps
    <3> QED BY <1>20, <3>1, <3>2, <3>3
  <2>3. managed' = managed /\ sealed' = sealed
    BY <1>20 DEF StopThread, JoinThread, FinalizeThread, lists
  <2>4. \A i \in 1 .. Len(Member[l]) : Removing(op[c], i)
    BY <1>19, <2>1 DEF Again, StopSteps
  <2>5. \A i \in 1 .. Len(Member[l]) : Member[l][i] \in managed
    BY <2>1, <2>4 DEF Removing, AskSteps, StopSteps, Up, Halted
  <2>6. Members(l) \cap managed # {} /\ Members(l)' \cap managed' # {}
    BY <2>3, <2>5, MemberFacts DEF Members
  <2>7. Doing(l, StopSteps) /\ Doing(l, StopSteps)'
    BY <1>3, <2>1, <2>2
  <2>8. sealed[l] /\ ~Doing(l, StartSteps) /\ ~Doing(l, StartSteps)'
    BY <1>3, <1>19, <2>1, <2>2 DEF StopSteps, StartSteps
  <2>9. Listed(l) = "running"
    BY <2>6, <2>7, <2>8, Zenon DEF Listed
  <2>10. Listed(l)' = "running"
    BY <2>3, <2>6, <2>7, <2>8, Zenon DEF Listed
  <2> QED BY <2>9, <2>10 DEF Promised
<1>21. CASE FinalizeThread(c) /\ op[c].pos = 1
  <2>1. op[c].step = "finalize" /\ op[c].step \in StopSteps
    BY <1>21 DEF FinalizeThread, At, StopSteps
  <2>2. \A i \in 1 .. Len(Member[l]) : Removing(op[c], i)
    BY <1>19, <2>1 DEF Again
  <2>3. \A i \in 1 .. Len(Member[l]) : Member[l][i] \in managed /\ ~started[Member[l][i]]
    BY <1>2, <1>21, <2>1, <2>2 DEF Removing, AskSteps, Halted, Down
  <2>4. UNCHANGED <<started, managed, sealed>>
    BY <1>21 DEF FinalizeThread, flags
  <2>5. Members(l) \cap managed # {} /\ ~\A t \in Members(l) : started[t]
    BY <2>3, MemberFacts
  <2>6. Members(l)' = Members(l)
    BY DEF Members
  <2>7. sealed[l] /\ ~Doing(l, StartSteps) /\ Doing(l, StopSteps)
    BY <1>3, <1>19, <2>1
  <2>8. ~Doing(l, StartSteps)' /\ ~Doing(l, StopSteps)'
    <3>1. op'[c] # Idle => op'[c].step = "unlist"
      BY <1>1, <1>2, <1>21, FinalizeFacts
    <3> QED BY <1>3, <3>1 DEF StartSteps, StopSteps
  <2>9. Listed(l) = "running"
    BY <2>5, <2>7, Zenon DEF Listed
  <2>10. Listed(l)' = "stopped"
    BY <2>4, <2>5, <2>6, <2>7, <2>8, Zenon DEF Listed
  <2> QED BY <2>9, <2>10 DEF Promised
<1>22. CASE Unlist(c)
  <2>1. op[c].step = "unlist"
    BY <1>22 DEF Unlist, At
  <2>2. AllDown(l) /\ sealed[l] /\ ~Doing(l, StartSteps)
    <3>1. Len(Member[l]) \in 1 .. Len(Member[l])
      BY MemberFacts
    <3> QED BY <1>2, <1>19, <2>1, <3>1 DEF Again, Removing, AskSteps
  <2>3. sealed'[l] /\ started' = started /\ managed' = managed \ Members(l) /\ op'[c] = Idle
    BY <1>22, <2>2, ReturnFacts DEF Unlist, flags
  <2>4. ~Doing(l, StopSteps) /\ ~Doing(l, StartSteps)'
    BY <1>3, <2>1, <2>3 DEF StopSteps
  <2>5. \A t \in Members(l) : ~started[t]
    BY <2>2 DEF AllDown, Down
  <2>6. Members(l)' = Members(l)
    BY DEF Members
  <2>7. Members(l) \cap managed' = {} /\ ~\E t \in Members(l) : started'[t]
    BY <2>3, <2>5
  <2>8. Listed(l)' = "gone"
    BY <2>3, <2>4, <2>6, <2>7, Zenon DEF Listed
  <2>9. CASE Members(l) \cap managed = {}
    <3>1. Listed(l) = "gone"
      BY <2>2, <2>5, <2>9, Zenon DEF Listed
    <3> QED BY <2>8, <3>1 DEF Promised
  <2>10. CASE Members(l) \cap managed # {}
    <3>1. ~\A t \in Members(l) : started[t]
      <4>1. PICK t \in Members(l) : TRUE
        BY MemberFacts
      <4> QED BY <2>5, <4>1
    <3>2. Listed(l) = "stopped"
      BY <2>2, <2>4, <2>10, <3>1, Zenon DEF Listed
    <3> QED BY <2>8, <3>2 DEF Promised
  <2> QED BY <2>9, <2>10
<1>23. CASE Verdict(c)
  <2>1. op[c].step = "verdict"
    BY <1>23 DEF Verdict, At
  <2>2. UNCHANGED <<started, managed, sealed>>
    BY <1>23 DEF Verdict, flags
  <2>3. op[c].step \notin StartSteps \cup StopSteps
    BY <2>1 DEF StartSteps, StopSteps
  <2>4. op'[c] = Idle \/ op'[c].step \in {"unlist", "cancel", "stop"}
    BY <1>1, <1>2, <1>23, GotoFacts, GotoAtFacts, ReturnFacts DEF Verdict, Steps, RemoveSteps, StopSteps
  <2>5. CASE op'[c] = Idle \/ op'[c].step \in {"unlist", "cancel"}
    <3>1. op'[c] # Idle => op'[c].step \notin StartSteps \cup StopSteps
      BY <2>5 DEF StartSteps, StopSteps
    <3> QED BY <1>1, <2>2, <2>3, <3>1, QuietStep
  <2>6. CASE op'[c] # Idle /\ op'[c].step = "stop"
    <3>1. ~op[c].threw
      BY <1>1, <1>2, <1>23, <2>6, GotoFacts, GotoAtFacts, ReturnFacts
      DEF Verdict, Steps, RemoveSteps, StopSteps
    <3>2. \A i \in 1 .. Len(Member[l]) : Up(Member[l][i])
      BY <1>19, <2>1, <3>1 DEF Again, Removing, AskSteps
    <3>3. \A t \in Members(l) : started[t] /\ t \in managed
      BY <3>2, MemberFacts DEF Up
    <3>4. Members(l) \cap managed # {}
      BY <3>3, MemberFacts
    <3>5. Members(l)' = Members(l)
      BY DEF Members
    <3>6. sealed[l] /\ ~Doing(l, StartSteps) /\ ~Doing(l, StartSteps)'
      BY <1>3, <1>19, <2>1, <2>6 DEF StartSteps
    <3>7. Listed(l) = "running"
      BY <3>3, <3>4, <3>6, Zenon DEF Listed
    <3>8. Listed(l)' = "running"
      BY <2>2, <3>3, <3>4, <3>5, <3>6, Zenon DEF Listed
    <3> QED BY <3>7, <3>8 DEF Promised
  <2> QED BY <2>4, <2>5, <2>6
<1>24. op[c].pos > 1 \/ op[c].pos = 1 \/ ~FinalizeThread(c)
  BY <1>2 DEF FinalizeThread, At
<1> QED BY <1>4, <1>5, <1>6, <1>7, <1>8, <1>9, <1>10, <1>11, <1>12, <1>13, <1>14, <1>15,
           <1>16, <1>17, <1>18, <1>20, <1>21, <1>22, <1>23, <1>24 DEF CallerStep

LEMMA CollectorStep ==
  ASSUME OneCaller, ManagerInv, [Next]_vars
  PROVE  [Collector!Next]_([l \in Lists |-> Listed(l)])
<1>1. ASSUME NEW c \in Callers, CallerStep(c) \/ CancelFinalize(c)
      PROVE  [Collector!Next]_([l \in Lists |-> Listed(l)])
  <2>1. \A x \in Callers : x = c
    BY DEF OneCaller
  <2>2. PICK l \in Lists : l = op[c].list
    BY <1>1, CallerTouches
  <2>3. Promised(l)
    BY <1>1, <2>1, <2>2, CallerPromised
  <2>4. /\ Touches(l) /\ op[c].list = l /\ (op'[c] # Idle => op'[c].list = l)
    BY <1>1, <2>2, CallerTouches
  <2>5. \A k \in Lists \ {l} : Listed(k)' = Listed(k)
    BY <2>1, <2>4, OtherListed
  <2> QED BY <2>3, <2>5, PromisedStep
<1>2. ASSUME UNCHANGED <<started, managed, sealed>>,
             \A l \in Lists : /\ Doing(l, StartSteps)' <=> Doing(l, StartSteps)
                              /\ Doing(l, StopSteps)' <=> Doing(l, StopSteps)
      PROVE  [Collector!Next]_([l \in Lists |-> Listed(l)])
  <2>1. \A l \in Lists : Listed(l)' = Listed(l)
    BY <1>2, ListedSame
  <2> QED BY <2>1
<1>3. ASSUME NEW c \in Callers, NEW l \in Lists, CallAdd(c, l) \/ \E f \in BOOLEAN : CallRemove(c, l, f)
      PROVE  [Collector!Next]_([k \in Lists |-> Listed(k)])
  <2>1. \A x \in Callers : x = c
    BY DEF OneCaller
  <2>2. op[c].step = "idle" /\ op'[c].step \in {"want_add", "want_remove"}
    BY <1>3 DEF CallAdd, CallRemove, At, ManagerInv, Typed
  <2>3. UNCHANGED <<started, managed, sealed>>
    BY <1>3 DEF CallAdd, CallRemove, flags, lists
  <2>4. \A k \in Lists : /\ Doing(k, StartSteps)' <=> Doing(k, StartSteps)
                         /\ Doing(k, StopSteps)' <=> Doing(k, StopSteps)
    BY <2>1, <2>2 DEF Doing, StartSteps, StopSteps
  <2> QED BY <1>2, <2>3, <2>4
<1>4. CASE op' = op /\ UNCHANGED <<started, managed, sealed>>
  BY <1>2, <1>4 DEF Doing
<1>5. ASSUME NEW t \in Threads, \/ StopBy(t) \/ WorkerStep(t) \/ LeaveLoop(t) \/ Exit(t)
                                \/ \E h \in BOOLEAN : SetHold(t, h)
      PROVE  op' = op /\ UNCHANGED <<started, managed, sealed>>
  BY <1>5 DEF StopBy, WorkerStep, Once, EnterLoop, Die, LeaveLoop, Exit, SetHold, Move, flags, lists
<1> QED BY <1>1, <1>3, <1>4, <1>5 DEF Next, vars, flags, lists

(* The manager implements the promise of ThreadCollector                    *)
(* (core/threading/thread_collector.h), as PluginManager relies on it.      *)
THEOREM PromiseKept == OneCaller => (Spec => KeepsPromise)
<1> SUFFICES ASSUME OneCaller PROVE Spec => KeepsPromise
  OBVIOUS
<1>1. Init => Collector!Init
  <2> SUFFICES ASSUME Init PROVE \A l \in Lists : Listed(l) = "fresh"
    BY DEF Collector!Init
  <2>1. \A l \in Lists : ~sealed[l]
    BY DEF Init
  <2> QED BY <2>1, Zenon DEF Listed
<1>2. ManagerInv /\ [Next]_vars => [Collector!Next]_([l \in Lists |-> Listed(l)])
  BY CollectorStep
<1> QED BY <1>1, <1>2, ManagerInvariance, PTL DEF Spec, KeepsPromise, Collector!Spec
=============================================================================
