------------------------- MODULE ThreadWakeupProofs -------------------------
(***************************************************************************)
(* Theorems about ThreadWakeup: for any finite list of threads, whoever    *)
(* wakes them and whichever come too late, wakeup_and_wait() returns       *)
(* without an exception only after all of them have come to its barrier,   *)
(* the list is ready for the next call when one has ended, and no thread   *)
(* has still to meet, or waits inside, a barrier that has been deleted.    *)
(***************************************************************************)
EXTENDS ThreadWakeup, FiniteSetTheorems, WellFoundedInduction, TLAPS

USE WakeupAssumption

-----------------------------------------------------------------------------
(* Sets of parties                                                         *)

(* As many parties as there are threads that are not bad, and the host.    *)
LEMMA PartiesCounted ==
  ASSUME NEW f \in SUBSET Workers
  PROVE  LET U == Unflagged(f) IN
         /\ IsFiniteSet(U) /\ Cardinality(U) \in Nat
         /\ IsFiniteSet(U \cup {Host}) /\ Cardinality(U \cup {Host}) = Cardinality(U) + 1
<1> DEFINE U == Unflagged(f)
<1>1. U \subseteq Workers /\ Host \notin U
  BY DEF Unflagged
<1>2. IsFiniteSet(U)
  BY <1>1, FS_Subset
<1>3. Cardinality(U) \in Nat
  BY <1>2, FS_CardinalityType
<1>4. IsFiniteSet(U \cup {Host}) /\ Cardinality(U \cup {Host}) = Cardinality(U) + 1
  BY <1>1, <1>2, FS_AddElement
<1>5. QED
  BY <1>2, <1>3, <1>4

(* Of the parties, only all of them are as many as there are.              *)
LEMMA AllCame ==
  ASSUME NEW f \in SUBSET Workers, NEW S \in SUBSET (Unflagged(f) \cup {Host})
  PROVE  /\ IsFiniteSet(S) /\ Cardinality(S) \in Nat
         /\ Cardinality(S) <= Cardinality(Unflagged(f)) + 1
         /\ Cardinality(S) = Cardinality(Unflagged(f)) + 1 => S = Unflagged(f) \cup {Host}
<1> DEFINE P == Unflagged(f) \cup {Host}
<1>1. IsFiniteSet(P) /\ Cardinality(P) = Cardinality(Unflagged(f)) + 1
  BY PartiesCounted
<1>2. /\ IsFiniteSet(S) /\ Cardinality(S) <= Cardinality(P)
      /\ Cardinality(P) = Cardinality(S) => P = S
  BY <1>1, FS_Subset
<1>3. Cardinality(S) \in Nat
  BY <1>2, FS_CardinalityType
<1>4. QED
  BY <1>1, <1>2, <1>3

(* One more has come.                                                      *)
LEMMA OneMore ==
  ASSUME NEW S, NEW p, IsFiniteSet(S), p \notin S
  PROVE  Cardinality(S \cup {p}) = Cardinality(S) + 1
  BY FS_AddElement

-----------------------------------------------------------------------------
(* Records and functions                                                   *)

(* A step of one party moves nobody else.                                  *)
LEMMA GotoAt ==
  ASSUME TypeOK, NEW p \in Parties, NEW s \in Places, Goto(p, s)
  PROVE  /\ at' \in [Parties -> Places] /\ at'[p] = s
         /\ \A q \in Parties : q # p => at'[q] = at[q]
  BY DEF TypeOK, Goto

LEMMA PartyKinds ==
  /\ Host \in Parties /\ Workers \subseteq Parties
  /\ \A p \in Parties : p = Host \/ (p \in Workers /\ p # Host)
  /\ \A t \in Workers : t # Host
  BY DEF Parties

(* The fields of a barrier, and of a new one.                              *)
LEMMA BarrierFields ==
  ASSUME NEW r \in BarrierRecords
  PROVE  /\ r.count \in Nat /\ r.left \in Nat
         /\ r.timeout \in BOOLEAN /\ r.waitAt \in BOOLEAN
         /\ r.passed \subseteq Parties /\ r.native \subseteq Parties
  BY DEF BarrierRecords

LEMMA NewBarrierFields ==
  ASSUME NEW n \in Nat
  PROVE  /\ NewBarrier(n) \in BarrierRecords
         /\ NewBarrier(n).count = n /\ NewBarrier(n).left = 0
         /\ NewBarrier(n).timeout = FALSE /\ NewBarrier(n).waitAt = FALSE
         /\ NewBarrier(n).passed = {} /\ NewBarrier(n).native = {}
  BY DEF NewBarrier, BarrierRecords

(* The barrier as somebody finds it who comes to it.                       *)
LEMMA OpenedFields ==
  ASSUME TypeOK, NEW b \in Barriers
  PROVE  LET o == Opened(b) IN
         /\ o \in BarrierRecords
         /\ o.count = bars[b].count /\ o.native = bars[b].native
         /\ bars[b].left > 0 => o = bars[b]
         /\ bars[b].left = 0 => o.left = o.count /\ ~o.timeout /\ ~o.waitAt /\ o.passed = {}
<1> PICK r \in BarrierRecords : r = bars[b]
  BY DEF TypeOK
<1>1. r.count \in Nat /\ r.left \in Nat /\ r.native \subseteq Parties
  BY BarrierFields
<1>2. CASE r.left > 0
  BY <1>1, <1>2 DEF Opened
<1>3. CASE ~(r.left > 0)
  <2> PICK n \in BarrierRecords : n = NewBarrier(r.count)
    BY <1>1, NewBarrierFields
  <2>1. Opened(b) = [n EXCEPT !.left = r.count, !.native = r.native]
    BY <1>3 DEF Opened
  <2>2. /\ n.count = r.count /\ n.timeout = FALSE /\ n.waitAt = FALSE /\ n.passed = {}
    BY <1>1, NewBarrierFields
  <2>3. Opened(b) \in BarrierRecords
    BY <1>1, <2>1 DEF BarrierRecords
  <2>4. /\ Opened(b).count = n.count /\ Opened(b).left = r.count
        /\ Opened(b).timeout = n.timeout /\ Opened(b).waitAt = n.waitAt
        /\ Opened(b).passed = n.passed /\ Opened(b).native = r.native
    BY <2>1, Zenon DEF BarrierRecords
  <2>5. QED
    BY <1>1, <1>3, <2>2, <2>3, <2>4
<1>4. QED
  BY <1>2, <1>3

-----------------------------------------------------------------------------
(* What the steps do to the barriers                                       *)

(* Somebody comes to a barrier that has not timed out.                     *)
LEMMA EnterEffect ==
  ASSUME TypeOK, NEW p \in Parties, NEW b \in Barriers, mine[p] = b,
         ~Opened(b).timeout, Opened(b).left > 0, EnterBarrier(p)
  PROVE  /\ bars' \in [Barriers -> BarrierRecords]
         /\ \A c \in Barriers : c # b => bars'[c] = bars[c]
         /\ bars'[b].count = bars[b].count /\ bars'[b].native = bars[b].native
         /\ bars'[b].left = Opened(b).left - 1
         /\ bars'[b].passed = Opened(b).passed \cup {p}
         /\ bars'[b].timeout = FALSE
         /\ bars'[b].waitAt <=> Opened(b).left = 1
         /\ Goto(p, IF Opened(b).left = 1 THEN "exit" ELSE "blocked")
         /\ UNCHANGED <<thread, mine, list>>
<1> PICK o \in BarrierRecords : o = Opened(b)
  BY OpenedFields
<1>1. /\ o.count = bars[b].count /\ o.native = bars[b].native /\ o.left \in Nat
      /\ o.left - 1 \in Nat /\ o.passed \cup {p} \subseteq Parties /\ o.timeout \in BOOLEAN
  BY OpenedFields, BarrierFields
<1> PICK w \in BOOLEAN : w = (o.left = 1)
  OBVIOUS
<1> DEFINE r == [o EXCEPT !.left = o.left - 1, !.passed = o.passed \cup {p}, !.waitAt = w]
<1>2. bars' = [bars EXCEPT ![b] = r] /\ Goto(p, IF o.left = 1 THEN "exit" ELSE "blocked")
      /\ UNCHANGED <<thread, mine, list>>
  BY DEF EnterBarrier
<1>3. r \in BarrierRecords
  BY <1>1 DEF BarrierRecords
<1>4. /\ r.count = o.count /\ r.left = o.left - 1 /\ r.timeout = o.timeout /\ r.waitAt = w
      /\ r.passed = o.passed \cup {p} /\ r.native = o.native
  BY Zenon DEF BarrierRecords
<1> HIDE DEF r
<1>5. bars' \in [Barriers -> BarrierRecords] /\ bars'[b] = r
      /\ \A c \in Barriers : c # b => bars'[c] = bars[c]
  BY <1>2, <1>3 DEF TypeOK
<1>6. bars'[b].timeout = FALSE
  BY <1>1, <1>4, <1>5, Zenon
<1>7. bars'[b].waitAt <=> o.left = 1
  BY <1>4, <1>5, Zenon
<1>8. QED
  BY <1>1, <1>2, <1>4, <1>5, <1>6, <1>7

(* Somebody comes to one that has.                                         *)
LEMMA EnterTimedOut ==
  ASSUME NEW p \in Parties, Opened(mine[p]).timeout, EnterBarrier(p)
  PROVE  Goto(p, Back(p)) /\ UNCHANGED <<thread, mine, bars, list>>
  BY DEF EnterBarrier

(* The host's timeout.                                                     *)
LEMMA TimeOutEffect ==
  ASSUME TypeOK, NEW b \in Barriers, mine[Host] = b, TimeOut
  PROVE  /\ bars' \in [Barriers -> BarrierRecords]
         /\ \A c \in Barriers : c # b => bars'[c] = bars[c]
         /\ bars'[b].count = bars[b].count /\ bars'[b].native = bars[b].native
         /\ bars'[b].left = bars[b].left /\ bars'[b].passed = bars[b].passed
         /\ bars'[b].timeout = TRUE /\ bars'[b].waitAt = FALSE
<1> PICK o \in BarrierRecords : o = bars[b]
  BY DEF TypeOK
<1> DEFINE r == [o EXCEPT !.timeout = TRUE, !.waitAt = FALSE]
<1>1. bars' = [bars EXCEPT ![b] = r]
  <2>1. bars' = [bars EXCEPT ![b].timeout = TRUE, ![b].waitAt = FALSE]
    BY DEF TimeOut
  <2>2. bars \in [Barriers -> BarrierRecords]
    BY DEF TypeOK
  <2> DEFINE m == [bars EXCEPT ![b].timeout = TRUE]
             q == [o EXCEPT !.timeout = TRUE]
  <2>3. m = [bars EXCEPT ![b] = q]
    BY <2>2
  <2>4. q \in BarrierRecords
    BY DEF BarrierRecords
  <2>5. m \in [Barriers -> BarrierRecords] /\ m[b] = q
    BY <2>2, <2>3, <2>4
  <2>6. bars' = [m EXCEPT ![b].waitAt = FALSE]
    BY <2>1
  <2>7. QED
    BY <2>2, <2>3, <2>5, <2>6
<1>2. r \in BarrierRecords
  BY DEF BarrierRecords
<1>3. /\ r.count = o.count /\ r.left = o.left /\ r.timeout = TRUE /\ r.waitAt = FALSE
      /\ r.passed = o.passed /\ r.native = o.native
  BY Zenon DEF BarrierRecords
<1> HIDE DEF r
<1>4. bars' \in [Barriers -> BarrierRecords] /\ bars'[b] = r
      /\ \A c \in Barriers : c # b => bars'[c] = bars[c]
  BY <1>1, <1>2 DEF TypeOK
<1>5. QED
  BY <1>3, <1>4

(* Only who is inside the POSIX barrier changes.                           *)
LEMMA NativeEffect ==
  ASSUME TypeOK, NEW b \in Barriers, NEW in \in SUBSET Parties,
         bars' = [bars EXCEPT ![b].native = in]
  PROVE  /\ bars' \in [Barriers -> BarrierRecords]
         /\ \A c \in Barriers : c # b => bars'[c] = bars[c]
         /\ bars'[b].count = bars[b].count /\ bars'[b].native = in
         /\ bars'[b].left = bars[b].left /\ bars'[b].passed = bars[b].passed
         /\ bars'[b].timeout = bars[b].timeout /\ bars'[b].waitAt = bars[b].waitAt
<1> PICK o \in BarrierRecords : o = bars[b]
  BY DEF TypeOK
<1> DEFINE r == [o EXCEPT !.native = in]
<1>1. bars' = [bars EXCEPT ![b] = r]
  BY DEF TypeOK
<1>2. r \in BarrierRecords
  BY DEF BarrierRecords
<1>3. /\ r.count = o.count /\ r.left = o.left /\ r.timeout = o.timeout /\ r.waitAt = o.waitAt
      /\ r.passed = o.passed /\ r.native = in
  BY Zenon DEF BarrierRecords
<1> HIDE DEF r
<1>4. bars' \in [Barriers -> BarrierRecords] /\ bars'[b] = r
      /\ \A c \in Barriers : c # b => bars'[c] = bars[c]
  BY <1>1, <1>2 DEF TypeOK
<1>5. QED
  BY <1>3, <1>4

(* The list's barrier is renewed.                                          *)
LEMMA RenewEffect ==
  ASSUME TypeOK, created < MaxBarriers, NEW f \in SUBSET Workers, UpdateBarrier(f)
  PROVE  /\ created' = created + 1 /\ current' = created + 1 /\ created + 1 \in Barriers
         /\ bars' \in [Barriers -> BarrierRecords]
         /\ \A c \in Barriers : c # created + 1 => bars'[c] = bars[c]
         /\ bars'[created + 1].count = Cardinality(Unflagged(f)) + 1
         /\ bars'[created + 1].left = 0 /\ bars'[created + 1].native = {}
         /\ bars'[created + 1].timeout = FALSE /\ bars'[created + 1].waitAt = FALSE
<1>1. created + 1 \in Barriers
  BY DEF TypeOK, Barriers
<1>2. Cardinality(Unflagged(f)) + 1 \in Nat
  <2>1. Cardinality(Unflagged(f)) \in Nat
    BY PartiesCounted
  <2>2. QED
    BY <2>1
<1> PICK n \in BarrierRecords : n = NewBarrier(Cardinality(Unflagged(f)) + 1)
  BY <1>2, NewBarrierFields
<1>3. /\ n.count = Cardinality(Unflagged(f)) + 1 /\ n.left = 0 /\ n.native = {}
      /\ n.timeout = FALSE /\ n.waitAt = FALSE
  BY <1>2, NewBarrierFields
<1>4. created' = created + 1 /\ current' = created + 1 /\ bars' = [bars EXCEPT ![created + 1] = n]
  BY DEF UpdateBarrier
<1>5. bars' \in [Barriers -> BarrierRecords] /\ bars'[created + 1] = n
      /\ \A c \in Barriers : c # created + 1 => bars'[c] = bars[c]
  BY <1>1, <1>4 DEF TypeOK
<1>6. QED
  BY <1>1, <1>3, <1>4, <1>5

-----------------------------------------------------------------------------
(* Steps that leave every barrier alone                                    *)

(* What the invariant says of the list's barrier.                          *)
LEMMA CurrentFields ==
  ASSUME TypeOK
  PROVE  /\ bars[current] \in BarrierRecords
         /\ bars[current].count \in Nat /\ bars[current].left \in Nat
         /\ bars[current].timeout \in BOOLEAN /\ bars[current].waitAt \in BOOLEAN
  BY BarrierFields DEF TypeOK

LEMMA HereCounted ==
  ASSUME TypeOK, CallInv, CountInv, at[Host] # "recover"
  PROVE  /\ IsFiniteSet(Here) /\ Cardinality(Here) \in Nat
         /\ Cardinality(Here) <= bars[current].count
         /\ Cardinality(Here) = bars[current].count => Here = Unflagged(flagged) \cup {Host}
         /\ Begun /\ bars[current].left = 0 => Here = Unflagged(flagged) \cup {Host}
<1>1. flagged \in SUBSET Workers /\ Here \in SUBSET (Unflagged(flagged) \cup {Host})
  BY DEF TypeOK, CountInv
<1>2. /\ IsFiniteSet(Here) /\ Cardinality(Here) \in Nat
      /\ Cardinality(Here) <= bars[current].count
      /\ Cardinality(Here) = bars[current].count => Here = Unflagged(flagged) \cup {Host}
  BY <1>1, AllCame DEF CallInv
<1>3. Begun => bars[current].left = bars[current].count - Cardinality(Here)
  BY DEF CountInv
<1>4. bars[current].count \in Nat
  BY CurrentFields
<1>5. QED
  BY <1>2, <1>3, <1>4

(* Such a step keeps what is said of the list and of its barrier, unless   *)
(* it makes somebody owe a barrier or moves somebody inside one.           *)
LEMMA QuietStep ==
  ASSUME WakeupInv, UNCHANGED <<bars, list>>,
         at'[Host] = at[Host], mine'[Host] = mine[Host],
         \A t \in Workers : \A b \in Barriers : Owes(t, b)' => Owes(t, b),
         \A t \in Workers : \/ at'[t] = at[t] /\ mine'[t] = mine[t]
                            \/ /\ at[t] \notin {"blocked", "exit", "native"}
                               /\ at'[t] \notin {"blocked", "exit", "native"}
  PROVE  CallInv' /\ AsideInv' /\ CountInv' /\ PlacesInv'
<1>1. /\ UNCHANGED <<bars, flagged, created, current, badBars, aside, todo, expected, recovered>>
      /\ bars[current]' = bars[current]
  BY DEF list
<1>2. /\ HostCame' <=> HostCame
      /\ Begun' <=> Begun
      /\ Here' = Here
  BY <1>1 DEF HostCame, Begun, Here
<1>3. CallInv'
  BY <1>1 DEF WakeupInv, CallInv
<1>4. AsideInv'
  <2>1. \A b \in aside : b \in Barriers
    BY DEF WakeupInv, TypeOK
  <2>2. \A b \in aside' : b < created' /\ bars'[b].timeout /\ ~bars'[b].waitAt
    BY <1>1 DEF WakeupInv, AsideInv
  <2>3. \A b \in aside' : \A t \in Workers : Owes(t, b)' =>
           t \in badBars'[b] /\ t \in flagged' /\ bars'[b].left > 0
    BY <1>1, <2>1 DEF WakeupInv, AsideInv
  <2>4. current' \notin aside' /\ flagged' \subseteq UNION {badBars'[b] : b \in aside'}
    BY <1>1 DEF WakeupInv, AsideInv
  <2>5. QED
    BY <2>2, <2>3, <2>4 DEF AsideInv
<1>5. CountInv'
  BY <1>1, <1>2 DEF WakeupInv, CountInv
<1>6. PlacesInv'
  <2>1. current \in Barriers
    BY DEF WakeupInv, TypeOK
  <2>2. \A p \in Parties : \/ at'[p] = at[p] /\ mine'[p] = mine[p]
                           \/ /\ at[p] \notin {"blocked", "exit", "native"}
                              /\ at'[p] \notin {"blocked", "exit", "native"}
    BY PartyKinds
  <2>3. \A p \in Parties : Inside(p, current)' <=> Inside(p, current)
    BY <1>1, <2>2 DEF Inside
  <2>4. \A t \in Workers : Owes(t, current)' => Owes(t, current)
    BY <1>1, <2>1 DEF Owes
  <2>5. \A t \in Workers : Owes(t, current)' =>
           at'[Host] \notin {"idle", "recover"} /\ t \in Unflagged(flagged)' /\ t \notin todo' /\ t \notin Here'
    BY <1>1, <1>2, <2>4 DEF WakeupInv, PlacesInv, Unflagged
  <2>6. \A p \in Parties :
           /\ Inside(p, current)' => p \in Here'
           /\ Inside(p, current)' /\ at'[p] = "exit" =>
                bars[current]'.left = 0 \/ bars[current]'.timeout
           /\ p \in bars[current]'.native <=> at'[p] = "native" /\ mine'[p] = current'
    BY <1>1, <1>2, <2>2, <2>3 DEF WakeupInv, PlacesInv
  <2>7. bars[current]'.native # {} => bars[current]'.left = 0
    BY <1>1 DEF WakeupInv, PlacesInv
  <2>8. at'[Host] \in {"leave", "judge"} /\ ~bars[current]'.timeout =>
           bars[current]'.left = 0 /\ \A p \in Parties : ~Inside(p, current)'
    BY <1>1, <2>3 DEF WakeupInv, PlacesInv
  <2>9. QED
    BY <2>5, <2>6, <2>7, <2>8 DEF PlacesInv
<1>7. QED
  BY <1>3, <1>4, <1>5, <1>6

-----------------------------------------------------------------------------
(* The worker on its own: Thread::run, Thread::wakeup                      *)

LEMMA SleepStep ==
  ASSUME WakeupInv, NEW t \in Workers, Sleep(t)
  PROVE  WakeupInv'
<1>1. /\ at[t] = "rest" /\ pending[t] = 0 /\ ~waiting[t]
      /\ UNCHANGED <<pending, barrier, at, mine, bars, flagged, created, current, badBars,
                     aside, todo, expected, recovered>>
      /\ waiting' = [waiting EXCEPT ![t] = TRUE]
  BY DEF Sleep, list
<1>2. /\ waiting' \in [Workers -> BOOLEAN]
      /\ \A u \in Workers : u # t => (waiting'[u] <=> waiting[u])
  BY <1>1, Zenon DEF WakeupInv, TypeOK
<1>3. TypeOK'
  BY <1>1, <1>2, Zenon DEF WakeupInv, TypeOK
<1>4. SleepInv'
  <2>1. barrier[t] = NoBarrier
    BY <1>1 DEF WakeupInv, SleepInv
  <2>2. \A u \in Workers : waiting'[u] => at[u] = "rest" /\ pending[u] = 0 /\ barrier[u] = NoBarrier
    BY <1>1, <1>2, <2>1 DEF WakeupInv, SleepInv
  <2>3. QED
    BY <1>1, <2>2 DEF WakeupInv, SleepInv
<1>5. CallInv' /\ AsideInv' /\ CountInv' /\ PlacesInv'
  <2>1. \A u \in Workers : \A b \in Barriers : Owes(u, b)' => Owes(u, b)
    BY <1>1 DEF Owes
  <2>2. QED
    BY <1>1, <2>1, QuietStep DEF list
<1>6. UsedInv'
  BY <1>1 DEF WakeupInv, UsedInv
<1>7. QED
  BY <1>3, <1>4, <1>5, <1>6 DEF WakeupInv

LEMMA ProceedStep ==
  ASSUME WakeupInv, NEW t \in Workers, Proceed(t)
  PROVE  WakeupInv'
<1> USE PartyKinds
<1>1. /\ at[t] = "rest" /\ pending[t] > 0 /\ Goto(t, "loop")
      /\ pending' = [pending EXCEPT ![t] = pending[t] - 1]
      /\ UNCHANGED <<waiting, barrier, mine, bars, flagged, created, current, badBars,
                     aside, todo, expected, recovered>>
  BY DEF Proceed, list
<1>2. /\ at' \in [Parties -> Places] /\ at'[t] = "loop"
      /\ \A q \in Parties : q # t => at'[q] = at[q]
  BY <1>1, GotoAt DEF WakeupInv, Places
<1>3. /\ pending' \in [Workers -> Nat]
      /\ \A u \in Workers : u # t => pending'[u] = pending[u]
  BY <1>1 DEF WakeupInv, TypeOK
<1>4. TypeOK'
  BY <1>1, <1>2, <1>3, Zenon DEF WakeupInv, TypeOK
<1>5. SleepInv'
  <2>1. ~waiting[t]
    BY <1>1 DEF WakeupInv, SleepInv
  <2>2. QED
    BY <1>1, <1>2, <1>3, <2>1 DEF WakeupInv, SleepInv
<1>6. CallInv' /\ AsideInv' /\ CountInv' /\ PlacesInv'
  <2>1. \A u \in Workers : \A b \in Barriers : Owes(u, b)' => Owes(u, b)
    BY <1>1, <1>2 DEF Owes
  <2>2. QED
    BY <1>1, <1>2, <2>1, QuietStep DEF list
<1>7. UsedInv'
  BY <1>1, <1>2 DEF WakeupInv, UsedInv
<1>8. QED
  BY <1>4, <1>5, <1>6, <1>7 DEF WakeupInv

LEMMA LoopEndsStep ==
  ASSUME WakeupInv, NEW t \in Workers, LoopEnds(t)
  PROVE  WakeupInv'
<1> USE PartyKinds
<1>1. /\ at[t] = "loop" /\ Goto(t, "after")
      /\ UNCHANGED <<pending, waiting, barrier, mine, bars, flagged, created, current,
                     badBars, aside, todo, expected, recovered>>
  BY DEF LoopEnds, thread, list
<1>2. /\ at' \in [Parties -> Places] /\ at'[t] = "after"
      /\ \A q \in Parties : q # t => at'[q] = at[q]
  BY <1>1, GotoAt DEF WakeupInv, Places
<1>3. TypeOK'
  BY <1>1, <1>2, Zenon DEF WakeupInv, TypeOK
<1>4. SleepInv'
  BY <1>1, <1>2 DEF WakeupInv, SleepInv
<1>5. CallInv' /\ AsideInv' /\ CountInv' /\ PlacesInv'
  <2>1. \A u \in Workers : \A b \in Barriers : Owes(u, b)' => Owes(u, b)
    BY <1>1, <1>2 DEF Owes
  <2>2. QED
    BY <1>1, <1>2, <2>1, QuietStep DEF list
<1>6. UsedInv'
  BY <1>1, <1>2 DEF WakeupInv, UsedInv
<1>7. QED
  BY <1>3, <1>4, <1>5, <1>6 DEF WakeupInv

LEMMA ReadBarrierStep ==
  ASSUME WakeupInv, NEW t \in Workers, ReadBarrier(t)
  PROVE  WakeupInv'
<1> USE PartyKinds
<1> DEFINE s == IF barrier[t] = NoBarrier THEN "rest" ELSE "take"
<1>1. /\ at[t] = "after" /\ Goto(t, s) /\ s \in Places
      /\ UNCHANGED <<pending, waiting, barrier, mine, bars, flagged, created, current,
                     badBars, aside, todo, expected, recovered>>
  BY DEF ReadBarrier, thread, list, Places
<1>2. /\ at' \in [Parties -> Places] /\ at'[t] = s
      /\ \A q \in Parties : q # t => at'[q] = at[q]
  BY <1>1, GotoAt DEF WakeupInv
<1>3. TypeOK'
  BY <1>1, <1>2, Zenon DEF WakeupInv, TypeOK
<1>4. SleepInv'
  BY <1>1, <1>2 DEF WakeupInv, SleepInv
<1>5. CallInv' /\ AsideInv' /\ CountInv' /\ PlacesInv'
  <2>1. \A u \in Workers : \A b \in Barriers : Owes(u, b)' => Owes(u, b)
    BY <1>1, <1>2 DEF Owes
  <2>2. QED
    BY <1>1, <1>2, <2>1, QuietStep DEF list
<1>6. UsedInv'
  BY <1>1, <1>2 DEF WakeupInv, UsedInv
<1>7. QED
  BY <1>3, <1>4, <1>5, <1>6 DEF WakeupInv

LEMMA TakeBarrierStep ==
  ASSUME WakeupInv, NEW t \in Workers, TakeBarrier(t)
  PROVE  WakeupInv'
<1> USE PartyKinds
<1>1. /\ at[t] = "take" /\ Goto(t, "enter")
      /\ mine' = [mine EXCEPT ![t] = barrier[t]]
      /\ barrier' = [barrier EXCEPT ![t] = NoBarrier]
      /\ UNCHANGED <<pending, waiting, bars, flagged, created, current, badBars, aside,
                     todo, expected, recovered>>
  BY DEF TakeBarrier, list
<1>2. /\ at' \in [Parties -> Places] /\ at'[t] = "enter"
      /\ \A q \in Parties : q # t => at'[q] = at[q]
  BY <1>1, GotoAt DEF WakeupInv, Places
<1>3. /\ mine' \in [Parties -> Barriers \cup {NoBarrier}] /\ mine'[t] = barrier[t]
      /\ \A q \in Parties : q # t => mine'[q] = mine[q]
      /\ barrier' \in [Workers -> Barriers \cup {NoBarrier}] /\ barrier'[t] = NoBarrier
      /\ \A u \in Workers : u # t => barrier'[u] = barrier[u]
  BY <1>1 DEF WakeupInv, TypeOK
<1>4. TypeOK'
  BY <1>1, <1>2, <1>3, Zenon DEF WakeupInv, TypeOK
<1>5. SleepInv'
  BY <1>1, <1>2, <1>3 DEF WakeupInv, SleepInv
<1>6. CallInv' /\ AsideInv' /\ CountInv' /\ PlacesInv'
  <2>1. NoBarrier \notin Barriers
    BY DEF Barriers
  <2>2. \A u \in Workers : \A b \in Barriers : Owes(u, b)' => Owes(u, b)
    BY <1>2, <1>3, <2>1 DEF Owes
  <2>3. QED
    BY <1>1, <1>2, <1>3, <2>2, QuietStep DEF list
<1>7. UsedInv'
  <2>1. barrier[t] # NoBarrier
    BY <1>1 DEF WakeupInv, SleepInv
  <2>2. QED
    BY <1>1, <1>2, <1>3, <2>1 DEF WakeupInv, UsedInv
<1>8. QED
  BY <1>4, <1>5, <1>6, <1>7 DEF WakeupInv

LEMMA WakeupStep ==
  ASSUME WakeupInv, NEW t \in Workers, Wakeup(t)
  PROVE  WakeupInv'
<1> USE PartyKinds
<1> DEFINE n == IF t \in Coalesce THEN 1 ELSE pending[t] + 1
<1>1. /\ barrier[t] = NoBarrier
      /\ pending' = [pending EXCEPT ![t] = n]
      /\ waiting' = [waiting EXCEPT ![t] = FALSE]
      /\ UNCHANGED <<barrier, at, mine, bars, flagged, created, current, badBars, aside,
                     todo, expected, recovered>>
  BY DEF Wakeup, list
<1>2. /\ pending' \in [Workers -> Nat]
      /\ \A u \in Workers : u # t => pending'[u] = pending[u]
  BY <1>1 DEF WakeupInv, TypeOK
<1>3. /\ waiting' \in [Workers -> BOOLEAN] /\ ~waiting'[t]
      /\ \A u \in Workers : u # t => (waiting'[u] <=> waiting[u])
  BY <1>1, Zenon DEF WakeupInv, TypeOK
<1>4. TypeOK'
  BY <1>1, <1>2, <1>3, Zenon DEF WakeupInv, TypeOK
<1>5. SleepInv'
  BY <1>1, <1>2, <1>3 DEF WakeupInv, SleepInv
<1>6. CallInv' /\ AsideInv' /\ CountInv' /\ PlacesInv'
  <2>1. \A u \in Workers : \A b \in Barriers : Owes(u, b)' => Owes(u, b)
    BY <1>1 DEF Owes
  <2>2. QED
    BY <1>1, <2>1, QuietStep DEF list
<1>7. UsedInv'
  BY <1>1 DEF WakeupInv, UsedInv
<1>8. QED
  BY <1>4, <1>5, <1>6, <1>7 DEF WakeupInv

-----------------------------------------------------------------------------
(* InterruptibleBarrier::wait                                              *)

(* In a call the host uses the list's barrier.                             *)
LEMMA HostsBarrier ==
  ASSUME WakeupInv
  PROVE  /\ current \in Barriers /\ created = current
         /\ at[Host] \notin {"idle", "recover"} => mine[Host] = current
  BY DEF WakeupInv, TypeOK, CallInv

(* Who comes to a barrier finds that its wait has timed out, or comes to   *)
(* the list's barrier, for which somebody is still to come: itself.        *)
LEMMA EnterKind ==
  ASSUME WakeupInv, NEW p \in Parties, at[p] = "enter"
  PROVE  /\ mine[p] \in Barriers
         /\ \/ Opened(mine[p]).timeout /\ p \in Workers
            \/ /\ mine[p] = current /\ ~bars[current].timeout /\ ~Opened(current).timeout
               /\ p \notin Here /\ p \notin todo /\ p \in Unflagged(flagged) \cup {Host}
               /\ p # Host => at[Host] \notin {"idle", "recover"}
               /\ Opened(current).left = bars[current].count - Cardinality(Here)
               /\ Opened(current).left > 0
               /\ Opened(current).passed = Here
<1> USE HostsBarrier
<1>1. TypeOK /\ CallInv /\ CountInv /\ current \in Barriers
  BY DEF WakeupInv
<1>2. ASSUME mine[p] = current, ~Opened(current).timeout, p \notin Here, p \notin todo,
             p \in Unflagged(flagged) \cup {Host}, p # Host => at[Host] \notin {"idle", "recover"},
             ~bars[current].timeout
      PROVE  /\ Opened(current).left = bars[current].count - Cardinality(Here)
             /\ Opened(current).left > 0
             /\ Opened(current).passed = Here
  <2>1. Here # Unflagged(flagged) \cup {Host} /\ at[Host] # "recover"
    BY <1>2
  <2>2. bars[current].count \in Nat /\ bars[current].left \in Nat /\ Cardinality(Here) \in Nat
        /\ Cardinality(Here) < bars[current].count
    BY <1>1, <2>1, HereCounted, CurrentFields
  <2>3. CASE Begun
    <3>1. bars[current].left = bars[current].count - Cardinality(Here)
      BY <2>3 DEF WakeupInv, CountInv
    <3>2. Opened(current) = bars[current] /\ Here = bars[current].passed
      BY <1>1, <2>2, <2>3, <3>1, OpenedFields DEF Here
    <3>3. QED
      BY <2>2, <3>1, <3>2
  <2>4. CASE ~Begun
    <3>1. bars[current].left = 0 /\ Here = {} /\ Cardinality(Here) = 0
      BY <2>2, <2>4, FS_EmptySet DEF Begun, Here
    <3>2. Opened(current).left = bars[current].count /\ Opened(current).passed = {}
      BY <1>1, <3>1, OpenedFields
    <3>3. QED
      BY <2>2, <3>1, <3>2
  <2>5. QED
    BY <2>3, <2>4
<1>3. CASE p = Host
  <2>1. mine[p] = current /\ ~bars[current].timeout /\ p \notin Here
    BY <1>3 DEF WakeupInv, CountInv, HostCame
  <2>2. p \notin todo
    BY <1>1, <1>3, PartyKinds DEF TypeOK
  <2>3. ~Opened(current).timeout
    <3>1. bars[current].left \in Nat
      BY <1>1, CurrentFields
    <3>2. CASE bars[current].left > 0
      BY <1>1, <2>1, <3>2, OpenedFields
    <3>3. CASE bars[current].left = 0
      BY <1>1, <3>3, OpenedFields
    <3>4. QED
      BY <3>1, <3>2, <3>3
  <2>4. QED
    BY <1>2, <1>3, <2>1, <2>2, <2>3
<1>4. CASE p \in Workers
  <2>1. mine[p] \in aside \cup {current} /\ mine[p] \in Barriers
    BY <1>1, <1>4 DEF WakeupInv, UsedInv, TypeOK
  <2>2. CASE mine[p] \in aside
    <3>1. bars[mine[p]].timeout /\ bars[mine[p]].left > 0
      BY <1>4, <2>2 DEF WakeupInv, AsideInv, Owes
    <3>2. Opened(mine[p]) = bars[mine[p]]
      BY <1>1, <2>1, <3>1, OpenedFields
    <3>3. QED
      BY <1>4, <2>1, <3>1, <3>2
  <2>3. CASE mine[p] = current
    <3>1. at[Host] \notin {"idle", "recover"} /\ p \in Unflagged(flagged) /\ p \notin todo /\ p \notin Here
      BY <1>4, <2>3 DEF WakeupInv, PlacesInv, Owes
    <3>2. CASE bars[current].timeout
      <4>1. Begun
        BY <3>2 DEF WakeupInv, CountInv, Begun, HostCame
      <4>2. bars[current].left # 0 /\ bars[current].left \in Nat
        BY <1>1, <3>1, <4>1, HereCounted, CurrentFields
      <4>3. Opened(current) = bars[current]
        BY <1>1, <4>2, OpenedFields
      <4>4. QED
        BY <1>4, <2>1, <2>3, <3>2, <4>3
    <3>3. CASE ~bars[current].timeout
      <4>1. ~Opened(current).timeout
        <5>1. bars[current].left \in Nat
          BY <1>1, CurrentFields
        <5>2. CASE bars[current].left > 0
          BY <1>1, <3>3, <5>2, OpenedFields
        <5>3. CASE bars[current].left = 0
          BY <1>1, <5>3, OpenedFields
        <5>4. QED
          BY <5>1, <5>2, <5>3
      <4>2. QED
        BY <1>2, <2>1, <2>3, <3>1, <3>3, <4>1
    <3>4. QED
      BY <3>2, <3>3
  <2>4. QED
    BY <2>1, <2>2, <2>3
<1>5. QED
  BY <1>3, <1>4, PartyKinds

LEMMA WokenStep ==
  ASSUME WakeupInv, NEW p \in Parties, Woken(p)
  PROVE  WakeupInv'
<1> USE PartyKinds
<1>1. /\ at[p] = "blocked" /\ (bars[mine[p]].left = 0 \/ bars[mine[p]].timeout)
      /\ Goto(p, "exit")
      /\ UNCHANGED <<pending, waiting, barrier, mine, bars, flagged, created, current,
                     badBars, aside, todo, expected, recovered>>
  BY DEF Woken, thread, list
<1>2. /\ at' \in [Parties -> Places] /\ at'[p] = "exit"
      /\ \A q \in Parties : q # p => at'[q] = at[q]
  BY <1>1, GotoAt DEF WakeupInv, Places
<1>3. TypeOK'
  BY <1>1, <1>2, Zenon DEF WakeupInv, TypeOK
<1>4. SleepInv'
  BY <1>1, <1>2 DEF WakeupInv, SleepInv
<1>5. bars[current]' = bars[current] /\ (HostCame' <=> HostCame) /\ Here' = Here /\ (Begun' <=> Begun)
  <2>1. HostCame' <=> HostCame
    BY <1>1, <1>2 DEF HostCame
  <2>2. QED
    BY <1>1, <2>1 DEF Here, Begun
<1>6. CallInv'
  BY <1>1, <1>2 DEF WakeupInv, CallInv
<1>7. AsideInv'
  <2>1. \A t \in Workers : \A b \in Barriers : Owes(t, b)' => Owes(t, b)
    BY <1>1, <1>2 DEF Owes
  <2>2. \A b \in aside : b \in Barriers
    BY DEF WakeupInv, TypeOK
  <2>3. QED
    BY <1>1, <2>1, <2>2 DEF WakeupInv, AsideInv
<1>8. CountInv'
  BY <1>1, <1>2, <1>5 DEF WakeupInv, CountInv
<1>9. PlacesInv'
  <2>1. \A t \in Workers : Owes(t, current)' => Owes(t, current)
    BY <1>1, <1>2 DEF Owes
  <2>2. \A q \in Parties : Inside(q, current)' <=> Inside(q, current)
    BY <1>1, <1>2 DEF Inside
  <2>3. \A t \in Workers : Owes(t, current)' =>
           at'[Host] \notin {"idle", "recover"} /\ t \in Unflagged(flagged)' /\ t \notin todo' /\ t \notin Here'
    BY <1>1, <1>2, <1>5, <2>1 DEF WakeupInv, PlacesInv, Unflagged
  <2>4. \A q \in Parties :
           /\ Inside(q, current)' => q \in Here'
           /\ Inside(q, current)' /\ at'[q] = "exit" =>
                bars[current]'.left = 0 \/ bars[current]'.timeout
           /\ q \in bars[current]'.native <=> at'[q] = "native" /\ mine'[q] = current'
    BY <1>1, <1>2, <1>5, <2>2 DEF WakeupInv, PlacesInv, Inside
  <2>5. /\ bars[current]'.native # {} => bars[current]'.left = 0
        /\ at'[Host] \in {"leave", "judge"} /\ ~bars[current]'.timeout =>
             bars[current]'.left = 0 /\ \A q \in Parties : ~Inside(q, current)'
    BY <1>1, <1>2, <2>2 DEF WakeupInv, PlacesInv
  <2>6. QED
    BY <2>3, <2>4, <2>5 DEF PlacesInv
<1>10. UsedInv'
  BY <1>1, <1>2 DEF WakeupInv, UsedInv
<1>11. QED
  BY <1>3, <1>4, <1>6, <1>7, <1>8, <1>9, <1>10 DEF WakeupInv

LEMMA TimeOutStep ==
  ASSUME WakeupInv, TimeOut
  PROVE  WakeupInv'
<1> USE PartyKinds
<1>1. /\ at[Host] = "blocked" /\ Goto(Host, "exit") /\ mine[Host] = current /\ current \in Barriers
      /\ UNCHANGED <<pending, waiting, barrier, mine, flagged, created, current,
                     badBars, aside, todo, expected, recovered>>
  BY HostsBarrier DEF TimeOut, thread, list
<1>2. /\ at' \in [Parties -> Places] /\ at'[Host] = "exit"
      /\ \A q \in Parties : q # Host => at'[q] = at[q]
  BY <1>1, GotoAt DEF WakeupInv, Places
<1>3. /\ bars' \in [Barriers -> BarrierRecords]
      /\ \A c \in Barriers : c # current => bars'[c] = bars[c]
      /\ bars'[current].count = bars[current].count
      /\ bars'[current].native = bars[current].native
      /\ bars'[current].left = bars[current].left
      /\ bars'[current].passed = bars[current].passed
      /\ bars'[current].timeout /\ ~bars'[current].waitAt
  BY <1>1, TimeOutEffect DEF WakeupInv
<1>4. TypeOK'
  BY <1>1, <1>2, <1>3, Zenon DEF WakeupInv, TypeOK
<1>5. SleepInv'
  BY <1>1, <1>2 DEF WakeupInv, SleepInv
<1>6. HostCame /\ HostCame' /\ Begun /\ Begun' /\ Here' = Here
  BY <1>1, <1>2, <1>3 DEF HostCame, Begun, Here
<1>7. CallInv'
  BY <1>1, <1>2, <1>3 DEF WakeupInv, CallInv
<1>8. AsideInv'
  <2>1. \A t \in Workers : \A b \in Barriers : Owes(t, b)' => Owes(t, b)
    BY <1>1, <1>2 DEF Owes
  <2>2. \A b \in aside : b \in Barriers /\ bars'[b] = bars[b]
    BY <1>1, <1>3 DEF WakeupInv, TypeOK, AsideInv
  <2>3. QED
    BY <1>1, <2>1, <2>2 DEF WakeupInv, AsideInv
<1>9. CountInv'
  BY <1>1, <1>2, <1>3, <1>6 DEF WakeupInv, CountInv
<1>10. PlacesInv'
  <2>1. \A t \in Workers : Owes(t, current)' => Owes(t, current)
    BY <1>1, <1>2 DEF Owes
  <2>2. \A q \in Parties : Inside(q, current)' <=> Inside(q, current)
    BY <1>1, <1>2 DEF Inside
  <2>3. \A t \in Workers : Owes(t, current)' =>
           at'[Host] \notin {"idle", "recover"} /\ t \in Unflagged(flagged)' /\ t \notin todo' /\ t \notin Here'
    BY <1>1, <1>2, <1>6, <2>1 DEF WakeupInv, PlacesInv, Unflagged
  <2>4. \A q \in Parties :
           /\ Inside(q, current)' => q \in Here'
           /\ q \in bars'[current'].native <=> at'[q] = "native" /\ mine'[q] = current'
    BY <1>1, <1>2, <1>3, <1>6, <2>2 DEF WakeupInv, PlacesInv
  <2>5. bars'[current'].native # {} => bars'[current'].left = 0
    BY <1>1, <1>3 DEF WakeupInv, PlacesInv
  <2>6. bars'[current'].timeout
    BY <1>1, <1>3
  <2>7. QED
    BY <2>3, <2>4, <2>5, <2>6 DEF PlacesInv
<1>11. UsedInv'
  BY <1>1, <1>2, <1>3 DEF WakeupInv, UsedInv
<1>12. QED
  BY <1>4, <1>5, <1>7, <1>8, <1>9, <1>10, <1>11 DEF WakeupInv

LEMMA LeaveStep ==
  ASSUME WakeupInv, NEW p \in Parties, LeaveBarrier(p)
  PROVE  WakeupInv'
<1> USE PartyKinds
<1>1. /\ at[p] = "leave" /\ Goto(p, Back(p)) /\ Back(p) \in Places
      /\ UNCHANGED <<pending, waiting, barrier, mine, bars, flagged, created, current,
                     badBars, aside, todo, expected, recovered>>
  BY DEF LeaveBarrier, thread, list, Back, Places
<1>2. /\ at' \in [Parties -> Places] /\ at'[p] = Back(p)
      /\ \A q \in Parties : q # p => at'[q] = at[q]
  BY <1>1, GotoAt DEF WakeupInv
<1>3. TypeOK'
  BY <1>1, <1>2, Zenon DEF WakeupInv, TypeOK
<1>4. SleepInv'
  BY <1>1, <1>2 DEF WakeupInv, SleepInv, Back
<1>5. UsedInv'
  BY <1>1, <1>2 DEF WakeupInv, UsedInv, Back
<1>6. CallInv' /\ AsideInv' /\ CountInv' /\ PlacesInv'
  <2>1. \A t \in Workers : \A b \in Barriers : Owes(t, b)' => Owes(t, b)
    BY <1>1, <1>2 DEF Owes, Back
  <2>2. CASE p # Host
    BY <1>1, <1>2, <2>1, <2>2, QuietStep DEF list, Back
  <2>3. CASE p = Host
    <3>1. at[Host] = "leave" /\ at'[Host] = "judge" /\ \A t \in Workers : at'[t] = at[t]
      BY <1>1, <1>2, <2>3 DEF Back
    <3>2. HostCame /\ HostCame' /\ (Begun' <=> Begun) /\ Here' = Here
      BY <1>1, <3>1 DEF HostCame, Begun, Here
    <3>3. CallInv'
      BY <1>1, <3>1 DEF WakeupInv, CallInv
    <3>4. AsideInv'
      <4>1. \A b \in aside : b \in Barriers
        BY DEF WakeupInv, TypeOK
      <4>2. QED
        BY <1>1, <2>1, <4>1 DEF WakeupInv, AsideInv
    <3>5. CountInv'
      BY <1>1, <3>1, <3>2 DEF WakeupInv, CountInv
    <3>6. PlacesInv'
      <4>1. \A t \in Workers : Owes(t, current)' => Owes(t, current)
        BY <1>1, <3>1 DEF Owes
      <4>2. \A q \in Parties : Inside(q, current)' <=> Inside(q, current)
        BY <1>1, <3>1 DEF Inside
      <4>3. \A t \in Workers : Owes(t, current)' =>
               at'[Host] \notin {"idle", "recover"} /\ t \in Unflagged(flagged)' /\ t \notin todo' /\ t \notin Here'
        BY <1>1, <3>1, <3>2, <4>1 DEF WakeupInv, PlacesInv, Unflagged
      <4>4. \A q \in Parties :
               /\ Inside(q, current)' => q \in Here'
               /\ Inside(q, current)' /\ at'[q] = "exit" =>
                    bars[current]'.left = 0 \/ bars[current]'.timeout
               /\ q \in bars[current]'.native <=> at'[q] = "native" /\ mine'[q] = current'
        BY <1>1, <3>1, <3>2, <4>2 DEF WakeupInv, PlacesInv
      <4>5. /\ bars[current]'.native # {} => bars[current]'.left = 0
            /\ ~bars[current]'.timeout =>
                 bars[current]'.left = 0 /\ \A q \in Parties : ~Inside(q, current)'
        BY <1>1, <3>1, <4>2 DEF WakeupInv, PlacesInv
      <4>6. QED
        BY <4>3, <4>4, <4>5 DEF PlacesInv
    <3>7. QED
      BY <3>3, <3>4, <3>5, <3>6
  <2>4. QED
    BY <2>2, <2>3
<1>7. QED
  BY <1>3, <1>4, <1>5, <1>6 DEF WakeupInv

(* Somebody comes to the list's barrier in time.                           *)
LEMMA ComeStep ==
  ASSUME WakeupInv, NEW p \in Parties, EnterBarrier(p), ~Opened(mine[p]).timeout
  PROVE  WakeupInv'
<1> USE PartyKinds
<1> DEFINE b == current
           n == Opened(current).left
<1>1. /\ at[p] = "enter" /\ mine[p] = b /\ b \in Barriers
      /\ ~bars[b].timeout /\ ~Opened(b).timeout
      /\ p \notin Here /\ p \notin todo /\ p \in Unflagged(flagged) \cup {Host}
      /\ p # Host => at[Host] \notin {"idle", "recover"}
      /\ n = bars[b].count - Cardinality(Here) /\ n > 0 /\ Opened(b).passed = Here
  <2>1. at[p] = "enter"
    BY DEF EnterBarrier
  <2>2. QED
    BY <2>1, EnterKind
<1>2. /\ bars' \in [Barriers -> BarrierRecords]
      /\ \A c \in Barriers : c # b => bars'[c] = bars[c]
      /\ bars'[b].count = bars[b].count /\ bars'[b].native = bars[b].native
      /\ bars'[b].left = n - 1 /\ bars'[b].passed = Here \cup {p}
      /\ ~bars'[b].timeout /\ (bars'[b].waitAt <=> n = 1)
      /\ Goto(p, IF n = 1 THEN "exit" ELSE "blocked")
      /\ UNCHANGED <<pending, waiting, barrier, mine, flagged, created, current, badBars,
                     aside, todo, expected, recovered>>
  <2>1. TypeOK
    BY DEF WakeupInv
  <2>2. QED
    BY <1>1, <2>1, EnterEffect DEF thread, list
<1>3. /\ at' \in [Parties -> Places] /\ at'[p] = (IF n = 1 THEN "exit" ELSE "blocked")
      /\ \A q \in Parties : q # p => at'[q] = at[q]
  <2>1. TypeOK /\ (IF n = 1 THEN "exit" ELSE "blocked") \in Places
    BY DEF WakeupInv, Places
  <2>2. QED
    BY <1>2, <2>1, GotoAt
<1>4. at'[p] \in {"exit", "blocked"} /\ (at'[p] = "exit" <=> n = 1)
  BY <1>3
<1>5. /\ n \in Nat /\ bars[b].count \in Nat /\ Cardinality(Here) \in Nat
      /\ Cardinality(Here \cup {p}) = Cardinality(Here) + 1
      /\ Here \subseteq Unflagged(flagged) \cup {Host}
      /\ Cardinality(Here \cup {p}) = bars[b].count => Here \cup {p} = Unflagged(flagged) \cup {Host}
  <2>1. TypeOK /\ CallInv /\ CountInv /\ at[Host] # "recover"
    BY <1>1 DEF WakeupInv
  <2>2. flagged \in SUBSET Workers /\ Here \subseteq Unflagged(flagged) \cup {Host}
    BY <2>1 DEF TypeOK, CountInv
  <2>3. IsFiniteSet(Here) /\ Cardinality(Here) \in Nat /\ bars[b].count \in Nat
    BY <2>1, HereCounted, CurrentFields
  <2>4. Cardinality(Here \cup {p}) = Cardinality(Here) + 1
    BY <1>1, <2>3, OneMore
  <2>5. bars[b].count = Cardinality(Unflagged(flagged)) + 1
    BY <2>1, HostsBarrier DEF CallInv
  <2>6. Cardinality(Here \cup {p}) = bars[b].count => Here \cup {p} = Unflagged(flagged) \cup {Host}
    <3>1. Here \cup {p} \in SUBSET (Unflagged(flagged) \cup {Host})
      BY <1>1, <2>2
    <3>2. QED
      BY <2>2, <2>5, <3>1, AllCame
  <2>7. n \in Nat
    BY <1>1, <2>3
  <2>8. QED
    BY <2>2, <2>3, <2>4, <2>6, <2>7
<1>6. HostCame' <=> HostCame \/ p = Host
  BY <1>1, <1>3, <1>4 DEF HostCame
<1>7. Begun' /\ Here' = Here \cup {p}
  <2>1. CASE n = 1
    <3>1. Here \cup {p} = Unflagged(flagged) \cup {Host}
      BY <1>1, <1>5, <2>1
    <3>2. Host \in Here \/ p = Host
      BY <3>1
    <3>3. HostCame'
      BY <1>6, <3>2 DEF WakeupInv, CountInv
    <3>4. QED
      BY <1>2, <3>3 DEF Begun, Here
  <2>2. CASE n # 1
    <3>1. bars'[b].left > 0
      BY <1>1, <1>2, <1>5, <2>2
    <3>2. QED
      BY <1>2, <3>1 DEF Begun, Here
  <2>3. QED
    BY <2>1, <2>2
<1>8. Begun => bars[b].left # 0
  <2>1. TypeOK /\ CallInv /\ CountInv /\ at[Host] # "recover"
    BY <1>1 DEF WakeupInv
  <2>2. QED
    BY <1>1, <2>1, HereCounted
<1>9. \A q \in Parties : Inside(q, b) => Begun /\ at[q] \notin {"exit", "native"} /\ q # p
  <2>1. \A q \in Parties : Inside(q, b) => q \in Here
    BY DEF WakeupInv, PlacesInv
  <2>2. \A q \in Parties : Inside(q, b) => Begun
    BY <2>1 DEF Here
  <2>3. \A q \in Parties : Inside(q, b) => at[q] # "exit"
    BY <1>1, <1>8, <2>2 DEF WakeupInv, PlacesInv
  <2>4. \A q \in Parties : Inside(q, b) => at[q] # "native"
    <3>1. \A q \in Parties : Inside(q, b) /\ at[q] = "native" => q \in bars[b].native
      BY DEF WakeupInv, PlacesInv, Inside
    <3>2. bars[b].native # {} => bars[b].left = 0
      BY DEF WakeupInv, PlacesInv
    <3>3. QED
      BY <1>8, <2>2, <3>1, <3>2
  <2>5. ~Inside(p, b)
    BY <1>1 DEF Inside
  <2>6. QED
    BY <2>2, <2>3, <2>4, <2>5
<1>10. at'[Host] \notin {"idle", "recover", "leave", "judge"}
  <2>1. CASE p = Host
    BY <1>4, <2>1
  <2>2. CASE p # Host
    <3>1. at'[Host] = at[Host] /\ at[Host] \notin {"idle", "recover"}
      BY <1>1, <1>3, <2>2
    <3>2. at[Host] \in {"leave", "judge"} => Begun /\ bars[b].left = 0
      BY <1>1 DEF WakeupInv, PlacesInv, Begun, HostCame
    <3>3. QED
      BY <1>8, <3>1, <3>2
  <2>3. QED
    BY <2>1, <2>2
<1>11. /\ \A t \in Workers : \A c \in Barriers : Owes(t, c)' => Owes(t, c)
       /\ \A t \in Workers : Owes(t, b)' => t # p
  <2>1. \A t \in Workers : \A c \in Barriers : Owes(t, c)' => Owes(t, c)
    BY <1>2, <1>3, <1>4 DEF Owes
  <2>2. p \in Workers => barrier[p] # b
    BY <1>1 DEF WakeupInv, UsedInv
  <2>3. \A t \in Workers : Owes(t, b)' => t # p
    BY <1>2, <1>4, <2>2 DEF Owes
  <2>4. QED
    BY <2>1, <2>3
<1>12. TypeOK'
  BY <1>2, <1>3, Zenon DEF WakeupInv, TypeOK
<1>13. SleepInv'
  BY <1>1, <1>2, <1>3, <1>4 DEF WakeupInv, SleepInv
<1>14. CallInv'
  <2>1. at'[Host] \notin {"rest", "loop", "after", "take"}
    BY <1>3, <1>4 DEF WakeupInv, CallInv
  <2>2. at[Host] \notin {"idle", "recover"}
    BY <1>1
  <2>3. todo' # {} => at'[Host] = "wake"
    <3>1. todo # {} => at[Host] = "wake"
      BY <2>2 DEF WakeupInv, CallInv
    <3>2. QED
      BY <1>1, <1>2, <1>3, <3>1
  <2>4. QED
    BY <1>1, <1>2, <1>10, <2>1, <2>2, <2>3 DEF WakeupInv, CallInv, Unflagged
<1>15. AsideInv'
  <2>1. \A c \in aside : c \in Barriers /\ bars'[c] = bars[c]
    BY <1>2 DEF WakeupInv, TypeOK, AsideInv
  <2>2. QED
    BY <1>2, <1>11, <2>1 DEF WakeupInv, AsideInv
<1>16. CountInv'
  <2>1. Here' \subseteq Unflagged(flagged') \cup {Host} /\ Here' \cap todo' = {}
    BY <1>1, <1>2, <1>7 DEF WakeupInv, CountInv
  <2>2. Host \in Here' <=> HostCame'
    BY <1>6, <1>7 DEF WakeupInv, CountInv
  <2>3. bars'[current'].left = bars'[current'].count - Cardinality(Here')
    BY <1>1, <1>2, <1>5, <1>7
  <2>4. bars'[current'].waitAt <=> bars'[current'].left = 0 /\ ~bars'[current'].timeout
    BY <1>2, <1>5
  <2>5. at'[Host] \notin {"idle", "recover"} /\ ~bars'[current'].timeout
    BY <1>2, <1>10
  <2>6. QED
    BY <2>1, <2>2, <2>3, <2>4, <2>5 DEF CountInv
<1>17. PlacesInv'
  <2>1. \A t \in Workers : Owes(t, current)' =>
           at'[Host] \notin {"idle", "recover"} /\ t \in Unflagged(flagged)' /\ t \notin todo' /\ t \notin Here'
    <3>1. \A t \in Workers : Owes(t, current)' => Owes(t, b) /\ t # p
      BY <1>1, <1>2, <1>11
    <3>2. QED
      BY <1>2, <1>7, <1>10, <3>1 DEF WakeupInv, PlacesInv, Unflagged
  <2>2. \A q \in Parties : q # p => (Inside(q, current)' <=> Inside(q, b))
    BY <1>2, <1>3 DEF Inside
  <2>3. \A q \in Parties : Inside(q, current)' => q \in Here'
    BY <1>7, <2>2 DEF WakeupInv, PlacesInv
  <2>4. \A q \in Parties : Inside(q, current)' /\ at'[q] = "exit" =>
           bars[current]'.left = 0 \/ bars[current]'.timeout
    BY <1>2, <1>3, <1>4, <1>5, <1>9, <2>2
  <2>5. \A q \in Parties : q \in bars[current]'.native <=> at'[q] = "native" /\ mine'[q] = current'
    <3>1. p \notin bars[b].native /\ at'[p] # "native"
      BY <1>1, <1>4 DEF WakeupInv, PlacesInv
    <3>2. QED
      BY <1>2, <1>3, <3>1 DEF WakeupInv, PlacesInv
  <2>6. bars[current]'.native = {}
    <3>1. bars[b].native \subseteq Parties
      <4>1. TypeOK
        BY DEF WakeupInv
      <4>2. QED
        BY <4>1, CurrentFields, BarrierFields
    <3>2. \A q \in Parties : q \notin bars[b].native
      BY <1>9 DEF WakeupInv, PlacesInv, Inside
    <3>3. QED
      BY <1>2, <3>1, <3>2
  <2>7. QED
    BY <1>10, <2>1, <2>3, <2>4, <2>5, <2>6 DEF PlacesInv
<1>18. UsedInv'
  <2>1. \A t \in Workers : t # p => at'[t] = at[t]
    BY <1>3
  <2>2. p \in Workers => /\ at'[p] # "enter" /\ mine'[p] = current'
                         /\ mine'[p] \in Barriers /\ mine'[p] <= created'
    BY <1>1, <1>2, <1>4 DEF WakeupInv, CallInv, Barriers
  <2>3. \A c \in Barriers : c # current => bars'[c] = bars[c]
    BY <1>2
  <2>4. QED
    BY <1>2, <2>1, <2>2, <2>3 DEF WakeupInv, UsedInv
<1>19. QED
  BY <1>12, <1>13, <1>14, <1>15, <1>16, <1>17, <1>18 DEF WakeupInv

(* A worker comes to a barrier whose wait has timed out.                   *)
LEMMA ComeLateStep ==
  ASSUME WakeupInv, NEW p \in Parties, EnterBarrier(p), Opened(mine[p]).timeout
  PROVE  WakeupInv'
<1> USE PartyKinds
<1>1. at[p] = "enter" /\ p \in Workers
  <2>1. at[p] = "enter"
    BY DEF EnterBarrier
  <2>2. QED
    BY <2>1, EnterKind
<1>2. /\ Goto(p, "rest")
      /\ UNCHANGED <<pending, waiting, barrier, mine, bars, flagged, created, current,
                     badBars, aside, todo, expected, recovered>>
  BY <1>1, EnterTimedOut DEF Back, thread, list
<1>3. /\ at' \in [Parties -> Places] /\ at'[p] = "rest"
      /\ \A q \in Parties : q # p => at'[q] = at[q]
  BY <1>2, GotoAt DEF WakeupInv, Places
<1>4. TypeOK'
  BY <1>2, <1>3, Zenon DEF WakeupInv, TypeOK
<1>5. SleepInv'
  BY <1>1, <1>2, <1>3 DEF WakeupInv, SleepInv
<1>6. CallInv' /\ AsideInv' /\ CountInv' /\ PlacesInv'
  <2>1. \A u \in Workers : \A b \in Barriers : Owes(u, b)' => Owes(u, b)
    BY <1>1, <1>2, <1>3 DEF Owes
  <2>2. QED
    BY <1>1, <1>2, <1>3, <2>1, QuietStep DEF list
<1>7. UsedInv'
  BY <1>1, <1>2, <1>3 DEF WakeupInv, UsedInv
<1>8. QED
  BY <1>4, <1>5, <1>6, <1>7 DEF WakeupInv

(* Who leaves the barrier without the POSIX barrier: it has timed out.     *)
LEMMA ExitOnlyStep ==
  ASSUME WakeupInv, NEW p \in Parties, ExitBarrier(p), ~bars[mine[p]].waitAt
  PROVE  WakeupInv'
<1> USE PartyKinds
<1>1. /\ at[p] = "exit" /\ Goto(p, Back(p)) /\ Back(p) \in {"judge", "rest"}
      /\ UNCHANGED <<pending, waiting, barrier, mine, bars, flagged, created, current,
                     badBars, aside, todo, expected, recovered>>
  <2>1. at[p] = "exit" /\ UNCHANGED <<thread, mine, list>>
    BY DEF ExitBarrier
  <2>2. Goto(p, Back(p)) /\ UNCHANGED bars
    BY DEF ExitBarrier
  <2>3. QED
    BY <2>1, <2>2 DEF thread, list, Back
<1>2. /\ at' \in [Parties -> Places] /\ at'[p] = Back(p)
      /\ \A q \in Parties : q # p => at'[q] = at[q]
  BY <1>1, GotoAt DEF WakeupInv, Places
<1>3. TypeOK'
  BY <1>1, <1>2, Zenon DEF WakeupInv, TypeOK
<1>4. SleepInv'
  BY <1>1, <1>2 DEF WakeupInv, SleepInv, Back
<1>5. UsedInv'
  BY <1>1, <1>2 DEF WakeupInv, UsedInv
<1>6. p = Host => at[Host] = "exit" /\ at'[Host] = "judge" /\ bars[current].timeout
  <2> SUFFICES ASSUME p = Host PROVE bars[current].timeout
    BY <1>1, <1>2 DEF Back
  <2>1. mine[Host] = current /\ ~bars[current].waitAt /\ at[Host] = "exit"
    BY <1>1, HostsBarrier
  <2>2. Begun
    BY <2>1 DEF Begun, HostCame
  <2>3. ~(bars[current].left = 0 /\ ~bars[current].timeout)
    BY <2>1, <2>2 DEF WakeupInv, CountInv
  <2>4. Inside(Host, current)
    BY <2>1 DEF Inside
  <2>5. QED
    BY <2>1, <2>3, <2>4 DEF WakeupInv, PlacesInv
<1>7. bars[current]' = bars[current] /\ (HostCame' <=> HostCame) /\ Here' = Here /\ (Begun' <=> Begun)
  <2>1. HostCame' <=> HostCame
    BY <1>1, <1>2, <1>6 DEF HostCame
  <2>2. QED
    BY <1>1, <2>1 DEF Here, Begun
<1>8. \A t \in Workers : \A b \in Barriers : Owes(t, b)' => Owes(t, b)
  BY <1>1, <1>2 DEF Owes
<1>9. CallInv'
  BY <1>1, <1>2, <1>6 DEF WakeupInv, CallInv
<1>10. AsideInv'
  <2>1. \A b \in aside : b \in Barriers
    BY DEF WakeupInv, TypeOK
  <2>2. QED
    BY <1>1, <1>8, <2>1 DEF WakeupInv, AsideInv
<1>11. CountInv'
  BY <1>1, <1>2, <1>6, <1>7 DEF WakeupInv, CountInv
<1>12. PlacesInv'
  <2>1. \A t \in Workers : Owes(t, current)' => Owes(t, current)
    BY <1>1, <1>8, HostsBarrier
  <2>2. \A q \in Parties : Inside(q, current)' => Inside(q, current) /\ q # p
    BY <1>1, <1>2 DEF Inside
  <2>3. \A t \in Workers : Owes(t, current)' =>
           at'[Host] \notin {"idle", "recover"} /\ t \in Unflagged(flagged)' /\ t \notin todo' /\ t \notin Here'
    BY <1>1, <1>2, <1>6, <1>7, <2>1 DEF WakeupInv, PlacesInv, Unflagged
  <2>4. \A q \in Parties :
           /\ Inside(q, current)' => q \in Here'
           /\ Inside(q, current)' /\ at'[q] = "exit" =>
                bars[current]'.left = 0 \/ bars[current]'.timeout
           /\ q \in bars[current]'.native <=> at'[q] = "native" /\ mine'[q] = current'
    BY <1>1, <1>2, <1>7, <2>2 DEF WakeupInv, PlacesInv
  <2>5. bars[current]'.native # {} => bars[current]'.left = 0
    BY <1>7 DEF WakeupInv, PlacesInv
  <2>6. at'[Host] \in {"leave", "judge"} /\ ~bars[current]'.timeout =>
           bars[current]'.left = 0 /\ \A q \in Parties : ~Inside(q, current)'
    BY <1>2, <1>6, <1>7, <2>2 DEF WakeupInv, PlacesInv
  <2>7. QED
    BY <2>3, <2>4, <2>5, <2>6 DEF PlacesInv
<1>13. QED
  BY <1>3, <1>4, <1>5, <1>9, <1>10, <1>11, <1>12 DEF WakeupInv

(* Who goes into the POSIX barrier has come to the list's barrier with all *)
(* the others.                                                             *)
LEMMA ExitNativeKind ==
  ASSUME WakeupInv, NEW p \in Parties, ExitBarrier(p), bars[mine[p]].waitAt
  PROVE  /\ at[p] = "exit" /\ mine[p] = current /\ p \in Here
         /\ Begun /\ bars[current].left = 0 /\ ~bars[current].timeout
         /\ Here = Unflagged(flagged) \cup {Host}
         /\ bars[current].native \cup {p} \subseteq Here
<1> USE PartyKinds
<1>1. at[p] = "exit"
  BY DEF ExitBarrier
<1>2. mine[p] = current
  BY <1>1, HostsBarrier DEF WakeupInv, UsedInv
<1>3. p \in Here
  BY <1>1, <1>2 DEF WakeupInv, PlacesInv, Inside
<1>4. Begun
  BY <1>3 DEF Here
<1>5. bars[current].left = 0 /\ ~bars[current].timeout
  BY <1>2, <1>4 DEF WakeupInv, CountInv
<1>6. Here = Unflagged(flagged) \cup {Host}
  <2>1. at[Host] # "recover"
    BY <1>1, <1>2, <1>4 DEF WakeupInv, CountInv, Begun, HostCame
  <2>2. QED
    BY <1>4, <1>5, <2>1, HereCounted DEF WakeupInv
<1>7. bars[current].native \cup {p} \subseteq Here
  <2>1. bars[current].native \subseteq Parties
    <3>1. TypeOK
      BY DEF WakeupInv
    <3>2. QED
      BY <3>1, CurrentFields, BarrierFields
  <2>2. \A q \in bars[current].native : q \in Here
    BY <2>1 DEF WakeupInv, PlacesInv, Inside
  <2>3. QED
    BY <1>3, <2>2
<1>8. QED
  BY <1>1, <1>2, <1>3, <1>4, <1>5, <1>6, <1>7

(* Such a step changes no more than the barrier's POSIX barrier and where  *)
(* the parties inside it are.                                              *)
LEMMA NativeStep ==
  ASSUME WakeupInv, NEW p \in Parties, ExitBarrier(p), bars[mine[p]].waitAt,
         NEW in \in SUBSET Parties, bars' = [bars EXCEPT ![current].native = in],
         at' \in [Parties -> Places],
         \A q \in Parties : \/ at'[q] = at[q]
                            \/ at[q] \in {"exit", "native"} /\ at'[q] \in {"native", "leave"},
         \A q \in Parties : q \in in <=> at'[q] = "native" /\ mine[q] = current,
         at'[Host] = "leave" => \A q \in Parties : Inside(q, current) => at'[q] = "leave",
         at[Host] \notin {"leave", "judge"}
  PROVE  WakeupInv'
<1> USE PartyKinds
<1>1. UNCHANGED <<pending, waiting, barrier, mine, flagged, created, current, badBars, aside,
                  todo, expected, recovered>>
  BY DEF ExitBarrier, thread, list
<1>2. /\ at[p] = "exit" /\ mine[p] = current /\ p \in Here
      /\ Begun /\ bars[current].left = 0 /\ ~bars[current].timeout
  BY ExitNativeKind
<1>3. TypeOK /\ current \in Barriers
  BY DEF WakeupInv, TypeOK
<1>4. /\ bars' \in [Barriers -> BarrierRecords]
      /\ \A c \in Barriers : c # current => bars'[c] = bars[c]
      /\ bars'[current].count = bars[current].count /\ bars'[current].native = in
      /\ bars'[current].left = bars[current].left
      /\ bars'[current].passed = bars[current].passed
      /\ bars'[current].timeout = bars[current].timeout
      /\ bars'[current].waitAt = bars[current].waitAt
  <2> PICK b \in Barriers : b = current
    BY <1>3
  <2>1. TypeOK /\ bars' = [bars EXCEPT ![b].native = in]
    BY <1>3
  <2>2. /\ bars' \in [Barriers -> BarrierRecords]
        /\ \A c \in Barriers : c # b => bars'[c] = bars[c]
        /\ bars'[b].count = bars[b].count /\ bars'[b].native = in
        /\ bars'[b].left = bars[b].left /\ bars'[b].passed = bars[b].passed
        /\ bars'[b].timeout = bars[b].timeout /\ bars'[b].waitAt = bars[b].waitAt
    BY <2>1, NativeEffect, Zenon
  <2>3. QED
    BY <2>2
<1>5. /\ ~bars'[current].timeout /\ (bars'[current].waitAt <=> bars[current].waitAt)
  BY <1>2, <1>4, Zenon
<1>6. TypeOK'
  BY <1>1, <1>4, Zenon DEF WakeupInv, TypeOK
<1>7. SleepInv'
  <2>1. \A t \in Workers : at[t] \in {"exit", "native"} => ~waiting[t]
    BY DEF WakeupInv, SleepInv
  <2>2. QED
    BY <1>1, <2>1 DEF WakeupInv, SleepInv
<1>8. HostCame /\ HostCame'
  <2>1. Host \in Here
    BY ExitNativeKind
  <2>2. QED
    BY <2>1 DEF WakeupInv, CountInv, HostCame
<1>9. Begun' /\ Here' = Here
  BY <1>1, <1>2, <1>4, <1>8 DEF Begun, Here
<1>10. CallInv'
  <2>1. todo = {}
    BY <1>8 DEF WakeupInv, CallInv, HostCame
  <2>2. /\ at[Host] \notin {"idle", "recover"}
        /\ at'[Host] \notin {"rest", "loop", "after", "take", "idle", "recover"}
    BY <1>8 DEF HostCame
  <2>3. QED
    BY <1>1, <1>4, <2>1, <2>2 DEF WakeupInv, CallInv, Unflagged
<1>11. \A t \in Workers : \A b \in Barriers : Owes(t, b)' => Owes(t, b)
  BY <1>1 DEF Owes
<1>12. AsideInv'
  <2>1. \A b \in aside : b \in Barriers /\ bars'[b] = bars[b]
    BY <1>4 DEF WakeupInv, TypeOK, AsideInv
  <2>2. QED
    BY <1>1, <1>11, <2>1 DEF WakeupInv, AsideInv
<1>13. CountInv'
  <2>1. at'[Host] \notin {"idle", "recover"}
    BY <1>8 DEF HostCame
  <2>2. /\ Here' \subseteq Unflagged(flagged') \cup {Host} /\ Here' \cap todo' = {}
        /\ Host \in Here' <=> HostCame'
    BY <1>1, <1>8, <1>9 DEF WakeupInv, CountInv, Unflagged
  <2>3. /\ bars'[current'].left = bars'[current'].count - Cardinality(Here')
        /\ bars'[current'].waitAt <=> bars'[current'].left = 0 /\ ~bars'[current'].timeout
    BY <1>1, <1>2, <1>4, <1>5, <1>9 DEF WakeupInv, CountInv
  <2>4. QED
    BY <1>1, <1>5, <2>1, <2>2, <2>3 DEF CountInv
<1>14. PlacesInv'
  <2>1. \A t \in Workers : Owes(t, current)' =>
           at'[Host] \notin {"idle", "recover"} /\ t \in Unflagged(flagged)' /\ t \notin todo' /\ t \notin Here'
    <3>1. \A t \in Workers : Owes(t, current)' => Owes(t, current)
      BY <1>1, <1>3, <1>11
    <3>2. at'[Host] \notin {"idle", "recover"}
      BY <1>8 DEF HostCame
    <3>3. QED
      BY <1>1, <1>9, <3>1, <3>2 DEF WakeupInv, PlacesInv, Unflagged
  <2>2. \A q \in Parties : Inside(q, current)' => Inside(q, current)
    BY <1>1 DEF Inside
  <2>3. \A q \in Parties : Inside(q, current)' => q \in Here'
    BY <1>9, <2>2 DEF WakeupInv, PlacesInv
  <2>4. bars'[current'].left = 0
    BY <1>1, <1>2, <1>4
  <2>5. \A q \in Parties : q \in bars'[current'].native <=> at'[q] = "native" /\ mine'[q] = current'
    BY <1>1, <1>4
  <2>6. at'[Host] \in {"leave", "judge"} => \A q \in Parties : ~Inside(q, current)'
    <3> SUFFICES ASSUME at'[Host] \in {"leave", "judge"}, NEW q \in Parties, Inside(q, current)'
                 PROVE  FALSE
      OBVIOUS
    <3>1. at'[Host] = "leave"
      OBVIOUS
    <3>2. at'[q] = "leave"
      BY <2>2, <3>1
    <3>3. QED
      BY <3>2 DEF Inside
  <2>7. QED
    BY <2>1, <2>3, <2>4, <2>5, <2>6 DEF PlacesInv
<1>15. UsedInv'
  <2>1. \A t \in Workers : at'[t] \in {"blocked", "exit", "native", "leave"} =>
          at[t] \in {"blocked", "exit", "native", "leave"}
    OBVIOUS
  <2>2. \A t \in Workers : at'[t] \in {"blocked", "exit", "native"} =>
          at[t] \in {"blocked", "exit", "native"}
    OBVIOUS
  <2>3. \A t \in Workers : at'[t] = "enter" => at[t] = "enter"
    OBVIOUS
  <2>4. QED
    BY <1>1, <1>4, <2>1, <2>2, <2>3 DEF WakeupInv, UsedInv
<1>16. QED
  BY <1>6, <1>7, <1>10, <1>12, <1>13, <1>14, <1>15 DEF WakeupInv

LEMMA ExitStep ==
  ASSUME WakeupInv, NEW p \in Parties, ExitBarrier(p)
  PROVE  WakeupInv'
<1> USE PartyKinds
<1>1. CASE ~bars[mine[p]].waitAt
  BY <1>1, ExitOnlyStep
<1>2. CASE bars[mine[p]].waitAt
  <2> DEFINE in == bars[current].native \cup {p}
  <2>1. /\ at[p] = "exit" /\ mine[p] = current /\ p \in Here
        /\ Begun /\ bars[current].left = 0 /\ ~bars[current].timeout
        /\ Here = Unflagged(flagged) \cup {Host}
        /\ in \subseteq Here
    BY <1>2, ExitNativeKind
  <2>2. /\ in \subseteq Parties /\ TypeOK /\ at \in [Parties -> Places]
        /\ \A q \in Parties : q \in bars[current].native <=> at[q] = "native" /\ mine[q] = current
    <3>1. Here \subseteq Parties
      BY <2>1 DEF Unflagged
    <3>2. QED
      BY <2>1, <3>1 DEF WakeupInv, TypeOK, PlacesInv
  <2>3. at[Host] \notin {"leave", "judge"}
    <3>1. Inside(p, current)
      BY <2>1 DEF Inside
    <3>2. QED
      BY <2>1, <3>1 DEF WakeupInv, PlacesInv
  <2>4. CASE Cardinality(in) < bars[current].count
    <3>1. Goto(p, "native") /\ bars' = [bars EXCEPT ![current].native = in]
      BY <1>2, <2>1, <2>4 DEF ExitBarrier
    <3>2. /\ at' \in [Parties -> Places] /\ at'[p] = "native"
          /\ \A q \in Parties : q # p => at'[q] = at[q]
      BY <2>2, <3>1, GotoAt DEF Places
    <3>3. \A q \in Parties : q \in in <=> at'[q] = "native" /\ mine[q] = current
      BY <2>1, <2>2, <3>2
    <3>4. at'[Host] # "leave"
      BY <2>3, <3>2
    <3> HIDE DEF in
    <3>5. QED
      BY <1>2, <2>1, <2>2, <2>3, <3>1, <3>2, <3>3, <3>4, NativeStep
  <2>5. CASE ~(Cardinality(in) < bars[current].count)
    <3>1. /\ at' = [q \in Parties |-> IF q \in in THEN "leave" ELSE at[q]]
          /\ bars' = [bars EXCEPT ![current].native = {}]
      BY <1>2, <2>1, <2>5 DEF ExitBarrier
    <3>2. in = Here
      <4>1. flagged \in SUBSET Workers /\ in \in SUBSET (Unflagged(flagged) \cup {Host})
        BY <2>1, <2>2 DEF TypeOK
      <4>2. bars[current].count = Cardinality(Unflagged(flagged)) + 1
        <5>1. at[Host] # "recover"
          BY <2>1 DEF WakeupInv, CountInv, HostCame
        <5>2. QED
          BY <5>1 DEF WakeupInv, CallInv
      <4>3. /\ Cardinality(in) \in Nat /\ bars[current].count \in Nat
            /\ Cardinality(in) <= Cardinality(Unflagged(flagged)) + 1
            /\ Cardinality(in) = Cardinality(Unflagged(flagged)) + 1 =>
                 in = Unflagged(flagged) \cup {Host}
        BY <2>2, <4>1, AllCame, CurrentFields
      <4> HIDE DEF in
      <4>4. QED
        BY <2>1, <2>5, <4>2, <4>3
    <3>3. at' \in [Parties -> Places]
      BY <2>2, <3>1 DEF Places
    <3>4. \A q \in Parties : at'[q] = IF q \in in THEN "leave" ELSE at[q]
      BY <3>1
    <3>5. \A q \in Parties : \/ at'[q] = at[q]
                             \/ at[q] \in {"exit", "native"} /\ at'[q] \in {"native", "leave"}
      BY <2>1, <2>2, <3>4
    <3>6. \A q \in Parties : q \in {} <=> at'[q] = "native" /\ mine[q] = current
      BY <2>2, <3>4
    <3>7. \A q \in Parties : Inside(q, current) => at'[q] = "leave"
      BY <3>2, <3>4 DEF WakeupInv, PlacesInv
    <3> HIDE DEF in
    <3> PICK none \in SUBSET Parties : none = {}
      OBVIOUS
    <3>8. /\ bars' = [bars EXCEPT ![current].native = none]
          /\ \A q \in Parties : q \in none <=> at'[q] = "native" /\ mine[q] = current
      BY <3>1, <3>6
    <3>9. QED
      BY <1>2, <2>3, <3>3, <3>5, <3>7, <3>8, NativeStep
  <2>6. QED
    BY <2>4, <2>5
<1>3. QED
  BY <1>1, <1>2

-----------------------------------------------------------------------------
(* The list: ThreadList::wakeup_and_wait, wakeup_unlocked, try_recover     *)

(* Between two calls nobody has to do with the list's barrier.             *)
LEMMA HostIdle ==
  ASSUME WakeupInv, at[Host] \in {"idle", "recover"}
  PROVE  /\ bars[current].left = 0 /\ ~bars[current].timeout
         /\ ~Begun /\ ~HostCame /\ Here = {}
         /\ at[Host] = "idle" => todo = {} /\ recovered = {}
         /\ \A t \in Workers : ~Owes(t, current)
         /\ \A p \in Parties : ~Inside(p, current)
<1>1. bars[current].left = 0 /\ ~bars[current].timeout
  BY DEF WakeupInv, CountInv
<1>2. ~Begun /\ ~HostCame
  BY <1>1 DEF Begun, HostCame
<1>3. Here = {}
  BY <1>2 DEF Here
<1>4. at[Host] = "idle" => todo = {} /\ recovered = {}
  BY DEF WakeupInv, CallInv
<1>5. QED
  BY <1>1, <1>2, <1>3, <1>4 DEF WakeupInv, PlacesInv

(* A step between two calls that leaves the barriers and the threads alone *)
(* keeps what is said of the list's barrier.                               *)
LEMMA BetweenCalls ==
  ASSUME WakeupInv, at[Host] \in {"idle", "recover"}, at'[Host] \in {"idle", "recover"},
         UNCHANGED <<bars, current, barrier>>,
         \A t \in Workers : at'[t] = at[t] /\ mine'[t] = mine[t]
  PROVE  CountInv' /\ PlacesInv'
<1> USE PartyKinds
<1>1. bars'[current'].left = 0 /\ ~bars'[current'].timeout /\ ~HostCame' /\ ~Begun' /\ Here' = {}
  <2>1. bars'[current'].left = 0 /\ ~bars'[current'].timeout /\ ~HostCame'
    BY HostIdle DEF HostCame
  <2>2. ~Begun'
    BY <2>1 DEF Begun
  <2>3. QED
    BY <2>1, <2>2 DEF Here
<1>2. CountInv'
  BY <1>1 DEF CountInv
<1>3. \A t \in Workers : ~Owes(t, current)'
  BY HostIdle DEF Owes
<1>4. \A p \in Parties : ~Inside(p, current)'
  BY HostIdle DEF Inside
<1>5. \A p \in Parties : p \in bars'[current'].native <=> at'[p] = "native" /\ mine'[p] = current'
  BY DEF WakeupInv, PlacesInv
<1>6. PlacesInv'
  BY <1>1, <1>3, <1>4, <1>5 DEF PlacesInv
<1>7. QED
  BY <1>2, <1>6

(* A call that ends without a timeout leaves nobody behind.                *)
LEMMA AllIn ==
  ASSUME WakeupInv, at[Host] = "judge", ~bars[current].timeout
  PROVE  /\ bars[current].left = 0 /\ Here = Unflagged(flagged) \cup {Host}
         /\ Here = bars[current].passed
         /\ \A t \in Workers : ~Owes(t, current)
         /\ \A p \in Parties : ~Inside(p, current)
<1>1. bars[current].left = 0 /\ \A p \in Parties : ~Inside(p, current)
  BY DEF WakeupInv, PlacesInv
<1>2. Begun
  BY DEF Begun, HostCame
<1>3. Here = Unflagged(flagged) \cup {Host} /\ Here = bars[current].passed
  BY <1>1, <1>2, HereCounted DEF WakeupInv, Here
<1>4. \A t \in Workers : ~Owes(t, current)
  BY <1>3 DEF WakeupInv, PlacesInv
<1>5. QED
  BY <1>1, <1>3, <1>4

LEMMA WakeupAndWaitStep ==
  ASSUME WakeupInv, WakeupAndWait
  PROVE  WakeupInv'
<1> USE PartyKinds
<1>1. /\ at[Host] = "idle" /\ created < MaxBarriers
      /\ todo' = Unflagged(flagged) /\ expected' = Unflagged(flagged)
      /\ mine' = [mine EXCEPT ![Host] = current] /\ Goto(Host, "wake")
      /\ UNCHANGED <<pending, waiting, barrier, flagged, bars, created, current, badBars, aside,
                     recovered>>
  BY DEF WakeupAndWait, thread, CanRenew
<1>2. /\ at' \in [Parties -> Places] /\ at'[Host] = "wake"
      /\ \A q \in Parties : q # Host => at'[q] = at[q]
  BY <1>1, GotoAt DEF WakeupInv, Places
<1>3. /\ mine' \in [Parties -> Barriers \cup {NoBarrier}] /\ mine'[Host] = current
      /\ \A q \in Parties : q # Host => mine'[q] = mine[q]
  BY <1>1 DEF WakeupInv, TypeOK
<1>4. todo' \subseteq Workers /\ expected' \subseteq Workers
  BY <1>1 DEF Unflagged
<1>5. TypeOK'
  BY <1>1, <1>2, <1>3, <1>4, Zenon DEF WakeupInv, TypeOK
<1>6. SleepInv'
  BY <1>1, <1>2 DEF WakeupInv, SleepInv
<1>7. CallInv'
  BY <1>1, <1>2, <1>3 DEF WakeupInv, CallInv, Unflagged
<1>8. /\ \A t \in Workers : \A b \in Barriers : Owes(t, b)' => Owes(t, b)
      /\ \A t \in Workers : at'[t] = at[t] /\ mine'[t] = mine[t]
  BY <1>1, <1>2, <1>3 DEF Owes
<1>9. AsideInv'
  <2>1. \A b \in aside : b \in Barriers
    BY DEF WakeupInv, TypeOK
  <2>2. QED
    BY <1>1, <1>8, <2>1 DEF WakeupInv, AsideInv
<1>10. bars'[current'].left = 0 /\ ~bars'[current'].timeout /\ ~HostCame' /\ ~Begun' /\ Here' = {}
  <2>1. bars'[current'].left = 0 /\ ~bars'[current'].timeout /\ ~HostCame'
    BY <1>1, <1>2, HostIdle DEF HostCame
  <2>2. ~Begun'
    BY <2>1 DEF Begun
  <2>3. QED
    BY <2>1, <2>2 DEF Here
<1>11. CountInv'
  BY <1>2, <1>10 DEF CountInv
<1>12. PlacesInv'
  <2>1. current \in Barriers
    BY HostsBarrier
  <2>2. \A t \in Workers : ~Owes(t, current)'
    BY <1>1, <1>8, <2>1, HostIdle
  <2>3. \A q \in Parties : ~Inside(q, current)'
    BY <1>1, <1>2, <1>8, HostIdle DEF Inside
  <2>4. \A q \in Parties : q \notin bars'[current'].native
    BY <1>1, HostIdle DEF WakeupInv, PlacesInv, Inside
  <2>5. bars'[current'].native = {}
    <3>1. bars[current].native \subseteq Parties
      <4>1. TypeOK
        BY DEF WakeupInv
      <4>2. QED
        BY <4>1, CurrentFields, BarrierFields
    <3>2. QED
      BY <1>1, <2>4, <3>1
  <2>6. QED
    BY <1>2, <2>2, <2>3, <2>4, <2>5 DEF PlacesInv, Inside
<1>13. UsedInv'
  BY <1>1, <1>8 DEF WakeupInv, UsedInv
<1>14. QED
  BY <1>5, <1>6, <1>7, <1>9, <1>11, <1>12, <1>13 DEF WakeupInv

LEMMA WakeupWithBarrierStep ==
  ASSUME WakeupInv, NEW t \in Workers, WakeupWithBarrier(t)
  PROVE  WakeupInv'
<1> USE PartyKinds
<1>1. /\ at[Host] = "wake" /\ t \in todo /\ todo' = todo \ {t}
      /\ UNCHANGED <<at, mine, flagged, bars, created, current, badBars, aside, recovered>>
      /\ mine[Host] = current /\ current \in Barriers
      /\ t \in Unflagged(flagged) /\ t \notin flagged
  <2>1. /\ at[Host] = "wake" /\ t \in todo /\ todo' = todo \ {t}
        /\ UNCHANGED <<at, mine, flagged, bars, created, current, badBars, aside, recovered>>
    BY DEF WakeupWithBarrier
  <2>2. t \in Unflagged(flagged)
    BY <2>1 DEF WakeupInv, CallInv
  <2>3. QED
    BY <2>1, <2>2, HostsBarrier DEF Unflagged
<1>2. ~Owes(t, current) /\ \A b \in aside : ~Owes(t, b)
  <2>1. ~Owes(t, current)
    BY <1>1 DEF WakeupInv, PlacesInv
  <2>2. \A b \in aside : ~Owes(t, b)
    BY <1>1 DEF WakeupInv, AsideInv
  <2>3. QED
    BY <2>1, <2>2
<1>3. barrier[t] = NoBarrier
  BY <1>2 DEF WakeupInv, UsedInv, Owes
<1>4. /\ pending' = [pending EXCEPT ![t] = pending[t] + 1]
      /\ barrier' = [barrier EXCEPT ![t] = current]
      /\ waiting' = [waiting EXCEPT ![t] = FALSE] /\ UNCHANGED expected
  BY <1>1, <1>3 DEF WakeupWithBarrier
<1>5. /\ pending' \in [Workers -> Nat] /\ pending'[t] > 0
      /\ \A u \in Workers : u # t => pending'[u] = pending[u]
      /\ barrier' \in [Workers -> Barriers \cup {NoBarrier}] /\ barrier'[t] = current
      /\ \A u \in Workers : u # t => barrier'[u] = barrier[u]
  BY <1>1, <1>4 DEF WakeupInv, TypeOK
<1>6. /\ waiting' \in [Workers -> BOOLEAN] /\ ~waiting'[t]
      /\ \A u \in Workers : u # t => (waiting'[u] <=> waiting[u])
  BY <1>4, Zenon DEF WakeupInv, TypeOK
<1>7. todo' \subseteq Workers
  BY <1>1 DEF WakeupInv, TypeOK
<1>8. TypeOK'
  BY <1>1, <1>4, <1>5, <1>6, <1>7, Zenon DEF WakeupInv, TypeOK
<1>9. SleepInv'
  <2>1. NoBarrier # current
    BY <1>1 DEF Barriers
  <2>2. \A u \in Workers : u # t =>
          /\ at'[u] \notin {"idle", "wake", "judge", "recover"}
          /\ waiting'[u] => at'[u] = "rest" /\ pending'[u] = 0 /\ barrier'[u] = NoBarrier
          /\ barrier'[u] # NoBarrier => pending'[u] > 0 \/ at'[u] \in {"loop", "after", "take"}
          /\ at'[u] = "take" => barrier'[u] # NoBarrier
    BY <1>1, <1>5, <1>6 DEF WakeupInv, SleepInv
  <2>3. at[t] \notin {"idle", "wake", "judge", "recover"}
    BY DEF WakeupInv, SleepInv
  <2>4. QED
    BY <1>1, <1>5, <1>6, <2>1, <2>2, <2>3 DEF SleepInv
<1>10. CallInv'
  BY <1>1, <1>4 DEF WakeupInv, CallInv
<1>11. \A u \in Workers : \A b \in Barriers : Owes(u, b)' => Owes(u, b) \/ (u = t /\ b = current)
  BY <1>1, <1>5 DEF Owes
<1>12. AsideInv'
  <2>1. \A b \in aside : b \in Barriers /\ b # current
    BY DEF WakeupInv, TypeOK, AsideInv
  <2>2. QED
    BY <1>1, <1>11, <2>1 DEF WakeupInv, AsideInv
<1>13. Here' = Here /\ (HostCame' <=> HostCame) /\ (Begun' <=> Begun)
  BY <1>1 DEF Here, HostCame, Begun
<1>14. CountInv'
  BY <1>1, <1>13 DEF WakeupInv, CountInv
<1>15. PlacesInv'
  <2>1. t \notin Here
    BY <1>1 DEF WakeupInv, CountInv
  <2>2. \A u \in Workers : Owes(u, current)' =>
           at'[Host] \notin {"idle", "recover"} /\ u \in Unflagged(flagged)' /\ u \notin todo' /\ u \notin Here'
    BY <1>1, <1>11, <1>13, <2>1 DEF WakeupInv, PlacesInv, Unflagged
  <2>3. \A q \in Parties : Inside(q, current)' <=> Inside(q, current)
    BY <1>1 DEF Inside
  <2>4. QED
    BY <1>1, <1>13, <2>2, <2>3 DEF WakeupInv, PlacesInv
<1>16. UsedInv'
  <2>1. at[t] = "enter" => mine[t] # current
    BY <1>2 DEF Owes
  <2>2. QED
    BY <1>1, <1>5, <2>1 DEF WakeupInv, UsedInv
<1>17. QED
  BY <1>8, <1>9, <1>10, <1>12, <1>14, <1>15, <1>16 DEF WakeupInv

LEMMA WaitForAllStep ==
  ASSUME WakeupInv, WaitForAll
  PROVE  WakeupInv'
<1> USE PartyKinds
<1>1. /\ at[Host] = "wake" /\ todo = {} /\ Goto(Host, "enter")
      /\ UNCHANGED <<pending, waiting, barrier, mine, bars, flagged, created, current,
                     badBars, aside, todo, expected, recovered>>
  <2>1. /\ at[Host] = "wake" /\ todo = {} /\ UNCHANGED <<thread, mine, bars, list>>
    BY DEF WaitForAll
  <2>2. mine[Host] = current
    BY <2>1, HostsBarrier
  <2>3. bars[current].count = Cardinality(Unflagged(flagged)) + 1 /\ expected = Unflagged(flagged)
    BY <2>1 DEF WakeupInv, CallInv
  <2>4. Goto(Host, "enter")
    BY <2>2, <2>3 DEF WaitForAll
  <2>5. QED
    BY <2>1, <2>4 DEF thread, list
<1>2. /\ at' \in [Parties -> Places] /\ at'[Host] = "enter"
      /\ \A q \in Parties : q # Host => at'[q] = at[q]
  BY <1>1, GotoAt DEF WakeupInv, Places
<1>3. TypeOK'
  BY <1>1, <1>2, Zenon DEF WakeupInv, TypeOK
<1>4. SleepInv'
  BY <1>1, <1>2 DEF WakeupInv, SleepInv
<1>5. CallInv'
  BY <1>1, <1>2 DEF WakeupInv, CallInv
<1>6. \A t \in Workers : \A b \in Barriers : Owes(t, b)' => Owes(t, b)
  BY <1>1, <1>2 DEF Owes
<1>7. AsideInv'
  <2>1. \A b \in aside : b \in Barriers
    BY DEF WakeupInv, TypeOK
  <2>2. QED
    BY <1>1, <1>6, <2>1 DEF WakeupInv, AsideInv
<1>8. Here' = Here /\ (HostCame' <=> HostCame) /\ (Begun' <=> Begun)
  <2>1. HostCame' <=> HostCame
    BY <1>1, <1>2 DEF HostCame
  <2>2. QED
    BY <1>1, <2>1 DEF Here, Begun
<1>9. CountInv'
  BY <1>1, <1>2, <1>8 DEF WakeupInv, CountInv
<1>10. PlacesInv'
  <2>1. \A t \in Workers : Owes(t, current)' =>
           at'[Host] \notin {"idle", "recover"} /\ t \in Unflagged(flagged)' /\ t \notin todo' /\ t \notin Here'
    <3>1. \A t \in Workers : Owes(t, current)' => Owes(t, current)
      BY <1>1, <1>6, HostsBarrier
    <3>2. QED
      BY <1>1, <1>2, <1>8, <3>1 DEF WakeupInv, PlacesInv, Unflagged
  <2>2. \A q \in Parties : Inside(q, current)' <=> Inside(q, current)
    BY <1>1, <1>2 DEF Inside
  <2>3. QED
    BY <1>1, <1>2, <1>8, <2>1, <2>2 DEF WakeupInv, PlacesInv
<1>11. UsedInv'
  BY <1>1, <1>2 DEF WakeupInv, UsedInv
<1>12. QED
  BY <1>3, <1>4, <1>5, <1>7, <1>9, <1>10, <1>11 DEF WakeupInv

(* Renewing the list's barrier when a call or try_recover() ends keeps the *)
(* invariant, if the old one and the ones put aside do.                    *)
LEMMA RenewStep ==
  ASSUME WakeupInv, created < MaxBarriers, NEW f \in SUBSET Workers, UpdateBarrier(f),
         flagged' = f, at'[Host] = "idle", \A t \in Workers : at'[t] = at[t],
         UNCHANGED <<barrier, mine>>, todo' = {}, recovered' = {},
         badBars' \in [Barriers -> SUBSET Workers], aside' \subseteq aside \cup {current},
         f \subseteq UNION {badBars'[b] : b \in aside'},
         \A b \in aside' : bars[b].timeout /\ ~bars[b].waitAt,
         \A b \in aside' : \A t \in Workers :
            Owes(t, b) => t \in badBars'[b] /\ t \in f /\ bars[b].left > 0,
         \A b \in aside \cup {current} : \A t \in Workers : Owes(t, b) => b \in aside',
         \A t \in Workers : Inside(t, current) => bars[current].timeout /\ ~bars[current].waitAt
  PROVE  CallInv' /\ AsideInv' /\ CountInv' /\ PlacesInv' /\ UsedInv'
<1> USE PartyKinds
<1> DEFINE c == created + 1
<1>1. TypeOK /\ created = current /\ current \in Barriers
  BY HostsBarrier DEF WakeupInv
<1>2. /\ created' = c /\ current' = c /\ c \in Barriers
      /\ bars' \in [Barriers -> BarrierRecords]
      /\ \A b \in Barriers : b # c => bars'[b] = bars[b]
      /\ bars'[c].count = Cardinality(Unflagged(f)) + 1
      /\ bars'[c].left = 0 /\ bars'[c].native = {}
      /\ ~bars'[c].timeout /\ ~bars'[c].waitAt
  BY <1>1, RenewEffect
<1>3. created \in Int /\ c \in Int /\ created < c
  BY <1>1 DEF Barriers
<1> HIDE DEF c
<1>4. \A b \in aside \cup {current} : b \in Barriers /\ b # c /\ b < c
  <2>1. \A b \in aside : b \in Barriers /\ b < created
    BY <1>1 DEF WakeupInv, TypeOK, AsideInv
  <2>2. QED
    BY <1>1, <1>3, <2>1 DEF Barriers
<1>5. ~HostCame' /\ ~Begun' /\ Here' = {}
  <2>1. ~HostCame'
    BY DEF HostCame
  <2>2. ~Begun'
    BY <1>2, <2>1 DEF Begun
  <2>3. QED
    BY <2>1, <2>2 DEF Here
<1>6. \A t \in Workers : \A b \in Barriers : Owes(t, b)' <=> Owes(t, b)
  BY DEF Owes
<1>7. CallInv'
  BY <1>2 DEF CallInv
<1>8. AsideInv'
  <2>1. current' \notin aside' /\ flagged' \subseteq UNION {badBars'[b] : b \in aside'}
    BY <1>2, <1>4
  <2>2. \A b \in aside' : b \in Barriers /\ b < created' /\ bars'[b] = bars[b]
    BY <1>2, <1>4
  <2>3. \A b \in aside' : b < created' /\ bars'[b].timeout /\ ~bars'[b].waitAt
    BY <2>2
  <2>4. \A b \in aside' : \A t \in Workers : Owes(t, b)' =>
           t \in badBars'[b] /\ t \in flagged' /\ bars'[b].left > 0
    BY <1>6, <2>2
  <2>5. QED
    BY <2>1, <2>3, <2>4 DEF AsideInv
<1>9. CountInv'
  BY <1>2, <1>5 DEF CountInv
<1>10. \A t \in Workers : barrier[t] # c /\ (at[t] \in {"enter", "blocked", "exit", "native", "leave"}
                                                => mine[t] # c)
  <2>1. c # NoBarrier
    BY <1>2 DEF Barriers
  <2>2. \A t \in Workers : barrier[t] # c
    BY <1>4, <2>1 DEF WakeupInv, UsedInv
  <2>3. \A t \in Workers : at[t] = "enter" => mine[t] # c
    BY <1>4 DEF WakeupInv, UsedInv
  <2>4. \A t \in Workers : at[t] \in {"blocked", "exit", "native", "leave"} => mine[t] # c
    BY <1>3 DEF WakeupInv, UsedInv, Barriers
  <2>5. QED
    BY <2>2, <2>3, <2>4
<1>11. PlacesInv'
  <2>1. \A t \in Workers : ~Owes(t, current)'
    BY <1>2, <1>10 DEF Owes
  <2>2. \A p \in Parties : ~Inside(p, current)'
    BY <1>2, <1>10 DEF Inside
  <2>3. \A p \in Parties : ~(at'[p] = "native" /\ mine'[p] = current')
    BY <2>2 DEF Inside
  <2>4. QED
    BY <1>2, <2>1, <2>2, <2>3 DEF PlacesInv
<1>12. UsedInv'
  <2>1. \A t \in Workers :
          /\ barrier[t] # NoBarrier => barrier[t] \in aside'
          /\ at[t] = "enter" => mine[t] \in aside' /\ barrier[t] # mine[t]
    BY DEF WakeupInv, UsedInv, Owes
  <2>2. \A t \in Workers : at[t] \in {"blocked", "exit", "native", "leave"} =>
          mine[t] \in Barriers /\ mine[t] <= c /\ bars'[mine[t]] = bars[mine[t]]
    BY <1>1, <1>2, <1>3, <1>10 DEF WakeupInv, UsedInv, Barriers
  <2>3. \A t \in Workers : at[t] \in {"blocked", "exit", "native"} =>
          bars[mine[t]].timeout /\ ~bars[mine[t]].waitAt
    BY DEF WakeupInv, UsedInv, Inside
  <2>4. QED
    BY <1>2, <2>1, <2>2, <2>3 DEF UsedInv
<1>13. QED
  BY <1>7, <1>8, <1>9, <1>11, <1>12

LEMMA JudgeTimeoutStep ==
  ASSUME WakeupInv, Judge, bars[current].timeout
  PROVE  WakeupInv'
<1> USE PartyKinds
<1> DEFINE late == Workers \ bars[current].passed
<1>1. /\ at[Host] = "judge" /\ mine[Host] = current /\ current \in Barriers
      /\ created < MaxBarriers /\ created = current
  <2>1. at[Host] = "judge"
    BY DEF Judge
  <2>2. QED
    BY <2>1, HostsBarrier DEF WakeupInv, CallInv
<1>2. /\ flagged' = flagged \cup late
      /\ badBars' = [badBars EXCEPT ![current] = late] /\ aside' = aside \cup {current}
      /\ UpdateBarrier(flagged')
      /\ Goto(Host, "idle") /\ expected' = {}
      /\ UNCHANGED <<pending, waiting, barrier, mine, todo, recovered>>
  BY <1>1 DEF Judge, thread
<1> PICK f \in SUBSET Workers : f = flagged \cup late
  BY DEF WakeupInv, TypeOK
<1>3. flagged' = f /\ UpdateBarrier(f)
  BY <1>2
<1>4. /\ at' \in [Parties -> Places] /\ at'[Host] = "idle"
      /\ \A q \in Parties : q # Host => at'[q] = at[q]
  BY <1>2, GotoAt DEF WakeupInv, Places
<1>5. /\ badBars' \in [Barriers -> SUBSET Workers] /\ badBars'[current] = late
      /\ \A b \in Barriers : b # current => badBars'[b] = badBars[b]
  BY <1>1, <1>2 DEF WakeupInv, TypeOK
<1>6. /\ aside \subseteq Barriers /\ current \notin aside
      /\ \A b \in aside : badBars'[b] = badBars[b]
  BY <1>5 DEF WakeupInv, TypeOK, AsideInv
<1>7. todo = {} /\ recovered = {}
  BY <1>1 DEF WakeupInv, CallInv
<1>8. Begun /\ Here = bars[current].passed
  BY <1>1 DEF Begun, HostCame, Here
<1>9. ~bars[current].waitAt
  BY <1>8 DEF WakeupInv, CountInv
<1>10. f \subseteq UNION {badBars'[b] : b \in aside'}
  <2>1. flagged \subseteq UNION {badBars[b] : b \in aside}
    BY DEF WakeupInv, AsideInv
  <2> HIDE DEF late
  <2>2. ASSUME NEW t \in f PROVE \E b \in aside' : t \in badBars'[b]
    <3>1. t \in late \/ \E b \in aside : t \in badBars[b]
      BY <1>2, <1>3, <2>1
    <3>2. QED
      BY <1>2, <1>5, <1>6, <3>1
  <2>3. QED
    BY <2>2
<1>11. \A t \in Workers : Owes(t, current) => t \in late /\ bars[current].left > 0
  <2> SUFFICES ASSUME NEW t \in Workers, Owes(t, current)
               PROVE  t \in late /\ bars[current].left > 0
    OBVIOUS
  <2>1. t \notin Here
    BY DEF WakeupInv, PlacesInv
  <2>2. t \in Unflagged(flagged)
    BY DEF WakeupInv, PlacesInv
  <2>3. bars[current].left \in Nat /\ bars[current].left # 0
    BY <1>1, <1>8, <2>1, <2>2, HereCounted, CurrentFields DEF WakeupInv
  <2>4. QED
    BY <1>8, <2>1, <2>3
<1>12. \A b \in aside' : \A t \in Workers :
          Owes(t, b) => t \in badBars'[b] /\ t \in f /\ bars[b].left > 0
  <2>1. \A b \in aside : \A t \in Workers :
          Owes(t, b) => t \in badBars'[b] /\ t \in flagged /\ bars[b].left > 0
    BY <1>6 DEF WakeupInv, AsideInv
  <2> HIDE DEF late
  <2>2. QED
    BY <1>2, <1>3, <1>5, <1>11, <2>1
<1>13. \A b \in aside' : bars[b].timeout /\ ~bars[b].waitAt
  BY <1>2, <1>9 DEF WakeupInv, AsideInv
<1>14. CallInv' /\ AsideInv' /\ CountInv' /\ PlacesInv' /\ UsedInv'
  <2> HIDE DEF late
  <2>1. \A t \in Workers : at'[t] = at[t]
    BY <1>4
  <2>2. aside' \subseteq aside \cup {current} /\ todo' = {} /\ recovered' = {}
        /\ UNCHANGED <<barrier, mine>>
    BY <1>2, <1>7
  <2>3. \A b \in aside \cup {current} : \A t \in Workers : Owes(t, b) => b \in aside'
    BY <1>2
  <2>4. QED
    BY <1>1, <1>3, <1>4, <1>5, <1>9, <1>10, <1>12, <1>13, <2>1, <2>2, <2>3, RenewStep
<1>15. TypeOK'
  <2>1. /\ created' \in Barriers /\ current' \in Barriers
        /\ bars' \in [Barriers -> BarrierRecords]
    BY <1>1, <1>3, RenewEffect DEF WakeupInv
  <2>2. /\ flagged' \subseteq Workers /\ todo' \subseteq Workers /\ expected' \subseteq Workers
        /\ aside' \subseteq Barriers /\ recovered' \subseteq Workers
    BY <1>1, <1>2, <1>3, <1>6, <1>7
  <2>3. QED
    BY <1>2, <1>4, <1>5, <2>1, <2>2, Zenon DEF WakeupInv, TypeOK
<1>16. SleepInv'
  BY <1>2, <1>4 DEF WakeupInv, SleepInv
<1>17. QED
  BY <1>14, <1>15, <1>16 DEF WakeupInv

LEMMA JudgeInTimeStep ==
  ASSUME WakeupInv, Judge, ~bars[current].timeout
  PROVE  WakeupInv'
<1> USE PartyKinds
<1>1. /\ at[Host] = "judge" /\ mine[Host] = current /\ current \in Barriers
  <2>1. at[Host] = "judge"
    BY DEF Judge
  <2>2. QED
    BY <2>1, HostsBarrier
<1>2. /\ Goto(Host, "idle") /\ expected' = {}
      /\ UNCHANGED <<pending, waiting, barrier, mine, todo, flagged, badBars, aside, bars,
                     created, current, recovered>>
  BY <1>1 DEF Judge, thread
<1>3. /\ at' \in [Parties -> Places] /\ at'[Host] = "idle"
      /\ \A q \in Parties : q # Host => at'[q] = at[q]
  BY <1>2, GotoAt DEF WakeupInv, Places
<1>4. /\ bars[current].left = 0
      /\ \A t \in Workers : ~Owes(t, current)
      /\ \A p \in Parties : ~Inside(p, current)
  BY <1>1, AllIn
<1>5. ~HostCame' /\ ~Begun' /\ Here' = {}
  <2>1. ~HostCame'
    BY <1>3 DEF HostCame
  <2>2. ~Begun'
    BY <1>2, <1>4, <2>1 DEF Begun
  <2>3. QED
    BY <2>1, <2>2 DEF Here
<1>6. expected' \subseteq Workers
  BY <1>2
<1>7. TypeOK'
  BY <1>2, <1>3, <1>6, Zenon DEF WakeupInv, TypeOK
<1>8. SleepInv'
  BY <1>2, <1>3 DEF WakeupInv, SleepInv
<1>9. CallInv'
  <2>1. todo = {} /\ recovered = {}
    BY <1>1 DEF WakeupInv, CallInv
  <2>2. QED
    BY <1>2, <1>3, <2>1 DEF WakeupInv, CallInv
<1>10. \A t \in Workers : \A b \in Barriers : Owes(t, b)' <=> Owes(t, b)
  BY <1>2, <1>3 DEF Owes
<1>11. AsideInv'
  <2>1. \A b \in aside : b \in Barriers
    BY DEF WakeupInv, TypeOK
  <2>2. QED
    BY <1>2, <1>10, <2>1 DEF WakeupInv, AsideInv
<1>12. CountInv'
  BY <1>2, <1>3, <1>4, <1>5 DEF WakeupInv, CountInv
<1>13. PlacesInv'
  <2>1. \A t \in Workers : ~Owes(t, current)'
    BY <1>1, <1>2, <1>4, <1>10
  <2>2. \A p \in Parties : ~Inside(p, current)'
    BY <1>2, <1>3, <1>4 DEF Inside
  <2>3. \A p \in Parties : p \in bars'[current'].native <=> at'[p] = "native" /\ mine'[p] = current'
    BY <1>1, <1>2, <1>3 DEF WakeupInv, PlacesInv
  <2>4. bars'[current'].native # {} => bars'[current'].left = 0
    BY <1>2, <1>4
  <2>5. QED
    BY <1>3, <2>1, <2>2, <2>3, <2>4 DEF PlacesInv
<1>14. UsedInv'
  BY <1>2, <1>3 DEF WakeupInv, UsedInv
<1>15. QED
  BY <1>7, <1>8, <1>9, <1>11, <1>12, <1>13, <1>14 DEF WakeupInv

(* Of some barriers one is the oldest.                                     *)
LEMMA LessThanWellFounded ==
  \E R : IsWellFoundedOn(R, Nat) /\ \A x, y \in Nat : x < y => <<x, y>> \in R
<1>1. \A x, y \in Nat : x < y => <<x, y>> \in OpToRel(<, Nat)
  BY DEF OpToRel
<1>2. QED
  BY <1>1, NatLessThanWellFounded

LEMMA OldestIn ==
  ASSUME NEW S \in SUBSET Barriers, S # {}
  PROVE  Oldest(S) \in S
<1>1. PICK R : IsWellFoundedOn(R, Nat) /\ \A x, y \in Nat : x < y => <<x, y>> \in R
  BY LessThanWellFounded
<1>2. IsWellFoundedOn(R, Nat)
  BY <1>1
<1>3. S \subseteq Nat
  BY DEF Barriers
<1>4. \E b \in S : \A c \in S : ~ (<<c, b>> \in R)
  BY <1>2, <1>3, WFMin
<1>5. PICK b \in S : \A c \in S : ~ (<<c, b>> \in R)
  BY <1>4
<1>6. \A c \in S : b \in Nat /\ c \in Nat /\ ~(c < b)
  BY <1>1, <1>3, <1>5
<1>7. \E m \in S : \A c \in S : m <= c
  BY <1>6
<1>8. QED
  BY <1>7, Zenon DEF Oldest

LEMMA TryRecoverStep ==
  ASSUME WakeupInv, TryRecover
  PROVE  WakeupInv'
<1> USE PartyKinds
<1>1. /\ at[Host] = "idle" /\ aside # {} /\ created < MaxBarriers
      /\ mine' = [mine EXCEPT ![Host] = Oldest(aside)] /\ todo' = badBars[Oldest(aside)]
      /\ Goto(Host, "recover")
      /\ UNCHANGED <<pending, waiting, barrier, flagged, bars, created, current, badBars, aside,
                     expected, recovered>>
  BY DEF TryRecover, CanRenew, thread
<1> PICK b \in aside : b = Oldest(aside)
  BY <1>1, OldestIn DEF WakeupInv, TypeOK
<1>2. b \in Barriers /\ badBars[b] \subseteq Workers
  BY DEF WakeupInv, TypeOK
<1>3. /\ at' \in [Parties -> Places] /\ at'[Host] = "recover"
      /\ \A q \in Parties : q # Host => at'[q] = at[q]
  BY <1>1, GotoAt DEF WakeupInv, Places
<1>4. /\ mine' \in [Parties -> Barriers \cup {NoBarrier}] /\ mine'[Host] = b
      /\ \A q \in Parties : q # Host => mine'[q] = mine[q]
  BY <1>1, <1>2 DEF WakeupInv, TypeOK
<1>5. TypeOK'
  BY <1>1, <1>2, <1>3, <1>4, Zenon DEF WakeupInv, TypeOK
<1>6. SleepInv'
  BY <1>1, <1>3 DEF WakeupInv, SleepInv
<1>7. CallInv'
  BY <1>1, <1>3, <1>4 DEF WakeupInv, CallInv
<1>8. \A t \in Workers : \A c \in Barriers : Owes(t, c)' => Owes(t, c)
  BY <1>1, <1>3, <1>4 DEF Owes
<1>9. AsideInv'
  <2>1. \A c \in aside : c \in Barriers
    BY DEF WakeupInv, TypeOK
  <2>2. QED
    BY <1>1, <1>8, <2>1 DEF WakeupInv, AsideInv
<1>10. CountInv' /\ PlacesInv'
  BY <1>1, <1>3, <1>4, BetweenCalls
<1>11. UsedInv'
  BY <1>1, <1>3, <1>4 DEF WakeupInv, UsedInv
<1>12. QED
  BY <1>5, <1>6, <1>7, <1>9, <1>10, <1>11 DEF WakeupInv

(* A thread that is found asleep owes no barrier, so that it may be taken  *)
(* off the list of the one at hand and off the flagged ones.               *)
LEMMA AskStep ==
  ASSUME WakeupInv, NEW t \in Workers, Ask(t)
  PROVE  WakeupInv'
<1> USE PartyKinds
<1> PICK b : b = mine[Host]
  OBVIOUS
<1>1. /\ at[Host] = "recover" /\ t \in todo /\ todo' = todo \ {t}
      /\ UNCHANGED <<pending, waiting, barrier, at, mine, bars, created, current, aside, expected>>
  BY DEF Ask, thread
<1>2. b \in aside /\ b \in Barriers /\ todo \subseteq badBars[b]
  BY <1>1 DEF WakeupInv, CallInv, TypeOK
<1>3. \/ ~waiting[t] /\ UNCHANGED <<flagged, badBars, recovered>>
      \/ /\ waiting[t] /\ flagged' = flagged \ {t} /\ recovered' = recovered \cup {t}
         /\ badBars' = [badBars EXCEPT ![b] = badBars[b] \ {t}]
  BY DEF Ask
<1>4. /\ badBars' \in [Barriers -> SUBSET Workers]
      /\ \A c \in Barriers : /\ badBars[c] \ {t} \subseteq badBars'[c]
                             /\ c # b => badBars'[c] = badBars[c]
      /\ todo' \subseteq badBars'[b]
  BY <1>1, <1>2, <1>3 DEF WakeupInv, TypeOK
<1>5. /\ flagged' \subseteq Workers /\ recovered' \subseteq Workers /\ todo' \subseteq Workers
      /\ flagged' \subseteq flagged /\ flagged \ {t} \subseteq flagged'
  BY <1>1, <1>3 DEF WakeupInv, TypeOK
<1>6. TypeOK'
  BY <1>1, <1>4, <1>5, Zenon DEF WakeupInv, TypeOK
<1>7. SleepInv'
  BY <1>1 DEF WakeupInv, SleepInv
<1>8. CallInv'
  <2>1. recovered' = {} => recovered = {} /\ flagged' = flagged
    BY <1>3
  <2>2. QED
    BY <1>1, <1>2, <1>4, <2>1 DEF WakeupInv, CallInv
<1>9. \A u \in Workers : \A c \in Barriers : Owes(u, c)' <=> Owes(u, c)
  BY <1>1 DEF Owes
<1>10. waiting[t] => \A c \in Barriers : ~Owes(t, c)
  BY DEF WakeupInv, SleepInv, Owes, Barriers
<1>11. AsideInv'
  <2>1. aside \subseteq Barriers
    BY DEF WakeupInv, TypeOK
  <2>2. flagged' \subseteq UNION {badBars'[c] : c \in aside'}
    <3>1. CASE UNCHANGED <<flagged, badBars>>
      BY <1>1, <3>1 DEF WakeupInv, AsideInv
    <3>2. CASE flagged' = flagged \ {t}
      <4>1. flagged \subseteq UNION {badBars[c] : c \in aside}
        BY DEF WakeupInv, AsideInv
      <4>2. ASSUME NEW u \in flagged' PROVE \E c \in aside' : u \in badBars'[c]
        <5>1. PICK c \in aside : u \in badBars[c]
          BY <3>2, <4>1
        <5>2. u \in badBars'[c]
          BY <1>4, <2>1, <3>2, <5>1
        <5>3. QED
          BY <1>1, <5>2
      <4>3. QED
        BY <4>2
    <3>3. QED
      BY <1>3, <3>1, <3>2
  <2>3. ASSUME NEW c \in aside, NEW u \in Workers, Owes(u, c)
        PROVE  u \in badBars'[c] /\ u \in flagged' /\ bars[c].left > 0
    <3>1. u \in badBars[c] /\ u \in flagged /\ bars[c].left > 0
      BY <2>3 DEF WakeupInv, AsideInv
    <3>2. CASE waiting[t]
      <4>1. u # t
        BY <1>10, <2>1, <2>3, <3>2
      <4>2. QED
        BY <1>4, <1>5, <2>1, <3>1, <4>1
    <3>3. CASE ~waiting[t]
      BY <1>3, <3>1, <3>3
    <3>4. QED
      BY <3>2, <3>3
  <2>4. \A c \in aside' : \A u \in Workers : Owes(u, c)' =>
           u \in badBars'[c] /\ u \in flagged' /\ bars'[c].left > 0
    BY <1>1, <1>9, <2>1, <2>3
  <2>5. current' \notin aside' /\ \A c \in aside' : c < created' /\ bars'[c].timeout /\ ~bars'[c].waitAt
    BY <1>1 DEF WakeupInv, AsideInv
  <2>6. QED
    BY <2>2, <2>4, <2>5 DEF AsideInv
<1>12. CountInv' /\ PlacesInv'
  BY <1>1, BetweenCalls
<1>13. UsedInv'
  BY <1>1 DEF WakeupInv, UsedInv
<1>14. QED
  BY <1>6, <1>7, <1>8, <1>11, <1>12, <1>13 DEF WakeupInv

(* A barrier that is deleted is one that nobody owes.                      *)
LEMMA BarrierDeleted ==
  ASSUME WakeupInv, at[Host] = "recover",
         aside' = IF badBars[mine[Host]] = {} THEN aside \ {mine[Host]} ELSE aside
  PROVE  /\ aside' \subseteq aside /\ aside \ {mine[Host]} \subseteq aside'
         /\ flagged \subseteq UNION {badBars[b] : b \in aside'}
         /\ \A b \in aside \cup {current} : \A t \in Workers : Owes(t, b) => b \in aside'
<1>1. aside' \subseteq aside /\ aside \ {mine[Host]} \subseteq aside'
  OBVIOUS
<1>2. \A b \in aside : b \notin aside' => badBars[b] = {}
  OBVIOUS
<1>3. flagged \subseteq UNION {badBars[b] : b \in aside'}
  <2>1. ASSUME NEW t \in flagged PROVE \E b \in aside' : t \in badBars[b]
    <3>1. PICK b \in aside : t \in badBars[b]
      BY DEF WakeupInv, AsideInv
    <3>2. QED
      BY <1>2, <3>1
  <2>2. QED
    BY <2>1
<1>4. \A b \in aside : \A t \in Workers : Owes(t, b) => b \in aside'
  BY <1>2 DEF WakeupInv, AsideInv
<1>5. \A t \in Workers : ~Owes(t, current)
  BY HostIdle
<1>6. QED
  BY <1>1, <1>3, <1>4, <1>5

(* The last barrier, after which some thread has recovered: the list's own *)
(* one is renewed.                                                         *)
LEMMA RecoveredStep ==
  ASSUME WakeupInv, NextBarrier, Later = {}, recovered # {}
  PROVE  WakeupInv'
<1> USE PartyKinds
<1>1. /\ at[Host] = "recover" /\ todo = {}
      /\ aside' = IF badBars[mine[Host]] = {} THEN aside \ {mine[Host]} ELSE aside
      /\ Goto(Host, "idle") /\ recovered' = {} /\ UpdateBarrier(flagged)
      /\ UNCHANGED <<pending, waiting, barrier, mine, flagged, badBars, todo, expected>>
  BY DEF NextBarrier, thread
<1>2. /\ at' \in [Parties -> Places] /\ at'[Host] = "idle"
      /\ \A q \in Parties : q # Host => at'[q] = at[q]
  BY <1>1, GotoAt DEF WakeupInv, Places
<1>3. /\ aside' \subseteq aside /\ flagged \subseteq UNION {badBars[b] : b \in aside'}
      /\ \A b \in aside \cup {current} : \A t \in Workers : Owes(t, b) => b \in aside'
  BY <1>1, BarrierDeleted
<1> PICK f \in SUBSET Workers : f = flagged
  BY DEF WakeupInv, TypeOK
<1>4. created < MaxBarriers /\ UpdateBarrier(f) /\ flagged' = f
  BY <1>1 DEF WakeupInv, CallInv
<1>5. /\ \A b \in aside' : bars[b].timeout /\ ~bars[b].waitAt
      /\ \A b \in aside' : \A t \in Workers :
           Owes(t, b) => t \in badBars'[b] /\ t \in f /\ bars[b].left > 0
  BY <1>1, <1>3 DEF WakeupInv, AsideInv
<1>6. CallInv' /\ AsideInv' /\ CountInv' /\ PlacesInv' /\ UsedInv'
  <2>1. badBars' \in [Barriers -> SUBSET Workers] /\ aside' \subseteq aside \cup {current}
        /\ f \subseteq UNION {badBars'[b] : b \in aside'} /\ todo' = {}
        /\ UNCHANGED <<barrier, mine>>
    BY <1>1, <1>3 DEF WakeupInv, TypeOK
  <2>2. \A t \in Workers : at'[t] = at[t]
    BY <1>2
  <2>3. \A t \in Workers : ~Inside(t, current)
    BY <1>1, HostIdle
  <2>4. QED
    BY <1>1, <1>2, <1>3, <1>4, <1>5, <2>1, <2>2, <2>3, RenewStep
<1>7. TypeOK'
  <2>1. created' \in Barriers /\ current' \in Barriers /\ bars' \in [Barriers -> BarrierRecords]
    BY <1>4, RenewEffect DEF WakeupInv
  <2>2. aside' \subseteq Barriers /\ recovered' \subseteq Workers
    BY <1>1, <1>3 DEF WakeupInv, TypeOK
  <2>3. QED
    BY <1>1, <1>2, <2>1, <2>2, Zenon DEF WakeupInv, TypeOK
<1>8. SleepInv'
  BY <1>1, <1>2 DEF WakeupInv, SleepInv
<1>9. QED
  BY <1>6, <1>7, <1>8 DEF WakeupInv

(* The host goes on to the next barrier, or ends without a recovery.       *)
LEMMA GoOnStep ==
  ASSUME WakeupInv, NextBarrier, Later # {} \/ recovered = {}
  PROVE  WakeupInv'
<1> USE PartyKinds
<1>1. /\ at[Host] = "recover" /\ todo = {}
      /\ aside' = IF badBars[mine[Host]] = {} THEN aside \ {mine[Host]} ELSE aside
      /\ UNCHANGED <<pending, waiting, barrier, flagged, bars, created, current, badBars, expected,
                     recovered>>
  BY DEF NextBarrier, thread
<1>2. /\ aside' \subseteq aside /\ aside \ {mine[Host]} \subseteq aside'
      /\ flagged \subseteq UNION {badBars[b] : b \in aside'}
      /\ \A b \in aside \cup {current} : \A t \in Workers : Owes(t, b) => b \in aside'
  BY <1>1, BarrierDeleted
<1>3. /\ at' \in [Parties -> Places] /\ mine' \in [Parties -> Barriers \cup {NoBarrier}]
      /\ \A t \in Workers : at'[t] = at[t] /\ mine'[t] = mine[t]
      /\ todo' \subseteq Workers
      /\ \/ at'[Host] = "idle" /\ todo' = {} /\ recovered = {}
         \/ at'[Host] = "recover" /\ mine'[Host] \in aside' /\ todo' = badBars[mine'[Host]]
  <2>1. CASE Later # {}
    <3>1. Later \in SUBSET Barriers
      BY DEF Later, WakeupInv, TypeOK
    <3> PICK b \in Later : b = Oldest(Later)
      BY <2>1, <3>1, OldestIn
    <3>2. mine' = [mine EXCEPT ![Host] = b] /\ todo' = badBars[b] /\ UNCHANGED at
      BY <2>1 DEF NextBarrier
    <3>3. b \in Barriers /\ b \in aside /\ b # mine[Host]
      <4>1. mine[Host] \in aside /\ aside \subseteq Barriers
        BY <1>1 DEF WakeupInv, TypeOK, CallInv
      <4>2. QED
        BY <4>1 DEF Later, Barriers
    <3>4. mine'[Host] = b /\ b \in aside'
      BY <1>2, <3>2, <3>3 DEF WakeupInv, TypeOK
    <3>5. QED
      BY <1>1, <3>2, <3>3, <3>4 DEF WakeupInv, TypeOK
  <2>2. CASE Later = {}
    <3>1. Goto(Host, "idle") /\ UNCHANGED <<mine, todo>> /\ recovered = {}
      BY <2>2 DEF NextBarrier
    <3>2. /\ at' \in [Parties -> Places] /\ at'[Host] = "idle"
          /\ \A q \in Parties : q # Host => at'[q] = at[q]
      BY <3>1, GotoAt DEF WakeupInv, Places
    <3>3. QED
      BY <1>1, <3>1, <3>2 DEF WakeupInv, TypeOK
  <2>3. QED
    BY <2>1, <2>2
<1>4. aside' \subseteq Barriers
  BY <1>2 DEF WakeupInv, TypeOK
<1>5. TypeOK'
  BY <1>1, <1>3, <1>4, Zenon DEF WakeupInv, TypeOK
<1>6. SleepInv'
  BY <1>1, <1>3 DEF WakeupInv, SleepInv
<1>7. CallInv'
  BY <1>1, <1>3 DEF WakeupInv, CallInv
<1>8. \A t \in Workers : \A b \in Barriers : Owes(t, b)' <=> Owes(t, b)
  BY <1>1, <1>3 DEF Owes
<1>9. AsideInv'
  BY <1>1, <1>2, <1>4, <1>8 DEF WakeupInv, AsideInv
<1>10. CountInv' /\ PlacesInv'
  BY <1>1, <1>3, BetweenCalls
<1>11. UsedInv'
  <2>1. \A t \in Workers :
          /\ barrier[t] # NoBarrier => barrier[t] \in aside'
          /\ at[t] = "enter" => mine[t] \in aside' /\ barrier[t] # mine[t]
    BY <1>2 DEF WakeupInv, UsedInv, Owes
  <2>2. QED
    BY <1>1, <1>3, <2>1 DEF WakeupInv, UsedInv
<1>12. QED
  BY <1>5, <1>6, <1>7, <1>9, <1>10, <1>11 DEF WakeupInv

LEMMA NextBarrierStep ==
  ASSUME WakeupInv, NextBarrier
  PROVE  WakeupInv'
  BY RecoveredStep, GoOnStep

-----------------------------------------------------------------------------
(* The theorems                                                            *)

LEMMA WakeupInit == Init => WakeupInv
<1> USE PartyKinds
<1> SUFFICES ASSUME Init PROVE WakeupInv
  OBVIOUS
<1>1. /\ pending = [t \in Workers |-> 0] /\ waiting = [t \in Workers |-> TRUE]
      /\ barrier = [t \in Workers |-> NoBarrier]
      /\ at = [p \in Parties |-> IF p = Host THEN "idle" ELSE "rest"]
      /\ mine = [p \in Parties |-> NoBarrier]
      /\ bars = [b \in Barriers |-> NewBarrier(IF b = 1 THEN Cardinality(Workers) + 1 ELSE 0)]
      /\ flagged = {} /\ created = 1 /\ current = 1
      /\ badBars = [b \in Barriers |-> {}] /\ aside = {} /\ todo = {} /\ expected = {}
      /\ recovered = {}
  BY DEF Init
<1>2. 1 \in Barriers /\ NoBarrier \notin Barriers
  BY DEF Barriers
<1>3. /\ Unflagged(flagged) = Workers /\ Cardinality(Workers) \in Nat
  <2>1. Unflagged({}) = Workers /\ {} \in SUBSET Workers
    BY DEF Unflagged
  <2>2. Cardinality(Workers) \in Nat
    BY FS_CardinalityType
  <2>3. QED
    BY <1>1, <2>1, <2>2
<1>4. /\ bars \in [Barriers -> BarrierRecords]
      /\ bars[1].count = Cardinality(Workers) + 1 /\ bars[1].left = 0 /\ ~bars[1].timeout
      /\ bars[1].native = {}
  <2>1. \A n \in Nat : NewBarrier(n) \in BarrierRecords
    BY NewBarrierFields
  <2>2. \A b \in Barriers : (IF b = 1 THEN Cardinality(Workers) + 1 ELSE 0) \in Nat
    BY <1>3
  <2>3. bars \in [Barriers -> BarrierRecords]
    BY <1>1, <2>1, <2>2
  <2>4. bars[1] = NewBarrier(Cardinality(Workers) + 1) /\ Cardinality(Workers) + 1 \in Nat
    BY <1>1, <1>2, <1>3
  <2>5. QED
    BY <2>3, <2>4, NewBarrierFields
<1>5. at \in [Parties -> Places] /\ at[Host] = "idle" /\ \A t \in Workers : at[t] = "rest"
  BY <1>1 DEF Places
<1>6. TypeOK
  <2>1. /\ pending \in [Workers -> Nat] /\ waiting \in [Workers -> BOOLEAN]
        /\ barrier \in [Workers -> Barriers \cup {NoBarrier}]
        /\ mine \in [Parties -> Barriers \cup {NoBarrier}]
        /\ badBars \in [Barriers -> SUBSET Workers]
    BY <1>1
  <2>2. /\ created \in Barriers /\ current \in Barriers /\ flagged \subseteq Workers
        /\ todo \subseteq Workers /\ expected \subseteq Workers /\ aside \subseteq Barriers
        /\ recovered \subseteq Workers
    BY <1>1, <1>2
  <2>3. QED
    BY <1>4, <1>5, <2>1, <2>2, Zenon DEF TypeOK
<1>7. SleepInv
  BY <1>1, <1>5 DEF SleepInv
<1>8. CallInv
  BY <1>1, <1>3, <1>4, <1>5 DEF CallInv
<1>9. AsideInv
  BY <1>1 DEF AsideInv
<1>10. ~HostCame /\ ~Begun /\ Here = {}
  BY <1>1, <1>4, <1>5 DEF HostCame, Begun, Here
<1>11. CountInv
  BY <1>1, <1>4, <1>5, <1>10 DEF CountInv
<1>12. PlacesInv
  <2>1. \A t \in Workers : ~Owes(t, current)
    BY <1>1, <1>2, <1>5 DEF Owes
  <2>2. \A p \in Parties : ~Inside(p, current) /\ at[p] # "native"
    BY <1>1, <1>5 DEF Inside
  <2>3. QED
    BY <1>1, <1>4, <1>5, <2>1, <2>2 DEF PlacesInv
<1>13. UsedInv
  BY <1>1, <1>5 DEF UsedInv
<1>14. QED
  BY <1>6, <1>7, <1>8, <1>9, <1>11, <1>12, <1>13 DEF WakeupInv

LEMMA StutterStep ==
  ASSUME WakeupInv, UNCHANGED vars
  PROVE  WakeupInv'
  BY DEF vars, WakeupInv, TypeOK, SleepInv, CallInv, AsideInv, CountInv, PlacesInv, UsedInv,
         Owes, Inside, HostCame, Begun, Here

LEMMA EnterStep ==
  ASSUME WakeupInv, NEW p \in Parties, EnterBarrier(p)
  PROVE  WakeupInv'
  BY ComeStep, ComeLateStep

LEMMA JudgeStep ==
  ASSUME WakeupInv, Judge
  PROVE  WakeupInv'
  BY JudgeTimeoutStep, JudgeInTimeStep

LEMMA WakeupNext == WakeupInv /\ [Next]_vars => WakeupInv'
<1> USE PartyKinds
<1> SUFFICES ASSUME WakeupInv, [Next]_vars PROVE WakeupInv'
  OBVIOUS
<1>1. ASSUME NEW t \in Workers, WorkerStep(t) PROVE WakeupInv'
  BY <1>1, SleepStep, ProceedStep, LoopEndsStep, ReadBarrierStep, TakeBarrierStep, EnterStep,
     WokenStep, ExitStep, LeaveStep DEF WorkerStep
<1>2. ASSUME NEW t \in Workers, Wakeup(t) PROVE WakeupInv'
  BY <1>2, WakeupStep
<1>3. CASE WakeupAndWait
  BY <1>3, WakeupAndWaitStep
<1>4. CASE TryRecover
  BY <1>4, TryRecoverStep
<1>5. CASE HostStep
  BY <1>5, WakeupWithBarrierStep, WaitForAllStep, JudgeStep, AskStep, NextBarrierStep, EnterStep,
     WokenStep, TimeOutStep, ExitStep, LeaveStep DEF HostStep
<1>6. CASE UNCHANGED vars
  BY <1>6, StutterStep
<1>7. QED
  BY <1>1, <1>2, <1>3, <1>4, <1>5, <1>6 DEF Next

(* WakeupInv, the inductive invariant, holds in every reachable state: a   *)
(* thread sleeps only when it owes nothing (thread.cpp: run, wakeup), the  *)
(* list's barrier is made for the threads that are not bad and counts who  *)
(* has come to it in this call (barrier.cpp: wait), and every other        *)
(* barrier a thread has is put aside or has timed out (thread_list.cpp:    *)
(* wakeup_and_wait, try_recover).                                          *)
THEOREM WakeupInvariance == Spec => []WakeupInv
  BY WakeupInit, WakeupNext, PTL DEF Spec

(* TypeOK: every variable has its type; what update_barrier() counts is a  *)
(* number, whatever has been flagged (thread_list.cpp:200).                *)
THEOREM WakeupTyped == Spec => []TypeOK
<1>1. WakeupInv => TypeOK
  BY DEF WakeupInv
<1>2. QED
  BY <1>1, WakeupInvariance, PTL

(* ReachedAll: wakeup_and_wait() returns without an exception only after   *)
(* every thread that was not bad, and no other, has come to the barrier of *)
(* this very call (InterruptibleBarrier::wait returns ! __timeout).        *)
THEOREM EverybodyReached == Spec => []ReachedAll
<1>1. ASSUME WakeupInv PROVE ReachedAll
  <2> SUFFICES ASSUME at[Host] = "judge", ~bars[mine[Host]].timeout
               PROVE  bars[mine[Host]].passed = expected \cup {Host}
    BY DEF ReachedAll
  <2>1. mine[Host] = current /\ expected = Unflagged(flagged)
    BY <1>1 DEF WakeupInv, CallInv
  <2>2. QED
    BY <1>1, <2>1, AllIn
<1>2. QED
  BY <1>1, WakeupInvariance, PTL

(* ReadyForNext: whenever a call or try_recover() has ended, the list's    *)
(* barrier is unused and made for the threads that are not flagged; these  *)
(* have no other to meet, so that none of the next wakeups throws; and a   *)
(* flagged thread is in the list of a barrier put aside, although it is    *)
(* asked anew for every one of them (thread_list.cpp:331).                 *)
THEOREM ListReady == Spec => []ReadyForNext
<1>1. ASSUME WakeupInv, at[Host] = "idle"
      PROVE  \A t \in Unflagged(flagged) : barrier[t] = NoBarrier /\ at[t] # "enter"
  <2> SUFFICES ASSUME NEW t \in Workers, t \notin flagged
               PROVE  barrier[t] = NoBarrier /\ at[t] # "enter"
    BY DEF Unflagged
  <2>1. \A b \in aside \cup {current} : ~Owes(t, b)
    BY <1>1 DEF WakeupInv, AsideInv, PlacesInv
  <2>2. QED
    BY <1>1, <2>1 DEF WakeupInv, UsedInv, Owes
<1>2. ASSUME WakeupInv, at[Host] = "idle"
      PROVE  /\ bars[current].count = Cardinality(Unflagged(flagged)) + 1
             /\ bars[current].left = 0 /\ current \notin aside
             /\ flagged \subseteq UNION {badBars[b] : b \in aside}
  BY <1>2 DEF WakeupInv, CallInv, AsideInv, CountInv
<1>3. WakeupInv => ReadyForNext
  BY <1>1, <1>2 DEF ReadyForNext
<1>4. QED
  BY <1>3, WakeupInvariance, PTL

(* BarrierKept: nobody has still to come to, or to be released from, a     *)
(* barrier that try_recover() or update_barrier() has deleted, whoever is  *)
(* slow to leave one that has timed out (thread_list.cpp:347).             *)
THEOREM BarriersKept == Spec => []BarrierKept
<1>1. WakeupInv => BarrierKept
  BY DEF WakeupInv, UsedInv, BarrierKept
<1>2. QED
  BY <1>1, WakeupInvariance, PTL
=============================================================================
