---------------------------- MODULE RobotsProofs ----------------------------
(* Machine-checked proof about Robots: the roster agrees with the beacons,  *)
(* for any number of robots and messages and any timeouts.                  *)
EXTENDS Robots, SequenceTheorems, TLAPS

-----------------------------------------------------------------------------
(* Ages and messages.                                                       *)

LEMMA OlderBounds ==
  ASSUME NEW a \in Ages, NEW b \in Ages, NEW n \in Nat
  PROVE  /\ Older(a) \in Ages
         /\ a <= Older(a)
         /\ a <= n => Older(a) <= n + 1
         /\ a <= b => Older(a) <= Older(b)
         /\ a <= b + n => Older(a) <= Older(b) + n
BY TimesAssumption DEF Older, Ages

(* Taking a message leaves all the others and nothing else.                 *)
LEMMA RemoveAtElements ==
  ASSUME NEW S, NEW s \in Seq(S), NEW i \in DOMAIN s
  PROVE  /\ RemoveAt(s, i) \in Seq(S)
         /\ Len(RemoveAt(s, i)) = Len(s) - 1
         /\ \A j \in DOMAIN RemoveAt(s, i) :
              \E k \in DOMAIN s : k # i /\ RemoveAt(s, i)[j] = s[k]
         /\ \A k \in DOMAIN s \ {i} :
              \E j \in DOMAIN RemoveAt(s, i) : RemoveAt(s, i)[j] = s[k]
<1> DEFINE r == RemoveAt(s, i)
<1>1. i \in 1 .. Len(s) /\ Len(s) \in Nat
  OBVIOUS
<1>2. /\ r \in Seq(S) /\ Len(r) = Len(s) - 1
      /\ \A j \in 1 .. Len(r) : r[j] = IF j < i THEN s[j] ELSE s[j + 1]
  <2> DEFINE a == SubSeq(s, 1, i - 1)
             b == SubSeq(s, i + 1, Len(s))
  <2>1. /\ a \in Seq(S) /\ Len(a) = i - 1
        /\ \A j \in 1 .. i - 1 : a[j] = s[j]
    BY <1>1
  <2>2. /\ b \in Seq(S) /\ Len(b) = Len(s) - i
        /\ \A j \in 1 .. Len(s) - i : b[j] = s[i + j]
    BY <1>1
  <2>3. r = a \o b
    BY DEF RemoveAt
  <2> HIDE DEF a, b, r
  <2>4. /\ r \in Seq(S) /\ Len(r) = Len(a) + Len(b)
        /\ \A j \in 1 .. Len(a) + Len(b) :
              r[j] = IF j <= Len(a) THEN a[j] ELSE b[j - Len(a)]
    BY <2>1, <2>2, <2>3, ConcatProperties
  <2>5. Len(r) = Len(s) - 1
    BY <1>1, <2>1, <2>2, <2>4
  <2>6. ASSUME NEW j \in 1 .. Len(r)
        PROVE  r[j] = IF j < i THEN s[j] ELSE s[j + 1]
    <3>1. CASE j < i
      <4>1. Len(a) = i - 1 /\ Len(b) \in Nat /\ j \in 1 .. Len(a) + Len(b)
        BY <1>1, <2>1, <2>2, <2>4
      <4>2. j <= Len(a) /\ j \in 1 .. i - 1
        BY <1>1, <3>1, <4>1
      <4>3. r[j] = a[j]
        BY <2>4, <4>1, <4>2
      <4>4. a[j] = s[j]
        BY <2>1, <4>2, Zenon
      <4> QED BY <3>1, <4>3, <4>4, Zenon
    <3>2. CASE ~(j < i)
      <4>1. /\ j - Len(a) \in 1 .. Len(s) - i /\ i + (j - Len(a)) = j + 1
            /\ r[j] = b[j - Len(a)]
        <5>1. /\ Len(a) = i - 1 /\ Len(b) = Len(s) - i /\ Len(s) \in Nat
              /\ i \in 1 .. Len(s) /\ j \in 1 .. Len(s) - 1 /\ j >= i
          BY <3>2, <1>1, <2>1, <2>2, <2>5
        <5>2. j - Len(a) \in 1 .. Len(s) - i /\ i + (j - Len(a)) = j + 1
          BY <5>1
        <5>3. j \in 1 .. Len(a) + Len(b) /\ ~(j <= Len(a))
          BY <5>1
        <5> QED BY <5>2, <5>3, <2>4
      <4> QED BY <4>1, <3>2, <2>2
    <3> QED BY <3>1, <3>2
  <2> QED BY <2>4, <2>5, <2>6
<1>3. DOMAIN r = 1 .. Len(s) - 1 /\ DOMAIN s = 1 .. Len(s)
  BY <1>1, <1>2
<1>4. ASSUME NEW j \in DOMAIN r
      PROVE  \E k \in DOMAIN s : k # i /\ r[j] = s[k]
  <2>1. CASE j < i
    BY <2>1, <1>1, <1>2, <1>3
  <2>2. CASE ~(j < i)
    <3>1. j + 1 \in DOMAIN s /\ j + 1 # i /\ r[j] = s[j + 1]
      BY <2>2, <1>1, <1>2, <1>3
    <3> QED BY <3>1
  <2> QED BY <2>1, <2>2
<1>5. ASSUME NEW k \in DOMAIN s \ {i}
      PROVE  \E j \in DOMAIN r : r[j] = s[k]
  <2>1. CASE k < i
    <3>1. k \in DOMAIN r /\ r[k] = s[k]
      BY <2>1, <1>1, <1>2, <1>3
    <3> QED BY <3>1
  <2>2. CASE ~(k < i)
    <3>1. k - 1 \in DOMAIN r /\ r[k - 1] = s[k]
      BY <2>2, <1>1, <1>2, <1>3
    <3> QED BY <3>1
  <2> QED BY <2>1, <2>2
<1>6. \A j \in DOMAIN r : \E k \in DOMAIN s : k # i /\ r[j] = s[k]
  BY <1>4
<1>7. \A k \in DOMAIN s \ {i} : \E j \in DOMAIN r : r[j] = s[k]
  BY <1>5
<1> QED BY <1>2, <1>6, <1>7, Zenon

(* What the rules that take a message share: messages that stay were there, *)
(* and a robot none of whose beacons is left had none but the one taken.    *)
LEMMA TakeMessage ==
  ASSUME RosterInv, NEW i \in DOMAIN inbox, run # "no", UNCHANGED <<run, clock>>,
         inbox' = RemoveAt(inbox, i)
  PROVE  /\ inbox' \in Seq(Messages) /\ Len(inbox') <= MaxInbox
         /\ InboxFresh' /\ BeaconsDated'
         /\ \A p : Waiting(p) /\ ~Waiting(p)' => inbox[i].kind = "beacon" /\ inbox[i].peer = p
<1>1. inbox \in Seq(Messages) /\ Len(inbox) <= MaxInbox /\ MaxInbox \in Nat
  BY TimesAssumption DEF RosterInv, TypeOK
<1>2. /\ inbox' \in Seq(Messages) /\ Len(inbox') = Len(inbox) - 1
      /\ \A j \in DOMAIN inbox' : \E k \in DOMAIN inbox : inbox'[j] = inbox[k]
      /\ \A k \in DOMAIN inbox \ {i} : \E j \in DOMAIN inbox' : inbox'[j] = inbox[k]
  <2> DEFINE r == RemoveAt(inbox, i)
  <2>1. /\ r \in Seq(Messages) /\ Len(r) = Len(inbox) - 1
        /\ \A j \in DOMAIN r : \E k \in DOMAIN inbox : k # i /\ r[j] = inbox[k]
        /\ \A k \in DOMAIN inbox \ {i} : \E j \in DOMAIN r : r[j] = inbox[k]
    BY <1>1, RemoveAtElements, Zenon
  <2>2. inbox' = r
    OBVIOUS
  <2> HIDE DEF r
  <2> QED BY <2>1, <2>2, Zenon
<1>3. Len(inbox') <= MaxInbox
  BY <1>1, <1>2
<1>4. InboxFresh'
  BY DEF InboxFresh, clock
<1>5. BeaconsDated'
  <2>1. silence' = silence /\ BeaconsDated
    BY DEF RosterInv, clock
  <2> QED BY <2>1, <1>2 DEF BeaconsDated
<1>6. ASSUME NEW p, Waiting(p), ~Waiting(p)'
      PROVE  inbox[i].kind = "beacon" /\ inbox[i].peer = p
  <2>1. PICK k \in DOMAIN inbox : inbox[k].kind = "beacon" /\ inbox[k].peer = p
    BY <1>6 DEF Waiting
  <2>2. k = i
    BY <2>1, <1>2, <1>6 DEF Waiting
  <2> QED BY <2>1, <2>2
<1> QED BY <1>2, <1>3, <1>4, <1>5, <1>6

(* What a robot's fact has to satisfy on its own.                           *)
Dated(r) ==
  /\ silence[r.peer] <= r.age
  /\ ~Waiting(r.peer) => /\ r.age <= silence[r.peer] + Wait
                         /\ r.warned => silence[r.peer] + Wait > LOST

-----------------------------------------------------------------------------
(* One lemma for each kind of step.                                         *)

LEMMA InitInv == Init => RosterInv
BY TimesAssumption
DEF Init, RosterInv, TypeOK, InboxFresh, BeaconsDated, RosterFaithful, Messages, Ages, Robots

LEMMA TickInv == RosterInv /\ Tick => RosterInv'
<1> SUFFICES ASSUME RosterInv, Tick PROVE RosterInv'
  OBVIOUS
<1> DEFINE Aged(r) == [r EXCEPT !.age = Older(r.age)]
           Later(m) == [m EXCEPT !.age = @ + 1]
<1>1. TypeOK /\ RosterFaithful /\ BeaconsDated /\ InboxFresh
  BY DEF RosterInv
<1>2. /\ run = "no" /\ run' = "no" /\ untold' = untold
      /\ waited < Wait /\ waited' = waited + 1
      /\ silence' = [p \in Peers |-> Older(silence[p])]
      /\ robots' = {Aged(r) : r \in robots}
      /\ inbox' = [i \in DOMAIN inbox |-> Later(inbox[i])]
      /\ signal' = [signal EXCEPT !.age = Older(@)]
  BY DEF Tick
<1>3. /\ silence \in [Peers -> Ages] /\ waited \in Nat /\ Wait \in Nat
      /\ inbox \in Seq(Messages) /\ robots \subseteq Robots
      /\ signal \in [count : 0 .. COUNT, age : Ages]
  BY <1>1, TimesAssumption DEF TypeOK
<1>4. \A p \in Peers : silence'[p] = Older(silence[p])
  BY <1>2
<1>5. silence' \in [Peers -> Ages]
  BY <1>2, <1>3, OlderBounds
<1>6. ASSUME NEW r \in robots
      PROVE  /\ Aged(r) \in Robots /\ Aged(r).peer = r.peer /\ Aged(r).warned = r.warned
             /\ Aged(r).age = Older(r.age)
             /\ r.peer \in Peers /\ r.age \in Ages
  <2>1. r \in Robots
    BY <1>3
  <2>2. Older(r.age) \in Ages
    BY <2>1, OlderBounds DEF Robots
  <2> QED BY <2>1, <2>2 DEF Robots
<1>7. ASSUME NEW i \in DOMAIN inbox
      PROVE  /\ inbox'[i] \in Messages
             /\ inbox'[i].kind = inbox[i].kind /\ inbox'[i].peer = inbox[i].peer
             /\ inbox'[i].age = inbox[i].age + 1 /\ inbox[i].age <= waited
             /\ inbox[i].age \in Nat /\ inbox[i].peer \in Peers
  <2>1. inbox[i] \in Messages
    BY <1>3
  <2>2. inbox[i].age \in 0 .. Wait /\ inbox[i].age <= waited
    BY <2>1, <1>1, <1>2 DEF Messages, InboxFresh
  <2>3. inbox[i].age + 1 \in 0 .. Wait
    BY <2>2, <1>2, <1>3
  <2>4. inbox'[i] = Later(inbox[i])
    BY <1>2
  <2> QED BY <2>1, <2>2, <2>3, <2>4 DEF Messages
<1>8. DOMAIN inbox' = DOMAIN inbox
  BY <1>2
<1>9. inbox' \in Seq(Messages) /\ Len(inbox') = Len(inbox)
  <2>1. DOMAIN inbox = 1 .. Len(inbox) /\ Len(inbox) \in Nat
    BY <1>3
  <2>2. inbox' \in [1 .. Len(inbox) -> Messages]
    BY <2>1, <1>2, <1>7
  <2> QED BY <2>1, <2>2
<1>10. TypeOK'
  <2>1. robots' \subseteq Robots
    BY <1>2, <1>6
  <2>2. signal' \in [count : 0 .. COUNT, age : Ages]
    <3>1. signal.age \in Ages /\ Older(signal.age) \in Ages
      BY <1>3, OlderBounds
    <3> QED BY <3>1, <1>2, <1>3
  <2>3. waited' \in 0 .. Wait
    BY <1>2, <1>3
  <2> QED BY <2>1, <2>2, <2>3, <1>1, <1>2, <1>5, <1>9 DEF TypeOK
<1>11. InboxFresh'
  BY <1>2, <1>3, <1>7, <1>8 DEF InboxFresh
<1>12. BeaconsDated'
  <2> SUFFICES ASSUME NEW i \in DOMAIN inbox, inbox[i].kind = "beacon"
               PROVE  silence'[inbox[i].peer] <= inbox[i].age + 1
    BY <1>7, <1>8 DEF BeaconsDated
  <2>1. silence[inbox[i].peer] <= inbox[i].age /\ silence[inbox[i].peer] \in Ages
    BY <1>1, <1>3, <1>7 DEF BeaconsDated
  <2> QED BY <2>1, <1>4, <1>7, OlderBounds
<1>13. \A p : Waiting(p)' <=> Waiting(p)
  BY <1>7, <1>8 DEF Waiting
<1>14. ASSUME NEW r \in robots PROVE Dated(Aged(r))'
  <2> DEFINE q == r.peer
  <2>1. /\ silence[q] \in Ages /\ r.age \in Ages /\ q \in Peers /\ Wait \in Nat /\ LOST \in Nat
        /\ Dated(r)
    BY <1>1, <1>3, <1>6, TimesAssumption DEF RosterFaithful, Dated
  <2>2. silence'[q] = Older(silence[q]) /\ Older(silence[q]) \in Ages /\ Older(r.age) \in Ages
    BY <2>1, <1>4, OlderBounds
  <2>3. Older(silence[q]) <= Older(r.age) /\ silence[q] <= Older(silence[q])
    BY <2>1, OlderBounds DEF Dated
  <2>4. ~Waiting(q) => Older(r.age) <= Older(silence[q]) + Wait
    BY <2>1, OlderBounds DEF Dated
  <2>5. ~Waiting(q) /\ r.warned => Older(silence[q]) + Wait > LOST
    <3>1. ~Waiting(q) /\ r.warned => silence[q] + Wait > LOST
      BY <2>1 DEF Dated
    <3> QED BY <3>1, <2>1, <2>2, <2>3 DEF Ages
  <2> QED BY <2>2, <2>3, <2>4, <2>5, <1>6, <1>13 DEF Dated
<1>15. RosterFaithful'
  <2>1. \A r, s \in robots : Aged(r).peer = Aged(s).peer => r = s
    BY <1>1, <1>6 DEF RosterFaithful
  <2>2. ASSUME NEW x \in robots', NEW y \in robots', x.peer = y.peer
        PROVE  x = y
    <3>1. PICK r \in robots : x = Aged(r)
      BY <1>2
    <3>2. PICK t \in robots : y = Aged(t)
      BY <1>2
    <3> QED BY <3>1, <3>2, <2>1, <2>2
  <2>3. ASSUME NEW x \in robots' PROVE Dated(x)'
    <3>1. PICK r \in robots : x = Aged(r)
      BY <1>2
    <3>2. Dated(Aged(r))'
      BY <1>14
    <3> QED BY <3>1, <3>2 DEF Dated
  <2> QED BY <2>2, <2>3 DEF RosterFaithful, Dated
<1> QED BY <1>10, <1>11, <1>12, <1>15 DEF RosterInv

LEMMA ArriveInv ==
  ASSUME RosterInv, NEW p \in Peers, NEW kind \in Kinds, Arrive(p, kind)
  PROVE  RosterInv'
<1> DEFINE m == [kind |-> kind, peer |-> p, age |-> 0]
<1>1. /\ TypeOK /\ RosterFaithful /\ BeaconsDated /\ InboxFresh
      /\ inbox \in Seq(Messages) /\ silence \in [Peers -> Ages] /\ waited \in Nat
      /\ robots \subseteq Robots /\ Wait \in Nat /\ MaxInbox \in Nat
  BY TimesAssumption DEF RosterInv, TypeOK
<1>2. /\ run = "no" /\ Len(inbox) < MaxInbox /\ inbox' = Append(inbox, m)
      /\ silence' = IF kind = "beacon" THEN [silence EXCEPT ![p] = 0] ELSE silence
      /\ UNCHANGED <<robots, run, signal, waited, untold>>
  BY DEF Arrive
<1>3. m \in Messages
  BY <1>1 DEF Messages
<1>4. /\ inbox' \in Seq(Messages) /\ Len(inbox') = Len(inbox) + 1
      /\ DOMAIN inbox' = DOMAIN inbox \cup {Len(inbox) + 1}
      /\ \A i \in DOMAIN inbox : inbox'[i] = inbox[i]
      /\ inbox'[Len(inbox) + 1] = m
  BY <1>1, <1>2, <1>3
<1>5. /\ silence' \in [Peers -> Ages]
      /\ \A q \in Peers : silence'[q] <= silence[q] /\ silence[q] \in Nat /\ silence'[q] \in Nat
      /\ \A q \in Peers : silence'[q] = silence[q] \/ (kind = "beacon" /\ q = p)
  BY <1>1, <1>2, TimesAssumption DEF Ages
<1>6. TypeOK'
  BY <1>1, <1>2, <1>4, <1>5 DEF TypeOK
<1>7. InboxFresh'
  BY <1>1, <1>2, <1>4 DEF InboxFresh
<1>8. BeaconsDated'
  <2> SUFFICES ASSUME NEW i \in DOMAIN inbox', inbox'[i].kind = "beacon"
               PROVE  silence'[inbox'[i].peer] <= inbox'[i].age
    BY DEF BeaconsDated
  <2>1. CASE i \in DOMAIN inbox
    <3>1. /\ inbox'[i] = inbox[i] /\ inbox[i] \in Messages
          /\ silence[inbox[i].peer] <= inbox[i].age
      BY <2>1, <1>1, <1>4 DEF BeaconsDated
    <3>2. inbox[i].peer \in Peers /\ inbox[i].age \in Nat
      BY <3>1 DEF Messages
    <3> QED BY <3>1, <3>2, <1>5
  <2>2. CASE i = Len(inbox) + 1
    <3>1. kind = "beacon" /\ silence'[p] = 0
      BY <2>2, <1>1, <1>2, <1>4
    <3> QED BY <3>1, <2>2, <1>4
  <2> QED BY <2>1, <2>2, <1>4
<1>9. /\ \A q : Waiting(q) => Waiting(q)'
      /\ kind = "beacon" => Waiting(p)'
  BY <1>4 DEF Waiting
<1>10. ASSUME NEW r \in robots PROVE Dated(r)'
  <2>1. r.peer \in Peers /\ r.age \in Nat /\ Dated(r)
    BY <1>1, TimesAssumption DEF Robots, Ages, RosterFaithful, Dated
  <2> QED BY <2>1, <1>1, <1>5, <1>9 DEF Dated
<1>11. RosterFaithful'
  BY <1>1, <1>2, <1>10 DEF RosterFaithful, Dated
<1> QED BY <1>6, <1>7, <1>8, <1>11 DEF RosterInv

(* Steps that leave robots, messages and history alone.                     *)
LEMMA FrameInv ==
  ASSUME RosterInv, UNCHANGED <<robots, inbox, silence>>, TypeOK', InboxFresh'
  PROVE  RosterInv'
BY DEF RosterInv, BeaconsDated, RosterFaithful, Waiting

(* A rule that writes one robot's fact, and takes a message or none.        *)
LEMMA ModifyInv ==
  ASSUME RosterInv, NEW r \in robots, NEW s \in Robots, Modify(r, s), s.peer = r.peer,
         UNCHANGED <<run, signal, untold, clock>>,
         inbox' \in Seq(Messages), Len(inbox') <= MaxInbox, InboxFresh', BeaconsDated',
         \A p : Waiting(p) /\ ~Waiting(p)' => p = r.peer,
         Dated(s)'
  PROVE  RosterInv'
<1>1. TypeOK /\ RosterFaithful /\ robots \subseteq Robots /\ silence' = silence
  BY DEF RosterInv, TypeOK, clock
<1>2. robots' = (robots \ {r}) \cup {s}
  BY DEF Modify
<1>3. TypeOK'
  BY <1>1, <1>2 DEF TypeOK, clock
<1>4. ASSUME NEW q \in robots \ {r} PROVE Dated(q)'
  <2>1. Dated(q) /\ q.peer # r.peer
    BY <1>1 DEF RosterFaithful, Dated
  <2> QED BY <2>1, <1>1 DEF Dated
<1>5. RosterFaithful'
  <2>1. \A q \in robots' : Dated(q)'
    BY <1>2, <1>4
  <2>2. \A q1, q2 \in robots' : q1.peer = q2.peer => q1 = q2
    BY <1>1, <1>2 DEF RosterFaithful
  <2> QED BY <2>1, <2>2 DEF RosterFaithful, Dated
<1> QED BY <1>3, <1>5 DEF RosterInv

LEMMA RobotLostInv == RosterInv /\ RobotLost => RosterInv'
<1> SUFFICES ASSUME RosterInv, RobotLost PROVE RosterInv'
  OBVIOUS
<1>1. PICK r \in robots : /\ Silent(r)
                          /\ Modify(r, [r EXCEPT !.warned = TRUE])
                          /\ UNCHANGED <<inbox, run, signal, untold, clock>>
  BY DEF RobotLost
<1> DEFINE s == [r EXCEPT !.warned = TRUE]
<1>2. /\ r \in Robots /\ Dated(r) /\ silence \in [Peers -> Ages] /\ r.age > LOST
      /\ Wait \in Nat /\ LOST \in Nat /\ REMOVE \in Nat
  BY <1>1, TimesAssumption DEF RosterInv, TypeOK, RosterFaithful, Dated, Silent
<1>3. s \in Robots /\ s.peer = r.peer /\ s.age = r.age
  BY <1>2 DEF Robots
<1>4. /\ inbox' \in Seq(Messages) /\ Len(inbox') <= MaxInbox /\ InboxFresh' /\ BeaconsDated'
      /\ \A p : Waiting(p)' <=> Waiting(p)
  BY <1>1 DEF RosterInv, TypeOK, InboxFresh, BeaconsDated, Waiting, clock
<1>5. Dated(s)'
  <2>1. silence' = silence
    BY <1>1 DEF clock
  <2>2. silence[r.peer] \in Nat /\ r.age \in Nat
    BY <1>2 DEF Robots, Ages
  <2>3. ~Waiting(r.peer) => silence[r.peer] + Wait > LOST
    BY <1>2, <2>2 DEF Dated
  <2> QED BY <2>1, <2>3, <1>2, <1>3, <1>4 DEF Dated
<1> QED BY <1>1, <1>3, <1>4, <1>5, ModifyInv

LEMMA RobotRemoveInv == RosterInv /\ RobotRemove => RosterInv'
BY DEF RosterInv, TypeOK, InboxFresh, BeaconsDated, RosterFaithful, Waiting, RobotRemove, clock

LEMMA BeaconKnownInv == RosterInv /\ BeaconKnown => RosterInv'
<1> SUFFICES ASSUME RosterInv, BeaconKnown PROVE RosterInv'
  OBVIOUS
<1>1. PICK i \in DOMAIN inbox, r \in robots :
        /\ run # "no" /\ inbox[i].kind = "beacon" /\ r.peer = inbox[i].peer
        /\ inbox' = RemoveAt(inbox, i)
        /\ Modify(r, [r EXCEPT !.age = inbox[i].age, !.warned = FALSE])
        /\ UNCHANGED <<run, signal, untold, clock>>
  BY DEF BeaconKnown, From
<1>0. PICK s : s = [r EXCEPT !.age = inbox[i].age, !.warned = FALSE]
  OBVIOUS
<1>2. /\ inbox' \in Seq(Messages) /\ Len(inbox') <= MaxInbox /\ InboxFresh' /\ BeaconsDated'
      /\ \A p : Waiting(p) /\ ~Waiting(p)' => p = r.peer
  BY <1>1, TakeMessage
<1>3. /\ r \in Robots /\ inbox[i] \in Messages /\ silence \in [Peers -> Ages]
      /\ silence[inbox[i].peer] <= inbox[i].age /\ silence' = silence
  BY <1>1 DEF RosterInv, TypeOK, BeaconsDated, clock
<1>4. /\ inbox[i].age \in 0 .. Wait /\ inbox[i].age \in Ages
      /\ silence[r.peer] \in Nat /\ Wait \in Nat
  BY <1>1, <1>3, TimesAssumption DEF Messages, Ages, Robots
<1>5. s \in Robots /\ s.peer = r.peer /\ s.age = inbox[i].age /\ ~s.warned
  BY <1>0, <1>3, <1>4 DEF Robots
<1>6. Dated(s)'
  BY <1>1, <1>3, <1>4, <1>5 DEF Dated
<1> QED BY <1>0, <1>1, <1>2, <1>5, <1>6, ModifyInv

LEMMA BeaconUnknownInv == RosterInv /\ BeaconUnknown => RosterInv'
<1> SUFFICES ASSUME RosterInv, BeaconUnknown PROVE RosterInv'
  OBVIOUS
<1>1. PICK i \in DOMAIN inbox :
        /\ run # "no" /\ inbox[i].kind = "beacon"
        /\ \A r \in robots : r.peer # inbox[i].peer
        /\ Register(i)
        /\ signal' = [count |-> 0, age |-> REMOVE + 1]
        /\ UNCHANGED <<run, clock>>
  BY DEF BeaconUnknown, From
<1>0. PICK s : s = [peer |-> inbox[i].peer, age |-> inbox[i].age, warned |-> FALSE, logging |-> FALSE]
  OBVIOUS
<1>2. /\ inbox' \in Seq(Messages) /\ Len(inbox') <= MaxInbox /\ InboxFresh' /\ BeaconsDated'
      /\ \A p : Waiting(p) /\ ~Waiting(p)' => p = inbox[i].peer
  BY <1>1, TakeMessage DEF Register
<1>3. /\ TypeOK /\ RosterFaithful /\ robots \subseteq Robots
      /\ inbox[i] \in Messages /\ silence \in [Peers -> Ages]
      /\ silence[inbox[i].peer] <= inbox[i].age /\ silence' = silence
  BY <1>1 DEF RosterInv, TypeOK, BeaconsDated, clock
<1>4. /\ inbox[i].age \in 0 .. Wait /\ inbox[i].age \in Ages /\ inbox[i].peer \in Peers
      /\ silence[inbox[i].peer] \in Nat /\ Wait \in Nat
  BY <1>3, TimesAssumption DEF Messages, Ages
<1>5. s \in Robots /\ robots' = robots \cup {s} /\ untold' = untold \cup {inbox[i].peer}
  BY <1>0, <1>1, <1>4 DEF Robots, Register
<1>6. TypeOK'
  <2>1. signal' \in [count : 0 .. COUNT, age : Ages]
    BY <1>1, TimesAssumption DEF Ages
  <2> QED BY <2>1, <1>1, <1>2, <1>3, <1>4, <1>5 DEF TypeOK, clock
<1>7. Dated(s)'
  BY <1>0, <1>3, <1>4 DEF Dated
<1>8. ASSUME NEW q \in robots PROVE Dated(q)'
  <2>1. Dated(q) /\ q.peer # inbox[i].peer
    BY <1>1, <1>3 DEF RosterFaithful, Dated
  <2> QED BY <2>1, <1>2, <1>3 DEF Dated
<1>9. RosterFaithful'
  <2>1. \A q \in robots' : Dated(q)'
    BY <1>5, <1>7, <1>8
  <2>2. \A q1, q2 \in robots' : q1.peer = q2.peer => q1 = q2
    <3>1. s.peer = inbox[i].peer
      BY <1>0
    <3>2. \A q1, q2 \in robots : q1.peer = q2.peer => q1 = q2
      BY <1>3 DEF RosterFaithful
    <3> QED BY <3>1, <3>2, <1>1, <1>5
  <2> QED BY <2>1, <2>2 DEF RosterFaithful, Dated
<1> QED BY <1>2, <1>6, <1>9 DEF RosterInv

LEMMA LoggingStatusInv == RosterInv /\ LoggingStatus => RosterInv'
<1> SUFFICES ASSUME RosterInv, LoggingStatus PROVE RosterInv'
  OBVIOUS
<1>1. PICK i \in DOMAIN inbox, r \in robots :
        /\ run # "no" /\ inbox[i].kind # "beacon"
        /\ inbox' = RemoveAt(inbox, i)
        /\ Modify(r, [r EXCEPT !.logging = inbox[i].kind = "logging"])
        /\ UNCHANGED <<run, signal, untold, clock>>
  BY DEF LoggingStatus
<1>0. PICK s : s = [r EXCEPT !.logging = inbox[i].kind = "logging"]
  OBVIOUS
<1>2. /\ inbox' \in Seq(Messages) /\ Len(inbox') <= MaxInbox /\ InboxFresh' /\ BeaconsDated'
      /\ \A p : Waiting(p) => Waiting(p)'
  BY <1>1, TakeMessage
<1>3. r \in Robots /\ Dated(r) /\ silence' = silence
  BY <1>1 DEF RosterInv, TypeOK, RosterFaithful, Dated, clock
<1>4. s \in Robots /\ s.peer = r.peer /\ s.age = r.age /\ s.warned = r.warned
  BY <1>0, <1>3 DEF Robots
<1>5. Dated(s)'
  BY <1>2, <1>3, <1>4 DEF Dated
<1> QED BY <1>0, <1>1, <1>2, <1>4, <1>5, ModifyInv

LEMMA CleanUpInv == RosterInv /\ CleanUp => RosterInv'
<1> SUFFICES ASSUME RosterInv, CleanUp PROVE RosterInv'
  OBVIOUS
<1>1. PICK i \in DOMAIN inbox :
        /\ run # "no" /\ inbox[i].kind # "beacon"
        /\ inbox' = RemoveAt(inbox, i)
        /\ UNCHANGED <<robots, run, signal, untold, clock>>
  BY DEF CleanUp, Settled
<1>2. /\ inbox' \in Seq(Messages) /\ Len(inbox') <= MaxInbox /\ InboxFresh' /\ BeaconsDated'
      /\ \A p : Waiting(p) => Waiting(p)'
  BY <1>1, TakeMessage
<1>3. TypeOK' /\ RosterFaithful /\ silence' = silence /\ robots' = robots
  BY <1>1, <1>2 DEF RosterInv, TypeOK, clock
<1>4. RosterFaithful'
  BY <1>2, <1>3 DEF RosterFaithful
<1> QED BY <1>2, <1>3, <1>4 DEF RosterInv

-----------------------------------------------------------------------------
(* The inductive invariant holds of every behaviour.                        *)
THEOREM RosterInvariance == Spec => []RosterInv
<1>1. RosterInv /\ [Next]_vars => RosterInv'
  <2> SUFFICES ASSUME RosterInv, [Next]_vars PROVE RosterInv'
    OBVIOUS
  <2>1. CASE Tick
    BY <2>1, TickInv
  <2>2. CASE \E p \in Peers, kind \in Kinds : Arrive(p, kind)
    BY <2>2, ArriveInv
  <2>3. CASE StartTimed
    <3>1. TypeOK' /\ InboxFresh' /\ UNCHANGED <<robots, inbox, silence>>
      BY <2>3, TimesAssumption DEF RosterInv, TypeOK, InboxFresh, StartTimed, facts
    <3> QED BY <3>1, FrameInv
  <2>4. CASE StartPlain
    <3>1. TypeOK' /\ InboxFresh' /\ UNCHANGED <<robots, inbox, silence>>
      BY <2>4 DEF RosterInv, TypeOK, InboxFresh, StartPlain, facts, clock
    <3> QED BY <3>1, FrameInv
  <2>5. CASE RobotLost
    BY <2>5, RobotLostInv
  <2>6. CASE RobotRemove
    BY <2>6, RobotRemoveInv
  <2>7. CASE BeaconKnown
    BY <2>7, BeaconKnownInv
  <2>8. CASE BeaconUnknown
    BY <2>8, BeaconUnknownInv
  <2>9. CASE LoggingStatus
    BY <2>9, LoggingStatusInv
  <2>10. CASE SendVersionInfo
    <3>1. /\ signal' = [count |-> signal.count + 1, age |-> 0] /\ signal.count < COUNT
          /\ untold' = {} /\ UNCHANGED <<robots, inbox, run, waited, silence>>
      BY <2>10 DEF SendVersionInfo, Due, clock
    <3>2. signal' \in [count : 0 .. COUNT, age : Ages]
      BY <3>1, TimesAssumption DEF RosterInv, TypeOK, Ages
    <3>3. TypeOK' /\ InboxFresh'
      BY <3>1, <3>2 DEF RosterInv, TypeOK, InboxFresh
    <3> QED BY <3>1, <3>3, FrameInv
  <2>11. CASE CleanUp
    BY <2>11, CleanUpInv
  <2>12. CASE EndRun
    <3>1. TypeOK' /\ InboxFresh' /\ UNCHANGED <<robots, inbox, silence>>
      BY <2>12 DEF RosterInv, TypeOK, InboxFresh, EndRun, facts, clock
    <3> QED BY <3>1, FrameInv
  <2>13. CASE UNCHANGED vars
    BY <2>13 DEF vars, RosterInv, TypeOK, InboxFresh, BeaconsDated, RosterFaithful, Waiting
  <2> QED BY <2>1, <2>2, <2>3, <2>4, <2>5, <2>6, <2>7, <2>8, <2>9, <2>10, <2>11, <2>12, <2>13
          DEF Next
<1> QED BY <1>1, InitInv, PTL DEF Spec

(* A robot has one fact, dated as its beacons came, and no warning stands   *)
(* against one that was heard (robot-lost, net-recv-beacon-known).          *)
THEOREM RosterKept == Spec => []RosterFaithful
<1>1. RosterInv => RosterFaithful
  BY DEF RosterInv
<1> QED BY <1>1, RosterInvariance, PTL

(* Every variable keeps its type.                                           *)
THEOREM RosterTypes == Spec => []TypeOK
<1>1. RosterInv => TypeOK
  BY DEF RosterInv
<1> QED BY <1>1, RosterInvariance, PTL
=============================================================================
