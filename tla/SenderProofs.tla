----------------------------- MODULE SenderProofs -----------------------------
(* Machine-checked proofs about the two senders, for any bounds:            *)
(* BroadcastPeer, where what is received once is handed on once and what is *)
(* sent leaves in order, for any number of peers, keys and messages; and    *)
(* StreamClient, which always tries to be connected and whose messages      *)
(* leave in order over all its connections.                                 *)
EXTENDS BroadcastPeer, StreamClient, SequenceTheorems, TLAPS

-----------------------------------------------------------------------------
(* The receiving half.                                                      *)

ReceiverTypes ==
  /\ key \in [Nodes -> Ciphers] /\ cryptoBuf \in [Nodes -> BOOLEAN]
  /\ into \in [Nodes -> {"in_data", "enc_in_data"}]
  /\ inData \in [Nodes -> [cipher : BOOLEAN, text : Messages \cup {Garbage}]]
  /\ arrived \in [Nodes -> [Messages -> Nat]] /\ delivered \in [Nodes -> [Messages -> Nat]]
  /\ mixed \subseteq Nodes

(* What makes NoReplay inductive: the flag that says which buffer to use    *)
(* is that of the buffer the receive was started with, unless a key was     *)
(* changed under it.                                                        *)
BufferKnown == \A n \in Nodes \ mixed : cryptoBuf[n] <=> into[n] = "enc_in_data"

ReceiveInv == ReceiverTypes /\ BufferKnown /\ NoReplay

LEMMA ReceiveInit == Init => ReceiveInv
<1> SUFFICES ASSUME Init PROVE ReceiveInv
  OBVIOUS
<1>1. /\ key \in [Nodes -> Ciphers]
      /\ cryptoBuf = [n \in Nodes |-> key[n] # NoKey]
      /\ into = [n \in Nodes |-> IF key[n] # NoKey THEN "enc_in_data" ELSE "in_data"]
      /\ inData = [n \in Nodes |-> [cipher |-> FALSE, text |-> Garbage]]
      /\ arrived = [n \in Nodes |-> [m \in Messages |-> 0]] /\ delivered = arrived
      /\ mixed = {}
  BY DEF Init
<1>2. ReceiverTypes
  BY <1>1 DEF ReceiverTypes
<1>3. BufferKnown
  BY <1>1 DEF BufferKnown
<1>4. NoReplay
  BY <1>1 DEF NoReplay
<1> QED BY <1>2, <1>3, <1>4 DEF ReceiveInv

(* What handle_recv finds to hand on is the text of the datagram, or        *)
(* nothing, when the buffer is known and no plain text met a key.           *)
LEMMA FoundText ==
  ASSUME ReceiveInv, NEW n \in Nodes, NEW d \in Datagrams, NEW f \in Found(n, d)
  PROVE  /\ f.data \in [cipher : BOOLEAN, text : Messages \cup {Garbage}]
         /\ n \notin mixed /\ ~(cryptoBuf[n] /\ ~Encrypted(d)) /\ f.fits
              => f.data.text \in {d.msg, Garbage}
<1> DEFINE in == Filled(n, d)
<1>1. d.msg \in Messages /\ Encrypted(d) \in BOOLEAN
  BY DEF Datagrams, Encrypted
<1>2. inData[n] \in [cipher : BOOLEAN, text : Messages \cup {Garbage}]
  BY DEF ReceiveInv, ReceiverTypes
<1>3. in \in [cipher : BOOLEAN, text : Messages \cup {Garbage}]
  BY <1>1, <1>2 DEF Filled
<1>4. into[n] # "enc_in_data" => in.text \in {d.msg, Garbage}
  BY DEF Filled
<1>5. n \notin mixed => (cryptoBuf[n] <=> into[n] = "enc_in_data")
  BY DEF ReceiveInv, BufferKnown
<1> HIDE DEF in
<1>6. CASE ~cryptoBuf[n]
  <2>1. f.data = in
    BY <1>6 DEF Found, in
  <2> QED BY <1>3, <1>4, <1>5, <1>6, <2>1
<1>7. CASE cryptoBuf[n] /\ ~Encrypted(d)
  <2>1. f.data = in
    BY <1>7 DEF Found, in
  <2> QED BY <1>3, <1>7, <2>1
<1>8. CASE cryptoBuf[n] /\ Encrypted(d) /\ d.key = key[n]
  <2>1. f.data = [cipher |-> TRUE, text |-> d.msg]
    BY <1>8 DEF Found
  <2> QED BY <1>1, <2>1
<1>9. CASE cryptoBuf[n] /\ Encrypted(d) /\ d.key # key[n]
  <2>1. PICK t \in {in.text, Garbage} : f = [data |-> [cipher |-> TRUE, text |-> t], fits |-> FALSE]
    BY <1>9 DEF Found, in
  <2>2. t \in Messages \cup {Garbage}
    BY <1>3, <2>1
  <2> QED BY <2>1, <2>2
<1> QED BY <1>6, <1>7, <1>8, <1>9

LEMMA ReceiveRecv ==
  ASSUME ReceiveInv, NEW n \in Nodes, NEW d \in Datagrams, HandleRecv(n, d)
  PROVE  ReceiveInv'
<1>1. PICK f \in Found(n, d) :
        /\ inData' = [inData EXCEPT ![n] = f.data]
        /\ delivered' = IF f.fits /\ f.data.text # Garbage /\ d.msg[1] # n
                        THEN [delivered EXCEPT ![n][f.data.text] = @ + 1]
                        ELSE delivered
  BY DEF HandleRecv
<1>2. /\ arrived' = [arrived EXCEPT ![n][d.msg] = @ + 1]
      /\ mixed' = IF cryptoBuf[n] /\ ~Encrypted(d) THEN mixed \cup {n} ELSE mixed
      /\ cryptoBuf' = [cryptoBuf EXCEPT ![n] = key[n] # NoKey]
      /\ into' = [into EXCEPT ![n] = IF key[n] # NoKey THEN "enc_in_data" ELSE "in_data"]
      /\ key' = key
  BY DEF HandleRecv
<1>3. ReceiverTypes
  BY DEF ReceiveInv
<1>4. d.msg \in Messages
  BY DEF Datagrams
<1>5. /\ f.data \in [cipher : BOOLEAN, text : Messages \cup {Garbage}]
      /\ n \notin mixed' /\ f.fits => f.data.text \in {d.msg, Garbage}
  BY <1>2, FoundText
<1>6. ReceiverTypes'
  <2>1. inData' \in [Nodes -> [cipher : BOOLEAN, text : Messages \cup {Garbage}]]
    BY <1>1, <1>3, <1>5 DEF ReceiverTypes
  <2>2. arrived' \in [Nodes -> [Messages -> Nat]]
    BY <1>2, <1>3, <1>4 DEF ReceiverTypes
  <2>3. delivered' \in [Nodes -> [Messages -> Nat]]
    BY <1>1, <1>3, <1>5 DEF ReceiverTypes
  <2>4. mixed' \subseteq Nodes /\ cryptoBuf' \in [Nodes -> BOOLEAN]
        /\ into' \in [Nodes -> {"in_data", "enc_in_data"}] /\ key' \in [Nodes -> Ciphers]
    BY <1>2, <1>3 DEF ReceiverTypes
  <2> QED BY <2>1, <2>2, <2>3, <2>4 DEF ReceiverTypes
<1>7. BufferKnown'
  BY <1>2, <1>3 DEF ReceiveInv, ReceiverTypes, BufferKnown
<1>8. ASSUME NEW k \in Nodes \ mixed', NEW m \in Messages
      PROVE  delivered'[k][m] <= arrived'[k][m]
  <2>1. k \in Nodes \ mixed
    BY <1>2
  <2>2. delivered[k][m] <= arrived[k][m]
    BY <2>1 DEF ReceiveInv, NoReplay
  <2>3. delivered[k][m] \in Nat /\ arrived[k][m] \in Nat
    BY <1>3 DEF ReceiverTypes
  <2>4. arrived'[k][m] = IF k = n /\ m = d.msg THEN arrived[k][m] + 1 ELSE arrived[k][m]
    BY <1>2, <1>3, <1>4 DEF ReceiverTypes
  <2>5. CASE f.fits /\ f.data.text # Garbage /\ d.msg[1] # n
    <3>1. delivered'[k][m] = IF k = n /\ m = f.data.text THEN delivered[k][m] + 1
                                                        ELSE delivered[k][m]
      BY <1>1, <1>3, <1>5, <2>5 DEF ReceiverTypes
    <3>2. k = n => f.data.text = d.msg
      BY <1>5, <2>5
    <3> QED BY <2>2, <2>3, <2>4, <3>1, <3>2
  <2>6. CASE ~(f.fits /\ f.data.text # Garbage /\ d.msg[1] # n)
    BY <1>1, <2>2, <2>3, <2>4, <2>6
  <2> QED BY <2>5, <2>6
<1> QED BY <1>6, <1>7, <1>8 DEF ReceiveInv, NoReplay

-----------------------------------------------------------------------------
(* The sending half.                                                        *)

SenderTypes ==
  /\ active \in [Nodes -> BOOLEAN] /\ queue \in [Nodes -> Seq(1 .. MaxSent)]
  /\ sending \in [Nodes -> Seq(Datagrams)] /\ air \subseteq Datagrams
  /\ resolve \in [Nodes -> {"pending", "ok", "failed"}]
  /\ key \in [Nodes -> Ciphers] /\ calls \in [Nodes -> SUBSET {"app", "asio"}]
  /\ taken \in [Nodes -> 0 .. MaxSent] /\ given \in [Nodes -> Seq(1 .. MaxSent)]

(* The newest of a sequence of numbers, as OrderedPipe has it.              *)
Last(s) == IF s = <<>> THEN 0 ELSE s[Len(s)]

LEMMA LastProperties ==
  ASSUME NEW s \in Seq(1 .. MaxSent)
  PROVE  /\ Last(s) \in Nat
         /\ \A m \in 1 .. MaxSent : Last(Append(s, m)) = m
<1>1. CASE s = <<>>
  BY <1>1, AppendProperties DEF Last
<1>2. CASE s # <<>>
  <2>1. Len(s) \in 1 .. Len(s)
    BY <1>2, LenProperties, EmptySeq
  <2>2. s[Len(s)] \in 1 .. MaxSent
    BY <2>1, ElementOfSeq
  <2>3. ASSUME NEW m \in 1 .. MaxSent PROVE Last(Append(s, m)) = m
    BY AppendProperties DEF Last
  <2> QED BY <1>2, <2>2, <2>3, PeerBounds DEF Last
<1> QED BY <1>1, <1>2

(* The queue holds the latest messages, one at most is being sent, the one  *)
(* before them, and what has reached the network is older still.  The       *)
(* constructor's value of outbound_active_ keeps the first message back     *)
(* until the address is resolved.                                           *)
Flow(n) ==
  /\ Len(queue[n]) <= taken[n]
  /\ \A i \in 1 .. Len(queue[n]) : queue[n][i] = (taken[n] - Len(queue[n])) + i
  /\ sending[n] = <<>> \/ Len(sending[n]) = 1
  /\ resolve[n] = "pending" => sending[n] = <<>> /\ active[n]
  /\ sending[n] = <<>> => Last(given[n]) <= taken[n] - Len(queue[n])
  /\ sending[n] # <<>> => /\ active[n]
                          /\ Head(sending[n]).msg[2] = taken[n] - Len(queue[n])
                          /\ Last(given[n]) < taken[n] - Len(queue[n])

SendInv == SenderTypes /\ \A n \in Nodes : Flow(n)

LEMMA SendInit == Init => SendInv
<1> SUFFICES ASSUME Init PROVE SendInv
  OBVIOUS
<1>1. /\ queue = [n \in Nodes |-> <<>>] /\ sending = [n \in Nodes |-> <<>>]
      /\ active = [n \in Nodes |-> TRUE] /\ resolve = [n \in Nodes |-> "pending"]
      /\ taken = [n \in Nodes |-> 0] /\ given = [n \in Nodes |-> <<>>]
      /\ calls = [n \in Nodes |-> {}] /\ key \in [Nodes -> Ciphers] /\ air = {}
  BY DEF Init
<1>2. SenderTypes
  BY <1>1, PeerBounds, EmptySeq DEF SenderTypes
<1>3. ASSUME NEW n \in Nodes PROVE Flow(n)
  BY <1>1 DEF Flow, Last
<1> QED BY <1>2, <1>3 DEF SendInv

(* What the step of one peer leaves of the others.                          *)
Untouched(n) ==
  \A k \in Nodes \ {n} :
     /\ active'[k] = active[k] /\ queue'[k] = queue[k] /\ sending'[k] = sending[k]
     /\ resolve'[k] = resolve[k] /\ taken'[k] = taken[k] /\ given'[k] = given[k]

LEMMA SendFrame ==
  ASSUME SendInv, NEW n \in Nodes, SenderTypes', Untouched(n), Flow(n)'
  PROVE  SendInv'
<1>1. ASSUME NEW k \in Nodes PROVE Flow(k)'
  <2>1. CASE k = n
    BY <2>1
  <2>2. CASE k # n
    BY <2>2 DEF SendInv, Untouched, Flow, Last
  <2> QED BY <2>1, <2>2
<1> QED BY <1>1 DEF SendInv

LEMMA SendSend ==
  ASSUME SendInv, NEW n \in Nodes, Send(n)
  PROVE  /\ SendInv' /\ Untouched(n)
         /\ taken'[n] = taken[n] + 1 /\ given'[n] = given[n]
<1>1. /\ taken[n] < MaxSent /\ taken' = [taken EXCEPT ![n] = @ + 1]
      /\ queue' = [queue EXCEPT ![n] = Append(@, taken'[n])]
      /\ calls' = [calls EXCEPT ![n] = @ \cup {"app"}]
      /\ UNCHANGED <<resolve, active, sending, key, air, given>>
  BY DEF Send, receiver
<1>2. SenderTypes
  BY DEF SendInv
<1>3. taken'[n] = taken[n] + 1 /\ taken'[n] \in 1 .. MaxSent
  BY <1>1, <1>2, PeerBounds DEF SenderTypes
<1>4. queue'[n] = Append(queue[n], taken[n] + 1) /\ queue[n] \in Seq(1 .. MaxSent)
  BY <1>1, <1>2, <1>3 DEF SenderTypes
<1>5. SenderTypes'
  BY <1>1, <1>2, <1>3, <1>4, PeerBounds DEF SenderTypes
<1>6. Untouched(n)
  BY <1>1, <1>2 DEF SenderTypes, Untouched
<1>7. Flow(n)'
  <2>1. Flow(n)
    BY DEF SendInv
  <2>2. Len(queue'[n]) = Len(queue[n]) + 1
    BY <1>4
  <2>3. \A i \in 1 .. Len(queue'[n]) :
          queue'[n][i] = IF i <= Len(queue[n]) THEN queue[n][i] ELSE taken[n] + 1
    BY <1>4
  <2>4. taken[n] \in Nat /\ Len(queue[n]) \in Nat
    BY <1>2, <1>4, PeerBounds DEF SenderTypes
  <2>5. taken'[n] - Len(queue'[n]) = taken[n] - Len(queue[n])
    BY <1>3, <2>2, <2>4
  <2> QED BY <1>1, <1>3, <2>1, <2>2, <2>3, <2>4, <2>5 DEF Flow, Last
<1> QED BY <1>1, <1>3, <1>5, <1>6, <1>7, SendFrame

LEMMA SendStart ==
  ASSUME SendInv, NEW n \in Nodes, NEW t \in {"app", "asio"}, StartSend(n, t)
  PROVE  SendInv' /\ UNCHANGED <<taken, given>>
<1>1. /\ calls' = [calls EXCEPT ![n] = @ \ {t}]
      /\ UNCHANGED <<resolve, key, air, taken, given>>
  BY DEF StartSend
<1>2. SenderTypes /\ Flow(n)
  BY DEF SendInv
<1>3. CASE UNCHANGED <<active, queue, sending>>
  <2>1. SenderTypes'
    BY <1>1, <1>2, <1>3 DEF SenderTypes
  <2> QED BY <1>1, <1>2, <1>3, <2>1, SendFrame DEF Untouched, Flow, Last
<1>4. CASE queue[n] # <<>> /\ ~active[n] /\ ~UNCHANGED <<active, queue, sending>>
  <2> DEFINE d == [msg |-> <<n, Head(queue[n])>>, key |-> key[n]]
  <2>1. /\ active' = [active EXCEPT ![n] = TRUE]
        /\ queue' = [queue EXCEPT ![n] = Tail(@)]
        /\ sending' = [sending EXCEPT ![n] = Append(@, d)]
    BY <1>4 DEF StartSend
  <2>2. /\ queue[n] \in Seq(1 .. MaxSent) /\ Head(queue[n]) \in 1 .. MaxSent
        /\ Tail(queue[n]) \in Seq(1 .. MaxSent)
        /\ Len(Tail(queue[n])) = Len(queue[n]) - 1
        /\ \A i \in 1 .. Len(queue[n]) - 1 : Tail(queue[n])[i] = queue[n][i + 1]
        /\ Head(queue[n]) = queue[n][1] /\ Len(queue[n]) \in Nat \ {0}
    <3>1. queue[n] \in Seq(1 .. MaxSent) /\ queue[n] # <<>>
      BY <1>2, <1>4 DEF SenderTypes
    <3>2. Len(queue[n]) \in Nat \ {0}
      BY <3>1, EmptySeq
    <3>3. /\ Head(queue[n]) \in 1 .. MaxSent /\ Tail(queue[n]) \in Seq(1 .. MaxSent)
          /\ Len(Tail(queue[n])) = Len(queue[n]) - 1
          /\ \A i \in 1 .. Len(Tail(queue[n])) : Tail(queue[n])[i] = queue[n][i + 1]
      BY <3>1, HeadTailProperties
    <3>4. Head(queue[n]) = queue[n][1]
      BY <3>1
    <3> QED BY <3>1, <3>2, <3>3, <3>4
  <2>3. d \in Datagrams /\ d.msg[2] = Head(queue[n])
    BY <1>2, <2>2 DEF SenderTypes, Datagrams, Messages
  <2> HIDE DEF d
  <2>4. sending[n] = <<>>
    BY <1>2, <1>4 DEF Flow
  <2>5. sending'[n] = <<d>>
    BY <1>2, <2>1, <2>4 DEF SenderTypes
  <2>6. SenderTypes'
    <3>1. sending' \in [Nodes -> Seq(Datagrams)]
      BY <1>2, <2>1, <2>3 DEF SenderTypes
    <3> QED BY <1>1, <1>2, <2>1, <2>2, <3>1 DEF SenderTypes
  <2>7. Untouched(n)
    BY <1>1, <1>2, <2>1 DEF SenderTypes, Untouched
  <2>8. queue'[n] = Tail(queue[n]) /\ active'[n] = TRUE
    BY <1>2, <2>1 DEF SenderTypes
  <2>9. taken[n] \in Nat /\ resolve[n] # "pending"
    BY <1>2, <1>4, PeerBounds DEF SenderTypes, Flow
  <2>10. Head(queue[n]) = (taken[n] - Len(queue[n])) + 1
    BY <1>2, <2>2, <2>9 DEF Flow
  <2>11. Last(given[n]) <= taken[n] - Len(queue[n])
    BY <1>2, <2>4 DEF Flow
  <2>12. Last(given[n]) \in Nat
    BY <1>2, LastProperties DEF SenderTypes
  <2>13. taken[n] - Len(queue'[n]) = (taken[n] - Len(queue[n])) + 1
    BY <2>2, <2>8, <2>9
  <2>14. /\ Len(queue'[n]) <= taken'[n]
         /\ \A i \in 1 .. Len(queue'[n]) : queue'[n][i] = (taken'[n] - Len(queue'[n])) + i
    <3>1. Len(queue'[n]) = Len(queue[n]) - 1 /\ taken'[n] = taken[n]
      BY <1>1, <2>2, <2>8
    <3>2. Len(queue[n]) <= taken[n]
          /\ \A i \in 1 .. Len(queue[n]) : queue[n][i] = (taken[n] - Len(queue[n])) + i
      BY <1>2 DEF Flow
    <3>3. ASSUME NEW i \in 1 .. Len(queue'[n])
          PROVE  queue'[n][i] = (taken'[n] - Len(queue'[n])) + i
      <4>1. i \in 1 .. Len(queue[n]) - 1 /\ i + 1 \in 1 .. Len(queue[n])
        BY <2>2, <3>1
      <4>2. queue'[n][i] = queue[n][i + 1]
        BY <2>2, <2>8, <4>1, Zenon
      <4>3. queue[n][i + 1] = (taken[n] - Len(queue[n])) + (i + 1)
        BY <3>2, <4>1
      <4>4. taken[n] \in Int /\ Len(queue[n]) \in Int /\ i \in Int
        BY <2>2, <2>9, <4>1
      <4>5. (taken'[n] - Len(queue'[n])) + i = (taken[n] - Len(queue[n])) + (i + 1)
        <5>1. (taken[n] - (Len(queue[n]) - 1)) + i = (taken[n] - Len(queue[n])) + (i + 1)
          BY <4>4
        <5> QED BY <3>1, <5>1, Zenon
      <4> QED BY <4>2, <4>3, <4>5, Zenon
    <3>4. Len(queue'[n]) <= taken'[n]
      BY <2>2, <2>9, <3>1, <3>2
    <3> QED BY <3>3, <3>4
  <2>15. sending'[n] # <<>> /\ Len(sending'[n]) = 1 /\ Head(sending'[n]) = d
    BY <2>5
  <2>16. Flow(n)'
    <3>1. resolve'[n] # "pending" /\ given'[n] = given[n] /\ taken'[n] = taken[n]
      BY <1>1, <2>9
    <3>2. Head(sending'[n]).msg[2] = taken'[n] - Len(queue'[n])
      BY <2>3, <2>10, <2>13, <2>15, <3>1
    <3>3. Last(given[n]) < taken[n] - Len(queue'[n])
      BY <2>2, <2>9, <2>11, <2>12, <2>13
    <3> QED BY <2>8, <2>14, <2>15, <3>1, <3>2, <3>3 DEF Flow, Last
  <2> QED BY <1>1, <2>6, <2>7, <2>16, SendFrame
<1> QED BY <1>3, <1>4 DEF StartSend

(* The end of a send, with or without success.                              *)
LEMMA SendSent ==
  ASSUME SendInv, NEW n \in Nodes, HandleSent(n)
  PROVE  /\ SendInv' /\ Untouched(n) /\ taken' = taken
         /\ \/ given'[n] = given[n]
            \/ \E m \in (Last(given[n]) + 1) .. taken[n] : given'[n] = Append(given[n], m)
<1> DEFINE d == Head(sending[n])
<1>1. /\ sending[n] # <<>> /\ sending' = [sending EXCEPT ![n] = Tail(@)]
      /\ active' = [active EXCEPT ![n] = FALSE]
      /\ calls' = [calls EXCEPT ![n] = @ \cup {"asio"}]
      /\ \/ given' = [given EXCEPT ![n] = Append(@, d.msg[2])] /\ air' = air \cup {d}
         \/ UNCHANGED <<given, air>>
      /\ UNCHANGED <<resolve, queue, key, taken>>
  BY DEF HandleSent, Reach
<1>2. SenderTypes /\ Flow(n)
  BY DEF SendInv
<1>3. sending[n] \in Seq(Datagrams) /\ Len(sending[n]) = 1
  BY <1>1, <1>2 DEF SenderTypes, Flow
<1>4. d \in Datagrams /\ Tail(sending[n]) = <<>> /\ Tail(sending[n]) \in Seq(Datagrams)
  <2>1. /\ Head(sending[n]) \in Datagrams /\ Tail(sending[n]) \in Seq(Datagrams)
        /\ Len(Tail(sending[n])) = 0
    BY <1>1, <1>3, HeadTailProperties
  <2>2. Tail(sending[n]) = <<>>
    BY <2>1, EmptySeq
  <2> QED BY <2>1, <2>2
<1>5. d.msg[2] \in 1 .. MaxSent
  BY <1>4 DEF Datagrams, Messages
<1>6. /\ d.msg[2] = taken[n] - Len(queue[n]) /\ Last(given[n]) < taken[n] - Len(queue[n])
      /\ active[n] /\ resolve[n] # "pending"
  BY <1>1, <1>2 DEF Flow
<1> HIDE DEF d
<1>7. given[n] \in Seq(1 .. MaxSent) /\ taken[n] \in Nat /\ Len(queue[n]) \in Nat
  BY <1>2, PeerBounds DEF SenderTypes
<1>8. SenderTypes'
  <2>1. given \in [Nodes -> Seq(1 .. MaxSent)] /\ air \subseteq Datagrams
    BY <1>2 DEF SenderTypes
  <2>2. Append(given[n], d.msg[2]) \in Seq(1 .. MaxSent)
    BY <1>5, <1>7, AppendProperties
  <2>3. given' \in [Nodes -> Seq(1 .. MaxSent)] /\ air' \subseteq Datagrams
    BY <1>1, <1>4, <2>1, <2>2
  <2> QED BY <1>1, <1>2, <1>4, <2>3 DEF SenderTypes
<1>9. Untouched(n)
  BY <1>1, <1>2 DEF SenderTypes, Untouched
<1>10. sending'[n] = <<>>
  BY <1>1, <1>2, <1>4 DEF SenderTypes
<1>11. \/ given'[n] = given[n]
       \/ given'[n] = Append(given[n], d.msg[2])
  BY <1>1, <1>2 DEF SenderTypes
<1>12. Last(given'[n]) <= taken[n] - Len(queue[n])
  <2>1. CASE given'[n] = given[n]
    BY <1>6, <2>1, <1>7, LastProperties
  <2>2. CASE given'[n] = Append(given[n], d.msg[2])
    <3>1. Last(given'[n]) = d.msg[2]
      BY <1>5, <1>7, <2>2, LastProperties
    <3> QED BY <1>6, <1>7, <3>1
  <2> QED BY <1>11, <2>1, <2>2
<1>13. Flow(n)'
  <2>1. /\ Len(queue'[n]) <= taken'[n]
        /\ \A i \in 1 .. Len(queue'[n]) : queue'[n][i] = (taken'[n] - Len(queue'[n])) + i
        /\ resolve'[n] # "pending" /\ Last(given'[n]) <= taken'[n] - Len(queue'[n])
    BY <1>1, <1>2, <1>6, <1>12 DEF Flow
  <2> QED BY <1>10, <2>1 DEF Flow, Last
<1>14. d.msg[2] \in (Last(given[n]) + 1) .. taken[n]
  <2>1. Last(given[n]) \in Nat
    BY <1>7, LastProperties
  <2> QED BY <1>6, <1>7, <2>1
<1> QED BY <1>1, <1>8, <1>9, <1>11, <1>13, <1>14, SendFrame

(* The other steps leave the sending half as it is, or only end the         *)
(* resolution of the address.                                               *)
LEMMA SendResolve ==
  ASSUME SendInv, NEW n \in Nodes, HandleResolve(n)
  PROVE  SendInv' /\ UNCHANGED <<taken, given>>
<1>1. /\ resolve[n] = "pending"
      /\ \/ resolve' = [resolve EXCEPT ![n] = "ok"] /\ active' = [active EXCEPT ![n] = FALSE]
         \/ resolve' = [resolve EXCEPT ![n] = "failed"] /\ UNCHANGED active
      /\ calls' = [calls EXCEPT ![n] = @ \cup {"asio"}]
      /\ UNCHANGED <<queue, sending, key, air, taken, given>>
  BY DEF HandleResolve
<1>2. SenderTypes /\ Flow(n)
  BY DEF SendInv
<1>3. SenderTypes'
  BY <1>1, <1>2 DEF SenderTypes
<1>4. sending[n] = <<>> /\ resolve'[n] # "pending"
  BY <1>1, <1>2 DEF SenderTypes, Flow
<1>5. Flow(n)'
  BY <1>1, <1>2, <1>4 DEF Flow, Last
<1>6. Untouched(n)
  BY <1>1, <1>2 DEF SenderTypes, Untouched
<1> QED BY <1>1, <1>3, <1>5, <1>6, SendFrame

LEMMA SendUnchanged ==
  ASSUME SendInv, UNCHANGED <<sender, air, taken, given>>, key' \in [Nodes -> Ciphers]
  PROVE  SendInv'
BY DEF SendInv, SenderTypes, Flow, Last, sender

LEMMA ReceiveUnchanged ==
  ASSUME ReceiveInv, UNCHANGED <<key, receiver, counts>>
  PROVE  ReceiveInv'
BY DEF ReceiveInv, ReceiverTypes, BufferKnown, NoReplay, receiver, counts

(* A key is changed: the receive under way keeps its buffer.                *)
LEMMA ReceiveSetup ==
  ASSUME ReceiveInv, NEW n \in Nodes, NEW k \in Ciphers, SetupCrypto(n, k)
  PROVE  ReceiveInv'
<1>1. /\ key' = [key EXCEPT ![n] = k] /\ cryptoBuf' = [cryptoBuf EXCEPT ![n] = FALSE]
      /\ mixed' = IF into[n] = "enc_in_data" THEN mixed \cup {n} ELSE mixed
      /\ UNCHANGED <<into, inData, arrived, delivered>>
  BY DEF SetupCrypto
<1>2. ReceiverTypes'
  BY <1>1 DEF ReceiveInv, ReceiverTypes
<1>3. BufferKnown'
  BY <1>1 DEF ReceiveInv, ReceiverTypes, BufferKnown
<1>4. NoReplay'
  BY <1>1 DEF ReceiveInv, NoReplay
<1> QED BY <1>2, <1>3, <1>4 DEF ReceiveInv

-----------------------------------------------------------------------------
(* Both halves together.                                                    *)

PeerInv == ReceiveInv /\ SendInv

LEMMA PeerStep == PeerInv /\ [Next]_vars => PeerInv'
<1> SUFFICES ASSUME PeerInv, [Next]_vars PROVE PeerInv'
  OBVIOUS
<1> USE DEF PeerInv
<1>1. ASSUME NEW n \in Nodes, HandleResolve(n) PROVE PeerInv'
  BY <1>1, SendResolve, ReceiveUnchanged DEF HandleResolve
<1>2. ASSUME NEW n \in Nodes, Send(n) PROVE PeerInv'
  BY <1>2, SendSend, ReceiveUnchanged DEF Send
<1>3. ASSUME NEW n \in Nodes, HandleSent(n) PROVE PeerInv'
  BY <1>3, SendSent, ReceiveUnchanged DEF HandleSent
<1>4. ASSUME NEW n \in Nodes, NEW t \in {"app", "asio"}, StartSend(n, t) PROVE PeerInv'
  BY <1>4, SendStart, ReceiveUnchanged DEF StartSend
<1>5. ASSUME NEW n \in Nodes, NEW k \in Ciphers, SetupCrypto(n, k) PROVE PeerInv'
  BY <1>5, ReceiveSetup, SendUnchanged DEF SetupCrypto, ReceiveInv, ReceiverTypes
<1>6. ASSUME NEW n \in Nodes, NEW d \in air, HandleRecv(n, d) PROVE PeerInv'
  <2>1. d \in Datagrams
    BY <1>6 DEF SendInv, SenderTypes
  <2> QED BY <1>6, <2>1, ReceiveRecv, SendUnchanged DEF HandleRecv, ReceiveInv, ReceiverTypes
<1>7. CASE UNCHANGED vars
  BY <1>7, ReceiveUnchanged, SendUnchanged DEF vars, ReceiveInv, ReceiverTypes
<1> QED BY <1>1, <1>2, <1>3, <1>4, <1>5, <1>6, <1>7 DEF Next

(* The inductive invariant of a peer: the receive's buffer is the one that  *)
(* is looked into, and queue, pending send and what has left are in line    *)
(* (start_recv, handle_recv, start_send, handle_sent).                      *)
THEOREM PeerInvariance == Spec => []PeerInv
<1>1. Init => PeerInv
  BY ReceiveInit, SendInit DEF PeerInv
<1> QED BY <1>1, PeerStep, PTL DEF Spec

(* Every variable has its type, for any bounds.                             *)
THEOREM PeerTypes == Spec => []TypeOK
<1> DEFINE Bounded == faults \in 0 .. MaxFaults
<1>1. Init => Bounded
  BY PeerBounds DEF Init
<1>2. Bounded /\ [Next]_vars => Bounded'
  <2> SUFFICES ASSUME Bounded, [Next]_vars PROVE Bounded'
    OBVIOUS
  <2>1. CASE faults' = faults
    BY <2>1
  <2>2. CASE Fault
    BY <2>2, PeerBounds DEF Fault
  <2>3. ASSUME NEW n \in Nodes, HandleResolve(n) \/ HandleSent(n) PROVE Bounded'
    BY <2>1, <2>2, <2>3 DEF HandleResolve, HandleSent
  <2>4. ASSUME NEW n \in Nodes, NEW k \in Ciphers, SetupCrypto(n, k) PROVE Bounded'
    BY <2>2, <2>4 DEF SetupCrypto
  <2>5. ASSUME NEW n \in Nodes, NEW t \in {"app", "asio"}, Send(n) \/ StartSend(n, t)
        PROVE  Bounded'
    BY <2>1, <2>5 DEF Send, StartSend
  <2>6. ASSUME NEW n \in Nodes, NEW d \in air, HandleRecv(n, d) PROVE Bounded'
    BY <2>1, <2>6 DEF HandleRecv
  <2>7. CASE UNCHANGED vars
    BY <2>1, <2>7 DEF vars
  <2> QED BY <2>3, <2>4, <2>5, <2>6, <2>7 DEF Next
<1>3. PeerInv /\ Bounded => TypeOK
  BY DEF PeerInv, ReceiveInv, ReceiverTypes, SendInv, SenderTypes, TypeOK
<1> QED BY <1>1, <1>2, <1>3, PeerInvariance, PTL DEF Spec

(* No message is handed on more often than it has arrived, whatever fails   *)
(* (handle_recv), unless plain text meets a key or a key is changed under a *)
(* receive.                                                                 *)
THEOREM NothingReplayed == Spec => []NoReplay
<1>1. PeerInv => NoReplay
  BY DEF PeerInv, ReceiveInv
<1> QED BY <1>1, PeerInvariance, PTL

(* Every step is one of the pipe of the peer that makes it, or none.        *)
LEMMA PipeStep ==
  ASSUME PeerInv, [Next]_vars, NEW k \in Nodes
  PROVE  [Pipe(k)!Next]_<<taken[k], given[k]>>
<1> SUFFICES ASSUME ~UNCHANGED <<taken[k], given[k]>>
             PROVE  Pipe(k)!Take \/ Pipe(k)!Give
  BY DEF Pipe!Next
<1>1. SendInv /\ SenderTypes
  BY DEF PeerInv, SendInv
<1>2. CASE \E n \in Nodes : Send(n)
  <2>1. PICK n \in Nodes : Send(n)
    BY <1>2
  <2>2. k = n
    BY <1>1, <2>1, SendSend DEF Untouched
  <2> QED BY <1>1, <2>1, <2>2, SendSend DEF Pipe!Take
<1>3. CASE \E n \in Nodes : HandleSent(n)
  <2>1. PICK n \in Nodes : HandleSent(n)
    BY <1>3
  <2>2. k = n
    BY <1>1, <2>1, SendSent DEF Untouched
  <2>3. PICK m \in (Last(given[k]) + 1) .. taken[k] : given'[k] = Append(given[k], m)
    BY <1>1, <2>1, <2>2, SendSent
  <2>4. taken'[k] = taken[k]
    BY <1>1, <2>1, SendSent
  <2> QED BY <2>3, <2>4 DEF Pipe!Give, Pipe!Newest, Last
<1>4. ~UNCHANGED <<taken, given>>
  OBVIOUS
<1>5. ASSUME NEW n \in Nodes, HandleResolve(n) PROVE FALSE
  BY <1>4, <1>5 DEF HandleResolve
<1>6. ASSUME NEW n \in Nodes, NEW t \in {"app", "asio"}, StartSend(n, t) PROVE FALSE
  BY <1>4, <1>6 DEF StartSend
<1>7. ASSUME NEW n \in Nodes, NEW c \in Ciphers, SetupCrypto(n, c) PROVE FALSE
  BY <1>4, <1>7 DEF SetupCrypto
<1>8. ASSUME NEW n \in Nodes, NEW d \in air, HandleRecv(n, d) PROVE FALSE
  BY <1>4, <1>8 DEF HandleRecv
<1>9. CASE UNCHANGED vars
  BY <1>4, <1>9 DEF vars
<1> QED BY <1>2, <1>3, <1>5, <1>6, <1>7, <1>8, <1>9 DEF Next

(* Messages leave in the order of send() and none twice: every peer is an   *)
(* OrderedPipe that may skip (peer.cpp, start_send).                        *)
THEOREM SentInOrder == Spec => SendsInOrder
<1>1. Init => PipesEmpty
  BY DEF Init, PipesEmpty, Pipe!Init
<1>2. PeerInv /\ [Next]_vars => PipesMove
  BY PipeStep DEF PipesMove
<1> QED BY <1>1, <1>2, PeerInvariance, PTL DEF Spec, SendsInOrder

-----------------------------------------------------------------------------
(* StreamClient: sequences of completed operations.                         *)

HasWrite(s) == \E i \in 1 .. Len(s) : s[i].op = "write"
Wrote(s) == \E i \in 1 .. Len(s) : s[i].op = "write" /\ s[i].ok
HasOther(s) == \E i \in 1 .. Len(s) : s[i].op # "write"
OneWrite(s) == \A i, j \in 1 .. Len(s) : s[i].op = "write" /\ s[j].op = "write" => i = j

LEMMA EmptyOps == ~HasWrite(<<>>) /\ ~Wrote(<<>>) /\ ~HasOther(<<>>) /\ OneWrite(<<>>)
BY DEF HasWrite, Wrote, HasOther, OneWrite

LEMMA ConcatOps ==
  ASSUME NEW s \in Seq(Operations), NEW t \in Seq(Operations)
  PROVE  /\ s \o t \in Seq(Operations)
         /\ HasWrite(s \o t) <=> HasWrite(s) \/ HasWrite(t)
         /\ Wrote(s \o t) <=> Wrote(s) \/ Wrote(t)
         /\ HasOther(s \o t) <=> HasOther(s) \/ HasOther(t)
         /\ OneWrite(s) /\ OneWrite(t) /\ ~(HasWrite(s) /\ HasWrite(t)) => OneWrite(s \o t)
<1> DEFINE u == s \o t
<1>1. /\ u \in Seq(Operations) /\ Len(u) = Len(s) + Len(t)
      /\ \A i \in 1 .. Len(s) + Len(t) : u[i] = IF i <= Len(s) THEN s[i] ELSE t[i - Len(s)]
  BY ConcatProperties
<1>2. Len(s) \in Nat /\ Len(t) \in Nat
  BY LenProperties
<1> HIDE DEF u
<1>3. \A i \in 1 .. Len(s) : i \in 1 .. Len(u) /\ u[i] = s[i]
  BY <1>1, <1>2
<1>4. ASSUME NEW j \in 1 .. Len(t)
      PROVE  j + Len(s) \in 1 .. Len(u) /\ u[j + Len(s)] = t[j]
  <2>1. /\ j + Len(s) \in 1 .. Len(s) + Len(t) /\ ~(j + Len(s) <= Len(s))
        /\ (j + Len(s)) - Len(s) = j
    BY <1>2
  <2>2. u[j + Len(s)] = t[(j + Len(s)) - Len(s)]
    BY <1>1, <2>1, Zenon
  <2> QED BY <1>1, <2>1, <2>2
<1>5. ASSUME NEW i \in 1 .. Len(u)
      PROVE  \/ i \in 1 .. Len(s) /\ u[i] = s[i]
             \/ i - Len(s) \in 1 .. Len(t) /\ u[i] = t[i - Len(s)]
  <2>1. CASE i <= Len(s)
    BY <1>1, <1>2, <2>1
  <2>2. CASE ~(i <= Len(s))
    <3>1. i - Len(s) \in 1 .. Len(t) /\ i \in 1 .. Len(s) + Len(t)
      BY <1>1, <1>2, <2>2
    <3>2. u[i] = t[i - Len(s)]
      BY <1>1, <2>2, <3>1, Zenon
    <3> QED BY <3>1, <3>2
  <2> QED BY <2>1, <2>2
<1>6. HasWrite(u) <=> HasWrite(s) \/ HasWrite(t)
  <2>1. HasWrite(s) => HasWrite(u)
    BY <1>3, Zenon DEF HasWrite
  <2>2. HasWrite(t) => HasWrite(u)
    BY <1>4, Zenon DEF HasWrite
  <2>3. HasWrite(u) => HasWrite(s) \/ HasWrite(t)
    BY <1>5, Zenon DEF HasWrite
  <2> QED BY <2>1, <2>2, <2>3
<1>7. Wrote(u) <=> Wrote(s) \/ Wrote(t)
  <2>1. Wrote(s) => Wrote(u)
    BY <1>3, Zenon DEF Wrote
  <2>2. Wrote(t) => Wrote(u)
    BY <1>4, Zenon DEF Wrote
  <2>3. Wrote(u) => Wrote(s) \/ Wrote(t)
    BY <1>5, Zenon DEF Wrote
  <2> QED BY <2>1, <2>2, <2>3
<1>8. HasOther(u) <=> HasOther(s) \/ HasOther(t)
  <2>1. HasOther(s) => HasOther(u)
    BY <1>3, Zenon DEF HasOther
  <2>2. HasOther(t) => HasOther(u)
    BY <1>4, Zenon DEF HasOther
  <2>3. HasOther(u) => HasOther(s) \/ HasOther(t)
    BY <1>5, Zenon DEF HasOther
  <2> QED BY <2>1, <2>2, <2>3
<1>9. ASSUME OneWrite(s), OneWrite(t), ~(HasWrite(s) /\ HasWrite(t)),
             NEW i \in 1 .. Len(u), NEW j \in 1 .. Len(u),
             u[i].op = "write", u[j].op = "write"
      PROVE  i = j
  <2>1. CASE i \in 1 .. Len(s) /\ u[i] = s[i]
    <3>1. HasWrite(s)
      BY <1>9, <2>1 DEF HasWrite
    <3>2. j \in 1 .. Len(s) /\ u[j] = s[j]
      BY <1>5, <1>9, <3>1 DEF HasWrite
    <3> QED BY <1>9, <2>1, <3>2 DEF OneWrite
  <2>2. CASE i - Len(s) \in 1 .. Len(t) /\ u[i] = t[i - Len(s)]
    <3>1. HasWrite(t)
      BY <1>9, <2>2 DEF HasWrite
    <3>2. j - Len(s) \in 1 .. Len(t) /\ u[j] = t[j - Len(s)]
      BY <1>5, <1>9, <3>1 DEF HasWrite
    <3>3. i - Len(s) = j - Len(s)
      BY <1>9, <2>2, <3>2 DEF OneWrite
    <3> QED BY <1>2, <3>3
  <2> QED BY <1>5, <2>1, <2>2
<1>10. OneWrite(s) /\ OneWrite(t) /\ ~(HasWrite(s) /\ HasWrite(t)) => OneWrite(u)
  BY <1>9 DEF OneWrite
<1> QED BY <1>1, <1>6, <1>7, <1>8, <1>10 DEF u

LEMMA OneOp ==
  ASSUME NEW o \in Operations
  PROVE  /\ <<o>> \in Seq(Operations) /\ OneWrite(<<o>>)
         /\ HasWrite(<<o>>) <=> o.op = "write"
         /\ Wrote(<<o>>) <=> o.op = "write" /\ o.ok
         /\ HasOther(<<o>>) <=> o.op # "write"
BY DEF HasWrite, Wrote, HasOther, OneWrite

LEMMA AppendOps ==
  ASSUME NEW s \in Seq(Operations), NEW o \in Operations
  PROVE  /\ Append(s, o) \in Seq(Operations)
         /\ HasWrite(Append(s, o)) <=> HasWrite(s) \/ o.op = "write"
         /\ Wrote(Append(s, o)) <=> Wrote(s) \/ (o.op = "write" /\ o.ok)
         /\ HasOther(Append(s, o)) <=> HasOther(s) \/ o.op # "write"
         /\ OneWrite(s) /\ ~(HasWrite(s) /\ o.op = "write") => OneWrite(Append(s, o))
<1> DEFINE t == <<o>>
<1>1. Append(s, o) = s \o t
  BY AppendIsConcat
<1>2. /\ t \in Seq(Operations) /\ OneWrite(t)
      /\ HasWrite(t) <=> o.op = "write"
      /\ Wrote(t) <=> o.op = "write" /\ o.ok
      /\ HasOther(t) <=> o.op # "write"
  BY OneOp
<1> HIDE DEF t
<1> QED BY <1>1, <1>2, ConcatOps

LEMMA HeadOps ==
  ASSUME NEW s \in Seq(Operations), s # <<>>
  PROVE  /\ Head(s) \in Operations /\ Tail(s) \in Seq(Operations)
         /\ HasWrite(s) <=> HasWrite(Tail(s)) \/ Head(s).op = "write"
         /\ Wrote(s) <=> Wrote(Tail(s)) \/ (Head(s).op = "write" /\ Head(s).ok)
         /\ HasOther(s) <=> HasOther(Tail(s)) \/ Head(s).op # "write"
         /\ OneWrite(s) => OneWrite(Tail(s))
         /\ OneWrite(s) /\ Head(s).op = "write" => ~HasWrite(Tail(s))
<1> DEFINE r == Tail(s)
<1>1. /\ Head(s) \in Operations /\ r \in Seq(Operations) /\ Len(r) = Len(s) - 1
      /\ \A i \in 1 .. Len(r) : r[i] = s[i + 1]
  BY HeadTailProperties
<1>2. Len(s) \in Nat \ {0} /\ Head(s) = s[1]
  BY EmptySeq
<1> HIDE DEF r
<1>3. \A i \in 1 .. Len(r) : i + 1 \in 1 .. Len(s) /\ r[i] = s[i + 1] /\ i + 1 # 1
  BY <1>1, <1>2
<1>4. ASSUME NEW i \in 1 .. Len(s), i # 1
      PROVE  i - 1 \in 1 .. Len(r) /\ r[i - 1] = s[i]
  <2>1. i - 1 \in 1 .. Len(r) /\ (i - 1) + 1 = i
    BY <1>1, <1>2, <1>4
  <2> QED BY <1>1, <2>1
<1>5. 1 \in 1 .. Len(s)
  BY <1>2
<1>6. HasWrite(s) <=> HasWrite(r) \/ Head(s).op = "write"
  <2>1. HasWrite(r) => HasWrite(s)
    BY <1>3, Zenon DEF HasWrite
  <2>2. Head(s).op = "write" => HasWrite(s)
    BY <1>2, <1>5, Zenon DEF HasWrite
  <2>3. HasWrite(s) => HasWrite(r) \/ (Head(s).op = "write")
    BY <1>2, <1>4, Zenon DEF HasWrite
  <2> QED BY <2>1, <2>2, <2>3
<1>7. Wrote(s) <=> Wrote(r) \/ (Head(s).op = "write" /\ Head(s).ok)
  <2>1. Wrote(r) => Wrote(s)
    BY <1>3, Zenon DEF Wrote
  <2>2. Head(s).op = "write" /\ Head(s).ok => Wrote(s)
    BY <1>2, <1>5, Zenon DEF Wrote
  <2>3. Wrote(s) => Wrote(r) \/ (Head(s).op = "write" /\ Head(s).ok)
    BY <1>2, <1>4, Zenon DEF Wrote
  <2> QED BY <2>1, <2>2, <2>3
<1>8. HasOther(s) <=> HasOther(r) \/ Head(s).op # "write"
  <2>1. HasOther(r) => HasOther(s)
    BY <1>3, Zenon DEF HasOther
  <2>2. Head(s).op # "write" => HasOther(s)
    BY <1>2, <1>5, Zenon DEF HasOther
  <2>3. HasOther(s) => HasOther(r) \/ (Head(s).op # "write")
    BY <1>2, <1>4, Zenon DEF HasOther
  <2> QED BY <2>1, <2>2, <2>3
<1>9. ASSUME OneWrite(s) PROVE OneWrite(r)
  <2>1. ASSUME NEW i \in 1 .. Len(r), NEW j \in 1 .. Len(r), r[i].op = "write", r[j].op = "write"
        PROVE  i = j
    <3>1. i + 1 = j + 1
      BY <1>3, <1>9, <2>1 DEF OneWrite
    <3> QED BY <3>1
  <2> QED BY <2>1 DEF OneWrite
<1>10. OneWrite(s) /\ Head(s).op = "write" => ~HasWrite(r)
  BY <1>2, <1>3, <1>5 DEF OneWrite, HasWrite
<1> QED BY <1>1, <1>6, <1>7, <1>8, <1>9, <1>10 DEF r

(* Closing the socket aborts the pending write and completes no other.      *)
LEMMA AbortedOps ==
  ASSUME ClientTypes
  PROVE  /\ Aborted \in Seq(Operations) /\ OneWrite(Aborted) /\ ~Wrote(Aborted)
         /\ HasWrite(Aborted) <=> writing # 0
<1> DEFINE r == [i \in 1 .. Len(reads) |-> Ended(reads[i], FALSE)]
           c == IF socket = "connecting" THEN <<Ended("connect", FALSE)>> ELSE <<>>
           w == IF writing # 0 THEN <<Op("write", writing, FALSE)>> ELSE <<>>
<1>1. reads \in Seq(Stages) /\ writing \in Numbers \cup {0}
  BY DEF ClientTypes
<1>2. /\ r \in Seq(Operations) /\ OneWrite(r) /\ ~Wrote(r) /\ ~HasWrite(r)
  <2>1. Len(reads) \in Nat /\ \A i \in 1 .. Len(reads) : reads[i] \in Stages
    BY <1>1, ElementOfSeq, LenProperties
  <2>2. ASSUME NEW i \in 1 .. Len(reads) PROVE r[i] \in Operations /\ r[i].op # "write"
    BY <2>1 DEF Ended, Op, Operations, Stages
  <2>3. r \in [1 .. Len(reads) -> Operations]
    BY <2>2
  <2> HIDE DEF r
  <2>4. r \in Seq(Operations)
    BY <2>1, <2>3, SeqDef, Zenon
  <2>5. 1 .. Len(r) = 1 .. Len(reads)
    <3>1. DOMAIN r = 1 .. Len(reads)
      BY <2>3, Zenon
    <3>2. DOMAIN r = 1 .. Len(r)
      BY <2>4, LenProperties, Zenon
    <3> QED BY <3>1, <3>2, Zenon
  <2> QED BY <2>2, <2>4, <2>5 DEF HasWrite, Wrote, OneWrite
<1>3. /\ c \in Seq(Operations) /\ OneWrite(c) /\ ~Wrote(c) /\ ~HasWrite(c)
  <2>1. Ended("connect", FALSE) \in Operations /\ Ended("connect", FALSE).op = "connect"
    BY DEF Ended, Op, Operations
  <2>2. CASE socket = "connecting"
    BY <2>1, <2>2, OneOp
  <2>3. CASE socket # "connecting"
    BY <2>3, EmptyOps
  <2> QED BY <2>2, <2>3
<1>4. /\ w \in Seq(Operations) /\ OneWrite(w) /\ ~Wrote(w)
      /\ HasWrite(w) <=> writing # 0
  <2>1. CASE writing # 0
    <3>1. Op("write", writing, FALSE) \in Operations
          /\ Op("write", writing, FALSE).op = "write" /\ ~Op("write", writing, FALSE).ok
      BY <1>1 DEF Op, Operations
    <3> QED BY <2>1, <3>1, OneOp
  <2>2. CASE writing = 0
    BY <2>2, EmptyOps
  <2> QED BY <2>1, <2>2
<1>5. Aborted = (r \o c) \o w
  BY DEF Aborted
<1> HIDE DEF r, c, w
<1>6. r \o c \in Seq(Operations) /\ OneWrite(r \o c) /\ ~Wrote(r \o c) /\ ~HasWrite(r \o c)
  BY <1>2, <1>3, ConcatOps
<1> QED BY <1>4, <1>5, <1>6, ConcatOps

LEMMA WroteWrites == ASSUME NEW s, Wrote(s) PROVE HasWrite(s)
BY DEF Wrote, HasWrite

LEMMA EndedOp ==
  ASSUME NEW o \in Stages \cup {"resolve", "connect"}, NEW ok \in BOOLEAN
  PROVE  Ended(o, ok) \in Operations /\ Ended(o, ok).op # "write"
BY DEF Ended, Op, Operations, Stages

LEMMA WriteOp ==
  ASSUME NEW m \in Numbers, NEW ok \in BOOLEAN
  PROVE  /\ Op("write", m, ok) \in Operations
         /\ Op("write", m, ok).op = "write" /\ Op("write", m, ok).ok = ok
BY DEF Op, Operations

-----------------------------------------------------------------------------
(* The inductive invariant of StreamClient.                                 *)

Control ==
  /\ socket \in {"closed", "connecting", "open", "broken"}
  /\ resolving \in Nat /\ reads \in Seq(Stages) /\ connected \in BOOLEAN
  /\ reconnect \in [dispatched : Nat, armed : BOOLEAN, due : Nat]
  /\ failures \in 0 .. MaxFailures

Outbound ==
  /\ writing \in Numbers \cup {0} /\ outbound_active \in BOOLEAN
  /\ outbound_queue \in Seq(Numbers) /\ app \in -1 .. 2
  /\ accepted \in 0 .. MaxMessages /\ written \in Seq(Numbers)

(* The first part of NeverStranded.                                         *)
Trying ==
  \/ resolving > 0 \/ reads # <<>> \/ socket = "connecting" \/ HasOther(done)
  \/ reconnect.dispatched > 0 \/ reconnect.armed \/ reconnect.due > 0

(* The queue holds the latest messages; the one before them, the front, is  *)
(* being written, has been, or has failed; what was written is a prefix of  *)
(* what was taken.  A write that failed leaves outbound_active_ set, and    *)
(* nothing is written any more.                                             *)
Front == accepted - Len(outbound_queue)

OutboundFlow ==
  /\ OneWrite(done) /\ (HasWrite(done) => writing = 0)
  /\ \A i \in 1 .. Len(written) : written[i] = i
  /\ \A i \in 1 .. Len(outbound_queue) : outbound_queue[i] = Front + i
  /\ writing # 0 => writing = Front
  /\ outbound_active => Len(written) = IF Wrote(done) THEN Front ELSE Front - 1
  /\ ~outbound_active => /\ outbound_queue = <<>> /\ Len(written) = accepted
                         /\ writing = 0 /\ ~HasWrite(done)
  /\ app > 0 => accepted + app <= MaxMessages

FlowInv ==
  /\ program \in Programs /\ done \in Seq(Operations) /\ Control /\ Outbound
  /\ Trying /\ OutboundFlow

LEMMA FlowTypes == FlowInv => ClientTypes
BY DEF FlowInv, Control, Outbound, ClientTypes

LEMMA FlowInit == ClientInit => FlowInv
<1> SUFFICES ASSUME ClientInit PROVE FlowInv
  OBVIOUS
<1> USE DEF ClientInit
<1>1. Control /\ program \in Programs /\ done \in Seq(Operations)
  <2>1. 0 \in 0 .. MaxFailures
    BY ClientBounds
  <2> QED BY <2>1, EmptySeq DEF Control
<1>2. Outbound
  <2>1. 0 \in 0 .. MaxMessages /\ 0 \in -1 .. 2
    BY ClientBounds
  <2> QED BY <2>1, EmptySeq DEF Outbound
<1>3. Trying
  BY DEF Trying
<1>4. OutboundFlow
  BY EmptyOps, ClientBounds DEF OutboundFlow
<1> QED BY <1>1, <1>2, <1>3, <1>4 DEF FlowInv

(* What the invariant says of ClientInv.                                    *)
LEMMA FlowMeaning == FlowInv => ClientInv
<1> SUFFICES ASSUME FlowInv PROVE NeverStranded
  BY FlowTypes DEF ClientInv
<1>1. Wrote(done) => \E i \in Writes(done) : done[i].ok
  BY DEF Wrote, Writes
<1>2. HasWrite(done) <=> Writes(done) # {}
  BY DEF HasWrite, Writes
<1>3. ASSUME outbound_active, Len(written) + Len(outbound_queue) = accepted PROVE Wrote(done)
  <2>1. Len(written) = IF Wrote(done) THEN Front ELSE Front - 1
    BY <1>3 DEF FlowInv, OutboundFlow
  <2>2. Len(written) \in Nat /\ Len(outbound_queue) \in Nat /\ accepted \in Nat
    BY ClientBounds DEF FlowInv, Outbound
  <2>3. Len(written) = accepted - Len(outbound_queue)
    BY <1>3, <2>2
  <2>4. accepted - Len(outbound_queue) # (accepted - Len(outbound_queue)) - 1
    BY <2>2
  <2> QED BY <2>1, <2>3, <2>4, Zenon DEF Front
<1>4. (writing # 0 \/ HasWrite(done)) => outbound_active
  BY DEF FlowInv, OutboundFlow, Outbound
<1>5. Trying <=> \/ resolving > 0 \/ reads # <<>> \/ socket = "connecting"
                 \/ \E i \in 1 .. Len(done) : done[i].op # "write"
                 \/ reconnect.dispatched > 0 \/ reconnect.armed \/ reconnect.due > 0
  BY DEF Trying, HasOther
<1>6. Trying
  BY DEF FlowInv
<1> QED BY <1>1, <1>2, <1>3, <1>4, <1>5, <1>6, Zenon DEF NeverStranded

-----------------------------------------------------------------------------
(* Steps that start, finish and write no message.                           *)

Quiet ==
  /\ OneWrite(done') /\ (HasWrite(done') => writing' = 0)
  /\ HasWrite(done') => HasWrite(done) \/ writing # 0
  /\ Wrote(done') <=> Wrote(done)
  /\ writing' \in {writing, 0}

LEMMA QuietStep ==
  ASSUME FlowInv, UNCHANGED <<program, outbound, history, app>>,
         done' \in Seq(Operations), Control', Trying', Quiet
  PROVE  FlowInv'
<1>1. UNCHANGED <<program, outbound_active, outbound_queue, accepted, written, app>>
  BY DEF outbound, history
<1>2. Outbound'
  BY <1>1 DEF FlowInv, Outbound, Quiet
<1>3. Front' = Front
  BY <1>1 DEF Front
<1>4. OutboundFlow'
  <2>1. OneWrite(done') /\ (HasWrite(done') => writing' = 0)
    BY DEF Quiet
  <2>2. /\ \A i \in 1 .. Len(written') : written'[i] = i
        /\ \A i \in 1 .. Len(outbound_queue') : outbound_queue'[i] = Front' + i
        /\ app' > 0 => accepted' + app' <= MaxMessages
    BY <1>1, <1>3 DEF FlowInv, OutboundFlow
  <2>3. writing' # 0 => writing' = Front'
    BY <1>3 DEF FlowInv, OutboundFlow, Quiet
  <2>4. outbound_active' => Len(written') = IF Wrote(done') THEN Front' ELSE Front' - 1
    BY <1>1, <1>3 DEF FlowInv, OutboundFlow, Quiet
  <2>5. ~outbound_active' => /\ outbound_queue' = <<>> /\ Len(written') = accepted'
                             /\ writing' = 0 /\ ~HasWrite(done')
    BY <1>1 DEF FlowInv, OutboundFlow, Quiet
  <2> QED BY <2>1, <2>2, <2>3, <2>4, <2>5, Zenon DEF OutboundFlow
<1> QED BY <1>1, <1>2, <1>4 DEF FlowInv

(* An operation other than a write completes.                               *)
LEMMA CompleteQuiet ==
  ASSUME FlowInv, NEW o \in Operations, o.op # "write",
         done' = Append(done, o), writing' = writing
  PROVE  done' \in Seq(Operations) /\ HasOther(done') /\ Quiet
<1>1. done \in Seq(Operations) /\ OneWrite(done) /\ (HasWrite(done) => writing = 0)
  BY DEF FlowInv, OutboundFlow
<1> QED BY <1>1, AppendOps DEF Quiet

LEMMA FailureBound ==
  ASSUME FlowInv, Failure \/ UNCHANGED failures
  PROVE  failures' \in 0 .. MaxFailures
BY ClientBounds DEF FlowInv, Control, Failure

LEMMA ResolveDoneFlow == ASSUME FlowInv, ResolveDone PROVE FlowInv'
<1>1. /\ resolving' = resolving - 1 /\ resolving > 0 /\ (Failure \/ UNCHANGED failures)
      /\ UNCHANGED <<program, socket, reads, writing, connected, outbound, app, reconnect, history>>
  BY DEF ResolveDone
<1>2. PICK ok \in BOOLEAN : done' = Append(done, Ended("resolve", ok))
  BY DEF ResolveDone
<1>3. done' \in Seq(Operations) /\ HasOther(done') /\ Quiet
  BY <1>1, <1>2, EndedOp, CompleteQuiet
<1>4. Control'
  BY <1>1, FailureBound DEF FlowInv, Control
<1>5. Trying'
  BY <1>3 DEF Trying
<1> QED BY <1>1, <1>3, <1>4, <1>5, QuietStep

LEMMA ConnectDoneFlow == ASSUME FlowInv, ConnectDone PROVE FlowInv'
<1>1. /\ socket' \in {"open", "broken"} /\ (Failure \/ UNCHANGED failures)
      /\ UNCHANGED <<program, resolving, reads, writing, connected, outbound, app, reconnect, history>>
  BY DEF ConnectDone
<1>2. PICK ok \in BOOLEAN : done' = Append(done, Ended("connect", ok))
  BY DEF ConnectDone
<1>3. done' \in Seq(Operations) /\ HasOther(done') /\ Quiet
  BY <1>1, <1>2, EndedOp, CompleteQuiet
<1>4. Control'
  BY <1>1, FailureBound DEF FlowInv, Control
<1>5. Trying'
  BY <1>3 DEF Trying
<1> QED BY <1>1, <1>3, <1>4, <1>5, QuietStep

LEMMA ReadDoneFlow == ASSUME FlowInv, ReadDone PROVE FlowInv'
<1>1. /\ reads # <<>> /\ reads' = Tail(reads)
      /\ UNCHANGED <<program, socket, resolving, writing, connected, outbound, app, reconnect,
                     history, failures>>
  BY DEF ReadDone
<1>2. reads \in Seq(Stages) /\ Head(reads) \in Stages /\ reads' \in Seq(Stages)
  BY <1>1, HeadTailProperties DEF FlowInv, Control
<1>3. PICK ok \in BOOLEAN : done' = Append(done, Ended(Head(reads), ok))
  BY DEF ReadDone
<1>4. done' \in Seq(Operations) /\ HasOther(done') /\ Quiet
  BY <1>1, <1>2, <1>3, EndedOp, CompleteQuiet
<1>5. Control'
  BY <1>1, <1>2 DEF FlowInv, Control
<1>6. Trying'
  BY <1>4 DEF Trying
<1> QED BY <1>1, <1>4, <1>5, <1>6, QuietStep

LEMMA HangupFlow == ASSUME FlowInv, Hangup PROVE FlowInv'
<1>1. /\ socket = "open" /\ socket' = "broken" /\ Failure
      /\ UNCHANGED <<program, resolving, reads, writing, done, connected, outbound, app, reconnect,
                     history>>
  BY DEF Hangup
<1>2. Control'
  BY <1>1, FailureBound DEF FlowInv, Control
<1>3. Trying'
  BY <1>1 DEF FlowInv, Trying, HasOther
<1>4. Quiet /\ done' \in Seq(Operations)
  BY <1>1 DEF FlowInv, OutboundFlow, Quiet, HasWrite, Wrote, OneWrite
<1> QED BY <1>1, <1>2, <1>3, <1>4, QuietStep

(* Shell: what its timer does.                                              *)
LEMMA ReconnectFlow ==
  ASSUME FlowInv, ArmTimer \/ TimerExpires \/ HandleReconnectTimer
  PROVE  FlowInv'
<1>1. UNCHANGED <<program, socket, reads, writing, done, connected, outbound, app, history, failures>>
  BY DEF ArmTimer, TimerExpires, HandleReconnectTimer, network
<1>2. /\ reconnect \in [dispatched : Nat, armed : BOOLEAN, due : Nat] /\ resolving \in Nat
  BY DEF FlowInv, Control
<1>3. /\ reconnect' \in [dispatched : Nat, armed : BOOLEAN, due : Nat] /\ resolving' \in Nat
      /\ resolving' > 0 \/ reconnect'.armed \/ reconnect'.due > 0
  <2>1. CASE ArmTimer
    <3>1. /\ reconnect' = [reconnect EXCEPT !.dispatched = @ - 1, !.armed = TRUE]
          /\ reconnect.dispatched > 0 /\ resolving' = resolving
      BY <2>1 DEF ArmTimer, network
    <3>2. reconnect' = [dispatched |-> reconnect.dispatched - 1, armed |-> TRUE,
                        due |-> reconnect.due]
      BY <1>2, <3>1
    <3>3. reconnect.dispatched - 1 \in Nat /\ reconnect.due \in Nat
      BY <1>2, <3>1
    <3> QED BY <1>2, <3>1, <3>2, <3>3
  <2>2. CASE TimerExpires
    <3>1. /\ reconnect' = [reconnect EXCEPT !.armed = FALSE, !.due = @ + 1]
          /\ resolving' = resolving
      BY <2>2 DEF TimerExpires, network
    <3>2. reconnect' = [dispatched |-> reconnect.dispatched, armed |-> FALSE,
                        due |-> reconnect.due + 1]
      BY <1>2, <3>1
    <3>3. reconnect.dispatched \in Nat /\ reconnect.due + 1 \in Nat /\ reconnect.due + 1 > 0
      BY <1>2
    <3> QED BY <1>2, <3>1, <3>2, <3>3
  <2>3. CASE HandleReconnectTimer
    BY <1>2, <2>3 DEF HandleReconnectTimer
  <2> QED BY <2>1, <2>2, <2>3
<1>4. Control'
  BY <1>1, <1>3 DEF FlowInv, Control
<1>5. Trying'
  BY <1>3 DEF Trying
<1>6. Quiet /\ done' \in Seq(Operations)
  BY <1>1 DEF FlowInv, OutboundFlow, Quiet, HasWrite, Wrote, OneWrite
<1> QED BY <1>1, <1>4, <1>5, <1>6, QuietStep

-----------------------------------------------------------------------------
(* The handlers.                                                            *)

(* What is left when the oldest completed operation is handled.             *)
LEMMA RestOps ==
  ASSUME FlowInv, done # <<>>, NEW c, NEW rest, c = Head(done), rest = Tail(done)
  PROVE  /\ c \in Operations /\ rest \in Seq(Operations) /\ OneWrite(rest)
         /\ HasWrite(rest) => HasWrite(done) /\ writing = 0
         /\ ~(c.op = "write" /\ c.ok) => (Wrote(rest) <=> Wrote(done))
         /\ c.op = "write" => ~HasWrite(rest) /\ HasWrite(done) /\ writing = 0
         /\ c.op = "write" /\ c.ok => Wrote(done)
         /\ c.op = "write" => (HasOther(rest) <=> HasOther(done))
<1>1. done \in Seq(Operations) /\ OneWrite(done) /\ (HasWrite(done) => writing = 0)
  BY DEF FlowInv, OutboundFlow
<1> QED BY <1>1, HeadOps

(* disconnect_nosig() aborts what is pending, and the signal leads to one   *)
(* more attempt.                                                            *)
LEMMA DropFlow ==
  ASSUME FlowInv, done # <<>>, NEW c, NEW rest, c = Head(done), rest = Tail(done),
         ~(c.op = "write" /\ c.ok),
         NEW later \in {<<>>, <<Ended("message", FALSE)>>}, DropAnd(rest, later),
         Failure \/ UNCHANGED failures, UNCHANGED <<program, app, history>>
  PROVE  FlowInv'
<1> DEFINE a == IF socket = "closed" THEN <<>> ELSE Aborted
<1>1. /\ done' = (rest \o a) \o later
      /\ socket' = "closed" /\ reads' = <<>> /\ writing' = 0 /\ connected' = FALSE
      /\ Signalled /\ UNCHANGED outbound
  BY DEF DropAnd
<1>2. /\ rest \in Seq(Operations) /\ OneWrite(rest)
      /\ HasWrite(rest) => HasWrite(done) /\ writing = 0
      /\ Wrote(rest) <=> Wrote(done)
  BY RestOps
<1>3. /\ a \in Seq(Operations) /\ OneWrite(a) /\ ~Wrote(a)
      /\ HasWrite(a) => writing # 0
  <2>1. CASE socket = "closed"
    BY <2>1, EmptyOps, EmptySeq
  <2>2. CASE socket # "closed"
    BY <2>2, AbortedOps, FlowTypes
  <2> QED BY <2>1, <2>2
<1>4. later \in Seq(Operations) /\ OneWrite(later) /\ ~Wrote(later) /\ ~HasWrite(later)
  <2>1. Ended("message", FALSE) \in Operations /\ Ended("message", FALSE).op # "write"
    BY EndedOp DEF Stages
  <2> QED BY <2>1, OneOp, EmptyOps, EmptySeq
<1> HIDE DEF a
<1>5. /\ rest \o a \in Seq(Operations) /\ OneWrite(rest \o a)
      /\ HasWrite(rest \o a) => HasWrite(done) \/ writing # 0
      /\ Wrote(rest \o a) <=> Wrote(done)
  BY <1>2, <1>3, ConcatOps
<1>6. /\ done' \in Seq(Operations) /\ OneWrite(done')
      /\ HasWrite(done') => HasWrite(done) \/ writing # 0
      /\ Wrote(done') <=> Wrote(done)
  BY <1>1, <1>4, <1>5, ConcatOps
<1>7. Quiet
  BY <1>1, <1>6 DEF Quiet
<1>8. /\ resolving \in Nat /\ reconnect \in [dispatched : Nat, armed : BOOLEAN, due : Nat]
  BY DEF FlowInv, Control
<1>9. /\ resolving' \in Nat /\ reconnect' \in [dispatched : Nat, armed : BOOLEAN, due : Nat]
      /\ resolving' > 0 \/ reconnect'.dispatched > 0
  <2>1. CASE program = "controller"
    BY <1>1, <1>8, <2>1 DEF Signalled
  <2>2. CASE program # "controller"
    <3>1. reconnect' = [reconnect EXCEPT !.dispatched = @ + 1] /\ resolving' = resolving
      BY <1>1, <2>2 DEF Signalled
    <3>2. reconnect' = [dispatched |-> reconnect.dispatched + 1, armed |-> reconnect.armed,
                        due |-> reconnect.due]
      BY <1>8, <3>1
    <3>3. reconnect.dispatched + 1 \in Nat /\ reconnect.dispatched + 1 > 0
      BY <1>8
    <3> QED BY <1>8, <3>1, <3>2, <3>3
  <2> QED BY <2>1, <2>2
<1>10. Control'
  BY <1>1, <1>9, FailureBound, EmptySeq DEF Control
<1>11. Trying'
  BY <1>9 DEF Trying
<1> QED BY <1>1, <1>6, <1>7, <1>10, <1>11, QuietStep

LEMMA DropOnly ==
  ASSUME FlowInv, done # <<>>, NEW c, NEW rest, c = Head(done), rest = Tail(done),
         ~(c.op = "write" /\ c.ok), Drop(rest),
         UNCHANGED <<program, app, history, failures>>
  PROVE  FlowInv'
<1>1. DropAnd(rest, <<>>)
  BY DEF Drop
<1> QED BY <1>1, DropFlow

(* The next read is started, or fails at once on a closed socket.           *)
LEMMA StartFlow ==
  ASSUME FlowInv, done # <<>>, NEW c, NEW rest, c = Head(done), rest = Tail(done),
         c.op # "write", NEW what \in Stages, Start(rest, what), connected' \in BOOLEAN,
         UNCHANGED <<program, socket, resolving, writing, reconnect, outbound, app, history,
                     failures>>
  PROVE  FlowInv'
<1>1. /\ rest \in Seq(Operations) /\ OneWrite(rest)
      /\ HasWrite(rest) => HasWrite(done) /\ writing = 0
      /\ Wrote(rest) <=> Wrote(done)
  BY RestOps
<1>2. reads \in Seq(Stages)
  BY DEF FlowInv, Control
<1>3. /\ Quiet /\ done' \in Seq(Operations) /\ reads' \in Seq(Stages)
      /\ HasOther(done') \/ reads' # <<>>
  <2>1. CASE socket = "closed"
    <3>1. done' = Append(rest, Ended(what, FALSE)) /\ reads' = reads
      BY <2>1 DEF Start
    <3>2. Ended(what, FALSE) \in Operations /\ Ended(what, FALSE).op # "write"
      BY EndedOp
    <3> QED BY <1>1, <1>2, <3>1, <3>2, AppendOps DEF Quiet
  <2>2. CASE socket # "closed"
    <3>1. done' = rest /\ reads' = Append(reads, what)
      BY <2>2 DEF Start
    <3>2. reads' \in Seq(Stages) /\ Len(reads') = Len(reads) + 1 /\ Len(reads) \in Nat
      BY <1>2, <3>1, AppendProperties, LenProperties
    <3>3. reads' # <<>>
      BY <3>2, EmptySeq
    <3> QED BY <1>1, <3>1, <3>2, <3>3 DEF Quiet
  <2> QED BY <2>1, <2>2
<1>4. Control'
  BY <1>3 DEF FlowInv, Control
<1>5. Trying'
  BY <1>3 DEF Trying
<1> QED BY <1>3, <1>4, <1>5, QuietStep

LEMMA ResolveFlow ==
  ASSUME FlowInv, done # <<>>, NEW c, NEW rest, c = Head(done), rest = Tail(done),
         c.op = "resolve", HandleClientResolve(c, rest), UNCHANGED <<program, app, history>>
  PROVE  FlowInv'
<1>1. CASE Drop(rest) /\ UNCHANGED failures
  BY <1>1, DropOnly
<1>2. CASE ~(Drop(rest) /\ UNCHANGED failures)
  <2> DEFINE a == IF socket = "closed" THEN <<>> ELSE Aborted
  <2>1. /\ done' = rest \o a
        /\ socket' = "connecting" /\ reads' = <<>> /\ writing' = 0
        /\ UNCHANGED <<resolving, reconnect, connected, outbound, failures>>
    BY <1>2 DEF HandleClientResolve
  <2>2. /\ rest \in Seq(Operations) /\ OneWrite(rest)
        /\ HasWrite(rest) => HasWrite(done) /\ writing = 0
        /\ Wrote(rest) <=> Wrote(done)
    BY RestOps
  <2>3. /\ a \in Seq(Operations) /\ OneWrite(a) /\ ~Wrote(a)
        /\ HasWrite(a) => writing # 0
    <3>1. CASE socket = "closed"
      BY <3>1, EmptyOps, EmptySeq
    <3>2. CASE socket # "closed"
      BY <3>2, AbortedOps, FlowTypes
    <3> QED BY <3>1, <3>2
  <2> HIDE DEF a
  <2>4. done' \in Seq(Operations) /\ Quiet
    BY <2>1, <2>2, <2>3, ConcatOps DEF Quiet
  <2>5. Control'
    BY <2>1, EmptySeq DEF FlowInv, Control
  <2>6. Trying'
    BY <2>1 DEF Trying
  <2> QED BY <2>1, <2>4, <2>5, <2>6, QuietStep
<1> QED BY <1>1, <1>2

LEMMA ConnectFlow ==
  ASSUME FlowInv, done # <<>>, NEW c, NEW rest, c = Head(done), rest = Tail(done),
         c.op = "connect", HandleConnect(c, rest), UNCHANGED <<program, app, history>>
  PROVE  FlowInv'
<1>1. CASE Drop(rest) /\ UNCHANGED failures
  BY <1>1, DropOnly
<1>2. CASE ~(Drop(rest) /\ UNCHANGED failures)
  <2>1. /\ connected' = TRUE /\ Start(rest, "header") /\ "header" \in Stages
        /\ UNCHANGED <<socket, resolving, writing, reconnect, outbound, failures>>
    BY <1>2 DEF HandleConnect, Stages
  <2> QED BY <2>1, StartFlow
<1> QED BY <1>1, <1>2

LEMMA ReadHeaderFlow ==
  ASSUME FlowInv, done # <<>>, NEW c, NEW rest, c = Head(done), rest = Tail(done),
         c.op = "header", HandleReadHeader(c, rest), UNCHANGED <<program, app, history>>
  PROVE  FlowInv'
<1>1. CASE Drop(rest) /\ UNCHANGED failures
  BY <1>1, DropOnly
<1>2. CASE Failure /\ DropAnd(rest, <<Ended("message", FALSE)>>)
  BY <1>2, DropFlow
<1>3. CASE /\ Start(rest, "message")
           /\ UNCHANGED <<socket, resolving, writing, connected, reconnect, outbound, failures>>
  <2>1. "message" \in Stages /\ connected' \in BOOLEAN
    BY <1>3 DEF Stages, FlowInv, Control
  <2> QED BY <1>3, <2>1, StartFlow
<1> QED BY <1>1, <1>2, <1>3 DEF HandleReadHeader

LEMMA ReadMessageFlow ==
  ASSUME FlowInv, done # <<>>, NEW c, NEW rest, c = Head(done), rest = Tail(done),
         c.op = "message", HandleReadMessage(c, rest), UNCHANGED <<program, app, history>>
  PROVE  FlowInv'
<1>1. CASE Drop(rest) /\ UNCHANGED failures
  BY <1>1, DropOnly
<1>2. CASE /\ Start(rest, "header")
           /\ UNCHANGED <<socket, resolving, writing, connected, reconnect, outbound, failures>>
  <2>1. "header" \in Stages /\ connected' \in BOOLEAN
    BY <1>2 DEF Stages, FlowInv, Control
  <2> QED BY <1>2, <2>1, StartFlow
<1> QED BY <1>1, <1>2 DEF HandleReadMessage

-----------------------------------------------------------------------------
(* Steps that write, finish or take a message.                              *)

(* Numbers and lengths that the steps below compare.                        *)
LEMMA Lengths ==
  ASSUME FlowInv
  PROVE  /\ Len(written) \in Nat /\ Len(outbound_queue) \in Nat /\ accepted \in Nat
         /\ MaxMessages \in Nat /\ accepted <= MaxMessages /\ Front \in Int
BY ClientBounds DEF FlowInv, Outbound, Front

(* A message is being written: it is the front, and all before it were      *)
(* written.                                                                 *)
LEMMA WritingNext ==
  ASSUME FlowInv, writing # 0
  PROVE  /\ outbound_active /\ ~HasWrite(done) /\ ~Wrote(done)
         /\ writing = Front /\ Len(written) = writing - 1 /\ writing <= accepted
<1>1. outbound_active
  BY DEF FlowInv, OutboundFlow, Outbound
<1>2. ~HasWrite(done) /\ writing = Front
  BY DEF FlowInv, OutboundFlow
<1>3. ~Wrote(done)
  BY <1>2, WroteWrites
<1>4. Len(written) = Front - 1
  BY <1>1, <1>3 DEF FlowInv, OutboundFlow
<1> QED BY <1>1, <1>2, <1>3, <1>4, Lengths DEF Front

LEMMA WriteDoneFlow == ASSUME FlowInv, WriteDone PROVE FlowInv'
<1>1. /\ writing # 0 /\ writing' = 0
      /\ UNCHANGED <<program, socket, resolving, reads, connected, outbound, app, reconnect,
                     accepted, failures>>
  BY DEF WriteDone
<1>2. UNCHANGED <<outbound_active, outbound_queue>> /\ Front' = Front
  BY <1>1 DEF outbound, Front
<1>3. /\ outbound_active /\ ~HasWrite(done) /\ ~Wrote(done)
      /\ writing = Front /\ Len(written) = writing - 1 /\ writing \in Numbers
  BY <1>1, WritingNext DEF FlowInv, Outbound
<1>4. PICK ok \in BOOLEAN : /\ done' = Append(done, Op("write", writing, ok))
                            /\ written' = IF ok THEN Append(written, writing) ELSE written
  BY DEF WriteDone
<1>5. /\ done' \in Seq(Operations) /\ OneWrite(done') /\ (Wrote(done') <=> ok)
      /\ HasOther(done) => HasOther(done')
  <2>1. done \in Seq(Operations) /\ OneWrite(done)
    BY DEF FlowInv, OutboundFlow
  <2>2. /\ Op("write", writing, ok) \in Operations
        /\ Op("write", writing, ok).op = "write" /\ Op("write", writing, ok).ok = ok
    BY <1>3, WriteOp
  <2> QED BY <1>3, <1>4, <2>1, <2>2, AppendOps
<1>6. /\ written' \in Seq(Numbers) /\ \A i \in 1 .. Len(written') : written'[i] = i
      /\ Len(written') = IF ok THEN Front ELSE Front - 1
  <2>1. written \in Seq(Numbers) /\ \A i \in 1 .. Len(written) : written[i] = i
    BY DEF FlowInv, Outbound, OutboundFlow
  <2>2. CASE ~ok
    BY <1>3, <1>4, <2>1, <2>2
  <2>3. CASE ok
    <3>1. /\ written' \in Seq(Numbers) /\ Len(written') = Len(written) + 1
          /\ \A i \in 1 .. Len(written) : written'[i] = written[i]
          /\ written'[Len(written) + 1] = writing
      BY <1>3, <1>4, <2>1, <2>3, AppendProperties
    <3>2. Len(written) + 1 = writing
      BY <1>3, Lengths
    <3>3. ASSUME NEW i \in 1 .. Len(written') PROVE i \in 1 .. Len(written) \/ i = Len(written) + 1
      BY <3>1, Lengths
    <3> QED BY <1>3, <2>1, <2>3, <3>1, <3>2, <3>3
  <2> QED BY <2>2, <2>3
<1>7. Control' /\ Trying'
  BY <1>1, <1>5 DEF FlowInv, Control, Trying
<1>8. Outbound'
  BY <1>1, <1>2, <1>6 DEF FlowInv, Outbound
<1>9. /\ \A i \in 1 .. Len(outbound_queue') : outbound_queue'[i] = Front' + i
      /\ app' > 0 => accepted' + app' <= MaxMessages
  BY <1>1, <1>2 DEF FlowInv, OutboundFlow
<1>10. OutboundFlow'
  BY <1>1, <1>2, <1>3, <1>5, <1>6, <1>9, Zenon DEF OutboundFlow
<1> QED BY <1>1, <1>5, <1>7, <1>8, <1>10 DEF FlowInv

(* handle_write takes the front of the queue, or gives the way free.        *)
LEMMA WriteFlow ==
  ASSUME FlowInv, done # <<>>, NEW c, NEW rest, c = Head(done), rest = Tail(done),
         c.op = "write", HandleWrite(c, rest), UNCHANGED <<program, app, history>>
  PROVE  FlowInv'
<1> DEFINE q == outbound_queue
<1>1. /\ rest \in Seq(Operations) /\ OneWrite(rest) /\ ~HasWrite(rest) /\ ~Wrote(rest)
      /\ HasWrite(done) /\ writing = 0 /\ (HasOther(rest) <=> HasOther(done))
  BY RestOps, WroteWrites
<1>2. outbound_active
  BY <1>1 DEF FlowInv, OutboundFlow, Outbound
<1>3. UNCHANGED <<accepted, written>>
  BY DEF history
<1>4. CASE Drop(rest) /\ ~c.ok /\ UNCHANGED failures
  BY <1>4, DropOnly
<1>5. CASE /\ c.ok /\ q # <<>>
           /\ outbound_queue' = Tail(q) /\ Write(rest, Head(q))
           /\ UNCHANGED <<outbound_active, socket, resolving, reads, connected, reconnect, failures>>
  <2>1. Len(written) = Front
    BY <1>2, <1>5, RestOps DEF FlowInv, OutboundFlow
  <2>2. /\ Head(q) \in Numbers /\ Tail(q) \in Seq(Numbers) /\ Len(Tail(q)) = Len(q) - 1
        /\ \A i \in 1 .. Len(Tail(q)) : Tail(q)[i] = q[i + 1]
        /\ Head(q) = q[1] /\ Len(q) \in Nat \ {0}
    <3>1. q \in Seq(Numbers) /\ q # <<>>
      BY <1>5 DEF FlowInv, Outbound
    <3>2. Len(q) \in Nat \ {0}
      BY <3>1, EmptySeq
    <3> QED BY <3>1, <3>2, HeadTailProperties
  <2>3. Front' = Front + 1
    BY <1>3, <1>5, <2>2, Lengths DEF Front
  <2>4. \A i \in 1 .. Len(q) : q[i] = Front + i
    BY DEF FlowInv, OutboundFlow
  <2>5. Head(q) = Front' /\ Head(q) # 0
    <3>1. 1 \in 1 .. Len(q)
      BY <2>2
    <3> QED BY <2>2, <2>3, <2>4, <3>1 DEF Numbers
  <2>6. ASSUME NEW i \in 1 .. Len(outbound_queue') PROVE outbound_queue'[i] = Front' + i
    <3>1. i + 1 \in 1 .. Len(q) /\ i \in 1 .. Len(Tail(q))
      BY <1>5, <2>2
    <3>2. outbound_queue'[i] = q[i + 1] /\ q[i + 1] = Front + (i + 1)
      BY <1>5, <2>2, <2>4, <3>1, Zenon
    <3>3. Front + (i + 1) = (Front + 1) + i
      BY Lengths
    <3> QED BY <2>3, <3>2, <3>3
  <2>7. /\ done' \in Seq(Operations) /\ OneWrite(done') /\ ~Wrote(done')
        /\ HasWrite(done') => writing' = 0
        /\ HasOther(rest) => HasOther(done')
        /\ writing' \in {0, Head(q)}
    <3>1. CASE socket = "closed"
      <4>1. done' = Append(rest, Op("write", Head(q), FALSE)) /\ writing' = writing
        BY <1>5, <3>1 DEF Write
      <4>2. /\ Op("write", Head(q), FALSE) \in Operations
            /\ Op("write", Head(q), FALSE).op = "write" /\ ~Op("write", Head(q), FALSE).ok
        BY <2>2, WriteOp
      <4> QED BY <1>1, <4>1, <4>2, AppendOps
    <3>2. CASE socket # "closed"
      BY <1>1, <1>5, <3>2 DEF Write
    <3> QED BY <3>1, <3>2
  <2>8. Control' /\ Trying'
    BY <1>1, <1>5, <2>7 DEF FlowInv, Control, Trying
  <2>9. Outbound'
    BY <1>3, <1>5, <2>2, <2>7 DEF FlowInv, Outbound
  <2>10. Len(written') = Front' - 1
    BY <1>3, <2>1, <2>3, Lengths
  <2>11. /\ \A i \in 1 .. Len(written') : written'[i] = i
         /\ app' > 0 => accepted' + app' <= MaxMessages
    BY <1>3 DEF FlowInv, OutboundFlow
  <2>12. OutboundFlow'
    BY <1>2, <1>5, <2>5, <2>6, <2>7, <2>10, <2>11, Zenon DEF OutboundFlow
  <2> QED BY <2>7, <2>8, <2>9, <2>12 DEF FlowInv
<1>6. CASE /\ c.ok /\ q = <<>>
           /\ outbound_active' = FALSE /\ done' = rest
           /\ UNCHANGED <<outbound_queue, network, connected, reconnect, failures>>
  <2>1. Len(written) = accepted
    <3>1. Len(written) = Front
      BY <1>2, <1>6, RestOps DEF FlowInv, OutboundFlow
    <3> QED BY <1>6, <3>1, Lengths, EmptySeq DEF Front
  <2>2. UNCHANGED <<socket, resolving, reads, writing>>
    BY <1>6 DEF network
  <2>3. Control' /\ Trying'
    BY <1>1, <1>6, <2>2 DEF FlowInv, Control, Trying
  <2>4. Outbound'
    BY <1>3, <1>6, <2>2 DEF FlowInv, Outbound
  <2>5. /\ \A i \in 1 .. Len(written') : written'[i] = i
        /\ \A i \in 1 .. Len(outbound_queue') : outbound_queue'[i] = Front' + i
        /\ app' > 0 => accepted' + app' <= MaxMessages
    BY <1>3, <1>6 DEF FlowInv, OutboundFlow, Front
  <2>6. OutboundFlow'
    BY <1>1, <1>3, <1>6, <2>1, <2>2, <2>5, Zenon DEF OutboundFlow
  <2> QED BY <1>1, <1>6, <2>3, <2>4, <2>6 DEF FlowInv
<1> QED BY <1>4, <1>5, <1>6 DEF HandleWrite

LEMMA ClickFlow == ASSUME FlowInv, NEW n \in 1 .. 2, Click(n) PROVE FlowInv'
<1>1. /\ app' = n /\ accepted + n <= MaxMessages
      /\ UNCHANGED <<program, network, done, connected, outbound, reconnect, history, failures>>
  BY DEF Click
<1>2. UNCHANGED <<socket, resolving, reads, writing, outbound_active, outbound_queue,
                  accepted, written>> /\ Front' = Front
  BY <1>1 DEF network, outbound, history, Front
<1>3. Control' /\ Trying' /\ Outbound'
  BY <1>1, <1>2 DEF FlowInv, Control, Trying, Outbound, HasOther
<1>4. OutboundFlow'
  BY <1>1, <1>2 DEF FlowInv, OutboundFlow, OneWrite, HasWrite, Wrote
<1> QED BY <1>1, <1>3, <1>4 DEF FlowInv

(* send() takes a message: it joins the queue, or is written at once.       *)
LEMMA SendFlow == ASSUME FlowInv, SendNext PROVE FlowInv'
<1>1. /\ app > 0
      /\ UNCHANGED <<program, socket, resolving, reads, connected, reconnect, written, failures>>
  BY DEF SendNext
<1>2. app \in 1 .. 2
  BY <1>1 DEF FlowInv, Outbound
<1>3. CASE /\ app' = (IF program = "controller" THEN -1 ELSE 0)
           /\ UNCHANGED <<writing, done, outbound, accepted>>
  <2>1. UNCHANGED <<outbound_active, outbound_queue>> /\ Front' = Front /\ app' \in {-1, 0}
    BY <1>3 DEF outbound, Front
  <2>2. Control' /\ Trying' /\ Outbound'
    BY <1>1, <1>3, <2>1 DEF FlowInv, Control, Trying, Outbound, HasOther
  <2>3. ~(app' > 0)
    BY <2>1
  <2>4. OutboundFlow'
    BY <1>1, <1>3, <2>1, <2>3 DEF FlowInv, OutboundFlow, OneWrite, HasWrite, Wrote
  <2> QED BY <1>1, <1>3, <2>2, <2>4 DEF FlowInv
<1>4. ASSUME accepted' = accepted + 1, app' = app - 1
      PROVE  /\ accepted' \in Numbers /\ accepted' \in 0 .. MaxMessages /\ app' \in -1 .. 2
             /\ app' > 0 => accepted' + app' <= MaxMessages
  <2>1. accepted + app <= MaxMessages
    BY <1>1 DEF FlowInv, OutboundFlow
  <2> QED BY <1>2, <1>4, <2>1, Lengths DEF Numbers
<1>5. CASE /\ accepted' = accepted + 1 /\ app' = app - 1
           /\ outbound_active /\ outbound_queue' = Append(outbound_queue, accepted')
           /\ UNCHANGED <<outbound_active, writing, done>>
  <2>1. /\ outbound_queue \in Seq(Numbers)
        /\ \A i \in 1 .. Len(outbound_queue) : outbound_queue[i] = Front + i
    BY DEF FlowInv, Outbound, OutboundFlow
  <2>2. /\ outbound_queue' \in Seq(Numbers) /\ Len(outbound_queue') = Len(outbound_queue) + 1
        /\ \A i \in 1 .. Len(outbound_queue) : outbound_queue'[i] = outbound_queue[i]
        /\ outbound_queue'[Len(outbound_queue) + 1] = accepted'
    BY <1>4, <1>5, <2>1, AppendProperties
  <2>3. Front' = Front /\ accepted' = Front + (Len(outbound_queue) + 1)
    BY <1>5, <2>2, Lengths DEF Front
  <2>4. ASSUME NEW i \in 1 .. Len(outbound_queue') PROVE outbound_queue'[i] = Front' + i
    <3>1. i \in 1 .. Len(outbound_queue) \/ i = Len(outbound_queue) + 1
      BY <2>2, Lengths
    <3> QED BY <2>1, <2>2, <2>3, <3>1
  <2>5. Control' /\ Trying'
    BY <1>1, <1>5 DEF FlowInv, Control, Trying, HasOther
  <2>6. Outbound'
    BY <1>1, <1>4, <1>5, <2>2 DEF FlowInv, Outbound
  <2>7. /\ OneWrite(done') /\ (HasWrite(done') => writing' = 0)
        /\ \A i \in 1 .. Len(written') : written'[i] = i
        /\ writing' # 0 => writing' = Front'
    BY <1>1, <1>5, <2>3 DEF FlowInv, OutboundFlow
  <2>8. outbound_active' /\ Len(written') = IF Wrote(done') THEN Front' ELSE Front' - 1
    BY <1>1, <1>5, <2>3 DEF FlowInv, OutboundFlow
  <2>9. OutboundFlow'
    BY <1>4, <1>5, <2>4, <2>7, <2>8, Zenon DEF OutboundFlow
  <2> QED BY <1>1, <1>5, <2>5, <2>6, <2>9 DEF FlowInv
<1>6. CASE /\ accepted' = accepted + 1 /\ app' = app - 1
           /\ ~outbound_active /\ outbound_active' = TRUE
           /\ Write(done, accepted') /\ UNCHANGED outbound_queue
  <2>1. /\ outbound_queue = <<>> /\ Len(written) = accepted /\ writing = 0
        /\ ~HasWrite(done) /\ ~Wrote(done) /\ OneWrite(done) /\ done \in Seq(Operations)
    BY <1>6, WroteWrites DEF FlowInv, OutboundFlow
  <2>2. Front' = accepted' /\ Len(written') = Front' - 1 /\ accepted' # 0
    BY <1>1, <1>6, <2>1, Lengths, EmptySeq DEF Front
  <2>3. /\ done' \in Seq(Operations) /\ OneWrite(done') /\ ~Wrote(done')
        /\ HasWrite(done') => writing' = 0
        /\ HasOther(done) => HasOther(done')
        /\ writing' \in {0, accepted'}
    <3>1. CASE socket = "closed"
      <4>1. done' = Append(done, Op("write", accepted', FALSE)) /\ writing' = writing
        BY <1>6, <3>1 DEF Write
      <4>2. /\ Op("write", accepted', FALSE) \in Operations
            /\ Op("write", accepted', FALSE).op = "write" /\ ~Op("write", accepted', FALSE).ok
        BY <1>4, <1>6, WriteOp
      <4> QED BY <2>1, <4>1, <4>2, AppendOps
    <3>2. CASE socket # "closed"
      BY <1>6, <2>1, <3>2 DEF Write
    <3> QED BY <3>1, <3>2
  <2>4. Control' /\ Trying'
    BY <1>1, <1>6, <2>3 DEF FlowInv, Control, Trying
  <2>5. Outbound'
    BY <1>1, <1>4, <1>6, <2>3 DEF FlowInv, Outbound
  <2>6. \A i \in 1 .. Len(written') : written'[i] = i
    BY <1>1 DEF FlowInv, OutboundFlow
  <2>7. \A i \in 1 .. Len(outbound_queue') : outbound_queue'[i] = Front' + i
    BY <1>6, <2>1
  <2>8. OutboundFlow'
    BY <1>4, <1>6, <2>2, <2>3, <2>6, <2>7, Zenon DEF OutboundFlow
  <2> QED BY <1>1, <2>3, <2>4, <2>5, <2>8 DEF FlowInv
<1> QED BY <1>3, <1>5, <1>6 DEF SendNext

-----------------------------------------------------------------------------
(* All steps.                                                               *)

LEMMA HandlerFlow == ASSUME FlowInv, HandleNext PROVE FlowInv'
<1> DEFINE c == Head(done)
           rest == Tail(done)
<1>1. done # <<>> /\ UNCHANGED <<program, app, history>>
  BY DEF HandleNext
<1>2. \/ c.op = "resolve" /\ HandleClientResolve(c, rest)
      \/ c.op = "connect" /\ HandleConnect(c, rest)
      \/ c.op = "header" /\ HandleReadHeader(c, rest)
      \/ c.op = "message" /\ HandleReadMessage(c, rest)
      \/ c.op = "write" /\ HandleWrite(c, rest)
  BY DEF HandleNext
<1>3. c = Head(done) /\ rest = Tail(done)
  OBVIOUS
<1> HIDE DEF c, rest
<1>4. CASE c.op = "resolve" /\ HandleClientResolve(c, rest)
  BY <1>1, <1>3, <1>4, ResolveFlow
<1>5. CASE c.op = "connect" /\ HandleConnect(c, rest)
  BY <1>1, <1>3, <1>5, ConnectFlow
<1>6. CASE c.op = "header" /\ HandleReadHeader(c, rest)
  BY <1>1, <1>3, <1>6, ReadHeaderFlow
<1>7. CASE c.op = "message" /\ HandleReadMessage(c, rest)
  BY <1>1, <1>3, <1>7, ReadMessageFlow
<1>8. CASE c.op = "write" /\ HandleWrite(c, rest)
  BY <1>1, <1>3, <1>8, WriteFlow
<1> QED BY <1>2, <1>4, <1>5, <1>6, <1>7, <1>8

LEMMA FlowUnchanged == ASSUME FlowInv, UNCHANGED clientVars PROVE FlowInv'
<1>1. UNCHANGED <<program, outbound, history, app, done, writing>>
  BY DEF clientVars, network
<1>2. Control' /\ Trying' /\ Quiet /\ done' \in Seq(Operations)
  BY DEF clientVars, network, FlowInv, Control, Trying, HasOther, Quiet, OutboundFlow, OneWrite,
         HasWrite, Wrote
<1> QED BY <1>1, <1>2, QuietStep

LEMMA FlowStep == FlowInv /\ [ClientNext]_clientVars => FlowInv'
<1> SUFFICES ASSUME FlowInv, [ClientNext]_clientVars PROVE FlowInv'
  OBVIOUS
<1>1. CASE ResolveDone
  BY <1>1, ResolveDoneFlow
<1>2. CASE ConnectDone
  BY <1>2, ConnectDoneFlow
<1>3. CASE Hangup
  BY <1>3, HangupFlow
<1>4. CASE ReadDone
  BY <1>4, ReadDoneFlow
<1>5. CASE WriteDone
  BY <1>5, WriteDoneFlow
<1>6. CASE HandleNext
  BY <1>6, HandlerFlow
<1>7. ASSUME NEW n \in 1 .. 2, Click(n) PROVE FlowInv'
  BY <1>7, ClickFlow
<1>8. CASE SendNext
  BY <1>8, SendFlow
<1>9. CASE ArmTimer \/ TimerExpires \/ HandleReconnectTimer
  BY <1>9, ReconnectFlow
<1>10. CASE UNCHANGED clientVars
  BY <1>10, FlowUnchanged
<1> QED BY <1>1, <1>2, <1>3, <1>4, <1>5, <1>6, <1>7, <1>8, <1>9, <1>10 DEF ClientNext

(* The inductive invariant of the stream client: operations pending and     *)
(* completed, the outbound queue and what reached the network are in line   *)
(* (client.cpp).                                                            *)
THEOREM ClientInvariance == ClientSpec => []FlowInv
BY FlowInit, FlowStep, PTL DEF ClientSpec

(* The client never forgets to try, and outbound_active_ stays set without  *)
(* a write under way only after one failed (client.cpp, disconnect_nosig,   *)
(* handle_write), for any number of messages and failures.                  *)
THEOREM NeverForgetsToTry == ClientSpec => []ClientInv
BY ClientInvariance, FlowMeaning, PTL

(* Every step is one of a pipe without gaps, or none: a message that is     *)
(* written is the one after the last.                                       *)
LEMMA ClientPipeStep ==
  ASSUME FlowInv, [ClientNext]_clientVars
  PROVE  [ClientPipe!Next]_<<accepted, written>>
<1> SUFFICES ASSUME ~UNCHANGED <<accepted, written>>
             PROVE  ClientPipe!Take \/ ClientPipe!Give
  BY DEF ClientPipe!Next
<1>1. CASE SendNext
  BY <1>1 DEF SendNext, ClientPipe!Take
<1>2. CASE WriteDone
  <2>1. written' = Append(written, writing) /\ writing # 0 /\ UNCHANGED accepted
    BY <1>2 DEF WriteDone
  <2>2. Len(written) = writing - 1 /\ writing <= accepted /\ writing \in Nat /\ accepted \in Nat
    BY <2>1, WritingNext, Lengths DEF FlowInv, Outbound, Numbers
  <2>3. ClientPipe!Newest = Len(written)
    <3>1. CASE written = <<>>
      BY <3>1, EmptySeq DEF ClientPipe!Newest
    <3>2. CASE written # <<>>
      <4>1. written \in Seq(Numbers) /\ \A i \in 1 .. Len(written) : written[i] = i
        BY DEF FlowInv, Outbound, OutboundFlow
      <4>2. Len(written) \in 1 .. Len(written)
        BY <3>2, <4>1, EmptySeq
      <4> QED BY <3>2, <4>1, <4>2 DEF ClientPipe!Newest
    <3> QED BY <3>1, <3>2
  <2>4. writing \in (ClientPipe!Newest + 1) .. accepted /\ writing = ClientPipe!Newest + 1
    BY <2>2, <2>3
  <2> QED BY <2>1, <2>4 DEF ClientPipe!Give
<1>3. CASE HandleNext
  BY <1>3 DEF HandleNext, history
<1>4. ASSUME NEW n \in 1 .. 2, Click(n) PROVE FALSE
  BY <1>4 DEF Click, history
<1>5. CASE ResolveDone \/ ConnectDone \/ Hangup \/ ReadDone
  BY <1>5 DEF ResolveDone, ConnectDone, Hangup, ReadDone, history
<1>6. CASE ArmTimer \/ TimerExpires \/ HandleReconnectTimer
  BY <1>6 DEF ArmTimer, TimerExpires, HandleReconnectTimer, history
<1>7. CASE UNCHANGED clientVars
  BY <1>7 DEF clientVars, history
<1> QED BY <1>1, <1>2, <1>3, <1>4, <1>5, <1>6, <1>7 DEF ClientNext

(* The client is an OrderedPipe that may not skip: over all connections     *)
(* together messages reach the network in the order of send(), none twice   *)
(* and none after the first that is lost.                                   *)
THEOREM ClientDeliversInOrder == ClientSpec => DeliversInOrder
<1>1. ClientInit => ClientPipe!Init
  BY DEF ClientInit, ClientPipe!Init
<1>2. FlowInv /\ [ClientNext]_clientVars => [ClientPipe!Next]_<<accepted, written>>
  BY ClientPipeStep
<1> QED BY <1>1, <1>2, ClientInvariance, PTL DEF ClientSpec, DeliversInOrder, ClientPipe!Spec
=============================================================================
