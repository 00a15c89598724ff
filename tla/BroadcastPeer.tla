--------------------------- MODULE BroadcastPeer ---------------------------
(***************************************************************************)
(* Peers that broadcast messages by UDP, plain or encrypted (peer.cpp).    *)
(*                                                                         *)
(* Each peer has an asio thread, and one of the application that sends and *)
(* that may change the key.  A step is a section under outbound_mutex_ or  *)
(* a handler.  What is broadcast reaches every peer, the sender included,  *)
(* late, in any order, several times or not at all.                        *)
(*                                                                         *)
(* A message is its sender and a number.  All plain datagrams have one     *)
(* size and all encrypted ones another, which is when the checks of sizes  *)
(* tell least; text that is garbage cannot be deserialized.  setup_crypto  *)
(* is one step, although the other thread may be using the cipher.         *)
(***************************************************************************)
EXTENDS Integers, Sequences, FiniteSets

CONSTANTS
  Nodes,       \* the peers
  Senders,     \* those that send
  Keys,        \* encryption keys
  NoKey,       \* crypto_ is false
  Garbage,     \* text that is not a message
  MaxSent,     \* bound: messages per peer
  MaxArrivals, \* bound: datagrams that a peer receives
  MaxFaults    \* bound: failed resolves, failed sends and changes of a key

ASSUME PeerAssumption ==
  Senders \subseteq Nodes /\ NoKey \notin Keys /\ Garbage \notin Nodes \X (1 .. MaxSent)
ASSUME PeerBounds == MaxSent \in Nat /\ MaxArrivals \in Nat /\ MaxFaults \in Nat

Messages == Nodes \X (1 .. MaxSent)
Ciphers == Keys \cup {NoKey}
Datagrams == [msg : Messages, key : Ciphers]

VARIABLES
  resolve,    \* "pending", "ok" or "failed": the resolution of the address
  active,     \* outbound_active_
  queue,      \* outbound_queue_: numbers of messages
  sending,    \* the datagrams whose async_send_to is pending, one at most
  calls,      \* the threads that are about to call start_send()
  key,        \* crypto_ and the key of crypto_enc_ and crypto_dec_
  cryptoBuf,  \* crypto_buf_
  into,       \* the buffer of the pending receive: "in_data" or "enc_in_data"
  inData,     \* in_data_: is its frame header one of a cipher; its text
  air,        \* datagrams that may still arrive
  taken, given,        \* history: messages queued, those that reached the network
  arrived, delivered,  \* history: how often a peer got and handed on each message
  mixed,      \* history: a key was changed under a receive, or plain text met a key
  faults

sender == <<resolve, active, queue, sending, calls>>
receiver == <<cryptoBuf, into, inData>>
counts == <<arrived, delivered, mixed>>
vars == <<sender, key, receiver, air, taken, given, counts, faults>>

(* The constructors: the address is being resolved, and a receive started. *)
Init ==
  /\ resolve = [n \in Nodes |-> "pending"] /\ active = [n \in Nodes |-> TRUE]
  /\ queue = [n \in Nodes |-> <<>>] /\ sending = [n \in Nodes |-> <<>>]
  /\ calls = [n \in Nodes |-> {}]
  /\ key \in [Nodes -> Ciphers]
  /\ cryptoBuf = [n \in Nodes |-> key[n] # NoKey]
  /\ into = [n \in Nodes |-> IF key[n] # NoKey THEN "enc_in_data" ELSE "in_data"]
  /\ inData = [n \in Nodes |-> [cipher |-> FALSE, text |-> Garbage]]
  /\ air = {}
  /\ taken = [n \in Nodes |-> 0] /\ given = [n \in Nodes |-> <<>>]
  /\ arrived = [n \in Nodes |-> [m \in Messages |-> 0]] /\ delivered = arrived
  /\ mixed = {} /\ faults = 0

Fault == faults < MaxFaults /\ faults' = faults + 1

-----------------------------------------------------------------------------
(* Sending.                                                                *)

HandleResolve(n) ==
  /\ resolve[n] = "pending"
  /\ \/ /\ resolve' = [resolve EXCEPT ![n] = "ok"]
        /\ active' = [active EXCEPT ![n] = FALSE] /\ UNCHANGED faults
     \/ resolve' = [resolve EXCEPT ![n] = "failed"] /\ Fault /\ UNCHANGED active
  /\ calls' = [calls EXCEPT ![n] = @ \cup {"asio"}]
  /\ UNCHANGED <<queue, sending, key, receiver, air, taken, given, counts>>

(* send() and send_raw()                                                   *)
Send(n) ==
  /\ n \in Senders /\ "app" \notin calls[n] /\ taken[n] < MaxSent
  /\ taken' = [taken EXCEPT ![n] = @ + 1]
  /\ queue' = [queue EXCEPT ![n] = Append(@, taken'[n])]
  /\ calls' = [calls EXCEPT ![n] = @ \cup {"app"}]
  /\ UNCHANGED <<resolve, active, sending, key, receiver, air, given, counts, faults>>

(* Mutant: the message sent stays at the front.                            *)
StartSendNoPop(n, t) ==
  /\ t \in calls[n]
  /\ calls' = [calls EXCEPT ![n] = @ \ {t}]
  /\ \/ (queue[n] = <<>> \/ active[n]) /\ UNCHANGED <<active, queue, sending>>
     \/ /\ queue[n] # <<>> /\ ~active[n]
        /\ active' = [active EXCEPT ![n] = TRUE]
        /\ sending' = [sending EXCEPT ![n] =
                          Append(@, [msg |-> <<n, Head(queue[n])>>, key |-> key[n]])]
        /\ UNCHANGED queue
  /\ UNCHANGED <<resolve, key, receiver, air, taken, given, counts, faults>>

(* The message is encrypted with the key of the moment.                    *)
StartSend(n, t) ==
  /\ t \in calls[n]
  /\ calls' = [calls EXCEPT ![n] = @ \ {t}]
  /\ \/ (queue[n] = <<>> \/ active[n]) /\ UNCHANGED <<active, queue, sending>>
     \/ /\ queue[n] # <<>> /\ ~active[n]
        /\ active' = [active EXCEPT ![n] = TRUE]
        /\ queue' = [queue EXCEPT ![n] = Tail(@)]
        /\ sending' = [sending EXCEPT ![n] =
                          Append(@, [msg |-> <<n, Head(queue[n])>>, key |-> key[n]])]
  /\ UNCHANGED <<resolve, key, receiver, air, taken, given, counts, faults>>

(* The network takes the datagram.                                         *)
Reach(n) ==
  LET d == Head(sending[n])
  IN  given' = [given EXCEPT ![n] = Append(@, d.msg[2])] /\ air' = air \cup {d}

(* Mutant: after an error nothing more is sent.                            *)
HandleSentStops(n) ==
  /\ sending[n] # <<>> /\ "asio" \notin calls[n]
  /\ sending' = [sending EXCEPT ![n] = Tail(@)]
  /\ \/ /\ Reach(n)
        /\ active' = [active EXCEPT ![n] = FALSE]
        /\ calls' = [calls EXCEPT ![n] = @ \cup {"asio"}] /\ UNCHANGED faults
     \/ Fault /\ UNCHANGED <<given, air, active, calls>>
  /\ UNCHANGED <<resolve, queue, key, receiver, taken, counts>>

(* A message that could not be sent is given up, and the next one tried.   *)
HandleSent(n) ==
  /\ sending[n] # <<>> /\ "asio" \notin calls[n]
  /\ sending' = [sending EXCEPT ![n] = Tail(@)]
  /\ active' = [active EXCEPT ![n] = FALSE]
  /\ calls' = [calls EXCEPT ![n] = @ \cup {"asio"}]
  /\ \/ Reach(n) /\ UNCHANGED faults
     \/ Fault /\ UNCHANGED <<given, air>>
  /\ UNCHANGED <<resolve, queue, key, receiver, taken, counts>>

(* setup_crypto(), also to change the key or to turn encryption off: the   *)
(* receive under way keeps its buffer.                                     *)
SetupCrypto(n, k) ==
  /\ Fault
  /\ key' = [key EXCEPT ![n] = k]
  /\ cryptoBuf' = [cryptoBuf EXCEPT ![n] = FALSE]
  /\ mixed' = IF into[n] = "enc_in_data" THEN mixed \cup {n} ELSE mixed
  /\ UNCHANGED <<sender, into, inData, air, taken, given, arrived, delivered>>

-----------------------------------------------------------------------------
(* Receiving.                                                              *)

Encrypted(d) == d.key # NoKey

(* in_data_ once datagram d has been written to its buffer.                *)
Filled(n, d) ==
  IF into[n] = "enc_in_data" THEN inData[n]
  ELSE [cipher |-> Encrypted(d), text |-> IF Encrypted(d) THEN Garbage ELSE d.msg]

(* Mutant: a failed decryption leaves bytes_rcvd as it was.                *)
FoundAnyway(n, d) ==
  LET in == Filled(n, d)
  IN  IF ~cryptoBuf[n] THEN {[data |-> in, fits |-> in.cipher = Encrypted(d)]}
      ELSE IF ~Encrypted(d) THEN {[data |-> in, fits |-> TRUE]}
      ELSE IF d.key = key[n]
           THEN {[data |-> [cipher |-> TRUE, text |-> d.msg], fits |-> TRUE]}
      ELSE {[data |-> [cipher |-> TRUE, text |-> t], fits |-> TRUE] : t \in {in.text, Garbage}}

(* What handle_recv may find there to deserialize, after decryption: a     *)
(* record of the new in_data_ and of whether the sizes agree.              *)
Found(n, d) ==
  LET in == Filled(n, d)
  IN  IF ~cryptoBuf[n] THEN {[data |-> in, fits |-> in.cipher = Encrypted(d)]}
      ELSE IF ~Encrypted(d) THEN {[data |-> in, fits |-> TRUE]}
      ELSE IF d.key = key[n]
           THEN {[data |-> [cipher |-> TRUE, text |-> d.msg], fits |-> TRUE]}
      ELSE {[data |-> [cipher |-> TRUE, text |-> t], fits |-> FALSE] : t \in {in.text, Garbage}}

(* handle_recv reports text it did not expect as an error and goes on.     *)
(* Own messages are filtered by their endpoint.  start_recv() chooses the  *)
(* buffer anew.                                                            *)
HandleRecv(n, d) ==
  /\ arrived[n][d.msg] < MaxArrivals
  /\ arrived' = [arrived EXCEPT ![n][d.msg] = @ + 1]
  /\ \E f \in Found(n, d) :
       /\ inData' = [inData EXCEPT ![n] = f.data]
       /\ delivered' = IF f.fits /\ f.data.text # Garbage /\ d.msg[1] # n
                       THEN [delivered EXCEPT ![n][f.data.text] = @ + 1]
                       ELSE delivered
  /\ mixed' = IF cryptoBuf[n] /\ ~Encrypted(d) THEN mixed \cup {n} ELSE mixed
  /\ cryptoBuf' = [cryptoBuf EXCEPT ![n] = key[n] # NoKey]
  /\ into' = [into EXCEPT ![n] = IF key[n] # NoKey THEN "enc_in_data" ELSE "in_data"]
  /\ UNCHANGED <<sender, key, air, taken, given, faults>>

-----------------------------------------------------------------------------
Next == \E n \in Nodes :
          \/ HandleResolve(n) \/ Send(n) \/ HandleSent(n)
          \/ (\E t \in {"app", "asio"} : StartSend(n, t))
          \/ (\E k \in Ciphers : SetupCrypto(n, k))
          \/ (\E d \in air : HandleRecv(n, d))
Spec == Init /\ [][Next]_vars

(* asio resolves and sends, and threads return from start_send().          *)
Fairness == \A n \in Nodes :
  WF_vars(HandleResolve(n)) /\ WF_vars(HandleSent(n))
  /\ \A t \in {"app", "asio"} : WF_vars(StartSend(n, t))
FairSpec == Spec /\ Fairness

-----------------------------------------------------------------------------
TypeOK ==
  /\ resolve \in [Nodes -> {"pending", "ok", "failed"}]
  /\ active \in [Nodes -> BOOLEAN] /\ queue \in [Nodes -> Seq(1 .. MaxSent)]
  /\ sending \in [Nodes -> Seq(Datagrams)] /\ calls \in [Nodes -> SUBSET {"app", "asio"}]
  /\ key \in [Nodes -> Ciphers] /\ cryptoBuf \in [Nodes -> BOOLEAN]
  /\ into \in [Nodes -> {"in_data", "enc_in_data"}]
  /\ inData \in [Nodes -> [cipher : BOOLEAN, text : Messages \cup {Garbage}]]
  /\ air \subseteq Datagrams
  /\ taken \in [Nodes -> 0 .. MaxSent] /\ given \in [Nodes -> Seq(1 .. MaxSent)]
  /\ arrived \in [Nodes -> [Messages -> Nat]] /\ delivered \in [Nodes -> [Messages -> Nat]]
  /\ mixed \subseteq Nodes /\ faults \in 0 .. MaxFaults

(* A message is handed on at most as often as it has arrived, although     *)
(* handle_recv deserializes in_data_, which may still hold an earlier one, *)
(* also after errors.  It takes plain text where a key is set, or a key    *)
(* changed while a receive waits for encrypted text, to get one again.     *)
NoReplay ==
  \A n \in Nodes \ mixed : \A m \in Messages : delivered[n][m] <= arrived[n][m]

(* Messages leave in the order of send() and none twice, although two      *)
(* threads call start_send(); those that fail are skipped.                 *)
Pipe(n) == INSTANCE OrderedPipe WITH MaySkip <- TRUE, taken <- taken[n], given <- given[n]
PipesEmpty == \A n \in Nodes : Pipe(n)!Init
PipesMove == \A n \in Nodes : [Pipe(n)!Next]_<<taken[n], given[n]>>
SendsInOrder == PipesEmpty /\ [][PipesMove]_vars

(* Whatever thread finds the queue busy, somebody sends what is in it,     *)
(* also after errors; only an address that cannot be resolved blocks it    *)
(* for ever.                                                               *)
QueueDrains == \A n \in Nodes : queue[n] # <<>> ~> queue[n] = <<>> \/ resolve[n] = "failed"
=============================================================================
