---------------------------- MODULE StreamClient ----------------------------
(***************************************************************************)
(* The TCP client of the front ends (client.cpp) and what they do with it: *)
(* the referee's controller, which reconnects in the handler of            *)
(* signal_disconnected (atwork-controller.cpp, and the viewer likewise),   *)
(* and the shell, which does so by a timer of its own (shell.cpp).         *)
(*                                                                         *)
(* Two threads matter: the client's asio thread, which runs the handlers   *)
(* of completed operations one by one in the order of completion, and the  *)
(* application's, which sends.  An operation on a socket that is closed    *)
(* completes with an error; closing one aborts what is pending on it.      *)
(* Messages are numbers in the order of send(); what comes in is only      *)
(* headers and bodies.  A host name has one endpoint.                      *)
(***************************************************************************)
EXTENDS Integers, Sequences

CONSTANTS
  Programs,    \* subset of {"controller", "shell"}: who uses the client
  MaxMessages, \* bound: messages that send() takes
  MaxFailures  \* bound: failed resolves, refusals, hang-ups, oversized messages

ASSUME ProgramAssumption == Programs \subseteq {"controller", "shell"} /\ Programs # {}
ASSUME ClientBounds == MaxMessages \in Nat /\ MaxFailures \in Nat

VARIABLES
  program,         \* which of them this is
  socket,          \* "closed", "connecting", "open", or "broken": open, the peer is gone
  resolving,       \* number of host names being resolved
  reads,           \* reads pending on the socket: "header" or "message", oldest first
  writing,         \* the message whose async_write is pending, or 0
  done,            \* completed operations that wait for their handlers
  connected,       \* connected_
  outbound_active, \* outbound_active_
  outbound_queue,  \* outbound_queue_
  app,             \* sends that the button just clicked has left; -1: the program has died
  reconnect,       \* shell: disconnections dispatched to it, timer armed, timer handlers due
  accepted,        \* history: messages taken by send()
  written,         \* history: messages taken by a connection
  failures         \* faults so far

network == <<socket, resolving, reads, writing>>
outbound == <<outbound_active, outbound_queue>>
history == <<accepted, written>>
clientVars == <<program, network, done, connected, outbound, app, reconnect, history, failures>>

Op(o, m, ok) == [op |-> o, msg |-> m, ok |-> ok]
Ended(o, ok) == Op(o, 0, ok)

(* The front ends connect when they start.                                 *)
ClientInit ==
  /\ program \in Programs
  /\ socket = "closed" /\ resolving = 1
  /\ reads = <<>> /\ writing = 0 /\ done = <<>>
  /\ connected = FALSE /\ outbound_active = FALSE /\ outbound_queue = <<>>
  /\ app = 0
  /\ reconnect = [dispatched |-> 0, armed |-> FALSE, due |-> 0]
  /\ accepted = 0 /\ written = <<>> /\ failures = 0

Failure == failures < MaxFailures /\ failures' = failures + 1

-----------------------------------------------------------------------------
(* What boost::asio and the network do.                                    *)

(* Operations that closing the socket aborts, in the order in which their  *)
(* handlers are posted.                                                    *)
Aborted ==
  [i \in 1 .. Len(reads) |-> Ended(reads[i], FALSE)]
  \o (IF socket = "connecting" THEN <<Ended("connect", FALSE)>> ELSE <<>>)
  \o (IF writing # 0 THEN <<Op("write", writing, FALSE)>> ELSE <<>>)

ResolveDone ==
  /\ resolving > 0
  /\ resolving' = resolving - 1
  /\ \/ done' = Append(done, Ended("resolve", TRUE)) /\ UNCHANGED failures
     \/ done' = Append(done, Ended("resolve", FALSE)) /\ Failure
  /\ UNCHANGED <<program, socket, reads, writing, connected, outbound, app, reconnect, history>>

ConnectDone ==
  /\ socket = "connecting"
  /\ \/ /\ socket' = "open" /\ done' = Append(done, Ended("connect", TRUE))
        /\ UNCHANGED failures
     \/ /\ socket' = "broken" /\ done' = Append(done, Ended("connect", FALSE))
        /\ Failure
  /\ UNCHANGED <<program, resolving, reads, writing, connected, outbound, app, reconnect, history>>

Hangup ==
  /\ socket = "open" /\ socket' = "broken" /\ Failure
  /\ UNCHANGED <<program, resolving, reads, writing, done, connected, outbound, app, reconnect,
                 history>>

ReadDone ==
  /\ socket \in {"open", "broken"} /\ reads # <<>>
  /\ done' = Append(done, Ended(Head(reads), socket = "open"))
  /\ reads' = Tail(reads)
  /\ UNCHANGED <<program, socket, resolving, writing, connected, outbound, app, reconnect,
                 history, failures>>

(* A connection whose peer is gone may still take what is written.         *)
WriteDone ==
  /\ socket \in {"open", "broken"} /\ writing # 0
  /\ \/ /\ written' = Append(written, writing)
        /\ done' = Append(done, Op("write", writing, TRUE))
     \/ /\ socket = "broken" /\ done' = Append(done, Op("write", writing, FALSE))
        /\ UNCHANGED written
  /\ writing' = 0
  /\ UNCHANGED <<program, socket, resolving, reads, connected, outbound, app, reconnect,
                 accepted, failures>>

-----------------------------------------------------------------------------
(* The handlers.  rest is what else has completed.                         *)

(* handle_disconnect of the controller sleeps and connects again at once;  *)
(* the shell dispatches the signal to its own thread.                      *)
Signalled ==
  IF program = "controller" THEN resolving' = resolving + 1 /\ UNCHANGED reconnect
  ELSE /\ reconnect' = [reconnect EXCEPT !.dispatched = @ + 1]
       /\ UNCHANGED resolving

(* Mutant: a lost connection empties the way for the next one.             *)
DropAndRestart(rest, later) ==
  /\ done' = rest \o (IF socket = "closed" THEN <<>> ELSE Aborted) \o later
  /\ socket' = "closed" /\ reads' = <<>> /\ writing' = 0
  /\ connected' = FALSE /\ outbound_active' = FALSE
  /\ Signalled
  /\ UNCHANGED outbound_queue

(* disconnect_nosig(), then sig_disconnected_; later is what the handler   *)
(* starts on the closed socket, which fails.                               *)
DropAnd(rest, later) ==
  /\ done' = rest \o (IF socket = "closed" THEN <<>> ELSE Aborted) \o later
  /\ socket' = "closed" /\ reads' = <<>> /\ writing' = 0
  /\ connected' = FALSE
  /\ Signalled
  /\ UNCHANGED outbound
Drop(rest) == DropAnd(rest, <<>>)

Start(rest, what) ==
  IF socket = "closed" THEN done' = Append(rest, Ended(what, FALSE)) /\ UNCHANGED reads
  ELSE done' = rest /\ reads' = Append(reads, what)

(* Mutant: whoever cannot resolve the host tells nobody.                   *)
HandleClientResolveSilent(c, rest) ==
  \/ /\ c.ok
     /\ done' = rest \o (IF socket = "closed" THEN <<>> ELSE Aborted)
     /\ socket' = "connecting" /\ reads' = <<>> /\ writing' = 0
     /\ UNCHANGED <<resolving, reconnect, connected, outbound, failures>>
  \/ /\ ~c.ok /\ done' = rest /\ connected' = FALSE
     /\ UNCHANGED <<network, reconnect, outbound, failures>>

(* boost::asio::async_connect closes the socket before it tries an         *)
(* endpoint.                                                               *)
HandleClientResolve(c, rest) ==
  \/ /\ c.ok
     /\ done' = rest \o (IF socket = "closed" THEN <<>> ELSE Aborted)
     /\ socket' = "connecting" /\ reads' = <<>> /\ writing' = 0
     /\ UNCHANGED <<resolving, reconnect, connected, outbound, failures>>
  \/ ~c.ok /\ Drop(rest) /\ UNCHANGED failures

(* Mutant: connected_ is left to the application.                          *)
HandleConnectUnset(c, rest) ==
  \/ /\ c.ok /\ socket # "closed" /\ Start(rest, "header")
     /\ UNCHANGED <<connected, socket, resolving, writing, reconnect, outbound, failures>>
  \/ ~(c.ok /\ socket # "closed") /\ Drop(rest) /\ UNCHANGED failures

(* Its success counts only if the socket has not been closed since.        *)
HandleConnect(c, rest) ==
  \/ /\ c.ok /\ socket # "closed"
     /\ connected' = TRUE /\ Start(rest, "header")
     /\ UNCHANGED <<socket, resolving, writing, reconnect, outbound, failures>>
  \/ ~(c.ok /\ socket # "closed") /\ Drop(rest) /\ UNCHANGED failures

(* A message that realloc() finds no memory for closes the connection, and *)
(* is read all the same.                                                   *)
HandleReadHeader(c, rest) ==
  \/ /\ c.ok /\ Start(rest, "message")
     /\ UNCHANGED <<socket, resolving, writing, connected, reconnect, outbound, failures>>
  \/ c.ok /\ Failure /\ DropAnd(rest, <<Ended("message", FALSE)>>)
  \/ ~c.ok /\ Drop(rest) /\ UNCHANGED failures

(* Whether it can be deserialized or not, the next header is awaited.      *)
HandleReadMessage(c, rest) ==
  \/ /\ c.ok /\ Start(rest, "header")
     /\ UNCHANGED <<socket, resolving, writing, connected, reconnect, outbound, failures>>
  \/ ~c.ok /\ Drop(rest) /\ UNCHANGED failures

(* async_write of the front of the queue or of a message being sent.       *)
Write(rest, m) ==
  IF socket = "closed" THEN done' = Append(rest, Op("write", m, FALSE)) /\ UNCHANGED writing
  ELSE writing' = m /\ done' = rest

HandleWrite(c, rest) ==
  \/ /\ c.ok /\ outbound_queue # <<>>
     /\ outbound_queue' = Tail(outbound_queue) /\ Write(rest, Head(outbound_queue))
     /\ UNCHANGED <<outbound_active, socket, resolving, reads, connected, reconnect, failures>>
  \/ /\ c.ok /\ outbound_queue = <<>>
     /\ outbound_active' = FALSE /\ done' = rest
     /\ UNCHANGED <<outbound_queue, network, connected, reconnect, failures>>
  \/ ~c.ok /\ Drop(rest) /\ UNCHANGED failures

HandleNext ==
  /\ done # <<>> /\ app # -1
  /\ LET c == Head(done)  rest == Tail(done)
     IN  \/ c.op = "resolve" /\ HandleClientResolve(c, rest)
         \/ c.op = "connect" /\ HandleConnect(c, rest)
         \/ c.op = "header" /\ HandleReadHeader(c, rest)
         \/ c.op = "message" /\ HandleReadMessage(c, rest)
         \/ c.op = "write" /\ HandleWrite(c, rest)
  /\ UNCHANGED <<program, app, history>>

-----------------------------------------------------------------------------
(* The application's thread.                                               *)

(* A button sends one message, the one for a new scenario two; the         *)
(* controller asks connected() first, the shell catches what send() throws.*)
Click(n) ==
  /\ app = 0 /\ accepted + n <= MaxMessages
  /\ program = "controller" => connected
  /\ app' = n
  /\ UNCHANGED <<program, network, done, connected, outbound, reconnect, history, failures>>

(* send() throws in a callback that catches nothing, or takes the message; *)
(* its look at connected_ and what it does with the queue are one step.    *)
SendNext ==
  /\ app > 0
  /\ \/ /\ ~connected
        /\ app' = (IF program = "controller" THEN -1 ELSE 0)
        /\ UNCHANGED <<writing, done, outbound, accepted>>
     \/ /\ connected
        /\ accepted' = accepted + 1 /\ app' = app - 1
        /\ \/ /\ outbound_active /\ outbound_queue' = Append(outbound_queue, accepted')
              /\ UNCHANGED <<outbound_active, writing, done>>
           \/ /\ ~outbound_active /\ outbound_active' = TRUE
              /\ Write(done, accepted') /\ UNCHANGED outbound_queue
  /\ UNCHANGED <<program, socket, resolving, reads, connected, reconnect, written, failures>>

(* Shell: client_disconnected arms the timer anew, which cancels one that  *)
(* has not expired.                                                        *)
ArmTimer ==
  /\ reconnect.dispatched > 0
  /\ reconnect' = [reconnect EXCEPT !.dispatched = @ - 1, !.armed = TRUE]
  /\ UNCHANGED <<program, network, done, connected, outbound, app, history, failures>>

TimerExpires ==
  /\ reconnect.armed
  /\ reconnect' = [reconnect EXCEPT !.armed = FALSE, !.due = @ + 1]
  /\ UNCHANGED <<program, network, done, connected, outbound, app, history, failures>>

HandleReconnectTimer ==
  /\ reconnect.due > 0
  /\ reconnect' = [reconnect EXCEPT !.due = @ - 1]
  /\ resolving' = resolving + 1
  /\ UNCHANGED <<program, socket, reads, writing, done, connected, outbound, app, history,
                 failures>>

-----------------------------------------------------------------------------
ClientNext ==
  \/ ResolveDone \/ ConnectDone \/ Hangup \/ ReadDone \/ WriteDone
  \/ HandleNext
  \/ (\E n \in 1 .. 2 : Click(n)) \/ SendNext
  \/ ArmTimer \/ TimerExpires \/ HandleReconnectTimer
ClientSpec == ClientInit /\ [][ClientNext]_clientVars

(* asio runs what has completed, the network ends what was started, and    *)
(* the shell's thread does not stop.  Nothing has to arrive or to be sent. *)
ClientFairness ==
  /\ WF_clientVars(HandleNext) /\ WF_clientVars(ResolveDone) /\ WF_clientVars(ConnectDone)
  /\ WF_clientVars(WriteDone) /\ WF_clientVars(socket = "broken" /\ ReadDone)
  /\ WF_clientVars(SendNext)
  /\ WF_clientVars(ArmTimer) /\ WF_clientVars(TimerExpires) /\ WF_clientVars(HandleReconnectTimer)
FairClientSpec == ClientSpec /\ ClientFairness

-----------------------------------------------------------------------------
Stages == {"header", "message"}
Numbers == 1 .. MaxMessages
Operations == [op : Stages \cup {"resolve", "connect", "write"},
               msg : Numbers \cup {0}, ok : BOOLEAN]

ClientTypes ==
  /\ program \in Programs
  /\ socket \in {"closed", "connecting", "open", "broken"}
  /\ resolving \in Nat /\ reads \in Seq(Stages) /\ writing \in Numbers \cup {0}
  /\ done \in Seq(Operations)
  /\ connected \in BOOLEAN /\ outbound_active \in BOOLEAN /\ outbound_queue \in Seq(Numbers)
  /\ app \in -1 .. 2
  /\ reconnect \in [dispatched : Nat, armed : BOOLEAN, due : Nat]
  /\ accepted \in 0 .. MaxMessages /\ written \in Seq(Numbers)
  /\ failures \in 0 .. MaxFailures

(* The completed writes among what waits for its handler.                  *)
Writes(ops) == {i \in 1 .. Len(ops) : ops[i].op = "write"}

(* The client never forgets to try: unless the program has died something  *)
(* is under way that ends in a connection or in signal_disconnected, and a *)
(* write under way is why outbound_active_ is set as long as none failed.  *)
(* Every handler of client.cpp has to keep one of the two up.              *)
NeverStranded ==
  /\ \/ resolving > 0 \/ reads # <<>> \/ socket = "connecting"
     \/ \E i \in 1 .. Len(done) : done[i].op # "write"
     \/ reconnect.dispatched > 0 \/ reconnect.armed \/ reconnect.due > 0
  /\ (outbound_active /\ Len(written) + Len(outbound_queue) = accepted) =>
       \E i \in Writes(done) : done[i].ok
  /\ (writing # 0 \/ Writes(done) # {}) => outbound_active

ClientInv == ClientTypes /\ NeverStranded

(* Messages reach the network in the order of send() and not twice, over   *)
(* all connections together; after the first that is lost none does, for   *)
(* handle_write leaves outbound_active_ set.                               *)
ClientPipe == INSTANCE OrderedPipe WITH MaySkip <- FALSE, taken <- accepted, given <- written
DeliversInOrder == ClientPipe!Spec

(* The ways in which the client may come to be connected, or learn that it *)
(* is not any more.                                                        *)
Completed(ops) == Len(SelectSeq(done, LAMBDA c : c.op \in ops))

Attempts ==
  resolving + Completed({"resolve", "connect"} \cup Stages) + Len(reads)
  + (IF socket = "connecting" THEN 1 ELSE 0)
  + reconnect.dispatched + (IF reconnect.armed THEN 1 ELSE 0) + reconnect.due

(* A client that tries in one way only is in the end connected for good,   *)
(* or its program has died of an exception of send().  handle_disconnect   *)
(* of the controller starts one attempt for each signal, and an operation  *)
(* that is aborted while another is gives two.                             *)
Recovers == <>[](Attempts = 1) => <>[](app = -1 \/ (connected /\ socket = "open"))

=============================================================================
