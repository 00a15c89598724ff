--------------------------- MODULE ProtobufBridge ---------------------------
(***************************************************************************)
(* Between the referee box's rule engine and the TCP clients: the stream   *)
(* server with its sessions and outbound queues (server.cpp), the          *)
(* communicator with its id maps and its two mutexes (communicator.cpp),   *)
(* and what the engine knows of the clients (net.clp).                     *)
(*                                                                         *)
(* Two threads matter.  The main thread starts the engine and runs it at   *)
(* every tick; the asio thread of the server accepts, reads, writes and    *)
(* reports to the communicator.  A step ends where a thread may have to    *)
(* wait for a mutex, or where it relies on something the other thread      *)
(* changes without one (sessions_).                                        *)
(*                                                                         *)
(* Of the log lines that the rules print, and that NetworkLogger sends to  *)
(* every session, those of net-client-connected and -disconnected are      *)
(* modelled.  Payloads are not: a message is the version, a log line or    *)
(* the number of the round of broadcasts it belongs to.                    *)
(***************************************************************************)
EXTENDS Integers, Sequences, FiniteSets, Functions

CONSTANTS
    None,           \* no thread, no message
    StartIds,       \* what next_client_id_, which no constructor sets, may hold
    Wrap,           \* 2^32: a message's client-id is an unsigned int, next_client_id_ a long
    PeerCount,      \* peers that the rules create during start-up
    MaxClients,     \* bound: connections accepted
    MaxRounds,      \* bound: rounds of broadcasts
    Malformed       \* do clients send messages that cannot be deserialized

Version == 0
LogLine == -1

ASSUME IdAssumption == StartIds \subseteq Int
ASSUME WrapAssumption == Wrap \in Nat \ {0}
ASSUME BridgeBounds == PeerCount \in Nat /\ MaxClients \in Nat /\ MaxRounds \in Nat
ASSUME NoneAssumption == None \notin Int /\ None \notin {"main", "asio"}

Cids == 1 .. MaxClients     \* ClientID of a session: next_cid_ when it was accepted

VARIABLES
    link,       \* per client: "new", "up" or "gone", as the network has it
    sessions,   \* keys of sessions_
    reading,    \* sessions with a pending read
    outbound,   \* per session: the entry being written (outbound_active_) or None
    queue,      \* per session: outbound_queue_
    wire,       \* per session: what has been written to the socket
    server,     \* server_clients_: id -> ClientID
    rev,        \* rev_server_clients_: ClientID -> id
    nextId,     \* next_client_id_
    peers,      \* keys of peers_
    facts,      \* [connected, disconnected, clients, messages] in working memory
    up,         \* are the rules loaded
    clips,      \* thread that holds clips_mutex_
    map,        \* thread that holds map_mutex_
    main,       \* [at, todo, target]: where the main thread is
    asio,       \* [at, of]: where the server's thread is
    round,      \* number of the last round of broadcasts
    fate,       \* "alive", or what ended the process
    joined      \* history, per client: the round during which the engine met it

wires == <<outbound, queue, wire>>
maps  == <<server, rev, nextId>>
vars  == <<link, sessions, reading, wires, maps, peers, facts, up, clips, map,
           main, asio, round, fate, joined>>

-----------------------------------------------------------------------------
(* Sessions *)

\* Mutant of Enqueue: an entry is written although another is being written
EnqueueOvertakes(o, sent) ==
    IF sent = <<>> THEN o
    ELSE [outbound |-> Head(sent),
          queue |-> o.queue \o (IF o.outbound = None THEN <<>> ELSE <<o.outbound>>) \o Tail(sent)]

\* Session::send, for one message after the other: it is written at once, or waits
\* for the write in progress
Enqueue(o, sent) ==
    IF sent = <<>> THEN o
    ELSE IF o.outbound = None
         THEN [outbound |-> Head(sent), queue |-> o.queue \o Tail(sent)]
         ELSE [outbound |-> o.outbound, queue |-> o.queue \o sent]

Entry(c) == [outbound |-> outbound[c], queue |-> queue[c]]

\* Messages handed to sessions in one step, per session in the given order
Hand(handed) ==
    LET after(c) == Enqueue(Entry(c), handed[c]) IN
    /\ outbound' = [c \in Cids |-> after(c).outbound]
    /\ queue' = [c \in Cids |-> after(c).queue]
    /\ UNCHANGED wire

\* What a client gets to see, from first to last
Stream(c) == wire[c] \o (IF outbound[c] = None THEN <<>> ELSE <<outbound[c]>>) \o queue[c]

-----------------------------------------------------------------------------
(* Messages in working memory *)

\* clips_assert_message takes any client id but 0 for that of a stream
Via(id) == IF id = 0 THEN "BROADCAST" ELSE "STREAM"
MessageOf(id) == [client |-> id % Wrap, via |-> Via(id % Wrap)]

-----------------------------------------------------------------------------
(* The main thread: start-up and runs of the engine *)

Alive == fate = "alive"

MainAt(at) == Alive /\ main.at = at
MainGoes(at) == main' = [main EXCEPT !.at = at]

\* start_clips: init.clp ends with (reset), which drops the facts asserted since
\* enable_server
StartClips ==
    /\ MainAt("start") /\ clips = None
    /\ clips' = "main" /\ up' = TRUE
    /\ facts' = [connected |-> {}, disconnected |-> {}, clients |-> {}, messages |-> {}]
    /\ MainGoes("peers")
    /\ UNCHANGED <<link, sessions, reading, wires, maps, peers, map, asio, round, fate, joined>>

\* clips_pb_peer_create_local_crypto, from net-init-public and net-init-peers
CreatePeer ==
    /\ MainAt("peers") /\ map = None /\ Cardinality(peers) < PeerCount
    /\ nextId' = nextId + 1
    /\ peers' = peers \cup {nextId + 1}
    /\ UNCHANGED <<link, sessions, reading, wires, server, rev, facts, up, clips, map,
                   main, asio, round, fate, joined>>

\* handle_timer: the messages that wait are handled and retracted; a round of
\* broadcasts goes to every network-client when its period is over
TimerRun ==
    /\ MainAt("idle") /\ clips = None
    /\ clips' = "main"
    /\ facts' = [facts EXCEPT !.messages = {}]
    /\ \/ /\ round < MaxRounds
          /\ round' = round + 1
          /\ main' = [main EXCEPT !.at = "sending", !.todo = facts.clients]
       \/ /\ round' = round
          /\ main' = [main EXCEPT !.at = "sending", !.todo = {}]
    /\ UNCHANGED <<link, sessions, reading, wires, maps, peers, up, map, asio, fate, joined>>

\* clips_pb_send: under map_mutex_, look the client up; an unknown id is ignored
SendToClient ==
    /\ MainAt("sending") /\ map = None
    /\ \E id \in main.todo :
        IF id \in DOMAIN server
          THEN /\ map' = "main"
               /\ main' = [at |-> "found", todo |-> main.todo \ {id}, target |-> server[id]]
          ELSE /\ main' = [main EXCEPT !.todo = @ \ {id}]
               /\ UNCHANGED map
    /\ UNCHANGED <<link, sessions, reading, wires, maps, peers, facts, up, clips,
                   asio, round, fate, joined>>

\* Mutant of FindSession: the exception leaves map_mutex_ locked
FindSessionKeepsLock ==
    /\ MainAt("found")
    /\ MainGoes(IF main.target \in sessions THEN "send" ELSE "sending")
    /\ UNCHANGED <<link, sessions, reading, wires, maps, peers, facts, up, clips, map,
                   asio, round, fate, joined>>

\* ProtobufStreamServer::send: a session that is not there is an exception, which
\* clips_pb_send catches
FindSession ==
    /\ MainAt("found")
    /\ IF main.target \in sessions
         THEN MainGoes("send") /\ UNCHANGED map
         ELSE MainGoes("sending") /\ map' = None
    /\ UNCHANGED <<link, sessions, reading, wires, maps, peers, facts, up, clips,
                   asio, round, fate, joined>>

\* sessions_[client]->send: if the session went meanwhile, operator[] makes a null one
UseSession ==
    /\ MainAt("send")
    /\ IF main.target \in sessions
         THEN /\ Hand([c \in Cids |-> IF c = main.target THEN <<round>> ELSE <<>>])
              /\ UNCHANGED fate
         ELSE fate' = "null session" /\ UNCHANGED wires
    /\ map' = None
    /\ MainGoes("sending")
    /\ UNCHANGED <<link, sessions, reading, maps, peers, facts, up, clips,
                   asio, round, joined>>

\* The agenda is empty, after start-up or after a round
RunEnds ==
    /\ \/ MainAt("sending") /\ main.todo = {}
       \/ MainAt("peers") /\ Cardinality(peers) = PeerCount
    /\ clips' = None
    /\ MainGoes("idle")
    /\ UNCHANGED <<link, sessions, reading, wires, maps, peers, facts, up, map,
                   asio, round, fate, joined>>

Main == StartClips \/ CreatePeer \/ TimerRun \/ SendToClient \/ FindSession
            \/ UseSession \/ RunEnds

-----------------------------------------------------------------------------
(* The server's thread.  Its runs of the engine send without delay: whoever   *)
(* holds clips_mutex_ is alone with map_mutex_, and only this thread changes  *)
(* sessions_.                                                                 *)

AsioAt(at) == Alive /\ asio.at = at
AsioGoes(at) == asio' = [asio EXCEPT !.at = at]
AsioTakes(at, c) == AsioAt("idle") /\ asio' = [at |-> at, of |-> c]

\* handle_accept: start_session asks the socket for its remote endpoint and
\* throws, in a thread that catches nothing, when the client has already left
Accept(c) ==
    /\ AsioAt("idle") /\ link[c] = "new" /\ \A d \in 1 .. (c - 1) : link[d] # "new"
    /\ \/ /\ link' = [link EXCEPT ![c] = "up"]
          /\ sessions' = sessions \cup {c}
          /\ AsioTakes("connected", c)
          /\ UNCHANGED fate
       \/ /\ link' = [link EXCEPT ![c] = "gone"]
          /\ fate' = "no endpoint"
          /\ UNCHANGED <<sessions, asio>>
    /\ UNCHANGED <<reading, wires, maps, peers, facts, up, clips, map, main, round, joined>>

\* handle_server_client_connected, under map_mutex_
Register ==
    /\ AsioAt("connected") /\ map = None
    /\ nextId' = nextId + 1
    /\ server' = [id \in DOMAIN server \cup {nextId + 1} |->
                    IF id = nextId + 1 THEN asio.of ELSE server[id]]
    /\ rev' = [c \in DOMAIN rev \cup {asio.of} |->
                    IF c = asio.of THEN nextId + 1 ELSE rev[c]]
    /\ AsioGoes("announce")
    /\ UNCHANGED <<link, sessions, reading, wires, peers, facts, up, clips, map,
                   main, round, fate, joined>>

\* The run that handle_server_client_connected makes, under clips_mutex_: rule
\* net-client-connected asserts network-client, logs, and sends the version; then
\* start_read.  Without rules the fact waits.
Announce ==
    LET id == rev[asio.of] IN
    /\ AsioAt("announce") /\ clips = None
    /\ IF up
         THEN /\ facts' = [facts EXCEPT !.clients = @ \cup {id}, !.messages = {}]
              /\ Hand([c \in Cids |-> (IF c \in sessions THEN <<LogLine>> ELSE <<>>)
                                        \o (IF c = asio.of THEN <<Version>> ELSE <<>>)])
              /\ joined' = [joined EXCEPT ![asio.of] = round]
         ELSE /\ facts' = [facts EXCEPT !.connected = @ \cup {id}]
              /\ UNCHANGED <<wires, joined>>
    /\ reading' = reading \cup {asio.of}
    /\ AsioGoes("idle")
    /\ UNCHANGED <<link, sessions, maps, peers, up, clips, map, main, round, fate>>

\* handle_server_client_msg takes clips_mutex_ and then map_mutex_; a message of
\* a client that is not registered, or before the template is loaded, is dropped
Message(c) ==
    /\ AsioAt("idle") /\ c \in reading
    /\ clips = None /\ map = None
    /\ up /\ c \in DOMAIN rev
    /\ facts' = [facts EXCEPT !.messages = @ \cup {MessageOf(rev[c])}]
    /\ UNCHANGED <<link, sessions, reading, wires, maps, peers, up, clips, map, main,
                   asio, round, fate, joined>>

\* handle_server_client_fail takes map_mutex_ first ...
BadMessage(c) ==
    /\ Malformed /\ AsioTakes("failed", c) /\ c \in reading
    /\ map = None /\ c \in DOMAIN rev
    /\ map' = "asio"
    /\ UNCHANGED <<link, sessions, reading, wires, maps, peers, facts, up, clips, main,
                   round, fate, joined>>

\* ... and clips_mutex_ while it holds the other
ReportFailure ==
    /\ AsioAt("failed") /\ clips = None
    /\ map' = None
    /\ AsioGoes("idle")
    /\ UNCHANGED <<link, sessions, reading, wires, maps, peers, facts, up, clips, main,
                   round, fate, joined>>

\* Mutant of Written: the queue is not looked at when a write is done
WrittenStops(c) ==
    /\ AsioAt("idle") /\ outbound[c] # None
    /\ wire' = [wire EXCEPT ![c] = Append(@, outbound[c])]
    /\ outbound' = [outbound EXCEPT ![c] = None]
    /\ UNCHANGED <<queue, link, sessions, reading, maps, peers, facts, up, clips, map, main,
                   asio, round, fate, joined>>

\* handle_write: the next entry of the queue is written
Written(c) ==
    /\ AsioAt("idle") /\ outbound[c] # None
    /\ wire' = [wire EXCEPT ![c] = Append(@, outbound[c])]
    /\ outbound' = [outbound EXCEPT ![c] = IF queue[c] = <<>> THEN None ELSE Head(queue[c])]
    /\ queue' = [queue EXCEPT ![c] = IF @ = <<>> THEN @ ELSE Tail(@)]
    /\ UNCHANGED <<link, sessions, reading, maps, peers, facts, up, clips, map, main,
                   asio, round, fate, joined>>

\* disconnected: the pending read or the write in progress ends with an error.  Once
\* erased the session is only kept by its other pending operation; a queue that a
\* failed write leaves behind is never written.
Broken(c) ==
    /\ AsioTakes("disconnected", c) /\ link[c] = "gone"
    /\ \/ c \in reading /\ reading' = reading \ {c} /\ UNCHANGED wires
       \/ /\ outbound[c] # None /\ UNCHANGED reading
          /\ outbound' = [outbound EXCEPT ![c] = None] /\ queue' = [queue EXCEPT ![c] = <<>>]
          /\ UNCHANGED wire
    /\ sessions' = sessions \ {c}
    /\ UNCHANGED <<link, maps, peers, facts, up, clips, map, main, round, fate, joined>>

\* Mutant of Unregister: server_clients_ keeps the id
UnregisterKeepsServer ==
    /\ AsioAt("disconnected") /\ map = None
    /\ IF asio.of \in DOMAIN rev
         THEN /\ rev' = Restrict(rev, DOMAIN rev \ {asio.of})
              /\ asio' = IF rev[asio.of] >= 0 THEN [at |-> "retire", of |-> rev[asio.of]]
                                              ELSE [asio EXCEPT !.at = "idle"]
         ELSE AsioGoes("idle") /\ UNCHANGED rev
    /\ UNCHANGED <<server, link, sessions, reading, wires, nextId, peers, facts, up, clips, map,
                   main, round, fate, joined>>
\* Mutant of Unregister: the client is looked up and reported, not erased
UnregisterKeepsBoth ==
    /\ AsioAt("disconnected") /\ map = None
    /\ asio' = IF asio.of \in DOMAIN rev THEN [at |-> "retire", of |-> rev[asio.of]]
                                         ELSE [asio EXCEPT !.at = "idle"]
    /\ UNCHANGED <<server, rev, link, sessions, reading, wires, nextId, peers, facts, up, clips,
                   map, main, round, fate, joined>>

\* handle_server_client_disconnected, under map_mutex_; only an id that is not
\* negative is reported
Unregister ==
    /\ AsioAt("disconnected") /\ map = None
    /\ IF asio.of \in DOMAIN rev
         THEN LET id == rev[asio.of] IN
              /\ rev' = Restrict(rev, DOMAIN rev \ {asio.of})
              /\ server' = Restrict(server, DOMAIN server \ {id})
              /\ asio' = IF id >= 0 THEN [at |-> "retire", of |-> id]
                                    ELSE [asio EXCEPT !.at = "idle"]
         ELSE AsioGoes("idle") /\ UNCHANGED <<rev, server>>
    /\ UNCHANGED <<link, sessions, reading, wires, nextId, peers, facts, up, clips, map,
                   main, round, fate, joined>>

\* Mutant of Retire: net-client-disconnected retracts the event only
RetireKeepsClient ==
    /\ AsioAt("retire") /\ clips = None
    /\ facts' = [facts EXCEPT !.messages = IF up THEN {} ELSE @]
    /\ AsioGoes("idle")
    /\ UNCHANGED <<wires, link, sessions, reading, maps, peers, up, clips, map, main, round,
                   fate, joined>>

\* The run that handle_server_client_disconnected makes: net-client-disconnected
\* retracts both facts, or the fact stays if the engine never met the client
Retire ==
    /\ AsioAt("retire") /\ clips = None
    /\ IF up /\ asio.of \in facts.clients
         THEN /\ facts' = [facts EXCEPT !.clients = @ \ {asio.of}, !.messages = {}]
              /\ Hand([c \in Cids |-> IF c \in sessions THEN <<LogLine>> ELSE <<>>])
         ELSE /\ facts' = [facts EXCEPT !.disconnected = @ \cup {asio.of},
                                        !.messages = IF up THEN {} ELSE @]
              /\ UNCHANGED wires
    /\ AsioGoes("idle")
    /\ UNCHANGED <<link, sessions, reading, maps, peers, up, clips, map, main, round,
                   fate, joined>>

Asio == \/ \E c \in Cids : Accept(c) \/ Message(c) \/ BadMessage(c) \/ Written(c) \/ Broken(c)
        \/ Register \/ Announce \/ ReportFailure \/ Unregister \/ Retire

-----------------------------------------------------------------------------
(* The network: clients leave, peers send *)

Leave(c) ==
    /\ Alive /\ link[c] = "up"
    /\ link' = [link EXCEPT ![c] = "gone"]
    /\ UNCHANGED <<sessions, reading, wires, maps, peers, facts, up, clips, map, main,
                   asio, round, fate, joined>>

\* handle_peer_msg, in the thread of the peer
PeerMessage ==
    /\ Alive /\ clips = None /\ up
    /\ \E p \in peers :
         facts' = [facts EXCEPT !.messages = @ \cup {MessageOf(p)}]
    /\ UNCHANGED <<link, sessions, reading, wires, maps, peers, up, clips, map, main,
                   asio, round, fate, joined>>

-----------------------------------------------------------------------------

\* enable_server has made the server; the rules are not loaded
Init ==
    /\ link = [c \in Cids |-> "new"]
    /\ sessions = {} /\ reading = {}
    /\ outbound = [c \in Cids |-> None]
    /\ queue = [c \in Cids |-> <<>>] /\ wire = [c \in Cids |-> <<>>]
    /\ server = <<>> /\ rev = <<>> /\ nextId \in StartIds /\ peers = {}
    /\ facts = [connected |-> {}, disconnected |-> {}, clients |-> {}, messages |-> {}]
    /\ up = FALSE /\ clips = None /\ map = None
    /\ main = [at |-> "start", todo |-> {}, target |-> None]
    /\ asio = [at |-> "idle", of |-> None]
    /\ round = 0 /\ fate = "alive"
    /\ joined = [c \in Cids |-> None]

Next == Main \/ Asio \/ (\E c \in Cids : Leave(c)) \/ PeerMessage

Spec == Init /\ [][Next]_vars

\* The handlers of the server's thread that wait for a mutex
Handler == Register \/ Announce \/ Unregister \/ Retire \/ ReportFailure

\* Threads go on; the server's thread gets a mutex that is free again and again; the
\* ends of its operations reach it, in their turn with what clients send
FairSpec ==
    /\ Spec /\ WF_vars(Main) /\ SF_vars(Handler)
    /\ \A c \in Cids : SF_vars(Written(c) \/ Broken(c))

-----------------------------------------------------------------------------
(* Properties *)

Memory == [connected : SUBSET Int, disconnected : SUBSET Int, clients : SUBSET Int,
           messages : SUBSET [client : Int, via : {"STREAM", "BROADCAST"}]]
MainPlaces == [at : {"start", "peers", "idle", "sending", "found", "send"},
               todo : SUBSET Int, target : {None} \cup Cids]
AsioPlaces == [at : {"idle", "connected", "announce", "failed", "disconnected", "retire"},
               of : {None} \cup Int]

\* Types of all but the wires and the mutexes
BridgeTypes ==
    /\ link \in [Cids -> {"new", "up", "gone"}]
    /\ DOMAIN rev \subseteq Cids /\ \A c \in DOMAIN rev : rev[c] \in Int
    /\ DOMAIN server \subseteq Int
    /\ nextId \in Int /\ peers \subseteq Int
    /\ facts \in Memory
    /\ up \in BOOLEAN
    /\ main \in MainPlaces
    /\ asio \in AsioPlaces
    /\ round \in Nat
    /\ joined \in [Cids -> {None} \cup Nat]

TypeOK ==
    /\ BridgeTypes
    /\ sessions \subseteq Cids /\ reading \subseteq Cids
    /\ outbound \in [Cids -> {None} \cup Int]
    /\ queue \in [Cids -> Seq(Int)] /\ wire \in [Cids -> Seq(Int)]
    /\ \A id \in DOMAIN server : server[id] \in Cids
    /\ clips \in {None, "main"} /\ map \in {None, "main", "asio"}
    /\ fate \in {"alive", "no endpoint", "null session"}

\* One id is one client: the two maps are inverse, and no peer has the id of a client.
OneToOne ==
    /\ \A c \in DOMAIN rev : rev[c] \in DOMAIN server /\ server[rev[c]] = c
    /\ \A id \in DOMAIN server : server[id] \in DOMAIN rev /\ rev[server[id]] = id
    /\ DOMAIN server \cap peers = {}

\* Where a stream has the version or a broadcast, and which of these messages it has
Told(s) == {i \in DOMAIN s : s[i] # LogLine}
Gets(s, m) == \E i \in Told(s) : s[i] = m

\* A stream has of the messages that are due none twice, none before a smaller one,
\* none without all smaller ones, and no other messages
InOrder(s, due) ==
    /\ \A i \in Told(s) : s[i] \in due
    /\ \A i, j \in Told(s) : i < j => s[i] < s[j]
    /\ \A i \in Told(s) : \A m \in due : m < s[i] => Gets(s, m)

\* What a client is to get: the version, then the rounds since it joined
Due(c) == IF joined[c] = None THEN {} ELSE {Version} \cup (joined[c] + 1 .. round)

\* A client that the engine met gets the version and then every round of broadcasts
\* after it joined, in order, none twice and none left out while its session stands;
\* nobody else gets anything but log lines.
Served ==
    \A c \in Cids :
        /\ InOrder(Stream(c), Due(c))
        /\ Alive /\ c \in sessions /\ main.at = "idle" =>
               \A m \in Due(c) : Gets(Stream(c), m)

\* The ids of the clients that the engine has met and the communicator still has
Met == {rev[c] : c \in {d \in DOMAIN rev : joined[d] # None}}
NonNegative(ids) == {id \in ids : id >= 0}

\* But while a client is being retired, the engine's network-client facts are the
\* clients of the communicator: those that came before the rules were loaded it
\* never met, those with a negative id it never loses.
Roster == asio.at # "retire" => NonNegative(facts.clients) = NonNegative(Met)

\* What makes OneToOne and Roster inductive: ids are handed out above all others, a
\* connection is registered once, and a client that is being retired is in no map.
IdsGiven ==
    /\ \A c \in DOMAIN rev : rev[c] <= nextId
    /\ \A p \in peers : p <= nextId
Registration ==
    /\ \A c \in Cids : link[c] = "new" => c \notin DOMAIN rev /\ joined[c] = None
    /\ asio.at = "connected" =>
           asio.of \in Cids \ DOMAIN rev /\ link[asio.of] # "new" /\ joined[asio.of] = None
    /\ asio.at = "announce" => asio.of \in DOMAIN rev
Retiring ==
    asio.at = "retire" =>
        /\ asio.of \in Int \ Met
        /\ NonNegative(facts.clients) \ {asio.of} = NonNegative(Met)
NobodyMet ==
    /\ main.at = "start" => ~up
    /\ ~up => facts.clients = {} /\ \A c \in Cids : joined[c] = None
BridgeInv == /\ BridgeTypes /\ OneToOne /\ Roster
             /\ IdsGiven /\ Registration /\ Retiring /\ NobodyMet

\* What makes Served inductive: the mutexes say where the threads are, ...
Sending == main.at \in {"sending", "found", "send"}
Looking == main.at \in {"found", "send"}
MutexInv ==
    /\ clips = (IF Sending \/ main.at = "peers" THEN "main" ELSE None)
    /\ map = (IF Looking THEN "main" ELSE IF asio.at = "failed" THEN "asio" ELSE None)
    /\ ~(Looking /\ asio.at = "failed")
    /\ ~Sending => main.todo = {}
    /\ main.todo \subseteq facts.clients
    /\ Looking => /\ main.target \in DOMAIN rev /\ rev[main.target] \notin main.todo
                  /\ joined[main.target] # None

\* ... a session that the engine met is registered and has its fact, ...
SessionInv ==
    /\ \A c \in sessions : link[c] # "new"
    /\ asio.at \in {"connected", "announce"} =>
           asio.of \in sessions /\ joined[asio.of] = None
    /\ asio.at = "disconnected" => asio.of \in Cids \ sessions
    /\ \A c \in sessions : joined[c] # None => c \in DOMAIN rev /\ rev[c] \in facts.clients
    /\ \A id \in facts.clients :
           id <= nextId /\ (id \in DOMAIN server => joined[server[id]] # None)
    /\ \A c \in Cids : joined[c] # None => joined[c] <= round
    /\ \A c \in Cids : outbound[c] = None => queue[c] = <<>>

\* ... and it has got all it is due, but for the round that it is still to be sent
Pending(c) == \/ c \in DOMAIN rev /\ rev[c] \in main.todo
              \/ Looking /\ main.target = c
Current(c) ==
    /\ \A m \in Due(c) : Gets(Stream(c), m) \/ (m = round /\ Pending(c))
    /\ Pending(c) => joined[c] < round /\ ~Gets(Stream(c), round)
StreamInv ==
    /\ \A c \in Cids : InOrder(Stream(c), Due(c))
    /\ \A c \in sessions : joined[c] # None => Current(c)

ServedInv == BridgeInv /\ TypeOK /\ MutexInv /\ SessionInv /\ StreamInv

\* The two threads wait for each other: a run that is to send or to create a peer has
\* clips_mutex_ and needs map_mutex_, handle_server_client_fail has it the other way
\* round.
Crossed ==
    /\ clips = "main" /\ map = "asio"
    /\ \/ main.at = "sending" /\ main.todo # {}
       \/ main.at = "peers" /\ Cardinality(peers) < PeerCount
Stopped == ~Alive \/ Crossed

\* Every run of the main thread ends, unless the process does or a message that cannot
\* be deserialized makes the two threads take the mutexes crosswise: nothing else
\* keeps the engine from the next tick, for clips_mutex_ and map_mutex_ are given back
\* on every path.
RunsEnd == main.at # "idle" ~> main.at = "idle" \/ Stopped

\* A client that is gone is forgotten by the communicator, whichever of its
\* operations ended first and whatever it had sent, while the threads go on.
GoneForgotten ==
    \A c \in Cids : c \in DOMAIN rev /\ link[c] = "gone" ~> c \notin DOMAIN rev \/ Stopped

\* A queue is worked off while the threads go on.
QueuesDrain == \A c \in Cids : queue[c] # <<>> ~> queue[c] = <<>> \/ Stopped

=============================================================================
