------------------------ MODULE ProtobufBridgeProofs ------------------------
(***************************************************************************)
(* Theorems about ProtobufBridge: whatever the number of clients, peers    *)
(* and rounds, and whatever next_client_id_ holds at first, ids are given  *)
(* to one client each and the engine knows the clients it has met.         *)
(*                                                                         *)
(* The invariant BridgeInv is proved in three parts, for the steps that    *)
(* change the maps, the ids, the engine's facts or the place of the        *)
(* server's thread; all other steps leave what it talks about alone.       *)
(***************************************************************************)
EXTENDS ProtobufBridge, TLAPS

USE IdAssumption, BridgeBounds, NoneAssumption

LEMMA InvInit == Init => BridgeInv
<1> SUFFICES ASSUME Init PROVE BridgeInv
  OBVIOUS
<1>1. DOMAIN rev = {} /\ DOMAIN server = {}
  BY DEF Init
<1>2. nextId \in Int
  BY DEF Init
<1>3. BridgeTypes
  BY <1>1, <1>2 DEF Init, BridgeTypes, Memory, MainPlaces, AsioPlaces
<1>4. OneToOne /\ IdsGiven
  BY <1>1 DEF Init, OneToOne, IdsGiven
<1>5. Met = {}
  BY <1>1 DEF Met
<1>6. Roster /\ Retiring /\ NobodyMet
  BY <1>5 DEF Init, Roster, Retiring, NobodyMet, NonNegative
<1>7. Registration
  BY <1>1 DEF Init, Registration
<1>8. QED
  BY <1>3, <1>4, <1>6, <1>7 DEF BridgeInv

-----------------------------------------------------------------------------
(* Types *)

LEMMA ForgetMessages ==
    ASSUME NEW f \in Memory PROVE [f EXCEPT !.messages = {}] \in Memory
  BY DEF Memory

LEMMA AddMessage ==
    ASSUME NEW f \in Memory, NEW id \in Int
    PROVE  [f EXCEPT !.messages = @ \cup {MessageOf(id)}] \in Memory
<1>1. id % Wrap \in Int
  BY WrapAssumption
<1>2. MessageOf(id) \in [client : Int, via : {"STREAM", "BROADCAST"}]
  BY <1>1 DEF MessageOf, Via
<1>3. QED
  BY <1>2 DEF Memory

LEMMA SetClients ==
    ASSUME NEW f \in Memory, NEW S \in SUBSET Int
    PROVE  [f EXCEPT !.clients = S, !.messages = {}] \in Memory
  BY DEF Memory

LEMMA ClientsSet ==
    ASSUME NEW f \in Memory, NEW S
    PROVE  [f EXCEPT !.clients = S, !.messages = {}].clients = S
  BY DEF Memory

LEMMA ClientsKept ==
    ASSUME NEW f \in Memory, NEW S, NEW M
    PROVE  [f EXCEPT !.disconnected = S, !.messages = M].clients = f.clients
  BY DEF Memory

LEMMA SetEvents ==
    ASSUME NEW f \in Memory, NEW S \in SUBSET Int
    PROVE  /\ [f EXCEPT !.connected = S] \in Memory
           /\ [f EXCEPT !.disconnected = S, !.messages = {}] \in Memory
           /\ [f EXCEPT !.disconnected = S, !.messages = f.messages] \in Memory
  BY DEF Memory

LEMMA MemoryFields ==
    ASSUME NEW f \in Memory
    PROVE  f.connected \subseteq Int /\ f.disconnected \subseteq Int /\ f.clients \subseteq Int
  BY DEF Memory

LEMMA MainGoesTypes ==
    ASSUME NEW m \in MainPlaces, NEW todo \in SUBSET Int,
           NEW at \in {"start", "peers", "idle", "sending", "found", "send"}
    PROVE  /\ [m EXCEPT !.at = at] \in MainPlaces
           /\ [m EXCEPT !.todo = todo] \in MainPlaces
           /\ [m EXCEPT !.at = at, !.todo = todo] \in MainPlaces
           /\ \A c \in Cids : [at |-> at, todo |-> todo, target |-> c] \in MainPlaces
           /\ m.todo \subseteq Int
  BY DEF MainPlaces

LEMMA AsioGoesTypes ==
    ASSUME NEW a \in AsioPlaces, NEW n \in Int,
           NEW at \in {"idle", "connected", "announce", "failed", "disconnected", "retire"}
    PROVE  [a EXCEPT !.at = at] \in AsioPlaces /\ [at |-> at, of |-> n] \in AsioPlaces
  BY DEF AsioPlaces

LEMMA TypesStep == BridgeInv /\ [Next]_vars => BridgeTypes'
<1> SUFFICES ASSUME BridgeInv, [Next]_vars PROVE BridgeTypes'
  OBVIOUS
<1> USE DEF BridgeInv, BridgeTypes
<1>0. Cids \subseteq Int
  BY DEF Cids
<1>1. CASE StartClips
  <2>1. facts' \in Memory
    BY <1>1 DEF StartClips, Memory
  <2>2. QED
    BY <1>1, <2>1, MainGoesTypes DEF StartClips, MainGoes, maps
<1>2. CASE CreatePeer
  BY <1>2 DEF CreatePeer
<1>3. CASE TimerRun
  <2>1. round' \in Nat
    BY <1>3 DEF TimerRun
  <2>2. PICK todo \in {facts.clients, {}} :
           main' = [main EXCEPT !.at = "sending", !.todo = todo]
    BY <1>3 DEF TimerRun
  <2>3. todo \in SUBSET Int
    BY MemoryFields
  <2>4. main' \in MainPlaces
    BY <2>2, <2>3, MainGoesTypes
  <2>5. facts' \in Memory
    BY <1>3, ForgetMessages DEF TimerRun
  <2>6. QED
    BY <1>3, <2>1, <2>4, <2>5 DEF TimerRun, maps
<1>4. CASE SendToClient
  <2>1. main' \in MainPlaces
    <3>1. PICK id \in main.todo :
             IF id \in DOMAIN server
               THEN main' = [at |-> "found", todo |-> main.todo \ {id}, target |-> server[id]]
               ELSE main' = [main EXCEPT !.todo = @ \ {id}]
      BY <1>4 DEF SendToClient
    <3>2. main.todo \ {id} \in SUBSET Int
      BY MainGoesTypes
    <3>3. id \in DOMAIN server => server[id] \in Cids
      BY DEF OneToOne
    <3>4. CASE id \in DOMAIN server
      <4>1. main' = [at |-> "found", todo |-> main.todo \ {id}, target |-> server[id]]
        BY <3>1, <3>4
      <4>2. QED
        BY <3>2, <3>3, <3>4, <4>1 DEF MainPlaces
    <3>5. CASE id \notin DOMAIN server
      <4>1. main.at \in {"start", "peers", "idle", "sending", "found", "send"}
        BY DEF MainPlaces
      <4>2. [main EXCEPT !.todo = main.todo \ {id}] \in MainPlaces
        BY <3>2, <4>1, MainGoesTypes
      <4>3. QED
        BY <3>1, <3>5, <4>2
    <3>6. QED
      BY <3>4, <3>5
  <2>2. QED
    BY <1>4, <2>1 DEF SendToClient, maps
<1>5. CASE FindSession
  BY <1>5, MainGoesTypes DEF FindSession, MainGoes, maps
<1>6. CASE UseSession
  BY <1>6, MainGoesTypes DEF UseSession, MainGoes, maps
<1>7. CASE RunEnds
  BY <1>7, MainGoesTypes DEF RunEnds, MainGoes, maps
<1>8. ASSUME NEW c \in Cids, Accept(c) PROVE BridgeTypes'
  <2>1. link' \in [Cids -> {"new", "up", "gone"}]
    BY <1>8 DEF Accept
  <2>2. asio' = asio \/ asio' = [at |-> "connected", of |-> c]
    BY <1>8 DEF Accept, AsioTakes
  <2>3. asio' \in AsioPlaces
    BY <1>0, <2>2, AsioGoesTypes
  <2>4. QED
    BY <1>8, <2>1, <2>3 DEF Accept, maps
<1>9. CASE Register
  <2>1. asio' \in AsioPlaces
    BY <1>9, AsioGoesTypes DEF Register, AsioGoes
  <2>2. asio.of \in Cids
    BY <1>9 DEF Register, AsioAt, Registration
  <2>3. /\ DOMAIN rev' \subseteq Cids /\ \A c \in DOMAIN rev' : rev'[c] \in Int
        /\ DOMAIN server' \subseteq Int /\ nextId' \in Int
    BY <1>9, <2>2 DEF Register
  <2>4. QED
    BY <1>9, <2>1, <2>3 DEF Register
<1>10. CASE Announce
  <2>1. rev[asio.of] \in Int /\ asio.of \in Cids
    BY <1>10 DEF Announce, AsioAt, Registration
  <2>2. facts' \in Memory
    <3>1. /\ facts.clients \cup {rev[asio.of]} \in SUBSET Int
          /\ facts.connected \cup {rev[asio.of]} \in SUBSET Int
      BY <2>1, MemoryFields
    <3>2. CASE up
      <4>1. facts' = [facts EXCEPT !.clients = facts.clients \cup {rev[asio.of]}, !.messages = {}]
        BY <1>10, <3>2 DEF Announce
      <4>2. QED
        BY <3>1, <4>1, SetClients
    <3>3. CASE ~up
      <4>1. facts' = [facts EXCEPT !.connected = facts.connected \cup {rev[asio.of]}]
        BY <1>10, <3>3 DEF Announce
      <4>2. QED
        BY <3>1, <4>1, SetEvents
    <3>4. QED
      BY <3>2, <3>3
  <2>3. joined' \in [Cids -> {None} \cup Nat]
    BY <1>10, <2>1 DEF Announce
  <2>4. asio' \in AsioPlaces
    BY <1>0, <1>10, <2>1, AsioGoesTypes DEF Announce, AsioGoes
  <2>5. QED
    BY <1>10, <2>2, <2>3, <2>4 DEF Announce, maps
<1>11. ASSUME NEW c \in Cids, Message(c) PROVE BridgeTypes'
  BY <1>11, AddMessage DEF Message, maps
<1>12. ASSUME NEW c \in Cids, BadMessage(c) PROVE BridgeTypes'
  BY <1>0, <1>12, AsioGoesTypes DEF BadMessage, AsioTakes, maps
<1>13. CASE ReportFailure
  BY <1>13, AsioGoesTypes DEF ReportFailure, AsioGoes, maps
<1>14. ASSUME NEW c \in Cids, Written(c) PROVE BridgeTypes'
  BY <1>14 DEF Written, maps
<1>15. ASSUME NEW c \in Cids, Broken(c) PROVE BridgeTypes'
  BY <1>0, <1>15, AsioGoesTypes DEF Broken, AsioTakes, maps
<1>16. CASE Unregister
  <2>1. asio' \in AsioPlaces
    BY <1>16, AsioGoesTypes DEF Unregister, AsioGoes
  <2>2. /\ DOMAIN rev' \subseteq Cids /\ \A c \in DOMAIN rev' : rev'[c] \in Int
        /\ DOMAIN server' \subseteq Int
    BY <1>16 DEF Unregister, Restrict
  <2>3. QED
    BY <1>16, <2>1, <2>2 DEF Unregister
<1>17. CASE Retire
  <2>1. asio.of \in Int
    BY <1>17 DEF Retire, AsioAt, Retiring
  <2>2. facts' \in Memory
    <3>1. /\ facts.clients \ {asio.of} \in SUBSET Int
          /\ facts.disconnected \cup {asio.of} \in SUBSET Int
      BY <2>1, MemoryFields
    <3>2. CASE up /\ asio.of \in facts.clients
      <4>1. facts' = [facts EXCEPT !.clients = facts.clients \ {asio.of}, !.messages = {}]
        BY <1>17, <3>2 DEF Retire
      <4>2. QED
        BY <3>1, <4>1, SetClients
    <3>3. CASE up /\ asio.of \notin facts.clients
      <4>1. facts' = [facts EXCEPT !.disconnected = facts.disconnected \cup {asio.of},
                                    !.messages = {}]
        BY <1>17, <3>3 DEF Retire
      <4>2. QED
        BY <3>1, <4>1, SetEvents
    <3>4. CASE ~up
      <4>1. facts' = [facts EXCEPT !.disconnected = facts.disconnected \cup {asio.of},
                                    !.messages = facts.messages]
        BY <1>17, <3>4 DEF Retire
      <4>2. QED
        BY <3>1, <4>1, SetEvents
    <3>5. QED
      BY <3>2, <3>3, <3>4
  <2>3. asio' \in AsioPlaces
    BY <1>17, <2>1, AsioGoesTypes DEF Retire, AsioGoes
  <2>4. QED
    BY <1>17, <2>2, <2>3 DEF Retire, maps
<1>18. ASSUME NEW c \in Cids, Leave(c) PROVE BridgeTypes'
  BY <1>18 DEF Leave, maps
<1>19. CASE PeerMessage
  BY <1>19, AddMessage DEF PeerMessage, maps
<1>20. CASE UNCHANGED vars
  BY <1>20 DEF vars, maps
<1>21. QED
  BY <1>1, <1>2, <1>3, <1>4, <1>5, <1>6, <1>7, <1>8, <1>9, <1>10, <1>11, <1>12, <1>13,
     <1>14, <1>15, <1>16, <1>17, <1>18, <1>19, <1>20 DEF Next, Main, Asio

-----------------------------------------------------------------------------
(* Ids *)

\* The three conjuncts that say how ids are given and registered
IdInv == OneToOne /\ IdsGiven /\ Registration

\* Registering a client takes an id that no client and no peer has
LEMMA RegisterIds == BridgeInv /\ Register => IdInv'
<1> SUFFICES ASSUME BridgeInv, Register PROVE IdInv'
  OBVIOUS
<1> DEFINE id == nextId + 1
           c == asio.of
<1> USE DEF BridgeInv, BridgeTypes
<1>1. /\ nextId' = id /\ id \in Int /\ peers' = peers /\ link' = link /\ joined' = joined
      /\ server' = [i \in DOMAIN server \cup {id} |-> IF i = id THEN c ELSE server[i]]
      /\ rev' = [d \in DOMAIN rev \cup {c} |-> IF d = c THEN id ELSE rev[d]]
      /\ asio'.at = "announce" /\ asio'.of = c
  BY DEF Register, AsioGoes
<1>2. c \in Cids \ DOMAIN rev /\ link[c] # "new" /\ joined[c] = None
  BY DEF Register, AsioAt, Registration
<1>3. \A d \in DOMAIN rev : rev[d] \in Int /\ rev[d] # id /\ rev[d] < id
  BY <1>1 DEF IdsGiven
<1>4. id \notin DOMAIN server
  BY <1>3 DEF OneToOne
<1>5. \A p \in peers : p \in Int /\ p < id
  BY <1>1 DEF IdsGiven
<1> HIDE DEF id, c
<1>6. ASSUME NEW d \in DOMAIN rev' PROVE rev'[d] \in DOMAIN server' /\ server'[rev'[d]] = d
  <2>1. CASE d = c
    BY <1>1, <2>1
  <2>2. CASE d # c
    BY <1>1, <1>3, <2>2 DEF OneToOne
  <2>3. QED
    BY <2>1, <2>2
<1>7. ASSUME NEW i \in DOMAIN server' PROVE server'[i] \in DOMAIN rev' /\ rev'[server'[i]] = i
  <2>1. CASE i = id
    BY <1>1, <2>1
  <2>2. CASE i # id
    BY <1>1, <1>2, <2>2 DEF OneToOne
  <2>3. QED
    BY <2>1, <2>2
<1>8. DOMAIN server' \cap peers' = {}
  BY <1>1, <1>5 DEF OneToOne
<1>9. OneToOne'
  BY <1>6, <1>7, <1>8 DEF OneToOne
<1>10. IdsGiven'
  BY <1>1, <1>3, <1>5 DEF IdsGiven
<1>11. Registration'
  BY <1>1, <1>2 DEF Registration
<1>12. QED
  BY <1>9, <1>10, <1>11 DEF IdInv

\* Erasing a client erases it from both maps
LEMMA UnregisterIds == BridgeInv /\ Unregister => IdInv'
<1> SUFFICES ASSUME BridgeInv, Unregister PROVE IdInv'
  OBVIOUS
<1> USE DEF BridgeInv, BridgeTypes
<1>1. nextId' = nextId /\ peers' = peers /\ link' = link /\ joined' = joined
  BY DEF Unregister
<1>2. asio'.at \in {"idle", "retire"}
  BY DEF Unregister, AsioGoes, AsioPlaces
<1>3. \A c \in DOMAIN rev' : c \in DOMAIN rev /\ rev'[c] = rev[c]
  BY DEF Unregister, Restrict
<1>4. \A i \in DOMAIN server' : i \in DOMAIN server /\ server'[i] = server[i]
  BY DEF Unregister, Restrict
<1>5. CASE asio.of \in DOMAIN rev
  <2>1. DOMAIN rev' = DOMAIN rev \ {asio.of}
    BY <1>5 DEF Unregister, Restrict
  <2>2. DOMAIN server' = DOMAIN server \ {rev[asio.of]}
    BY <1>5 DEF Unregister, Restrict
  <2>3. \A c \in DOMAIN rev' : rev'[c] \in DOMAIN server' /\ server'[rev'[c]] = c
    BY <1>3, <1>4, <1>5, <2>1, <2>2 DEF OneToOne
  <2>4. \A i \in DOMAIN server' : server'[i] \in DOMAIN rev' /\ rev'[server'[i]] = i
    BY <1>3, <1>4, <1>5, <2>1, <2>2 DEF OneToOne
  <2>5. QED
    BY <1>1, <1>2, <1>3, <1>4, <2>3, <2>4 DEF IdInv, OneToOne, IdsGiven, Registration
<1>6. CASE asio.of \notin DOMAIN rev
  <2>1. rev' = rev /\ server' = server
    BY <1>6 DEF Unregister
  <2>2. QED
    BY <1>1, <1>2, <2>1 DEF IdInv, OneToOne, IdsGiven, Registration
<1>7. QED
  BY <1>5, <1>6

LEMMA IdsFrame ==
    ASSUME BridgeInv, UNCHANGED <<link, server, rev, nextId, peers, joined>>,
           asio' = asio \/ asio'.at \in {"idle", "failed", "disconnected"}
    PROVE  IdInv'
  BY DEF BridgeInv, IdInv, OneToOne, IdsGiven, Registration

LEMMA IdsStep == BridgeInv /\ [Next]_vars => IdInv'
<1> SUFFICES ASSUME BridgeInv, [Next]_vars PROVE IdInv'
  OBVIOUS
<1> USE DEF BridgeInv, BridgeTypes
<1>1. CASE StartClips
  BY <1>1, IdsFrame DEF StartClips, maps
<1>2. CASE CreatePeer
  <2>1. /\ nextId' = nextId + 1 /\ peers' = peers \cup {nextId + 1}
        /\ UNCHANGED <<link, server, rev, joined, asio>>
    BY <1>2 DEF CreatePeer
  <2>2. \A i \in DOMAIN server : i \in Int /\ i <= nextId
    BY DEF OneToOne, IdsGiven
  <2>3. OneToOne'
    BY <2>1, <2>2 DEF OneToOne
  <2>4. IdsGiven'
    BY <2>1 DEF IdsGiven
  <2>5. Registration'
    BY <2>1 DEF Registration
  <2>6. QED
    BY <2>3, <2>4, <2>5 DEF IdInv
<1>3. CASE TimerRun
  BY <1>3, IdsFrame DEF TimerRun, maps
<1>4. CASE SendToClient
  BY <1>4, IdsFrame DEF SendToClient, maps
<1>5. CASE FindSession
  BY <1>5, IdsFrame DEF FindSession, maps
<1>6. CASE UseSession
  BY <1>6, IdsFrame DEF UseSession, maps
<1>7. CASE RunEnds
  BY <1>7, IdsFrame DEF RunEnds, maps
<1>8. ASSUME NEW c \in Cids, Accept(c) PROVE IdInv'
  <2>1. /\ link[c] = "new" /\ link' \in [Cids -> {"new", "up", "gone"}] /\ link'[c] # "new"
        /\ \A d \in Cids \ {c} : link'[d] = link[d]
        /\ UNCHANGED <<server, rev, nextId, peers, joined>>
        /\ asio' = asio \/ asio' = [at |-> "connected", of |-> c]
        /\ asio.at = "idle"
    BY <1>8 DEF Accept, AsioAt, AsioTakes, maps
  <2>2. OneToOne' /\ IdsGiven'
    BY <2>1 DEF OneToOne, IdsGiven
  <2>3. Registration'
    BY <2>1 DEF Registration
  <2>4. QED
    BY <2>2, <2>3 DEF IdInv
<1>9. CASE Register
  BY <1>9, RegisterIds
<1>10. CASE Announce
  <2>1. /\ UNCHANGED <<link, server, rev, nextId, peers>> /\ asio'.at = "idle"
        /\ joined' = joined \/ joined' = [joined EXCEPT ![asio.of] = round]
    BY <1>10 DEF Announce, AsioGoes, AsioPlaces, maps
  <2>2. asio.of \in DOMAIN rev
    BY <1>10 DEF Announce, AsioAt, Registration
  <2>3. \A c \in Cids : link[c] = "new" => c \notin DOMAIN rev /\ joined'[c] = None
    BY <2>1, <2>2 DEF Registration
  <2>4. QED
    BY <2>1, <2>3 DEF IdInv, OneToOne, IdsGiven, Registration
<1>11. ASSUME NEW c \in Cids, Message(c) PROVE IdInv'
  BY <1>11, IdsFrame DEF Message, maps
<1>12. ASSUME NEW c \in Cids, BadMessage(c) PROVE IdInv'
  BY <1>12, IdsFrame DEF BadMessage, AsioTakes, maps
<1>13. CASE ReportFailure
  <2>1. asio'.at = "idle"
    BY <1>13 DEF ReportFailure, AsioGoes, AsioPlaces
  <2>2. QED
    BY <1>13, <2>1, IdsFrame DEF ReportFailure, maps
<1>14. ASSUME NEW c \in Cids, Written(c) PROVE IdInv'
  BY <1>14, IdsFrame DEF Written, maps
<1>15. ASSUME NEW c \in Cids, Broken(c) PROVE IdInv'
  BY <1>15, IdsFrame DEF Broken, AsioTakes, maps
<1>16. CASE Unregister
  BY <1>16, UnregisterIds
<1>17. CASE Retire
  <2>1. asio'.at = "idle"
    BY <1>17 DEF Retire, AsioGoes, AsioPlaces
  <2>2. QED
    BY <1>17, <2>1, IdsFrame DEF Retire, maps
<1>18. ASSUME NEW c \in Cids, Leave(c) PROVE IdInv'
  <2>1. /\ \A d \in Cids : link'[d] = "new" => link[d] = "new"
        /\ \A d \in Cids : link[d] # "new" => link'[d] # "new"
        /\ UNCHANGED <<server, rev, nextId, peers, joined, asio>>
    BY <1>18 DEF Leave, maps
  <2>2. QED
    BY <2>1 DEF IdInv, OneToOne, IdsGiven, Registration
<1>19. CASE PeerMessage
  BY <1>19, IdsFrame DEF PeerMessage, maps
<1>20. CASE UNCHANGED vars
  BY <1>20, IdsFrame DEF vars, maps
<1>21. QED
  BY <1>1, <1>2, <1>3, <1>4, <1>5, <1>6, <1>7, <1>8, <1>9, <1>10, <1>11, <1>12, <1>13,
     <1>14, <1>15, <1>16, <1>17, <1>18, <1>19, <1>20 DEF Next, Main, Asio

-----------------------------------------------------------------------------
(* The roster *)

RosterInv == Roster /\ Retiring /\ NobodyMet

LEMMA RosterFrame ==
    ASSUME BridgeInv, UNCHANGED <<rev, joined, up>>, facts'.clients = facts.clients,
           main'.at = "start" => main.at = "start",
           asio' = asio \/ (asio.at # "retire" /\ asio'.at # "retire")
    PROVE  RosterInv'
  BY DEF BridgeInv, RosterInv, Roster, Retiring, NobodyMet, Met, NonNegative

\* A client that was just registered has not been met
LEMMA RegisterRoster == BridgeInv /\ Register => RosterInv'
<1> SUFFICES ASSUME BridgeInv, Register PROVE RosterInv'
  OBVIOUS
<1> USE DEF BridgeInv, BridgeTypes
<1>1. /\ UNCHANGED <<facts, up, main, joined>> /\ asio.at = "connected" /\ asio'.at = "announce"
      /\ rev' = [d \in DOMAIN rev \cup {asio.of} |-> IF d = asio.of THEN nextId + 1 ELSE rev[d]]
  BY DEF Register, AsioAt, AsioGoes, AsioPlaces
<1>2. asio.of \notin DOMAIN rev /\ joined[asio.of] = None
  BY <1>1 DEF Registration
<1>3. Met' = Met
  BY <1>1, <1>2 DEF Met
<1>4. QED
  BY <1>1, <1>3 DEF RosterInv, Roster, Retiring, NobodyMet, NonNegative

\* The engine meets a client when its rules are loaded, and not before
LEMMA AnnounceRoster == BridgeInv /\ Announce => RosterInv'
<1> SUFFICES ASSUME BridgeInv, Announce PROVE RosterInv'
  OBVIOUS
<1> USE DEF BridgeInv, BridgeTypes
<1> DEFINE id == rev[asio.of]
<1>1. /\ UNCHANGED <<rev, up, main>> /\ asio.at = "announce" /\ asio'.at = "idle"
  BY DEF Announce, AsioAt, AsioGoes, AsioPlaces, maps
<1>2. asio.of \in DOMAIN rev /\ asio.of \in Cids
  BY <1>1 DEF Registration
<1>3. CASE up
  <2>0. /\ facts' = [facts EXCEPT !.clients = facts.clients \cup {id}, !.messages = {}]
        /\ joined' = [joined EXCEPT ![asio.of] = round]
    BY <1>3 DEF Announce
  <2>1. facts'.clients = facts.clients \cup {id}
    BY <2>0, ClientsSet
  <2>2. joined'[asio.of] # None /\ \A d \in Cids \ {asio.of} : joined'[d] = joined[d]
    BY <1>2, <2>0
  <2>3. Met' = Met \cup {id}
    BY <1>1, <1>2, <2>2 DEF Met
  <2>4. NonNegative(facts.clients) = NonNegative(Met)
    BY <1>1 DEF Roster
  <2>5. QED
    BY <1>1, <1>3, <2>1, <2>3, <2>4 DEF RosterInv, Roster, Retiring, NobodyMet, NonNegative
<1>4. CASE ~up
  <2>1. facts'.clients = facts.clients /\ joined' = joined
    BY <1>4 DEF Announce, Memory
  <2>2. QED
    BY <1>1, <2>1, RosterFrame
<1>5. QED
  BY <1>3, <1>4

\* The communicator forgets the client before the engine does
LEMMA UnregisterRoster == BridgeInv /\ Unregister => RosterInv'
<1> SUFFICES ASSUME BridgeInv, Unregister PROVE RosterInv'
  OBVIOUS
<1> USE DEF BridgeInv, BridgeTypes
<1>1. UNCHANGED <<facts, up, main, joined>> /\ asio.at = "disconnected"
  BY DEF Unregister, AsioAt
<1>2. CASE asio.of \in DOMAIN rev
  <2> DEFINE id == rev[asio.of]
  <2>1. DOMAIN rev' = DOMAIN rev \ {asio.of} /\ \A c \in DOMAIN rev' : rev'[c] = rev[c]
    BY <1>2 DEF Unregister, Restrict
  <2>2. \A c \in DOMAIN rev \ {asio.of} : rev[c] # id
    BY <1>2 DEF OneToOne
  <2>3. Met' = Met \ {id}
    BY <1>1, <1>2, <2>1, <2>2 DEF Met
  <2>4. NonNegative(facts.clients) = NonNegative(Met)
    BY <1>1 DEF Roster
  <2>5. id \in Int
    BY <1>2
  <2>6. CASE id >= 0
    <3>1. asio' = [at |-> "retire", of |-> id]
      BY <1>2, <2>6 DEF Unregister
    <3>2. asio'.of \in Int \ Met'
      BY <2>3, <2>5, <3>1
    <3>3. NonNegative(facts'.clients) \ {asio'.of} = NonNegative(Met')
      BY <1>1, <2>3, <2>4, <3>1 DEF NonNegative
    <3>4. QED
      BY <1>1, <3>1, <3>2, <3>3 DEF RosterInv, Roster, Retiring, NobodyMet
  <2>7. CASE ~(id >= 0)
    <3>1. asio'.at = "idle"
      BY <1>2, <2>7 DEF Unregister, AsioPlaces
    <3>2. NonNegative(Met') = NonNegative(Met)
      BY <2>3, <2>7 DEF NonNegative
    <3>3. QED
      BY <1>1, <2>4, <3>1, <3>2 DEF RosterInv, Roster, Retiring, NobodyMet
  <2>8. QED
    BY <2>6, <2>7
<1>3. CASE asio.of \notin DOMAIN rev
  <2>1. rev' = rev /\ asio'.at = "idle"
    BY <1>3 DEF Unregister, AsioGoes, AsioPlaces
  <2>2. QED
    BY <1>1, <2>1, RosterFrame
<1>4. QED
  BY <1>2, <1>3

\* Once retired a client is in neither
LEMMA RetireRoster == BridgeInv /\ Retire => RosterInv'
<1> SUFFICES ASSUME BridgeInv, Retire PROVE RosterInv'
  OBVIOUS
<1> USE DEF BridgeInv, BridgeTypes
<1>1. UNCHANGED <<rev, up, main, joined>> /\ asio.at = "retire" /\ asio'.at = "idle"
  BY DEF Retire, AsioAt, AsioGoes, AsioPlaces, maps
<1>2. Met' = Met /\ NonNegative(facts.clients) \ {asio.of} = NonNegative(Met)
  BY <1>1 DEF Met, Retiring
<1>3. CASE up /\ asio.of \in facts.clients
  <2>0. facts' = [facts EXCEPT !.clients = facts.clients \ {asio.of}, !.messages = {}]
    BY <1>3 DEF Retire
  <2>1. facts'.clients = facts.clients \ {asio.of}
    BY <2>0, ClientsSet
  <2>2. QED
    BY <1>1, <1>2, <1>3, <2>1 DEF RosterInv, Roster, Retiring, NobodyMet, NonNegative
<1>4. CASE ~(up /\ asio.of \in facts.clients)
  <2>1. facts'.clients = facts.clients
    <3>1. \E S, M : facts' = [facts EXCEPT !.disconnected = S, !.messages = M]
      BY <1>4, Zenon DEF Retire
    <3>2. QED
      BY <3>1, ClientsKept
  <2>2. asio.of \notin facts.clients
    BY <1>4 DEF NobodyMet
  <2>3. NonNegative(facts.clients) = NonNegative(Met)
    BY <1>2, <2>2 DEF NonNegative
  <2>4. QED
    BY <1>1, <1>2, <2>1, <2>3 DEF RosterInv, Roster, Retiring, NobodyMet
<1>5. QED
  BY <1>3, <1>4

LEMMA RosterStep == BridgeInv /\ [Next]_vars => RosterInv'
<1> SUFFICES ASSUME BridgeInv, [Next]_vars PROVE RosterInv'
  OBVIOUS
<1> USE DEF BridgeInv, BridgeTypes
<1>1. CASE StartClips
  <2>1. UNCHANGED <<rev, joined, asio>> /\ main.at = "start" /\ main'.at = "peers"
    BY <1>1 DEF StartClips, MainAt, MainGoes, MainPlaces, maps
  <2>2. facts'.clients = {} /\ facts.clients = {} /\ up'
    BY <1>1, <2>1 DEF StartClips, NobodyMet
  <2>3. QED
    BY <2>1, <2>2 DEF RosterInv, Roster, Retiring, NobodyMet, Met, NonNegative
<1>2. CASE CreatePeer
  BY <1>2, RosterFrame DEF CreatePeer
<1>3. CASE TimerRun
  <2>1. facts'.clients = facts.clients /\ main'.at = "sending"
    BY <1>3 DEF TimerRun, Memory, MainPlaces
  <2>2. QED
    BY <1>3, <2>1, RosterFrame DEF TimerRun, maps
<1>4. CASE SendToClient
  <2>1. main'.at \in {"found", "sending"}
    BY <1>4 DEF SendToClient, MainAt, MainPlaces
  <2>2. QED
    BY <1>4, <2>1, RosterFrame DEF SendToClient, maps
<1>5. CASE FindSession
  <2>1. main'.at \in {"send", "sending"}
    BY <1>5 DEF FindSession, MainGoes, MainPlaces
  <2>2. QED
    BY <1>5, <2>1, RosterFrame DEF FindSession, maps
<1>6. CASE UseSession
  <2>1. main'.at = "sending"
    BY <1>6 DEF UseSession, MainGoes, MainPlaces
  <2>2. QED
    BY <1>6, <2>1, RosterFrame DEF UseSession, maps
<1>7. CASE RunEnds
  <2>1. main'.at = "idle"
    BY <1>7 DEF RunEnds, MainGoes, MainPlaces
  <2>2. QED
    BY <1>7, <2>1, RosterFrame DEF RunEnds, maps
<1>8. ASSUME NEW c \in Cids, Accept(c) PROVE RosterInv'
  <2>1. asio.at = "idle" /\ (asio' = asio \/ asio' = [at |-> "connected", of |-> c])
    BY <1>8 DEF Accept, AsioAt, AsioTakes
  <2>2. asio' = asio \/ (asio.at # "retire" /\ asio'.at # "retire")
    BY <2>1
  <2>3. UNCHANGED <<rev, joined, up, facts, main>>
    BY <1>8 DEF Accept, maps
  <2>4. QED
    BY <2>2, <2>3, RosterFrame
<1>9. CASE Register
  BY <1>9, RegisterRoster
<1>10. CASE Announce
  BY <1>10, AnnounceRoster
<1>11. ASSUME NEW c \in Cids, Message(c) PROVE RosterInv'
  <2>1. facts'.clients = facts.clients
    BY <1>11 DEF Message, Memory
  <2>2. QED
    BY <1>11, <2>1, RosterFrame DEF Message, maps
<1>12. ASSUME NEW c \in Cids, BadMessage(c) PROVE RosterInv'
  <2>1. asio.at = "idle" /\ asio'.at = "failed"
    BY <1>12 DEF BadMessage, AsioAt, AsioTakes
  <2>2. QED
    BY <1>12, <2>1, RosterFrame DEF BadMessage, maps
<1>13. CASE ReportFailure
  <2>1. asio.at = "failed" /\ asio'.at = "idle"
    BY <1>13 DEF ReportFailure, AsioAt, AsioGoes, AsioPlaces
  <2>2. QED
    BY <1>13, <2>1, RosterFrame DEF ReportFailure, maps
<1>14. ASSUME NEW c \in Cids, Written(c) PROVE RosterInv'
  BY <1>14, RosterFrame DEF Written, maps
<1>15. ASSUME NEW c \in Cids, Broken(c) PROVE RosterInv'
  <2>1. asio.at = "idle" /\ asio'.at = "disconnected"
    BY <1>15 DEF Broken, AsioAt, AsioTakes
  <2>2. QED
    BY <1>15, <2>1, RosterFrame DEF Broken, maps
<1>16. CASE Unregister
  BY <1>16, UnregisterRoster
<1>17. CASE Retire
  BY <1>17, RetireRoster
<1>18. ASSUME NEW c \in Cids, Leave(c) PROVE RosterInv'
  BY <1>18, RosterFrame DEF Leave, maps
<1>19. CASE PeerMessage
  <2>1. facts'.clients = facts.clients
    BY <1>19 DEF PeerMessage, Memory
  <2>2. QED
    BY <1>19, <2>1, RosterFrame DEF PeerMessage, maps
<1>20. CASE UNCHANGED vars
  BY <1>20, RosterFrame DEF vars, maps
<1>21. QED
  BY <1>1, <1>2, <1>3, <1>4, <1>5, <1>6, <1>7, <1>8, <1>9, <1>10, <1>11, <1>12, <1>13,
     <1>14, <1>15, <1>16, <1>17, <1>18, <1>19, <1>20 DEF Next, Main, Asio

-----------------------------------------------------------------------------
(* Streams: which of the messages that are due they have *)

\* A log line more changes nothing, another message is told last
LEMMA ToldOneMore ==
    ASSUME NEW s \in Seq(Int), NEW n \in Int
    PROVE  /\ s \o <<n>> \in Seq(Int)
           /\ Told(s) \subseteq 1 .. Len(s)
           /\ n = LogLine => Told(s \o <<n>>) = Told(s)
           /\ n # LogLine => Told(s \o <<n>>) = Told(s) \cup {Len(s) + 1}
           /\ \A i \in Told(s) : (s \o <<n>>)[i] = s[i]
           /\ (s \o <<n>>)[Len(s) + 1] = n
<1> DEFINE t == s \o <<n>>
<1>1. t \in Seq(Int) /\ Len(t) = Len(s) + 1 /\ Len(s) \in Nat
  OBVIOUS
<1>2. \A i \in 1 .. Len(s) : t[i] = s[i]
  OBVIOUS
<1>3. t[Len(s) + 1] = n
  OBVIOUS
<1>4. DOMAIN s = 1 .. Len(s) /\ DOMAIN t = 1 .. (Len(s) + 1)
  BY <1>1
<1> HIDE DEF t
<1>5. Told(s) \subseteq 1 .. Len(s)
  BY <1>4 DEF Told
<1>6. n = LogLine => Told(t) = Told(s)
  BY <1>1, <1>2, <1>3, <1>4 DEF Told
<1>7. n # LogLine => Told(t) = Told(s) \cup {Len(s) + 1}
  BY <1>1, <1>2, <1>3, <1>4 DEF Told
<1>8. QED
  BY <1>1, <1>2, <1>3, <1>5, <1>6, <1>7 DEF t

LEMMA LogLineMore ==
    ASSUME NEW s \in Seq(Int)
    PROVE  /\ \A m : Gets(s \o <<LogLine>>, m) <=> Gets(s, m)
           /\ \A due : InOrder(s, due) => InOrder(s \o <<LogLine>>, due)
<1> DEFINE t == s \o <<LogLine>>
<1>1. Told(t) = Told(s) /\ \A i \in Told(s) : t[i] = s[i]
  <2>1. LogLine \in Int
    BY DEF LogLine
  <2>2. QED
    BY <2>1, ToldOneMore
<1> HIDE DEF t
<1>2. \A m : Gets(t, m) <=> Gets(s, m)
  BY <1>1 DEF Gets
<1>3. ASSUME NEW due, InOrder(s, due) PROVE InOrder(t, due)
  BY <1>1, <1>2, <1>3 DEF InOrder
<1>4. QED
  BY <1>2, <1>3 DEF t

\* A message that is due, above all that was told, when all that is due below was told
LEMMA MessageMore ==
    ASSUME NEW s \in Seq(Int), NEW n \in Int, NEW due \in SUBSET Int, InOrder(s, due),
           n \in due, n # LogLine,
           \A i \in Told(s) : s[i] < n,
           \A m \in due : m < n => Gets(s, m)
    PROVE  /\ \A m : Gets(s \o <<n>>, m) <=> Gets(s, m) \/ m = n
           /\ InOrder(s \o <<n>>, due)
<1> DEFINE t == s \o <<n>>
           k == Len(s) + 1
<1>1. /\ Told(t) = Told(s) \cup {k} /\ t[k] = n
      /\ \A i \in Told(s) : t[i] = s[i]
      /\ Told(s) \subseteq 1 .. Len(s)
  BY ToldOneMore
<1>2. k \in Int /\ \A i \in Told(s) : i \in Int /\ i < k
  BY <1>1
<1> HIDE DEF t, k
<1>3. \A m : Gets(t, m) <=> Gets(s, m) \/ m = n
  BY <1>1 DEF Gets
<1>4. \A i \in Told(t) : t[i] \in due
  BY <1>1 DEF InOrder
<1>5. ASSUME NEW i \in Told(t), NEW j \in Told(t), i < j PROVE t[i] < t[j]
  <2>1. i # k
    BY <1>1, <1>2, <1>5
  <2>2. CASE j = k
    BY <1>1, <2>1, <2>2
  <2>3. CASE j # k
    BY <1>1, <1>5, <2>1, <2>3 DEF InOrder
  <2>4. QED
    BY <2>2, <2>3
<1>6. ASSUME NEW i \in Told(t), NEW m \in due, m < t[i] PROVE Gets(t, m)
  <2>1. CASE i = k
    BY <1>1, <1>3, <1>6, <2>1
  <2>2. CASE i # k
    BY <1>1, <1>3, <1>6, <2>2 DEF InOrder
  <2>3. QED
    BY <2>1, <2>2
<1>7. InOrder(t, due)
  BY <1>4, <1>5, <1>6 DEF InOrder
<1>8. QED
  BY <1>3, <1>7 DEF t

\* What is cut off at the end leaves the order as it was
LEMMA CutOff ==
    ASSUME NEW s \in Seq(Int), NEW r \in Seq(Int), NEW due \in SUBSET Int,
           InOrder(s \o r, due)
    PROVE  InOrder(s, due)
<1> DEFINE t == s \o r
<1>1. /\ Len(s) \in Nat /\ Len(r) \in Nat /\ Len(t) = Len(s) + Len(r)
      /\ \A i \in 1 .. Len(s) : t[i] = s[i]
      /\ DOMAIN t = 1 .. (Len(s) + Len(r)) /\ DOMAIN s = 1 .. Len(s)
  OBVIOUS
<1> HIDE DEF t
<1>2. Told(s) = {i \in Told(t) : i <= Len(s)} /\ \A i \in Told(s) : i \in Int /\ t[i] = s[i]
  BY <1>1 DEF Told
<1>3. \A i \in Told(t) : i \in Int /\ t[i] \in due
  BY <1>1 DEF Told, InOrder, t
<1>4. \A i \in Told(s) : s[i] \in due
  BY <1>2, <1>3
<1>5. \A i, j \in Told(s) : i < j => s[i] < s[j]
  BY <1>2 DEF InOrder, t
<1>6. ASSUME NEW i \in Told(s), NEW m \in due, m < s[i] PROVE Gets(s, m)
  <2>1. PICK j \in Told(t) : t[j] = m
    BY <1>2, <1>6 DEF InOrder, Gets, t
  <2>2. ~(i < j)
    <3>1. i \in Told(t) /\ t[i] = s[i] /\ t[i] \in Int /\ t[j] \in Int
      BY <1>2, <1>3, <2>1
    <3>2. i < j => t[i] < t[j]
      BY <2>1, <3>1 DEF InOrder, t
    <3>3. QED
      BY <1>6, <2>1, <3>1, <3>2
  <2>3. j \in Told(s)
    <3>1. i \in 1 .. Len(s) /\ j \in Int /\ Len(s) \in Nat
      BY <1>1, <1>2, <1>3, <2>1 DEF Told
    <3>2. j <= Len(s)
      BY <2>2, <3>1
    <3>3. QED
      BY <1>2, <2>1, <3>2
  <2>4. s[j] = m
    BY <1>2, <2>1, <2>3
  <2>5. QED
    BY <2>3, <2>4 DEF Gets
<1>7. QED
  BY <1>4, <1>5, <1>6 DEF InOrder

\* More may become due, above all that was
LEMMA MoreDue ==
    ASSUME NEW s, NEW due, NEW more, InOrder(s, due), due \subseteq more,
           \A m \in more \ due : \A d \in due : ~(m < d)
    PROVE  InOrder(s, more)
  BY DEF InOrder

-----------------------------------------------------------------------------
(* What is handed to a session comes last in its stream *)

QueuesWait == \A c \in Cids : outbound[c] = None => queue[c] = <<>>

LEMMA StreamType ==
    ASSUME TypeOK, NEW c \in Cids PROVE Stream(c) \in Seq(Int)
<1>1. wire[c] \in Seq(Int) /\ queue[c] \in Seq(Int) /\ outbound[c] \in {None} \cup Int
  BY DEF TypeOK
<1>2. (IF outbound[c] = None THEN <<>> ELSE <<outbound[c]>>) \in Seq(Int)
  <2>1. CASE outbound[c] = None
    BY <2>1
  <2>2. CASE outbound[c] # None
    BY <1>1, <2>2
  <2>3. QED
    BY <2>1, <2>2
<1>3. QED
  BY <1>1, <1>2 DEF Stream

LEMMA HandStream ==
    ASSUME NEW handed \in [Cids -> Seq(Int)], TypeOK, QueuesWait, Hand(handed)
    PROVE  /\ outbound' \in [Cids -> {None} \cup Int] /\ queue' \in [Cids -> Seq(Int)]
           /\ wire' = wire /\ QueuesWait'
           /\ \A c \in Cids : Stream(c)' = Stream(c) \o handed[c]
<1> DEFINE after(c) == Enqueue(Entry(c), handed[c])
<1>1. /\ outbound' = [c \in Cids |-> after(c).outbound]
      /\ queue' = [c \in Cids |-> after(c).queue]
      /\ wire' = wire
  BY DEF Hand
<1>2. ASSUME NEW c \in Cids
      PROVE  /\ after(c).outbound \in {None} \cup Int /\ after(c).queue \in Seq(Int)
             /\ after(c).outbound = None => after(c).queue = <<>>
             /\ wire[c] \o (IF after(c).outbound = None THEN <<>> ELSE <<after(c).outbound>>)
                        \o after(c).queue = Stream(c) \o handed[c]
  <2> DEFINE h == handed[c]
             o == outbound[c]
             q == queue[c]
             w == wire[c]
  <2>1. /\ h \in Seq(Int) /\ o \in {None} \cup Int /\ q \in Seq(Int) /\ w \in Seq(Int)
        /\ o = None => q = <<>>
    BY DEF TypeOK, QueuesWait
  <2>2. Stream(c) = w \o (IF o = None THEN <<>> ELSE <<o>>) \o q
    BY DEF Stream
  <2>3. after(c) = IF h = <<>> THEN [outbound |-> o, queue |-> q]
                   ELSE IF o = None THEN [outbound |-> Head(h), queue |-> q \o Tail(h)]
                   ELSE [outbound |-> o, queue |-> q \o h]
    BY DEF Enqueue, Entry
  <2> HIDE DEF after, h, o, q, w
  <2>4. CASE h = <<>>
    <3>1. after(c).outbound = o /\ after(c).queue = q
      BY <2>3, <2>4
    <3>2. Stream(c) \o h = Stream(c)
      BY <2>1, <2>2, <2>4
    <3>3. QED
      BY <2>1, <2>2, <3>1, <3>2 DEF h, w
  <2>5. CASE h # <<>> /\ o = None
    <3>1. after(c).outbound = Head(h) /\ after(c).queue = q \o Tail(h)
      BY <2>3, <2>5
    <3>2. q = <<>> /\ Head(h) \in Int /\ Tail(h) \in Seq(Int) /\ h = <<Head(h)>> \o Tail(h)
      BY <2>1, <2>5
    <3>3. q \o Tail(h) = Tail(h)
      BY <3>2
    <3>4. Head(h) # None
      BY <3>2
    <3>5. Stream(c) = w
      BY <2>1, <2>2, <2>5, <3>2
    <3>6. w \o <<Head(h)>> \o Tail(h) = w \o (<<Head(h)>> \o Tail(h))
      BY <2>1, <3>2
    <3>7. QED
      BY <3>1, <3>2, <3>3, <3>4, <3>5, <3>6 DEF h, w
  <2>6. CASE h # <<>> /\ o # None
    <3>1. after(c).outbound = o /\ after(c).queue = q \o h
      BY <2>3, <2>6
    <3>2. o \in Int
      BY <2>1, <2>6
    <3>3. Stream(c) = w \o <<o>> \o q
      BY <2>2, <2>6
    <3>4. w \o <<o>> \o (q \o h) = (w \o <<o>> \o q) \o h
      BY <2>1, <3>2
    <3>5. q \o h \in Seq(Int)
      BY <2>1
    <3>6. QED
      BY <2>1, <2>6, <3>1, <3>3, <3>4, <3>5 DEF h, w
  <2>7. QED
    BY <2>4, <2>5, <2>6
<1> HIDE DEF after
<1>3. \A c \in Cids : outbound'[c] = after(c).outbound /\ queue'[c] = after(c).queue
  BY <1>1
<1>4. QueuesWait'
  BY <1>2, <1>3 DEF QueuesWait
<1>5. outbound' \in [Cids -> {None} \cup Int] /\ queue' \in [Cids -> Seq(Int)]
  BY <1>1, <1>2
<1>6. ASSUME NEW c \in Cids PROVE Stream(c)' = Stream(c) \o handed[c]
  BY <1>1, <1>2, <1>3 DEF Stream
<1>7. QED
  BY <1>1, <1>4, <1>5, <1>6

\* A write that is done moves the entry, and the next one, along the stream
LEMMA WrittenStream ==
    ASSUME NEW c \in Cids, TypeOK, QueuesWait, Written(c)
    PROVE  /\ outbound' \in [Cids -> {None} \cup Int] /\ queue' \in [Cids -> Seq(Int)]
           /\ wire' \in [Cids -> Seq(Int)] /\ QueuesWait'
           /\ \A d \in Cids : Stream(d)' = Stream(d)
<1> DEFINE o == outbound[c]
           q == queue[c]
           w == wire[c]
<1>1. /\ o \in Int /\ o # None /\ q \in Seq(Int) /\ w \in Seq(Int)
  BY DEF TypeOK, Written
<1>2. /\ wire' = [wire EXCEPT ![c] = Append(w, o)]
      /\ outbound' = [outbound EXCEPT ![c] = IF q = <<>> THEN None ELSE Head(q)]
      /\ queue' = [queue EXCEPT ![c] = IF q = <<>> THEN q ELSE Tail(q)]
  BY DEF Written
<1>3. /\ wire'[c] = Append(w, o)
      /\ outbound'[c] = IF q = <<>> THEN None ELSE Head(q)
      /\ queue'[c] = IF q = <<>> THEN q ELSE Tail(q)
  BY <1>2 DEF TypeOK
<1>4. \A d \in Cids \ {c} : wire'[d] = wire[d] /\ outbound'[d] = outbound[d] /\ queue'[d] = queue[d]
  BY <1>2 DEF TypeOK
<1>5. Stream(c) = w \o <<o>> \o q
  BY <1>1 DEF Stream
<1> HIDE DEF o, q, w
<1>6. q # <<>> => Head(q) \in Int /\ Head(q) # None /\ Tail(q) \in Seq(Int)
  BY <1>1
<1>7. /\ outbound' \in [Cids -> {None} \cup Int] /\ queue' \in [Cids -> Seq(Int)]
      /\ wire' \in [Cids -> Seq(Int)]
  <2>1. Append(w, o) \in Seq(Int)
    BY <1>1
  <2>2. (IF q = <<>> THEN None ELSE Head(q)) \in {None} \cup Int
    BY <1>6
  <2>3. (IF q = <<>> THEN q ELSE Tail(q)) \in Seq(Int)
    BY <1>1, <1>6
  <2>4. QED
    BY <1>2, <2>1, <2>2, <2>3 DEF TypeOK
<1>8. QueuesWait'
  BY <1>3, <1>4, <1>6 DEF QueuesWait
<1>9. Stream(c)' = Stream(c)
  <2>1. Append(w, o) = w \o <<o>>
    BY <1>1
  <2>2. CASE q = <<>>
    <3>1. Stream(c)' = Append(w, o) \o <<>> \o q
      BY <1>3, <2>2 DEF Stream
    <3>2. QED
      BY <1>1, <1>5, <2>2, <3>1
  <2>3. CASE q # <<>>
    <3>1. Stream(c)' = Append(w, o) \o <<Head(q)>> \o Tail(q)
      BY <1>3, <1>6, <2>3 DEF Stream
    <3>2. q = <<Head(q)>> \o Tail(q)
      BY <1>1, <2>3
    <3>3. (w \o <<o>>) \o <<Head(q)>> \o Tail(q) = (w \o <<o>>) \o (<<Head(q)>> \o Tail(q))
      BY <1>1, <1>6, <2>3
    <3>4. QED
      BY <1>5, <2>1, <3>1, <3>2, <3>3
  <2>4. QED
    BY <2>2, <2>3
<1>10. \A d \in Cids \ {c} : Stream(d)' = Stream(d)
  BY <1>4 DEF Stream
<1>11. QED
  BY <1>7, <1>8, <1>9, <1>10

\* A write that fails cuts the stream off after what was written
LEMMA BrokenStream ==
    ASSUME NEW c \in Cids, TypeOK, QueuesWait, Broken(c)
    PROVE  /\ outbound' \in [Cids -> {None} \cup Int] /\ queue' \in [Cids -> Seq(Int)]
           /\ wire' = wire /\ QueuesWait'
           /\ \A d \in Cids \ {c} : Stream(d)' = Stream(d)
           /\ \E r \in Seq(Int) : Stream(c) = Stream(c)' \o r
           /\ Stream(c)' \in Seq(Int)
<1>1. CASE UNCHANGED wires
  <2>1. \A d \in Cids : Stream(d)' = Stream(d)
    BY <1>1 DEF Stream, wires
  <2>2. Stream(c) \in Seq(Int)
    BY StreamType
  <2>3. Stream(c) = Stream(c) \o <<>> /\ <<>> \in Seq(Int)
    BY <2>2
  <2>4. QED
    BY <1>1, <2>1, <2>2, <2>3 DEF TypeOK, QueuesWait, wires
<1>2. CASE /\ outbound[c] # None /\ wire' = wire
           /\ outbound' = [outbound EXCEPT ![c] = None]
           /\ queue' = [queue EXCEPT ![c] = <<>>]
  <2> DEFINE o == outbound[c]
             q == queue[c]
             w == wire[c]
  <2>1. o \in Int /\ q \in Seq(Int) /\ w \in Seq(Int)
    BY <1>2 DEF TypeOK
  <2>2. Stream(c)' = w \o <<>> \o <<>>
    BY <1>2 DEF Stream, TypeOK
  <2>3. Stream(c) = w \o <<o>> \o q
    BY <1>2 DEF Stream
  <2> HIDE DEF o, q, w
  <2>4. w \o <<>> \o <<>> = w /\ w \o <<o>> \o q = w \o (<<o>> \o q) /\ <<o>> \o q \in Seq(Int)
    <3>1. w \o <<>> = w
      BY <2>1
    <3>2. <<o>> \in Seq(Int)
      BY <2>1
    <3>3. w \o <<o>> \o q = w \o (<<o>> \o q) /\ <<o>> \o q \in Seq(Int)
      BY <2>1, <3>2
    <3>4. QED
      BY <3>1, <3>3
  <2>5. \A d \in Cids \ {c} : Stream(d)' = Stream(d)
    BY <1>2 DEF Stream, TypeOK
  <2>6. QueuesWait'
    BY <1>2 DEF QueuesWait, TypeOK
  <2>7. outbound' \in [Cids -> {None} \cup Int] /\ queue' \in [Cids -> Seq(Int)]
    <3>1. <<>> \in Seq(Int)
      OBVIOUS
    <3>2. QED
      BY <1>2, <3>1 DEF TypeOK
  <2>8. QED
    BY <1>2, <2>1, <2>2, <2>3, <2>4, <2>5, <2>6, <2>7
<1>3. QED
  BY <1>1, <1>2 DEF Broken

-----------------------------------------------------------------------------
(* The wires *)

WireInv == /\ outbound \in [Cids -> {None} \cup Int]
           /\ queue \in [Cids -> Seq(Int)] /\ wire \in [Cids -> Seq(Int)]
           /\ QueuesWait

LEMMA WiresOf == TypeOK /\ SessionInv => WireInv
  BY DEF TypeOK, SessionInv, WireInv, QueuesWait

LEMMA WiresFrame ==
    ASSUME WireInv, UNCHANGED wires
    PROVE  WireInv' /\ \A c \in Cids : Stream(c)' = Stream(c)
  BY DEF WireInv, QueuesWait, wires, Stream

LEMMA LoglineOrNone ==
    \A S \in SUBSET Cids :
        [c \in Cids |-> IF c \in S THEN <<LogLine>> ELSE <<>>] \in [Cids -> Seq(Int)]
<1>1. <<LogLine>> \in Seq(Int) /\ <<>> \in Seq(Int)
  BY DEF LogLine
<1>2. QED
  BY <1>1

LEMMA UseStream ==
    ASSUME TypeOK, WireInv, UseSession
    PROVE  /\ WireInv'
           /\ \A c \in Cids : Stream(c)' = IF c = main.target /\ c \in sessions
                                             THEN Stream(c) \o <<round>> ELSE Stream(c)
<1>1. CASE main.target \in sessions
  <2>1. PICK handed \in [Cids -> Seq(Int)] :
            handed = [c \in Cids |-> IF c = main.target THEN <<round>> ELSE <<>>]
    <3>1. round \in Int
      <4>1. round \in Nat
        BY Zenon DEF TypeOK, BridgeTypes
      <4>2. QED
        BY <4>1
    <3>2. <<round>> \in Seq(Int) /\ <<>> \in Seq(Int)
      BY <3>1
    <3>3. QED
      BY <3>2
  <2>2. Hand(handed)
    BY <1>1, <2>1 DEF UseSession
  <2>3. WireInv' /\ \A c \in Cids : Stream(c)' = Stream(c) \o handed[c]
    BY <2>2, HandStream DEF WireInv
  <2>4. ASSUME NEW c \in Cids, c # main.target PROVE Stream(c)' = Stream(c)
    <3>1. handed[c] = <<>> /\ Stream(c) \in Seq(Int)
      BY <2>1, <2>4, StreamType
    <3>2. Stream(c) \o <<>> = Stream(c)
      BY <3>1
    <3>3. QED
      BY <2>3, <3>1, <3>2
  <2>5. QED
    BY <1>1, <2>1, <2>3, <2>4
<1>2. CASE main.target \notin sessions
  BY <1>2, WiresFrame DEF UseSession
<1>3. QED
  BY <1>1, <1>2

LEMMA AnnounceStream ==
    ASSUME TypeOK, WireInv, Announce, up, asio.of \in Cids
    PROVE  /\ WireInv'
           /\ \A c \in Cids :
                Stream(c)' = IF c \in sessions
                               THEN IF c = asio.of THEN Stream(c) \o <<LogLine>> \o <<Version>>
                                                   ELSE Stream(c) \o <<LogLine>>
                               ELSE IF c = asio.of THEN Stream(c) \o <<Version>> ELSE Stream(c)
<1> DEFINE log(c) == IF c \in sessions THEN <<LogLine>> ELSE <<>>
           version(c) == IF c = asio.of THEN <<Version>> ELSE <<>>
<1>1. <<LogLine>> \in Seq(Int) /\ <<>> \in Seq(Int) /\ <<Version>> \in Seq(Int)
  BY DEF LogLine, Version
<1>2. \A c \in Cids : log(c) \in Seq(Int) /\ version(c) \in Seq(Int)
  BY <1>1
<1>3. PICK handed \in [Cids -> Seq(Int)] : handed = [c \in Cids |-> log(c) \o version(c)]
  <2> HIDE DEF log, version
  <2>1. \A c \in Cids : log(c) \o version(c) \in Seq(Int)
    BY <1>2
  <2>2. QED
    BY <2>1
<1>4. Hand(handed)
  BY <1>3, Zenon DEF Announce
<1>5. WireInv' /\ \A c \in Cids : Stream(c)' = Stream(c) \o handed[c]
  BY <1>4, HandStream DEF WireInv
<1>6. ASSUME NEW c \in Cids
      PROVE  Stream(c)' = IF c \in sessions
                THEN IF c = asio.of THEN Stream(c) \o <<LogLine>> \o <<Version>>
                                    ELSE Stream(c) \o <<LogLine>>
                ELSE IF c = asio.of THEN Stream(c) \o <<Version>> ELSE Stream(c)
  <2> DEFINE s == Stream(c)
  <2>1. s \in Seq(Int) /\ Stream(c)' = s \o (log(c) \o version(c))
    BY <1>3, <1>5, StreamType
  <2>2. s \o (<<LogLine>> \o <<Version>>) = s \o <<LogLine>> \o <<Version>>
    <3> HIDE DEF s
    <3>1. QED
      BY <1>1, <2>1
  <2>3. /\ <<LogLine>> \o <<>> = <<LogLine>> /\ <<>> \o <<Version>> = <<Version>>
        /\ <<>> \o <<>> = <<>>
    BY <1>1
  <2>4. s \o <<>> = s
    BY <2>1
  <2>5. QED
    BY <2>1, <2>2, <2>3, <2>4
<1>7. QED
  BY <1>5, <1>6

LEMMA RetireStream ==
    ASSUME TypeOK, WireInv, Retire
    PROVE  /\ WireInv'
           /\ \A c \in Cids : Stream(c)' \in {Stream(c), Stream(c) \o <<LogLine>>}
<1>1. CASE up /\ asio.of \in facts.clients
  <2>1. PICK handed \in [Cids -> Seq(Int)] :
            handed = [c \in Cids |-> IF c \in sessions THEN <<LogLine>> ELSE <<>>]
    BY LoglineOrNone DEF TypeOK
  <2>2. Hand(handed)
    BY <1>1, <2>1 DEF Retire
  <2>3. WireInv' /\ \A c \in Cids : Stream(c)' = Stream(c) \o handed[c]
    BY <2>2, HandStream DEF WireInv
  <2>4. \A c \in Cids : handed[c] \in {<<>>, <<LogLine>>} /\ Stream(c) \in Seq(Int)
    BY <2>1, StreamType
  <2>5. \A c \in Cids : Stream(c) \o <<>> = Stream(c)
    BY <2>4
  <2>6. QED
    BY <2>3, <2>4, <2>5
<1>2. CASE ~(up /\ asio.of \in facts.clients)
  <2>1. UNCHANGED wires
    BY <1>2, Zenon DEF Retire
  <2>2. QED
    BY <2>1, WiresFrame
<1>3. QED
  BY <1>1, <1>2

LEMMA WiresStep ==
    ASSUME TypeOK, BridgeInv, SessionInv, [Next]_vars
    PROVE  WireInv'
<1>0. WireInv
  BY WiresOf
<1>1. CASE UseSession
  BY <1>0, <1>1, UseStream
<1>2. CASE Announce
  <2>1. asio.of \in Cids
    BY <1>2 DEF Announce, AsioAt, BridgeInv, BridgeTypes, Registration
  <2>2. ~up => UNCHANGED wires
    BY <1>2 DEF Announce
  <2>3. QED
    BY <1>0, <1>2, <2>1, <2>2, AnnounceStream, WiresFrame
<1>3. CASE Retire
  BY <1>0, <1>3, RetireStream
<1>4. ASSUME NEW c \in Cids, Written(c) PROVE WireInv'
  BY <1>0, <1>4, WrittenStream DEF WireInv
<1>5. ASSUME NEW c \in Cids, Broken(c) PROVE WireInv'
  BY <1>0, <1>5, BrokenStream DEF WireInv
<1>6. CASE /\ [Next]_vars /\ ~UseSession /\ ~Announce /\ ~Retire
           /\ \A c \in Cids : ~Written(c) /\ ~Broken(c)
  <2>1. UNCHANGED wires
    BY <1>6 DEF Next, Main, Asio, vars, StartClips, CreatePeer, TimerRun, SendToClient,
       FindSession, RunEnds, Accept, Register, Message, BadMessage, ReportFailure, Unregister,
       Leave, PeerMessage
  <2>2. QED
    BY <1>0, <2>1, WiresFrame
<1>7. QED
  BY <1>1, <1>2, <1>3, <1>4, <1>5, <1>6

LEMMA RestStep ==
    ASSUME TypeOK, BridgeInv, SessionInv, [Next]_vars, BridgeInv', MutexInv'
    PROVE  TypeOK'
<1>1. WireInv'
  BY WiresStep
<1>2. sessions' \subseteq Cids
  <2>1. sessions' = sessions \/ \E c \in Cids : sessions' \in {sessions \cup {c}, sessions \ {c}}
    BY DEF Next, Main, Asio, vars, StartClips, CreatePeer, TimerRun, SendToClient, FindSession,
       UseSession, RunEnds, Accept, Register, Announce, Message, BadMessage, ReportFailure,
       Written, Broken, Unregister, Retire, Leave, PeerMessage
  <2>2. QED
    BY <2>1 DEF TypeOK
<1>3. reading' \subseteq Cids
  <2>1. Announce => asio.of \in Cids
    BY DEF Announce, AsioAt, BridgeInv, BridgeTypes, Registration
  <2>2. reading' = reading \/ \E c \in Cids : reading' \in {reading \cup {c}, reading \ {c}}
    BY <2>1 DEF Next, Main, Asio, vars, StartClips, CreatePeer, TimerRun, SendToClient,
       FindSession, UseSession, RunEnds, Accept, Register, Announce, Message, BadMessage,
       ReportFailure, Written, Broken, Unregister, Retire, Leave, PeerMessage
  <2>3. QED
    BY <2>2 DEF TypeOK
<1>4. fate' \in {"alive", "no endpoint", "null session"}
  <2>1. fate' \in {fate, "no endpoint", "null session"}
    BY DEF Next, Main, Asio, vars, StartClips, CreatePeer, TimerRun, SendToClient, FindSession,
       UseSession, RunEnds, Accept, Register, Announce, Message, BadMessage, ReportFailure,
       Written, Broken, Unregister, Retire, Leave, PeerMessage
  <2>2. QED
    BY <2>1 DEF TypeOK
<1>5. \A id \in DOMAIN server' : server'[id] \in Cids
  BY DEF BridgeInv, BridgeTypes, OneToOne
<1>6. clips' \in {None, "main"} /\ map' \in {None, "main", "asio"}
  BY DEF MutexInv
<1>7. BridgeTypes'
  BY DEF BridgeInv
<1>8. QED
  BY <1>1, <1>2, <1>3, <1>4, <1>5, <1>6, <1>7 DEF TypeOK, WireInv

-----------------------------------------------------------------------------
(* The mutexes *)

LEMMA MainFields ==
    ASSUME BridgeTypes, NEW at
    PROVE  /\ [main EXCEPT !.at = at].at = at
           /\ [main EXCEPT !.at = at].todo = main.todo
           /\ [main EXCEPT !.at = at].target = main.target
           /\ \A todo : /\ [main EXCEPT !.at = at, !.todo = todo].at = at
                        /\ [main EXCEPT !.at = at, !.todo = todo].todo = todo
  BY DEF BridgeTypes, MainPlaces

LEMMA MainTodo ==
    ASSUME BridgeTypes, NEW todo
    PROVE  /\ [main EXCEPT !.todo = todo].at = main.at
           /\ [main EXCEPT !.todo = todo].todo = todo
           /\ [main EXCEPT !.todo = todo].target = main.target
  BY DEF BridgeTypes, MainPlaces

LEMMA AsioFields ==
    ASSUME BridgeTypes, NEW at
    PROVE  [asio EXCEPT !.at = at].at = at /\ [asio EXCEPT !.at = at].of = asio.of
  BY DEF BridgeTypes, AsioPlaces

\* Who has a mutex is not disturbed by steps that neither take nor give it
LEMMA MutexFrame ==
    ASSUME MutexInv, UNCHANGED <<clips, map, main, rev, joined>>, facts'.clients = facts.clients,
           asio' = asio \/ (asio.at # "failed" /\ asio'.at # "failed")
    PROVE  MutexInv'
  BY DEF MutexInv, Sending, Looking

\* Nobody is running the engine, or a send is not under way
LEMMA MutexFree ==
    ASSUME MutexInv
    PROVE  /\ clips = None => ~Sending /\ main.at # "peers" /\ main.todo = {}
           /\ map = None => ~Looking /\ asio.at # "failed"
  BY DEF MutexInv, Sending, Looking

LEMMA MutexStep ==
    ASSUME TypeOK, BridgeInv, MutexInv, SessionInv, [Next]_vars
    PROVE  MutexInv'
<1>0. /\ BridgeTypes /\ OneToOne /\ facts \in Memory
      /\ clips = None => ~Sending /\ main.at # "peers" /\ main.todo = {}
      /\ map = None => ~Looking /\ asio.at # "failed"
  BY MutexFree DEF BridgeInv, BridgeTypes
<1>1. CASE StartClips
  <2>1. /\ main'.at = "peers" /\ main'.todo = main.todo /\ main.todo = {} /\ main.at = "start"
        /\ clips' = "main" /\ UNCHANGED <<map, asio>>
    BY <1>0, <1>1, MainFields DEF StartClips, MainGoes, MainAt
  <2>2. QED
    BY <2>1 DEF MutexInv, Sending, Looking
<1>2. CASE CreatePeer
  BY <1>2, MutexFrame DEF CreatePeer
<1>3. CASE TimerRun
  <2>1. PICK todo \in {facts.clients, {}} :
            main' = [main EXCEPT !.at = "sending", !.todo = todo]
    BY <1>3 DEF TimerRun
  <2>2. /\ main'.at = "sending" /\ main'.todo = todo /\ main.at = "idle" /\ clips' = "main"
        /\ UNCHANGED <<map, asio>>
    BY <1>0, <1>3, <2>1, MainFields DEF TimerRun, MainAt
  <2>3. facts'.clients = facts.clients
    BY <1>0, <1>3 DEF TimerRun, Memory
  <2>4. QED
    BY <2>2, <2>3 DEF MutexInv, Sending, Looking
<1>4. CASE SendToClient
  <2>1. PICK id \in main.todo :
            IF id \in DOMAIN server
              THEN /\ map' = "main"
                   /\ main' = [at |-> "found", todo |-> main.todo \ {id}, target |-> server[id]]
              ELSE /\ main' = [main EXCEPT !.todo = main.todo \ {id}]
                   /\ map' = map
    BY <1>4 DEF SendToClient
  <2>2. main.at = "sending" /\ map = None /\ UNCHANGED <<clips, asio, facts, rev, server, joined>>
    BY <1>4 DEF SendToClient, MainAt, maps
  <2>3. CASE id \in DOMAIN server
    <3>1. /\ main'.at = "found" /\ main'.todo = main.todo \ {id} /\ main'.target = server[id]
          /\ map' = "main"
      BY <2>1, <2>3
    <3>2. server[id] \in DOMAIN rev /\ rev[server[id]] = id
      BY <1>0, <2>3 DEF OneToOne
    <3>3. joined[server[id]] # None
      BY <2>3 DEF MutexInv, SessionInv
    <3>4. asio.at # "failed"
      BY <1>0, <2>2
    <3>5. QED
      BY <2>2, <3>1, <3>2, <3>3, <3>4 DEF MutexInv, Sending, Looking
  <2>4. CASE id \notin DOMAIN server
    <3>1. /\ main'.at = main.at /\ main'.todo = main.todo \ {id} /\ map' = map
      BY <1>0, <2>1, <2>4, MainTodo
    <3>2. QED
      BY <2>2, <3>1 DEF MutexInv, Sending, Looking
  <2>5. QED
    BY <2>3, <2>4
<1>5. CASE FindSession
  <2>1. main.at = "found" /\ UNCHANGED <<clips, asio, facts, rev, joined>>
    BY <1>5 DEF FindSession, MainAt, maps
  <2>2. CASE main.target \in sessions
    <3>1. main' = [main EXCEPT !.at = "send"] /\ map' = map
      BY <1>5, <2>2 DEF FindSession, MainGoes
    <3>2. main'.at = "send" /\ main'.todo = main.todo /\ main'.target = main.target
      BY <1>0, <3>1, MainFields
    <3>3. QED
      BY <2>1, <3>1, <3>2 DEF MutexInv, Sending, Looking
  <2>3. CASE main.target \notin sessions
    <3>1. main' = [main EXCEPT !.at = "sending"] /\ map' = None
      BY <1>5, <2>3 DEF FindSession, MainGoes
    <3>2. main'.at = "sending" /\ main'.todo = main.todo
      BY <1>0, <3>1, MainFields
    <3>3. asio.at # "failed"
      BY <2>1 DEF MutexInv, Looking
    <3>4. QED
      BY <2>1, <3>1, <3>2, <3>3 DEF MutexInv, Sending, Looking
  <2>4. QED
    BY <2>2, <2>3
<1>6. CASE UseSession
  <2>1. /\ main'.at = "sending" /\ map' = None
        /\ main'.todo = main.todo /\ main.at = "send"
        /\ UNCHANGED <<clips, asio, facts, rev, joined>>
    BY <1>0, <1>6, MainFields DEF UseSession, MainGoes, MainAt, maps
  <2>2. asio.at # "failed"
    BY <2>1 DEF MutexInv, Looking
  <2>3. QED
    BY <2>1, <2>2 DEF MutexInv, Sending, Looking
<1>7. CASE RunEnds
  <2>1. /\ main'.at = "idle" /\ clips' = None
        /\ main'.todo = main.todo
        /\ (main.at = "sending" /\ main.todo = {}) \/ main.at = "peers"
        /\ UNCHANGED <<map, asio, facts, rev, joined>>
    BY <1>0, <1>7, MainFields DEF RunEnds, MainGoes, MainAt, maps
  <2>2. QED
    BY <2>1 DEF MutexInv, Sending, Looking
<1>8. ASSUME NEW c \in Cids, Accept(c) PROVE MutexInv'
  <2>1. asio' = asio \/ (asio.at = "idle" /\ asio' = [at |-> "connected", of |-> c])
    BY <1>8 DEF Accept, AsioAt, AsioTakes
  <2>2. asio' = asio \/ (asio.at # "failed" /\ asio'.at # "failed")
    BY <2>1
  <2>3. QED
    BY <1>8, <2>2, MutexFrame DEF Accept, maps
<1>9. CASE Register
  <2>1. /\ asio'.at = "announce" /\ asio.at = "connected" /\ map = None
        /\ UNCHANGED <<clips, map, main, facts>>
    BY <1>0, <1>9, AsioFields DEF Register, AsioAt, AsioGoes
  <2>2. QED
    BY <1>0, <2>1 DEF MutexInv, Sending, Looking
<1>10. CASE Announce
  <2>1. /\ asio'.at = "idle" /\ asio.at = "announce" /\ clips = None
        /\ UNCHANGED <<clips, map, main>>
    BY <1>0, <1>10, AsioFields DEF Announce, AsioAt, AsioGoes
  <2>2. QED
    BY <1>0, <2>1 DEF MutexInv, Sending, Looking
<1>11. ASSUME NEW c \in Cids, Message(c) PROVE MutexInv'
  <2>1. facts'.clients = facts.clients
    BY <1>0, <1>11 DEF Message, Memory
  <2>2. QED
    BY <1>11, <2>1, MutexFrame DEF Message, maps
<1>12. ASSUME NEW c \in Cids, BadMessage(c) PROVE MutexInv'
  <2>1. /\ asio'.at = "failed" /\ map = None /\ map' = "asio"
        /\ UNCHANGED <<clips, main, facts, rev, joined>>
    BY <1>12 DEF BadMessage, AsioTakes, maps
  <2>2. QED
    BY <1>0, <2>1 DEF MutexInv, Sending, Looking
<1>13. CASE ReportFailure
  <2>1. /\ asio'.at = "idle" /\ asio.at = "failed" /\ clips = None /\ map' = None
        /\ UNCHANGED <<clips, main, facts, rev, joined>>
    BY <1>0, <1>13, AsioFields DEF ReportFailure, AsioAt, AsioGoes, maps
  <2>2. QED
    BY <1>0, <2>1 DEF MutexInv, Sending, Looking
<1>14. ASSUME NEW c \in Cids, Written(c) PROVE MutexInv'
  BY <1>14, MutexFrame DEF Written, maps
<1>15. ASSUME NEW c \in Cids, Broken(c) PROVE MutexInv'
  <2>1. asio.at = "idle" /\ asio'.at = "disconnected"
    BY <1>15 DEF Broken, AsioAt, AsioTakes
  <2>2. QED
    BY <1>15, <2>1, MutexFrame DEF Broken, maps
<1>16. CASE Unregister
  <2>1. /\ asio.at = "disconnected" /\ map = None
        /\ UNCHANGED <<clips, map, main, facts>>
    BY <1>16 DEF Unregister, AsioAt
  <2>2. \/ asio' = [asio EXCEPT !.at = "idle"]
        \/ asio' = [at |-> "retire", of |-> rev[asio.of]]
    BY <1>16 DEF Unregister, AsioGoes
  <2>3. asio'.at \in {"idle", "retire"}
    <3>1. [asio EXCEPT !.at = "idle"].at = "idle"
      BY <1>0, AsioFields
    <3>2. [at |-> "retire", of |-> rev[asio.of]].at = "retire"
      OBVIOUS
    <3>3. QED
      BY <2>2, <3>1, <3>2, Zenon
  <2>4. QED
    BY <1>0, <2>1, <2>3 DEF MutexInv, Sending, Looking
<1>17. CASE Retire
  <2>1. /\ asio'.at = "idle" /\ asio.at = "retire" /\ clips = None
        /\ UNCHANGED <<clips, map, main>>
    BY <1>0, <1>17, AsioFields DEF Retire, AsioAt, AsioGoes
  <2>2. QED
    BY <1>0, <2>1 DEF MutexInv, Sending, Looking
<1>18. ASSUME NEW c \in Cids, Leave(c) PROVE MutexInv'
  BY <1>18, MutexFrame DEF Leave, maps
<1>19. CASE PeerMessage
  <2>1. facts'.clients = facts.clients
    BY <1>0, <1>19 DEF PeerMessage, Memory
  <2>2. QED
    BY <1>19, <2>1, MutexFrame DEF PeerMessage, maps
<1>20. CASE UNCHANGED vars
  BY <1>20, MutexFrame DEF vars, maps
<1>21. QED
  BY <1>1, <1>2, <1>3, <1>4, <1>5, <1>6, <1>7, <1>8, <1>9, <1>10, <1>11, <1>12, <1>13,
     <1>14, <1>15, <1>16, <1>17, <1>18, <1>19, <1>20 DEF Next, Main, Asio

-----------------------------------------------------------------------------
(* The sessions *)

\* Steps that leave the sessions, the maps and the network-client facts alone
LEMMA SessionFrame ==
    ASSUME TypeOK, BridgeInv, SessionInv, QueuesWait', UNCHANGED <<sessions, rev, server, joined>>,
           \A c \in sessions : link[c] # "new" => link'[c] # "new",
           asio' = asio \/ asio'.at \in {"idle", "failed", "retire"},
           facts'.clients = facts.clients,
           nextId' \in {nextId, nextId + 1}, round' \in {round, round + 1}
    PROVE  SessionInv'
<1>1. nextId \in Int /\ round \in Nat /\ facts.clients \subseteq Int
  BY MemoryFields DEF TypeOK, BridgeTypes
<1>2. \A id \in facts.clients : id <= nextId'
  BY <1>1 DEF SessionInv
<1>3. ASSUME NEW c \in Cids, joined[c] # None PROVE joined[c] <= round'
  <2>1. joined[c] \in Nat /\ joined[c] <= round
    BY <1>3 DEF SessionInv, TypeOK, BridgeTypes
  <2>2. QED
    BY <1>1, <2>1
<1>4. QED
  BY <1>2, <1>3 DEF SessionInv, QueuesWait

LEMMA AcceptSessions ==
    ASSUME TypeOK, BridgeInv, SessionInv, NEW c \in Cids, Accept(c) PROVE SessionInv'
<1>1. /\ UNCHANGED <<server, rev, nextId, joined, facts, round, outbound, queue>>
      /\ link[c] = "new" /\ link' \in [Cids -> {"new", "up", "gone"}] /\ link'[c] # "new"
      /\ \A d \in Cids \ {c} : link'[d] = link[d]
      /\ asio.at = "idle"
  BY DEF Accept, AsioAt, maps, wires, TypeOK, BridgeTypes
<1>2. joined[c] = None
  BY <1>1 DEF BridgeInv, Registration
<1>3. CASE sessions' = sessions \cup {c} /\ asio' = [at |-> "connected", of |-> c]
  <2>1. asio'.at = "connected" /\ asio'.of = c
    BY <1>3
  <2>2. QED
    BY <1>1, <1>2, <1>3, <2>1 DEF SessionInv, TypeOK
<1>4. CASE sessions' = sessions /\ asio' = asio
  BY <1>1, <1>4 DEF SessionInv, TypeOK
<1>5. QED
  BY <1>3, <1>4 DEF Accept, AsioTakes

LEMMA RegisterSessions ==
    ASSUME TypeOK, BridgeInv, SessionInv, Register PROVE SessionInv'
<1> DEFINE id == nextId + 1
           c == asio.of
<1>1. /\ UNCHANGED <<link, sessions, outbound, queue, facts, joined, round>>
      /\ nextId' = id /\ asio.at = "connected"
      /\ server' = [i \in DOMAIN server \cup {id} |-> IF i = id THEN c ELSE server[i]]
      /\ rev' = [d \in DOMAIN rev \cup {c} |-> IF d = c THEN id ELSE rev[d]]
      /\ asio'.at = "announce" /\ asio'.of = c
  BY AsioFields DEF Register, AsioAt, AsioGoes, wires, TypeOK
<1>2. c \in sessions /\ joined[c] = None
  BY <1>1 DEF SessionInv
<1>3. facts.clients \subseteq Int /\ nextId \in Int
  BY MemoryFields DEF TypeOK, BridgeTypes
<1>4. \A i \in facts.clients : i <= nextId /\ i # id /\ i <= id
  BY <1>3 DEF SessionInv
<1> HIDE DEF id, c
<1>5. \A d \in sessions : joined[d] # None => d \in DOMAIN rev' /\ rev'[d] \in facts.clients
  BY <1>1, <1>2 DEF SessionInv
<1>6. \A i \in facts.clients : i \in DOMAIN server' => joined[server'[i]] # None
  BY <1>1, <1>4 DEF SessionInv
<1>7. QED
  BY <1>1, <1>2, <1>4, <1>5, <1>6 DEF SessionInv

LEMMA AnnounceSessions ==
    ASSUME TypeOK, BridgeInv, SessionInv, QueuesWait', Announce, up PROVE SessionInv'
<1> DEFINE c == asio.of
           id == rev[c]
<1>1. /\ UNCHANGED <<link, sessions, server, rev, nextId, round>>
      /\ facts' = [facts EXCEPT !.clients = facts.clients \cup {id}, !.messages = {}]
      /\ joined' = [joined EXCEPT ![c] = round]
      /\ asio.at = "announce" /\ asio'.at = "idle"
  BY AsioFields DEF Announce, AsioAt, AsioGoes, maps, TypeOK
<1>2. c \in DOMAIN rev /\ c \in Cids /\ id <= nextId /\ server[id] = c
  BY <1>1 DEF BridgeInv, BridgeTypes, Registration, IdsGiven, OneToOne
<1>3. facts'.clients = facts.clients \cup {id}
  BY <1>1, ClientsSet DEF TypeOK, BridgeTypes
<1>4. /\ joined'[c] = round /\ round \in Nat /\ round # None
      /\ \A d \in Cids \ {c} : joined'[d] = joined[d]
  <2>1. round \in Nat /\ joined \in [Cids -> {None} \cup Nat]
    BY DEF TypeOK, BridgeTypes
  <2>2. QED
    BY <1>1, <1>2, <2>1
<1> HIDE DEF c, id
<1>5. \A d \in sessions : joined'[d] # None => d \in DOMAIN rev /\ rev[d] \in facts'.clients
  BY <1>2, <1>3, <1>4 DEF SessionInv, TypeOK, id
<1>6. \A i \in facts'.clients : i <= nextId /\ (i \in DOMAIN server => joined'[server[i]] # None)
  BY <1>2, <1>3, <1>4 DEF SessionInv, TypeOK
<1>7. \A d \in Cids : joined'[d] # None => joined'[d] <= round
  BY <1>4 DEF SessionInv
<1>8. QED
  BY <1>1, <1>5, <1>6, <1>7 DEF SessionInv, QueuesWait

LEMMA BrokenSessions ==
    ASSUME TypeOK, BridgeInv, SessionInv, QueuesWait', NEW c \in Cids, Broken(c) PROVE SessionInv'
<1>1. /\ sessions' = sessions \ {c} /\ UNCHANGED <<link, server, rev, nextId, joined, facts, round>>
      /\ asio' = [at |-> "disconnected", of |-> c]
  BY DEF Broken, AsioTakes, maps
<1>2. asio'.at = "disconnected" /\ asio'.of = c
  BY <1>1
<1>3. QED
  BY <1>1, <1>2 DEF SessionInv, QueuesWait

LEMMA UnregisterSessions ==
    ASSUME TypeOK, BridgeInv, SessionInv, Unregister PROVE SessionInv'
<1>1. /\ UNCHANGED <<link, sessions, nextId, joined, facts, round, outbound, queue>>
      /\ asio.at = "disconnected"
  BY DEF Unregister, AsioAt, wires
<1>2. asio'.at \in {"idle", "retire"}
  <2>1. [asio EXCEPT !.at = "idle"].at = "idle"
    BY AsioFields DEF TypeOK
  <2>2. [at |-> "retire", of |-> rev[asio.of]].at = "retire"
    OBVIOUS
  <2>3. asio' \in {[asio EXCEPT !.at = "idle"], [at |-> "retire", of |-> rev[asio.of]]}
    BY DEF Unregister, AsioGoes
  <2>4. QED
    BY <2>1, <2>2, <2>3, Zenon
<1>3. \A i \in DOMAIN server' : i \in DOMAIN server /\ server'[i] = server[i]
  BY DEF Unregister, Restrict
<1>4. \A d \in DOMAIN rev \ {asio.of} : d \in DOMAIN rev' /\ rev'[d] = rev[d]
  BY DEF Unregister, Restrict
<1>5. asio.of \notin sessions
  BY <1>1 DEF SessionInv
<1>6. \A d \in sessions : joined[d] # None => d \in DOMAIN rev' /\ rev'[d] \in facts.clients
  BY <1>4, <1>5 DEF SessionInv
<1>7. QED
  BY <1>1, <1>2, <1>3, <1>6 DEF SessionInv

LEMMA RetireSessions ==
    ASSUME TypeOK, BridgeInv, SessionInv, QueuesWait', Retire PROVE SessionInv'
<1>1. /\ UNCHANGED <<link, sessions, server, rev, nextId, joined, round>>
      /\ asio.at = "retire" /\ asio'.at = "idle"
  BY AsioFields DEF Retire, AsioAt, AsioGoes, maps, TypeOK
<1>2. asio.of \notin Met
  BY <1>1 DEF BridgeInv, Retiring
<1>3. facts'.clients \in {facts.clients, facts.clients \ {asio.of}}
  <2>1. CASE up /\ asio.of \in facts.clients
    <3>1. facts' = [facts EXCEPT !.clients = facts.clients \ {asio.of}, !.messages = {}]
      BY <2>1 DEF Retire
    <3>2. QED
      BY <3>1, ClientsSet DEF TypeOK, BridgeTypes
  <2>2. CASE ~(up /\ asio.of \in facts.clients)
    <3>1. \E S, M : facts' = [facts EXCEPT !.disconnected = S, !.messages = M]
      BY <2>2, Zenon DEF Retire
    <3>2. facts \in Memory
      BY DEF TypeOK, BridgeTypes
    <3>3. QED
      BY <3>1, <3>2, ClientsKept
  <2>3. QED
    BY <2>1, <2>2
<1>4. \A d \in sessions : joined[d] # None => d \in DOMAIN rev /\ rev[d] \in facts'.clients
  <2>1. \A d \in DOMAIN rev : joined[d] # None => rev[d] # asio.of
    BY <1>2 DEF Met
  <2>2. QED
    BY <1>3, <2>1 DEF SessionInv
<1>5. QED
  BY <1>1, <1>3, <1>4 DEF SessionInv, QueuesWait

LEMMA SessionStep ==
    ASSUME TypeOK, BridgeInv, SessionInv, [Next]_vars
    PROVE  SessionInv'
<1>0. QueuesWait' /\ facts \in Memory /\ BridgeTypes
  BY WiresStep DEF WireInv, TypeOK, BridgeTypes
<1>1. CASE StartClips
  <2>1. main.at = "start" /\ facts'.clients = {}
    BY <1>1 DEF StartClips, MainAt
  <2>2. facts.clients = {}
    BY <2>1 DEF BridgeInv, NobodyMet
  <2>3. QED
    BY <1>0, <1>1, <2>1, <2>2, SessionFrame DEF StartClips, maps
<1>2. CASE CreatePeer
  BY <1>0, <1>2, SessionFrame DEF CreatePeer
<1>3. CASE TimerRun
  <2>1. facts'.clients = facts.clients
    BY <1>0, <1>3 DEF TimerRun, Memory
  <2>2. round' \in {round, round + 1}
    BY <1>3 DEF TimerRun
  <2>3. QED
    BY <1>0, <1>3, <2>1, <2>2, SessionFrame DEF TimerRun, maps
<1>4. CASE SendToClient
  BY <1>0, <1>4, SessionFrame DEF SendToClient, maps
<1>5. CASE FindSession
  BY <1>0, <1>5, SessionFrame DEF FindSession, maps
<1>6. CASE UseSession
  BY <1>0, <1>6, SessionFrame DEF UseSession, maps
<1>7. CASE RunEnds
  BY <1>0, <1>7, SessionFrame DEF RunEnds, maps
<1>8. ASSUME NEW c \in Cids, Accept(c) PROVE SessionInv'
  BY <1>8, AcceptSessions
<1>9. CASE Register
  BY <1>9, RegisterSessions
<1>10. CASE Announce
  <2>1. CASE up
    BY <1>0, <1>10, <2>1, AnnounceSessions
  <2>2. CASE ~up
    <3>1. facts'.clients = facts.clients /\ joined' = joined
      BY <1>0, <1>10, <2>2 DEF Announce, Memory
    <3>2. asio'.at = "idle"
      BY <1>0, <1>10, AsioFields DEF Announce, AsioGoes
    <3>3. QED
      BY <1>0, <1>10, <3>1, <3>2, SessionFrame DEF Announce, maps
  <2>3. QED
    BY <2>1, <2>2
<1>11. ASSUME NEW c \in Cids, Message(c) PROVE SessionInv'
  <2>1. facts'.clients = facts.clients
    BY <1>0, <1>11 DEF Message, Memory
  <2>2. QED
    BY <1>0, <1>11, <2>1, SessionFrame DEF Message, maps
<1>12. ASSUME NEW c \in Cids, BadMessage(c) PROVE SessionInv'
  <2>1. asio'.at = "failed"
    BY <1>12 DEF BadMessage, AsioTakes
  <2>2. QED
    BY <1>0, <1>12, <2>1, SessionFrame DEF BadMessage, maps
<1>13. CASE ReportFailure
  <2>1. asio'.at = "idle"
    BY <1>0, <1>13, AsioFields DEF ReportFailure, AsioGoes
  <2>2. QED
    BY <1>0, <1>13, <2>1, SessionFrame DEF ReportFailure, maps
<1>14. ASSUME NEW c \in Cids, Written(c) PROVE SessionInv'
  BY <1>0, <1>14, SessionFrame DEF Written, maps
<1>15. ASSUME NEW c \in Cids, Broken(c) PROVE SessionInv'
  BY <1>0, <1>15, BrokenSessions
<1>16. CASE Unregister
  BY <1>16, UnregisterSessions
<1>17. CASE Retire
  BY <1>0, <1>17, RetireSessions
<1>18. ASSUME NEW c \in Cids, Leave(c) PROVE SessionInv'
  <2>1. \A d \in sessions : link[d] # "new" => link'[d] # "new"
    BY <1>0, <1>18 DEF Leave, BridgeTypes
  <2>2. QED
    BY <1>0, <1>18, <2>1, SessionFrame DEF Leave, maps
<1>19. CASE PeerMessage
  <2>1. facts'.clients = facts.clients
    BY <1>0, <1>19 DEF PeerMessage, Memory
  <2>2. QED
    BY <1>0, <1>19, <2>1, SessionFrame DEF PeerMessage, maps
<1>20. CASE UNCHANGED vars
  BY <1>0, <1>20, SessionFrame DEF vars, maps
<1>21. QED
  BY <1>1, <1>2, <1>3, <1>4, <1>5, <1>6, <1>7, <1>8, <1>9, <1>10, <1>11, <1>12, <1>13,
     <1>14, <1>15, <1>16, <1>17, <1>18, <1>19, <1>20 DEF Next, Main, Asio

-----------------------------------------------------------------------------
(* What clients get *)

LEMMA DueFacts ==
    ASSUME BridgeTypes, NEW c \in Cids
    PROVE  /\ Due(c) \in SUBSET Int
           /\ \A m \in Due(c) : m <= round /\ m # LogLine
           /\ joined[c] = None => Due(c) = {}
<1>1. round \in Nat /\ joined[c] \in {None} \cup Nat
  BY DEF BridgeTypes
<1>2. CASE joined[c] = None
  BY <1>2 DEF Due
<1>3. CASE joined[c] # None
  BY <1>1, <1>3 DEF Due, Version, LogLine
<1>4. QED
  BY <1>2, <1>3

\* Steps that tell nobody anything and make nothing due
LEMMA StreamFrame ==
    ASSUME StreamInv, UNCHANGED <<joined, round>>,
           \A c \in Cids : InOrder(Stream(c)', Due(c)),
           \A c \in sessions' : joined[c] # None =>
               /\ c \in sessions /\ (Pending(c)' <=> Pending(c))
               /\ \A m : Gets(Stream(c)', m) <=> Gets(Stream(c), m)
    PROVE  StreamInv'
<1>1. \A c \in Cids : Due(c)' = Due(c)
  BY DEF Due
<1>2. \A c \in Cids : InOrder(Stream(c), Due(c))'
  BY <1>1
<1>3. ASSUME NEW c \in sessions', joined[c] # None PROVE Current(c)'
  <2>1. Due(c)' = Due(c)
    BY DEF Due
  <2>2. Current(c) /\ (Pending(c)' <=> Pending(c))
    BY <1>3 DEF StreamInv
  <2>3. \A m : Gets(Stream(c)', m) <=> Gets(Stream(c), m)
    BY <1>3
  <2>4. QED
    BY <2>1, <2>2, <2>3 DEF Current
<1>4. QED
  BY <1>2, <1>3 DEF StreamInv

LEMMA StreamSame ==
    ASSUME StreamInv, UNCHANGED <<joined, round>>,
           \A c \in Cids : Stream(c)' = Stream(c), sessions \subseteq Cids,
           \A c \in sessions' :
               joined[c] # None => c \in sessions /\ (Pending(c)' <=> Pending(c))
    PROVE  StreamInv'
<1>1. \A c \in Cids : InOrder(Stream(c)', Due(c))
  BY DEF StreamInv
<1>2. ASSUME NEW c \in sessions', joined[c] # None
      PROVE  /\ c \in sessions /\ (Pending(c)' <=> Pending(c))
             /\ \A m : Gets(Stream(c)', m) <=> Gets(Stream(c), m)
  <2>1. c \in sessions /\ (Pending(c)' <=> Pending(c))
    BY <1>2
  <2>2. Stream(c)' = Stream(c)
    BY <2>1
  <2>3. QED
    BY <2>1, <2>2
<1>3. QED
  BY <1>1, <1>2, StreamFrame

\* A round begins: it is due to all that joined, and they are all to be sent it
LEMMA TimerServed ==
    ASSUME TypeOK, BridgeInv, MutexInv, SessionInv, StreamInv, TimerRun
    PROVE  StreamInv'
<1>0. BridgeTypes /\ sessions \subseteq Cids /\ round \in Nat
  BY DEF TypeOK, BridgeTypes
<1>1. /\ UNCHANGED <<joined, rev, sessions>> /\ UNCHANGED wires
      /\ clips = None /\ main.todo = {} /\ ~Looking
  BY MutexFree DEF TimerRun, maps, Sending, Looking
<1>2. \A c \in Cids : Stream(c)' = Stream(c)
  BY <1>1 DEF Stream, wires
<1>3. \A c \in Cids : ~Pending(c)
  BY <1>1 DEF Pending
<1>4. CASE round' = round /\ main' = [main EXCEPT !.at = "sending", !.todo = {}]
  <2>1. main'.at = "sending" /\ main'.todo = {}
    BY <1>0, <1>4, MainFields
  <2>2. \A c \in Cids : ~Pending(c)'
    BY <2>1 DEF Pending, Looking
  <2>3. QED
    BY <1>0, <1>1, <1>2, <1>3, <1>4, <2>2, StreamSame
<1>5. CASE round' = round + 1 /\ main' = [main EXCEPT !.at = "sending", !.todo = facts.clients]
  <2>1. main'.at = "sending" /\ main'.todo = facts.clients
    BY <1>0, <1>5, MainFields
  <2>2. ASSUME NEW c \in Cids
        PROVE  /\ Due(c)' = IF joined[c] = None THEN {} ELSE Due(c) \cup {round + 1}
    <3>1. joined[c] # None => joined[c] \in Nat /\ joined[c] <= round
      BY <1>0 DEF SessionInv, BridgeTypes
    <3>2. joined[c] # None => joined[c] + 1 .. round + 1 = (joined[c] + 1 .. round) \cup {round + 1}
      BY <1>0, <3>1
    <3>3. QED
      BY <1>1, <1>5, <3>2 DEF Due
  <2>3. ASSUME NEW c \in Cids PROVE InOrder(Stream(c), Due(c)) /\ InOrder(Stream(c)', Due(c)')
    <3>1. /\ Due(c) \subseteq Due(c)' /\ \A m \in Due(c) : m \in Int /\ m <= round
          /\ \A m \in Due(c)' \ Due(c) : m = round + 1
      BY <1>0, <2>2, DueFacts
    <3>2. \A m \in Due(c)' \ Due(c) : \A d \in Due(c) : ~(m < d)
      BY <1>0, <3>1
    <3>3. InOrder(Stream(c), Due(c))
      BY DEF StreamInv
    <3>4. InOrder(Stream(c), Due(c)')
      BY <3>1, <3>2, <3>3, MoreDue
    <3>5. QED
      BY <1>2, <3>3, <3>4
  <2>4. ASSUME NEW c \in sessions, joined[c] # None PROVE Current(c)'
    <3>1. c \in Cids /\ c \in DOMAIN rev /\ rev[c] \in facts.clients
      BY <1>0, <2>4 DEF SessionInv
    <3>2. Pending(c)'
      BY <1>1, <2>1, <3>1 DEF Pending
    <3>3. joined[c] \in Nat /\ joined[c] <= round /\ joined'[c] < round'
      BY <1>0, <1>1, <1>5, <2>4, <3>1 DEF SessionInv, BridgeTypes
    <3>4. \A m \in Due(c) : Gets(Stream(c), m)
      BY <1>3, <2>4, <3>1 DEF StreamInv, Current
    <3>5. \A m \in Due(c)' : Gets(Stream(c)', m) \/ m = round'
      BY <1>2, <1>5, <2>2, <2>4, <3>1, <3>4
    <3>6. ~Gets(Stream(c), round + 1)
      <4>1. \A i \in Told(Stream(c)) : Stream(c)[i] \in Due(c)
        BY <2>3, <3>1 DEF InOrder
      <4>2. \A m \in Due(c) : m \in Int /\ m <= round
        BY <1>0, <3>1, DueFacts
      <4>3. QED
        BY <1>0, <4>1, <4>2 DEF Gets
    <3>7. ~Gets(Stream(c)', round')
      BY <1>2, <1>5, <3>1, <3>6
    <3>8. QED
      BY <3>2, <3>3, <3>5, <3>7 DEF Current
  <2>5. QED
    BY <1>1, <2>3, <2>4 DEF StreamInv
<1>6. QED
  BY <1>4, <1>5 DEF TimerRun

\* The round is sent to a session that is still to be sent it
LEMMA UseServed ==
    ASSUME TypeOK, BridgeInv, MutexInv, SessionInv, StreamInv, UseSession
    PROVE  StreamInv'
<1>0. BridgeTypes /\ sessions \subseteq Cids /\ round \in Nat /\ WireInv
  BY WiresOf DEF TypeOK, BridgeTypes
<1>1. /\ UNCHANGED <<joined, round, rev, sessions>>
      /\ main'.at = "sending" /\ main'.todo = main.todo
      /\ Looking /\ ~Looking'
  <2>1. main.at = "send" /\ main' = [main EXCEPT !.at = "sending"]
    BY DEF UseSession, MainAt, MainGoes
  <2>2. main'.at = "sending" /\ main'.todo = main.todo
    BY <1>0, <2>1, MainFields
  <2>3. UNCHANGED <<joined, round, rev, sessions>>
    BY DEF UseSession, maps
  <2>4. QED
    BY <2>1, <2>2, <2>3 DEF Looking
<1>2. PICK c \in Cids : /\ c = main.target /\ c \in DOMAIN rev /\ rev[c] \notin main.todo
                        /\ joined[c] # None
  BY <1>0, <1>1 DEF MutexInv, BridgeTypes
<1>3. \A d \in Cids \ {c} : Pending(d)' <=> Pending(d)
  BY <1>1, <1>2 DEF Pending
<1>4. Pending(c) /\ ~Pending(c)'
  BY <1>1, <1>2 DEF Pending
<1>5. \A d \in Cids : Stream(d)' = IF d = c /\ d \in sessions THEN Stream(d) \o <<round>>
                                                            ELSE Stream(d)
  BY <1>0, <1>2, UseStream
<1>6. \A d \in Cids : Due(d)' = Due(d)
  BY <1>1 DEF Due
<1>7. CASE c \in sessions
  <2> DEFINE s == Stream(c)
             due == Due(c)
  <2>1. /\ joined[c] < round /\ ~Gets(s, round) /\ InOrder(s, due)
        /\ \A m \in due : Gets(s, m) \/ m = round
    BY <1>2, <1>4, <1>7 DEF StreamInv, Current
  <2>2. /\ due \in SUBSET Int /\ \A m \in due : m \in Int /\ m <= round /\ m # LogLine
        /\ s \in Seq(Int)
    BY <1>0, <1>2, DueFacts, StreamType
  <2>3. round \in due /\ round # LogLine
    <3>1. joined[c] \in Nat
      BY <1>0, <1>2 DEF BridgeTypes
    <3>2. round \in joined[c] + 1 .. round
      BY <1>0, <2>1, <3>1
    <3>3. QED
      BY <1>0, <1>2, <3>2 DEF Due, LogLine
  <2>4. Stream(c)' = s \o <<round>>
    BY <1>2, <1>5, <1>7
  <2> HIDE DEF s, due
  <2>5. \A i \in Told(s) : s[i] < round
    <3>1. \A i \in Told(s) : s[i] \in due /\ s[i] # round
      BY <2>1 DEF InOrder, Gets
    <3>2. \A m \in due : m # round => m < round
      BY <1>0, <2>2
    <3>3. QED
      BY <3>1, <3>2
  <2>6. \A m \in due : m < round => Gets(s, m)
    BY <1>0, <2>1
  <2>7. /\ \A m : Gets(s \o <<round>>, m) <=> Gets(s, m) \/ m = round
        /\ InOrder(s \o <<round>>, due)
    BY <1>0, <2>1, <2>2, <2>3, <2>5, <2>6, MessageMore
  <2>8. \A m \in due : Gets(Stream(c)', m)
    BY <2>1, <2>4, <2>7
  <2>9. Current(c)'
    BY <1>2, <1>4, <1>6, <2>8 DEF Current, due
  <2>10. ASSUME NEW d \in Cids PROVE InOrder(Stream(d), Due(d))'
    <3>1. CASE d = c
      BY <1>6, <2>4, <2>7, <3>1 DEF due
    <3>2. CASE d # c
      BY <1>5, <1>6, <3>2 DEF StreamInv
    <3>3. QED
      BY <3>1, <3>2
  <2>11. ASSUME NEW d \in sessions, joined[d] # None PROVE Current(d)'
    <3>1. CASE d = c
      BY <2>9, <3>1
    <3>2. CASE d # c
      <4>1. d \in Cids /\ Stream(d)' = Stream(d) /\ Due(d)' = Due(d) /\ (Pending(d)' <=> Pending(d))
        BY <1>0, <1>3, <1>5, <1>6, <3>2
      <4>2. Current(d)
        BY <2>11 DEF StreamInv
      <4>3. QED
        BY <1>1, <4>1, <4>2 DEF Current
    <3>3. QED
      BY <3>1, <3>2
  <2>12. QED
    BY <1>1, <2>10, <2>11 DEF StreamInv
<1>8. CASE c \notin sessions
  <2>1. \A d \in Cids : Stream(d)' = Stream(d)
    BY <1>5, <1>8
  <2>2. \A d \in sessions' : d \in sessions /\ (Pending(d)' <=> Pending(d))
    BY <1>0, <1>1, <1>3, <1>8
  <2>3. QED
    BY <1>0, <1>1, <2>1, <2>2, StreamSame
<1>9. QED
  BY <1>7, <1>8

\* A client that is met gets the version, and nothing else is due yet
LEMMA AnnounceServed ==
    ASSUME TypeOK, BridgeInv, MutexInv, SessionInv, StreamInv, Announce, up
    PROVE  StreamInv'
<1>0. BridgeTypes /\ sessions \subseteq Cids /\ round \in Nat /\ WireInv
  BY WiresOf DEF TypeOK, BridgeTypes
<1>1. /\ UNCHANGED <<round, rev, sessions, main>> /\ joined' = [joined EXCEPT ![asio.of] = round]
      /\ clips = None /\ asio.at = "announce"
  BY DEF Announce, AsioAt, maps
<1>2. PICK c \in Cids : c = asio.of /\ joined[c] = None /\ c \in sessions
  BY <1>0, <1>1 DEF SessionInv
<1>3. main.todo = {} /\ ~Looking
  BY <1>1, MutexFree DEF Sending, Looking
<1>4. \A d \in Cids : ~Pending(d) /\ ~Pending(d)'
  BY <1>1, <1>3 DEF Pending, Looking
<1>5. \A d \in Cids \ {c} : joined'[d] = joined[d] /\ Due(d)' = Due(d)
  BY <1>0, <1>1, <1>2 DEF BridgeTypes, Due
<1>6. joined'[c] = round /\ Due(c)' = {Version} /\ Due(c) = {}
  <2>1. joined'[c] = round /\ round # None
    BY <1>0, <1>1, <1>2 DEF BridgeTypes
  <2>2. round + 1 .. round = {}
    BY <1>0
  <2>3. QED
    BY <1>1, <1>2, <2>1, <2>2 DEF Due
<1>7. \A d \in Cids :
        Stream(d)' = IF d \in sessions
                       THEN IF d = c THEN Stream(d) \o <<LogLine>> \o <<Version>>
                                     ELSE Stream(d) \o <<LogLine>>
                       ELSE IF d = c THEN Stream(d) \o <<Version>> ELSE Stream(d)
  BY <1>0, <1>2, AnnounceStream
<1>8. /\ InOrder(Stream(c)', {Version})
      /\ Gets(Stream(c)', Version)
  <2> DEFINE s == Stream(c)
             t == s \o <<LogLine>>
  <2>1. s \in Seq(Int) /\ InOrder(s, {})
    BY <1>0, <1>6, StreamType DEF StreamInv
  <2>2. Stream(c)' = t \o <<Version>>
    BY <1>2, <1>7
  <2> HIDE DEF s
  <2>3. t \in Seq(Int) /\ InOrder(t, {})
    <3>1. LogLine \in Int
      BY DEF LogLine
    <3>2. QED
      BY <2>1, <3>1, LogLineMore
  <2> HIDE DEF t
  <2>4. Told(t) = {}
    BY <2>3 DEF InOrder
  <2>5. InOrder(t, {Version})
    BY <2>4 DEF InOrder
  <2>6. /\ Version \in Int /\ {Version} \in SUBSET Int /\ Version \in {Version}
        /\ Version # LogLine
        /\ \A m \in {Version} : m < Version => Gets(t, m)
    BY DEF Version, LogLine
  <2>7. \A i \in Told(t) : t[i] < Version
    BY <2>4
  <2>8. /\ \A m : Gets(t \o <<Version>>, m) <=> Gets(t, m) \/ m = Version
        /\ InOrder(t \o <<Version>>, {Version})
    BY <2>3, <2>5, <2>6, <2>7, MessageMore
  <2>9. QED
    BY <2>2, <2>8
<1>9. ASSUME NEW d \in Cids \ {c}
      PROVE  /\ InOrder(Stream(d)', Due(d))
             /\ \A m : Gets(Stream(d)', m) <=> Gets(Stream(d), m)
  <2>1. Stream(d) \in Seq(Int) /\ InOrder(Stream(d), Due(d))
    BY StreamType DEF StreamInv
  <2>2. Stream(d)' \in {Stream(d), Stream(d) \o <<LogLine>>}
    BY <1>7
  <2>3. CASE Stream(d)' = Stream(d)
    BY <2>1, <2>3
  <2>4. CASE Stream(d)' = Stream(d) \o <<LogLine>>
    BY <2>1, <2>4, LogLineMore
  <2>5. QED
    BY <2>2, <2>3, <2>4
<1>10. \A d \in Cids : InOrder(Stream(d)', Due(d)')
  BY <1>5, <1>6, <1>8, <1>9
<1>11. ASSUME NEW d \in sessions, joined'[d] # None PROVE Current(d)'
  <2>1. d \in Cids /\ ~Pending(d)'
    BY <1>0, <1>4
  <2>2. \A m \in Due(d)' : Gets(Stream(d)', m)
    <3>1. CASE d = c
      BY <1>6, <1>8, <3>1
    <3>2. CASE d # c
      <4>1. joined[d] # None /\ ~Pending(d)
        BY <1>4, <1>5, <1>11, <2>1, <3>2
      <4>2. \A m \in Due(d) : Gets(Stream(d), m)
        BY <4>1 DEF StreamInv, Current
      <4>3. QED
        BY <1>5, <1>9, <2>1, <3>2, <4>2
    <3>3. QED
      BY <3>1, <3>2
  <2>3. QED
    BY <2>1, <2>2 DEF Current
<1>12. QED
  BY <1>1, <1>10, <1>11 DEF StreamInv

\* A log line more at most
LEMMA RetireServed ==
    ASSUME TypeOK, BridgeInv, MutexInv, SessionInv, StreamInv, Retire
    PROVE  StreamInv'
<1>0. WireInv /\ sessions \subseteq Cids
  BY WiresOf DEF TypeOK
<1>1. UNCHANGED <<round, joined, rev, sessions, main>>
  BY DEF Retire, maps
<1>2. \A c \in Cids : Pending(c)' <=> Pending(c)
  BY <1>1 DEF Pending, Looking
<1>3. ASSUME NEW c \in Cids
      PROVE  /\ InOrder(Stream(c)', Due(c))
             /\ \A m : Gets(Stream(c)', m) <=> Gets(Stream(c), m)
  <2>1. Stream(c) \in Seq(Int) /\ InOrder(Stream(c), Due(c))
    BY StreamType DEF StreamInv
  <2>2. Stream(c)' \in {Stream(c), Stream(c) \o <<LogLine>>}
    BY <1>0, RetireStream
  <2>3. CASE Stream(c)' = Stream(c)
    BY <2>1, <2>3
  <2>4. CASE Stream(c)' = Stream(c) \o <<LogLine>>
    BY <2>1, <2>4, LogLineMore
  <2>5. QED
    BY <2>2, <2>3, <2>4
<1>4. QED
  BY <1>0, <1>1, <1>2, <1>3, StreamFrame

\* A stream that breaks off is that of a session that is gone
LEMMA BrokenServed ==
    ASSUME TypeOK, BridgeInv, MutexInv, SessionInv, StreamInv, NEW c \in Cids, Broken(c)
    PROVE  StreamInv'
<1>0. WireInv /\ sessions \subseteq Cids /\ BridgeTypes
  BY WiresOf DEF TypeOK
<1>1. UNCHANGED <<round, joined, rev, main>> /\ sessions' = sessions \ {c}
  BY DEF Broken, maps
<1>2. \A d \in Cids : Pending(d)' <=> Pending(d)
  BY <1>1 DEF Pending, Looking
<1>3. /\ \A d \in Cids \ {c} : Stream(d)' = Stream(d)
      /\ \E r \in Seq(Int) : Stream(c) = Stream(c)' \o r
      /\ Stream(c)' \in Seq(Int)
  BY <1>0, BrokenStream DEF WireInv
<1>4. InOrder(Stream(c)', Due(c))
  <2>1. PICK r \in Seq(Int) : Stream(c) = Stream(c)' \o r
    BY <1>3
  <2>2. InOrder(Stream(c)' \o r, Due(c)) /\ Due(c) \in SUBSET Int
    BY <1>0, <2>1, DueFacts DEF StreamInv
  <2>3. QED
    BY <1>3, <2>2, CutOff
<1>5. \A d \in Cids : InOrder(Stream(d)', Due(d))
  BY <1>3, <1>4 DEF StreamInv
<1>6. ASSUME NEW d \in sessions', joined[d] # None
      PROVE  /\ d \in sessions /\ (Pending(d)' <=> Pending(d))
             /\ \A m : Gets(Stream(d)', m) <=> Gets(Stream(d), m)
  <2>1. d \in Cids \ {c} /\ d \in sessions
    BY <1>0, <1>1
  <2>2. Stream(d)' = Stream(d)
    BY <1>3, <2>1
  <2>3. QED
    BY <1>2, <2>1, <2>2
<1>7. QED
  BY <1>1, <1>5, <1>6, StreamFrame

LEMMA SendServed ==
    ASSUME TypeOK, BridgeInv, MutexInv, SessionInv, StreamInv, SendToClient
    PROVE  \A c \in Cids : Pending(c)' <=> Pending(c)
<1>0. BridgeTypes /\ OneToOne
  BY DEF BridgeInv
<1>1. main.at = "sending" /\ rev' = rev
  BY DEF SendToClient, MainAt, maps
<1>2. PICK id \in main.todo :
          IF id \in DOMAIN server
            THEN main' = [at |-> "found", todo |-> main.todo \ {id}, target |-> server[id]]
            ELSE main' = [main EXCEPT !.todo = main.todo \ {id}]
  BY DEF SendToClient
<1>3. CASE id \in DOMAIN server
  <2>1. /\ main'.at = "found" /\ main'.todo = main.todo \ {id} /\ main'.target = server[id]
    BY <1>2, <1>3
  <2>2. \A c \in DOMAIN rev : rev[c] = id <=> server[id] = c
    BY <1>0, <1>3 DEF OneToOne
  <2>3. server[id] \in DOMAIN rev
    BY <1>0, <1>3 DEF OneToOne
  <2>4. QED
    BY <1>1, <2>1, <2>2, <2>3 DEF Pending, Looking
<1>4. CASE id \notin DOMAIN server
  <2>1. main'.at = main.at /\ main'.todo = main.todo \ {id}
    BY <1>0, <1>2, <1>4, MainTodo
  <2>2. \A c \in DOMAIN rev : rev[c] # id
    BY <1>0, <1>4 DEF OneToOne
  <2>3. QED
    BY <1>1, <2>1, <2>2 DEF Pending, Looking
<1>5. QED
  BY <1>3, <1>4

LEMMA StreamStep ==
    ASSUME TypeOK, BridgeInv, MutexInv, SessionInv, StreamInv, [Next]_vars
    PROVE  StreamInv'
<1>0. /\ BridgeTypes /\ sessions \subseteq Cids /\ WireInv
      /\ clips = None => ~Sending /\ main.at # "peers" /\ main.todo = {}
      /\ map = None => ~Looking /\ asio.at # "failed"
  BY WiresOf, MutexFree DEF TypeOK
\* Most steps leave the wires, and what is pending for the sessions, alone
<1>a. ASSUME UNCHANGED wires, UNCHANGED <<joined, round, main, rev>>, sessions' \subseteq sessions
      PROVE  StreamInv'
  <2>1. \A c \in Cids : Stream(c)' = Stream(c)
    BY <1>0, <1>a, WiresFrame
  <2>2. \A c \in Cids : Pending(c)' <=> Pending(c)
    BY <1>a DEF Pending, Looking
  <2>3. QED
    BY <1>0, <1>a, <2>1, <2>2, StreamSame
<1>1. CASE StartClips
  <2>1. /\ UNCHANGED <<joined, round, rev, sessions>> /\ UNCHANGED wires
        /\ main'.at = "peers" /\ main'.todo = main.todo /\ clips = None
    BY <1>0, <1>1, MainFields DEF StartClips, MainGoes, maps
  <2>2. \A c \in Cids : Stream(c)' = Stream(c)
    BY <1>0, <2>1, WiresFrame
  <2>3. \A c \in Cids : Pending(c)' <=> Pending(c)
    BY <1>0, <2>1 DEF Pending, Looking, Sending
  <2>4. QED
    BY <1>0, <2>1, <2>2, <2>3, StreamSame
<1>2. CASE CreatePeer
  BY <1>2, <1>a DEF CreatePeer
<1>3. CASE TimerRun
  BY <1>3, TimerServed
<1>4. CASE SendToClient
  <2>1. UNCHANGED <<joined, round, sessions>> /\ UNCHANGED wires
    BY <1>4 DEF SendToClient
  <2>2. \A c \in Cids : Stream(c)' = Stream(c)
    BY <1>0, <2>1, WiresFrame
  <2>3. QED
    BY <1>0, <1>4, <2>1, <2>2, SendServed, StreamSame
<1>5. CASE FindSession
  <2>1. UNCHANGED <<joined, round, rev, sessions>> /\ UNCHANGED wires /\ main.at = "found"
    BY <1>5 DEF FindSession, MainAt, maps
  <2>2. \A c \in Cids : Stream(c)' = Stream(c)
    BY <1>0, <2>1, WiresFrame
  <2>3. ASSUME NEW c \in sessions PROVE Pending(c)' <=> Pending(c)
    <3>1. CASE main.target \in sessions
      <4>1. main' = [main EXCEPT !.at = "send"]
        BY <1>5, <3>1 DEF FindSession, MainGoes
      <4>2. main'.at = "send" /\ main'.todo = main.todo /\ main'.target = main.target
        BY <1>0, <4>1, MainFields
      <4>3. QED
        BY <2>1, <4>2 DEF Pending, Looking
    <3>2. CASE main.target \notin sessions
      <4>1. main' = [main EXCEPT !.at = "sending"]
        BY <1>5, <3>2 DEF FindSession, MainGoes
      <4>2. main'.at = "sending" /\ main'.todo = main.todo
        BY <1>0, <4>1, MainFields
      <4>3. c # main.target
        BY <3>2
      <4>4. QED
        BY <2>1, <4>2, <4>3 DEF Pending, Looking
    <3>3. QED
      BY <3>1, <3>2
  <2>4. QED
    BY <1>0, <2>1, <2>2, <2>3, StreamSame
<1>6. CASE UseSession
  BY <1>6, UseServed
<1>7. CASE RunEnds
  <2>1. /\ UNCHANGED <<joined, round, rev, sessions>> /\ UNCHANGED wires
        /\ main.at \in {"sending", "peers"} /\ main' = [main EXCEPT !.at = "idle"]
    BY <1>7 DEF RunEnds, MainAt, MainGoes, maps
  <2>2. main'.at = "idle" /\ main'.todo = main.todo
    BY <1>0, <2>1, MainFields
  <2>3. \A c \in Cids : Stream(c)' = Stream(c)
    BY <1>0, <2>1, WiresFrame
  <2>4. \A c \in Cids : Pending(c)' <=> Pending(c)
    BY <2>1, <2>2 DEF Pending, Looking
  <2>5. QED
    BY <1>0, <2>1, <2>3, <2>4, StreamSame
<1>8. ASSUME NEW c \in Cids, Accept(c) PROVE StreamInv'
  <2>1. /\ UNCHANGED <<joined, round, rev, main>> /\ UNCHANGED wires
        /\ sessions' \subseteq sessions \cup {c} /\ link[c] = "new"
    BY <1>8 DEF Accept, maps
  <2>2. joined[c] = None
    BY <2>1 DEF BridgeInv, Registration
  <2>3. \A d \in Cids : Stream(d)' = Stream(d)
    BY <1>0, <2>1, WiresFrame
  <2>4. \A d \in Cids : Pending(d)' <=> Pending(d)
    BY <2>1 DEF Pending, Looking
  <2>5. QED
    BY <1>0, <2>1, <2>2, <2>3, <2>4, StreamSame
<1>9. CASE Register
  <2>1. /\ UNCHANGED <<joined, round, sessions, main>> /\ UNCHANGED wires
        /\ asio.at = "connected" /\ \A d \in Cids \ {asio.of} : d \in DOMAIN rev' <=> d \in DOMAIN rev
        /\ \A d \in DOMAIN rev \ {asio.of} : rev'[d] = rev[d]
    BY <1>9 DEF Register, AsioAt
  <2>2. joined[asio.of] = None
    BY <2>1 DEF SessionInv
  <2>3. \A d \in Cids : Stream(d)' = Stream(d)
    BY <1>0, <2>1, WiresFrame
  <2>4. ASSUME NEW d \in sessions, joined[d] # None PROVE Pending(d)' <=> Pending(d)
    <3>1. d \in Cids \ {asio.of}
      BY <1>0, <2>2, <2>4
    <3>2. QED
      BY <2>1, <3>1 DEF Pending, Looking
  <2>5. QED
    BY <1>0, <2>1, <2>3, <2>4, StreamSame
<1>10. CASE Announce
  <2>1. CASE up
    BY <1>10, <2>1, AnnounceServed
  <2>2. CASE ~up
    <3>1. UNCHANGED wires /\ joined' = joined
      BY <1>10, <2>2 DEF Announce
    <3>2. QED
      BY <1>10, <1>a, <3>1 DEF Announce, maps
  <2>3. QED
    BY <2>1, <2>2
<1>11. ASSUME NEW c \in Cids, Message(c) PROVE StreamInv'
  BY <1>11, <1>a DEF Message, maps
<1>12. ASSUME NEW c \in Cids, BadMessage(c) PROVE StreamInv'
  BY <1>12, <1>a DEF BadMessage, maps
<1>13. CASE ReportFailure
  BY <1>13, <1>a DEF ReportFailure, maps
<1>14. ASSUME NEW c \in Cids, Written(c) PROVE StreamInv'
  <2>1. UNCHANGED <<joined, round, rev, sessions, main>>
    BY <1>14 DEF Written, maps
  <2>2. \A d \in Cids : Stream(d)' = Stream(d)
    BY <1>0, <1>14, WrittenStream DEF WireInv
  <2>3. \A d \in Cids : Pending(d)' <=> Pending(d)
    BY <2>1 DEF Pending, Looking
  <2>4. QED
    BY <1>0, <2>1, <2>2, <2>3, StreamSame
<1>15. ASSUME NEW c \in Cids, Broken(c) PROVE StreamInv'
  BY <1>15, BrokenServed
<1>16. CASE Unregister
  <2>1. /\ UNCHANGED <<joined, round, sessions, main>> /\ UNCHANGED wires
        /\ asio.at = "disconnected" /\ \A d \in Cids \ {asio.of} : d \in DOMAIN rev' <=> d \in DOMAIN rev
        /\ \A d \in DOMAIN rev \ {asio.of} : rev'[d] = rev[d]
    BY <1>16 DEF Unregister, AsioAt, Restrict
  <2>2. asio.of \notin sessions
    BY <2>1 DEF SessionInv
  <2>3. \A d \in Cids : Stream(d)' = Stream(d)
    BY <1>0, <2>1, WiresFrame
  <2>4. ASSUME NEW d \in sessions PROVE Pending(d)' <=> Pending(d)
    <3>1. d \in Cids \ {asio.of}
      BY <1>0, <2>2
    <3>2. QED
      BY <2>1, <3>1 DEF Pending, Looking
  <2>5. QED
    BY <1>0, <2>1, <2>3, <2>4, StreamSame
<1>17. CASE Retire
  BY <1>17, RetireServed
<1>18. ASSUME NEW c \in Cids, Leave(c) PROVE StreamInv'
  BY <1>18, <1>a DEF Leave, maps
<1>19. CASE PeerMessage
  BY <1>19, <1>a DEF PeerMessage, maps
<1>20. CASE UNCHANGED vars
  BY <1>20, <1>a DEF vars, maps
<1>21. QED
  BY <1>1, <1>2, <1>3, <1>4, <1>5, <1>6, <1>7, <1>8, <1>9, <1>10, <1>11, <1>12, <1>13,
     <1>14, <1>15, <1>16, <1>17, <1>18, <1>19, <1>20 DEF Next, Main, Asio

-----------------------------------------------------------------------------
(* Theorems *)

LEMMA BridgeStep == BridgeInv /\ [Next]_vars => BridgeInv'
  BY TypesStep, IdsStep, RosterStep DEF BridgeInv, IdInv, RosterInv

\* BridgeInv, the inductive invariant, holds of the communicator and the engine in every
\* reachable state (handle_server_client_connected, -disconnected, net.clp).
THEOREM BridgeInvariance == Spec => []BridgeInv
  BY InvInit, BridgeStep, PTL DEF Spec

\* OneToOne: one id is one client, and no peer has it, for any number of clients and
\* peers and any first value of next_client_id_ (communicator.cpp, map_mutex_).
THEOREM OneIdOneClient == Spec => []OneToOne
<1>1. BridgeInv => OneToOne
  BY DEF BridgeInv
<1>2. QED
  BY BridgeInvariance, <1>1, PTL

\* Roster: the network-client facts of the engine are the clients that the communicator
\* has and that the engine met, except while one is being retired.
THEOREM RosterKept == Spec => []Roster
<1>1. BridgeInv => Roster
  BY DEF BridgeInv
<1>2. QED
  BY BridgeInvariance, <1>1, PTL

LEMMA ServedInit == Init => ServedInv
<1> SUFFICES ASSUME Init PROVE ServedInv
  OBVIOUS
<1>1. BridgeInv /\ BridgeTypes
  BY InvInit DEF BridgeInv
<1>2. /\ outbound = [c \in Cids |-> None] /\ queue = [c \in Cids |-> <<>>]
      /\ wire = [c \in Cids |-> <<>>] /\ joined = [c \in Cids |-> None]
      /\ sessions = {} /\ reading = {} /\ DOMAIN server = {}
      /\ clips = None /\ map = None /\ fate = "alive"
      /\ main.at = "start" /\ main.todo = {} /\ asio.at = "idle" /\ facts.clients = {}
  BY DEF Init
<1>3. <<>> \in Seq(Int)
  OBVIOUS
<1>4. TypeOK
  BY <1>1, <1>2, <1>3 DEF TypeOK
<1>5. MutexInv
  BY <1>2 DEF MutexInv, Sending, Looking
<1>6. SessionInv
  BY <1>2 DEF SessionInv
<1>7. ASSUME NEW c \in Cids PROVE InOrder(Stream(c), Due(c))
  <2>1. Stream(c) = <<>> \o <<>> \o <<>> /\ <<>> \o <<>> = <<>>
    BY <1>2, <1>3 DEF Stream
  <2>2. DOMAIN Stream(c) = {}
    BY <2>1
  <2>3. QED
    BY <2>2 DEF InOrder, Told
<1>8. StreamInv
  BY <1>2, <1>7 DEF StreamInv
<1>9. QED
  BY <1>1, <1>4, <1>5, <1>6, <1>8 DEF ServedInv

LEMMA ServedStep == ServedInv /\ [Next]_vars => ServedInv'
  BY BridgeStep, MutexStep, SessionStep, StreamStep, RestStep DEF ServedInv

\* ServedInv, the inductive invariant that adds the mutexes, the sessions and the streams,
\* holds in every reachable state (server.cpp, communicator.cpp).
THEOREM ServedInvariance == Spec => []ServedInv
  BY ServedInit, ServedStep, PTL DEF Spec

\* TypeOK: every variable has its type; in particular what is queued and written for a
\* session is always a sequence of messages (Session::send, handle_write).
THEOREM BridgeTyped == Spec => []TypeOK
<1>1. ServedInv => TypeOK
  BY DEF ServedInv
<1>2. QED
  BY ServedInvariance, <1>1, PTL

\* Served: a client that the engine met gets the version and every later round of
\* broadcasts, in order and once, for any number of clients and rounds: whatever a
\* Session::send has to wait for, and whoever connects or leaves during a round.
THEOREM EverybodyServed == Spec => []Served
<1>1. ServedInv => Served
  <2> SUFFICES ASSUME ServedInv PROVE Served
    OBVIOUS
  <2>1. \A c \in Cids : InOrder(Stream(c), Due(c))
    BY DEF ServedInv, StreamInv
  <2>2. ASSUME NEW c \in Cids, c \in sessions, main.at = "idle", NEW m \in Due(c)
        PROVE  Gets(Stream(c), m)
    <3>1. joined[c] # None
      BY DEF Due
    <3>2. ~Sending /\ ~Looking /\ main.todo = {}
      BY <2>2 DEF ServedInv, MutexInv, Sending, Looking
    <3>3. ~Pending(c)
      BY <3>2 DEF Pending
    <3>4. QED
      BY <2>2, <3>1, <3>3 DEF ServedInv, StreamInv, Current
  <2>3. QED
    BY <2>1, <2>2 DEF Served
<1>2. QED
  BY ServedInvariance, <1>1, PTL
=============================================================================
