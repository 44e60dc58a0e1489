----------------------------- MODULE Connections ------------------------------
(***************************************************************************)
(* What the node does with its Sockets and Peers: the listener, the socket *)
(* that is being dialled, the PeerPrivate records in m_peers with their    *)
(* sockets, and the Peer objects of the application.  Every step runs with *)
(* m_data_access held, or, while a socket is being dialled, on an object   *)
(* only the connect thread knows; TcpNode has the threads, the locks and   *)
(* the flags that say when a step is taken.                                *)
(***************************************************************************)
EXTENDS Socket, Peer

CONSTANTS
  MaxConnections,  \* bound on the connections ever entered into m_peers
  Lengths          \* sizes of the buffers that are sent

ASSUME ConnectionsAssumption ==
  /\ MaxConnections \in Nat
  /\ Lengths \subseteq Nat

Ids == 1 .. MaxConnections

VARIABLES
  m_listener,  \* the Socket of the node
  new_peer,    \* the Socket that is being dialled
  dial,        \* how far it is: "off", "created", "waiting", "failed",
               \* "reporting", "done"
  m_peers,     \* the PeerPrivate of each connection
  m_connection_counter

nodeVars == <<m_listener, new_peer, dial, m_peers, m_connection_counter>>
vars == <<socketVars, handleVars, nodeVars>>

\* The constructor creates the listener
Init ==
  /\ m_listener = Min(Objects)
  /\ SocketInit(m_listener)
  /\ PeerInit
  /\ new_peer = nullptr
  /\ dial = "off"
  /\ m_peers = [id \in {} |-> PeerPrivate]
  /\ m_connection_counter = 0

\* A Socket is created at the lowest address that is free
NewObject == Min(Objects \ objects)
RoomForObject == Objects # objects

KeepTable == UNCHANGED <<m_peers, m_connection_counter>>
KeepDial == UNCHANGED <<new_peer, dial>>
KeepHandles == UNCHANGED handleVars
KeepSockets == UNCHANGED socketVars

-----------------------------------------------------------------------------
(***************************************************************************)
(* The listener.                                                           *)
(***************************************************************************)
\* m_listener->listen(); a failure is reported if onListenError() is set
Listen(port, stuck, last, reported) ==
  /\ listen(m_listener, port, stuck, last, reported)
  /\ UNCHANGED m_listener
  /\ KeepDial /\ KeepTable /\ KeepHandles

StopListening ==
  /\ close(m_listener)
  /\ UNCHANGED m_listener
  /\ KeepDial /\ KeepTable /\ KeepHandles

\* mutant: the listener is replaced but not deleted
setListener_leaking ==
  /\ RoomForObject
  /\ Create(NewObject)
  /\ m_listener' = NewObject
  /\ KeepDial /\ KeepTable /\ KeepHandles

\* setListener(), with a Socket the application has just created
setListener ==
  /\ RoomForObject
  /\ objects' = (objects \ {m_listener}) \cup {NewObject}
  /\ sock' = [sock EXCEPT ![m_listener] = NewSocket, ![NewObject] = NewSocket]
  /\ Reopen(m_listener, "closed")
  /\ UNCHANGED errno
  /\ m_listener' = NewObject
  /\ KeepDial /\ KeepTable /\ KeepHandles

\* setReceiveBufferSize() of the node: of its listener, that is
SetBufferSize(size) ==
  /\ setReceiveBufferSize(m_listener, size)
  /\ UNCHANGED m_listener
  /\ KeepDial /\ KeepTable /\ KeepHandles

-----------------------------------------------------------------------------
(***************************************************************************)
(* New connections.                                                        *)
(***************************************************************************)
\* mutant: the id is the number of the entry in the table
Insert_numbered(o, address) ==
  LET id == Cardinality(DOMAIN m_peers) + 1
  IN  /\ id \in Ids
      /\ m_connection_counter' = id
      /\ m_peers' = [k \in DOMAIN m_peers \cup {id} |->
                       IF k = id THEN NewRecord(id, address, o)
                                 ELSE m_peers[k]]

\* ++m_connection_counter, the record, and m_peers.insert()
Insert(o, address) ==
  LET id == m_connection_counter + 1
  IN  /\ id \in Ids
      /\ m_connection_counter' = id
      /\ m_peers' = [k \in DOMAIN m_peers \cup {id} |->
                       IF k = id THEN NewRecord(id, address, o)
                                 ELSE m_peers[k]]

CanAccept == sock[m_listener].m_is_listener /\ sock[m_listener].m_is_listening

\* The new socket is asked for its address as soon as it is there, by which
\* time the connection may be reset
Accept ==
  /\ CanAccept
  /\ RoomForObject
  /\ accept(m_listener, NewObject)
  /\ \E address \in {"known", ""} : Insert(NewObject, address)
  /\ UNCHANGED m_listener
  /\ KeepDial /\ KeepHandles

\* accept() gave nothing; getLastErrno() is 0 then, and nothing is reported
AcceptNothing ==
  /\ CanAccept
  /\ AcceptFailed(m_listener)
  /\ UNCHANGED m_listener
  /\ KeepDial /\ KeepTable /\ KeepHandles

\* m_createNewSocketFunction()
CreateSocket ==
  /\ dial = "off"
  /\ RoomForObject
  /\ Create(NewObject)
  /\ new_peer' = NewObject
  /\ dial' = "created"
  /\ UNCHANGED m_listener
  /\ KeepTable /\ KeepHandles

\* new_peer->connect(), up to its sleep unless the answer is there at once
Dial ==
  /\ dial = "created"
  /\ \/ ConnectNotBegun(new_peer) /\ dial' = "failed"
     \/ ConnectBegun(new_peer, "established") /\ dial' = "done"
     \/ ConnectBegun(new_peer, "connecting") /\ dial' = "waiting"
  /\ UNCHANGED <<m_listener, new_peer>>
  /\ KeepTable /\ KeepHandles

\* The rest of new_peer->connect()
DialEnd ==
  /\ dial = "waiting"
  /\ \/ ConnectDone(new_peer) /\ dial' = "done"
     \/ ConnectNotDone(new_peer) /\ dial' = "failed"
  /\ UNCHANGED <<m_listener, new_peer>>
  /\ KeepTable /\ KeepHandles

\* getLastErrno(), which clears the errno of the socket, and the test at the
\* end of the loop: it goes on while there was no errno and time is left
DialFailed ==
  /\ dial = "failed"
  /\ Set(new_peer, [sock[new_peer] EXCEPT !.m_last_errno = 0])
  /\ \E timeup \in BOOLEAN :
       dial' = IF sock[new_peer].m_last_errno = 0 /\ ~timeup
               THEN "created" ELSE "reporting"
  /\ UNCHANGED <<objects, kernelVars, errno, m_listener, new_peer>>
  /\ KeepTable /\ KeepHandles

\* What the thread runs outside the sockets, the callbacks first of all, may
\* leave any errno behind
AnyErrno == errno' \in {0, 1}

\* _createErrorMessage(), onConnectError(), and the socket is deleted
DialReported ==
  /\ dial = "reporting"
  /\ Destroy(new_peer)
  /\ AnyErrno
  /\ dial' = "off"
  /\ new_peer' = nullptr
  /\ UNCHANGED m_listener
  /\ KeepTable /\ KeepHandles

Connected ==
  /\ dial = "done"
  /\ Insert(new_peer, peerIpAddress(new_peer))
  /\ dial' = "off"
  /\ new_peer' = nullptr
  /\ AnyErrno
  /\ UNCHANGED <<objects, sock, kernelVars, m_listener>>
  /\ KeepHandles

-----------------------------------------------------------------------------
(***************************************************************************)
(* Connections in the table.                                               *)
(***************************************************************************)
\* scheduleDelete() of the entries ids
Schedule(ids, type) ==
  /\ m_peers' = [k \in DOMAIN m_peers |->
                   IF k \in ids THEN Scheduled(m_peers[k], type)
                                ELSE m_peers[k]]
  /\ UNCHANGED m_connection_counter

\* mutant: peers that are scheduled for deletion are read, too
ReceiveFrom_all(id) ==
  LET o == m_peers[id].m_socket
  IN  /\ id \in DOMAIN m_peers
      /\ sock[o].m_is_connected
      /\ \E res \in ReceiveResult :
           /\ receive(o, res)
           /\ IF res \in DOMAIN ReceiveErrors
              THEN Schedule({id}, ReceiveErrors[res])
              ELSE KeepTable
      /\ UNCHANGED m_listener
      /\ KeepDial /\ KeepHandles

\* One round of the receive loop; a socket that is not connected is not read
ReceiveFrom(id) ==
  LET o == m_peers[id].m_socket
  IN  /\ id \in DOMAIN m_peers
      /\ ~m_peers[id].m_to_be_deleted
      /\ \E res \in ReceiveResult :
           /\ IF sock[o].m_is_connected THEN receive(o, res)
              ELSE res = "ERROR_NO_CONNECTION" /\ KeepSockets
           /\ IF res \in DOMAIN ReceiveErrors
              THEN Schedule({id}, ReceiveErrors[res])
              ELSE KeepTable
      /\ UNCHANGED m_listener
      /\ KeepDial /\ KeepHandles

\* The send thread; a failure is reported, and the connection given up, if
\* onSendError() is set
SendTo(id, len) ==
  /\ id \in DOMAIN m_peers
  /\ ~m_peers[id].m_to_be_deleted
  /\ \E bytes \in 0 .. len : \E reported \in BOOLEAN :
       /\ reported => bytes = 0
       /\ send(m_peers[id].m_socket, len, bytes, reported)
       /\ IF reported
          THEN Schedule({id}, "PEER_WAS_DISCONNECTED_DUE_TO_ERROR")
          ELSE KeepTable
  /\ UNCHANGED m_listener
  /\ KeepDial /\ KeepHandles

\* destroySocket() and erase()
Delete(id) ==
  /\ id \in DOMAIN m_peers
  /\ m_peers[id].m_to_be_deleted
  /\ Destroy(m_peers[id].m_socket)
  /\ m_peers' = [k \in DOMAIN m_peers \ {id} |-> m_peers[k]]
  /\ UNCHANGED <<m_listener, m_connection_counter, errno>>
  /\ KeepDial /\ KeepHandles

-----------------------------------------------------------------------------
(***************************************************************************)
(* Calls of the application with Peers.                                    *)
(***************************************************************************)
\* disconnectPeer(h); a Peer whose connection is gone, or an invalid one,
\* changes nothing
disconnectPeer(h) ==
  /\ RecordOf(h).m_connection_id \in DOMAIN m_peers
  /\ m_peers[RecordOf(h).m_connection_id].m_valid
  /\ Schedule({RecordOf(h).m_connection_id}, "PEER_WAS_DISCONNECTED")
  /\ UNCHANGED m_listener
  /\ KeepSockets /\ KeepDial /\ KeepHandles

disconnectAll ==
  /\ Schedule(DOMAIN m_peers, "PEER_WAS_DISCONNECTED")
  /\ UNCHANGED m_listener
  /\ KeepSockets /\ KeepDial /\ KeepHandles

\* h = allPeers().at(id); the Peers passed to the callbacks are such copies
allPeers(h, id) ==
  /\ id \in DOMAIN m_peers
  /\ CopyRecord(h, m_peers[id])
  /\ KeepSockets /\ UNCHANGED nodeVars

\* h = latestPeer()
latestPeer(h) ==
  /\ CopyRecord(h, IF DOMAIN m_peers = {} THEN PeerPrivate
                   ELSE m_peers[Max(DOMAIN m_peers)])
  /\ KeepSockets /\ UNCHANGED nodeVars

UsePeers == HandleStep /\ KeepSockets /\ UNCHANGED nodeVars

NetworkStep == Network /\ KeepHandles /\ UNCHANGED nodeVars

-----------------------------------------------------------------------------
Next ==
  \/ \E port \in Ports, stuck \in SUBSET Descriptors,
        last \in Descriptors \cup {-1}, reported \in BOOLEAN :
       Listen(port, stuck, last, reported)
  \/ StopListening
  \/ setListener
  \/ \E size \in Sizes : SetBufferSize(size)
  \/ Accept
  \/ AcceptNothing
  \/ CreateSocket
  \/ Dial
  \/ DialEnd
  \/ DialFailed
  \/ DialReported
  \/ Connected
  \/ \E id \in Ids : ReceiveFrom(id)
  \/ \E id \in Ids, len \in Lengths : SendTo(id, len)
  \/ \E id \in Ids : Delete(id)
  \/ \E h \in Handles : disconnectPeer(h) \/ latestPeer(h)
  \/ disconnectAll
  \/ \E h \in Handles, id \in Ids : allPeers(h, id)
  \/ UsePeers
  \/ NetworkStep

Spec == Init /\ [][Next]_vars

(***************************************************************************)
(* The listen thread reads every connection and deletes one that is        *)
(* scheduled in each iteration.  Nothing is assumed of the network and of  *)
(* the application.                                                        *)
(***************************************************************************)
FairSpec ==
  /\ Spec
  /\ \A id \in Ids : WF_vars(ReceiveFrom(id))
  /\ WF_vars(\E id \in Ids : Delete(id))

-----------------------------------------------------------------------------
SocketRecord ==
  [m_socket_fd : Descriptors \cup {-1}, m_is_listener : BOOLEAN,
   m_is_connected : BOOLEAN, m_is_listening : BOOLEAN,
   m_receive_buffer_size : Sizes \cup {DefaultSize}, m_last_errno : {0, 1}]

PeerRecord ==
  [m_connection_id : Ids \cup {0},
   m_ip_address : {"", "known"},
   m_valid : BOOLEAN, m_to_be_deleted : BOOLEAN,
   m_disconn : DisconnectType, m_socket : Objects \cup {nullptr}]

\* Every member has its type.
TypeOK ==
  /\ objects \subseteq Objects
  /\ sock \in [Objects -> SocketRecord]
  /\ kernel \in [Descriptors -> KernelStates]
  /\ inbox \in [Descriptors -> 0 .. MaxBytes]
  /\ blocking \subseteq Descriptors
  /\ errno \in {0, 1}
  /\ m_private \in [Handles -> Records \cup {nullptr}]
  /\ allocated \subseteq Records
  /\ heap \in [Records -> PeerRecord]
  /\ m_listener \in Objects
  /\ new_peer \in Objects \cup {nullptr}
  /\ dial \in {"off", "created", "waiting", "failed", "reporting", "done"}
  /\ DOMAIN m_peers \subseteq Ids
  /\ \A id \in DOMAIN m_peers : m_peers[id] \in PeerRecord
  /\ m_connection_counter \in Ids \cup {0}

TableSockets == {m_peers[id].m_socket : id \in DOMAIN m_peers}

\* Every Socket that has a descriptor has an open one, of its own, and every
\* open descriptor belongs to a Socket: none is closed twice or, after it was
\* handed out again, closed or read by the one that had it before, and none is
\* leaked, but by listen() when setNonBlocking() fails, and then it is a
\* listening one and stays so.
DescriptorsOwned ==
  /\ \A o \in objects : fd(o) # -1 => kernel[fd(o)] # "closed"
  /\ \A o, p \in objects : fd(o) = fd(p) /\ fd(o) # -1 => o = p
  /\ \A d \in Descriptors :
       kernel[d] # "closed" => d \in blocking \/ \E o \in objects : fd(o) = d
  /\ \A d \in blocking : kernel[d] = "listening"

\* Every Socket has one owner: the node (its listener), the connect thread
\* (the one it dials) or one connection.  None is leaked by an error path and
\* none is used after it was deleted.
SocketsOwned ==
  /\ objects = {m_listener} \cup ({new_peer} \ {nullptr}) \cup TableSockets
  /\ m_listener \notin {new_peer} \cup TableSockets
  /\ new_peer \notin TableSockets
  /\ \A j, k \in DOMAIN m_peers :
       m_peers[j].m_socket = m_peers[k].m_socket => j = k

\* The flags say what the descriptor is: a Socket says it listens if and only
\* if it has a non-blocking listening descriptor; only the listener ever has a
\* listening one, the blocking one a failed listen() leaves it included; a
\* connection in the table is connected unless it is scheduled for deletion;
\* and any other Socket is closed, but for the one that is being dialled.
FlagsAgree ==
  \A o \in objects :
    LET s == sock[o]
        listening == fd(o) # -1 /\ kernel[fd(o)] = "listening"
    IN  /\ s.m_is_listener = s.m_is_listening
        /\ s.m_is_listener <=> listening /\ fd(o) \notin blocking
        /\ listening => o = m_listener
        /\ s.m_is_connected => fd(o) # -1 /\ o # m_listener
        /\ o = new_peer /\ dial = "waiting" => fd(o) # -1
        /\ fd(o) # -1 =>
             \/ listening
             \/ s.m_is_connected
             \/ o = new_peer /\ dial = "waiting"
        /\ \A id \in DOMAIN m_peers :
             o = m_peers[id].m_socket =>
               s.m_is_connected \/ m_peers[id].m_to_be_deleted

\* Every PeerPrivate on the heap belongs to exactly one Peer: copies, moves
\* and self-assignment neither leak a record nor share one.
RecordsOwned ==
  /\ allocated = {m_private[h] : h \in Handles} \ {nullptr}
  /\ \A g, h \in Handles : m_private[g] = m_private[h] =>
       g = h \/ m_private[g] = nullptr

\* A Peer names the connection it was obtained for and no later one, however
\* often it was copied and whatever became of the connection.
PeersNameConnections ==
  \A h \in Handles :
    LET r == RecordOf(h)
    IN  r.m_connection_id # 0 =>
          /\ r.m_valid
          /\ r.m_connection_id <= m_connection_counter
          /\ r.m_connection_id \in DOMAIN m_peers =>
               /\ m_peers[r.m_connection_id].m_socket = r.m_socket
               /\ m_peers[r.m_connection_id].m_ip_address = r.m_ip_address
          /\ \A g \in Handles :
               RecordOf(g).m_connection_id = r.m_connection_id => Equal(g, h)

\* A request is not dialled again: whichever of its system calls fails, and
\* whatever errno the thread had before, the close() of a connect() that fails
\* leaves an errno, so the loop around it (547-560) ends after one attempt,
\* however much of m_connect_timeout is left.
NeverRedialled == [][dial = "failed" => dial' # "created"]_vars

Table ==
  INSTANCE ConnectionTable WITH
    TableIds <- Ids,
    Reasons <- DisconnectType,
    UserReason <- "PEER_WAS_DISCONNECTED",
    state <- [id \in Ids |->
                CASE id > m_connection_counter -> "absent"
                  [] id \in DOMAIN m_peers ->
                       IF m_peers[id].m_to_be_deleted
                       THEN m_peers[id].m_disconn ELSE "live"
                  [] OTHER -> "gone"]

\* The connections implement ConnectionTable.
ImplementsTable == Table!TableSpec

\* A connection that the other side has ended or reset leaves the table,
\* however much data is still to be read and whoever is told of the error.
LostConnectionsRemoved ==
  \A id \in Ids :
    (id \in DOMAIN m_peers /\ fd(m_peers[id].m_socket) # -1
       /\ kernel[fd(m_peers[id].m_socket)] \in {"ended", "broken"})
      ~> id \notin DOMAIN m_peers

(***************************************************************************)
(* What a comment promises and the code does not keep.                     *)
(***************************************************************************)
\* onConnect(): "called when this TcpNode successfully established a
\* connection to a remote peer".
ConnectedIsEstablished ==
  \A id \in DOMAIN m_peers :
    fd(m_peers[id].m_socket) # -1 =>
      kernel[fd(m_peers[id].m_socket)] # "connecting"

=============================================================================
