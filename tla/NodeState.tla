------------------------------ MODULE NodeState ------------------------------
(***************************************************************************)
(* The state of one TcpNodePrivate object and the operations on it that    *)
(* its threads share: the two mutexes, the three condition variables, the  *)
(* peer table and the PeerPrivate records in it.                           *)
(*                                                                         *)
(* A node has three background threads (Workers) and is used by            *)
(* application threads (Callers).  Every thread has a program counter; a   *)
(* step of a thread runs from one point at which another thread can        *)
(* interfere to the next: taking a mutex, touching an atomic that is       *)
(* written without a mutex, blocking on or notifying a condition variable, *)
(* and running a callback of the application.                              *)
(***************************************************************************)
EXTENDS ISocket, Sequences, FiniteSets

CONSTANTS
  Callers,         \* application threads that call the node's functions
  MaxConnections,  \* bound on the connections the network ever establishes
  MaxTries,        \* connect attempts that use up m_connect_timeout
  CountModulus,    \* 2^w for the w-bit to_send_count (256 in the code)
  Ports,           \* ports the application listens at
  Lengths,         \* sizes of the buffers the application sends
  Callbacks0,      \* the callbacks set before the node is first used
  MaxCalls         \* bound on the calls the application makes, per function

\* std::function members of TcpNodePrivate (the m_callback prefix is dropped)
CallbackNames ==
  {"NewPeerConnected", "ConnectedToNewPeer", "Received", "Sent",
   "PeerDisconnected", "ClosedConnection", "FaultyConnectionClosed",
   "StartedListening", "StoppedListening", "ListenError", "SendError",
   "ConnectError"}

\* The calls of the application that change state.  The twelve setters
\* onAccept() ... onStoppedListening() are onCallback and clearCallback.
ApiFunctions ==
  {"connectTo", "sendData", "doListen", "stopListening", "disconnectPeer",
   "disconnectAll", "setListener", "onCallback", "clearCallback",
   "destructor"}

Workers == {"connect", "send", "listen"}

ASSUME ConstantsAssumption ==
  /\ Callers \cap (Workers \cup {"none"}) = {}
  /\ MaxConnections \in Nat
  /\ MaxTries \in Nat \ {0}
  /\ CountModulus \in Nat \ {0}
  /\ Ports \subseteq Nat
  /\ Lengths \subseteq Nat
  /\ Callbacks0 \subseteq CallbackNames
  /\ MaxCalls \in [ApiFunctions -> Nat]

Threads == Workers \cup Callers
Ids == 1 .. MaxConnections

VARIABLES
  \* where each thread is
  pc,
  \* mutexes: the thread that owns each, or "none"
  m_data_access, m_callback_access,
  \* the peer table: ids in the map, the ids whose record is scheduled for
  \* deletion and why, and the ISocket of each id
  m_peers, m_to_be_deleted, m_disconn, m_socket, m_connection_counter,
  \* the port of the listening socket (0 when it is closed: listen() refuses
  \* port 0) and the flags around it
  m_listener, m_listener_available,
  m_portnumber, m_listening_enabled, m_wakeup_listen_thread,
  m_changing_listener,
  \* life cycle: m_*_thread_running, how often a thread was created for each
  \* worker, and a std::terminate() of the process
  m_thread_running, m_destructor_called, starts, terminated,
  \* connect thread: queue, locals, and how often each request was dialled
  m_potential_peers, queue_length, i, tries, new_peer, dialled,
  \* send thread: queue, and what became of each buffer
  m_data_to_send, outcome,
  \* listen thread: the peers the receive loop still has to visit, and the
  \* peer whose callback is being prepared or run
  todo, current,
  \* the callbacks the application set and the calls it made
  m_callbacks, calls

locks == <<m_data_access, m_callback_access>>
peerVars ==
  <<m_peers, m_to_be_deleted, m_disconn, m_socket, m_connection_counter>>
listenerVars == <<m_listener, m_listener_available>>
flagVars ==
  <<m_portnumber, m_listening_enabled, m_wakeup_listen_thread,
    m_changing_listener>>
lifeVars == <<m_thread_running, m_destructor_called, starts>>
connectLocals == <<queue_length, i, tries, new_peer>>
connectVars == <<m_potential_peers, connectLocals, dialled>>
sendVars == <<m_data_to_send, outcome>>
listenLocals == <<todo, current>>
callerVars == <<m_callbacks, calls>>

vars ==
  <<pc, locks, peerVars, listenerVars, flagVars, lifeVars, terminated,
    connectVars, sendVars, listenLocals, callerVars>>

-----------------------------------------------------------------------------
(***************************************************************************)
(* std::unique_lock on m_data_access and m_callback_access.  A step that   *)
(* takes and releases a mutex with nothing in between that another thread  *)
(* could observe only requires the mutex to be free (DataFree, CbFree).    *)
(***************************************************************************)
DataFree == m_data_access = "none"
CbFree == m_callback_access = "none"

LockData(t) == DataFree /\ m_data_access' = t
UnlockData == m_data_access' = "none"
KeepData == UNCHANGED m_data_access
KeepCb == UNCHANGED m_callback_access
KeepLocks == UNCHANGED locks

Go(t, label) == pc' = [pc EXCEPT ![t] = label]

(***************************************************************************)
(* std::condition_variable.  notify_one() wakes a worker only if it is     *)
(* already blocked.  wait(lck, pred) tests pred with the mutex held        *)
(* ("pause"), and when pred is false blocks and releases the mutex         *)
(* ("block"): a notification sent between the two by a thread that does    *)
(* not hold the mutex finds nobody waiting.                                *)
(***************************************************************************)
Woken(w) == IF pc[w] = "waiting" THEN "pause" ELSE pc[w]

GoAndNotify(t, label, w) == pc' = [pc EXCEPT ![w] = Woken(w), ![t] = label]

PauseTest(w, pred, after) ==
  /\ pc[w] = "pause"
  /\ DataFree
  /\ \/ pred /\ Go(w, after) /\ KeepData
     \/ ~pred /\ Go(w, "block") /\ m_data_access' = w
  /\ KeepCb

\* mutant: the thread blocks and keeps the mutex
PauseBlock_locked(w) ==
  /\ pc[w] = "block"
  /\ Go(w, "waiting")
  /\ KeepLocks

PauseBlock(w) ==
  /\ pc[w] = "block"
  /\ Go(w, "waiting")
  /\ UnlockData
  /\ KeepCb

(***************************************************************************)
(* Calling a callback that was found to be set, after m_callback_access    *)
(* was released for the call: a std::function that was reset in between    *)
(* throws std::bad_function_call, which no thread function catches.        *)
(***************************************************************************)
CallAndReturn(callback) ==
  /\ CbFree
  /\ terminated' = (callback \notin m_callbacks)

(***************************************************************************)
(* The peer table.  An entry is created with its id and its socket, and    *)
(* valid; scheduleDelete() marks it, destroySocket() and erase() end it.   *)
(***************************************************************************)
NewPeer(id) ==
  /\ id = m_connection_counter + 1
  /\ id \in Ids
  /\ m_connection_counter' = id
  /\ m_peers' = m_peers \cup {id}
  /\ m_socket' = [m_socket EXCEPT ![id] = "connected"]
  /\ UNCHANGED <<m_to_be_deleted, m_disconn>>

_peerExists(id) == id \in m_peers

scheduleDelete(ids, type) ==
  /\ m_to_be_deleted' = m_to_be_deleted \cup ids
  /\ m_disconn' = [id \in Ids |-> IF id \in ids THEN type ELSE m_disconn[id]]
  /\ UNCHANGED <<m_peers, m_connection_counter>>

\* A record goes with its entry; ~PeerPrivate() does not touch its socket
erase(id) ==
  /\ m_peers' = m_peers \ {id}
  /\ UNCHANGED <<m_socket, m_to_be_deleted, m_disconn, m_connection_counter>>

\* mutant: the record is erased but its socket is neither closed nor deleted
erase_without_destroySocket(id) == erase(id)

destroySocketAndErase(id) ==
  /\ m_socket' = [m_socket EXCEPT ![id] = "deleted"]
  /\ m_peers' = m_peers \ {id}
  /\ UNCHANGED <<m_to_be_deleted, m_disconn, m_connection_counter>>

=============================================================================
