------------------------------- MODULE TcpNode --------------------------------
(***************************************************************************)
(* One TCP node: its three worker threads, the application threads that    *)
(* call it, and the properties that make it correct.                       *)
(***************************************************************************)
EXTENDS ConnectThread, SendThread, ListenThread, NodeApi

Init ==
  /\ pc = [t \in Threads |-> IF t \in Workers THEN "off" ELSE "idle"]
  /\ m_data_access = "none"
  /\ m_callback_access = "none"
  /\ m_peers = {}
  /\ m_to_be_deleted = {}
  /\ m_disconn = [id \in Ids |-> "PEER_DISCONNECTED_THEMSELF"]
  /\ m_socket = [id \in Ids |-> "none"]
  /\ m_connection_counter = 0
  /\ m_listener = 0
  /\ m_listener_available = FALSE
  /\ m_portnumber = 0
  /\ m_listening_enabled = FALSE
  /\ m_wakeup_listen_thread = FALSE
  /\ m_changing_listener = FALSE
  /\ m_thread_running = [w \in Workers |-> FALSE]
  /\ m_destructor_called = FALSE
  /\ starts = [w \in Workers |-> 0]
  /\ terminated = FALSE
  /\ m_potential_peers = <<>>
  /\ queue_length = 0
  /\ i = 0
  /\ tries = 0
  /\ new_peer = 0
  /\ dialled = <<>>
  /\ m_data_to_send = <<>>
  /\ outcome = <<>>
  /\ todo = {}
  /\ current = 0
  /\ m_callbacks = Callbacks0
  /\ calls = [f \in ApiFunctions |-> 0]

\* std::condition_variable::wait() may return without a notification
SpuriousWakeup(w) ==
  /\ pc[w] = "waiting"
  /\ Go(w, "pause")
  /\ UNCHANGED <<locks, peerVars, listenerVars, flagVars, lifeVars, terminated,
                 connectVars, sendVars, listenLocals, callerVars>>

\* std::terminate() ends every thread
Next ==
  /\ ~terminated
  /\ \/ _connectThreadJob
     \/ _sendThreadJob
     \/ _listenThreadJob
     \/ \E c \in Callers : Call(c) \/ Continue(c)
     \/ \E w \in Workers : SpuriousWakeup(w)

Spec == Init /\ [][Next]_vars

(***************************************************************************)
(* Every thread that can run is run, and a thread that waits for a mutex   *)
(* that is released again and again gets it: the workers sleep outside     *)
(* their locks in every iteration (503, 552, 674).  The application need   *)
(* not call anything, and nothing makes a wait return spuriously.          *)
(***************************************************************************)
Fairness ==
  /\ SF_vars(~terminated /\ _connectThreadJob)
  /\ SF_vars(~terminated /\ _sendThreadJob)
  /\ SF_vars(~terminated /\ _listenThreadJob)
  /\ \A c \in Callers : SF_vars(~terminated /\ Continue(c))

FairSpec == Spec /\ Fairness

-----------------------------------------------------------------------------
(***************************************************************************)
(* Type correctness.                                                       *)
(***************************************************************************)
ConnectLabels ==
  {"off", "while", "size", "pause", "block", "waiting", "front", "connect",
   "connected", "pop", "done"}
SendLabels ==
  {"off", "while", "lock", "pause", "block", "waiting", "relock", "sent",
   "onSend", "nopeer", "onSendError", "done"}
ListenLabels ==
  {"off", "while", "flags", "flags2", "open", "opened", "onStartedListening",
   "openFailed", "onListenError", "close", "closed", "onStoppedListening",
   "clear", "pause", "block", "waiting", "destructor", "accept", "accepted",
   "onAccept", "acceptFailed", "onAcceptError", "receive", "onReceive",
   "deleted", "onDisconnect", "done"}
CallerLabels ==
  {"idle", "connectTo", "start", "start_set", "start_thread", "doListen",
   "doListen_notify", "stopListening", "stopListening_notify", "sendData",
   "sendData_error", "~connect", "~connect_notify", "~connect_join", "~send",
   "~send_notify", "~send_join", "~listen", "~listen_notify", "~listen_join",
   "~end", "~members", "destroyed"}

AllLabels == ConnectLabels \cup SendLabels \cup ListenLabels \cup CallerLabels

Labels(t) ==
  CASE t = "connect" -> ConnectLabels
    [] t = "send" -> SendLabels
    [] t = "listen" -> ListenLabels
    [] OTHER -> CallerLabels

PcOK ==
  /\ pc \in [Threads -> AllLabels]
  /\ \A t \in Threads : pc[t] \in Labels(t)

LifeOK ==
  /\ m_data_access \in Threads \cup {"none"}
  /\ m_callback_access \in {"none", "listen"}
  /\ m_thread_running \in [Workers -> BOOLEAN]
  /\ m_destructor_called \in BOOLEAN
  /\ starts \in [Workers -> Nat]
  /\ terminated \in BOOLEAN

PeersOK ==
  /\ m_peers \subseteq Ids
  /\ m_to_be_deleted \subseteq Ids
  /\ m_disconn \in [Ids -> DisconnectType]
  /\ m_socket \in [Ids -> {"none", "connected", "closed", "deleted"}]
  /\ m_connection_counter \in 0 .. MaxConnections

ListenerOK ==
  /\ m_listener \in Ports \cup {0}
  /\ m_portnumber \in Ports \cup {0}
  /\ m_listener_available \in BOOLEAN
  /\ m_listening_enabled \in BOOLEAN
  /\ m_wakeup_listen_thread \in BOOLEAN
  /\ m_changing_listener \in BOOLEAN

LocalsOK ==
  /\ queue_length \in Nat
  /\ i \in Nat
  /\ tries \in 0 .. MaxTries
  /\ new_peer \in Ids \cup {0}
  /\ todo \subseteq Ids
  /\ current \in Ids \cup {0}

Outcomes == {"queued", "sent", "partial", "failed", "dropped", "nopeer"}
Buffers == [buf : 1 .. Len(outcome), peer : Ids, len : Lengths]

QueuesOK ==
  /\ dialled \in Seq(Nat)
  /\ m_potential_peers \in Seq(1 .. Len(dialled))
  /\ outcome \in Seq(Outcomes)
  /\ m_data_to_send \in Seq(Buffers)

ApplicationOK ==
  /\ m_callbacks \subseteq CallbackNames
  /\ calls \in [ApiFunctions -> Nat]

\* Every variable has the type the code declares for it, every index and id
\* is in range, and every thread is at a point of its own code.
TypeOK ==
  /\ PcOK /\ LifeOK
  /\ PeersOK /\ ListenerOK /\ QueuesOK
  /\ LocalsOK /\ ApplicationOK

(***************************************************************************)
(* The mutexes.                                                            *)
(***************************************************************************)
\* The labels at which a thread owns m_data_access
DataLabels(t) ==
  CASE t = "connect" -> {"block"}
    [] t = "send" -> {"block", "sent", "onSend", "nopeer", "onSendError"}
    [] t = "listen" ->
         {"block", "opened", "onStartedListening", "openFailed",
          "onListenError", "closed", "accepted", "onAccept", "acceptFailed",
          "onAcceptError", "receive", "onReceive", "deleted", "onDisconnect"}
    [] OTHER -> {"doListen", "sendData_error"}

\* m_data_access protects every section it is meant to protect: a thread is
\* inside one exactly when it owns the mutex, so no two threads ever are, and
\* no path leaves one without unlocking.  m_callback_access stays owned across
\* steps only while onStoppedListening() runs.
LocksProtect ==
  /\ \A t \in Threads : m_data_access = t <=> pc[t] \in DataLabels(t)
  /\ m_callback_access = "listen" <=> pc["listen"] = "onStoppedListening"

(***************************************************************************)
(* The peer table.                                                         *)
(***************************************************************************)
\* The node's members exist: its destructor has not come to its end
Living == \A c \in Callers : pc[c] \notin {"~members", "destroyed"}

\* As long as the node lives, a peer in m_peers has a socket that exists, and
\* every socket that was not deleted is owned by a peer in m_peers:
\* destroySocket() and erase() neither leak a socket nor leave a dangling one.
\* (The sockets of the peers that are left when m_peers itself is destroyed are
\* not closed: see destructor_members.)
PeersOwnSockets ==
  Living =>
    \A id \in Ids :
      id \in m_peers <=> m_socket[id] \in {"connected", "closed"}

\* The iterators into m_peers that outlive a wait for m_callback_access or a
\* callback stay valid: the send thread's itpeer (627-654) and the listen
\* thread's loop variable (395-461).
IteratorsValid ==
  /\ pc["send"] \in {"sent", "onSend"} => curr_out_buffer.peer \in m_peers
  /\ pc["listen"] \in {"receive", "onReceive"} => todo \subseteq m_peers
  /\ pc["listen"] \in {"accepted", "onAccept", "onReceive"} =>
       current \in m_peers

\* m_peers neither gets nor loses an entry while a loop or an iterator is in the
\* middle of it: an insertion may rehash the table under the receive loop
\* (395-461), across its onReceive() calls, or under itpeer (627-654).
TableFixedWhileIterated ==
  [][(\/ pc["listen"] = "receive" /\ todo # {}
      \/ pc["listen"] = "onReceive"
      \/ pc["send"] \in {"sent", "onSend"}) => UNCHANGED m_peers]_vars

\* send() is only called on a socket that receive() has not closed: a closed
\* socket belongs to a peer that is already scheduled for deletion.
ClosedSocketsScheduled ==
  \A id \in m_peers : m_socket[id] = "closed" => id \in m_to_be_deleted

Table ==
  INSTANCE ConnectionTable WITH
    TableIds <- Ids,
    Reasons <- DisconnectType,
    UserReason <- "PEER_WAS_DISCONNECTED",
    state <- [id \in Ids |->
                CASE id > m_connection_counter -> "absent"
                  [] id <= m_connection_counter /\ id \notin m_peers -> "gone"
                  [] id \in m_peers /\ id \in m_to_be_deleted -> m_disconn[id]
                  [] OTHER -> "live"]

\* The node implements ConnectionTable: ids are handed out in order and never
\* reused, a connection always ends by way of a reason, a reason is only ever
\* overridden by disconnectPeer() or disconnectAll(), and nothing happens to a
\* connection that is gone.
ImplementsTable == Table!TableSpec

(***************************************************************************)
(* The queues.                                                             *)
(***************************************************************************)
\* front() and pop_front() are never called on an empty m_potential_peers
\* (538, 539, 603), nor begin() and pop_front() on an empty m_data_to_send.
FrontExists ==
  /\ pc["connect"] \in {"front", "connect", "connected", "pop"} =>
       m_potential_peers # <<>>
  /\ pc["send"] \in {"sent", "onSend", "nopeer", "onSendError"} =>
       m_data_to_send # <<>>

\* The buffers in m_data_to_send are the latest ones passed to sendData(), in
\* the order of the calls, and exactly the ones nothing has happened to yet,
\* but for the one the send thread is busy with: no buffer is lost, sent
\* twice or overtaken.
SentInOrder ==
  LET handled == Len(outcome) - Len(m_data_to_send)
      busy == pc["send"] \in {"sent", "onSend", "nopeer", "onSendError"}
  IN  /\ \A k \in DOMAIN m_data_to_send : m_data_to_send[k].buf = handled + k
      /\ \A b \in DOMAIN outcome :
           outcome[b] = "queued" <=> b > handled + (IF busy THEN 1 ELSE 0)

\* Requests are dialled in the order of the connectTo() calls: one that was
\* dialled was not overtaken, and one that left the queue was dialled.
DialledInOrder ==
  LET handled == Len(dialled) - Len(m_potential_peers)
  IN  /\ \A k \in DOMAIN m_potential_peers : m_potential_peers[k] = handled + k
      /\ \A r \in DOMAIN dialled : /\ r <= handled => dialled[r] > 0
                                   /\ r > handled + 1 => dialled[r] = 0

(***************************************************************************)
(* Listening.                                                              *)
(***************************************************************************)
\* As long as the node lives and no change is under way, a node that says it
\* listens listens at the port that was asked for last, and not at an earlier
\* one.
ListensAtLastPort ==
  (/\ DataFree
   /\ Living
   /\ m_listening_enabled /\ m_listener_available
   /\ ~m_changing_listener) => m_listener = m_portnumber

(***************************************************************************)
(* Life cycle.                                                             *)
(***************************************************************************)
\* When the destructor comes to the members, every thread that was ever started
\* has been joined: none of them can touch a member that is gone.
JoinedWhenDestroyed ==
  ~Living => \A w \in Workers : pc[w] \in {"off", "done"}

\* However many application threads call connectTo() and sendData() at the same
\* time, the connect thread and the send thread are created at most once: the
\* flag is tested and set and the thread created in one section of
\* m_data_access (241-246, 256-265).  Nothing is said of the listen thread,
\* for which it is not so: see ListenThreadStartedOnce.
StartedOnce == \A w \in {"connect", "send"} : starts[w] <= 1

\* There are two ways only for the node to end the process: a callback is
\* called that the application reset after it was found to be set, or a second
\* listen thread is assigned to m_listenThread.
NeverTerminates ==
  terminated => calls["clearCallback"] > 0 \/ starts["listen"] > 1

(***************************************************************************)
(* Liveness.                                                               *)
(***************************************************************************)
\* A peer that is scheduled for deletion is removed, whoever scheduled it.
ScheduledPeersRemoved ==
  \A id \in Ids : id \in m_peers \cap m_to_be_deleted ~> id \notin m_peers

\* Something happens to every buffer that is queued.
QueuedDataHandled ==
  \A b \in 1 .. MaxCalls["sendData"] :
    (b \in DOMAIN outcome /\ outcome[b] = "queued")
      ~> (b \in DOMAIN outcome /\ outcome[b] # "queued")

\* Every request is dialled.
EveryRequestDialled ==
  \A r \in 1 .. MaxCalls["connectTo"] :
    r \in DOMAIN dialled ~> (r \in DOMAIN dialled /\ dialled[r] > 0)

\* After stopListening() the listening socket is closed, unless the
\* application asks to listen again.
StopClosesListener ==
  (~m_listening_enabled /\ m_listener_available)
    ~> (m_listener = 0 \/ m_listening_enabled)

(***************************************************************************)
(* What the comments of the code promise and the code does not keep; each  *)
(* is refuted by a run of its own.                                         *)
(***************************************************************************)
\* _connectThreadJob() "tries to connect to all the remotes in the queue and
\* calls onConnect() for each": each request is dialled once.
EachDialledOnce == \A r \in DOMAIN dialled : dialled[r] <= 1

\* _pauseUntilQueueNotEmpty(): "The pause will also end if constructor_called
\* is true" (m_destructor_called).
PauseEndsForDestructor ==
  (m_destructor_called /\ pc["connect"] = "waiting")
    ~> pc["connect"] # "waiting"

\* doListen(): "Enable listening for remote peers. This will open a listen
\* socket", or listening is disabled again because that failed.
ListeningOpens ==
  m_listening_enabled ~> (m_listener # 0 \/ ~m_listening_enabled)

\* _startListenThreadIfNotRunning() "checks whether listenThread is running. If
\* not, it will start it": it is not started over a running one.
ListenThreadStartedOnce == starts["listen"] <= 1

\* _sendThreadJob() "calls onSend() for each one if successful": once bytes
\* were sent, the thread gets to the callback.
SentIsCalledBack == pc["send"] = "sent" ~> pc["send"] # "sent"

=============================================================================
