--------------------------- MODULE LifeCycleProofs ----------------------------
(***************************************************************************)
(* Listening and the life cycle of a node, for any number of calls and     *)
(* connections: the port a node listens at, the destructor that joins the  *)
(* threads, and what could end the process.                                *)
(***************************************************************************)
EXTENDS TcpNodeProofs

USE DEF Workers, Threads, Ids, locks, peerVars, listenerVars, flagVars,
        lifeVars, connectLocals, connectVars, sendVars, listenLocals,
        callerVars, ListenMoves, SendMoves, OnlyMoves, ListenResults

-----------------------------------------------------------------------------
(***************************************************************************)
(* The port.  While onStartedListening() is prepared and run, the listener *)
(* is at the port; the flag m_changing_listener is set before doListen()   *)
(* or setListener() let go of m_data_access; a failure is still to be      *)
(* reported while the thread is at openFailed.                             *)
(***************************************************************************)
OpenedAtPort ==
  pc["listen"] \in {"opened", "onStartedListening"} => m_listener = m_portnumber

PortSettled ==
  (/\ \A c \in Callers : pc[c] \notin {"~members", "destroyed", "doListen"}
   /\ pc["listen"] \notin {"openFailed", "onListenError"}
   /\ m_listening_enabled /\ m_listener_available
   /\ ~m_changing_listener) => m_listener = m_portnumber

PortInv == OpenedAtPort /\ PortSettled

\* Where nobody asks for a port and nothing fails, a step that leaves the
\* listener and its flags alone keeps the port settled.
LEMMA PortKept ==
  ASSUME PortInv, NEW t \in Threads, t # "listen", LockStep(t),
         UNCHANGED <<m_listener, m_listener_available, m_portnumber,
                     m_listening_enabled, m_changing_listener>>,
         t \in Callers =>
           (pc'[t] \in {"~members", "destroyed", "doListen"}
             <=> pc[t] \in {"~members", "destroyed", "doListen"})
  PROVE  PortInv'
<1>1. \A c \in Callers : pc'[c] \in {"~members", "destroyed", "doListen"}
                           <=> pc[c] \in {"~members", "destroyed", "doListen"}
  BY DEF LockStep
<1>2. pc'["listen"] = pc["listen"] \/ pc'["listen"] \in {"pause", "while"}
  BY DEF LockStep
<1>3. pc'["listen"] \in {"opened", "onStartedListening"} =>
        pc["listen"] \in {"opened", "onStartedListening"}
  BY <1>2
<1>4. pc["listen"] \in {"openFailed", "onListenError"} =>
        pc'["listen"] \in {"openFailed", "onListenError"}
  BY DEF LockStep
<1> QED
  BY <1>1, <1>3, <1>4 DEF PortInv, OpenedAtPort, PortSettled

\* A step of the listen thread keeps the port settled.
LEMMA ListenKeepsPort ==
  ASSUME InvParts, PortInv, _listenThreadJob
  PROVE  PortInv'
<1> USE DEF PortInv, OpenedAtPort, PortSettled
<1>1. PcOK
  BY DEF InvParts, TypeOK
<1>2. \A c \in Callers : pc'[c] = pc[c] \/ pc[c] = "waiting"
  BY <1>1, ListenWakes, CallersDistinct DEF InvParts, TypeOK, OnlyWakes
<1>3. \A c \in Callers : pc'[c] = pc[c]
  BY <1>1, <1>2, LabelsOf DEF PcOK, CallerLabels
<1>4. CASE ListenOpened
  BY <1>4 DEF ListenOpened
<1>5. CASE ListenOpenFailed
  BY <1>1, <1>5 DEF ListenOpenFailed, Go, PcOK
<1>6. CASE ListenOpenedCallback
  BY <1>1, <1>3, <1>6 DEF ListenOpenedCallback, ListenCallbackFound,
     ListenCallbackDone, Go, PcOK, OnlyPc
<1>7. CASE ListenOpenFailedCallback
  BY <1>1, <1>3, <1>7 DEF ListenOpenFailedCallback, ListenCallbackFound,
     ListenCallbackDone, Go, PcOK, OnlyPc
<1>8. CASE ListenClose
  BY <1>1, <1>8 DEF ListenClose, Go, PcOK
<1>9. CASE /\ ~ListenOpened /\ ~ListenOpenFailed /\ ~ListenOpenedCallback
           /\ ~ListenOpenFailedCallback /\ ~ListenClose
  <2>1. UNCHANGED <<m_listener, m_listener_available, m_portnumber,
                    m_listening_enabled, m_changing_listener>>
    BY <1>9 DEF _listenThreadJob, ListenWhile, ListenFlags, ListenFlags2,
       ListenClosedCallback, ListenClear, _pauseUntilPeersOrListenerAvailable,
       ListenDestructor, ListenNoAccept, ListenAccepted, ListenAcceptFailed,
       ListenAcceptedCallback, ListenAcceptFailedCallback, ListenReceived,
       ListenNothingReceived, ListenReceiveFailed, ListenNoDelete,
       ListenDelete, ListenDeletedCallback, OnlyPc, ListenCallbackFound,
       ListenAcceptCallback
  <2>2. pc["listen"] \notin {"openFailed", "onListenError"}
    BY <1>1, <1>9 DEF _listenThreadJob, ListenWhile, ListenFlags, ListenFlags2,
       ListenClosedCallback, ListenClear, _pauseUntilPeersOrListenerAvailable,
       ListenDestructor, ListenNoAccept, ListenAccepted, ListenAcceptFailed,
       ListenAcceptedCallback, ListenAcceptFailedCallback, ListenReceived,
       ListenNothingReceived, ListenReceiveFailed, ListenNoDelete,
       ListenDelete, ListenDeletedCallback, ListenCallbackFound,
       ListenCallbackDone, ListenAcceptCallback, ListenReceiveDone, PauseTest,
       PauseBlock
  <2>3. pc'["listen"] \notin {"opened", "onStartedListening"}
    BY <1>1, <1>9 DEF _listenThreadJob, ListenWhile, ListenFlags, ListenFlags2,
       ListenClosedCallback, ListenClear, _pauseUntilPeersOrListenerAvailable,
       ListenDestructor, ListenNoAccept, ListenAccepted, ListenAcceptFailed,
       ListenAcceptedCallback, ListenAcceptFailedCallback, ListenReceived,
       ListenNothingReceived, ListenReceiveFailed, ListenNoDelete,
       ListenDelete, ListenDeletedCallback, ListenCallbackFound,
       ListenCallbackDone, ListenAcceptCallback, ListenReceiveDone, PauseTest,
       PauseBlock, StartReceiving, Go, PcOK
  <2> QED
    BY <1>3, <2>1, <2>2, <2>3
<1> QED
  BY <1>4, <1>5, <1>6, <1>7, <1>8, <1>9

\* The start of a call keeps the port settled: doListen() stays in its section
\* until it has asked for a change.
LEMMA CallKeepsPort ==
  ASSUME InvParts, PortInv, NEW c \in Callers, Call(c)
  PROVE  PortInv'
<1>1. PcOK /\ LockStep(c) /\ c # "listen"
  BY CallLockStep, CallersDistinct DEF InvParts, TypeOK
<1>2. pc[c] = "idle"
  BY CallFrame DEF Calls
<1>3. DataFree => pc["listen"] \notin {"opened", "onStartedListening"}
  BY CallersDistinct, DataLabelsOf DEF InvParts, DataProtects, DataFree
<1>4. pc'["listen"] \in {"opened", "onStartedListening"} =>
        pc["listen"] \in {"opened", "onStartedListening"}
  BY <1>1 DEF LockStep
<1>5. ASSUME NEW port \in Ports, doListen(c, port) PROVE PortInv'
  <2>1. DataFree /\ pc'[c] = "doListen"
    BY <1>1, <1>5 DEF doListen, LockData, Go, PcOK
  <2> QED
    BY <1>3, <1>4, <2>1 DEF PortInv, OpenedAtPort, PortSettled
<1>6. CASE setListener(c)
  BY <1>3, <1>4, <1>6 DEF setListener, PortInv, OpenedAtPort, PortSettled
<1>7. CASE stopListening(c)
  BY <1>4, <1>7 DEF stopListening, PortInv, OpenedAtPort, PortSettled
<1>8. CASE /\ ~(\E port \in Ports : doListen(c, port))
           /\ ~setListener(c) /\ ~stopListening(c)
  <2>1. UNCHANGED <<m_listener, m_listener_available, m_portnumber,
                    m_listening_enabled, m_changing_listener>>
    BY <1>8 DEF Call, connectTo, sendData, sendData_unknown, disconnectPeer,
       disconnectAll, onCallback, destructor, NoFlags
  <2>2. pc'[c] \notin {"~members", "destroyed", "doListen"}
    BY <1>1, <1>2, <1>8, CallersDistinct DEF Call, connectTo, sendData,
       sendData_unknown, disconnectPeer, disconnectAll, onCallback, destructor,
       Go, PcOK
  <2> QED
    BY <1>1, <1>2, <2>1, <2>2, PortKept
<1> QED
  BY <1>5, <1>6, <1>7, <1>8 DEF Call

\* So do the later steps of a call.
LEMMA ContinueKeepsPort ==
  ASSUME InvParts, PortInv, NEW c \in Callers, Continue(c)
  PROVE  PortInv'
<1>1. PcOK /\ LockStep(c) /\ c # "listen"
  BY ContinueLockStep, CallersDistinct DEF InvParts, TypeOK
<1>2. pc'["listen"] \in {"opened", "onStartedListening"} =>
        pc["listen"] \in {"opened", "onStartedListening"}
  BY <1>1 DEF LockStep
<1>3. CASE doListen_changing(c)
  BY <1>2, <1>3 DEF doListen_changing, PortInv, OpenedAtPort, PortSettled
<1>4. CASE destructor_end(c)
  <2>1. pc'[c] = "~members"
    BY <1>1, <1>4 DEF destructor_end, Go, PcOK
  <2>2. pc["listen"] \notin {"opened", "onStartedListening"}
    BY <1>4, CallersDistinct, DataLabelsOf
       DEF destructor_end, InvParts, DataProtects, DataFree
  <2> QED
    BY <1>2, <2>1, <2>2 DEF PortInv, OpenedAtPort, PortSettled
<1>6. CASE destructor_members(c)
  <2>1. /\ pc[c] = "~members" /\ pc'[c] \in {"~members", "destroyed"}
        /\ UNCHANGED <<m_listener, m_listener_available, m_portnumber,
                       m_listening_enabled, m_changing_listener>>
    BY <1>1, <1>6 DEF destructor_members, Go, PcOK, NoFlags
  <2> QED
    BY <1>1, <2>1, PortKept
<1>5. CASE ~doListen_changing(c) /\ ~destructor_end(c) /\ ~destructor_members(c)
  <2>1. UNCHANGED <<m_listener, m_listener_available, m_portnumber,
                    m_listening_enabled, m_changing_listener>>
    BY <1>5 DEF Continue, connectTo_notify, doListen_notify,
       _startListenThreadIfNotRunning, stopListening_wakeup,
       stopListening_notify, sendData_notify, sendData_error, _destructor,
       NoFlags, destructor_stop, destructor_notify, destructor_join
  <2>2. /\ pc[c] \notin {"~members", "destroyed", "doListen"}
        /\ pc'[c] \notin {"~members", "destroyed", "doListen"}
    BY <1>1, <1>5, CallersDistinct DEF Continue, connectTo_notify,
       doListen_notify, _startListenThreadIfNotRunning, stopListening_wakeup,
       stopListening_notify, sendData_notify, sendData_error, _destructor,
       destructor_stop, destructor_notify, destructor_join, Go, GoAndNotify,
       PcOK, Stopping, Notifying, Joining, After
  <2> QED
    BY <1>1, <2>1, <2>2, PortKept
<1> QED
  BY <1>3, <1>4, <1>5, <1>6

\* Every step keeps the port settled.
LEMMA NextKeepsPort == InvParts /\ PortInv /\ [Next]_vars => PortInv'
<1> SUFFICES ASSUME InvParts, PortInv, [Next]_vars PROVE PortInv'
  OBVIOUS
<1> USE DEF InvParts, TypeOK
<1>1. CASE _connectThreadJob
  BY <1>1, ConnectLockStep, ConnectFrame, PortKept, CallersDistinct
     DEF connectUnchanged
<1>2. CASE _sendThreadJob
  BY <1>2, SendLockStep, SendFrame, PortKept, CallersDistinct
     DEF sendUnchanged
<1>3. CASE _listenThreadJob
  BY <1>3, ListenKeepsPort
<1>4. ASSUME NEW c \in Callers, Call(c) \/ Continue(c) PROVE PortInv'
  BY <1>4, CallKeepsPort, ContinueKeepsPort
<1>5. ASSUME NEW w \in Workers, SpuriousWakeup(w) PROVE PortInv'
  BY <1>5, CallersDistinct DEF SpuriousWakeup, Go, PcOK, PortInv,
     OpenedAtPort, PortSettled
<1>6. CASE UNCHANGED vars
  BY <1>6 DEF vars, PortInv, OpenedAtPort, PortSettled
<1> QED
  BY <1>1, <1>2, <1>3, <1>4, <1>5, <1>6 DEF Next

\* As long as the node lives, it listens at the port that was asked for last,
\* however doListen(), stopListening(), setListener() and the listen thread
\* interleave, unless a change is under way.
THEOREM AlwaysListensAtLastPort == Spec => []ListensAtLastPort
<1>1. Init => PortInv
  BY DEF Init, PortInv, OpenedAtPort, PortSettled
<1>2. Inv /\ PortInv /\ [Next]_vars => PortInv'
  BY NextKeepsPort, InvIsItsParts
<1>3. Inv /\ PortInv => ListensAtLastPort
  <2> SUFFICES ASSUME InvParts, PortInv, DataFree PROVE ListensAtLastPort
    BY InvIsItsParts DEF ListensAtLastPort
  <2>1. /\ \A c \in Callers : pc[c] # "doListen"
        /\ pc["listen"] \notin {"openFailed", "onListenError"}
    BY CallersDistinct, DataLabelsOf DEF InvParts, DataProtects, DataFree
  <2> QED
    BY <2>1 DEF PortInv, PortSettled, ListensAtLastPort, Living
<1> QED
  BY <1>1, <1>2, <1>3, InvAlways, PTL DEF Spec

-----------------------------------------------------------------------------
\* When ~TcpNodePrivate() comes to the members, every worker that was ever started has
\* been joined, whatever it was doing when it was told to stop.
THEOREM AlwaysJoinedWhenDestroyed == Spec => []JoinedWhenDestroyed
<1>1. Inv => JoinedWhenDestroyed
  BY WorkerLives DEF Inv, JoinedWhenDestroyed
<1> QED
  BY <1>1, InvAlways, PTL

-----------------------------------------------------------------------------
(***************************************************************************)
(* The end of the process.  A callback that was found to be set stays set  *)
(* until it is called, unless the application resets it; and a listen      *)
(* thread that is found where another is to be started was started before, *)
(* so that this is its second start.                                       *)
(***************************************************************************)
SendCallbacksSet ==
  calls["clearCallback"] = 0 =>
    /\ pc["send"] = "onSend" => "Sent" \in m_callbacks
    /\ pc["send"] = "onSendError" => "SendError" \in m_callbacks

ListenCallbacksSet ==
  calls["clearCallback"] = 0 =>
    /\ pc["listen"] = "onStartedListening" => "StartedListening" \in m_callbacks
    /\ pc["listen"] \in {"onListenError", "onAcceptError"} =>
         "ListenError" \in m_callbacks
    /\ pc["listen"] = "onAccept" => "NewPeerConnected" \in m_callbacks
    /\ pc["listen"] = "onReceive" => "Received" \in m_callbacks
    /\ pc["listen"] = "onDisconnect" =>
         DisconnectCallback[m_disconn[current]] \in m_callbacks

\* The labels at which the send and the listen thread run a callback
OnLabels ==
  {"onSend", "onSendError", "onStartedListening", "onListenError",
   "onAcceptError", "onAccept", "onReceive", "onDisconnect"}

\* The start of a call takes no callback away without being counted.
LEMMA CallbacksKept ==
  ASSUME TypeOK, NEW c \in Callers, Call(c), calls'["clearCallback"] = 0
  PROVE  calls["clearCallback"] = 0 /\ m_callbacks \subseteq m_callbacks'
<1>1. /\ calls \in [ApiFunctions -> Nat]
      /\ \E f \in ApiFunctions : calls' = [calls EXCEPT ![f] = @ + 1]
  BY CallFrame DEF TypeOK, ApplicationOK, Calls
<1>2. calls["clearCallback"] = 0
  BY <1>1 DEF ApiFunctions
<1>3. ~Calls(c, "clearCallback")
  BY <1>1 DEF Calls, ApiFunctions
<1> QED
  BY <1>2, <1>3 DEF Call, connectTo, doListen, stopListening, sendData,
     sendData_unknown, disconnectPeer, disconnectAll, setListener, onCallback,
     destructor

\* The reason of a peer whose callback is being called does not change under
\* the listen thread, which holds m_data_access.
LEMMA ReasonKept ==
  ASSUME InvParts, pc["listen"] = "onDisconnect",
         \/ _connectThreadJob \/ _sendThreadJob
         \/ \E c \in Callers : Call(c) \/ Continue(c)
  PROVE  UNCHANGED <<m_disconn, current>>
<1>1. ~DataFree /\ PcOK
  BY DataLabelsOf, CallersDistinct DEF InvParts, TypeOK, DataProtects, DataFree
<1>2. CASE _connectThreadJob
  BY <1>2, ConnectFrame DEF connectUnchanged, ConnectSucceeded, NewPeer
<1>3. CASE _sendThreadJob
  BY <1>1, <1>3, SendFrame DEF sendUnchanged, SendFailed, Sendable, SendLocked
<1>4. ASSUME NEW c \in Callers, Call(c)
      PROVE  UNCHANGED <<m_disconn, current>>
  BY <1>1, <1>4, CallFrame DEF apiUnchanged, disconnectPeer, disconnectAll
<1>5. ASSUME NEW c \in Callers, Continue(c)
      PROVE  UNCHANGED <<m_disconn, current>>
  BY <1>1, <1>5, ContinueFrame
     DEF apiUnchanged, destructor_end, destructor_members, erase
<1> QED
  BY <1>2, <1>3, <1>4, <1>5

\* Only a callback that is not set ends the process.
LEMMA CallEnds ==
  ASSUME NEW callback, CallAndReturn(callback), callback \in m_callbacks
  PROVE  ~terminated'
  BY Zenon DEF CallAndReturn

\* What a step of the listen thread does to its callbacks: it finds the one it
\* goes to call, and calling one that is set does not end the process.
LEMMA ListenKeepsCallbacks ==
  ASSUME InvParts, ListenCallbacksSet, ~terminated, _listenThreadJob
  PROVE  ListenCallbacksSet' /\ (terminated' => calls'["clearCallback"] # 0)
<1>1. PcOK
  BY DEF InvParts, TypeOK
<1>2. UNCHANGED <<m_callbacks, calls>>
  BY ListenFrame DEF listenUnchanged
<1>3. pc["listen"] \notin OnLabels => terminated' = terminated
  BY DEF OnLabels, _listenThreadJob, ListenWhile, ListenFlags, ListenFlags2,
     ListenOpened, ListenOpenFailed, ListenOpenedCallback,
     ListenOpenFailedCallback, ListenClose, ListenClosedCallback, ListenClear,
     _pauseUntilPeersOrListenerAvailable, ListenDestructor, ListenNoAccept,
     ListenAccepted, ListenAcceptFailed, ListenAcceptedCallback,
     ListenAcceptFailedCallback, ListenReceived, ListenNothingReceived,
     ListenReceiveFailed, ListenNoDelete, ListenDelete, ListenDeletedCallback,
     ListenCallbackFound, ListenCallbackDone, ListenAcceptCallback
<1>4. CASE ListenOpenedCallback
  BY <1>1, <1>2, <1>4, CallEnds DEF ListenOpenedCallback, ListenCallbackFound,
     ListenCallbackDone, ListenCallbacksSet, Go, PcOK
<1>5. CASE ListenOpenFailedCallback
  BY <1>1, <1>2, <1>5, CallEnds
     DEF ListenOpenFailedCallback, ListenCallbackFound,
     ListenCallbackDone, ListenCallbacksSet, Go, PcOK
<1>6. CASE ListenAcceptedCallback \/ ListenAcceptFailedCallback
  BY <1>1, <1>2, <1>6, CallEnds
     DEF ListenAcceptedCallback, ListenAcceptFailedCallback,
     ListenAcceptCallback, ListenCallbackFound, ListenCallbackDone,
     ListenCallbacksSet, StartReceiving, Go, PcOK
<1>7. CASE ListenReceived
  BY <1>1, <1>2, <1>7, CallEnds DEF ListenReceived, ListenCallbacksSet,
     Go, PcOK
<1>8. CASE ListenDeletedCallback
  BY <1>1, <1>2, <1>8, CallEnds DEF ListenDeletedCallback, ListenCallbackFound,
     ListenCallbackDone, ListenCallbacksSet, OnlyPc, Go, PcOK
<1>9. CASE /\ ~ListenOpenedCallback /\ ~ListenOpenFailedCallback
           /\ ~ListenAcceptedCallback /\ ~ListenAcceptFailedCallback
           /\ ~ListenReceived /\ ~ListenDeletedCallback
  <2>1. pc["listen"] \notin OnLabels /\ pc'["listen"] \notin OnLabels
    BY <1>1, <1>9 DEF OnLabels, _listenThreadJob, ListenWhile, ListenFlags,
       ListenFlags2, ListenOpened, ListenOpenFailed, ListenClose,
       ListenClosedCallback, ListenClear, _pauseUntilPeersOrListenerAvailable,
       ListenDestructor, ListenNoAccept, ListenAccepted, ListenAcceptFailed,
       ListenNothingReceived, ListenReceiveFailed, ListenNoDelete,
       ListenDelete, ListenReceiveDone, PauseTest, PauseBlock, StartReceiving,
       Go, PcOK
  <2> QED
    BY <1>3, <2>1 DEF OnLabels, ListenCallbacksSet
<1> QED
  BY <1>4, <1>5, <1>6, <1>7, <1>8, <1>9

\* The same for the send thread.
LEMMA SendKeepsCallbacks ==
  ASSUME InvParts, SendCallbacksSet, ~terminated, _sendThreadJob
  PROVE  SendCallbacksSet' /\ (terminated' => calls'["clearCallback"] # 0)
<1>1. PcOK
  BY DEF InvParts, TypeOK
<1>2. UNCHANGED <<m_callbacks, calls>>
  BY SendFrame DEF sendUnchanged
<1>3. CASE SendSentCallback \/ SendErrorCallback
  BY <1>1, <1>2, <1>3, CallEnds
     DEF SendSentCallback, SendErrorCallback, SendCallback,
     SendCallbacksSet, PopAndUnlock, Go, PcOK
<1>4. CASE ~SendSentCallback /\ ~SendErrorCallback
  <2>1. terminated' = terminated
    BY <1>4 DEF _sendThreadJob, SendWhile, SendPause,
       _pauseUntilDataToSendAvailable, SendNothing, SendNoPeer, SendDropped,
       SendBytes, SendFailed
  <2>2. pc'["send"] \notin {"onSend", "onSendError"}
    BY <1>1, <1>4 DEF _sendThreadJob, SendWhile, SendPause,
       _pauseUntilDataToSendAvailable, SendNothing, SendNoPeer, SendDropped,
       SendBytes, SendFailed, PauseTest, PauseBlock, PopAndUnlock, Go, PcOK
  <2> QED
    BY <2>1, <2>2 DEF SendCallbacksSet
<1> QED
  BY <1>3, <1>4

\* A thread other than the listen thread leaves its callbacks set,
LEMMA ListenCallbacksKept ==
  ASSUME ListenCallbacksSet, NEW t \in Threads, t # "listen", LockStep(t),
         pc["listen"] = "onDisconnect" => UNCHANGED <<m_disconn, current>>,
         calls'["clearCallback"] = 0 =>
           calls["clearCallback"] = 0 /\ m_callbacks \subseteq m_callbacks'
  PROVE  ListenCallbacksSet'
<1>1. pc'["listen"] = pc["listen"] \/ pc'["listen"] \in {"pause", "while"}
  BY DEF LockStep
<1> QED
  BY <1>1 DEF ListenCallbacksSet

\* and one other than the send thread those of the send thread.
LEMMA SendCallbacksKept ==
  ASSUME SendCallbacksSet, NEW t \in Threads, t # "send", LockStep(t),
         calls'["clearCallback"] = 0 =>
           calls["clearCallback"] = 0 /\ m_callbacks \subseteq m_callbacks'
  PROVE  SendCallbacksSet'
<1>1. pc'["send"] = pc["send"] \/ pc'["send"] \in {"pause", "while"}
  BY DEF LockStep
<1> QED
  BY <1>1 DEF SendCallbacksSet

\* A call ends the process only where it assigns a listen thread to one that
\* was started before.
LEMMA CallerEnds ==
  ASSUME InvParts, ~terminated, NEW c \in Callers, Call(c) \/ Continue(c)
  PROVE  terminated' => starts'["listen"] > 1
<1>1. CASE Call(c)
  BY <1>1, CallFrame
<1>2. CASE _startListenThreadIfNotRunning(c)
  <2>1. starts \in [Workers -> Nat] /\ StartsCounted
    BY DEF InvParts, TypeOK, LifeOK
  <2>2. CASE pc[c] = "start_thread" /\ pc["listen"] # "off"
    <3>1. starts["listen"] \in Nat /\ starts["listen"] >= 1
      BY <2>1, <2>2 DEF StartsCounted
    <3>2. starts'["listen"] = starts["listen"] + 1
      BY <1>2, <2>1, <2>2 DEF _startListenThreadIfNotRunning
    <3> QED
      BY <3>1, <3>2
  <2>3. CASE ~(pc[c] = "start_thread" /\ pc["listen"] # "off")
    BY <1>2, <2>3 DEF _startListenThreadIfNotRunning, NoLife
  <2> QED
    BY <2>2, <2>3
<1>3. CASE Continue(c) /\ ~_startListenThreadIfNotRunning(c)
  BY <1>3 DEF Continue, connectTo_notify, doListen_changing,
     doListen_notify, stopListening_wakeup, stopListening_notify,
     sendData_notify, sendData_error, _destructor, destructor_stop,
     destructor_notify, destructor_join, destructor_end, destructor_members,
     NoLife
<1> QED
  BY <1>1, <1>2, <1>3

EndInv == SendCallbacksSet /\ ListenCallbacksSet

\* Every step of a node keeps this.
LEMMA NextKeepsEnd ==
  ASSUME InvParts, EndInv, [Next]_vars, NeverTerminates
  PROVE  EndInv' /\ NeverTerminates'
<1> USE DEF InvParts, TypeOK, EndInv
<1>1. calls["clearCallback"] \in Nat /\ calls'["clearCallback"] \in Nat
  BY InvIsItsParts, NextInv DEF ApplicationOK, ApiFunctions
<1>2. Next => ~terminated
  BY DEF Next
<1>3. CASE Next /\ _connectThreadJob
  BY <1>2, <1>3, ConnectLockStep, ConnectFrame,
     SendCallbacksKept, ListenCallbacksKept, ReasonKept
     DEF connectUnchanged, NeverTerminates
<1>4. CASE Next /\ _sendThreadJob
  BY <1>1, <1>2, <1>4, SendLockStep, SendFrame,
     SendKeepsCallbacks, ListenCallbacksKept, ReasonKept
     DEF sendUnchanged, NeverTerminates
<1>5. CASE Next /\ _listenThreadJob
  BY <1>1, <1>2, <1>5, ListenLockStep, ListenFrame,
     SendCallbacksKept, ListenKeepsCallbacks
     DEF listenUnchanged, NeverTerminates
<1>6. ASSUME Next, NEW c \in Callers, Call(c) PROVE EndInv' /\ NeverTerminates'
  BY <1>2, <1>6, CallLockStep, CallersDistinct, CallbacksKept, ReasonKept,
     CallerEnds, SendCallbacksKept, ListenCallbacksKept
     DEF NeverTerminates
<1>7. ASSUME Next, NEW c \in Callers, Continue(c)
      PROVE  EndInv' /\ NeverTerminates'
  BY <1>2, <1>7, ContinueLockStep, ContinueFrame, CallersDistinct, ReasonKept,
     CallerEnds, SendCallbacksKept, ListenCallbacksKept
     DEF NeverTerminates
<1>8. ASSUME NEW w \in Workers, SpuriousWakeup(w)
      PROVE  EndInv' /\ NeverTerminates'
  BY <1>8, CallersDistinct DEF SpuriousWakeup, Go, PcOK, SendCallbacksSet,
     ListenCallbacksSet, NeverTerminates
<1>9. CASE UNCHANGED vars
  BY <1>9 DEF vars, SendCallbacksSet, ListenCallbacksSet, NeverTerminates
<1> QED
  BY <1>3, <1>4, <1>5, <1>6, <1>7, <1>8, <1>9 DEF Next

\* Whatever any number of application threads call at the same time, the node
\* ends the process in two ways only: by calling a callback that was reset
\* after it was found to be set, and by starting a second listen thread.
THEOREM TwoWaysToTerminate == Spec => []NeverTerminates
<1>1. Init => EndInv /\ NeverTerminates
  BY DEF Init, EndInv, SendCallbacksSet, ListenCallbacksSet, NeverTerminates
<1>2. Inv /\ [Next]_vars /\ EndInv /\ NeverTerminates
      => EndInv' /\ NeverTerminates'
  BY NextKeepsEnd, InvIsItsParts
<1> QED
  BY <1>1, <1>2, InvAlways, PTL DEF Spec

=============================================================================
